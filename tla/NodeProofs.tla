----------------------------- MODULE NodeProofs -----------------------------
(***************************************************************************)
(* Theorems about the node's processes, for every number of processes,     *)
(* every configuration, and any order of failures, signals, edits, kills   *)
(* and restarts: the exit code tells the truth, only the API can make the  *)
(* drain time out, and the tokens in force are those of the file.          *)
(***************************************************************************)
EXTENDS Node, TLAPS

Fields == {"pc", "k", "seen", "ino", "config", "tokens", "last", "watching", "dirty", "missed",
           "task", "joined", "shutdown", "conn", "elapsed", "reason", "failure", "result"}

Over(how) == how \in {"ok", "panic"}

\* Only the API's task panics, only listeners drain.
TasksOK(task) ==
    /\ "api" \in DOMAIN task /\ "watcher" \in DOMAIN task
    /\ \A t \in DOMAIN task :
          /\ task[t] \in {"run", "drain", "ok", "panic"}
          /\ task[t] = "panic" => t = "api"
          /\ t \in {"api", "watcher"} => task[t] # "drain"

\* A process that drains: what it has joined, what it blames, how long it has waited.
DrainOK(n) ==
    /\ \A t \in n.joined : t \in DOMAIN n.task /\ Over(n.task[t])
    /\ n.reason \in {"ctrl_c", "task_exit"}
    /\ n.failure \in {None, "TaskPanicked", "TaskExitedEarly"}
    /\ n.reason = "task_exit" => n.failure # None
    /\ n.failure = "TaskExitedEarly" => n.reason = "task_exit"
    /\ n.failure = "TaskPanicked" => \E t \in DOMAIN n.task : n.task[t] = "panic"
    /\ n.failure = None => \A t \in n.joined : n.task[t] = "ok"
    /\ n.elapsed \in {0, 1, 2}
    /\ n.elapsed >= 1 => \A t \in DOMAIN n.task \ {"api"} : n.task[t] # "run"
    /\ n.elapsed = 2 => \A t \in DOMAIN n.task : n.task[t] # "drain"

\* A process that has exited: ExitHonest and OnlyApiTimesOut, of its record.
ExitOK(task, joined, reason, result) ==
    /\ result = "Ok" => reason = "ctrl_c" /\ \A t \in DOMAIN task : task[t] = "ok"
    /\ result = "TaskPanicked" => \E t \in DOMAIN task : task[t] = "panic"
    /\ result = "DrainTimedOut" =>
           /\ reason = "ctrl_c" /\ \A t \in joined : task[t] = "ok"
           /\ \A t \in DOMAIN task \ {"api"} : task[t] = "ok"
    /\ reason = "task_exit" => result \in {"TaskPanicked", "TaskExitedEarly", "Killed"}

ProcessOK(n) ==
    /\ DOMAIN n = Fields
    /\ n.pc # "exited" => n.result = None
    /\ n.pc \notin {"draining", "exited"} => n.reason = None
    /\ n.pc \notin {"draining", "exited"} => n.joined = {}
    /\ n.pc # "draining" => n.failure = None /\ n.elapsed = 0
    /\ n.pc \in {"running", "draining"} => TasksOK(n.task)
    /\ n.pc = "draining" => DrainOK(n)
    /\ n.pc = "exited" => ExitOK(n.task, n.joined, n.reason, n.result)

\* The tokens in force are those last loaded: the file's, unless an event is pending.
Current(n, f) ==
    n.pc \notin {"down", "exited"} =>
        /\ n.tokens = n.last.tokens
        /\ ~n.dirty /\ ~n.missed /\ f.parses => n.tokens = f.tokens

NodeInv ==
    /\ node = [i \in Nodes |-> node[i]]
    /\ \A i \in Nodes : ProcessOK(node[i]) /\ Current(node[i], file)

-----------------------------------------------------------------------------
LEMMA DownFields ==
    /\ DOMAIN Down = Fields
    /\ Down.pc = "down" /\ Down.ino = 0 /\ Down.task = <<>> /\ Down.joined = {}
    /\ Down.elapsed = 0 /\ Down.reason = None /\ Down.failure = None /\ Down.result = None
    /\ ~Down.dirty /\ ~Down.missed /\ ~Down.watching
BY DEF Down, Fields

\* A step of one process that leaves the file alone.
LEMMA OneNode ==
    ASSUME NodeInv, NEW i \in Nodes, NEW n, Becomes(i, n), file' = file,
           ProcessOK(n), Current(n, file)
    PROVE  NodeInv'
<1>1. /\ node' = [j \in Nodes |-> node'[j]] /\ node'[i] = n
      /\ \A j \in Nodes \ {i} : node'[j] = node[j]
  BY DEF Becomes, NodeInv
<1>2. ASSUME NEW j \in Nodes PROVE ProcessOK(node'[j]) /\ Current(node'[j], file')
  <2>1. CASE j = i
    BY <1>1, <2>1
  <2>2. CASE j # i
    BY <1>1, <2>2 DEF NodeInv
  <2> QED BY <2>1, <2>2
<1> QED BY <1>1, <1>2 DEF NodeInv

\* The process ends.
LEMMA ExitStep ==
    ASSUME NodeInv, NEW i \in Nodes, NEW task, NEW result, ExitWith(i, task, result),
           file' = file, ExitOK(task, node[i].joined, node[i].reason, result)
    PROVE  NodeInv'
<1> DEFINE n == [Down EXCEPT !.pc = "exited", !.task = task, !.reason = node[i].reason,
                             !.joined = node[i].joined, !.result = result]
<1>1. /\ DOMAIN n = Fields /\ n.pc = "exited" /\ n.task = task /\ n.reason = node[i].reason
      /\ n.result = result /\ n.joined = node[i].joined /\ n.failure = None /\ n.elapsed = 0
  BY DownFields DEF Fields
<1>2. Becomes(i, n)
  BY DEF ExitWith
<1> HIDE DEF n
<1>3. ProcessOK(n) /\ Current(n, file)
  BY <1>1 DEF ProcessOK, Current
<1> QED BY <1>2, <1>3, OneNode

\* It fails to start, or is killed.
LEMMA FatalStep ==
    ASSUME NodeInv, NEW i \in Nodes, file' = file,
           (node[i].pc \notin {"draining", "exited"} /\ Fatal(i)) \/ Exit(i, "Killed")
    PROVE  NodeInv'
<1>1. CASE node[i].pc \notin {"draining", "exited"} /\ Fatal(i)
  <2>1. node[i].reason = None
    BY <1>1 DEF NodeInv, ProcessOK
  <2>2. ExitOK(node[i].task, node[i].joined, node[i].reason, "Fatal")
    BY <2>1 DEF ExitOK, None
  <2> QED BY <1>1, <2>2, ExitStep DEF Fatal, Exit
<1>2. CASE Exit(i, "Killed")
  <2>1. ExitOK(node[i].task, node[i].joined, node[i].reason, "Killed")
    BY DEF ExitOK
  <2> QED BY <1>2, <2>1, ExitStep DEF Exit
<1> QED BY <1>1, <1>2

Starting == {"bind", "probe", "restat", "remove", "listen", "chmod", "open"}

\* A step of the start that changes where it stands and what it found.
LEMMA StartingStep ==
    ASSUME NodeInv, NEW i \in Nodes, NEW n, Becomes(i, n), file' = file,
           node[i].pc \in Starting, n.pc \in Starting, DOMAIN n = Fields,
           n.task = node[i].task, n.joined = node[i].joined, n.failure = node[i].failure,
           n.elapsed = node[i].elapsed, n.reason = node[i].reason, n.result = node[i].result,
           n.tokens = node[i].tokens, n.last = node[i].last,
           n.dirty = node[i].dirty, n.missed = node[i].missed
    PROVE  NodeInv'
<1>1. ProcessOK(node[i]) /\ Current(node[i], file)
  BY DEF NodeInv
<1>2. ProcessOK(n)
  BY <1>1 DEF ProcessOK, Starting
<1>3. Current(n, file)
  BY <1>1 DEF Current, Starting
<1> QED BY <1>2, <1>3, OneNode

\* The steps that bind the listeners and the API.
LEMMA StartStepInv ==
    ASSUME NodeInv, NEW i \in Nodes, StartStep(i)
    PROVE  NodeInv'
<1> DEFINE n == node[i]
<1>1. DOMAIN n = Fields /\ file' = file
  BY DEF NodeInv, ProcessOK, StartStep, tcp_bind, symlink_metadata, Probe, Restat, remove_file,
         unix_bind, set_permissions, UnixBindErr, ApiBind, OpenLog
<1>2. CASE Fatal(i) /\ n.pc \in Starting
  BY <1>1, <1>2, FatalStep DEF Starting
<1> HIDE DEF n
<1>3. ASSUME NEW m, Becomes(i, m), n.pc \in Starting,
             \/ \E p \in Starting : m = [n EXCEPT !.pc = p]
             \/ \E p \in Starting : \E s : m = [n EXCEPT !.seen = s, !.pc = p]
             \/ \E p \in Starting : \E s, q : m = [n EXCEPT !.pc = p, !.ino = s, !.seen = q]
             \/ m = [n EXCEPT !.pc = "bind", !.k = @ + 1]
      PROVE  NodeInv'
  <2>1. /\ m.pc \in Starting /\ DOMAIN m = Fields
        /\ m.task = n.task /\ m.joined = n.joined /\ m.failure = n.failure
        /\ m.elapsed = n.elapsed /\ m.reason = n.reason /\ m.result = n.result
        /\ m.tokens = n.tokens /\ m.last = n.last /\ m.dirty = n.dirty /\ m.missed = n.missed
    BY <1>1, <1>3, ZenonT(30) DEF Fields, Starting
  <2> QED BY <1>1, <1>3, <2>1, StartingStep DEF n
<1>4. CASE tcp_bind(i)
  <2>1. CASE Fatal(i)
    BY <1>2, <1>4, <2>1 DEF tcp_bind, Starting, n
  <2>2. CASE Becomes(i, NextListener(i, node[i]))
    BY <1>3, <1>4, <2>2 DEF tcp_bind, Starting, n, NextListener
  <2> QED BY <1>4, <2>1, <2>2 DEF tcp_bind
<1>5. CASE symlink_metadata(i)
  <2>1. CASE Fatal(i)
    BY <1>2, <1>5, <2>1 DEF symlink_metadata, Starting, n
  <2>2. CASE \E p \in Starting : \E s : Becomes(i, [[n EXCEPT !.seen = s] EXCEPT !.pc = p])
    <3>1. PICK p \in Starting : \E s : Becomes(i, [n EXCEPT !.seen = s, !.pc = p])
      BY <2>2
    <3> QED BY <1>3, <1>5, <3>1 DEF symlink_metadata, Starting, n
  <2> QED BY <1>5, <2>1, <2>2 DEF symlink_metadata, Proceed, Starting, n
<1>6. CASE Probe(i)
  <2>1. CASE Fatal(i)
    BY <1>2, <1>6, <2>1 DEF Probe, Starting, n
  <2>2. CASE ~Fatal(i)
    BY <1>3, <1>6, <2>2 DEF Probe, Proceed, Starting, n
  <2> QED BY <2>1, <2>2
<1>7. CASE Restat(i)
  <2>1. CASE Fatal(i)
    BY <1>2, <1>7, <2>1 DEF Restat, Starting, n
  <2>2. CASE ~Fatal(i)
    BY <1>3, <1>7, <2>2 DEF Restat, Proceed, Starting, n
  <2> QED BY <2>1, <2>2
<1>8. CASE remove_file(i)
  BY <1>3, <1>8 DEF remove_file, Proceed, Starting, n
<1>9. CASE unix_bind(i)
  <2>1. CASE Fatal(i)
    BY <1>2, <1>9, <2>1 DEF unix_bind, Starting, n
  <2>2. CASE ~Fatal(i)
    BY <1>3, <1>9, <2>2 DEF unix_bind, Proceed, Starting, n
  <2> QED BY <2>1, <2>2
<1>10. CASE set_permissions(i)
  <2>1. CASE Fatal(i)
    BY <1>2, <1>10, <2>1 DEF set_permissions, Starting, n
  <2>2. CASE ~Fatal(i)
    BY <1>3, <1>10, <2>2 DEF set_permissions, Proceed, NextListener, Starting, n
  <2> QED BY <2>1, <2>2
<1>11. CASE ApiBind(i)
  <2>1. CASE Fatal(i)
    BY <1>2, <1>11, <2>1 DEF ApiBind, Starting, n
  <2>2. CASE ~Fatal(i)
    BY <1>3, <1>11, <2>2 DEF ApiBind, Starting, n
  <2> QED BY <2>1, <2>2
<1>12. CASE OpenLog(i)
  <2>1. CASE Fatal(i)
    BY <1>2, <1>12, <2>1 DEF OpenLog, Starting, n
  <2>2. CASE ~Fatal(i)
    <3> DEFINE task == [t \in Ids(n.config.listeners) \cup {"api", "watcher"} |-> "run"]
               m == [n EXCEPT !.pc = "running", !.task = task]
    <3>1. Becomes(i, m) /\ n.pc = "open"
      BY <1>12, <2>2 DEF OpenLog, Proceed, n
    <3>2. TasksOK(task)
      BY DEF TasksOK
    <3> HIDE DEF task
    <3>3. /\ DOMAIN m = Fields /\ m.pc = "running" /\ m.task = task
          /\ m.joined = n.joined /\ m.failure = n.failure
          /\ m.elapsed = n.elapsed /\ m.reason = n.reason /\ m.result = n.result
          /\ m.tokens = n.tokens /\ m.last = n.last /\ m.dirty = n.dirty /\ m.missed = n.missed
      BY <1>1 DEF Fields
    <3> HIDE DEF m
    <3>4. ProcessOK(n) /\ Current(n, file)
      BY DEF NodeInv, n
    <3>5. ProcessOK(m)
      BY <3>1, <3>2, <3>3, <3>4 DEF ProcessOK
    <3>6. Current(m, file)
      BY <3>1, <3>3, <3>4 DEF Current
    <3> QED BY <1>1, <3>1, <3>5, <3>6, OneNode
  <2> QED BY <2>1, <2>2
<1>13. CASE UnixBindErr(i)
  BY <1>2, <1>13 DEF UnixBindErr, Starting, n
<1> QED BY <1>4, <1>5, <1>6, <1>7, <1>8, <1>9, <1>10, <1>11, <1>12, <1>13 DEF StartStep

\* run_from_config_path: a fresh process, or a refused configuration.
LEMMA StartInv ==
    ASSUME NodeInv, NEW i \in Nodes, Start(i)
    PROVE  NodeInv'
<1>1. CASE Fatal(i)
  BY <1>1, FatalStep DEF Start
<1>2. CASE ~Fatal(i)
  <2> DEFINE m == [Down EXCEPT !.pc = "bind", !.config = file, !.last = file,
                               !.tokens = file.tokens]
  <2>1. Becomes(i, m) /\ file' = file
    BY <1>2 DEF Start, Proceed
  <2>2. /\ DOMAIN m = Fields /\ m.pc = "bind" /\ m.last = file /\ m.tokens = file.tokens
        /\ m.joined = {} /\ m.failure = None
        /\ m.elapsed = 0 /\ m.reason = None /\ m.result = None
    BY DownFields DEF Fields
  <2> HIDE DEF m
  <2>3. ProcessOK(m) /\ Current(m, file)
    BY <2>2 DEF ProcessOK, Current
  <2> QED BY <2>1, <2>3, OneNode
<1> QED BY <1>1, <1>2

-----------------------------------------------------------------------------
\* A task that has not ended ends, or leaves its loop.
LEMMA TaskStep ==
    ASSUME NodeInv, NEW i \in Nodes, NEW t, NEW how, NEW ino, NEW m, Becomes(i, m), file' = file,
           Alive(i),
           t \in DOMAIN node[i].task, node[i].task[t] \in {"run", "drain"},
           how \in {"drain", "ok", "panic"}, how = "panic" => t = "api",
           how = "drain" => t \notin {"api", "watcher"} /\ node[i].task[t] = "run",
           \/ m = [node[i] EXCEPT !.task[t] = how]
           \/ m = [node[i] EXCEPT !.task[t] = how, !.ino = ino]
    PROVE  NodeInv'
<1> DEFINE n == node[i]
<1>1. ProcessOK(n) /\ Current(n, file) /\ DOMAIN n = Fields
  BY DEF NodeInv, ProcessOK
<1>2. /\ DOMAIN m = Fields /\ m.pc = n.pc /\ m.task = [n.task EXCEPT ![t] = how]
      /\ m.joined = n.joined /\ m.failure = n.failure
      /\ m.elapsed = n.elapsed /\ m.reason = n.reason /\ m.result = n.result
      /\ m.tokens = n.tokens /\ m.last = n.last /\ m.dirty = n.dirty /\ m.missed = n.missed
  BY <1>1 DEF Fields
<1>3. /\ DOMAIN m.task = DOMAIN n.task /\ m.task[t] = how
      /\ \A u \in DOMAIN n.task : u # t => m.task[u] = n.task[u]
  BY <1>2
<1>4. Current(m, file)
  BY <1>1, <1>2 DEF Current
<1>5. TasksOK(m.task)
  BY <1>1, <1>3 DEF ProcessOK, TasksOK, Alive
<1>6. CASE n.pc = "draining"
  <2>1. DrainOK(n)
    BY <1>1, <1>6 DEF ProcessOK
  <2>2. t \notin n.joined
    BY <2>1 DEF DrainOK, Over
  <2>3. /\ \A u \in m.joined : u \in DOMAIN m.task /\ Over(m.task[u])
        /\ m.failure = None => \A u \in m.joined : m.task[u] = "ok"
    BY <1>2, <1>3, <2>1, <2>2 DEF DrainOK
  <2>4. m.failure = "TaskPanicked" => \E u \in DOMAIN m.task : m.task[u] = "panic"
    BY <1>2, <1>3, <2>1 DEF DrainOK
  <2>5. m.elapsed >= 1 => \A u \in DOMAIN m.task \ {"api"} : m.task[u] # "run"
    BY <1>2, <1>3, <2>1 DEF DrainOK
  <2>6. m.elapsed = 2 => \A u \in DOMAIN m.task : m.task[u] # "drain"
    BY <1>2, <1>3, <2>1 DEF DrainOK
  <2>7. DrainOK(m)
    BY <1>2, <2>1, <2>3, <2>4, <2>5, <2>6 DEF DrainOK
  <2>8. ProcessOK(m)
    BY <1>1, <1>2, <1>5, <1>6, <2>7 DEF ProcessOK
  <2> QED BY <1>4, <2>8, OneNode
<1>7. CASE n.pc = "running"
  <2>1. ProcessOK(m)
    BY <1>1, <1>2, <1>5, <1>7 DEF ProcessOK
  <2> QED BY <1>4, <2>1, OneNode
<1> QED BY <1>6, <1>7 DEF Alive

\* A step that changes neither the tasks nor what has been joined.
LEMMA SideStep ==
    ASSUME NodeInv, NEW i \in Nodes, NEW m, Becomes(i, m), file' = file, DOMAIN m = Fields,
           m.pc = node[i].pc, m.task = node[i].task, m.joined = node[i].joined,
           m.failure = node[i].failure, m.reason = node[i].reason, m.result = node[i].result,
           m.elapsed = node[i].elapsed, Current(m, file)
    PROVE  NodeInv'
<1>1. ProcessOK(node[i])
  BY DEF NodeInv
<1>2. ProcessOK(m)
  BY <1>1 DEF ProcessOK, DrainOK
<1> QED BY <1>2, OneNode

\* The tasks' own steps.
LEMMA TasksInv ==
    ASSUME NodeInv, NEW i \in Nodes, file' = file,
           \/ ApiFails(i) \/ CloseConnection(i) \/ ApiStops(i) \/ ListenerStops(i)
           \/ Watch(i) \/ WatcherStops(i) \/ PollTick(i)
    PROVE  NodeInv'
<1> DEFINE n == node[i]
<1>1. ProcessOK(n) /\ Current(n, file) /\ DOMAIN n = Fields
  BY DEF NodeInv, ProcessOK
<1>2. Alive(i)
  BY DEF ApiFails, CloseConnection, ApiStops, ListenerStops, Watch, WatcherStops, PollTick, Runs
<1>3. "api" \in DOMAIN n.task /\ "watcher" \in DOMAIN n.task
  BY <1>1, <1>2 DEF ProcessOK, TasksOK, Alive
<1>4. CASE ApiFails(i)
  BY <1>2, <1>3, <1>4, TaskStep DEF ApiFails, Runs, Ends, Proceed
<1>5. CASE ApiStops(i)
  BY <1>2, <1>3, <1>5, TaskStep DEF ApiStops, Runs, Ends, Proceed
<1>6. CASE WatcherStops(i)
  BY <1>2, <1>3, <1>6, TaskStep DEF WatcherStops, Runs, Ends, Proceed
<1>7. CASE ListenerStops(i)
  <2>1. PICK t \in Names(i) \ {"api", "watcher"} :
          \/ Runs(i, t) /\ n.shutdown /\ Ends(i, t, "drain")
          \/ /\ Alive(i) /\ n.task[t] = "drain"
             /\ Becomes(i, [n EXCEPT !.task[t] = "ok",
                                     !.ino = IF Serves(i, t, "unix") THEN 0 ELSE @])
    BY <1>7 DEF ListenerStops
  <2>2. t \in DOMAIN n.task /\ t \notin {"api", "watcher"}
    BY DEF Names
  <2>3. CASE Runs(i, t) /\ Ends(i, t, "drain")
    <3> DEFINE m == [n EXCEPT !.task[t] = "drain"]
    <3>1. Becomes(i, m) /\ n.task[t] = "run"
      BY <2>3 DEF Runs, Ends, Proceed
    <3>2. /\ n.task[t] \in {"run", "drain"} /\ "drain" \in {"drain", "ok", "panic"}
          /\ "drain" # "panic" /\ t \notin {"api", "watcher"}
      BY <2>2, <3>1
    <3> HIDE DEF m
    <3>3. m = [node[i] EXCEPT !.task[t] = "drain"]
      BY DEF m
    <3> QED BY <1>2, <2>2, <3>1, <3>2, <3>3, TaskStep
  <2> DEFINE ino == IF Serves(i, t, "unix") THEN 0 ELSE n.ino
             m == [n EXCEPT !.task[t] = "ok", !.ino = ino]
  <2>4. CASE n.task[t] = "drain" /\ Becomes(i, m)
    <3>1. Becomes(i, m)
      BY <2>4
    <3>2. /\ n.task[t] \in {"run", "drain"} /\ "ok" \in {"drain", "ok", "panic"}
          /\ "ok" # "panic" /\ "ok" # "drain"
      BY <2>4
    <3> HIDE DEF m, ino
    <3>3. m = [node[i] EXCEPT !.task[t] = "ok", !.ino = ino]
      BY DEF m
    <3> QED BY <1>2, <2>2, <2>4, <3>1, <3>2, <3>3, TaskStep
  <2> QED BY <2>1, <2>3, <2>4
<1>8. CASE CloseConnection(i)
  <2> DEFINE m == [n EXCEPT !.conn = FALSE]
  <2>1. Becomes(i, m)
    BY <1>8 DEF CloseConnection, Proceed
  <2>2. /\ DOMAIN m = Fields /\ m.pc = n.pc /\ m.task = n.task /\ m.joined = n.joined
        /\ m.failure = n.failure /\ m.elapsed = n.elapsed /\ m.reason = n.reason
        /\ m.result = n.result /\ m.tokens = n.tokens /\ m.last = n.last
        /\ m.dirty = n.dirty /\ m.missed = n.missed
    BY <1>1 DEF Fields
  <2> HIDE DEF m
  <2>3. Current(m, file)
    BY <1>1, <2>2 DEF Current
  <2> QED BY <2>1, <2>2, <2>3, SideStep
<1>9. CASE Watch(i)
  <2>1. CASE Ends(i, "watcher", "ok")
    BY <1>2, <1>3, <1>9, <2>1, TaskStep DEF Watch, Runs, Ends, Proceed
  <2>2. CASE Becomes(i, [n EXCEPT !.watching = TRUE])
    <3> DEFINE m == [n EXCEPT !.watching = TRUE]
    <3>1. /\ DOMAIN m = Fields /\ m.pc = n.pc /\ m.task = n.task /\ m.joined = n.joined
          /\ m.failure = n.failure /\ m.elapsed = n.elapsed /\ m.reason = n.reason
          /\ m.result = n.result /\ m.tokens = n.tokens /\ m.last = n.last
          /\ m.dirty = n.dirty /\ m.missed = n.missed
      BY <1>1 DEF Fields
    <3>2. Becomes(i, m)
      BY <2>2
    <3> HIDE DEF m
    <3>3. Current(m, file)
      BY <1>1, <3>1 DEF Current
    <3> QED BY <3>1, <3>2, <3>3, SideStep
  <2> QED BY <1>9, <2>1, <2>2 DEF Watch, Proceed
<1>10. CASE PollTick(i)
  <2> DEFINE d == [n EXCEPT !.dirty = FALSE]
             m == IF file.parses THEN try_apply_reload(d, file) ELSE d
  <2>1. Becomes(i, m)
    BY <1>10 DEF PollTick, Proceed
  <2>2. /\ DOMAIN d = Fields /\ d.pc = n.pc /\ d.task = n.task /\ d.joined = n.joined
        /\ d.failure = n.failure /\ d.elapsed = n.elapsed /\ d.reason = n.reason
        /\ d.result = n.result /\ d.tokens = n.tokens /\ d.last = n.last
    BY <1>1 DEF Fields
  <2> HIDE DEF d
  <2>3. n.tokens = n.last.tokens
    BY <1>1, <1>2 DEF Current, Alive
  <2>4. CASE file.parses
    <3> DEFINE new == IF file.tokens # d.last.tokens THEN file.tokens ELSE d.tokens
               u == [d EXCEPT !.tokens = new, !.last = file]
    <3>1. Becomes(i, u)
      BY <2>1, <2>4 DEF try_apply_reload
    <3>2. new = file.tokens
      BY <2>2, <2>3
    <3> HIDE DEF new
    <3>3. /\ DOMAIN u = Fields /\ u.pc = d.pc /\ u.task = d.task /\ u.joined = d.joined
          /\ u.failure = d.failure /\ u.elapsed = d.elapsed /\ u.reason = d.reason
          /\ u.result = d.result /\ u.tokens = new /\ u.last = file
      BY <2>2 DEF Fields
    <3> HIDE DEF u
    <3>4. Current(u, file)
      BY <3>2, <3>3 DEF Current
    <3> QED BY <2>2, <3>1, <3>3, <3>4, SideStep
  <2>5. CASE ~file.parses
    <3>1. Becomes(i, d)
      BY <2>1, <2>5
    <3>2. Current(d, file)
      BY <2>2, <2>3, <2>5 DEF Current
    <3> QED BY <2>2, <3>1, <3>2, SideStep
  <2> QED BY <2>4, <2>5
<1> QED BY <1>4, <1>5, <1>6, <1>7, <1>8, <1>9, <1>10

\* A task that has ended, with what has to be known of it.
LEMMA EndedFacts ==
    ASSUME NEW i \in Nodes, NEW t \in Ended(i)
    PROVE  t \in DOMAIN node[i].task /\ node[i].task[t] \in {"ok", "panic"}
BY DEF Ended, Names

LEMMA CtrlCInv ==
    ASSUME NodeInv, NEW i \in Nodes, CtrlC(i), file' = file
    PROVE  NodeInv'
<1> DEFINE n == node[i]
<1>1. ProcessOK(n) /\ Current(n, file) /\ DOMAIN n = Fields /\ n.pc = "running"
  BY DEF NodeInv, ProcessOK, CtrlC
<1>2. PICK open : Becomes(i, [n EXCEPT !.pc = "draining", !.shutdown = TRUE,
                                       !.reason = "ctrl_c", !.conn = open])
  BY DEF CtrlC, SendShutdown, Proceed
<1> DEFINE m == [n EXCEPT !.pc = "draining", !.shutdown = TRUE, !.reason = "ctrl_c", !.conn = open]
<1>3. /\ DOMAIN m = Fields /\ m.pc = "draining" /\ m.reason = "ctrl_c" /\ m.task = n.task
      /\ m.joined = n.joined /\ m.failure = n.failure /\ m.elapsed = n.elapsed
      /\ m.result = n.result /\ m.tokens = n.tokens /\ m.last = n.last
      /\ m.dirty = n.dirty /\ m.missed = n.missed
  <2>1. m = [n EXCEPT !.pc = "draining", !.shutdown = TRUE, !.reason = "ctrl_c", !.conn = open]
    OBVIOUS
  <2> HIDE DEF m, n
  <2> QED BY <1>1, <2>1 DEF Fields
<1> HIDE DEF m
<1>4. DrainOK(m) /\ TasksOK(m.task)
  BY <1>1, <1>3 DEF ProcessOK, DrainOK, None
<1>5. ProcessOK(m) /\ Current(m, file)
  BY <1>1, <1>3, <1>4 DEF ProcessOK, Current
<1>6. Becomes(i, m)
  BY <1>2 DEF m
<1> QED BY <1>5, <1>6, OneNode

\* A task ended by itself: the failure is kept, and the others are told to stop.
LEMMA JoinEarlyInv ==
    ASSUME NodeInv, NEW i \in Nodes, JoinEarly(i), file' = file
    PROVE  NodeInv'
<1> DEFINE n == node[i]
<1>1. ProcessOK(n) /\ Current(n, file) /\ DOMAIN n = Fields /\ n.pc = "running"
  BY DEF NodeInv, ProcessOK, JoinEarly
<1>2. PICK t \in Ended(i) :
        SendShutdown(i, [n EXCEPT !.joined = @ \cup {t},
                                  !.failure = get_or_insert(@, classify_unexpected_exit(n.task[t]))],
                     "task_exit")
  BY DEF JoinEarly
<1>3. t \in DOMAIN n.task /\ n.task[t] \in {"ok", "panic"}
  BY EndedFacts
<1> DEFINE f == classify_unexpected_exit(n.task[t])
           j == [n EXCEPT !.joined = @ \cup {t}, !.failure = get_or_insert(@, f)]
<1>4. /\ DOMAIN j = Fields /\ j.joined = {t} /\ j.failure = f /\ j.task = n.task
      /\ j.elapsed = n.elapsed /\ j.result = n.result /\ j.tokens = n.tokens
      /\ j.last = n.last /\ j.dirty = n.dirty /\ j.missed = n.missed
  <2> HIDE DEF f
  <2>1. n.joined = {} /\ get_or_insert(n.failure, f) = f
    BY <1>1 DEF ProcessOK, get_or_insert
  <2> QED BY <1>1, <2>1 DEF Fields
<1>5. PICK open : Becomes(i, [j EXCEPT !.pc = "draining", !.shutdown = TRUE,
                                       !.reason = "task_exit", !.conn = open])
  BY <1>2 DEF SendShutdown, Proceed
<1>6. \/ f = "TaskPanicked" /\ n.task[t] = "panic"
      \/ f = "TaskExitedEarly" /\ n.task[t] = "ok"
  BY <1>3 DEF classify_unexpected_exit
<1> HIDE DEF j, f
<1> DEFINE m == [j EXCEPT !.pc = "draining", !.shutdown = TRUE, !.reason = "task_exit",
                          !.conn = open]
<1>7. /\ DOMAIN m = Fields /\ m.pc = "draining" /\ m.reason = "task_exit" /\ m.task = j.task
      /\ m.joined = j.joined /\ m.failure = j.failure /\ m.elapsed = j.elapsed
      /\ m.result = j.result /\ m.tokens = j.tokens /\ m.last = j.last
      /\ m.dirty = j.dirty /\ m.missed = j.missed
  <2>1. m = [j EXCEPT !.pc = "draining", !.shutdown = TRUE, !.reason = "task_exit", !.conn = open]
    OBVIOUS
  <2> HIDE DEF m, n
  <2> QED BY <1>4, <2>1 DEF Fields
<1> HIDE DEF m
<1>8. DrainOK(m) /\ TasksOK(m.task)
  BY <1>1, <1>3, <1>4, <1>6, <1>7 DEF ProcessOK, DrainOK, None, Over
<1>9. ProcessOK(m) /\ Current(m, file)
  BY <1>1, <1>4, <1>7, <1>8 DEF ProcessOK, Current
<1>10. Becomes(i, m)
  BY <1>5 DEF m
<1> QED BY <1>9, <1>10, OneNode

\* A task is joined while the process drains: a panic is kept if it is the first failure.
LEMMA JoinDrainInv ==
    ASSUME NodeInv, NEW i \in Nodes, JoinDrain(i), file' = file
    PROVE  NodeInv'
<1> DEFINE n == node[i]
<1>1. ProcessOK(n) /\ Current(n, file) /\ DOMAIN n = Fields /\ n.pc = "draining" /\ DrainOK(n)
  BY DEF NodeInv, ProcessOK, JoinDrain
<1>2. PICK t \in Ended(i) :
        Proceed(i, [n EXCEPT !.joined = @ \cup {t},
                             !.failure = IF n.task[t] = "panic" THEN get_or_insert(@, "TaskPanicked")
                                         ELSE @])
  BY DEF JoinDrain
<1>3. t \in DOMAIN n.task /\ n.task[t] \in {"ok", "panic"}
  BY EndedFacts
<1> DEFINE f == IF n.task[t] = "panic" THEN get_or_insert(n.failure, "TaskPanicked") ELSE n.failure
           m == [n EXCEPT !.joined = @ \cup {t}, !.failure = f]
<1>4. \/ n.task[t] = "ok" /\ f = n.failure
      \/ n.task[t] = "panic" /\ n.failure = None /\ f = "TaskPanicked"
      \/ n.task[t] = "panic" /\ n.failure # None /\ f = n.failure
  BY <1>3 DEF get_or_insert
<1>5. Becomes(i, m)
  BY <1>2 DEF Proceed
<1> HIDE DEF f
<1>6. /\ DOMAIN m = Fields /\ m.pc = n.pc /\ m.joined = n.joined \cup {t} /\ m.failure = f
      /\ m.task = n.task /\ m.reason = n.reason
      /\ m.elapsed = n.elapsed /\ m.result = n.result /\ m.tokens = n.tokens
      /\ m.last = n.last /\ m.dirty = n.dirty /\ m.missed = n.missed
  BY <1>1 DEF Fields
<1> HIDE DEF m
<1>7. DrainOK(m)
  <2>1. /\ \A u \in m.joined : u \in DOMAIN m.task /\ Over(m.task[u])
        /\ m.reason \in {"ctrl_c", "task_exit"}
        /\ m.elapsed \in {0, 1, 2}
        /\ m.elapsed >= 1 => \A u \in DOMAIN m.task \ {"api"} : m.task[u] # "run"
        /\ m.elapsed = 2 => \A u \in DOMAIN m.task : m.task[u] # "drain"
    BY <1>1, <1>3, <1>6 DEF DrainOK, Over
  <2>2. /\ m.failure \in {None, "TaskPanicked", "TaskExitedEarly"}
        /\ m.reason = "task_exit" => m.failure # None
        /\ m.failure = "TaskExitedEarly" => m.reason = "task_exit"
    BY <1>1, <1>4, <1>6 DEF DrainOK, None
  <2>3. m.failure = "TaskPanicked" => \E u \in DOMAIN m.task : m.task[u] = "panic"
    BY <1>1, <1>3, <1>4, <1>6 DEF DrainOK
  <2>4. m.failure = None => \A u \in m.joined : m.task[u] = "ok"
    BY <1>1, <1>4, <1>6 DEF DrainOK, None
  <2> QED BY <2>1, <2>2, <2>3, <2>4 DEF DrainOK
<1>8. ProcessOK(m) /\ Current(m, file)
  BY <1>1, <1>6, <1>7 DEF ProcessOK, Current
<1> QED BY <1>5, <1>8, OneNode

\* All tasks are joined: the process returns what it blames, or Ok.
LEMMA StopInv ==
    ASSUME NodeInv, NEW i \in Nodes, Stop(i), file' = file
    PROVE  NodeInv'
<1> DEFINE n == node[i]
           r == IF n.failure = None THEN "Ok" ELSE n.failure
<1>1. n.pc = "draining" /\ DrainOK(n) /\ n.joined = DOMAIN n.task
  BY DEF NodeInv, ProcessOK, Stop, AllJoined, Names
<1>2. ExitOK(n.task, n.joined, n.reason, r)
  BY <1>1 DEF DrainOK, ExitOK, None
<1> QED BY <1>2, ExitStep DEF Stop, Exit

\* The deadline passes: the tasks that are left are aborted.
LEMMA TimeoutInv ==
    ASSUME NodeInv, NEW i \in Nodes, DrainTimesOut(i), file' = file
    PROVE  NodeInv'
<1> DEFINE n == node[i]
           task == AbortUnderlying(i)
           r == get_or_insert(n.failure, "DrainTimedOut")
<1>1. n.pc = "draining" /\ DrainOK(n) /\ TasksOK(n.task) /\ n.elapsed = 2
  BY DEF NodeInv, ProcessOK, DrainTimesOut, Due, SHUTDOWN_DEADLINE
<1>2. /\ DOMAIN task = DOMAIN n.task
      /\ \A t \in DOMAIN n.task : Over(n.task[t]) => task[t] = n.task[t]
      /\ \A t \in DOMAIN n.task : ~Over(n.task[t]) => task[t] = "aborted"
  BY DEF AbortUnderlying, Names, Over
<1>3. \A t \in n.joined : t \in DOMAIN n.task /\ task[t] = n.task[t]
  BY <1>1, <1>2 DEF DrainOK
<1>4. \A t \in DOMAIN n.task \ {"api"} : n.task[t] = "ok"
  BY <1>1 DEF DrainOK, TasksOK
<1>5. (\E t \in DOMAIN task : task[t] = "panic") <=> \E t \in DOMAIN n.task : n.task[t] = "panic"
  BY <1>2 DEF Over
<1> HIDE DEF task
<1>6. CASE n.failure = None
  <2>1. r = "DrainTimedOut" /\ n.reason = "ctrl_c"
    BY <1>1, <1>6 DEF DrainOK, get_or_insert
  <2>2. \A t \in n.joined : task[t] = "ok"
    BY <1>1, <1>3, <1>6 DEF DrainOK
  <2>3. \A t \in DOMAIN task \ {"api"} : task[t] = "ok"
    BY <1>2, <1>4 DEF Over
  <2> QED BY <2>1, <2>2, <2>3, ExitStep DEF DrainTimesOut, ExitOK, task
<1>7. CASE n.failure # None
  <2>1. r = n.failure /\ r \in {"TaskPanicked", "TaskExitedEarly"}
    BY <1>1, <1>7 DEF DrainOK, get_or_insert
  <2>2. r = "TaskPanicked" => \E t \in DOMAIN task : task[t] = "panic"
    BY <1>1, <1>5, <2>1 DEF DrainOK
  <2>3. ExitOK(task, n.joined, n.reason, r)
    BY <2>1, <2>2 DEF ExitOK
  <2> QED BY <2>3, ExitStep DEF DrainTimesOut, task
<1> QED BY <1>6, <1>7

\* Time passes: no other task runs any more, and at the second tick no listener drains.
LEMMA TickInv ==
    ASSUME NodeInv, NEW i \in Nodes, Tick(i), file' = file
    PROVE  NodeInv'
<1> DEFINE n == node[i]
           e == n.elapsed + 1
           m == [n EXCEPT !.elapsed = e]
<1>1. /\ ProcessOK(n) /\ Current(n, file) /\ DOMAIN n = Fields
      /\ n.pc = "draining" /\ DrainOK(n) /\ TasksOK(n.task)
  BY DEF NodeInv, ProcessOK, Tick
<1>2. /\ n.elapsed \in {0, 1}
      /\ \A t \in DOMAIN n.task \ {"api"} : n.task[t] # "run"
      /\ n.elapsed = 1 => \A t \in DOMAIN n.task : n.task[t] # "drain"
  BY <1>1 DEF Tick, DrainOK, Names, ListenerInTime, LISTENER_DRAIN, SHUTDOWN_DEADLINE
<1>3. Becomes(i, m)
  BY DEF Tick, Proceed
<1> HIDE DEF e
<1>4. /\ DOMAIN m = Fields /\ m.pc = n.pc /\ m.joined = n.joined /\ m.failure = n.failure
      /\ m.task = n.task /\ m.reason = n.reason
      /\ m.elapsed = e /\ m.result = n.result /\ m.tokens = n.tokens
      /\ m.last = n.last /\ m.dirty = n.dirty /\ m.missed = n.missed
  BY <1>1 DEF Fields
<1> HIDE DEF m
<1>5. /\ e \in {0, 1, 2} /\ (e = 2 => n.elapsed = 1)
  BY <1>2 DEF e
<1>6. DrainOK(m)
  BY <1>1, <1>2, <1>4, <1>5 DEF DrainOK
<1>7. ProcessOK(m) /\ Current(m, file)
  BY <1>1, <1>4, <1>6 DEF ProcessOK, Current
<1> QED BY <1>3, <1>7, OneNode

\* The operator saves the file: whoever watches it has an event, whoever does not missed it.
LEMMA EditInv ==
    ASSUME NodeInv, Edit
    PROVE  NodeInv'
<1>1. node' = [i \in Nodes |-> node'[i]]
  BY DEF Edit
<1>2. ASSUME NEW i \in Nodes PROVE ProcessOK(node'[i]) /\ Current(node'[i], file')
  <2> DEFINE n == node[i]
             m == node'[i]
  <2>1. ProcessOK(n) /\ Current(n, file) /\ DOMAIN n = Fields
    BY DEF NodeInv, ProcessOK
  <2>2. CASE n.pc \in {"down", "exited"}
    <3>1. m = n
      BY <2>2 DEF Edit
    <3> QED BY <2>1, <2>2, <3>1 DEF Current
  <2>3. CASE n.pc \notin {"down", "exited"}
    <3>1. m = [n EXCEPT !.dirty = TRUE, !.missed = FALSE] \/ m = [n EXCEPT !.missed = TRUE]
      BY <2>3 DEF Edit
    <3>2. /\ DOMAIN m = Fields /\ m.pc = n.pc /\ m.joined = n.joined /\ m.failure = n.failure
          /\ m.task = n.task /\ m.reason = n.reason /\ m.elapsed = n.elapsed
          /\ m.result = n.result /\ m.tokens = n.tokens /\ m.last = n.last
          /\ m.dirty \/ m.missed
      BY <2>1, <3>1 DEF Fields
    <3> HIDE DEF m
    <3>3. ProcessOK(m)
      BY <2>1, <3>2 DEF ProcessOK, DrainOK
    <3>4. Current(m, file')
      BY <2>1, <2>3, <3>2 DEF Current
    <3> QED BY <3>3, <3>4 DEF m
  <2> QED BY <2>2, <2>3
<1> QED BY <1>1, <1>2 DEF NodeInv

\* The process is started again after a failure.
LEMMA RestartInv ==
    ASSUME NodeInv, NEW i \in Nodes, Restart(i)
    PROVE  NodeInv'
<1>1. Becomes(i, Down) /\ file' = file
  BY DEF Restart, Proceed
<1>2. ProcessOK(Down) /\ Current(Down, file)
  BY DownFields DEF ProcessOK, Current
<1> QED BY <1>1, <1>2, OneNode

-----------------------------------------------------------------------------
\* The first state satisfies the invariant.
LEMMA InitInv == Init => NodeInv
<1> SUFFICES ASSUME Init PROVE NodeInv
  OBVIOUS
<1>1. node = [i \in Nodes |-> Down]
  BY DEF Init
<1>2. ProcessOK(Down) /\ Current(Down, file)
  BY DownFields DEF ProcessOK, Current
<1> QED BY <1>1, <1>2 DEF NodeInv

\* Every step keeps it.
LEMMA StepInv == NodeInv /\ [Next]_vars => NodeInv'
<1> SUFFICES ASSUME NodeInv, [Next]_vars PROVE NodeInv'
  OBVIOUS
<1>1. CASE Edit
  BY <1>1, EditInv
<1>2. ASSUME NEW i \in Nodes, Start(i) \/ StartStep(i) PROVE NodeInv'
  BY <1>2, StartInv, StartStepInv
<1>3. ASSUME NEW i \in Nodes, RunStep(i) PROVE NodeInv'
  BY <1>3, TasksInv, JoinEarlyInv, JoinDrainInv, StopInv, TimeoutInv, TickInv DEF RunStep
<1>4. ASSUME NEW i \in Nodes, RunChoice(i) PROVE NodeInv'
  BY <1>4, TasksInv, CtrlCInv DEF RunChoice
<1>5. ASSUME NEW i \in Nodes, Kill(i) PROVE NodeInv'
  BY <1>5, FatalStep DEF Kill
<1>6. ASSUME NEW i \in Nodes, Restart(i) PROVE NodeInv'
  BY <1>6, RestartInv
<1>7. CASE UNCHANGED vars
  BY <1>7 DEF vars, NodeInv
<1> QED BY <1>1, <1>2, <1>3, <1>4, <1>5, <1>6, <1>7 DEF Next

\* What a process remembers of its tasks, its failure and its deadline stays consistent.
THEOREM Invariance == Spec => []NodeInv
BY InitInv, StepInv, PTL DEF Spec

(***************************************************************************)
(* run_until_shutdown's result: Ok only after a clean Ctrl-C drain, the    *)
(* failure of a task that failed otherwise, and a timeout only when no     *)
(* task joined before had failed.                                          *)
(***************************************************************************)
THEOREM ExitHonestAlways == Spec => []ExitHonest
<1>1. NodeInv => ExitHonest
  <2> SUFFICES ASSUME NodeInv, NEW i \in Nodes, node[i].pc = "exited"
               PROVE  /\ node[i].result = "Ok" =>
                            /\ node[i].reason = "ctrl_c"
                            /\ \A t \in DOMAIN node[i].task : node[i].task[t] = "ok"
                      /\ node[i].result = "TaskPanicked" =>
                            \E t \in DOMAIN node[i].task : node[i].task[t] = "panic"
                      /\ node[i].result = "DrainTimedOut" =>
                            /\ node[i].reason = "ctrl_c"
                            /\ \A t \in node[i].joined : node[i].task[t] = "ok"
                      /\ node[i].reason = "task_exit" =>
                            node[i].result \in {"TaskPanicked", "TaskExitedEarly", "Killed"}
    BY DEF ExitHonest
  <2>1. ExitOK(node[i].task, node[i].joined, node[i].reason, node[i].result)
    BY DEF NodeInv, ProcessOK
  <2> QED BY <2>1 DEF ExitOK
<1> QED BY <1>1, Invariance, PTL

(***************************************************************************)
(* The nested deadlines: a drain that times out was held up by the API     *)
(* server alone.                                                           *)
(***************************************************************************)
THEOREM OnlyApiTimesOutAlways == Spec => []OnlyApiTimesOut
<1>1. NodeInv => OnlyApiTimesOut
  <2> SUFFICES ASSUME NodeInv, NEW i \in Nodes, node[i].result = "DrainTimedOut"
               PROVE  \A t \in DOMAIN node[i].task \ {"api"} : node[i].task[t] = "ok"
    BY DEF OnlyApiTimesOut, Names
  <2>1. node[i].pc = "exited" /\ ExitOK(node[i].task, node[i].joined, node[i].reason, node[i].result)
    BY DEF NodeInv, ProcessOK, None
  <2> QED BY <2>1 DEF ExitOK
<1> QED BY <1>1, Invariance, PTL

(***************************************************************************)
(* The watcher: after any sequence of edits the tokens in force are those  *)
(* of the file, unless an event is pending or the edit came before the     *)
(* watch.                                                                  *)
(***************************************************************************)
THEOREM TokensCurrentAlways == Spec => []TokensCurrent
<1>1. NodeInv => TokensCurrent
  <2> SUFFICES ASSUME NodeInv, NEW i \in Nodes, Runs(i, "watcher"),
                      ~node[i].dirty, ~node[i].missed, file.parses
               PROVE  node[i].tokens = file.tokens
    BY DEF TokensCurrent
  <2>1. Current(node[i], file)
    BY DEF NodeInv
  <2> QED BY <2>1 DEF Current, Runs, Alive
<1> QED BY <1>1, Invariance, PTL
=============================================================================
