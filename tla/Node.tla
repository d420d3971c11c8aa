-------------------------------- MODULE Node --------------------------------
(***************************************************************************)
(* Processes of the node on one machine, timing-node/src/lib.rs, with the  *)
(* configuration watcher (reload.rs) and the way the ingest adapters bind: *)
(* each process reads the configuration, binds its listeners in order and  *)
(* the API, opens the log, spawns its tasks and supervises them until      *)
(* Ctrl-C or until a task ends; then it drains them under a deadline.      *)
(*                                                                         *)
(* Shared by the processes are the file system (the configuration file,    *)
(* the path of the Unix socket) and the TCP ports.                         *)
(***************************************************************************)
EXTENDS Integers, Sequences, FiniteSets, SequencesExt

CONSTANTS
    Nodes,
    Configs,       \* what the configuration file may hold at first
    Saved,         \* what an operator may save
    InitialPath,   \* what is at the socket path at first
    force_rebind,
    Budgets        \* which processes may start, and how many starts, edits and kills there are

VARIABLES
    file,          \* the configuration file
    path,          \* the socket path: nothing, a socket or another file
    port,          \* who holds each TCP port
    node,          \* the processes
    inode,
    budget         \* what is left of one of Budgets

vars == <<file, path, port, node, inode, budget>>

None == "none"
NoFile == [kind |-> "none", ino |-> 0]

\* Deadlines in units of five seconds.
LISTENER_DRAIN == 1
SHUTDOWN_DEADLINE == 2

Down == [pc |-> "down", k |-> 1, seen |-> 0, ino |-> 0, config |-> None, tokens |-> {}, last |-> None,
         watching |-> FALSE, dirty |-> FALSE, missed |-> FALSE, task |-> <<>>, joined |-> {},
         shutdown |-> FALSE, conn |-> FALSE, elapsed |-> 0, reason |-> None, failure |-> None,
         result |-> None]

Init ==
    /\ file \in Configs /\ path = InitialPath
    /\ port = [p \in {"tcp", "api"} |-> None]
    /\ node = [i \in Nodes |-> Down]
    /\ inode = 1 /\ budget \in Budgets

Spend(what) == budget[what] > 0 /\ budget' = [budget EXCEPT ![what] = @ - 1]

Becomes(i, n) == node' = [node EXCEPT ![i] = n]

\* The process ends: its ports and its listening socket close, the socket's file
\* stays.  Of its state only how its tasks ended, and which it joined, is of interest.
ExitWith(i, task, result) ==
    /\ Becomes(i, [Down EXCEPT !.pc = "exited", !.task = task, !.reason = node[i].reason,
                               !.joined = node[i].joined, !.result = result])
    /\ port' = [p \in DOMAIN port |-> IF port[p] = i THEN None ELSE port[p]]

Exit(i, result) == ExitWith(i, node[i].task, result)
Fatal(i) == Exit(i, "Fatal")
Proceed(i, n) == Becomes(i, n) /\ UNCHANGED port

-----------------------------------------------------------------------------
\* Starting

Ids(listeners) == {listeners[k].id : k \in DOMAIN listeners}
Acceptable(config) ==
    /\ config.listeners # <<>>
    /\ Cardinality(Ids(config.listeners)) = Len(config.listeners)

\* run_from_config_path: load_from_file, the checks of new_inner, AuthState::new.
Start(i) ==
    /\ node[i].pc = "down" /\ i \in budget.nodes /\ Spend("starts")
    /\ \/ /\ file.parses /\ Acceptable(file)
          /\ Proceed(i, [Down EXCEPT !.pc = "bind", !.config = file, !.last = file,
                                     !.tokens = file.tokens])
       \/ ~(file.parses /\ Acceptable(file)) /\ Fatal(i)
    /\ UNCHANGED <<file, path, inode>>

Listener(i) == node[i].config.listeners[node[i].k]
Bound(i) == node[i].k > Len(node[i].config.listeners)
AtUnix(i) == ~Bound(i) /\ Listener(i).transport = "unix"
NextListener(i, n) == [n EXCEPT !.pc = "bind", !.k = @ + 1]

\* TcpIngestPort::bind_with_auth: the configuration and the TLS material are
\* looked at before the port is bound.
tcp_bind(i) ==
    /\ node[i].pc = "bind" /\ ~Bound(i) /\ Listener(i).transport = "tcp"
    /\ \/ /\ Listener(i).valid /\ port["tcp"] = None
          /\ Becomes(i, NextListener(i, node[i])) /\ port' = [port EXCEPT !["tcp"] = i]
       \/ ~(Listener(i).valid /\ port["tcp"] = None) /\ Fatal(i)
    /\ UNCHANGED <<file, path, inode, budget>>

\* UnixSocketIngestPort::bind_with_auth, one action per file system call.
symlink_metadata(i) ==
    /\ node[i].pc = "bind" /\ AtUnix(i)
    /\ LET n == [node[i] EXCEPT !.seen = path.ino]
       IN \/ (~Listener(i).valid \/ path.kind = "other") /\ Fatal(i)
          \/ Listener(i).valid /\ path.kind = "none" /\ Proceed(i, [n EXCEPT !.pc = "listen"])
          \/ /\ Listener(i).valid /\ path.kind = "socket"
             /\ Proceed(i, [n EXCEPT !.pc = IF force_rebind THEN "restat" ELSE "probe"])
    /\ UNCHANGED <<file, path, inode, budget>>

\* Is a process listening on the socket at the path?
Listening(ino) == \E i \in Nodes : node[i].ino = ino /\ node[i].ino # 0

Probe(i) ==
    /\ node[i].pc = "probe"
    /\ \/ path.kind = "socket" /\ Listening(path.ino) /\ Fatal(i)
       \/ path.kind = "none" /\ Proceed(i, [node[i] EXCEPT !.pc = "listen"])
       \/ /\ path.kind # "none" /\ ~Listening(path.ino)
          /\ Proceed(i, [node[i] EXCEPT !.pc = "restat"])
    /\ UNCHANGED <<file, path, inode, budget>>

Restat(i) ==
    /\ node[i].pc = "restat"
    /\ \/ path.kind = "none" /\ Proceed(i, [node[i] EXCEPT !.pc = "listen"])
       \/ path = [kind |-> "socket", ino |-> node[i].seen] /\ Proceed(i, [node[i] EXCEPT !.pc = "remove"])
       \/ path.kind # "none" /\ path # [kind |-> "socket", ino |-> node[i].seen] /\ Fatal(i)
    /\ UNCHANGED <<file, path, inode, budget>>

remove_file(i) ==
    /\ node[i].pc = "remove"
    /\ path' = NoFile
    /\ Proceed(i, [node[i] EXCEPT !.pc = "listen"])
    /\ UNCHANGED <<file, inode, budget>>

unix_bind(i) ==
    /\ node[i].pc = "listen"
    /\ \/ /\ path.kind = "none"
          /\ path' = [kind |-> "socket", ino |-> inode] /\ inode' = inode + 1
          /\ Proceed(i, [node[i] EXCEPT !.pc = "chmod", !.ino = inode, !.seen = 0])
       \/ path.kind # "none" /\ Fatal(i) /\ UNCHANGED <<path, inode>>
    /\ UNCHANGED <<file, budget>>

set_permissions(i) ==
    /\ node[i].pc = "chmod"
    /\ \/ path.kind # "none" /\ Proceed(i, NextListener(i, node[i]))
       \/ path.kind = "none" /\ Fatal(i)
    /\ UNCHANGED <<file, path, inode, budget>>

\* Any of these calls fails for another reason: the bind is given up.
UnixBindErr(i) ==
    /\ (node[i].pc = "bind" /\ AtUnix(i)) \/ node[i].pc \in {"probe", "restat", "remove", "listen", "chmod"}
    /\ Fatal(i)
    /\ UNCHANGED <<file, path, inode, budget>>

\* The API is bound, the log opened and the gate seeded; spawn_tasks.
ApiBind(i) ==
    /\ node[i].pc = "bind" /\ Bound(i)
    /\ \/ /\ port["api"] = None
          /\ Becomes(i, [node[i] EXCEPT !.pc = "open"]) /\ port' = [port EXCEPT !["api"] = i]
       \/ port["api"] # None /\ Fatal(i)
    /\ UNCHANGED <<file, path, inode, budget>>

OpenLog(i) ==
    /\ node[i].pc = "open"
    /\ \/ Fatal(i)
       \/ Proceed(i, [node[i] EXCEPT !.pc = "running",
                                 !.task = [t \in Ids(node[i].config.listeners) \cup {"api", "watcher"}
                                             |-> "run"]])
    /\ UNCHANGED <<file, path, inode, budget>>

-----------------------------------------------------------------------------
\* The tasks

Names(i) == DOMAIN node[i].task
Alive(i) == node[i].pc \in {"running", "draining"}
Runs(i, t) == Alive(i) /\ node[i].task[t] = "run"
Ends(i, t, how) == Proceed(i, [node[i] EXCEPT !.task[t] = how])

\* axum::serve fails: the task panics.
ApiFails(i) == Runs(i, "api") /\ Ends(i, "api", "panic")

\* A client that streams goes away when it likes.
CloseConnection(i) ==
    /\ Runs(i, "api") /\ node[i].conn
    /\ Proceed(i, [node[i] EXCEPT !.conn = FALSE])

\* Graceful shutdown: the API waits for open connections.
ApiStops(i) ==
    /\ Runs(i, "api") /\ node[i].shutdown /\ ~node[i].conn
    /\ Ends(i, "api", "ok")

Serves(i, t, transport) ==
    \E k \in DOMAIN node[i].config.listeners :
        node[i].config.listeners[k].id = t /\ node[i].config.listeners[k].transport = transport

\* run_listener leaves its loop, and returns when its sessions have ended or its
\* own deadline has passed; its own socket closes with it.
ListenerStops(i) ==
    \E t \in Names(i) \ {"api", "watcher"} :
        \/ Runs(i, t) /\ node[i].shutdown /\ Ends(i, t, "drain")
        \/ /\ Alive(i) /\ node[i].task[t] = "drain"
           /\ Becomes(i, [node[i] EXCEPT !.task[t] = "ok",
                                         !.ino = IF Serves(i, t, "unix") THEN 0 ELSE @])
           /\ port' = [port EXCEPT !["tcp"] = IF Serves(i, t, "tcp") THEN None ELSE @]

\* spawn_config_watcher: without a watch the task returns.
Watch(i) ==
    /\ Runs(i, "watcher") /\ ~node[i].watching
    /\ \/ Proceed(i, [node[i] EXCEPT !.watching = TRUE])
       \/ Ends(i, "watcher", "ok")

WatcherStops(i) ==
    /\ Runs(i, "watcher") /\ node[i].watching /\ node[i].shutdown
    /\ Ends(i, "watcher", "ok")

\* Variant: the reload is compared with the configuration of the start.
ReloadAgainstFirst(n, new) ==
    [n EXCEPT !.tokens = IF new.tokens # n.config.tokens THEN new.tokens ELSE @, !.last = new]

\* try_apply_reload: only a difference from the last loaded configuration is applied.
try_apply_reload(n, new) ==
    [n EXCEPT !.tokens = IF new.tokens # n.last.tokens THEN new.tokens ELSE @, !.last = new]

\* A poll that finds events on the file; one that cannot be read changes nothing.
PollTick(i) ==
    /\ Runs(i, "watcher") /\ node[i].watching /\ node[i].dirty
    /\ LET n == [node[i] EXCEPT !.dirty = FALSE]
       IN Proceed(i, IF file.parses THEN try_apply_reload(n, file) ELSE n)

\* The operator saves the file: watched, or not yet.
Edit ==
    /\ Spend("edits")
    /\ \E i \in Nodes : node[i].pc \notin {"down", "exited"}
    /\ file' \in Saved \ {file}
    /\ node' = [i \in Nodes |->
                  IF node[i].pc \in {"down", "exited"} THEN node[i]
                  ELSE IF node[i].watching THEN [node[i] EXCEPT !.dirty = TRUE, !.missed = FALSE]
                  ELSE [node[i] EXCEPT !.missed = TRUE]]
    /\ UNCHANGED <<path, port, inode>>

-----------------------------------------------------------------------------
\* run_until_shutdown

\* Variant: the last failure is kept.
KeepLast(old, new) == new
get_or_insert(old, new) == IF old = None THEN new ELSE old

Ended(i) == {t \in Names(i) : node[i].task[t] \in {"ok", "panic"}} \ node[i].joined

classify_unexpected_exit(how) == IF how = "panic" THEN "TaskPanicked" ELSE "TaskExitedEarly"

\* The signal finds a client connected to the API, or none.
SendShutdown(i, n, reason) ==
    \E open \in BOOLEAN :
        Proceed(i, [n EXCEPT !.pc = "draining", !.shutdown = TRUE, !.reason = reason, !.conn = open])

CtrlC(i) == node[i].pc = "running" /\ SendShutdown(i, node[i], "ctrl_c")

JoinEarly(i) ==
    /\ node[i].pc = "running"
    /\ \E t \in Ended(i) :
         SendShutdown(i, [node[i] EXCEPT !.joined = @ \cup {t},
                            !.failure = get_or_insert(@, classify_unexpected_exit(node[i].task[t]))],
                      "task_exit")

JoinDrain(i) ==
    /\ node[i].pc = "draining"
    /\ \E t \in Ended(i) :
         Proceed(i, [node[i] EXCEPT !.joined = @ \cup {t},
                       !.failure = IF node[i].task[t] = "panic" THEN get_or_insert(@, "TaskPanicked")
                                   ELSE @])

AllJoined(i) == node[i].joined = Names(i)
Stop(i) ==
    /\ node[i].pc = "draining" /\ AllJoined(i)
    /\ Exit(i, IF node[i].failure = None THEN "Ok" ELSE node[i].failure)

\* The handles of the tasks themselves are aborted.
AbortUnderlying(i) == [t \in Names(i) |-> IF node[i].task[t] \in {"ok", "panic"} THEN node[i].task[t]
                                          ELSE "aborted"]

\* Variant: no deadline.
NeverDue(i) == FALSE
Due(i) == node[i].elapsed = SHUTDOWN_DEADLINE

\* A task may have ended without the wrapper that forwards its result having run.
DrainTimesOut(i) ==
    /\ node[i].pc = "draining" /\ ~AllJoined(i) /\ Due(i)
    /\ ExitWith(i, AbortUnderlying(i), get_or_insert(node[i].failure, "DrainTimedOut"))

\* Variant: a listener gives its sessions as long as the node gives its tasks.
ListenerPatient(i) == TRUE

\* A listener in its drain returns before its deadline has passed.
ListenerInTime(i) ==
    node[i].elapsed = LISTENER_DRAIN => \A t \in Names(i) : node[i].task[t] # "drain"

\* Time passes when no task can go on.
Tick(i) ==
    /\ node[i].pc = "draining" /\ node[i].elapsed < SHUTDOWN_DEADLINE
    /\ Ended(i) = {} /\ ListenerInTime(i)
    /\ \A t \in Names(i) : node[i].task[t] = "run" => t = "api" /\ node[i].conn
    /\ Proceed(i, [node[i] EXCEPT !.elapsed = @ + 1])

-----------------------------------------------------------------------------
\* The process is killed, or the machine's supervisor starts it again.
Kill(i) ==
    /\ node[i].pc \notin {"down", "exited"} /\ Spend("kills")
    /\ Exit(i, "Killed")
    /\ UNCHANGED <<file, path, inode>>

Restart(i) ==
    /\ node[i].pc = "exited" /\ node[i].result # "Ok" /\ budget.starts > 0
    /\ Proceed(i, Down)
    /\ UNCHANGED <<file, path, inode, budget>>

StartStep(i) ==
    \/ tcp_bind(i) \/ symlink_metadata(i) \/ Probe(i) \/ Restat(i) \/ remove_file(i) \/ unix_bind(i)
    \/ set_permissions(i) \/ UnixBindErr(i) \/ ApiBind(i) \/ OpenLog(i)

\* What happens by itself, and what may happen.
RunStep(i) ==
    /\ \/ ApiStops(i) \/ ListenerStops(i) \/ Watch(i) \/ WatcherStops(i) \/ PollTick(i)
       \/ JoinEarly(i) \/ JoinDrain(i) \/ Stop(i) \/ DrainTimesOut(i) \/ Tick(i)
    /\ UNCHANGED <<file, path, inode, budget>>

RunChoice(i) ==
    /\ ApiFails(i) \/ CloseConnection(i) \/ CtrlC(i)
    /\ UNCHANGED <<file, path, inode, budget>>

Next ==
    \/ Edit
    \/ \E i \in Nodes : Start(i) \/ StartStep(i) \/ RunStep(i) \/ RunChoice(i) \/ Kill(i) \/ Restart(i)

\* Tokio runs what is ready and fires timers.
Spec ==
    /\ Init /\ [][Next]_vars
    /\ \A i \in Nodes : WF_vars(StartStep(i)) /\ WF_vars(RunStep(i))

-----------------------------------------------------------------------------
(***************************************************************************)
(* "we must not steal it (silent takeover would leave the original         *)
(* listener running but unreachable)" (unix-socket port.rs): while a       *)
(* process listens on its Unix socket, the path leads to that socket.      *)
(***************************************************************************)
NoSilentTakeover ==
    \A i \in Nodes : node[i].ino # 0 => path = [kind |-> "socket", ino |-> node[i].ino]

(***************************************************************************)
(* "Ok(()) on a clean Ctrl-C shutdown where every task drained without     *)
(* panic or error" (lib.rs): the exit code is zero only then, and an error *)
(* names what happened: a failure is not masked by a later timeout, and a  *)
(* timeout is reported only when no task joined before had failed.         *)
(***************************************************************************)
ExitHonest ==
    \A i \in Nodes : LET n == node[i]
                         panicked == \E t \in DOMAIN n.task : n.task[t] = "panic"
                     IN n.pc = "exited" =>
        /\ n.result = "Ok" => n.reason = "ctrl_c" /\ \A t \in DOMAIN n.task : n.task[t] = "ok"
        /\ n.result = "TaskPanicked" => panicked
        /\ n.result = "DrainTimedOut" =>
               n.reason = "ctrl_c" /\ \A t \in n.joined : n.task[t] = "ok"
        /\ n.reason = "task_exit" => n.result \in {"TaskPanicked", "TaskExitedEarly", "Killed"}

(***************************************************************************)
(* The deadlines are nested: only the API server, with a connection that   *)
(* stays open, can make the drain time out, never a producer's session     *)
(* that hangs: every other task has ended by itself.                       *)
(***************************************************************************)
OnlyApiTimesOut ==
    \A i \in Nodes : node[i].result = "DrainTimedOut" =>
        \A t \in Names(i) \ {"api"} : node[i].task[t] = "ok"

(***************************************************************************)
(* The node stops once it has been told to, or once a task has ended,      *)
(* although a client of the API never goes away.                           *)
(***************************************************************************)
Stops ==
    \A i \in Nodes : (node[i].pc = "draining" \/ (node[i].pc = "running" /\ Ended(i) # {}))
                        ~> node[i].pc \in {"exited", "down"}

(***************************************************************************)
(* A node whose watcher has no event to look at has the tokens of the      *)
(* file, after any sequence of edits, edits that do not parse and edits    *)
(* that undo an earlier one included; only an edit made before the watch   *)
(* was set is missed, until the next one.                                  *)
(***************************************************************************)
TokensCurrent ==
    \A i \in Nodes :
        Runs(i, "watcher") /\ node[i].watching /\ ~node[i].dirty /\ ~node[i].missed /\ file.parses
        => node[i].tokens = file.tokens
=============================================================================
