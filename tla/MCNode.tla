------------------------------- MODULE MCNode -------------------------------
(***************************************************************************)
(* The configuration file: a Unix listener, alone or behind a TCP one,     *)
(* with two sets of tokens, a file that does not parse, listeners that     *)
(* new_inner refuses and a second listener that does not bind.  Either one *)
(* process is started again, edited and killed, or two may start at once.  *)
(***************************************************************************)
EXTENDS Node

CONSTANTS n1, n2

Config(listeners, tokens) == [parses |-> TRUE, listeners |-> listeners, tokens |-> tokens]
Tcp(id, valid) == [id |-> id, transport |-> "tcp", valid |-> valid]
Unix(id) == [id |-> id, transport |-> "unix", valid |-> TRUE]

OneListener == Config(<<Unix("u")>>, {"t1"})
OtherTokens == Config(<<Unix("u")>>, {"t2"})
Unreadable == [parses |-> FALSE, listeners |-> <<>>, tokens |-> {}]

MCConfigs ==
    {OneListener, Config(<<Tcp("t", TRUE), Unix("u")>>, {"t1"}),
     Config(<<Tcp("t", TRUE), Unix("t")>>, {"t1"}),
     Config(<<Tcp("t", TRUE), Tcp("s", FALSE)>>, {"t1"}),
     Config(<<[Unix("u") EXCEPT !.valid = FALSE]>>, {"t1"})}

MCSaved == {OneListener, OtherTokens, Unreadable}

One == [nodes |-> {n1}, starts |-> 2, edits |-> 2, kills |-> 1]
Two == [nodes |-> {n1, n2}, starts |-> 2, edits |-> 0, kills |-> 0]
OneOrTwo == {One, Two}
OnlyTwo == {Two}

StaleSocket == [kind |-> "socket", ino |-> 0]
=============================================================================
