------------------------------- MODULE MCApi -------------------------------
(* One client, whose token is in one of two lists, and a reader on the log itself. *)
EXTENDS Api

MCTokenOf == [c \in Clients |-> IF c = "c1" THEN "t1" ELSE None]
MCTokenLists == {{"t1"}, {"t2"}}
=============================================================================
