---------------------------- MODULE MCEventStream ----------------------------
(* A small instance of EventStream: one conversation, one turn after the   *)
(* other.                                                                  *)
EXTENDS EventStream

CONSTANTS w1, t1, t2

OneWorkspace == {w1}
InOneWorkspace == [c \in Conversations |-> w1]
OneThenNone == [t \in Turns |-> IF t = t1 THEN 1 ELSE 0]
=============================================================================
