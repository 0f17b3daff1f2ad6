------------------------------ MODULE MCBackend ------------------------------
(* A small instance of Backend: two conversations in one workspace. *)
EXTENDS Backend

CONSTANTS w1, t1, t2

OneWorkspace == {w1}
InOneWorkspace == [c \in Conversations |-> w1]
NoEvents == [t \in Turns |-> 0]
=============================================================================
