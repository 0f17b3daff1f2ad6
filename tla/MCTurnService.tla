---------------------------- MODULE MCTurnService ----------------------------
(* Small instances of TurnService: every conversation in one workspace, so *)
(* that turns and deletions contend for its lock.                          *)
EXTENDS TurnService, TLC

CONSTANTS w1, t1, t2

OneWorkspace == {w1}
InOneWorkspace == [c \in Conversations |-> w1]

TwoEvents == [t \in Turns |-> 2]
ThreeThenOne == [t \in Turns |-> IF t = t1 THEN 3 ELSE 1]
OneThenNone == [t \in Turns |-> IF t = t1 THEN 1 ELSE 0]

Interchangeable == Permutations(Conversations)

(* The liveness run starts when the conversations exist. *)
Populated ==
  /\ conversation = [c \in Conversations |-> "present"]
  /\ mode = [c \in Conversations |-> "single"]
  /\ interruptedRole = [c \in Conversations |-> NoRole]
  /\ status = [t \in Turns |-> "unused"]
  /\ owner = [t \in Turns |-> None]
  /\ events = [t \in Turns |-> <<>>]
  /\ answers = [t \in Turns |-> 0]
  /\ Idle

PopulatedFairSpec == Populated /\ [][Next]_vars /\ Fairness
=============================================================================
