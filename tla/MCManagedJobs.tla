---------------------------- MODULE MCManagedJobs ----------------------------
(* Two turns, of one conversation or of two, and two directories. *)
EXTENDS ManagedJobs, TLC

CONSTANTS c1, c2, t1, t2

TwoConversations == {c1, c2}
OneEach == [t \in Turns |-> IF t = t1 THEN c1 ELSE c2]

InterchangeableIds == Permutations(Jobs) \cup Permutations(Paths)
=============================================================================
