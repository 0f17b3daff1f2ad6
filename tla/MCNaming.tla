------------------------------ MODULE MCNaming ------------------------------
(* A small instance of Naming: two creations, of which the first may be an  *)
(* evaluation, and a conversation in the workspace of the first.            *)
EXTENDS Naming, TLC

CONSTANTS r1, r2

(* The first gets a branch from the server, which the second asks for; or  *)
(* both are copies, the first for an evaluation.                           *)
SomePlans == {(r1 :> <<"worktree", 0>>) @@ (r2 :> <<"worktree", 1>>),
              (r1 :> <<"copy", 0>>) @@ (r2 :> <<"copy", 0>>)}
NoneTaken == {{}}
InFirst == [c \in Conversations |-> r1]
=============================================================================
