---------------------------- MODULE MCMigration ----------------------------
(* A small instance of Migration: the runs of the startup are alike; one of *)
(* the configurations maps no provider for a family that some sessions name.*)
EXTENDS Migration, TLC

CONSTANTS p1, p2, k1, k2

TwoRuns == {p1, p2}
Alike == Permutations(TwoRuns)

In(scope) == [provider |-> "p", scope |-> scope]

Mapping(families, mode, places) ==
  [models |-> [m \in {"m1"} |-> In("here")], families |-> families,
   runners |-> [f \in DOMAIN families |-> IF f = "gpt" THEN "codex" ELSE "claude"],
   mode |-> mode, places |-> places]

Production(families) == Mapping(families, "production", <<>>)
Complete == Production([gpt |-> In("here"), sonnet |-> In("here")])
Partial == Production([gpt |-> In("here")])

(* The planner is a Codex role with a session; the analyzer may have one of *)
(* another family.                                                          *)
Legacy(other, own, shared, imported) ==
  [model |-> [r \in Roles |-> "m1"],
   session |-> [r \in Roles |-> IF r = "planner" THEN "f1" ELSE other],
   family |-> [r \in Roles |-> IF r = "planner" THEN "gpt" ELSE "sonnet"],
   home |-> [r \in Roles |-> IF r = "planner" THEN own ELSE [f1 |-> "z", f2 |-> None]],
   shared |-> shared, imported |-> imported,
   place |-> [main |-> "a", old |-> "repo"], kind |-> [main |-> "external", old |-> "managed"],
   indexed |-> {"main", "old"}, database |-> "legacy"]

(* To be merged with the shared home, contradicting it, and imported before *)
SomeStates ==
  {Legacy("f1", [f1 |-> "x", f2 |-> None], [f1 |-> "x", f2 |-> "y"], {}),
   Legacy(None, [f1 |-> "x", f2 |-> None], [f1 |-> "y", f2 |-> "y"], {}),
   Legacy(None, [f1 |-> "x", f2 |-> None], [f1 |-> "x", f2 |-> "y"], {"planner"})}

TwoConfigs == {k1, k2}
MappingOf == [k \in TwoConfigs |-> IF k = k2 THEN Partial ELSE Complete]
=============================================================================
