\* Liveness: two turns and deletions in one workspace, no storage failure.
CONSTANTS
  w1 = w1
  t1 = t1
  t2 = t2
  Workspaces <- OneWorkspace
  Conversations = {c1, c2}
  WorkspaceOf <- InOneWorkspace
  Turns = {t1, t2}
  EvaluationTurns = {}
  None = None
  Modes = {"single"}
  MaxEvents <- OneThenNone
  StorageFails = FALSE
SPECIFICATION PopulatedFairSpec
PROPERTIES StopEndsTurn CloseCompletes DeletionCompletes
CHECK_DEADLOCK FALSE
