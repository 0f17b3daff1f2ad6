\* Two conversations contend for one workspace, one turn each or two turns
\* of one of them; every write may fail.
CONSTANTS
  w1 = w1
  t1 = t1
  t2 = t2
  Workspaces <- OneWorkspace
  Conversations = {c1, c2}
  WorkspaceOf <- InOneWorkspace
  Turns = {t1, t2}
  EvaluationTurns = {t2}
  None = None
  Modes = {"single"}
  MaxEvents <- TwoEvents
  StorageFails = TRUE
SPECIFICATION Spec
INVARIANTS WorkspaceExclusive OneRunningTurn HandlesMatchRows QuietAfterEnd
SYMMETRY Interchangeable
CHECK_DEADLOCK FALSE
