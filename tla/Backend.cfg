\* Up to two crashes anywhere, also during recovery, and any number of
\* shutdowns, with two conversations in one workspace.
CONSTANTS
  w1 = w1
  t1 = t1
  t2 = t2
  Workspaces <- OneWorkspace
  Conversations = {c1, c2}
  WorkspaceOf <- InOneWorkspace
  Turns = {t1, t2}
  EvaluationTurns = {}
  None = None
  Modes = {"single"}
  MaxEvents <- NoEvents
  StorageFails = TRUE
  Managed <- OneWorkspace
  MaxCrashes = 2
SPECIFICATION FairBackendSpec
INVARIANTS AgentsAccountedFor ContextOfUnfinishedTurn NothingLeftOver
PROPERTIES LedgerAcrossCrashes CrashedTurnSettled
CHECK_DEADLOCK FALSE
