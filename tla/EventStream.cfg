\* One reader that may come and go, over two turns of a conversation that
\* can be deleted; every write may fail.  No fairness for the turns themselves.
CONSTANTS
  w1 = w1
  t1 = t1
  t2 = t2
  Workspaces <- OneWorkspace
  Conversations = {c1}
  WorkspaceOf <- InOneWorkspace
  Turns = {t1, t2}
  EvaluationTurns = {}
  None = None
  Modes = {"single"}
  MaxEvents <- OneThenNone
  StorageFails = TRUE
  Readers = {s1}
  MaxJobEvents = 1
SPECIFICATION FairStreamSpec
INVARIANTS DeliveredInOrder RaisesOnlyUnsettled
PROPERTIES EventReachesReaders StreamEnds
CHECK_DEADLOCK FALSE
