\* One conversation in either mode, two turns one after the other, long
\* enough for a second role to start; every event can be recorded.
CONSTANTS
  w1 = w1
  t1 = t1
  t2 = t2
  Workspaces <- OneWorkspace
  Conversations = {c1}
  WorkspaceOf <- InOneWorkspace
  Turns = {t1, t2}
  EvaluationTurns = {t1}
  None = None
  Modes = {"single", "orchestrated"}
  MaxEvents <- ThreeThenOne
  StorageFails = FALSE
SPECIFICATION Spec
INVARIANTS TypeOK DoneAndAnswerOnce ResumeRoleUsable
PROPERTIES StopResumesReadyRole OutcomePrecedence
CHECK_DEADLOCK FALSE
