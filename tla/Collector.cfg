\* Calls of either CLI that print at most four lines, the session's included.
CONSTANTS
  MaxSaid = 4
  CodexTexts <- SomeTexts
SPECIFICATION Spec
INVARIANT CallReportedTruly
CHECK_DEADLOCK FALSE
