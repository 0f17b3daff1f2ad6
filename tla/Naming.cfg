\* Two creations compete for two branch names, one failure or crash anywhere.
CONSTANTS
  r1 = r1
  r2 = r2
  Requests = {r1, r2}
  Main = w_main
  Old = w_old
  MaxSuffix = 2
  MaxFailures = 1
  Plans <- SomePlans
  Occupied <- NoneTaken
  Edited = {r1}
  None = None
  Broken = Broken
  Conversations = {c1}
  WorkspaceOf <- InFirst
  Evaluations = {r1}
SPECIFICATION FairNamingSpec
INVARIANTS CreationAllOrNothing IndexFollows ClosedIsQuiet
PROPERTIES ChosenNamesStay NamesFollowAnswers TicketsEnd
CHECK_DEADLOCK FALSE
