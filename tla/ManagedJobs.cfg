\* Three registrations by two turns in two directories; crashes, failing
\* writes and edits of the directories anywhere.
CONSTANTS
  t1 = t1
  t2 = t2
  c1 = c1
  c2 = c2
  Turns = {t1, t2}
  Conversations <- TwoConversations
  ConversationOf <- OneEach
  Paths = {p, q}
  Jobs = {j1, j2, j3}
  Statuses = {"ready"}
  None = None
SPECIFICATION Spec
INVARIANTS IdentitiesAgree RowsFollowJobs ConflictOnlyAfterEdit
PROPERTY EndedTurnsFrozen
SYMMETRY InterchangeableIds
CHECK_DEADLOCK FALSE
