\* Two runs of the startup at a time, any number of them one after another,
\* with three faults between them.
CONSTANTS
  p1 = p1
  p2 = p2
  k1 = k1
  k2 = k2
  Procs <- TwoRuns
  Configs <- TwoConfigs
  MapOf <- MappingOf
  Roles = {"planner", "analyzer"}
  Files = {"f1", "f2"}
  States <- SomeStates
  MaxWrites = 1
  MaxFaults = 3
SYMMETRY Alike
SPECIFICATION Spec
INVARIANT NothingLost
INVARIANT SelectedKeepsHistory
CHECK_DEADLOCK FALSE
