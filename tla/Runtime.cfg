\* Two calls after each other in either kind of workspace, three faults anywhere.
CONSTANTS
  MaxCalls = 2
  MaxContainers = 2
  MaxFaults = 3
SPECIFICATION Spec
INVARIANT StoppedStaysStopped
PROPERTY StrangersAreSpared
CHECK_DEADLOCK FALSE
