\* One call whose docker client exits by itself before the shell starts.
CONSTANTS
  MaxCalls = 1
  MaxContainers = 1
  MaxFaults = 1
SPECIFICATION Spec
INVARIANT EarlyExitIsNoWindow
CHECK_DEADLOCK FALSE
