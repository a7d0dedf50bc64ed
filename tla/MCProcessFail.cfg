SPECIFICATION Spec
CONSTANTS
  MAX_PROCESSES = 3
  MaxPid = 6
  FailSites = {"directory", "kernel_stack", "user_stack", "table", "clone", "fork_stack"}
INVARIANTS RunningIsCurrent UniquePids OwnDirectory
CHECK_DEADLOCK FALSE
