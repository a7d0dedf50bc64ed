SPECIFICATION Spec
CONSTANTS
  MAX_PROCESSES = 3
  MaxPid = 5
  FailSites = {"clone"}
INVARIANTS ChildrenListEnds
CHECK_DEADLOCK FALSE
