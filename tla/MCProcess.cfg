SPECIFICATION FairSpec
CONSTANTS
  MAX_PROCESSES = 3
  MaxPid = 5
  FailSites = {}
INVARIANTS ChildrenTree CurrentInUse
PROPERTIES ZombieStays ReadyRuns
CHECK_DEADLOCK FALSE
