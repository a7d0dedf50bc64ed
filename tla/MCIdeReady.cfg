SPECIFICATION IdeSpec
CONSTANTS
  MaxPolls = 2
  LBAs = {0, 1}
  MaxCount = 2
  MaxTransfers = 2
PROPERTY GivesUpOnBusy
CHECK_DEADLOCK FALSE
