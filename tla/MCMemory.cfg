SPECIFICATION Spec
CONSTANTS
  shell = shell
  p2 = p2
  p3 = p3
  Procs <- AllProcs
  Shell = shell
  PAGE_SIZE = 4
  Places = 5
  PageBlocks <- Blocks
  LastPage = 3
  Lengths = {1, 5}
  VMEM_START = 32
  VMEM_SIZE = 16
  VRequests = {1, 8}
  MaxVmallocs = 4
  MaxMixed = 1
SYMMETRY OthersAlike
INVARIANTS OwnersListed VStatsExact DisjointUntilFree
   
CHECK_DEADLOCK FALSE
