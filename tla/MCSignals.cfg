SPECIFICATION FairSpec
CONSTANTS
  shell = shell
  p2 = p2
  p3 = p3
  Procs <- AllProcs
  First = shell
  Second = p2
  MaxSignals = 3
INVARIANTS HandledOnce QueuesExact
PROPERTIES EventuallyHandled
CHECK_DEADLOCK FALSE
