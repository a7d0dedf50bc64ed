SPECIFICATION ShellSpec
CONSTANTS
  shell = shell
  p2 = p2
  p3 = p3
  Procs <- AllProcs
  First = shell
  Second = p2
  MaxSignals = 2
INVARIANTS HandledOnce
CHECK_DEADLOCK FALSE
