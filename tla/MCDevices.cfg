SPECIFICATION Spec
CONSTANTS
  ARENA = 10
  Payloads = {1, 2}
  MaxBlocks = 5
  VGA_WIDTH = 2
  VGA_HEIGHT = 2
  TAB_STOP = 2
  MAX_SCREENS = 2
  MaxCalls = 5
  MaxMessages = 2
  Messages <- SomeMessages
  MAX_SOCKETS = 3
  BACKLOG = 1
  Ports = {0, 1}
  Data = {7}
  MAX_SYSCALLS = 22
  SyscallNumbers = {0, 1, 2, 3, 8, 9, 10, 11, 12, 13, 14, 15, 16, 17, 18, 19, 20, 21, 22}
  CurrentPids = {0, 5}
  MAX_SIGNALS = 5
  SIGKILL = 2
  SIGSTOP = 4
  FileProcs = {"f1", "f2"}
  Paths <- SomePaths
  MAX_MOUNTS = 2
  PWD_MAX = 2
  MemoryBlocks = 12
  MaxCommands = 4
  MaxPolls = 2
  LBAs = {0, 1}
  MaxCount = 2
  MaxTransfers = 2
  BLOCK_SIZE = 2
  DIRECT = 2
  POINTERS = 2
  FILE_BLOCKS = 5
  Names = {"a", "b"}
  MaxEntries = 3
  Superblocks <- SomeSuperblocks
  InodeValues = {"x"}
  Unwritten = "none"
INVARIANTS LiveUnlessTorn TilesUnlessTorn CursorBounded  RaiseNotLost
INVARIANTS  MountsExact ReadExact WriteStored
INVARIANTS DataExact  ReaddirEnumerates 
PROPERTIES ReturnsAsLeft 
CHECK_DEADLOCK FALSE
