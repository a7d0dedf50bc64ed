SPECIFICATION FilesSpec
CONSTANTS
  FileProcs = {"f1", "f2"}
  Paths <- SomePaths
  MAX_MOUNTS = 2
  PWD_MAX = 2
  MemoryBlocks = 12
  MaxCommands = 4
INVARIANT MountedPathsResolve
CHECK_DEADLOCK FALSE
