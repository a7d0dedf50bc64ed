SPECIFICATION Spec
CONSTANTS
  HEAP_START = 64
  HEAP_SIZE = 192
  Requests = {0, 1, 24, 40}
  Alignments = {32}
  MaxAllocations = 4
  MaxStale = 0
INVARIANTS Tiling NoAdjacentFree LiveMemorySafe LoopsAgree StatsBalance
PROPERTIES RefinesAllocator
CHECK_DEADLOCK FALSE
