\* Few frames, so that tables, ranges and images run out half way.
SPECIFICATION Spec
CONSTANTS
  p1 = p1
  p2 = p2
  Frames = 7
  Space = 16
  Limit = 12
  Spans <- TwoLevels
  PageSize = 2
  HeapBase = 2
  HeapMax = 5
  MmapBase = 6
  MmapLimit = 10
  StackTop = 12
  StackPages = 1
  PieBase = 1
  MaxSegs = 2
  Programs <- Files
  Lengths <- Asked
  Fixed <- Hints
  Proc <- Two
  Name <- OneName
  Regions = 1
  MaxCalls = 3
SYMMETRY Swap
INVARIANTS OwnedOnce NoneLost HeapPaid AttachedKept
CHECK_DEADLOCK FALSE
