\* Every call on two names and two nodes, a failing write and a crash.
SPECIFICATION Spec
CONSTANTS
  N = 5
  EPC = 2
  EPF = 2
  Data = 1
  W = 4
  a = a
  b = b
  h1 = h1
  h2 = h2
  Name <- Short
  Long <- OnlyLong
  Handle <- Two
  MaxSize = 2
  MaxCalls = 4
  Images <- Volumes
INVARIANTS CrashContained NoneLost DirtyUntilWritten
SYMMETRY Sym
CHECK_DEADLOCK FALSE
