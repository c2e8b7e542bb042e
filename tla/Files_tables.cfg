\* Files, directories, copies and pipes in tables of two.
SPECIFICATION FilesSpec
CONSTANTS
  a = a
  ROOT = ROOT
  Name <- One
  Mode <- Modes
  Reserved = 1
  FdMax = 2
  SlotMax = 2
  PipeMax = 1
  PipeSize = 1
  MaxSame = 2
  MaxLost = 1
INVARIANTS NodesAccounted OwnFile
CHECK_DEADLOCK FALSE
