\* Three drivers, calls of up to three sectors, a device that may fail or hang.
SPECIFICATION DiskSpec
CONSTANTS
  Kind <- All
  Sectors = 3
  Chunk = 2
  Count28 = 1
  Align = 3
  Buffers <- Places
  Low <- LowPlace
  SpinMax = 1
  MaxCalls = 2
INVARIANTS Transferred NothingKept
PROPERTIES InRange Returns
CHECK_DEADLOCK FALSE
