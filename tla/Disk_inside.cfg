\* One call: where the aligned part of the buffer lies.
SPECIFICATION DiskSpec
CONSTANTS
  Kind <- All
  Sectors = 3
  Chunk = 2
  Count28 = 1
  Align = 3
  Buffers <- Places
  Low <- LowPlace
  SpinMax = 1
  MaxCalls = 1
INVARIANT InsideBuffer
CHECK_DEADLOCK FALSE
