\* Two slots, a screen of four columns: windows may lie apart or overlap.
SPECIFICATION Spec
CONSTANTS
  Cols = 4
  WinW = 2
  Widths <- Wide
  Slot <- Slots
  App <- Apps
  MaxDepth = 1
  MaxMade = 2
INVARIANTS Composed OwnNumber
PROPERTY PressedOnce
CHECK_DEADLOCK FALSE
