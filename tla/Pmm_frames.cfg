\* Six frames in two words; the bitmap lies in frame 0, the first handed out.
SPECIFICATION Spec
CONSTANTS
  Descs <- DescsLow
  PageSize = 16
  WordBits = 4
  Width = 3
  MaxCuts = 1
  MaxFills = 1
  Ask <- AskBoth
INVARIANTS FramesApart NoneLeaked DmaAbove
CHECK_DEADLOCK FALSE
