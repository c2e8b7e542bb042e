\* Three pages of five units; a request of 5 takes two of them.
SPECIFICATION Spec
CONSTANTS
  Header = 1
  MinSize = 1
  Classes = 3
  Align = 1
  Page = 5
  Limit = 15
  Request = {1, 2, 5}
  Null = Null
INVARIANTS Tiles ListsRight Coalesced
PROPERTIES RefinesRegions
