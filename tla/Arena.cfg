SPECIFICATION Spec
CONSTANTS
  Limit = 12
  BlockSize = 4
  Align = 2
  Requests = {0, 3, 5}
  MaxBlocks = 5
  MaxMarks = 3
INVARIANTS
  TypeOK
  LiveIntact
  MarksNeverDangle
  TotalExact
