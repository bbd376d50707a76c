SPECIFICATION Spec
CONSTANTS
  Word = 256
  HeapEnd = 112
  Slots = 2
  Requests <- MCRequests
  Counts = {0, 2, 60}
INVARIANTS
  TypeOK
  StorageFits
  BlocksOwned
PROPERTIES
  ContentsKept
