SPECIFICATION FairSpec
CONSTANTS
  Arrivals = 2
  ReadSizes = {1, 2}
  Handles <- MCHandles
  PollSizes = {0, 1, 2}
INVARIANTS
  TypeOK
  NoneLost
  PromiseKept
PROPERTIES
  ReadHonoursCheck
  EverythingRead
