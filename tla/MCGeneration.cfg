SPECIFICATION Spec
CONSTANTS
  WordSize = 4
  Registers = 2
  VariadicSlots = 2
  Programs <- MCPrograms
  MaxAnswers = 4
  MemorySize = 512
INVARIANTS
  MeansWhatCMeans
  CallsAligned
  FrameApart
  RefusedWhenForbidden
CHECK_DEADLOCK FALSE
