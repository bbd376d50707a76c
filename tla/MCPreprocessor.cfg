SPECIFICATION Spec
CONSTANTS
  Here = Here
  Sub = Sub
  Main <- MCMain
  Volume <- MCVolume
  Unlexable <- MCUnlexable
  IncludePaths <- MCIncludePaths
  Lines <- MCLines
  MaxLines = 5
  MaxDepth = 3
  MaxTokens = 2
CHECK_DEADLOCK FALSE
INVARIANTS
  ActiveIsSelected
  NoReentry
PROPERTIES
  SourcesBalanced
  LinesPresumed
