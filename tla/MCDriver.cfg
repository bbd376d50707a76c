SPECIFICATION DriverSpec
CONSTANTS
  CommandLines <- MCCommandLines
  Responses <- MCResponses
  Readable <- MCReadable
  Formats <- MCFormats
  Target <- MCTarget
  MaxDepth = 3
  MaxArguments = 7
  MaxInputs = 4
  MaxValues = 1
  Limit = 2
  MaxReports = 2
  MaxDeclarations = 2
  Aborted = 134
CHECK_DEADLOCK FALSE
INVARIANTS
  StatusTruthful
  
PROPERTIES
  Ends
