SPECIFICATION Spec
CONSTANTS
  Length <- MCLength
  Empty = 0
  Triple = 90
  MaxSymbols = 12
  MaxFile = 1250
  MaxPayload = 40
  WordMax = 65535
  Declarations <- MCDeclarations
  MaxDeclarations = 4
  SizeOf <- MCSizeOf
  Private <- MCPrivate
  Literal <- MCLiteral
  SectionNames <- MCSectionNames
  Main = 42
  Services <- MCServices
  StartUp = 35
  ServiceSize = 6
CHECK_DEADLOCK FALSE
INVARIANTS
  TypeOK
  ReferencesReach
  DefinitionsKept
  StorageApart
  ReadBack
