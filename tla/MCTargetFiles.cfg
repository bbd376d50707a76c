SPECIFICATION Spec
CONSTANTS
  Names <- OneName
  HandleLimit = 2
  ServiceLimit = 2
  MaxLength = 2
  Wants = {1, 3}
  StreamLimit = 2
INVARIANTS
  TypeOK
  
  PositionTrue
