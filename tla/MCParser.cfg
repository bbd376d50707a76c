SPECIFICATION Spec
CONSTANTS
  Names <- MCNames
  Units <- MCUnits
INVARIANTS
  TypeOK
  VerdictRight
PROPERTY
  Advances
CHECK_DEADLOCK FALSE
