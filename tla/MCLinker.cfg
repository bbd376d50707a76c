SPECIFICATION Spec
CONSTANTS
  Missing = Missing
  Damaged = Damaged
  Names <- MCNames
  Jobs <- MCJobs
  Volumes <- MCVolumes
  RuntimeNames <- MCRuntimeNames
  ImageLimit = 511
  SignedMax = 4095
  FieldMax = 1023
  OffsetMax = 2047
INVARIANTS
  TypeOK
  StorageDisjoint

  
