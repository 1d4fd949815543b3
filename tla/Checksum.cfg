SPECIFICATION FairSpec
CONSTANTS
  B = 3
  MaxLen = 6
INVARIANTS
  TypeOK
  ChecksumVerifies
  ReadsEverything
PROPERTY
  Terminates
CHECK_DEADLOCK FALSE
