SPECIFICATION Spec
CONSTANTS
  Cpus = {0, 1}
  Size = 8
  Lens <- MCLens
  LostLen = 2
  MaxPkts = 4
CHECK_DEADLOCK FALSE
INVARIANTS
  TypeOK
  SampleIntact
  ReadInOrder
  PacketsAccounted
  LossAnnounced
PROPERTY
  WrittenIsRead
