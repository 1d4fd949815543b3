SPECIFICATION FairSpec
CONSTANTS
  NumFrames = 8
  FqSize = 4
  RxSize = 4
  RxBatch = 2
INVARIANTS
  TypeOK
  FramesExclusive
  FramesConserved
  FillNeverOverrun
  ReserveNeverRetries
  DeliveredInOrder
PROPERTIES
  UserFramesStable
  AcceptedIsDelivered
  ImplementsQueue
