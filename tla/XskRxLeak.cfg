SPECIFICATION BusySpec
CONSTANTS
  NumFrames = 4
  FqSize = 2
  RxSize = 2
  RxBatch = 1
PROPERTY
  FramesReturned
