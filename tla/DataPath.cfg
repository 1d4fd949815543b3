SPECIFICATION Spec
CONSTANTS
  Links <- AllLinks
  Files <- AllFiles
  Capacity = 2
  NumFrames = 3
  Unreleased = 1
  UintMod = 1073741824
  MaxDup = 1
  MaxOther = 1
CHECK_DEADLOCK FALSE
INVARIANTS
  TypeOK
  CallbackGetsChunk
  FileInOrder
  SentIsTrue
PROPERTY
  SentIsSettled
