SPECIFICATION Spec
CONSTANTS
  c1 = c1
  c2 = c2
  h1 = h1
  h2 = h2
  b1 = b1
  b2 = b2
  Ctxs <- TwoCtxs
  Chans <- TwoChans
  Bufs <- TwoBufs
SYMMETRY Symmetry
CHECK_DEADLOCK FALSE
INVARIANT
  QueueReleased
