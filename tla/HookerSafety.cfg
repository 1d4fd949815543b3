SPECIFICATION Spec
CONSTANTS
  k1 = k1
  k2 = k2
  k3 = k3
  k4 = k4
  Keys <- MCKeys
  RedirPortKeys <- MCRedirPortKeys
  LEGMAP_SIZE = 2
  MaxSockets = 5
  MaxQueue = 1
CHECK_DEADLOCK FALSE
SYMMETRY Symmetry
INVARIANTS
  TypeOK
  CookieIsCurrent
  DropOnlyWhenFull
  AttachedInOrder
