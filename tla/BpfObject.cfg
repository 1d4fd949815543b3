SPECIFICATION Spec
CONSTANTS
  NMaps = 3
  NProgs = 2
  MaxFd = 14
INVARIANTS
  TypeOK
  HandlesValid
  DescriptorsOwned
