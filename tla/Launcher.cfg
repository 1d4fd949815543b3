SPECIFICATION Spec
CONSTANTS
  a1 = a1
  a2 = a2
  NoApp = NoApp
  Apps <- TwoApps
  MaxLoads = 4
SYMMETRY Symmetry
INVARIANTS
  TypeOK
  DeployIsReal
  RemoveXdpIsReal
  EntryIsActive
