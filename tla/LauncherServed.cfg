SPECIFICATION Spec
CONSTANTS
  a1 = a1
  a2 = a2
  NoApp = NoApp
  Apps <- TwoApps
  MaxLoads = 2
INVARIANT
  DeployedServesSocket
