SPECIFICATION Spec
CONSTANTS
  MaxPairs = 2
  MaxFailures = 0
INVARIANT
  LeftOutIsDeployed
