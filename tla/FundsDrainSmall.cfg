CONSTANTS
  v1 = v1
  v2 = v2
  Vms = {v1, v2}
  Services = 2
  MaxTokens = 1
  MaxGas = 4
  MaxFee = 1
  Reserve = 2
  Wrap = 100
  MaxFailures = 1
SPECIFICATION FairSpec
INVARIANT TypeOK
INVARIANT VisitedIsEmpty
PROPERTY DustBlocksDrain
PROPERTY CalmDrainsAll
PROPERTY OnlyFailuresStopDrains
