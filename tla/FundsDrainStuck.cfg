CONSTANTS
  v1 = v1
  Vms = {v1}
  Services = 2
  MaxTokens = 1
  MaxGas = 4
  MaxFee = 1
  Reserve = 2
  Wrap = 100
  MaxFailures = 1
SPECIFICATION FairSpec
PROPERTY AllTokensDrained
