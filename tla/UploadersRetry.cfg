CONSTANTS
  alice = alice
  Operators = {alice}
  NumVms = 1
  MaxServices = 2
  MaxGenerated = 5
  Wallets = {}
  GivenLists = {}
  MaxFailures = 2
SPECIFICATION Spec
INVARIANT ServicesGetTheirKeys
