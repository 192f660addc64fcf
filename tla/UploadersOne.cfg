CONSTANTS
  alice = alice
  Operators = {alice}
  NumVms = 2
  MaxServices = 2
  MaxGenerated = 4
  Wallets = {1, 2, 3, 4, 5}
  GivenLists <- MCGivenLists
  MaxFailures = 1
SPECIFICATION Spec
INVARIANT TypeOK
INVARIANT ServicesArePaid
 
INVARIANT NoKeyLost
INVARIANT CalmServicesGetTheirKeys
PROPERTY FilesAreKept
