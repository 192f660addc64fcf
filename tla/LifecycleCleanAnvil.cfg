SPECIFICATION FairSpec
CONSTANTS
  Kinds = {genesis, client, node}
  Genesis = genesis
  Client = client
  Scalable = {client, node}
  Misnamed = {}
  MaxVms = 1
  Anvil = TRUE
  FlakyListing = TRUE
  EmptyStateReadable = FALSE
PROPERTY CleaningFreesVms
