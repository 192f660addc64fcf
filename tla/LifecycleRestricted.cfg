SPECIFICATION Spec
CONSTANTS
  Kinds = {genesis, client, restricted}
  Genesis = genesis
  Client = client
  Scalable = {client}
  Misnamed = {restricted}
  MaxVms = 1
  Anvil = FALSE
  FlakyListing = FALSE
  EmptyStateReadable = FALSE
PROPERTY UpscaleRemovesNothing
