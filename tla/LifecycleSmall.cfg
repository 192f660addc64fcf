SPECIFICATION Spec
CONSTANTS
  Kinds = {genesis, client, node, restricted}
  Genesis = genesis
  Client = client
  Scalable = {client, node}
  Misnamed = {restricted}
  MaxVms = 2
  Anvil = FALSE
  FlakyListing = FALSE
  EmptyStateReadable = FALSE
INVARIANTS TypeOK NoVmWithoutWorkspace WalletHasDetails
PROPERTIES ImplementsEnvironment UpscaleKeepsVms CleanLosesFundsOnlyUndrained
