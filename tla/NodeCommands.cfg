SPECIFICATION FairSpec
CONSTANTS
  VM = {"genesis-1", "node-1", "restricted-1"}
  KindOf <- MCKindOf
  Ops = {"start", "reset_to_n", "upgrade", "upgrade_antctl", "extend_volume"}
INVARIANTS
  TypeOK
  OkMeansReached
  CalmCommandSucceeds
PROPERTIES
  LockedOutUntilDeploy
  StartingStartsAll
CHECK_DEADLOCK FALSE
