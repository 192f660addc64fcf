SPECIFICATION Spec
CONSTANTS
  MaxPairs = 3
  MaxFailures = 2
INVARIANTS
  TypeOK
  NoneUnreachable
  OkMeansServed
  CalmRunRepairs
  NodesAreBehindNat
