SPECIFICATION Spec
CONSTANTS
  Vms = {1, 2}
  MaxNodes = 2
  MaxLimit = 3
  MaxFrame = 3
  MaxCycles = 2
  MaxEvents = 1
INVARIANTS
  TypeOK
  CalmChurnCompletes
  EachListedNodeOnce
  GroupsAreLimited
  SleepsForward
CHECK_DEADLOCK FALSE
