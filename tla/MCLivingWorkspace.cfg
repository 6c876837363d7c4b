SPECIFICATION Spec
CONSTANTS
  Addrs = {a1}
  Ports <- MCPorts
  Texts = {x1}
  Ids = {s1}
  Levels <- MCLevels
  MaxEvents = 3
INVARIANTS
  TypeOK
  NothingIsLost
  NothingIsInvented
  StaleMergeAddsNothing
