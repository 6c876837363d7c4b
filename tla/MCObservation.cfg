SPECIFICATION Spec
CONSTANTS
  Hosts = 2
  Kinds = {"service", "fingerprint", "active", "talk", "asn"}
  Ports <- MCPorts
  MaxPaths = 2
INVARIANTS
  TypeOK
  OpenOnlyIfReached
  ClaimsAreHeard
  NoPeerPassedOver
  LingerBounded
PROPERTIES
  EventuallyDone
