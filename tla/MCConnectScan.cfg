SPECIFICATION Spec
CONSTANTS
  p1 = p1
  p2 = p2
  p3 = p3
  Targets <- MCTargets
  Concurrency = 2
  Retries = 1
INVARIANTS
  TypeOK
  ResultConservation
  PermitAccounting
PROPERTIES
  NoConnectAfterCancel
  KeepsContract
  Terminates
CHECK_DEADLOCK FALSE
