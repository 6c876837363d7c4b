SPECIFICATION Spec
CONSTANTS
  f1 = f1
  f2 = f2
  f3 = f3
  Callers <- MCCallers
  Interval = 2
  Horizon = 6
INVARIANTS
  TypeOK
  WaitBounded
  PerCallerPace
CHECK_DEADLOCK FALSE
