SPECIFICATION Spec
CONSTANTS
  t1 = t1
  t2 = t2
  t3 = t3
  t6 = t6
  s1 = s1
  s2 = s2
  Targets <- MCTargets
  Ipv4 <- MCIpv4
  Sports <- MCSports
INVARIANTS
  TypeOK
  RepliesMapBack
  ProbesAreCounted
PROPERTIES
  KeepsContract
  
CHECK_DEADLOCK FALSE
