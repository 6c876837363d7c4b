SPECIFICATION Spec
CONSTANTS
  h1 = h1
  h2 = h2
  web = web
  dns = dns
  Hosts <- MCHosts
  Ipv6 <- MCIpv6
  Plans <- MCPlans
  Concurrency = 1
  ProbePorts = 2
  MaxCommands = 2
INVARIANTS
  TypeOK
  NothingPassedOver
  FindingsAreKept
  ProbesStop
PROPERTIES
  CommandEnds
CHECK_DEADLOCK FALSE
