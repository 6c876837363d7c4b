SPECIFICATION Spec
CONSTANTS
  h1 = h1
  h2 = h2
  web = web
  ssh = ssh
  Hosts <- MCHosts
  Ipv6 <- MCIpv6
  Ports <- MCPorts
  Defaults <- MCDefaults
  Playbooks <- MCPlaybooks
  MaxRuns = 2
INVARIANTS
  TypeOK
  StatusIsTrue
  ResumeIsComplete
PROPERTIES
  NothingAfterFinish
  Returns
CHECK_DEADLOCK FALSE
