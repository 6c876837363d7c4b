SPECIFICATION Spec
CONSTANTS
  h1 = h1
  h2 = h2
  web = web
  ssh = ssh
  Hosts <- MCHosts
  Ipv6 <- MCIpv6
  Ports <- MCPorts
  Defaults <- MCDefaults
  Playbooks <- MCUngated
  MaxRuns = 2
INVARIANTS
  OpenPortsOnly
CHECK_DEADLOCK FALSE
