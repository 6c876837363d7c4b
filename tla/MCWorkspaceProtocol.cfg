SPECIFICATION Spec
CONSTANTS
  Addrs = {a1}
  Ports <- MCPorts
  Texts = {x1}
  Ids = {s1}
  Levels <- MCLevels
  MaxEvents = 2
INVARIANT OpenUnderItsProtocol
