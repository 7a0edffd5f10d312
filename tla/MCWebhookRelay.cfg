CONSTANTS
  None = None
  Denied = Denied
  DefaultSocket = "/tmp/envproxy/agent.sock"
  Numbers <- MCNumbers
  Width = 256
  Templates <- MCTemplates
  Paths <- MCPaths
  Ignore = TRUE
  MaxStarts = 2
  MaxEnds = 1
  MaxPods = 1
SPECIFICATION Spec
INVARIANT RelayServes
CHECK_DEADLOCK FALSE
