CONSTANTS
  None = None
  Denied = Denied
  DefaultSocket = "/tmp/envproxy/agent.sock"
  Numbers <- MCNumbers
  Width = 256
  Templates <- MCTemplates
  Paths <- MCPaths
  Ignore = TRUE
  MaxStarts = 3
  MaxEnds = 2
  MaxPods = 2
SPECIFICATION Spec
INVARIANTS ExecutesAsAsked AsksItsAgent AloneIsTrusted NotMissed
PROPERTIES Recovers
CHECK_DEADLOCK FALSE
