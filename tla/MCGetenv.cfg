CONSTANTS
  Threads <- MCThreads
  Kinds <- MCKinds
  None = None
  MaxConns = 3
  MaxFds = 2
  MaxBacklog = 1
  MaxStops = 1
SPECIFICATION Spec
INVARIANTS OwnAnswer
PROPERTIES CallReturns JavaReturns ConnectionsDrain
