CONSTANTS
  Apps = {a1}
  None = None
  MaxStarts = 4
  MaxStops = 2
  MaxFailures = 1
SPECIFICATION Spec
INVARIANTS TypeOK AloneServes SomebodyServes ReadyInFreshPod
PROPERTIES Recovers
CHECK_DEADLOCK FALSE
