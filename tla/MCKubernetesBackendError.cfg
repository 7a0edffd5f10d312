CONSTANTS
  MaxWrites = 3
  MaxAbsences = 0
  MaxErrors = 1
SPECIFICATION Spec
PROPERTY KeepsInSync
CHECK_DEADLOCK FALSE
