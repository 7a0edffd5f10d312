CONSTANTS
  MaxWrites = 5
  MaxAbsences = 2
  MaxErrors = 2
SPECIFICATION Spec
INVARIANT InSyncWhenCaughtUp
PROPERTIES NeverBackwards Follows
CHECK_DEADLOCK FALSE
