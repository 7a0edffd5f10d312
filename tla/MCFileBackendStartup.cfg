CONSTANTS
  Tasks = {t1, t2}
  None = None
  Err = Err
  QuietStartup = FALSE
  MaxWrites = 4
  MaxAbsences = 1
SYMMETRY Symmetry
SPECIFICATION Spec
INVARIANT ChangeIsSeen
CHECK_DEADLOCK FALSE
