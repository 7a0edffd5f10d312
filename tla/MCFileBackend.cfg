CONSTANTS
  Tasks = {t1, t2}
  None = None
  Err = Err
  QuietStartup = TRUE
  MaxWrites = 4
  MaxAbsences = 2
SYMMETRY Symmetry
SPECIFICATION Spec
INVARIANTS TypeOK CacheInSync
PROPERTIES AnswerNotOlder
CHECK_DEADLOCK FALSE
