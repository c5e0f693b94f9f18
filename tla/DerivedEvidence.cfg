SPECIFICATION FairSpec
CONSTANTS
  Worker = {w1, w2}
  Task = {t1, t2}
  Limit = 2
  MaxFaults = 4
INVARIANTS
  OneReplacement
PROPERTIES
  TasksComplete
CHECK_DEADLOCK FALSE
