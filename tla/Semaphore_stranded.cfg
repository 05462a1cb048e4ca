SPECIFICATION Spec
CONSTANTS
  t1 = t1  t2 = t2  t3 = t3  t4 = t4
  Task <- MCTasks
  NumCores = 2
  InitCount = 1
  MaxCount = 4
SYMMETRY MCSymmetry
CHECK_DEADLOCK FALSE
INVARIANT NobodyStranded
