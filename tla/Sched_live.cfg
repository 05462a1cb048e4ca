SPECIFICATION LiveSpec
CONSTANTS
  c0 = c0  c1 = c1  t1 = t1  t2 = t2  t3 = t3
  Core <- MCOneCore
  Task <- MCTwoTask
  BootCore = c0
  None = None
  MinCounter <- MCMinCounter
PROPERTIES
  ZombieLeaves
  ClaimedRuns
