SPECIFICATION Spec
CONSTANTS
  c0 = c0  c1 = c1  t1 = t1  t2 = t2  t3 = t3
  Core <- MCCore
  IrqCore <- MCIrqCore
  Task <- MCTask
  None = None
  InitCount = 1
  MaxCount = 2
SYMMETRY MCSymmetry
INVARIANTS
  Exclusive
  HandlerCanGetIt
  NoLostWakeup
  NodesLinked
PROPERTIES
  RefinesSemaphore
