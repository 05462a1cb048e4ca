SPECIFICATION Spec
CONSTANTS
  esc = esc  key = key  c0 = c0  c1 = c1
  kernel_thread = kernel_thread
  Handler <- MCHandler
  Byte <- MCByte
  Esc = esc
  Capacity = 2
  HwDepth = 1
  MaxBytes = 3
  None = None
  Core <- MCCore
  BootCore = c0
  Task <- MCTask
  Console = console_task
  MaxNest = 3
  TableMax = 2
INVARIANTS
  TokenPerByte
  SequenceInitialised
  PrerequisitesMet
  
PROPERTIES
  TablesStable
  AllCoresUp
