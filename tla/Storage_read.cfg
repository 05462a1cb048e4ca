SPECIFICATION LiveSpec
CONSTANTS
  Kind = {"SD2", "SDHC"}
  Lba = {0, 1, 2, 3, 4, 5, 6, 7, 8, 9, 10, 11, 12, 13}
  BlockSize = 2
  Retries = 2
  Faults = {"lost", "slow", "no_data", "stuck", "odd"}
  FirstLba = 1
  Reserved = 1
  NumFats = 2
  MaxCluster = 4
  EntriesPerSector = 2
  SectorsPerCluster = 2
  MaxSectors = 3
  Outcomes = {"ok", "early"}
  None = None
  Nil = Nil
INVARIANTS
  InitAgrees
  AnswersItsCommand
  ReadsTheBlock
  CacheCoherent
  CopiesInOrder
PROPERTIES
  CallReturns
