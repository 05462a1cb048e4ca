SPECIFICATION Spec
CONSTANTS
  Kind = {"SD2", "SDHC"}
  Lba = {0, 1, 2, 3, 4, 5, 6, 7, 8, 9, 10, 11, 12, 13}
  BlockSize = 2
  Retries = 2
  Faults = {"slow_end"}
  FirstLba = 1
  Reserved = 1
  NumFats = 2
  MaxCluster = 4
  EntriesPerSector = 2
  SectorsPerCluster = 2
  MaxSectors = 3
  Outcomes = {"ok", "late"}
  None = None
  Nil = Nil
PROPERTY NextClusterOrZero
