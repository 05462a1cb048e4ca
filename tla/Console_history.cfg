SPECIFICATION ConsoleSpec
CONSTANTS
  Char <- MCChar
  Del <- MCDel
  Elem <- MCLine
  Name <- MCName
  LineMax = 3
  MaxNameLen = 2
  PathMax = 4
  MaxDepth = 2
  Capacity = 3
  UIntSize = 16
  None = None
INVARIANTS
  EchoIsLine
PROPERTIES
  RefinesFifo
  HistoryRecalls
  PathNamesCwd
