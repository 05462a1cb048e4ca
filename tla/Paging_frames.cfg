SPECIFICATION PagingSpec
CONSTANTS
  rd = rd
  Flags <- MCFlags
  MaxVmaCount = 2
  Pages = 3
  NumFrames = 9
  Top = 2
  Fanout = 2
  MaxProcessPages = 3
CHECK_DEADLOCK FALSE
INVARIANTS
  Disjoint
  FramesOwned
  FlagsTellUse
  KernelPagesExact
PROPERTIES
  RemovesOneArea
  MapsOnlyThatPage
  CopyComplete
