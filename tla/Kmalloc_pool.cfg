SPECIFICATION Spec
CONSTANTS
  c1 = c1  c2 = c2
  Caller <- MCCaller
  Frame = {10}
  NumBits = 7
  WordBits = 3
  BlockSize = 2
  PageSize = 4
  MaxSize = 5
  None = None
SYMMETRY MCSymmetry
INVARIANTS
  PoolExact
  HeaderIntact
  FindsFirstFit
