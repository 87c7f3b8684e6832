SPECIFICATION SpecPages
CONSTANTS
  Keys = {1, 2, 3, 4, 5, 6, 7, 8, 9, 10, 11}
  LeafSize <- MCLeafSize
  PivotSize <- MCPivotSize
  LeftmostSize = 1
  Capacity = 20
  Loads <- MCLoads
  MaxOps = 3
  KeyBytes <- MCKeyBytes
  ValueLen <- MCValueLen
  MaxKeyLen = 2
  Cont = 8
  MaxVarint = 3
  MaxDepth = 6
  FormatOf <- MCFormatOf
  DamageVals = {0, 2, 9, 21}
INVARIANTS ScansFindAll
CHECK_DEADLOCK FALSE
