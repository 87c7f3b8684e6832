SPECIFICATION LifeSpec
CONSTANTS
  MaxDepth = 4  MaxNodes = 7  Cont = 8  MaxVarintBytes = 3  IntRange = 128
  DiscRange = 16  FloatBytes = 2  NarrowFloatBytes = 1  KeyBytes = 2  MaxEach = 2
  Collection = 1  Current = 2  MaxInlineDoc = 8  MaxPaths = 3  JoinedName = "joined"
  NameBytes <- MCNames
  Inputs <- MCInputs
INVARIANTS WalkDecodes TaggedAccepts StoredSchemasRestore WideRecordsReadBack KeysSortAsValues
PROPERTY WalkEnds
CHECK_DEADLOCK FALSE
