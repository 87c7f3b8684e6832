SPECIFICATION Spec
CONSTANTS
  byEmail = byEmail  byTag = byTag  byStatus = byStatus
  ann = ann  bob = bob  cyd = cyd
  Names = {byEmail, byTag, byStatus}
  Unique = {byEmail}
  Each = {byTag}
  Docs = {ann, bob, cyd}
  KeyVals = {1, 2}
  Keys <- MCKeys
  Values <- MCValues
  Migrate <- MCMigrate
  Versions = {1, 2}
  Specs <- MCSpecs
  MaxId = 2
  Batch = 1
  MaxDistinct = 1
  Rank <- MCRank
  Error = Error
  MaxOps = 3
  NoDoc = NoDoc  NoRow = NoRow  NoVersion = NoVersion
INVARIANTS IndexesAgree UniqueKeys DeclaredIsActive IdsNeverReissued SchemaOfEveryRecord ReadsFindAll QueriesAgree CheckPasses
CHECK_DEADLOCK FALSE
