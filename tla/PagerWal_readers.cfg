CONSTANTS
  NumPages = 1
  Vals = {blank, a}
  Blank = blank
  None = None
  Roots = {0}
  Salts = {s1, s2}
  NoSalt = NoSalt
  Readers = {r1}
  WalCap = 3
  Threshold = 2
  CrashModel = "never"
  FaultPoints = {}
  MaxFaults = 0
SPECIFICATION CheckpointingWriter
INVARIANT SnapshotsStableForOneReset
PROPERTY WalDrains
