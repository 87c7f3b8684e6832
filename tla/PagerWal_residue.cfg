CONSTANTS
  NumPages = 2
  Vals = {blank, a}
  Blank = blank
  None = None
  Roots = {0}
  Salts = {s1, s2}
  NoSalt = NoSalt
  Readers = {}
  WalCap = 3
  Threshold = 2
  CrashModel = "process"
  FaultPoints = {"walsync"}
  MaxFaults = 1
SPECIFICATION Spec
INVARIANT CrashSafe
SYMMETRY Symmetry
