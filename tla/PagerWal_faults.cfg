CONSTANTS
  NumPages = 1
  Vals = {blank, a}
  Blank = blank
  None = None
  Roots = {0, 1}
  Salts = {s1, s2}
  NoSalt = NoSalt
  Readers = {}
  WalCap = 3
  Threshold = 2
  CrashModel = "ordered"
  FaultPoints = {"frame", "ckpt", "saltw", "rollback", "unlink"}
  MaxFaults = 1
SPECIFICATION Spec
INVARIANTS TypeOK CrashSafe
PROPERTY ImplementsStore
SYMMETRY Symmetry
