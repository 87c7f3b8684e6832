CONSTANTS
  NumPages = 1
  Vals = {blank, a}
  Blank = blank
  None = None
  Roots = {0, 1}
  Salts = {s1, s2}
  NoSalt = NoSalt
  Readers = {}
  WalCap = 3
  Threshold = 2
  CrashModel = "any"
  FaultPoints = {"frame", "walsync", "ckpt", "saltw", "salts", "trunc", "truncs", "hdrw", "hdrs", "rollback", "unlink"}
  MaxFaults = 1
SPECIFICATION Spec
INVARIANTS ReadsAreCommitted DurableAtRest
SYMMETRY Symmetry
CHECK_DEADLOCK FALSE
