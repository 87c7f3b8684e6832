SPECIFICATION Spec
CONSTANTS
  A = A  B = B  orders = orders  users = users  logs = logs
  Threads = {A, B}
  Names = {orders, users, logs}
  LeftNames = {orders, logs}
  Existing = {orders, users}
  Deep = TRUE
  MaxPage = 12
  MaxTxns = 5
  None = None
INVARIANTS RowsKept
SYMMETRY Sym
CHECK_DEADLOCK FALSE
