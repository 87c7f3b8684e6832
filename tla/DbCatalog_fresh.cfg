SPECIFICATION CSpec
CONSTANTS
  A = A  B = B  orders = orders  users = users  logs = logs
  Threads = {A, B}
  Callers = {A, B}
  Names = {orders, users, logs}
  LeftNames = {orders, logs}
  Existing = {orders, users}
  Deep = TRUE
  MaxPage = 12
  MaxTxns = 5
  None = None
  RingLen = 2
  MaxErrors = 4
  MaxReads = 1
  MaxCalls = 4
INVARIANTS RowsKeptWhenFresh WatermarkAhead MessagesReadable HandlesKept RecordedAlive
SYMMETRY Sym
CHECK_DEADLOCK FALSE
