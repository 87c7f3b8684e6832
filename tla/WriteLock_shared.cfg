CONSTANTS
  e1 = e1
  e2 = e2
  t1 = t1
  t2 = t2
  t3 = t3
  k1 = k1
  k2 = k2
  NoEnv = NoEnv
  Envs = {e1, e2}
  Threads = {t1, t2, t3}
  EnvOf <- Three
  ReadOnly = {}
  KeysOf <- OwnKeys
  NoKey = NoKey
  Salts = {1, 2}
  Nothing = Nothing
  Threshold = 2
  MaxPages = 2
  MaxCommits = 2
  MaxOpens = 2
  GoOn = FALSE
SPECIFICATION SessFairSpec
INVARIANTS HandlesTypeOK OneWriterPerEnv NoOrphanedLock DurableUnlessStale BackupIsSnapshot
PROPERTY ByteComesFree
CHECK_DEADLOCK FALSE
