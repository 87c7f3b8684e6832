CONSTANTS
  e1 = e1
  e2 = e2
  t1 = t1
  t2 = t2
  t3 = t3
  k1 = k1
  k2 = k2
  NoEnv = NoEnv
  Envs = {e1, e2}
  Threads = {t1}
  EnvOf <- One
  ReadOnly = {e2}
  KeysOf <- PlainOnly
  NoKey = NoKey
  Salts = {1, 2}
  Nothing = Nothing
  Threshold = 3
  MaxPages = 2
  MaxCommits = 2
  MaxOpens = 3
  GoOn = TRUE
SPECIFICATION SessSpec
INVARIANT CoexistsWithReaders
