CONSTANTS
  Procs = {t1, t2, a1}
  Threads = {t1, t2}
  NoProc = NoProc
  Initial = 2
  MaxPermits = 2
  Sizes = {1, 2}
SPECIFICATION RwFairSpec
INVARIANT WriterAlone
PROPERTY NobodyStarves
CHECK_DEADLOCK FALSE
