CONSTANTS
  Procs = {t1, t2, t3, t4}
  Threads = {t1, t2, t3, t4}
  NoProc = NoProc
  N = 2
  Wrap = 3
SPECIFICATION FairSpec
PROPERTY AllReleased
CHECK_DEADLOCK FALSE
