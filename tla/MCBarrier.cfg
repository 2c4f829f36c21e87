CONSTANTS
  Procs = {t1, a1, a2}
  Threads = {t1}
  NoProc = NoProc
  N = 2
  Wrap = 3
SPECIFICATION FairSpec
INVARIANTS CountsArrivals WaitersSafe ReleasedWhenComplete
PROPERTY AllReleased
CHECK_DEADLOCK FALSE
