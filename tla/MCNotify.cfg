CONSTANTS
  Procs = {t1, a1, a2}
  Threads = {t1}
  NoProc = NoProc
  Wrap = 3
SPECIFICATION Spec
SYMMETRY Symmetry
INVARIANTS NotificationsConserved WaitersSafe NobodySleepsOnPermit OldOnesReleased
CHECK_DEADLOCK FALSE
