CONSTANTS
  Procs = {t1, a1, a2}
  Threads = {t1}
  NoProc = NoProc
  Initial = 2
  MaxPermits = 2
  Sizes = {0, 1, 2}
SPECIFICATION Spec
SYMMETRY Symmetry
INVARIANTS TypeOK PermitsConserved WaitersSafe NobodyStuck FlagMeansLine
PROPERTY NoBarging
CHECK_DEADLOCK FALSE
