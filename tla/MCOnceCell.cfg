CONSTANTS
  Procs = {t1, a1, a2}
  Threads = {t1}
  NoProc = NoProc
SPECIFICATION FairSpec
INVARIANTS OneInitializer SignaledMeansReady WaitersSafe NobodyStranded
PROPERTY RoleTakenOver
CHECK_DEADLOCK FALSE
