CONSTANTS
  Threads = {t1}
  Tasks = {a1, a2}
  Queues = {q1, q2}
  NoQueue = NoQueue
  NoProc = NoProc
SPECIFICATION Spec
SYMMETRY Symmetry
INVARIANTS TypeOK MutualExclusion NodesAlive QueueExclusive NoLostWakeup IInv
PROPERTIES WordProtocol ImplementsFifoLock
