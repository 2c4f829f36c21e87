CONSTANTS
  Procs = {p1, p2, p3}
  WaitQueues = {w1, w2}
  Queues = {q1, q2, q3, q4}
  Prefill = 1
  NoQueue = NoQueue
  NoProc = NoProc
SPECIFICATION Spec
SYMMETRY Symmetry
INVARIANTS Exclusive QueuesAccounted PublishedNonEmpty QueueInv
PROPERTIES ImplementsQueueLock NoneIsTrue
