CONSTANTS
  Threads = {t1}
  Tasks = {a1, a2}
  Queues = {q1, q2}
  NoQueue = NoQueue
  NoProc = NoProc
  MaxRequests = 4
SPECIFICATION LiveSpec
PROPERTY EveryRequestFinishes
CHECK_DEADLOCK FALSE
