CONSTANTS
  Wakers = {w1, w2}
  NoWaker = NoWaker
SPECIFICATION SlotSpec
INVARIANT LatestWakerWoken
CHECK_DEADLOCK FALSE
