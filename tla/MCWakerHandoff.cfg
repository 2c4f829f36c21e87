CONSTANTS
  Wakers = {w1, w2, w3}
  NoWaker = NoWaker
SPECIFICATION SlotSpec
INVARIANTS SlotExclusive TakenWakerWoken
CHECK_DEADLOCK FALSE
