SPECIFICATION FairSpec
CONSTANTS
  NDesc = 2
  MaxFrames = 5
INVARIANTS
  HandledInOrder
  WakeupPending
  MaskedForAWhile
PROPERTY AllHandled
CHECK_DEADLOCK FALSE
