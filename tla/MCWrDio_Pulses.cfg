SPECIFICATION FairSpec
CONSTANTS
  Channels = {0, 1}
  RingLen = 2
  NStamp = 1
  Users = {u1, u2}
  StampCalls <- NoReader
  PulseCalls <- OneLoop
  OneCpu = FALSE
  MaxStamps <- OneBusy
  Nobody = Nobody
INVARIANTS
  LatchedWhole
  NotLoopedTooOften
CHECK_DEADLOCK FALSE
