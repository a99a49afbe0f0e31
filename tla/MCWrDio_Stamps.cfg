SPECIFICATION FairSpec
CONSTANTS
  Channels = {0, 1}
  RingLen = 2
  NStamp = 2
  Users = {u1, u2}
  StampCalls <- Readers
  PulseCalls <- NoPulses
  OneCpu = TRUE
  MaxStamps <- OneBusy
  Nobody = Nobody
INVARIANTS
  ReadInOrder
PROPERTY WaiterWoken
CHECK_DEADLOCK FALSE
