SPECIFICATION FairSpec
CONSTANTS
  Frames = {f1, f2, f3, f4, f5}
  Stamped = {f1}
  TooLong = {f5}
  NDesc = 2
  IdMod = 3
  NoSkb = NoSkb
INVARIANTS
  NoDoubleFree
  NoDanglingSlot
PROPERTIES
  DeviceOwnsReady
  IsALink
  HeldIsSent
CHECK_DEADLOCK FALSE
