SPECIFICATION Spec
CONSTANTS
  Frames = {f1, f2, f3, f4}
  Stamped = {f1, f2}
  TooLong = {}
  NDesc = 2
  IdMod = 4
  NoSkb = NoSkb
INVARIANT DiscardedIsFreed
CHECK_DEADLOCK FALSE
