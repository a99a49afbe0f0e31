SPECIFICATION PpsSpec
CONSTANTS
  Ticks = 3
  LoMod = 2
  MaxSec = 5
INVARIANTS
  StampNamesItsSecond
  NowIsCurrent
CHECK_DEADLOCK FALSE
