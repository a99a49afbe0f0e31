CONSTANTS
  Cycles = {1, 2}
  OpSeqs <- MCOpSeqs
  Data = 4
  Addr = 4
  AddrTop = 64
  StatBits = 2
  MaxCount = 2
  Mtus = {0, 9}
  SdbEnd = 4
  Handlers <- MCHandlers
SPECIFICATION Spec
INVARIANTS  AnsweredRight 
CHECK_DEADLOCK FALSE
