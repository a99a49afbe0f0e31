SPECIFICATION FairSpec
CONSTANTS
  Cycles = {"a", "b", "w"}
  DeviceList <- MCDeviceList
  DeviceOf <- MCDeviceOf
  Shape <- MCShape
  Fault <- MCFault
  RbaMod = 2
  TimeMod = 8
  Patience = 1
  BadRemote = TRUE
  CloseInFlush = FALSE
  Epoch = 5
  MaxGap = 2
  MaxTime = 7
INVARIANTS CalledBackOnce OkMeansAnswered DeadlineSurvives
PROPERTIES IsAQueue SentIsCalledBack
