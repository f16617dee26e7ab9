SPECIFICATION FairSpec
CONSTANTS
  NumBytes = 5
  WriteSizes = {2, 3}
  SliceSize = 2
  FrameSize = 2
  BlockSize = 3
  Capacity = 4
  SessionLimit = 6
  Windows <- MCWindows
  AutoTune = TRUE
INVARIANTS ConnectionKept NothingFreedEarly NoMissedWakeup
PROPERTIES ImplementsPipe Delivered
CHECK_DEADLOCK FALSE
