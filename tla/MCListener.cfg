\* Three sessions and the time-wait list compete for three requests.
CONSTANTS
  Session = {s1, s2, s3}
  TimeWait = TimeWait
  MaxFlyingMessages = 3
  SendMayFail = TRUE
  MaxPending = 4
SPECIFICATION FairSpec
INVARIANTS
  BlockedAreQueued
  WakeupComing
  AcceptedAreTold
PROPERTIES
  BlockedGetTurn
\* A deleted listener takes no further step.
CHECK_DEADLOCK FALSE
