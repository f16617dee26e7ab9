CONSTANTS
  Conn = {c1, c2}
  MaxFlyingMessages = 2
  SendMayFail = FALSE
SPECIFICATION Spec
INVARIANTS
  BlockedWriterIsCalled
CHECK_DEADLOCK FALSE
