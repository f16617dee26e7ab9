\* Three connections compete for three requests.
CONSTANTS
  Conn = {c1, c2, c3}
  MaxFlyingMessages = 3
  SendMayFail = TRUE
SPECIFICATION FairSpec
INVARIANTS
  DialerInv
PROPERTIES
  SocketOutlivesConns
  ClosedAreDeleted
  IdleDialerStops
  BlockedGetTurn
\* A deleted dialer takes no further step.
CHECK_DEADLOCK FALSE
