\* With the PROXY header, so that the write queue is not empty at the connect.
CONSTANTS
  Job = {j1}
  Lower = 1
  Upper = 2
  ReadSize = 2
  RegionBytes = 2
  UpBytes = 3
  DownBytes = 3
  UseProxyProtocol = TRUE
SPECIFICATION FairSpec
INVARIANTS
  RegionsHeld
  CallsFindTheirObject
PROPERTIES
  Delivered
  ShutdownCompletes
\* A stopped program whose handles are closed takes no further step.
CHECK_DEADLOCK FALSE
