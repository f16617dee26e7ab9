\* Without the header: a FIN that comes before the connect.
CONSTANTS
  Job = {j1}
  Lower = 0
  Upper = 1
  ReadSize = 1
  RegionBytes = 1
  UpBytes = 1
  DownBytes = 1
  UseProxyProtocol = FALSE
SPECIFICATION FairSpec
PROPERTY
  ShutdownCompletes
\* A stopped program whose handles are closed takes no further step.
CHECK_DEADLOCK FALSE
