\* Enough bytes to cross both watermarks and to need several writes each way.
CONSTANTS
  Job = {j1}
  Lower = 1
  Upper = 3
  ReadSize = 2
  RegionBytes = 2
  UpBytes = 5
  DownBytes = 3
SPECIFICATION FairSpec
INVARIANTS
  BytesIntact
  RegionsHeld
  CallsFindTheirObject
  BufferBounded
  NoStall
PROPERTIES
  Delivered
  JobsEnd
\* A stopped agent whose handles are closed takes no further step.
CHECK_DEADLOCK FALSE
