\* Four ids for a store of three, one of them without a CHLO.
CONSTANTS
  Id = {i1, i2, i3, i4}
  MaxConnectionsInStore = 3
  MaxUndecryptablePackets = 2
  MaxPer100ms = 2
SPECIFICATION FairSpec
INVARIANTS
  OneHome
  StoreConsistent
  StoreBounded
PROPERTIES
  BufferedLeave
\* A closed dispatcher takes no further step.
CHECK_DEADLOCK FALSE
