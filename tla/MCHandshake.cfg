SPECIFICATION FairSpec
CONSTANTS
    kMaxClientHellos = 3
    MaxUndecryptable = 2
INVARIANTS NoProtocolError NobodyStranded
PROPERTIES HandshakeCompletes ClosedTogether
CHECK_DEADLOCK FALSE
