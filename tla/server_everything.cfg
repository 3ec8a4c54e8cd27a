SPECIFICATION FairSpec
CONSTANTS
    MaxServers = 2
    MaxQueue = 1
    MaxNesting = 1
    Features <- Everything
INVARIANTS
    TypeOK
PROPERTIES
    EndsAreHandled
CHECK_DEADLOCK FALSE
