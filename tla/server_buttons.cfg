SPECIFICATION Spec
CONSTANTS
    MaxServers = 3
    MaxQueue = 2
    MaxNesting = 1
    Features <- OnlyButtons
INVARIANTS
    ButtonsTell
    StartedTells
PROPERTIES
    KeepsPromise
    LeavesNothingRunning
CHECK_DEADLOCK FALSE
