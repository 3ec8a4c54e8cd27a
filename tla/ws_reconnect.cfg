SPECIFICATION Spec
CONSTANTS
    c1 = c1
    c2 = c2
    l1 = l1
    l2 = l2
    s1 = s1
    s2 = s2
    NoSocket = NoSocket
    Loops <- TwoLoopThreads
    Sockets <- TwoSockets
    Callers <- OneCaller
    Routines <- ShutdownAndSend
    FrameKinds <- TextAndClose
    MaxFrames = 2
    Settled = TRUE
SYMMETRY AnyOrder
INVARIANTS
    LostMeansGone
    NothingWaits
PROPERTIES
    ClosesOwnSocket
    KeepsPromise
    FramesInTurn
