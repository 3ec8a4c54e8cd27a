SPECIFICATION Spec
CONSTANTS
    c1 = c1
    c2 = c2
    l1 = l1
    l2 = l2
    s1 = s1
    s2 = s2
    NoSocket = NoSocket
    Loops <- TwoLoopThreads
    Sockets <- TwoSockets
    Callers <- OneCaller
    Routines <- ShutdownOnly
    FrameKinds <- TextAndClose
    MaxFrames = 1
    Settled = FALSE
INVARIANTS
    LostMeansGone
