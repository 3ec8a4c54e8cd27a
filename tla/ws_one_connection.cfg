SPECIFICATION FairSpec
CONSTANTS
    c1 = c1
    c2 = c2
    l1 = l1
    l2 = l2
    s1 = s1
    s2 = s2
    NoSocket = NoSocket
    Loops <- OneLoopThread
    Sockets <- OneSocket
    Callers <- TwoCallers
    Routines <- ShutdownAndClose
    FrameKinds <- ControlAndOther
    MaxFrames = 1
    Settled = TRUE
INVARIANTS
    TypeOK
    OpenIsServed
PROPERTIES
    LoopEnds
    LossNoticed
