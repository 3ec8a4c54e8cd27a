SPECIFICATION Spec
CONSTANTS
    t1 = t1
    t2 = t2
    q1 = q1
    q2 = q2
    q3 = q3
    n1 = n1
    n2 = n2
    n3 = n3
    x1 = x1
    x2 = x2
    NoXuid = NoXuid
    Binders <- TwoThreads
    Joiners <- TwoThreads
    QQs <- ThreeQQs
    Names <- ThreeNames
    Xuids <- TwoXuids
    Serial = TRUE
    MaxRestarts = 2
INVARIANTS
    TypeOK
    SavedWhenIdle
    UniqueBinding
PROPERTIES
    KeepsTable
