CONSTANTS
    None = None
    Undef = Undef
    t1 = t1
    t2 = t2
    d1 = d1
    d2 = d2
    f1 = f1
    f2 = f2
    Threads = {t1, t2}
    MaxParams = 2
    Data <- MCData
    Procs <- MCProcs
    Modes <- ModernModes
    Requests <- ConcurrentRequests
SPECIFICATION FairSpec
INVARIANTS
    InValueDelivered
    OutValueDelivered
PROPERTY
    ImplementsAtomicCall
