SPECIFICATION Spec
CONSTANTS
    p1 = p1
    p2 = p2
    c1 = c1
    c2 = c2
    c3 = c3
    m1 = m1
    m2 = m2
    NoProc = NoProc
    NoCaller = NoCaller
    Procs = {p1, p2}
    Callers = {c1, c2, c3}
    Msgs = {m1, m2}
    MsgOf <- MCMsgOf
    QueueSize = 1
    CacheSize = 1
INVARIANTS
    TypeOK
    MemoryIsPrefix
    PublishedIsStored
    NobodyStranded
    EffectOnce
PROPERTY HistoryOnlyGrows
CHECK_DEADLOCK FALSE
