SPECIFICATION MCSpec
CONSTANTS
    u1 = u1
    Agent = Agent
    NoOne = NoOne
    Matches <- CeremonyOnly
    Users <- OneUser
    Duration = 1
    MaxDisruptions = 1
    MaxFired = 1
    p1 = p1
    c1 = c1
    c2 = c2
    c3 = c3
    m1 = m1
    m2 = m2
    NoProc = NoProc
    NoCaller = NoCaller
    Procs = {p1}
    Callers = {c1, c2, c3}
    Msgs = {m1, m2}
    MsgOf <- MCMsgOf
    QueueSize = 2
    CacheSize = 2
    MaxAudio = 1
    MaxEvents <- Events
    g1 = g1
    g2 = g2
    x1 = x1
    x2 = x2
    w1 = w1
    w2 = w2
    Segments = {g1, g2}
    Texts = {x1, x2}
    Workers = {w1, w2}
    MaxTasks = 3
    MaxEdits = 1
    MaxCrashes = 1
INVARIANTS
    MCTypeOK
    ReadyAudioIsCurrent
PROPERTIES
    EveryCallerAnswered
    TimedWaitsEnd
    RecognitionEnds
    HolderDecides
    GenerationSettles
CHECK_DEADLOCK FALSE
