SPECIFICATION Spec
CONSTANTS
    u1 = u1
    Agent = Agent
    NoOne = NoOne
    Matches <- SpeechOnce
    Users <- OneUser
    Duration = 1
    MaxDisruptions = 2
    MaxFired = 1
INVARIANT StoppedClockReturns
CHECK_DEADLOCK FALSE
