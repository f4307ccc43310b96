SPECIFICATION Spec
CONSTANTS
    u1 = u1
    Agent = Agent
    NoOne = NoOne
    Matches <- CeremonyReset
    Users <- OneUser
    Duration = 1
    MaxDisruptions = 0
    MaxFired = 1
INVARIANT TimedWaitEnds
CHECK_DEADLOCK FALSE
