SPECIFICATION Spec
CONSTANTS
    u1 = u1
    Agent = Agent
    NoOne = NoOne
    Matches <- DebateAndCeremony
    Users <- OneUser
    Duration = 1
    MaxDisruptions = 1
    MaxFired = 1
INVARIANTS TypeOK WaitHasEnd RunningIsRecognised SpokenBounded CheckpointCurrent PendingHolds
PROPERTIES HeldMatchStaysPaused TimersNeverCutShort
CHECK_DEADLOCK FALSE
