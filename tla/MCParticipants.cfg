SPECIFICATION MCSpec
CONSTANTS
    sid = sid
    Sids = {sid}
    MaxEpoch = 2
    MaxIncidents = 1
    u1 = u1
    u2 = u2
    a1 = a1
    a2 = a2
    s1 = s1
    s2 = s2
    RoomIds = {1, 2}
    Users = {u1, u2}
    Agents = {a1, a2}
    Chairs = {s1, s2}
    FormalSeats <- Formal
    Capacity = 1
    CloseRunning = FALSE
INVARIANTS
    MCTypeOK
    LeaseIsNewest
    ConnectedIsOnline
    AnnouncedIsKnown
    RevokedStaysOffline
    OneOpenRoom
    CapacityHeld
    SeatsAreTaken
    AttemptsAgree
CONSTRAINT Separate
CHECK_DEADLOCK FALSE
