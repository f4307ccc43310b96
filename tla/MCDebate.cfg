SPECIFICATION MCSpec
CONSTANTS
    h1 = h1
    h2 = h2
    a1 = a1
    b1 = b1
    b2 = b2
    nobody = nobody
    Humans <- MCHumans
    Agents <- MCAgents
    SideOf <- MCSideOf
    NoOne = nobody
    First = "AFFIRMATIVE"
    Announced = TRUE
    Total = 3
    MaxTurn = 2
    Minimum = 2
    Stops = {"pause","error","asr","crash","reset"}
    MaxOpps = 3
    MaxStops = 1
    MaxFired = 1
    MaxRuns = 2
    MaxTroubles = 1
    MaxAudio = 2
    MaxEvents <- Events
INVARIANTS
    MCTypeOK
    BudgetAccounts
    SelectionHasTimer
    NoLateAudio
    TranscriptExact
PROPERTIES
    HumansFirst
    SettledOnce
CHECK_DEADLOCK FALSE
