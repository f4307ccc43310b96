SPECIFICATION Spec
CONSTANTS
    h1 = h1
    h2 = h2
    a1 = a1
    b1 = b1
    b2 = b2
    nobody = nobody
    Humans <- MCHumans
    Agents <- MCAgents
    SideOf <- MCSideOf
    NoOne = nobody
    First = "AFFIRMATIVE"
    Announced = TRUE
    Total = 3
    MaxTurn = 2
    Minimum = 2
    Stops = {"pause"}
    MaxOpps = 3
    MaxStops = 1
    MaxFired = 1
INVARIANT NoWaitForOwnText
CHECK_DEADLOCK FALSE
