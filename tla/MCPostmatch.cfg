SPECIFICATION MCSpec
CONSTANTS
    r1 = r1
    r2 = r2
    Raters = {r1, r2}
    MaxResults = 2
    MaxWaiting = 1
    MaxFaults = 2
INVARIANTS
    PostmatchTypeOK
    ResultsKeptSecret
PROPERTY ScoreIsRanked
CHECK_DEADLOCK FALSE
