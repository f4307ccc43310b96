SPECIFICATION Spec
CONSTANTS
    MaxRuns = 1
    MaxTroubles = 1
INVARIANT NoWaitCycle
CHECK_DEADLOCK FALSE
