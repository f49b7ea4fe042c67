CONSTANTS
    Callers = {c1, c2}
    Capacity = 3
    Rate = 2
    Costs = {1, 3}
    Second = 1
    MaxElapsed = 7
    TtlFloor = 6
    MaxDrift = 1
    MaxCasRetries = 2
    MaxVersion = 3
    Horizon = 8
SPECIFICATION MCSpec
ACTION_CONSTRAINT Prompt
CONSTRAINT Claimed
SYMMETRY Symmetry
CHECK_DEADLOCK FALSE
INVARIANTS NoOverspend NeverHarsher RetryHonest
