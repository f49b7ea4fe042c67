SPECIFICATION MCSpec
CONSTANTS
    MaxKey = 4
    Values = {"a", "b"}
    Respelled = {}
    Limit = 2
    ScanCap = 3
    KvBudget = 3
    MaxWrites = 1
INVARIANT CapDropsNothing
ACTION_CONSTRAINT Observed
CHECK_DEADLOCK FALSE
