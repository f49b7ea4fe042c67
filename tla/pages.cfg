SPECIFICATION MCSpec
CONSTANTS
    MaxKey = 4
    Values = {"a", "b"}
    Respelled = {}
    Limit = 2
    ScanCap = 3
    KvBudget = 3
    MaxWrites = 2
INVARIANTS NothingMissed NothingTwice IndexAgrees
PROPERTIES NoStaleItem PagesEnd
ACTION_CONSTRAINT Observed
CHECK_DEADLOCK FALSE
