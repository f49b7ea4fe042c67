SPECIFICATION Spec
CONSTANTS
    c1 = c1
    c2 = c2
    c3 = c3
    Tabs = {t1, t2}
    Calls = {c1, c2, c3}
    Txs = {"mine", "again", "theirs"}
    Foreign = {"theirs"}
    MaxSessions = 2
    MaxLost = 1
ACTION_CONSTRAINTS InOrder LoginsInOrder
CONSTRAINT Pairs
INVARIANTS
    NoForeignLogin
    WriteOnce
    HealsStaleToken
    NoOrphanSession
PROPERTY RefreshTellsTruth
CHECK_DEADLOCK FALSE
