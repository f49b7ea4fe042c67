SPECIFICATION MCSpec
CONSTANTS
    Calls = {c1, c2, c3}
    One = c1
    Two = c2
    Other = c3
    Kinds = {"create", "put", "update", "updateIf", "patch", "patchIf", "delete", "deleteIf"}
    TombstoneBump = 0
    MayLoseRace = TRUE
    MaxLine = 2
    Long = 4
INVARIANTS VersionNamesContent ChallengedRanNothing AnsweredInOrder
PROPERTIES NoLostEdit
ACTION_CONSTRAINT AnyCaller
CHECK_DEADLOCK FALSE
