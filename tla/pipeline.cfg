SPECIFICATION MCSpec
CONSTANTS
    Requests = {r1, r2}
    Probe = r1
    MaxInFlight = 1
INVARIANTS SlotsAreExact HandlerIsEntitled RefusalIsFinal JudgedAsOne
ACTION_CONSTRAINT Judging
CHECK_DEADLOCK FALSE
