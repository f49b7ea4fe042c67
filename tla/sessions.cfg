CONSTANTS
    Sids = {s1, s2}
    Requests = {r1, r2}
    NoSid = NoSid
    IdleTtl = 2
    AbsoluteTtl = 3
    MaxTime = 3
    MaxRev = 2
SPECIFICATION Spec
SYMMETRY Symmetry
CHECK_DEADLOCK FALSE
INVARIANTS RevokedStaysDead RefusedStaysDead IdleSessionsEnd
