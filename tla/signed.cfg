CONSTANTS
    Requests = {r1, r2}
    Servers = {h1, h2}
    Window = 3
    ForwardSkew = 0
    MaxDrift = 1
    MaxCasRetries = 2
    CacheTtl = 2
    MaxRead = 1
    Horizon = 7
SPECIFICATION MCSpec
ACTION_CONSTRAINT EnvIsThere
SYMMETRY Symmetry
CHECK_DEADLOCK FALSE
INVARIANTS AcceptedOnce RevokedStops NoPinnedFailure
