SPECIFICATION DeploySpec
CONSTANTS
    Secrets = {s1, s2}
    FromFile = {s2}
    MaxFaults = 2
    MaxEvents = 2
    MaxReruns = 1
INVARIANTS OkMeansComplete
PROPERTIES KeysKept MigrationsAppendOnly RerunHeals
CHECK_DEADLOCK FALSE
