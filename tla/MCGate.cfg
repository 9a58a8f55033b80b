CONSTANTS
    Roles <- ClientAndServer
    Strict = TRUE
    MaxStaleness = 1
    FollowerLag = 0
    MaxPoll = 1
    MaxTime = 4
    MaxWrites = 2
SPECIFICATION Spec
INVARIANT OpenBounded
INVARIANT StrictUpToDate
