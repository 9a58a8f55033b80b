CONSTANTS
    Roles <- ClientOnly
    Strict = FALSE
    MaxStaleness = 1
    FollowerLag = 0
    MaxPoll = 0
    MaxTime = 5
    MaxWrites = 4
SPECIFICATION Spec
INVARIANT IssuedWithinWindow
