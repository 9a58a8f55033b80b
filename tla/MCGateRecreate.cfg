CONSTANTS
    Roles <- ClientOnly
    Strict = TRUE
    MaxStaleness = 3
    FollowerLag = 0
    MaxPoll = 0
    MaxTime = 4
    MaxWrites = 3
SPECIFICATION Spec
INVARIANT StrictRecreated
INVARIANT StrictReplaced
