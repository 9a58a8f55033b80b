CONSTANTS
    None = None
    Idle = Idle
    w1 = w1
    w2 = w2
    Workers <- MCWorkers
    Names <- MCNames
    Policies <- MCPolicies
    Acl <- MCAcl
    Starts <- MCStarts
    Dictionary = {"word"}
    Strength <- MCStrength
    MaxSelfKeep = 2
    DefaultFlags = {}
    DefaultLife = 2
    MaxLife = 3
    MaxKvno = 9
    MaxWrites = 5
    MaxTime = 1
SYMMETRY Symmetry
SPECIFICATION Spec
INVARIANTS
    RestrictionsHold
PROPERTIES
    HistoryKept
    WritesAllowed
CHECK_DEADLOCK FALSE
