CONSTANTS
    k1 = k1
    k2 = k2
    w1 = w1
    w2 = w2
    Kdcs = {k1, k2}
    Workers = {w1, w2}
    MaxFail = 2
    QueueLimit = 1
    U32Max = 9
    Settings <- MCSettings
SPECIFICATION Spec
SYMMETRY Symmetry
INVARIANT ThresholdHolds
INVARIANT DeletedClean
