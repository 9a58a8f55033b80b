CONSTANTS
    k1 = k1
    k2 = k2
    v1 = v1
    Keys = {k1, k2}
    Values = {v1}
    Gone = Gone
    BucketWidth = 2
    Overlap = 2
    BatchLimit = 1
    FollowerLag = 1
    Retentions = {1}
    Policies = {"auto"}
    MaxTs = 3
    MaxRows = 3
    MaxPrunes = 1
SYMMETRY Symmetry
SPECIFICATION Spec
INVARIANT TypeOK
INVARIANT ReplicaExact
INVARIANT StatusDurable
PROPERTY ImplementsView
