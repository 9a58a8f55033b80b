CONSTANTS
    k1 = k1
    v1 = v1
    Keys = {k1}
    Values = {v1}
    Gone = Gone
    BucketWidth = 1
    Overlap = 1
    BatchLimit = 1
    FollowerLag = 1
    Retentions = {1}
    Policies = {"auto", "manual"}
    MaxTs = 3
    MaxRows = 2
    MaxPrunes = 1
SPECIFICATION FairSpec
PROPERTY CatchesUp
