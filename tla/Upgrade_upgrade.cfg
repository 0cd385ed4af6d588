CONSTANTS
    Instances = {i1, i2}
    i1 = i1
    i2 = i2
    u1 = u1
    u2 = u2
    u3 = u3
    First = i1
    Upgrades = {u1, u3}
    From <- MCFrom
    To <- MCTo
    Oldest = 1
    Careful = TRUE
    MaxStarts = 1
    MaxFaults = 1
    None = None
SPECIFICATION FairSpec
INVARIANT JobsAlone
INVARIANT ReadyToStart
PROPERTY RemovedOnlyWhenUpgraded
PROPERTY UpgradeEnds
CHECK_DEADLOCK FALSE
