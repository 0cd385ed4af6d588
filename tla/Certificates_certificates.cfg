CONSTANTS
    Clusters = {1, 2}
    Kinds <- TwoKinds
    MaxUid = 2
    MaxEdits = 1
    MaxFaults = 1
    MaxStale = 1
    Edited = {1}
SPECIFICATION FairSpec
INVARIANT KeysMatch
INVARIANT OwnersKept
PROPERTY Settles
