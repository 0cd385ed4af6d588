CONSTANTS
    a1 = a1  a2 = a2  a3 = a3  b1 = b1  b2 = b2  s1 = s1  s2 = s2  None = None
    Instances = {a1, a2, a3}
    Sets = {s1}
    SetOf <- OneSet
    MaxRev = 1
    MaxFailures = 0
    MaxFailovers = 0
    InitialReplicas <- Replicas2
    ReplicaCounts = {2}
    UserEdits = {}
    MaxEdits = 0
    MaxCrashes = 1
    MaxErrors = 1
    StaleReads = FALSE
SPECIFICATION FairSpec
INVARIANT NeverTooMany
PROPERTY Converges
PROPERTY NoOrphanVolumes
