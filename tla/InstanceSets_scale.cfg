CONSTANTS
    a1 = a1  a2 = a2  a3 = a3  b1 = b1  b2 = b2  s1 = s1  s2 = s2  None = None
    Instances = {a1, a2, b1, b2}
    Sets = {s1, s2}
    SetOf <- TwoSets
    MaxRev = 2
    MaxFailures = 0
    MaxFailovers = 0
    InitialReplicas <- Replicas21
    ReplicaCounts = {0, 1, 2}
    UserEdits = {"scale", "template"}
    MaxEdits = 1
    MaxCrashes = 0
    MaxErrors = 0
    StaleReads = FALSE
SPECIFICATION FairEstablishedSpec
PROPERTY DataRetained
PROPERTY ScaleDownSparesLeader
PROPERTY Converges
