CONSTANTS
    a1 = a1  a2 = a2  a3 = a3  b1 = b1  b2 = b2  s1 = s1  s2 = s2  None = None
    Instances = {a1, a2, a3}
    Sets = {s1}
    SetOf <- OneSet
    MaxRev = 2
    MaxFailures = 1
    MaxFailovers = 1
    InitialReplicas <- Replicas3
    ReplicaCounts = {3}
    UserEdits = {"template"}
    MaxEdits = 1
    MaxCrashes = 0
    MaxErrors = 0
    StaleReads = FALSE
SPECIFICATION EstablishedSpec
SYMMETRY Symmetry
INVARIANT TypeOK
INVARIANT OneRolloutAtATime
PROPERTY RolloutSparesLeader
