CONSTANTS
    a1 = a1  a2 = a2  a3 = a3  s1 = s1  None = None
    Instances = {a1, a2, a3}
    Sets = {s1}
    SetOf <- OneSet
    MaxRev = 1
    MaxFailures = 0
    MaxFailovers = 1
    Starts = {"new", "established"}
    NewInstances = {a1, a2}
    MaxDown = 0
    MaxErrors = 1
    MaxOthers = 1
SPECIFICATION FairSpec
INVARIANT InstancesUnderFinalizer
PROPERTY OthersKept
PROPERTY NoFailover
PROPERTY StoppedBeforeGone
PROPERTY DeletionCompletes
CHECK_DEADLOCK FALSE
