CONSTANTS
    i1 = i1
    i2 = i2
    Instances = {i1, i2}
    NewInstance = i1
    Sources = {"none", "cluster", "cloud", "volumes"}
    Dirs = {"pgdata", "pgwal", "repo"}
    Projections <- Files
    CloneDisabled = FALSE
    MaxRestores = 2
    MaxConfigs = 2
    MaxEdits = 2
    MaxFaults = 1
    None = None
SPECIFICATION FairSpec
INVARIANT RestoreAlone
INVARIANT RestoredStartsAlone
INVARIANT JobHasConfig
INVARIANT MovesFirst
PROPERTY RestoreOnce
PROPERTY RestoreEnds
