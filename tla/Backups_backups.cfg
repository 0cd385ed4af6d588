CONSTANTS
    Repos = {1, 2}
    b1 = b1
    b2 = b2
    Buckets = {b1, b2}
    None = None
    RepoChoices <- Lists
    InitialRepos <- Initial
    MaxEdits = 1
    MaxRequests = 2
    MaxFaults = 1
SPECIFICATION FairSpec
INVARIANT RepoStatusTruthful
INVARIANT ManualTruthful
PROPERTY ManualWaits
PROPERTY ManualEnds
PROPERTY SchedulesFollow
