CONSTANTS
    m1 = m1  m2 = m2  m3 = m3  None = None
    Members = {m1, m2, m3}
    Types = {"Switchover", "Failover"}
    MaxEdits = 2
    MaxTimeline = 4
    MaxFailovers = 1
    MaxStops = 1
    MaxCrashes = 2
    CommandsOutlive = FALSE
    OtherCandidate = TRUE
    MaxLag = 2
    Targets = {m1, None}
SPECIFICATION FairSpec
INVARIANT AtMostOnce
PROPERTY StatusTruthful
PROPERTY RequestsHandled
