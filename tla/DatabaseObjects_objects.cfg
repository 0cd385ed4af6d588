CONSTANTS
    UserSpecs = {1, 2}
    Editable = {"users", "image", "proxy", "exporter", "admin", "rotate", "restore"}
    Start = {"exporter", "init"}
    Passwords = {0, 1, 2, 3}
    MaxEdits = 2
    MaxFaults = 1
CHECK_DEADLOCK FALSE
SPECIFICATION FairSpec
 
PROPERTY StatusRecords
PROPERTY Converges
