SPECIFICATION FairSpec
CONSTANTS
    c1 = c1
    s1 = s1
    s2 = s2
    None = None
    Senders <- OneSender
    Sessions <- TwoSessions
    maintenanceCommitThreshold = 1
    Purposes <- RetrAndQuit
    Stopped = TRUE
    MaxCallbacks <- OneOfReader
PROPERTIES
    WritersGetOn
    MaintenanceHappens
    ShutdownEnds
