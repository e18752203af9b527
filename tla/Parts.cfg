SPECIFICATION PartsSpec
CONSTANTS
    a = a
    b = b
    None = None
    Radix = 2
    MaxID = 8
    MaxOctets = 2
    Sizes <- MCSizes
    Requests <- MCRequests
    Readers <- TwoSessions
    Specs <- MCSpecs
    Repository <- MCRepository
    CacheSessions <- TwoSessions
    Capacity = 2
    Commits <- MCCommits
    Contents <- MCContents
    MaxLine = 4
    MaxBytes = 9
    MaxLines = 3
    Limits = {0, 1}
    Imported <- MCImported
    Candidates <- MCCandidates
    Certificates <- MCCertificates
    Keys = {"k1", "k2"}
    MaxTime = 2
    MaxWrites = 4
    MailSizes = {1, 2}
    MaxMail = 3
    MaxMissing = 1
    MaxLag = 2
    Cuts = {0, 1}
    MaxCrashes = 3
    Senders <- MCSender
    Sessions <- MCSession
    maintenanceCommitThreshold = 1
    Purposes <- MCPurposes
    Stopped = TRUE
    MaxCallbacks <- MCCallbacks
INVARIANTS
    StateDescribesTree
    ReadersFindLive
    PathNamesOneID
    LeavesHoldIDs
    AnswersAreMine
    ListingIsOfCommit
    RecentIsCached
    MailIsUnchanged
    ImportIsLegacy
    IdleTimersWork
    NoChildAfterClose
PROPERTIES
    OperationsEnd
    NewestServed
CHECK_DEADLOCK FALSE
