SPECIFICATION Spec
CONSTANTS
    c1 = c1
    c2 = c2
    s1 = s1
    s2 = s2
    Radix = 2
    MaxID = 2
    MaxOctets = 9
    Conns <- OneConn
    Sessions <- OneSession
    Requests <- TwoRequests
    Imported <- OneMail
    MaxDailyBytes = 2
    minimumReceiptCharge = 1
    MaxMessage = 1
    MaxDay = 0
    MaxOutside = 0
    RollbackInPublish = FALSE
    CutBetweenCommands = FALSE
INVARIANTS
    StateIsHeadID
