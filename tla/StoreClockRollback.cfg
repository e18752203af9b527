SPECIFICATION Spec
CONSTANTS
    c1 = c1
    c2 = c2
    s1 = s1
    s2 = s2
    Radix = 2
    MaxID = 3
    MaxOctets = 9
    Conns <- TwoConns
    Sessions <- None
    Requests <- None
    Imported <- NoMail
    MaxDailyBytes = 4
    minimumReceiptCharge = 2
    MaxMessage = 3
    MaxDay = 1
    MaxOutside = 0
    RollbackInPublish = TRUE
    CutBetweenCommands = FALSE
SYMMETRY Symmetry
INVARIANTS
    BudgetRespected
