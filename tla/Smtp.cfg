SPECIFICATION MCSpec
CONSTANTS
    c1 = c1
    c2 = c2
    Conns <- TwoConns
    MaxConnections = 2
    MaxRecipients = 1
    TLSConfigured = FALSE
    MaxStaged = 1
    MaxPipelined = 1
    MaxCommands = 4
INVARIANTS
    EnvelopeIsTransaction
    EnvelopeIsOfChannel
    NothingIsLeaked
PROPERTY
    DataEnds
CHECK_DEADLOCK FALSE
