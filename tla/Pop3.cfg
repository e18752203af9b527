SPECIFICATION Spec
CONSTANTS
    p1 = p1
    p2 = p2
    p3 = p3
    Radix = 2
    MaxID = 3
    MaxOctets = 9
    Clients <- ThreeClients
    Usernames <- MCUsernames
    Passwords <- MCPasswords
    Credentials <- MCCredentials
    Sizes <- MCSizes
    MaxConnections = 2
    MaxAuthFailures = 2
SYMMETRY Symmetry
INVARIANTS
    TokenPerConnection
    SessionSeesLogin
    DeletedAsAsked
    UpdateIsPossible
