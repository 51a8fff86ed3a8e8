SPECIFICATION Spec
CHECK_DEADLOCK FALSE
CONSTANTS
    a = a
    b = b
    c = c
    u1 = u1
    u2 = u2
    NoNick = NoNick
    NoUser = NoUser
    Servers <- PairServers
    Users <- TwoUsers
    Nicks = {n1, n2}
    Home <- HomeAB
    Host <- Strangers
    Route <- PairRoute
    TS6 = TRUE
    MaxTS = 3
    MaxClaims = 4
    MaxSplits = 1
INVARIANTS
    TypeOK
    NickUnique
    WhowasOnline
PROPERTIES
    TSNeverGoesBack
