SPECIFICATION Spec
CHECK_DEADLOCK FALSE
CONSTANTS
    a = a
    b = b
    c = c
    u1 = u1
    u2 = u2
    NoNick = NoNick
    NoUser = NoUser
    Servers <- LineServers
    Users <- TwoUsers
    Nicks = {n1, n2}
    Home <- HomeAC
    Host <- SameUser
    Route <- LineRoute
    TS6 = TRUE
    MaxTS = 2
    MaxClaims = 3
    MaxSplits = 1
INVARIANTS
    OnlyLosersKilled
    KnownOnce
