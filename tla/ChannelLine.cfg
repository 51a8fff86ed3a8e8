SPECIFICATION Spec
CHECK_DEADLOCK FALSE
CONSTANTS
    a = a
    b = b
    c = c
    u1 = u1
    u2 = u2
    u3 = u3
    nt = nt
    mod = mod
    Servers <- LineServers
    Users <- ThreeUsers
    Home <- HomeABC
    Route <- LineRoute
    TS6 = TRUE
    Commands = {"zero", "part", "kick", "op"}
    MaxTS = 2
    MaxCommands = 3
    MaxSplits = 2
    Masks = {}
    Modes = {nt}
    NewModes = {nt}
INVARIANTS
    TypeOK
    MembersKnownEverywhere
PROPERTIES
    TSNeverGrows
