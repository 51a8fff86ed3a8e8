SPECIFICATION FairSpec
CHECK_DEADLOCK FALSE
CONSTANTS
    a = a
    b = b
    c = c
    u1 = u1
    u2 = u2
    u3 = u3
    nt = nt
    mod = mod
    Servers <- LineServers
    Users <- ThreeUsers
    Home <- HomeABC
    Route <- LineRoute
    TS6 = TRUE
    Commands = {}
    MaxTS = 3
    MaxCommands = 4
    MaxSplits = 1
    Masks = {}
    Modes = {nt}
    NewModes = {nt}
INVARIANTS
    ChannelsAgree
    ModesAgree
PROPERTIES
    Settles
