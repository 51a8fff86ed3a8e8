SPECIFICATION Spec
CHECK_DEADLOCK FALSE
CONSTANTS
    a = a
    b = b
    c = c
    u1 = u1
    u2 = u2
    u3 = u3
    nt = nt
    mod = mod
    Servers <- LineServers
    Users <- ThreeUsers
    Home <- HomeABC
    Route <- LineRoute
    TS6 = TRUE
    Commands = {"op", "mode", "ban"}
    MaxTS = 2
    MaxCommands = 4
    MaxSplits = 0
    Masks = {u3}
    Modes = {nt, mod}
    NewModes = {nt}
INVARIANTS
    BansGranted
    OpsGranted
