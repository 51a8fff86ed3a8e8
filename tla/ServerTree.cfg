SPECIFICATION FairSpec
CHECK_DEADLOCK FALSE
CONSTANTS
    a = a
    b = b
    c = c
    d = d
    Servers = {a, b, c, d}
    NoServer = NoServer
    Connects <- TriangleAndMore
    Configs <- ThreeConfigs
    MaxConnects = 4
    MaxBreaks = 1
INVARIANTS
    TypeOK
    TreeKept
    TreesAgree
PROPERTIES
    Settles
