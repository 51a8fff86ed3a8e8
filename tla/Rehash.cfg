SPECIFICATION PartSpec
CHECK_DEADLOCK FALSE
CONSTANTS
    Clients = {c1, c2}
    Addresses = {a1, a2}
    users = users
    Classes = {users}
    Default = Default
    None = None
    Freed = Freed
    Files <- SomeFiles
    MaxRehash = 2
    Masks = {m1}
    LineTypes = {"kline", "xline", "nresv", "cresv"}
    MaxLines = 4
    Slots = {l1, l2, l3}
    Conns = {d1, d2, d3}
    Ports = {p1, p2}
    ClearsFde = TRUE
    who = who
    whois = whois
    message = message
    spy = spy
    spy2 = spy2
    doing_whois = doing_whois
    client_message = client_message
    NULL = NULL
SYMMETRY Perms
INVARIANTS
    PartTypeOK
    BlocksKeptThere
    NoPlaceLostThere
    LinesInForce
    WalkSeesAll
    ListenersKept
    ModulesRight
