SPECIFICATION PartSpec
CHECK_DEADLOCK FALSE
CONSTANTS
    a = a
    b = b
    c = c
    d = d
    e = e
    u1 = u1
    u2 = u2
    u3 = u3
    oa = oa
    oc = oc
    od = od
    mask = mask
    n1 = n1
    n2 = n2
    n3 = n3
    r1 = r1
    r2 = r2
    Hello = Hello
    Letter = Letter
    More = More
    Space = Space
    Eol = Eol
    None = None
    Absent = Absent
INVARIANTS
    PartTypeOK
    LinesShared
    PlacedWhereAsked
    DeliveredOnce
    UsersRight
    BytesFaithful
    ListsAllOnce
