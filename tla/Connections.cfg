SPECIFICATION FairSpec
CONSTANTS
    Conns = {c1, c2}
    MaxRetries = 3
INVARIANTS
    TypeOK
    NothingFreedInUse
    AuthFollowsQueries
    EndedOnce
    OnItsList
PROPERTIES
    UnknownsEnd
    Implements
