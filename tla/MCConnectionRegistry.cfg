SPECIFICATION Spec
CONSTANTS
    p1 = p1  p2 = p2  c1 = c1  v1 = v1  d1 = d1  d2 = d2
    NULL = NULL
    Processes = {p1, p2}
    Connects = {c1}
    Validates = {v1}
    Disconnects = {d1, d2}
    IdOf <- MCIdOf
INVARIANTS
    TypeOK
    DisconnectedIsUnregistered
    TakenOnce
    OpenPoolsAreOwned
    RecordsFollowRegistry
    NotFoundIsJustified
PROPERTY CallsEnd
