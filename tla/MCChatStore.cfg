SPECIFICATION FairSpec
CONSTANTS
    c1 = c1  t1 = t1  q1 = q1  d1 = d1  d2 = d2  r1 = r1
    NULL = NULL
    Creates = {c1}
    Streams = {t1}
    Queries = {q1}
    Deletes = {d1, d2}
    Reads = {r1}
    WithMessage = {c1}
    Linked = {c1}
    SessionOf <- MCSessionOf
    PageSize = 3
    HistoryLimit = 2
    PoolSize = 2
INVARIANTS
    TypeOK
    CountIsRight
    ReportsAreRemoved
    PagingIsComplete
    
    NobodyIsStuck
PROPERTIES
    KeepsTurns
    CallsEnd
CHECK_DEADLOCK FALSE

