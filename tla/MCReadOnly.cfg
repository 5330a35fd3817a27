SPECIFICATION Spec
CONSTANTS
    s1 = s1  q1 = q1  v1 = v1  x1 = x1
    NULL = NULL
    Streams = {s1}
    Queries = {q1}
    Pings = {v1}
    Extractions = {x1}
    Limit = 1
    MaxRows = 1
    MaxResults = 2
    MaxSize = 3
INVARIANT
    GeneratedSqlIsReadOnly
CHECK_DEADLOCK FALSE
