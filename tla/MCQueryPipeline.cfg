SPECIFICATION FairSpec
CONSTANTS
    r1 = r1  r2 = r2  c1 = c1  c2 = c2  s1 = s1  q1 = q1  q2 = q2
    good = good  bad = bad  empty = empty  goodClean = goodClean  otherClean = otherClean
    NULL = NULL
    Requests = {r1, r2}
    Connections = {c1}
    SqlConnections = {c1}
    PostgresConnections = {c1}
    Sessions = {s1}
    Questions = {q1, q2}
    Answers = {good, bad, empty}
    ValidSql = {good}
    EmptySql = empty
    Statements = {goodClean, otherClean}
    ConnOf <- MCSameConn
    SessionOf <- MCSameSession
    QuestionOf <- MCQuestions
    Similar <- MCAllSimilar
    Clean <- MCClean
    MaxRefinements = 2
    CacheEnabled = TRUE
INVARIANTS
    TypeOK
    OnlyValidSqlRuns
    EarlyErrorsLeaveNoTrace
    TurnsAreWhole
    FreshAnswersAreSaved
    CacheServesCompletedAnswers
PROPERTIES
    StreamContract
    StreamsEnd
\* The streams end and no new one is opened: the model may stop.
CHECK_DEADLOCK FALSE
