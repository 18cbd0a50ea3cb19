CONSTANTS
    t1 = t1  t2 = t2
    c1 = c1  c2 = c2  c3 = c3  c4 = c4
    s1 = s1  s2 = s2
    Threads <- MCThreads
    Conn <- MCConn3
    NoConn = NoConn
    NoCreds = NoCreds
    Dbnames = {"d1"}
    Users = {"u1"}
    ClientCreds <- MCCreds
    PoolSize = 1
    MaxConnects = 1
    MaxAcquires = 2
    Sessions = {s1}
    NoSession = NoSession
    MaxSessions = 1
    PooledSql = {"rows"}
    SessionSql = {}
    SqlErrors = {}
    MaxBackendLosses = 1
SPECIFICATION ShardFairSpec
PROPERTIES EveryQueryAnswered
CHECK_DEADLOCK FALSE
