CONSTANTS
    t1 = t1  t2 = t2
    c1 = c1  c2 = c2  c3 = c3  c4 = c4
    s1 = s1  s2 = s2
    Threads <- MCThreads
    Conn <- MCConn4
    NoConn = NoConn
    NoCreds = NoCreds
    Dbnames = {"d1"}
    Users = {"u1"}
    ClientCreds <- MCCreds
    PoolSize = 1
    MaxConnects = 2
    MaxAcquires = 3
    Sessions = {s1, s2}
    NoSession = NoSession
    MaxSessions = 1
    PooledSql = {"rows", "write"}
    SessionSql = {"rows", "begin", "end"}
    SqlErrors = {"declare", "fetch", "exec"}
    MaxBackendLosses = 1
SPECIFICATION ShardSpec
SYMMETRY Symmetry
INVARIANTS ShardTypeOK DamageBounded PinnedApart IdleClean CursorIntact
    ConnectionBudget
PROPERTIES ClientTxnPreserved ImplementsConnectionLife
CHECK_DEADLOCK FALSE
