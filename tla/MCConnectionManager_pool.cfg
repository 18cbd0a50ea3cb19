CONSTANTS
    t1 = t1  t2 = t2  t3 = t3
    c1 = c1  c2 = c2  c3 = c3
    Threads <- MCThreads
    Conn <- MCConn
    NoConn = NoConn
    NoCreds = NoCreds
    Dbnames = {"d1", "d2"}
    Users = {"u1", "u2"}
    ClientCreds <- MCClientCreds
    PoolSize = 1
    MaxConnects = 2
    MaxAcquires = 3
SPECIFICATION FairSpec
INVARIANTS TypeOK SlotAccounting ExclusiveOwnership CapacityBound
    FreeSlotHasWakeup IdleHasWakeup CredentialsAgree
PROPERTIES AcquireReturns
CHECK_DEADLOCK FALSE
