\* Liveness: every transaction has a timeout and the pool has one connection, so
\* that both handlers may be waiting for the connection that a third transaction
\* holds.
CONSTANTS
    h1 = h1
    h2 = h2
    t1 = t1
    t2 = t2
    t3 = t3
    w1 = w1
    None = None
    Handlers = {h1, h2}
    TxIds = {t1, t2, t3}
    Timed = {t1, t2, t3}
    Writes = {w1}
    MaxOpenConns = 1
    MaxRequests = 3
SPECIFICATION FairSpec
PROPERTIES
    TimedTxCloses
    BeginAnswered
