\* Safety: races of commit, rollback, expiry, statements and cancellation.
CONSTANTS
    h1 = h1
    h2 = h2
    h3 = h3
    t1 = t1
    t2 = t2
    w1 = w1
    w2 = w2
    None = None
    Handlers = {h1, h2, h3}
    TxIds = {t1, t2}
    Timed = {t1}
    Writes = {w1, w2}
    MaxOpenConns = 2
    MaxRequests = 4
SPECIFICATION Spec
SYMMETRY Symmetry
INVARIANTS
    TypeOK
    SingleFinisher
    NoOrphan
    NoStaleTimer
    AnswersAreTrue
PROPERTIES
    TimerFieldStable
    Implements
