\* A process is stopped and replaced while requests are under way.
CONSTANTS
    p1 = p1
    p2 = p2
    c1 = c1
    c2 = c2
    None = None
    Procs = {p1, p2}
    Callers = {c1, c2}
    MaxRequests = 2
SPECIFICATION FairSpec
INVARIANTS
    TypeOK
    OwnAnswer
    PendingGuarded
PROPERTIES
    RequestsSettle
    CallsReturn
CHECK_DEADLOCK FALSE
