\* Two slots, requests of every kind, and two queries that may wait for ever.
CONSTANTS
    parse = parse
    p = p
    q = q
    blank = blank
    shutdown = shutdown
    Blank = blank
    Queries = {p, q}
    Shutdown = shutdown
    Requests = {parse, p, q, blank, shutdown}
    Kind <- MCKind
    Capacity = 2
SPECIFICATION FairSpec
INVARIANTS
    TypeOK
    SlotsConserved
    DrainedOnEOF
PROPERTIES
    EventuallyAnswered
    EOFStops
