\* A signal while the reader is at the select for a slot.
CONSTANTS
    parse = parse
    p = p
    q = q
    blank = blank
    shutdown = shutdown
    Blank = blank
    Queries = {p, q}
    Shutdown = shutdown
    Requests = {parse, p, q, blank, shutdown}
    Kind <- MCKind
    Capacity = 2
SPECIFICATION Spec
INVARIANT GracefulShutdown
