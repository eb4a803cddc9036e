CONSTANTS
    c1 = c1
    Calls <- MCCalls
    N = 2
    MaxEngines = 2
SPECIFICATION FairSpec
CHECK_DEADLOCK FALSE
INVARIANTS
    TypeOK
    ResolvedIsCommitted
    AllOrNothing
    OpenAfterSettled
PROPERTIES
    Settles
