CONSTANTS
    p1 = p1
    p2 = p2
    s1 = s1
    Empty = Empty
    Absent = Absent
    Blank = Blank
    Torn = Torn
    Procs <- MCProcs
    Ids <- MCIds
    Schemas <- MCSchemas
    MaxCommands = 3
SPECIFICATION Spec
CHECK_DEADLOCK FALSE

PROPERTIES
    CreatedAndApplied
