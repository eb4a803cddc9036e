\* Two rows of each model, three writes between the statements.
CONSTANTS
    Scalars <- MCScalars
    Fields <- MCFields
    Unique <- MCUnique
    Data <- MCData
    Requests <- MCRequests
    Values = {1, 2}
    None = None
    MaxWrites = 3
SPECIFICATION Spec
CHECK_DEADLOCK FALSE
INVARIANT IncludeExact
