\* Every change between the schemas, with at most MaxCommands edits and commands.
CONSTANTS
    Schemas <- MCSchemas
    TableOf <- MCTableOf
    None = None
    Key = "id"
    MaxCommands = 3
    MaxLeft = 1
SPECIFICATION Spec
CHECK_DEADLOCK FALSE
INVARIANTS
    TypeOK
    MigratedMatches
    OrderIrrelevant
    PushCompletes
