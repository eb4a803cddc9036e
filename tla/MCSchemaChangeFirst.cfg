\* The first migration of a database.
CONSTANTS
    Schemas <- MCSchemas
    TableOf <- MCTableOf
    None = None
    Key = "id"
    MaxCommands = 1
    MaxLeft = 1
SPECIFICATION Spec
CHECK_DEADLOCK FALSE
INVARIANT FirstMigrationApplies
