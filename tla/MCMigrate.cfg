CONSTANTS
    Process = {p1, p2, p3}
    Builds = {1, 2, 3}
    Latest = 3
    Repeatable = {2}
    MaxStops = 3
SPECIFICATION FairSpec
INVARIANTS MigrateTypeOK AppliedOnce ServesMigrated
PROPERTIES SchemaSpec AllServe
CHECK_DEADLOCK FALSE
