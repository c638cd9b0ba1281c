SPECIFICATION FairSpec
CONSTANTS
    Old = {"o1", "o2"}
    New = {"n1", "n2"}
    Deployed <- Chart
    Environments <- MCEnvironments
    Replicas = 2
    MaxSurge = 1
    MaxUnavailable = 0
    MigrateTimeout = 1
    StartupBudget = 3
    MaxConnections = 6
    MinConns = 0
    DefaultMaxConns = 2
    DefaultTimeout = 1
    Int32Half = 8
    MaxOutages = 2
CHECK_DEADLOCK FALSE
INVARIANT SchemaBeforeServing BootInBudget BadRolloutStalls OneReport NoneStarved
PROPERTY Completes
