SPECIFICATION BrowserSpec
CONSTANTS
    None = None
    ServerAi = ServerAi
    QueueCapacity = 2
    MaxRetries = 1
    FinalVersion = 2
    MaxCommands = 2
    MaxAsks = 1
    MaxLosses = 1
    SlowConsumer = TRUE
INVARIANTS
    ReportsAreTrue
    StaleIsFlagged
PROPERTIES
    KeepsLedger
    SubmissionsSettle
CONSTRAINT OneAtATime
CHECK_DEADLOCK FALSE
