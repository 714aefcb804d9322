SPECIFICATION FairSpec
CONSTANTS
    None = None
    ServerAi = ServerAi
    QueueCapacity = 2
    MaxRetries = 0
    FinalVersion = 0
    MaxCommands = 0
    MaxAsks = 0
    MaxLosses = 2
    SlowConsumer = FALSE
PROPERTIES
    SessionReturns
CHECK_DEADLOCK FALSE
