SPECIFICATION EitherSpec
CONSTANTS
    SeatCount = 2
    Sessions = {x1, x2}
    None = None
    ReconnectGrace = 1
    RestartGrace = 1
    IdleTtl = 2
    AbandonedTtl = 2
    TimerSlack = 0
    Horizon = 2
    MaxRevision = 3
    MaxQueued = 1
    MaxFailures = 1
    HumanCount = 2
PROPERTIES
    RoomEndsWithoutPlayers
CHECK_DEADLOCK FALSE
