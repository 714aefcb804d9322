SPECIFICATION Spec
CONSTANTS
    c1 = c1
    c2 = c2
    x = x
    y = y
    Server = Server
    None = None
    Clients = {c1, c2}
    RoomCodes = {x, y}
    Attaching = {"create"}
    Capacity <- CapacityIs
    Rate <- RateIs
    MaxTransports = 2
    MaxRooms = 2
    MaxSessions = 2
    LastSession = 3
    MaxClock = 3
    PruneInterval = 2
    Budgets <- BudgetsAre
PROPERTIES
    ShutdownEnds
INVARIANTS
    QuietAfterDrain
    WithinBudget
    NobodyStarves
    WritesOwnRoom
CHECK_DEADLOCK FALSE
