SPECIFICATION LocalSpec
CONSTANTS
    h = h
    a = a
    b = b
    Players = {h, a, b}
    Null = Null
    Corrupt = Corrupt
    Orders <- HumanFirst
    Human = h
    Budget = 9
    Attempts = 1
    MaxFailures = 1
    MaxReloads = 1
    MaxKeys = 14
INVARIANTS
    SavedIsDurable
    CountsAreOfThisTurn
PROPERTIES
    OperationsEnd
