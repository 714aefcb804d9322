SPECIFICATION Spec
CONSTANTS
    Stores = {p, q}
    Codes = {a, b}
    None = None
    MaxRooms = 1
    PoolSize = 2
    MaxWrites = 4
SYMMETRY Alike
INVARIANTS
    WithinLimit
    RecoversAcked
PROPERTIES
    KeepsRecords
CHECK_DEADLOCK FALSE
