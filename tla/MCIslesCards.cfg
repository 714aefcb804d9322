SPECIFICATION Spec
CONSTANTS
    p = p
    q = q
    z = z
    lumber = lumber
    ore = ore
    None = None
    Players = {p, q, z}
    Vertices = {1, 2, 3, 4, 5, 6, 7, 8, 9, 10, 11, 12, 13, 14}
    Edges <- Row
    Tiles <- RowTiles
    Ports <- RowPorts
    Resources = {lumber, ore}
    RoadLimit = 4
    SettlementLimit = 2
    CityLimit = 0
    ResourcePortRatio = 2
    GenericPortRatio = 3
    BankRatio = 4
    Seats <- ThreeSeats
    FirstSeats = {0}
    Decks <- Shuffles
    CardType <- FiveCards
    BankSize = 3
    RoadCost <- OneLumber
    SettlementCost <- OneEach
    CityCost <- TwoOre
    CardCost <- OneOre
    HandLimit = 1
    Rolls <- Sevens
    Seven = 7
    MinRoad = 3
    MinArmy = 1
    AwardPoints = 2
    Target = 5
    InventionCount = 2
    Desert <- RowWaste
    Sites <- RowSites
    Terms <- LumberForOre
    Transferable = {lumber}
    ManySettlements = 3
    LeaderPoints = 4
INVARIANTS
    AssertionsHold
    
    AiChoosesLegally
    ViewIsPrivate
PROPERTIES
    FollowsTurns
