SPECIFICATION Spec
CONSTANTS
    p = p
    q = q
    z = z
    lumber = lumber
    ore = ore
    None = None
    Players = {p, q, z}
    Vertices = {1, 2, 3, 4, 5, 6, 7, 8, 9, 10, 11, 12, 13, 14, 15}
    Edges <- Branches
    Tiles <- FourTiles
    Ports = {}
    Resources = {lumber, ore}
    RoadLimit = 4
    SettlementLimit = 3
    CityLimit = 1
    ResourcePortRatio = 2
    GenericPortRatio = 3
    BankRatio = 4
    Seats <- ThreeSeats
    FirstSeats = {0}
    Decks <- NoDeck
    CardType <- NoCards
    BankSize = 8
    RoadCost <- OneLumber
    SettlementCost <- OneEach
    CityCost <- TwoOre
    CardCost <- OneOre
    HandLimit = 9
    Rolls <- FourTurns
    Seven = 7
    MinRoad = 3
    MinArmy = 2
    AwardPoints = 2
    Target = 5
    InventionCount = 2
    Desert <- Waste
    Sites <- BranchSites
    Terms = {}
    Transferable = {}
    ManySettlements = 3
    LeaderPoints = 4
INVARIANTS
    NobodyPlaysOn
    LongestRoadIsLongest
PROPERTIES
    AwardsAreEarned
