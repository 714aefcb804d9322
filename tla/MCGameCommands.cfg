SPECIFICATION Spec
CONSTANTS
    player = player
    rival = rival
    Sessions = {player, rival}
    Requests <- SomeRequests
    None = None
    ServerAi = ServerAi
    CacheLimit = 1
    MaxVersion = 3
    MaxHalts = 1
    MaxPublished = 3
INVARIANTS
    Inductive
    AcceptedIsDurable
    VerdictsAgree
PROPERTIES
    PublicationOrder
    KeepsLedger
