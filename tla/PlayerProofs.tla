---------------------------- MODULE PlayerProofs ----------------------------
(***************************************************************************)
(* Proofs about what a player of the rules engine sees and answers, for    *)
(* any board, deck, prices and number of players: that a view offers       *)
(* exactly what the engine accepts (ViewMatchesEngineHolds) and gives      *)
(* nothing away (ViewIsPrivateHolds), and that an agent always has an      *)
(* answer and none that is refused (AiChoosesLegallyHolds).                *)
(***************************************************************************)
EXTENDS EngineProofs, AiAgent

-----------------------------------------------------------------------------
(* What a player is offered: entry by entry, the view lists what the       *)
(* guards of the engine accept.  The phase and the decision that is open   *)
(* say the same (PhaseAsks), a discard can always be put together, and the *)
(* author of an offer can provide it.                                      *)

\* The road card grants a number of roads.
LEMMA GrantedRoads ==
  ASSUME BoardFits, NEW v \in Players
  PROVE  FreeRoadCount(buildings, roads, v) \in Nat
<1>1. PICK c : c = Cardinality(Roads(roads, v))
  OBVIOUS
<1>2. c \in Nat
  <2>1. Roads(roads, v) \subseteq Edges /\ IsFiniteSet(Edges)
    BY EdgesFinite DEF Roads
  <2>2. QED
    BY <1>1, <2>1, FS_Subset, FS_CardinalityType
<1>3. c <= RoadLimit /\ RoadLimit \in Nat
  BY <1>1, BoardAssumption DEF BoardAssumption, BoardFits, WithinLimits
<1>4. Min({2, RoadLimit - c}) \in Nat
  BY <1>2, <1>3, MinOfTwo
<1>5. QED
  BY <1>1, <1>4 DEF FreeRoadCount

\* A bag has a number of cards.
LEMMA CountType ==
  ASSUME NEW bag \in Bags
  PROVE  Count(bag) \in Nat /\ Count(bag) = SumFunctionOnSet(bag, Resources)
<1>1. DOMAIN bag = Resources /\ IsFiniteSet(Resources) /\ \A x \in Resources : bag[x] \in Nat
  BY BoardAssumption DEF BoardAssumption, Bags
<1>2. Count(bag) = SumFunctionOnSet(bag, Resources)
  BY <1>1, SumOverDomain DEF Count
<1>3. QED
  BY <1>1, <1>2, SumCovers

\* A decision is open only while nobody has won.
LEMMA OpenDecision ==
  ASSUME TurnInvariant, pending.type # None
  PROVE  winner = None
<1>1. NoDecision.type = None
  BY DEF NoDecision
<1>2. QED
  BY <1>1 DEF TurnInvariant, TurnFits

\* The entries of a view, one after the other.
LEMMA LegalEntries ==
  ASSUME NEW v, NEW legal, legal = LegalActions(v, Hidden)
  PROVE  /\ legal.initialSettlements =
              IF InTurn(v, {"SETUP_SETTLEMENT"}) THEN {x \in Vertices : ValidInitialSettlement(buildings, v, x)} ELSE {}
         /\ legal.initialRoads =
              IF InTurn(v, {"SETUP_ROAD"})
              THEN {e \in Edges : ValidInitialRoad(roads, v, e, turn.setup.settlement)} ELSE {}
         /\ legal.settlements =
              IF InTurn(v, {"ACTION"}) /\ Covers(hand[v], SettlementCost)
              THEN {x \in Vertices : ValidPaidSettlement(buildings, roads, v, x)} ELSE {}
         /\ legal.cities =
              IF InTurn(v, {"ACTION"}) /\ Covers(hand[v], CityCost)
              THEN {x \in Vertices : ValidCity(buildings, v, x)} ELSE {}
         /\ legal.maritime = IF InTurn(v, {"ACTION"}) THEN MaritimeOptions(v, hand[v]) ELSE {}
         /\ legal.roads =
              IF \/ pending.type = "PLACE_FREE_ROADS" /\ pending.actor = v /\ turn.phase = "FREE_ROAD_PLACEMENT"
                 \/ InTurn(v, {"ACTION"}) /\ Covers(hand[v], RoadCost)
              THEN LegalFreeRoads(buildings, roads, v) ELSE {}
BY DEF LegalActions, Hidden, InTurn, Current

\* What needs no target is a matter of yes or no.
LEMMA LegalFlags ==
  ASSUME NEW v, NEW legal, legal = LegalActions(v, Hidden)
  PROVE  /\ legal.canRoll = InTurn(v, {"ROLL_REQUIRED"})
         /\ legal.canEndTurn = InTurn(v, {"ACTION"})
         /\ legal.canBuy = (InTurn(v, {"ACTION"}) /\ deck # <<>> /\ Covers(hand[v], CardCost))
         /\ legal.canFinishFreeRoads = (/\ pending.type = "PLACE_FREE_ROADS" /\ pending.actor = v
                                        /\ turn.phase = "FREE_ROAD_PLACEMENT" /\ pending.remaining = 1
                                        /\ LegalFreeRoads(buildings, roads, v) = {})
         /\ legal.response = TradeResponse(v, Hidden)
BY DEF LegalActions, Hidden, InTurn, Current

\* The entries for cards and for the decisions that are open.
LEMMA LegalAnswers ==
  ASSUME NEW v, NEW legal, legal = LegalActions(v, Hidden)
  PROVE  /\ legal.playable = {c \in cards[v] : PlayabilityReason(v, Hidden, c) = "PLAYABLE"}
         /\ legal.discard = IF pending.type = "DISCARD_RESOURCES" /\ v \in Owing THEN pending.required[v] ELSE None
         /\ legal.tiles = IF pending.type = "MOVE_ROBBER" /\ pending.actor = v THEN Tiles \ {robber} ELSE {}
         /\ legal.targets = IF pending.type = "CHOOSE_ROBBER_TARGET" /\ pending.actor = v THEN pending.targets ELSE {}
         /\ legal.inventions =
              IF pending.type = "CHOOSE_INVENTION_RESOURCES" /\ pending.actor = v THEN InventionSelections ELSE {}
         /\ legal.monopolies =
              IF pending.type = "CHOOSE_MONOPOLY_RESOURCE" /\ pending.actor = v THEN Resources ELSE {}
BY DEF LegalActions, Hidden, Owing

\* Building, and what needs no decision.
LEMMA ViewBuilds ==
  ASSUME TurnInvariant, ResourcesFit, NEW v \in Players, NEW legal, legal = LegalActions(v, Hidden)
  PROVE  /\ legal.initialSettlements = {x \in Vertices : AcceptsInitialSettlement(v, x)}
         /\ legal.initialRoads = {e \in Edges : AcceptsInitialRoad(v, e)}
         /\ legal.roads = {e \in Edges : AcceptsRoad(v, e) \/ AcceptsFreeRoad(v, e)}
         /\ legal.settlements = {x \in Vertices : AcceptsSettlement(v, x)}
         /\ legal.cities = {x \in Vertices : AcceptsCity(v, x)}
         /\ legal.maritime = {xy \in Resources \X Resources : AcceptsMaritime(v, xy[1], xy[2])}
<1>1. legal.initialSettlements = {x \in Vertices : AcceptsInitialSettlement(v, x)}
  BY LegalEntries DEF AcceptsInitialSettlement
<1>2. legal.initialRoads = {e \in Edges : AcceptsInitialRoad(v, e)}
  BY LegalEntries DEF AcceptsInitialRoad
<1>3. legal.settlements = {x \in Vertices : AcceptsSettlement(v, x)}
  BY LegalEntries DEF AcceptsSettlement
<1>4. legal.cities = {x \in Vertices : AcceptsCity(v, x)}
  BY LegalEntries DEF AcceptsCity
<1>5. legal.roads = {e \in Edges : AcceptsRoad(v, e) \/ AcceptsFreeRoad(v, e)}
  <2>1. pending.type = "PLACE_FREE_ROADS" => winner = None
    BY OpenDecision, SeatFacts DEF DecisionTypes
  <2>2. \A e : AcceptsFreeRoad(v, e) <=> (/\ pending.type = "PLACE_FREE_ROADS" /\ pending.actor = v
                                          /\ turn.phase = "FREE_ROAD_PLACEMENT"
                                          /\ ValidFreeRoad(buildings, roads, v, e))
    BY <2>1 DEF AcceptsFreeRoad, DecidesCard, Decides
  <2>3. \A e : AcceptsRoad(v, e) <=> (/\ InTurn(v, {"ACTION"}) /\ Covers(hand[v], RoadCost)
                                      /\ ValidFreeRoad(buildings, roads, v, e))
    BY DEF AcceptsRoad
  <2>4. LegalFreeRoads(buildings, roads, v) = {e \in Edges : ValidFreeRoad(buildings, roads, v, e)}
    BY DEF LegalFreeRoads
  <2>5. CASE \/ pending.type = "PLACE_FREE_ROADS" /\ pending.actor = v /\ turn.phase = "FREE_ROAD_PLACEMENT"
             \/ InTurn(v, {"ACTION"}) /\ Covers(hand[v], RoadCost)
    <3>1. legal.roads = LegalFreeRoads(buildings, roads, v)
      BY <2>5, LegalEntries
    <3>2. \A e \in Edges : AcceptsRoad(v, e) \/ AcceptsFreeRoad(v, e) <=> ValidFreeRoad(buildings, roads, v, e)
      BY <2>2, <2>3, <2>5
    <3>3. QED
      BY <2>4, <3>1, <3>2
  <2>6. CASE ~(\/ pending.type = "PLACE_FREE_ROADS" /\ pending.actor = v /\ turn.phase = "FREE_ROAD_PLACEMENT"
               \/ InTurn(v, {"ACTION"}) /\ Covers(hand[v], RoadCost))
    <3>1. legal.roads = {}
      BY <2>6, LegalEntries
    <3>2. \A e \in Edges : ~AcceptsRoad(v, e) /\ ~AcceptsFreeRoad(v, e)
      BY <2>2, <2>3, <2>6
    <3>3. QED
      BY <3>1, <3>2
  <2>7. QED
    BY <2>5, <2>6
<1>6. legal.maritime = {xy \in Resources \X Resources : AcceptsMaritime(v, xy[1], xy[2])}
  <2>1. \A x \in Resources : bank[x] \in Nat
    BY DEF ResourcesFit, Balanced, Bags
  <2>2. \A xy \in Resources \X Resources :
          AcceptsMaritime(v, xy[1], xy[2]) <=> (InTurn(v, {"ACTION"}) /\ xy \in MaritimeOptions(v, hand[v]))
    BY <2>1 DEF AcceptsMaritime, MaritimeOptions
  <2>3. MaritimeOptions(v, hand[v]) \subseteq Resources \X Resources
    BY DEF MaritimeOptions
  <2>4. QED
    BY <2>2, <2>3, LegalEntries
<1>7. QED
  BY <1>1, <1>2, <1>3, <1>4, <1>5, <1>6

\* Who may answer an offer; its author has what it gives already.
LEMMA ViewAnswers ==
  ASSUME TurnInvariant, ResourcesFit, NEW v \in Players, NEW answer, answer = TradeResponse(v, Hidden)
  PROVE  answer.canAccept = AcceptsAccept(v) /\ answer.canReject = AcceptsReject(v)
<1>1. Hidden.pending = pending /\ Hidden.hand = hand
  BY DEF Hidden
<1>2. pending.type = "RESPOND_TO_TRADE" => winner = None
  BY OpenDecision, SeatFacts DEF DecisionTypes
<1>3. answer.canReject = (pending.type = "RESPOND_TO_TRADE" /\ Responder(pending) = v)
  BY <1>1 DEF TradeResponse
<1>4. answer.canAccept = (/\ pending.type = "RESPOND_TO_TRADE" /\ Responder(pending) = v
                          /\ Covers(hand[v], IF pending.initiator = v THEN pending.gives ELSE pending.gets))
  BY <1>1 DEF TradeResponse
<1>5. AcceptsReject(v) <=> (pending.type = "RESPOND_TO_TRADE" /\ Responder(pending) = v)
  BY <1>2 DEF AcceptsReject, Responds
<1>6. ASSUME pending.type = "RESPOND_TO_TRADE", Responder(pending) = v
      PROVE  (Covers(hand[pending.initiator], pending.gives) /\ Covers(hand[pending.counterparty], pending.gets))
               <=> Covers(hand[v], IF pending.initiator = v THEN pending.gives ELSE pending.gets)
  <2>1. /\ pending.initiator # pending.counterparty /\ pending.depth \in {0, 1}
        /\ pending.author = (IF pending.depth = 0 THEN pending.initiator ELSE pending.counterparty)
    BY <1>6 DEF TurnInvariant, DecisionFits, TradeFits
  <2>2. Covers(hand[pending.author], IF pending.depth = 0 THEN pending.gives ELSE pending.gets)
    BY <1>6 DEF ResourcesFit, OfferFits
  <2>3. CASE pending.depth = 0
    BY <1>6, <2>1, <2>2, <2>3 DEF Responder
  <2>4. CASE pending.depth = 1
    BY <1>6, <2>1, <2>2, <2>4 DEF Responder
  <2>5. QED
    BY <2>1, <2>3, <2>4
<1>7. AcceptsAccept(v) <=> (/\ pending.type = "RESPOND_TO_TRADE" /\ Responder(pending) = v
                            /\ Covers(hand[v], IF pending.initiator = v THEN pending.gives ELSE pending.gets))
  BY <1>2, <1>6 DEF AcceptsAccept, Responds
<1>8. AcceptsAccept(v) \in BOOLEAN /\ AcceptsReject(v) \in BOOLEAN
  BY DEF AcceptsAccept, AcceptsReject, Responds
<1>9. QED
  BY <1>3, <1>4, <1>5, <1>7, <1>8

\* Rolling, ending the turn, buying a card, finishing with the free roads, and answering.
LEMMA ViewFlags ==
  ASSUME TurnInvariant, ResourcesFit, NEW v \in Players, NEW legal, legal = LegalActions(v, Hidden)
  PROVE  /\ legal.canRoll = AcceptsRoll(v) /\ legal.canEndTurn = AcceptsEndTurn(v)
         /\ legal.canBuy = AcceptsBuyCard(v)
         /\ legal.canFinishFreeRoads = AcceptsFinishFreeRoads(v)
         /\ legal.response.canAccept = AcceptsAccept(v) /\ legal.response.canReject = AcceptsReject(v)
<1>1. legal.canRoll = AcceptsRoll(v) /\ legal.canEndTurn = AcceptsEndTurn(v)
  BY LegalFlags DEF AcceptsRoll, AcceptsEndTurn
<1>2. legal.canBuy = AcceptsBuyCard(v)
  BY LegalFlags DEF AcceptsBuyCard
<1>3. legal.canFinishFreeRoads = AcceptsFinishFreeRoads(v)
  <2>1. pending.type = "PLACE_FREE_ROADS" => winner = None
    BY OpenDecision, SeatFacts DEF DecisionTypes
  <2>2. AcceptsFinishFreeRoads(v) <=> (/\ pending.type = "PLACE_FREE_ROADS" /\ pending.actor = v
                                       /\ turn.phase = "FREE_ROAD_PLACEMENT" /\ pending.remaining = 1
                                       /\ LegalFreeRoads(buildings, roads, v) = {})
    BY <2>1 DEF AcceptsFinishFreeRoads, DecidesCard, Decides
  <2>3. AcceptsFinishFreeRoads(v) \in BOOLEAN
    BY DEF AcceptsFinishFreeRoads
  <2>4. QED
    BY <2>2, <2>3, LegalFlags
<1>4. legal.response = TradeResponse(v, Hidden)
  BY LegalFlags
<1>5. legal.response.canAccept = AcceptsAccept(v) /\ legal.response.canReject = AcceptsReject(v)
  BY <1>4, ViewAnswers
<1>6. QED
  BY <1>1, <1>2, <1>3, <1>5

\* Moving the robber and taking from a player.
LEMMA ViewRobber ==
  ASSUME TurnInvariant, AsksFit, NEW v \in Players, NEW legal, legal = LegalActions(v, Hidden)
  PROVE  /\ legal.tiles = {t \in Tiles : AcceptsMoveRobber(v, t)}
         /\ legal.targets = {q \in Players : AcceptsSteal(v, q) /\ Count(hand[q]) > 0}
         /\ legal.monopolies = {x \in Resources : AcceptsMonopoly(v)}
<1>1. \A type \in DecisionTypes : pending.type = type => winner = None
  BY OpenDecision, SeatFacts
<1>2. legal.tiles = {t \in Tiles : AcceptsMoveRobber(v, t)}
  <2>1. \A t : AcceptsMoveRobber(v, t) <=> (pending.type = "MOVE_ROBBER" /\ pending.actor = v /\ t # robber)
    BY <1>1 DEF AcceptsMoveRobber, Decides, AsksFit, PhaseAsks, DecisionTypes
  <2>2. QED
    BY <2>1, LegalAnswers
<1>3. legal.targets = {q \in Players : AcceptsSteal(v, q) /\ Count(hand[q]) > 0}
  <2>1. CASE pending.type = "CHOOSE_ROBBER_TARGET" /\ pending.actor = v
    <3>1. pending.targets = RobberTargets(buildings, hand, robber, v)
      BY <2>1 DEF AsksFit, Targets, TurnInvariant, DecisionFits, RobberFits
    <3>2. \A q \in pending.targets : q \in Players \ {v} /\ Count(hand[q]) > 0
      BY <3>1 DEF RobberTargets
    <3>3. \A q : AcceptsSteal(v, q) <=> q \in pending.targets \ {v}
      BY <1>1, <2>1 DEF AcceptsSteal, Decides, AsksFit, PhaseAsks, DecisionTypes
    <3>4. legal.targets = pending.targets
      BY <2>1, LegalAnswers
    <3>5. QED
      BY <3>2, <3>3, <3>4
  <2>2. CASE ~(pending.type = "CHOOSE_ROBBER_TARGET" /\ pending.actor = v)
    <3>1. legal.targets = {}
      BY <2>2, LegalAnswers
    <3>2. \A q : ~AcceptsSteal(v, q)
      BY <2>2 DEF AcceptsSteal, Decides
    <3>3. QED
      BY <3>1, <3>2
  <2>3. QED
    BY <2>1, <2>2
<1>4. legal.monopolies = {x \in Resources : AcceptsMonopoly(v)}
  <2>1. AcceptsMonopoly(v) <=> (pending.type = "CHOOSE_MONOPOLY_RESOURCE" /\ pending.actor = v)
    BY <1>1 DEF AcceptsMonopoly, DecidesCard, Decides, TurnInvariant, DecisionFits, CardFits, Resume, DecisionTypes
  <2>2. QED
    BY <2>1, LegalAnswers
<1>5. QED
  BY <1>2, <1>3, <1>4

\* The cards that can be played.
LEMMA ViewCards ==
  ASSUME TurnInvariant, CardsFit, BoardFits, ResourcesFit,
         NEW v \in Players, NEW legal, legal = LegalActions(v, Hidden)
  PROVE  legal.playable = {c \in cards[v] : AcceptsPlayCard(v, c)}
<1>1. SUFFICES ASSUME NEW c \in cards[v]
               PROVE  PlayabilityReason(v, Hidden, c) = "PLAYABLE" <=> AcceptsPlayCard(v, c)
  BY LegalAnswers
<1>2. Hidden.pending = pending
  BY DEF Hidden
<1>3. c.acquired \in Nat /\ turn.number \in Nat
  BY DEF CardsFit, CardsType, OwnedCards, TurnInvariant, TurnFits, TurnType
<1>4. FreeRoadCount(buildings, roads, v) \in Nat
  BY GrantedRoads
<1>5. Count(bank) \in Nat /\ InventionCount = 2
  BY ViewAssumption, CountType DEF ViewAssumption, ResourcesFit, Balanced
<1>6. PlayabilityReason(v, Hidden, c) = "PLAYABLE" <=>
        /\ CardType[c.card] # "VICTORY_POINT" /\ c.status = "IN_HAND" /\ winner = None /\ turn.current = v
        /\ pending = NoDecision /\ turn.phase \in {"ROLL_REQUIRED", "ACTION"} /\ ~(c.acquired >= turn.number)
        /\ ~turn.cardPlayed
        /\ ~(CardType[c.card] = "ROAD_BUILDING" /\ FreeRoadCount(buildings, roads, v) = 0)
        /\ ~(CardType[c.card] = "INVENTION" /\ Count(bank) < 2)
  BY <1>2 DEF PlayabilityReason
<1>7. AcceptsPlayCard(v, c) <=>
        /\ winner = None /\ pending = NoDecision /\ v = turn.current /\ turn.phase \in {"ROLL_REQUIRED", "ACTION"}
        /\ c.status = "IN_HAND" /\ CardType[c.card] # "VICTORY_POINT" /\ c.acquired < turn.number
        /\ ~turn.cardPlayed
        /\ (CardType[c.card] = "ROAD_BUILDING" => FreeRoadCount(buildings, roads, v) > 0)
        /\ (CardType[c.card] = "INVENTION" => Count(bank) >= InventionCount)
  BY DEF AcceptsPlayCard, InTurn, Playable, InHand, Current
<1>8. ~(c.acquired >= turn.number) <=> c.acquired < turn.number
  BY <1>3
<1>9. ~(FreeRoadCount(buildings, roads, v) = 0) <=> FreeRoadCount(buildings, roads, v) > 0
  BY <1>4
<1>10. ~(Count(bank) < 2) <=> Count(bank) >= InventionCount
  BY <1>5
<1>11. QED
  BY <1>6, <1>7, <1>8, <1>9, <1>10

\* A bag has parts of every size.
LEMMA PartOfBag ==
  ASSUME NEW bag \in Bags, NEW n \in Nat, n <= Count(bag)
  PROVE  \E b \in [Resources -> 0..n] : Covers(bag, b) /\ Count(b) = n
<1>1. IsFiniteSet(Resources)
  BY BoardAssumption DEF BoardAssumption
<1> DEFINE G == {m \in Nat : m <= Count(bag) => \E b \in Bags : Covers(bag, b) /\ Count(b) = m}
<1>2. 0 \in G
  <2>1. Empty \in Bags /\ Covers(bag, Empty) /\ \A x \in Resources : Empty[x] = 0
    BY DEF Empty, Bags, Covers
  <2>2. Count(Empty) = 0
    BY <1>1, <2>1, CountType, SumNothing
  <2>3. QED
    BY <2>1, <2>2
<1>3. ASSUME NEW m \in Nat, m \in G PROVE m + 1 \in G
  <2>1. SUFFICES ASSUME m + 1 <= Count(bag)
                 PROVE  \E b \in Bags : Covers(bag, b) /\ Count(b) = m + 1
    OBVIOUS
  <2>2. Count(bag) \in Nat
    BY CountType
  <2>3. PICK b \in Bags : Covers(bag, b) /\ Count(b) = m
    BY <1>3, <2>1, <2>2
  <2>4. PICK x \in Resources : b[x] < bag[x]
    <3>1. SUFFICES ASSUME \A x \in Resources : ~(b[x] < bag[x]) PROVE FALSE
      OBVIOUS
    <3>2. \A x \in Resources : b[x] \in Int /\ b[x] = bag[x]
      BY <2>3, <3>1 DEF Bags, Covers
    <3>3. Count(b) = Count(bag)
      BY <1>1, <3>2, CountType, SumSame
    <3>4. QED
      BY <2>1, <2>2, <2>3, <3>3
  <2>5. PICK more : more = [b EXCEPT ![x] = @ + 1]
    OBVIOUS
  <2>6. more \in Bags /\ more[x] = b[x] + 1 /\ \A y \in Resources \ {x} : more[y] = b[y]
    BY <2>5 DEF Bags
  <2>7. Covers(bag, more)
    BY <2>3, <2>4, <2>6 DEF Bags, Covers
  <2>8. Count(more) = m + 1
    <3>1. /\ \A y \in Resources : b[y] \in Int
          /\ more[x] \in Int
      BY <2>6 DEF Bags
    <3>2. SumFunctionOnSet(more, Resources) = SumFunctionOnSet(b, Resources) - b[x] + more[x]
      BY <1>1, <2>6, <3>1, SumChanges
    <3>3. Count(more) = Count(b) - b[x] + (b[x] + 1)
      BY <2>6, <3>2, CountType
    <3>4. QED
      BY <2>3, <3>1, <3>3
  <2>9. QED
    BY <2>6, <2>7, <2>8
<1>4. n \in G
  <2> HIDE DEF G
  <2>1. Nat \subseteq G
    BY <1>2, <1>3, SetOfNumbers
  <2>2. QED
    BY <2>1
<1>5. PICK b \in Bags : Covers(bag, b) /\ Count(b) = n
  BY <1>4
<1>6. \A x \in Resources : b[x] \in Nat
  BY DEF Bags
<1>7. \A x \in Resources : b[x] <= n
  <2>1. \A x \in Resources : b[x] <= SumFunctionOnSet(b, Resources)
    BY <1>1, <1>6, SumCovers
  <2>2. QED
    BY <1>5, <2>1, CountType
<1>8. b \in [Resources -> 0..n]
  BY <1>6, <1>7 DEF Bags
<1>9. QED
  BY <1>5, <1>8

\* Who owes a discard has the cards for it.
LEMMA ViewDiscards ==
  ASSUME TurnInvariant, AsksFit, ResourcesFit, NEW v \in Players, NEW legal, legal = LegalActions(v, Hidden)
  PROVE  legal.discard # None <=> \E bag \in Discards(v) : AcceptsDiscard(v, bag)
<1>1. CASE pending.type = "DISCARD_RESOURCES" /\ v \in Owing
  <2>1. PICK n : n = pending.required[v]
    OBVIOUS
  <2>2. hand[v] \in Bags
    BY DEF ResourcesFit, Balanced
  <2>3. n = Count(hand[v]) \div 2 /\ Count(hand[v]) \in Nat
    BY <1>1, <2>1, <2>2, CountType DEF AsksFit, Halves
  <2>4. n \in Nat /\ n <= Count(hand[v])
    BY <2>3
  <2>5. legal.discard = n /\ legal.discard # None
    BY <1>1, <2>1, <2>4, LegalAnswers, SeatFacts
  <2>6. PICK b \in [Resources -> 0..n] : Covers(hand[v], b) /\ Count(b) = n
    BY <2>2, <2>4, PartOfBag
  <2>7. b \in Discards(v)
    BY <1>1, <2>1, <2>6 DEF Discards, Selections
  <2>8. winner = None /\ turn.phase = "DISCARD_REQUIRED"
    BY <1>1, OpenDecision, SeatFacts DEF AsksFit, PhaseAsks, DecisionTypes
  <2>9. AcceptsDiscard(v, b)
    BY <1>1, <2>1, <2>6, <2>8 DEF AcceptsDiscard, Decides
  <2>10. QED
    BY <2>5, <2>7, <2>9
<1>2. CASE ~(pending.type = "DISCARD_RESOURCES" /\ v \in Owing)
  <2>1. legal.discard = None
    BY <1>2, LegalAnswers
  <2>2. \A bag : ~AcceptsDiscard(v, bag)
    BY <1>2 DEF AcceptsDiscard, Decides
  <2>3. QED
    BY <2>1, <2>2
<1>3. QED
  BY <1>1, <1>2

\* One card, and two.
Single(x) == [z \in Resources |-> IF z = x THEN 1 ELSE 0]
Two(x, y) == [z \in Resources |-> (IF z = x THEN 1 ELSE 0) + (IF z = y THEN 1 ELSE 0)]

\* One card is one.
LEMMA SingleIsOne ==
  ASSUME NEW x \in Resources
  PROVE  SumFunctionOnSet(Single(x), Resources) = 1
<1>1. IsFiniteSet(Resources)
  BY BoardAssumption DEF BoardAssumption
<1>2. PICK none, one : none = Empty /\ one = Single(x)
  OBVIOUS
<1>3. (\A y \in Resources : none[y] \in Int) /\ one[x] \in Int /\ \A y \in Resources \ {x} : one[y] = none[y]
  BY <1>2 DEF Empty, Single
<1>4. SumFunctionOnSet(one, Resources) = SumFunctionOnSet(none, Resources) - none[x] + one[x]
  BY <1>1, <1>3, SumChanges
<1>5. (\A y \in Resources : none[y] = 0) /\ one[x] = 1
  BY <1>2 DEF Empty, Single
<1>6. SumFunctionOnSet(none, Resources) = 0
  BY <1>1, <1>5, SumNothing
<1>7. QED
  BY <1>2, <1>4, <1>5, <1>6

\* A bag with a card of x is that card and the others.
LEMMA TakeOne ==
  ASSUME NEW bag \in Bags, SumFunctionOnSet(bag, Resources) > 0
  PROVE  \E x \in Resources, rest \in Bags :
           /\ \A z \in Resources : bag[z] = rest[z] + (IF z = x THEN 1 ELSE 0)
           /\ SumFunctionOnSet(bag, Resources) = SumFunctionOnSet(rest, Resources) + 1
<1>1. IsFiniteSet(Resources)
  BY BoardAssumption DEF BoardAssumption
<1>2. \A y \in Resources : bag[y] \in Nat
  BY DEF Bags
<1>3. PICK x \in Resources : bag[x] > 0
  BY <1>1, <1>2, SumCovers
<1>4. PICK rest : rest = [bag EXCEPT ![x] = @ - 1]
  OBVIOUS
<1>5. rest \in Bags /\ rest[x] = bag[x] - 1 /\ \A y \in Resources \ {x} : rest[y] = bag[y]
  BY <1>2, <1>3, <1>4 DEF Bags
<1>6. (\A y \in Resources : bag[y] \in Int) /\ rest[x] \in Int
  BY <1>2, <1>5
<1>7. SumFunctionOnSet(rest, Resources) = SumFunctionOnSet(bag, Resources) - bag[x] + rest[x]
  BY <1>1, <1>5, <1>6, SumChanges
<1>8. SumFunctionOnSet(bag, Resources) \in Nat
  BY <1>1, <1>2, SumCovers
<1>9. SumFunctionOnSet(bag, Resources) = SumFunctionOnSet(rest, Resources) + 1
  <2>1. PICK s, t : s = SumFunctionOnSet(bag, Resources) /\ t = SumFunctionOnSet(rest, Resources)
    OBVIOUS
  <2>2. s \in Nat /\ t = s - bag[x] + (bag[x] - 1)
    BY <1>5, <1>7, <1>8, <2>1
  <2>3. QED
    BY <1>2, <2>1, <2>2
<1>10. \A z \in Resources : bag[z] = rest[z] + (IF z = x THEN 1 ELSE 0)
  BY <1>2, <1>5
<1>11. QED
  BY <1>5, <1>9, <1>10

\* The bags of two cards are the pairs.
LEMMA BagsOfTwo ==
  ASSUME NEW bag
  PROVE  (bag \in [Resources -> 0..2] /\ Count(bag) = 2)
           <=> \E x, y \in Resources : bag = Two(x, y)
<1>1. IsFiniteSet(Resources)
  BY BoardAssumption DEF BoardAssumption
<1>2. ASSUME NEW x \in Resources, NEW y \in Resources, bag = Two(x, y)
      PROVE  bag \in [Resources -> 0..2] /\ Count(bag) = 2
  <2>1. bag \in [Resources -> 0..2] /\ bag \in Bags
    BY <1>2 DEF Two, Bags
  <2>2. PICK f, g : f = Single(x) /\ g = Single(y)
    OBVIOUS
  <2>3. \A z \in Resources : f[z] \in Int /\ g[z] \in Int /\ bag[z] = f[z] + g[z]
    BY <1>2, <2>2 DEF Single, Two
  <2>4. SumFunctionOnSet(bag, Resources) = SumFunctionOnSet(f, Resources) + SumFunctionOnSet(g, Resources)
    BY <1>1, <2>3, SumAdds
  <2>5. SumFunctionOnSet(f, Resources) = 1 /\ SumFunctionOnSet(g, Resources) = 1
    BY <2>2, SingleIsOne
  <2>6. QED
    BY <2>1, <2>4, <2>5, CountType
<1>3. ASSUME bag \in [Resources -> 0..2], Count(bag) = 2
      PROVE  \E x, y \in Resources : bag = Two(x, y)
  <2>1. bag \in Bags
    BY <1>3 DEF Bags
  <2>2. SumFunctionOnSet(bag, Resources) = 2
    BY <1>3, <2>1, CountType
  <2>3. PICK x \in Resources, rest \in Bags :
          /\ \A z \in Resources : bag[z] = rest[z] + (IF z = x THEN 1 ELSE 0)
          /\ SumFunctionOnSet(bag, Resources) = SumFunctionOnSet(rest, Resources) + 1
    BY <2>1, <2>2, TakeOne
  <2>4. SumFunctionOnSet(rest, Resources) \in Nat
    BY CountType
  <2>5. SumFunctionOnSet(rest, Resources) = 1
    BY <2>2, <2>3, <2>4
  <2>6. PICK y \in Resources, none \in Bags :
          /\ \A z \in Resources : rest[z] = none[z] + (IF z = y THEN 1 ELSE 0)
          /\ SumFunctionOnSet(rest, Resources) = SumFunctionOnSet(none, Resources) + 1
    BY <2>5, TakeOne
  <2>7. SumFunctionOnSet(none, Resources) \in Nat
    BY CountType
  <2>8. SumFunctionOnSet(none, Resources) = 0
    BY <2>5, <2>6, <2>7
  <2>9. \A z \in Resources : none[z] \in Nat
    BY DEF Bags
  <2>10. \A z \in Resources : none[z] = 0
    <3>1. \A z \in Resources : none[z] <= SumFunctionOnSet(none, Resources)
      BY <1>1, <2>9, SumCovers
    <3>2. QED
      BY <2>8, <2>9, <3>1
  <2>11. \A z \in Resources : bag[z] = Two(x, y)[z]
    BY <2>3, <2>6, <2>10 DEF Two
  <2>12. bag = [z \in Resources |-> bag[z]] /\ Two(x, y) = [z \in Resources |-> Two(x, y)[z]]
    BY <1>3 DEF Two
  <2>13. QED
    BY <2>11, <2>12
<1>4. QED
  BY <1>2, <1>3

\* The pairs the bank has are the bags of two cards it has.
LEMMA ViewInventions ==
  ASSUME TurnInvariant, NEW v \in Players, NEW legal, legal = LegalActions(v, Hidden)
  PROVE  legal.inventions = {bag \in Inventions : AcceptsInvention(v, bag)}
<1>1. CASE pending.type = "CHOOSE_INVENTION_RESOURCES" /\ pending.actor = v
  <2>1. winner = None /\ turn.phase \in {"ROLL_REQUIRED", "ACTION"}
    BY <1>1, OpenDecision, SeatFacts DEF DecisionTypes, TurnInvariant, DecisionFits, CardFits, Resume
  <2>2. \A bag : (bag \in Inventions /\ AcceptsInvention(v, bag))
                   <=> (/\ bag \in [Resources -> 0..2] /\ Count(bag) = 2
                        /\ Covers(bank, bag))
    BY <1>1, <2>1, ViewAssumption
       DEF ViewAssumption, Inventions, Selections, AcceptsInvention, DecidesCard, Decides
  <2>3. \A bag : bag \in InventionSelections
                   <=> (/\ \E x, y \in Resources : bag = Two(x, y)
                        /\ Covers(bank, bag))
    <3>1. InventionSelections = {Two(xy[1], xy[2]) : xy \in {o \in Resources \X Resources : Covers(bank, Two(o[1], o[2]))}}
      BY DEF InventionSelections, Two
    <3>2. ASSUME NEW bag \in InventionSelections
          PROVE  (\E x, y \in Resources : bag = Two(x, y)) /\ Covers(bank, bag)
      BY <3>1
    <3>3. ASSUME NEW bag, NEW x \in Resources, NEW y \in Resources, bag = Two(x, y), Covers(bank, bag)
          PROVE  bag \in InventionSelections
      <4>1. <<x, y>> \in {o \in Resources \X Resources : Covers(bank, Two(o[1], o[2]))}
        BY <3>3
      <4>2. QED
        BY <3>1, <3>3, <4>1
    <3>4. QED
      BY <3>2, <3>3
  <2>4. \A bag : bag \in InventionSelections <=> (bag \in Inventions /\ AcceptsInvention(v, bag))
    BY <2>2, <2>3, BagsOfTwo
  <2>5. legal.inventions = InventionSelections
    BY <1>1, LegalAnswers
  <2>6. QED
    BY <2>4, <2>5
<1>2. CASE ~(pending.type = "CHOOSE_INVENTION_RESOURCES" /\ pending.actor = v)
  <2>1. legal.inventions = {}
    BY <1>2, LegalAnswers
  <2>2. \A bag : ~AcceptsInvention(v, bag)
    BY <1>2 DEF AcceptsInvention, DecidesCard, Decides
  <2>3. QED
    BY <2>1, <2>2
<1>3. QED
  BY <1>1, <1>2

\* What the view offers a player is what the engine accepts from that player,
\* in every state of every game: for every kind of command and every target.
THEOREM ViewMatchesEngineHolds == Spec => []ViewMatchesEngine
<1>1. Init => AllFit
  BY AllInit
<1>2. TurnInvariant /\ CardsFit /\ AllFit /\ [Next]_vars => AllFit'
  BY AllStep
<1>3. TurnInvariant /\ CardsFit /\ AllFit => ViewMatchesEngine
  <2>1. SUFFICES ASSUME TurnInvariant, CardsFit, AllFit PROVE ViewMatchesEngine
    OBVIOUS
  <2>2. AsksFit /\ ResourcesFit /\ BoardFits
    BY <2>1 DEF AllFit
  <2>3. QED
    BY <2>1, <2>2, ViewBuilds, ViewFlags, ViewCards, ViewDiscards, ViewRobber, ViewInventions DEF ViewMatchesEngine
<1>4. QED
  BY <1>1, <1>2, <1>3, TurnsHold, PTL DEF Spec

-----------------------------------------------------------------------------
(* What a player is not shown: a view is made of counts, of the player's   *)
(* own cards and of what is public, and no card that was seen is unseen.   *)

\* One of two cards becomes the other.
LEMMA ExchangeIs ==
  ASSUME NEW a, NEW b, a # b, NEW x
  PROVE  Exchanged(x, {a, b}) = IF x = a THEN b ELSE IF x = b THEN a ELSE x
<1>1. (CHOOSE y \in {a, b} : y # a) = b /\ (CHOOSE y \in {a, b} : y # b) = a
  OBVIOUS
<1>2. QED
  BY <1>1 DEF Exchanged

\* The identifiers of the cards that others hold unseen, or that are in the deck.
Unseen(v, s) == {c.card : c \in UNION {ShownInHand(s, q) : q \in Players \ {v}}} \cup ToSet(s.deck)

\* What a player cannot tell apart.
LEMMA TwinKinds ==
  ASSUME CardsFit, NEW v \in Players, NEW t \in Twins(v, Hidden)
  PROVE  \/ \E q \in Players \ {v} : \E x, y \in Resources : x # y /\ hand[q][x] > 0 /\ t = Rehanded(Hidden, q, x, y)
         \/ \E a, b \in Unseen(v, Hidden) : a # b /\ t = Recarded(Hidden, {a, b})
         \/ /\ pending.type = "RESPOND_TO_TRADE" /\ v \notin {pending.initiator, pending.counterparty}
            /\ t = Reoffered(Hidden)
<1>1. PICK s : s = Hidden
  OBVIOUS
<1>2. s.hand = hand /\ s.deck = deck /\ s.pending = pending
  BY <1>1 DEF Hidden
<1>3. PICK held, first : /\ held = {c.card : c \in UNION {ShownInHand(s, q) : q \in Players \ {v}}}
                         /\ first = held \cup (IF s.deck = <<>> THEN {} ELSE {Head(s.deck)})
  OBVIOUS
<1>4. PICK resources, pairs, offers :
        /\ resources = {qxy \in (Players \ {v}) \X Resources \X Resources :
                          qxy[2] # qxy[3] /\ s.hand[qxy[1]][qxy[2]] > 0}
        /\ pairs = {{xy[1], xy[2]} : xy \in {o \in first \X (ToSet(s.deck) \cup held) : o[1] # o[2]}}
        /\ offers = {d \in {s.pending} : d.type = "RESPOND_TO_TRADE" /\ v \notin {d.initiator, d.counterparty}}
  OBVIOUS
<1>5. Twins(v, s) = {Rehanded(s, o[1], o[2], o[3]) : o \in resources} \cup {Recarded(s, pair) : pair \in pairs}
                      \cup {Reoffered(s) : d \in offers}
  BY <1>3, <1>4 DEF Twins
<1>6. CASE t \in {Rehanded(s, o[1], o[2], o[3]) : o \in resources}
  <2>1. PICK o \in resources : t = Rehanded(s, o[1], o[2], o[3])
    BY <1>6
  <2>2. o[1] \in Players \ {v} /\ o[2] \in Resources /\ o[3] \in Resources /\ o[2] # o[3] /\ hand[o[1]][o[2]] > 0
    BY <1>2, <1>4
  <2>3. QED
    BY <1>1, <2>1, <2>2
<1>7. CASE t \in {Recarded(s, pair) : pair \in pairs}
  <2>1. PICK pair \in pairs : t = Recarded(s, pair)
    BY <1>7
  <2>2. PICK o \in first \X (ToSet(s.deck) \cup held) : o[1] # o[2] /\ pair = {o[1], o[2]}
    BY <1>4
  <2>3. first \subseteq Unseen(v, s)
    <3>1. s.deck # <<>> => Head(s.deck) \in ToSet(s.deck)
      <4>1. SUFFICES ASSUME deck # <<>> PROVE Head(deck) \in ToSet(deck)
        BY <1>2
      <4>2. Len(deck) \in Nat /\ Len(deck) # 0 /\ DOMAIN deck = 1..Len(deck)
        BY <4>1 DEF CardsFit
      <4>3. 1 \in DOMAIN deck /\ Head(deck) = deck[1]
        BY <4>1, <4>2 DEF CardsFit
      <4>4. QED
        BY <4>3 DEF ToSet
    <3>2. QED
      BY <1>3, <3>1 DEF Unseen
  <2>4. o[1] \in Unseen(v, s) /\ o[2] \in Unseen(v, s)
    BY <1>3, <2>2, <2>3 DEF Unseen
  <2>5. QED
    BY <1>1, <2>1, <2>2, <2>4
<1>8. CASE t \in {Reoffered(s) : d \in offers}
  BY <1>1, <1>2, <1>4, <1>8
<1>9. QED
  BY <1>1, <1>5, <1>6, <1>7, <1>8

\* The points of a player that everybody can see.
SeenPoints(s, q) ==
  Points(buildings, awards, s.cards, q) - Cardinality({c \in ShownInHand(s, q) : CardType[c.card] = "VICTORY_POINT"})

\* What a view is made of.
Alike(v, s, t) ==
  /\ t.hand[v] = s.hand[v] /\ t.cards[v] = s.cards[v]
  /\ Len(t.deck) = Len(s.deck) /\ (t.deck = <<>> <=> s.deck = <<>>)
AlikeOthers(s, t) ==
  \A q \in Players : /\ Count(t.hand[q]) = Count(s.hand[q])
                     /\ Cardinality(ShownInHand(t, q)) = Cardinality(ShownInHand(s, q))
AlikePoints(s, t) == \A q \in Players : SeenPoints(t, q) = SeenPoints(s, q)
AlikeDecision(v, s, t) ==
  \/ t.pending = s.pending
  \/ /\ s.pending.type = "RESPOND_TO_TRADE" /\ t.pending.type = "RESPOND_TO_TRADE"
     /\ t.pending.initiator = s.pending.initiator /\ t.pending.counterparty = s.pending.counterparty
     /\ t.pending.author = s.pending.author /\ t.pending.depth = s.pending.depth
     /\ v \notin {s.pending.initiator, s.pending.counterparty}

\* Nothing else is looked at to tell what a player may do.
LEMMA SameActions ==
  ASSUME NEW v \in Players, NEW s, NEW t, Alike(v, s, t), AlikeDecision(v, s, t)
  PROVE  LegalActions(v, t) = LegalActions(v, s) /\ PendingView(v, t) = PendingView(v, s)
<1>1. CASE t.pending = s.pending
  <2>1. TradeResponse(v, t) = TradeResponse(v, s)
    BY <1>1 DEF TradeResponse, Alike
  <2>2. \A c : PlayabilityReason(v, t, c) = PlayabilityReason(v, s, c)
    BY <1>1 DEF PlayabilityReason
  <2>3. {c \in t.cards[v] : PlayabilityReason(v, t, c) = "PLAYABLE"}
          = {c \in s.cards[v] : PlayabilityReason(v, s, c) = "PLAYABLE"}
    BY <2>2 DEF Alike
  <2>4. t.hand[v] = s.hand[v] /\ (t.deck = <<>>) = (s.deck = <<>>)
    BY DEF Alike
  <2>5. LegalActions(v, t) = LegalActions(v, s)
    BY <1>1, <2>1, <2>3, <2>4, ZenonT(60) DEF LegalActions
  <2>6. PendingView(v, t) = PendingView(v, s)
    BY <1>1 DEF PendingView
  <2>7. QED
    BY <2>5, <2>6
<1>2. CASE t.pending # s.pending
  <2>1. /\ s.pending.type = "RESPOND_TO_TRADE" /\ t.pending.type = "RESPOND_TO_TRADE"
        /\ t.pending.initiator = s.pending.initiator /\ t.pending.counterparty = s.pending.counterparty
        /\ t.pending.author = s.pending.author /\ t.pending.depth = s.pending.depth
        /\ v \notin {s.pending.initiator, s.pending.counterparty}
    BY <1>2 DEF AlikeDecision
  <2>2. Responder(t.pending) = Responder(s.pending) /\ Responder(s.pending) # v
    BY <2>1 DEF Responder
  <2>3. s.pending # NoDecision /\ t.pending # NoDecision
    <3>1. NoDecision.type = None /\ None # "RESPOND_TO_TRADE"
      BY SeatFacts DEF NoDecision, DecisionTypes
    <3>2. QED
      BY <2>1, <3>1
  <2>4. TradeResponse(v, t) = TradeResponse(v, s)
    BY <2>1, <2>2 DEF TradeResponse
  <2>5. \A c : PlayabilityReason(v, t, c) = PlayabilityReason(v, s, c)
    BY <2>3 DEF PlayabilityReason
  <2>6. {c \in t.cards[v] : PlayabilityReason(v, t, c) = "PLAYABLE"}
          = {c \in s.cards[v] : PlayabilityReason(v, s, c) = "PLAYABLE"}
    BY <2>5 DEF Alike
  <2>7. t.hand[v] = s.hand[v] /\ (t.deck = <<>>) = (s.deck = <<>>)
    BY DEF Alike
  <2>8. LegalActions(v, t) = LegalActions(v, s)
    BY <2>1, <2>3, <2>4, <2>6, <2>7, ZenonT(60) DEF LegalActions
  <2>9. PendingView(v, t) = PendingView(v, s)
    BY <2>1, <2>2 DEF PendingView
  <2>10. QED
    BY <2>8, <2>9
<1>3. QED
  BY <1>1, <1>2

\* Nor to show a player the game.
LEMMA SameView ==
  ASSUME NEW v \in Players, NEW s, NEW t, Alike(v, s, t), AlikeOthers(s, t), AlikePoints(s, t), AlikeDecision(v, s, t)
  PROVE  View(v, t) = View(v, s)
<1>1. LegalActions(v, t) = LegalActions(v, s) /\ PendingView(v, t) = PendingView(v, s)
  BY SameActions
<1>2. Points(buildings, awards, t.cards, v) = Points(buildings, awards, s.cards, v)
  BY DEF Points, Alike
<1>3. QED
  BY <1>1, <1>2 DEF View, Alike, AlikeOthers, AlikePoints, SeenPoints

\* Of a trade between others only the players show.
LEMMA OffersHide ==
  ASSUME NEW v \in Players, pending.type = "RESPOND_TO_TRADE", v \notin {pending.initiator, pending.counterparty}
  PROVE  View(v, Reoffered(Hidden)) = View(v, Hidden)
<1>1. PICK s, t : s = Hidden /\ t = Reoffered(s)
  OBVIOUS
<1>2. PICK d : d = Offer(pending.initiator, pending.counterparty, pending.author, pending.gets, pending.gives, pending.depth)
  OBVIOUS
<1>3. s.hand = hand /\ s.cards = cards /\ s.deck = deck /\ s.pending = pending
  BY <1>1 DEF Hidden
<1>4. t.hand = hand /\ t.cards = cards /\ t.deck = deck /\ t.pending = d
  BY <1>1, <1>2 DEF Hidden, Reoffered
<1>5. AlikeDecision(v, s, t)
  BY <1>2, <1>3, <1>4 DEF AlikeDecision, Offer
<1>6. ShownInHand(t, v) = ShownInHand(s, v) /\ \A q : ShownInHand(t, q) = ShownInHand(s, q)
  BY <1>3, <1>4 DEF ShownInHand
<1>7. Alike(v, s, t) /\ AlikeOthers(s, t) /\ AlikePoints(s, t)
  BY <1>3, <1>4, <1>6 DEF Alike, AlikeOthers, AlikePoints, SeenPoints
<1>8. QED
  BY <1>1, <1>5, <1>7, SameView

\* The number of cards of a bag follows a change of one resource.
LEMMA BagChanges ==
  ASSUME NEW f \in Bags, NEW g \in Bags, NEW x \in Resources, \A z \in Resources \ {x} : g[z] = f[z]
  PROVE  Count(g) = Count(f) - f[x] + g[x]
<1>1. IsFiniteSet(Resources)
  BY BoardAssumption DEF BoardAssumption
<1>2. (\A z \in Resources : f[z] \in Int) /\ g[x] \in Int
  BY DEF Bags
<1>3. SumFunctionOnSet(g, Resources) = SumFunctionOnSet(f, Resources) - f[x] + g[x]
  BY <1>1, <1>2, SumChanges
<1>4. QED
  BY <1>3, CountType

\* One card for another is as many cards.
LEMMA SwapKeepsCount ==
  ASSUME NEW f \in Bags, NEW x \in Resources, NEW y \in Resources, x # y, f[x] > 0
  PROVE  Count([[f EXCEPT ![x] = @ - 1] EXCEPT ![y] = @ + 1]) = Count(f)
<1>1. \A z \in Resources : f[z] \in Nat
  BY DEF Bags
<1>2. PICK g : g = [f EXCEPT ![x] = @ - 1]
  OBVIOUS
<1>3. PICK h : h = [g EXCEPT ![y] = @ + 1]
  OBVIOUS
<1>4. g \in Bags /\ g[x] = f[x] - 1 /\ \A z \in Resources \ {x} : g[z] = f[z]
  BY <1>1, <1>2 DEF Bags
<1>5. h \in Bags /\ h[y] = g[y] + 1 /\ \A z \in Resources \ {y} : h[z] = g[z]
  BY <1>3, <1>4 DEF Bags
<1>6. Count(g) = Count(f) - f[x] + g[x]
  BY <1>4, BagChanges
<1>7. Count(h) = Count(g) - g[y] + h[y]
  BY <1>4, <1>5, BagChanges
<1>8. Count(h) = Count(g) - g[y] + (g[y] + 1) /\ Count(g) = Count(f) - f[x] + (f[x] - 1)
  BY <1>4, <1>5, <1>6, <1>7
<1>9. Count(f) \in Nat /\ Count(g) \in Nat /\ g[y] \in Nat
  BY <1>4, CountType DEF Bags
<1>10. Count(h) = Count(f)
  BY <1>1, <1>8, <1>9
<1>11. QED
  BY <1>2, <1>3, <1>10

\* Of the resources of others only their number shows.
LEMMA HandsHide ==
  ASSUME ResourcesFit, NEW v \in Players, NEW q \in Players \ {v}, NEW x \in Resources, NEW y \in Resources,
         x # y, hand[q][x] > 0
  PROVE  View(v, Rehanded(Hidden, q, x, y)) = View(v, Hidden)
<1>1. PICK s, t : s = Hidden /\ t = Rehanded(s, q, x, y)
  OBVIOUS
<1>2. PICK f, h : f = hand[q] /\ h = [[f EXCEPT ![x] = @ - 1] EXCEPT ![y] = @ + 1]
  OBVIOUS
<1>3. hand \in [Players -> Bags]
  BY DEF ResourcesFit, Balanced
<1>4. s.hand = hand /\ s.cards = cards /\ s.deck = deck /\ s.pending = pending
  BY <1>1 DEF Hidden
<1>5. t.cards = cards /\ t.deck = deck /\ t.pending = pending
  BY <1>1 DEF Hidden, Rehanded
<1>6. t.hand = [hand EXCEPT ![q] = h]
  BY <1>1, <1>2, <1>3 DEF Hidden, Rehanded
<1>7. Count(h) = Count(f)
  <2>1. f \in Bags /\ f[x] > 0
    BY <1>2, <1>3
  <2>2. QED
    BY <1>2, <2>1, SwapKeepsCount
<1>8. t.hand[q] = h /\ \A o \in Players \ {q} : t.hand[o] = hand[o]
  BY <1>3, <1>6
<1>9. \A o : ShownInHand(t, o) = ShownInHand(s, o)
  BY <1>4, <1>5 DEF ShownInHand
<1>10. AlikeOthers(s, t) /\ AlikePoints(s, t)
  BY <1>2, <1>4, <1>5, <1>7, <1>8, <1>9 DEF AlikeOthers, AlikePoints, SeenPoints
<1>11. Alike(v, s, t) /\ AlikeDecision(v, s, t)
  BY <1>4, <1>5, <1>8 DEF Alike, AlikeDecision
<1>12. QED
  BY <1>1, <1>10, <1>11, SameView

\* The points of a player apart from the cards.
PublicPoints(q) ==
  Cardinality(Settlements(buildings, q)) + 2 * Cardinality(Cities(buildings, q))
    + (IF awards.road = q THEN AwardPoints ELSE 0) + (IF awards.army = q THEN AwardPoints ELSE 0)

\* The points that show are those, and the cards that were revealed.
LEMMA ShownPoints ==
  ASSUME NEW s, NEW q \in Players, IsFiniteSet(s.cards[q])
  PROVE  SeenPoints(s, q) = PublicPoints(q)
             + Cardinality({c \in s.cards[q] : c.status # "IN_HAND" /\ CardType[c.card] = "VICTORY_POINT"})
<1>1. PICK all, unseen, seen :
        /\ all = {c \in s.cards[q] : CardType[c.card] = "VICTORY_POINT"}
        /\ unseen = {c \in ShownInHand(s, q) : CardType[c.card] = "VICTORY_POINT"}
        /\ seen = {c \in s.cards[q] : c.status # "IN_HAND" /\ CardType[c.card] = "VICTORY_POINT"}
  OBVIOUS
<1>2. IsFiniteSet(all) /\ IsFiniteSet(unseen) /\ IsFiniteSet(seen)
  BY <1>1, FS_Subset DEF ShownInHand
<1>3. all = unseen \cup seen /\ unseen \cap seen = {}
  BY <1>1 DEF ShownInHand
<1>4. Cardinality(all) = Cardinality(unseen) + Cardinality(seen)
  <2>1. Cardinality(all) = Cardinality(unseen) + Cardinality(seen) - Cardinality(unseen \cap seen)
    BY <1>2, <1>3, FS_Union
  <2>2. Cardinality(unseen \cap seen) = 0
    BY <1>3, FS_EmptySet
  <2>3. QED
    BY <1>2, <2>1, <2>2, FS_CardinalityType
<1>5. Points(buildings, awards, s.cards, q) = PublicPoints(q) + Cardinality(all)
  BY <1>1 DEF Points, PublicPoints
<1>6. PublicPoints(q) \in Nat
  <2>1. PICK st, ct : st = Settlements(buildings, q) /\ ct = Cities(buildings, q)
    OBVIOUS
  <2>2. st \subseteq Vertices /\ ct \subseteq Vertices
    BY <2>1 DEF Settlements, Cities
  <2>3. Cardinality(st) \in Nat /\ Cardinality(ct) \in Nat
    BY <2>2, SizeFacts
  <2>4. AwardPoints \in Nat
    BY EngineAssumption DEF EngineAssumption
  <2>5. QED
    BY <2>1, <2>3, <2>4 DEF PublicPoints
<1>7. Cardinality(unseen) \in Nat /\ Cardinality(seen) \in Nat
  BY <1>2, FS_CardinalityType
<1>8. Points(buildings, awards, s.cards, q) - Cardinality(unseen) = PublicPoints(q) + Cardinality(seen)
  BY <1>4, <1>5, <1>6, <1>7
<1>9. QED
  BY <1>1, <1>8 DEF SeenPoints

\* A card after two were exchanged.
MovedCard(c, a, b) == [c EXCEPT !.card = Exchanged(c.card, {a, b})]

\* The exchange changes no other card, and no two into one.
LEMMA MovedFacts ==
  ASSUME NEW a, NEW b, a # b
  PROVE  /\ \A c \in OwnedCards : MovedCard(c, a, b).status = c.status
         /\ \A c \in OwnedCards : c.card # a /\ c.card # b => MovedCard(c, a, b) = c
         /\ \A c, d \in OwnedCards : MovedCard(c, a, b) = MovedCard(d, a, b) => c = d
<1>1. ASSUME NEW c \in OwnedCards
      PROVE  /\ MovedCard(c, a, b).status = c.status /\ MovedCard(c, a, b).acquired = c.acquired
             /\ MovedCard(c, a, b).card = Exchanged(c.card, {a, b})
             /\ c = [card |-> c.card, acquired |-> c.acquired, status |-> c.status]
             /\ MovedCard(c, a, b) = [card |-> Exchanged(c.card, {a, b}), acquired |-> c.acquired, status |-> c.status]
  BY DEF MovedCard, OwnedCards
<1>2. ASSUME NEW c \in OwnedCards, c.card # a, c.card # b PROVE MovedCard(c, a, b) = c
  <2>1. Exchanged(c.card, {a, b}) = c.card
    BY <1>2, ExchangeIs
  <2>2. QED
    BY <1>1, <2>1
<1>3. ASSUME NEW c \in OwnedCards, NEW d \in OwnedCards, MovedCard(c, a, b) = MovedCard(d, a, b) PROVE c = d
  <2>1. Exchanged(c.card, {a, b}) = Exchanged(d.card, {a, b}) /\ c.acquired = d.acquired /\ c.status = d.status
    BY <1>1, <1>3
  <2>2. c.card = d.card
    <3>1. Exchanged(c.card, {a, b}) = IF c.card = a THEN b ELSE IF c.card = b THEN a ELSE c.card
      BY ExchangeIs
    <3>2. Exchanged(d.card, {a, b}) = IF d.card = a THEN b ELSE IF d.card = b THEN a ELSE d.card
      BY ExchangeIs
    <3>3. QED
      BY <2>1, <3>1, <3>2
  <2>3. QED
    BY <1>1, <2>1, <2>2
<1>4. QED
  BY <1>1, <1>2, <1>3

\* A card that a player does not see is in the deck, or in the hand of another.
LEMMA UnseenFacts ==
  ASSUME CardsRight, NEW v \in Players, NEW x \in Unseen(v, Hidden), NEW q \in Players, NEW c \in cards[q], c.card = x
  PROVE  q # v /\ c.status = "IN_HAND"
<1>1. HeldOnce(cards, deck) /\ deck \in Seq(Cards)
  BY DEF CardsRight, CardsKnown
<1>2. CASE x \in ToSet(deck)
  <2>1. PICK i \in 1..Len(deck) : deck[i] = x
    BY <1>1, <1>2 DEF ToSet
  <2>2. QED
    BY <1>1, <2>1 DEF HeldOnce
<1>3. CASE x \notin ToSet(deck)
  <2>1. Hidden.cards = cards /\ Hidden.deck = deck
    BY DEF Hidden
  <2>2. PICK d \in UNION {ShownInHand(Hidden, o) : o \in Players \ {v}} : d.card = x
    BY <1>3, <2>1 DEF Unseen
  <2>3. PICK o \in Players \ {v} : d \in ShownInHand(Hidden, o)
    BY <2>2
  <2>4. d \in cards[o] /\ d.status = "IN_HAND"
    BY <2>1, <2>3 DEF ShownInHand
  <2>5. o = q /\ d = c
    BY <1>1, <2>2, <2>3, <2>4 DEF HeldOnce
  <2>6. QED
    BY <2>3, <2>4, <2>5
<1>4. QED
  BY <1>2, <1>3

\* Of the cards of others only their number shows, and what was played or revealed.
LEMMA CardsHide ==
  ASSUME CardsRight, NEW v \in Players, NEW a \in Unseen(v, Hidden), NEW b \in Unseen(v, Hidden), a # b
  PROVE  View(v, Recarded(Hidden, {a, b})) = View(v, Hidden)
<1>1. PICK s, t : s = Hidden /\ t = Recarded(s, {a, b})
  OBVIOUS
<1>2. s.hand = hand /\ s.cards = cards /\ s.deck = deck /\ s.pending = pending
  BY <1>1 DEF Hidden
<1>3. /\ t.hand = hand /\ t.pending = pending
      /\ t.deck = [i \in DOMAIN deck |-> Exchanged(deck[i], {a, b})]
      /\ t.cards = [q \in Players |-> {MovedCard(c, a, b) : c \in cards[q]}]
  BY <1>1 DEF Hidden, Recarded, MovedCard
<1>4. \A q \in Players : cards[q] \subseteq OwnedCards /\ IsFiniteSet(cards[q])
  BY DEF CardsRight, CardsKnown, CardsType
<1>5. \A q \in Players : t.cards[q] = {MovedCard(c, a, b) : c \in cards[q]}
  BY <1>3
<1>6. ASSUME NEW q \in Players, NEW c \in cards[q], c.card = a \/ c.card = b
      PROVE  q # v /\ c.status = "IN_HAND"
  BY <1>6, UnseenFacts
<1>7. \A q \in Players : \A c \in cards[q] :
        /\ MovedCard(c, a, b).status = c.status
        /\ q = v \/ c.status # "IN_HAND" => MovedCard(c, a, b) = c
  BY <1>4, <1>6, MovedFacts
<1>8. t.cards[v] = cards[v]
  <2>1. t.cards[v] = {MovedCard(c, a, b) : c \in cards[v]} /\ \A c \in cards[v] : MovedCard(c, a, b) = c
    BY <1>5, <1>7
  <2>2. QED
    BY <2>1
<1>9. Len(t.deck) = Len(deck) /\ (t.deck = <<>> <=> deck = <<>>)
  <2>1. deck \in Seq(Cards)
    BY DEF CardsRight, CardsKnown
  <2>2. Len(deck) \in Nat /\ DOMAIN deck = 1..Len(deck)
    BY <2>1
  <2>3. t.deck = [i \in 1..Len(deck) |-> Exchanged(deck[i], {a, b})]
    BY <1>3, <2>2
  <2>4. PICK T : T = {Exchanged(deck[i], {a, b}) : i \in 1..Len(deck)}
    OBVIOUS
  <2>5. t.deck \in Seq(T) /\ Len(t.deck) = Len(deck)
    <3>1. t.deck \in [1..Len(deck) -> T]
      BY <2>3, <2>4
    <3>2. QED
      BY <2>2, <3>1, SequenceOf
  <2>6. t.deck = <<>> <=> Len(t.deck) = 0
    BY <2>5
  <2>7. deck = <<>> <=> Len(deck) = 0
    BY <2>1
  <2>8. QED
    BY <2>5, <2>6, <2>7
<1>10. Alike(v, s, t) /\ AlikeDecision(v, s, t)
  BY <1>2, <1>3, <1>8, <1>9 DEF Alike, AlikeDecision
<1>11. ASSUME NEW q \in Players PROVE Cardinality(ShownInHand(t, q)) = Cardinality(ShownInHand(s, q))
  <2>1. PICK S, T : S = ShownInHand(s, q) /\ T = ShownInHand(t, q)
    OBVIOUS
  <2>2. S = {c \in cards[q] : c.status = "IN_HAND"} /\ T = {c \in t.cards[q] : c.status = "IN_HAND"}
    BY <1>2, <2>1 DEF ShownInHand
  <2>3. PICK f : f = [c \in S |-> MovedCard(c, a, b)]
    OBVIOUS
  <2>4. \A c \in S : f[c] \in T
    BY <1>5, <1>7, <2>2, <2>3
  <2>5. \A d \in T : \E c \in S : f[c] = d
    BY <1>5, <1>7, <2>2, <2>3
  <2>6. S \subseteq OwnedCards
    BY <1>4, <2>2
  <2>7. \A c, d \in S : f[c] = f[d] => c = d
    BY <2>3, <2>6, MovedFacts
  <2>8. Pairs(f, S, T)
    BY <2>3, <2>4, <2>5, <2>7 DEF Pairs
  <2>9. IsFiniteSet(S)
    BY <1>4, <2>2, FS_Subset
  <2>10. QED
    BY <2>1, <2>8, <2>9, SameSize
<1>12. AlikeOthers(s, t)
  BY <1>2, <1>3, <1>11 DEF AlikeOthers
<1>13. ASSUME NEW q \in Players PROVE SeenPoints(t, q) = SeenPoints(s, q)
  <2>1. IsFiniteSet(cards[q]) /\ IsFiniteSet(t.cards[q])
    <3>1. PICK S, T : S = cards[q] /\ T = t.cards[q]
      OBVIOUS
    <3>2. PICK f : f = [c \in S |-> MovedCard(c, a, b)]
      OBVIOUS
    <3>3. f \in [S -> T] /\ \A d \in T : \E c \in S : f[c] = d
      BY <1>5, <3>1, <3>2
    <3>4. \A c, d \in S : f[c] = f[d] => c = d
      BY <1>4, <3>1, <3>2, MovedFacts
    <3>5. Pairs(f, S, T) /\ IsFiniteSet(S)
      BY <1>4, <3>1, <3>3, <3>4 DEF Pairs
    <3>6. QED
      BY <3>1, <3>5, SameSize
  <2>2. \A c : c \in t.cards[q] /\ c.status # "IN_HAND" <=> c \in cards[q] /\ c.status # "IN_HAND"
    <3>1. ASSUME NEW c, c \in cards[q], c.status # "IN_HAND"
          PROVE  c \in t.cards[q]
      <4>1. MovedCard(c, a, b) = c
        BY <1>7, <3>1
      <4>2. QED
        BY <1>5, <3>1, <4>1
    <3>2. ASSUME NEW c, c \in t.cards[q], c.status # "IN_HAND"
          PROVE  c \in cards[q]
      <4>1. PICK d \in cards[q] : c = MovedCard(d, a, b)
        BY <1>5, <3>2
      <4>2. d.status # "IN_HAND"
        BY <1>7, <3>2, <4>1
      <4>3. QED
        BY <1>7, <4>1, <4>2
    <3>3. QED
      BY <3>1, <3>2
  <2>3. {c \in t.cards[q] : c.status # "IN_HAND" /\ CardType[c.card] = "VICTORY_POINT"}
          = {c \in cards[q] : c.status # "IN_HAND" /\ CardType[c.card] = "VICTORY_POINT"}
    BY <2>2
  <2>4. QED
    BY <1>2, <2>1, <2>3, ShownPoints
<1>14. AlikePoints(s, t)
  BY <1>13 DEF AlikePoints
<1>15. QED
  BY <1>1, <1>10, <1>12, <1>14, SameView

\* A view gives nothing away, in any state of any game: it is the same in all
\* states that differ only in what its player does not know.
THEOREM ViewIsPrivateHolds == Spec => []ViewIsPrivate
<1>1. Init => AllFit
  BY AllInit
<1>2. TurnInvariant /\ CardsFit /\ AllFit /\ [Next]_vars => AllFit'
  BY AllStep
<1>3. TurnInvariant /\ CardsFit /\ AllFit => ViewIsPrivate
  <2>1. SUFFICES ASSUME CardsFit, AllFit, NEW v \in Players, NEW t \in Twins(v, Hidden)
                 PROVE  View(v, t) = View(v, Hidden)
    BY DEF ViewIsPrivate
  <2>2. ResourcesFit /\ CardsRight
    BY <2>1 DEF AllFit
  <2>3. CASE \E q \in Players \ {v} : \E x, y \in Resources : x # y /\ hand[q][x] > 0 /\ t = Rehanded(Hidden, q, x, y)
    <3>1. PICK q \in Players \ {v}, x \in Resources, y \in Resources :
            x # y /\ hand[q][x] > 0 /\ t = Rehanded(Hidden, q, x, y)
      BY <2>3
    <3>2. QED
      BY <2>2, <3>1, HandsHide
  <2>4. CASE \E a, b \in Unseen(v, Hidden) : a # b /\ t = Recarded(Hidden, {a, b})
    <3>1. PICK a \in Unseen(v, Hidden), b \in Unseen(v, Hidden) : a # b /\ t = Recarded(Hidden, {a, b})
      BY <2>4
    <3>2. QED
      BY <2>2, <3>1, CardsHide
  <2>5. CASE /\ pending.type = "RESPOND_TO_TRADE" /\ v \notin {pending.initiator, pending.counterparty}
             /\ t = Reoffered(Hidden)
    BY <2>5, OffersHide
  <2>6. QED
    BY <2>1, <2>3, <2>4, <2>5, TwinKinds
<1>4. QED
  BY <1>1, <1>2, <1>3, TurnsHold, PTL DEF Spec

-----------------------------------------------------------------------------
(* Room in the setup: whoever is to settle finds a site, because no more   *)
(* settlements than turns stand on the board (SetupRoom).                  *)

\* The turns of the setup that place i of the order has had, and all of them.
Had(s, i) == IF s.round = 1 THEN (IF i <= s.index THEN 1 ELSE 0) ELSE (IF N - i < s.index THEN 2 ELSE 1)
TurnsHad(s) == IF s.round = 1 THEN s.index ELSE N + s.index
PlaceOf(s) == IF s.round = 1 THEN s.index + 1 ELSE N - s.index

Built(b) == {v \in Vertices : b[v] # Unbuilt}

\* Every turn brought a settlement and a road; the current player c may have
\* placed n of the settlements of this turn.
SetupCount(o, b, r, s, n, c) ==
  /\ Cardinality(Built(b)) <= TurnsHad(s) + n
  /\ \A i \in 1..N : /\ Cardinality(Roads(r, o[i])) <= Had(s, i)
                     /\ Cardinality(Settlements(b, o[i])) <= Had(s, i) + (IF o[i] = c THEN n ELSE 0)

\* Every road starts at a building.
RoadsStart(b, r) == \A e \in Edges : r[e] # None => \E x \in e : b[x] # Unbuilt

\* The settlement that waits for its road has none.
RoadOpen(r, v) == \A e \in EdgesAt(v) : r[e] = None

SetupRoom ==
  Setup => /\ SetupCount(order, buildings, roads, turn.setup, IF turn.phase = "SETUP_ROAD" THEN 1 ELSE 0, turn.current)
           /\ RoadsStart(buildings, roads)
           /\ turn.phase = "SETUP_ROAD" => RoadOpen(roads, turn.setup.settlement)

\* A set with at most one more member.
LEMMA OneMore ==
  ASSUME NEW S, IsFiniteSet(S), NEW x, NEW T, T \subseteq S \cup {x}
  PROVE  Cardinality(T) \in Nat /\ Cardinality(S) \in Nat /\ Cardinality(T) <= Cardinality(S) + 1
<1>1. PICK U : U = S \cup {x}
  OBVIOUS
<1>2. IsFiniteSet(U) /\ Cardinality(U) = (IF x \in S THEN Cardinality(S) ELSE Cardinality(S) + 1)
  BY <1>1, FS_AddElement
<1>3. IsFiniteSet(T) /\ Cardinality(T) <= Cardinality(U)
  BY <1>1, <1>2, FS_Subset
<1>4. Cardinality(S) \in Nat /\ Cardinality(T) \in Nat /\ Cardinality(U) \in Nat
  BY <1>2, <1>3, FS_CardinalityType
<1>5. QED
  BY <1>2, <1>3, <1>4

\* A set with no more members.
LEMMA NoMore ==
  ASSUME NEW S, IsFiniteSet(S), NEW T, T \subseteq S
  PROVE  Cardinality(T) \in Nat /\ Cardinality(S) \in Nat /\ Cardinality(T) <= Cardinality(S)
  BY FS_Subset, FS_CardinalityType

\* The numbers of turns.
LEMMA HadFacts ==
  ASSUME NEW s \in Setups
  PROVE  /\ \A i \in 1..N : Had(s, i) \in 0..2
         /\ TurnsHad(s) \in Nat /\ TurnsHad(s) < 2 * N
         /\ PlaceOf(s) \in 1..N /\ Had(s, PlaceOf(s)) = s.round - 1 /\ Had(s, PlaceOf(s)) < 2
<1>1. N \in Nat /\ N > 1 /\ s.round \in {1, 2} /\ s.index \in 0..(N - 1)
  BY SeatFacts DEF Setups, N
<1>2. QED
  BY <1>1 DEF Had, TurnsHad, PlaceOf

\* A turn that ends is one more.
LEMMA HadMore ==
  ASSUME NEW s \in Setups, NEW t,
         \/ t.round = s.round /\ t.index = s.index + 1 /\ s.index < N - 1
         \/ t.round = 2 /\ t.index = 0 /\ s.round = 1 /\ s.index = N - 1
  PROVE  /\ TurnsHad(t) = TurnsHad(s) + 1
         /\ \A i \in 1..N : Had(s, i) + (IF i = PlaceOf(s) THEN 1 ELSE 0) <= Had(t, i)
<1>1. N \in Nat /\ N > 1 /\ s.round \in {1, 2} /\ s.index \in 0..(N - 1)
  BY SeatFacts DEF Setups, N
<1>2. TurnsHad(t) = TurnsHad(s) + 1
  BY <1>1 DEF TurnsHad
<1>3. ASSUME NEW i \in 1..N PROVE Had(s, i) + (IF i = PlaceOf(s) THEN 1 ELSE 0) <= Had(t, i)
  <2>1. CASE s.round = 1 /\ t.round = 1
    BY <1>1, <2>1 DEF Had, PlaceOf
  <2>2. CASE s.round = 1 /\ t.round = 2
    BY <1>1, <2>2 DEF Had, PlaceOf
  <2>3. CASE s.round = 2 /\ t.round = 2
    BY <1>1, <2>3 DEF Had, PlaceOf
  <2>4. QED
    BY <1>1, <2>1, <2>2, <2>3
<1>4. QED
  BY <1>2, <1>3

\* A settlement is one more on the board and for its player.
LEMMA SiteCounts ==
  ASSUME NEW o, NEW b, BuildingsType(b), NEW r, NEW s \in Setups, NEW c \in Players, SetupCount(o, b, r, s, 0, c),
         NEW v \in Vertices, b[v] = Unbuilt, NEW t, t.round = s.round, t.index = s.index, \A i \in 1..N : o[i] \in Players
  PROVE  SetupCount(o, [b EXCEPT ![v] = Building(c, "SETTLEMENT")], r, t, 1, c)
<1>1. PICK n : n = [b EXCEPT ![v] = Building(c, "SETTLEMENT")]
  OBVIOUS
<1>2. \A u \in Vertices : n[u] = IF u = v THEN Building(c, "SETTLEMENT") ELSE b[u]
  BY <1>1, OnVertex
<1>3. TurnsHad(t) = TurnsHad(s) /\ TurnsHad(s) \in Nat
  BY HadFacts DEF TurnsHad
<1>4. Cardinality(Built(n)) <= TurnsHad(t) + 1
  <2>1. PICK S, T : S = Built(b) /\ T = Built(n)
    OBVIOUS
  <2>2. S \subseteq Vertices /\ T \subseteq S \cup {v}
    BY <1>2, <2>1 DEF Built
  <2>3. Cardinality(T) \in Nat /\ Cardinality(S) \in Nat /\ Cardinality(T) <= Cardinality(S) + 1
    BY <2>2, SizeFacts, OneMore
  <2>4. Cardinality(S) <= TurnsHad(s) + 0
    BY <2>1 DEF SetupCount
  <2>5. QED
    BY <1>3, <2>1, <2>3, <2>4
<1>5. ASSUME NEW i \in 1..N
      PROVE  Cardinality(Settlements(n, o[i])) <= Had(t, i) + (IF o[i] = c THEN 1 ELSE 0)
  <2>1. PICK q : q = o[i]
    OBVIOUS
  <2>2. PICK S, T : S = Settlements(b, q) /\ T = Settlements(n, q)
    OBVIOUS
  <2>3. S \subseteq Vertices /\ IsFiniteSet(S)
    <3>1. S \subseteq Vertices
      BY <2>2 DEF Settlements
    <3>2. QED
      BY <3>1, SizeFacts
  <2>4. Cardinality(S) <= Had(s, i) + (IF q = c THEN 0 ELSE 0)
    BY <2>1, <2>2 DEF SetupCount
  <2>5. Had(t, i) = Had(s, i) /\ Had(s, i) \in 0..2
    BY HadFacts DEF Had
  <2>6. CASE q = c
    <3>1. T \subseteq S \cup {v}
      BY <1>2, <2>2 DEF Settlements
    <3>2. Cardinality(T) \in Nat /\ Cardinality(S) \in Nat /\ Cardinality(T) <= Cardinality(S) + 1
      BY <2>3, <3>1, OneMore
    <3>3. QED
      BY <2>1, <2>2, <2>4, <2>5, <2>6, <3>2
  <2>7. CASE q # c
    <3>1. Building(c, "SETTLEMENT") # Building(q, "SETTLEMENT")
      BY <2>7, BuildingFacts
    <3>2. T \subseteq S
      BY <1>2, <2>2, <3>1 DEF Settlements
    <3>3. Cardinality(T) \in Nat /\ Cardinality(S) \in Nat /\ Cardinality(T) <= Cardinality(S)
      BY <2>3, <3>2, NoMore
    <3>4. QED
      BY <2>1, <2>2, <2>4, <2>5, <2>7, <3>3
  <2>8. QED
    BY <2>6, <2>7
<1>6. ASSUME NEW i \in 1..N PROVE Cardinality(Roads(r, o[i])) <= Had(t, i)
  BY DEF SetupCount, Had
<1>7. SetupCount(o, n, r, t, 1, c)
  BY <1>4, <1>5, <1>6 DEF SetupCount
<1>8. QED
  BY <1>1, <1>7

\* A road ends the turn.
LEMMA RoadCounts ==
  ASSUME NEW o, NEW b, NEW r, RoadsType(r), NEW s \in Setups, NEW c \in Players, SetupCount(o, b, r, s, 1, c),
         c = o[PlaceOf(s)], \A i, j \in 1..N : o[i] = o[j] => i = j,
         NEW e \in Edges, NEW t, NEW d,
         \/ t.round = s.round /\ t.index = s.index + 1 /\ s.index < N - 1
         \/ t.round = 2 /\ t.index = 0 /\ s.round = 1 /\ s.index = N - 1
  PROVE  SetupCount(o, b, [r EXCEPT ![e] = c], t, 0, d)
<1>1. PICK n : n = [r EXCEPT ![e] = c]
  OBVIOUS
<1>2. \A f \in Edges : n[f] = IF f = e THEN c ELSE r[f]
  BY <1>1 DEF RoadsType
<1>3. TurnsHad(t) = TurnsHad(s) + 1 /\ TurnsHad(s) \in Nat
  BY HadFacts, HadMore
<1>4. Cardinality(Built(b)) <= TurnsHad(t) + 0
  BY <1>3 DEF SetupCount
<1>5. ASSUME NEW i \in 1..N
      PROVE  /\ Cardinality(Roads(n, o[i])) <= Had(t, i)
             /\ Cardinality(Settlements(b, o[i])) <= Had(t, i) + (IF o[i] = d THEN 0 ELSE 0)
  <2>1. PICK q : q = o[i]
    OBVIOUS
  <2>2. Had(s, i) \in 0..2 /\ Had(s, i) + (IF i = PlaceOf(s) THEN 1 ELSE 0) <= Had(t, i) /\ PlaceOf(s) \in 1..N
    BY HadFacts, HadMore
  <2>3. Had(t, i) \in Nat
    BY DEF Had
  <2>4. q = c <=> i = PlaceOf(s)
    BY <2>1, <2>2
  <2>5. PICK S, T, B : S = Roads(r, q) /\ T = Roads(n, q) /\ B = Settlements(b, q)
    OBVIOUS
  <2>6. Cardinality(S) <= Had(s, i) /\ Cardinality(B) <= Had(s, i) + (IF q = c THEN 1 ELSE 0)
    BY <2>1, <2>5 DEF SetupCount
  <2>7. S \subseteq Edges /\ IsFiniteSet(S)
    <3>1. S \subseteq Edges
      BY <2>5 DEF Roads
    <3>2. QED
      BY <3>1, EdgesFinite
  <2>8. Cardinality(B) \in Nat
    <3>1. B \subseteq Vertices
      BY <2>5 DEF Settlements
    <3>2. QED
      BY <3>1, SizeFacts
  <2>9. CASE q = c
    <3>1. T \subseteq S \cup {e}
      BY <1>2, <2>5 DEF Roads
    <3>2. Cardinality(T) \in Nat /\ Cardinality(S) \in Nat /\ Cardinality(T) <= Cardinality(S) + 1
      BY <2>7, <3>1, OneMore
    <3>3. QED
      BY <2>1, <2>2, <2>3, <2>4, <2>5, <2>6, <2>8, <2>9, <3>2
  <2>10. CASE q # c
    <3>1. T \subseteq S
      BY <1>2, <2>5, <2>10 DEF Roads
    <3>2. Cardinality(T) \in Nat /\ Cardinality(S) \in Nat /\ Cardinality(T) <= Cardinality(S)
      BY <2>7, <3>1, NoMore
    <3>3. QED
      BY <2>1, <2>2, <2>3, <2>4, <2>5, <2>6, <2>8, <2>10, <3>2
  <2>11. QED
    BY <2>9, <2>10
<1>6. SetupCount(o, b, n, t, 0, d)
  BY <1>4, <1>5 DEF SetupCount
<1>7. QED
  BY <1>1, <1>6

\* Two vertices of a road are its ends.
LEMMA Ends ==
  ASSUME NEW e \in Edges, NEW u \in e, NEW v \in e, u # v
  PROVE  {u, v} \in Edges
<1>1. IsFiniteSet(e) /\ Cardinality(e) = 2
  BY BoardAssumption, SizeFacts, FS_Subset DEF BoardAssumption
<1>2. IsFiniteSet({u}) /\ Cardinality({u}) = 1
  BY FS_Singleton
<1>3. Cardinality({u} \cup {v}) = 2
  <2>1. v \notin {u}
    OBVIOUS
  <2>2. Cardinality({u} \cup {v}) = Cardinality({u}) + 1
    BY <1>2, <2>1, FS_AddElement
  <2>3. QED
    BY <1>2, <2>2
<1>4. {u} \cup {v} = {u, v} /\ {u, v} \subseteq e
  OBVIOUS
<1>5. {u, v} = e
  BY <1>1, <1>3, <1>4, FS_Subset
<1>6. QED
  BY <1>5

\* The first turn of the setup has nothing behind it.
LEMMA SetupRoomInit ==
  ASSUME Init
  PROVE  SetupRoom
<1>1. TurnInvariant /\ Setup
  BY TurnInit DEF Init, Setup
<1>2. turn.setup = [round |-> 1, index |-> 0, settlement |-> None] /\ turn.phase = "SETUP_SETTLEMENT"
  BY DEF Init
<1>3. PICK s : s = turn.setup
  OBVIOUS
<1>4. TurnsHad(s) = 0 /\ \A i \in 1..N : Had(s, i) = 0
  BY <1>2, <1>3 DEF TurnsHad, Had
<1>5. (\A v \in Vertices : buildings[v] = Unbuilt) /\ (\A e \in Edges : roads[e] = None)
  BY DEF Init
<1>6. \A q \in Players : Roads(roads, q) = {} /\ Settlements(buildings, q) = {}
  BY <1>5, BuildingFacts, SeatFacts DEF Roads, Settlements
<1>7. Built(buildings) = {}
  BY <1>5 DEF Built
<1>8. \A i \in 1..N : order[i] \in Players
  BY <1>1 DEF TurnInvariant, OrderFits
<1>9. PICK c : c = turn.current
  OBVIOUS
<1>10. Cardinality({}) = 0
  BY FS_EmptySet
<1>11. SetupCount(order, buildings, roads, s, 0, c)
  <2>1. ASSUME NEW i \in 1..N
        PROVE  /\ Cardinality(Roads(roads, order[i])) <= Had(s, i)
               /\ Cardinality(Settlements(buildings, order[i])) <= Had(s, i) + (IF order[i] = c THEN 0 ELSE 0)
    <3>1. PICK q, z : q = order[i] /\ z = (IF order[i] = c THEN 0 ELSE 0)
      OBVIOUS
    <3>2. Roads(roads, q) = {} /\ Settlements(buildings, q) = {} /\ Had(s, i) = 0 /\ z = 0
      BY <1>4, <1>6, <1>8, <3>1
    <3>3. QED
      BY <1>10, <3>1, <3>2
  <2>2. Cardinality(Built(buildings)) <= TurnsHad(s) + 0
    BY <1>4, <1>7, <1>10
  <2>3. QED
    BY <2>1, <2>2 DEF SetupCount
<1>12. RoadsStart(buildings, roads)
  BY <1>5 DEF RoadsStart
<1>13. QED
  BY <1>2, <1>3, <1>9, <1>11, <1>12 DEF SetupRoom

\* A settlement stands on a free vertex, where no road ends.
LEMMA SettlementRoom ==
  ASSUME TurnInvariant, ScoreFits, SetupRoom, NEW p, NEW v \in SetupSites, PlaceInitialSettlement(p, v)
  PROVE  SetupRoom'
<1>1. /\ turn.phase = "SETUP_SETTLEMENT" /\ p = turn.current /\ Free(buildings, v)
      /\ turn' = [turn EXCEPT !.phase = "SETUP_ROAD", !.setup.settlement = v]
      /\ buildings' = [buildings EXCEPT ![v] = Building(p, "SETTLEMENT")] /\ roads' = roads /\ order' = order
  BY DEF PlaceInitialSettlement, AcceptsInitialSettlement, InTurn, Current, ValidInitialSettlement
<1>2. turn \in TurnType /\ turn.setup \in Setups /\ Setup /\ p \in Players
  BY <1>1 DEF TurnInvariant, TurnFits, Setup, TurnType
<1>3. v \in Vertices
  BY SitesOnBoard
<1>4. PICK s, t : s = turn.setup /\ t = [turn.setup EXCEPT !.settlement = v]
  OBVIOUS
<1>5. t.settlement = v /\ t.round = s.round /\ t.index = s.index /\ s \in Setups
  BY <1>2, <1>4 DEF Setups
<1>6. turn'.phase = "SETUP_ROAD" /\ turn'.setup = t /\ turn'.current = p
  BY <1>1, <1>2, <1>4 DEF TurnType
<1>7. PICK b, r, o, n : b = buildings /\ r = roads /\ o = order /\ n = [b EXCEPT ![v] = Building(p, "SETTLEMENT")]
  OBVIOUS
<1>8. SetupCount(o, b, r, s, 0, p) /\ RoadsStart(b, r)
  BY <1>1, <1>2, <1>4, <1>7 DEF SetupRoom
<1>9. BuildingsType(b) /\ b[v] = Unbuilt /\ \A u \in Adjacent(v) : b[u] = Unbuilt
  BY <1>1, <1>7 DEF ScoreFits, Free
<1>10. \A i \in 1..N : o[i] \in Players
  BY <1>7 DEF TurnInvariant, OrderFits
<1>11. SetupCount(o, n, r, t, 1, p)
  BY <1>2, <1>3, <1>5, <1>7, <1>8, <1>9, <1>10, SiteCounts
<1>12. \A u \in Vertices : n[u] = IF u = v THEN Building(p, "SETTLEMENT") ELSE b[u]
  BY <1>3, <1>7, <1>9, OnVertex
<1>13. \A e \in Edges : e \subseteq Vertices
  BY BoardAssumption DEF BoardAssumption
<1>14. RoadsStart(n, r)
  <2>1. SUFFICES ASSUME NEW e \in Edges, r[e] # None PROVE \E x \in e : n[x] # Unbuilt
    BY DEF RoadsStart
  <2>2. PICK x \in e : b[x] # Unbuilt
    BY <1>8, <2>1 DEF RoadsStart
  <2>3. n[x] # Unbuilt
    BY <1>2, <1>12, <1>13, <2>2, BuildingFacts
  <2>4. QED
    BY <2>3
<1>15. RoadOpen(r, v)
  <2>1. SUFFICES ASSUME NEW e \in EdgesAt(v), r[e] # None PROVE FALSE
    BY DEF RoadOpen
  <2>2. e \in Edges /\ v \in e
    BY DEF EdgesAt
  <2>3. PICK x \in e : b[x] # Unbuilt
    BY <1>8, <2>1, <2>2 DEF RoadsStart
  <2>4. x # v /\ x \in Vertices
    BY <1>9, <1>13, <2>2, <2>3
  <2>5. {x, v} \in Edges
    BY <2>2, <2>3, <2>4, Ends
  <2>6. x \in Adjacent(v)
    BY <2>4, <2>5 DEF Adjacent
  <2>7. QED
    BY <1>9, <2>3, <2>6
<1>16. SetupCount(order', buildings', roads', turn'.setup, IF turn'.phase = "SETUP_ROAD" THEN 1 ELSE 0, turn'.current)
  BY <1>1, <1>6, <1>7, <1>11
<1>17. RoadsStart(buildings', roads') /\ RoadOpen(roads', turn'.setup.settlement)
  BY <1>1, <1>5, <1>6, <1>7, <1>14, <1>15
<1>18. QED
  BY <1>16, <1>17 DEF SetupRoom, SetupCount, Had, TurnsHad, RoadsStart, RoadOpen, Built

\* A road starts at the settlement, and ends the turn.
LEMMA RoadRoom ==
  ASSUME TurnInvariant, TurnInvariant', BoardFits, SetupFits, SetupRoom, NEW p, NEW e \in Edges, PlaceInitialRoad(p, e)
  PROVE  SetupRoom'
<1>1. /\ turn.phase = "SETUP_ROAD" /\ p = turn.current /\ turn.setup.settlement \in e
      /\ turn' = NextSetupTurn /\ roads' = [roads EXCEPT ![e] = p] /\ buildings' = buildings /\ order' = order
  BY DEF PlaceInitialRoad, AcceptsInitialRoad, InTurn, Current, ValidInitialRoad
<1>2. turn \in TurnType /\ turn.setup \in Setups /\ Setup /\ p \in Players
  BY <1>1 DEF TurnInvariant, TurnFits, Setup, TurnType
<1>3. PICK s, v : s = turn.setup /\ v = turn.setup.settlement
  OBVIOUS
<1>4. PICK b, r, o, n : b = buildings /\ r = roads /\ o = order /\ n = [r EXCEPT ![e] = p]
  OBVIOUS
<1>5. SetupCount(o, b, r, s, 1, p) /\ RoadsStart(b, r) /\ RoadsType(r)
  BY <1>1, <1>2, <1>3, <1>4 DEF SetupRoom, BoardFits
<1>6. b[v] # Unbuilt /\ v \in e
  BY <1>1, <1>2, <1>3, <1>4, BuildingFacts DEF SetupFits, SetupPlace
<1>7. RoadsStart(b, n)
  BY <1>4, <1>5, <1>6 DEF RoadsStart, RoadsType
<1>8. p = o[PlaceOf(s)] /\ \A i, j \in 1..N : o[i] = o[j] => i = j
  BY <1>1, <1>2, <1>3, <1>4 DEF TurnInvariant, TurnFits, OrderFits, ExpectedSetupPlayer, PlaceOf
<1>9. ASSUME NEW t, NEW d, turn' = [turn EXCEPT !.phase = "SETUP_SETTLEMENT", !.setup = t, !.current = d],
             \/ t.round = s.round /\ t.index = s.index + 1 /\ s.index < N - 1
             \/ t.round = 2 /\ t.index = 0 /\ s.round = 1 /\ s.index = N - 1
      PROVE  SetupRoom'
  <2>1. turn'.phase = "SETUP_SETTLEMENT" /\ turn'.setup = t /\ turn'.current = d
    BY <1>2, <1>9 DEF TurnType
  <2>2. SetupCount(o, b, n, t, 0, d)
    <3>1. s \in Setups /\ p \in Players
      BY <1>2, <1>3
    <3>2. SetupCount(o, b, [r EXCEPT ![e] = p], t, 0, d)
      BY <1>5, <1>8, <1>9, <3>1, RoadCounts
    <3>3. QED
      BY <1>4, <3>2
  <2>3. SetupCount(order', buildings', roads', turn'.setup, IF turn'.phase = "SETUP_ROAD" THEN 1 ELSE 0, turn'.current)
    BY <1>1, <1>4, <2>1, <2>2
  <2>4. RoadsStart(buildings', roads') /\ turn'.phase # "SETUP_ROAD"
    BY <1>1, <1>4, <1>7, <2>1
  <2>5. QED
    BY <2>3, <2>4 DEF SetupRoom, SetupCount, Had, TurnsHad, RoadsStart, Built
<1>10. s.round \in {1, 2} /\ s.index \in 0..(N - 1) /\ N \in Nat /\ N > 1
  BY <1>2, <1>3, SeatFacts DEF Setups, N
<1>11. CASE s.index < N - 1
  <2>1. PICK t, d : t = [round |-> s.round, index |-> s.index + 1, settlement |-> None] /\ d = ExpectedSetupPlayer(s.round, s.index + 1)
    OBVIOUS
  <2>2. turn' = [turn EXCEPT !.phase = "SETUP_SETTLEMENT", !.setup = t, !.current = d]
    BY <1>1, <1>2, <1>3, <1>11, <2>1, SetupSuccessor
  <2>3. t.round = s.round /\ t.index = s.index + 1
    BY <2>1
  <2>4. QED
    BY <1>9, <1>11, <2>2, <2>3
<1>12. CASE ~(s.index < N - 1) /\ s.round = 1
  <2>1. PICK t, d : t = [round |-> 2, index |-> 0, settlement |-> None] /\ d = ExpectedSetupPlayer(2, 0)
    OBVIOUS
  <2>2. turn' = [turn EXCEPT !.phase = "SETUP_SETTLEMENT", !.setup = t, !.current = d]
    BY <1>1, <1>2, <1>3, <1>12, <2>1, SetupSuccessor
  <2>3. t.round = 2 /\ t.index = 0 /\ s.index = N - 1
    BY <1>10, <1>12, <2>1
  <2>4. QED
    BY <1>9, <1>12, <2>2, <2>3
<1>13. CASE ~(s.index < N - 1) /\ s.round # 1
  <2>1. turn'.phase = "ROLL_REQUIRED"
    BY <1>1, <1>2, <1>3, <1>13, SetupSuccessor
  <2>2. QED
    BY <2>1 DEF SetupRoom, Setup
<1>14. QED
  BY <1>11, <1>12, <1>13

\* The setup has room after every command.
LEMMA SetupRoomStep ==
  ASSUME TurnInvariant, TurnInvariant', ScoreFits, BoardFits, SetupFits, SetupRoom, [Next]_vars
  PROVE  SetupRoom'
<1>1. CASE UNCHANGED vars
  BY <1>1 DEF vars, SetupRoom, Setup, SetupCount, Had, TurnsHad, RoadsStart, RoadOpen, Built
<1>2. CASE Stopped
  BY <1>1, <1>2 DEF Stopped
<1>3. ASSUME NEW p \in Players, PlayerStep(p) PROVE SetupRoom'
  <2>1. CASE \E v \in SetupSites : PlaceInitialSettlement(p, v)
    BY <2>1, SettlementRoom
  <2>2. CASE \E e \in Edges : PlaceInitialRoad(p, e)
    BY <2>2, RoadRoom
  <2>3. CASE PlaysOn(p)
    <3>1. turn'.setup = None
      BY <2>3, SetupIsOver
    <3>2. QED
      BY <3>1 DEF SetupRoom, TurnInvariant, TurnFits, Setup
  <2>4. QED
    BY <1>3, <2>1, <2>2, <2>3, PlayerSteps
<1>4. QED
  BY <1>1, <1>2, <1>3 DEF Next

-----------------------------------------------------------------------------
(* The effects of cards.                                                   *)

\* Two roads were granted where one can be placed, and an invention is open
\* where the bank has its cards.
EffectCanEnd ==
  /\ pending.type = "PLACE_FREE_ROADS" /\ pending.remaining = 2 =>
       LegalFreeRoads(buildings, roads, turn.current) # {}
  /\ pending.type = "CHOOSE_INVENTION_RESOURCES" => Count(bank) >= InventionCount

\* Other decisions have no effect to end.
LEMMA NothingToEnd ==
  ASSUME pending'.type \notin {"PLACE_FREE_ROADS", "CHOOSE_INVENTION_RESOURCES"}
  PROVE  EffectCanEnd'
  BY DEF EffectCanEnd

\* A card is played only where its effect can be had.
LEMMA PlayCanEnd ==
  ASSUME TurnInvariant, NEW p, NEW c, PlayCard(p, c)
  PROVE  EffectCanEnd'
<1>1. turn \in TurnType /\ p = turn.current /\ buildings' = buildings /\ roads' = roads /\ bank' = bank
  BY InTurnFacts DEF PlayCard, AcceptsPlayCard, board
<1>2. turn'.current = p
  <2>1. (\E phase : turn' = [turn EXCEPT !.cardPlayed = TRUE, !.phase = phase]) \/ turn' = [turn EXCEPT !.cardPlayed = TRUE]
    BY DEF PlayCard
  <2>2. QED
    BY <1>1, <2>1 DEF TurnType
<1>3. PICK n : n = pending'
  OBVIOUS
<1>4. \/ n = [type |-> "MOVE_ROBBER", actor |-> p, cause |-> c.card]
      \/ CardType[c.card] = "ROAD_BUILDING" /\ \E k : n = [type |-> "PLACE_FREE_ROADS", actor |-> p, card |-> c.card, remaining |-> k]
      \/ CardType[c.card] = "INVENTION" /\ n = [type |-> "CHOOSE_INVENTION_RESOURCES", actor |-> p, card |-> c.card]
      \/ n = [type |-> "CHOOSE_MONOPOLY_RESOURCE", actor |-> p, card |-> c.card]
  BY <1>3 DEF PlayCard
<1>5. CASE n.type \notin {"PLACE_FREE_ROADS", "CHOOSE_INVENTION_RESOURCES"}
  BY <1>3, <1>5, NothingToEnd
<1>6. CASE CardType[c.card] = "ROAD_BUILDING" /\ n.type = "PLACE_FREE_ROADS"
  <2>1. FreeRoadCount(buildings, roads, p) > 0
    BY <1>6 DEF PlayCard, AcceptsPlayCard
  <2>2. LegalFreeRoads(buildings, roads, p) # {}
    BY <2>1 DEF FreeRoadCount
  <2>3. QED
    BY <1>1, <1>2, <1>3, <1>6, <2>2 DEF EffectCanEnd
<1>7. CASE CardType[c.card] = "INVENTION" /\ n.type = "CHOOSE_INVENTION_RESOURCES"
  <2>1. Count(bank) >= InventionCount
    BY <1>7 DEF PlayCard, AcceptsPlayCard
  <2>2. QED
    BY <1>1, <1>3, <1>7, <2>1 DEF EffectCanEnd
<1>8. QED
  BY <1>4, <1>5, <1>6, <1>7

\* The effect that is open can still be had when somebody has played on.
LEMMA PlaysOnCanEnd ==
  ASSUME TurnInvariant, NEW p \in Players, PlaysOn(p)
  PROVE  EffectCanEnd'
<1>1. ASSUME pending' = NoDecision PROVE EffectCanEnd'
  <2>1. pending'.type = None /\ None \notin DecisionTypes
    BY <1>1, SeatFacts DEF NoDecision
  <2>2. QED
    BY <2>1, NothingToEnd DEF DecisionTypes
<1>2. ASSUME Closes PROVE EffectCanEnd'
  BY <1>1, <1>2 DEF Closes, Settled
<1>3. CASE \/ \E e \in Edges : BuildRoad(p, e)
           \/ \E q \in Players, x \in Resources : StealFrom(p, q, x)
           \/ \E v \in Vertices : BuildSettlement(p, v) \/ UpgradeCity(p, v)
           \/ BuyCard(p) \/ FinishFreeRoads(p)
           \/ \E bag \in Inventions : ChooseInvention(p, bag)
           \/ \E x \in Resources : ChooseMonopoly(p, x)
           \/ AcceptTrade(p) \/ RejectTrade(p)
           \/ \E give \in Resources, get \in Transferable : MaritimeTrade(p, give, get)
           \/ EndTurn(p)
  BY <1>2, <1>3, SettlingCloses
<1>4. CASE \E e \in Edges : PlaceFreeRoad(p, e)
  <2>1. PICK e \in Edges : PlaceFreeRoad(p, e)
    BY <1>4
  <2>2. CASE pending' = [pending EXCEPT !.remaining = 1] /\ UNCHANGED <<turn, cards, winner>>
    <3>1. pending = [type |-> "PLACE_FREE_ROADS", actor |-> turn.current, card |-> pending.card,
                     remaining |-> pending.remaining]
      BY <2>1 DEF PlaceFreeRoad, AcceptsFreeRoad, DecidesCard, Decides, TurnInvariant, DecisionFits, CardFits
    <3>2. pending'.type = "PLACE_FREE_ROADS" /\ pending'.remaining = 1
      BY <2>2, <3>1
    <3>3. QED
      BY <3>2 DEF EffectCanEnd
  <2>3. CASE ~(pending' = [pending EXCEPT !.remaining = 1] /\ UNCHANGED <<turn, cards, winner>>)
    BY <1>2, <2>1, <2>3, FreeRoadCloses
  <2>4. QED
    BY <2>2, <2>3
<1>5. CASE \E total \in Dice : RollDice(p, total)
  <2>1. PICK total : RollDice(p, total)
    BY <1>5
  <2>2. pending = NoDecision
    BY <2>1 DEF RollDice, AcceptsRoll, InTurn
  <2>3. CASE pending' = pending
    BY <1>1, <2>2, <2>3
  <2>4. CASE pending'.type \in {"DISCARD_RESOURCES", "MOVE_ROBBER"}
    BY <2>4, NothingToEnd
  <2>5. QED
    BY <2>1, <2>3, <2>4 DEF RollDice
<1>6. CASE \E bag \in Discards(p) : DiscardResources(p, bag)
  <2>1. PICK bag : DiscardResources(p, bag)
    BY <1>6
  <2>2. pending = [type |-> "DISCARD_RESOURCES", trigger |-> turn.current,
                   required |-> pending.required, completed |-> pending.completed]
    BY <2>1 DEF DiscardResources, AcceptsDiscard, Decides, TurnInvariant, DecisionFits, DiscardFits
  <2>3. pending'.type \in {"DISCARD_RESOURCES", "MOVE_ROBBER"}
    <3>1. CASE pending' = [pending EXCEPT !.completed = @ \cup {p}]
      BY <2>2, <3>1
    <3>2. CASE pending' = [type |-> "MOVE_ROBBER", actor |-> pending.trigger, cause |-> None]
      BY <3>2
    <3>3. QED
      BY <2>1, <3>1, <3>2 DEF DiscardResources
  <2>4. QED
    BY <2>3, NothingToEnd
<1>7. CASE \E t \in Tiles : MoveRobber(p, t)
  <2>1. PICK t \in Tiles : MoveRobber(p, t)
    BY <1>7
  <2>2. CASE RobberTargets(buildings, hand, t, p) = {}
    BY <1>2, <2>1, <2>2, RobberCloses
  <2>3. CASE RobberTargets(buildings, hand, t, p) # {}
    <3>1. pending'.type = "CHOOSE_ROBBER_TARGET"
      BY <2>1, <2>3 DEF MoveRobber
    <3>2. QED
      BY <3>1, NothingToEnd
  <2>4. QED
    BY <2>2, <2>3
<1>8. CASE \E c \in cards[p] : PlayCard(p, c)
  BY <1>8, PlayCanEnd
<1>9. CASE \/ \E q \in Players, t \in Terms : ProposeTrade(p, q, t.gives, t.gets)
           \/ \E t \in Terms : CounterTrade(p, t.gives, t.gets)
  <2>1. \E i, q, a, gives, gets, k : pending' = Offer(i, q, a, gives, gets, k)
    BY <1>9 DEF ProposeTrade, CounterTrade
  <2>2. pending'.type = "RESPOND_TO_TRADE"
    BY <2>1 DEF Offer
  <2>3. QED
    BY <2>2, NothingToEnd
<1>10. QED
  BY <1>3, <1>4, <1>5, <1>6, <1>7, <1>8, <1>9 DEF PlaysOn

\* The effect that is open can still be had, after every command.
LEMMA CanEndStep ==
  ASSUME TurnInvariant, EffectCanEnd, [Next]_vars
  PROVE  EffectCanEnd'
<1>1. CASE UNCHANGED vars
  BY <1>1 DEF vars, EffectCanEnd
<1>2. CASE Stopped
  BY <1>1, <1>2 DEF Stopped
<1>3. ASSUME NEW p \in Players, PlayerStep(p) PROVE EffectCanEnd'
  <2>1. CASE (\E v \in SetupSites : PlaceInitialSettlement(p, v)) \/ (\E e \in Edges : PlaceInitialRoad(p, e))
    <3>1. pending' = NoDecision
      BY <2>1 DEF PlaceInitialSettlement, AcceptsInitialSettlement, PlaceInitialRoad, AcceptsInitialRoad, InTurn
    <3>2. pending'.type = None /\ None \notin DecisionTypes
      BY <3>1, SeatFacts DEF NoDecision
    <3>3. QED
      BY <3>2, NothingToEnd DEF DecisionTypes
  <2>2. CASE PlaysOn(p)
    BY <2>2, PlaysOnCanEnd
  <2>3. QED
    BY <1>3, <2>1, <2>2, PlayerSteps
<1>4. QED
  BY <1>1, <1>2, <1>3 DEF Next

\* A new game has no effect open.
LEMMA CanEndInit ==
  ASSUME Init
  PROVE  EffectCanEnd
<1>1. pending.type = None /\ None \notin DecisionTypes
  BY SeatFacts DEF Init, NoDecision
<1>2. QED
  BY <1>1 DEF EffectCanEnd, DecisionTypes

\* Free roads are placed only while a card grants them.
FreeRoadsAsked == turn.phase = "FREE_ROAD_PLACEMENT" => pending.type = "PLACE_FREE_ROADS"

\* A command that settles what was open leaves no free roads to place.
LEMMA ClosedAsked ==
  ASSUME Closes
  PROVE  FreeRoadsAsked'
<1>1. PICK tn : GoesOn(tn) /\ Settled(tn)
  BY DEF Closes
<1>2. tn.phase # "FREE_ROAD_PLACEMENT" /\ tn \in TurnType
  BY <1>1 DEF GoesOn
<1>3. turn'.phase # "FREE_ROAD_PLACEMENT"
  BY <1>1, <1>2 DEF Settled, TurnType
<1>4. QED
  BY <1>3 DEF FreeRoadsAsked

\* Nor does a command that opens or answers another decision.
LEMMA PlaysOnAsked ==
  ASSUME TurnInvariant, FreeRoadsAsked, NEW p \in Players, PlaysOn(p)
  PROVE  FreeRoadsAsked'
<1>0. turn \in TurnType
  BY DEF TurnInvariant, TurnFits
<1>1. turn'.phase # "FREE_ROAD_PLACEMENT" => FreeRoadsAsked'
  BY DEF FreeRoadsAsked
<1>2. CASE \/ \E e \in Edges : BuildRoad(p, e)
           \/ \E q \in Players, x \in Resources : StealFrom(p, q, x)
           \/ \E v \in Vertices : BuildSettlement(p, v) \/ UpgradeCity(p, v)
           \/ BuyCard(p) \/ FinishFreeRoads(p)
           \/ \E bag \in Inventions : ChooseInvention(p, bag)
           \/ \E x \in Resources : ChooseMonopoly(p, x)
           \/ AcceptTrade(p) \/ RejectTrade(p)
           \/ \E give \in Resources, get \in Transferable : MaritimeTrade(p, give, get)
           \/ EndTurn(p)
  BY <1>2, SettlingCloses, ClosedAsked
<1>3. CASE \E e \in Edges : PlaceFreeRoad(p, e)
  <2>1. PICK e \in Edges : PlaceFreeRoad(p, e)
    BY <1>3
  <2>2. CASE pending' = [pending EXCEPT !.remaining = 1] /\ UNCHANGED <<turn, cards, winner>>
    <3>1. pending = [type |-> "PLACE_FREE_ROADS", actor |-> turn.current, card |-> pending.card,
                     remaining |-> pending.remaining]
      BY <2>1 DEF PlaceFreeRoad, AcceptsFreeRoad, DecidesCard, Decides, TurnInvariant, DecisionFits, CardFits
    <3>2. pending'.type = "PLACE_FREE_ROADS"
      BY <2>2, <3>1
    <3>3. QED
      BY <3>2 DEF FreeRoadsAsked
  <2>3. CASE ~(pending' = [pending EXCEPT !.remaining = 1] /\ UNCHANGED <<turn, cards, winner>>)
    BY <2>1, <2>3, FreeRoadCloses, ClosedAsked
  <2>4. QED
    BY <2>2, <2>3
<1>4. CASE \E total \in Dice : RollDice(p, total)
  <2>1. PICK total : RollDice(p, total)
    BY <1>4
  <2> DEFINE Rolled(phase) == [turn EXCEPT !.phase = phase, !.setup = None, !.lastRoll = total]
  <2>2. \/ turn' = Rolled("DISCARD_REQUIRED")
        \/ turn' = Rolled("ROBBER_MOVE_REQUIRED")
        \/ turn' = Rolled("ACTION")
    BY <2>1 DEF RollDice
  <2>3. turn'.phase # "FREE_ROAD_PLACEMENT"
    BY <1>0, <2>2 DEF TurnType
  <2>4. QED
    BY <1>1, <2>3
<1>5. CASE \E bag \in Discards(p) : DiscardResources(p, bag)
  <2>1. PICK bag : DiscardResources(p, bag)
    BY <1>5
  <2>2. turn.phase = "DISCARD_REQUIRED"
    BY <2>1 DEF DiscardResources, AcceptsDiscard, Decides
  <2>3. turn' = turn \/ turn' = [turn EXCEPT !.phase = "ROBBER_MOVE_REQUIRED"]
    BY <2>1 DEF DiscardResources
  <2>4. turn'.phase \in {"DISCARD_REQUIRED", "ROBBER_MOVE_REQUIRED"}
    BY <1>0, <2>2, <2>3 DEF TurnType
  <2>5. QED
    BY <1>1, <2>4
<1>6. CASE \E t \in Tiles : MoveRobber(p, t)
  <2>1. PICK t \in Tiles : MoveRobber(p, t)
    BY <1>6
  <2>2. CASE RobberTargets(buildings, hand, t, p) = {}
    BY <2>1, <2>2, RobberCloses, ClosedAsked
  <2>3. CASE RobberTargets(buildings, hand, t, p) # {}
    <3>1. turn' = [turn EXCEPT !.phase = "ROBBER_TARGET_REQUIRED"]
      BY <2>1, <2>3 DEF MoveRobber
    <3>2. turn'.phase = "ROBBER_TARGET_REQUIRED"
      BY <1>0, <3>1 DEF TurnType
    <3>3. QED
      BY <1>1, <3>2
  <2>4. QED
    BY <2>2, <2>3
<1>7. CASE \E c \in cards[p] : PlayCard(p, c)
  <2>1. PICK c : PlayCard(p, c)
    BY <1>7
  <2>2. turn.phase \in {"ROLL_REQUIRED", "ACTION"}
    BY <2>1 DEF PlayCard, AcceptsPlayCard, InTurn
  <2>3. \/ turn' = [turn EXCEPT !.cardPlayed = TRUE]
        \/ turn' = [turn EXCEPT !.cardPlayed = TRUE, !.phase = "ROBBER_MOVE_REQUIRED"]
        \/ pending'.type = "PLACE_FREE_ROADS"
    BY <2>1 DEF PlayCard
  <2>4. CASE turn' = [turn EXCEPT !.cardPlayed = TRUE] \/ turn' = [turn EXCEPT !.cardPlayed = TRUE, !.phase = "ROBBER_MOVE_REQUIRED"]
    <3>1. turn'.phase \in {"ROLL_REQUIRED", "ACTION", "ROBBER_MOVE_REQUIRED"}
      BY <1>0, <2>2, <2>4 DEF TurnType
    <3>2. QED
      BY <1>1, <3>1
  <2>5. CASE pending'.type = "PLACE_FREE_ROADS"
    BY <2>5 DEF FreeRoadsAsked
  <2>6. QED
    BY <2>3, <2>4, <2>5
<1>8. CASE \/ \E q \in Players, t \in Terms : ProposeTrade(p, q, t.gives, t.gets)
           \/ \E t \in Terms : CounterTrade(p, t.gives, t.gets)
  <2>1. turn' = turn /\ turn.phase = "ACTION"
    BY <1>8 DEF ProposeTrade, AcceptsProposal, InTurn, CounterTrade, AcceptsCounter, Responds,
                TurnInvariant, DecisionFits, TradeFits
  <2>2. QED
    BY <1>1, <2>1
<1>9. QED
  BY <1>2, <1>3, <1>4, <1>5, <1>6, <1>7, <1>8 DEF PlaysOn

\* Free roads are placed only while a card grants them, after every command.
LEMMA AskedStep ==
  ASSUME TurnInvariant, FreeRoadsAsked, [Next]_vars
  PROVE  FreeRoadsAsked'
<1>1. CASE UNCHANGED vars
  BY <1>1 DEF vars, FreeRoadsAsked
<1>2. CASE Stopped
  BY <1>1, <1>2 DEF Stopped
<1>3. ASSUME NEW p \in Players, PlayerStep(p) PROVE FreeRoadsAsked'
  <2>0. turn \in TurnType
    BY DEF TurnInvariant, TurnFits
  <2>1. CASE \E v \in SetupSites : PlaceInitialSettlement(p, v)
    <3>1. PICK v : turn' = [turn EXCEPT !.phase = "SETUP_ROAD", !.setup.settlement = v]
      BY <2>1 DEF PlaceInitialSettlement
    <3>2. turn'.phase = "SETUP_ROAD"
      BY <2>0, <3>1 DEF TurnType
    <3>3. QED
      BY <3>2 DEF FreeRoadsAsked
  <2>2. CASE \E e \in Edges : PlaceInitialRoad(p, e)
    <3>1. turn' = NextSetupTurn /\ Setup
      BY <2>2 DEF PlaceInitialRoad, AcceptsInitialRoad, InTurn, Setup
    <3>2. NextSetupTurn.phase # "FREE_ROAD_PLACEMENT"
      <4>1. \/ \E c, s : NextSetupTurn = [turn EXCEPT !.phase = "SETUP_SETTLEMENT", !.current = c, !.setup = s]
            \/ NextSetupTurn = [number |-> 1, current |-> order[1], phase |-> "ROLL_REQUIRED",
                                setup |-> None, lastRoll |-> None, cardPlayed |-> FALSE]
        BY DEF NextSetupTurn
      <4>2. ASSUME NEW c, NEW s, NEW tn, tn = [turn EXCEPT !.phase = "SETUP_SETTLEMENT", !.current = c, !.setup = s]
            PROVE  tn.phase = "SETUP_SETTLEMENT"
        BY <2>0, <4>2 DEF TurnType
      <4>3. CASE \E c, s : NextSetupTurn = [turn EXCEPT !.phase = "SETUP_SETTLEMENT", !.current = c, !.setup = s]
        <5>1. PICK c, s : NextSetupTurn = [turn EXCEPT !.phase = "SETUP_SETTLEMENT", !.current = c, !.setup = s]
          BY <4>3
        <5>2. NextSetupTurn.phase = "SETUP_SETTLEMENT"
          BY <4>2, <5>1
        <5>3. QED
          BY <5>2
      <4>4. CASE NextSetupTurn = [number |-> 1, current |-> order[1], phase |-> "ROLL_REQUIRED",
                                   setup |-> None, lastRoll |-> None, cardPlayed |-> FALSE]
        BY <4>4
      <4>5. QED
        BY <4>1, <4>3, <4>4
    <3>3. QED
      BY <3>1, <3>2 DEF FreeRoadsAsked
  <2>3. CASE PlaysOn(p)
    BY <2>3, PlaysOnAsked
  <2>4. QED
    BY <1>3, <2>1, <2>2, <2>3, PlayerSteps
<1>4. QED
  BY <1>1, <1>2, <1>3 DEF Next

\* All of b but z is nothing or everything of the bag.
Whole(bag, b, z) == \A x \in Resources : x = z \/ b[x] \in {0, bag[x]}

\* A bag has parts of every size, and at most one resource of it in part.
LEMMA GreedyPart ==
  ASSUME NEW bag \in Bags, NEW n \in Nat, n <= Count(bag)
  PROVE  \E b \in [Resources -> 0..n] : Covers(bag, b) /\ Count(b) = n /\ \E z : Whole(bag, b, z)
<1>1. IsFiniteSet(Resources)
  BY BoardAssumption DEF BoardAssumption
<1> DEFINE G == {m \in Nat : m <= Count(bag) => \E b \in Bags : Covers(bag, b) /\ Count(b) = m /\ \E z : Whole(bag, b, z)}
<1>2. 0 \in G
  <2>1. Empty \in Bags /\ Covers(bag, Empty) /\ \A x \in Resources : Empty[x] = 0
    BY DEF Empty, Bags, Covers
  <2>2. Count(Empty) = 0
    BY <1>1, <2>1, CountType, SumNothing
  <2>3. Whole(bag, Empty, 0)
    BY <2>1 DEF Whole
  <2>4. QED
    BY <2>1, <2>2, <2>3
<1>3. ASSUME NEW m \in Nat, m \in G PROVE m + 1 \in G
  <2>1. SUFFICES ASSUME m + 1 <= Count(bag)
                 PROVE  \E b \in Bags : Covers(bag, b) /\ Count(b) = m + 1 /\ \E z : Whole(bag, b, z)
    OBVIOUS
  <2>2. Count(bag) \in Nat
    BY CountType
  <2>3. PICK b \in Bags : Covers(bag, b) /\ Count(b) = m /\ \E z : Whole(bag, b, z)
    BY <1>3, <2>1, <2>2
  <2>4. PICK z : Whole(bag, b, z)
    BY <2>3
  <2>5. \A x \in Resources : b[x] \in Nat /\ bag[x] \in Nat /\ b[x] <= bag[x]
    BY <2>3 DEF Bags, Covers
  <2>6. PICK x \in Resources : b[x] < bag[x] /\ (x = z \/ z \notin Resources \/ b[z] = bag[z])
    <3>1. \E x \in Resources : b[x] < bag[x]
      <4>1. SUFFICES ASSUME \A x \in Resources : ~(b[x] < bag[x]) PROVE FALSE
        OBVIOUS
      <4>2. \A x \in Resources : b[x] \in Int /\ b[x] = bag[x]
        BY <2>5, <4>1
      <4>3. Count(b) = Count(bag)
        BY <1>1, <4>2, CountType, SumSame
      <4>4. QED
        BY <2>1, <2>2, <2>3, <4>3
    <3>2. QED
      BY <2>5, <3>1
  <2>7. PICK more : more = [b EXCEPT ![x] = @ + 1]
    OBVIOUS
  <2>8. more \in Bags /\ more[x] = b[x] + 1 /\ \A y \in Resources \ {x} : more[y] = b[y]
    BY <2>7 DEF Bags
  <2>9. Covers(bag, more)
    BY <2>5, <2>6, <2>8 DEF Covers
  <2>10. Count(more) = m + 1
    <3>1. (\A y \in Resources : b[y] \in Int) /\ more[x] \in Int
      BY <2>8 DEF Bags
    <3>2. SumFunctionOnSet(more, Resources) = SumFunctionOnSet(b, Resources) - b[x] + more[x]
      BY <1>1, <2>8, <3>1, SumChanges
    <3>3. Count(more) = Count(b) - b[x] + (b[x] + 1)
      BY <2>8, <3>2, CountType
    <3>4. QED
      BY <2>3, <3>1, <3>3
  <2>11. Whole(bag, more, x)
    BY <2>4, <2>6, <2>8 DEF Whole
  <2>12. QED
    BY <2>8, <2>9, <2>10, <2>11
<1>4. n \in G
  <2> HIDE DEF G
  <2>1. Nat \subseteq G
    BY <1>2, <1>3, SetOfNumbers
  <2>2. QED
    BY <2>1
<1>5. PICK b \in Bags : Covers(bag, b) /\ Count(b) = n /\ \E z : Whole(bag, b, z)
  BY <1>4
<1>6. \A x \in Resources : b[x] \in Nat
  BY DEF Bags
<1>7. \A x \in Resources : b[x] <= n
  <2>1. \A x \in Resources : b[x] <= SumFunctionOnSet(b, Resources)
    BY <1>1, <1>6, SumCovers
  <2>2. QED
    BY <1>5, <2>1, CountType
<1>8. b \in [Resources -> 0..n]
  BY <1>6, <1>7 DEF Bags
<1>9. QED
  BY <1>5, <1>8

-----------------------------------------------------------------------------
(* What the agents choose from.                                            *)

\* The first alternative there is.
LEMMA FirstOfFacts ==
  ASSUME NEW n \in Nat, NEW alternatives, DOMAIN alternatives = 1..n
  PROVE  /\ FirstOf(alternatives) # {} => \E i \in 1..n : FirstOf(alternatives) = alternatives[i]
         /\ (\E i \in 1..n : alternatives[i] # {}) => FirstOf(alternatives) # {}
<1>1. PICK some : some = {i \in 1..n : alternatives[i] # {}}
  OBVIOUS
<1>2. FirstOf(alternatives) = IF some = {} THEN {} ELSE alternatives[Min(some)]
  BY <1>1 DEF FirstOf
<1>3. ASSUME some # {} PROVE Min(some) \in some
  <2>1. some \subseteq Nat
    BY <1>1
  <2>2. \E m \in some : \A k \in some : m <= k
    BY <1>3, <2>1, LeastNumber
  <2>3. QED
    BY <2>2, Zenon DEF Min
<1>4. QED
  BY <1>1, <1>2, <1>3

\* The commands a view permits are those with a target in it.
LEMMA PermitsTargets ==
  ASSUME NEW legal
  PROVE  /\ legal.initialSettlements # {} => "PLACE_INITIAL_SETTLEMENT" \in Permitted(legal)
         /\ legal.initialRoads # {} => "PLACE_INITIAL_ROAD" \in Permitted(legal)
         /\ legal.tiles # {} => "MOVE_ROBBER" \in Permitted(legal)
         /\ legal.targets # {} => "STEAL_FROM_PLAYER" \in Permitted(legal)
         /\ legal.roads # {} => "BUILD_ROAD" \in Permitted(legal)
         /\ legal.settlements # {} => "BUILD_SETTLEMENT" \in Permitted(legal)
         /\ legal.cities # {} => "UPGRADE_CITY" \in Permitted(legal)
         /\ legal.playable # {} => "PLAY_DEVELOPMENT_CARD" \in Permitted(legal)
         /\ legal.maritime # {} => "MARITIME_TRADE" \in Permitted(legal)
         /\ legal.inventions # {} => "CHOOSE_INVENTION_RESOURCES" \in Permitted(legal)
         /\ legal.monopolies # {} => "CHOOSE_MONOPOLY_RESOURCE" \in Permitted(legal)
<1>1. PICK any : any =
             [PLACE_INITIAL_SETTLEMENT |-> legal.initialSettlements, PLACE_INITIAL_ROAD |-> legal.initialRoads,
              MOVE_ROBBER |-> legal.tiles, STEAL_FROM_PLAYER |-> legal.targets,
              BUILD_ROAD |-> legal.roads, BUILD_SETTLEMENT |-> legal.settlements, UPGRADE_CITY |-> legal.cities,
              PLAY_DEVELOPMENT_CARD |-> legal.playable, MARITIME_TRADE |-> legal.maritime,
              CHOOSE_INVENTION_RESOURCES |-> legal.inventions, CHOOSE_MONOPOLY_RESOURCE |-> legal.monopolies]
  OBVIOUS
<1>2. {type \in DOMAIN any : any[type] # {}} \subseteq Permitted(legal)
  BY <1>1 DEF Permitted
<1>3. QED
  BY <1>1, <1>2

\* And those that may be sent as they are.
LEMMA PermitsFlags ==
  ASSUME NEW legal
  PROVE  /\ legal.canRoll => "ROLL_DICE" \in Permitted(legal)
         /\ legal.discard # None => "DISCARD_RESOURCES" \in Permitted(legal)
         /\ legal.canBuy => "BUY_DEVELOPMENT_CARD" \in Permitted(legal)
         /\ legal.canFinishFreeRoads => "FINISH_FREE_ROAD_PLACEMENT" \in Permitted(legal)
         /\ legal.canPropose => "PROPOSE_TRADE" \in Permitted(legal)
         /\ legal.response.canAccept => "ACCEPT_TRADE" \in Permitted(legal)
         /\ legal.response.canReject => "REJECT_TRADE" \in Permitted(legal)
         /\ legal.response.canCounter => "COUNTER_TRADE" \in Permitted(legal)
         /\ legal.canEndTurn => "END_TURN" \in Permitted(legal)
<1>1. PICK can : can =
             [ROLL_DICE |-> legal.canRoll, DISCARD_RESOURCES |-> legal.discard # None,
              BUY_DEVELOPMENT_CARD |-> legal.canBuy, FINISH_FREE_ROAD_PLACEMENT |-> legal.canFinishFreeRoads,
              PROPOSE_TRADE |-> legal.canPropose, ACCEPT_TRADE |-> legal.response.canAccept,
              REJECT_TRADE |-> legal.response.canReject, COUNTER_TRADE |-> legal.response.canCounter,
              END_TURN |-> legal.canEndTurn]
  OBVIOUS
<1>2. {type \in DOMAIN can : can[type]} \subseteq Permitted(legal)
  BY <1>1 DEF Permitted
<1>3. QED
  BY <1>1, <1>2

\* The parts of a view that an agent reads.
LEMMA ViewParts ==
  ASSUME NEW v, NEW view, view = View(v, Hidden)
  PROVE  /\ view.legal = LegalActions(v, Hidden) /\ view.permitted = Permitted(LegalActions(v, Hidden))
         /\ view.self.resources = hand[v] /\ view.pending = PendingView(v, Hidden)
<1>1. Hidden.hand = hand
  BY DEF Hidden
<1>2. QED
  BY <1>1 DEF View

\* The engine accepts these commands, and the page would let a Human send them.
Fine(v, legal, choices) == \A c \in choices : Accepts(v, c) /\ c.type \in Permitted(legal)

\* Choices with targets out of the view's.
LEMMA FineTargets ==
  ASSUME TurnInvariant, CardsFit, AllFit, NEW v \in Players, NEW legal, legal = LegalActions(v, Hidden)
  PROVE  /\ Fine(v, legal, Each("PLACE_INITIAL_SETTLEMENT", legal.initialSettlements))
         /\ Fine(v, legal, Each("PLACE_INITIAL_ROAD", legal.initialRoads))
         /\ Fine(v, legal, RobberMoves(legal)) /\ Fine(v, legal, Steals(legal))
         /\ Fine(v, legal, Each("BUILD_ROAD", legal.roads))
         /\ Fine(v, legal, Each("BUILD_SETTLEMENT", legal.settlements))
         /\ Fine(v, legal, Each("UPGRADE_CITY", legal.cities))
         /\ Fine(v, legal, BestCards(legal)) /\ Fine(v, legal, MaritimeTrades(legal))
         /\ Fine(v, legal, InventionChoices(legal)) /\ Fine(v, legal, MonopolyChoices(legal))
<1>1. AsksFit /\ ResourcesFit /\ BoardFits
  BY DEF AllFit
<1>2. ASSUME NEW type, NEW targets, NEW some \in SUBSET targets, targets # {} => type \in Permitted(legal),
             \A x \in targets : Accepts(v, Command(type, x))
      PROVE  Fine(v, legal, Each(type, some))
  <2>1. SUFFICES ASSUME NEW c \in Each(type, some) PROVE Accepts(v, c) /\ c.type \in Permitted(legal)
    BY DEF Fine
  <2>2. PICK x \in some : c = Command(type, x)
    BY DEF Each
  <2>3. c.type = type
    BY <2>2 DEF Command
  <2>4. QED
    BY <1>2, <2>2, <2>3
<1>3. Fine(v, legal, Each("PLACE_INITIAL_SETTLEMENT", legal.initialSettlements))
  <2>1. ASSUME NEW x \in legal.initialSettlements PROVE Accepts(v, Command("PLACE_INITIAL_SETTLEMENT", x))
    BY <1>1, ViewBuilds DEF Accepts, Command
  <2>2. QED
    BY <1>2, <2>1, PermitsTargets
<1>4. Fine(v, legal, Each("PLACE_INITIAL_ROAD", legal.initialRoads))
  <2>1. ASSUME NEW x \in legal.initialRoads PROVE Accepts(v, Command("PLACE_INITIAL_ROAD", x))
    BY <1>1, ViewBuilds DEF Accepts, Command
  <2>2. QED
    BY <1>2, <2>1, PermitsTargets
<1>5. Fine(v, legal, RobberMoves(legal))
  <2>1. ASSUME NEW x \in legal.tiles PROVE Accepts(v, Command("MOVE_ROBBER", x))
    BY <1>1, ViewRobber DEF Accepts, Command
  <2>2. QED
    BY <1>2, <2>1, PermitsTargets DEF RobberMoves
<1>6. Fine(v, legal, Steals(legal))
  <2>1. ASSUME NEW x \in legal.targets PROVE Accepts(v, Command("STEAL_FROM_PLAYER", x))
    BY <1>1, ViewRobber DEF Accepts, Command
  <2>2. QED
    BY <1>2, <2>1, PermitsTargets DEF Steals
<1>7. Fine(v, legal, Each("BUILD_ROAD", legal.roads))
  <2>1. ASSUME NEW x \in legal.roads PROVE Accepts(v, Command("BUILD_ROAD", x))
    BY <1>1, ViewBuilds DEF Accepts, Command
  <2>2. QED
    BY <1>2, <2>1, PermitsTargets
<1>8. Fine(v, legal, Each("BUILD_SETTLEMENT", legal.settlements))
  <2>1. ASSUME NEW x \in legal.settlements PROVE Accepts(v, Command("BUILD_SETTLEMENT", x))
    BY <1>1, ViewBuilds DEF Accepts, Command
  <2>2. QED
    BY <1>2, <2>1, PermitsTargets
<1>9. Fine(v, legal, Each("UPGRADE_CITY", legal.cities))
  <2>1. ASSUME NEW x \in legal.cities PROVE Accepts(v, Command("UPGRADE_CITY", x))
    BY <1>1, ViewBuilds DEF Accepts, Command
  <2>2. QED
    BY <1>2, <2>1, PermitsTargets
<1>10. Fine(v, legal, BestCards(legal))
  <2>1. ASSUME NEW x \in legal.playable PROVE Accepts(v, Command("PLAY_DEVELOPMENT_CARD", x))
    BY <1>1, ViewCards DEF Accepts, Command
  <2>2. PICK some : some = {c \in legal.playable : \A d \in legal.playable :
                              CardPriority[CardType[c.card]] >= CardPriority[CardType[d.card]]}
    OBVIOUS
  <2>3. BestCards(legal) = Each("PLAY_DEVELOPMENT_CARD", some)
    BY <2>2 DEF BestCards
  <2>4. some \subseteq legal.playable
    BY <2>2
  <2>5. QED
    BY <1>2, <2>1, <2>3, <2>4, PermitsTargets
<1>11. Fine(v, legal, MaritimeTrades(legal))
  <2>1. ASSUME NEW x \in legal.maritime PROVE Accepts(v, Command("MARITIME_TRADE", x))
    BY <1>1, ViewBuilds DEF Accepts, Command
  <2>2. QED
    BY <1>2, <2>1, PermitsTargets DEF MaritimeTrades
<1>12. Fine(v, legal, InventionChoices(legal))
  <2>1. ASSUME NEW x \in legal.inventions PROVE Accepts(v, Command("CHOOSE_INVENTION_RESOURCES", x))
    BY <1>1, ViewInventions DEF Accepts, Command
  <2>2. QED
    BY <1>2, <2>1, PermitsTargets DEF InventionChoices
<1>13. Fine(v, legal, MonopolyChoices(legal))
  <2>1. ASSUME NEW x \in legal.monopolies PROVE Accepts(v, Command("CHOOSE_MONOPOLY_RESOURCE", x))
    BY <1>1, ViewRobber DEF Accepts, Command
  <2>2. QED
    BY <1>2, <2>1, PermitsTargets DEF MonopolyChoices
<1>14. QED
  BY <1>3, <1>4, <1>5, <1>6, <1>7, <1>8, <1>9, <1>10, <1>11, <1>12, <1>13

\* Commands that need no target.
LEMMA FineFlags ==
  ASSUME TurnInvariant, CardsFit, AllFit, NEW v \in Players, NEW legal, legal = LegalActions(v, Hidden)
  PROVE  /\ legal.canRoll => Fine(v, legal, Only("ROLL_DICE"))
         /\ legal.canEndTurn => Fine(v, legal, Only("END_TURN"))
         /\ legal.canBuy => Fine(v, legal, Only("BUY_DEVELOPMENT_CARD"))
         /\ legal.canFinishFreeRoads => Fine(v, legal, Only("FINISH_FREE_ROAD_PLACEMENT"))
         /\ legal.response.canAccept => Fine(v, legal, Only("ACCEPT_TRADE"))
         /\ legal.response.canReject => Fine(v, legal, Only("REJECT_TRADE"))
<1>1. ResourcesFit
  BY DEF AllFit
<1>2. ASSUME NEW type, type \in Permitted(legal), Accepts(v, Command(type, None))
      PROVE  Fine(v, legal, Only(type))
  <2>1. Only(type) = {Command(type, None)} /\ Command(type, None).type = type
    BY DEF Only, Each, Command
  <2>2. QED
    BY <1>2, <2>1 DEF Fine
<1>3. legal.canRoll => Fine(v, legal, Only("ROLL_DICE"))
  <2>1. legal.canRoll => Accepts(v, Command("ROLL_DICE", None))
    BY <1>1, ViewFlags DEF Accepts, Command
  <2>2. QED
    BY <1>2, <2>1, PermitsFlags
<1>4. legal.canEndTurn => Fine(v, legal, Only("END_TURN"))
  <2>1. legal.canEndTurn => Accepts(v, Command("END_TURN", None))
    BY <1>1, ViewFlags DEF Accepts, Command
  <2>2. QED
    BY <1>2, <2>1, PermitsFlags
<1>5. legal.canBuy => Fine(v, legal, Only("BUY_DEVELOPMENT_CARD"))
  <2>1. legal.canBuy => Accepts(v, Command("BUY_DEVELOPMENT_CARD", None))
    BY <1>1, ViewFlags DEF Accepts, Command
  <2>2. QED
    BY <1>2, <2>1, PermitsFlags
<1>6. legal.canFinishFreeRoads => Fine(v, legal, Only("FINISH_FREE_ROAD_PLACEMENT"))
  <2>1. legal.canFinishFreeRoads => Accepts(v, Command("FINISH_FREE_ROAD_PLACEMENT", None))
    BY <1>1, ViewFlags DEF Accepts, Command
  <2>2. QED
    BY <1>2, <2>1, PermitsFlags
<1>7. legal.response.canAccept => Fine(v, legal, Only("ACCEPT_TRADE"))
  <2>1. legal.response.canAccept => Accepts(v, Command("ACCEPT_TRADE", None))
    BY <1>1, ViewFlags DEF Accepts, Command
  <2>2. QED
    BY <1>2, <2>1, PermitsFlags
<1>8. legal.response.canReject => Fine(v, legal, Only("REJECT_TRADE"))
  <2>1. legal.response.canReject => Accepts(v, Command("REJECT_TRADE", None))
    BY <1>1, ViewFlags DEF Accepts, Command
  <2>2. QED
    BY <1>2, <2>1, PermitsFlags
<1>9. QED
  BY <1>3, <1>4, <1>5, <1>6, <1>7, <1>8

\* The first of several choices the engine accepts is one it accepts.
LEMMA FineFirst ==
  ASSUME NEW v, NEW legal, NEW n \in Nat, NEW alternatives, DOMAIN alternatives = 1..n,
         \A i \in 1..n : Fine(v, legal, alternatives[i])
  PROVE  Fine(v, legal, FirstOf(alternatives))
<1>1. CASE FirstOf(alternatives) = {}
  BY <1>1 DEF Fine
<1>2. CASE FirstOf(alternatives) # {}
  <2>1. PICK i \in 1..n : FirstOf(alternatives) = alternatives[i]
    BY <1>2, FirstOfFacts
  <2>2. QED
    BY <2>1
<1>3. QED
  BY <1>1, <1>2

\* No choices, and choices of either kind.
LEMMA FineUnion ==
  ASSUME NEW v, NEW legal
  PROVE  /\ Fine(v, legal, {})
         /\ \A C, D : Fine(v, legal, C) /\ Fine(v, legal, D) => Fine(v, legal, C \cup D)
  BY DEF Fine

\* Before the dice: a card or the dice.
LEMMA RollFine ==
  ASSUME TurnInvariant, CardsFit, AllFit, NEW v \in Players, NEW legal, legal = LegalActions(v, Hidden), legal.canRoll
  PROVE  LET choices == FirstOf(<<BestCards(legal), Only("ROLL_DICE")>>)
         IN  choices # {} /\ Fine(v, legal, choices)
<1>1. PICK best, roll : best = BestCards(legal) /\ roll = Only("ROLL_DICE")
  OBVIOUS
<1>2. PICK alternatives : alternatives = <<best, roll>>
  OBVIOUS
<1>3. DOMAIN alternatives = 1..2 /\ alternatives[1] = best /\ alternatives[2] = roll
  BY <1>2
<1>4. Fine(v, legal, best) /\ Fine(v, legal, roll)
  BY <1>1, FineTargets, FineFlags
<1>5. \A i \in 1..2 : Fine(v, legal, alternatives[i])
  <2>1. \A i \in 1..2 : i = 1 \/ i = 2
    OBVIOUS
  <2>2. QED
    BY <1>3, <1>4, <2>1
<1>6. roll # {}
  BY <1>1 DEF Only, Each
<1>7. FirstOf(alternatives) # {}
  <2>1. alternatives[2] # {} /\ 2 \in 1..2 /\ 2 \in Nat
    BY <1>3, <1>6
  <2>2. QED
    BY <1>3, <2>1, FirstOfFacts
<1>8. Fine(v, legal, FirstOf(alternatives))
  <2>1. 2 \in Nat
    OBVIOUS
  <2>2. QED
    BY <1>3, <1>5, <2>1, FineFirst
<1>9. QED
  BY <1>1, <1>2, <1>7, <1>8

\* After the dice: build, trade or end the turn.
LEMMA ActionFine ==
  ASSUME TurnInvariant, CardsFit, AllFit, NEW v \in Players, NEW legal, legal = LegalActions(v, Hidden), legal.canEndTurn
  PROVE  ActionChoices(v, legal) # {} /\ Fine(v, legal, ActionChoices(v, legal))
<1>1. PICK best, cities, first, settlements, paths, buy :
        /\ best = BestCards(legal) /\ cities = Each("UPGRADE_CITY", legal.cities)
        /\ first = (IF Cardinality(Settlements(buildings, v)) >= ManySettlements \/ legal.settlements = {}
                    THEN Each("UPGRADE_CITY", legal.cities) ELSE {})
        /\ settlements = Each("BUILD_SETTLEMENT", legal.settlements) /\ paths = Each("BUILD_ROAD", legal.roads)
        /\ buy = (IF legal.canBuy THEN Only("BUY_DEVELOPMENT_CARD") ELSE {})
  OBVIOUS
<1>2. PICK alternatives : alternatives = <<best, first, settlements, cities, paths, buy>>
  OBVIOUS
<1>3. Fine(v, legal, best) /\ Fine(v, legal, cities) /\ Fine(v, legal, settlements) /\ Fine(v, legal, paths)
  BY <1>1, FineTargets
<1>4. Fine(v, legal, first) /\ Fine(v, legal, buy)
  BY <1>1, FineTargets, FineFlags, FineUnion
<1>5. PICK builds : builds = FirstOf(alternatives)
  OBVIOUS
<1>6. Fine(v, legal, builds)
  <2>1. DOMAIN alternatives = 1..6
    BY <1>2
  <2>2. /\ alternatives[1] = best /\ alternatives[2] = first /\ alternatives[3] = settlements
        /\ alternatives[4] = cities /\ alternatives[5] = paths /\ alternatives[6] = buy
    BY <1>2
  <2>3. \A i \in 1..6 : i \in {1, 2, 3, 4, 5, 6}
    OBVIOUS
  <2>4. \A i \in 1..6 : Fine(v, legal, alternatives[i])
    BY <1>3, <1>4, <2>2, <2>3
  <2>5. QED
    BY <1>5, <2>1, <2>4, FineFirst
<1>7. ActionChoices(v, legal) = IF builds # {} THEN builds ELSE MaritimeTrades(legal) \cup Only("END_TURN")
  <2>1. builds = FirstOf(<<best, first, settlements, cities, paths, buy>>)
    BY <1>2, <1>5
  <2>2. QED
    BY <1>1, <2>1, Zenon DEF ActionChoices
<1>8. Fine(v, legal, MaritimeTrades(legal) \cup Only("END_TURN"))
  BY FineTargets, FineFlags, FineUnion
<1>9. Only("END_TURN") # {}
  BY DEF Only, Each
<1>10. QED
  BY <1>6, <1>7, <1>8, <1>9

\* Whoever owes a discard can give up resource after resource.
LEMMA DiscardFine ==
  ASSUME TurnInvariant, CardsFit, AllFit, NEW v \in Players, NEW legal, legal = LegalActions(v, Hidden),
         pending.type = "DISCARD_RESOURCES", v \in Owing
  PROVE  LET choices == Each("DISCARD_RESOURCES", GreedyDiscards(hand[v], pending.required[v]))
         IN  choices # {} /\ Fine(v, legal, choices)
<1>1. AsksFit /\ ResourcesFit
  BY DEF AllFit
<1>2. PICK n, held, some : n = pending.required[v] /\ held = hand[v] /\ some = GreedyDiscards(held, n)
  OBVIOUS
<1>3. held \in Bags
  BY <1>1, <1>2 DEF ResourcesFit, Balanced
<1>4. n = Count(held) \div 2 /\ Count(held) \in Nat
  BY <1>1, <1>2, <1>3, CountType DEF AsksFit, Halves
<1>5. n \in Nat /\ n <= Count(held)
  BY <1>4
<1>6. winner = None /\ turn.phase = "DISCARD_REQUIRED"
  BY <1>1, OpenDecision, SeatFacts DEF AsksFit, PhaseAsks, DecisionTypes
<1>7. some # {}
  <2>1. PICK b \in [Resources -> 0..n] : Covers(held, b) /\ Count(b) = n /\ \E z : Whole(held, b, z)
    BY <1>3, <1>5, GreedyPart
  <2>2. PICK z : Whole(held, b, z)
    BY <2>1
  <2>3. PICK partly : partly = {x \in Resources : b[x] \notin {0, held[x]}}
    OBVIOUS
  <2>4. partly \subseteq {z}
    BY <2>2, <2>3 DEF Whole
  <2>5. IsFiniteSet({z}) /\ Cardinality({z}) = 1
    BY FS_Singleton
  <2>6. Cardinality(partly) <= 1
    BY <2>4, <2>5, FS_Subset
  <2>7. b \in GreedyDiscards(held, n)
    BY <2>1, <2>3, <2>6 DEF GreedyDiscards
  <2>8. QED
    BY <1>2, <2>7
<1>8. ASSUME NEW b \in some PROVE Accepts(v, Command("DISCARD_RESOURCES", b))
  <2>1. Covers(held, b) /\ Count(b) = n
    BY <1>2, <1>8 DEF GreedyDiscards
  <2>2. AcceptsDiscard(v, b)
    BY <1>2, <1>6, <2>1 DEF AcceptsDiscard, Decides
  <2>3. QED
    BY <2>2 DEF Accepts, Command
<1>9. "DISCARD_RESOURCES" \in Permitted(legal)
  <2>1. legal.discard = n
    BY <1>2, LegalAnswers
  <2>2. n # None
    BY <1>5, SeatFacts
  <2>3. QED
    BY <2>1, <2>2, PermitsFlags
<1>10. PICK choices : choices = Each("DISCARD_RESOURCES", some)
  OBVIOUS
<1>11. Fine(v, legal, choices)
  BY <1>8, <1>9, <1>10 DEF Fine, Each, Command
<1>12. choices # {}
  BY <1>7, <1>10 DEF Each
<1>13. QED
  BY <1>2, <1>10, <1>11, <1>12

\* An offer may be rejected, accepted where there are the cards for it, and
\* answered by asking for one more.
LEMMA TradeFine ==
  ASSUME TurnInvariant, CardsFit, AllFit, NEW v \in Players, NEW legal, legal = LegalActions(v, Hidden),
         legal.response.canReject
  PROVE  TradeResponses(v, pending, hand[v]) # {} /\ Fine(v, legal, TradeResponses(v, pending, hand[v]))
<1>1. ResourcesFit
  BY DEF AllFit
<1>2. pending.type = "RESPOND_TO_TRADE" /\ Responder(pending) = v /\ winner = None
  <2>1. AcceptsReject(v)
    BY <1>1, ViewFlags
  <2>2. QED
    BY <2>1 DEF AcceptsReject, Responds
<1>3. PICK d, held : d = pending /\ held = hand[v]
  OBVIOUS
<1>4. d.gives \in Bags /\ d.gets \in Bags /\ ValidBundles(d.gives, d.gets) /\ held \in Bags
  BY <1>1, <1>2, <1>3 DEF ResourcesFit, OfferFits, Balanced
<1>5. PICK outgoing : outgoing = (IF v = d.initiator THEN d.gives ELSE d.gets)
  OBVIOUS
<1>6. Only("REJECT_TRADE") # {} /\ Fine(v, legal, Only("REJECT_TRADE"))
  BY FineFlags DEF Only, Each
<1>7. TradeResponses(v, d, held) = IF ~Covers(held, outgoing) THEN Only("REJECT_TRADE")
                                   ELSE (Only("REJECT_TRADE") \cup Only("ACCEPT_TRADE")) \cup CounterOffers(d)
  BY <1>5 DEF TradeResponses
<1>8. ASSUME Covers(held, outgoing)
      PROVE  Fine(v, legal, Only("ACCEPT_TRADE")) /\ Fine(v, legal, CounterOffers(d))
  <2>1. TradeResponse(v, Hidden) = legal.response
    BY LegalFlags
  <2>2. Hidden.pending = d /\ Hidden.hand[v] = held
    BY <1>3 DEF Hidden
  <2>3. legal.response.canAccept
    <3>1. Covers(held, IF d.initiator = v THEN d.gives ELSE d.gets)
      BY <1>5, <1>8
    <3>2. d.type = "RESPOND_TO_TRADE" /\ Responder(d) = v
      BY <1>2, <1>3
    <3>3. TradeResponse(v, Hidden).canAccept
      BY <1>2, <2>2, <3>1, <3>2 DEF TradeResponse
    <3>4. QED
      BY <2>1, <3>3
  <2>4. legal.response.canCounter = (d.depth = 0 /\ Count(held) > 0)
    BY <1>2, <1>3, <2>1, <2>2 DEF TradeResponse
  <2>5. Fine(v, legal, Only("ACCEPT_TRADE"))
    BY <1>8, <2>3, FineFlags
  <2>6. CASE d.depth # 0
    BY <2>5, <2>6, FineUnion DEF CounterOffers
  <2>7. CASE d.depth = 0
    <3>1. d.initiator # v
      BY <1>2, <1>3, <2>7 DEF TurnInvariant, DecisionFits, TradeFits, Responder
    <3>2. Covers(held, d.gets)
      BY <1>5, <1>8, <3>1
    <3>3. Count(held) > 0
      <4>1. SumFunctionOnSet(d.gets, Resources) > 0 /\ \A x \in Resources : d.gets[x] \in Nat
        BY <1>4, CountType DEF ValidBundles, Bags
      <4>2. PICK x \in Resources : d.gets[x] > 0
        BY <4>1, SumCovers, BoardAssumption DEF BoardAssumption
      <4>3. \A y \in Resources : held[y] \in Nat
        BY <1>4 DEF Bags
      <4>4. held[x] > 0
        BY <3>2, <4>1, <4>2, <4>3 DEF Covers
      <4>5. held[x] <= SumFunctionOnSet(held, Resources) /\ SumFunctionOnSet(held, Resources) \in Nat
        BY <4>3, SumCovers, BoardAssumption DEF BoardAssumption
      <4>6. Count(held) = SumFunctionOnSet(held, Resources)
        BY <1>4, CountType
      <4>7. QED
        BY <4>3, <4>4, <4>5, <4>6
    <3>4. "COUNTER_TRADE" \in Permitted(legal)
      BY <2>4, <2>7, <3>3, PermitsFlags
    <3>5. ASSUME NEW x \in Resources, d.gets[x] = 0, NEW gives, gives = [d.gives EXCEPT ![x] = @ + 1]
          PROVE  AcceptsCounter(v, gives, d.gets)
      <4>1. gives \in Bags /\ gives[x] = d.gives[x] + 1 /\ \A z \in Resources \ {x} : gives[z] = d.gives[z]
        BY <1>4, <3>5 DEF Bags
      <4>2. Count(gives) = Count(d.gives) - d.gives[x] + gives[x]
        BY <1>4, <4>1, BagChanges
      <4>3. Count(d.gives) \in Nat /\ Count(d.gives) > 0 /\ d.gives[x] \in Nat
        BY <1>4, CountType DEF ValidBundles, Bags
      <4>4. Count(gives) > 0
        BY <4>1, <4>2, <4>3
      <4>5. ~\E z \in Resources : gives[z] > 0 /\ d.gets[z] > 0
        BY <1>4, <3>5, <4>1 DEF ValidBundles
      <4>6. ValidBundles(gives, d.gets)
        BY <1>4, <4>4, <4>5 DEF ValidBundles
      <4>7. QED
        BY <1>2, <1>3, <2>7, <3>2, <4>6 DEF AcceptsCounter, Responds
    <3>6. ASSUME NEW c \in CounterOffers(d)
          PROVE  Accepts(v, c) /\ c.type = "COUNTER_TRADE"
      <4>1. PICK x \in {y \in Resources : d.gets[y] = 0} :
              c = Command("COUNTER_TRADE", [gives |-> [d.gives EXCEPT ![x] = @ + 1], gets |-> d.gets])
        BY <2>7, <3>6 DEF CounterOffers, Each
      <4>2. PICK gives, target : gives = [d.gives EXCEPT ![x] = @ + 1] /\ target = [gives |-> gives, gets |-> d.gets]
        OBVIOUS
      <4>3. AcceptsCounter(v, target.gives, target.gets)
        BY <3>5, <4>2
      <4>4. c.type = "COUNTER_TRADE" /\ c.target = target
        BY <4>1, <4>2 DEF Command
      <4>5. QED
        BY <4>3, <4>4 DEF Accepts
    <3>7. QED
      BY <2>5, <3>4, <3>6 DEF Fine
  <2>8. QED
    BY <2>6, <2>7
<1>9. CASE Covers(held, outgoing)
  <2>1. PICK reject, others : reject = Only("REJECT_TRADE") /\ others = Only("ACCEPT_TRADE")
    OBVIOUS
  <2>2. Fine(v, legal, (reject \cup others) \cup CounterOffers(d))
    BY <1>6, <1>8, <1>9, <2>1, FineUnion
  <2>3. (reject \cup others) \cup CounterOffers(d) # {}
    BY <1>6, <2>1
  <2>4. QED
    BY <1>3, <1>7, <1>9, <2>1, <2>2, <2>3
<1>10. CASE ~Covers(held, outgoing)
  BY <1>3, <1>6, <1>7, <1>10
<1>11. QED
  BY <1>9, <1>10

\* A proposal gives a card its player has, for another one.
LEMMA ProposalsFine ==
  ASSUME TurnInvariant, CardsFit, AllFit, NEW v \in Players, NEW legal, legal = LegalActions(v, Hidden),
         NEW view, view = View(v, Hidden)
  PROVE  Fine(v, legal, Proposals(v, view))
<1>1. SUFFICES ASSUME NEW c \in Proposals(v, view) PROVE Accepts(v, c) /\ c.type \in Permitted(legal)
  BY DEF Fine
<1>2. view.legal = legal /\ view.self.resources = hand[v] /\ hand[v] \in Bags
  BY ViewParts DEF AllFit, ResourcesFit, Balanced
<1>3. PICK partners, offers :
        /\ partners \subseteq legal.counterparties
        /\ offers = {qxy \in partners \X Resources \X Resources : qxy[2] # qxy[3] /\ hand[v][qxy[2]] > 0}
        /\ c \in Each("PROPOSE_TRADE", {[to |-> o[1], gives |-> Single(o[2]), gets |-> Single(o[3])] : o \in offers})
  <2>1. PICK partners : partners = {q \in view.legal.counterparties : view.opponents[q].shown < LeaderPoints}
    OBVIOUS
  <2>2. partners \subseteq legal.counterparties
    BY <1>2, <2>1
  <2>3. PICK offers : offers = {qxy \in partners \X Resources \X Resources :
                                   qxy[2] # qxy[3] /\ view.self.resources[qxy[2]] > 0}
    OBVIOUS
  <2>4. c \in Each("PROPOSE_TRADE", {[to |-> o[1], gives |-> Single(o[2]), gets |-> Single(o[3])] : o \in offers})
    BY <1>1, <2>1, <2>3, Zenon DEF Proposals, Single
  <2>5. QED
    BY <1>2, <2>2, <2>3, <2>4
<1>4. PICK o \in offers : c = Command("PROPOSE_TRADE", [to |-> o[1], gives |-> Single(o[2]), gets |-> Single(o[3])])
  BY <1>3 DEF Each
<1>5. PICK q, x, y : q = o[1] /\ x = o[2] /\ y = o[3]
  OBVIOUS
<1>6. q \in legal.counterparties /\ x \in Resources /\ y \in Resources /\ x # y /\ hand[v][x] > 0
  BY <1>3, <1>4, <1>5
<1>7. InTurn(v, {"ACTION"}) /\ q # v /\ legal.canPropose = (Count(hand[v]) > 0)
  <2>1. legal.counterparties = IF InTurn(v, {"ACTION"}) THEN Players \ {v} ELSE {}
    BY DEF LegalActions, Hidden, InTurn, Current
  <2>2. legal.canPropose = (InTurn(v, {"ACTION"}) /\ Count(hand[v]) > 0)
    BY DEF LegalActions, Hidden, InTurn, Current
  <2>3. QED
    BY <1>6, <2>1, <2>2
<1>8. PICK gives, gets : gives = Single(x) /\ gets = Single(y)
  OBVIOUS
<1>9. gives \in Bags /\ gets \in Bags /\ \A z \in Resources : gives[z] = (IF z = x THEN 1 ELSE 0) /\ gets[z] = (IF z = y THEN 1 ELSE 0)
  BY <1>8 DEF Single, Bags
<1>10. ValidBundles(gives, gets)
  <2>1. Count(gives) = 1 /\ Count(gets) = 1
    BY <1>6, <1>8, <1>9, SingleIsOne, CountType
  <2>2. QED
    BY <1>6, <1>9, <2>1 DEF ValidBundles
<1>11. \A z \in Resources : hand[v][z] \in Nat
  BY <1>2 DEF Bags
<1>12. Covers(hand[v], gives)
  BY <1>6, <1>9, <1>11 DEF Covers
<1>13. Count(hand[v]) > 0
  <2>1. hand[v][x] <= SumFunctionOnSet(hand[v], Resources) /\ SumFunctionOnSet(hand[v], Resources) \in Nat
    BY <1>6, <1>11, SumCovers, BoardAssumption DEF BoardAssumption
  <2>2. Count(hand[v]) = SumFunctionOnSet(hand[v], Resources)
    BY <1>2, CountType
  <2>3. QED
    BY <1>6, <1>11, <2>1, <2>2
<1>14. AcceptsProposal(v, q, gives, gets)
  BY <1>7, <1>10, <1>12 DEF AcceptsProposal
<1>15. "PROPOSE_TRADE" \in Permitted(legal)
  BY <1>7, <1>13, PermitsFlags
<1>16. PICK target : target = [to |-> q, gives |-> gives, gets |-> gets]
  OBVIOUS
<1>17. c.type = "PROPOSE_TRADE" /\ c.target = target /\ target.to = q /\ target.gives = gives /\ target.gets = gets
  BY <1>4, <1>5, <1>8, <1>16 DEF Command
<1>18. Accepts(v, c)
  BY <1>14, <1>17 DEF Accepts
<1>19. QED
  BY <1>15, <1>17, <1>18

-----------------------------------------------------------------------------
(* Whoever is asked is answered for.                                       *)

\* No answer to the robber, to a card or to a trade is offered.
NoneOpen(legal) ==
  /\ legal.tiles = {} /\ legal.targets = {} /\ legal.inventions = {} /\ legal.monopolies = {}
  /\ ~legal.response.canReject

\* What an agent chooses from: the decision its player sees names the answer.
LEMMA DiscardKind ==
  ASSUME NEW v, NEW view, view.pending.type = "DISCARD_RESOURCES", view.legal.tiles = {}, view.legal.targets = {}
  PROVE  Mandatory(v, view) =
           Each("DISCARD_RESOURCES", GreedyDiscards(view.self.resources, view.pending.required))
  BY SeatFacts, Zenon DEF Mandatory, DecisionTypes

\* The robber's tiles are where it can go, its targets who can be stolen from.
LEMMA RobberKinds ==
  ASSUME NEW v, NEW view
  PROVE  /\ view.pending.type = "MOVE_ROBBER" /\ view.legal.tiles # {} /\ view.legal.targets = {} =>
              Mandatory(v, view) = RobberMoves(view.legal)
         /\ view.pending.type = "CHOOSE_ROBBER_TARGET" /\ view.legal.tiles = {} /\ view.legal.targets # {} =>
              Mandatory(v, view) = Steals(view.legal)
  BY SeatFacts, Zenon DEF Mandatory, DecisionTypes

\* With nothing to decide, the phase names the answer.
LEMMA PhaseKinds ==
  ASSUME NEW v, NEW view, view.pending.type = None, view.legal.tiles = {}, view.legal.targets = {}
  PROVE  /\ turn.phase = "SETUP_SETTLEMENT" =>
              Mandatory(v, view) = Each("PLACE_INITIAL_SETTLEMENT", view.legal.initialSettlements)
         /\ turn.phase = "SETUP_ROAD" => Mandatory(v, view) = Each("PLACE_INITIAL_ROAD", view.legal.initialRoads)
         /\ turn.phase = "ROLL_REQUIRED" =>
              Mandatory(v, view) = FirstOf(<<BestCards(view.legal), Only("ROLL_DICE")>>)
         /\ turn.phase = "ACTION" => Mandatory(v, view) = ActionChoices(v, view.legal)
  BY SeatFacts, Zenon DEF Mandatory, DecisionTypes

\* The roads of a card are finished with, or placed.
LEMMA RoadKinds ==
  ASSUME NEW v, NEW view, view.pending.type = "PLACE_FREE_ROADS", turn.phase = "FREE_ROAD_PLACEMENT", NoneOpen(view.legal)
  PROVE  /\ view.legal.canFinishFreeRoads => Mandatory(v, view) = Only("FINISH_FREE_ROAD_PLACEMENT")
         /\ ~view.legal.canFinishFreeRoads => Mandatory(v, view) = Each("BUILD_ROAD", view.legal.roads)
<1>1. None \notin DecisionTypes
  BY SeatFacts
<1>2. CASE view.legal.canFinishFreeRoads
  BY <1>1, <1>2, Zenon DEF Mandatory, DecisionTypes, NoneOpen
<1>3. CASE ~view.legal.canFinishFreeRoads
  BY <1>1, <1>3, Zenon DEF Mandatory, DecisionTypes, NoneOpen
<1>4. QED
  BY <1>2, <1>3

\* The other cards and trades have one answer each.
LEMMA AnswerKinds ==
  ASSUME NEW v, NEW view,
         view.pending.type \in {"CHOOSE_INVENTION_RESOURCES", "CHOOSE_MONOPOLY_RESOURCE", "RESPOND_TO_TRADE"},
         view.legal.tiles = {}, view.legal.targets = {}, turn.phase # "FREE_ROAD_PLACEMENT"
  PROVE  /\ view.legal.inventions # {} /\ view.legal.monopolies = {} /\ ~view.legal.response.canReject =>
              Mandatory(v, view) = InventionChoices(view.legal)
         /\ view.legal.inventions = {} /\ view.legal.monopolies # {} /\ ~view.legal.response.canReject =>
              Mandatory(v, view) = MonopolyChoices(view.legal)
         /\ view.legal.inventions = {} /\ view.legal.monopolies = {} /\ view.legal.response.canReject =>
              Mandatory(v, view) = TradeResponses(v, view.pending, view.self.resources)
  BY SeatFacts, Zenon DEF Mandatory, DecisionTypes

\* Whoever is to settle finds a site, and has a settlement left.
LEMMA SiteFree ==
  ASSUME TurnInvariant, SetupRoom, turn.phase = "SETUP_SETTLEMENT"
  PROVE  \E x \in Vertices : ValidInitialSettlement(buildings, turn.current, x)
<1>1. PICK s, b, S : s = turn.setup /\ b = buildings /\ S = Built(b)
  OBVIOUS
<1>2. s \in Setups /\ turn.current = order[PlaceOf(s)]
  BY <1>1 DEF TurnInvariant, TurnFits, TurnType, Setup, ExpectedSetupPlayer, PlaceOf
<1>3. SetupCount(order, b, roads, s, 0, turn.current)
  BY <1>1 DEF SetupRoom, Setup
<1>4. S \in SUBSET Vertices /\ Cardinality(S) < 2 * N
  <2>1. S \subseteq Vertices /\ IsFiniteSet(Vertices)
    BY <1>1, BoardAssumption DEF Built
  <2>2. Cardinality(S) \in Nat
    BY <2>1, NoMore
  <2>3. Cardinality(S) <= TurnsHad(s) + 0 /\ TurnsHad(s) \in Nat /\ TurnsHad(s) < 2 * N
    BY <1>1, <1>2, <1>3, HadFacts DEF SetupCount
  <2>4. N \in Nat
    BY SeatFacts
  <2>5. QED
    BY <2>1, <2>2, <2>3, <2>4
<1>5. PICK x \in Vertices \ S : Adjacent(x) \cap S = {}
  BY <1>4, RoomAssumption
<1>6. Free(b, x)
  BY <1>1, <1>5 DEF Free, Built, Adjacent
<1>7. Cardinality(Settlements(b, turn.current)) < SettlementLimit
  <2>1. PICK i \in 1..N : i = PlaceOf(s) /\ Had(s, i) < 2 /\ Had(s, i) \in 0..2
    BY <1>2, HadFacts
  <2>2. PICK m, h, c : m = Cardinality(Settlements(b, turn.current)) /\ h = Had(s, i) /\ c = turn.current
    OBVIOUS
  <2>3. m <= h + (IF order[i] = c THEN 0 ELSE 0)
    BY <1>2, <1>3, <2>1, <2>2 DEF SetupCount
  <2>4. m \in Nat
    <3>1. Settlements(b, c) \subseteq Vertices /\ IsFiniteSet(Vertices)
      BY BoardAssumption DEF Settlements
    <3>2. QED
      BY <2>2, <3>1, NoMore
  <2>5. SettlementLimit \in Nat /\ SettlementLimit > 1
    BY BoardAssumption, RoomAssumption
  <2>6. QED
    BY <2>1, <2>2, <2>3, <2>4, <2>5
<1>8. QED
  BY <1>1, <1>5, <1>6, <1>7 DEF ValidInitialSettlement

\* And a road from there, which nobody has built on.
LEMMA RoadFree ==
  ASSUME TurnInvariant, SetupFits, SetupRoom, turn.phase = "SETUP_ROAD"
  PROVE  \E e \in Edges : ValidInitialRoad(roads, turn.current, e, turn.setup.settlement)
<1>1. PICK s, r, v : s = turn.setup /\ r = roads /\ v = turn.setup.settlement
  OBVIOUS
<1>2. s \in Setups /\ turn.current = order[PlaceOf(s)] /\ v \in Vertices
  BY <1>1 DEF TurnInvariant, TurnFits, TurnType, Setup, ExpectedSetupPlayer, PlaceOf, SetupFits, SetupPlace
<1>3. SetupCount(order, buildings, r, s, 1, turn.current) /\ RoadOpen(r, v)
  BY <1>1 DEF SetupRoom, Setup
<1>4. PICK e \in EdgesAt(v) : r[e] = None
  BY <1>2, <1>3, RoomAssumption DEF RoadOpen
<1>5. e \in Edges /\ v \in e
  BY <1>4 DEF EdgesAt
<1>6. Cardinality(Roads(r, turn.current)) < RoadLimit
  <2>1. PICK i \in 1..N : i = PlaceOf(s) /\ Had(s, i) < 2 /\ Had(s, i) \in 0..2
    BY <1>2, HadFacts
  <2>2. PICK m, h, c : m = Cardinality(Roads(r, turn.current)) /\ h = Had(s, i) /\ c = turn.current
    OBVIOUS
  <2>3. m <= h
    BY <1>2, <1>3, <2>1, <2>2 DEF SetupCount
  <2>4. m \in Nat
    <3>1. Roads(r, c) \subseteq Edges /\ IsFiniteSet(Edges)
      BY EdgesFinite DEF Roads
    <3>2. QED
      BY <2>2, <3>1, NoMore
  <2>5. RoadLimit \in Nat /\ RoadLimit > 1
    BY BoardAssumption, RoomAssumption
  <2>6. QED
    BY <2>1, <2>2, <2>3, <2>4, <2>5
<1>7. QED
  BY <1>1, <1>4, <1>5, <1>6 DEF ValidInitialRoad

\* What the player who is asked sees of the decision.
LEMMA PendingSeen ==
  ASSUME NEW v
  PROVE  /\ pending = NoDecision => PendingView(v, Hidden) = NoDecision
         /\ pending.type = "DISCARD_RESOURCES" /\ v \in Owing =>
              PendingView(v, Hidden) = [type |-> pending.type, required |-> pending.required[v]]
         /\ pending.type \in {"MOVE_ROBBER", "CHOOSE_ROBBER_TARGET"} => PendingView(v, Hidden) = pending
         /\ pending.type = "PLACE_FREE_ROADS" => PendingView(v, Hidden).type = "PLACE_FREE_ROADS"
         /\ pending.type \in {"CHOOSE_INVENTION_RESOURCES", "CHOOSE_MONOPOLY_RESOURCE"} /\ pending.actor = v =>
              PendingView(v, Hidden) = pending
         /\ pending.type = "RESPOND_TO_TRADE" /\ v \in {pending.initiator, pending.counterparty} =>
              PendingView(v, Hidden) = pending
<1>1. Hidden.pending = pending
  BY DEF Hidden
<1>2. None \notin DecisionTypes
  BY SeatFacts
<1>3. CASE pending = NoDecision
  <2>1. pending.type = None
    BY <1>3 DEF NoDecision
  <2>2. PendingView(v, Hidden) = pending
    BY <1>1, <1>2, <2>1, Zenon DEF PendingView, DecisionTypes
  <2>3. QED
    BY <1>2, <1>3, <2>1, <2>2, Zenon DEF DecisionTypes
<1>4. CASE pending.type = "DISCARD_RESOURCES" /\ v \in Owing
  <2>1. v \in DOMAIN pending.required \ pending.completed
    BY <1>4 DEF Owing
  <2>2. PendingView(v, Hidden) = [type |-> pending.type, required |-> pending.required[v]]
    BY <1>1, <1>4, <2>1, Zenon DEF PendingView
  <2>3. pending # NoDecision
    BY <1>2, <1>4 DEF NoDecision, DecisionTypes
  <2>4. QED
    BY <1>4, <2>2, <2>3, Zenon
<1>5. CASE pending.type \in {"MOVE_ROBBER", "CHOOSE_ROBBER_TARGET"}
  <2>1. PendingView(v, Hidden) = pending
    BY <1>1, <1>5, Zenon DEF PendingView
  <2>2. pending # NoDecision
    BY <1>2, <1>5 DEF NoDecision, DecisionTypes
  <2>3. QED
    BY <1>5, <2>1, <2>2, Zenon
<1>6. CASE pending.type = "PLACE_FREE_ROADS"
  <2>1. PendingView(v, Hidden) = [type |-> pending.type, decision |-> pending,
                                  legal |-> LegalFreeRoads(buildings, roads, pending.actor)]
    BY <1>1, <1>6, Zenon DEF PendingView
  <2>2. PendingView(v, Hidden).type = "PLACE_FREE_ROADS"
    BY <1>6, <2>1
  <2>3. pending # NoDecision
    BY <1>2, <1>6 DEF NoDecision, DecisionTypes
  <2>4. QED
    BY <1>6, <2>2, <2>3, Zenon
<1>7. CASE pending.type \in {"CHOOSE_INVENTION_RESOURCES", "CHOOSE_MONOPOLY_RESOURCE"} /\ pending.actor = v
  <2>1. PendingView(v, Hidden) = pending
    BY <1>1, <1>7, Zenon DEF PendingView
  <2>2. pending # NoDecision
    BY <1>2, <1>7 DEF NoDecision, DecisionTypes
  <2>3. QED
    BY <1>7, <2>1, <2>2, Zenon
<1>8. CASE pending.type = "RESPOND_TO_TRADE" /\ v \in {pending.initiator, pending.counterparty}
  <2>1. PendingView(v, Hidden) = pending
    BY <1>1, <1>8, Zenon DEF PendingView
  <2>2. pending # NoDecision
    BY <1>2, <1>8 DEF NoDecision, DecisionTypes
  <2>3. QED
    BY <1>8, <2>1, <2>2, Zenon
<1>9. QED
  BY <1>3, <1>4, <1>5, <1>6, <1>7, <1>8, Zenon

\* An answer is offered to what is open, and to nothing else.
LEMMA OfferedFor ==
  ASSUME NEW v, NEW legal, legal = LegalActions(v, Hidden)
  PROVE  /\ pending.type # "MOVE_ROBBER" => legal.tiles = {}
         /\ pending.type # "CHOOSE_ROBBER_TARGET" => legal.targets = {}
         /\ pending.type # "CHOOSE_INVENTION_RESOURCES" => legal.inventions = {}
         /\ pending.type # "CHOOSE_MONOPOLY_RESOURCE" => legal.monopolies = {}
         /\ legal.response.canReject <=> pending.type = "RESPOND_TO_TRADE" /\ Responder(pending) = v
<1>1. /\ legal.tiles = IF pending.type = "MOVE_ROBBER" /\ pending.actor = v THEN Tiles \ {robber} ELSE {}
      /\ legal.targets = IF pending.type = "CHOOSE_ROBBER_TARGET" /\ pending.actor = v THEN pending.targets ELSE {}
      /\ legal.inventions =
           IF pending.type = "CHOOSE_INVENTION_RESOURCES" /\ pending.actor = v THEN InventionSelections ELSE {}
      /\ legal.monopolies = IF pending.type = "CHOOSE_MONOPOLY_RESOURCE" /\ pending.actor = v THEN Resources ELSE {}
  BY LegalAnswers
<1>2. legal.response = TradeResponse(v, Hidden)
  BY LegalFlags
<1>3. legal.response.canReject <=> pending.type = "RESPOND_TO_TRADE" /\ Responder(pending) = v
  <2>1. Hidden.pending = pending
    BY DEF Hidden
  <2>2. ASSUME NEW answer, answer = TradeResponse(v, Hidden)
        PROVE  answer.canReject = (pending.type = "RESPOND_TO_TRADE" /\ Responder(pending) = v)
    BY <2>1, <2>2 DEF TradeResponse
  <2>3. legal.response.canReject = (pending.type = "RESPOND_TO_TRADE" /\ Responder(pending) = v)
    BY <1>2, <2>2
  <2>4. QED
    BY <2>3, Zenon
<1>4. QED
  BY <1>1, <1>3, Zenon

\* What the engine's decisions are of, and whom they ask.
LEMMA ActorFacts ==
  ASSUME TurnInvariant, NEW v, v = DecisionActor
  PROVE  /\ v \in Players
         /\ pending.type = "DISCARD_RESOURCES" => v \in Owing
         /\ pending.type = "RESPOND_TO_TRADE" => v = Responder(pending) /\ v \in {pending.initiator, pending.counterparty}
         /\ pending.type \notin {"DISCARD_RESOURCES", "RESPOND_TO_TRADE"} => v = turn.current
         /\ pending.type \notin {"DISCARD_RESOURCES", "RESPOND_TO_TRADE", None} => v = pending.actor
<1>0. None \notin DecisionTypes /\ turn.current \in Players /\ NoDecision.type = None
  BY SeatFacts DEF TurnInvariant, TurnFits, TurnType, NoDecision
<1>1. CASE pending.type = "DISCARD_RESOURCES"
  <2>1. PICK T : T = {i \in 1..N : order[i] \in Owing}
    OBVIOUS
  <2>2. v = order[Min(T)]
    BY <1>0, <1>1, <2>1, Zenon DEF DecisionActor, DecisionTypes
  <2>3. Owing # {} /\ Owing \subseteq Players
    BY <1>1 DEF TurnInvariant, DecisionFits, DiscardFits, Owing
  <2>4. T \in SUBSET Nat /\ T # {} /\ T \subseteq 1..N
    <3>1. PICK q : q \in Owing /\ q \in Players
      BY <2>3
    <3>2. PICK i \in 1..N : order[i] = q
      BY <3>1 DEF TurnInvariant, OrderFits
    <3>3. T \subseteq 1..N /\ i \in T /\ N \in Nat
      BY <2>1, <3>1, <3>2, SeatFacts
    <3>4. QED
      BY <3>3
  <2>5. PICK n \in T : \A m \in T : n <= m
    BY <2>4, LeastNumber
  <2>6. Min(T) \in T
    BY <2>5, Zenon DEF Min
  <2>7. v \in Owing
    BY <2>1, <2>2, <2>6
  <2>8. QED
    BY <1>1, <2>3, <2>7
<1>2. CASE pending.type = "RESPOND_TO_TRADE"
  <2>1. v = Responder(pending)
    BY <1>0, <1>2, Zenon DEF DecisionActor, DecisionTypes
  <2>2. pending.initiator = turn.current /\ pending.counterparty \in Players
    BY <1>2 DEF TurnInvariant, DecisionFits, TradeFits
  <2>3. v \in {pending.initiator, pending.counterparty}
    BY <2>1 DEF Responder
  <2>4. QED
    BY <1>0, <1>2, <2>1, <2>2, <2>3
<1>3. CASE pending = NoDecision
  <2>1. v = turn.current
    BY <1>0, <1>3, Zenon DEF DecisionActor, DecisionTypes
  <2>2. QED
    BY <1>0, <1>3, <2>1 DEF DecisionTypes
<1>4. CASE pending # NoDecision /\ pending.type \notin {"DISCARD_RESOURCES", "RESPOND_TO_TRADE"}
  <2>1. v = pending.actor
    BY <1>4, Zenon DEF DecisionActor
  <2>2. pending.type \in DecisionTypes
    BY <1>4 DEF TurnInvariant, DecisionFits
  <2>3. pending.type \in {"MOVE_ROBBER", "CHOOSE_ROBBER_TARGET", "PLACE_FREE_ROADS",
                          "CHOOSE_INVENTION_RESOURCES", "CHOOSE_MONOPOLY_RESOURCE"}
    BY <1>4, <2>2 DEF DecisionTypes
  <2>4. ASSUME pending.type = "PLACE_FREE_ROADS" PROVE pending.actor = turn.current
    <3>1. PICK c, k : pending = [type |-> "PLACE_FREE_ROADS", actor |-> turn.current, card |-> c, remaining |-> k]
      BY <2>4 DEF TurnInvariant, DecisionFits, CardFits
    <3>2. QED
      BY <3>1
  <2>5. ASSUME pending.type # "PLACE_FREE_ROADS" PROVE pending.actor = turn.current
    BY <2>3, <2>5 DEF TurnInvariant, DecisionFits, CardFits, RobberFits
  <2>6. QED
    BY <1>0, <1>4, <2>1, <2>4, <2>5
<1>5. QED
  BY <1>1, <1>2, <1>3, <1>4

\* There is an answer, and no answer that is refused.
Answered(v, view) == Mandatory(v, view) # {} /\ Fine(v, view.legal, Mandatory(v, view))

\* With nothing open the phase says what the current player does.
LEMMA PhaseAnswered ==
  ASSUME TurnInvariant, CardsFit, AllFit, SetupRoom, FreeRoadsAsked, winner = None, pending = NoDecision,
         NEW v, v = turn.current, NEW view, view = View(v, Hidden)
  PROVE  Answered(v, view)
<1>1. PICK legal, d : legal = view.legal /\ d = view.pending
  OBVIOUS
<1>2. legal = LegalActions(v, Hidden) /\ d = NoDecision
  BY <1>1, ViewParts, PendingSeen
<1>3. v \in Players /\ d.type = None /\ pending.type = None /\ None \notin DecisionTypes
  BY <1>2, SeatFacts DEF TurnInvariant, TurnFits, TurnType, NoDecision
<1>4. legal.tiles = {} /\ legal.targets = {}
  BY <1>2, <1>3, OfferedFor DEF DecisionTypes
<1>5. /\ turn.phase = "SETUP_SETTLEMENT" =>
           Mandatory(v, view) = Each("PLACE_INITIAL_SETTLEMENT", legal.initialSettlements)
      /\ turn.phase = "SETUP_ROAD" => Mandatory(v, view) = Each("PLACE_INITIAL_ROAD", legal.initialRoads)
      /\ turn.phase = "ROLL_REQUIRED" => Mandatory(v, view) = FirstOf(<<BestCards(legal), Only("ROLL_DICE")>>)
      /\ turn.phase = "ACTION" => Mandatory(v, view) = ActionChoices(v, legal)
  BY <1>1, <1>3, <1>4, PhaseKinds
<1>6. \A phase : turn.phase = phase => InTurn(v, {phase})
  BY DEF InTurn, Current
<1>7. turn.phase \in {"SETUP_SETTLEMENT", "SETUP_ROAD", "ROLL_REQUIRED", "ACTION"}
  <2>1. turn.phase \in Phases /\ turn.phase # "FREE_ROAD_PLACEMENT"
    BY <1>3 DEF TurnInvariant, TurnFits, TurnType, FreeRoadsAsked, DecisionTypes
  <2>2. turn.phase \notin {"DISCARD_REQUIRED", "ROBBER_MOVE_REQUIRED", "ROBBER_TARGET_REQUIRED", "GAME_OVER"}
    BY <1>3 DEF AllFit, AsksFit, PhaseAsks, DecisionTypes
  <2>3. QED
    BY <2>1, <2>2 DEF Phases
<1>8. CASE turn.phase = "SETUP_SETTLEMENT"
  <2>1. PICK site \in Vertices : ValidInitialSettlement(buildings, v, site)
    BY <1>8, SiteFree
  <2>2. InTurn(v, {"SETUP_SETTLEMENT"})
    BY <1>6, <1>8
  <2>3. site \in legal.initialSettlements
    <3>1. legal.initialSettlements = {x \in Vertices : AcceptsInitialSettlement(v, x)}
      BY <1>2, <1>3, ViewBuilds DEF AllFit
    <3>2. AcceptsInitialSettlement(v, site)
      BY <2>1, <2>2 DEF AcceptsInitialSettlement
    <3>3. QED
      BY <2>1, <3>1, <3>2
  <2>4. Each("PLACE_INITIAL_SETTLEMENT", legal.initialSettlements) # {}
    BY <2>3 DEF Each
  <2>5. Fine(v, legal, Each("PLACE_INITIAL_SETTLEMENT", legal.initialSettlements))
    BY <1>2, <1>3, FineTargets
  <2>6. QED
    BY <1>1, <1>5, <1>8, <2>4, <2>5 DEF Answered
<1>9. CASE turn.phase = "SETUP_ROAD"
  <2>1. PICK f \in Edges : ValidInitialRoad(roads, v, f, turn.setup.settlement)
    BY <1>9, RoadFree DEF AllFit
  <2>2. InTurn(v, {"SETUP_ROAD"})
    BY <1>6, <1>9
  <2>3. f \in legal.initialRoads
    <3>1. legal.initialRoads = {e \in Edges : AcceptsInitialRoad(v, e)}
      BY <1>2, <1>3, ViewBuilds DEF AllFit
    <3>2. AcceptsInitialRoad(v, f)
      BY <2>1, <2>2 DEF AcceptsInitialRoad
    <3>3. QED
      BY <2>1, <3>1, <3>2
  <2>4. Each("PLACE_INITIAL_ROAD", legal.initialRoads) # {}
    BY <2>3 DEF Each
  <2>5. Fine(v, legal, Each("PLACE_INITIAL_ROAD", legal.initialRoads))
    BY <1>2, <1>3, FineTargets
  <2>6. QED
    BY <1>1, <1>5, <1>9, <2>4, <2>5 DEF Answered
<1>10. CASE turn.phase = "ROLL_REQUIRED"
  <2>1. InTurn(v, {"ROLL_REQUIRED"})
    BY <1>6, <1>10
  <2>2. legal.canRoll
    BY <1>2, <2>1, LegalFlags
  <2>3. PICK choices : choices = FirstOf(<<BestCards(legal), Only("ROLL_DICE")>>)
    OBVIOUS
  <2>4. choices # {} /\ Fine(v, legal, choices)
    BY <1>2, <1>3, <2>2, <2>3, RollFine
  <2>5. QED
    BY <1>1, <1>5, <1>10, <2>3, <2>4 DEF Answered
<1>11. CASE turn.phase = "ACTION"
  <2>1. InTurn(v, {"ACTION"})
    BY <1>6, <1>11
  <2>2. legal.canEndTurn
    BY <1>2, <2>1, LegalFlags
  <2>3. ActionChoices(v, legal) # {} /\ Fine(v, legal, ActionChoices(v, legal))
    BY <1>2, <1>3, <2>2, ActionFine
  <2>4. QED
    BY <1>1, <1>5, <1>11, <2>3 DEF Answered
<1>12. QED
  BY <1>7, <1>8, <1>9, <1>10, <1>11

\* Whoever owes a discard can give up the half of the hand.
LEMMA DiscardAnswered ==
  ASSUME TurnInvariant, CardsFit, AllFit, pending.type = "DISCARD_RESOURCES",
         NEW v \in Players, v \in Owing, NEW view, view = View(v, Hidden)
  PROVE  Answered(v, view)
<1>1. PICK legal, d : legal = view.legal /\ d = view.pending
  OBVIOUS
<1>2. legal = LegalActions(v, Hidden) /\ d = [type |-> pending.type, required |-> pending.required[v]]
  BY <1>1, ViewParts, PendingSeen
<1>3. d.type = "DISCARD_RESOURCES" /\ d.required = pending.required[v] /\ view.self.resources = hand[v]
  BY <1>2, ViewParts
<1>4. legal.tiles = {} /\ legal.targets = {}
  BY <1>2, OfferedFor
<1>5. PICK choices : choices = Each("DISCARD_RESOURCES", GreedyDiscards(hand[v], pending.required[v]))
  OBVIOUS
<1>6. Mandatory(v, view) = Each("DISCARD_RESOURCES", GreedyDiscards(view.self.resources, d.required))
  BY <1>1, <1>3, <1>4, DiscardKind
<1>7. choices # {} /\ Fine(v, legal, choices)
  BY <1>2, <1>5, DiscardFine
<1>8. QED
  BY <1>1, <1>3, <1>5, <1>6, <1>7 DEF Answered

\* The robber has another tile to go to, and somebody to steal from.
LEMMA RobberAnswered ==
  ASSUME TurnInvariant, CardsFit, AllFit, pending.type \in {"MOVE_ROBBER", "CHOOSE_ROBBER_TARGET"},
         NEW v \in Players, v = pending.actor, NEW view, view = View(v, Hidden)
  PROVE  Answered(v, view)
<1>1. PICK legal, d : legal = view.legal /\ d = view.pending
  OBVIOUS
<1>2. legal = LegalActions(v, Hidden) /\ d = pending
  BY <1>1, ViewParts, PendingSeen
<1>3. Fine(v, legal, RobberMoves(legal)) /\ Fine(v, legal, Steals(legal))
  BY <1>2, FineTargets
<1>4. CASE pending.type = "MOVE_ROBBER"
  <2>1. legal.tiles = Tiles \ {robber}
    BY <1>2, <1>4, LegalAnswers
  <2>2. PICK t, u \in Tiles : t # u
    BY RoomAssumption
  <2>3. legal.tiles # {}
    BY <2>1, <2>2
  <2>4. legal.targets = {}
    BY <1>2, <1>4, OfferedFor
  <2>5. Mandatory(v, view) = RobberMoves(legal)
    BY <1>1, <1>2, <1>4, <2>3, <2>4, RobberKinds
  <2>6. RobberMoves(legal) # {}
    BY <2>3 DEF RobberMoves, Each
  <2>7. QED
    BY <1>1, <1>3, <2>5, <2>6 DEF Answered
<1>5. CASE pending.type = "CHOOSE_ROBBER_TARGET"
  <2>1. legal.targets = pending.targets
    BY <1>2, <1>5, LegalAnswers
  <2>2. legal.targets # {}
    BY <1>5, <2>1 DEF AllFit, AsksFit, Targets
  <2>3. legal.tiles = {}
    BY <1>2, <1>5, OfferedFor
  <2>4. Mandatory(v, view) = Steals(legal)
    BY <1>1, <1>2, <1>5, <2>2, <2>3, RobberKinds
  <2>5. Steals(legal) # {}
    BY <2>2 DEF Steals, Each
  <2>6. QED
    BY <1>1, <1>3, <2>4, <2>5 DEF Answered
<1>6. QED
  BY <1>4, <1>5

\* A road card grants a road that can be placed, or is done.
LEMMA RoadsAnswered ==
  ASSUME TurnInvariant, CardsFit, AllFit, EffectCanEnd, pending.type = "PLACE_FREE_ROADS",
         NEW v \in Players, v = turn.current, v = pending.actor, NEW view, view = View(v, Hidden)
  PROVE  Answered(v, view)
<1>1. PICK legal, d : legal = view.legal /\ d = view.pending
  OBVIOUS
<1>2. legal = LegalActions(v, Hidden) /\ d.type = "PLACE_FREE_ROADS"
  BY <1>1, ViewParts, PendingSeen
<1>3. NoneOpen(legal)
  BY <1>2, OfferedFor DEF NoneOpen
<1>4. turn.phase = "FREE_ROAD_PLACEMENT" /\ pending.remaining \in {1, 2}
  BY DEF TurnInvariant, DecisionFits, CardFits
<1>5. /\ legal.canFinishFreeRoads => Mandatory(v, view) = Only("FINISH_FREE_ROAD_PLACEMENT")
      /\ ~legal.canFinishFreeRoads => Mandatory(v, view) = Each("BUILD_ROAD", legal.roads)
  BY <1>1, <1>2, <1>3, <1>4, RoadKinds
<1>6. PICK free : free = LegalFreeRoads(buildings, roads, v)
  OBVIOUS
<1>7. legal.canFinishFreeRoads = (pending.remaining = 1 /\ free = {})
  BY <1>2, <1>4, <1>6, LegalFlags
<1>8. legal.roads = free
  <2>1. legal.roads =
          IF \/ pending.type = "PLACE_FREE_ROADS" /\ pending.actor = v /\ turn.phase = "FREE_ROAD_PLACEMENT"
             \/ InTurn(v, {"ACTION"}) /\ Covers(hand[v], RoadCost)
          THEN LegalFreeRoads(buildings, roads, v) ELSE {}
    BY <1>2, LegalEntries
  <2>2. QED
    BY <1>4, <1>6, <2>1
<1>9. CASE pending.remaining = 1 /\ free = {}
  <2>1. legal.canFinishFreeRoads
    BY <1>7, <1>9
  <2>2. Fine(v, legal, Only("FINISH_FREE_ROAD_PLACEMENT")) /\ Only("FINISH_FREE_ROAD_PLACEMENT") # {}
    BY <1>2, <2>1, FineFlags DEF Only, Each
  <2>3. QED
    BY <1>1, <1>5, <2>1, <2>2 DEF Answered
<1>10. CASE ~(pending.remaining = 1 /\ free = {})
  <2>1. ~legal.canFinishFreeRoads
    BY <1>7, <1>10
  <2>2. legal.roads # {}
    BY <1>4, <1>6, <1>8, <1>10 DEF EffectCanEnd
  <2>3. Fine(v, legal, Each("BUILD_ROAD", legal.roads)) /\ Each("BUILD_ROAD", legal.roads) # {}
    BY <1>2, <2>2, FineTargets DEF Each
  <2>4. QED
    BY <1>1, <1>5, <2>1, <2>3 DEF Answered
<1>11. QED
  BY <1>9, <1>10

\* The bank still has what an Invention card takes.
LEMMA InventionAnswered ==
  ASSUME TurnInvariant, CardsFit, AllFit, EffectCanEnd, pending.type = "CHOOSE_INVENTION_RESOURCES",
         NEW v \in Players, v = pending.actor, NEW view, view = View(v, Hidden)
  PROVE  Answered(v, view)
<1>1. PICK legal, d : legal = view.legal /\ d = view.pending
  OBVIOUS
<1>2. legal = LegalActions(v, Hidden) /\ d = pending
  BY <1>1, ViewParts, PendingSeen
<1>3. legal.tiles = {} /\ legal.targets = {} /\ legal.monopolies = {} /\ ~legal.response.canReject
  BY <1>2, OfferedFor
<1>4. winner = None
  BY OpenDecision, SeatFacts DEF DecisionTypes
<1>5. turn.phase \in {"ROLL_REQUIRED", "ACTION"}
  BY DEF TurnInvariant, DecisionFits, CardFits, Resume
<1>6. PICK b : b \in [Resources -> 0..InventionCount] /\ Covers(bank, b) /\ Count(b) = InventionCount
  <2>1. Count(bank) >= InventionCount /\ bank \in Bags /\ InventionCount \in Nat
    BY EngineAssumption DEF EffectCanEnd, AllFit, ResourcesFit, Balanced
  <2>2. InventionCount <= Count(bank)
    BY <2>1, CountType
  <2>3. QED
    BY <2>1, <2>2, PartOfBag
<1>7. b \in Inventions
  BY <1>6 DEF Inventions, Selections
<1>8. AcceptsInvention(v, b)
  BY <1>4, <1>5, <1>6 DEF AcceptsInvention, DecidesCard, Decides
<1>9. legal.inventions # {}
  <2>1. legal.inventions = {bag \in Inventions : AcceptsInvention(v, bag)}
    BY <1>2, ViewInventions
  <2>2. QED
    BY <1>7, <1>8, <2>1
<1>10. Mandatory(v, view) = InventionChoices(legal)
  <2>1. turn.phase # "FREE_ROAD_PLACEMENT"
    BY <1>5
  <2>2. view.pending.type = "CHOOSE_INVENTION_RESOURCES" /\ legal = view.legal
    BY <1>1, <1>2
  <2>3. QED
    BY <1>3, <1>9, <2>1, <2>2, AnswerKinds
<1>11. Fine(v, legal, InventionChoices(legal)) /\ InventionChoices(legal) # {}
  BY <1>2, <1>9, FineTargets DEF InventionChoices, Each
<1>12. QED
  BY <1>1, <1>10, <1>11 DEF Answered

\* A Monopoly card names any resource.
LEMMA MonopolyAnswered ==
  ASSUME TurnInvariant, CardsFit, AllFit, pending.type = "CHOOSE_MONOPOLY_RESOURCE",
         NEW v \in Players, v = pending.actor, NEW view, view = View(v, Hidden)
  PROVE  Answered(v, view)
<1>1. PICK legal, d : legal = view.legal /\ d = view.pending
  OBVIOUS
<1>2. legal = LegalActions(v, Hidden) /\ d = pending
  BY <1>1, ViewParts, PendingSeen
<1>3. legal.tiles = {} /\ legal.targets = {} /\ legal.inventions = {} /\ ~legal.response.canReject
  BY <1>2, OfferedFor
<1>4. legal.monopolies = Resources /\ legal.monopolies # {}
  BY <1>2, LegalAnswers, RoomAssumption
<1>5. turn.phase \in {"ROLL_REQUIRED", "ACTION"}
  BY DEF TurnInvariant, DecisionFits, CardFits, Resume
<1>6. Mandatory(v, view) = MonopolyChoices(legal)
  <2>1. turn.phase # "FREE_ROAD_PLACEMENT"
    BY <1>5
  <2>2. view.pending.type = "CHOOSE_MONOPOLY_RESOURCE" /\ legal = view.legal
    BY <1>1, <1>2
  <2>3. QED
    BY <1>3, <1>4, <2>1, <2>2, AnswerKinds
<1>7. Fine(v, legal, MonopolyChoices(legal)) /\ MonopolyChoices(legal) # {}
  BY <1>2, <1>4, FineTargets DEF MonopolyChoices, Each
<1>8. QED
  BY <1>1, <1>6, <1>7 DEF Answered

\* An offer can be rejected.
LEMMA TradeAnswered ==
  ASSUME TurnInvariant, CardsFit, AllFit, pending.type = "RESPOND_TO_TRADE",
         NEW v \in Players, v = Responder(pending), v \in {pending.initiator, pending.counterparty},
         NEW view, view = View(v, Hidden)
  PROVE  Answered(v, view)
<1>1. PICK legal, d : legal = view.legal /\ d = view.pending
  OBVIOUS
<1>2. legal = LegalActions(v, Hidden) /\ d = pending /\ view.self.resources = hand[v]
  BY <1>1, ViewParts, PendingSeen
<1>3. legal.tiles = {} /\ legal.targets = {} /\ legal.inventions = {} /\ legal.monopolies = {}
  BY <1>2, OfferedFor
<1>4. legal.response.canReject
  BY <1>2, OfferedFor
<1>5. turn.phase = "ACTION"
  BY DEF TurnInvariant, DecisionFits, TradeFits
<1>6. Mandatory(v, view) = TradeResponses(v, d, view.self.resources)
  <2>1. turn.phase # "FREE_ROAD_PLACEMENT"
    BY <1>5
  <2>2. view.pending.type = "RESPOND_TO_TRADE" /\ legal = view.legal /\ d = view.pending
    BY <1>1, <1>2
  <2>3. QED
    BY <1>3, <1>4, <2>1, <2>2, AnswerKinds
<1>7. TradeResponses(v, pending, hand[v]) # {} /\ Fine(v, legal, TradeResponses(v, pending, hand[v]))
  BY <1>2, <1>4, TradeFine
<1>8. QED
  BY <1>1, <1>2, <1>6, <1>7 DEF Answered

\* Whoever is asked has an answer, and none that is refused.
LEMMA AllAnswered ==
  ASSUME TurnInvariant, CardsFit, AllFit, SetupRoom, EffectCanEnd, FreeRoadsAsked, winner = None,
         NEW v, v = DecisionActor, NEW view, view = View(v, Hidden)
  PROVE  v \in Players /\ Answered(v, view)
<1>1. /\ v \in Players
      /\ pending.type = "DISCARD_RESOURCES" => v \in Owing
      /\ pending.type = "RESPOND_TO_TRADE" => v = Responder(pending) /\ v \in {pending.initiator, pending.counterparty}
      /\ pending.type \notin {"DISCARD_RESOURCES", "RESPOND_TO_TRADE"} => v = turn.current
      /\ pending.type \notin {"DISCARD_RESOURCES", "RESPOND_TO_TRADE", None} => v = pending.actor
  BY ActorFacts
<1>2. pending.type \in DecisionTypes \cup {None} /\ (pending.type = None => pending = NoDecision) /\ None \notin DecisionTypes
  BY SeatFacts DEF TurnInvariant, DecisionFits
<1>3. CASE pending.type = None
  BY <1>1, <1>2, <1>3, PhaseAnswered DEF DecisionTypes
<1>4. CASE pending.type = "DISCARD_RESOURCES"
  BY <1>1, <1>4, DiscardAnswered
<1>5. CASE pending.type \in {"MOVE_ROBBER", "CHOOSE_ROBBER_TARGET"}
  BY <1>1, <1>2, <1>5, RobberAnswered DEF DecisionTypes
<1>6. CASE pending.type = "PLACE_FREE_ROADS"
  BY <1>1, <1>2, <1>6, RoadsAnswered DEF DecisionTypes
<1>7. CASE pending.type = "CHOOSE_INVENTION_RESOURCES"
  BY <1>1, <1>2, <1>7, InventionAnswered DEF DecisionTypes
<1>8. CASE pending.type = "CHOOSE_MONOPOLY_RESOURCE"
  BY <1>1, <1>2, <1>8, MonopolyAnswered DEF DecisionTypes
<1>9. CASE pending.type = "RESPOND_TO_TRADE"
  BY <1>1, <1>9, TradeAnswered
<1>10. QED
  BY <1>2, <1>3, <1>4, <1>5, <1>6, <1>7, <1>8, <1>9 DEF DecisionTypes

\* In every state of every game on a board that is not too small, the player
\* who is asked has an answer, and the engine accepts whatever an agent answers.
THEOREM AiChoosesLegallyHolds == Spec => []AiChoosesLegally
<1>1. Init => AllFit /\ SetupRoom /\ EffectCanEnd /\ FreeRoadsAsked
  BY AllInit, SetupRoomInit, CanEndInit DEF Init, FreeRoadsAsked
<1>2. /\ TurnInvariant /\ CardsFit /\ AllFit /\ SetupRoom /\ EffectCanEnd /\ FreeRoadsAsked /\ [Next]_vars
      => (AllFit /\ SetupRoom /\ EffectCanEnd /\ FreeRoadsAsked)'
  <2>1. SUFFICES ASSUME TurnInvariant, CardsFit, AllFit, SetupRoom, EffectCanEnd, FreeRoadsAsked, [Next]_vars
                 PROVE  (AllFit /\ SetupRoom /\ EffectCanEnd /\ FreeRoadsAsked)'
    OBVIOUS
  <2>2. AllFit'
    BY <2>1, AllStep
  <2>3. SetupRoom'
    BY <2>1, TurnStep, SetupRoomStep DEF AllFit
  <2>4. EffectCanEnd' /\ FreeRoadsAsked'
    BY <2>1, CanEndStep, AskedStep
  <2>5. QED
    BY <2>2, <2>3, <2>4
<1>3. TurnInvariant /\ CardsFit /\ AllFit /\ SetupRoom /\ EffectCanEnd /\ FreeRoadsAsked => AiChoosesLegally
  <2>1. SUFFICES ASSUME TurnInvariant, CardsFit, AllFit, SetupRoom, EffectCanEnd, FreeRoadsAsked, winner = None,
                        NEW v, v = DecisionActor, NEW view, view = View(v, Hidden)
                 PROVE  /\ Mandatory(v, view) # {}
                        /\ \A c \in Answers(v, view) : Accepts(v, c) /\ c.type \in view.permitted
    BY DEF AiChoosesLegally
  <2>2. PICK legal : legal = view.legal
    OBVIOUS
  <2>3. legal = LegalActions(v, Hidden) /\ view.permitted = Permitted(legal)
    BY <2>1, <2>2, ViewParts
  <2>4. v \in Players /\ Answered(v, view)
    BY <2>1, AllAnswered
  <2>5. Fine(v, legal, Mandatory(v, view)) /\ Mandatory(v, view) # {}
    BY <2>2, <2>4 DEF Answered
  <2>6. Fine(v, legal, Proposals(v, view))
    BY <2>1, <2>3, <2>4, ProposalsFine
  <2>7. Fine(v, legal, Fallback(view))
    <3>1. CASE legal.canEndTurn
      BY <2>1, <2>2, <2>3, <2>4, <3>1, FineFlags DEF Fallback
    <3>2. CASE ~legal.canEndTurn
      BY <2>2, <3>2, FineUnion DEF Fallback
    <3>3. QED
      BY <3>1, <3>2
  <2>8. Fine(v, legal, Answers(v, view))
    BY <2>5, <2>6, <2>7 DEF Fine, Answers
  <2>9. QED
    BY <2>3, <2>5, <2>8 DEF Fine
<1>4. QED
  BY <1>1, <1>2, <1>3, TurnsHold, PTL DEF Spec
=============================================================================
