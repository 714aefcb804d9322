------------------------------ MODULE AiAgent ------------------------------
(***************************************************************************)
(* What the computer players of packages/game-ai may answer, as the set of *)
(* commands that some weights of the scores select: an agent sees nothing  *)
(* but the view of its player, and of every kind of command takes the best *)
(* candidate the view lists.  How many commands and repetitions a turn may *)
(* have is left to LocalGame, which counts them.                           *)
(***************************************************************************)
EXTENDS PlayerView

CONSTANTS ManySettlements,      \* from here on cities come before settlements
          LeaderPoints          \* a player with so many points is offered no trade

\* A board with room for its players.  On the board of the game two of the 19
\* tiles are always left to the robber, and the up to seven settlements before
\* one of the setup block at most four of the 54 vertices each
\* (board/topology-invariants.ts:165 and 306).
ASSUME RoomAssumption ==
  /\ \E t, u \in Tiles : t # u
  /\ Resources # {} /\ RoadLimit > 1 /\ SettlementLimit > 1
  /\ \A x \in Vertices : EdgesAt(x) # {}
  /\ \A S \in SUBSET Vertices : Cardinality(S) < 2 * N => \E x \in Vertices \ S : Adjacent(x) \cap S = {}

Command(type, target) == [type |-> type, target |-> target]
Each(type, targets) == {Command(type, t) : t \in targets}
Only(type) == Each(type, {None})
FirstOf(alternatives) ==
  LET some == {i \in DOMAIN alternatives : alternatives[i] # {}}
  IN  IF some = {} THEN {} ELSE alternatives[Min(some)]

CardPriority == [KNIGHT |-> 5, ROAD_BUILDING |-> 4, INVENTION |-> 3, MONOPOLY |-> 2]

BestCards(legal) ==
  LET priority(c) == CardPriority[CardType[c.card]]
  IN  Each("PLAY_DEVELOPMENT_CARD",
           {c \in legal.playable : \A d \in legal.playable : priority(c) >= priority(d)})

\* Resource after resource is given up whole until enough cards are: at most
\* one resource is given up in part.
GreedyDiscards(held, size) ==
  {bag \in [Resources -> 0..size] :
     /\ Covers(held, bag) /\ Count(bag) = size
     /\ Cardinality({x \in Resources : bag[x] \notin {0, held[x]}}) <= 1}

\* What the cards and the robber ask for, whatever the agent thinks of it.
RobberMoves(legal) == Each("MOVE_ROBBER", legal.tiles)
Steals(legal) == Each("STEAL_FROM_PLAYER", legal.targets)
InventionChoices(legal) == Each("CHOOSE_INVENTION_RESOURCES", legal.inventions)
MonopolyChoices(legal) == Each("CHOOSE_MONOPOLY_RESOURCE", legal.monopolies)
MaritimeTrades(legal) == Each("MARITIME_TRADE", legal.maritime)

ActionChoices(v, legal) ==
  LET citiesFirst == Cardinality(Settlements(buildings, v)) >= ManySettlements \/ legal.settlements = {}
      builds == FirstOf(<<BestCards(legal),
                          IF citiesFirst THEN Each("UPGRADE_CITY", legal.cities) ELSE {},
                          Each("BUILD_SETTLEMENT", legal.settlements),
                          Each("UPGRADE_CITY", legal.cities),
                          Each("BUILD_ROAD", legal.roads),
                          IF legal.canBuy THEN Only("BUY_DEVELOPMENT_CARD") ELSE {}>>)
  IN  IF builds # {} THEN builds
      ELSE MaritimeTrades(legal) \cup (IF legal.canEndTurn THEN Only("END_TURN") ELSE {})

\* The first offer may be answered by asking for one card more.
CounterOffers(d) ==
  LET dearer(x) == [gives |-> [d.gives EXCEPT ![x] = @ + 1], gets |-> d.gets]
  IN  IF d.depth = 0 THEN Each("COUNTER_TRADE", {dearer(x) : x \in {y \in Resources : d.gets[y] = 0}})
      ELSE {}

TradeResponsesUnaffordable(v, d, resources) ==   \* mutant: the cards to be given are not counted
  Only("REJECT_TRADE") \cup Only("ACCEPT_TRADE") \cup CounterOffers(d)
\* An offer one can afford may be accepted or rejected, whatever its worth.
TradeResponses(v, d, resources) ==
  LET outgoing == IF v = d.initiator THEN d.gives ELSE d.gets
  IN  IF ~Covers(resources, outgoing) THEN Only("REJECT_TRADE")
      ELSE Only("REJECT_TRADE") \cup Only("ACCEPT_TRADE") \cup CounterOffers(d)

Mandatory(v, view) ==
  LET d == view.pending
      legal == view.legal
      phase == turn.phase
  IN  CASE d.type = "DISCARD_RESOURCES" ->
             Each("DISCARD_RESOURCES", GreedyDiscards(view.self.resources, d.required))
        [] legal.tiles # {} -> RobberMoves(legal)
        [] legal.targets # {} -> Steals(legal)
        [] d.type = None /\ phase = "SETUP_SETTLEMENT" ->
             Each("PLACE_INITIAL_SETTLEMENT", legal.initialSettlements)
        [] d.type = None /\ phase = "SETUP_ROAD" -> Each("PLACE_INITIAL_ROAD", legal.initialRoads)
        [] d.type = None /\ phase = "ROLL_REQUIRED" ->
             FirstOf(<<BestCards(legal), Only("ROLL_DICE")>>)
        [] d.type = None /\ phase = "ACTION" -> ActionChoices(v, legal)
        [] OTHER ->      \* the card whose effect is open, or a trade
             CASE phase = "FREE_ROAD_PLACEMENT" ->
                    IF legal.canFinishFreeRoads THEN Only("FINISH_FREE_ROAD_PLACEMENT")
                    ELSE Each("BUILD_ROAD", legal.roads)
               [] legal.inventions # {} -> InventionChoices(legal)
               [] legal.monopolies # {} -> MonopolyChoices(legal)
               [] legal.response.canReject -> TradeResponses(v, d, view.self.resources)
               [] OTHER -> {}

\* One card of a resource that is owned for one of another.
Proposals(v, view) ==
  LET one(x) == [y \in Resources |-> IF y = x THEN 1 ELSE 0]
      partners == {q \in view.legal.counterparties : view.opponents[q].shown < LeaderPoints}
      offers == {qxy \in partners \X Resources \X Resources :
                   qxy[2] # qxy[3] /\ view.self.resources[qxy[2]] > 0}
  IN  Each("PROPOSE_TRADE", {[to |-> o[1], gives |-> one(o[2]), gets |-> one(o[3])] : o \in offers})

\* The command repeated too often in a turn is replaced by the end of the turn.
Fallback(view) == IF view.legal.canEndTurn THEN Only("END_TURN") ELSE {}

Answers(v, view) == Mandatory(v, view) \cup Proposals(v, view) \cup Fallback(view)

\* Whom the gateway asks: the first who owes a discard, the responder of a
\* trade, the player a decision names, or the current player.
DecisionActor ==
  CASE pending.type = "DISCARD_RESOURCES" -> order[Min({i \in 1..N : order[i] \in Owing})]
    [] pending.type = "RESPOND_TO_TRADE" -> Responder(pending)
    [] pending = NoDecision -> turn.current
    [] OTHER -> pending.actor

Accepts(v, c) ==
  LET x == c.target
  IN  CASE c.type = "PLACE_INITIAL_SETTLEMENT" -> AcceptsInitialSettlement(v, x)
        [] c.type = "PLACE_INITIAL_ROAD" -> AcceptsInitialRoad(v, x)
        [] c.type = "ROLL_DICE" -> AcceptsRoll(v)
        [] c.type = "END_TURN" -> AcceptsEndTurn(v)
        [] c.type = "DISCARD_RESOURCES" -> AcceptsDiscard(v, x)
        [] c.type = "MOVE_ROBBER" -> AcceptsMoveRobber(v, x)
        [] c.type = "STEAL_FROM_PLAYER" -> AcceptsSteal(v, x)
        [] c.type = "BUILD_ROAD" -> AcceptsRoad(v, x) \/ AcceptsFreeRoad(v, x)
        [] c.type = "BUILD_SETTLEMENT" -> AcceptsSettlement(v, x)
        [] c.type = "UPGRADE_CITY" -> AcceptsCity(v, x)
        [] c.type = "BUY_DEVELOPMENT_CARD" -> AcceptsBuyCard(v)
        [] c.type = "PLAY_DEVELOPMENT_CARD" -> AcceptsPlayCard(v, x)
        [] c.type = "FINISH_FREE_ROAD_PLACEMENT" -> AcceptsFinishFreeRoads(v)
        [] c.type = "CHOOSE_INVENTION_RESOURCES" -> AcceptsInvention(v, x)
        [] c.type = "CHOOSE_MONOPOLY_RESOURCE" -> AcceptsMonopoly(v)
        [] c.type = "PROPOSE_TRADE" -> AcceptsProposal(v, x.to, x.gives, x.gets)
        [] c.type = "COUNTER_TRADE" -> AcceptsCounter(v, x.gives, x.gets)
        [] c.type = "ACCEPT_TRADE" -> AcceptsAccept(v)
        [] c.type = "REJECT_TRADE" -> AcceptsReject(v)
        [] c.type = "MARITIME_TRADE" -> AcceptsMaritime(v, x[1], x[2])

-----------------------------------------------------------------------------
(* Properties.                                                             *)

\* In every state of a game that is not over, the player who is asked has an
\* answer, and the engine accepts every answer an agent can give, as the page
\* would a Human's: no legal sequence of commands leaves the players without a
\* command to send, and no weights of the scores make an agent send one that
\* is refused.
AiChoosesLegally ==
  winner = None =>
    LET v == DecisionActor
        view == View(v, Hidden)
    IN  Mandatory(v, view) # {} /\ \A c \in Answers(v, view) : Accepts(v, c) /\ c.type \in view.permitted
=============================================================================
