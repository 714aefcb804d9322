----------------------------- MODULE GameEngine -----------------------------
(***************************************************************************)
(* The rules engine, packages/game-core/src/engine: one action for every   *)
(* kind of command executeGameCommand accepts, from the creation of a game *)
(* to its winner.  A command that the engine refuses changes nothing and   *)
(* is not a step.  The version a command expects, and the identifiers of   *)
(* offers, belong to the delivery of commands and are left to GameCommands.*)
(***************************************************************************)
EXTENDS BoardRules, SequencesExt

CONSTANTS Seats,                \* the configured players, a sequence
          FirstSeats,           \* bound: the first players that are drawn
          Decks,                \* bound: the shuffles of the deck, sequences of cards
          CardType,             \* the type of every card
          BankSize,             \* cards of every resource in the game
          RoadCost, SettlementCost, CityCost, CardCost,
          HandLimit,            \* larger hands are halved on a seven
          Rolls,                \* bound: the totals drawn in each turn, a sequence; then nobody rolls
          Seven,                \* the total that moves the robber
          MinRoad, MinArmy, AwardPoints, Target,
          InventionCount,
          Desert,               \* where the robber starts
          Sites,                \* bound: where each seat tries to settle in the setup
          Terms,                \* bound: the terms of a trade, [gives, gets : Bags]
          Transferable          \* bound: resources the bank is asked for

\* How far the setup has come, and the settlement that waits for its road.
Setups == [round : {1, 2}, index : 0..(Len(Seats) - 1), settlement : Vertices \cup {None}]

\* What a player may be asked to decide.
DecisionTypes ==
  {"DISCARD_RESOURCES", "MOVE_ROBBER", "CHOOSE_ROBBER_TARGET", "PLACE_FREE_ROADS",
   "CHOOSE_INVENTION_RESOURCES", "CHOOSE_MONOPOLY_RESOURCE", "RESPOND_TO_TRADE"}

ASSUME EngineAssumption ==
  /\ Seats \in Seq(Players) /\ Len(Seats) > 1 /\ IsInjective(Seats) /\ ToSet(Seats) = Players
  /\ FirstSeats \subseteq 0..(Len(Seats) - 1)
  /\ \A shuffled \in Decks :      \* every card once
       shuffled \in Seq(DOMAIN CardType) /\ IsInjective(shuffled) /\ ToSet(shuffled) = DOMAIN CardType
  /\ \A i \in 1..Len(Seats), round \in {1, 2} : Sites[<<i, round>>] \subseteq Vertices
  /\ {RoadCost, SettlementCost, CityCost, CardCost} \subseteq Bags
  /\ \A terms \in Terms : {terms.gives, terms.gets} \subseteq Bags
  /\ Transferable \subseteq Resources
  /\ Desert \in Tiles
  /\ {Seven, BankSize, MinRoad, MinArmy, AwardPoints, Target, InventionCount} \subseteq Nat
  /\ HandLimit \in Nat \ {0}
  /\ Target > 2      \* the settlements of the setup do not win
  /\ None \notin Setups \cup DecisionTypes \cup DOMAIN CardType
  /\ None \notin Nat /\ \A number \in DOMAIN Rolls : None \notin Rolls[number]

VARIABLES order,     \* playerOrder
          buildings, roads, robber,     \* board occupancy
          bank, deck,
          hand, cards, knights,         \* players: resources, owned cards, played knights
          turn, awards, pending, winner

vars == <<order, buildings, roads, robber, bank, deck, hand, cards, knights,
          turn, awards, pending, winner>>

board == <<buildings, roads, robber>>
Cards == DOMAIN CardType
Current == turn.current
NoDecision == [type |-> None]
N == Len(Seats)

Init ==
  /\ \E first \in FirstSeats : order = [i \in 1..N |-> Seats[((first + i - 1) % N) + 1]]
  /\ buildings = [v \in Vertices |-> Unbuilt]
  /\ roads = [e \in Edges |-> None]
  /\ robber = Desert
  /\ bank = [x \in Resources |-> BankSize]
  /\ deck \in Decks
  /\ hand = [p \in Players |-> Empty]
  /\ cards = [p \in Players |-> {}]
  /\ knights = [p \in Players |-> 0]
  /\ turn = [number |-> 0, current |-> order[1], phase |-> "SETUP_SETTLEMENT",
             setup |-> [round |-> 1, index |-> 0, settlement |-> None],
             lastRoll |-> None, cardPlayed |-> FALSE]
  /\ awards = [road |-> None, army |-> None]
  /\ pending = NoDecision
  /\ winner = None

-----------------------------------------------------------------------------
(* Scores, awards and victory.                                             *)

InHand(p) == {c \in cards[p] : c.status = "IN_HAND"}

Points(b, aw, cs, p) ==
  Cardinality(Settlements(b, p)) + 2 * Cardinality(Cities(b, p))
    + (IF aw.road = p THEN AwardPoints ELSE 0) + (IF aw.army = p THEN AwardPoints ELSE 0)
    + Cardinality({c \in cs[p] : CardType[c.card] = "VICTORY_POINT"})

Reveal(held) ==
  {IF CardType[c.card] = "VICTORY_POINT" THEN [c EXCEPT !.status = "REVEALED"] ELSE c : c \in held}

Reconciled(b, r, kn) ==
  [road |-> Holder([p \in Players |-> LongestRoadLength(b, r, p)], awards.road, MinRoad),
   army |-> Holder(kn, awards.army, MinArmy)]

\* The turn, decision and cards that a command would leave, unless the
\* current player has won with them.
ResolveVictory(b, aw, cs, tn, decision) ==
  IF decision = NoDecision /\ Points(b, aw, cs, tn.current) >= Target
  THEN /\ turn' = [tn EXCEPT !.phase = "GAME_OVER"]
       /\ winner' = tn.current
       /\ cards' = [cs EXCEPT ![tn.current] = Reveal(@)]
       /\ pending' = NoDecision
  ELSE /\ turn' = tn /\ pending' = decision /\ cards' = cs
       /\ UNCHANGED winner

\* reconcileAwardsAndCurrentPlayerVictory after a command of the action phase
Reconcile(b, r, cs) ==
  LET aw == Reconciled(b, r, knights)
  IN  awards' = aw /\ ResolveVictory(b, aw, cs, turn, NoDecision)

-----------------------------------------------------------------------------
(* Who may send what: the checks every handler makes before its own.       *)

InTurn(p, phases) ==
  winner = None /\ pending = NoDecision /\ p = Current /\ turn.phase \in phases

Decides(type, phases) == winner = None /\ pending.type = type /\ turn.phase \in phases

Resume == IF turn.lastRoll = None THEN "ROLL_REQUIRED" ELSE "ACTION"
Pay(p, cost) ==
  /\ hand' = [hand EXCEPT ![p] = Minus(@, cost)]
  /\ bank' = Plus(bank, cost)

-----------------------------------------------------------------------------
(* Initial setup: once through the order, and once back.                   *)

NextSetupTurnForward ==   \* mutant: the second round goes through the order again
  LET s == turn.setup
      last == s.index = N - 1
      i == IF last THEN 0 ELSE s.index + 1
  IN  IF last /\ s.round = 2
      THEN [number |-> 1, current |-> order[1], phase |-> "ROLL_REQUIRED",
            setup |-> None, lastRoll |-> None, cardPlayed |-> FALSE]
      ELSE [turn EXCEPT !.phase = "SETUP_SETTLEMENT", !.current = order[i + 1],
                        !.setup = [round |-> IF last THEN 2 ELSE s.round, index |-> i, settlement |-> None]]
NextSetupTurn ==
  LET at(round, i) ==
        [turn EXCEPT !.phase = "SETUP_SETTLEMENT",
                     !.current = order[IF round = 1 THEN i + 1 ELSE N - i],
                     !.setup = [round |-> round, index |-> i, settlement |-> None]]
      s == turn.setup
  IN  IF s.index < N - 1 THEN at(s.round, s.index + 1)
      ELSE IF s.round = 1 THEN at(2, 0)
      ELSE [number |-> 1, current |-> order[1], phase |-> "ROLL_REQUIRED",
            setup |-> None, lastRoll |-> None, cardPlayed |-> FALSE]

AcceptsInitialSettlement(p, v) ==
  InTurn(p, {"SETUP_SETTLEMENT"}) /\ ValidInitialSettlement(buildings, p, v)

PlaceInitialSettlement(p, v) ==
  LET grant == IF turn.setup.round = 2 THEN StartingGrant(v, bank) ELSE Empty
  IN  /\ AcceptsInitialSettlement(p, v)
      /\ buildings' = [buildings EXCEPT ![v] = Building(p, "SETTLEMENT")]
      /\ hand' = [hand EXCEPT ![p] = Plus(@, grant)]
      /\ bank' = Minus(bank, grant)
      /\ turn' = [turn EXCEPT !.phase = "SETUP_ROAD", !.setup.settlement = v]
      /\ UNCHANGED <<order, roads, robber, deck, cards, knights, awards, pending, winner>>

AcceptsInitialRoad(p, e) ==
  InTurn(p, {"SETUP_ROAD"}) /\ ValidInitialRoad(roads, p, e, turn.setup.settlement)

PlaceInitialRoad(p, e) ==
  /\ AcceptsInitialRoad(p, e)
  /\ roads' = [roads EXCEPT ![e] = p]
  /\ turn' = NextSetupTurn
  /\ UNCHANGED <<order, buildings, robber, bank, deck, hand, cards, knights, awards, pending, winner>>

-----------------------------------------------------------------------------
(* The dice and the end of a turn.                                         *)

AcceptsRoll(p) == InTurn(p, {"ROLL_REQUIRED"})

RollDice(p, total) ==
  LET owing == {q \in Players : Count(hand[q]) > HandLimit}
      yield == Produced(buildings, robber, bank, total)
      rolled(phase) == [turn EXCEPT !.phase = phase, !.setup = None, !.lastRoll = total]
  IN  /\ AcceptsRoll(p)
      /\ \/ /\ total = Seven /\ owing # {}
            /\ turn' = rolled("DISCARD_REQUIRED")
            /\ pending' = [type |-> "DISCARD_RESOURCES", trigger |-> Current,
                           required |-> [q \in owing |-> Count(hand[q]) \div 2], completed |-> {}]
            /\ UNCHANGED <<hand, bank>>
         \/ /\ total = Seven /\ owing = {}
            /\ turn' = rolled("ROBBER_MOVE_REQUIRED")
            /\ pending' = [type |-> "MOVE_ROBBER", actor |-> Current, cause |-> None]
            /\ UNCHANGED <<hand, bank>>
         \/ /\ total # Seven
            /\ turn' = rolled("ACTION")
            /\ hand' = [q \in Players |-> Plus(hand[q], yield[q])]
            /\ bank' = [x \in Resources |->
                          bank[x] - SumFunction([q \in Players |-> yield[q][x]])]
            /\ UNCHANGED pending
      /\ UNCHANGED <<order, board, deck, cards, knights, awards, winner>>

AcceptsEndTurn(p) == InTurn(p, {"ACTION"})

EndTurnUnscored(p) ==   \* mutant: the next player's points are not looked at
  LET i == CHOOSE i \in 1..N : order[i] = Current
  IN  /\ AcceptsEndTurn(p)
      /\ turn' = [number |-> turn.number + 1, current |-> order[(i % N) + 1],
                  phase |-> "ROLL_REQUIRED", setup |-> None, lastRoll |-> None, cardPlayed |-> FALSE]
      /\ UNCHANGED <<order, board, bank, deck, hand, cards, knights, awards, pending, winner>>
EndTurn(p) ==
  LET i == CHOOSE i \in 1..N : order[i] = Current
      next == [number |-> turn.number + 1, current |-> order[(i % N) + 1],
               phase |-> "ROLL_REQUIRED", setup |-> None, lastRoll |-> None, cardPlayed |-> FALSE]
  IN  /\ AcceptsEndTurn(p)
      /\ ResolveVictory(buildings, awards, cards, next, NoDecision)
      /\ UNCHANGED <<order, board, bank, deck, hand, knights, awards>>

-----------------------------------------------------------------------------
(* Discards and the robber.                                                *)

Owing == {q \in DOMAIN pending.required : q \notin pending.completed}

AcceptsDiscard(p, bag) ==
  /\ Decides("DISCARD_RESOURCES", {"DISCARD_REQUIRED"}) /\ p \in Owing
  /\ Covers(hand[p], bag) /\ Count(bag) = pending.required[p]

DiscarderMovesRobber(p, bag) ==   \* mutant: the last one to discard moves the robber
  /\ AcceptsDiscard(p, bag)
  /\ Pay(p, bag)
  /\ IF Owing = {p}
     THEN /\ turn' = [turn EXCEPT !.phase = "ROBBER_MOVE_REQUIRED"]
          /\ pending' = [type |-> "MOVE_ROBBER", actor |-> p, cause |-> None]
     ELSE /\ pending' = [pending EXCEPT !.completed = @ \cup {p}]
          /\ UNCHANGED turn
  /\ UNCHANGED <<order, board, deck, cards, knights, awards, winner>>
DiscardResources(p, bag) ==
  /\ AcceptsDiscard(p, bag)
  /\ Pay(p, bag)
  /\ IF Owing = {p}
     THEN /\ turn' = [turn EXCEPT !.phase = "ROBBER_MOVE_REQUIRED"]
          /\ pending' = [type |-> "MOVE_ROBBER", actor |-> pending.trigger, cause |-> None]
     ELSE /\ pending' = [pending EXCEPT !.completed = @ \cup {p}]
          /\ UNCHANGED turn
  /\ UNCHANGED <<order, board, deck, cards, knights, awards, winner>>

\* A knight may be played before the dice: then they are still to be rolled.
AfterRobber(cause) == IF cause = None THEN "ACTION" ELSE Resume

\* A robber that a knight moved may have brought its player the largest army.
RobberDone(cause, tn) ==
  IF cause = None
  THEN turn' = tn /\ pending' = NoDecision /\ UNCHANGED <<cards, winner>>
  ELSE ResolveVictory(buildings, awards, cards, tn, NoDecision)

AcceptsMoveRobber(p, t) ==
  /\ Decides("MOVE_ROBBER", {"ROBBER_MOVE_REQUIRED"})
  /\ p = pending.actor /\ t # robber

MoveRobber(p, t) ==
  LET targets == RobberTargets(buildings, hand, t, p)
  IN  /\ AcceptsMoveRobber(p, t)
      /\ robber' = t
      /\ IF targets = {}
         THEN RobberDone(pending.cause, [turn EXCEPT !.phase = AfterRobber(pending.cause)])
         ELSE /\ turn' = [turn EXCEPT !.phase = "ROBBER_TARGET_REQUIRED"]
              /\ pending' = [type |-> "CHOOSE_ROBBER_TARGET", actor |-> p, tile |-> t,
                             targets |-> targets, cause |-> pending.cause]
              /\ UNCHANGED <<cards, winner>>
      /\ UNCHANGED <<order, buildings, roads, bank, deck, hand, knights, awards>>

AcceptsSteal(p, q) ==
  /\ Decides("CHOOSE_ROBBER_TARGET", {"ROBBER_TARGET_REQUIRED"})
  /\ p = pending.actor /\ q \in pending.targets \ {p}

StealFrom(p, q, x) ==
  /\ AcceptsSteal(p, q) /\ hand[q][x] > 0
  /\ hand' = [hand EXCEPT ![p][x] = @ + 1, ![q][x] = @ - 1]
  /\ RobberDone(pending.cause, [turn EXCEPT !.phase = AfterRobber(pending.cause)])
  /\ UNCHANGED <<order, board, bank, deck, knights, awards>>

-----------------------------------------------------------------------------
(* Paid building.                                                          *)

AcceptsRoad(p, e) ==
  /\ InTurn(p, {"ACTION"})
  /\ ValidFreeRoad(buildings, roads, p, e) /\ Covers(hand[p], RoadCost)

BuildRoad(p, e) ==
  LET r == [roads EXCEPT ![e] = p]
  IN  /\ AcceptsRoad(p, e)
      /\ roads' = r
      /\ Pay(p, RoadCost)
      /\ Reconcile(buildings, r, cards)
      /\ UNCHANGED <<order, buildings, robber, deck, knights>>

AcceptsSettlement(p, v) ==
  /\ InTurn(p, {"ACTION"})
  /\ ValidPaidSettlement(buildings, roads, p, v) /\ Covers(hand[p], SettlementCost)

BuildSettlement(p, v) ==
  LET b == [buildings EXCEPT ![v] = Building(p, "SETTLEMENT")]
  IN  /\ AcceptsSettlement(p, v)
      /\ buildings' = b
      /\ Pay(p, SettlementCost)
      /\ Reconcile(b, roads, cards)
      /\ UNCHANGED <<order, roads, robber, deck, knights>>

AcceptsCity(p, v) ==
  InTurn(p, {"ACTION"}) /\ ValidCity(buildings, p, v) /\ Covers(hand[p], CityCost)

UpgradeCity(p, v) ==
  LET b == [buildings EXCEPT ![v] = Building(p, "CITY")]
  IN  /\ AcceptsCity(p, v)
      /\ buildings' = b
      /\ Pay(p, CityCost)
      /\ Reconcile(b, roads, cards)
      /\ UNCHANGED <<order, roads, robber, deck, knights>>

-----------------------------------------------------------------------------
(* Development cards.                                                      *)

AcceptsBuyCard(p) == InTurn(p, {"ACTION"}) /\ deck # <<>> /\ Covers(hand[p], CardCost)

BuyCard(p) ==
  LET bought == [card |-> Head(deck), acquired |-> turn.number, status |-> "IN_HAND"]
  IN  /\ AcceptsBuyCard(p)
      /\ Pay(p, CardCost)
      /\ deck' = Tail(deck)
      /\ Reconcile(buildings, roads, [cards EXCEPT ![p] = @ \cup {bought}])
      /\ UNCHANGED <<order, board, knights>>

\* A card can be played from the turn after it was bought, one in a turn.
Playable(p, c) ==
  /\ c \in InHand(p) /\ CardType[c.card] # "VICTORY_POINT"
  /\ c.acquired < turn.number
  /\ ~turn.cardPlayed

AcceptsPlayCard(p, c) ==
  /\ InTurn(p, {"ROLL_REQUIRED", "ACTION"}) /\ Playable(p, c)
  /\ CardType[c.card] = "ROAD_BUILDING" => FreeRoadCount(buildings, roads, p) > 0
  /\ CardType[c.card] = "INVENTION" => Count(bank) >= InventionCount

PlayCard(p, c) ==
  LET type == CardType[c.card]
      played == [turn EXCEPT !.cardPlayed = TRUE]
      effect(decision) == [type |-> decision, actor |-> p, card |-> c.card]
  IN  /\ AcceptsPlayCard(p, c)
      /\ cards' = [cards EXCEPT ![p] = (@ \ {c}) \cup {[c EXCEPT !.status = "PLAYED"]}]
      /\ \/ /\ type = "KNIGHT"
            /\ knights' = [knights EXCEPT ![p] = @ + 1]
            /\ awards' = Reconciled(buildings, roads, knights')
            /\ turn' = [played EXCEPT !.phase = "ROBBER_MOVE_REQUIRED"]
            /\ pending' = [type |-> "MOVE_ROBBER", actor |-> p, cause |-> c.card]
         \/ /\ type = "ROAD_BUILDING"
            /\ turn' = [played EXCEPT !.phase = "FREE_ROAD_PLACEMENT"]
            /\ pending' = [type |-> "PLACE_FREE_ROADS", actor |-> p, card |-> c.card,
                           remaining |-> FreeRoadCount(buildings, roads, p)]
            /\ UNCHANGED <<knights, awards>>
         \/ /\ type = "INVENTION"
            /\ turn' = played
            /\ pending' = effect("CHOOSE_INVENTION_RESOURCES")
            /\ UNCHANGED <<knights, awards>>
         \/ /\ type = "MONOPOLY"
            /\ turn' = played
            /\ pending' = effect("CHOOSE_MONOPOLY_RESOURCE")
            /\ UNCHANGED <<knights, awards>>
      /\ UNCHANGED <<order, board, bank, deck, hand, winner>>

DecidesCard(p, type, phases) == Decides(type, phases) /\ p = pending.actor

AcceptsFreeRoad(p, e) ==
  /\ DecidesCard(p, "PLACE_FREE_ROADS", {"FREE_ROAD_PLACEMENT"})
  /\ ValidFreeRoad(buildings, roads, p, e)

\* A road that brings the points to win ends the effect at once.
PlaceFreeRoad(p, e) ==
  LET r == [roads EXCEPT ![e] = p]
      aw == Reconciled(buildings, r, knights)
      resumed == [turn EXCEPT !.phase = Resume]
  IN  /\ AcceptsFreeRoad(p, e)
      /\ roads' = r /\ awards' = aw
      /\ IF pending.remaining = 1 \/ Points(buildings, aw, cards, p) >= Target
         THEN ResolveVictory(buildings, aw, cards, resumed, NoDecision)
         ELSE /\ pending' = [pending EXCEPT !.remaining = 1]
              /\ UNCHANGED <<turn, cards, winner>>
      /\ UNCHANGED <<order, buildings, robber, bank, deck, hand, knights>>

AcceptsFinishFreeRoads(p) ==
  /\ DecidesCard(p, "PLACE_FREE_ROADS", {"FREE_ROAD_PLACEMENT"})
  /\ pending.remaining = 1 /\ LegalFreeRoads(buildings, roads, p) = {}

FinishFreeRoads(p) ==
  /\ AcceptsFinishFreeRoads(p)
  /\ turn' = [turn EXCEPT !.phase = Resume]
  /\ pending' = NoDecision
  /\ UNCHANGED <<order, board, bank, deck, hand, cards, knights, awards, winner>>

AcceptsInvention(p, bag) ==
  /\ DecidesCard(p, "CHOOSE_INVENTION_RESOURCES", {"ROLL_REQUIRED", "ACTION"})
  /\ Count(bag) = InventionCount /\ Covers(bank, bag)

ChooseInvention(p, bag) ==
  /\ AcceptsInvention(p, bag)
  /\ hand' = [hand EXCEPT ![p] = Plus(@, bag)]
  /\ bank' = Minus(bank, bag)
  /\ pending' = NoDecision
  /\ UNCHANGED <<order, board, deck, cards, knights, turn, awards, winner>>

AcceptsMonopoly(p) == DecidesCard(p, "CHOOSE_MONOPOLY_RESOURCE", {"ROLL_REQUIRED", "ACTION"})

ChooseMonopoly(p, x) ==
  /\ AcceptsMonopoly(p)
  /\ hand' = [q \in Players |-> [hand[q] EXCEPT ![x] =
                IF q = p THEN SumFunction([o \in Players |-> hand[o][x]]) ELSE 0]]
  /\ pending' = NoDecision
  /\ UNCHANGED <<order, board, bank, deck, cards, knights, turn, awards, winner>>

-----------------------------------------------------------------------------
(* Trades: an offer of the current player, at most one counter-offer by    *)
(* the player it was made to, and the bank.  Only the author of an offer   *)
(* must be able to provide its side of it.                                 *)

ValidBundles(gives, gets) ==
  /\ Count(gives) > 0 /\ Count(gets) > 0
  /\ ~\E x \in Resources : gives[x] > 0 /\ gets[x] > 0

Offer(initiator, counterparty, author, gives, gets, depth) ==
  [type |-> "RESPOND_TO_TRADE", initiator |-> initiator, counterparty |-> counterparty,
   author |-> author, gives |-> gives, gets |-> gets, depth |-> depth]

Responder(offer) == IF offer.author = offer.initiator THEN offer.counterparty ELSE offer.initiator

AcceptsProposal(p, q, gives, gets) ==
  /\ InTurn(p, {"ACTION"}) /\ q # p
  /\ ValidBundles(gives, gets) /\ Covers(hand[p], gives)

ProposeTrade(p, q, gives, gets) ==
  /\ AcceptsProposal(p, q, gives, gets)
  /\ pending' = Offer(p, q, p, gives, gets, 0)
  /\ UNCHANGED <<order, board, bank, deck, hand, cards, knights, turn, awards, winner>>

Responds(p) == winner = None /\ pending.type = "RESPOND_TO_TRADE" /\ p = Responder(pending)

AcceptsReject(p) == Responds(p)

RejectTrade(p) ==
  /\ AcceptsReject(p)
  /\ pending' = NoDecision
  /\ UNCHANGED <<order, board, bank, deck, hand, cards, knights, turn, awards, winner>>

AcceptsCounter(p, gives, gets) ==
  /\ Responds(p) /\ pending.depth = 0
  /\ ValidBundles(gives, gets) /\ Covers(hand[p], gets)

CounterTrade(p, gives, gets) ==
  /\ AcceptsCounter(p, gives, gets)
  /\ pending' = Offer(pending.initiator, p, p, gives, gets, 1)
  /\ UNCHANGED <<order, board, bank, deck, hand, cards, knights, turn, awards, winner>>

AcceptsAccept(p) ==
  /\ Responds(p)
  /\ Covers(hand[pending.initiator], pending.gives)
  /\ Covers(hand[pending.counterparty], pending.gets)

AcceptTrade(p) ==
  /\ AcceptsAccept(p)
  /\ hand' = [hand EXCEPT ![pending.initiator] = Plus(Minus(@, pending.gives), pending.gets),
                          ![pending.counterparty] = Plus(Minus(@, pending.gets), pending.gives)]
  /\ pending' = NoDecision
  /\ UNCHANGED <<order, board, bank, deck, cards, knights, turn, awards, winner>>

AcceptsMaritime(p, give, get) ==
  /\ InTurn(p, {"ACTION"}) /\ give # get
  /\ hand[p][give] >= MaritimeRatio(buildings, p, give) /\ bank[get] >= 1

MaritimeTrade(p, give, get) ==
  LET ratio == MaritimeRatio(buildings, p, give)
  IN  /\ AcceptsMaritime(p, give, get)
      /\ hand' = [hand EXCEPT ![p][give] = @ - ratio, ![p][get] = @ + 1]
      /\ bank' = [bank EXCEPT ![give] = @ + ratio, ![get] = @ - 1]
      /\ UNCHANGED <<order, board, deck, cards, knights, turn, awards, pending, winner>>

-----------------------------------------------------------------------------
\* What a player can choose from: bags of the right size, where one is asked for.
Selections(asked, size, bag) ==
  IF asked THEN {b \in [Resources -> 0..size] : Covers(bag, b) /\ Count(b) = size} ELSE {}
Dice == IF turn.number \in DOMAIN Rolls THEN Rolls[turn.number] ELSE {}
SetupSites == IF turn.setup = None THEN {} ELSE Sites[<<turn.setup.index + 1, turn.setup.round>>]
Discards(p) ==
  LET asked == pending.type = "DISCARD_RESOURCES" /\ p \in Owing
  IN  Selections(asked, IF asked THEN pending.required[p] ELSE 0, hand[p])
Inventions == Selections(pending.type = "CHOOSE_INVENTION_RESOURCES", InventionCount, bank)

\* The game stops at a winner, or where the bound on turns is reached.
Stopped == /\ \/ winner # None
              \/ Dice = {} /\ turn.phase = "ROLL_REQUIRED" /\ pending = NoDecision
           /\ UNCHANGED vars

PlayerStep(p) ==
  \/ \E v \in SetupSites : PlaceInitialSettlement(p, v)
  \/ \E e \in Edges : PlaceInitialRoad(p, e) \/ BuildRoad(p, e) \/ PlaceFreeRoad(p, e)
  \/ \E total \in Dice : RollDice(p, total)
  \/ \E bag \in Discards(p) : DiscardResources(p, bag)
  \/ \E t \in Tiles : MoveRobber(p, t)
  \/ \E q \in Players, x \in Resources : StealFrom(p, q, x)
  \/ \E v \in Vertices : BuildSettlement(p, v) \/ UpgradeCity(p, v)
  \/ BuyCard(p) \/ FinishFreeRoads(p)
  \/ \E c \in cards[p] : PlayCard(p, c)
  \/ \E bag \in Inventions : ChooseInvention(p, bag)
  \/ \E x \in Resources : ChooseMonopoly(p, x)
  \/ \E q \in Players, t \in Terms : ProposeTrade(p, q, t.gives, t.gets)
  \/ \E t \in Terms : CounterTrade(p, t.gives, t.gets)
  \/ AcceptTrade(p) \/ RejectTrade(p)
  \/ \E give \in Resources, get \in Transferable : MaritimeTrade(p, give, get)
  \/ EndTurn(p)

Next == (\E p \in Players : PlayerStep(p)) \/ Stopped

Spec == Init /\ [][Next]_vars
=============================================================================
