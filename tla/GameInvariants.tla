--------------------------- MODULE GameInvariants ---------------------------
(***************************************************************************)
(* The assertions of packages/game-core/src/engine, as predicates of an    *)
(* engine state, and what a game must never do.  The handlers of the       *)
(* engine evaluate the assertions on the state a command finds and on the  *)
(* one it leaves, and throw where one is false: a state that breaks one    *)
(* would make every later command of the game fail.                        *)
(***************************************************************************)
EXTENDS GameEngine

Setup == turn.phase \in {"SETUP_SETTLEMENT", "SETUP_ROAD"}

ExpectedSetupPlayer(round, i) == order[IF round = 1 THEN i + 1 ELSE N - i]

InitialSetupState ==
  LET s == turn.setup
      placed == buildings[s.settlement]
  IN  Setup => /\ winner = None /\ pending = NoDecision /\ turn.number = 0
               /\ s.round \in {1, 2} /\ s.index \in 0..(N - 1)
               /\ turn.current = ExpectedSetupPlayer(s.round, s.index)
               /\ IF turn.phase = "SETUP_SETTLEMENT" THEN s.settlement = None
                  ELSE placed = Building(turn.current, "SETTLEMENT")

\* Who a decision names, and how much it asks for.
PendingDecisionState ==
  CASE pending.type = "DISCARD_RESOURCES" ->
         /\ pending.trigger \in Players
         /\ \A q \in DOMAIN pending.required : q \in Players /\ pending.required[q] > 0
         /\ pending.completed \subseteq DOMAIN pending.required
    [] pending.type = "CHOOSE_ROBBER_TARGET" -> pending.actor \in Players /\ pending.targets \subseteq Players
    [] pending.type = "RESPOND_TO_TRADE" -> {pending.initiator, pending.counterparty, pending.author} \subseteq Players
    [] OTHER -> pending = NoDecision \/ pending.actor \in Players

\* Every place of the board is known, and what stands on it belongs to a player.
BoardState ==
  /\ DOMAIN buildings = Vertices /\ robber \in Tiles
  /\ \A v \in Vertices :
       buildings[v] = Unbuilt \/ \E q \in Players, kind \in {"SETTLEMENT", "CITY"} : buildings[v] = Building(q, kind)
  /\ roads \in [Edges -> Players \cup {None}]

\* Nobody and nothing owes cards.
ResourceState == bank \in Bags /\ hand \in [Players -> Bags]

Decision == [ROBBER_MOVE_REQUIRED |-> "MOVE_ROBBER", ROBBER_TARGET_REQUIRED |-> "CHOOSE_ROBBER_TARGET"]

NormalTurnState ==
  ~Setup =>
    /\ ToSet(order) = Players /\ turn.current \in Players
    /\ turn.setup = None /\ turn.number > 0
    /\ ResourceState /\ BoardState
    /\ turn.phase = "ROLL_REQUIRED" => turn.lastRoll = None
    /\ turn.phase = "ACTION" =>
         /\ turn.lastRoll # None
         /\ pending.type \in {None, "CHOOSE_INVENTION_RESOURCES", "CHOOSE_MONOPOLY_RESOURCE", "RESPOND_TO_TRADE"}
    /\ PendingDecisionState
    /\ turn.phase = "DISCARD_REQUIRED" =>
         pending.type = "DISCARD_RESOURCES" /\ DOMAIN pending.required # {} /\ turn.lastRoll = Seven
    /\ turn.phase \in DOMAIN Decision =>
         /\ pending.type = Decision[turn.phase] /\ pending.actor = turn.current
         /\ pending.cause = None => turn.lastRoll = Seven
    /\ turn.phase = "ROBBER_TARGET_REQUIRED" =>
         /\ pending.tile = robber /\ pending.targets # {}
         /\ pending.targets = RobberTargets(buildings, hand, pending.tile, pending.actor)
    /\ (turn.phase = "GAME_OVER") = (winner # None)

Conserved == \A x \in Resources : bank[x] + SumFunction([q \in Players |-> hand[q][x]]) = BankSize

RobberWorkflowState ==
  ~Setup =>
    /\ Conserved
    /\ turn.phase = "DISCARD_REQUIRED" =>
         /\ pending.trigger = turn.current
         /\ Owing # {}
         /\ \A q \in Owing : pending.required[q] = Count(hand[q]) \div 2

PaidBuildingState ==
  /\ Conserved
  /\ \A q \in Players :
       /\ Cardinality(Roads(roads, q)) <= RoadLimit
       /\ Cardinality(Settlements(buildings, q)) <= SettlementLimit
       /\ Cardinality(Cities(buildings, q)) <= CityLimit

LargestArmy == awards.army # None =>
  knights[awards.army] >= MinArmy /\ \A q \in Players : knights[q] <= knights[awards.army]

LongestRoad ==
  LET length(q) == LongestRoadLength(buildings, roads, q)
  IN  awards.road # None => /\ length(awards.road) >= MinRoad
                            /\ \A q \in Players : length(q) <= length(awards.road)

ScoringState ==
  /\ winner # None =>
       /\ turn.phase = "GAME_OVER" /\ winner = turn.current /\ pending = NoDecision
       /\ Points(buildings, awards, cards, winner) >= Target
       /\ \A c \in InHand(winner) : CardType[c.card] # "VICTORY_POINT"
  /\ LongestRoad /\ LargestArmy

OwnedCard(c) ==
  /\ c.acquired \in 0..turn.number
  /\ c.status \in {"IN_HAND", IF CardType[c.card] = "VICTORY_POINT" THEN "REVEALED" ELSE "PLAYED"}

PlayedCard(q, card, type) ==
  CardType[card] = type /\ \E c \in cards[q] : c.card = card /\ c.status = "PLAYED"

PendingCoherence ==
  LET effect(type) == pending.actor = turn.current /\ PlayedCard(pending.actor, pending.card, type)
  IN  CASE pending.type = "PLACE_FREE_ROADS" ->
             turn.phase = "FREE_ROAD_PLACEMENT" /\ pending.remaining \in {1, 2} /\ effect("ROAD_BUILDING")
        [] pending.type = "CHOOSE_INVENTION_RESOURCES" -> turn.phase = Resume /\ effect("INVENTION")
        [] pending.type = "CHOOSE_MONOPOLY_RESOURCE" -> turn.phase = Resume /\ effect("MONOPOLY")
        [] pending.type \in {"MOVE_ROBBER", "CHOOSE_ROBBER_TARGET"} ->
             pending.cause # None => /\ pending.actor = turn.current
                                     /\ PlayedCard(pending.actor, pending.cause, "KNIGHT")
        [] OTHER -> TRUE

\* Every card of the game is in the deck or with one player, once.
DevelopmentCardState ==
  LET held == {qc \in Players \X UNION {cards[o] : o \in Players} : qc[2] \in cards[qc[1]]}
      ids == {qc[2].card : qc \in held}
  IN  /\ \A qc \in held : OwnedCard(qc[2])
      /\ Cardinality(held) = Cardinality(ids) /\ ids \cap ToSet(deck) = {} /\ ids \cup ToSet(deck) = Cards
      /\ Len(deck) + Cardinality(ids) = Cardinality(Cards)
      /\ \A q \in Players :
           knights[q] = Cardinality({c \in cards[q] : c.status = "PLAYED" /\ CardType[c.card] = "KNIGHT"})
      /\ winner # None => pending = NoDecision
      /\ PendingCoherence

TradingState ==
  pending.type = "RESPOND_TO_TRADE" =>
    /\ turn.phase = "ACTION" /\ winner = None
    /\ pending.initiator # pending.counterparty /\ pending.initiator = turn.current
    /\ ValidBundles(pending.gives, pending.gets)
    /\ IF pending.depth = 0
       THEN pending.author = pending.initiator /\ Covers(hand[pending.author], pending.gives)
       ELSE pending.author = pending.counterparty /\ Covers(hand[pending.author], pending.gets)

CreatedGame ==
  /\ hand = [q \in Players |-> Empty] /\ bank = [x \in Resources |-> BankSize]
  /\ ToSet(deck) = Cards /\ IsInjective(deck)
  /\ turn.number = 0 /\ turn.current = order[1] /\ ToSet(order) = Players
  /\ turn.setup = [round |-> 1, index |-> 0, settlement |-> None]
  /\ awards = [road |-> None, army |-> None] /\ winner = None

-----------------------------------------------------------------------------
(* Properties.                                                             *)

\* The assertions of the engine hold in every state that legal commands can
\* reach: no sequence of them makes the engine throw on the next one.
AssertionsHold ==
  /\ InitialSetupState /\ NormalTurnState /\ RobberWorkflowState /\ PaidBuildingState
  /\ ScoringState /\ DevelopmentCardState /\ TradingState
  /\ turn.number = 0 /\ buildings = [v \in Vertices |-> Unbuilt] => CreatedGame

\* A player whose turn it is and who has the points to win has won, unless a
\* decision is open: points that came in with an opponent's command, when the
\* longest road changed hands, count when the turn begins.
NobodyPlaysOn ==
  ~Setup /\ winner = None /\ pending = NoDecision => Points(buildings, awards, cards, turn.current) < Target

\* What a step may do with the awards.
Earned ==
  /\ awards.road # None /\ awards'.road # awards.road =>
       LET length(q) == LongestRoadLength(buildings', roads', q)
       IN  \/ awards'.road # None /\ length(awards'.road) > length(awards.road)
           \/ length(awards.road) < MinRoad
           \/ \E q \in Players : length(q) > length(awards.road)
  /\ awards.army # None /\ awards'.army # awards.army =>
       awards'.army # None /\ knights'[awards'.army] > knights'[awards.army]

\* An award is taken from its holder by a player with strictly more, or by
\* an opponent's settlement that breaks the road; a tie changes nothing.
AwardsAreEarned == [][Earned]_vars

\* The game as TurnOrder knows it.
Shown ==
  LET decision == pending.type
      s == turn.setup
  IN  [order |-> order,
       setup |-> IF s = None THEN None ELSE (s.round - 1) * N + s.index + 1,
       current |-> turn.current,
       half |-> IF turn.lastRoll # None \/ turn.phase = "SETUP_ROAD" THEN 2 ELSE 1,
       card |-> turn.cardPlayed,
       owing |-> CASE decision = None -> {}
                   [] decision = "DISCARD_RESOURCES" -> Owing
                   [] decision = "RESPOND_TO_TRADE" -> {Responder(pending)}
                   [] OTHER -> {pending.actor},
       more |-> CASE decision = "DISCARD_RESOURCES" -> 2
                  [] decision = "MOVE_ROBBER" -> 1
                  [] decision = "RESPOND_TO_TRADE" -> 1 - pending.depth
                  [] decision = "PLACE_FREE_ROADS" -> pending.remaining - 1
                  [] OTHER -> 0,
       winner |-> winner]

Rotations == {[i \in 1..N |-> Seats[((first + i - 1) % N) + 1]] : first \in FirstSeats}

Turns == INSTANCE TurnOrder WITH Orders <- Rotations, game <- Shown

\* Turns pass in the order drawn, a decision is open only while somebody owes
\* an answer and is settled in a bounded number of answers, one card is
\* played in a turn, and nothing follows a win, whatever the commands do.
FollowsTurns == Turns!Spec

\* The trails over a player's roads: which roads were taken, each once and
\* each from where the last one ended, and where that led.  No way leads on
\* from an opponent's building.
TrailsOf(q) ==
  LET onward(t) == {e \in Roads(roads, q) \ t.used : t.at \in e}
      goesOn(t) == t.used = {} \/ buildings[t.at].owner \in {None, q}
      extended(t) == {[used |-> t.used \cup {e}, at |-> Other(e, t.at)] : e \in onward(t)}
      walked[n \in Nat] ==
        IF n = 0 THEN {[used |-> {}, at |-> v] : v \in Vertices}
        ELSE walked[n - 1] \cup UNION {extended(t) : t \in {u \in walked[n - 1] : goesOn(u)}}
  IN  walked[RoadLimit]

\* The length the search of the code returns is that of a longest trail.
LongestRoadIsLongest ==
  \A q \in Players : LongestRoadLength(buildings, roads, q) =
                       Max({Cardinality(t.used) : t \in TrailsOf(q)})
=============================================================================
