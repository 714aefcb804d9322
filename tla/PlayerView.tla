----------------------------- MODULE PlayerView -----------------------------
(***************************************************************************)
(* What a player is shown of a game, selectors/player-view.ts: the only    *)
(* state a client or an AI ever decides on.  What the players must not     *)
(* learn of each other is a parameter, the hidden part s of the state, so  *)
(* that the views of two states that differ only there can be compared.    *)
(***************************************************************************)
EXTENDS GameInvariants

\* The view of an Invention card lists pairs.
ASSUME ViewAssumption == InventionCount = 2

Hidden == [hand |-> hand, cards |-> cards, deck |-> deck, pending |-> pending]

ShownInHand(s, q) == {c \in s.cards[q] : c.status = "IN_HAND"}

PlayableWithoutRoads(v, s, c) ==   \* mutant: no road can be placed, and the card is offered
  CASE CardType[c.card] = "VICTORY_POINT" -> "VICTORY_POINT"
    [] c.status # "IN_HAND" -> "ALREADY_PLAYED"
    [] winner # None -> "GAME_OVER"
    [] turn.current # v -> "NOT_YOUR_TURN"
    [] s.pending # NoDecision -> "PENDING_DECISION"
    [] turn.phase \notin {"ROLL_REQUIRED", "ACTION"} -> "WRONG_PHASE"
    [] c.acquired >= turn.number -> "BOUGHT_THIS_TURN"
    [] turn.cardPlayed -> "CARD_LIMIT_REACHED"
    [] CardType[c.card] = "INVENTION" /\ Count(bank) < 2 -> "EFFECT_UNAVAILABLE"
    [] OTHER -> "PLAYABLE"
PlayabilityReason(v, s, c) ==
  CASE CardType[c.card] = "VICTORY_POINT" -> "VICTORY_POINT"
    [] c.status # "IN_HAND" -> "ALREADY_PLAYED"
    [] winner # None -> "GAME_OVER"
    [] turn.current # v -> "NOT_YOUR_TURN"
    [] s.pending # NoDecision -> "PENDING_DECISION"
    [] turn.phase \notin {"ROLL_REQUIRED", "ACTION"} -> "WRONG_PHASE"
    [] c.acquired >= turn.number -> "BOUGHT_THIS_TURN"
    [] turn.cardPlayed -> "CARD_LIMIT_REACHED"
    [] CardType[c.card] = "ROAD_BUILDING" /\ FreeRoadCount(buildings, roads, v) = 0 -> "EFFECT_UNAVAILABLE"
    [] CardType[c.card] = "INVENTION" /\ Count(bank) < 2 -> "EFFECT_UNAVAILABLE"
    [] OTHER -> "PLAYABLE"

\* One resource, or two of them, that the bank still has.
InventionSelections ==
  LET pair(x, y) == [z \in Resources |-> (IF z = x THEN 1 ELSE 0) + (IF z = y THEN 1 ELSE 0)]
  IN  {pair(xy[1], xy[2]) : xy \in {o \in Resources \X Resources : Covers(bank, pair(o[1], o[2]))}}

PendingShown(v, s) ==   \* mutant: the terms of a trade are shown to everybody
  LET d == s.pending
  IN  IF d.type # "DISCARD_RESOURCES" THEN d
      ELSE IF v \in DOMAIN d.required \ d.completed THEN [type |-> d.type, required |-> d.required[v]]
      ELSE [type |-> "AWAITING_DISCARDS", remaining |-> DOMAIN d.required \ d.completed]
PendingView(v, s) ==
  LET d == s.pending
      owing == DOMAIN d.required \ d.completed
  IN  CASE d.type = "DISCARD_RESOURCES" ->
             IF v \in owing THEN [type |-> d.type, required |-> d.required[v]]
             ELSE [type |-> "AWAITING_DISCARDS", remaining |-> owing]
        [] d.type = "PLACE_FREE_ROADS" -> [type |-> d.type, decision |-> d, legal |-> LegalFreeRoads(buildings, roads, d.actor)]
        [] d.type \in {"CHOOSE_INVENTION_RESOURCES", "CHOOSE_MONOPOLY_RESOURCE"} ->
             IF d.actor = v THEN d ELSE NoDecision
        [] d.type = "RESPOND_TO_TRADE" ->
             IF v \in {d.initiator, d.counterparty} THEN d
             ELSE [type |-> "TRADE_IN_PROGRESS", initiator |-> d.initiator, counterparty |-> d.counterparty,
                   responder |-> Responder(d), depth |-> d.depth]
        [] OTHER -> d

\* What the responder of a trade may answer.
TradeResponse(v, s) ==
  LET d == s.pending
      responds == d.type = "RESPOND_TO_TRADE" /\ Responder(d) = v
      outgoing == IF d.initiator = v THEN d.gives ELSE d.gets
  IN  [canReject |-> responds,
       canAccept |-> responds /\ Covers(s.hand[v], outgoing),
       canCounter |-> responds /\ d.depth = 0 /\ Count(s.hand[v]) > 0]

MaritimeOptions(v, held) ==
  {xy \in Resources \X Resources :
     xy[2] # xy[1] /\ held[xy[1]] >= MaritimeRatio(buildings, v, xy[1]) /\ bank[xy[2]] > 0}

\* The entries of LegalActionView; the commands it permits follow from them.
LegalActions(v, s) ==
  LET d == s.pending
      mine == s.hand[v]
      open(phase) == winner = None /\ turn.current = v /\ d = NoDecision /\ turn.phase = phase
      mineToDecide(type) == d.type = type /\ d.actor = v
      when(condition, set) == IF condition THEN set ELSE {}
      action == open("ACTION")
      freeRoads == mineToDecide("PLACE_FREE_ROADS") /\ turn.phase = "FREE_ROAD_PLACEMENT"
      owes == d.type = "DISCARD_RESOURCES" /\ v \in DOMAIN d.required \ d.completed
      free == LegalFreeRoads(buildings, roads, v)
  IN  [initialSettlements |-> when(open("SETUP_SETTLEMENT"),
                                   {x \in Vertices : ValidInitialSettlement(buildings, v, x)}),
       initialRoads |-> when(open("SETUP_ROAD"),
                             {e \in Edges : ValidInitialRoad(roads, v, e, turn.setup.settlement)}),
       roads |-> when(freeRoads \/ (action /\ Covers(mine, RoadCost)), free),
       settlements |-> when(action /\ Covers(mine, SettlementCost),
                            {x \in Vertices : ValidPaidSettlement(buildings, roads, v, x)}),
       cities |-> when(action /\ Covers(mine, CityCost), {x \in Vertices : ValidCity(buildings, v, x)}),
       canRoll |-> open("ROLL_REQUIRED"),
       canEndTurn |-> action,
       canBuy |-> action /\ s.deck # <<>> /\ Covers(mine, CardCost),
       playable |-> {c \in s.cards[v] : PlayabilityReason(v, s, c) = "PLAYABLE"},
       discard |-> IF owes THEN d.required[v] ELSE None,
       tiles |-> when(mineToDecide("MOVE_ROBBER"), Tiles \ {robber}),
       targets |-> IF mineToDecide("CHOOSE_ROBBER_TARGET") THEN d.targets ELSE {},
       inventions |-> when(mineToDecide("CHOOSE_INVENTION_RESOURCES"), InventionSelections),
       monopolies |-> when(mineToDecide("CHOOSE_MONOPOLY_RESOURCE"), Resources),
       maritime |-> when(action, MaritimeOptions(v, mine)),
       counterparties |-> when(action, Players \ {v}),
       canPropose |-> action /\ Count(mine) > 0,
       response |-> TradeResponse(v, s),
       canFinishFreeRoads |-> freeRoads /\ d.remaining = 1 /\ free = {}]

\* permittedCommandTypes: what the buttons of the page are enabled by
Permitted(legal) ==
  LET any == [PLACE_INITIAL_SETTLEMENT |-> legal.initialSettlements, PLACE_INITIAL_ROAD |-> legal.initialRoads,
              MOVE_ROBBER |-> legal.tiles, STEAL_FROM_PLAYER |-> legal.targets,
              BUILD_ROAD |-> legal.roads, BUILD_SETTLEMENT |-> legal.settlements, UPGRADE_CITY |-> legal.cities,
              PLAY_DEVELOPMENT_CARD |-> legal.playable, MARITIME_TRADE |-> legal.maritime,
              CHOOSE_INVENTION_RESOURCES |-> legal.inventions, CHOOSE_MONOPOLY_RESOURCE |-> legal.monopolies]
      can == [ROLL_DICE |-> legal.canRoll, DISCARD_RESOURCES |-> legal.discard # None,
              BUY_DEVELOPMENT_CARD |-> legal.canBuy, FINISH_FREE_ROAD_PLACEMENT |-> legal.canFinishFreeRoads,
              PROPOSE_TRADE |-> legal.canPropose, ACCEPT_TRADE |-> legal.response.canAccept,
              REJECT_TRADE |-> legal.response.canReject, COUNTER_TRADE |-> legal.response.canCounter,
              END_TURN |-> legal.canEndTurn]
  IN  {type \in DOMAIN any : any[type] # {}} \cup {type \in DOMAIN can : can[type]}

View(v, s) ==
  LET shown(q) == Points(buildings, awards, s.cards, q)
                    - Cardinality({c \in ShownInHand(s, q) : CardType[c.card] = "VICTORY_POINT"})
      legal == LegalActions(v, s)
  IN  [game |-> <<buildings, roads, robber, bank, Len(s.deck), turn, awards, winner>>,
       self |-> [resources |-> s.hand[v], cards |-> s.cards[v], knights |-> knights[v], shown |-> shown(v),
                 points |-> Points(buildings, awards, s.cards, v)],
       opponents |-> [q \in Players \ {v} |->
                        [count |-> Count(s.hand[q]), cards |-> Cardinality(ShownInHand(s, q)),
                         knights |-> knights[q], shown |-> shown(q)]],
       pending |-> PendingView(v, s),
       legal |-> legal, permitted |-> Permitted(legal)]

-----------------------------------------------------------------------------
(* Properties.                                                             *)

\* What the view offers a player is what the engine accepts from that player,
\* for every kind of command and for every target of it.
ViewMatchesEngine ==
  \A v \in Players :
    LET legal == LegalActions(v, Hidden)
    IN  /\ legal.initialSettlements = {x \in Vertices : AcceptsInitialSettlement(v, x)}
        /\ legal.initialRoads = {e \in Edges : AcceptsInitialRoad(v, e)}
        /\ legal.roads = {e \in Edges : AcceptsRoad(v, e) \/ AcceptsFreeRoad(v, e)}
        /\ legal.settlements = {x \in Vertices : AcceptsSettlement(v, x)}
        /\ legal.cities = {x \in Vertices : AcceptsCity(v, x)}
        /\ legal.canRoll = AcceptsRoll(v) /\ legal.canEndTurn = AcceptsEndTurn(v)
        /\ legal.canBuy = AcceptsBuyCard(v)
        /\ legal.playable = {c \in cards[v] : AcceptsPlayCard(v, c)}
        /\ legal.discard # None <=> \E bag \in Discards(v) : AcceptsDiscard(v, bag)
        /\ legal.tiles = {t \in Tiles : AcceptsMoveRobber(v, t)}
        /\ legal.targets = {q \in Players : AcceptsSteal(v, q) /\ Count(hand[q]) > 0}
        /\ legal.inventions = {bag \in Inventions : AcceptsInvention(v, bag)}
        /\ legal.monopolies = {x \in Resources : AcceptsMonopoly(v)}
        /\ legal.maritime = {xy \in Resources \X Resources : AcceptsMaritime(v, xy[1], xy[2])}
        /\ legal.response.canAccept = AcceptsAccept(v) /\ legal.response.canReject = AcceptsReject(v)
        /\ legal.canFinishFreeRoads = AcceptsFinishFreeRoads(v)

\* Other hidden parts: an opponent's card of x is one of y, two cards are
\* exchanged wherever they are, or the trade that is open has its terms turned.
Rehanded(s, q, x, y) == [s EXCEPT !.hand[q][x] = @ - 1, !.hand[q][y] = @ + 1]
Exchanged(x, pair) == IF x \in pair THEN CHOOSE y \in pair : y # x ELSE x
Recarded(s, pair) ==
  [s EXCEPT !.deck = [i \in DOMAIN s.deck |-> Exchanged(s.deck[i], pair)],
            !.cards = [q \in Players |-> {[c EXCEPT !.card = Exchanged(c.card, pair)] : c \in s.cards[q]}]]
Reoffered(s) == [s EXCEPT !.pending = Offer(@.initiator, @.counterparty, @.author, @.gets, @.gives, @.depth)]

\* The hidden parts a player cannot tell from s: the cards exchanged are unseen,
\* one of them the next or an opponent's, and the trade is one of others.
Twins(v, s) ==
  LET others == Players \ {v}
      held == {c.card : c \in UNION {ShownInHand(s, q) : q \in others}}
      first == held \cup (IF s.deck = <<>> THEN {} ELSE {Head(s.deck)})
      resources == {qxy \in others \X Resources \X Resources : qxy[2] # qxy[3] /\ s.hand[qxy[1]][qxy[2]] > 0}
      pairs == {{xy[1], xy[2]} : xy \in {o \in first \X (ToSet(s.deck) \cup held) : o[1] # o[2]}}
      offers == {d \in {s.pending} : d.type = "RESPOND_TO_TRADE" /\ v \notin {d.initiator, d.counterparty}}
  IN  {Rehanded(s, o[1], o[2], o[3]) : o \in resources} \cup {Recarded(s, pair) : pair \in pairs}
        \cup {Reoffered(s) : d \in offers}

\* A view gives nothing away: it is the same in all states that differ only
\* in what its player does not know, the commands it offers included.
ViewIsPrivate ==
  \A v \in Players :
    LET view == View(v, Hidden)
    IN  \A t \in Twins(v, Hidden) : View(v, t) = view
=============================================================================
