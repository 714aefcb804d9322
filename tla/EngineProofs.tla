---------------------------- MODULE EngineProofs ----------------------------
(***************************************************************************)
(* What is known of every game of the rules engine, for every board, deck, *)
(* number of players and price.  In the order of the module: who is asked  *)
(* to decide what and in which phase of the turn (TurnInvariant); that the *)
(* engine implements TurnOrder (TurnsAreFollowed); that nobody plays on    *)
(* with the points to win (NobodyPlaysOnHolds); that no card of a resource *)
(* is lost or made (CardsAreConserved); that the awards are earned         *)
(* (HoldersDeserve, AwardsAreEarnedHolds); that every assertion of the     *)
(* engine holds in every game (AssertionsHoldAlways); and that the search  *)
(* for the longest road finds it (LongestRoadIsLongestHolds).              *)
(***************************************************************************)
EXTENDS GameInvariants, FiniteSetTheorems, WellFoundedInduction, TLAPS

-----------------------------------------------------------------------------
(* The invariant of turns and decisions.                                   *)

Phases ==
  {"SETUP_SETTLEMENT", "SETUP_ROAD", "ROLL_REQUIRED", "ACTION", "DISCARD_REQUIRED", "ROBBER_MOVE_REQUIRED",
   "ROBBER_TARGET_REQUIRED", "FREE_ROAD_PLACEMENT", "GAME_OVER"}

Totals == UNION {Rolls[number] : number \in DOMAIN Rolls}

TurnType == [number : Nat, current : Players, phase : Phases, setup : Setups \cup {None},
             lastRoll : Totals \cup {None}, cardPlayed : BOOLEAN]

\* Every player has one place in the order.
OrderFits ==
  /\ order \in Seq(Players) /\ Len(order) = N
  /\ \A i, j \in 1..N : order[i] = order[j] => i = j
  /\ \A q \in Players : \E i \in 1..N : order[i] = q

\* The phase says whether the dice were rolled; nothing is open in the setup
\* or after a win.
TurnFits ==
  /\ turn \in TurnType /\ winner \in Players \cup {None}
  /\ Setup <=> turn.setup # None
  /\ turn.phase = "ROLL_REQUIRED" => turn.lastRoll = None
  /\ turn.phase \in {"ACTION", "DISCARD_REQUIRED"} => turn.lastRoll # None
  /\ Setup => /\ turn.current = ExpectedSetupPlayer(turn.setup.round, turn.setup.index)
              /\ turn.lastRoll = None /\ ~turn.cardPlayed /\ winner = None /\ pending = NoDecision
  /\ winner # None => turn.phase = "GAME_OVER" /\ winner = turn.current /\ pending = NoDecision

\* Every decision is the current player's, or a step of the current turn, and
\* says what phase it was opened in.
DiscardFits ==
  pending.type = "DISCARD_RESOURCES" =>
    /\ pending = [type |-> "DISCARD_RESOURCES", trigger |-> turn.current,
                  required |-> pending.required, completed |-> pending.completed]
    /\ DOMAIN pending.required \subseteq Players /\ Owing # {}
    /\ turn.phase = "DISCARD_REQUIRED"

RobberFits ==
  pending.type \in {"MOVE_ROBBER", "CHOOSE_ROBBER_TARGET"} =>
    /\ pending.actor = turn.current
    /\ pending.cause = None => turn.lastRoll # None
    /\ turn.phase \in {"ROBBER_MOVE_REQUIRED", "ROBBER_TARGET_REQUIRED"}

CardFits ==
  /\ pending.type = "PLACE_FREE_ROADS" =>
       /\ pending = [type |-> "PLACE_FREE_ROADS", actor |-> turn.current,
                     card |-> pending.card, remaining |-> pending.remaining]
       /\ pending.remaining \in {1, 2}
       /\ turn.phase = "FREE_ROAD_PLACEMENT"
  /\ pending.type \in {"CHOOSE_INVENTION_RESOURCES", "CHOOSE_MONOPOLY_RESOURCE"} =>
       pending.actor = turn.current /\ turn.phase = Resume

TradeFits ==
  pending.type = "RESPOND_TO_TRADE" =>
    /\ pending.initiator = turn.current /\ pending.counterparty \in Players \ {turn.current}
    /\ pending.depth \in {0, 1}
    /\ pending.author = (IF pending.depth = 0 THEN pending.initiator ELSE pending.counterparty)
    /\ turn.phase = "ACTION"

DecisionFits ==
  /\ pending.type \in DecisionTypes \cup {None}
  /\ pending.type = None => pending = NoDecision
  /\ DiscardFits /\ RobberFits /\ CardFits /\ TradeFits

TurnInvariant == OrderFits /\ TurnFits /\ DecisionFits

\* Every player holds cards of the game, and finitely many.
OwnedCards == [card : Cards, acquired : Nat, status : {"IN_HAND", "PLAYED", "REVEALED"}]
CardsType(cs) == cs \in [Players -> SUBSET OwnedCards] /\ \A q \in Players : IsFiniteSet(cs[q])
CardsFit == CardsType(cards) /\ deck \in Seq(Cards)

-----------------------------------------------------------------------------
(* Orders.                                                                 *)

\* There are at least two seats, and no value is None by accident.
LEMMA SeatFacts ==
  /\ N \in Nat /\ N > 1 /\ Seats \in [1..N -> Players]
  /\ \A i, j \in 1..N : Seats[i] = Seats[j] => i = j
  /\ \A q \in Players : \E i \in 1..N : Seats[i] = q
  /\ None \notin Players /\ None \notin Setups /\ None \notin DecisionTypes /\ None \notin Totals
  /\ None \notin Nat /\ None \notin Cards
<1>1. Seats \in Seq(Players) /\ N > 1 /\ IsInjective(Seats) /\ ToSet(Seats) = Players
  BY EngineAssumption DEF EngineAssumption, N
<1>2. N \in Nat /\ Seats \in [1..N -> Players] /\ DOMAIN Seats = 1..N
  BY <1>1 DEF N
<1>3. /\ \A i, j \in 1..N : Seats[i] = Seats[j] => i = j
      /\ \A q \in Players : \E i \in 1..N : Seats[i] = q
  BY <1>1, <1>2 DEF IsInjective, ToSet
<1>4. None \notin Totals
  BY EngineAssumption DEF EngineAssumption, Totals
<1>5. /\ None \notin Players /\ None \notin Setups /\ None \notin DecisionTypes /\ None \notin Nat
      /\ None \notin Cards
  BY BoardAssumption, EngineAssumption DEF BoardAssumption, EngineAssumption, Cards
<1>6. QED
  BY <1>1, <1>2, <1>3, <1>4, <1>5

\* A number that is less than twice n, modulo n.
LEMMA ModOnce ==
  ASSUME NEW n \in Nat, n > 0, NEW k \in Nat, k < n + n
  PROVE  k % n = (IF k < n THEN k ELSE k - n)
<1>1. CASE k < n
  BY <1>1
<1>2. CASE k >= n
  BY <1>2
<1>3. QED
  BY <1>1, <1>2

\* The place after i, in a circle.
LEMMA After ==
  ASSUME NEW i \in 1..N
  PROVE  (i % N) + 1 \in 1..N
  BY SeatFacts

\* The place i steps round a circle, from the first.
LEMMA RoundAt ==
  ASSUME NEW n \in Nat, n > 1, NEW first \in 0..(n - 1), NEW i \in 1..n
  PROVE  ((first + i - 1) % n) + 1 = (IF first + i <= n THEN first + i ELSE first + i - n)
<1>1. PICK k \in Nat : k = first + i - 1
  OBVIOUS
<1>2. k < n + n
  BY <1>1
<1>3. k % n = (IF k < n THEN k ELSE k - n)
  BY <1>1, <1>2, ModOnce
<1>4. CASE k < n
  BY <1>1, <1>3, <1>4
<1>5. CASE ~(k < n)
  BY <1>1, <1>3, <1>5
<1>6. QED
  BY <1>4, <1>5

\* Going round a circle from any place passes every place once.
LEMMA RoundFacts ==
  ASSUME NEW n \in Nat, n > 1, NEW first \in 0..(n - 1)
  PROVE  \E at \in [1..n -> 1..n] :
           /\ \A i \in 1..n : at[i] = ((first + i - 1) % n) + 1
           /\ \A i, j \in 1..n : at[i] = at[j] => i = j
           /\ \A k \in 1..n : \E i \in 1..n : at[i] = k
<1>1. PICK at : at = [i \in 1..n |-> IF first + i <= n THEN first + i ELSE first + i - n]
  OBVIOUS
<1>2. \A i \in 1..n : at[i] \in 1..n
  BY <1>1
<1>3. at \in [1..n -> 1..n]
  BY <1>1, <1>2
<1>4. \A i, j \in 1..n : at[i] = at[j] => i = j
  <2> TAKE i, j \in 1..n
  <2>1. /\ at[i] = IF first + i <= n THEN first + i ELSE first + i - n
        /\ at[j] = IF first + j <= n THEN first + j ELSE first + j - n
    BY <1>1
  <2>2. QED
    BY <2>1
<1>5. \A k \in 1..n : \E i \in 1..n : at[i] = k
  <2> TAKE k \in 1..n
  <2>1. CASE first < k
    <3>1. PICK i \in 1..n : i = k - first
      BY <2>1
    <3>2. at[i] = k
      BY <1>1, <3>1
    <3>3. QED
      BY <3>1, <3>2
  <2>2. CASE first >= k
    <3>1. PICK i \in 1..n : i = k - first + n
      BY <2>2
    <3>2. at[i] = k
      BY <1>1, <2>2, <3>1
    <3>3. QED
      BY <3>1, <3>2
  <2>3. QED
    BY <2>1, <2>2
<1>6. \A i \in 1..n : at[i] = ((first + i - 1) % n) + 1
  <2> TAKE i \in 1..n
  <2>1. at[i] = IF first + i <= n THEN first + i ELSE first + i - n
    BY <1>1
  <2>2. QED
    BY <2>1, RoundAt
<1> HIDE <1>1
<1>7. QED
  BY <1>3, <1>4, <1>5, <1>6

\* A function from 1 to n is a sequence of length n.
LEMMA SequenceOf ==
  ASSUME NEW n \in Nat, NEW S, NEW o \in [1..n -> S]
  PROVE  o \in Seq(S) /\ Len(o) = n
  OBVIOUS

\* An order that begins with any seat names every player once.
LEMMA RotationFacts ==
  ASSUME NEW first \in FirstSeats
  PROVE  \E o \in Seq(Players) :
           /\ o = [i \in 1..N |-> Seats[((first + i - 1) % N) + 1]] /\ Len(o) = N
           /\ \A i, j \in 1..N : o[i] = o[j] => i = j
           /\ \A q \in Players : \E i \in 1..N : o[i] = q
<1>1. N \in Nat /\ N > 1 /\ first \in 0..(N - 1)
  BY SeatFacts, EngineAssumption DEF EngineAssumption, N
<1>2. PICK at \in [1..N -> 1..N] :
        /\ \A i \in 1..N : at[i] = ((first + i - 1) % N) + 1
        /\ \A i, j \in 1..N : at[i] = at[j] => i = j
        /\ \A k \in 1..N : \E i \in 1..N : at[i] = k
  BY <1>1, RoundFacts
<1>3. PICK o : o = [i \in 1..N |-> Seats[at[i]]]
  OBVIOUS
<1>4. \A i \in 1..N : at[i] \in 1..N /\ o[i] = Seats[at[i]]
  BY <1>2, <1>3
<1>5. o \in Seq(Players) /\ Len(o) = N
  <2>1. o \in [1..N -> Players]
    BY <1>3, <1>4, SeatFacts
  <2>2. QED
    BY <1>1, <2>1, SequenceOf
<1>6. \A i, j \in 1..N : o[i] = o[j] => i = j
  <2> SUFFICES ASSUME NEW i \in 1..N, NEW j \in 1..N, o[i] = o[j] PROVE i = j
    OBVIOUS
  <2>1. at[i] = at[j]
    BY <1>4, SeatFacts
  <2>2. QED
    BY <1>2, <2>1
<1>7. \A q \in Players : \E i \in 1..N : o[i] = q
  <2> TAKE q \in Players
  <2>1. PICK k \in 1..N : Seats[k] = q
    BY SeatFacts
  <2>2. PICK i \in 1..N : at[i] = k
    BY <1>2, <2>1
  <2>3. QED
    BY <1>4, <2>1, <2>2
<1>8. o = [i \in 1..N |-> Seats[((first + i - 1) % N) + 1]]
  BY <1>2, <1>3
<1>9. QED
  BY <1>5, <1>6, <1>7, <1>8

-----------------------------------------------------------------------------
(* Turns and decisions: the invariant holds initially and is kept.         *)

\* A command never changes the order of the players.
LEMMA OrderStays ==
  ASSUME OrderFits, order' = order
  PROVE  OrderFits'
  BY DEF OrderFits, N

\* A new game is in the setup, and nothing is open.
LEMMA TurnInit ==
  ASSUME Init
  PROVE  TurnInvariant
<1>1. PICK first \in FirstSeats : order = [i \in 1..N |-> Seats[((first + i - 1) % N) + 1]]
  BY DEF Init
<1>2. OrderFits
  <2>1. PICK o \in Seq(Players) :
          /\ o = [i \in 1..N |-> Seats[((first + i - 1) % N) + 1]] /\ Len(o) = N
          /\ \A i, j \in 1..N : o[i] = o[j] => i = j
          /\ \A q \in Players : \E i \in 1..N : o[i] = q
    BY RotationFacts
  <2>2. order = o
    BY <1>1, <2>1
  <2>3. QED
    BY <2>1, <2>2 DEF OrderFits
<1>3. N \in Nat /\ N > 1 /\ order[1] \in Players
  BY <1>2, SeatFacts DEF OrderFits
<1>4. PICK s : s = [round |-> 1, index |-> 0, settlement |-> None]
  OBVIOUS
<1>5. s \in Setups /\ s # None /\ s.round = 1 /\ s.index = 0
  BY <1>3, <1>4, SeatFacts DEF Setups, N
<1>6. turn = [number |-> 0, current |-> order[1], phase |-> "SETUP_SETTLEMENT", setup |-> s,
              lastRoll |-> None, cardPlayed |-> FALSE]
  BY <1>4 DEF Init
<1>7. pending = NoDecision /\ winner = None
  BY DEF Init
<1>8. turn \in TurnType
  BY <1>3, <1>5, <1>6 DEF TurnType, Phases
<1>9. turn.current = ExpectedSetupPlayer(turn.setup.round, turn.setup.index)
  BY <1>5, <1>6 DEF ExpectedSetupPlayer
<1>10. TurnFits
  BY <1>5, <1>6, <1>7, <1>8, <1>9 DEF TurnFits, Setup
<1>11. DecisionFits
  BY <1>7, SeatFacts DEF DecisionFits, NoDecision, DiscardFits, RobberFits, CardFits, TradeFits, DecisionTypes
<1>12. QED
  BY <1>2, <1>10, <1>11 DEF TurnInvariant

\* Without a decision, none of the rules about decisions says anything.
LEMMA NothingOpen ==
  ASSUME pending' = NoDecision
  PROVE  DecisionFits'
  BY SeatFacts DEF DecisionFits, NoDecision, DiscardFits, RobberFits, CardFits, TradeFits, DecisionTypes

\* What a command leaves that settles whatever was open: the turn tn goes on,
\* or its player has won.
Settled(tn) ==
  /\ pending' = NoDecision
  /\ \/ turn' = tn /\ winner' = winner
     \/ turn' = [tn EXCEPT !.phase = "GAME_OVER"] /\ winner' = tn.current

\* A turn after the setup, between commands.
GoesOn(tn) ==
  /\ tn \in TurnType /\ tn.setup = None
  /\ \/ tn.phase = "ROLL_REQUIRED" /\ tn.lastRoll = None
     \/ tn.phase = "ACTION" /\ tn.lastRoll # None

\* Looking for the points to win settles what was open.
LEMMA ResolveSettles ==
  ASSUME NEW b, NEW aw, NEW cs, NEW tn, ResolveVictory(b, aw, cs, tn, NoDecision)
  PROVE  Settled(tn)
  BY DEF ResolveVictory, Settled

\* Settling leaves a turn that goes on or a game that is over.
LEMMA SettledFits ==
  ASSUME TurnInvariant, winner = None, order' = order, NEW tn, GoesOn(tn), Settled(tn)
  PROVE  TurnInvariant'
<1>1. OrderFits'
  BY OrderStays DEF TurnInvariant
<1>2. pending' = NoDecision
  BY DEF Settled
<1>3. DecisionFits'
  BY <1>2, NothingOpen
<1>4. TurnFits'
  <2>1. CASE turn' = tn /\ winner' = winner
    BY <2>1 DEF GoesOn, TurnFits, Setup
  <2>2. CASE turn' = [tn EXCEPT !.phase = "GAME_OVER"] /\ winner' = tn.current
    <3>1. turn' \in TurnType /\ tn.current \in Players
      BY <2>2 DEF GoesOn, TurnType, Phases
    <3>2. turn'.phase = "GAME_OVER" /\ turn'.setup = None /\ turn'.current = tn.current
      BY <2>2 DEF GoesOn, TurnType
    <3>3. QED
      BY <1>2, <2>2, <3>1, <3>2 DEF TurnFits, Setup
  <2>3. QED
    BY <2>1, <2>2 DEF Settled
<1>5. QED
  BY <1>1, <1>3, <1>4 DEF TurnInvariant

\* The setup asks for a road once the settlement stands.
LEMMA SettlementTurn ==
  ASSUME TurnInvariant, NEW p, NEW v \in SetupSites, PlaceInitialSettlement(p, v)
  PROVE  TurnInvariant'
<1>1. /\ order' = order /\ pending' = pending /\ winner' = winner /\ turn.phase = "SETUP_SETTLEMENT"
      /\ turn' = [turn EXCEPT !.phase = "SETUP_ROAD", !.setup.settlement = v]
  BY DEF PlaceInitialSettlement, AcceptsInitialSettlement, InTurn
<1>2. turn \in TurnType /\ turn.setup # None /\ Setup
  BY <1>1 DEF TurnInvariant, TurnFits, Setup
<1>3. turn.setup \in Setups
  BY <1>2 DEF TurnType
<1>4. v \in Vertices
  <2>1. turn.setup.index + 1 \in 1..N /\ turn.setup.round \in {1, 2}
    BY <1>3, SeatFacts DEF Setups, N
  <2>2. \A i \in 1..N, round \in {1, 2} : Sites[<<i, round>>] \subseteq Vertices
    BY EngineAssumption DEF EngineAssumption, N
  <2>3. v \in Sites[<<turn.setup.index + 1, turn.setup.round>>]
    BY <1>2 DEF SetupSites
  <2>4. QED
    BY <2>1, <2>2, <2>3
<1>5. PICK s : s = [turn.setup EXCEPT !.settlement = v]
  OBVIOUS
<1>6. s \in Setups /\ s.round = turn.setup.round /\ s.index = turn.setup.index
  BY <1>3, <1>4, <1>5 DEF Setups
<1>7. turn' = [turn EXCEPT !.phase = "SETUP_ROAD", !.setup = s]
  BY <1>1, <1>2, <1>5 DEF TurnType
<1>8. turn' \in TurnType
  BY <1>2, <1>6, <1>7 DEF TurnType, Phases
<1>9. /\ turn'.phase = "SETUP_ROAD" /\ turn'.setup = s /\ turn'.current = turn.current
      /\ turn'.lastRoll = turn.lastRoll /\ turn'.cardPlayed = turn.cardPlayed
  BY <1>2, <1>7 DEF TurnType
<1>10. ExpectedSetupPlayer(s.round, s.index)' = ExpectedSetupPlayer(turn.setup.round, turn.setup.index)
  BY <1>1, <1>6 DEF ExpectedSetupPlayer, N
<1>11. TurnFits'
  BY <1>1, <1>2, <1>6, <1>8, <1>9, <1>10, SeatFacts DEF TurnInvariant, TurnFits, Setup, NoDecision, ExpectedSetupPlayer
<1>12. pending' = NoDecision
  BY <1>1, <1>2 DEF TurnInvariant, TurnFits
<1>13. DecisionFits'
  BY <1>12, NothingOpen
<1>14. QED
  BY <1>1, <1>11, <1>13, OrderStays DEF TurnInvariant

\* Who is next in the setup, and what it counts to.
LEMMA SetupSuccessor ==
  ASSUME TurnInvariant, Setup
  PROVE  LET s == turn.setup
             at(round, i) == [round |-> round, index |-> i, settlement |-> None]
         IN  /\ s \in Setups /\ s # None
             /\ s.index < N - 1 =>
                  /\ at(s.round, s.index + 1) \in Setups
                  /\ NextSetupTurn = [turn EXCEPT !.phase = "SETUP_SETTLEMENT", !.setup = at(s.round, s.index + 1),
                                                  !.current = ExpectedSetupPlayer(s.round, s.index + 1)]
             /\ ~(s.index < N - 1) /\ s.round = 1 =>
                  /\ at(2, 0) \in Setups
                  /\ NextSetupTurn = [turn EXCEPT !.phase = "SETUP_SETTLEMENT", !.setup = at(2, 0),
                                                  !.current = ExpectedSetupPlayer(2, 0)]
             /\ ~(s.index < N - 1) /\ s.round # 1 =>
                  NextSetupTurn = [number |-> 1, current |-> order[1], phase |-> "ROLL_REQUIRED",
                                   setup |-> None, lastRoll |-> None, cardPlayed |-> FALSE]
<1>1. turn \in TurnType /\ turn.setup \in Setups /\ turn.setup # None
  BY DEF TurnInvariant, TurnFits, TurnType
<1>2. turn.setup.round \in {1, 2} /\ turn.setup.index \in 0..(N - 1) /\ N \in Nat /\ N > 1
  BY <1>1, SeatFacts DEF Setups, N
<1>3. turn.setup.index < N - 1 =>
        [round |-> turn.setup.round, index |-> turn.setup.index + 1, settlement |-> None] \in Setups
  BY <1>2 DEF Setups, N
<1>4. [round |-> 2, index |-> 0, settlement |-> None] \in Setups
  BY <1>2 DEF Setups, N
<1>5. QED
  BY <1>1, <1>3, <1>4 DEF NextSetupTurn, ExpectedSetupPlayer, TurnType

\* After its road a player's turn in the setup is over.
LEMMA RoadTurn ==
  ASSUME TurnInvariant, NEW p, NEW e, PlaceInitialRoad(p, e)
  PROVE  TurnInvariant'
<1>1. order' = order /\ pending' = pending /\ winner' = winner /\ Setup /\ turn' = NextSetupTurn
  BY DEF PlaceInitialRoad, AcceptsInitialRoad, InTurn, Setup
<1>2. PICK s : s = turn.setup
  OBVIOUS
<1>3. /\ turn \in TurnType /\ turn.lastRoll = None /\ turn.cardPlayed = FALSE
      /\ winner = None /\ pending = NoDecision
  BY <1>1 DEF TurnInvariant, TurnFits, TurnType
<1>4. N \in Nat /\ N > 1 /\ s \in Setups /\ s.index \in 0..(N - 1) /\ s.round \in {1, 2}
  <2>1. s \in Setups
    BY <1>1, <1>2, SetupSuccessor
  <2>2. QED
    BY <2>1, SeatFacts DEF Setups, N
<1>5. \A round \in {1, 2}, i \in 0..(N - 1) : ExpectedSetupPlayer(round, i) \in Players
  <2> TAKE round \in {1, 2}, i \in 0..(N - 1)
  <2>1. (IF round = 1 THEN i + 1 ELSE N - i) \in 1..N
    BY <1>4
  <2>2. \A k \in 1..N : order[k] \in Players
    BY DEF TurnInvariant, OrderFits
  <2>3. QED
    BY <2>1, <2>2 DEF ExpectedSetupPlayer
<1>6. ASSUME NEW n \in Setups,
             turn' = [turn EXCEPT !.phase = "SETUP_SETTLEMENT", !.setup = n,
                                  !.current = ExpectedSetupPlayer(n.round, n.index)]
      PROVE  TurnFits'
  <2>1. PICK c : c = ExpectedSetupPlayer(n.round, n.index)
    OBVIOUS
  <2>2. c \in Players
    BY <1>5, <2>1 DEF Setups, N
  <2>3. turn' = [turn EXCEPT !.phase = "SETUP_SETTLEMENT", !.setup = n, !.current = c]
    BY <1>6, <2>1
  <2>4. turn' \in TurnType
    BY <1>3, <2>2, <2>3 DEF TurnType, Phases
  <2>5. /\ turn'.phase = "SETUP_SETTLEMENT" /\ turn'.setup = n /\ turn'.current = c
        /\ turn'.lastRoll = None /\ turn'.cardPlayed = FALSE
    BY <1>3, <2>3 DEF TurnType
  <2>6. c = ExpectedSetupPlayer(n.round, n.index)'
    BY <1>1, <2>1 DEF ExpectedSetupPlayer, N
  <2>7. QED
    BY <1>1, <1>3, <2>4, <2>5, <2>6, SeatFacts DEF TurnFits, Setup, NoDecision
<1>7. TurnFits'
  <2>1. CASE s.index < N - 1
    <3>1. PICK n : n = [round |-> s.round, index |-> s.index + 1, settlement |-> None]
      OBVIOUS
    <3>2. n.round = s.round /\ n.index = s.index + 1
      BY <3>1
    <3>3. QED
      BY <1>1, <1>2, <1>6, <2>1, <3>1, <3>2, SetupSuccessor
  <2>2. CASE ~(s.index < N - 1) /\ s.round = 1
    <3>1. PICK n : n = [round |-> 2, index |-> 0, settlement |-> None]
      OBVIOUS
    <3>2. n.round = 2 /\ n.index = 0
      BY <3>1
    <3>3. QED
      BY <1>1, <1>2, <1>6, <2>2, <3>1, <3>2, SetupSuccessor
  <2>3. CASE ~(s.index < N - 1) /\ s.round # 1
    <3>1. turn' = [number |-> 1, current |-> order[1], phase |-> "ROLL_REQUIRED",
                   setup |-> None, lastRoll |-> None, cardPlayed |-> FALSE]
      BY <1>1, <1>2, <2>3, SetupSuccessor
    <3>2. order[1] \in Players
      BY <1>4 DEF TurnInvariant, OrderFits
    <3>3. turn' \in TurnType
      BY <3>1, <3>2 DEF TurnType, Phases
    <3>4. QED
      BY <1>1, <1>3, <3>1, <3>3 DEF TurnFits, Setup
  <2>4. QED
    BY <2>1, <2>2, <2>3
<1>8. pending' = NoDecision
  BY <1>1, <1>3
<1>9. DecisionFits'
  BY <1>8, NothingOpen
<1>10. QED
  BY <1>1, <1>7, <1>9, OrderStays DEF TurnInvariant

\* A command that leaves a turn after the setup running.
LEMMA OpenFits ==
  ASSUME TurnInvariant, order' = order, winner = None, winner' = winner,
         NEW tn \in TurnType, turn' = tn, tn.setup = None,
         tn.phase \notin {"SETUP_SETTLEMENT", "SETUP_ROAD"},
         tn.phase = "ROLL_REQUIRED" => tn.lastRoll = None,
         tn.phase \in {"ACTION", "DISCARD_REQUIRED"} => tn.lastRoll # None,
         DecisionFits'
  PROVE  TurnInvariant'
<1>1. OrderFits'
  BY OrderStays DEF TurnInvariant
<1>2. TurnFits'
  BY DEF TurnFits, Setup
<1>3. QED
  BY <1>1, <1>2 DEF TurnInvariant

\* A turn in which its player may act, and what is known of it.
LEMMA InTurnFacts ==
  ASSUME TurnInvariant, NEW p, NEW phases \in SUBSET {"ROLL_REQUIRED", "ACTION"}, InTurn(p, phases)
  PROVE  /\ winner = None /\ pending = NoDecision /\ p = turn.current /\ p \in Players
         /\ turn \in TurnType /\ turn.setup = None /\ turn.phase \in phases /\ GoesOn(turn)
<1>1. /\ winner = None /\ pending = NoDecision /\ p = turn.current /\ turn.phase \in phases
      /\ turn \in TurnType
  BY DEF InTurn, Current, TurnInvariant, TurnFits
<1>2. turn.setup = None /\ GoesOn(turn)
  BY <1>1 DEF TurnInvariant, TurnFits, Setup, GoesOn
<1>3. QED
  BY <1>1, <1>2 DEF TurnType

\* The dice open a decision or the rest of the turn.
LEMMA RollTurn ==
  ASSUME TurnInvariant, NEW p, NEW total \in Dice, RollDice(p, total)
  PROVE  TurnInvariant'
<1>1. /\ winner = None /\ pending = NoDecision /\ p = turn.current /\ p \in Players
      /\ turn \in TurnType /\ turn.setup = None /\ turn.phase = "ROLL_REQUIRED"
  BY InTurnFacts DEF RollDice, AcceptsRoll
<1>2. order' = order /\ winner' = winner
  BY DEF RollDice
<1>3. total \in Totals /\ total # None
  BY SeatFacts DEF Dice, Totals
<1>4. ASSUME NEW phase \in Phases, turn' = [turn EXCEPT !.phase = phase, !.setup = None, !.lastRoll = total]
      PROVE  /\ turn' \in TurnType /\ turn'.phase = phase /\ turn'.setup = None /\ turn'.lastRoll = total
             /\ turn'.current = p
  BY <1>1, <1>3, <1>4 DEF TurnType
<1>5. CASE /\ turn' = [turn EXCEPT !.phase = "DISCARD_REQUIRED", !.setup = None, !.lastRoll = total]
           /\ \E owing \in (SUBSET Players) \ {{}} :
                 pending' = [type |-> "DISCARD_RESOURCES", trigger |-> Current,
                             required |-> [q \in owing |-> Count(hand[q]) \div 2], completed |-> {}]
  <2>1. PICK tn : /\ tn = turn' /\ tn \in TurnType /\ tn.phase = "DISCARD_REQUIRED"
                  /\ tn.setup = None /\ tn.lastRoll = total /\ tn.current = p
    BY <1>4, <1>5 DEF Phases
  <2>2. PICK owing, required :
          /\ owing \in (SUBSET Players) \ {{}}
          /\ required = [q \in owing |-> Count(hand[q]) \div 2]
          /\ pending' = [type |-> "DISCARD_RESOURCES", trigger |-> p, required |-> required, completed |-> {}]
    BY <1>1, <1>5 DEF Current
  <2>3. /\ pending'.type = "DISCARD_RESOURCES" /\ pending'.required = required /\ pending'.completed = {}
        /\ DOMAIN required = owing
    BY <2>2
  <2>4. Owing' # {}
    BY <2>2, <2>3 DEF Owing
  <2>5. DiscardFits'
    BY <2>1, <2>2, <2>3, <2>4 DEF DiscardFits
  <2>6. DecisionFits'
    BY <2>3, <2>5, SeatFacts DEF DecisionFits, DecisionTypes, RobberFits, CardFits, TradeFits
  <2>7. QED
    BY <1>1, <1>2, <1>3, <2>1, <2>6, OpenFits
<1>6. CASE /\ turn' = [turn EXCEPT !.phase = "ROBBER_MOVE_REQUIRED", !.setup = None, !.lastRoll = total]
           /\ pending' = [type |-> "MOVE_ROBBER", actor |-> Current, cause |-> None]
  <2>1. PICK tn : /\ tn = turn' /\ tn \in TurnType /\ tn.phase = "ROBBER_MOVE_REQUIRED"
                  /\ tn.setup = None /\ tn.lastRoll = total /\ tn.current = p
    BY <1>4, <1>6 DEF Phases
  <2>2. pending'.type = "MOVE_ROBBER" /\ pending'.actor = p
    BY <1>1, <1>6 DEF Current
  <2>3. RobberFits'
    BY <1>3, <2>1, <2>2 DEF RobberFits
  <2>4. DecisionFits'
    BY <2>2, <2>3, SeatFacts DEF DecisionFits, DecisionTypes, DiscardFits, CardFits, TradeFits
  <2>5. QED
    BY <1>1, <1>2, <1>3, <2>1, <2>4, OpenFits
<1>7. CASE /\ turn' = [turn EXCEPT !.phase = "ACTION", !.setup = None, !.lastRoll = total]
           /\ pending' = pending
  <2>1. PICK tn : /\ tn = turn' /\ tn \in TurnType /\ tn.phase = "ACTION"
                  /\ tn.setup = None /\ tn.lastRoll = total /\ tn.current = p
    BY <1>4, <1>7 DEF Phases
  <2>2. DecisionFits'
    BY <1>1, <1>7, NothingOpen
  <2>3. QED
    BY <1>1, <1>2, <1>3, <2>1, <2>2, OpenFits
<1>8. QED
  <2>1. {q \in Players : Count(hand[q]) > HandLimit} \in SUBSET Players
    OBVIOUS
  <2>2. QED
    BY <1>5, <1>6, <1>7, <2>1 DEF RollDice

\* The turn passes to the next in the order.
LEMMA EndTurnTurn ==
  ASSUME TurnInvariant, NEW p, EndTurn(p)
  PROVE  TurnInvariant'
<1>1. winner = None /\ p \in Players /\ p = turn.current /\ turn \in TurnType
  BY InTurnFacts DEF EndTurn, AcceptsEndTurn
<1>2. PICK i : i = CHOOSE j \in 1..N : order[j] = Current
  OBVIOUS
<1>3. i \in 1..N /\ order[i] = turn.current
  BY <1>1, <1>2 DEF TurnInvariant, OrderFits, Current
<1>4. order[(i % N) + 1] \in Players
  BY <1>3, After DEF TurnInvariant, OrderFits
<1>5. PICK next : next = [number |-> turn.number + 1, current |-> order[(i % N) + 1],
                          phase |-> "ROLL_REQUIRED", setup |-> None, lastRoll |-> None, cardPlayed |-> FALSE]
  OBVIOUS
<1>6. GoesOn(next)
  <2>1. turn.number + 1 \in Nat
    BY <1>1 DEF TurnType
  <2>2. QED
    BY <1>4, <1>5, <2>1 DEF GoesOn, TurnType, Phases
<1>7. order' = order /\ Settled(next)
  BY <1>2, <1>5, ResolveSettles DEF EndTurn
<1>8. QED
  BY <1>1, <1>6, <1>7, SettledFits

\* What is known of a turn in which a decision is open.
LEMMA DecidesFacts ==
  ASSUME TurnInvariant, winner = None, pending.type \in DecisionTypes
  PROVE  /\ turn \in TurnType /\ turn.setup = None /\ ~Setup /\ pending # NoDecision /\ turn.current \in Players
         /\ turn.phase = "ROLL_REQUIRED" => turn.lastRoll = None
         /\ turn.phase = "ACTION" => turn.lastRoll # None
<1>1. pending # NoDecision
  BY SeatFacts DEF NoDecision
<1>2. turn \in TurnType /\ ~Setup /\ turn.setup = None
  BY <1>1 DEF TurnInvariant, TurnFits
<1>3. QED
  BY <1>1, <1>2 DEF TurnInvariant, TurnFits, TurnType

\* A discard: the robber is moved by the player who rolled.
LEMMA DiscardTurn ==
  ASSUME TurnInvariant, NEW p, NEW bag, DiscardResources(p, bag)
  PROVE  TurnInvariant'
<1>1. /\ winner = None /\ pending.type = "DISCARD_RESOURCES" /\ p \in Owing
      /\ order' = order /\ winner' = winner
  BY DEF DiscardResources, AcceptsDiscard, Decides
<1>2. /\ turn \in TurnType /\ turn.setup = None /\ turn.current \in Players
      /\ pending = [type |-> "DISCARD_RESOURCES", trigger |-> turn.current,
                    required |-> pending.required, completed |-> pending.completed]
      /\ DOMAIN pending.required \subseteq Players
      /\ turn.phase = "DISCARD_REQUIRED" /\ turn.lastRoll # None
  BY <1>1, DecidesFacts DEF TurnInvariant, TurnFits, DecisionFits, DiscardFits, DecisionTypes
<1>3. CASE Owing = {p}
  <2>1. PICK tn : tn = [turn EXCEPT !.phase = "ROBBER_MOVE_REQUIRED"]
    OBVIOUS
  <2>2. /\ tn \in TurnType /\ tn.phase = "ROBBER_MOVE_REQUIRED" /\ tn.setup = None
        /\ tn.current = turn.current /\ tn.lastRoll # None
    BY <1>2, <2>1 DEF TurnType, Phases
  <2>3. turn' = tn /\ pending' = [type |-> "MOVE_ROBBER", actor |-> pending.trigger, cause |-> None]
    BY <1>3, <2>1 DEF DiscardResources
  <2>4. pending'.type = "MOVE_ROBBER" /\ pending'.actor = turn.current
    BY <1>2, <2>3
  <2>5. RobberFits'
    BY <2>2, <2>3, <2>4 DEF RobberFits
  <2>6. DecisionFits'
    BY <2>4, <2>5, SeatFacts DEF DecisionFits, DecisionTypes, DiscardFits, CardFits, TradeFits
  <2>7. QED
    BY <1>1, <2>2, <2>3, <2>6, OpenFits
<1>4. CASE Owing # {p}
  <2>1. turn' = turn /\ pending' = [pending EXCEPT !.completed = @ \cup {p}]
    BY <1>4 DEF DiscardResources
  <2>2. PICK required, completed : required = pending.required /\ completed = pending.completed \cup {p}
    OBVIOUS
  <2>3. pending' = [type |-> "DISCARD_RESOURCES", trigger |-> turn.current,
                    required |-> required, completed |-> completed]
    BY <1>2, <2>1, <2>2
  <2>4. pending'.type = "DISCARD_RESOURCES" /\ pending'.required = required /\ pending'.completed = completed
    BY <2>3
  <2>5. Owing' = Owing \ {p}
    BY <2>2, <2>4 DEF Owing
  <2>6. DiscardFits'
    BY <1>1, <1>2, <1>4, <2>1, <2>2, <2>3, <2>4, <2>5 DEF DiscardFits
  <2>7. DecisionFits'
    BY <2>4, <2>6, SeatFacts DEF DecisionFits, DecisionTypes, RobberFits, CardFits, TradeFits
  <2>8. QED
    BY <1>1, <1>2, <2>1, <2>7, OpenFits
<1>5. QED
  BY <1>3, <1>4

\* The phase after the robber is one the turn can go on in.
LEMMA AfterRobberGoesOn ==
  ASSUME TurnInvariant, winner = None, pending.type \in {"MOVE_ROBBER", "CHOOSE_ROBBER_TARGET"},
         NEW tn, tn = [turn EXCEPT !.phase = AfterRobber(pending.cause)]
  PROVE  GoesOn(tn) /\ tn.current = turn.current /\ tn.lastRoll = turn.lastRoll /\ tn.cardPlayed = turn.cardPlayed
<1>1. turn \in TurnType /\ turn.setup = None /\ (pending.cause = None => turn.lastRoll # None)
  BY DecidesFacts DEF TurnInvariant, DecisionFits, RobberFits, DecisionTypes
<1>2. PICK phase : phase = AfterRobber(pending.cause)
  OBVIOUS
<1>3. \/ phase = "ACTION" /\ turn.lastRoll # None
      \/ phase = "ROLL_REQUIRED" /\ turn.lastRoll = None
  BY <1>1, <1>2 DEF AfterRobber, Resume
<1>4. QED
  BY <1>1, <1>2, <1>3 DEF GoesOn, TurnType, Phases

\* A robber that is done settles what was open.
LEMMA RobberSettles ==
  ASSUME NEW cause, NEW tn, RobberDone(cause, tn)
  PROVE  Settled(tn)
  BY ResolveSettles DEF RobberDone, Settled

\* The robber moves, and its mover chooses a victim if there is one.
LEMMA RobberTurn ==
  ASSUME TurnInvariant, NEW p, NEW t, MoveRobber(p, t)
  PROVE  TurnInvariant'
<1>1. /\ winner = None /\ pending.type = "MOVE_ROBBER" /\ p = pending.actor /\ order' = order
  BY DEF MoveRobber, AcceptsMoveRobber, Decides
<1>2. CASE RobberTargets(buildings, hand, t, p) = {}
  <2>1. PICK tn : tn = [turn EXCEPT !.phase = AfterRobber(pending.cause)]
    OBVIOUS
  <2>2. Settled(tn)
    BY <1>2, <2>1, RobberSettles DEF MoveRobber
  <2>3. GoesOn(tn)
    BY <1>1, <2>1, AfterRobberGoesOn
  <2>4. QED
    BY <1>1, <2>2, <2>3, SettledFits
<1>3. CASE RobberTargets(buildings, hand, t, p) # {}
  <2>1. PICK tn : tn = [turn EXCEPT !.phase = "ROBBER_TARGET_REQUIRED"]
    OBVIOUS
  <2>2. /\ turn \in TurnType /\ turn.setup = None /\ pending.actor = turn.current
        /\ pending.cause = None => turn.lastRoll # None
    BY <1>1, DecidesFacts DEF TurnInvariant, DecisionFits, RobberFits, DecisionTypes
  <2>3. /\ tn \in TurnType /\ tn.phase = "ROBBER_TARGET_REQUIRED" /\ tn.setup = None
        /\ tn.current = turn.current /\ tn.lastRoll = turn.lastRoll
    BY <2>1, <2>2 DEF TurnType, Phases
  <2>4. /\ turn' = tn /\ winner' = winner
        /\ pending' = [type |-> "CHOOSE_ROBBER_TARGET", actor |-> p, tile |-> t,
                       targets |-> RobberTargets(buildings, hand, t, p), cause |-> pending.cause]
    BY <1>3, <2>1 DEF MoveRobber
  <2>5. /\ pending'.type = "CHOOSE_ROBBER_TARGET" /\ pending'.actor = p /\ pending'.cause = pending.cause
    BY <2>4
  <2>6. RobberFits'
    BY <1>1, <2>2, <2>3, <2>4, <2>5 DEF RobberFits
  <2>7. DecisionFits'
    BY <2>5, <2>6, SeatFacts DEF DecisionFits, DecisionTypes, DiscardFits, CardFits, TradeFits
  <2>8. QED
    BY <1>1, <2>3, <2>4, <2>7, OpenFits
<1>4. QED
  BY <1>2, <1>3

\* A stolen card settles the robber.
LEMMA StealTurn ==
  ASSUME TurnInvariant, NEW p, NEW q, NEW x, StealFrom(p, q, x)
  PROVE  TurnInvariant'
<1>1. /\ winner = None /\ pending.type = "CHOOSE_ROBBER_TARGET" /\ order' = order
  BY DEF StealFrom, AcceptsSteal, Decides
<1>2. PICK tn : tn = [turn EXCEPT !.phase = AfterRobber(pending.cause)]
  OBVIOUS
<1>3. Settled(tn)
  BY <1>2, RobberSettles DEF StealFrom
<1>4. GoesOn(tn)
  BY <1>1, <1>2, AfterRobberGoesOn
<1>5. QED
  BY <1>1, <1>3, <1>4, SettledFits

\* A command of the action phase that settles at once.
Acts(p) == InTurn(p, {"ACTION"}) /\ order' = order /\ Settled(turn)

\* Such a command leaves the turn where it was, or wins.
LEMMA ActTurn ==
  ASSUME TurnInvariant, NEW p, Acts(p)
  PROVE  TurnInvariant'
<1>1. winner = None /\ GoesOn(turn)
  BY InTurnFacts DEF Acts
<1>2. PICK tn : tn = turn
  OBVIOUS
<1>3. QED
  BY <1>1, <1>2, SettledFits DEF Acts

\* Awards are moved, and nothing is left open.
LEMMA ReconcileSettles ==
  ASSUME NEW b, NEW r, NEW cs, Reconcile(b, r, cs)
  PROVE  Settled(turn)
<1>1. PICK tn, aw : tn = turn /\ aw = Reconciled(b, r, knights)
  OBVIOUS
<1>2. ResolveVictory(b, aw, cs, tn, NoDecision)
  BY <1>1 DEF Reconcile
<1>3. QED
  BY <1>1, <1>2, ResolveSettles

\* Building, buying a card and the trade with the bank are such commands.
LEMMA PaidActs ==
  ASSUME TurnInvariant, NEW p,
         \/ \E e : BuildRoad(p, e)
         \/ \E v : BuildSettlement(p, v) \/ UpgradeCity(p, v)
         \/ BuyCard(p)
         \/ \E give, get : MaritimeTrade(p, give, get)
  PROVE  Acts(p)
<1>1. ASSUME NEW e, BuildRoad(p, e) PROVE Acts(p)
  <2>1. PICK b, r, cs : b = buildings /\ r = [roads EXCEPT ![e] = p] /\ cs = cards
    OBVIOUS
  <2>2. Reconcile(b, r, cs)
    BY <1>1, <2>1 DEF BuildRoad
  <2>3. QED
    BY <1>1, <2>2, ReconcileSettles DEF BuildRoad, AcceptsRoad, Acts
<1>2. ASSUME NEW v, BuildSettlement(p, v) PROVE Acts(p)
  <2>1. PICK b, r, cs : b = [buildings EXCEPT ![v] = Building(p, "SETTLEMENT")] /\ r = roads /\ cs = cards
    OBVIOUS
  <2>2. Reconcile(b, r, cs)
    BY <1>2, <2>1 DEF BuildSettlement
  <2>3. QED
    BY <1>2, <2>2, ReconcileSettles DEF BuildSettlement, AcceptsSettlement, Acts
<1>3. ASSUME NEW v, UpgradeCity(p, v) PROVE Acts(p)
  <2>1. PICK b, r, cs : b = [buildings EXCEPT ![v] = Building(p, "CITY")] /\ r = roads /\ cs = cards
    OBVIOUS
  <2>2. Reconcile(b, r, cs)
    BY <1>3, <2>1 DEF UpgradeCity
  <2>3. QED
    BY <1>3, <2>2, ReconcileSettles DEF UpgradeCity, AcceptsCity, Acts
<1>4. ASSUME BuyCard(p) PROVE Acts(p)
  <2>1. PICK b, r, cs : /\ b = buildings /\ r = roads
                        /\ cs = [cards EXCEPT ![p] = @ \cup {[card |-> Head(deck), acquired |-> turn.number,
                                                             status |-> "IN_HAND"]}]
    OBVIOUS
  <2>2. Reconcile(b, r, cs)
    BY <1>4, <2>1 DEF BuyCard
  <2>3. QED
    BY <1>4, <2>2, ReconcileSettles DEF BuyCard, AcceptsBuyCard, Acts
<1>5. ASSUME NEW give, NEW get, MaritimeTrade(p, give, get) PROVE Acts(p)
  BY <1>5 DEF MaritimeTrade, AcceptsMaritime, InTurn, Acts, Settled
<1>6. QED
  BY <1>1, <1>2, <1>3, <1>4, <1>5

\* The Road Building card grants one road or two.
LEMMA FreeRoadCountFacts ==
  ASSUME NEW b, NEW r, NEW p, FreeRoadCount(b, r, p) > 0
  PROVE  FreeRoadCount(b, r, p) \in {1, 2}
<1>1. LegalFreeRoads(b, r, p) # {}
  BY DEF FreeRoadCount
<1>2. PICK c : c = Cardinality(Roads(r, p))
  OBVIOUS
<1>3. c \in Nat
  <2>1. Roads(r, p) \subseteq SUBSET Vertices /\ IsFiniteSet(SUBSET Vertices)
    BY BoardAssumption, FS_SUBSET DEF BoardAssumption, Roads
  <2>2. QED
    BY <1>2, <2>1, FS_Subset, FS_CardinalityType
<1>4. c < RoadLimit /\ RoadLimit \in Nat
  BY <1>1, <1>2, BoardAssumption DEF LegalFreeRoads, ValidFreeRoad, BoardAssumption
<1>5. PICK k : k = RoadLimit - c
  OBVIOUS
<1>6. k \in Nat /\ k > 0
  BY <1>3, <1>4, <1>5
<1>7. Min({2, k}) \in {1, 2}
  <2>1. CASE k = 1
    <3>1. Min({2, k}) \in {2, k} /\ \A x \in {2, k} : Min({2, k}) <= x
      <4>1. 1 \in {2, k} /\ \A y \in {2, k} : 1 <= y
        BY <2>1
      <4>2. QED
        BY <4>1 DEF Min
    <3>2. QED
      BY <2>1, <3>1
  <2>2. CASE k >= 2
    <3>1. Min({2, k}) \in {2, k} /\ \A x \in {2, k} : Min({2, k}) <= x
      <4>1. 2 \in {2, k} /\ \A y \in {2, k} : 2 <= y
        BY <1>6, <2>2
      <4>2. QED
        BY <4>1 DEF Min
    <3>2. QED
      BY <1>6, <2>2, <3>1
  <2>3. QED
    BY <1>6, <2>1, <2>2
<1>8. FreeRoadCount(b, r, p) = Min({2, k})
  BY <1>1, <1>2, <1>5 DEF FreeRoadCount
<1>9. QED
  BY <1>7, <1>8

\* A card opens the decision of its effect.
LEMMA CardTurn ==
  ASSUME TurnInvariant, CardsFit, NEW p, NEW c, PlayCard(p, c)
  PROVE  TurnInvariant'
<1>1. /\ winner = None /\ pending = NoDecision /\ p = turn.current /\ p \in Players
      /\ turn \in TurnType /\ turn.setup = None /\ GoesOn(turn)
      /\ turn.phase \in {"ROLL_REQUIRED", "ACTION"} /\ order' = order /\ winner' = winner
  <2>1. InTurn(p, {"ROLL_REQUIRED", "ACTION"})
    BY DEF PlayCard, AcceptsPlayCard
  <2>2. QED
    BY <2>1, InTurnFacts DEF PlayCard
<1>2. ASSUME NEW phase \in Phases, turn' = [turn EXCEPT !.cardPlayed = TRUE, !.phase = phase]
      PROVE  /\ turn' \in TurnType /\ turn'.phase = phase /\ turn'.setup = None /\ turn'.current = p
             /\ turn'.lastRoll = turn.lastRoll
  BY <1>1, <1>2 DEF TurnType
<1>3. c.card \in Cards
  <2>1. c \in cards[p]
    BY DEF PlayCard, AcceptsPlayCard, Playable, InHand
  <2>2. QED
    BY <1>1, <2>1 DEF CardsFit, CardsType, OwnedCards
<1>4. CASE /\ turn' = [turn EXCEPT !.cardPlayed = TRUE, !.phase = "ROBBER_MOVE_REQUIRED"]
           /\ pending' = [type |-> "MOVE_ROBBER", actor |-> p, cause |-> c.card]
  <2>1. PICK tn : /\ tn = turn' /\ tn \in TurnType /\ tn.phase = "ROBBER_MOVE_REQUIRED" /\ tn.setup = None
                /\ tn.current = p
    BY <1>2, <1>4 DEF Phases
  <2>2. pending'.type = "MOVE_ROBBER" /\ pending'.actor = p /\ pending'.cause # None
    BY <1>3, <1>4, SeatFacts
  <2>3. RobberFits'
    BY <2>1, <2>2 DEF RobberFits
  <2>4. DecisionFits'
    BY <2>2, <2>3, SeatFacts DEF DecisionFits, DecisionTypes, DiscardFits, CardFits, TradeFits
  <2>5. QED
    BY <1>1, <2>1, <2>4, OpenFits
<1>5. CASE /\ turn' = [turn EXCEPT !.cardPlayed = TRUE, !.phase = "FREE_ROAD_PLACEMENT"]
           /\ pending' = [type |-> "PLACE_FREE_ROADS", actor |-> p, card |-> c.card,
                          remaining |-> FreeRoadCount(buildings, roads, p)]
           /\ FreeRoadCount(buildings, roads, p) > 0
  <2>1. PICK tn : /\ tn = turn' /\ tn \in TurnType /\ tn.phase = "FREE_ROAD_PLACEMENT" /\ tn.setup = None
                /\ tn.current = p
    BY <1>2, <1>5 DEF Phases
  <2>2. PICK n, card : n = FreeRoadCount(buildings, roads, p) /\ card = c.card
    OBVIOUS
  <2>3. n \in {1, 2}
    BY <1>5, <2>2, FreeRoadCountFacts
  <2>4. pending' = [type |-> "PLACE_FREE_ROADS", actor |-> p, card |-> card, remaining |-> n]
    BY <1>5, <2>2
  <2>5. pending'.type = "PLACE_FREE_ROADS" /\ pending'.card = card /\ pending'.remaining = n
    BY <2>4
  <2>6. CardFits'
    BY <2>1, <2>3, <2>4, <2>5 DEF CardFits
  <2>7. DecisionFits'
    BY <2>5, <2>6, SeatFacts DEF DecisionFits, DecisionTypes, DiscardFits, RobberFits, TradeFits
  <2>8. QED
    BY <1>1, <2>1, <2>7, OpenFits
<1>6. CASE /\ turn' = [turn EXCEPT !.cardPlayed = TRUE]
           /\ \E decision \in {"CHOOSE_INVENTION_RESOURCES", "CHOOSE_MONOPOLY_RESOURCE"} :
                pending' = [type |-> decision, actor |-> p, card |-> c.card]
  <2>1. PICK tn : tn = turn'
    OBVIOUS
  <2>2. /\ tn \in TurnType /\ tn.phase = turn.phase /\ tn.setup = None /\ tn.current = p
        /\ tn.lastRoll = turn.lastRoll
    BY <1>1, <1>6, <2>1 DEF TurnType
  <2>3. /\ pending'.type \in {"CHOOSE_INVENTION_RESOURCES", "CHOOSE_MONOPOLY_RESOURCE"} /\ pending'.actor = p
    BY <1>6
  <2>4. tn.phase = (IF tn.lastRoll = None THEN "ROLL_REQUIRED" ELSE "ACTION")
    BY <1>1, <2>2 DEF GoesOn
  <2>5. CardFits'
    BY <2>1, <2>2, <2>3, <2>4 DEF CardFits, Resume
  <2>6. DecisionFits'
    BY <2>3, <2>5, SeatFacts DEF DecisionFits, DecisionTypes, DiscardFits, RobberFits, TradeFits
  <2>7. QED
    BY <1>1, <2>1, <2>2, <2>4, <2>6, OpenFits
<1>7. QED
  <2>1. CASE CardType[c.card] = "KNIGHT"
    BY <1>4, <2>1 DEF PlayCard
  <2>2. CASE CardType[c.card] = "ROAD_BUILDING"
    BY <1>5, <2>2 DEF PlayCard, AcceptsPlayCard
  <2>3. CASE CardType[c.card] \in {"INVENTION", "MONOPOLY"}
    BY <1>6, <2>3 DEF PlayCard
  <2>4. QED
    BY <2>1, <2>2, <2>3 DEF PlayCard

\* A card's effect leaves the turn where the card was played.
LEMMA ResumeGoesOn ==
  ASSUME TurnInvariant, winner = None, pending.type \in DecisionTypes,
         NEW tn, tn = [turn EXCEPT !.phase = Resume]
  PROVE  GoesOn(tn) /\ tn.current = turn.current /\ tn.lastRoll = turn.lastRoll /\ tn.cardPlayed = turn.cardPlayed
<1>1. turn \in TurnType /\ turn.setup = None
  BY DecidesFacts
<1>2. QED
  BY <1>1 DEF GoesOn, TurnType, Phases, Resume

\* A free road asks for another, or gives the turn back.
LEMMA FreeRoadTurn ==
  ASSUME TurnInvariant, NEW p, NEW e, PlaceFreeRoad(p, e)
  PROVE  TurnInvariant'
<1>1. /\ winner = None /\ pending.type = "PLACE_FREE_ROADS" /\ p = pending.actor /\ order' = order
      /\ pending.type \in DecisionTypes
  BY DEF PlaceFreeRoad, AcceptsFreeRoad, DecidesCard, Decides, DecisionTypes
<1>2. PICK tn, aw : /\ tn = [turn EXCEPT !.phase = Resume]
                    /\ aw = Reconciled(buildings, [roads EXCEPT ![e] = p], knights)
  OBVIOUS
<1>3. CASE ResolveVictory(buildings, aw, cards, tn, NoDecision)
  <2>1. PICK b, cs : b = buildings /\ cs = cards
    OBVIOUS
  <2>2. ResolveVictory(b, aw, cs, tn, NoDecision)
    BY <1>3, <2>1
  <2>3. Settled(tn)
    BY <2>2, ResolveSettles
  <2>4. QED
    BY <1>1, <1>2, <2>3, ResumeGoesOn, SettledFits
<1>4. CASE pending' = [pending EXCEPT !.remaining = 1] /\ UNCHANGED <<turn, cards, winner>>
  <2>1. PICK card : card = pending.card
    OBVIOUS
  <2>2. /\ pending = [type |-> "PLACE_FREE_ROADS", actor |-> turn.current, card |-> card,
                      remaining |-> pending.remaining]
        /\ turn.phase = "FREE_ROAD_PLACEMENT" /\ turn \in TurnType /\ turn.setup = None
    BY <1>1, <2>1, DecidesFacts DEF TurnInvariant, DecisionFits, CardFits
  <2>3. pending' = [type |-> "PLACE_FREE_ROADS", actor |-> turn.current, card |-> card, remaining |-> 1]
    BY <1>4, <2>2
  <2>4. pending'.type = "PLACE_FREE_ROADS" /\ pending'.card = card /\ pending'.remaining = 1
    BY <2>3
  <2>5. CardFits'
    BY <1>4, <2>2, <2>3, <2>4 DEF CardFits
  <2>6. DecisionFits'
    BY <2>4, <2>5, SeatFacts DEF DecisionFits, DecisionTypes, DiscardFits, RobberFits, TradeFits
  <2>7. PICK t : t = turn
    OBVIOUS
  <2>8. QED
    BY <1>1, <1>4, <2>2, <2>6, <2>7, OpenFits
<1>5. QED
  BY <1>2, <1>3, <1>4 DEF PlaceFreeRoad

\* The commands that answer the open decision and settle it without a score.
LEMMA AnswerTurn ==
  ASSUME TurnInvariant, NEW p,
         FinishFreeRoads(p) \/ RejectTrade(p) \/ AcceptTrade(p)
           \/ (\E bag : ChooseInvention(p, bag)) \/ (\E x : ChooseMonopoly(p, x))
  PROVE  TurnInvariant'
<1>1. CASE FinishFreeRoads(p)
  <2>1. winner = None /\ pending.type = "PLACE_FREE_ROADS" /\ order' = order /\ pending.type \in DecisionTypes
    BY <1>1 DEF FinishFreeRoads, AcceptsFinishFreeRoads, DecidesCard, Decides, DecisionTypes
  <2>2. PICK tn : tn = [turn EXCEPT !.phase = Resume]
    OBVIOUS
  <2>3. Settled(tn)
    BY <1>1, <2>2 DEF FinishFreeRoads, Settled
  <2>4. QED
    BY <2>1, <2>2, <2>3, ResumeGoesOn, SettledFits
<1>2. CASE RejectTrade(p) \/ AcceptTrade(p)
  <2>1. /\ winner = None /\ pending.type = "RESPOND_TO_TRADE" /\ order' = order
        /\ pending' = NoDecision /\ turn' = turn /\ winner' = winner
    BY <1>2 DEF RejectTrade, AcceptsReject, AcceptTrade, AcceptsAccept, Responds
  <2>2. turn.phase = "ACTION" /\ turn \in TurnType /\ turn.setup = None /\ turn.lastRoll # None
    BY <2>1, DecidesFacts DEF TurnInvariant, DecisionFits, TradeFits, DecisionTypes
  <2>3. PICK tn : tn = turn
    OBVIOUS
  <2>4. GoesOn(tn) /\ Settled(tn)
    BY <2>1, <2>2, <2>3 DEF GoesOn, Settled
  <2>5. QED
    BY <2>1, <2>4, SettledFits
<1>3. CASE (\E bag : ChooseInvention(p, bag)) \/ (\E x : ChooseMonopoly(p, x))
  <2>1. /\ winner = None /\ pending.type \in {"CHOOSE_INVENTION_RESOURCES", "CHOOSE_MONOPOLY_RESOURCE"}
        /\ order' = order /\ pending' = NoDecision /\ turn' = turn /\ winner' = winner
    BY <1>3 DEF ChooseInvention, AcceptsInvention, ChooseMonopoly, AcceptsMonopoly, DecidesCard, Decides
  <2>2. turn.phase = Resume /\ turn \in TurnType /\ turn.setup = None
    BY <2>1, DecidesFacts DEF TurnInvariant, DecisionFits, CardFits, DecisionTypes
  <2>3. PICK tn : tn = turn
    OBVIOUS
  <2>4. GoesOn(tn) /\ Settled(tn)
    BY <2>1, <2>2, <2>3 DEF GoesOn, Settled, Resume
  <2>5. QED
    BY <2>1, <2>4, SettledFits
<1>4. QED
  BY <1>1, <1>2, <1>3

\* An offer is open between the current player and another.
LEMMA OfferTurn ==
  ASSUME TurnInvariant, NEW p, NEW q \in Players, NEW gives, NEW gets,
         ProposeTrade(p, q, gives, gets) \/ CounterTrade(p, gives, gets)
  PROVE  TurnInvariant'
<1>1. CASE ProposeTrade(p, q, gives, gets)
  <2>1. /\ winner = None /\ p = turn.current /\ turn \in TurnType /\ turn.setup = None
        /\ turn.phase = "ACTION" /\ turn.lastRoll # None
    BY <1>1, InTurnFacts DEF ProposeTrade, AcceptsProposal, GoesOn
  <2>2. /\ order' = order /\ turn' = turn /\ winner' = winner /\ q # p
        /\ pending' = Offer(p, q, p, gives, gets, 0)
    BY <1>1 DEF ProposeTrade, AcceptsProposal
  <2>3. /\ pending'.type = "RESPOND_TO_TRADE" /\ pending'.initiator = p /\ pending'.counterparty = q
        /\ pending'.author = p /\ pending'.depth = 0
    BY <2>2 DEF Offer
  <2>4. TradeFits'
    BY <2>1, <2>2, <2>3 DEF TradeFits
  <2>5. DecisionFits'
    BY <2>3, <2>4, SeatFacts DEF DecisionFits, DecisionTypes, DiscardFits, RobberFits, CardFits
  <2>6. PICK tn : tn = turn
    OBVIOUS
  <2>7. QED
    BY <2>1, <2>2, <2>5, <2>6, OpenFits
<1>2. CASE CounterTrade(p, gives, gets)
  <2>1. /\ winner = None /\ pending.type = "RESPOND_TO_TRADE" /\ p = Responder(pending) /\ pending.depth = 0
        /\ order' = order /\ turn' = turn /\ winner' = winner
        /\ pending' = Offer(pending.initiator, p, p, gives, gets, 1)
    BY <1>2 DEF CounterTrade, AcceptsCounter, Responds
  <2>2. /\ turn.phase = "ACTION" /\ turn \in TurnType /\ turn.setup = None /\ turn.lastRoll # None
        /\ pending.initiator = turn.current /\ pending.counterparty \in Players \ {turn.current}
        /\ pending.author = pending.initiator
    BY <2>1, DecidesFacts DEF TurnInvariant, DecisionFits, TradeFits, DecisionTypes
  <2>3. p = pending.counterparty
    BY <2>1, <2>2 DEF Responder
  <2>4. /\ pending'.type = "RESPOND_TO_TRADE" /\ pending'.initiator = pending.initiator
        /\ pending'.counterparty = p /\ pending'.author = p /\ pending'.depth = 1
    BY <2>1 DEF Offer
  <2>5. TradeFits'
    BY <2>1, <2>2, <2>3, <2>4 DEF TradeFits
  <2>6. DecisionFits'
    BY <2>4, <2>5, SeatFacts DEF DecisionFits, DecisionTypes, DiscardFits, RobberFits, CardFits
  <2>7. PICK tn : tn = turn
    OBVIOUS
  <2>8. QED
    BY <2>1, <2>2, <2>6, <2>7, OpenFits
<1>3. QED
  BY <1>1, <1>2

\* A step is one of these, or leaves everything as it was.
LEMMA StepKinds ==
  ASSUME [Next]_vars
  PROVE  \/ UNCHANGED vars
         \/ \E p \in Players :
              \/ \E v \in SetupSites : PlaceInitialSettlement(p, v)
              \/ \E e \in Edges : PlaceInitialRoad(p, e)
              \/ \E total \in Dice : RollDice(p, total)
              \/ EndTurn(p)
              \/ \E bag : DiscardResources(p, bag)
              \/ \E t : MoveRobber(p, t)
              \/ \E q \in Players, x \in Resources : StealFrom(p, q, x)
              \/ (\E e : BuildRoad(p, e)) \/ (\E v : BuildSettlement(p, v) \/ UpgradeCity(p, v))
                   \/ BuyCard(p) \/ (\E give, get : MaritimeTrade(p, give, get))
              \/ \E c : PlayCard(p, c)
              \/ \E e \in Edges : PlaceFreeRoad(p, e)
              \/ FinishFreeRoads(p) \/ RejectTrade(p) \/ AcceptTrade(p)
                   \/ (\E bag : ChooseInvention(p, bag)) \/ (\E x : ChooseMonopoly(p, x))
              \/ \E q \in Players : \E gives, gets : ProposeTrade(p, q, gives, gets) \/ CounterTrade(p, gives, gets)
<1>1. CASE Next
  <2>1. CASE Stopped
    BY <2>1 DEF Stopped
  <2>2. ASSUME NEW p \in Players, PlayerStep(p)
        PROVE  \/ \E v \in SetupSites : PlaceInitialSettlement(p, v)
               \/ \E e \in Edges : PlaceInitialRoad(p, e)
               \/ \E total \in Dice : RollDice(p, total)
               \/ EndTurn(p)
               \/ \E bag : DiscardResources(p, bag)
               \/ \E t : MoveRobber(p, t)
               \/ \E q \in Players, x \in Resources : StealFrom(p, q, x)
               \/ (\E e : BuildRoad(p, e)) \/ (\E v : BuildSettlement(p, v) \/ UpgradeCity(p, v))
                    \/ BuyCard(p) \/ (\E give, get : MaritimeTrade(p, give, get))
               \/ \E c : PlayCard(p, c)
               \/ \E e \in Edges : PlaceFreeRoad(p, e)
               \/ FinishFreeRoads(p) \/ RejectTrade(p) \/ AcceptTrade(p)
                    \/ (\E bag : ChooseInvention(p, bag)) \/ (\E x : ChooseMonopoly(p, x))
               \/ \E q \in Players : \E gives, gets : ProposeTrade(p, q, gives, gets) \/ CounterTrade(p, gives, gets)
    BY <2>2, Zenon DEF PlayerStep
  <2>3. QED
    BY <1>1, <2>1, <2>2 DEF Next
<1>2. QED
  BY <1>1

\* Turns and decisions stay as the invariant describes them.
LEMMA TurnStep ==
  ASSUME TurnInvariant, CardsFit, [Next]_vars
  PROVE  TurnInvariant'
<1>1. CASE UNCHANGED vars
  BY <1>1 DEF vars, board, TurnInvariant, OrderFits, TurnFits, DecisionFits, DiscardFits, RobberFits, CardFits,
              TradeFits, Setup, Owing, Resume, ExpectedSetupPlayer
<1>2. ASSUME NEW p \in Players,
             \/ \E v \in SetupSites : PlaceInitialSettlement(p, v)
             \/ \E e \in Edges : PlaceInitialRoad(p, e)
             \/ \E total \in Dice : RollDice(p, total)
             \/ EndTurn(p)
             \/ \E bag : DiscardResources(p, bag)
             \/ \E t : MoveRobber(p, t)
             \/ \E q \in Players, x \in Resources : StealFrom(p, q, x)
      PROVE  TurnInvariant'
  BY <1>2, SettlementTurn, RoadTurn, RollTurn, EndTurnTurn, DiscardTurn, RobberTurn, StealTurn
<1>3. ASSUME NEW p \in Players,
             (\E e : BuildRoad(p, e)) \/ (\E v : BuildSettlement(p, v) \/ UpgradeCity(p, v))
               \/ BuyCard(p) \/ (\E give, get : MaritimeTrade(p, give, get))
      PROVE  TurnInvariant'
  BY <1>3, PaidActs, ActTurn
<1>4. ASSUME NEW p \in Players,
             \/ \E c : PlayCard(p, c)
             \/ \E e \in Edges : PlaceFreeRoad(p, e)
             \/ FinishFreeRoads(p) \/ RejectTrade(p) \/ AcceptTrade(p)
                  \/ (\E bag : ChooseInvention(p, bag)) \/ (\E x : ChooseMonopoly(p, x))
             \/ \E q \in Players : \E gives, gets : ProposeTrade(p, q, gives, gets) \/ CounterTrade(p, gives, gets)
      PROVE  TurnInvariant'
  BY <1>4, CardTurn, FreeRoadTurn, AnswerTurn, OfferTurn
<1>5. QED
  BY <1>1, <1>2, <1>3, <1>4, StepKinds

-----------------------------------------------------------------------------
(* Cards.                                                                  *)

\* Turning cards over leaves them cards of the game.
LEMMA RevealFits ==
  ASSUME NEW held \in SUBSET OwnedCards, IsFiniteSet(held)
  PROVE  Reveal(held) \in SUBSET OwnedCards /\ IsFiniteSet(Reveal(held))
<1>1. Reveal(held) \in SUBSET OwnedCards
  BY DEF Reveal, OwnedCards
<1>2. IsFiniteSet(Reveal(held))
  <2>1. PICK f : f = [c \in held |-> IF CardType[c.card] = "VICTORY_POINT"
                                   THEN [c EXCEPT !.status = "REVEALED"] ELSE c]
    OBVIOUS
  <2>2. f \in Surjection(held, Reveal(held))
    BY <2>1 DEF Surjection, Reveal
  <2>3. QED
    BY <2>2, FS_Surjection
<1>3. QED
  BY <1>1, <1>2

\* A winner's cards are turned over and stay cards of the game.
LEMMA ResolveCards ==
  ASSUME NEW b, NEW aw, NEW cs, NEW tn, NEW d, CardsType(cs), ResolveVictory(b, aw, cs, tn, d)
  PROVE  CardsType(cards')
<1>1. CASE cards' = cs
  BY <1>1
<1>2. CASE cards' = [cs EXCEPT ![tn.current] = Reveal(@)]
  <2>1. CASE tn.current \in Players
    <3>1. PICK shown : shown = Reveal(cs[tn.current])
      OBVIOUS
    <3>2. shown \in SUBSET OwnedCards /\ IsFiniteSet(shown)
      BY <2>1, <3>1, RevealFits DEF CardsType
    <3>3. cards' = [cs EXCEPT ![tn.current] = shown]
      BY <1>2, <3>1
    <3>4. QED
      BY <2>1, <3>2, <3>3 DEF CardsType
  <2>2. CASE tn.current \notin Players
    BY <1>2, <2>2 DEF CardsType
  <2>3. QED
    BY <2>1, <2>2
<1>3. QED
  BY <1>1, <1>2 DEF ResolveVictory

\* Every command leaves every player with cards of the game.
LEMMA CardsStep ==
  ASSUME TurnInvariant, CardsFit, [Next]_vars
  PROVE  CardsFit'
<1>1. ASSUME cards' = cards, deck' = deck PROVE CardsFit'
  BY <1>1 DEF CardsFit, CardsType
<1>2. CASE UNCHANGED vars
  BY <1>1, <1>2 DEF vars
<1>3. ASSUME NEW b, NEW aw, NEW tn, NEW d, ResolveVictory(b, aw, cards, tn, d), deck' = deck
      PROVE  CardsFit'
  <2>1. PICK cs : cs = cards
    OBVIOUS
  <2>2. CardsType(cards')
    BY <1>3, <2>1, ResolveCards DEF CardsFit
  <2>3. QED
    BY <1>3, <2>2 DEF CardsFit
<1>4. ASSUME NEW p \in Players,
             \/ \E v \in SetupSites : PlaceInitialSettlement(p, v)
             \/ \E e \in Edges : PlaceInitialRoad(p, e)
             \/ \E total \in Dice : RollDice(p, total)
             \/ \E bag : DiscardResources(p, bag)
             \/ FinishFreeRoads(p) \/ RejectTrade(p) \/ AcceptTrade(p)
                  \/ (\E bag : ChooseInvention(p, bag)) \/ (\E x : ChooseMonopoly(p, x))
             \/ \E q \in Players : \E gives, gets : ProposeTrade(p, q, gives, gets) \/ CounterTrade(p, gives, gets)
             \/ \E give, get : MaritimeTrade(p, give, get)
      PROVE  CardsFit'
  <2>1. cards' = cards /\ deck' = deck
    BY <1>4 DEF PlaceInitialSettlement, PlaceInitialRoad, RollDice, DiscardResources, FinishFreeRoads, RejectTrade,
                AcceptTrade, ChooseInvention, ChooseMonopoly, ProposeTrade, CounterTrade, MaritimeTrade
  <2>2. QED
    BY <1>1, <2>1
<1>5. ASSUME NEW cause, NEW tn, RobberDone(cause, tn), deck' = deck PROVE CardsFit'
  <2>1. PICK b, aw : b = buildings /\ aw = awards
    OBVIOUS
  <2>2. CASE ResolveVictory(b, aw, cards, tn, NoDecision)
    BY <1>3, <1>5, <2>2
  <2>3. QED
    BY <1>1, <1>5, <2>1, <2>2 DEF RobberDone
<1>6. ASSUME NEW p, NEW t, MoveRobber(p, t) PROVE CardsFit'
  <2>1. PICK cause, tn : cause = pending.cause /\ tn = [turn EXCEPT !.phase = AfterRobber(pending.cause)]
    OBVIOUS
  <2>2. deck' = deck /\ (cards' = cards \/ RobberDone(cause, tn))
    BY <1>6, <2>1 DEF MoveRobber
  <2>3. QED
    BY <1>1, <1>5, <2>2
<1>7. ASSUME NEW p, NEW q, NEW x, StealFrom(p, q, x) PROVE CardsFit'
  <2>1. PICK cause, tn : cause = pending.cause /\ tn = [turn EXCEPT !.phase = AfterRobber(pending.cause)]
    OBVIOUS
  <2>2. deck' = deck /\ RobberDone(cause, tn)
    BY <1>7, <2>1 DEF StealFrom, board
  <2>3. QED
    BY <1>5, <2>2
<1>8. ASSUME NEW p, EndTurn(p) PROVE CardsFit'
  <2>1. PICK b, aw, tn :
          /\ b = buildings /\ aw = awards
          /\ tn = [number |-> turn.number + 1, current |-> order[((CHOOSE i \in 1..N : order[i] = Current) % N) + 1],
                   phase |-> "ROLL_REQUIRED", setup |-> None, lastRoll |-> None, cardPlayed |-> FALSE]
    OBVIOUS
  <2>2. ResolveVictory(b, aw, cards, tn, NoDecision) /\ deck' = deck
    BY <1>8, <2>1 DEF EndTurn
  <2>3. QED
    BY <1>3, <2>2
<1>9. ASSUME NEW b, NEW r, Reconcile(b, r, cards), deck' = deck PROVE CardsFit'
  <2>1. PICK aw, tn : aw = Reconciled(b, r, knights) /\ tn = turn
    OBVIOUS
  <2>2. ResolveVictory(b, aw, cards, tn, NoDecision)
    BY <1>9, <2>1 DEF Reconcile
  <2>3. QED
    BY <1>3, <1>9, <2>2
<1>10. ASSUME NEW p, (\E e : BuildRoad(p, e)) \/ (\E v : BuildSettlement(p, v) \/ UpgradeCity(p, v))
       PROVE  CardsFit'
  <2>1. PICK b, r : Reconcile(b, r, cards) /\ deck' = deck
    BY <1>10 DEF BuildRoad, BuildSettlement, UpgradeCity
  <2>2. QED
    BY <1>9, <2>1
<1>11. ASSUME NEW p \in Players, BuyCard(p) PROVE CardsFit'
  <2>1. PICK c : c = [card |-> Head(deck), acquired |-> turn.number, status |-> "IN_HAND"]
    OBVIOUS
  <2>2. deck # <<>> /\ deck' = Tail(deck) /\ turn \in TurnType
    BY <1>11 DEF BuyCard, AcceptsBuyCard, TurnInvariant, TurnFits
  <2>3. Head(deck) \in Cards /\ deck' \in Seq(Cards)
    BY <2>2 DEF CardsFit
  <2>4. c \in OwnedCards
    BY <2>1, <2>2, <2>3 DEF OwnedCards, TurnType
  <2>5. PICK held : held = cards[p] \cup {c}
    OBVIOUS
  <2>6. held \in SUBSET OwnedCards /\ IsFiniteSet(held)
    BY <2>4, <2>5, FS_AddElement DEF CardsFit, CardsType
  <2>7. PICK b, aw, tn, cs : /\ b = buildings /\ aw = Reconciled(buildings, roads, knights) /\ tn = turn
                             /\ cs = [cards EXCEPT ![p] = held]
    OBVIOUS
  <2>8. ResolveVictory(b, aw, cs, tn, NoDecision)
    BY <1>11, <2>1, <2>5, <2>7 DEF BuyCard, Reconcile
  <2>9. CardsType(cs)
    BY <2>6, <2>7 DEF CardsFit, CardsType
  <2>10. QED
    BY <2>3, <2>8, <2>9, ResolveCards DEF CardsFit
<1>12. ASSUME NEW p \in Players, NEW c, PlayCard(p, c) PROVE CardsFit'
  <2>1. c \in cards[p] /\ deck' = deck
    BY <1>12 DEF PlayCard, AcceptsPlayCard, Playable, InHand
  <2>2. PICK d : d = [c EXCEPT !.status = "PLAYED"]
    OBVIOUS
  <2>3. d \in OwnedCards
    BY <2>1, <2>2 DEF CardsFit, CardsType, OwnedCards
  <2>4. PICK held : held = (cards[p] \ {c}) \cup {d}
    OBVIOUS
  <2>5. held \in SUBSET OwnedCards
    BY <2>3, <2>4 DEF CardsFit, CardsType
  <2>6. IsFiniteSet(held)
    BY <2>4, FS_AddElement, FS_RemoveElement DEF CardsFit, CardsType
  <2>7. cards' = [cards EXCEPT ![p] = held]
    BY <1>12, <2>2, <2>4 DEF PlayCard
  <2>8. QED
    BY <2>1, <2>5, <2>6, <2>7 DEF CardsFit, CardsType
<1>13. ASSUME NEW p, NEW e, PlaceFreeRoad(p, e) PROVE CardsFit'
  <2>1. PICK b, aw, tn : /\ b = buildings /\ aw = Reconciled(buildings, [roads EXCEPT ![e] = p], knights)
                         /\ tn = [turn EXCEPT !.phase = Resume]
    OBVIOUS
  <2>2. deck' = deck /\ (cards' = cards \/ ResolveVictory(b, aw, cards, tn, NoDecision))
    BY <1>13, <2>1 DEF PlaceFreeRoad
  <2>3. QED
    BY <1>1, <1>3, <2>2
<1>14. QED
  BY <1>2, <1>4, <1>6, <1>7, <1>8, <1>10, <1>11, <1>12, <1>13, StepKinds

\* Nobody holds a card in a new game.
LEMMA CardsInit ==
  ASSUME Init
  PROVE  CardsFit
<1>1. deck \in Seq(Cards)
  BY EngineAssumption DEF Init, EngineAssumption, Cards
<1>2. cards = [p \in Players |-> {}]
  BY DEF Init
<1>3. QED
  BY <1>1, <1>2, FS_EmptySet DEF CardsFit, CardsType

\* What is known of turns, decisions and cards is known of every state of a game.
THEOREM TurnsHold == Spec => [](TurnInvariant /\ CardsFit)
<1>1. Init => TurnInvariant /\ CardsFit
  BY TurnInit, CardsInit
<1>2. TurnInvariant /\ CardsFit /\ [Next]_vars => (TurnInvariant /\ CardsFit)'
  BY TurnStep, CardsStep
<1>3. QED
  BY <1>1, <1>2, PTL DEF Spec

-----------------------------------------------------------------------------
(* The engine implements TurnOrder.  First, what TurnOrder allows.         *)

\* A game as TurnOrder shows it: order, setup, current, half, card, owing,
\* more and winner.
At(o, s, c, h, k, w, m, v) ==
  [order |-> o, setup |-> s, current |-> c, half |-> h, card |-> k, owing |-> w, more |-> m, winner |-> v]

\* What a game is at, part by part.
LEMMA AtParts ==
  ASSUME NEW o, NEW s, NEW c, NEW h, NEW k, NEW w, NEW m, NEW v
  PROVE  /\ At(o, s, c, h, k, w, m, v).order = o
         /\ At(o, s, c, h, k, w, m, v).setup = s
         /\ At(o, s, c, h, k, w, m, v).current = c
         /\ At(o, s, c, h, k, w, m, v).half = h
         /\ At(o, s, c, h, k, w, m, v).card = k
         /\ At(o, s, c, h, k, w, m, v).owing = w
         /\ At(o, s, c, h, k, w, m, v).more = m
         /\ At(o, s, c, h, k, w, m, v).winner = v
  BY DEF At

\* A decision that asks one of W, with one of M answers to follow.
LEMMA AsksAt ==
  ASSUME NEW o, NEW s, NEW c, NEW h, NEW k, NEW w, NEW m, NEW v, NEW W, NEW M, NEW a \in W, NEW b \in M
  PROVE  At(o, s, c, h, k, a, b, v) \in Turns!Asks(At(o, s, c, h, k, w, m, v), W, M)
<1>1. PICK g : g = At(o, s, c, h, k, w, m, v)
  OBVIOUS
<1>2. PICK ask : ask = <<a, b>>
  OBVIOUS
<1>3. ask \in W \X M /\ ask[1] = a /\ ask[2] = b
  BY <1>2
<1>4. [g EXCEPT !.owing = ask[1], !.more = ask[2]] = [[g EXCEPT !.owing = ask[1]] EXCEPT !.more = ask[2]]
  OBVIOUS
<1>5. [g EXCEPT !.owing = ask[1]] = At(o, s, c, h, k, a, m, v)
  BY <1>1, <1>3 DEF At
<1>6. [At(o, s, c, h, k, a, m, v) EXCEPT !.more = ask[2]] = At(o, s, c, h, k, a, b, v)
  BY <1>3 DEF At
<1>7. QED
  BY <1>1, <1>3, <1>4, <1>5, <1>6 DEF Turns!Asks

\* In the setup a settlement is followed by a road, and a road ends the turn.
LEMMA AllowsSetup ==
  ASSUME NEW o, NEW s, s # None, NEW c, NEW k
  PROVE  /\ At(o, s, c, 2, k, {}, 0, None) \in Turns!After(At(o, s, c, 1, k, {}, 0, None), c)
         /\ Turns!NextTurn(At(o, s, c, 2, k, {}, 0, None)) \in Turns!After(At(o, s, c, 2, k, {}, 0, None), c)
  BY DEF At, Turns!After, Turns!Act

\* The dice leave the turn to its player, or open the discards or the robber.
LEMMA AllowsRoll ==
  ASSUME NEW o, NEW c, NEW k, NEW w, NEW m,
         \/ w = {} /\ m = 0
         \/ w \in SUBSET Players /\ w # {} /\ m = 2
         \/ w = {c} /\ m = 1
  PROVE  At(o, None, c, 2, k, w, m, None) \in Turns!After(At(o, None, c, 1, k, {}, 0, None), c)
<1>1. PICK g : g = At(o, None, c, 1, k, {}, 0, None)
  OBVIOUS
<1>2. PICK rolled : rolled = At(o, None, c, 2, k, {}, 0, None)
  OBVIOUS
<1>3. [g EXCEPT !.half = 2] = rolled
  BY <1>1, <1>2 DEF At
<1>4. /\ g.winner = None /\ g.owing = {} /\ g.current = c /\ g.setup = None /\ g.half = 1
      /\ rolled.current = c
  BY <1>1, <1>2, AtParts
<1>5. Turns!Roll(g) = {rolled} \cup Turns!Asks(rolled, (SUBSET Players) \ {{}}, {2})
                               \cup Turns!Asks(rolled, {{c}}, {1})
  BY <1>4, <1>3 DEF Turns!Roll
<1>6. At(o, None, c, 2, k, w, m, None) \in Turns!Roll(g)
  <2>1. CASE w = {} /\ m = 0
    BY <1>2, <1>5, <2>1
  <2>2. CASE w \in SUBSET Players /\ w # {} /\ m = 2
    <3>1. w \in (SUBSET Players) \ {{}}
      BY <2>2, Zenon
    <3>2. m \in {2}
      BY <2>2
    <3>3. At(o, None, c, 2, k, w, m, None) \in Turns!Asks(rolled, (SUBSET Players) \ {{}}, {2})
      BY <1>2, <3>1, <3>2, AsksAt
    <3>4. QED
      BY <1>5, <3>3
  <2>3. CASE w = {c} /\ m = 1
    <3>1. w \in {{c}} /\ m \in {1}
      BY <2>3
    <3>2. At(o, None, c, 2, k, w, m, None) \in Turns!Asks(rolled, {{c}}, {1})
      BY <1>2, <3>1, AsksAt
    <3>3. QED
      BY <1>5, <3>2
  <2>4. QED
    BY <2>1, <2>2, <2>3
<1>7. QED
  BY <1>1, <1>4, <1>6 DEF Turns!After, Turns!Act

\* What a player may do after the dice: act, win, offer a trade, or end the turn.
LEMMA AllowsAction ==
  ASSUME NEW o, NEW c, NEW k
  PROVE  LET g == At(o, None, c, 2, k, {}, 0, None)
         IN  /\ g \in Turns!After(g, c)
             /\ At(o, None, c, 2, k, {}, 0, c) \in Turns!After(g, c)
             /\ \A q \in Players \ {c} : At(o, None, c, 2, k, {q}, 1, None) \in Turns!After(g, c)
             /\ Turns!OrWon(Turns!NextTurn(g)) \subseteq Turns!After(g, c)
<1>1. PICK g : g = At(o, None, c, 2, k, {}, 0, None)
  OBVIOUS
<1>2. g.winner = None /\ g.owing = {} /\ g.current = c /\ g.setup = None /\ g.half = 2
  BY <1>1, AtParts
<1>3. [g EXCEPT !.winner = c] = At(o, None, c, 2, k, {}, 0, c)
  BY <1>1 DEF At
<1>4. Turns!After(g, c) =
        Turns!PlayCard(g) \cup (Turns!Build(g) \cup Turns!Propose(g) \cup Turns!OrWon(Turns!NextTurn(g)))
  BY <1>2 DEF Turns!After, Turns!Act
<1>5. Turns!Build(g) = {g, At(o, None, c, 2, k, {}, 0, c)}
  BY <1>1, <1>2, <1>3 DEF Turns!Build, Turns!OrWon
<1>6. \A q \in Players \ {c} : At(o, None, c, 2, k, {q}, 1, None) \in Turns!Propose(g)
  <2> TAKE q \in Players \ {c}
  <2>1. {q} \in {{r} : r \in Players \ {c}} /\ 1 \in {1}
    OBVIOUS
  <2>2. At(o, None, c, 2, k, {q}, 1, None) \in Turns!Asks(g, {{r} : r \in Players \ {c}}, {1})
    BY <1>1, <2>1, AsksAt
  <2>3. QED
    BY <1>2, <2>2 DEF Turns!Propose
<1>7. QED
  BY <1>1, <1>4, <1>5, <1>6

\* A card is played once in a turn, before or after the dice.
LEMMA AllowsCard ==
  ASSUME NEW o, NEW c, NEW h \in {1, 2}, NEW m \in {0, 1}
  PROVE  At(o, None, c, h, TRUE, {c}, m, None) \in Turns!After(At(o, None, c, h, FALSE, {}, 0, None), c)
<1>1. PICK no, yes : no = FALSE /\ yes = TRUE
  OBVIOUS
<1>2. PICK g : g = At(o, None, c, h, no, {}, 0, None)
  OBVIOUS
<1>3. g.winner = None /\ g.owing = {} /\ g.current = c /\ g.setup = None /\ g.card = no /\ g.half = h
  BY <1>2, AtParts
<1>4. [g EXCEPT !.card = yes] = At(o, None, c, h, yes, {}, 0, None)
  BY <1>2 DEF At
<1>5. [g EXCEPT !.card = TRUE] = At(o, None, c, h, TRUE, {}, 0, None)
  BY <1>1, <1>4
<1>6. At(o, None, c, h, TRUE, {c}, m, None) \in Turns!PlayCard(g)
  <2>1. {c} \in {{c}}
    OBVIOUS
  <2>2. At(o, None, c, h, TRUE, {c}, m, None) \in Turns!Asks(At(o, None, c, h, TRUE, {}, 0, None), {{c}}, {0, 1})
    BY <2>1, AsksAt
  <2>3. QED
    BY <1>3, <1>5, <1>1, <2>2 DEF Turns!PlayCard
<1>7. QED
  BY <1>2, <1>3, <1>6, <1>1 DEF Turns!After, Turns!Act

\* An answer leaves others to answer, settles the decision, or asks once more.
LEMMA AllowsAnswer ==
  ASSUME NEW o, NEW s, NEW c, NEW h, NEW k, NEW w, NEW m, NEW p \in w
  PROVE  LET g == At(o, s, c, h, k, w, m, None)
         IN  /\ w # {p} => At(o, s, c, h, k, w \ {p}, m, None) \in Turns!After(g, p)
             /\ w = {p} => At(o, s, c, h, k, {}, 0, None) \in Turns!After(g, p)
             /\ w = {p} => At(o, s, c, h, k, {}, 0, c) \in Turns!After(g, p)
             /\ w = {p} /\ m # 0 => \A q \in Players, n \in 0..(m - 1) :
                  At(o, s, c, h, k, {q}, n, None) \in Turns!After(g, p)
<1>1. PICK g : g = At(o, s, c, h, k, w, m, None)
  OBVIOUS
<1>2. g.winner = None /\ g.owing = w /\ g.current = c /\ g.more = m
  BY <1>1, AtParts
<1>3. Turns!After(g, p) = Turns!Answer(g, p)
  BY <1>2 DEF Turns!After
<1>4. ASSUME w # {p} PROVE At(o, s, c, h, k, w \ {p}, m, None) \in Turns!Answer(g, p)
  <2>1. [g EXCEPT !.owing = w \ {p}] = At(o, s, c, h, k, w \ {p}, m, None)
    BY <1>1 DEF At
  <2>2. w \ {p} # {}
    BY <1>4
  <2>3. QED
    BY <1>2, <2>1, <2>2 DEF Turns!Answer
<1>5. PICK done : done = At(o, s, c, h, k, {}, 0, None)
  OBVIOUS
<1>6. [g EXCEPT !.owing = {}, !.more = 0] = done
  <2>1. [g EXCEPT !.owing = {}, !.more = 0] = [[g EXCEPT !.owing = {}] EXCEPT !.more = 0]
    OBVIOUS
  <2>2. [g EXCEPT !.owing = {}] = At(o, s, c, h, k, {}, m, None)
    BY <1>1 DEF At
  <2>3. [At(o, s, c, h, k, {}, m, None) EXCEPT !.more = 0] = done
    BY <1>5 DEF At
  <2>4. QED
    BY <2>1, <2>2, <2>3
<1>7. done.current = c
  BY <1>5, AtParts
<1>8. [done EXCEPT !.winner = c] = At(o, s, c, h, k, {}, 0, c)
  BY <1>5 DEF At
<1>9. ASSUME w = {p}
      PROVE  Turns!Answer(g, p) = {done, At(o, s, c, h, k, {}, 0, c)} \cup
               (IF m = 0 THEN {} ELSE Turns!Asks(g, {{q} : q \in Players}, 0..(m - 1)))
  <2>1. g.owing \ {p} = {}
    BY <1>2, <1>9
  <2>2. Turns!OrWon(done) = {done, At(o, s, c, h, k, {}, 0, c)}
    BY <1>7, <1>8 DEF Turns!OrWon
  <2>3. QED
    BY <1>2, <1>6, <2>1, <2>2 DEF Turns!Answer
<1>10. ASSUME w = {p}, m # 0, NEW q \in Players, NEW n \in 0..(m - 1)
      PROVE  At(o, s, c, h, k, {q}, n, None) \in Turns!Answer(g, p)
  <2>1. {q} \in {{r} : r \in Players}
    OBVIOUS
  <2>2. At(o, s, c, h, k, {q}, n, None) \in Turns!Asks(g, {{r} : r \in Players}, 0..(m - 1))
    BY <1>1, <2>1, AsksAt
  <2>3. QED
    BY <1>9, <1>10, <2>2
<1>11. QED
  BY <1>1, <1>3, <1>4, <1>5, <1>9, <1>10

-----------------------------------------------------------------------------
(* What TurnOrder is shown, part by part.                                  *)

Stage(t) == IF t.setup = None THEN None ELSE (t.setup.round - 1) * N + t.setup.index + 1

Half(t) == IF t.lastRoll # None \/ t.phase = "SETUP_ROAD" THEN 2 ELSE 1

Owed(d) ==
  CASE d.type = None -> {}
    [] d.type = "DISCARD_RESOURCES" -> {q \in DOMAIN d.required : q \notin d.completed}
    [] d.type = "RESPOND_TO_TRADE" -> {Responder(d)}
    [] OTHER -> {d.actor}

Left(d) ==
  CASE d.type = "DISCARD_RESOURCES" -> 2
    [] d.type = "MOVE_ROBBER" -> 1
    [] d.type = "RESPOND_TO_TRADE" -> 1 - d.depth
    [] d.type = "PLACE_FREE_ROADS" -> d.remaining - 1
    [] OTHER -> 0

GameAt(o, t, d, w) == At(o, Stage(t), t.current, Half(t), t.cardPlayed, Owed(d), Left(d), w)

\* What is shown of a state is made of its order, turn, decision and winner.
LEMMA ShownIs ==
  /\ Shown = GameAt(order, turn, pending, winner)
  /\ Shown' = GameAt(order', turn', pending', winner')
<1>1. Shown = GameAt(order, turn, pending, winner)
  BY DEF Shown, GameAt, At, Stage, Half, Owed, Left, Owing
<1>2. Shown' = GameAt(order', turn', pending', winner')
  BY DEF Shown, GameAt, At, Stage, Half, Owed, Left, Owing
<1>3. QED
  BY <1>1, <1>2

\* Nobody owes anything when no decision is open.
LEMMA NothingOwed == Owed(NoDecision) = {} /\ Left(NoDecision) = 0
<1>1. PICK d : d = NoDecision
  OBVIOUS
<1>2. d.type = None
  BY <1>1 DEF NoDecision
<1>3. None \notin DecisionTypes
  BY SeatFacts
<1>4. Owed(d) = {} /\ Left(d) = 0
  BY <1>2, <1>3 DEF Owed, Left, DecisionTypes
<1>5. QED
  BY <1>1, <1>4

\* Who owes an answer to each decision, and how many can follow.
LEMMA WhoOwes ==
  ASSUME NEW d, d.type \in DecisionTypes
  PROVE  /\ d.type = "DISCARD_RESOURCES" =>
              Owed(d) = {q \in DOMAIN d.required : q \notin d.completed} /\ Left(d) = 2
         /\ d.type = "RESPOND_TO_TRADE" => Owed(d) = {Responder(d)} /\ Left(d) = 1 - d.depth
         /\ d.type \notin {"DISCARD_RESOURCES", "RESPOND_TO_TRADE"} => Owed(d) = {d.actor}
         /\ d.type = "MOVE_ROBBER" => Left(d) = 1
         /\ d.type = "PLACE_FREE_ROADS" => Left(d) = d.remaining - 1
         /\ d.type \in {"CHOOSE_ROBBER_TARGET", "CHOOSE_INVENTION_RESOURCES", "CHOOSE_MONOPOLY_RESOURCE"} => Left(d) = 0
<1>1. None \notin DecisionTypes
  BY SeatFacts
<1>2. PICK type : type = d.type
  OBVIOUS
<1>3. type # None /\ type \in DecisionTypes
  BY <1>1, <1>2
<1>4. QED
  BY <1>2, <1>3 DEF Owed, Left, DecisionTypes

\* The same game in another player's turn.
LEMMA AtCurrent ==
  ASSUME NEW o, NEW s, NEW c, NEW h, NEW k, NEW w, NEW m, NEW v, NEW q
  PROVE  [At(o, s, c, h, k, w, m, v) EXCEPT !.current = q] = At(o, s, q, h, k, w, m, v)
  BY DEF At

\* The same game at another stage of the setup.
LEMMA AtSetup ==
  ASSUME NEW o, NEW s, NEW c, NEW h, NEW k, NEW w, NEW m, NEW v, NEW stage
  PROVE  [At(o, s, c, h, k, w, m, v) EXCEPT !.setup = stage] = At(o, stage, c, h, k, w, m, v)
  BY DEF At

\* A turn begins with the dice or a settlement.
LEMMA FreshAt ==
  ASSUME NEW o, NEW s, NEW c, NEW k
  PROVE  [At(o, s, c, 2, k, {}, 0, None) EXCEPT !.half = 1, !.card = FALSE, !.owing = {}, !.more = 0]
           = At(o, s, c, 1, FALSE, {}, 0, None)
<1>1. PICK no : no = FALSE
  OBVIOUS
<1>2. PICK g : g = At(o, s, c, 2, k, {}, 0, None)
  OBVIOUS
<1>3. PICK a : a = [g EXCEPT !.half = 1]
  OBVIOUS
<1>4. PICK b : b = [a EXCEPT !.card = no]
  OBVIOUS
<1>5. [g EXCEPT !.half = 1, !.card = no, !.owing = {}, !.more = 0] = [[b EXCEPT !.owing = {}] EXCEPT !.more = 0]
  BY <1>3, <1>4
<1>6. a = At(o, s, c, 1, k, {}, 0, None)
  BY <1>2, <1>3 DEF At
<1>7. b = At(o, s, c, 1, no, {}, 0, None)
  BY <1>4, <1>6 DEF At
<1>8. [b EXCEPT !.owing = {}] = b
  BY <1>7 DEF At
<1>9. [b EXCEPT !.more = 0] = b
  BY <1>7 DEF At
<1>10. QED
  BY <1>1, <1>2, <1>5, <1>7, <1>8, <1>9

\* After the setup the turn goes to the next in the order.
LEMMA NextInOrder ==
  ASSUME NEW o, Len(o) = N, NEW c, NEW k
  PROVE  LET i == CHOOSE i \in 1..N : o[i] = c
         IN  Turns!NextTurn(At(o, None, c, 2, k, {}, 0, None)) = At(o, None, o[(i % N) + 1], 1, FALSE, {}, 0, None)
<1>1. PICK g : g = At(o, None, c, 2, k, {}, 0, None)
  OBVIOUS
<1>2. g.setup = None /\ g.order = o /\ g.current = c
  BY <1>1, AtParts
<1>3. PICK fresh : fresh = [g EXCEPT !.half = 1, !.card = FALSE, !.owing = {}, !.more = 0]
  OBVIOUS
<1>4. fresh = At(o, None, c, 1, FALSE, {}, 0, None)
  BY <1>1, <1>3, FreshAt
<1>5. PICK x : x = o[((CHOOSE i \in 1..N : o[i] = c) % N) + 1]
  OBVIOUS
<1>6. [fresh EXCEPT !.current = x] = At(o, None, x, 1, FALSE, {}, 0, None)
  <2>1. PICK no : no = FALSE
    OBVIOUS
  <2>2. [At(o, None, c, 1, no, {}, 0, None) EXCEPT !.current = x] = At(o, None, x, 1, no, {}, 0, None)
    BY AtCurrent
  <2>3. QED
    BY <1>4, <2>1, <2>2
<1>7. Turns!NextTurn(g) = [fresh EXCEPT !.current = x]
  BY <1>2, <1>3, <1>5 DEF Turns!NextTurn
<1>8. QED
  BY <1>1, <1>5, <1>6, <1>7

\* In the setup it goes through the order and back.
LEMMA NextInSetup ==
  ASSUME NEW o, Len(o) = N, NEW c, NEW k, NEW s, s # None
  PROVE  Turns!NextTurn(At(o, s, c, 2, k, {}, 0, None)) =
           IF s = 2 * N THEN At(o, None, o[1], 1, FALSE, {}, 0, None)
           ELSE At(o, s + 1, o[IF s + 1 <= N THEN s + 1 ELSE 2 * N + 1 - (s + 1)], 1, FALSE, {}, 0, None)
<1>1. PICK g : g = At(o, s, c, 2, k, {}, 0, None)
  OBVIOUS
<1>2. g.setup = s /\ g.order = o /\ g.current = c
  BY <1>1, AtParts
<1>3. PICK fresh : fresh = [g EXCEPT !.half = 1, !.card = FALSE, !.owing = {}, !.more = 0]
  OBVIOUS
<1>4. fresh = At(o, s, c, 1, FALSE, {}, 0, None)
  BY <1>1, <1>3, FreshAt
<1>5. ASSUME NEW x, NEW y
      PROVE  [fresh EXCEPT !.setup = x, !.current = y] = At(o, x, y, 1, FALSE, {}, 0, None)
  <2>1. PICK no : no = FALSE
    OBVIOUS
  <2>2. [At(o, s, c, 1, no, {}, 0, None) EXCEPT !.setup = x] = At(o, x, c, 1, no, {}, 0, None)
    BY AtSetup
  <2>3. [At(o, x, c, 1, no, {}, 0, None) EXCEPT !.current = y] = At(o, x, y, 1, no, {}, 0, None)
    BY AtCurrent
  <2>4. [fresh EXCEPT !.setup = x, !.current = y] = [[fresh EXCEPT !.setup = x] EXCEPT !.current = y]
    OBVIOUS
  <2>5. QED
    BY <1>4, <2>1, <2>2, <2>3, <2>4
<1>6. Turns!NextTurn(g) =
        IF s = 2 * N THEN [fresh EXCEPT !.setup = None, !.current = o[1]]
        ELSE [fresh EXCEPT !.setup = s + 1, !.current = o[IF s + 1 <= N THEN s + 1 ELSE 2 * N + 1 - (s + 1)]]
  BY <1>2, <1>3 DEF Turns!NextTurn
<1>7. QED
  BY <1>1, <1>5, <1>6

\* What a settled decision leaves to be seen.
LEMMA SettledShows ==
  ASSUME winner = None, order' = order, NEW tn, GoesOn(tn), Settled(tn)
  PROVE  \/ Shown' = At(order, None, tn.current, Half(tn), tn.cardPlayed, {}, 0, None)
         \/ Shown' = At(order, None, tn.current, Half(tn), tn.cardPlayed, {}, 0, tn.current)
<1>1. /\ tn.setup = None /\ tn \in TurnType /\ tn.phase # "SETUP_ROAD"
  BY DEF GoesOn
<1>2. Shown' = GameAt(order, turn', NoDecision, winner')
  BY ShownIs DEF Settled
<1>3. Shown' = At(order, Stage(turn'), turn'.current, Half(turn'), turn'.cardPlayed, {}, 0, winner')
  BY <1>2, NothingOwed DEF GameAt
<1>4. Stage(tn) = None
  BY <1>1 DEF Stage
<1>5. CASE turn' = tn /\ winner' = winner
  BY <1>3, <1>4, <1>5
<1>6. CASE turn' = [tn EXCEPT !.phase = "GAME_OVER"] /\ winner' = tn.current
  <2>1. PICK over : over = [tn EXCEPT !.phase = "GAME_OVER"]
    OBVIOUS
  <2>2. /\ over.current = tn.current /\ over.lastRoll = tn.lastRoll /\ over.setup = None
        /\ over.phase = "GAME_OVER"
    BY <1>1, <2>1 DEF TurnType
  <2>3. over.cardPlayed = tn.cardPlayed
    BY <1>1, <2>1 DEF TurnType
  <2>4. Stage(over) = None /\ Half(over) = Half(tn)
    BY <1>1, <2>2 DEF Stage, Half
  <2>5. QED
    BY <1>3, <1>6, <2>1, <2>2, <2>3, <2>4
<1>7. QED
  BY <1>5, <1>6 DEF Settled

-----------------------------------------------------------------------------
(* Every command does what TurnOrder allows.                               *)

\* In the setup nobody owes anything, and the stage counts the turns.
LEMMA SetupShows ==
  ASSUME TurnInvariant, Setup
  PROVE  /\ turn.current \in Players /\ Stage(turn) \in Nat /\ Stage(turn) # None
         /\ Stage(turn) = (IF turn.setup.round = 1 THEN 0 ELSE N) + turn.setup.index + 1
         /\ Shown = At(order, Stage(turn), turn.current, IF turn.phase = "SETUP_ROAD" THEN 2 ELSE 1, FALSE, {}, 0, None)
<1>1. /\ turn \in TurnType /\ turn.lastRoll = None /\ turn.cardPlayed = FALSE /\ winner = None
      /\ pending = NoDecision /\ turn.setup # None
  BY DEF TurnInvariant, TurnFits, TurnType
<1>2. turn.setup \in Setups /\ turn.current \in Players
  BY <1>1 DEF TurnType
<1>3. N \in Nat /\ turn.setup.round \in {1, 2} /\ turn.setup.index \in 0..(N - 1)
  BY <1>2, SeatFacts DEF Setups, N
<1>4. Stage(turn) = (turn.setup.round - 1) * N + turn.setup.index + 1
  BY <1>1 DEF Stage
<1>5. ASSUME turn.setup.round = 1
      PROVE  Stage(turn) = (IF turn.setup.round = 1 THEN 0 ELSE N) + turn.setup.index + 1
  <2>1. (turn.setup.round - 1) * N = 0
    BY <1>3, <1>5
  <2>2. Stage(turn) = 0 + turn.setup.index + 1
    BY <1>3, <1>4, <2>1
  <2>3. QED
    BY <1>3, <1>5, <2>2
<1>6. ASSUME turn.setup.round = 2
      PROVE  Stage(turn) = (IF turn.setup.round = 1 THEN 0 ELSE N) + turn.setup.index + 1
  <2>1. (turn.setup.round - 1) * N = N
    BY <1>3, <1>6
  <2>2. Stage(turn) = N + turn.setup.index + 1
    BY <1>3, <1>4, <2>1
  <2>3. QED
    BY <1>3, <1>6, <2>2
<1>7. Stage(turn) = (IF turn.setup.round = 1 THEN 0 ELSE N) + turn.setup.index + 1
  BY <1>3, <1>5, <1>6
<1>8. Stage(turn) \in Nat /\ Stage(turn) # None
  BY <1>3, <1>7, SeatFacts
<1>9. Half(turn) = (IF turn.phase = "SETUP_ROAD" THEN 2 ELSE 1)
  BY <1>1 DEF Half
<1>10. Shown = At(order, Stage(turn), turn.current, Half(turn), FALSE, {}, 0, None)
  BY <1>1, ShownIs, NothingOwed DEF GameAt
<1>11. QED
  BY <1>2, <1>7, <1>8, <1>9, <1>10

\* The settlement of the setup.
LEMMA SettlementFollows ==
  ASSUME TurnInvariant, NEW p, NEW v \in SetupSites, PlaceInitialSettlement(p, v)
  PROVE  p \in Players /\ Shown' \in Turns!After(Shown, p)
<1>1. /\ order' = order /\ pending' = pending /\ winner' = winner /\ turn.phase = "SETUP_SETTLEMENT"
      /\ turn' = [turn EXCEPT !.phase = "SETUP_ROAD", !.setup.settlement = v] /\ p = turn.current
      /\ pending = NoDecision /\ winner = None
  BY DEF PlaceInitialSettlement, AcceptsInitialSettlement, InTurn, Current
<1>2. Setup /\ turn \in TurnType
  BY <1>1 DEF TurnInvariant, TurnFits, Setup
<1>3. PICK stage : stage = Stage(turn)
  OBVIOUS
<1>4. /\ stage # None /\ p \in Players
      /\ Shown = At(order, stage, p, 1, FALSE, {}, 0, None)
  BY <1>1, <1>2, <1>3, SetupShows
<1>5. turn.setup # None /\ turn.lastRoll = None /\ turn.cardPlayed = FALSE
  BY <1>2 DEF TurnInvariant, TurnFits, TurnType
<1>6. turn.setup \in Setups
  BY <1>2, <1>5 DEF TurnType
<1>7. PICK s : s = [turn.setup EXCEPT !.settlement = v]
  OBVIOUS
<1>8. s.round = turn.setup.round /\ s.index = turn.setup.index /\ s # None
  <2>1. s.round = turn.setup.round /\ s.index = turn.setup.index
    BY <1>6, <1>7 DEF Setups
  <2>2. TurnInvariant'
    BY SettlementTurn
  <2>3. turn'.setup = s /\ turn'.phase = "SETUP_ROAD"
    BY <1>1, <1>2, <1>7 DEF TurnType
  <2>4. QED
    BY <2>1, <2>2, <2>3 DEF TurnInvariant, TurnFits, Setup
<1>9. turn' = [turn EXCEPT !.phase = "SETUP_ROAD", !.setup = s]
  BY <1>1, <1>2, <1>7 DEF TurnType
<1>10. PICK tn : tn = turn'
  OBVIOUS
<1>11. /\ tn.phase = "SETUP_ROAD" /\ tn.setup = s /\ tn.current = p
       /\ tn.cardPlayed = FALSE
  BY <1>1, <1>2, <1>5, <1>9, <1>10 DEF TurnType
<1>12. Stage(tn) = stage
  BY <1>3, <1>5, <1>8, <1>11 DEF Stage
<1>13. Shown' = At(order, stage, p, 2, FALSE, {}, 0, None)
  BY <1>1, <1>10, <1>11, <1>12, ShownIs, NothingOwed DEF GameAt, Half
<1>14. QED
  BY <1>4, <1>13, AllowsSetup

\* The road of the setup, and whose turn it is then.
LEMMA RoadFollows ==
  ASSUME TurnInvariant, NEW p, NEW e, PlaceInitialRoad(p, e)
  PROVE  p \in Players /\ Shown' \in Turns!After(Shown, p)
<1>1. /\ order' = order /\ pending' = NoDecision /\ winner' = None /\ turn' = NextSetupTurn
      /\ Setup /\ turn.phase = "SETUP_ROAD" /\ p = turn.current
  BY DEF PlaceInitialRoad, AcceptsInitialRoad, InTurn, Setup, Current
<1>2. PICK stage : stage = Stage(turn)
  OBVIOUS
<1>3. PICK s : s = turn.setup
  OBVIOUS
<1>4. /\ stage # None /\ p \in Players /\ stage = (IF s.round = 1 THEN 0 ELSE N) + s.index + 1
      /\ Shown = At(order, stage, p, 2, FALSE, {}, 0, None)
  BY <1>1, <1>2, <1>3, SetupShows
<1>5. turn \in TurnType /\ turn.lastRoll = None /\ turn.cardPlayed = FALSE
  BY <1>1 DEF TurnInvariant, TurnFits, TurnType
<1>6. s \in Setups
  BY <1>1, <1>3, SetupSuccessor
<1>7. N \in Nat /\ N > 1 /\ s.index \in 0..(N - 1) /\ s.round \in {1, 2} /\ Len(order) = N
  BY <1>6, SeatFacts DEF Setups, N, TurnInvariant, OrderFits
<1>8. Turns!NextTurn(Shown) =
        IF stage = 2 * N THEN At(order, None, order[1], 1, FALSE, {}, 0, None)
        ELSE At(order, stage + 1, order[IF stage + 1 <= N THEN stage + 1 ELSE 2 * N + 1 - (stage + 1)],
                1, FALSE, {}, 0, None)
  <2>1. PICK o, g, no : o = order /\ g = Shown /\ no = FALSE
    OBVIOUS
  <2>2. stage # None /\ Len(o) = N /\ g = At(o, stage, p, 2, no, {}, 0, None)
    BY <1>4, <1>7, <2>1
  <2>3. Turns!NextTurn(At(o, stage, p, 2, no, {}, 0, None)) =
          IF stage = 2 * N THEN At(o, None, o[1], 1, FALSE, {}, 0, None)
          ELSE At(o, stage + 1, o[IF stage + 1 <= N THEN stage + 1 ELSE 2 * N + 1 - (stage + 1)],
                  1, FALSE, {}, 0, None)
    BY <2>2, NextInSetup
  <2>4. QED
    BY <2>1, <2>2, <2>3
<1>9. ASSUME NEW n \in Setups, (n.round - 1) * N + n.index + 1 = stage + 1,
             turn' = [turn EXCEPT !.phase = "SETUP_SETTLEMENT", !.setup = n,
                                  !.current = ExpectedSetupPlayer(n.round, n.index)]
      PROVE  Shown' = At(order, stage + 1, ExpectedSetupPlayer(n.round, n.index), 1, FALSE, {}, 0, None)
  <2>1. PICK c, tn : c = ExpectedSetupPlayer(n.round, n.index) /\ tn = turn'
    OBVIOUS
  <2>2. tn = [turn EXCEPT !.phase = "SETUP_SETTLEMENT", !.setup = n, !.current = c]
    BY <1>9, <2>1
  <2>3. /\ tn.phase = "SETUP_SETTLEMENT" /\ tn.setup = n /\ tn.current = c
        /\ tn.lastRoll = None /\ tn.cardPlayed = FALSE
    BY <1>5, <2>2 DEF TurnType
  <2>4. Stage(tn) = stage + 1
    BY <1>9, <2>3, SeatFacts DEF Stage
  <2>5. Half(tn) = 1
    BY <2>3 DEF Half
  <2>6. QED
    BY <1>1, <2>1, <2>3, <2>4, <2>5, ShownIs, NothingOwed DEF GameAt
<1>10. Shown' = Turns!NextTurn(Shown)
  <2>1. CASE s.index < N - 1
    <3>1. PICK n : n = [round |-> s.round, index |-> s.index + 1, settlement |-> None]
      OBVIOUS
    <3>2. n.round = s.round /\ n.index = s.index + 1
      BY <3>1
    <3>3. /\ n \in Setups
          /\ turn' = [turn EXCEPT !.phase = "SETUP_SETTLEMENT", !.setup = n,
                                  !.current = ExpectedSetupPlayer(n.round, n.index)]
      BY <1>1, <1>3, <2>1, <3>1, <3>2, SetupSuccessor
    <3>4. CASE s.round = 1
      <4>1. (n.round - 1) * N = 0 /\ stage = s.index + 1
        BY <1>4, <1>7, <3>2, <3>4
      <4>2. (n.round - 1) * N + n.index + 1 = stage + 1
        BY <1>7, <3>2, <4>1
      <4>3. stage # 2 * N /\ stage + 1 <= N
        BY <1>7, <2>1, <4>1
      <4>4. ExpectedSetupPlayer(n.round, n.index) = order[stage + 1]
        BY <1>7, <3>2, <3>4, <4>1 DEF ExpectedSetupPlayer
      <4>5. QED
        BY <1>8, <1>9, <3>3, <4>2, <4>3, <4>4
    <3>5. CASE s.round = 2
      <4>1. (n.round - 1) * N = N /\ stage = N + s.index + 1
        BY <1>4, <1>7, <3>2, <3>5
      <4>2. (n.round - 1) * N + n.index + 1 = stage + 1
        BY <1>7, <3>2, <4>1
      <4>3. stage # 2 * N /\ ~(stage + 1 <= N) /\ 2 * N + 1 - (stage + 1) = N - n.index
        BY <1>7, <2>1, <3>2, <4>1
      <4>4. ExpectedSetupPlayer(n.round, n.index) = order[2 * N + 1 - (stage + 1)]
        BY <1>7, <3>2, <3>5, <4>3 DEF ExpectedSetupPlayer
      <4>5. QED
        BY <1>8, <1>9, <3>3, <4>2, <4>3, <4>4
    <3>6. QED
      BY <1>7, <3>4, <3>5
  <2>2. CASE ~(s.index < N - 1) /\ s.round = 1
    <3>1. PICK n : n = [round |-> 2, index |-> 0, settlement |-> None]
      OBVIOUS
    <3>2. n.round = 2 /\ n.index = 0
      BY <3>1
    <3>3. /\ n \in Setups
          /\ turn' = [turn EXCEPT !.phase = "SETUP_SETTLEMENT", !.setup = n,
                                  !.current = ExpectedSetupPlayer(n.round, n.index)]
      BY <1>1, <1>3, <2>2, <3>1, <3>2, SetupSuccessor
    <3>4. stage = N /\ (n.round - 1) * N + n.index + 1 = stage + 1
      BY <1>4, <1>7, <2>2, <3>2
    <3>5. stage # 2 * N /\ ~(stage + 1 <= N) /\ 2 * N + 1 - (stage + 1) = N
      BY <1>7, <3>4
    <3>6. ExpectedSetupPlayer(n.round, n.index) = order[2 * N + 1 - (stage + 1)]
      BY <1>7, <3>2, <3>5 DEF ExpectedSetupPlayer
    <3>7. QED
      BY <1>8, <1>9, <3>3, <3>4, <3>5, <3>6
  <2>3. CASE ~(s.index < N - 1) /\ s.round # 1
    <3>1. PICK tn : tn = turn'
      OBVIOUS
    <3>2. tn = [number |-> 1, current |-> order[1], phase |-> "ROLL_REQUIRED",
                setup |-> None, lastRoll |-> None, cardPlayed |-> FALSE]
      BY <1>1, <1>3, <2>3, <3>1, SetupSuccessor
    <3>3. Stage(tn) = None /\ Half(tn) = 1 /\ tn.cardPlayed = FALSE /\ tn.current = order[1]
      BY <3>2 DEF Stage, Half
    <3>4. Shown' = At(order, None, order[1], 1, FALSE, {}, 0, None)
      BY <1>1, <3>1, <3>3, ShownIs, NothingOwed DEF GameAt
    <3>5. stage = 2 * N
      BY <1>4, <1>7, <2>3
    <3>6. QED
      BY <1>8, <3>4, <3>5
  <2>4. QED
    BY <2>1, <2>2, <2>3
<1>11. QED
  BY <1>4, <1>10, AllowsSetup

\* When no decision is open the current player may do what the half allows.
LEMMA InTurnShows ==
  ASSUME TurnInvariant, NEW p, NEW phases \in SUBSET {"ROLL_REQUIRED", "ACTION"}, InTurn(p, phases)
  PROVE  /\ Shown = At(order, None, p, Half(turn), turn.cardPlayed, {}, 0, None)
         /\ Half(turn) = (IF turn.phase = "ACTION" THEN 2 ELSE 1)
<1>1. /\ winner = None /\ pending = NoDecision /\ p = turn.current /\ turn.setup = None /\ GoesOn(turn)
  BY InTurnFacts
<1>2. Stage(turn) = None
  BY <1>1 DEF Stage
<1>3. Half(turn) = (IF turn.phase = "ACTION" THEN 2 ELSE 1)
  BY <1>1 DEF Half, GoesOn
<1>4. QED
  BY <1>1, <1>2, <1>3, ShownIs, NothingOwed DEF GameAt

\* The dice.
LEMMA RollFollows ==
  ASSUME TurnInvariant, NEW p, NEW total \in Dice, RollDice(p, total)
  PROVE  p \in Players /\ Shown' \in Turns!After(Shown, p)
<1>1. InTurn(p, {"ROLL_REQUIRED"})
  BY DEF RollDice, AcceptsRoll
<1>2. /\ p = turn.current /\ p \in Players /\ turn \in TurnType /\ turn.phase = "ROLL_REQUIRED"
      /\ order' = order /\ winner' = None /\ pending = NoDecision
  BY <1>1, InTurnFacts DEF RollDice
<1>3. PICK k : k = turn.cardPlayed
  OBVIOUS
<1>4. Shown = At(order, None, p, 1, k, {}, 0, None)
  BY <1>1, <1>2, <1>3, InTurnShows
<1>5. total # None
  BY SeatFacts DEF Dice, Totals
<1>6. ASSUME NEW phase \in {"DISCARD_REQUIRED", "ROBBER_MOVE_REQUIRED", "ACTION"}, NEW d, pending' = d,
             turn' = [turn EXCEPT !.phase = phase, !.setup = None, !.lastRoll = total]
      PROVE  Shown' = At(order, None, p, 2, k, Owed(d), Left(d), None)
  <2>1. PICK tn : tn = turn'
    OBVIOUS
  <2>2. /\ tn.setup = None /\ tn.lastRoll = total /\ tn.current = p
        /\ tn.cardPlayed = k
    BY <1>2, <1>3, <1>6, <2>1 DEF TurnType
  <2>3. Stage(tn) = None /\ Half(tn) = 2
    BY <1>5, <2>2 DEF Stage, Half
  <2>4. QED
    BY <1>2, <1>6, <2>1, <2>2, <2>3, ShownIs DEF GameAt
<1>7. CASE /\ turn' = [turn EXCEPT !.phase = "DISCARD_REQUIRED", !.setup = None, !.lastRoll = total]
           /\ \E owing \in (SUBSET Players) \ {{}} :
                 pending' = [type |-> "DISCARD_RESOURCES", trigger |-> Current,
                             required |-> [q \in owing |-> Count(hand[q]) \div 2], completed |-> {}]
  <2>1. PICK owing, required :
          /\ owing \in (SUBSET Players) \ {{}}
          /\ required = [q \in owing |-> Count(hand[q]) \div 2]
          /\ pending' = [type |-> "DISCARD_RESOURCES", trigger |-> Current, required |-> required, completed |-> {}]
    BY <1>7
  <2>2. PICK d : d = pending'
    OBVIOUS
  <2>3. /\ d.type = "DISCARD_RESOURCES" /\ d.required = required /\ d.completed = {} /\ DOMAIN required = owing
        /\ d.type \in DecisionTypes
    BY <2>1, <2>2 DEF DecisionTypes
  <2>4. Owed(d) = {q \in owing : q \notin {}} /\ Left(d) = 2
    BY <2>3, WhoOwes
  <2>5. Owed(d) = owing
    BY <2>4
  <2>6. Shown' = At(order, None, p, 2, k, owing, 2, None)
    BY <1>6, <1>7, <2>2, <2>4, <2>5
  <2>7. owing \in SUBSET Players /\ owing # {}
    BY <2>1, Zenon
  <2>8. QED
    BY <1>2, <1>4, <2>6, <2>7, AllowsRoll
<1>8. CASE /\ turn' = [turn EXCEPT !.phase = "ROBBER_MOVE_REQUIRED", !.setup = None, !.lastRoll = total]
           /\ pending' = [type |-> "MOVE_ROBBER", actor |-> Current, cause |-> None]
  <2>1. PICK d : d = pending'
    OBVIOUS
  <2>2. d.type = "MOVE_ROBBER" /\ d.actor = p /\ d.type \in DecisionTypes
    BY <1>2, <1>8, <2>1 DEF Current, DecisionTypes
  <2>3. Owed(d) = {p} /\ Left(d) = 1
    BY <2>2, WhoOwes
  <2>4. Shown' = At(order, None, p, 2, k, {p}, 1, None)
    BY <1>6, <1>8, <2>1, <2>3
  <2>5. QED
    BY <1>2, <1>4, <2>4, AllowsRoll
<1>9. CASE /\ turn' = [turn EXCEPT !.phase = "ACTION", !.setup = None, !.lastRoll = total]
           /\ pending' = pending
  <2>1. PICK d : d = NoDecision
    OBVIOUS
  <2>2. pending' = d /\ Owed(d) = {} /\ Left(d) = 0
    BY <1>2, <1>9, <2>1, NothingOwed
  <2>3. Shown' = At(order, None, p, 2, k, {}, 0, None)
    BY <1>6, <1>9, <2>2
  <2>4. QED
    BY <1>2, <1>4, <2>3, AllowsRoll
<1>10. QED
  <2>1. {q \in Players : Count(hand[q]) > HandLimit} \in SUBSET Players
    OBVIOUS
  <2>2. QED
    BY <1>7, <1>8, <1>9, <2>1 DEF RollDice

\* The end of a turn.
LEMMA EndTurnFollows ==
  ASSUME TurnInvariant, NEW p, EndTurn(p)
  PROVE  p \in Players /\ Shown' \in Turns!After(Shown, p)
<1>1. InTurn(p, {"ACTION"})
  BY DEF EndTurn, AcceptsEndTurn
<1>2. /\ p = turn.current /\ p \in Players /\ turn \in TurnType /\ turn.phase = "ACTION"
      /\ winner = None /\ order' = order
  BY <1>1, InTurnFacts DEF EndTurn
<1>3. PICK k : k = turn.cardPlayed
  OBVIOUS
<1>4. Shown = At(order, None, p, 2, k, {}, 0, None)
  BY <1>1, <1>2, <1>3, InTurnShows
<1>5. PICK i : i = CHOOSE j \in 1..N : order[j] = p
  OBVIOUS
<1>6. i \in 1..N /\ Len(order) = N
  BY <1>2, <1>5 DEF TurnInvariant, OrderFits
<1>7. order[(i % N) + 1] \in Players
  BY <1>6, After DEF TurnInvariant, OrderFits
<1>8. PICK q : q = order[(i % N) + 1]
  OBVIOUS
<1>9. PICK next : next = [number |-> turn.number + 1, current |-> q,
                          phase |-> "ROLL_REQUIRED", setup |-> None, lastRoll |-> None, cardPlayed |-> FALSE]
  OBVIOUS
<1>10. /\ GoesOn(next) /\ Half(next) = 1 /\ next.current = q /\ next.cardPlayed = FALSE
  <2>1. turn.number + 1 \in Nat
    BY <1>2 DEF TurnType
  <2>2. GoesOn(next)
    BY <1>7, <1>8, <1>9, <2>1 DEF GoesOn, TurnType, Phases
  <2>3. QED
    BY <1>9, <2>2 DEF Half
<1>11. Settled(next)
  <2>1. ResolveVictory(buildings, awards, cards, next, NoDecision)
    BY <1>2, <1>5, <1>8, <1>9 DEF EndTurn, Current
  <2>2. PICK b, aw, cs : b = buildings /\ aw = awards /\ cs = cards
    OBVIOUS
  <2>3. ResolveVictory(b, aw, cs, next, NoDecision)
    BY <2>1, <2>2
  <2>4. QED
    BY <2>3, ResolveSettles
<1>12. PICK after : after = At(order, None, q, 1, FALSE, {}, 0, None)
  OBVIOUS
<1>13. Shown' = after \/ Shown' = At(order, None, q, 1, FALSE, {}, 0, q)
  BY <1>2, <1>10, <1>11, <1>12, SettledShows
<1>14. after = Turns!NextTurn(Shown)
  BY <1>4, <1>5, <1>6, <1>8, <1>12, NextInOrder
<1>15. [after EXCEPT !.winner = after.current] = At(order, None, q, 1, FALSE, {}, 0, q)
  <2>1. PICK no : no = FALSE
    OBVIOUS
  <2>2. after = At(order, None, q, 1, no, {}, 0, None)
    BY <1>12, <2>1
  <2>3. after.current = q
    BY <2>2, AtParts
  <2>4. [after EXCEPT !.winner = q] = At(order, None, q, 1, no, {}, 0, q)
    BY <2>2 DEF At
  <2>5. QED
    BY <2>1, <2>3, <2>4
<1>16. Shown' \in Turns!OrWon(after)
  BY <1>12, <1>13, <1>15 DEF Turns!OrWon
<1>17. Turns!OrWon(after) \subseteq Turns!After(Shown, p)
  BY <1>4, <1>14, AllowsAction
<1>18. QED
  BY <1>2, <1>16, <1>17

\* Building, buying a card, and the trade with the bank.
LEMMA ActFollows ==
  ASSUME TurnInvariant, NEW p, Acts(p)
  PROVE  p \in Players /\ Shown' \in Turns!After(Shown, p)
<1>1. InTurn(p, {"ACTION"})
  BY DEF Acts
<1>2. /\ p = turn.current /\ p \in Players /\ turn.phase = "ACTION" /\ winner = None /\ GoesOn(turn)
      /\ order' = order /\ Settled(turn)
  BY <1>1, InTurnFacts DEF Acts
<1>3. PICK k, tn : k = turn.cardPlayed /\ tn = turn
  OBVIOUS
<1>4. Shown = At(order, None, p, 2, k, {}, 0, None) /\ Half(tn) = 2
  BY <1>1, <1>2, <1>3, InTurnShows
<1>5. Shown' = At(order, None, p, 2, k, {}, 0, None) \/ Shown' = At(order, None, p, 2, k, {}, 0, p)
  BY <1>2, <1>3, <1>4, SettledShows
<1>6. QED
  BY <1>2, <1>4, <1>5, AllowsAction

\* What is shown while a decision is open.
LEMMA DecidesShows ==
  ASSUME TurnInvariant, winner = None, pending.type \in DecisionTypes
  PROVE  /\ Shown = At(order, None, turn.current, Half(turn), turn.cardPlayed, Owed(pending), Left(pending), None)
         /\ turn.phase # "SETUP_ROAD"
<1>1. turn.setup = None /\ ~Setup
  BY DecidesFacts
<1>2. Stage(turn) = None
  BY <1>1 DEF Stage
<1>3. QED
  BY <1>1, <1>2, ShownIs DEF GameAt, Setup

\* An answer that settles the decision of one player.
LEMMA SettlingFollows ==
  ASSUME TurnInvariant, winner = None, pending.type \in DecisionTypes, order' = order,
         NEW p, Owed(pending) = {p}, NEW tn, GoesOn(tn), Settled(tn),
         tn.current = turn.current, tn.lastRoll = turn.lastRoll, tn.cardPlayed = turn.cardPlayed
  PROVE  Shown' \in Turns!After(Shown, p)
<1>1. PICK c, h, k, m : c = turn.current /\ h = Half(turn) /\ k = turn.cardPlayed /\ m = Left(pending)
  OBVIOUS
<1>2. Shown = At(order, None, c, h, k, {p}, m, None) /\ turn.phase # "SETUP_ROAD"
  BY <1>1, DecidesShows
<1>3. Half(tn) = h
  BY <1>1, <1>2 DEF Half, GoesOn
<1>4. Shown' = At(order, None, c, h, k, {}, 0, None) \/ Shown' = At(order, None, c, h, k, {}, 0, c)
  BY <1>1, <1>3, SettledShows
<1>5. p \in {p}
  OBVIOUS
<1>6. PICK w : w = {p}
  OBVIOUS
<1>7. /\ At(order, None, c, h, k, {}, 0, None) \in Turns!After(At(order, None, c, h, k, w, m, None), p)
      /\ At(order, None, c, h, k, {}, 0, c) \in Turns!After(At(order, None, c, h, k, w, m, None), p)
  BY <1>5, <1>6, AllowsAnswer
<1>8. QED
  BY <1>2, <1>4, <1>6, <1>7

\* An answer after which another is owed, with fewer to follow.
LEMMA AskingFollows ==
  ASSUME TurnInvariant, winner = None, winner' = winner, pending.type \in DecisionTypes, order' = order,
         NEW p, Owed(pending) = {p}, NEW tn, turn' = tn, tn.setup = None, tn.phase # "SETUP_ROAD",
         tn.current = turn.current, tn.lastRoll = turn.lastRoll, tn.cardPlayed = turn.cardPlayed,
         NEW q \in Players, NEW d, pending' = d, Owed(d) = {q},
         NEW m \in Nat, Left(pending) = m, m # 0, Left(d) \in 0..(m - 1)
  PROVE  Shown' \in Turns!After(Shown, p)
<1>1. PICK c, h, k, n : c = turn.current /\ h = Half(turn) /\ k = turn.cardPlayed /\ n = Left(d)
  OBVIOUS
<1>2. Shown = At(order, None, c, h, k, {p}, m, None) /\ turn.phase # "SETUP_ROAD"
  BY <1>1, DecidesShows
<1>3. Stage(tn) = None /\ Half(tn) = h
  BY <1>1, <1>2 DEF Stage, Half
<1>4. Shown' = At(order, None, c, h, k, {q}, n, None)
  BY <1>1, <1>3, ShownIs DEF GameAt
<1>5. p \in {p} /\ n \in 0..(m - 1)
  BY <1>1
<1>6. PICK w : w = {p}
  OBVIOUS
<1>7. At(order, None, c, h, k, {q}, n, None) \in Turns!After(At(order, None, c, h, k, w, m, None), p)
  BY <1>5, <1>6, AllowsAnswer
<1>8. QED
  BY <1>2, <1>4, <1>6, <1>7

\* A discard, the last of which leaves the robber to the player who rolled.
LEMMA DiscardFollows ==
  ASSUME TurnInvariant, NEW p, NEW bag, DiscardResources(p, bag)
  PROVE  p \in Players /\ Shown' \in Turns!After(Shown, p)
<1>1. /\ winner = None /\ pending.type = "DISCARD_RESOURCES" /\ p \in Owing
      /\ order' = order /\ winner' = winner /\ pending.type \in DecisionTypes
  BY DEF DiscardResources, AcceptsDiscard, Decides, DecisionTypes
<1>2. /\ turn \in TurnType /\ turn.setup = None /\ turn.current \in Players
      /\ pending = [type |-> "DISCARD_RESOURCES", trigger |-> turn.current,
                    required |-> pending.required, completed |-> pending.completed]
      /\ DOMAIN pending.required \subseteq Players
      /\ turn.phase = "DISCARD_REQUIRED" /\ turn.lastRoll # None
  BY <1>1, DecidesFacts DEF TurnInvariant, TurnFits, DecisionFits, DiscardFits
<1>3. Owed(pending) = Owing /\ Left(pending) = 2
  BY <1>1, WhoOwes DEF Owing
<1>4. p \in Players
  BY <1>1, <1>2 DEF Owing
<1>5. PICK c, h, k : c = turn.current /\ h = Half(turn) /\ k = turn.cardPlayed
  OBVIOUS
<1>6. CASE Owing = {p}
  <2>1. PICK tn, d : tn = [turn EXCEPT !.phase = "ROBBER_MOVE_REQUIRED"] /\ d = pending'
    OBVIOUS
  <2>2. /\ tn.phase = "ROBBER_MOVE_REQUIRED" /\ tn.setup = None /\ tn.current = turn.current
        /\ tn.lastRoll = turn.lastRoll /\ tn.cardPlayed = turn.cardPlayed
    BY <1>2, <2>1 DEF TurnType
  <2>3. turn' = tn /\ d = [type |-> "MOVE_ROBBER", actor |-> pending.trigger, cause |-> None]
    BY <1>6, <2>1 DEF DiscardResources
  <2>4. d.type = "MOVE_ROBBER" /\ d.actor = turn.current /\ d.type \in DecisionTypes
    BY <1>2, <2>3 DEF DecisionTypes
  <2>5. Owed(d) = {turn.current} /\ Left(d) = 1
    BY <2>4, WhoOwes
  <2>6. PICK m, q : m = 2 /\ q = turn.current
    OBVIOUS
  <2>7. m \in Nat /\ m # 0 /\ Left(pending) = m /\ Left(d) \in 0..(m - 1) /\ q \in Players /\ Owed(d) = {q}
    BY <1>2, <1>3, <2>5, <2>6
  <2>8. QED
    BY <1>1, <1>3, <1>4, <1>6, <2>1, <2>2, <2>3, <2>7, AskingFollows
<1>7. CASE Owing # {p}
  <2>1. turn' = turn /\ pending' = [pending EXCEPT !.completed = @ \cup {p}]
    BY <1>7 DEF DiscardResources
  <2>2. PICK required, completed, d : /\ required = pending.required /\ completed = pending.completed \cup {p}
                                      /\ d = pending'
    OBVIOUS
  <2>3. d = [type |-> "DISCARD_RESOURCES", trigger |-> turn.current,
             required |-> required, completed |-> completed]
    BY <1>2, <2>1, <2>2
  <2>4. d.type = "DISCARD_RESOURCES" /\ d.required = required /\ d.completed = completed /\ d.type \in DecisionTypes
    BY <2>3 DEF DecisionTypes
  <2>5. Owed(d) = {q \in DOMAIN required : q \notin completed} /\ Left(d) = 2
    BY <2>4, WhoOwes
  <2>6. Owed(d) = Owing \ {p}
    BY <2>2, <2>5 DEF Owing
  <2>7. PICK w : w = Owing
    OBVIOUS
  <2>8. Shown = At(order, None, c, h, k, w, 2, None)
    BY <1>1, <1>3, <1>5, <2>7, DecidesShows
  <2>9. Stage(turn) = None
    BY <1>2 DEF Stage
  <2>10. Shown' = At(order, None, c, h, k, w \ {p}, 2, None)
    BY <1>1, <1>5, <2>1, <2>2, <2>5, <2>6, <2>7, <2>9, ShownIs DEF GameAt
  <2>11. p \in w /\ w # {p}
    BY <1>1, <1>7, <2>7
  <2>12. QED
    BY <1>4, <2>8, <2>10, <2>11, AllowsAnswer
<1>8. QED
  BY <1>6, <1>7

\* The robber, and the victim it may ask for.
LEMMA RobberFollows ==
  ASSUME TurnInvariant, NEW p, NEW t, MoveRobber(p, t)
  PROVE  p \in Players /\ Shown' \in Turns!After(Shown, p)
<1>1. /\ winner = None /\ pending.type = "MOVE_ROBBER" /\ p = pending.actor /\ order' = order
      /\ pending.type \in DecisionTypes
  BY DEF MoveRobber, AcceptsMoveRobber, Decides, DecisionTypes
<1>2. /\ turn \in TurnType /\ turn.setup = None /\ pending.actor = turn.current /\ turn.current \in Players
  BY <1>1, DecidesFacts DEF TurnInvariant, DecisionFits, RobberFits
<1>3. Owed(pending) = {p} /\ Left(pending) = 1 /\ p \in Players
  BY <1>1, <1>2, WhoOwes
<1>4. CASE RobberTargets(buildings, hand, t, p) = {}
  <2>1. PICK tn : tn = [turn EXCEPT !.phase = AfterRobber(pending.cause)]
    OBVIOUS
  <2>2. Settled(tn)
    BY <1>4, <2>1, RobberSettles DEF MoveRobber
  <2>3. GoesOn(tn) /\ tn.current = turn.current /\ tn.lastRoll = turn.lastRoll /\ tn.cardPlayed = turn.cardPlayed
    BY <1>1, <2>1, AfterRobberGoesOn
  <2>4. QED
    BY <1>1, <1>3, <2>2, <2>3, SettlingFollows
<1>5. CASE RobberTargets(buildings, hand, t, p) # {}
  <2>1. PICK tn, d : tn = [turn EXCEPT !.phase = "ROBBER_TARGET_REQUIRED"] /\ d = pending'
    OBVIOUS
  <2>2. /\ tn.phase = "ROBBER_TARGET_REQUIRED" /\ tn.setup = None
        /\ tn.current = turn.current /\ tn.lastRoll = turn.lastRoll /\ tn.cardPlayed = turn.cardPlayed
    BY <1>2, <2>1 DEF TurnType
  <2>3. /\ turn' = tn /\ winner' = winner
        /\ d = [type |-> "CHOOSE_ROBBER_TARGET", actor |-> p, tile |-> t,
                targets |-> RobberTargets(buildings, hand, t, p), cause |-> pending.cause]
    BY <1>5, <2>1 DEF MoveRobber
  <2>4. d.type = "CHOOSE_ROBBER_TARGET" /\ d.actor = p /\ d.type \in DecisionTypes
    BY <2>3 DEF DecisionTypes
  <2>5. Owed(d) = {p} /\ Left(d) = 0
    BY <2>4, WhoOwes
  <2>6. PICK m : m = 1
    OBVIOUS
  <2>7. m \in Nat /\ m # 0 /\ Left(pending) = m /\ Left(d) \in 0..(m - 1)
    BY <1>3, <2>5, <2>6
  <2>8. QED
    BY <1>1, <1>3, <2>1, <2>2, <2>3, <2>5, <2>7, AskingFollows
<1>6. QED
  BY <1>4, <1>5

\* The stolen card answers what the robber asked.
LEMMA StealFollows ==
  ASSUME TurnInvariant, NEW p, NEW q, NEW x, StealFrom(p, q, x)
  PROVE  p \in Players /\ Shown' \in Turns!After(Shown, p)
<1>1. /\ winner = None /\ pending.type = "CHOOSE_ROBBER_TARGET" /\ order' = order /\ p = pending.actor
      /\ pending.type \in DecisionTypes
  BY DEF StealFrom, AcceptsSteal, Decides, DecisionTypes
<1>2. pending.actor = turn.current /\ turn.current \in Players
  BY <1>1, DecidesFacts DEF TurnInvariant, DecisionFits, RobberFits
<1>3. Owed(pending) = {p} /\ p \in Players
  BY <1>1, <1>2, WhoOwes
<1>4. PICK tn : tn = [turn EXCEPT !.phase = AfterRobber(pending.cause)]
  OBVIOUS
<1>5. Settled(tn)
  BY <1>4, RobberSettles DEF StealFrom
<1>6. GoesOn(tn) /\ tn.current = turn.current /\ tn.lastRoll = turn.lastRoll /\ tn.cardPlayed = turn.cardPlayed
  BY <1>1, <1>4, AfterRobberGoesOn
<1>7. QED
  BY <1>1, <1>3, <1>5, <1>6, SettlingFollows

\* A card, before or after the dice.
LEMMA CardFollows ==
  ASSUME TurnInvariant, NEW p, NEW c, PlayCard(p, c)
  PROVE  p \in Players /\ Shown' \in Turns!After(Shown, p)
<1>1. InTurn(p, {"ROLL_REQUIRED", "ACTION"}) /\ ~turn.cardPlayed
  BY DEF PlayCard, AcceptsPlayCard, Playable
<1>2. /\ p = turn.current /\ p \in Players /\ turn \in TurnType /\ turn.setup = None
      /\ turn.phase \in {"ROLL_REQUIRED", "ACTION"} /\ order' = order /\ winner' = None
  BY <1>1, InTurnFacts DEF PlayCard
<1>3. PICK h : h = Half(turn)
  OBVIOUS
<1>4. h \in {1, 2}
  BY <1>3 DEF Half
<1>5. turn.cardPlayed = FALSE
  BY <1>1, <1>2 DEF TurnType
<1>6. Shown = At(order, None, p, h, FALSE, {}, 0, None)
  BY <1>1, <1>3, <1>5, InTurnShows
<1>7. ASSUME NEW tn, turn' = tn,
             \/ \E phase \in {"ROBBER_MOVE_REQUIRED", "FREE_ROAD_PLACEMENT"} :
                  tn = [turn EXCEPT !.cardPlayed = TRUE, !.phase = phase]
             \/ tn = [turn EXCEPT !.cardPlayed = TRUE],
             NEW d, pending' = d, Owed(d) = {p}, Left(d) \in {0, 1}
      PROVE  Shown' \in Turns!After(Shown, p)
  <2>1. /\ tn.setup = None /\ tn.current = p /\ tn.lastRoll = turn.lastRoll /\ tn.phase # "SETUP_ROAD"
        /\ tn.cardPlayed = TRUE
    BY <1>2, <1>7 DEF TurnType
  <2>2. Stage(tn) = None
    BY <2>1 DEF Stage
  <2>3. Half(tn) = h
    BY <1>2, <1>3, <2>1 DEF Half
  <2>4. PICK n : n = Left(d)
    OBVIOUS
  <2>5. Shown' = At(order, None, p, h, TRUE, {p}, n, None)
    BY <1>2, <1>7, <2>1, <2>2, <2>3, <2>4, ShownIs DEF GameAt
  <2>6. n \in {0, 1}
    BY <1>7, <2>4
  <2>7. QED
    BY <1>4, <1>6, <2>5, <2>6, AllowsCard
<1>8. PICK tn, d : tn = turn' /\ d = pending'
  OBVIOUS
<1>9. CASE CardType[c.card] = "KNIGHT"
  <2>1. /\ tn = [turn EXCEPT !.cardPlayed = TRUE, !.phase = "ROBBER_MOVE_REQUIRED"]
        /\ d = [type |-> "MOVE_ROBBER", actor |-> p, cause |-> c.card]
    BY <1>8, <1>9 DEF PlayCard
  <2>2. d.type = "MOVE_ROBBER" /\ d.actor = p /\ d.type \in DecisionTypes
    BY <2>1 DEF DecisionTypes
  <2>3. Owed(d) = {p} /\ Left(d) = 1
    BY <2>2, WhoOwes
  <2>4. QED
    BY <1>2, <1>7, <1>8, <2>1, <2>3
<1>10. CASE CardType[c.card] = "ROAD_BUILDING"
  <2>1. PICK n : n = FreeRoadCount(buildings, roads, p)
    OBVIOUS
  <2>2. /\ tn = [turn EXCEPT !.cardPlayed = TRUE, !.phase = "FREE_ROAD_PLACEMENT"]
        /\ d = [type |-> "PLACE_FREE_ROADS", actor |-> p, card |-> c.card, remaining |-> n]
        /\ n \in {1, 2}
    BY <1>8, <1>10, <2>1, FreeRoadCountFacts DEF PlayCard, AcceptsPlayCard
  <2>3. d.type = "PLACE_FREE_ROADS" /\ d.actor = p /\ d.remaining = n /\ d.type \in DecisionTypes
    BY <2>2 DEF DecisionTypes
  <2>4. Owed(d) = {p} /\ Left(d) = n - 1
    BY <2>3, WhoOwes
  <2>5. Left(d) \in {0, 1}
    BY <2>2, <2>4
  <2>6. QED
    BY <1>2, <1>7, <1>8, <2>2, <2>4, <2>5
<1>11. CASE CardType[c.card] \in {"INVENTION", "MONOPOLY"}
  <2>1. /\ tn = [turn EXCEPT !.cardPlayed = TRUE]
        /\ \E decision \in {"CHOOSE_INVENTION_RESOURCES", "CHOOSE_MONOPOLY_RESOURCE"} :
             d = [type |-> decision, actor |-> p, card |-> c.card]
    BY <1>8, <1>11 DEF PlayCard
  <2>2. /\ d.type \in {"CHOOSE_INVENTION_RESOURCES", "CHOOSE_MONOPOLY_RESOURCE"} /\ d.actor = p
        /\ d.type \in DecisionTypes
    BY <2>1 DEF DecisionTypes
  <2>3. Owed(d) = {p} /\ Left(d) = 0
    BY <2>2, WhoOwes
  <2>4. QED
    BY <1>2, <1>7, <1>8, <2>1, <2>3
<1>12. QED
  BY <1>2, <1>9, <1>10, <1>11 DEF PlayCard

\* A free road, after which one more may be due.
LEMMA FreeRoadFollows ==
  ASSUME TurnInvariant, NEW p, NEW e, PlaceFreeRoad(p, e)
  PROVE  p \in Players /\ Shown' \in Turns!After(Shown, p)
<1>1. /\ winner = None /\ pending.type = "PLACE_FREE_ROADS" /\ p = pending.actor /\ order' = order
      /\ pending.type \in DecisionTypes
  BY DEF PlaceFreeRoad, AcceptsFreeRoad, DecidesCard, Decides, DecisionTypes
<1>2. PICK card : card = pending.card
  OBVIOUS
<1>3. /\ turn.setup = None /\ turn.current \in Players
      /\ pending = [type |-> "PLACE_FREE_ROADS", actor |-> turn.current, card |-> card, remaining |-> pending.remaining]
      /\ pending.remaining \in {1, 2} /\ turn.phase = "FREE_ROAD_PLACEMENT"
  BY <1>1, <1>2, DecidesFacts DEF TurnInvariant, DecisionFits, CardFits
<1>4. p = turn.current
  BY <1>1, <1>3
<1>5. Owed(pending) = {p} /\ Left(pending) = pending.remaining - 1
  BY <1>1, WhoOwes
<1>6. PICK tn, aw : /\ tn = [turn EXCEPT !.phase = Resume]
                    /\ aw = Reconciled(buildings, [roads EXCEPT ![e] = p], knights)
  OBVIOUS
<1>7. CASE ResolveVictory(buildings, aw, cards, tn, NoDecision)
  <2>1. PICK b, cs : b = buildings /\ cs = cards
    OBVIOUS
  <2>2. ResolveVictory(b, aw, cs, tn, NoDecision)
    BY <1>7, <2>1
  <2>3. Settled(tn)
    BY <2>2, ResolveSettles
  <2>4. GoesOn(tn) /\ tn.current = turn.current /\ tn.lastRoll = turn.lastRoll /\ tn.cardPlayed = turn.cardPlayed
    BY <1>1, <1>6, ResumeGoesOn
  <2>5. QED
    BY <1>1, <1>3, <1>4, <1>5, <2>3, <2>4, SettlingFollows
<1>8. CASE /\ pending.remaining # 1
           /\ pending' = [pending EXCEPT !.remaining = 1] /\ UNCHANGED <<turn, cards, winner>>
  <2>1. PICK now, d : now = turn /\ d = pending'
    OBVIOUS
  <2>2. d = [type |-> "PLACE_FREE_ROADS", actor |-> turn.current, card |-> card, remaining |-> 1]
    BY <1>3, <1>8, <2>1
  <2>3. d.type = "PLACE_FREE_ROADS" /\ d.actor = p /\ d.remaining = 1 /\ d.type \in DecisionTypes
    BY <1>4, <2>2 DEF DecisionTypes
  <2>4. Owed(d) = {p} /\ Left(d) = 0
    BY <2>3, WhoOwes
  <2>5. PICK m : m = 1
    OBVIOUS
  <2>6. m \in Nat /\ m # 0 /\ Left(pending) = m /\ Left(d) \in 0..(m - 1)
    BY <1>3, <1>5, <1>8, <2>4, <2>5
  <2>7. QED
    BY <1>1, <1>3, <1>4, <1>5, <1>8, <2>1, <2>4, <2>6, AskingFollows
<1>9. QED
  BY <1>6, <1>7, <1>8 DEF PlaceFreeRoad

\* The answers that settle without a score.
LEMMA AnswerFollows ==
  ASSUME TurnInvariant, NEW p,
         FinishFreeRoads(p) \/ RejectTrade(p) \/ AcceptTrade(p)
           \/ (\E bag : ChooseInvention(p, bag)) \/ (\E x : ChooseMonopoly(p, x))
  PROVE  p \in Players /\ Shown' \in Turns!After(Shown, p)
<1>1. CASE FinishFreeRoads(p)
  <2>1. /\ winner = None /\ pending.type = "PLACE_FREE_ROADS" /\ order' = order /\ pending.type \in DecisionTypes
        /\ p = pending.actor
    BY <1>1 DEF FinishFreeRoads, AcceptsFinishFreeRoads, DecidesCard, Decides, DecisionTypes
  <2>2. pending.actor = turn.current /\ turn.current \in Players
    BY <2>1, DecidesFacts DEF TurnInvariant, DecisionFits, CardFits
  <2>3. PICK tn : tn = [turn EXCEPT !.phase = Resume]
    OBVIOUS
  <2>4. Settled(tn)
    BY <1>1, <2>3 DEF FinishFreeRoads, Settled
  <2>5. GoesOn(tn) /\ tn.current = turn.current /\ tn.lastRoll = turn.lastRoll /\ tn.cardPlayed = turn.cardPlayed
    BY <2>1, <2>3, ResumeGoesOn
  <2>6. Owed(pending) = {p}
    BY <2>1, WhoOwes
  <2>7. QED
    BY <2>1, <2>2, <2>4, <2>5, <2>6, SettlingFollows
<1>2. CASE RejectTrade(p) \/ AcceptTrade(p)
  <2>1. /\ winner = None /\ pending.type = "RESPOND_TO_TRADE" /\ order' = order /\ pending.type \in DecisionTypes
        /\ pending' = NoDecision /\ turn' = turn /\ winner' = winner /\ p = Responder(pending)
    BY <1>2 DEF RejectTrade, AcceptsReject, AcceptTrade, AcceptsAccept, Responds, DecisionTypes
  <2>2. /\ turn.phase = "ACTION" /\ turn \in TurnType /\ turn.setup = None /\ turn.lastRoll # None
        /\ pending.initiator \in Players /\ pending.counterparty \in Players
    BY <2>1, DecidesFacts DEF TurnInvariant, DecisionFits, TradeFits
  <2>3. Owed(pending) = {p} /\ p \in Players
    BY <2>1, <2>2, WhoOwes DEF Responder
  <2>4. PICK tn : tn = turn
    OBVIOUS
  <2>5. GoesOn(tn) /\ Settled(tn)
    BY <2>1, <2>2, <2>4 DEF GoesOn, Settled
  <2>6. QED
    BY <2>1, <2>3, <2>4, <2>5, SettlingFollows
<1>3. CASE (\E bag : ChooseInvention(p, bag)) \/ (\E x : ChooseMonopoly(p, x))
  <2>1. /\ winner = None /\ pending.type \in {"CHOOSE_INVENTION_RESOURCES", "CHOOSE_MONOPOLY_RESOURCE"}
        /\ order' = order /\ pending' = NoDecision /\ turn' = turn /\ winner' = winner /\ p = pending.actor
        /\ pending.type \in DecisionTypes
    BY <1>3 DEF ChooseInvention, AcceptsInvention, ChooseMonopoly, AcceptsMonopoly, DecidesCard, Decides, DecisionTypes
  <2>2. /\ turn.phase = Resume /\ turn \in TurnType /\ turn.setup = None
        /\ pending.actor = turn.current /\ turn.current \in Players
    BY <2>1, DecidesFacts DEF TurnInvariant, DecisionFits, CardFits
  <2>3. Owed(pending) = {p} /\ p \in Players
    BY <2>1, <2>2, WhoOwes
  <2>4. PICK tn : tn = turn
    OBVIOUS
  <2>5. GoesOn(tn) /\ Settled(tn)
    BY <2>1, <2>2, <2>4 DEF GoesOn, Settled, Resume
  <2>6. QED
    BY <2>1, <2>3, <2>4, <2>5, SettlingFollows
<1>4. QED
  BY <1>1, <1>2, <1>3

\* An offer asks the other player, a counter-offer the one who offered.
LEMMA OfferFollows ==
  ASSUME TurnInvariant, NEW p, NEW q \in Players, NEW gives, NEW gets,
         ProposeTrade(p, q, gives, gets) \/ CounterTrade(p, gives, gets)
  PROVE  p \in Players /\ Shown' \in Turns!After(Shown, p)
<1>1. CASE ProposeTrade(p, q, gives, gets)
  <2>1. InTurn(p, {"ACTION"})
    BY <1>1 DEF ProposeTrade, AcceptsProposal
  <2>2. /\ p = turn.current /\ p \in Players /\ turn \in TurnType /\ turn.setup = None
        /\ turn.phase = "ACTION" /\ winner = None
    BY <2>1, InTurnFacts
  <2>3. PICK k, d, now : k = turn.cardPlayed /\ d = pending' /\ now = turn
    OBVIOUS
  <2>4. Shown = At(order, None, p, 2, k, {}, 0, None) /\ Half(now) = 2
    BY <2>1, <2>2, <2>3, InTurnShows
  <2>5. /\ order' = order /\ turn' = now /\ winner' = winner /\ q # p
        /\ d = Offer(p, q, p, gives, gets, 0)
    BY <1>1, <2>3 DEF ProposeTrade, AcceptsProposal
  <2>6. /\ d.type = "RESPOND_TO_TRADE" /\ d.initiator = p /\ d.counterparty = q
        /\ d.author = p /\ d.depth = 0 /\ d.type \in DecisionTypes
    BY <2>5 DEF Offer, DecisionTypes
  <2>7. Owed(d) = {q} /\ Left(d) = 1
    BY <2>6, WhoOwes DEF Responder
  <2>8. Stage(now) = None
    BY <2>2, <2>3 DEF Stage
  <2>9. Shown' = At(order, None, p, 2, k, {q}, 1, None)
    BY <2>2, <2>3, <2>4, <2>5, <2>7, <2>8, ShownIs DEF GameAt
  <2>10. q \in Players \ {p}
    BY <2>5
  <2>11. QED
    BY <2>2, <2>4, <2>9, <2>10, AllowsAction
<1>2. CASE CounterTrade(p, gives, gets)
  <2>1. PICK now, d, o : now = turn /\ d = pending' /\ o = turn.current
    OBVIOUS
  <2>2. /\ winner = None /\ pending.type = "RESPOND_TO_TRADE" /\ p = Responder(pending) /\ pending.depth = 0
        /\ order' = order /\ turn' = turn /\ winner' = winner /\ pending.type \in DecisionTypes
        /\ d = Offer(pending.initiator, p, p, gives, gets, 1)
    BY <1>2, <2>1 DEF CounterTrade, AcceptsCounter, Responds, DecisionTypes
  <2>3. /\ turn.phase = "ACTION" /\ turn \in TurnType /\ turn.setup = None
        /\ pending.initiator = o /\ pending.counterparty \in Players \ {o} /\ o \in Players
        /\ pending.author = pending.initiator
    BY <2>1, <2>2, DecidesFacts DEF TurnInvariant, DecisionFits, TradeFits
  <2>4. p = pending.counterparty /\ p \in Players /\ p # o
    BY <2>2, <2>3 DEF Responder
  <2>5. /\ d.type = "RESPOND_TO_TRADE" /\ d.initiator = o
        /\ d.counterparty = p /\ d.author = p /\ d.depth = 1 /\ d.type \in DecisionTypes
    BY <2>2, <2>3 DEF Offer, DecisionTypes
  <2>6. Owed(d) = {o} /\ Left(d) = 0
    BY <2>4, <2>5, WhoOwes DEF Responder
  <2>7. Owed(pending) = {p} /\ Left(pending) = 1
    BY <2>2, WhoOwes
  <2>8. PICK m : m = 1
    OBVIOUS
  <2>9. m \in Nat /\ m # 0 /\ Left(pending) = m /\ Left(d) \in 0..(m - 1)
    BY <2>6, <2>7, <2>8
  <2>10. /\ turn' = now /\ now.setup = None /\ now.phase # "SETUP_ROAD" /\ now.current = turn.current
         /\ now.lastRoll = turn.lastRoll /\ now.cardPlayed = turn.cardPlayed
    BY <2>1, <2>2, <2>3
  <2>11. QED
    BY <2>1, <2>2, <2>3, <2>4, <2>6, <2>7, <2>9, <2>10, AskingFollows
<1>3. QED
  BY <1>1, <1>2

\* Every step is one that TurnOrder allows, or changes nothing it shows.
LEMMA StepFollows ==
  ASSUME TurnInvariant, CardsFit, [Next]_vars
  PROVE  [Turns!Next]_Shown
<1>1. CASE UNCHANGED vars
  <2>1. order' = order /\ turn' = turn /\ pending' = pending /\ winner' = winner
    BY <1>1 DEF vars
  <2>2. Shown' = Shown
    BY <2>1, ShownIs
  <2>3. QED
    BY <2>2
<1>2. ASSUME NEW p \in Players,
             \/ \E v \in SetupSites : PlaceInitialSettlement(p, v)
             \/ \E e \in Edges : PlaceInitialRoad(p, e)
             \/ \E total \in Dice : RollDice(p, total)
             \/ EndTurn(p)
             \/ \E bag : DiscardResources(p, bag)
             \/ \E t : MoveRobber(p, t)
             \/ \E q \in Players, x \in Resources : StealFrom(p, q, x)
      PROVE  Shown' \in Turns!After(Shown, p)
  BY <1>2, SettlementFollows, RoadFollows, RollFollows, EndTurnFollows, DiscardFollows, RobberFollows, StealFollows
<1>3. ASSUME NEW p \in Players,
             (\E e : BuildRoad(p, e)) \/ (\E v : BuildSettlement(p, v) \/ UpgradeCity(p, v))
               \/ BuyCard(p) \/ (\E give, get : MaritimeTrade(p, give, get))
      PROVE  Shown' \in Turns!After(Shown, p)
  BY <1>3, PaidActs, ActFollows
<1>4. ASSUME NEW p \in Players,
             \/ \E c : PlayCard(p, c)
             \/ \E e \in Edges : PlaceFreeRoad(p, e)
             \/ FinishFreeRoads(p) \/ RejectTrade(p) \/ AcceptTrade(p)
                  \/ (\E bag : ChooseInvention(p, bag)) \/ (\E x : ChooseMonopoly(p, x))
             \/ \E q \in Players : \E gives, gets : ProposeTrade(p, q, gives, gets) \/ CounterTrade(p, gives, gets)
      PROVE  Shown' \in Turns!After(Shown, p)
  BY <1>4, CardFollows, FreeRoadFollows, AnswerFollows, OfferFollows
<1>5. CASE ~(UNCHANGED vars)
  <2>1. \E p \in Players : Shown' \in Turns!After(Shown, p)
    BY <1>2, <1>3, <1>4, <1>5, StepKinds
  <2>2. QED
    BY <2>1 DEF Turns!Next
<1>6. QED
  BY <1>1, <1>5

\* A new game is a new game of TurnOrder.
LEMMA InitFollows ==
  ASSUME Init
  PROVE  Turns!Init
<1>1. order \in Rotations /\ pending = NoDecision /\ winner = None
  BY DEF Init, Rotations
<1>2. PICK s, no : s = [round |-> 1, index |-> 0, settlement |-> None] /\ no = FALSE
  OBVIOUS
<1>3. turn = [number |-> 0, current |-> order[1], phase |-> "SETUP_SETTLEMENT", setup |-> s,
              lastRoll |-> None, cardPlayed |-> no]
  BY <1>2 DEF Init
<1>4. turn.setup = s /\ turn.phase = "SETUP_SETTLEMENT"
  BY <1>3
<1>5. TurnInvariant /\ Setup
  BY <1>4, TurnInit DEF Setup
<1>6. s.round = 1 /\ s.index = 0
  BY <1>2
<1>7. turn.current = order[1]
  BY <1>3
<1>8. Stage(turn) = 1
  BY <1>4, <1>5, <1>6, SetupShows, SeatFacts
<1>9. Shown = At(order, 1, order[1], 1, FALSE, {}, 0, None)
  BY <1>4, <1>5, <1>7, <1>8, SetupShows
<1>10. Shown = Turns!NewGame(order)
  BY <1>9 DEF At, Turns!NewGame
<1>11. QED
  BY <1>1, <1>10 DEF Turns!Init

\* The engine implements TurnOrder: turns pass in the order drawn, a decision
\* is settled in a bounded number of answers of those who owe one, and nothing
\* follows a win, for every board, deck and number of players.
THEOREM TurnsAreFollowed == Spec => FollowsTurns
<1>1. Init => Turns!Init
  BY InitFollows
<1>2. TurnInvariant /\ CardsFit /\ [Next]_vars => [Turns!Next]_Shown
  BY StepFollows
<1>3. QED
  BY <1>1, <1>2, TurnsHold, PTL DEF Spec, FollowsTurns, Turns!Spec

-----------------------------------------------------------------------------
(* Points, and who has won.                                                *)

BuildingsType(b) ==
  b \in [Vertices -> {Unbuilt} \cup {Building(p, "SETTLEMENT") : p \in Players}
                              \cup {Building(p, "CITY") : p \in Players}]

\* A knight that is played counts when its robber is done.
KnightsRobber == pending.type \in {"MOVE_ROBBER", "CHOOSE_ROBBER_TARGET"} /\ pending.cause # None

\* The player whose turn it is has not won yet, whatever decision is open.
NotWonYet ==
  ~Setup /\ winner = None /\ ~KnightsRobber => Points(buildings, awards, cards, turn.current) < Target

\* The settlements the first player has placed in the setup.
FirstPlaced ==
  LET s == turn.setup
      road == turn.phase = "SETUP_ROAD"
  IN  IF s.round = 1 THEN IF s.index = 0 /\ ~road THEN 0 ELSE 1
      ELSE IF s.index = N - 1 /\ road THEN 2 ELSE 1

SetupScore ==
  Setup => /\ awards = [road |-> None, army |-> None] /\ cards = [q \in Players |-> {}]
           /\ \A q \in Players : Cities(buildings, q) = {}
           /\ Cardinality(Settlements(buildings, order[1])) <= FirstPlaced

ScoreFits == BuildingsType(buildings) /\ SetupScore /\ NotWonYet

\* Points are a number.
LEMMA PointsType ==
  ASSUME NEW b, NEW aw, NEW cs, CardsType(cs), NEW p \in Players
  PROVE  Points(b, aw, cs, p) \in Nat
<1>1. PICK s : s = Cardinality(Settlements(b, p))
  OBVIOUS
<1>2. PICK c : c = Cardinality(Cities(b, p))
  OBVIOUS
<1>3. PICK k : k = Cardinality({d \in cs[p] : CardType[d.card] = "VICTORY_POINT"})
  OBVIOUS
<1>4. s \in Nat /\ c \in Nat
  <2>1. IsFiniteSet(Vertices)
    BY BoardAssumption DEF BoardAssumption
  <2>2. Settlements(b, p) \subseteq Vertices /\ Cities(b, p) \subseteq Vertices
    BY DEF Settlements, Cities
  <2>3. IsFiniteSet(Settlements(b, p)) /\ IsFiniteSet(Cities(b, p))
    BY <2>1, <2>2, FS_Subset
  <2>4. QED
    BY <1>1, <1>2, <2>3, FS_CardinalityType
<1>5. k \in Nat
  <2>1. IsFiniteSet(cs[p]) /\ {d \in cs[p] : CardType[d.card] = "VICTORY_POINT"} \subseteq cs[p]
    BY DEF CardsType
  <2>2. IsFiniteSet({d \in cs[p] : CardType[d.card] = "VICTORY_POINT"})
    BY <2>1, FS_Subset
  <2>3. QED
    BY <1>3, <2>2, FS_CardinalityType
<1>6. PICK a1, a2 : /\ a1 = (IF aw.road = p THEN AwardPoints ELSE 0)
                    /\ a2 = (IF aw.army = p THEN AwardPoints ELSE 0)
  OBVIOUS
<1>7. a1 \in Nat /\ a2 \in Nat
  BY <1>6, EngineAssumption DEF EngineAssumption
<1>8. Points(b, aw, cs, p) = s + 2 * c + a1 + a2 + k
  BY <1>1, <1>2, <1>3, <1>6 DEF Points
<1>9. QED
  BY <1>4, <1>5, <1>7, <1>8

\* Whoever settles with the points to win has won.
LEMMA ResolveScores ==
  ASSUME NEW b, NEW aw, NEW cs, CardsType(cs), NEW tn, tn.current \in Players, winner = None,
         ResolveVictory(b, aw, cs, tn, NoDecision), buildings' = b, awards' = aw
  PROVE  NotWonYet'
<1>1. CASE Points(b, aw, cs, tn.current) >= Target
  <2>1. winner' = tn.current
    BY <1>1 DEF ResolveVictory
  <2>2. winner' # None
    BY <2>1, SeatFacts
  <2>3. QED
    BY <2>2 DEF NotWonYet
<1>2. CASE ~(Points(b, aw, cs, tn.current) >= Target)
  <2>1. turn' = tn /\ cards' = cs
    BY <1>2 DEF ResolveVictory
  <2>2. PICK n : n = Points(b, aw, cs, tn.current)
    OBVIOUS
  <2>3. n \in Nat /\ Target \in Nat
    BY <2>2, PointsType, EngineAssumption DEF EngineAssumption
  <2>4. n < Target
    BY <1>2, <2>2, <2>3
  <2>5. Points(buildings', awards', cards', turn'.current) = n
    BY <2>1, <2>2
  <2>6. (Points(buildings, awards, cards, turn.current) < Target)'
    BY <2>4, <2>5
  <2>7. QED
    BY <2>6 DEF NotWonYet
<1>3. QED
  BY <1>1, <1>2

\* A step that leaves the points and the turn to the same player.
LEMMA SameScore ==
  ASSUME NotWonYet, ~Setup, winner = None, ~KnightsRobber,
         buildings' = buildings, awards' = awards, turn'.current = turn.current,
         \A q : {d \in cards'[q] : CardType[d.card] = "VICTORY_POINT"}
                  = {d \in cards[q] : CardType[d.card] = "VICTORY_POINT"}
  PROVE  NotWonYet'
<1>1. Points(buildings, awards, cards, turn.current) < Target
  BY DEF NotWonYet
<1>2. PICK b, aw, cs, p, cn : b = buildings /\ aw = awards /\ cs = cards /\ p = turn.current /\ cn = cards'
  OBVIOUS
<1>3. {d \in cn[p] : CardType[d.card] = "VICTORY_POINT"} = {d \in cs[p] : CardType[d.card] = "VICTORY_POINT"}
  BY <1>2
<1>4. Points(b, aw, cn, p) = Points(b, aw, cs, p)
  BY <1>3 DEF Points
<1>5. Points(buildings', awards', cards', turn'.current) < Target
  BY <1>1, <1>2, <1>4
<1>6. (Points(buildings, awards, cards, turn.current) < Target)'
  BY <1>5
<1>7. QED
  BY <1>6 DEF NotWonYet

\* A building of a player leaves buildings of players.
LEMMA BuiltFits ==
  ASSUME NEW b, BuildingsType(b), NEW v, NEW p \in Players, NEW kind \in {"SETTLEMENT", "CITY"}
  PROVE  BuildingsType([b EXCEPT ![v] = Building(p, kind)])
<1>1. PICK x : x = Building(p, kind)
  OBVIOUS
<1>2. x \in {Building(q, "SETTLEMENT") : q \in Players} \cup {Building(q, "CITY") : q \in Players}
  BY <1>1
<1>3. BuildingsType([b EXCEPT ![v] = x])
  BY <1>2 DEF BuildingsType
<1>4. QED
  BY <1>1, <1>3

\* After the setup only the turn's points matter.
LEMMA OutOfSetup ==
  ASSUME TurnInvariant', turn'.setup = None
  PROVE  SetupScore'
  BY DEF TurnInvariant, TurnFits, SetupScore

\* The setup does not come back.
LEMMA SettledSetup ==
  ASSUME NEW tn, GoesOn(tn), Settled(tn)
  PROVE  turn'.setup = None
  BY DEF GoesOn, Settled, TurnType

\* A new card of a player leaves cards of the game.
LEMMA BoughtFits ==
  ASSUME TurnInvariant, CardsFit, NEW p \in Players, deck # <<>>
  PROVE  CardsType([cards EXCEPT ![p] = @ \cup {[card |-> Head(deck), acquired |-> turn.number, status |-> "IN_HAND"]}])
<1>1. PICK c : c = [card |-> Head(deck), acquired |-> turn.number, status |-> "IN_HAND"]
  OBVIOUS
<1>2. Head(deck) \in Cards /\ turn \in TurnType
  BY DEF CardsFit, TurnInvariant, TurnFits
<1>3. c \in OwnedCards
  BY <1>1, <1>2 DEF OwnedCards, TurnType
<1>4. PICK held : held = cards[p] \cup {c}
  OBVIOUS
<1>5. held \in SUBSET OwnedCards /\ IsFiniteSet(held)
  BY <1>3, <1>4, FS_AddElement DEF CardsFit, CardsType
<1>6. CardsType([cards EXCEPT ![p] = held])
  BY <1>5 DEF CardsFit, CardsType
<1>7. QED
  BY <1>1, <1>4, <1>6

\* The settlements of the setup: the first player places at most two.
LEMMA SettlementScores ==
  ASSUME TurnInvariant, ScoreFits, NEW p, NEW v \in SetupSites, PlaceInitialSettlement(p, v)
  PROVE  ScoreFits'
<1>1. /\ turn.phase = "SETUP_SETTLEMENT" /\ p = turn.current /\ order' = order
      /\ turn' = [turn EXCEPT !.phase = "SETUP_ROAD", !.setup.settlement = v]
      /\ buildings' = [buildings EXCEPT ![v] = Building(p, "SETTLEMENT")]
      /\ awards' = awards /\ cards' = cards
  BY DEF PlaceInitialSettlement, AcceptsInitialSettlement, InTurn, Current
<1>2. Setup /\ turn \in TurnType
  BY <1>1 DEF TurnInvariant, TurnFits, Setup
<1>3. turn.setup \in Setups /\ p \in Players
  BY <1>1, <1>2 DEF TurnInvariant, TurnFits, TurnType
<1>4. BuildingsType(buildings')
  BY <1>1, <1>3, BuiltFits DEF ScoreFits
<1>5. PICK s : s = turn.setup
  OBVIOUS
<1>6. PICK tn : tn = turn'
  OBVIOUS
<1>7. tn.phase = "SETUP_ROAD" /\ tn.setup.round = s.round /\ tn.setup.index = s.index
  <2>1. PICK n : n = [turn.setup EXCEPT !.settlement = v]
    OBVIOUS
  <2>2. n.round = s.round /\ n.index = s.index
    BY <1>3, <1>5, <2>1 DEF Setups
  <2>3. turn' = [turn EXCEPT !.phase = "SETUP_ROAD", !.setup = n]
    BY <1>1, <1>2, <2>1 DEF TurnType
  <2>4. QED
    BY <1>2, <1>6, <2>2, <2>3 DEF TurnType
<1>8. Setup'
  BY <1>6, <1>7 DEF Setup
<1>9. NotWonYet'
  BY <1>8 DEF NotWonYet
<1>10. PICK x, b : x = Building(p, "SETTLEMENT") /\ b = buildings'
  OBVIOUS
<1>11. \A u \in Vertices : b[u] = (IF u = v THEN x ELSE buildings[u])
  BY <1>1, <1>10 DEF ScoreFits, BuildingsType
<1>12. \A q \in Players : Cities(b, q) = {}
  <2> TAKE q \in Players
  <2>1. x # Building(q, "CITY")
    BY <1>10 DEF Building
  <2>2. Cities(buildings, q) = {}
    BY <1>2 DEF ScoreFits, SetupScore
  <2>3. Cities(b, q) \subseteq Cities(buildings, q)
    BY <1>11, <2>1 DEF Cities
  <2>4. QED
    BY <2>2, <2>3
<1>13. N \in Nat /\ N > 1 /\ s.round \in {1, 2} /\ s.index \in 0..(N - 1)
  BY <1>3, <1>5, SeatFacts DEF Setups, N
<1>14. PICK o : o = order[1]
  OBVIOUS
<1>15. PICK had, has : had = Settlements(buildings, o) /\ has = Settlements(b, o)
  OBVIOUS
<1>16. IsFiniteSet(had) /\ Cardinality(had) \in Nat
  <2>1. had \subseteq Vertices /\ IsFiniteSet(Vertices)
    BY <1>15, BoardAssumption DEF Settlements, BoardAssumption
  <2>2. QED
    BY <2>1, FS_Subset, FS_CardinalityType
<1>17. Cardinality(had) <= FirstPlaced
  BY <1>2, <1>14, <1>15 DEF ScoreFits, SetupScore
<1>18. ASSUME p # o PROVE has = had
  <2>1. x # Building(o, "SETTLEMENT")
    BY <1>10, <1>18 DEF Building
  <2>2. buildings[v] # Building(o, "SETTLEMENT")
    <3>1. buildings[v] = Unbuilt
      BY DEF PlaceInitialSettlement, AcceptsInitialSettlement, ValidInitialSettlement, Free
    <3>2. o # None
      <4>1. 1 \in 1..N
        BY <1>13
      <4>2. order[1] \in Players
        BY <4>1 DEF TurnInvariant, OrderFits
      <4>3. QED
        BY <1>14, <4>2, SeatFacts
    <3>3. QED
      BY <3>1, <3>2 DEF Unbuilt, Building
  <2>3. QED
    BY <1>11, <1>15, <2>1, <2>2 DEF Settlements
<1>19. Cardinality(has) <= Cardinality(had) + 1 /\ Cardinality(has) \in Nat
  <2>1. has \subseteq had \cup {v}
    BY <1>11, <1>15 DEF Settlements
  <2>2. /\ IsFiniteSet(had \cup {v}) /\ Cardinality(had \cup {v}) <= Cardinality(had) + 1
        /\ Cardinality(had \cup {v}) \in Nat
    <3>1. /\ IsFiniteSet(had \cup {v})
          /\ Cardinality(had \cup {v}) = (IF v \in had THEN Cardinality(had) ELSE Cardinality(had) + 1)
      BY <1>16, FS_AddElement
    <3>2. QED
      BY <1>16, <3>1
  <2>3. IsFiniteSet(has) /\ Cardinality(has) <= Cardinality(had \cup {v}) /\ Cardinality(has) \in Nat
    BY <2>1, <2>2, FS_Subset, FS_CardinalityType
  <2>4. QED
    BY <1>16, <2>2, <2>3
<1>20. ASSUME p = o PROVE (s.round = 1 /\ s.index = 0) \/ (s.round = 2 /\ s.index = N - 1)
  <2>1. turn.current = ExpectedSetupPlayer(s.round, s.index)
    BY <1>2, <1>5 DEF TurnInvariant, TurnFits
  <2>2. PICK i : i = (IF s.round = 1 THEN s.index + 1 ELSE N - s.index)
    OBVIOUS
  <2>3. i \in 1..N /\ 1 \in 1..N
    BY <1>13, <2>2
  <2>4. order[i] = order[1]
    BY <1>1, <1>14, <1>20, <2>1, <2>2 DEF ExpectedSetupPlayer
  <2>5. i = 1
    BY <2>3, <2>4 DEF TurnInvariant, OrderFits
  <2>6. QED
    BY <1>13, <2>2, <2>5
<1>21. FirstPlaced = (IF s.round = 1 THEN (IF s.index = 0 THEN 0 ELSE 1) ELSE 1)
  BY <1>1, <1>5 DEF FirstPlaced
<1>22. FirstPlaced' = (IF s.round = 1 THEN 1 ELSE IF s.index = N - 1 THEN 2 ELSE 1)
  BY <1>6, <1>7 DEF FirstPlaced, N
<1>23. Cardinality(has) <= FirstPlaced'
  <2>1. CASE p # o
    BY <1>13, <1>16, <1>17, <1>18, <1>21, <1>22, <2>1
  <2>2. CASE p = o
    BY <1>13, <1>16, <1>17, <1>19, <1>20, <1>21, <1>22, <2>2
  <2>3. QED
    BY <2>1, <2>2
<1>24. SetupScore'
  <2>1. awards = [road |-> None, army |-> None] /\ cards = [q \in Players |-> {}]
    BY <1>2 DEF ScoreFits, SetupScore
  <2>2. awards' = [road |-> None, army |-> None] /\ cards' = [q \in Players |-> {}]
    BY <1>1, <2>1
  <2>3. \A q \in Players : Cities(buildings', q) = {}
    BY <1>10, <1>12
  <2>4. Settlements(buildings', order'[1]) = has
    BY <1>1, <1>10, <1>14, <1>15
  <2>5. QED
    BY <1>23, <2>2, <2>3, <2>4 DEF SetupScore
<1>25. QED
  BY <1>4, <1>9, <1>24 DEF ScoreFits

\* The last road of the setup leaves the first player with two settlements.
LEMMA RoadScores ==
  ASSUME TurnInvariant, ScoreFits, NEW p, NEW e, PlaceInitialRoad(p, e)
  PROVE  ScoreFits'
<1>1. /\ turn.phase = "SETUP_ROAD" /\ order' = order /\ Setup /\ turn' = NextSetupTurn
      /\ buildings' = buildings /\ awards' = awards /\ cards' = cards
  BY DEF PlaceInitialRoad, AcceptsInitialRoad, InTurn, Setup
<1>2. PICK s : s = turn.setup
  OBVIOUS
<1>3. /\ awards = [road |-> None, army |-> None] /\ cards = [q \in Players |-> {}]
      /\ \A q \in Players : Cities(buildings, q) = {}
      /\ Cardinality(Settlements(buildings, order[1])) <= FirstPlaced
  BY <1>1 DEF ScoreFits, SetupScore
<1>4. turn \in TurnType /\ N \in Nat /\ N > 1 /\ s.index \in 0..(N - 1) /\ s.round \in {1, 2}
  <2>1. s \in Setups
    BY <1>1, <1>2, SetupSuccessor
  <2>2. QED
    BY <2>1, SeatFacts DEF Setups, N, TurnInvariant, TurnFits
<1>5. FirstPlaced = (IF s.round = 1 THEN 1 ELSE IF s.index = N - 1 THEN 2 ELSE 1)
  BY <1>1, <1>2 DEF FirstPlaced
<1>6. BuildingsType(buildings')
  BY <1>1 DEF ScoreFits
<1>7. PICK n : n = Cardinality(Settlements(buildings, order[1]))
  OBVIOUS
<1>8. n \in Nat
  <2>1. Settlements(buildings, order[1]) \subseteq Vertices /\ IsFiniteSet(Vertices)
    BY BoardAssumption DEF Settlements, BoardAssumption
  <2>2. QED
    BY <1>7, <2>1, FS_Subset, FS_CardinalityType
<1>9. PICK tn : tn = turn'
  OBVIOUS
<1>10. ASSUME NEW next, NEW c, tn = [turn EXCEPT !.phase = "SETUP_SETTLEMENT", !.setup = next, !.current = c],
              \/ next.round = s.round /\ next.index = s.index + 1 /\ s.index < N - 1
              \/ next.round = 2 /\ next.index = 0 /\ s.round = 1
       PROVE  ScoreFits'
  <2>1. tn.phase = "SETUP_SETTLEMENT" /\ tn.setup = next
    BY <1>4, <1>10 DEF TurnType
  <2>2. FirstPlaced' = (IF next.round = 1 THEN (IF next.index = 0 THEN 0 ELSE 1) ELSE 1)
    BY <1>9, <2>1 DEF FirstPlaced
  <2>3. FirstPlaced' = 1 /\ FirstPlaced = 1
    BY <1>4, <1>5, <1>10, <2>2
  <2>4. SetupScore'
    BY <1>1, <1>3, <2>3 DEF SetupScore
  <2>5. Setup'
    BY <1>9, <2>1 DEF Setup
  <2>6. QED
    BY <1>6, <2>4, <2>5 DEF ScoreFits, NotWonYet
<1>11. CASE s.index < N - 1
  <2>1. PICK next : next = [round |-> s.round, index |-> s.index + 1, settlement |-> None]
    OBVIOUS
  <2>2. next.round = s.round /\ next.index = s.index + 1
    BY <2>1
  <2>3. tn = [turn EXCEPT !.phase = "SETUP_SETTLEMENT", !.setup = next,
                          !.current = ExpectedSetupPlayer(s.round, s.index + 1)]
    BY <1>1, <1>2, <1>9, <1>11, <2>1, SetupSuccessor
  <2>4. QED
    BY <1>10, <1>11, <2>2, <2>3
<1>12. CASE ~(s.index < N - 1) /\ s.round = 1
  <2>1. PICK next : next = [round |-> 2, index |-> 0, settlement |-> None]
    OBVIOUS
  <2>2. next.round = 2 /\ next.index = 0
    BY <2>1
  <2>3. tn = [turn EXCEPT !.phase = "SETUP_SETTLEMENT", !.setup = next, !.current = ExpectedSetupPlayer(2, 0)]
    BY <1>1, <1>2, <1>9, <1>12, <2>1, SetupSuccessor
  <2>4. QED
    BY <1>10, <1>12, <2>2, <2>3
<1>13. CASE ~(s.index < N - 1) /\ s.round # 1
  <2>1. tn = [number |-> 1, current |-> order[1], phase |-> "ROLL_REQUIRED",
              setup |-> None, lastRoll |-> None, cardPlayed |-> FALSE]
    BY <1>1, <1>2, <1>9, <1>13, SetupSuccessor
  <2>2. tn.current = order[1] /\ tn.phase = "ROLL_REQUIRED"
    BY <2>1
  <2>3. ~Setup'
    BY <1>9, <2>2 DEF Setup
  <2>4. order[1] \in Players
    BY <1>4 DEF TurnInvariant, OrderFits
  <2>5. PICK o : o = order[1]
    OBVIOUS
  <2>6. PICK b, aw, cs : b = buildings /\ aw = awards /\ cs = cards
    OBVIOUS
  <2>7. Points(b, aw, cs, o) = n
    <3>1. aw.road # o /\ aw.army # o
      BY <1>3, <2>4, <2>5, <2>6, SeatFacts
    <3>2. {d \in cs[o] : CardType[d.card] = "VICTORY_POINT"} = {} /\ Cities(b, o) = {}
      BY <1>3, <2>4, <2>5, <2>6
    <3>3. Cardinality({}) = 0
      BY FS_EmptySet
    <3>4. Cardinality(Settlements(b, o)) = n
      BY <1>7, <2>5, <2>6
    <3>5. Points(b, aw, cs, o) = n + 2 * 0 + 0 + 0 + 0
      BY <3>1, <3>2, <3>3, <3>4 DEF Points
    <3>6. QED
      BY <1>8, <3>5
  <2>8. n < Target
    BY <1>3, <1>4, <1>5, <1>7, <1>8, EngineAssumption DEF EngineAssumption
  <2>9. Points(buildings', awards', cards', turn'.current) < Target
    BY <1>1, <1>9, <2>2, <2>5, <2>6, <2>7, <2>8
  <2>10. (Points(buildings, awards, cards, turn.current) < Target)'
    BY <2>9
  <2>11. QED
    BY <1>6, <2>3, <2>10 DEF ScoreFits, SetupScore, NotWonYet
<1>14. QED
  BY <1>11, <1>12, <1>13

\* A command that leaves buildings, awards and cards where they are.
LEMMA StillScores ==
  ASSUME TurnInvariant', ScoreFits, ~Setup, winner = None, ~KnightsRobber,
         buildings' = buildings, awards' = awards, cards' = cards, turn'.current = turn.current, turn'.setup = None
  PROVE  ScoreFits'
<1>1. NotWonYet'
  BY SameScore DEF ScoreFits
<1>2. QED
  BY <1>1, OutOfSetup DEF ScoreFits, BuildingsType

\* The commands that bring no points.
LEMMA PointlessScores ==
  ASSUME TurnInvariant, TurnInvariant', ScoreFits, NEW p,
         \/ \E total \in Dice : RollDice(p, total)
         \/ \E bag : DiscardResources(p, bag)
         \/ \E give, get : MaritimeTrade(p, give, get)
         \/ FinishFreeRoads(p) \/ RejectTrade(p) \/ AcceptTrade(p)
              \/ (\E bag : ChooseInvention(p, bag)) \/ (\E x : ChooseMonopoly(p, x))
         \/ \E q \in Players : \E gives, gets : ProposeTrade(p, q, gives, gets) \/ CounterTrade(p, gives, gets)
  PROVE  ScoreFits'
<1>1. /\ buildings' = buildings /\ awards' = awards /\ cards' = cards /\ winner = None
      /\ \/ pending = NoDecision /\ turn.phase \in {"ROLL_REQUIRED", "ACTION"}
         \/ pending.type \in DecisionTypes \ {"MOVE_ROBBER", "CHOOSE_ROBBER_TARGET"}
  BY DEF RollDice, AcceptsRoll, DiscardResources, AcceptsDiscard, MaritimeTrade, AcceptsMaritime, FinishFreeRoads,
         AcceptsFinishFreeRoads, RejectTrade, AcceptsReject, AcceptTrade, AcceptsAccept, Responds, ChooseInvention,
         AcceptsInvention, ChooseMonopoly, AcceptsMonopoly, DecidesCard, Decides, ProposeTrade, AcceptsProposal,
         CounterTrade, AcceptsCounter, InTurn, board, DecisionTypes
<1>2. ~Setup /\ turn \in TurnType /\ turn.setup = None
  <2>1. CASE pending = NoDecision /\ turn.phase \in {"ROLL_REQUIRED", "ACTION"}
    BY <2>1 DEF TurnInvariant, TurnFits, Setup
  <2>2. CASE pending.type \in DecisionTypes
    BY <1>1, <2>2, DecidesFacts
  <2>3. QED
    BY <1>1, <2>1, <2>2
<1>3. ~KnightsRobber
  BY <1>1, SeatFacts DEF KnightsRobber, NoDecision, DecisionTypes
<1>4. \/ turn' = turn
      \/ \E phase : turn' = [turn EXCEPT !.phase = phase]
      \/ \E phase, total : turn' = [turn EXCEPT !.phase = phase, !.setup = None, !.lastRoll = total]
  BY Zenon DEF RollDice, DiscardResources, MaritimeTrade, FinishFreeRoads, RejectTrade, AcceptTrade, ChooseInvention,
         ChooseMonopoly, ProposeTrade, CounterTrade
<1>5. turn'.current = turn.current /\ turn'.setup = None
  BY <1>2, <1>4 DEF TurnType
<1>6. QED
  BY <1>1, <1>2, <1>3, <1>5, StillScores

\* A command that settles what was open, with the points counted.
LEMMA CountedScores ==
  ASSUME TurnInvariant', winner = None, NEW b, BuildingsType(b), NEW aw, NEW cs, CardsType(cs), NEW tn,
         tn.current \in Players, GoesOn(tn), ResolveVictory(b, aw, cs, tn, NoDecision), buildings' = b, awards' = aw
  PROVE  ScoreFits'
<1>1. NotWonYet'
  BY ResolveScores
<1>2. turn'.setup = None
  BY ResolveSettles, SettledSetup
<1>3. QED
  BY <1>1, <1>2, OutOfSetup DEF ScoreFits, BuildingsType

\* The next player's points are looked at when the turn begins.
LEMMA EndTurnScores ==
  ASSUME TurnInvariant, CardsFit, TurnInvariant', ScoreFits, NEW p, EndTurn(p)
  PROVE  ScoreFits'
<1>1. winner = None /\ p \in Players /\ p = turn.current /\ turn \in TurnType
  BY InTurnFacts DEF EndTurn, AcceptsEndTurn
<1>2. PICK i : i = CHOOSE j \in 1..N : order[j] = Current
  OBVIOUS
<1>3. i \in 1..N
  BY <1>1, <1>2 DEF TurnInvariant, OrderFits, Current
<1>4. order[(i % N) + 1] \in Players
  BY <1>3, After DEF TurnInvariant, OrderFits
<1>5. PICK b, aw, cs, next :
        /\ b = buildings /\ aw = awards /\ cs = cards
        /\ next = [number |-> turn.number + 1, current |-> order[(i % N) + 1],
                   phase |-> "ROLL_REQUIRED", setup |-> None, lastRoll |-> None, cardPlayed |-> FALSE]
  OBVIOUS
<1>6. GoesOn(next) /\ next.current \in Players
  <2>1. turn.number + 1 \in Nat
    BY <1>1 DEF TurnType
  <2>2. QED
    BY <1>4, <1>5, <2>1 DEF GoesOn, TurnType, Phases
<1>7. ResolveVictory(b, aw, cs, next, NoDecision) /\ buildings' = b /\ awards' = aw
  BY <1>2, <1>5 DEF EndTurn, board
<1>8. CardsType(cs) /\ BuildingsType(b)
  BY <1>5 DEF CardsFit, ScoreFits
<1>9. QED
  BY <1>1, <1>6, <1>7, <1>8, CountedScores

\* The robber brings points only when a knight moved it, and then they count.
LEMMA RobberDoneScores ==
  ASSUME TurnInvariant, CardsFit, TurnInvariant', ScoreFits, winner = None,
         pending.type \in {"MOVE_ROBBER", "CHOOSE_ROBBER_TARGET"},
         RobberDone(pending.cause, [turn EXCEPT !.phase = AfterRobber(pending.cause)]),
         buildings' = buildings, awards' = awards
  PROVE  ScoreFits'
<1>1. PICK tn : tn = [turn EXCEPT !.phase = AfterRobber(pending.cause)]
  OBVIOUS
<1>2. GoesOn(tn) /\ tn.current = turn.current /\ turn.current \in Players /\ ~Setup
  BY <1>1, AfterRobberGoesOn, DecidesFacts DEF DecisionTypes
<1>3. CASE pending.cause = None
  <2>1. turn' = tn /\ cards' = cards
    BY <1>1, <1>3 DEF RobberDone
  <2>2. ~KnightsRobber
    BY <1>3 DEF KnightsRobber
  <2>3. QED
    BY <1>2, <2>1, <2>2, StillScores DEF GoesOn
<1>4. CASE pending.cause # None
  <2>1. PICK b, aw, cs : b = buildings /\ aw = awards /\ cs = cards
    OBVIOUS
  <2>2. ResolveVictory(b, aw, cs, tn, NoDecision)
    BY <1>1, <1>4, <2>1 DEF RobberDone
  <2>3. CardsType(cs) /\ BuildingsType(b) /\ buildings' = b /\ awards' = aw
    BY <2>1 DEF CardsFit, ScoreFits
  <2>4. QED
    BY <1>2, <2>2, <2>3, CountedScores
<1>5. QED
  BY <1>3, <1>4

\* The robber and the stolen card.
LEMMA RobberScores ==
  ASSUME TurnInvariant, CardsFit, TurnInvariant', ScoreFits, NEW p,
         (\E t : MoveRobber(p, t)) \/ (\E q \in Players, x \in Resources : StealFrom(p, q, x))
  PROVE  ScoreFits'
<1>1. ASSUME NEW t, MoveRobber(p, t) PROVE ScoreFits'
  <2>1. /\ winner = None /\ pending.type = "MOVE_ROBBER"
        /\ buildings' = buildings /\ awards' = awards
    BY <1>1 DEF MoveRobber, AcceptsMoveRobber, Decides
  <2>2. CASE RobberTargets(buildings, hand, t, p) = {}
    <3>1. RobberDone(pending.cause, [turn EXCEPT !.phase = AfterRobber(pending.cause)])
      BY <1>1, <2>2 DEF MoveRobber
    <3>2. QED
      BY <2>1, <3>1, RobberDoneScores
  <2>3. CASE RobberTargets(buildings, hand, t, p) # {}
    <3>1. /\ turn' = [turn EXCEPT !.phase = "ROBBER_TARGET_REQUIRED"] /\ cards' = cards
          /\ pending' = [type |-> "CHOOSE_ROBBER_TARGET", actor |-> p, tile |-> t,
                         targets |-> RobberTargets(buildings, hand, t, p), cause |-> pending.cause]
      BY <1>1, <2>3 DEF MoveRobber
    <3>2. turn \in TurnType /\ turn.setup = None /\ ~Setup
      BY <2>1, DecidesFacts DEF DecisionTypes
    <3>3. turn'.current = turn.current /\ turn'.setup = None
      BY <3>1, <3>2 DEF TurnType
    <3>4. CASE pending.cause = None
      BY <2>1, <3>1, <3>2, <3>3, <3>4, StillScores DEF KnightsRobber
    <3>5. CASE pending.cause # None
      <4>1. KnightsRobber'
        BY <3>1, <3>5 DEF KnightsRobber
      <4>2. QED
        BY <2>1, <3>3, <4>1, OutOfSetup DEF ScoreFits, NotWonYet, BuildingsType
    <3>6. QED
      BY <3>4, <3>5
  <2>4. QED
    BY <2>2, <2>3
<1>2. ASSUME NEW q, NEW x, StealFrom(p, q, x) PROVE ScoreFits'
  <2>1. /\ winner = None /\ pending.type = "CHOOSE_ROBBER_TARGET" /\ buildings' = buildings /\ awards' = awards
        /\ RobberDone(pending.cause, [turn EXCEPT !.phase = AfterRobber(pending.cause)])
    BY <1>2 DEF StealFrom, AcceptsSteal, Decides, board
  <2>2. QED
    BY <2>1, RobberDoneScores
<1>3. QED
  BY <1>1, <1>2

\* Building and buying a card: the points count at once.
LEMMA ReconcileScores ==
  ASSUME TurnInvariant, TurnInvariant', NEW p, InTurn(p, {"ACTION"}),
         NEW b, BuildingsType(b), NEW r, NEW cs, CardsType(cs), Reconcile(b, r, cs), buildings' = b
  PROVE  ScoreFits'
<1>1. winner = None /\ turn.current \in Players /\ GoesOn(turn)
  BY InTurnFacts
<1>2. PICK tn, aw : tn = turn /\ aw = Reconciled(b, r, knights)
  OBVIOUS
<1>3. ResolveVictory(b, aw, cs, tn, NoDecision) /\ awards' = aw
  BY <1>2 DEF Reconcile
<1>4. QED
  BY <1>1, <1>2, <1>3, CountedScores

\* Building and buying a card.
LEMMA PaidScores ==
  ASSUME TurnInvariant, CardsFit, TurnInvariant', ScoreFits, NEW p,
         (\E e : BuildRoad(p, e)) \/ (\E v : BuildSettlement(p, v) \/ UpgradeCity(p, v)) \/ BuyCard(p)
  PROVE  ScoreFits'
<1>1. ASSUME NEW e, BuildRoad(p, e) PROVE ScoreFits'
  <2>1. PICK b, r, cs : b = buildings /\ r = [roads EXCEPT ![e] = p] /\ cs = cards
    OBVIOUS
  <2>2. Reconcile(b, r, cs) /\ InTurn(p, {"ACTION"}) /\ buildings' = b
    BY <1>1, <2>1 DEF BuildRoad, AcceptsRoad
  <2>3. BuildingsType(b) /\ CardsType(cs)
    BY <2>1 DEF ScoreFits, CardsFit
  <2>4. QED
    BY <2>2, <2>3, ReconcileScores
<1>2. ASSUME NEW v, BuildSettlement(p, v) PROVE ScoreFits'
  <2>1. PICK b, r, cs : b = [buildings EXCEPT ![v] = Building(p, "SETTLEMENT")] /\ r = roads /\ cs = cards
    OBVIOUS
  <2>2. Reconcile(b, r, cs) /\ InTurn(p, {"ACTION"}) /\ buildings' = b
    BY <1>2, <2>1 DEF BuildSettlement, AcceptsSettlement
  <2>3. BuildingsType(b) /\ CardsType(cs)
    BY <2>1, <2>2, InTurnFacts, BuiltFits DEF ScoreFits, CardsFit
  <2>4. QED
    BY <2>2, <2>3, ReconcileScores
<1>3. ASSUME NEW v, UpgradeCity(p, v) PROVE ScoreFits'
  <2>1. PICK b, r, cs : b = [buildings EXCEPT ![v] = Building(p, "CITY")] /\ r = roads /\ cs = cards
    OBVIOUS
  <2>2. Reconcile(b, r, cs) /\ InTurn(p, {"ACTION"}) /\ buildings' = b
    BY <1>3, <2>1 DEF UpgradeCity, AcceptsCity
  <2>3. BuildingsType(b) /\ CardsType(cs)
    BY <2>1, <2>2, InTurnFacts, BuiltFits DEF ScoreFits, CardsFit
  <2>4. QED
    BY <2>2, <2>3, ReconcileScores
<1>4. ASSUME BuyCard(p) PROVE ScoreFits'
  <2>1. PICK b, r, cs : /\ b = buildings /\ r = roads
                        /\ cs = [cards EXCEPT ![p] = @ \cup {[card |-> Head(deck), acquired |-> turn.number,
                                                             status |-> "IN_HAND"]}]
    OBVIOUS
  <2>2. Reconcile(b, r, cs) /\ InTurn(p, {"ACTION"}) /\ buildings' = b /\ deck # <<>>
    BY <1>4, <2>1 DEF BuyCard, AcceptsBuyCard, board
  <2>3. p \in Players
    BY <2>2, InTurnFacts
  <2>4. BuildingsType(b) /\ CardsType(cs)
    BY <2>1, <2>2, <2>3, BoughtFits DEF ScoreFits
  <2>5. QED
    BY <2>2, <2>4, ReconcileScores
<1>5. QED
  BY <1>1, <1>2, <1>3, <1>4

\* A card that is played is no victory point; a knight's award counts later.
LEMMA CardScores ==
  ASSUME TurnInvariant, CardsFit, TurnInvariant', ScoreFits, NEW p, NEW c, PlayCard(p, c)
  PROVE  ScoreFits'
<1>1. InTurn(p, {"ROLL_REQUIRED", "ACTION"}) /\ c \in cards[p] /\ CardType[c.card] # "VICTORY_POINT"
  BY DEF PlayCard, AcceptsPlayCard, Playable, InHand
<1>2. /\ winner = None /\ pending = NoDecision /\ p \in Players /\ turn \in TurnType /\ turn.setup = None
      /\ turn.phase \in {"ROLL_REQUIRED", "ACTION"} /\ buildings' = buildings
  BY <1>1, InTurnFacts DEF PlayCard, board
<1>3. /\ ~Setup /\ ~KnightsRobber
  BY <1>2, SeatFacts DEF Setup, KnightsRobber, NoDecision, DecisionTypes
<1>4. \/ turn' = [turn EXCEPT !.cardPlayed = TRUE]
      \/ \E phase : turn' = [turn EXCEPT !.cardPlayed = TRUE, !.phase = phase]
  BY Zenon DEF PlayCard
<1>5. turn'.current = turn.current /\ turn'.setup = None
  BY <1>2, <1>4 DEF TurnType
<1>6. SetupScore' /\ BuildingsType(buildings')
  BY <1>2, <1>5, OutOfSetup DEF ScoreFits
<1>7. CASE CardType[c.card] = "KNIGHT"
  <2>1. pending' = [type |-> "MOVE_ROBBER", actor |-> p, cause |-> c.card]
    BY <1>7 DEF PlayCard
  <2>2. c.card \in Cards
    BY <1>1, <1>2 DEF CardsFit, CardsType, OwnedCards
  <2>3. KnightsRobber'
    BY <2>1, <2>2, SeatFacts DEF KnightsRobber
  <2>4. QED
    BY <1>6, <2>3 DEF ScoreFits, NotWonYet
<1>8. CASE CardType[c.card] # "KNIGHT"
  <2>1. awards' = awards
    BY <1>8 DEF PlayCard
  <2>2. PICK d : d = [c EXCEPT !.status = "PLAYED"]
    OBVIOUS
  <2>3. CardType[d.card] # "VICTORY_POINT"
    BY <1>1, <1>2, <2>2 DEF CardsFit, CardsType, OwnedCards
  <2>4. PICK held : held = (cards[p] \ {c}) \cup {d}
    OBVIOUS
  <2>5. cards' = [cards EXCEPT ![p] = held]
    BY <2>2, <2>4 DEF PlayCard
  <2>6. \A q : {o \in cards'[q] : CardType[o.card] = "VICTORY_POINT"}
                = {o \in cards[q] : CardType[o.card] = "VICTORY_POINT"}
    <3> TAKE q
    <3>1. CASE q = p
      <4>1. cards'[q] = held
        BY <1>2, <2>5, <3>1 DEF CardsFit, CardsType
      <4>2. QED
        BY <1>1, <2>3, <2>4, <3>1, <4>1
    <3>2. CASE q # p
      <4>1. cards'[q] = cards[q]
        BY <2>5, <3>2 DEF CardsFit, CardsType
      <4>2. QED
        BY <4>1
    <3>3. QED
      BY <3>1, <3>2
  <2>7. NotWonYet'
    BY <1>2, <1>3, <1>5, <2>1, <2>6, SameScore DEF ScoreFits
  <2>8. QED
    BY <1>6, <2>7 DEF ScoreFits
<1>9. QED
  BY <1>7, <1>8

\* A free road counts at once.
LEMMA FreeRoadScores ==
  ASSUME TurnInvariant, CardsFit, TurnInvariant', ScoreFits, NEW p, NEW e, PlaceFreeRoad(p, e)
  PROVE  ScoreFits'
<1>1. /\ winner = None /\ pending.type = "PLACE_FREE_ROADS" /\ p = pending.actor /\ buildings' = buildings
      /\ pending.type \in DecisionTypes
  BY DEF PlaceFreeRoad, AcceptsFreeRoad, DecidesCard, Decides, DecisionTypes
<1>2. PICK tn, b, aw, cs : /\ tn = [turn EXCEPT !.phase = Resume] /\ b = buildings /\ cs = cards
                           /\ aw = Reconciled(buildings, [roads EXCEPT ![e] = p], knights)
  OBVIOUS
<1>3. awards' = aw /\ buildings' = b /\ BuildingsType(b) /\ CardsType(cs)
  BY <1>1, <1>2 DEF PlaceFreeRoad, CardsFit, ScoreFits
<1>4. pending.actor = turn.current
  BY <1>1 DEF TurnInvariant, DecisionFits, CardFits
<1>5. turn.current \in Players /\ turn.setup = None
  BY <1>1, DecidesFacts
<1>6. CASE ResolveVictory(b, aw, cs, tn, NoDecision)
  <2>1. GoesOn(tn) /\ tn.current = turn.current
    BY <1>1, <1>2, ResumeGoesOn
  <2>2. QED
    BY <1>1, <1>3, <1>5, <1>6, <2>1, CountedScores
<1>7. CASE ~(Points(b, aw, cs, p) >= Target) /\ turn' = turn /\ cards' = cards
  <2>1. PICK n : n = Points(b, aw, cs, p)
    OBVIOUS
  <2>2. n \in Nat /\ Target \in Nat
    BY <1>1, <1>3, <1>4, <1>5, <2>1, PointsType, EngineAssumption DEF EngineAssumption
  <2>3. n < Target
    BY <1>7, <2>1, <2>2
  <2>4. Points(buildings', awards', cards', turn'.current) < Target
    BY <1>1, <1>2, <1>3, <1>4, <1>7, <2>1, <2>3
  <2>5. (Points(buildings, awards, cards, turn.current) < Target)'
    BY <2>4
  <2>6. NotWonYet'
    BY <2>5 DEF NotWonYet
  <2>7. QED
    BY <1>3, <1>5, <1>7, <2>6, OutOfSetup DEF ScoreFits
<1>8. QED
  BY <1>2, <1>6, <1>7 DEF PlaceFreeRoad

\* Whoever's turn it is has not won yet, after every command.
LEMMA ScoreStep ==
  ASSUME TurnInvariant, CardsFit, ScoreFits, [Next]_vars
  PROVE  ScoreFits'
<1>1. TurnInvariant'
  BY TurnStep
<1>2. CASE UNCHANGED vars
  BY <1>2 DEF vars, board, ScoreFits, BuildingsType, SetupScore, NotWonYet, Setup, FirstPlaced, KnightsRobber
<1>3. ASSUME NEW p \in Players,
             \/ \E v \in SetupSites : PlaceInitialSettlement(p, v)
             \/ \E e \in Edges : PlaceInitialRoad(p, e)
             \/ \E total \in Dice : RollDice(p, total)
             \/ EndTurn(p)
             \/ \E bag : DiscardResources(p, bag)
             \/ \E t : MoveRobber(p, t)
             \/ \E q \in Players, x \in Resources : StealFrom(p, q, x)
      PROVE  ScoreFits'
  BY <1>1, <1>3, SettlementScores, RoadScores, PointlessScores, EndTurnScores, RobberScores
<1>4. ASSUME NEW p \in Players,
             (\E e : BuildRoad(p, e)) \/ (\E v : BuildSettlement(p, v) \/ UpgradeCity(p, v))
               \/ BuyCard(p) \/ (\E give, get : MaritimeTrade(p, give, get))
      PROVE  ScoreFits'
  BY <1>1, <1>4, PaidScores, PointlessScores
<1>5. ASSUME NEW p \in Players,
             \/ \E c : PlayCard(p, c)
             \/ \E e \in Edges : PlaceFreeRoad(p, e)
             \/ FinishFreeRoads(p) \/ RejectTrade(p) \/ AcceptTrade(p)
                  \/ (\E bag : ChooseInvention(p, bag)) \/ (\E x : ChooseMonopoly(p, x))
             \/ \E q \in Players : \E gives, gets : ProposeTrade(p, q, gives, gets) \/ CounterTrade(p, gives, gets)
      PROVE  ScoreFits'
  BY <1>1, <1>5, CardScores, FreeRoadScores, PointlessScores
<1>6. QED
  BY <1>2, <1>3, <1>4, <1>5, StepKinds

\* A new game has no points in it.
LEMMA ScoreInit ==
  ASSUME Init
  PROVE  ScoreFits
<1>1. /\ buildings = [v \in Vertices |-> Unbuilt] /\ awards = [road |-> None, army |-> None]
      /\ cards = [q \in Players |-> {}] /\ Setup
  BY DEF Init, Setup
<1>2. BuildingsType(buildings)
  BY <1>1 DEF BuildingsType
<1>3. PICK s, no : s = [round |-> 1, index |-> 0, settlement |-> None] /\ no = FALSE
  OBVIOUS
<1>4. turn = [number |-> 0, current |-> order[1], phase |-> "SETUP_SETTLEMENT", setup |-> s,
              lastRoll |-> None, cardPlayed |-> no]
  BY <1>3 DEF Init
<1>5. FirstPlaced = 0
  BY <1>3, <1>4 DEF FirstPlaced
<1>6. ASSUME NEW q, q # None
      PROVE  Settlements(buildings, q) = {} /\ Cities(buildings, q) = {}
  BY <1>1, <1>6 DEF Settlements, Cities, Unbuilt, Building
<1>7. order[1] # None
  <2>1. 1 \in 1..N
    BY SeatFacts
  <2>2. order[1] \in Players
    BY <2>1, TurnInit DEF TurnInvariant, OrderFits
  <2>3. QED
    BY <2>2, SeatFacts
<1>8. Settlements(buildings, order[1]) = {}
  BY <1>6, <1>7
<1>9. \A q \in Players : Cities(buildings, q) = {}
  BY <1>6, SeatFacts
<1>10. Cardinality({}) <= 0
  BY FS_EmptySet
<1>11. QED
  BY <1>1, <1>2, <1>5, <1>8, <1>9, <1>10 DEF ScoreFits, SetupScore, NotWonYet

\* A player whose turn it is and who has the points to win has won, unless a
\* decision is open: however the points came in, no game goes on past them.
THEOREM NobodyPlaysOnHolds == Spec => []NobodyPlaysOn
<1>1. Init => ScoreFits
  BY ScoreInit
<1>2. TurnInvariant /\ CardsFit /\ ScoreFits /\ [Next]_vars => ScoreFits'
  BY ScoreStep
<1>3. ScoreFits => NobodyPlaysOn
  BY SeatFacts DEF ScoreFits, NotWonYet, NobodyPlaysOn, KnightsRobber, NoDecision, DecisionTypes
<1>4. QED
  BY <1>1, <1>2, <1>3, TurnsHold, PTL DEF Spec

-----------------------------------------------------------------------------
(* Sums over finite sets.  The sum of a function is that of any element    *)
(* and the sum over the rest: by induction over the subsets of its domain  *)
(* it does not depend on which one is taken first.                         *)

\* The element the library takes first.
Taken(S) == CHOOSE x \in S : TRUE
\* The sum over s, where g has the sums over smaller sets.
PartSum(f, g, s) == IF s = {} THEN 0 ELSE f[Taken(s)] + g[s \ {Taken(s)}]
\* The sums over all subsets of S.
Parts(f, S) == CHOOSE g : g = [s \in SUBSET S |-> PartSum(f, g, s)]

\* A set of numbers has a least one.
LEMMA LeastNumber ==
  ASSUME NEW T \in SUBSET Nat, T # {}
  PROVE  \E n \in T : \A m \in T : n <= m
<1>1. PICK n \in T : \A m \in T : ~(<<m, n>> \in OpToRel(<, Nat))
  BY NatLessThanWellFounded, WFMin
<1>2. ASSUME NEW m \in T, m < n PROVE FALSE
  <2>1. <<m, n>> \in Nat \X Nat /\ <<m, n>>[1] = m /\ <<m, n>>[2] = n
    OBVIOUS
  <2>2. <<m, n>> \in OpToRel(<, Nat)
    BY <1>2, <2>1, ZenonT(30) DEF OpToRel
  <2>3. QED
    BY <1>1, <2>2, Zenon
<1>3. QED
  BY <1>2

\* Induction over the numbers of a set.
LEMMA SetOfNumbers ==
  ASSUME NEW G, 0 \in G, \A n \in Nat : n \in G => n + 1 \in G
  PROVE  Nat \subseteq G
<1>1. SUFFICES ASSUME Nat \ G # {} PROVE FALSE
  OBVIOUS
<1>2. PICK n \in Nat \ G : \A m \in Nat \ G : n <= m
  BY <1>1, LeastNumber
<1>3. n # 0 /\ n - 1 \in Nat
  BY <1>2
<1>4. n - 1 \in G
  BY <1>2, <1>3
<1>5. QED
  BY <1>2, <1>3, <1>4

\* The sum the library defines.
LEMMA SumIsParts ==
  ASSUME NEW f, NEW S
  PROVE SumFunctionOnSet(f, S) = Parts(f, S)[S]
  BY DEF SumFunctionOnSet, FoldFunctionOnSet, MapThenFoldSet, Parts, PartSum, Taken

\* The sums over all subsets exist: the definition of the library is sound.
LEMMA PartsExist ==
  ASSUME NEW f, NEW S, IsFiniteSet(S)
  PROVE  \A s \in SUBSET S : Parts(f, S)[s] = PartSum(f, Parts(f, S), s)
<1> DEFINE G == {n \in Nat : \E g : \A s \in SUBSET S : Cardinality(s) <= n => g[s] = PartSum(f, g, s)}
<1>1. \A s \in SUBSET S : IsFiniteSet(s) /\ Cardinality(s) \in Nat
  BY FS_Subset, FS_CardinalityType
<1>2. 0 \in G
  <2>1. PICK g : g = [s \in SUBSET S |-> 0]
    OBVIOUS
  <2>2. ASSUME NEW s \in SUBSET S, Cardinality(s) <= 0 PROVE g[s] = PartSum(f, g, s)
    BY <1>1, <2>1, <2>2, FS_EmptySet DEF PartSum
  <2>3. QED
    BY <2>2
<1>3. ASSUME NEW n \in Nat, n \in G PROVE n + 1 \in G
  <2>1. PICK h : \A s \in SUBSET S : Cardinality(s) <= n => h[s] = PartSum(f, h, s)
    BY <1>3
  <2>2. PICK g : g = [s \in SUBSET S |-> IF Cardinality(s) <= n THEN h[s] ELSE PartSum(f, h, s)]
    OBVIOUS
  <2>3. ASSUME NEW s \in SUBSET S, Cardinality(s) <= n + 1 PROVE g[s] = PartSum(f, g, s)
    <3>1. CASE s = {}
      BY <2>1, <2>2, <3>1 DEF PartSum
    <3>2. CASE s # {}
      <4>1. PICK x : x = Taken(s)
        OBVIOUS
      <4>2. x \in s
        BY <3>2, <4>1 DEF Taken
      <4>3. PICK r : r = s \ {x}
        OBVIOUS
      <4>4. r \in SUBSET S /\ Cardinality(r) <= n
        <5>1. r \in SUBSET S /\ IsFiniteSet(s) /\ Cardinality(s) \in Nat
          BY <1>1, <4>3
        <5>2. Cardinality(r) = Cardinality(s) - 1
          BY <4>2, <4>3, <5>1, FS_RemoveElement
        <5>3. QED
          BY <2>3, <5>1, <5>2
      <4>5. g[r] = h[r]
        BY <2>2, <4>4
      <4>6. PartSum(f, g, s) = f[x] + g[r] /\ PartSum(f, h, s) = f[x] + h[r]
        BY <3>2, <4>1, <4>3 DEF PartSum
      <4>7. g[s] = PartSum(f, h, s)
        BY <2>1, <2>2
      <4>8. QED
        BY <4>5, <4>6, <4>7
    <3>3. QED
      BY <3>1, <3>2
  <2>4. QED
    BY <2>3
<1>4. Cardinality(S) \in G
  <2> HIDE DEF G
  <2>1. Nat \subseteq G
    BY <1>2, <1>3, SetOfNumbers
  <2>2. QED
    BY <2>1, <1>1
<1>5. PICK h : \A s \in SUBSET S : Cardinality(s) <= Cardinality(S) => h[s] = PartSum(f, h, s)
  BY <1>4
<1>6. PICK g : g = [s \in SUBSET S |-> h[s]]
  OBVIOUS
<1>7. ASSUME NEW s \in SUBSET S PROVE g[s] = PartSum(f, g, s)
  <2>1. g[s] = PartSum(f, h, s)
    BY <1>5, <1>6, FS_Subset
  <2>2. CASE s = {}
    BY <2>1, <2>2 DEF PartSum
  <2>3. CASE s # {}
    <3>1. PICK x : x = Taken(s)
      OBVIOUS
    <3>2. g[s \ {x}] = h[s \ {x}]
      BY <1>6
    <3>3. QED
      BY <2>1, <2>3, <3>1, <3>2 DEF PartSum
  <2>4. QED
    BY <2>2, <2>3
<1>8. g = [s \in SUBSET S |-> PartSum(f, g, s)]
  BY <1>6, <1>7
<1>9. \E k : k = [s \in SUBSET S |-> PartSum(f, k, s)]
  BY <1>8
<1>10. Parts(f, S) = [s \in SUBSET S |-> PartSum(f, Parts(f, S), s)]
  BY <1>9, Zenon DEF Parts
<1>11. PICK k : k = Parts(f, S)
  OBVIOUS
<1>12. k = [s \in SUBSET S |-> PartSum(f, k, s)]
  BY <1>10, <1>11
<1>13. \A s \in SUBSET S : k[s] = PartSum(f, k, s)
  BY <1>12
<1>14. QED
  BY <1>11, <1>13

\* Induction over the subsets of a finite set.
LEMMA SubsetInduction ==
  ASSUME NEW S, IsFiniteSet(S), NEW G,
         \A T \in SUBSET S : (\A U \in SUBSET T : U # T => U \in G) => T \in G
  PROVE  S \in G
<1>1. SUFFICES ASSUME S \notin G PROVE FALSE
  OBVIOUS
<1>2. \A T \in SUBSET S : IsFiniteSet(T) /\ Cardinality(T) \in Nat
  BY FS_Subset, FS_CardinalityType
<1>3. PICK sizes : sizes = {Cardinality(T) : T \in (SUBSET S) \ G}
  OBVIOUS
<1>4. sizes \in SUBSET Nat /\ sizes # {}
  BY <1>1, <1>2, <1>3
<1>5. PICK n \in sizes : \A m \in sizes : n <= m
  BY <1>4, LeastNumber
<1>6. PICK T \in (SUBSET S) \ G : Cardinality(T) = n
  BY <1>3, <1>5
<1>7. ASSUME NEW U \in SUBSET T, U # T, U \notin G PROVE FALSE
  <2>1. U \in (SUBSET S) \ G
    BY <1>7
  <2>2. Cardinality(U) \in sizes
    BY <1>3, <2>1
  <2>3. Cardinality(U) <= Cardinality(T) /\ Cardinality(U) # Cardinality(T)
    BY <1>2, <1>7, FS_Subset
  <2>4. QED
    BY <1>2, <1>5, <1>6, <2>1, <2>2, <2>3
<1>8. QED
  BY <1>6, <1>7

\* A part of a set is summed the same within any set that has it.
LEMMA PartsAgree ==
  ASSUME NEW f, NEW S, IsFiniteSet(S), NEW T \in SUBSET S
  PROVE  Parts(f, S)[T] = Parts(f, T)[T]
<1> DEFINE G == {s \in SUBSET T : Parts(f, S)[s] = Parts(f, T)[s]}
<1>1. IsFiniteSet(T)
  BY FS_Subset
<1>2. \A s \in SUBSET T : /\ Parts(f, S)[s] = PartSum(f, Parts(f, S), s)
                          /\ Parts(f, T)[s] = PartSum(f, Parts(f, T), s)
  BY <1>1, PartsExist
<1>3. ASSUME NEW s \in SUBSET T, \A u \in SUBSET s : u # s => u \in G PROVE s \in G
  <2>1. CASE s = {}
    BY <1>2, <2>1 DEF PartSum
  <2>2. CASE s # {}
    <3>1. PICK x : x = Taken(s)
      OBVIOUS
    <3>2. s \ {x} \in G
      BY <1>3, <2>2, <3>1 DEF Taken
    <3>3. QED
      BY <1>2, <2>2, <3>1, <3>2 DEF PartSum
  <2>3. QED
    BY <2>1, <2>2
<1>4. T \in G
  <2> HIDE DEF G
  <2>1. QED
    BY <1>1, <1>3, SubsetInduction
<1>5. QED
  BY <1>4

\* The sum over nothing.
LEMMA SumEmpty ==
  ASSUME NEW f
  PROVE  SumFunctionOnSet(f, {}) = 0
  BY SumIsParts, PartsExist, FS_EmptySet DEF PartSum

\* The first element, and the sum over the rest.
LEMMA SumFirst ==
  ASSUME NEW f, NEW S, IsFiniteSet(S), S # {}, NEW x, x = Taken(S)
  PROVE  x \in S /\ SumFunctionOnSet(f, S) = f[x] + SumFunctionOnSet(f, S \ {x})
<1>1. x \in S /\ S \ {x} \in SUBSET S /\ S \in SUBSET S
  BY DEF Taken
<1>2. Parts(f, S)[S] = f[x] + Parts(f, S)[S \ {x}]
  BY <1>1, PartsExist DEF PartSum
<1>3. Parts(f, S)[S \ {x}] = Parts(f, S \ {x})[S \ {x}]
  BY <1>1, PartsAgree
<1>4. QED
  BY <1>1, <1>2, <1>3, SumIsParts

\* The sum of whole numbers is one, that of numbers is not negative.
LEMMA SumType ==
  ASSUME NEW S, IsFiniteSet(S), NEW f, \A x \in S : f[x] \in Int
  PROVE  /\ SumFunctionOnSet(f, S) \in Int
         /\ (\A x \in S : f[x] >= 0) => SumFunctionOnSet(f, S) >= 0
<1> DEFINE G == {T \in SUBSET S : /\ SumFunctionOnSet(f, T) \in Int
                                  /\ (\A x \in T : f[x] >= 0) => SumFunctionOnSet(f, T) >= 0}
<1>1. ASSUME NEW T \in SUBSET S, \A U \in SUBSET T : U # T => U \in G PROVE T \in G
  <2>1. CASE T = {}
    BY <2>1, SumEmpty
  <2>2. CASE T # {}
    <3>1. IsFiniteSet(T)
      BY FS_Subset
    <3>2. PICK x : x = Taken(T)
      OBVIOUS
    <3>3. x \in T /\ SumFunctionOnSet(f, T) = f[x] + SumFunctionOnSet(f, T \ {x})
      BY <2>2, <3>1, <3>2, SumFirst
    <3>4. T \ {x} \in G
      BY <1>1, <3>3
    <3>5. QED
      BY <3>3, <3>4
  <2>3. QED
    BY <2>1, <2>2
<1>2. S \in G
  <2> HIDE DEF G
  <2>1. QED
    BY <1>1, SubsetInduction
<1>3. QED
  BY <1>2

\* Taken element may be taken out of a sum.
LEMMA SumTakes ==
  ASSUME NEW S, IsFiniteSet(S), NEW f, \A y \in S : f[y] \in Int, NEW x \in S
  PROVE  SumFunctionOnSet(f, S) = f[x] + SumFunctionOnSet(f, S \ {x})
<1> DEFINE G == {T \in SUBSET S : \A y \in T : SumFunctionOnSet(f, T) = f[y] + SumFunctionOnSet(f, T \ {y})}
<1>1. ASSUME NEW T \in SUBSET S, \A U \in SUBSET T : U # T => U \in G PROVE T \in G
  <2>1. SUFFICES ASSUME NEW y \in T PROVE SumFunctionOnSet(f, T) = f[y] + SumFunctionOnSet(f, T \ {y})
    OBVIOUS
  <2>2. IsFiniteSet(T)
    BY FS_Subset
  <2>3. PICK c : c = Taken(T)
    OBVIOUS
  <2>4. c \in T /\ SumFunctionOnSet(f, T) = f[c] + SumFunctionOnSet(f, T \ {c})
    BY <2>2, <2>3, SumFirst
  <2>5. CASE y = c
    BY <2>4, <2>5
  <2>6. CASE y # c
    <3>1. PICK left : left = T \ {c, y}
      OBVIOUS
    <3>2. left = (T \ {c}) \ {y} /\ left = (T \ {y}) \ {c}
      BY <3>1
    <3>3. T \ {c} \in G /\ T \ {y} \in G
      BY <1>1, <2>4
    <3>4. /\ SumFunctionOnSet(f, T \ {c}) = f[y] + SumFunctionOnSet(f, left)
          /\ SumFunctionOnSet(f, T \ {y}) = f[c] + SumFunctionOnSet(f, left)
      BY <2>4, <2>6, <3>2, <3>3
    <3>5. SumFunctionOnSet(f, left) \in Int /\ f[c] \in Int /\ f[y] \in Int
      BY <2>2, <2>4, <3>1, FS_Subset, SumType
    <3>6. QED
      BY <2>4, <3>4, <3>5
  <2>7. QED
    BY <2>5, <2>6
<1>2. S \in G
  <2> HIDE DEF G
  <2>1. QED
    BY <1>1, SubsetInduction
<1>3. QED
  BY <1>2

\* Sums add up, and only the summed values count.
LEMMA SumAdds ==
  ASSUME NEW S, IsFiniteSet(S), NEW f, NEW g, NEW h,
         \A x \in S : f[x] \in Int /\ g[x] \in Int /\ h[x] = f[x] + g[x]
  PROVE  SumFunctionOnSet(h, S) = SumFunctionOnSet(f, S) + SumFunctionOnSet(g, S)
<1> DEFINE G == {T \in SUBSET S : SumFunctionOnSet(h, T) = SumFunctionOnSet(f, T) + SumFunctionOnSet(g, T)}
<1>1. ASSUME NEW T \in SUBSET S, \A U \in SUBSET T : U # T => U \in G PROVE T \in G
  <2>1. CASE T = {}
    BY <2>1, SumEmpty
  <2>2. CASE T # {}
    <3>1. IsFiniteSet(T)
      BY FS_Subset
    <3>2. PICK x : x = Taken(T)
      OBVIOUS
    <3>3. x \in T /\ SumFunctionOnSet(f, T) = f[x] + SumFunctionOnSet(f, T \ {x})
      BY <2>2, <3>1, <3>2, SumFirst
    <3>4. SumFunctionOnSet(g, T) = g[x] + SumFunctionOnSet(g, T \ {x})
      BY <2>2, <3>1, <3>2, SumFirst
    <3>5. SumFunctionOnSet(h, T) = h[x] + SumFunctionOnSet(h, T \ {x})
      BY <2>2, <3>1, <3>2, SumFirst
    <3>6. T \ {x} \in G
      BY <1>1, <3>3
    <3>7. IsFiniteSet(T \ {x})
      BY <3>1, FS_Subset
    <3>8. SumFunctionOnSet(f, T \ {x}) \in Int /\ SumFunctionOnSet(g, T \ {x}) \in Int
      BY <3>7, SumType
    <3>9. QED
      BY <3>3, <3>4, <3>5, <3>6, <3>8
  <2>3. QED
    BY <2>1, <2>2
<1>2. S \in G
  <2> HIDE DEF G
  <2>1. QED
    BY <1>1, SubsetInduction
<1>3. QED
  BY <1>2

\* Functions with the same values have the same sum.
LEMMA SumSame ==
  ASSUME NEW S, IsFiniteSet(S), NEW f, NEW g, \A x \in S : f[x] \in Int /\ f[x] = g[x]
  PROVE  SumFunctionOnSet(f, S) = SumFunctionOnSet(g, S)
<1>1. PICK none : none = [x \in S |-> 0]
  OBVIOUS
<1>2. \A x \in S : f[x] \in Int /\ none[x] \in Int /\ f[x] = f[x] + none[x] /\ g[x] = f[x] + none[x]
  BY <1>1
<1>3. /\ SumFunctionOnSet(f, S) = SumFunctionOnSet(f, S) + SumFunctionOnSet(none, S)
      /\ SumFunctionOnSet(g, S) = SumFunctionOnSet(f, S) + SumFunctionOnSet(none, S)
  BY <1>2, SumAdds
<1>4. QED
  BY <1>3

\* A sum of zeros.
LEMMA SumNothing ==
  ASSUME NEW S, IsFiniteSet(S), NEW f, \A x \in S : f[x] = 0
  PROVE  SumFunctionOnSet(f, S) = 0
<1>1. SumFunctionOnSet(f, S) = SumFunctionOnSet(f, S) + SumFunctionOnSet(f, S)
  <2>1. \A x \in S : f[x] \in Int /\ f[x] = f[x] + f[x]
    OBVIOUS
  <2>2. QED
    BY <2>1, SumAdds
<1>2. PICK s : s = SumFunctionOnSet(f, S)
  OBVIOUS
<1>3. s \in Int /\ s = s + s
  <2>1. s \in Int
    BY <1>2, SumType
  <2>2. QED
    BY <1>1, <1>2, <2>1
<1>4. s = 0
  BY <1>3
<1>5. QED
  BY <1>2, <1>4

\* A sum follows the change of one of its values.
LEMMA SumChanges ==
  ASSUME NEW S, IsFiniteSet(S), NEW f, NEW g, NEW x \in S,
         \A y \in S : f[y] \in Int, g[x] \in Int, \A y \in S \ {x} : g[y] = f[y]
  PROVE  SumFunctionOnSet(g, S) = SumFunctionOnSet(f, S) - f[x] + g[x]
<1>1. IsFiniteSet(S \ {x}) /\ \A y \in S : g[y] \in Int
  BY FS_Subset
<1>2. PICK T : T = S \ {x}
  OBVIOUS
<1>3. SumFunctionOnSet(f, T) = SumFunctionOnSet(g, T) /\ SumFunctionOnSet(f, T) \in Int
  <2>1. IsFiniteSet(T) /\ \A y \in T : f[y] \in Int /\ f[y] = g[y]
    BY <1>1, <1>2
  <2>2. QED
    BY <2>1, SumSame, SumType
<1>4. SumFunctionOnSet(f, S) = f[x] + SumFunctionOnSet(f, T)
  BY <1>2, SumTakes
<1>5. SumFunctionOnSet(g, S) = g[x] + SumFunctionOnSet(g, T)
  BY <1>1, <1>2, SumTakes
<1>6. f[x] \in Int
  OBVIOUS
<1>7. QED
  BY <1>3, <1>4, <1>5, <1>6

\* Where no value is more, neither is the sum.
LEMMA SumLeast ==
  ASSUME NEW S, IsFiniteSet(S), NEW f, NEW g, \A x \in S : f[x] \in Int /\ g[x] \in Int /\ f[x] <= g[x]
  PROVE  SumFunctionOnSet(f, S) <= SumFunctionOnSet(g, S)
<1>1. PICK d : d = [x \in S |-> g[x] - f[x]]
  OBVIOUS
<1>2. \A x \in S : f[x] \in Int /\ d[x] \in Int /\ g[x] = f[x] + d[x] /\ d[x] >= 0
  BY <1>1
<1>3. SumFunctionOnSet(g, S) = SumFunctionOnSet(f, S) + SumFunctionOnSet(d, S)
  BY <1>2, SumAdds
<1>4. SumFunctionOnSet(f, S) \in Int
  BY <1>2, SumType
<1>5. SumFunctionOnSet(d, S) \in Int /\ SumFunctionOnSet(d, S) >= 0
  BY <1>2, SumType
<1>6. QED
  BY <1>3, <1>4, <1>5

\* No value is more than the sum, and a sum that is not zero has one.
LEMMA SumCovers ==
  ASSUME NEW S, IsFiniteSet(S), NEW f, \A x \in S : f[x] \in Nat
  PROVE  /\ SumFunctionOnSet(f, S) \in Nat
         /\ \A x \in S : f[x] <= SumFunctionOnSet(f, S)
         /\ SumFunctionOnSet(f, S) > 0 => \E x \in S : f[x] > 0
<1>1. SumFunctionOnSet(f, S) \in Nat
  <2>1. \A x \in S : f[x] \in Int /\ f[x] >= 0
    OBVIOUS
  <2>2. QED
    BY <2>1, SumType
<1>2. ASSUME NEW x \in S PROVE f[x] <= SumFunctionOnSet(f, S)
  <2>1. PICK T : T = S \ {x}
    OBVIOUS
  <2>2. \A y \in S : f[y] \in Int
    OBVIOUS
  <2>3. SumFunctionOnSet(f, S) = f[x] + SumFunctionOnSet(f, T)
    BY <2>1, <2>2, SumTakes
  <2>4. IsFiniteSet(T) /\ \A y \in T : f[y] \in Int /\ f[y] >= 0
    BY <2>1, FS_Subset
  <2>5. SumFunctionOnSet(f, T) \in Int /\ SumFunctionOnSet(f, T) >= 0
    BY <2>4, SumType
  <2>6. QED
    BY <2>3, <2>5
<1>3. ASSUME ~\E x \in S : f[x] > 0 PROVE SumFunctionOnSet(f, S) = 0
  BY <1>3, SumNothing
<1>4. QED
  BY <1>1, <1>2, <1>3

-----------------------------------------------------------------------------
(* Resource cards: the bank and the hands always add up to the cards of    *)
(* the game.                                                               *)

\* What every player holds of a resource.
Column(hd, x) == [q \in Players |-> hd[q][x]]

\* Nobody owes cards, and none is lost or made.
Balanced(bk, hd) ==
  /\ bk \in Bags /\ hd \in [Players -> Bags]
  /\ \A x \in Resources : bk[x] + SumFunctionOnSet(Column(hd, x), Players) = BankSize

\* The sum of a function over its domain.
LEMMA SumOverDomain ==
  ASSUME NEW S, NEW f, DOMAIN f = S
  PROVE  SumFunction(f) = SumFunctionOnSet(f, S)
  BY DEF SumFunction

\* The sum of a column is a number, and no player has more than it.
LEMMA ColumnFacts ==
  ASSUME NEW hd \in [Players -> Bags], NEW x \in Resources
  PROVE  /\ \A q \in Players : Column(hd, x)[q] = hd[q][x] /\ hd[q][x] \in Nat
         /\ SumFunctionOnSet(Column(hd, x), Players) \in Nat
         /\ \A q \in Players : hd[q][x] <= SumFunctionOnSet(Column(hd, x), Players)
<1>1. PICK col : col = Column(hd, x)
  OBVIOUS
<1>2. \A q \in Players : col[q] = hd[q][x] /\ hd[q][x] \in Nat
  BY <1>1 DEF Column, Bags
<1>3. IsFiniteSet(Players) /\ \A q \in Players : col[q] \in Nat
  BY <1>2, BoardAssumption DEF BoardAssumption
<1>4. /\ SumFunctionOnSet(col, Players) \in Nat
      /\ \A q \in Players : col[q] <= SumFunctionOnSet(col, Players)
  BY <1>3, SumCovers
<1>5. QED
  BY <1>1, <1>2, <1>4

\* The sum over the players follows the change of one of them.
LEMMA ColumnChanges ==
  ASSUME NEW f, NEW g, NEW p \in Players,
         \A y \in Players : f[y] \in Int, g[p] \in Int, \A y \in Players \ {p} : g[y] = f[y]
  PROVE  SumFunctionOnSet(g, Players) = SumFunctionOnSet(f, Players) - f[p] + g[p]
<1>1. IsFiniteSet(Players)
  BY BoardAssumption DEF BoardAssumption
<1>2. QED
  BY <1>1, SumChanges

\* Cards that go from one hand to the bank, or back.
LEMMA PaysBalance ==
  ASSUME NEW bk, NEW hd, Balanced(bk, hd), NEW p \in Players, NEW b \in Bags, NEW h \in Bags,
         \A x \in Resources : b[x] + h[x] = bk[x] + hd[p][x]
  PROVE  Balanced(b, [hd EXCEPT ![p] = h])
<1>1. PICK hn : hn = [hd EXCEPT ![p] = h]
  OBVIOUS
<1>2. hd \in [Players -> Bags] /\ hn \in [Players -> Bags] /\ bk \in Bags
  BY <1>1 DEF Balanced
<1>3. hn[p] = h /\ \A q \in Players \ {p} : hn[q] = hd[q]
  BY <1>1, <1>2
<1>4. ASSUME NEW x \in Resources
      PROVE  b[x] + SumFunctionOnSet(Column(hn, x), Players) = BankSize
  <2>1. PICK col, new : col = Column(hd, x) /\ new = Column(hn, x)
    OBVIOUS
  <2>2. /\ \A q \in Players : col[q] \in Int
        /\ new[p] = h[x] /\ new[p] \in Int /\ col[p] = hd[p][x]
        /\ \A q \in Players \ {p} : new[q] = col[q]
    BY <1>2, <1>3, <2>1, ColumnFacts DEF Bags, Column
  <2>3. SumFunctionOnSet(new, Players) = SumFunctionOnSet(col, Players) - col[p] + new[p]
    BY <2>2, ColumnChanges
  <2>4. SumFunctionOnSet(col, Players) \in Nat /\ bk[x] + SumFunctionOnSet(col, Players) = BankSize
    BY <1>2, <2>1, ColumnFacts DEF Balanced
  <2>5. b[x] \in Nat /\ h[x] \in Nat /\ bk[x] \in Nat /\ hd[p][x] \in Nat /\ b[x] + h[x] = bk[x] + hd[p][x]
    BY <1>2 DEF Bags
  <2>6. QED
    BY <2>1, <2>2, <2>3, <2>4, <2>5
<1>5. Balanced(b, hn)
  BY <1>2, <1>4 DEF Balanced
<1>6. QED
  BY <1>1, <1>5

\* Cards that go from one hand to another.
LEMMA SwapsBalance ==
  ASSUME NEW bk, NEW hd, Balanced(bk, hd), NEW p \in Players, NEW q \in Players, p # q,
         NEW h \in Bags, NEW k \in Bags, \A x \in Resources : h[x] + k[x] = hd[p][x] + hd[q][x]
  PROVE  Balanced(bk, [hd EXCEPT ![p] = h, ![q] = k])
<1>1. PICK mid : mid = [hd EXCEPT ![p] = h]
  OBVIOUS
<1>2. PICK hn : hn = [hd EXCEPT ![p] = h, ![q] = k]
  OBVIOUS
<1>3. hd \in [Players -> Bags] /\ mid \in [Players -> Bags] /\ hn \in [Players -> Bags] /\ bk \in Bags
  BY <1>1, <1>2 DEF Balanced
<1>4. /\ mid[p] = h /\ \A o \in Players \ {p} : mid[o] = hd[o]
      /\ hn[q] = k /\ \A o \in Players \ {q} : hn[o] = mid[o]
  BY <1>1, <1>2, <1>3
<1>5. ASSUME NEW x \in Resources
      PROVE  bk[x] + SumFunctionOnSet(Column(hn, x), Players) = BankSize
  <2>1. PICK c1, c2, c3 : c1 = Column(hd, x) /\ c2 = Column(mid, x) /\ c3 = Column(hn, x)
    OBVIOUS
  <2>2. /\ \A o \in Players : c1[o] \in Int
        /\ c2[p] = h[x] /\ c2[p] \in Int /\ c1[p] = hd[p][x]
        /\ \A o \in Players \ {p} : c2[o] = c1[o]
    BY <1>3, <1>4, <2>1, ColumnFacts DEF Bags, Column
  <2>3. /\ \A o \in Players : c2[o] \in Int
        /\ c3[q] = k[x] /\ c3[q] \in Int /\ c2[q] = hd[q][x]
        /\ \A o \in Players \ {q} : c3[o] = c2[o]
    BY <1>3, <1>4, <2>1, ColumnFacts DEF Bags, Column
  <2>4. SumFunctionOnSet(c2, Players) = SumFunctionOnSet(c1, Players) - c1[p] + c2[p]
    BY <2>2, ColumnChanges
  <2>5. SumFunctionOnSet(c3, Players) = SumFunctionOnSet(c2, Players) - c2[q] + c3[q]
    BY <2>3, ColumnChanges
  <2>6. SumFunctionOnSet(c1, Players) \in Nat /\ bk[x] + SumFunctionOnSet(c1, Players) = BankSize
    BY <1>3, <2>1, ColumnFacts DEF Balanced
  <2>7. /\ h[x] \in Nat /\ k[x] \in Nat /\ hd[p][x] \in Nat /\ hd[q][x] \in Nat /\ bk[x] \in Nat
        /\ h[x] + k[x] = hd[p][x] + hd[q][x]
    BY <1>3 DEF Bags
  <2>8. QED
    BY <2>1, <2>2, <2>3, <2>4, <2>5, <2>6, <2>7
<1>6. Balanced(bk, hn)
  BY <1>3, <1>5 DEF Balanced
<1>7. QED
  BY <1>2, <1>6

\* A price that a hand covers can be paid.
LEMMA Payable ==
  ASSUME NEW h \in Bags, NEW b \in Bags, NEW cost \in Bags, Covers(h, cost)
  PROVE  /\ Minus(h, cost) \in Bags /\ Plus(b, cost) \in Bags
         /\ \A x \in Resources : Plus(b, cost)[x] = b[x] + cost[x] /\ Minus(h, cost)[x] = h[x] - cost[x]
<1>1. \A x \in Resources : h[x] - cost[x] \in Nat /\ b[x] + cost[x] \in Nat
  BY DEF Bags, Covers
<1>2. QED
  BY <1>1 DEF Minus, Plus, Bags

\* A player pays into the bank.
LEMMA PayBalances ==
  ASSUME Balanced(bank, hand), NEW p \in Players, NEW cost \in Bags, Covers(hand[p], cost), Pay(p, cost)
  PROVE  Balanced(bank', hand')
<1>1. PICK bk, hd, h, b : bk = bank /\ hd = hand /\ h = Minus(hand[p], cost) /\ b = Plus(bank, cost)
  OBVIOUS
<1>2. bk \in Bags /\ hd \in [Players -> Bags] /\ Covers(hd[p], cost)
  BY <1>1 DEF Balanced
<1>3. /\ h \in Bags /\ b \in Bags
      /\ \A x \in Resources : b[x] = bk[x] + cost[x] /\ h[x] = hd[p][x] - cost[x]
  <2>1. hd[p] \in Bags
    BY <1>2
  <2>2. QED
    BY <1>1, <1>2, <2>1, Payable
<1>4. \A x \in Resources : b[x] + h[x] = bk[x] + hd[p][x]
  BY <1>2, <1>3 DEF Bags
<1>5. Balanced(b, [hd EXCEPT ![p] = h])
  BY <1>1, <1>3, <1>4, PaysBalance
<1>6. hand' = [hd EXCEPT ![p] = h] /\ bank' = b
  BY <1>1 DEF Pay
<1>7. QED
  BY <1>5, <1>6

\* The bank gives to a player what it has.
LEMMA GrantBalances ==
  ASSUME Balanced(bank, hand), NEW p \in Players, NEW grant \in Bags, Covers(bank, grant),
         hand' = [hand EXCEPT ![p] = Plus(@, grant)], bank' = Minus(bank, grant)
  PROVE  Balanced(bank', hand')
<1>1. PICK bk, hd, h, b : bk = bank /\ hd = hand /\ h = Plus(hand[p], grant) /\ b = Minus(bank, grant)
  OBVIOUS
<1>2. bk \in Bags /\ hd \in [Players -> Bags] /\ Covers(bk, grant)
  BY <1>1 DEF Balanced
<1>3. /\ h \in Bags /\ b \in Bags
      /\ \A x \in Resources : b[x] = bk[x] - grant[x] /\ h[x] = hd[p][x] + grant[x]
  <2>1. hd[p] \in Bags
    BY <1>2
  <2>2. QED
    BY <1>1, <1>2, <2>1, Payable
<1>4. \A x \in Resources : b[x] + h[x] = bk[x] + hd[p][x]
  BY <1>2, <1>3 DEF Bags
<1>5. Balanced(b, [hd EXCEPT ![p] = h])
  BY <1>1, <1>3, <1>4, PaysBalance
<1>6. hand' = [hd EXCEPT ![p] = h] /\ bank' = b
  BY <1>1
<1>7. QED
  BY <1>5, <1>6

\* The lesser of two numbers.
LEMMA MinOfTwo ==
  ASSUME NEW a \in Int, NEW b \in Int
  PROVE  Min({a, b}) = IF a <= b THEN a ELSE b
<1>1. \E x \in {a, b} : \A y \in {a, b} : x <= y
  OBVIOUS
<1>2. PICK m : m = Min({a, b})
  OBVIOUS
<1>3. m \in {a, b} /\ \A y \in {a, b} : m <= y
  BY <1>1, <1>2 DEF Min
<1>4. QED
  BY <1>2, <1>3

\* A set of tiles, of vertices or of players is finite, and its size a number.
LEMMA SizeFacts ==
  ASSUME NEW T, T \subseteq Tiles \/ T \subseteq Vertices \/ T \subseteq Players
  PROVE  IsFiniteSet(T) /\ Cardinality(T) \in Nat
<1>1. IsFiniteSet(Tiles) /\ IsFiniteSet(Vertices) /\ IsFiniteSet(Players)
  BY BoardAssumption DEF BoardAssumption
<1>2. IsFiniteSet(T)
  BY <1>1, FS_Subset
<1>3. QED
  BY <1>2, FS_CardinalityType

\* The bank has what a settlement of the setup brings.
LEMMA GrantFits ==
  ASSUME NEW v, NEW bk \in Bags
  PROVE  StartingGrant(v, bk) \in Bags /\ Covers(bk, StartingGrant(v, bk))
<1>1. PICK grant : grant = StartingGrant(v, bk)
  OBVIOUS
<1>2. ASSUME NEW x \in Resources
      PROVE  grant[x] \in Nat /\ grant[x] <= bk[x]
  <2>1. PICK n : n = Cardinality({t \in Tiles : v \in t.at /\ t.resource = x})
    OBVIOUS
  <2>2. n \in Nat /\ bk[x] \in Nat
    BY <2>1, SizeFacts DEF Bags
  <2>3. PICK m : m = bk[x]
    OBVIOUS
  <2>4. grant[x] = Min({m, n})
    BY <1>1, <2>1, <2>3 DEF StartingGrant
  <2>5. QED
    BY <2>2, <2>3, <2>4, MinOfTwo
<1>3. grant = [x \in Resources |-> grant[x]]
  BY <1>1 DEF StartingGrant
<1>4. grant \in Bags /\ Covers(bk, grant)
  BY <1>2, <1>3 DEF Bags, Covers
<1>5. QED
  BY <1>1, <1>4

\* What a player may ask of a roll is a number.
LEMMA DemandType ==
  ASSUME NEW b, NEW rb, NEW total, NEW p, NEW x
  PROVE  Demand(b, rb, total, p, x) \in Nat
<1>1. PICK T : T = {u \in Tiles \ {rb} : u.number = total /\ u.resource = x}
  OBVIOUS
<1>2. PICK f : f = [t \in T |-> Yield(b, p, t)]
  OBVIOUS
<1>3. ASSUME NEW t \in T PROVE f[t] \in Nat
  <2>1. PICK m, n : /\ m = Cardinality({v \in t.at : b[v] = Building(p, "SETTLEMENT")})
                    /\ n = Cardinality({v \in t.at : b[v] = Building(p, "CITY")})
    OBVIOUS
  <2>2. t.at \subseteq Vertices
    BY <1>1, BoardAssumption DEF BoardAssumption
  <2>3. m \in Nat /\ n \in Nat
    BY <2>1, <2>2, SizeFacts
  <2>4. f[t] = m + 2 * n
    BY <1>2, <2>1 DEF Yield
  <2>5. QED
    BY <2>3, <2>4
<1>4. IsFiniteSet(T)
  BY <1>1, SizeFacts
<1>5. SumFunctionOnSet(f, T) \in Nat
  BY <1>3, <1>4, SumCovers
<1>6. SumFunction(f) = SumFunctionOnSet(f, T)
  BY <1>2, SumOverDomain
<1>7. Demand(b, rb, total, p, x) = SumFunction(f)
  BY <1>1, <1>2 DEF Demand
<1>8. QED
  BY <1>5, <1>6, <1>7

\* The bank has what a roll brings: where it cannot pay everybody, it pays
\* what it has left to the only one entitled, or nobody.
LEMMA ProducedFits ==
  ASSUME NEW b, NEW rb, NEW bk \in Bags, NEW total
  PROVE  \E y \in [Players -> Bags] :
           /\ y = Produced(b, rb, bk, total)
           /\ \A x \in Resources : SumFunctionOnSet(Column(y, x), Players) <= bk[x]
<1>1. PICK d : d = [x \in Resources |-> [p \in Players |-> Demand(b, rb, total, p, x)]]
  OBVIOUS
<1>2. \A x \in Resources : d[x] \in [Players -> Nat] /\ DOMAIN d[x] = Players
  BY <1>1, DemandType
<1>3. PICK y : y = [p \in Players |-> [x \in Resources |->
                      IF SumFunction(d[x]) <= bk[x] THEN d[x][p]
                      ELSE IF Cardinality({o \in Players : d[x][o] > 0}) = 1 THEN Min({d[x][p], bk[x]}) ELSE 0]]
  OBVIOUS
<1>4. y = Produced(b, rb, bk, total)
  BY <1>1, <1>3 DEF Produced
<1>5. ASSUME NEW x \in Resources
      PROVE  /\ \A p \in Players : y[p][x] \in Nat
             /\ SumFunctionOnSet(Column(y, x), Players) <= bk[x]
  <2>1. PICK f, m, col : f = d[x] /\ m = bk[x] /\ col = Column(y, x)
    OBVIOUS
  <2>2. m \in Nat /\ f \in [Players -> Nat] /\ SumFunction(f) = SumFunctionOnSet(f, Players)
    BY <1>2, <2>1, SumOverDomain DEF Bags
  <2>3. /\ IsFiniteSet(Players)
        /\ SumFunctionOnSet(f, Players) \in Nat /\ \A p \in Players : f[p] <= SumFunctionOnSet(f, Players)
    BY <2>2, SizeFacts, SumCovers
  <2>4. \A p \in Players : /\ col[p] = y[p][x]
                           /\ y[p][x] = IF SumFunction(f) <= m THEN f[p]
                                        ELSE IF Cardinality({o \in Players : f[o] > 0}) = 1 THEN Min({f[p], m})
                                        ELSE 0
    BY <1>3, <2>1 DEF Column
  <2>5. CASE SumFunction(f) <= m
    <3>1. \A p \in Players : f[p] \in Int /\ f[p] = col[p] /\ y[p][x] = f[p]
      BY <2>2, <2>4, <2>5
    <3>2. SumFunctionOnSet(f, Players) = SumFunctionOnSet(col, Players)
      BY <2>3, <3>1, SumSame
    <3>3. QED
      BY <2>1, <2>2, <2>5, <3>1, <3>2
  <2>6. CASE ~(SumFunction(f) <= m) /\ Cardinality({o \in Players : f[o] > 0}) = 1
    <3>1. \A p \in Players : col[p] = Min({f[p], m}) /\ y[p][x] = col[p]
      BY <2>4, <2>6
    <3>2. \A p \in Players : col[p] \in Nat /\ col[p] <= m /\ col[p] <= f[p]
      <4> TAKE p \in Players
      <4>1. f[p] \in Int /\ m \in Int
        BY <2>2
      <4>2. Min({f[p], m}) = IF f[p] <= m THEN f[p] ELSE m
        BY <4>1, MinOfTwo
      <4>3. QED
        BY <2>2, <3>1, <4>2
    <3>3. PICK q : {o \in Players : f[o] > 0} = {q}
      <4>1. IsFiniteSet({o \in Players : f[o] > 0})
        BY SizeFacts
      <4>2. QED
        BY <2>6, <4>1, FS_Singleton
    <3>4. q \in Players /\ \A p \in Players \ {q} : col[p] = 0
      BY <2>2, <3>2, <3>3
    <3>5. PICK none : none = [p \in Players |-> 0]
      OBVIOUS
    <3>6. SumFunctionOnSet(none, Players) = 0
      BY <2>3, <3>5, SumNothing
    <3>7. \A p \in Players : none[p] \in Int
      BY <3>5
    <3>8. none[q] = 0 /\ col[q] \in Int /\ \A p \in Players \ {q} : col[p] = none[p]
      BY <3>2, <3>4, <3>5
    <3>9. SumFunctionOnSet(col, Players) = SumFunctionOnSet(none, Players) - none[q] + col[q]
      BY <3>4, <3>7, <3>8, ColumnChanges
    <3>10. SumFunctionOnSet(col, Players) <= m
      BY <2>2, <3>2, <3>4, <3>6, <3>8, <3>9
    <3>11. QED
      BY <2>1, <3>1, <3>2, <3>10
  <2>7. CASE ~(SumFunction(f) <= m) /\ Cardinality({o \in Players : f[o] > 0}) # 1
    <3>1. \A p \in Players : col[p] = 0 /\ y[p][x] = 0
      BY <2>4, <2>7
    <3>2. SumFunctionOnSet(col, Players) = 0
      BY <2>3, <3>1, SumNothing
    <3>3. QED
      BY <2>1, <2>2, <3>1, <3>2
  <2>8. QED
    BY <2>5, <2>6, <2>7
<1>6. y \in [Players -> Bags]
  <2>1. ASSUME NEW p \in Players PROVE y[p] \in Bags
    BY <1>3, <1>5 DEF Bags
  <2>2. QED
    BY <1>3, <2>1
<1>7. QED
  BY <1>4, <1>5, <1>6

\* A roll moves cards from the bank to the hands.
LEMMA RollBalances ==
  ASSUME Balanced(bank, hand), NEW p, NEW total, RollDice(p, total)
  PROVE  Balanced(bank', hand')
<1>1. CASE hand' = hand /\ bank' = bank
  BY <1>1
<1>2. CASE ~(hand' = hand /\ bank' = bank)
  <2>1. PICK bk, hd : bk = bank /\ hd = hand
    OBVIOUS
  <2>2. bk \in Bags /\ hd \in [Players -> Bags]
    BY <2>1 DEF Balanced
  <2>3. PICK y \in [Players -> Bags] :
          /\ y = Produced(buildings, robber, bk, total)
          /\ \A x \in Resources : SumFunctionOnSet(Column(y, x), Players) <= bk[x]
    BY <2>2, ProducedFits
  <2>4. PICK hn : hn = [q \in Players |-> Plus(hd[q], y[q])]
    OBVIOUS
  <2>5. PICK bn : bn = [x \in Resources |-> bk[x] - SumFunction([q \in Players |-> y[q][x]])]
    OBVIOUS
  <2>6. hand' = hn /\ bank' = bn
    BY <1>2, <2>1, <2>3, <2>4, <2>5 DEF RollDice
  <2>7. \A q \in Players, x \in Resources : hn[q][x] = hd[q][x] + y[q][x] /\ hd[q][x] \in Nat /\ y[q][x] \in Nat
    BY <2>2, <2>3, <2>4 DEF Plus, Bags
  <2>8. hn \in [Players -> Bags]
    <3>1. ASSUME NEW q \in Players PROVE hn[q] \in Bags
      <4>1. hn[q] = [x \in Resources |-> hd[q][x] + y[q][x]]
        BY <2>4 DEF Plus
      <4>2. \A x \in Resources : hd[q][x] + y[q][x] \in Nat
        BY <2>7
      <4>3. QED
        BY <4>1, <4>2 DEF Bags
    <3>2. QED
      BY <2>4, <3>1
  <2>9. ASSUME NEW x \in Resources
        PROVE  bn[x] \in Nat /\ bn[x] + SumFunctionOnSet(Column(hn, x), Players) = BankSize
    <3>1. PICK c1, c2, c3 : c1 = Column(hd, x) /\ c2 = Column(y, x) /\ c3 = Column(hn, x)
      OBVIOUS
    <3>2. \A q \in Players : c1[q] \in Int /\ c2[q] \in Int /\ c3[q] = c1[q] + c2[q]
      BY <2>7, <3>1 DEF Column
    <3>3. IsFiniteSet(Players)
      BY SizeFacts
    <3>4. SumFunctionOnSet(c3, Players) = SumFunctionOnSet(c1, Players) + SumFunctionOnSet(c2, Players)
      BY <3>2, <3>3, SumAdds
    <3>5. SumFunction(c2) = SumFunctionOnSet(c2, Players)
      BY <3>1, SumOverDomain DEF Column
    <3>6. bn[x] = bk[x] - SumFunctionOnSet(c2, Players)
      BY <2>5, <3>1, <3>5 DEF Column
    <3>7. bk[x] \in Nat /\ SumFunctionOnSet(c1, Players) \in Nat /\ bk[x] + SumFunctionOnSet(c1, Players) = BankSize
      BY <2>1, <2>2, <3>1, ColumnFacts DEF Balanced, Bags
    <3>8. SumFunctionOnSet(c2, Players) \in Nat /\ SumFunctionOnSet(c2, Players) <= bk[x]
      BY <2>3, <3>1, ColumnFacts
    <3>9. QED
      BY <3>1, <3>4, <3>6, <3>7, <3>8
  <2>10. bn \in Bags
    BY <2>5, <2>9 DEF Bags
  <2>11. Balanced(bn, hn)
    BY <2>8, <2>9, <2>10 DEF Balanced
  <2>12. QED
    BY <2>6, <2>11
<1>3. QED
  BY <1>1, <1>2

\* What a player selects are cards, of those there are.
LEMMA SelectedBags ==
  ASSUME NEW asked, NEW size, NEW bag, NEW b, b \in Selections(asked, size, bag)
  PROVE  b \in Bags /\ Covers(bag, b)
<1>1. b \in [Resources -> 0..size] /\ Covers(bag, b)
  BY DEF Selections
<1>2. \A x \in Resources : b[x] \in Nat
  BY <1>1
<1>3. QED
  BY <1>1, <1>2 DEF Bags

\* A monopoly moves every card of a resource to one hand.
LEMMA MonopolyBalances ==
  ASSUME Balanced(bank, hand), NEW p \in Players, NEW x \in Resources, ChooseMonopoly(p, x)
  PROVE  Balanced(bank', hand')
<1>1. PICK bk, hd : bk = bank /\ hd = hand
  OBVIOUS
<1>2. bk \in Bags /\ hd \in [Players -> Bags]
  BY <1>1 DEF Balanced
<1>3. PICK all : all = SumFunctionOnSet(Column(hd, x), Players)
  OBVIOUS
<1>4. all \in Nat /\ SumFunction([o \in Players |-> hd[o][x]]) = all
  BY <1>2, <1>3, ColumnFacts, SumOverDomain DEF Column
<1>5. PICK hn : hn = [q \in Players |-> [hd[q] EXCEPT ![x] = IF q = p THEN all ELSE 0]]
  OBVIOUS
<1>6. hand' = hn /\ bank' = bk
  BY <1>1, <1>4, <1>5 DEF ChooseMonopoly
<1>7. hn \in [Players -> Bags]
  <2>1. ASSUME NEW q \in Players PROVE hn[q] \in Bags
    BY <1>2, <1>4, <1>5 DEF Bags
  <2>2. QED
    BY <1>5, <2>1
<1>8. ASSUME NEW y \in Resources
      PROVE  bk[y] + SumFunctionOnSet(Column(hn, y), Players) = BankSize
  <2>1. PICK col, new : col = Column(hd, y) /\ new = Column(hn, y)
    OBVIOUS
  <2>2. bk[y] + SumFunctionOnSet(col, Players) = BankSize /\ IsFiniteSet(Players)
    BY <1>1, <2>1, SizeFacts DEF Balanced
  <2>3. CASE y # x
    <3>1. \A q \in Players : col[q] \in Int /\ col[q] = new[q]
      BY <1>2, <1>5, <2>1, <2>3 DEF Column, Bags
    <3>2. SumFunctionOnSet(col, Players) = SumFunctionOnSet(new, Players)
      BY <2>2, <3>1, SumSame
    <3>3. QED
      BY <2>1, <2>2, <3>2
  <2>4. CASE y = x
    <3>1. PICK none : none = [q \in Players |-> 0]
      OBVIOUS
    <3>2. SumFunctionOnSet(none, Players) = 0
      BY <2>2, <3>1, SumNothing
    <3>3. \A q \in Players : new[q] = IF q = p THEN all ELSE 0
      BY <1>2, <1>5, <2>1, <2>4 DEF Column, Bags
    <3>4. /\ \A q \in Players : none[q] \in Int
          /\ none[p] = 0 /\ new[p] = all /\ new[p] \in Int
          /\ \A q \in Players \ {p} : new[q] = none[q]
      BY <1>4, <3>1, <3>3
    <3>5. SumFunctionOnSet(new, Players) = SumFunctionOnSet(none, Players) - none[p] + new[p]
      BY <3>4, ColumnChanges
    <3>6. SumFunctionOnSet(new, Players) = all
      BY <1>4, <3>2, <3>4, <3>5
    <3>7. QED
      BY <1>3, <2>1, <2>2, <2>4, <3>6
  <2>5. QED
    BY <2>3, <2>4
<1>9. Balanced(bk, hn)
  BY <1>2, <1>7, <1>8 DEF Balanced
<1>10. QED
  BY <1>6, <1>9

\* A stolen card goes from one hand to another.
LEMMA StealBalances ==
  ASSUME TurnInvariant, Balanced(bank, hand), NEW p, NEW q \in Players, NEW x \in Resources, StealFrom(p, q, x)
  PROVE  Balanced(bank', hand')
<1>1. /\ pending.type = "CHOOSE_ROBBER_TARGET" /\ winner = None /\ p = pending.actor /\ q # p /\ hand[q][x] > 0
      /\ hand' = [hand EXCEPT ![p][x] = @ + 1, ![q][x] = @ - 1] /\ bank' = bank
  BY DEF StealFrom, AcceptsSteal, Decides
<1>2. p \in Players
  BY <1>1, DecidesFacts DEF TurnInvariant, DecisionFits, RobberFits, DecisionTypes
<1>3. PICK bk, hd : bk = bank /\ hd = hand
  OBVIOUS
<1>4. PICK h, k : h = [hd[p] EXCEPT ![x] = hd[p][x] + 1] /\ k = [hd[q] EXCEPT ![x] = hd[q][x] - 1]
  OBVIOUS
<1>5. bk \in Bags /\ hd \in [Players -> Bags] /\ hd[p] \in Bags /\ hd[q] \in Bags /\ hd[q][x] > 0
  BY <1>1, <1>2, <1>3 DEF Balanced
<1>6. h \in Bags /\ k \in Bags
  BY <1>4, <1>5 DEF Bags
<1>7. \A y \in Resources : h[y] + k[y] = hd[p][y] + hd[q][y]
  <2> TAKE y \in Resources
  <2>1. hd[p][y] \in Nat /\ hd[q][y] \in Nat
    BY <1>5 DEF Bags
  <2>2. /\ h[y] = IF y = x THEN hd[p][y] + 1 ELSE hd[p][y]
        /\ k[y] = IF y = x THEN hd[q][y] - 1 ELSE hd[q][y]
    BY <1>4, <1>5 DEF Bags
  <2>3. QED
    BY <2>1, <2>2
<1>8. hand' = [hd EXCEPT ![p] = h, ![q] = k]
  BY <1>1, <1>2, <1>3, <1>4, <1>5
<1>9. Balanced(bk, [hd EXCEPT ![p] = h, ![q] = k])
  BY <1>1, <1>2, <1>3, <1>6, <1>7, SwapsBalance
<1>10. QED
  BY <1>1, <1>3, <1>8, <1>9

\* A trade with the bank at the ratio of a port.
LEMMA MaritimeBalances ==
  ASSUME Balanced(bank, hand), NEW p \in Players, NEW give \in Resources, NEW get \in Resources,
         MaritimeTrade(p, give, get)
  PROVE  Balanced(bank', hand')
<1>1. PICK bk, hd, ratio : bk = bank /\ hd = hand /\ ratio = MaritimeRatio(buildings, p, give)
  OBVIOUS
<1>2. bk \in Bags /\ hd \in [Players -> Bags] /\ hd[p] \in Bags /\ ratio \in Nat
  BY <1>1, BoardAssumption DEF Balanced, BoardAssumption, MaritimeRatio
<1>3. /\ give # get /\ hd[p][give] >= ratio /\ bk[get] >= 1
      /\ hand' = [hd EXCEPT ![p][give] = @ - ratio, ![p][get] = @ + 1]
      /\ bank' = [bk EXCEPT ![give] = @ + ratio, ![get] = @ - 1]
  BY <1>1 DEF MaritimeTrade, AcceptsMaritime
<1>4. PICK h, b : /\ h = [hd[p] EXCEPT ![give] = hd[p][give] - ratio, ![get] = hd[p][get] + 1]
                  /\ b = [bk EXCEPT ![give] = bk[give] + ratio, ![get] = bk[get] - 1]
  OBVIOUS
<1>5. h \in Bags /\ b \in Bags
  BY <1>2, <1>3, <1>4 DEF Bags
<1>6. \A x \in Resources : b[x] + h[x] = bk[x] + hd[p][x]
  BY <1>2, <1>3, <1>4 DEF Bags
<1>7. hand' = [hd EXCEPT ![p] = h]
  BY <1>2, <1>3, <1>4
<1>8. bank' = b
  BY <1>2, <1>3, <1>4
<1>9. Balanced(b, [hd EXCEPT ![p] = h])
  BY <1>1, <1>5, <1>6, PaysBalance
<1>10. QED
  BY <1>7, <1>8, <1>9

\* An offer asks for something else than it gives, and its author has it.
OfferFits ==
  pending.type = "RESPOND_TO_TRADE" =>
    /\ pending.gives \in Bags /\ pending.gets \in Bags /\ ValidBundles(pending.gives, pending.gets)
    /\ Covers(hand[pending.author], IF pending.depth = 0 THEN pending.gives ELSE pending.gets)

ResourcesFit == Balanced(bank, hand) /\ OfferFits

\* An accepted offer moves both of its sides.
LEMMA AcceptBalances ==
  ASSUME TurnInvariant, ResourcesFit, NEW p, AcceptTrade(p)
  PROVE  Balanced(bank', hand')
<1>1. /\ pending.type = "RESPOND_TO_TRADE" /\ winner = None
      /\ Covers(hand[pending.initiator], pending.gives) /\ Covers(hand[pending.counterparty], pending.gets)
      /\ bank' = bank
  BY DEF AcceptTrade, AcceptsAccept, Responds
<1>2. PICK bk, hd, gives, gets, i, c :
        /\ bk = bank /\ hd = hand /\ gives = pending.gives /\ gets = pending.gets
        /\ i = pending.initiator /\ c = pending.counterparty
  OBVIOUS
<1>3. i \in Players /\ c \in Players /\ i # c
  BY <1>1, <1>2, DecidesFacts DEF TurnInvariant, DecisionFits, TradeFits, DecisionTypes
<1>4. bk \in Bags /\ hd \in [Players -> Bags] /\ hd[i] \in Bags /\ hd[c] \in Bags /\ gives \in Bags /\ gets \in Bags
  BY <1>1, <1>2, <1>3 DEF ResourcesFit, Balanced, OfferFits
<1>5. PICK h, k : h = Plus(Minus(hd[i], gives), gets) /\ k = Plus(Minus(hd[c], gets), gives)
  OBVIOUS
<1>6. \A x \in Resources :
        /\ hd[i][x] \in Nat /\ hd[c][x] \in Nat /\ gives[x] \in Nat /\ gets[x] \in Nat
        /\ hd[i][x] >= gives[x] /\ hd[c][x] >= gets[x]
  BY <1>1, <1>2, <1>4 DEF Covers, Bags
<1>7. \A x \in Resources : h[x] = hd[i][x] - gives[x] + gets[x] /\ k[x] = hd[c][x] - gets[x] + gives[x]
  BY <1>5 DEF Plus, Minus
<1>8. h \in Bags /\ k \in Bags
  <2>1. \A x \in Resources : h[x] \in Nat /\ k[x] \in Nat
    BY <1>6, <1>7
  <2>2. h = [x \in Resources |-> h[x]] /\ k = [x \in Resources |-> k[x]]
    BY <1>5 DEF Plus
  <2>3. QED
    BY <2>1, <2>2 DEF Bags
<1>9. \A x \in Resources : h[x] + k[x] = hd[i][x] + hd[c][x]
  BY <1>6, <1>7
<1>10. Balanced(bk, [hd EXCEPT ![i] = h, ![c] = k])
  BY <1>2, <1>3, <1>8, <1>9, SwapsBalance DEF ResourcesFit
<1>11. hand' = [hd EXCEPT ![i] = h, ![c] = k]
  <2>1. hand' = [hand EXCEPT ![pending.initiator] = Plus(Minus(@, pending.gives), pending.gets),
                             ![pending.counterparty] = Plus(Minus(@, pending.gets), pending.gives)]
    BY DEF AcceptTrade
  <2>2. QED
    BY <1>2, <1>3, <1>4, <1>5, <2>1
<1>12. QED
  BY <1>1, <1>2, <1>10, <1>11

\* The commands that pay into the bank.
LEMMA PaymentsBalance ==
  ASSUME TurnInvariant, Balanced(bank, hand), NEW p \in Players,
         \/ \E bag \in Discards(p) : DiscardResources(p, bag)
         \/ \E e \in Edges : BuildRoad(p, e)
         \/ \E v \in Vertices : BuildSettlement(p, v) \/ UpgradeCity(p, v)
         \/ BuyCard(p)
  PROVE  Balanced(bank', hand')
<1>1. /\ RoadCost \in Bags /\ SettlementCost \in Bags /\ CityCost \in Bags /\ CardCost \in Bags
  BY EngineAssumption DEF EngineAssumption
<1>2. ASSUME NEW bag \in Discards(p), DiscardResources(p, bag) PROVE Balanced(bank', hand')
  <2>1. bag \in Bags
    BY SelectedBags DEF Discards
  <2>2. Covers(hand[p], bag) /\ Pay(p, bag)
    BY <1>2 DEF DiscardResources, AcceptsDiscard
  <2>3. QED
    BY <2>1, <2>2, PayBalances
<1>3. ASSUME NEW e, BuildRoad(p, e) PROVE Balanced(bank', hand')
  <2>1. Covers(hand[p], RoadCost) /\ Pay(p, RoadCost)
    BY <1>3 DEF BuildRoad, AcceptsRoad
  <2>2. QED
    BY <1>1, <2>1, PayBalances
<1>4. ASSUME NEW v, BuildSettlement(p, v) PROVE Balanced(bank', hand')
  <2>1. Covers(hand[p], SettlementCost) /\ Pay(p, SettlementCost)
    BY <1>4 DEF BuildSettlement, AcceptsSettlement
  <2>2. QED
    BY <1>1, <2>1, PayBalances
<1>5. ASSUME NEW v, UpgradeCity(p, v) PROVE Balanced(bank', hand')
  <2>1. Covers(hand[p], CityCost) /\ Pay(p, CityCost)
    BY <1>5 DEF UpgradeCity, AcceptsCity
  <2>2. QED
    BY <1>1, <2>1, PayBalances
<1>6. ASSUME BuyCard(p) PROVE Balanced(bank', hand')
  <2>1. Covers(hand[p], CardCost) /\ Pay(p, CardCost)
    BY <1>6 DEF BuyCard, AcceptsBuyCard
  <2>2. QED
    BY <1>1, <2>1, PayBalances
<1>7. QED
  BY <1>2, <1>3, <1>4, <1>5, <1>6

\* The commands in which the bank gives.
LEMMA GrantsBalance ==
  ASSUME Balanced(bank, hand), NEW p \in Players,
         \/ \E v \in SetupSites : PlaceInitialSettlement(p, v)
         \/ \E bag \in Inventions : ChooseInvention(p, bag)
  PROVE  Balanced(bank', hand')
<1>1. ASSUME NEW v, PlaceInitialSettlement(p, v) PROVE Balanced(bank', hand')
  <2>1. PICK bk, grant : bk = bank /\ grant = IF turn.setup.round = 2 THEN StartingGrant(v, bank) ELSE Empty
    OBVIOUS
  <2>2. bk \in Bags
    BY <2>1 DEF Balanced
  <2>3. grant \in Bags /\ Covers(bk, grant)
    <3>1. Empty \in Bags /\ Covers(bk, Empty)
      BY <2>2 DEF Empty, Bags, Covers
    <3>2. StartingGrant(v, bk) \in Bags /\ Covers(bk, StartingGrant(v, bk))
      BY <2>2, GrantFits
    <3>3. QED
      BY <2>1, <3>1, <3>2
  <2>4. hand' = [hand EXCEPT ![p] = Plus(@, grant)] /\ bank' = Minus(bank, grant)
    BY <1>1, <2>1 DEF PlaceInitialSettlement
  <2>5. QED
    BY <2>1, <2>3, <2>4, GrantBalances
<1>2. ASSUME NEW bag \in Inventions, ChooseInvention(p, bag) PROVE Balanced(bank', hand')
  <2>1. bag \in Bags
    BY SelectedBags DEF Inventions
  <2>2. Covers(bank, bag) /\ hand' = [hand EXCEPT ![p] = Plus(@, bag)] /\ bank' = Minus(bank, bag)
    BY <1>2 DEF ChooseInvention, AcceptsInvention
  <2>3. QED
    BY <2>1, <2>2, GrantBalances
<1>3. QED
  BY <1>1, <1>2

\* The commands that move no cards of the bank or the hands.
LEMMA OthersBalance ==
  ASSUME NEW p,
         \/ \E e \in Edges : PlaceInitialRoad(p, e) \/ PlaceFreeRoad(p, e)
         \/ \E t \in Tiles : MoveRobber(p, t)
         \/ EndTurn(p) \/ FinishFreeRoads(p) \/ RejectTrade(p)
         \/ \E c \in cards[p] : PlayCard(p, c)
         \/ \E q \in Players, t \in Terms : ProposeTrade(p, q, t.gives, t.gets)
         \/ \E t \in Terms : CounterTrade(p, t.gives, t.gets)
  PROVE  bank' = bank /\ hand' = hand
  BY Zenon DEF PlaceInitialRoad, PlaceFreeRoad, MoveRobber, EndTurn, FinishFreeRoads, RejectTrade, PlayCard,
               ProposeTrade, CounterTrade

\* After every command the cards add up.
LEMMA BalanceStep ==
  ASSUME TurnInvariant, ResourcesFit, NEW p \in Players, PlayerStep(p)
  PROVE  Balanced(bank', hand')
<1>1. Balanced(bank, hand)
  BY DEF ResourcesFit
<1>2. CASE \/ \E bag \in Discards(p) : DiscardResources(p, bag)
           \/ \E e \in Edges : BuildRoad(p, e)
           \/ \E v \in Vertices : BuildSettlement(p, v) \/ UpgradeCity(p, v)
           \/ BuyCard(p)
  BY <1>1, <1>2, PaymentsBalance
<1>3. CASE \/ \E v \in SetupSites : PlaceInitialSettlement(p, v)
           \/ \E bag \in Inventions : ChooseInvention(p, bag)
  BY <1>1, <1>3, GrantsBalance
<1>4. CASE \/ \E e \in Edges : PlaceInitialRoad(p, e) \/ PlaceFreeRoad(p, e)
           \/ \E t \in Tiles : MoveRobber(p, t)
           \/ EndTurn(p) \/ FinishFreeRoads(p) \/ RejectTrade(p)
           \/ \E c \in cards[p] : PlayCard(p, c)
           \/ \E q \in Players, t \in Terms : ProposeTrade(p, q, t.gives, t.gets)
           \/ \E t \in Terms : CounterTrade(p, t.gives, t.gets)
  <2>1. bank' = bank /\ hand' = hand
    BY <1>4, OthersBalance
  <2>2. QED
    BY <1>1, <2>1
<1>5. CASE \E total \in Dice : RollDice(p, total)
  BY <1>1, <1>5, RollBalances
<1>6. CASE \E q \in Players, x \in Resources : StealFrom(p, q, x)
  BY <1>1, <1>6, StealBalances
<1>7. CASE \E x \in Resources : ChooseMonopoly(p, x)
  BY <1>1, <1>7, MonopolyBalances
<1>8. CASE AcceptTrade(p)
  BY <1>8, AcceptBalances
<1>9. CASE \E give \in Resources, get \in Transferable : MaritimeTrade(p, give, get)
  <2>1. PICK give \in Resources, get \in Resources : MaritimeTrade(p, give, get)
    BY <1>9, EngineAssumption DEF EngineAssumption
  <2>2. QED
    BY <1>1, <2>1, MaritimeBalances
<1>10. QED
  BY <1>2, <1>3, <1>4, <1>5, <1>6, <1>7, <1>8, <1>9, Zenon DEF PlayerStep

\* The commands that open no trade.
LEMMA NoOffer ==
  ASSUME TurnInvariant, NEW p \in Players, PlayerStep(p),
         ~\E q \in Players, t \in Terms : ProposeTrade(p, q, t.gives, t.gets),
         ~\E t \in Terms : CounterTrade(p, t.gives, t.gets)
  PROVE  pending'.type # "RESPOND_TO_TRADE"
<1>1. NoDecision.type # "RESPOND_TO_TRADE"
  BY SeatFacts DEF NoDecision, DecisionTypes
<1>2. ASSUME NEW b, NEW aw, NEW cs, NEW tn, ResolveVictory(b, aw, cs, tn, NoDecision)
      PROVE  pending' = NoDecision
  BY <1>2 DEF ResolveVictory
<1>3. CASE \/ \E v \in SetupSites : PlaceInitialSettlement(p, v)
           \/ \E e \in Edges : PlaceInitialRoad(p, e)
           \/ \E total \in Dice : RollDice(p, total)
           \/ \E give \in Resources, get \in Transferable : MaritimeTrade(p, give, get)
  <2>1. CASE pending' = pending /\ pending = NoDecision
    BY <1>1, <2>1
  <2>2. ASSUME NEW total, RollDice(p, total)
        PROVE  pending'.type # "RESPOND_TO_TRADE"
    <3>1. pending = NoDecision
      BY <2>2 DEF RollDice, AcceptsRoll, InTurn
    <3>2. CASE pending' = pending
      BY <1>1, <3>1, <3>2
    <3>3. CASE pending' # pending
      <4>1. \/ \E trigger, required : pending' = [type |-> "DISCARD_RESOURCES", trigger |-> trigger,
                                                required |-> required, completed |-> {}]
            \/ \E actor : pending' = [type |-> "MOVE_ROBBER", actor |-> actor, cause |-> None]
        BY <2>2, <3>3, Zenon DEF RollDice
      <4>2. QED
        BY <4>1
    <3>4. QED
      BY <3>2, <3>3
  <2>3. CASE ~\E total \in Dice : RollDice(p, total)
    <3>1. pending' = pending /\ pending = NoDecision
      BY <1>3, <2>3, Zenon DEF PlaceInitialSettlement, AcceptsInitialSettlement, PlaceInitialRoad, AcceptsInitialRoad,
                               MaritimeTrade, AcceptsMaritime, InTurn
    <3>2. QED
      BY <2>1, <3>1
  <2>4. QED
    BY <2>2, <2>3
<1>4. CASE EndTurn(p)
  <2>1. PICK b, aw, cs, tn : ResolveVictory(b, aw, cs, tn, NoDecision)
    BY <1>4 DEF EndTurn
  <2>2. QED
    BY <1>1, <1>2, <2>1
<1>5. CASE \/ \E e \in Edges : BuildRoad(p, e)
           \/ \E v \in Vertices : BuildSettlement(p, v) \/ UpgradeCity(p, v)
           \/ BuyCard(p)
  <2>1. Settled(turn)
    BY <1>5, PaidActs DEF Acts
  <2>2. QED
    BY <1>1, <2>1 DEF Settled
<1>6. CASE \E bag \in Discards(p) : DiscardResources(p, bag)
  <2>1. PICK bag : DiscardResources(p, bag)
    BY <1>6
  <2>2. pending.type = "DISCARD_RESOURCES"
    BY <2>1 DEF DiscardResources, AcceptsDiscard, Decides
  <2>3. CASE Owing = {p}
    BY <2>1, <2>3 DEF DiscardResources
  <2>4. CASE Owing # {p}
    <3>1. pending' = [pending EXCEPT !.completed = @ \cup {p}]
      BY <2>1, <2>4 DEF DiscardResources
    <3>2. pending = [type |-> "DISCARD_RESOURCES", trigger |-> turn.current,
                     required |-> pending.required, completed |-> pending.completed]
      BY <2>2 DEF TurnInvariant, DecisionFits, DiscardFits
    <3>3. QED
      BY <3>1, <3>2
  <2>5. QED
    BY <2>3, <2>4
<1>7. CASE (\E t \in Tiles : MoveRobber(p, t)) \/ (\E q \in Players, x \in Resources : StealFrom(p, q, x))
  <2>1. ASSUME NEW cause, NEW tn, RobberDone(cause, tn) PROVE pending' = NoDecision
    <3>1. PICK b, aw, cs : b = buildings /\ aw = awards /\ cs = cards
      OBVIOUS
    <3>2. CASE cause = None
      BY <2>1, <3>2 DEF RobberDone
    <3>3. CASE cause # None
      <4>1. ResolveVictory(b, aw, cs, tn, NoDecision)
        BY <2>1, <3>1, <3>3 DEF RobberDone
      <4>2. QED
        BY <1>2, <4>1
    <3>4. QED
      BY <3>2, <3>3
  <2>2. ASSUME NEW q, NEW x, StealFrom(p, q, x) PROVE pending' = NoDecision
    <3>1. PICK cause, tn : RobberDone(cause, tn)
      BY <2>2 DEF StealFrom
    <3>2. QED
      BY <2>1, <3>1
  <2>3. ASSUME NEW t, MoveRobber(p, t) PROVE pending' = NoDecision \/ pending'.type = "CHOOSE_ROBBER_TARGET"
    <3>1. CASE \E cause, tn : RobberDone(cause, tn)
      BY <2>1, <3>1
    <3>2. CASE ~\E cause, tn : RobberDone(cause, tn)
      BY <2>3, <3>2 DEF MoveRobber
    <3>3. QED
      BY <3>1, <3>2
  <2>4. QED
    BY <1>1, <1>7, <2>2, <2>3
<1>8. CASE \E c \in cards[p] : PlayCard(p, c)
  BY <1>8 DEF PlayCard
<1>9. CASE \E e \in Edges : PlaceFreeRoad(p, e)
  <2>1. PICK e : PlaceFreeRoad(p, e)
    BY <1>9
  <2>2. pending.type = "PLACE_FREE_ROADS"
    BY <2>1 DEF PlaceFreeRoad, AcceptsFreeRoad, DecidesCard, Decides
  <2>3. CASE pending' = [pending EXCEPT !.remaining = 1]
    <3>1. pending = [type |-> "PLACE_FREE_ROADS", actor |-> turn.current,
                     card |-> pending.card, remaining |-> pending.remaining]
      BY <2>2 DEF TurnInvariant, DecisionFits, CardFits
    <3>2. QED
      BY <2>3, <3>1
  <2>4. CASE pending' # [pending EXCEPT !.remaining = 1]
    <3>1. PICK b, aw, cs, tn : ResolveVictory(b, aw, cs, tn, NoDecision)
      BY <2>1, <2>4 DEF PlaceFreeRoad
    <3>2. QED
      BY <1>1, <1>2, <3>1
  <2>5. QED
    BY <2>3, <2>4
<1>10. CASE \/ FinishFreeRoads(p) \/ RejectTrade(p) \/ AcceptTrade(p)
            \/ \E bag \in Inventions : ChooseInvention(p, bag)
            \/ \E x \in Resources : ChooseMonopoly(p, x)
  BY <1>1, <1>10 DEF FinishFreeRoads, RejectTrade, AcceptTrade, ChooseInvention, ChooseMonopoly
<1>11. QED
  BY <1>3, <1>4, <1>5, <1>6, <1>7, <1>8, <1>9, <1>10, Zenon DEF PlayerStep

\* An offer is made with cards its author has.
LEMMA OfferStep ==
  ASSUME TurnInvariant, ResourcesFit, NEW p \in Players, PlayerStep(p)
  PROVE  OfferFits'
<1>1. ASSUME NEW i, NEW c, NEW author, NEW gives \in Bags, NEW gets \in Bags, NEW depth \in {0, 1},
             pending' = Offer(i, c, author, gives, gets, depth), hand' = hand, ValidBundles(gives, gets),
             Covers(hand[author], IF depth = 0 THEN gives ELSE gets)
      PROVE  OfferFits'
  <2>1. PICK d : d = pending'
    OBVIOUS
  <2>2. d.author = author /\ d.gives = gives /\ d.gets = gets /\ d.depth = depth
    BY <1>1, <2>1 DEF Offer
  <2>3. PICK h : h = hand[author]
    OBVIOUS
  <2>4. hand'[d.author] = h
    BY <1>1, <2>2, <2>3
  <2>5. PICK asked : asked = IF depth = 0 THEN gives ELSE gets
    OBVIOUS
  <2>6. Covers(h, asked) /\ asked = IF d.depth = 0 THEN d.gives ELSE d.gets
    BY <1>1, <2>2, <2>3, <2>5
  <2>7. Covers(hand'[pending'.author], IF pending'.depth = 0 THEN pending'.gives ELSE pending'.gets)
    BY <2>1, <2>4, <2>6
  <2>8. /\ pending'.gives \in Bags /\ pending'.gets \in Bags
        /\ ValidBundles(pending'.gives, pending'.gets)
    BY <1>1, <2>1, <2>2
  <2>9. QED
    BY <2>7, <2>8 DEF OfferFits
<1>2. ASSUME NEW t \in Terms PROVE t.gives \in Bags /\ t.gets \in Bags
  BY EngineAssumption DEF EngineAssumption
<1>3. CASE \E q \in Players, t \in Terms : ProposeTrade(p, q, t.gives, t.gets)
  <2>1. PICK q \in Players, t \in Terms : ProposeTrade(p, q, t.gives, t.gets)
    BY <1>3
  <2>2. PICK gives, gets, depth : gives = t.gives /\ gets = t.gets /\ depth = 0
    OBVIOUS
  <2>3. /\ pending' = Offer(p, q, p, gives, gets, depth) /\ hand' = hand /\ ValidBundles(gives, gets)
        /\ Covers(hand[p], gives)
    BY <2>1, <2>2 DEF ProposeTrade, AcceptsProposal
  <2>4. Covers(hand[p], IF depth = 0 THEN gives ELSE gets)
    BY <2>2, <2>3
  <2>5. gives \in Bags /\ gets \in Bags /\ depth \in {0, 1}
    BY <1>2, <2>2
  <2>6. QED
    BY <1>1, <2>3, <2>4, <2>5
<1>4. CASE \E t \in Terms : CounterTrade(p, t.gives, t.gets)
  <2>1. PICK t \in Terms : CounterTrade(p, t.gives, t.gets)
    BY <1>4
  <2>2. PICK gives, gets, depth, i : gives = t.gives /\ gets = t.gets /\ depth = 1 /\ i = pending.initiator
    OBVIOUS
  <2>3. /\ pending' = Offer(i, p, p, gives, gets, depth) /\ hand' = hand /\ ValidBundles(gives, gets)
        /\ Covers(hand[p], gets)
    BY <2>1, <2>2 DEF CounterTrade, AcceptsCounter
  <2>4. Covers(hand[p], IF depth = 0 THEN gives ELSE gets)
    BY <2>2, <2>3
  <2>5. gives \in Bags /\ gets \in Bags /\ depth \in {0, 1}
    BY <1>2, <2>2
  <2>6. QED
    BY <1>1, <2>3, <2>4, <2>5
<1>5. CASE ~(\E q \in Players, t \in Terms : ProposeTrade(p, q, t.gives, t.gets))
           /\ ~(\E t \in Terms : CounterTrade(p, t.gives, t.gets))
  BY <1>5, NoOffer DEF OfferFits
<1>6. QED
  BY <1>3, <1>4, <1>5

\* Commands keep the cards in balance.
LEMMA ResourceStep ==
  ASSUME TurnInvariant, ResourcesFit, [Next]_vars
  PROVE  ResourcesFit'
<1>1. CASE UNCHANGED vars
  BY <1>1 DEF vars, ResourcesFit, OfferFits
<1>2. CASE Stopped
  BY <1>1, <1>2 DEF Stopped
<1>3. ASSUME NEW p \in Players, PlayerStep(p) PROVE ResourcesFit'
  <2>1. Balanced(bank', hand')
    BY <1>3, BalanceStep
  <2>2. QED
    BY <1>3, <2>1, OfferStep DEF ResourcesFit
<1>4. QED
  BY <1>1, <1>2, <1>3 DEF Next

\* A new game has all its cards in the bank.
LEMMA ResourceInit ==
  ASSUME Init
  PROVE  ResourcesFit
<1>1. PICK bk, hd : bk = [x \in Resources |-> BankSize] /\ hd = [q \in Players |-> Empty]
  OBVIOUS
<1>2. bank = bk /\ hand = hd /\ pending = NoDecision
  BY <1>1 DEF Init
<1>3. BankSize \in Nat
  BY EngineAssumption DEF EngineAssumption
<1>4. bk \in Bags /\ hd \in [Players -> Bags]
  BY <1>1, <1>3 DEF Bags, Empty
<1>5. ASSUME NEW x \in Resources
      PROVE  bk[x] + SumFunctionOnSet(Column(hd, x), Players) = BankSize
  <2>1. PICK col : col = Column(hd, x)
    OBVIOUS
  <2>2. IsFiniteSet(Players) /\ \A q \in Players : col[q] = 0
    BY <1>1, <2>1, SizeFacts DEF Column, Empty
  <2>3. SumFunctionOnSet(col, Players) = 0
    BY <2>2, SumNothing
  <2>4. QED
    BY <1>1, <1>3, <2>1, <2>3
<1>6. Balanced(bk, hd)
  BY <1>4, <1>5 DEF Balanced
<1>7. OfferFits
  BY <1>2, SeatFacts DEF OfferFits, NoDecision, DecisionTypes
<1>8. QED
  BY <1>2, <1>6, <1>7 DEF ResourcesFit

\* Cards in balance are what the engine asserts of them.
LEMMA BalanceIsConserved ==
  ASSUME Balanced(bank, hand)
  PROVE  ResourceState /\ Conserved
<1>1. ASSUME NEW x \in Resources
      PROVE  bank[x] + SumFunction([q \in Players |-> hand[q][x]]) = BankSize
  <2>1. PICK col : col = Column(hand, x)
    OBVIOUS
  <2>2. SumFunction(col) = SumFunctionOnSet(col, Players)
    BY <2>1, SumOverDomain DEF Column
  <2>3. col = [q \in Players |-> hand[q][x]]
    BY <2>1 DEF Column
  <2>4. bank[x] + SumFunctionOnSet(col, Players) = BankSize
    BY <2>1 DEF Balanced
  <2>5. QED
    BY <2>2, <2>3, <2>4
<1>2. QED
  BY <1>1 DEF Balanced, ResourceState, Conserved

\* No resource card is lost, made or owed, however the cards move: the bank
\* and the hands always add up to the cards of the game.
THEOREM CardsAreConserved == Spec => [](ResourceState /\ Conserved)
<1>1. Init => ResourcesFit
  BY ResourceInit
<1>2. TurnInvariant /\ ResourcesFit /\ [Next]_vars => ResourcesFit'
  BY ResourceStep
<1>3. ResourcesFit => ResourceState /\ Conserved
  BY BalanceIsConserved DEF ResourcesFit
<1>4. QED
  BY <1>1, <1>2, <1>3, TurnsHold, PTL DEF Spec

-----------------------------------------------------------------------------
(* The length of roads: the search ends, and finds a number.               *)

\* A finite set of numbers has a greatest one.
LEMMA MaxOfNumbers ==
  ASSUME NEW S \in SUBSET Nat, IsFiniteSet(S), S # {}
  PROVE  Max(S) \in S /\ \A y \in S : y <= Max(S)
<1> DEFINE G == {T \in SUBSET S : T = {} \/ \E m \in T : \A y \in T : y <= m}
<1>1. ASSUME NEW T \in SUBSET S, \A U \in SUBSET T : U # T => U \in G PROVE T \in G
  <2>1. SUFFICES ASSUME T # {} PROVE \E m \in T : \A y \in T : y <= m
    OBVIOUS
  <2>2. PICK x \in T : TRUE
    BY <2>1
  <2>3. T \ {x} \in G /\ x \in Nat
    BY <1>1, <2>2
  <2>4. CASE T \ {x} = {}
    BY <2>2, <2>3, <2>4
  <2>5. CASE T \ {x} # {}
    <3>1. PICK m \in T \ {x} : \A y \in T \ {x} : y <= m
      BY <2>3, <2>5
    <3>2. m \in Nat
      OBVIOUS
    <3>3. CASE x <= m
      BY <3>1, <3>3
    <3>4. CASE ~(x <= m)
      <4>1. \A y \in T : y <= x
        BY <2>3, <3>1, <3>2, <3>4
      <4>2. QED
        BY <2>2, <4>1
    <3>5. QED
      BY <3>3, <3>4
  <2>6. QED
    BY <2>4, <2>5
<1>2. S \in G
  <2> HIDE DEF G
  <2>1. QED
    BY <1>1, SubsetInduction
<1>3. \E m \in S : \A y \in S : y <= m
  BY <1>2
<1>4. \E m \in S : \A y \in S : m >= y
  BY <1>3
<1>5. Max(S) \in S /\ \A y \in S : Max(S) >= y
  BY <1>4 DEF Max
<1>6. QED
  BY <1>5

\* There are finitely many edges.
LEMMA EdgesFinite ==
  ASSUME NEW T, T \subseteq Edges
  PROVE  IsFiniteSet(T) /\ Cardinality(T) \in Nat
<1>1. IsFiniteSet(Vertices) /\ Edges \subseteq SUBSET Vertices
  BY BoardAssumption DEF BoardAssumption
<1>2. IsFiniteSet(SUBSET Vertices)
  BY <1>1, FS_SUBSET
<1>3. IsFiniteSet(T)
  BY <1>1, <1>2, FS_Subset
<1>4. QED
  BY <1>3, FS_CardinalityType

\* The two ends of a road are each other's other end.
LEMMA OtherEnd ==
  ASSUME NEW e \in Edges, NEW v \in e
  PROVE  Other(e, v) \in e /\ Other(e, v) \in Vertices /\ Other(e, Other(e, v)) = v
<1>1. e \subseteq Vertices /\ Cardinality(e) = 2
  BY BoardAssumption DEF BoardAssumption
<1>2. PICK u, x : u = Other(e, v) /\ x = Other(e, u)
  OBVIOUS
<1>3. e # {v}
  <2>1. Cardinality({v}) = 1
    BY FS_Singleton
  <2>2. QED
    BY <1>1, <2>1
<1>4. \E y \in e : y # v
  BY <1>3
<1>5. u \in e /\ u # v
  BY <1>2, <1>4 DEF Other
<1>6. x \in e /\ x # u
  BY <1>2, <1>5 DEF Other
<1>7. x = v
  <2>1. SUFFICES ASSUME x # v PROVE FALSE
    OBVIOUS
  <2>2. IsFiniteSet(e)
    BY <1>1, SizeFacts, FS_Subset
  <2>3. {v, u, x} \subseteq e
    BY <1>5, <1>6
  <2>4. IsFiniteSet({v}) /\ Cardinality({v}) = 1
    BY FS_Singleton
  <2>5. IsFiniteSet({v} \cup {u}) /\ Cardinality({v} \cup {u}) = 2
    <3>1. u \notin {v}
      BY <1>5
    <3>2. IsFiniteSet({v} \cup {u}) /\ Cardinality({v} \cup {u}) = Cardinality({v}) + 1
      BY <2>4, <3>1, FS_AddElement
    <3>3. QED
      BY <2>4, <3>2
  <2>6. Cardinality(({v} \cup {u}) \cup {x}) = 3
    <3>1. x \notin {v} \cup {u}
      BY <1>6, <2>1
    <3>2. Cardinality(({v} \cup {u}) \cup {x}) = Cardinality({v} \cup {u}) + 1
      BY <2>5, <3>1, FS_AddElement
    <3>3. QED
      BY <2>5, <3>2
  <2>7. ({v} \cup {u}) \cup {x} = {v, u, x}
    OBVIOUS
  <2>8. Cardinality({v, u, x}) <= Cardinality(e)
    BY <2>2, <2>3, FS_Subset
  <2>9. QED
    BY <1>1, <2>6, <2>7, <2>8
<1>8. QED
  BY <1>1, <1>2, <1>5, <1>7

\* The longest way on from v, where len has the lengths with one road more used.
WayOn(b, r, p, len, used, v) ==
  IF Blocked(b, p, v) THEN 0
  ELSE Max({0} \cup {1 + len[used \cup {e}][Other(e, v)] : e \in {f \in EdgesAt(v) \ used : r[f] = p}})
WaysOn(b, r, p, len, used) == [v \in Vertices |-> WayOn(b, r, p, len, used, v)]

\* What the search computes.
LEMMA TrailIsWays ==
  ASSUME NEW b, NEW r, NEW p
  PROVE  TrailLengthFrom(b, r, p) = CHOOSE len : len = [used \in SUBSET Edges |-> WaysOn(b, r, p, len, used)]
  BY DEF TrailLengthFrom, WaysOn, WayOn

\* Only the lengths with one road more count.
LEMMA WaysAgree ==
  ASSUME NEW b, NEW r, NEW p, NEW g, NEW h, NEW used \in SUBSET Edges,
         \A e \in Edges \ used : g[used \cup {e}] = h[used \cup {e}]
  PROVE  WaysOn(b, r, p, g, used) = WaysOn(b, r, p, h, used)
<1>1. ASSUME NEW v \in Vertices
      PROVE  WayOn(b, r, p, g, used, v) = WayOn(b, r, p, h, used, v)
  <2>1. PICK next : next = {f \in EdgesAt(v) \ used : r[f] = p}
    OBVIOUS
  <2>2. \A e \in next : g[used \cup {e}] = h[used \cup {e}]
    BY <2>1 DEF EdgesAt
  <2>3. {1 + g[used \cup {e}][Other(e, v)] : e \in next} = {1 + h[used \cup {e}][Other(e, v)] : e \in next}
    BY <2>2
  <2>4. QED
    BY <2>1, <2>3 DEF WayOn
<1>2. QED
  BY <1>1 DEF WaysOn

\* The search ends: every road that is followed is used from then on.
LEMMA TrailsExist ==
  ASSUME NEW b, NEW r, NEW p
  PROVE  \A used \in SUBSET Edges :
           TrailLengthFrom(b, r, p)[used] = WaysOn(b, r, p, TrailLengthFrom(b, r, p), used)
<1> DEFINE Ends(g, n) == \A used \in SUBSET Edges :
                           Cardinality(Edges \ used) <= n => g[used] = WaysOn(b, r, p, g, used)
<1> DEFINE G == {n \in Nat : \E g : Ends(g, n)}
<1>1. ASSUME NEW used \in SUBSET Edges, NEW e \in Edges \ used
      PROVE  /\ used \cup {e} \in SUBSET Edges
             /\ Cardinality(Edges \ (used \cup {e})) = Cardinality(Edges \ used) - 1
             /\ Cardinality(Edges \ used) \in Nat
  <2>1. Edges \ (used \cup {e}) = (Edges \ used) \ {e}
    OBVIOUS
  <2>2. IsFiniteSet(Edges \ used) /\ Cardinality(Edges \ used) \in Nat
    BY EdgesFinite
  <2>3. Cardinality((Edges \ used) \ {e}) = Cardinality(Edges \ used) - 1
    BY <2>2, FS_RemoveElement
  <2>4. QED
    BY <2>1, <2>2, <2>3
<1>2. 0 \in G
  <2>1. PICK none : none = [used \in SUBSET Edges |-> 0]
    OBVIOUS
  <2>2. PICK g : g = [used \in SUBSET Edges |-> WaysOn(b, r, p, none, used)]
    OBVIOUS
  <2>3. ASSUME NEW used \in SUBSET Edges, Cardinality(Edges \ used) <= 0 PROVE g[used] = WaysOn(b, r, p, g, used)
    <3>1. Edges \ used = {}
      BY <2>3, EdgesFinite, FS_EmptySet
    <3>2. WaysOn(b, r, p, none, used) = WaysOn(b, r, p, g, used)
      BY <3>1, WaysAgree
    <3>3. QED
      BY <2>2, <3>2
  <2>4. QED
    BY <2>3
<1>3. ASSUME NEW n \in Nat, n \in G PROVE n + 1 \in G
  <2>1. PICK h : Ends(h, n)
    BY <1>3
  <2>2. PICK g : g = [used \in SUBSET Edges |->
                        IF Cardinality(Edges \ used) <= n THEN h[used] ELSE WaysOn(b, r, p, h, used)]
    OBVIOUS
  <2>3. ASSUME NEW used \in SUBSET Edges, Cardinality(Edges \ used) <= n + 1
        PROVE  g[used] = WaysOn(b, r, p, g, used)
    <3>1. g[used] = WaysOn(b, r, p, h, used)
      BY <2>1, <2>2
    <3>2. ASSUME NEW e \in Edges \ used PROVE g[used \cup {e}] = h[used \cup {e}]
      <4>1. Cardinality(Edges \ (used \cup {e})) <= n /\ used \cup {e} \in SUBSET Edges
        BY <1>1, <2>3
      <4>2. QED
        BY <2>2, <4>1
    <3>3. WaysOn(b, r, p, g, used) = WaysOn(b, r, p, h, used)
      BY <3>2, WaysAgree
    <3>4. QED
      BY <3>1, <3>3
  <2>4. Ends(g, n + 1)
    BY <2>3
  <2>5. QED
    BY <2>4
<1>4. PICK size \in Nat : \A used \in SUBSET Edges : Cardinality(Edges \ used) <= size
  <2>1. IsFiniteSet(Edges) /\ Cardinality(Edges) \in Nat
    BY EdgesFinite
  <2>2. ASSUME NEW used \in SUBSET Edges PROVE Cardinality(Edges \ used) <= Cardinality(Edges)
    BY <2>1, FS_Subset
  <2>3. QED
    BY <2>1, <2>2
<1>5. size \in G
  <2> HIDE DEF G
  <2>1. QED
    BY <1>2, <1>3, SetOfNumbers
<1>6. PICK h : \A used \in SUBSET Edges : h[used] = WaysOn(b, r, p, h, used)
  BY <1>4, <1>5
<1>7. PICK g : g = [used \in SUBSET Edges |-> h[used]]
  OBVIOUS
<1>8. ASSUME NEW used \in SUBSET Edges PROVE g[used] = WaysOn(b, r, p, g, used)
  <2>1. \A e \in Edges \ used : g[used \cup {e}] = h[used \cup {e}]
    BY <1>7
  <2>2. WaysOn(b, r, p, g, used) = WaysOn(b, r, p, h, used)
    BY <2>1, WaysAgree
  <2>3. QED
    BY <1>6, <1>7, <2>2
<1>9. g = [used \in SUBSET Edges |-> WaysOn(b, r, p, g, used)]
  BY <1>7, <1>8
<1>10. \E len : len = [used \in SUBSET Edges |-> WaysOn(b, r, p, len, used)]
  BY <1>9
<1>11. PICK k : k = TrailLengthFrom(b, r, p)
  OBVIOUS
<1>12. k = [used \in SUBSET Edges |-> WaysOn(b, r, p, k, used)]
  <2>1. k = CHOOSE len : len = [used \in SUBSET Edges |-> WaysOn(b, r, p, len, used)]
    BY <1>11, TrailIsWays
  <2>2. QED
    BY <1>10, <2>1, Zenon
<1>13. \A used \in SUBSET Edges : k[used] = WaysOn(b, r, p, k, used)
  BY <1>12
<1>14. QED
  BY <1>11, <1>13

\* The longest way on is as long as one of the ways, and none is longer.
LEMMA WayFacts ==
  ASSUME NEW b, NEW r, NEW p, NEW len, NEW used, NEW v, NEW next, next = {f \in EdgesAt(v) \ used : r[f] = p},
         \A e \in next : len[used \cup {e}][Other(e, v)] \in Nat
  PROVE  /\ WayOn(b, r, p, len, used, v) \in Nat
         /\ Blocked(b, p, v) => WayOn(b, r, p, len, used, v) = 0
         /\ ~Blocked(b, p, v) =>
              \A e \in next : 1 + len[used \cup {e}][Other(e, v)] <= WayOn(b, r, p, len, used, v)
         /\ WayOn(b, r, p, len, used, v) # 0 =>
              \E e \in next : WayOn(b, r, p, len, used, v) = 1 + len[used \cup {e}][Other(e, v)]
<1>1. PICK numbers : numbers = {1 + len[used \cup {e}][Other(e, v)] : e \in next}
  OBVIOUS
<1>2. IsFiniteSet(numbers)
  <2>1. next \subseteq Edges
    BY DEF EdgesAt
  <2>2. IsFiniteSet(next)
    BY <2>1, EdgesFinite
  <2>3. PICK f : f = [e \in next |-> 1 + len[used \cup {e}][Other(e, v)]]
    OBVIOUS
  <2>4. f \in Surjection(next, numbers)
    BY <1>1, <2>3 DEF Surjection
  <2>5. QED
    BY <2>2, <2>4, FS_Surjection
<1>3. PICK all : all = {0} \cup numbers
  OBVIOUS
<1>4. all \in SUBSET Nat /\ all # {} /\ IsFiniteSet(all)
  <2>1. ASSUME NEW e \in next PROVE 1 + len[used \cup {e}][Other(e, v)] \in Nat
    <3>1. len[used \cup {e}][Other(e, v)] \in Nat
      OBVIOUS
    <3>2. QED
      BY <3>1
  <2>2. numbers \subseteq Nat
    BY <1>1, <2>1
  <2>3. IsFiniteSet({0})
    BY FS_Singleton
  <2>4. IsFiniteSet({0} \cup numbers)
    BY <1>2, <2>3, FS_Union
  <2>5. QED
    BY <1>3, <2>2, <2>4
<1>5. PICK max : max = Max(all)
  OBVIOUS
<1>6. max \in all /\ \A y \in all : y <= max
  BY <1>4, <1>5, MaxOfNumbers
<1>7. PICK way : way = WayOn(b, r, p, len, used, v)
  OBVIOUS
<1>8. way = IF Blocked(b, p, v) THEN 0 ELSE max
  BY <1>1, <1>3, <1>5, <1>7 DEF WayOn
<1>9. \A e \in next : 1 + len[used \cup {e}][Other(e, v)] <= max
  BY <1>1, <1>3, <1>6
<1>10. max # 0 => \E e \in next : max = 1 + len[used \cup {e}][Other(e, v)]
  BY <1>1, <1>3, <1>6
<1>11. way \in Nat
  BY <1>4, <1>6, <1>8
<1>12. QED
  BY <1>7, <1>8, <1>9, <1>10, <1>11

\* The lengths the search finds are numbers.
LEMMA TrailType ==
  ASSUME NEW b, NEW r, NEW p, NEW used \in SUBSET Edges
  PROVE  TrailLengthFrom(b, r, p)[used] \in [Vertices -> Nat]
<1>1. PICK len : len = TrailLengthFrom(b, r, p)
  OBVIOUS
<1>2. \A u \in SUBSET Edges : len[u] = WaysOn(b, r, p, len, u)
  BY <1>1, TrailsExist
<1> DEFINE G == {T \in SUBSET Edges : len[Edges \ T] \in [Vertices -> Nat]}
<1>3. ASSUME NEW T \in SUBSET Edges, \A U \in SUBSET T : U # T => U \in G PROVE T \in G
  <2>1. PICK u : u = Edges \ T
    OBVIOUS
  <2>2. ASSUME NEW e \in T PROVE len[u \cup {e}] \in [Vertices -> Nat]
    <3>1. T \ {e} \in G
      BY <1>3
    <3>2. Edges \ (T \ {e}) = u \cup {e}
      BY <2>1
    <3>3. QED
      BY <3>1, <3>2
  <2>3. ASSUME NEW v \in Vertices PROVE WayOn(b, r, p, len, u, v) \in Nat
    <3>1. PICK next : next = {f \in EdgesAt(v) \ u : r[f] = p}
      OBVIOUS
    <3>2. ASSUME NEW e \in next PROVE len[u \cup {e}][Other(e, v)] \in Nat
      <4>1. e \in T /\ Other(e, v) \in Vertices
        BY <2>1, <3>1, OtherEnd DEF EdgesAt
      <4>2. len[u \cup {e}] \in [Vertices -> Nat]
        BY <2>2, <4>1
      <4>3. QED
        BY <4>1, <4>2
    <3>3. QED
      BY <3>1, <3>2, WayFacts
  <2>4. [v \in Vertices |-> WayOn(b, r, p, len, u, v)] \in [Vertices -> Nat]
    BY <2>3
  <2>5. len[u] = [v \in Vertices |-> WayOn(b, r, p, len, u, v)]
    <3>1. len[u] = WaysOn(b, r, p, len, u)
      BY <1>2, <2>1
    <3>2. QED
      BY <3>1 DEF WaysOn
  <2>6. len[u] \in [Vertices -> Nat]
    BY <2>4, <2>5
  <2>7. QED
    BY <2>1, <2>6
<1>4. Edges \ used \in G
  <2>1. PICK T : T = Edges \ used
    OBVIOUS
  <2>2. IsFiniteSet(T)
    BY <2>1, EdgesFinite
  <2>3. \A S \in SUBSET T : (\A U \in SUBSET S : U # S => U \in G) => S \in G
    BY <1>3, <2>1
  <2>4. T \in G
    <3> HIDE DEF G
    <3>1. QED
      BY <2>2, <2>3, SubsetInduction
  <2>5. QED
    BY <2>1, <2>4
<1>5. Edges \ (Edges \ used) = used
  OBVIOUS
<1>6. QED
  BY <1>1, <1>4, <1>5

\* The length of a road is that of a way that starts with one of the roads, and
\* no such way is longer.
LEMMA LengthFacts ==
  ASSUME NEW b, NEW r, NEW p, NEW len, len = TrailLengthFrom(b, r, p)
  PROVE  /\ LongestRoadLength(b, r, p) \in Nat
         /\ \A e \in Roads(r, p) : \A v \in e : 1 + len[{e}][v] <= LongestRoadLength(b, r, p)
         /\ LongestRoadLength(b, r, p) # 0 =>
              \E e \in Roads(r, p) : \E v \in e : LongestRoadLength(b, r, p) = 1 + len[{e}][v]
<1>1. PICK ways : ways = {ev \in Roads(r, p) \X Vertices : ev[2] \in ev[1]}
  OBVIOUS
<1>2. PICK numbers : numbers = {1 + len[{way[1]}][way[2]] : way \in ways}
  OBVIOUS
<1>3. ASSUME NEW way \in ways PROVE 1 + len[{way[1]}][way[2]] \in Nat
  <2>1. {way[1]} \in SUBSET Edges /\ way[2] \in Vertices
    BY <1>1 DEF Roads
  <2>2. len[{way[1]}] \in [Vertices -> Nat]
    BY <2>1, TrailType
  <2>3. len[{way[1]}][way[2]] \in Nat
    BY <2>1, <2>2
  <2>4. QED
    BY <2>3
<1>4. IsFiniteSet(numbers)
  <2>1. IsFiniteSet(Roads(r, p)) /\ IsFiniteSet(Vertices)
    BY EdgesFinite, SizeFacts DEF Roads
  <2>2. IsFiniteSet(Roads(r, p) \X Vertices)
    BY <2>1, FS_Product
  <2>3. ways \subseteq Roads(r, p) \X Vertices
    BY <1>1
  <2>4. IsFiniteSet(ways)
    BY <2>2, <2>3, FS_Subset
  <2>5. PICK f : f = [way \in ways |-> 1 + len[{way[1]}][way[2]]]
    OBVIOUS
  <2>6. f \in Surjection(ways, numbers)
    BY <1>2, <2>5 DEF Surjection
  <2>7. QED
    BY <2>4, <2>6, FS_Surjection
<1>5. PICK all : all = {0} \cup numbers
  OBVIOUS
<1>6. all \in SUBSET Nat /\ all # {} /\ IsFiniteSet(all)
  <2>1. numbers \subseteq Nat
    BY <1>2, <1>3
  <2>2. IsFiniteSet({0})
    BY FS_Singleton
  <2>3. IsFiniteSet({0} \cup numbers)
    BY <1>4, <2>2, FS_Union
  <2>4. QED
    BY <1>5, <2>1, <2>3
<1>7. PICK max : max = Max(all)
  OBVIOUS
<1>8. max \in all /\ (\A y \in all : y <= max) /\ max \in Nat
  BY <1>6, <1>7, MaxOfNumbers
<1>9. LongestRoadLength(b, r, p) = max
  BY <1>1, <1>2, <1>5, <1>7 DEF LongestRoadLength
<1>10. ASSUME NEW e \in Roads(r, p), NEW v \in e PROVE 1 + len[{e}][v] <= max
  <2>1. e \subseteq Vertices
    BY BoardAssumption DEF Roads, BoardAssumption
  <2>2. PICK way : way = <<e, v>>
    OBVIOUS
  <2>3. way \in ways /\ way[1] = e /\ way[2] = v
    BY <1>1, <2>1, <2>2
  <2>4. QED
    BY <1>2, <1>5, <1>8, <2>3
<1>11. ASSUME max # 0 PROVE \E e \in Roads(r, p) : \E v \in e : max = 1 + len[{e}][v]
  <2>1. max \in numbers
    BY <1>5, <1>8, <1>11
  <2>2. PICK way \in ways : max = 1 + len[{way[1]}][way[2]]
    BY <1>2, <2>1
  <2>3. way[1] \in Roads(r, p) /\ way[2] \in way[1]
    BY <1>1
  <2>4. QED
    BY <2>2, <2>3
<1>12. QED
  BY <1>8, <1>9, <1>10, <1>11

\* The length of a road is a number.
LEMMA LengthType ==
  ASSUME NEW b, NEW r, NEW p
  PROVE  LongestRoadLength(b, r, p) \in Nat
  BY LengthFacts

-----------------------------------------------------------------------------
(* The awards: who holds one, and how it changes hands.                    *)

\* An award goes to a player with the most, and at least the minimum; its
\* holder keeps it unless somebody has more or the minimum is lost.
LEMMA HolderFacts ==
  ASSUME NEW value \in [Players -> Nat], NEW holder \in Players \cup {None}, NEW minimum \in Nat,
         NEW h, h = Holder(value, holder, minimum)
  PROVE  /\ h \in Players \cup {None}
         /\ h # None => value[h] >= minimum /\ \A q \in Players : value[q] <= value[h]
         /\ holder # None /\ h # holder =>
              value[holder] < minimum \/ \E q \in Players : value[q] > value[holder]
         /\ \A p \in Players : value[p] >= minimum /\ (\A q \in Players \ {p} : value[q] < value[p]) => h = p
         /\ \A p \in Players : /\ holder = p /\ value[p] >= minimum
                               /\ \A q \in Players : value[q] <= value[p]
                               => h = p
<1>1. PICK numbers : numbers = {value[p] : p \in Players}
  OBVIOUS
<1>2. numbers \in SUBSET Nat /\ numbers # {} /\ IsFiniteSet(numbers)
  <2>1. Players # {} /\ IsFiniteSet(Players)
    BY SeatFacts, SizeFacts
  <2>2. value \in Surjection(Players, numbers)
    BY <1>1 DEF Surjection
  <2>3. IsFiniteSet(numbers)
    BY <2>1, <2>2, FS_Surjection
  <2>4. QED
    BY <1>1, <2>1, <2>3
<1>3. PICK best : best = Max(numbers)
  OBVIOUS
<1>4. best \in Nat /\ (\E p \in Players : value[p] = best) /\ \A p \in Players : value[p] <= best
  BY <1>1, <1>2, <1>3, MaxOfNumbers
<1>5. PICK leaders : leaders = {p \in Players : value[p] = best}
  OBVIOUS
<1>6. h = IF best < minimum THEN None
          ELSE IF holder \in leaders THEN holder
          ELSE IF Cardinality(leaders) = 1 THEN CHOOSE p \in leaders : TRUE ELSE None
  BY <1>1, <1>3, <1>5 DEF Holder
<1>7. h = None \/ (h \in leaders /\ best >= minimum)
  <2>1. leaders # {}
    BY <1>4, <1>5
  <2>2. (CHOOSE p \in leaders : TRUE) \in leaders
    BY <2>1
  <2>3. QED
    BY <1>4, <1>6, <2>2
<1>8. h \in Players \cup {None}
  BY <1>5, <1>7
<1>9. h # None => value[h] >= minimum /\ \A q \in Players : value[q] <= value[h]
  BY <1>4, <1>5, <1>7
<1>10. ASSUME holder # None, h # holder
       PROVE  value[holder] < minimum \/ \E q \in Players : value[q] > value[holder]
  <2>1. holder \in Players /\ value[holder] \in Nat
    BY <1>10
  <2>2. CASE best < minimum
    BY <1>4, <2>1, <2>2
  <2>3. CASE holder \notin leaders
    <3>1. value[holder] < best
      BY <1>4, <1>5, <2>1, <2>3
    <3>2. QED
      BY <1>4, <3>1
  <2>4. QED
    BY <1>6, <1>10, <2>2, <2>3
<1>11. ASSUME NEW p \in Players, value[p] >= minimum, \A q \in Players \ {p} : value[q] < value[p]
       PROVE  h = p
  <2>1. best = value[p]
    BY <1>4, <1>11
  <2>2. leaders = {p}
    BY <1>5, <1>11, <2>1
  <2>3. Cardinality(leaders) = 1 /\ (CHOOSE o \in leaders : TRUE) = p
    BY <2>2, FS_Singleton
  <2>4. holder \in leaders => holder = p
    BY <2>2
  <2>5. QED
    BY <1>4, <1>6, <1>11, <2>1, <2>3, <2>4
<1>12. ASSUME NEW p \in Players, holder = p, value[p] >= minimum, \A q \in Players : value[q] <= value[p]
       PROVE  h = p
  <2>1. best = value[p]
    BY <1>4, <1>12
  <2>2. QED
    BY <1>4, <1>5, <1>6, <1>12, <2>1
<1>13. QED
  BY <1>8, <1>9, <1>10, <1>11, <1>12

\* The awards have holders that deserve them.
AwardsFit ==
  /\ awards.road \in Players \cup {None} /\ awards.army \in Players \cup {None}
  /\ knights \in [Players -> Nat]
  /\ LongestRoad /\ LargestArmy

\* Awards that are settled anew are earned, whatever was built.
LEMMA ReconciledFits ==
  ASSUME AwardsFit, NEW b, NEW r, NEW kn \in [Players -> Nat], buildings' = b, roads' = r, knights' = kn,
         awards' = Reconciled(b, r, kn),
         \/ kn = knights
         \/ \E p \in Players : kn = [knights EXCEPT ![p] = @ + 1]
  PROVE  AwardsFit' /\ Earned
<1>1. MinRoad \in Nat /\ MinArmy \in Nat
  BY EngineAssumption DEF EngineAssumption
<1>2. PICK length : length = [q \in Players |-> LongestRoadLength(b, r, q)]
  OBVIOUS
<1>3. length \in [Players -> Nat] /\ \A q \in Players : length[q] = LongestRoadLength(b, r, q)
  BY <1>2, LengthType
<1>4. PICK road, army, oldRoad, oldArmy :
        /\ road = Holder(length, awards.road, MinRoad) /\ army = Holder(kn, awards.army, MinArmy)
        /\ oldRoad = awards.road /\ oldArmy = awards.army
  OBVIOUS
<1>5. oldRoad \in Players \cup {None} /\ oldArmy \in Players \cup {None}
  BY <1>4 DEF AwardsFit
<1>6. awards'.road = road /\ awards'.army = army
  BY <1>2, <1>4 DEF Reconciled
<1>7. /\ road \in Players \cup {None}
      /\ road # None => length[road] >= MinRoad /\ \A q \in Players : length[q] <= length[road]
      /\ oldRoad # None /\ road # oldRoad =>
           length[oldRoad] < MinRoad \/ \E q \in Players : length[q] > length[oldRoad]
  <2>1. PICK low : low = MinRoad
    OBVIOUS
  <2>2. low \in Nat /\ road = Holder(length, oldRoad, low)
    BY <1>1, <1>4, <2>1
  <2>3. length \in [Players -> Nat] /\ oldRoad \in Players \cup {None}
    BY <1>3, <1>5
  <2>4. QED
    BY <2>1, <2>2, <2>3, HolderFacts
<1>8. /\ army \in Players \cup {None}
      /\ army # None => kn[army] >= MinArmy /\ \A q \in Players : kn[q] <= kn[army]
  BY <1>1, <1>4, <1>5, HolderFacts
<1>9. LongestRoad'
  <2>1. road # None => /\ LongestRoadLength(b, r, road) >= MinRoad
                       /\ \A q \in Players : LongestRoadLength(b, r, q) <= LongestRoadLength(b, r, road)
    BY <1>3, <1>7
  <2>2. QED
    BY <1>6, <2>1 DEF LongestRoad
<1>10. LargestArmy'
  BY <1>6, <1>8 DEF LargestArmy
<1>11. AwardsFit'
  BY <1>6, <1>7, <1>8, <1>9, <1>10 DEF AwardsFit
<1>12. ASSUME oldRoad # None, road # oldRoad
       PROVE  \/ road # None /\ LongestRoadLength(b, r, road) > LongestRoadLength(b, r, oldRoad)
              \/ LongestRoadLength(b, r, oldRoad) < MinRoad
              \/ \E q \in Players : LongestRoadLength(b, r, q) > LongestRoadLength(b, r, oldRoad)
  BY <1>3, <1>5, <1>7, <1>12
<1>13. ASSUME oldArmy # None, army # oldArmy
       PROVE  army # None /\ kn[army] > kn[oldArmy]
  <2>1. oldArmy \in Players /\ knights \in [Players -> Nat]
    BY <1>5, <1>13 DEF AwardsFit
  <2>2. knights[oldArmy] >= MinArmy /\ \A q \in Players : knights[q] <= knights[oldArmy]
    BY <1>4, <1>13 DEF AwardsFit, LargestArmy
  <2>3. ASSUME kn[oldArmy] >= MinArmy, \A q \in Players : kn[q] <= kn[oldArmy] PROVE FALSE
    <3>1. army = oldArmy
      BY <1>1, <1>4, <1>5, <2>1, <2>3, HolderFacts
    <3>2. QED
      BY <1>13, <3>1
  <2>4. kn # knights
    BY <2>2, <2>3
  <2>5. PICK p \in Players : kn = [knights EXCEPT ![p] = @ + 1]
    BY <2>4
  <2>6. kn[p] = knights[p] + 1 /\ \A q \in Players \ {p} : kn[q] = knights[q]
    BY <2>1, <2>5
  <2>7. p # oldArmy
    BY <1>1, <2>1, <2>2, <2>3, <2>6
  <2>8. kn[p] > kn[oldArmy]
    BY <1>1, <2>1, <2>2, <2>3, <2>6, <2>7
  <2>9. kn[p] >= MinArmy /\ \A q \in Players \ {p} : kn[q] < kn[p]
    BY <1>1, <2>1, <2>2, <2>6, <2>7, <2>8
  <2>10. army = p
    BY <1>1, <1>4, <1>5, <2>9, HolderFacts
  <2>11. QED
    BY <2>8, <2>10, SeatFacts
<1>14. Earned
  BY <1>4, <1>6, <1>12, <1>13 DEF Earned
<1>15. QED
  BY <1>11, <1>14

\* Commands that build nothing and play no knight.
LEMMA AwardsStay ==
  ASSUME AwardsFit, buildings' = buildings, roads' = roads, knights' = knights, awards' = awards
  PROVE  AwardsFit' /\ Earned
<1>1. LongestRoad' /\ LargestArmy'
  BY DEF AwardsFit, LongestRoad, LargestArmy
<1>2. QED
  BY <1>1 DEF AwardsFit, Earned

\* In the setup nobody holds an award.
LEMMA SetupAwards ==
  ASSUME TurnInvariant, ScoreFits, AwardsFit, NEW p,
         (\E v : PlaceInitialSettlement(p, v)) \/ (\E e : PlaceInitialRoad(p, e))
  PROVE  AwardsFit' /\ Earned
<1>1. Setup /\ awards' = awards /\ knights' = knights
  BY DEF PlaceInitialSettlement, AcceptsInitialSettlement, PlaceInitialRoad, AcceptsInitialRoad, InTurn, Setup
<1>2. awards.road = None /\ awards.army = None
  BY <1>1 DEF ScoreFits, SetupScore
<1>3. LongestRoad' /\ LargestArmy'
  BY <1>1, <1>2 DEF LongestRoad, LargestArmy
<1>4. QED
  BY <1>1, <1>2, <1>3 DEF AwardsFit, Earned

\* Building and buying settle the awards anew.
LEMMA BuildAwards ==
  ASSUME TurnInvariant, AwardsFit, NEW p,
         \/ \E e : BuildRoad(p, e)
         \/ \E v : BuildSettlement(p, v) \/ UpgradeCity(p, v)
         \/ BuyCard(p)
         \/ \E e : PlaceFreeRoad(p, e)
  PROVE  AwardsFit' /\ Earned
<1>1. PICK kn : kn = knights
  OBVIOUS
<1>2. kn \in [Players -> Nat]
  BY <1>1 DEF AwardsFit
<1>3. \E b, r : buildings' = b /\ roads' = r /\ knights' = kn /\ awards' = Reconciled(b, r, kn)
  <2>1. ASSUME NEW e, BuildRoad(p, e)
        PROVE  \E b, r : buildings' = b /\ roads' = r /\ knights' = kn /\ awards' = Reconciled(b, r, kn)
    <3>1. PICK b, r : b = buildings /\ r = [roads EXCEPT ![e] = p]
      OBVIOUS
    <3>2. QED
      BY <1>1, <2>1, <3>1 DEF BuildRoad, Reconcile
  <2>2. ASSUME NEW v, BuildSettlement(p, v)
        PROVE  \E b, r : buildings' = b /\ roads' = r /\ knights' = kn /\ awards' = Reconciled(b, r, kn)
    <3>1. PICK b, r : b = [buildings EXCEPT ![v] = Building(p, "SETTLEMENT")] /\ r = roads
      OBVIOUS
    <3>2. QED
      BY <1>1, <2>2, <3>1 DEF BuildSettlement, Reconcile
  <2>3. ASSUME NEW v, UpgradeCity(p, v)
        PROVE  \E b, r : buildings' = b /\ roads' = r /\ knights' = kn /\ awards' = Reconciled(b, r, kn)
    <3>1. PICK b, r : b = [buildings EXCEPT ![v] = Building(p, "CITY")] /\ r = roads
      OBVIOUS
    <3>2. QED
      BY <1>1, <2>3, <3>1 DEF UpgradeCity, Reconcile
  <2>4. ASSUME BuyCard(p)
        PROVE  \E b, r : buildings' = b /\ roads' = r /\ knights' = kn /\ awards' = Reconciled(b, r, kn)
    <3>1. PICK b, r : b = buildings /\ r = roads
      OBVIOUS
    <3>2. QED
      BY <1>1, <2>4, <3>1 DEF BuyCard, Reconcile, board
  <2>5. ASSUME NEW e, PlaceFreeRoad(p, e)
        PROVE  \E b, r : buildings' = b /\ roads' = r /\ knights' = kn /\ awards' = Reconciled(b, r, kn)
    <3>1. PICK b, r : b = buildings /\ r = [roads EXCEPT ![e] = p]
      OBVIOUS
    <3>2. QED
      BY <1>1, <2>5, <3>1 DEF PlaceFreeRoad
  <2>6. QED
    BY <2>1, <2>2, <2>3, <2>4, <2>5
<1>4. PICK b, r : buildings' = b /\ roads' = r /\ knights' = kn /\ awards' = Reconciled(b, r, kn)
  BY <1>3
<1>5. QED
  BY <1>1, <1>2, <1>4, ReconciledFits

\* A knight that is played settles the awards anew; other cards do not.
LEMMA CardAwards ==
  ASSUME TurnInvariant, AwardsFit, NEW p \in Players, NEW c, PlayCard(p, c)
  PROVE  AwardsFit' /\ Earned
<1>1. buildings' = buildings /\ roads' = roads
  BY DEF PlayCard, board
<1>2. CASE CardType[c.card] = "KNIGHT"
  <2>1. PICK b, r, kn : b = buildings /\ r = roads /\ kn = [knights EXCEPT ![p] = @ + 1]
    OBVIOUS
  <2>2. knights' = kn /\ awards' = Reconciled(buildings, roads, knights')
    BY <1>2, <2>1 DEF PlayCard
  <2>3. awards' = Reconciled(b, r, kn)
    BY <2>1, <2>2
  <2>4. kn \in [Players -> Nat]
    BY <2>1 DEF AwardsFit
  <2>5. QED
    BY <1>1, <2>1, <2>2, <2>3, <2>4, ReconciledFits
<1>3. CASE CardType[c.card] # "KNIGHT"
  <2>1. knights' = knights /\ awards' = awards
    BY <1>3 DEF PlayCard
  <2>2. QED
    BY <1>1, <2>1, AwardsStay
<1>4. QED
  BY <1>2, <1>3

\* The commands that leave the board, the knights and the awards alone.
LEMMA OthersAward ==
  ASSUME AwardsFit, NEW p,
         \/ \E total \in Dice : RollDice(p, total)
         \/ \E bag \in Discards(p) : DiscardResources(p, bag)
         \/ \E t \in Tiles : MoveRobber(p, t)
         \/ \E q \in Players, x \in Resources : StealFrom(p, q, x)
         \/ FinishFreeRoads(p) \/ AcceptTrade(p) \/ RejectTrade(p) \/ EndTurn(p)
         \/ \E bag \in Inventions : ChooseInvention(p, bag)
         \/ \E x \in Resources : ChooseMonopoly(p, x)
         \/ \E q \in Players, t \in Terms : ProposeTrade(p, q, t.gives, t.gets)
         \/ \E t \in Terms : CounterTrade(p, t.gives, t.gets)
         \/ \E give \in Resources, get \in Transferable : MaritimeTrade(p, give, get)
  PROVE  AwardsFit' /\ Earned
<1>1. buildings' = buildings /\ roads' = roads /\ knights' = knights /\ awards' = awards
  BY Zenon DEF RollDice, DiscardResources, MoveRobber, StealFrom, FinishFreeRoads, AcceptTrade, RejectTrade, EndTurn,
         ChooseInvention, ChooseMonopoly, ProposeTrade, CounterTrade, MaritimeTrade, board
<1>2. QED
  BY <1>1, AwardsStay

\* Awards are earned, and their holders deserve them after every command.
LEMMA AwardStep ==
  ASSUME TurnInvariant, ScoreFits, AwardsFit, [Next]_vars
  PROVE  AwardsFit' /\ Earned
<1>1. CASE UNCHANGED vars
  BY <1>1, AwardsStay DEF vars
<1>2. CASE Stopped
  BY <1>1, <1>2 DEF Stopped
<1>3. ASSUME NEW p \in Players, PlayerStep(p) PROVE AwardsFit' /\ Earned
  <2>1. CASE (\E v \in SetupSites : PlaceInitialSettlement(p, v)) \/ (\E e \in Edges : PlaceInitialRoad(p, e))
    BY <2>1, SetupAwards
  <2>2. CASE \/ \E e \in Edges : BuildRoad(p, e) \/ PlaceFreeRoad(p, e)
             \/ \E v \in Vertices : BuildSettlement(p, v) \/ UpgradeCity(p, v)
             \/ BuyCard(p)
    BY <2>2, BuildAwards
  <2>3. CASE \E c \in cards[p] : PlayCard(p, c)
    BY <2>3, CardAwards
  <2>4. CASE \/ \E total \in Dice : RollDice(p, total)
             \/ \E bag \in Discards(p) : DiscardResources(p, bag)
             \/ \E t \in Tiles : MoveRobber(p, t)
             \/ \E q \in Players, x \in Resources : StealFrom(p, q, x)
             \/ FinishFreeRoads(p) \/ AcceptTrade(p) \/ RejectTrade(p) \/ EndTurn(p)
             \/ \E bag \in Inventions : ChooseInvention(p, bag)
             \/ \E x \in Resources : ChooseMonopoly(p, x)
             \/ \E q \in Players, t \in Terms : ProposeTrade(p, q, t.gives, t.gets)
             \/ \E t \in Terms : CounterTrade(p, t.gives, t.gets)
             \/ \E give \in Resources, get \in Transferable : MaritimeTrade(p, give, get)
    BY <2>4, OthersAward
  <2>5. QED
    BY <1>3, <2>1, <2>2, <2>3, <2>4, Zenon DEF PlayerStep
<1>4. QED
  BY <1>1, <1>2, <1>3 DEF Next

\* A new game has given no award.
LEMMA AwardInit ==
  ASSUME Init
  PROVE  AwardsFit
<1>1. PICK kn : kn = [q \in Players |-> 0]
  OBVIOUS
<1>2. awards.road = None /\ awards.army = None /\ knights = kn
  BY <1>1 DEF Init
<1>3. kn \in [Players -> Nat]
  BY <1>1
<1>4. QED
  BY <1>2, <1>3 DEF AwardsFit, LongestRoad, LargestArmy

\* Whoever holds an award has the minimum for it, and nobody has more.
THEOREM HoldersDeserve == Spec => [](LongestRoad /\ LargestArmy)
<1>1. Init => TurnInvariant /\ ScoreFits /\ AwardsFit
  BY TurnInit, ScoreInit, AwardInit
<1>2. TurnInvariant /\ CardsFit /\ ScoreFits /\ AwardsFit /\ [Next]_vars => ScoreFits' /\ AwardsFit'
  BY ScoreStep, AwardStep
<1>3. AwardsFit => LongestRoad /\ LargestArmy
  BY DEF AwardsFit
<1>4. QED
  BY <1>1, <1>2, <1>3, TurnsHold, PTL DEF Spec

\* An award is taken from its holder by a player with strictly more, or by
\* an opponent's settlement that breaks the road; a tie changes nothing.
THEOREM AwardsAreEarnedHolds == Spec => AwardsAreEarned
<1>1. Init => TurnInvariant /\ ScoreFits /\ AwardsFit
  BY TurnInit, ScoreInit, AwardInit
<1>2. TurnInvariant /\ CardsFit /\ ScoreFits /\ AwardsFit /\ [Next]_vars => ScoreFits' /\ AwardsFit' /\ Earned
  BY ScoreStep, AwardStep
<1>3. QED
  BY <1>1, <1>2, TurnsHold, PTL DEF Spec, AwardsAreEarned

-----------------------------------------------------------------------------
(* The board: what stands on it is a player's, and nobody has more pieces  *)
(* than come with the game.                                                *)

\* The pieces of every player.
WithinLimits(b, r) ==
  \A q \in Players : /\ Cardinality(Roads(r, q)) <= RoadLimit
                     /\ Cardinality(Settlements(b, q)) <= SettlementLimit
                     /\ Cardinality(Cities(b, q)) <= CityLimit

RoadsType(r) == r \in [Edges -> Players \cup {None}]

BoardFits == RoadsType(roads) /\ robber \in Tiles /\ WithinLimits(buildings, roads)

\* A road on a free edge is one more.
LEMMA RoadAdded ==
  ASSUME NEW b, NEW r, RoadsType(r), WithinLimits(b, r), NEW p \in Players, NEW e \in Edges, r[e] = None,
         Cardinality(Roads(r, p)) < RoadLimit
  PROVE  RoadsType([r EXCEPT ![e] = p]) /\ WithinLimits(b, [r EXCEPT ![e] = p])
<1>1. PICK n : n = [r EXCEPT ![e] = p]
  OBVIOUS
<1>2. RoadsType(n)
  BY <1>1 DEF RoadsType
<1>3. \A f \in Edges : n[f] = IF f = e THEN p ELSE r[f]
  BY <1>1 DEF RoadsType
<1>4. ASSUME NEW q \in Players PROVE Cardinality(Roads(n, q)) <= RoadLimit
  <2>1. CASE q = p
    <3>1. PICK R : R = Roads(r, p)
      OBVIOUS
    <3>2. Roads(n, p) = R \cup {e} /\ e \notin R
      BY <1>3, <3>1, SeatFacts DEF Roads
    <3>3. IsFiniteSet(R) /\ Cardinality(R) \in Nat
      BY <3>1, EdgesFinite DEF Roads
    <3>4. Cardinality(R \cup {e}) = Cardinality(R) + 1
      BY <3>2, <3>3, FS_AddElement
    <3>5. QED
      BY <2>1, <3>1, <3>2, <3>3, <3>4, BoardAssumption DEF BoardAssumption
  <2>2. CASE q # p
    <3>1. Roads(n, q) = Roads(r, q)
      BY <1>3, <2>2, SeatFacts DEF Roads
    <3>2. QED
      BY <3>1 DEF WithinLimits
  <2>3. QED
    BY <2>1, <2>2
<1>5. WithinLimits(b, n)
  BY <1>4 DEF WithinLimits
<1>6. QED
  BY <1>1, <1>2, <1>5

\* What is on a vertex, after a building.
LEMMA OnVertex ==
  ASSUME NEW b, BuildingsType(b), NEW p, NEW v \in Vertices, NEW kind
  PROVE  \A u \in Vertices : [b EXCEPT ![v] = Building(p, kind)][u] = IF u = v THEN Building(p, kind) ELSE b[u]
<1>1. PICK x : x = Building(p, kind)
  OBVIOUS
<1>2. \A u \in Vertices : [b EXCEPT ![v] = x][u] = IF u = v THEN x ELSE b[u]
  BY DEF BuildingsType
<1>3. QED
  BY <1>1, <1>2

\* Buildings that differ in their owner or kind.
LEMMA BuildingFacts ==
  /\ \A p, q : Building(p, "SETTLEMENT") # Building(q, "CITY")
  /\ \A p, q, kind : Building(p, kind) = Building(q, kind) => p = q
  /\ \A p \in Players : \A kind : Building(p, kind) # Unbuilt
  BY SeatFacts DEF Building, Unbuilt

\* A settlement on a free vertex is one more.
LEMMA SettlementAdded ==
  ASSUME NEW b, NEW r, BuildingsType(b), WithinLimits(b, r), NEW p \in Players, NEW v \in Vertices, b[v] = Unbuilt,
         Cardinality(Settlements(b, p)) < SettlementLimit
  PROVE  WithinLimits([b EXCEPT ![v] = Building(p, "SETTLEMENT")], r)
<1>1. PICK n : n = [b EXCEPT ![v] = Building(p, "SETTLEMENT")]
  OBVIOUS
<1>2. \A u \in Vertices : n[u] = IF u = v THEN Building(p, "SETTLEMENT") ELSE b[u]
  BY <1>1, OnVertex
<1>3. ASSUME NEW q \in Players PROVE Cities(n, q) = Cities(b, q)
  BY <1>2, BuildingFacts DEF Cities
<1>4. ASSUME NEW q \in Players PROVE Cardinality(Settlements(n, q)) <= SettlementLimit
  <2>1. CASE q = p
    <3>1. PICK S : S = Settlements(b, p)
      OBVIOUS
    <3>2. Settlements(n, p) = S \cup {v} /\ v \notin S
      BY <1>2, <3>1, BuildingFacts DEF Settlements
    <3>3. IsFiniteSet(S) /\ Cardinality(S) \in Nat
      BY <3>1, SizeFacts DEF Settlements
    <3>4. Cardinality(S \cup {v}) = Cardinality(S) + 1
      BY <3>2, <3>3, FS_AddElement
    <3>5. QED
      BY <2>1, <3>1, <3>2, <3>3, <3>4, BoardAssumption DEF BoardAssumption
  <2>2. CASE q # p
    <3>1. Settlements(n, q) = Settlements(b, q)
      BY <1>2, <2>2, BuildingFacts DEF Settlements
    <3>2. QED
      BY <3>1 DEF WithinLimits
  <2>3. QED
    BY <2>1, <2>2
<1>5. WithinLimits(n, r)
  BY <1>3, <1>4 DEF WithinLimits
<1>6. QED
  BY <1>1, <1>5

\* A city takes the place of a settlement.
LEMMA CityAdded ==
  ASSUME NEW b, NEW r, BuildingsType(b), WithinLimits(b, r), NEW p \in Players, NEW v \in Vertices,
         b[v] = Building(p, "SETTLEMENT"), Cardinality(Cities(b, p)) < CityLimit
  PROVE  WithinLimits([b EXCEPT ![v] = Building(p, "CITY")], r)
<1>1. PICK n : n = [b EXCEPT ![v] = Building(p, "CITY")]
  OBVIOUS
<1>2. \A u \in Vertices : n[u] = IF u = v THEN Building(p, "CITY") ELSE b[u]
  BY <1>1, OnVertex
<1>3. ASSUME NEW q \in Players PROVE Cardinality(Settlements(n, q)) <= SettlementLimit
  <2>1. PICK S, T : S = Settlements(b, q) /\ T = Settlements(n, q)
    OBVIOUS
  <2>2. T \subseteq S
    BY <1>2, <2>1, BuildingFacts DEF Settlements
  <2>3. IsFiniteSet(S) /\ Cardinality(S) \in Nat /\ Cardinality(T) \in Nat
    BY <2>1, SizeFacts DEF Settlements
  <2>4. Cardinality(T) <= Cardinality(S)
    BY <2>2, <2>3, FS_Subset
  <2>5. Cardinality(S) <= SettlementLimit /\ SettlementLimit \in Nat
    BY <2>1, BoardAssumption DEF WithinLimits, BoardAssumption
  <2>6. QED
    BY <2>1, <2>3, <2>4, <2>5
<1>4. ASSUME NEW q \in Players PROVE Cardinality(Cities(n, q)) <= CityLimit
  <2>1. CASE q = p
    <3>1. PICK C : C = Cities(b, p)
      OBVIOUS
    <3>2. Cities(n, p) = C \cup {v} /\ v \notin C
      BY <1>2, <3>1, BuildingFacts DEF Cities
    <3>3. IsFiniteSet(C) /\ Cardinality(C) \in Nat
      BY <3>1, SizeFacts DEF Cities
    <3>4. Cardinality(C \cup {v}) = Cardinality(C) + 1
      BY <3>2, <3>3, FS_AddElement
    <3>5. QED
      BY <2>1, <3>1, <3>2, <3>3, <3>4, BoardAssumption DEF BoardAssumption
  <2>2. CASE q # p
    <3>1. Cities(n, q) = Cities(b, q)
      BY <1>2, <2>2, BuildingFacts DEF Cities
    <3>2. QED
      BY <3>1 DEF WithinLimits
  <2>3. QED
    BY <2>1, <2>2
<1>5. WithinLimits(n, r)
  BY <1>3, <1>4 DEF WithinLimits
<1>6. QED
  BY <1>1, <1>5

\* The places of the setup are on the board.
LEMMA SitesOnBoard ==
  ASSUME TurnInvariant
  PROVE  SetupSites \subseteq Vertices
<1>1. CASE turn.setup = None
  BY <1>1 DEF SetupSites
<1>2. CASE turn.setup # None
  <2>1. turn.setup \in Setups
    BY <1>2 DEF TurnInvariant, TurnFits, TurnType
  <2>2. PICK i, round : i = turn.setup.index + 1 /\ round = turn.setup.round
    OBVIOUS
  <2>3. i \in 1..Len(Seats) /\ round \in {1, 2}
    BY <2>1, <2>2, SeatFacts DEF Setups, N
  <2>4. Sites[<<i, round>>] \subseteq Vertices
    BY <2>3, EngineAssumption DEF EngineAssumption
  <2>5. QED
    BY <1>2, <2>2, <2>4 DEF SetupSites
<1>3. QED
  BY <1>1, <1>2

\* Commands that build nothing.
LEMMA BoardStays ==
  ASSUME BoardFits, buildings' = buildings, roads' = roads, robber' \in Tiles
  PROVE  BoardFits'
  BY DEF BoardFits

\* What is built was free, and there was a piece left for it.
LEMMA BuildFits ==
  ASSUME TurnInvariant, ScoreFits, BoardFits, NEW p \in Players,
         \/ \E v \in SetupSites : PlaceInitialSettlement(p, v)
         \/ \E e \in Edges : PlaceInitialRoad(p, e) \/ BuildRoad(p, e) \/ PlaceFreeRoad(p, e)
         \/ \E v \in Vertices : BuildSettlement(p, v) \/ UpgradeCity(p, v)
  PROVE  BoardFits'
<1>1. PICK b, r : b = buildings /\ r = roads
  OBVIOUS
<1>2. BuildingsType(b) /\ RoadsType(r) /\ WithinLimits(b, r) /\ robber \in Tiles
  BY <1>1 DEF ScoreFits, BoardFits
<1>3. ASSUME NEW e \in Edges, r[e] = None, Cardinality(Roads(r, p)) < RoadLimit,
             roads' = [roads EXCEPT ![e] = p], buildings' = buildings, robber' = robber
      PROVE  BoardFits'
  <2>1. PICK n : n = [r EXCEPT ![e] = p]
    OBVIOUS
  <2>2. RoadsType(n) /\ WithinLimits(b, n)
    BY <1>2, <1>3, <2>1, RoadAdded
  <2>3. roads' = n /\ buildings' = b
    BY <1>1, <1>3, <2>1
  <2>4. QED
    BY <1>2, <1>3, <2>2, <2>3 DEF BoardFits
<1>4. ASSUME NEW v \in Vertices, b[v] = Unbuilt, Cardinality(Settlements(b, p)) < SettlementLimit,
             buildings' = [buildings EXCEPT ![v] = Building(p, "SETTLEMENT")], roads' = roads, robber' = robber
      PROVE  BoardFits'
  <2>1. PICK n : n = [b EXCEPT ![v] = Building(p, "SETTLEMENT")]
    OBVIOUS
  <2>2. WithinLimits(n, r)
    BY <1>2, <1>4, <2>1, SettlementAdded
  <2>3. roads' = r /\ buildings' = n
    BY <1>1, <1>4, <2>1
  <2>4. QED
    BY <1>2, <1>4, <2>2, <2>3 DEF BoardFits
<1>5. ASSUME NEW v \in SetupSites, PlaceInitialSettlement(p, v) PROVE BoardFits'
  <2>1. v \in Vertices
    BY SitesOnBoard
  <2>2. /\ b[v] = Unbuilt /\ Cardinality(Settlements(b, p)) < SettlementLimit
        /\ buildings' = [buildings EXCEPT ![v] = Building(p, "SETTLEMENT")] /\ roads' = roads /\ robber' = robber
    BY <1>1, <1>5 DEF PlaceInitialSettlement, AcceptsInitialSettlement, ValidInitialSettlement, Free
  <2>3. QED
    BY <1>4, <2>1, <2>2
<1>6. ASSUME NEW v \in Vertices, BuildSettlement(p, v) PROVE BoardFits'
  <2>1. /\ b[v] = Unbuilt /\ Cardinality(Settlements(b, p)) < SettlementLimit
        /\ buildings' = [buildings EXCEPT ![v] = Building(p, "SETTLEMENT")] /\ roads' = roads /\ robber' = robber
    BY <1>1, <1>6 DEF BuildSettlement, AcceptsSettlement, ValidPaidSettlement, Free
  <2>2. QED
    BY <1>4, <2>1
<1>7. ASSUME NEW v \in Vertices, UpgradeCity(p, v) PROVE BoardFits'
  <2>1. PICK n : n = [b EXCEPT ![v] = Building(p, "CITY")]
    OBVIOUS
  <2>2. /\ b[v] = Building(p, "SETTLEMENT") /\ Cardinality(Cities(b, p)) < CityLimit
        /\ buildings' = n /\ roads' = r /\ robber' = robber
    BY <1>1, <1>7, <2>1 DEF UpgradeCity, AcceptsCity, ValidCity, Settlements
  <2>3. WithinLimits(n, r)
    BY <1>2, <2>1, <2>2, CityAdded
  <2>4. QED
    BY <1>2, <2>2, <2>3 DEF BoardFits
<1>8. ASSUME NEW e \in Edges, PlaceInitialRoad(p, e) PROVE BoardFits'
  <2>1. /\ r[e] = None /\ Cardinality(Roads(r, p)) < RoadLimit
        /\ roads' = [roads EXCEPT ![e] = p] /\ buildings' = buildings /\ robber' = robber
    BY <1>1, <1>8 DEF PlaceInitialRoad, AcceptsInitialRoad, ValidInitialRoad
  <2>2. QED
    BY <1>3, <2>1
<1>9. ASSUME NEW e \in Edges, BuildRoad(p, e) \/ PlaceFreeRoad(p, e) PROVE BoardFits'
  <2>1. /\ r[e] = None /\ Cardinality(Roads(r, p)) < RoadLimit
        /\ roads' = [roads EXCEPT ![e] = p] /\ buildings' = buildings /\ robber' = robber
    BY <1>1, <1>9 DEF BuildRoad, AcceptsRoad, PlaceFreeRoad, AcceptsFreeRoad, ValidFreeRoad
  <2>2. QED
    BY <1>3, <2>1
<1>10. QED
  BY <1>5, <1>6, <1>7, <1>8, <1>9

\* The board stays legal.
LEMMA BoardStep ==
  ASSUME TurnInvariant, ScoreFits, BoardFits, [Next]_vars
  PROVE  BoardFits'
<1>1. CASE UNCHANGED vars
  BY <1>1, BoardStays DEF vars, BoardFits
<1>2. CASE Stopped
  BY <1>1, <1>2 DEF Stopped
<1>3. ASSUME NEW p \in Players, PlayerStep(p) PROVE BoardFits'
  <2>1. CASE \/ \E v \in SetupSites : PlaceInitialSettlement(p, v)
             \/ \E e \in Edges : PlaceInitialRoad(p, e) \/ BuildRoad(p, e) \/ PlaceFreeRoad(p, e)
             \/ \E v \in Vertices : BuildSettlement(p, v) \/ UpgradeCity(p, v)
    BY <2>1, BuildFits
  <2>2. CASE \E t \in Tiles : MoveRobber(p, t)
    <3>1. buildings' = buildings /\ roads' = roads /\ robber' \in Tiles
      BY <2>2 DEF MoveRobber
    <3>2. QED
      BY <3>1, BoardStays
  <2>3. CASE \/ \E total \in Dice : RollDice(p, total)
             \/ \E bag \in Discards(p) : DiscardResources(p, bag)
             \/ \E q \in Players, x \in Resources : StealFrom(p, q, x)
             \/ BuyCard(p) \/ (\E c \in cards[p] : PlayCard(p, c))
             \/ FinishFreeRoads(p) \/ AcceptTrade(p) \/ RejectTrade(p) \/ EndTurn(p)
             \/ \E bag \in Inventions : ChooseInvention(p, bag)
             \/ \E x \in Resources : ChooseMonopoly(p, x)
             \/ \E q \in Players, t \in Terms : ProposeTrade(p, q, t.gives, t.gets)
             \/ \E t \in Terms : CounterTrade(p, t.gives, t.gets)
             \/ \E give \in Resources, get \in Transferable : MaritimeTrade(p, give, get)
    <3>1. board' = board
      BY <2>3, Zenon DEF RollDice, DiscardResources, StealFrom, BuyCard, PlayCard, FinishFreeRoads, AcceptTrade,
             RejectTrade, EndTurn, ChooseInvention, ChooseMonopoly, ProposeTrade, CounterTrade, MaritimeTrade
    <3>2. buildings' = buildings /\ roads' = roads /\ robber' = robber
      BY <3>1 DEF board
    <3>3. QED
      BY <3>2, BoardStays DEF BoardFits
  <2>4. QED
    BY <1>3, <2>1, <2>2, <2>3, Zenon DEF PlayerStep
<1>4. QED
  BY <1>1, <1>2, <1>3 DEF Next

\* A new board is empty.
LEMMA BoardInit ==
  ASSUME Init
  PROVE  BoardFits
<1>1. PICK b, r : b = [v \in Vertices |-> Unbuilt] /\ r = [e \in Edges |-> None]
  OBVIOUS
<1>2. buildings = b /\ roads = r /\ robber = Desert
  BY <1>1 DEF Init
<1>3. ASSUME NEW q \in Players
      PROVE  Roads(r, q) = {} /\ Settlements(b, q) = {} /\ Cities(b, q) = {}
  BY <1>1, SeatFacts, BuildingFacts DEF Roads, Settlements, Cities
<1>4. Cardinality({}) = 0 /\ RoadLimit \in Nat /\ SettlementLimit \in Nat /\ CityLimit \in Nat
  BY FS_EmptySet, BoardAssumption DEF BoardAssumption
<1>5. WithinLimits(b, r)
  BY <1>3, <1>4 DEF WithinLimits
<1>6. RoadsType(r) /\ Desert \in Tiles
  BY <1>1, EngineAssumption DEF RoadsType, EngineAssumption
<1>7. QED
  BY <1>2, <1>5, <1>6 DEF BoardFits

\* Every building and road on the board is a player's.
LEMMA BoardIsLegal ==
  ASSUME ScoreFits, BoardFits
  PROVE  BoardState
<1>1. DOMAIN buildings = Vertices /\ robber \in Tiles /\ roads \in [Edges -> Players \cup {None}]
  BY DEF ScoreFits, BuildingsType, BoardFits, RoadsType
<1>2. ASSUME NEW v \in Vertices
      PROVE  buildings[v] = Unbuilt
               \/ \E q \in Players, kind \in {"SETTLEMENT", "CITY"} : buildings[v] = Building(q, kind)
  <2>1. buildings[v] \in {Unbuilt} \cup {Building(q, "SETTLEMENT") : q \in Players}
                                   \cup {Building(q, "CITY") : q \in Players}
    BY DEF ScoreFits, BuildingsType
  <2>2. QED
    BY <2>1
<1>3. QED
  BY <1>1, <1>2 DEF BoardState

-----------------------------------------------------------------------------
(* What the engine asserts of turns and decisions: the phase asks for the  *)
(* decision that is open, the discards of a seven are the halves of hands  *)
(* that nobody touches in between, and the players the robber may take     *)
(* from are those it found when it moved.                                  *)

CountFits == turn.number = 0 <=> Setup

PhaseAsks ==
  /\ turn.phase = "DISCARD_REQUIRED" <=> pending.type = "DISCARD_RESOURCES"
  /\ turn.phase = "ROBBER_MOVE_REQUIRED" <=> pending.type = "MOVE_ROBBER"
  /\ turn.phase = "ROBBER_TARGET_REQUIRED" <=> pending.type = "CHOOSE_ROBBER_TARGET"
  /\ turn.phase = "GAME_OVER" <=> winner # None

Halves ==
  pending.type = "DISCARD_RESOURCES" =>
    /\ turn.lastRoll = Seven
    /\ pending.completed \subseteq DOMAIN pending.required
    /\ \A q \in DOMAIN pending.required : pending.required[q] > 0
    /\ \A q \in Owing : pending.required[q] = Count(hand[q]) \div 2

Targets ==
  /\ pending.type \in {"MOVE_ROBBER", "CHOOSE_ROBBER_TARGET"} => (pending.cause = None => turn.lastRoll = Seven)
  /\ pending.type = "CHOOSE_ROBBER_TARGET" =>
       /\ pending.tile = robber /\ pending.targets # {}
       /\ pending.targets = RobberTargets(buildings, hand, robber, turn.current)

AsksFit == CountFits /\ PhaseAsks /\ Halves /\ Targets

\* A command that settles what was open, after the setup.
Closes ==
  /\ winner = None /\ turn \in TurnType /\ turn.setup = None
  /\ \E tn : GoesOn(tn) /\ Settled(tn) /\ tn.number \in {turn.number, turn.number + 1}

\* With nothing open there is nothing to ask for.
LEMMA ClosedAsks ==
  ASSUME TurnInvariant, AsksFit, Closes
  PROVE  AsksFit'
<1>1. PICK tn : GoesOn(tn) /\ Settled(tn) /\ tn.number \in {turn.number, turn.number + 1}
  BY DEF Closes
<1>2. winner = None /\ turn \in TurnType /\ turn.setup = None
  BY DEF Closes
<1>3. turn.number \in Nat /\ turn.number # 0
  BY <1>2 DEF TurnInvariant, TurnFits, AsksFit, CountFits, TurnType
<1>4. tn.number # 0 /\ tn \in TurnType /\ tn.phase \in {"ROLL_REQUIRED", "ACTION"} /\ tn.current # None
  BY <1>1, <1>3, SeatFacts DEF GoesOn, TurnType
<1>5. pending' = NoDecision /\ pending'.type \notin DecisionTypes
  BY <1>1, SeatFacts DEF Settled, NoDecision
<1>6. CASE turn' = tn /\ winner' = winner
  <2>1. CountFits'
    BY <1>4, <1>6 DEF CountFits, Setup
  <2>2. PhaseAsks'
    BY <1>2, <1>4, <1>5, <1>6 DEF PhaseAsks, DecisionTypes
  <2>3. QED
    BY <1>5, <2>1, <2>2 DEF AsksFit, Halves, Targets, DecisionTypes
<1>7. CASE turn' = [tn EXCEPT !.phase = "GAME_OVER"] /\ winner' = tn.current
  <2>1. turn'.phase = "GAME_OVER" /\ turn'.number = tn.number
    BY <1>4, <1>7 DEF TurnType
  <2>2. CountFits'
    BY <1>4, <2>1 DEF CountFits, Setup
  <2>3. PhaseAsks'
    BY <1>4, <1>5, <1>7, <2>1 DEF PhaseAsks, DecisionTypes
  <2>4. QED
    BY <1>5, <2>2, <2>3 DEF AsksFit, Halves, Targets, DecisionTypes
<1>8. QED
  BY <1>1, <1>6, <1>7 DEF Settled

\* A turn that goes on is not a later one.
LEMMA ClosesTurn ==
  ASSUME NEW tn, winner = None, turn \in TurnType, turn.setup = None, GoesOn(tn), Settled(tn),
         tn.number = turn.number
  PROVE  Closes
  BY DEF Closes

\* The end of a turn.
LEMMA EndTurnCloses ==
  ASSUME TurnInvariant, NEW p, EndTurn(p)
  PROVE  Closes
<1>1. winner = None /\ p \in Players /\ p = turn.current /\ turn \in TurnType /\ turn.setup = None
  BY InTurnFacts DEF EndTurn, AcceptsEndTurn
<1>2. PICK i : i = CHOOSE j \in 1..N : order[j] = Current
  OBVIOUS
<1>3. i \in 1..N /\ order[i] = turn.current
  BY <1>1, <1>2 DEF TurnInvariant, OrderFits, Current
<1>4. order[(i % N) + 1] \in Players
  BY <1>3, After DEF TurnInvariant, OrderFits
<1>5. PICK next : next = [number |-> turn.number + 1, current |-> order[(i % N) + 1],
                          phase |-> "ROLL_REQUIRED", setup |-> None, lastRoll |-> None, cardPlayed |-> FALSE]
  OBVIOUS
<1>6. GoesOn(next) /\ next.number = turn.number + 1
  <2>1. turn.number + 1 \in Nat
    BY <1>1 DEF TurnType
  <2>2. QED
    BY <1>4, <1>5, <2>1 DEF GoesOn, TurnType, Phases
<1>7. Settled(next)
  BY <1>2, <1>5, ResolveSettles DEF EndTurn
<1>8. QED
  BY <1>1, <1>6, <1>7 DEF Closes

\* The robber, when there is nobody to take from or somebody has been chosen.
LEMMA RobberCloses ==
  ASSUME TurnInvariant, NEW p,
         \/ \E t : MoveRobber(p, t) /\ RobberTargets(buildings, hand, t, p) = {}
         \/ \E q, x : StealFrom(p, q, x)
  PROVE  Closes
<1>1. PICK tn, cause : tn = [turn EXCEPT !.phase = AfterRobber(pending.cause)] /\ cause = pending.cause
  OBVIOUS
<1>2. RobberDone(cause, tn)
  BY <1>1 DEF MoveRobber, StealFrom
<1>3. winner = None /\ pending.type \in {"MOVE_ROBBER", "CHOOSE_ROBBER_TARGET"}
  BY DEF MoveRobber, AcceptsMoveRobber, StealFrom, AcceptsSteal, Decides
<1>4. GoesOn(tn) /\ Settled(tn)
  BY <1>1, <1>2, <1>3, RobberSettles, AfterRobberGoesOn
<1>5. turn \in TurnType /\ turn.setup = None
  BY <1>3, DecidesFacts DEF DecisionTypes
<1>6. tn.number = turn.number
  BY <1>1, <1>5 DEF TurnType
<1>7. QED
  BY <1>3, <1>4, <1>5, <1>6, ClosesTurn

\* Whatever is paid for.
LEMMA PaidCloses ==
  ASSUME TurnInvariant, NEW p, Acts(p)
  PROVE  Closes
<1>1. PICK tn : tn = turn
  OBVIOUS
<1>2. winner = None /\ GoesOn(tn) /\ turn \in TurnType /\ turn.setup = None /\ Settled(tn)
  BY <1>1, InTurnFacts DEF Acts
<1>3. QED
  BY <1>1, <1>2, ClosesTurn

\* A free road that gives the turn back.
LEMMA FreeRoadCloses ==
  ASSUME TurnInvariant, NEW p, NEW e, PlaceFreeRoad(p, e),
         ~(pending' = [pending EXCEPT !.remaining = 1] /\ UNCHANGED <<turn, cards, winner>>)
  PROVE  Closes
<1>1. /\ winner = None /\ pending.type = "PLACE_FREE_ROADS" /\ pending.type \in DecisionTypes
  BY DEF PlaceFreeRoad, AcceptsFreeRoad, DecidesCard, Decides, DecisionTypes
<1>2. PICK tn, aw, b, cs : /\ tn = [turn EXCEPT !.phase = Resume] /\ b = buildings /\ cs = cards
                           /\ aw = Reconciled(buildings, [roads EXCEPT ![e] = p], knights)
  OBVIOUS
<1>3. ResolveVictory(b, aw, cs, tn, NoDecision)
  BY <1>2 DEF PlaceFreeRoad
<1>4. Settled(tn)
  BY <1>3, ResolveSettles
<1>5. turn \in TurnType /\ turn.setup = None
  BY <1>1, DecidesFacts
<1>6. GoesOn(tn) /\ tn.number = turn.number
  BY <1>1, <1>2, <1>5, ResumeGoesOn DEF TurnType
<1>7. QED
  BY <1>1, <1>4, <1>5, <1>6, ClosesTurn

\* Answers that settle the open decision without a score.
LEMMA AnswerCloses ==
  ASSUME TurnInvariant, NEW p,
         FinishFreeRoads(p) \/ RejectTrade(p) \/ AcceptTrade(p)
           \/ (\E bag : ChooseInvention(p, bag)) \/ (\E x : ChooseMonopoly(p, x))
  PROVE  Closes
<1>1. CASE FinishFreeRoads(p)
  <2>1. winner = None /\ pending.type = "PLACE_FREE_ROADS" /\ pending.type \in DecisionTypes
    BY <1>1 DEF FinishFreeRoads, AcceptsFinishFreeRoads, DecidesCard, Decides, DecisionTypes
  <2>2. PICK tn : tn = [turn EXCEPT !.phase = Resume]
    OBVIOUS
  <2>3. Settled(tn)
    BY <1>1, <2>2 DEF FinishFreeRoads, Settled
  <2>4. turn \in TurnType /\ turn.setup = None
    BY <2>1, DecidesFacts
  <2>5. GoesOn(tn) /\ tn.number = turn.number
    BY <2>1, <2>2, <2>4, ResumeGoesOn DEF TurnType
  <2>6. QED
    BY <2>1, <2>3, <2>4, <2>5, ClosesTurn
<1>2. CASE RejectTrade(p) \/ AcceptTrade(p)
  <2>1. /\ winner = None /\ pending.type = "RESPOND_TO_TRADE"
        /\ pending' = NoDecision /\ turn' = turn /\ winner' = winner
    BY <1>2 DEF RejectTrade, AcceptsReject, AcceptTrade, AcceptsAccept, Responds
  <2>2. turn.phase = "ACTION" /\ turn \in TurnType /\ turn.setup = None /\ turn.lastRoll # None
    BY <2>1, DecidesFacts DEF TurnInvariant, DecisionFits, TradeFits, DecisionTypes
  <2>3. PICK tn : tn = turn
    OBVIOUS
  <2>4. GoesOn(tn) /\ Settled(tn)
    BY <2>1, <2>2, <2>3 DEF GoesOn, Settled
  <2>5. QED
    BY <2>1, <2>2, <2>3, <2>4, ClosesTurn
<1>3. CASE (\E bag : ChooseInvention(p, bag)) \/ (\E x : ChooseMonopoly(p, x))
  <2>1. /\ winner = None /\ pending.type \in {"CHOOSE_INVENTION_RESOURCES", "CHOOSE_MONOPOLY_RESOURCE"}
        /\ pending' = NoDecision /\ turn' = turn /\ winner' = winner
    BY <1>3 DEF ChooseInvention, AcceptsInvention, ChooseMonopoly, AcceptsMonopoly, DecidesCard, Decides
  <2>2. turn.phase = Resume /\ turn \in TurnType /\ turn.setup = None
    BY <2>1, DecidesFacts DEF TurnInvariant, DecisionFits, CardFits, DecisionTypes
  <2>3. PICK tn : tn = turn
    OBVIOUS
  <2>4. GoesOn(tn) /\ Settled(tn)
    BY <2>1, <2>2, <2>3 DEF GoesOn, Settled, Resume
  <2>5. QED
    BY <2>1, <2>2, <2>3, <2>4, ClosesTurn
<1>4. QED
  BY <1>1, <1>2, <1>3

\* A decision that is opened, or goes on, after the setup.
Opens(tn, d) ==
  /\ winner = None /\ turn.setup = None /\ turn.number # 0
  /\ turn' = tn /\ pending' = d /\ winner' = None
  /\ tn.number = turn.number /\ tn.phase \notin {"SETUP_SETTLEMENT", "SETUP_ROAD"}

\* Whether the phase asks for the decision.
Asked(phase, type) ==
  /\ phase = "DISCARD_REQUIRED" <=> type = "DISCARD_RESOURCES"
  /\ phase = "ROBBER_MOVE_REQUIRED" <=> type = "MOVE_ROBBER"
  /\ phase = "ROBBER_TARGET_REQUIRED" <=> type = "CHOOSE_ROBBER_TARGET"
  /\ phase # "GAME_OVER"

\* A decision about nothing but cards and trades.
LEMMA OpenAsks ==
  ASSUME NEW tn, NEW d, Opens(tn, d), Asked(tn.phase, d.type)
  PROVE  /\ CountFits' /\ PhaseAsks'
         /\ d.type \notin {"DISCARD_RESOURCES", "MOVE_ROBBER", "CHOOSE_ROBBER_TARGET"} => AsksFit'
<1>1. CountFits'
  BY DEF Opens, CountFits, Setup
<1>2. PhaseAsks'
  BY DEF Opens, Asked, PhaseAsks
<1>3. QED
  BY <1>1, <1>2 DEF AsksFit, Halves, Targets, Opens

\* A turn after the setup has a number.
LEMMA NumberedTurn ==
  ASSUME TurnInvariant, AsksFit, turn.setup = None
  PROVE  turn.number # 0 /\ ~Setup
  BY DEF TurnInvariant, TurnFits, AsksFit, CountFits

\* Who has too many cards discards something.
LEMMA HalfOfHand ==
  ASSUME NEW hd \in [Players -> Bags], NEW q \in Players, Count(hd[q]) > HandLimit
  PROVE  Count(hd[q]) \div 2 > 0
<1>1. PICK n : n = Count(hd[q])
  OBVIOUS
<1>2. n \in Int
  <2>1. PICK bag : bag = hd[q]
    OBVIOUS
  <2>2. bag \in Bags
    BY <2>1
  <2>3. DOMAIN bag = Resources /\ \A x \in Resources : bag[x] \in Int
    BY <2>2 DEF Bags
  <2>4. IsFiniteSet(Resources)
    BY BoardAssumption DEF BoardAssumption
  <2>5. SumFunctionOnSet(bag, Resources) \in Int
    BY <2>3, <2>4, SumType
  <2>6. QED
    BY <1>1, <2>1, <2>3, <2>5, SumOverDomain DEF Count
<1>3. HandLimit \in Nat \ {0}
  BY EngineAssumption DEF EngineAssumption
<1>4. n >= 2
  BY <1>1, <1>2, <1>3
<1>5. n \div 2 > 0
  BY <1>2, <1>4
<1>6. QED
  BY <1>1, <1>5

\* The dice: on a seven the halves of the hands that are too large.
LEMMA RollAsks ==
  ASSUME TurnInvariant, AsksFit, hand \in [Players -> Bags], NEW p, NEW total \in Dice, RollDice(p, total)
  PROVE  AsksFit'
<1>1. /\ winner = None /\ pending = NoDecision /\ p = turn.current /\ p \in Players
      /\ turn \in TurnType /\ turn.setup = None /\ turn.phase = "ROLL_REQUIRED"
  BY InTurnFacts DEF RollDice, AcceptsRoll
<1>2. winner' = winner
  BY DEF RollDice
<1>3. total \in Totals /\ total # None
  BY SeatFacts DEF Dice, Totals
<1>4. turn.number # 0
  BY <1>1, NumberedTurn
<1>5. ASSUME NEW phase \in Phases, turn' = [turn EXCEPT !.phase = phase, !.setup = None, !.lastRoll = total]
      PROVE  \E tn \in TurnType : /\ turn' = tn /\ tn.phase = phase /\ tn.setup = None /\ tn.lastRoll = total
                                  /\ tn.current = p /\ tn.number = turn.number
  <2>1. PICK tn : tn = [turn EXCEPT !.phase = phase, !.setup = None, !.lastRoll = total]
    OBVIOUS
  <2>2. /\ tn \in TurnType /\ tn.phase = phase /\ tn.setup = None /\ tn.lastRoll = total
        /\ tn.current = p /\ tn.number = turn.number
    BY <1>1, <1>3, <2>1 DEF TurnType
  <2>3. QED
    BY <1>5, <2>1, <2>2
<1>6. PICK owing : owing = {q \in Players : Count(hand[q]) > HandLimit}
  OBVIOUS
<1>7. CASE /\ total = Seven /\ turn' = [turn EXCEPT !.phase = "DISCARD_REQUIRED", !.setup = None, !.lastRoll = total]
           /\ pending' = [type |-> "DISCARD_RESOURCES", trigger |-> Current,
                          required |-> [q \in owing |-> Count(hand[q]) \div 2], completed |-> {}]
           /\ hand' = hand
  <2>1. PICK tn \in TurnType : /\ turn' = tn /\ tn.phase = "DISCARD_REQUIRED" /\ tn.setup = None /\ tn.lastRoll = total
                               /\ tn.number = turn.number
    BY <1>5, <1>7 DEF Phases
  <2>2. PICK hd, required : hd = hand /\ required = [q \in owing |-> Count(hd[q]) \div 2]
    OBVIOUS
  <2>3. PICK d : d = [type |-> "DISCARD_RESOURCES", trigger |-> Current, required |-> required, completed |-> {}]
    OBVIOUS
  <2>4. pending' = d /\ d.type = "DISCARD_RESOURCES" /\ d.required = required /\ d.completed = {}
    BY <1>7, <2>2, <2>3
  <2>5. CountFits' /\ PhaseAsks'
    BY <1>1, <1>2, <1>4, <2>1, <2>4, OpenAsks DEF Opens, Asked
  <2>6. \A q \in owing : Count(hd[q]) \div 2 > 0
    BY <1>6, <2>2, HalfOfHand
  <2>7. DOMAIN required = owing /\ \A q \in owing : required[q] = Count(hd[q]) \div 2 /\ required[q] > 0
    BY <2>2, <2>6
  <2>8. hand' = hd
    BY <1>7, <2>2
  <2>9. Halves'
    BY <1>7, <2>1, <2>4, <2>7, <2>8 DEF Halves, Owing
  <2>10. Targets'
    BY <2>4 DEF Targets
  <2>11. QED
    BY <2>5, <2>9, <2>10 DEF AsksFit
<1>8. CASE /\ total = Seven
           /\ turn' = [turn EXCEPT !.phase = "ROBBER_MOVE_REQUIRED", !.setup = None, !.lastRoll = total]
           /\ pending' = [type |-> "MOVE_ROBBER", actor |-> Current, cause |-> None]
  <2>1. PICK tn \in TurnType : /\ turn' = tn /\ tn.phase = "ROBBER_MOVE_REQUIRED" /\ tn.setup = None
                               /\ tn.lastRoll = total /\ tn.number = turn.number
    BY <1>5, <1>8 DEF Phases
  <2>2. PICK d : d = [type |-> "MOVE_ROBBER", actor |-> Current, cause |-> None]
    OBVIOUS
  <2>3. pending' = d /\ d.type = "MOVE_ROBBER"
    BY <1>8, <2>2
  <2>4. CountFits' /\ PhaseAsks'
    BY <1>1, <1>2, <1>4, <2>1, <2>3, OpenAsks DEF Opens, Asked
  <2>5. Halves' /\ Targets'
    BY <1>8, <2>1, <2>3 DEF Halves, Targets
  <2>6. QED
    BY <2>4, <2>5 DEF AsksFit
<1>9. CASE turn' = [turn EXCEPT !.phase = "ACTION", !.setup = None, !.lastRoll = total] /\ pending' = pending
  <2>1. PICK tn \in TurnType : /\ turn' = tn /\ tn.phase = "ACTION" /\ tn.setup = None
                               /\ tn.lastRoll = total /\ tn.number = turn.number
    BY <1>5, <1>9 DEF Phases
  <2>2. GoesOn(tn) /\ Settled(tn)
    BY <1>1, <1>2, <1>3, <1>9, <2>1 DEF GoesOn, Settled
  <2>3. Closes
    BY <1>1, <2>1, <2>2, ClosesTurn
  <2>4. QED
    BY <2>3, ClosedAsks
<1>10. QED
  BY <1>6, <1>7, <1>8, <1>9 DEF RollDice

\* A discard: the others' hands and halves stay.
LEMMA DiscardAsks ==
  ASSUME TurnInvariant, AsksFit, hand \in [Players -> Bags], NEW p, NEW bag, DiscardResources(p, bag)
  PROVE  AsksFit'
<1>1. /\ winner = None /\ pending.type = "DISCARD_RESOURCES" /\ p \in Owing /\ winner' = winner
      /\ Pay(p, bag)
  BY DEF DiscardResources, AcceptsDiscard, Decides
<1>2. /\ turn \in TurnType /\ turn.setup = None
      /\ pending = [type |-> "DISCARD_RESOURCES", trigger |-> turn.current,
                    required |-> pending.required, completed |-> pending.completed]
      /\ turn.phase = "DISCARD_REQUIRED" /\ DOMAIN pending.required \subseteq Players
  BY <1>1, DecidesFacts DEF TurnInvariant, TurnFits, DecisionFits, DiscardFits, DecisionTypes
<1>3. turn.number # 0 /\ turn.lastRoll = Seven
  BY <1>1, <1>2, NumberedTurn DEF AsksFit, Halves
<1>4. CASE Owing = {p}
  <2>1. PICK tn : tn = [turn EXCEPT !.phase = "ROBBER_MOVE_REQUIRED"]
    OBVIOUS
  <2>2. /\ tn.phase = "ROBBER_MOVE_REQUIRED" /\ tn.number = turn.number /\ tn.lastRoll = Seven
    BY <1>2, <1>3, <2>1 DEF TurnType
  <2>3. PICK d : d = [type |-> "MOVE_ROBBER", actor |-> pending.trigger, cause |-> None]
    OBVIOUS
  <2>4. turn' = tn /\ pending' = d /\ d.type = "MOVE_ROBBER"
    BY <1>4, <2>1, <2>3 DEF DiscardResources
  <2>5. CountFits' /\ PhaseAsks'
    BY <1>1, <1>2, <1>3, <2>2, <2>4, OpenAsks DEF Opens, Asked
  <2>6. Halves' /\ Targets'
    BY <2>2, <2>4 DEF Halves, Targets
  <2>7. QED
    BY <2>5, <2>6 DEF AsksFit
<1>5. CASE Owing # {p}
  <2>1. turn' = turn /\ pending' = [pending EXCEPT !.completed = @ \cup {p}]
    BY <1>5 DEF DiscardResources
  <2>2. PICK required, completed : required = pending.required /\ completed = pending.completed
    OBVIOUS
  <2>3. PICK d, tn, hd : /\ d = [pending EXCEPT !.completed = @ \cup {p}] /\ tn = turn
                         /\ hd = [hand EXCEPT ![p] = Minus(@, bag)]
    OBVIOUS
  <2>4. d.type = "DISCARD_RESOURCES" /\ d.required = required /\ d.completed = completed \cup {p}
    BY <1>2, <2>2, <2>3
  <2>5. turn' = tn /\ pending' = d /\ hand' = hd
    BY <1>1, <2>1, <2>3 DEF Pay
  <2>6. CountFits' /\ PhaseAsks'
    BY <1>1, <1>2, <1>3, <2>3, <2>4, <2>5, OpenAsks DEF Opens, Asked
  <2>7. Owing = {q \in DOMAIN required : q \notin completed} /\ p \in DOMAIN required
    BY <1>1, <2>2 DEF Owing
  <2>8. /\ completed \subseteq DOMAIN required
        /\ \A q \in DOMAIN required : required[q] > 0
        /\ \A q \in DOMAIN required : q \notin completed => required[q] = Count(hand[q]) \div 2
    BY <1>1, <2>2, <2>7 DEF AsksFit, Halves
  <2>9. \A q \in DOMAIN required : q # p => hd[q] = hand[q]
    BY <1>2, <2>2, <2>3
  <2>10. \A q \in DOMAIN required : q \notin completed \cup {p} => required[q] = Count(hd[q]) \div 2
    BY <2>8, <2>9
  <2>11. Halves'
    BY <1>3, <2>3, <2>4, <2>5, <2>7, <2>8, <2>10 DEF Halves, Owing
  <2>12. Targets'
    BY <2>4, <2>5 DEF Targets
  <2>13. QED
    BY <2>6, <2>11, <2>12 DEF AsksFit
<1>6. QED
  BY <1>4, <1>5

\* The robber moves, and its mover chooses among those it found there.
LEMMA RobberAsks ==
  ASSUME TurnInvariant, AsksFit, NEW p, NEW t, MoveRobber(p, t), RobberTargets(buildings, hand, t, p) # {}
  PROVE  AsksFit'
<1>1. /\ winner = None /\ pending.type = "MOVE_ROBBER" /\ p = pending.actor /\ robber' = t
      /\ buildings' = buildings /\ hand' = hand
  BY DEF MoveRobber, AcceptsMoveRobber, Decides
<1>2. PICK tn : tn = [turn EXCEPT !.phase = "ROBBER_TARGET_REQUIRED"]
  OBVIOUS
<1>3. turn \in TurnType /\ turn.setup = None /\ p = turn.current
  BY <1>1, DecidesFacts DEF TurnInvariant, DecisionFits, RobberFits, DecisionTypes
<1>4. /\ tn.phase = "ROBBER_TARGET_REQUIRED" /\ tn.number = turn.number /\ tn.lastRoll = turn.lastRoll
      /\ tn.current = p
  BY <1>2, <1>3 DEF TurnType
<1>5. PICK cause, targets : cause = pending.cause /\ targets = RobberTargets(buildings, hand, t, p)
  OBVIOUS
<1>6. PICK d : d = [type |-> "CHOOSE_ROBBER_TARGET", actor |-> p, tile |-> t, targets |-> targets, cause |-> cause]
  OBVIOUS
<1>7. d.type = "CHOOSE_ROBBER_TARGET" /\ d.tile = t /\ d.targets = targets /\ d.cause = cause
  BY <1>6
<1>8. turn' = tn /\ winner' = winner /\ pending' = d
  BY <1>2, <1>5, <1>6 DEF MoveRobber
<1>9. turn.number # 0
  BY <1>3, NumberedTurn
<1>10. CountFits' /\ PhaseAsks'
  BY <1>1, <1>3, <1>4, <1>7, <1>8, <1>9, OpenAsks DEF Opens, Asked
<1>11. cause = None => tn.lastRoll = Seven
  BY <1>1, <1>4, <1>5 DEF AsksFit, Targets
<1>12. targets = RobberTargets(buildings', hand', robber', turn'.current)
  BY <1>1, <1>4, <1>5, <1>8
<1>13. (pending.targets = RobberTargets(buildings, hand, robber, turn.current))'
  BY <1>7, <1>8, <1>12
<1>14. Targets'
  BY <1>1, <1>5, <1>7, <1>8, <1>11, <1>13 DEF Targets
<1>15. Halves'
  BY <1>7, <1>8 DEF Halves
<1>16. QED
  BY <1>10, <1>14, <1>15 DEF AsksFit

\* A card opens its own decision.
LEMMA CardAsks ==
  ASSUME TurnInvariant, CardsFit, AsksFit, NEW p, NEW c, PlayCard(p, c)
  PROVE  AsksFit'
<1>1. /\ winner = None /\ p \in Players /\ turn \in TurnType /\ turn.setup = None
      /\ turn.phase \in {"ROLL_REQUIRED", "ACTION"} /\ winner' = winner
  <2>1. InTurn(p, {"ROLL_REQUIRED", "ACTION"})
    BY DEF PlayCard, AcceptsPlayCard
  <2>2. QED
    BY <2>1, InTurnFacts DEF PlayCard
<1>2. turn.number # 0
  BY <1>1, NumberedTurn
<1>3. c.card \in Cards
  <2>1. c \in cards[p]
    BY DEF PlayCard, AcceptsPlayCard, Playable, InHand
  <2>2. QED
    BY <1>1, <2>1 DEF CardsFit, CardsType, OwnedCards
<1>4. ASSUME NEW phase, NEW tn, tn = [turn EXCEPT !.cardPlayed = TRUE, !.phase = phase]
      PROVE  tn.phase = phase /\ tn.number = turn.number
  BY <1>1, <1>4 DEF TurnType
<1>5. CASE /\ turn' = [turn EXCEPT !.cardPlayed = TRUE, !.phase = "ROBBER_MOVE_REQUIRED"]
           /\ pending' = [type |-> "MOVE_ROBBER", actor |-> p, cause |-> c.card]
  <2>1. PICK tn, d : /\ tn = [turn EXCEPT !.cardPlayed = TRUE, !.phase = "ROBBER_MOVE_REQUIRED"]
                     /\ d = [type |-> "MOVE_ROBBER", actor |-> p, cause |-> c.card]
    OBVIOUS
  <2>2. turn' = tn /\ pending' = d /\ d.type = "MOVE_ROBBER" /\ d.cause = c.card
    BY <1>5, <2>1
  <2>3. tn.phase = "ROBBER_MOVE_REQUIRED" /\ tn.number = turn.number
    BY <1>4, <2>1
  <2>4. CountFits' /\ PhaseAsks'
    BY <1>1, <1>2, <2>2, <2>3, OpenAsks DEF Opens, Asked
  <2>5. Halves' /\ Targets'
    BY <1>3, <2>2, SeatFacts DEF Halves, Targets
  <2>6. QED
    BY <2>4, <2>5 DEF AsksFit
<1>6. CASE \E n : /\ turn' = [turn EXCEPT !.cardPlayed = TRUE, !.phase = "FREE_ROAD_PLACEMENT"]
                  /\ pending' = [type |-> "PLACE_FREE_ROADS", actor |-> p, card |-> c.card, remaining |-> n]
  <2>1. PICK n : pending' = [type |-> "PLACE_FREE_ROADS", actor |-> p, card |-> c.card, remaining |-> n]
    BY <1>6
  <2>2. PICK tn, d : /\ tn = [turn EXCEPT !.cardPlayed = TRUE, !.phase = "FREE_ROAD_PLACEMENT"]
                     /\ d = [type |-> "PLACE_FREE_ROADS", actor |-> p, card |-> c.card, remaining |-> n]
    OBVIOUS
  <2>3. turn' = tn /\ pending' = d /\ d.type = "PLACE_FREE_ROADS"
    BY <1>6, <2>1, <2>2
  <2>4. tn.phase = "FREE_ROAD_PLACEMENT" /\ tn.number = turn.number
    BY <1>4, <2>2
  <2>5. QED
    BY <1>1, <1>2, <2>3, <2>4, OpenAsks DEF Opens, Asked
<1>7. CASE /\ turn' = [turn EXCEPT !.cardPlayed = TRUE]
           /\ \E decision \in {"CHOOSE_INVENTION_RESOURCES", "CHOOSE_MONOPOLY_RESOURCE"} :
                pending' = [type |-> decision, actor |-> p, card |-> c.card]
  <2>1. PICK decision \in {"CHOOSE_INVENTION_RESOURCES", "CHOOSE_MONOPOLY_RESOURCE"} :
               pending' = [type |-> decision, actor |-> p, card |-> c.card]
    BY <1>7
  <2>2. PICK tn, d : /\ tn = [turn EXCEPT !.cardPlayed = TRUE]
                     /\ d = [type |-> decision, actor |-> p, card |-> c.card]
    OBVIOUS
  <2>3. turn' = tn /\ pending' = d /\ d.type = decision
    BY <1>7, <2>1, <2>2
  <2>4. tn.phase = turn.phase /\ tn.number = turn.number
    BY <1>1, <2>2 DEF TurnType
  <2>5. QED
    BY <1>1, <1>2, <2>1, <2>3, <2>4, OpenAsks DEF Opens, Asked
<1>8. QED
  <2>1. CASE CardType[c.card] = "KNIGHT"
    BY <1>5, <2>1 DEF PlayCard
  <2>2. CASE CardType[c.card] = "ROAD_BUILDING"
    BY <1>6, <2>2 DEF PlayCard, AcceptsPlayCard
  <2>3. CASE CardType[c.card] \in {"INVENTION", "MONOPOLY"}
    BY <1>7, <2>3 DEF PlayCard
  <2>4. QED
    BY <2>1, <2>2, <2>3 DEF PlayCard

\* Free roads and offers ask for nothing else.
LEMMA AnswersAsk ==
  ASSUME TurnInvariant, AsksFit, NEW p,
         \/ \E e : PlaceFreeRoad(p, e)
         \/ \E q \in Players : \E gives, gets : ProposeTrade(p, q, gives, gets) \/ CounterTrade(p, gives, gets)
  PROVE  AsksFit'
<1>1. ASSUME NEW e, PlaceFreeRoad(p, e) PROVE AsksFit'
  <2>1. winner = None /\ pending.type = "PLACE_FREE_ROADS"
    BY <1>1 DEF PlaceFreeRoad, AcceptsFreeRoad, DecidesCard, Decides
  <2>2. CASE pending' = [pending EXCEPT !.remaining = 1] /\ UNCHANGED <<turn, cards, winner>>
    <3>1. /\ turn \in TurnType /\ turn.setup = None /\ turn.phase = "FREE_ROAD_PLACEMENT"
          /\ pending = [type |-> "PLACE_FREE_ROADS", actor |-> turn.current,
                        card |-> pending.card, remaining |-> pending.remaining]
      BY <2>1, DecidesFacts DEF TurnInvariant, DecisionFits, CardFits, DecisionTypes
    <3>2. PICK tn, d : tn = turn /\ d = [pending EXCEPT !.remaining = 1]
      OBVIOUS
    <3>3. turn' = tn /\ pending' = d /\ winner' = winner
      BY <2>2, <3>2
    <3>4. d.type = "PLACE_FREE_ROADS"
      BY <3>1, <3>2
    <3>5. turn.number # 0
      BY <3>1, NumberedTurn
    <3>6. QED
      BY <2>1, <3>1, <3>2, <3>3, <3>4, <3>5, OpenAsks DEF Opens, Asked
  <2>3. QED
    BY <1>1, <2>2, FreeRoadCloses, ClosedAsks
<1>2. ASSUME NEW q \in Players, NEW gives, NEW gets, ProposeTrade(p, q, gives, gets) \/ CounterTrade(p, gives, gets)
      PROVE  AsksFit'
  <2>1. winner = None /\ turn \in TurnType /\ turn.setup = None /\ turn.phase = "ACTION"
    <3>1. CASE ProposeTrade(p, q, gives, gets)
      BY <3>1, InTurnFacts DEF ProposeTrade, AcceptsProposal
    <3>2. CASE CounterTrade(p, gives, gets)
      BY <3>2, DecidesFacts DEF CounterTrade, AcceptsCounter, Responds, TurnInvariant, DecisionFits, TradeFits,
                                DecisionTypes
    <3>3. QED
      BY <1>2, <3>1, <3>2
  <2>2. PICK i, c, a, n : pending' = Offer(i, c, a, gives, gets, n)
    BY <1>2 DEF ProposeTrade, CounterTrade
  <2>3. PICK tn, d : tn = turn /\ d = Offer(i, c, a, gives, gets, n)
    OBVIOUS
  <2>4. turn' = tn /\ winner' = winner /\ pending' = d
    BY <1>2, <2>2, <2>3 DEF ProposeTrade, CounterTrade
  <2>5. d.type = "RESPOND_TO_TRADE"
    BY <2>3 DEF Offer
  <2>6. turn.number # 0
    BY <2>1, NumberedTurn
  <2>7. QED
    BY <2>1, <2>3, <2>4, <2>5, <2>6, OpenAsks DEF Opens, Asked
<1>3. QED
  BY <1>1, <1>2

-----------------------------------------------------------------------------
(* The setup, and games in which nothing has been built.                   *)

SetupPlace ==
  /\ turn.phase = "SETUP_SETTLEMENT" => turn.setup.settlement = None
  /\ turn.phase = "SETUP_ROAD" =>
       turn.setup.settlement \in Vertices /\ buildings[turn.setup.settlement] = Building(turn.current, "SETTLEMENT")

NewGame == buildings = [v \in Vertices |-> Unbuilt] => CreatedGame

SetupFits == SetupPlace /\ NewGame

\* Everything a player does when the setup is over.
PlaysOn(p) ==
  \/ \E e \in Edges : BuildRoad(p, e) \/ PlaceFreeRoad(p, e)
  \/ \E total \in Dice : RollDice(p, total)
  \/ \E bag \in Discards(p) : DiscardResources(p, bag)
  \/ \E t \in Tiles : MoveRobber(p, t)
  \/ \E q \in Players, x \in Resources : StealFrom(p, q, x)
  \/ \E v \in Vertices : BuildSettlement(p, v) \/ UpgradeCity(p, v)
  \/ BuyCard(p) \/ FinishFreeRoads(p)
  \/ \E c \in cards[p] : PlayCard(p, c)
  \/ \E bag \in Inventions : ChooseInvention(p, bag)
  \/ \E x \in Resources : ChooseMonopoly(p, x)
  \/ \E q \in Players, t \in Terms : ProposeTrade(p, q, t.gives, t.gets)
  \/ \E t \in Terms : CounterTrade(p, t.gives, t.gets)
  \/ AcceptTrade(p) \/ RejectTrade(p)
  \/ \E give \in Resources, get \in Transferable : MaritimeTrade(p, give, get)
  \/ EndTurn(p)

\* A player's step is one of the setup, or one after it.
LEMMA PlayerSteps ==
  ASSUME NEW p, PlayerStep(p)
  PROVE  (\E v \in SetupSites : PlaceInitialSettlement(p, v)) \/ (\E e \in Edges : PlaceInitialRoad(p, e)) \/ PlaysOn(p)
  BY Zenon DEF PlayerStep, PlaysOn

\* The commands that settle what is open, whatever it is.
LEMMA SettlingCloses ==
  ASSUME TurnInvariant, NEW p,
         \/ \E e \in Edges : BuildRoad(p, e)
         \/ \E q \in Players, x \in Resources : StealFrom(p, q, x)
         \/ \E v \in Vertices : BuildSettlement(p, v) \/ UpgradeCity(p, v)
         \/ BuyCard(p) \/ FinishFreeRoads(p)
         \/ \E bag \in Inventions : ChooseInvention(p, bag)
         \/ \E x \in Resources : ChooseMonopoly(p, x)
         \/ AcceptTrade(p) \/ RejectTrade(p)
         \/ \E give \in Resources, get \in Transferable : MaritimeTrade(p, give, get)
         \/ EndTurn(p)
  PROVE  Closes
<1>1. CASE \/ \E e \in Edges : BuildRoad(p, e)
           \/ \E v \in Vertices : BuildSettlement(p, v) \/ UpgradeCity(p, v)
           \/ BuyCard(p)
           \/ \E give \in Resources, get \in Transferable : MaritimeTrade(p, give, get)
  <2>1. Acts(p)
    BY <1>1, PaidActs
  <2>2. QED
    BY <2>1, PaidCloses
<1>2. CASE \/ FinishFreeRoads(p) \/ AcceptTrade(p) \/ RejectTrade(p)
           \/ \E bag \in Inventions : ChooseInvention(p, bag)
           \/ \E x \in Resources : ChooseMonopoly(p, x)
  BY <1>2, AnswerCloses
<1>3. CASE \E q \in Players, x \in Resources : StealFrom(p, q, x)
  BY <1>3, RobberCloses
<1>4. CASE EndTurn(p)
  BY <1>4, EndTurnCloses
<1>5. QED
  BY <1>1, <1>2, <1>3, <1>4

\* The setup is over before these steps, and after them.
LEMMA SetupIsOver ==
  ASSUME TurnInvariant, NEW p \in Players, PlaysOn(p)
  PROVE  /\ turn \in TurnType /\ turn.setup = None /\ ~Setup /\ turn'.setup = None /\ winner = None
         /\ turn'.number \in {turn.number, turn.number + 1}
<1>1. ASSUME Closes
      PROVE  /\ turn \in TurnType /\ turn.setup = None /\ turn'.setup = None /\ winner = None
             /\ turn'.number \in {turn.number, turn.number + 1}
  <2>1. PICK tn : GoesOn(tn) /\ Settled(tn) /\ tn.number \in {turn.number, turn.number + 1}
    BY <1>1 DEF Closes
  <2>2. turn'.number = tn.number
    BY <2>1 DEF GoesOn, Settled, TurnType
  <2>3. QED
    BY <1>1, <2>1, <2>2, SettledSetup DEF Closes
<1>2. ASSUME turn \in TurnType, turn.setup = None,
             \/ turn' = turn
             \/ \E phase : turn' = [turn EXCEPT !.phase = phase]
             \/ turn' = [turn EXCEPT !.cardPlayed = TRUE]
             \/ \E phase : turn' = [turn EXCEPT !.cardPlayed = TRUE, !.phase = phase]
             \/ \E phase, total : turn' = [turn EXCEPT !.phase = phase, !.setup = None, !.lastRoll = total]
      PROVE  turn'.setup = None /\ turn'.number = turn.number
  BY <1>2 DEF TurnType
<1>3. /\ turn \in TurnType /\ turn.setup = None /\ turn'.setup = None /\ winner = None
      /\ turn'.number \in {turn.number, turn.number + 1}
  <2>1. CASE \/ \E e \in Edges : BuildRoad(p, e)
             \/ \E q \in Players, x \in Resources : StealFrom(p, q, x)
             \/ \E v \in Vertices : BuildSettlement(p, v) \/ UpgradeCity(p, v)
             \/ BuyCard(p) \/ FinishFreeRoads(p)
             \/ \E bag \in Inventions : ChooseInvention(p, bag)
             \/ \E x \in Resources : ChooseMonopoly(p, x)
             \/ AcceptTrade(p) \/ RejectTrade(p)
             \/ \E give \in Resources, get \in Transferable : MaritimeTrade(p, give, get)
             \/ EndTurn(p)
    BY <1>1, <2>1, SettlingCloses
  <2>2. CASE \E e \in Edges : PlaceFreeRoad(p, e)
    <3>1. PICK e \in Edges : PlaceFreeRoad(p, e)
      BY <2>2
    <3>2. CASE turn' = turn
      <4>1. winner = None /\ pending.type = "PLACE_FREE_ROADS"
        BY <3>1 DEF PlaceFreeRoad, AcceptsFreeRoad, DecidesCard, Decides
      <4>2. QED
        BY <1>2, <3>2, <4>1, DecidesFacts DEF DecisionTypes
    <3>3. CASE turn' # turn
      BY <1>1, <3>1, <3>3, FreeRoadCloses
    <3>4. QED
      BY <3>2, <3>3
  <2>3. CASE \E total \in Dice : RollDice(p, total)
    <3>1. PICK total : RollDice(p, total)
      BY <2>3
    <3>2. turn \in TurnType /\ turn.setup = None /\ winner = None
      BY <3>1, InTurnFacts DEF RollDice, AcceptsRoll
    <3>3. \E phase : turn' = [turn EXCEPT !.phase = phase, !.setup = None, !.lastRoll = total]
      BY <3>1 DEF RollDice
    <3>4. QED
      BY <1>2, <3>2, <3>3
  <2>4. CASE \E bag \in Discards(p) : DiscardResources(p, bag)
    <3>1. winner = None /\ pending.type = "DISCARD_RESOURCES"
      BY <2>4 DEF DiscardResources, AcceptsDiscard, Decides
    <3>2. turn' = turn \/ turn' = [turn EXCEPT !.phase = "ROBBER_MOVE_REQUIRED"]
      BY <2>4 DEF DiscardResources
    <3>3. QED
      BY <1>2, <3>1, <3>2, DecidesFacts DEF DecisionTypes
  <2>5. CASE \E t \in Tiles : MoveRobber(p, t)
    <3>1. PICK t \in Tiles : MoveRobber(p, t)
      BY <2>5
    <3>2. CASE RobberTargets(buildings, hand, t, p) = {}
      BY <1>1, <3>1, <3>2, RobberCloses
    <3>3. CASE RobberTargets(buildings, hand, t, p) # {}
      <4>1. winner = None /\ pending.type = "MOVE_ROBBER"
        BY <3>1 DEF MoveRobber, AcceptsMoveRobber, Decides
      <4>2. turn' = [turn EXCEPT !.phase = "ROBBER_TARGET_REQUIRED"]
        BY <3>1, <3>3 DEF MoveRobber
      <4>3. QED
        BY <1>2, <4>1, <4>2, DecidesFacts DEF DecisionTypes
    <3>4. QED
      BY <3>2, <3>3
  <2>6. CASE \E c \in cards[p] : PlayCard(p, c)
    <3>1. PICK c : PlayCard(p, c)
      BY <2>6
    <3>2. InTurn(p, {"ROLL_REQUIRED", "ACTION"})
      BY <3>1 DEF PlayCard, AcceptsPlayCard
    <3>3. turn \in TurnType /\ turn.setup = None /\ winner = None
      BY <3>2, InTurnFacts
    <3>4. \/ turn' = [turn EXCEPT !.cardPlayed = TRUE]
          \/ \E phase : turn' = [turn EXCEPT !.cardPlayed = TRUE, !.phase = phase]
      BY <3>1 DEF PlayCard
    <3>5. QED
      BY <1>2, <3>3, <3>4
  <2>7. CASE \E q \in Players, t \in Terms : ProposeTrade(p, q, t.gives, t.gets)
    BY <1>2, <2>7, InTurnFacts DEF ProposeTrade, AcceptsProposal
  <2>8. CASE \E t \in Terms : CounterTrade(p, t.gives, t.gets)
    <3>1. winner = None /\ pending.type = "RESPOND_TO_TRADE" /\ turn' = turn
      BY <2>8 DEF CounterTrade, AcceptsCounter, Responds
    <3>2. QED
      BY <1>2, <3>1, DecidesFacts DEF DecisionTypes
  <2>9. QED
    BY <2>1, <2>2, <2>3, <2>4, <2>5, <2>6, <2>7, <2>8 DEF PlaysOn
<1>4. ~Setup
  BY <1>3 DEF TurnInvariant, TurnFits
<1>5. QED
  BY <1>3, <1>4

\* The first half of a player's turn in the setup.
LEMMA SettlementFits ==
  ASSUME TurnInvariant, ScoreFits, AsksFit, SetupFits, NEW p, NEW v \in SetupSites, PlaceInitialSettlement(p, v)
  PROVE  AsksFit' /\ SetupFits'
<1>1. /\ pending' = pending /\ winner' = winner /\ turn.phase = "SETUP_SETTLEMENT" /\ p = turn.current
      /\ turn' = [turn EXCEPT !.phase = "SETUP_ROAD", !.setup.settlement = v]
      /\ buildings' = [buildings EXCEPT ![v] = Building(p, "SETTLEMENT")]
  BY DEF PlaceInitialSettlement, AcceptsInitialSettlement, InTurn, Current
<1>2. /\ turn \in TurnType /\ turn.setup \in Setups /\ Setup /\ winner = None /\ pending = NoDecision
      /\ p \in Players
  BY <1>1 DEF TurnInvariant, TurnFits, Setup, TurnType
<1>3. v \in Vertices
  BY SitesOnBoard
<1>4. PICK s : s = [turn.setup EXCEPT !.settlement = v]
  OBVIOUS
<1>5. s.settlement = v
  BY <1>2, <1>4 DEF Setups
<1>6. PICK tn : tn = [turn EXCEPT !.phase = "SETUP_ROAD", !.setup = s]
  OBVIOUS
<1>7. tn.phase = "SETUP_ROAD" /\ tn.setup = s /\ tn.current = p /\ tn.number = turn.number
  BY <1>1, <1>2, <1>6 DEF TurnType
<1>8. turn' = tn
  BY <1>1, <1>2, <1>4, <1>6 DEF TurnType
<1>9. turn.number = 0
  BY <1>2 DEF AsksFit, CountFits
<1>10. CountFits'
  BY <1>7, <1>8, <1>9 DEF CountFits, Setup
<1>11. pending' = NoDecision /\ pending'.type \notin DecisionTypes
  BY <1>1, <1>2, SeatFacts DEF NoDecision
<1>12. PhaseAsks'
  BY <1>1, <1>2, <1>7, <1>8, <1>11 DEF PhaseAsks, DecisionTypes
<1>13. AsksFit'
  BY <1>10, <1>11, <1>12 DEF AsksFit, Halves, Targets, DecisionTypes
<1>14. PICK b : b = [buildings EXCEPT ![v] = Building(p, "SETTLEMENT")]
  OBVIOUS
<1>15. b[v] = Building(p, "SETTLEMENT")
  BY <1>3, <1>14, OnVertex DEF ScoreFits
<1>16. SetupPlace'
  BY <1>1, <1>3, <1>5, <1>7, <1>8, <1>14, <1>15 DEF SetupPlace
<1>17. b # [u \in Vertices |-> Unbuilt]
  BY <1>2, <1>3, <1>15, BuildingFacts
<1>18. NewGame'
  BY <1>1, <1>14, <1>17 DEF NewGame
<1>19. QED
  BY <1>13, <1>16, <1>18 DEF SetupFits

\* The second half.
LEMMA RoadFits ==
  ASSUME TurnInvariant, AsksFit, SetupFits, NEW p, NEW e, PlaceInitialRoad(p, e)
  PROVE  AsksFit' /\ SetupFits'
<1>1. /\ pending' = pending /\ winner' = winner /\ turn.phase = "SETUP_ROAD" /\ turn' = NextSetupTurn
      /\ buildings' = buildings
  BY DEF PlaceInitialRoad, AcceptsInitialRoad, InTurn
<1>2. turn \in TurnType /\ Setup /\ winner = None /\ pending = NoDecision /\ turn.current \in Players
  BY <1>1 DEF TurnInvariant, TurnFits, Setup, TurnType
<1>3. turn.number = 0
  BY <1>2 DEF AsksFit, CountFits
<1>4. pending' = NoDecision /\ pending'.type \notin DecisionTypes
  BY <1>1, <1>2, SeatFacts DEF NoDecision
<1>5. ASSUME NEW tn, turn' = tn, \/ tn.phase = "SETUP_SETTLEMENT" /\ tn.number = 0 /\ tn.setup.settlement = None
                                 \/ tn.phase = "ROLL_REQUIRED" /\ tn.number = 1
      PROVE  AsksFit' /\ SetupPlace'
  <2>1. CountFits'
    BY <1>5 DEF CountFits, Setup
  <2>2. PhaseAsks'
    BY <1>1, <1>2, <1>4, <1>5 DEF PhaseAsks, DecisionTypes
  <2>3. SetupPlace'
    BY <1>5 DEF SetupPlace
  <2>4. QED
    BY <1>4, <2>1, <2>2, <2>3 DEF AsksFit, Halves, Targets, DecisionTypes
<1>6. \/ \E at, q : /\ turn' = [turn EXCEPT !.phase = "SETUP_SETTLEMENT", !.setup = at, !.current = q]
                    /\ at.settlement = None
      \/ turn' = [number |-> 1, current |-> order[1], phase |-> "ROLL_REQUIRED",
                  setup |-> None, lastRoll |-> None, cardPlayed |-> FALSE]
  <2>1. CASE turn.setup.index < N - 1
    <3>1. PICK at, q : at = [round |-> turn.setup.round, index |-> turn.setup.index + 1, settlement |-> None] /\ q = ExpectedSetupPlayer(turn.setup.round, turn.setup.index + 1)
      OBVIOUS
    <3>2. turn' = [turn EXCEPT !.phase = "SETUP_SETTLEMENT", !.setup = at, !.current = q]
      BY <1>1, <1>2, <2>1, <3>1, SetupSuccessor
    <3>3. at.settlement = None
      BY <3>1
    <3>4. QED
      BY <3>2, <3>3
  <2>2. CASE ~(turn.setup.index < N - 1) /\ turn.setup.round = 1
    <3>1. PICK at, q : at = [round |-> 2, index |-> 0, settlement |-> None] /\ q = ExpectedSetupPlayer(2, 0)
      OBVIOUS
    <3>2. turn' = [turn EXCEPT !.phase = "SETUP_SETTLEMENT", !.setup = at, !.current = q]
      BY <1>1, <1>2, <2>2, <3>1, SetupSuccessor
    <3>3. at.settlement = None
      BY <3>1
    <3>4. QED
      BY <3>2, <3>3
  <2>3. CASE ~(turn.setup.index < N - 1) /\ turn.setup.round # 1
    BY <1>1, <1>2, <2>3, SetupSuccessor
  <2>4. QED
    BY <2>1, <2>2, <2>3
<1>7. AsksFit' /\ SetupPlace'
  <2>1. CASE \E at, q : /\ turn' = [turn EXCEPT !.phase = "SETUP_SETTLEMENT", !.setup = at, !.current = q]
                        /\ at.settlement = None
    <3>1. PICK at, q : /\ turn' = [turn EXCEPT !.phase = "SETUP_SETTLEMENT", !.setup = at, !.current = q]
                       /\ at.settlement = None
      BY <2>1
    <3>2. PICK tn : tn = [turn EXCEPT !.phase = "SETUP_SETTLEMENT", !.setup = at, !.current = q]
      OBVIOUS
    <3>3. tn.phase = "SETUP_SETTLEMENT" /\ tn.number = 0 /\ tn.setup.settlement = None
      BY <1>2, <1>3, <3>1, <3>2 DEF TurnType
    <3>4. QED
      BY <1>5, <3>1, <3>2, <3>3
  <2>2. CASE turn' = [number |-> 1, current |-> order[1], phase |-> "ROLL_REQUIRED",
                      setup |-> None, lastRoll |-> None, cardPlayed |-> FALSE]
    BY <1>5, <2>2
  <2>3. QED
    BY <1>6, <2>1, <2>2
<1>8. buildings # [u \in Vertices |-> Unbuilt]
  BY <1>1, <1>2, BuildingFacts DEF SetupFits, SetupPlace
<1>9. NewGame'
  BY <1>1, <1>8 DEF NewGame
<1>10. QED
  BY <1>7, <1>9 DEF SetupFits

\* After the setup something stands on the board, and goes on standing there.
LEMMA PlaysOnSetup ==
  ASSUME TurnInvariant, TurnInvariant', ScoreFits, SetupFits, NEW p \in Players, PlaysOn(p)
  PROVE  SetupFits'
<1>1. turn.setup = None /\ turn'.setup = None
  BY SetupIsOver
<1>2. SetupPlace'
  BY <1>1 DEF SetupPlace, TurnInvariant, TurnFits, Setup
<1>3. buildings # [u \in Vertices |-> Unbuilt]
  <2>1. turn.setup # [round |-> 1, index |-> 0, settlement |-> None]
    <3>1. PICK s : s = [round |-> 1, index |-> 0, settlement |-> None]
      OBVIOUS
    <3>2. s \in Setups
      BY <3>1, SeatFacts DEF Setups, N
    <3>3. QED
      BY <1>1, <3>1, <3>2, SeatFacts
  <2>2. QED
    BY <2>1 DEF SetupFits, NewGame, CreatedGame
<1>4. CASE \E v \in Vertices, kind \in {"SETTLEMENT", "CITY"} : buildings' = [buildings EXCEPT ![v] = Building(p, kind)]
  <2>1. PICK v \in Vertices, kind \in {"SETTLEMENT", "CITY"} : buildings' = [buildings EXCEPT ![v] = Building(p, kind)]
    BY <1>4
  <2>2. PICK b : b = [buildings EXCEPT ![v] = Building(p, kind)]
    OBVIOUS
  <2>3. b[v] = Building(p, kind)
    BY <2>2, OnVertex DEF ScoreFits
  <2>4. b # [u \in Vertices |-> Unbuilt]
    BY <2>3, BuildingFacts
  <2>5. NewGame'
    BY <2>1, <2>2, <2>4 DEF NewGame
  <2>6. QED
    BY <1>2, <2>5 DEF SetupFits
<1>5. CASE buildings' = buildings
  BY <1>2, <1>3, <1>5 DEF SetupFits, NewGame
<1>6. QED
  <2>1. CASE \E v \in Vertices : BuildSettlement(p, v) \/ UpgradeCity(p, v)
    <3>1. PICK v \in Vertices : BuildSettlement(p, v) \/ UpgradeCity(p, v)
      BY <2>1
    <3>2. \/ buildings' = [buildings EXCEPT ![v] = Building(p, "SETTLEMENT")]
          \/ buildings' = [buildings EXCEPT ![v] = Building(p, "CITY")]
      BY <3>1 DEF BuildSettlement, UpgradeCity
    <3>3. QED
      BY <1>4, <3>2
  <2>2. CASE \/ \E e \in Edges : BuildRoad(p, e) \/ PlaceFreeRoad(p, e)
             \/ \E t \in Tiles : MoveRobber(p, t)
    <3>1. buildings' = buildings
      BY <2>2, Zenon DEF BuildRoad, PlaceFreeRoad, MoveRobber
    <3>2. QED
      BY <1>5, <3>1
  <2>3. CASE \/ \E total \in Dice : RollDice(p, total)
             \/ \E bag \in Discards(p) : DiscardResources(p, bag)
             \/ \E q \in Players, x \in Resources : StealFrom(p, q, x)
             \/ BuyCard(p) \/ FinishFreeRoads(p)
             \/ \E c \in cards[p] : PlayCard(p, c)
             \/ \E bag \in Inventions : ChooseInvention(p, bag)
             \/ \E x \in Resources : ChooseMonopoly(p, x)
             \/ \E q \in Players, t \in Terms : ProposeTrade(p, q, t.gives, t.gets)
             \/ \E t \in Terms : CounterTrade(p, t.gives, t.gets)
             \/ AcceptTrade(p) \/ RejectTrade(p)
             \/ \E give \in Resources, get \in Transferable : MaritimeTrade(p, give, get)
             \/ EndTurn(p)
    <3>1. board' = board
      BY <2>3, Zenon DEF RollDice, DiscardResources, StealFrom, BuyCard, PlayCard, FinishFreeRoads, AcceptTrade,
             RejectTrade, EndTurn, ChooseInvention, ChooseMonopoly, ProposeTrade, CounterTrade, MaritimeTrade
    <3>2. QED
      BY <1>5, <3>1 DEF board
  <2>4. QED
    BY <2>1, <2>2, <2>3, Zenon DEF PlaysOn

\* What is asked after the setup.
LEMMA PlaysOnAsks ==
  ASSUME TurnInvariant, CardsFit, AsksFit, hand \in [Players -> Bags], NEW p \in Players, PlaysOn(p)
  PROVE  AsksFit'
<1>1. CASE \/ \E e \in Edges : BuildRoad(p, e)
           \/ \E q \in Players, x \in Resources : StealFrom(p, q, x)
           \/ \E v \in Vertices : BuildSettlement(p, v) \/ UpgradeCity(p, v)
           \/ BuyCard(p) \/ FinishFreeRoads(p)
           \/ \E bag \in Inventions : ChooseInvention(p, bag)
           \/ \E x \in Resources : ChooseMonopoly(p, x)
           \/ AcceptTrade(p) \/ RejectTrade(p)
           \/ \E give \in Resources, get \in Transferable : MaritimeTrade(p, give, get)
           \/ EndTurn(p)
  BY <1>1, SettlingCloses, ClosedAsks
<1>2. CASE \E t \in Tiles : MoveRobber(p, t)
  BY <1>2, RobberAsks, RobberCloses, ClosedAsks
<1>3. CASE \/ \E total \in Dice : RollDice(p, total)
           \/ \E bag \in Discards(p) : DiscardResources(p, bag)
           \/ \E c \in cards[p] : PlayCard(p, c)
  BY <1>3, RollAsks, DiscardAsks, CardAsks
<1>4. CASE \/ \E e \in Edges : PlaceFreeRoad(p, e)
           \/ \E q \in Players, t \in Terms : ProposeTrade(p, q, t.gives, t.gets)
           \/ \E t \in Terms : CounterTrade(p, t.gives, t.gets)
  BY <1>4, AnswersAsk
<1>5. QED
  BY <1>1, <1>2, <1>3, <1>4 DEF PlaysOn

\* What is asked, and the setup, after every command.
LEMMA AsksStep ==
  ASSUME TurnInvariant, TurnInvariant', CardsFit, ScoreFits, ResourcesFit, AsksFit, SetupFits, [Next]_vars
  PROVE  AsksFit' /\ SetupFits'
<1>1. CASE UNCHANGED vars
  BY <1>1 DEF vars, AsksFit, CountFits, Setup, PhaseAsks, Halves, Owing, Targets, SetupFits, SetupPlace, NewGame, CreatedGame
<1>2. CASE Stopped
  BY <1>1, <1>2 DEF Stopped
<1>3. ASSUME NEW p \in Players, PlayerStep(p) PROVE AsksFit' /\ SetupFits'
  <2>1. hand \in [Players -> Bags]
    BY DEF ResourcesFit, Balanced
  <2>2. CASE \E v \in SetupSites : PlaceInitialSettlement(p, v)
    BY <2>2, SettlementFits
  <2>3. CASE \E e \in Edges : PlaceInitialRoad(p, e)
    BY <2>3, RoadFits
  <2>4. CASE PlaysOn(p)
    BY <2>1, <2>4, PlaysOnSetup, PlaysOnAsks
  <2>5. QED
    BY <1>3, <2>2, <2>3, <2>4, PlayerSteps
<1>4. QED
  BY <1>1, <1>2, <1>3 DEF Next

\* A new game asks for nothing.
LEMMA AsksInit ==
  ASSUME Init
  PROVE  AsksFit /\ SetupFits
<1>1. PICK s, no : s = [round |-> 1, index |-> 0, settlement |-> None] /\ no = FALSE
  OBVIOUS
<1>2. turn = [number |-> 0, current |-> order[1], phase |-> "SETUP_SETTLEMENT", setup |-> s,
              lastRoll |-> None, cardPlayed |-> no]
  BY <1>1 DEF Init
<1>3. turn.number = 0 /\ turn.phase = "SETUP_SETTLEMENT" /\ turn.setup = s /\ s.settlement = None
      /\ turn.current = order[1]
  BY <1>1, <1>2
<1>4. pending.type \notin DecisionTypes /\ winner = None
  BY SeatFacts DEF Init, NoDecision
<1>5. AsksFit
  BY <1>3, <1>4 DEF AsksFit, CountFits, Setup, PhaseAsks, Halves, Targets, DecisionTypes
<1>6. ToSet(order) = Players
  <2>1. /\ order \in Seq(Players) /\ Len(order) = N /\ N \in Nat
        /\ \A q \in Players : \E i \in 1..N : order[i] = q
    BY TurnInit, SeatFacts DEF TurnInvariant, OrderFits
  <2>2. DOMAIN order = 1..N /\ \A i \in 1..N : order[i] \in Players
    BY <2>1
  <2>3. QED
    BY <2>1, <2>2 DEF ToSet
<1>7. ToSet(deck) = Cards /\ IsInjective(deck)
  BY EngineAssumption DEF Init, EngineAssumption, Cards
<1>8. hand = [q \in Players |-> Empty] /\ bank = [x \in Resources |-> BankSize] /\ awards = [road |-> None, army |-> None]
  BY DEF Init
<1>9. CreatedGame
  BY <1>1, <1>3, <1>4, <1>6, <1>7, <1>8 DEF CreatedGame
<1>10. SetupFits
  BY <1>3, <1>9 DEF SetupFits, SetupPlace, NewGame
<1>11. QED
  BY <1>5, <1>10

\* Every order of players names them all.
LEMMA OrderNamesAll ==
  ASSUME OrderFits
  PROVE  ToSet(order) = Players
<1>1. DOMAIN order = 1..N /\ \A i \in 1..N : order[i] \in Players
  BY SeatFacts DEF OrderFits
<1>2. QED
  BY <1>1 DEF ToSet, OrderFits

\* The decision of a phase of the robber.
LEMMA DecisionOf ==
  /\ DOMAIN Decision = {"ROBBER_MOVE_REQUIRED", "ROBBER_TARGET_REQUIRED"}
  /\ Decision["ROBBER_MOVE_REQUIRED"] = "MOVE_ROBBER"
  /\ Decision["ROBBER_TARGET_REQUIRED"] = "CHOOSE_ROBBER_TARGET"
  BY DEF Decision

\* The players the robber may take from are players.
LEMMA TargetsArePlayers ==
  ASSUME NEW b, NEW hd, NEW t, NEW p
  PROVE  RobberTargets(b, hd, t, p) \subseteq Players
  BY DEF RobberTargets

\* The setup's assertions.
LEMMA SetupAsserted ==
  ASSUME TurnInvariant, AsksFit, SetupFits
  PROVE  InitialSetupState /\ (turn.number = 0 /\ buildings = [v \in Vertices |-> Unbuilt] => CreatedGame)
<1>1. ASSUME Setup
      PROVE  /\ winner = None /\ pending = NoDecision /\ turn.number = 0
             /\ turn.setup.round \in {1, 2} /\ turn.setup.index \in 0..(N - 1)
             /\ turn.current = ExpectedSetupPlayer(turn.setup.round, turn.setup.index)
             /\ turn.phase = "SETUP_SETTLEMENT" => turn.setup.settlement = None
             /\ turn.phase = "SETUP_ROAD" =>
                  buildings[turn.setup.settlement] = Building(turn.current, "SETTLEMENT")
  <2>1. turn.setup \in Setups
    BY <1>1 DEF TurnInvariant, TurnFits, TurnType
  <2>2. turn.setup.round \in {1, 2} /\ turn.setup.index \in 0..(N - 1)
    BY <2>1 DEF Setups, N
  <2>3. QED
    BY <1>1, <2>2 DEF TurnInvariant, TurnFits, AsksFit, CountFits, SetupFits, SetupPlace
<1>2. InitialSetupState
  BY <1>1 DEF InitialSetupState, Setup
<1>3. QED
  BY <1>2 DEF SetupFits, NewGame

\* A decision names players, and asks for something.
LEMMA DecisionAsserted ==
  ASSUME TurnInvariant, AsksFit
  PROVE  PendingDecisionState
<1>1. turn.current \in Players
  BY DEF TurnInvariant, TurnFits, TurnType
<1>2. pending.type \in DecisionTypes \cup {None} /\ (pending.type = None => pending = NoDecision)
  BY DEF TurnInvariant, DecisionFits
<1>3. CASE pending.type = "DISCARD_RESOURCES"
  <2>1. pending.trigger = turn.current /\ DOMAIN pending.required \subseteq Players
    BY <1>3 DEF TurnInvariant, DecisionFits, DiscardFits
  <2>2. QED
    BY <1>1, <1>3, <2>1 DEF AsksFit, Halves, PendingDecisionState
<1>4. CASE pending.type = "CHOOSE_ROBBER_TARGET"
  <2>1. pending.actor = turn.current
    BY <1>4 DEF TurnInvariant, DecisionFits, RobberFits
  <2>2. pending.targets \subseteq Players
    BY <1>4, TargetsArePlayers DEF AsksFit, Targets
  <2>3. QED
    BY <1>1, <1>4, <2>1, <2>2 DEF PendingDecisionState
<1>5. CASE pending.type = "RESPOND_TO_TRADE"
  BY <1>1, <1>5 DEF TurnInvariant, DecisionFits, TradeFits, PendingDecisionState
<1>6. CASE pending.type \in {"PLACE_FREE_ROADS", "CHOOSE_INVENTION_RESOURCES", "CHOOSE_MONOPOLY_RESOURCE", "MOVE_ROBBER"}
  <2>1. pending.actor = turn.current
    BY <1>6 DEF TurnInvariant, DecisionFits, CardFits, RobberFits
  <2>2. QED
    BY <1>1, <1>6, <2>1 DEF PendingDecisionState
<1>7. CASE pending.type = None
  BY <1>2, <1>7, SeatFacts DEF PendingDecisionState, DecisionTypes
<1>8. QED
  BY <1>2, <1>3, <1>4, <1>5, <1>6, <1>7 DEF DecisionTypes

\* The assertions of a turn.
LEMMA TurnAsserted ==
  ASSUME TurnInvariant, ScoreFits, ResourcesFit, BoardFits, AsksFit
  PROVE  NormalTurnState
<1> SUFFICES ASSUME ~Setup PROVE NormalTurnState
  BY DEF NormalTurnState
<1>1. turn.setup = None /\ turn.current \in Players /\ turn.number # 0 /\ turn.number \in Nat
  BY DEF TurnInvariant, TurnFits, TurnType, AsksFit, CountFits
<1>2. ResourceState /\ BoardState /\ PendingDecisionState /\ ToSet(order) = Players
  BY BalanceIsConserved, BoardIsLegal, DecisionAsserted, OrderNamesAll DEF ResourcesFit, TurnInvariant
<1>3. turn.phase = "ROLL_REQUIRED" => turn.lastRoll = None
  BY DEF TurnInvariant, TurnFits
<1>4. turn.phase = "ACTION" =>
        /\ turn.lastRoll # None
        /\ pending.type \in {None, "CHOOSE_INVENTION_RESOURCES", "CHOOSE_MONOPOLY_RESOURCE", "RESPOND_TO_TRADE"}
  BY DEF TurnInvariant, TurnFits, DecisionFits, DecisionTypes, CardFits, AsksFit, PhaseAsks
<1>5. turn.phase = "DISCARD_REQUIRED" =>
        pending.type = "DISCARD_RESOURCES" /\ DOMAIN pending.required # {} /\ turn.lastRoll = Seven
  BY DEF TurnInvariant, DecisionFits, DiscardFits, Owing, AsksFit, PhaseAsks, Halves
<1>6. ASSUME turn.phase \in {"ROBBER_MOVE_REQUIRED", "ROBBER_TARGET_REQUIRED"}
      PROVE  /\ pending.type = Decision[turn.phase] /\ pending.actor = turn.current
             /\ pending.cause = None => turn.lastRoll = Seven
  <2>1. pending.type = Decision[turn.phase] /\ pending.type \in {"MOVE_ROBBER", "CHOOSE_ROBBER_TARGET"}
    BY <1>6, DecisionOf DEF AsksFit, PhaseAsks
  <2>2. QED
    BY <2>1 DEF TurnInvariant, DecisionFits, RobberFits, AsksFit, Targets
<1>7. turn.phase = "ROBBER_TARGET_REQUIRED" =>
        /\ pending.tile = robber /\ pending.targets # {}
        /\ pending.targets = RobberTargets(buildings, hand, pending.tile, pending.actor)
  BY DEF TurnInvariant, DecisionFits, RobberFits, AsksFit, PhaseAsks, Targets
<1>8. (turn.phase = "GAME_OVER") = (winner # None)
  BY DEF AsksFit, PhaseAsks
<1>9. turn.number > 0
  BY <1>1
<1>10. QED
  BY <1>1, <1>2, <1>3, <1>4, <1>5, <1>6, <1>7, <1>8, <1>9, DecisionOf DEF NormalTurnState

\* The assertions about the robber, the pieces and trades.
LEMMA OthersAsserted ==
  ASSUME TurnInvariant, ResourcesFit, BoardFits, AsksFit
  PROVE  RobberWorkflowState /\ PaidBuildingState /\ TradingState
<1>1. Conserved
  BY BalanceIsConserved DEF ResourcesFit
<1>2. RobberWorkflowState
  BY <1>1 DEF RobberWorkflowState, TurnInvariant, DecisionFits, DiscardFits, AsksFit, PhaseAsks, Halves
<1>3. PaidBuildingState
  BY <1>1 DEF PaidBuildingState, BoardFits, WithinLimits
<1>4. TradingState
  <2>1. SUFFICES ASSUME pending.type = "RESPOND_TO_TRADE" PROVE TradingState
    BY DEF TradingState
  <2>2. /\ pending.initiator = turn.current /\ pending.counterparty \in Players \ {turn.current}
        /\ pending.depth \in {0, 1} /\ turn.phase = "ACTION"
        /\ pending.author = IF pending.depth = 0 THEN pending.initiator ELSE pending.counterparty
    BY <2>1 DEF TurnInvariant, DecisionFits, TradeFits
  <2>3. winner = None
    BY <2>1, SeatFacts DEF TurnInvariant, TurnFits, NoDecision, DecisionTypes
  <2>4. /\ ValidBundles(pending.gives, pending.gets)
        /\ Covers(hand[pending.author], IF pending.depth = 0 THEN pending.gives ELSE pending.gets)
    BY <2>1 DEF ResourcesFit, OfferFits
  <2>5. QED
    BY <2>2, <2>3, <2>4 DEF TradingState
<1>5. QED
  BY <1>2, <1>3, <1>4

-----------------------------------------------------------------------------
(* Development cards: every card of the game is in the deck or with one    *)
(* player, once, from the first shuffle to the last card that is turned    *)
(* over.                                                                   *)

HeldOnce(cs, dk) ==
  /\ \A q, o \in Players : \A c \in cs[q], d \in cs[o] : c.card = d.card => q = o /\ c = d
  /\ \A i, j \in 1..Len(dk) : dk[i] = dk[j] => i = j
  /\ \A q \in Players : \A c \in cs[q] : \A i \in 1..Len(dk) : dk[i] # c.card
  /\ \A card \in Cards : \/ \E i \in 1..Len(dk) : dk[i] = card
                         \/ \E q \in Players : \E c \in cs[q] : c.card = card

\* The cards of turn n were got by then, and were used as their type allows.
UsedWell(cs, n) ==
  \A q \in Players : \A c \in cs[q] :
    /\ c.acquired <= n
    /\ c.status \in {"IN_HAND", IF CardType[c.card] = "VICTORY_POINT" THEN "REVEALED" ELSE "PLAYED"}

PlayedKnights(held) == {c \in held : c.status = "PLAYED" /\ CardType[c.card] = "KNIGHT"}
VictoryPoints(held) == {c \in held : CardType[c.card] = "VICTORY_POINT"}

KnightsCounted(kn, cs) == \A q \in Players : kn[q] = Cardinality(PlayedKnights(cs[q]))

CardsKnown(cs, dk, kn, n) ==
  /\ CardsType(cs) /\ dk \in Seq(Cards) /\ n \in Nat
  /\ HeldOnce(cs, dk) /\ UsedWell(cs, n) /\ KnightsCounted(kn, cs)

\* T has what g makes of the cards in S.
Changed(g, S, T) ==
  g \in [S -> T] /\ (\A c \in S : g[c].card = c.card) /\ \A d \in T : \E c \in S : d = g[c]

\* Changing what one player does with a card moves no card.
LEMMA CardsMapped ==
  ASSUME NEW cs, CardsType(cs), NEW dk, HeldOnce(cs, dk), NEW p \in Players, NEW held \in SUBSET OwnedCards,
         NEW g, Changed(g, cs[p], held)
  PROVE  HeldOnce([cs EXCEPT ![p] = held], dk)
<1>1. PICK n : n = [cs EXCEPT ![p] = held]
  OBVIOUS
<1>2. \A q \in Players : n[q] = IF q = p THEN held ELSE cs[q]
  BY <1>1 DEF CardsType
<1>3. ASSUME NEW q \in Players, NEW d \in n[q]
      PROVE  \E c \in cs[q] : c.card = d.card /\ d = IF q = p THEN g[c] ELSE c
  BY <1>2, <1>3 DEF Changed
<1>4. ASSUME NEW q \in Players, NEW o \in Players, NEW c \in n[q], NEW d \in n[o], c.card = d.card
      PROVE  q = o /\ c = d
  <2>1. PICK c0 \in cs[q] : c0.card = c.card /\ c = IF q = p THEN g[c0] ELSE c0
    BY <1>3
  <2>2. PICK d0 \in cs[o] : d0.card = d.card /\ d = IF o = p THEN g[d0] ELSE d0
    BY <1>3
  <2>3. q = o /\ c0 = d0
    BY <1>4, <2>1, <2>2 DEF HeldOnce
  <2>4. QED
    BY <2>1, <2>2, <2>3
<1>5. ASSUME NEW q \in Players, NEW c \in n[q], NEW i \in 1..Len(dk) PROVE dk[i] # c.card
  <2>1. PICK c0 \in cs[q] : c0.card = c.card
    BY <1>3
  <2>2. QED
    BY <2>1 DEF HeldOnce
<1>6. ASSUME NEW card \in Cards, ~\E i \in 1..Len(dk) : dk[i] = card
      PROVE  \E q \in Players : \E c \in n[q] : c.card = card
  <2>1. PICK q \in Players : \E c \in cs[q] : c.card = card
    BY <1>6 DEF HeldOnce
  <2>2. PICK c \in cs[q] : c.card = card
    BY <2>1
  <2>3. CASE q = p
    <3>1. g[c] \in held /\ g[c].card = card
      BY <2>2, <2>3 DEF Changed
    <3>2. QED
      BY <1>2, <2>3, <3>1
  <2>4. CASE q # p
    BY <1>2, <2>2, <2>4
  <2>5. QED
    BY <2>3, <2>4
<1>7. HeldOnce(n, dk)
  BY <1>4, <1>5, <1>6 DEF HeldOnce
<1>8. QED
  BY <1>1, <1>7

\* A card turned over.
Turned(c) == IF CardType[c.card] = "VICTORY_POINT" THEN [c EXCEPT !.status = "REVEALED"] ELSE c

\* Turning a card over changes nothing else of it.
LEMMA TurnedOver ==
  ASSUME NEW c \in OwnedCards
  PROVE  /\ Turned(c) \in OwnedCards /\ Turned(c).card = c.card /\ Turned(c).acquired = c.acquired
         /\ CardType[c.card] = "VICTORY_POINT" => Turned(c).status = "REVEALED"
         /\ CardType[c.card] # "VICTORY_POINT" => Turned(c) = c
  BY DEF Turned, OwnedCards

\* What a winner turns over: only cards that are points.
LEMMA RevealKeeps ==
  ASSUME NEW cs, NEW dk, NEW kn, NEW n, CardsKnown(cs, dk, kn, n), NEW p \in Players
  PROVE  /\ CardsKnown([cs EXCEPT ![p] = Reveal(@)], dk, kn, n)
         /\ Cardinality(VictoryPoints(Reveal(cs[p]))) = Cardinality(VictoryPoints(cs[p]))
         /\ \A c \in Reveal(cs[p]) : c.status = "IN_HAND" => CardType[c.card] # "VICTORY_POINT"
<1>1. PICK own : own = cs[p]
  OBVIOUS
<1>2. own \in SUBSET OwnedCards /\ IsFiniteSet(own)
  BY <1>1 DEF CardsKnown, CardsType
<1>3. PICK held : held = Reveal(own)
  OBVIOUS
<1>4. held \in SUBSET OwnedCards /\ IsFiniteSet(held)
  BY <1>2, <1>3, RevealFits
<1>5. PICK g : g = [c \in own |-> Turned(c)]
  OBVIOUS
<1>6. \A c \in own : g[c] = Turned(c) /\ g[c] \in held
  BY <1>3, <1>5 DEF Reveal, Turned
<1>7. \A d \in held : \E c \in own : d = g[c]
  <2>1. \A d \in held : \E c \in own : d = Turned(c)
    BY <1>3 DEF Reveal, Turned
  <2>2. QED
    BY <1>6, <2>1
<1>8. /\ \A c \in own : g[c].card = c.card /\ g[c].acquired = c.acquired
      /\ \A c \in own : CardType[c.card] = "VICTORY_POINT" => g[c].status = "REVEALED"
      /\ \A c \in own : CardType[c.card] # "VICTORY_POINT" => g[c] = c
  BY <1>2, <1>6, TurnedOver
<1>9. g \in [own -> held]
  BY <1>5, <1>6
<1> HIDE <1>5
<1>10. PICK m : m = [cs EXCEPT ![p] = held]
  OBVIOUS
<1>11. \A q \in Players : m[q] = IF q = p THEN held ELSE cs[q]
  BY <1>10 DEF CardsKnown, CardsType
<1>12. CardsType(m)
  BY <1>4, <1>10 DEF CardsKnown, CardsType
<1>13. HeldOnce(m, dk)
  <2>1. CardsType(cs) /\ HeldOnce(cs, dk)
    BY DEF CardsKnown
  <2>2. Changed(g, cs[p], held)
    BY <1>1, <1>7, <1>8, <1>9 DEF Changed
  <2>3. HeldOnce([cs EXCEPT ![p] = held], dk)
    BY <1>4, <2>1, <2>2, CardsMapped
  <2>4. QED
    BY <1>10, <2>3
<1>14. UsedWell(m, n)
  <2>1. ASSUME NEW c \in held
        PROVE  /\ c.acquired <= n
               /\ c.status \in {"IN_HAND", IF CardType[c.card] = "VICTORY_POINT" THEN "REVEALED" ELSE "PLAYED"}
    <3>1. PICK d \in own : c = g[d]
      BY <1>7
    <3>2. /\ d.acquired <= n
          /\ d.status \in {"IN_HAND", IF CardType[d.card] = "VICTORY_POINT" THEN "REVEALED" ELSE "PLAYED"}
      BY <1>1 DEF CardsKnown, UsedWell
    <3>3. QED
      BY <1>8, <3>1, <3>2
  <2>2. QED
    BY <1>11, <2>1 DEF CardsKnown, UsedWell
<1>15. PlayedKnights(held) = PlayedKnights(own)
  <2>1. ASSUME NEW c \in own, CardType[c.card] = "KNIGHT" PROVE c \in held
    BY <1>6, <1>8, <2>1
  <2>2. ASSUME NEW c \in held, CardType[c.card] = "KNIGHT" PROVE c \in own
    <3>1. PICK d \in own : c = g[d]
      BY <1>7
    <3>2. CardType[d.card] = "KNIGHT"
      BY <1>8, <2>2, <3>1
    <3>3. QED
      BY <1>8, <3>1, <3>2
  <2>3. QED
    BY <2>1, <2>2 DEF PlayedKnights
<1>16. KnightsCounted(kn, m)
  BY <1>1, <1>11, <1>15 DEF CardsKnown, KnightsCounted
<1>17. CardsKnown(m, dk, kn, n)
  BY <1>12, <1>13, <1>14, <1>16 DEF CardsKnown
<1>18. Cardinality(VictoryPoints(held)) = Cardinality(VictoryPoints(own))
  <2>1. PICK S, T : S = VictoryPoints(own) /\ T = VictoryPoints(held)
    OBVIOUS
  <2>2. IsFiniteSet(S) /\ IsFiniteSet(T)
    BY <1>2, <1>4, <2>1, FS_Subset DEF VictoryPoints
  <2>3. PICK f : f = [c \in S |-> g[c]]
    OBVIOUS
  <2>4. \A c \in S : f[c] = g[c] /\ f[c] \in T /\ c \in own
    BY <1>6, <1>8, <2>1, <2>3 DEF VictoryPoints
  <2>5. \A d \in T : \E c \in S : f[c] = d
    <3> TAKE d \in T
    <3>1. d \in held /\ CardType[d.card] = "VICTORY_POINT"
      BY <2>1 DEF VictoryPoints
    <3>2. PICK c \in own : d = g[c]
      BY <1>7, <3>1
    <3>3. c \in S
      BY <1>8, <2>1, <3>1, <3>2 DEF VictoryPoints
    <3>4. QED
      BY <2>4, <3>2, <3>3
  <2>6. \A c, d \in S : f[c] = f[d] => c = d
    <3> TAKE c, d \in S
    <3>1. HAVE f[c] = f[d]
    <3>2. c.card = d.card
      BY <1>8, <2>4, <3>1
    <3>3. QED
      BY <1>1, <2>4, <3>2 DEF CardsKnown, HeldOnce
  <2>7. f \in Surjection(S, T) /\ f \in Injection(S, T)
    <3>1. f \in [S -> T]
      BY <2>3, <2>4
    <3>2. f \in Injection(S, T)
      BY <2>6, <3>1 DEF Injection, IsInjective
    <3>3. f \in Surjection(S, T)
      BY <2>5, <3>1 DEF Surjection
    <3>4. QED
      BY <3>2, <3>3
  <2>8. Cardinality(T) = Cardinality(S)
    BY <2>2, <2>7, FS_Surjection
  <2>9. QED
    BY <2>1, <2>8
<1>19. \A c \in held : c.status = "IN_HAND" => CardType[c.card] # "VICTORY_POINT"
  <2> TAKE c \in held
  <2>1. PICK d \in own : c = g[d]
    BY <1>7
  <2>2. QED
    BY <1>8, <2>1
<1>20. QED
  BY <1>1, <1>3, <1>10, <1>17, <1>18, <1>19

\* A card that is bought leaves the deck for one player's hand.
LEMMA BuyKeeps ==
  ASSUME NEW cs, NEW dk, NEW kn, NEW n, CardsKnown(cs, dk, kn, n), NEW p \in Players, dk # <<>>,
         NEW c, c = [card |-> Head(dk), acquired |-> n, status |-> "IN_HAND"]
  PROVE  CardsKnown([cs EXCEPT ![p] = @ \cup {c}], Tail(dk), kn, n)
<1>1. /\ CardsType(cs) /\ dk \in Seq(Cards) /\ n \in Nat
      /\ HeldOnce(cs, dk) /\ UsedWell(cs, n) /\ KnightsCounted(kn, cs)
  BY DEF CardsKnown
<1>2. PICK tl : tl = Tail(dk)
  OBVIOUS
<1>3. PICK len : len = Len(dk)
  OBVIOUS
<1>4. /\ len \in Nat /\ len > 0 /\ Head(dk) = dk[1] /\ dk[1] \in Cards
      /\ tl \in Seq(Cards) /\ Len(tl) = len - 1 /\ \A i \in 1..(len - 1) : tl[i] = dk[i + 1]
  BY <1>1, <1>2, <1>3
<1>5. c \in OwnedCards /\ c.card = dk[1] /\ c.acquired = n /\ c.status = "IN_HAND"
  BY <1>1, <1>4 DEF OwnedCards
<1>6. PICK held : held = cs[p] \cup {c}
  OBVIOUS
<1>7. held \in SUBSET OwnedCards /\ IsFiniteSet(held)
  BY <1>1, <1>5, <1>6, FS_AddElement DEF CardsType
<1>8. PICK m : m = [cs EXCEPT ![p] = held]
  OBVIOUS
<1>9. \A q \in Players : m[q] = IF q = p THEN cs[q] \cup {c} ELSE cs[q]
  BY <1>1, <1>6, <1>8 DEF CardsType
<1>10. CardsType(m)
  BY <1>1, <1>7, <1>8 DEF CardsType
<1>11. \A q \in Players : \A d \in m[q] : d \in cs[q] \/ (d = c /\ q = p)
  BY <1>9
<1>12. \A q \in Players : \A d \in cs[q] : \A i \in 1..len : dk[i] # d.card
  BY <1>1, <1>3 DEF HeldOnce
<1>13. \A q \in Players : \A d \in cs[q] : c.card # d.card
  BY <1>4, <1>5, <1>12
<1>14. HeldOnce(m, tl)
  <2>1. ASSUME NEW q \in Players, NEW o \in Players, NEW a \in m[q], NEW d \in m[o], a.card = d.card
        PROVE  q = o /\ a = d
    <3>1. CASE a \in cs[q] /\ d \in cs[o]
      BY <1>1, <2>1, <3>1 DEF HeldOnce
    <3>2. CASE a = c /\ q = p /\ d = c /\ o = p
      BY <3>2
    <3>3. QED
      BY <1>11, <1>13, <2>1, <3>1, <3>2
  <2>2. \A i, j \in 1..len : dk[i] = dk[j] => i = j
    BY <1>1, <1>3 DEF HeldOnce
  <2>3. ASSUME NEW i \in 1..Len(tl), NEW j \in 1..Len(tl), tl[i] = tl[j] PROVE i = j
    <3>1. i + 1 \in 1..len /\ j + 1 \in 1..len /\ tl[i] = dk[i + 1] /\ tl[j] = dk[j + 1] /\ i \in Int /\ j \in Int
      BY <1>4
    <3>2. i + 1 = j + 1
      BY <2>2, <2>3, <3>1
    <3>3. QED
      BY <3>1, <3>2
  <2>4. ASSUME NEW q \in Players, NEW d \in m[q], NEW i \in 1..Len(tl) PROVE tl[i] # d.card
    <3>1. i + 1 \in 1..len /\ tl[i] = dk[i + 1] /\ i + 1 # 1 /\ 1 \in 1..len
      BY <1>4
    <3>2. CASE d \in cs[q]
      BY <1>12, <3>1, <3>2
    <3>3. CASE d = c
      BY <1>5, <2>2, <3>1, <3>3
    <3>4. QED
      BY <1>11, <3>2, <3>3
  <2>5. ASSUME NEW card \in Cards
        PROVE  (\E i \in 1..Len(tl) : tl[i] = card) \/ (\E q \in Players : \E d \in m[q] : d.card = card)
    <3>1. CASE \E i \in 1..len : dk[i] = card
      <4>1. PICK i \in 1..len : dk[i] = card
        BY <3>1
      <4>2. CASE i = 1
        BY <1>5, <1>9, <4>1, <4>2
      <4>3. CASE i # 1
        <5>1. i - 1 \in 1..(len - 1) /\ (i - 1) + 1 = i
          BY <1>4, <4>3
        <5>2. i - 1 \in 1..Len(tl) /\ tl[i - 1] = card
          BY <1>4, <4>1, <5>1
        <5>3. QED
          BY <5>2
      <4>4. QED
        BY <4>2, <4>3
    <3>2. CASE \E q \in Players : \E d \in cs[q] : d.card = card
      BY <1>9, <3>2
    <3>3. QED
      BY <1>1, <1>3, <3>1, <3>2 DEF HeldOnce
  <2>6. QED
    BY <2>1, <2>3, <2>4, <2>5 DEF HeldOnce
<1>15. UsedWell(m, n)
  BY <1>1, <1>5, <1>11 DEF UsedWell
<1>16. KnightsCounted(kn, m)
  <2>1. ASSUME NEW q \in Players PROVE PlayedKnights(m[q]) = PlayedKnights(cs[q])
    BY <1>5, <1>9 DEF PlayedKnights
  <2>2. QED
    BY <1>1, <2>1 DEF KnightsCounted
<1>17. CardsKnown(m, tl, kn, n)
  BY <1>1, <1>4, <1>10, <1>14, <1>15, <1>16 DEF CardsKnown
<1>18. QED
  BY <1>2, <1>6, <1>8, <1>17

\* A card that is played stays with its player.
LEMMA PlayKeeps ==
  ASSUME NEW cs, NEW dk, NEW kn, NEW n, CardsKnown(cs, dk, kn, n), kn \in [Players -> Nat], NEW p \in Players,
         NEW c \in cs[p], c.status = "IN_HAND", CardType[c.card] # "VICTORY_POINT",
         NEW d, d = [c EXCEPT !.status = "PLAYED"],
         NEW k, k = IF CardType[c.card] = "KNIGHT" THEN [kn EXCEPT ![p] = @ + 1] ELSE kn
  PROVE  CardsKnown([cs EXCEPT ![p] = (@ \ {c}) \cup {d}], dk, k, n)
<1>1. /\ CardsType(cs) /\ dk \in Seq(Cards) /\ n \in Nat
      /\ HeldOnce(cs, dk) /\ UsedWell(cs, n) /\ KnightsCounted(kn, cs)
  BY DEF CardsKnown
<1>2. PICK own : own = cs[p]
  OBVIOUS
<1>3. own \in SUBSET OwnedCards /\ IsFiniteSet(own) /\ c \in own
  BY <1>1, <1>2 DEF CardsType
<1>4. d \in OwnedCards /\ d.card = c.card /\ d.acquired = c.acquired /\ d.status = "PLAYED"
  BY <1>3 DEF OwnedCards
<1>5. PICK held : held = (own \ {c}) \cup {d}
  OBVIOUS
<1>6. held \in SUBSET OwnedCards
  BY <1>3, <1>4, <1>5
<1>7. IsFiniteSet(held)
  BY <1>3, <1>5, FS_AddElement, FS_RemoveElement
<1>8. PICK m : m = [cs EXCEPT ![p] = held]
  OBVIOUS
<1>9. \A q \in Players : m[q] = IF q = p THEN held ELSE cs[q]
  BY <1>1, <1>8 DEF CardsType
<1>10. CardsType(m)
  BY <1>1, <1>6, <1>7, <1>8 DEF CardsType
<1>11. HeldOnce(m, dk)
  <2>1. PICK g : g = [x \in own |-> IF x = c THEN d ELSE x]
    OBVIOUS
  <2>2. /\ \A x \in own : g[x] \in held /\ g[x].card = x.card
        /\ \A y \in held : \E x \in own : y = g[x]
    BY <1>3, <1>4, <1>5, <2>1
  <2>3. g \in [own -> held]
    BY <2>1, <2>2
  <2>4. Changed(g, cs[p], held)
    BY <1>2, <2>2, <2>3 DEF Changed
  <2>5. QED
    BY <1>1, <1>6, <1>8, <2>4, CardsMapped
<1>12. UsedWell(m, n)
  <2>1. \A x \in own : /\ x.acquired <= n
                       /\ x.status \in {"IN_HAND", IF CardType[x.card] = "VICTORY_POINT" THEN "REVEALED" ELSE "PLAYED"}
    BY <1>1, <1>2 DEF UsedWell
  <2>2. \A x \in held : /\ x.acquired <= n
                        /\ x.status \in {"IN_HAND", IF CardType[x.card] = "VICTORY_POINT" THEN "REVEALED" ELSE "PLAYED"}
    BY <1>3, <1>4, <1>5, <2>1
  <2>3. QED
    BY <1>1, <1>9, <2>2 DEF UsedWell
<1>13. KnightsCounted(k, m)
  <2>1. PICK S : S = PlayedKnights(own)
    OBVIOUS
  <2>2. IsFiniteSet(S) /\ Cardinality(S) = kn[p] /\ c \notin S
    <3>1. S \subseteq own /\ c \notin S
      BY <2>1 DEF PlayedKnights
    <3>2. IsFiniteSet(S)
      BY <1>3, <3>1, FS_Subset
    <3>3. QED
      BY <1>1, <1>2, <2>1, <3>1, <3>2 DEF KnightsCounted
  <2>3. \A q \in Players : q # p => k[q] = kn[q]
    OBVIOUS
  <2>4. \A q \in Players : q # p => k[q] = Cardinality(PlayedKnights(m[q]))
    BY <1>1, <1>9, <2>3 DEF KnightsCounted
  <2>5. CASE CardType[c.card] = "KNIGHT"
    <3>1. k[p] = kn[p] + 1
      BY <2>5
    <3>2. PlayedKnights(held) = S \cup {d}
      BY <1>3, <1>4, <1>5, <2>1, <2>2, <2>5 DEF PlayedKnights
    <3>3. d \notin S
      <4>1. \A a, b \in own : a.card = b.card => a = b
        BY <1>1, <1>2 DEF HeldOnce
      <4>2. d \in own => d = c
        BY <1>3, <1>4, <4>1
      <4>3. S \subseteq own
        BY <2>1 DEF PlayedKnights
      <4>4. QED
        BY <2>2, <4>2, <4>3
    <3>4. Cardinality(PlayedKnights(held)) = k[p]
      BY <2>2, <3>1, <3>2, <3>3, FS_AddElement
    <3>5. QED
      BY <1>9, <2>4, <3>4 DEF KnightsCounted
  <2>6. CASE CardType[c.card] # "KNIGHT"
    <3>1. PlayedKnights(held) = S
      BY <1>3, <1>4, <1>5, <2>1, <2>6 DEF PlayedKnights
    <3>2. k[p] = Cardinality(PlayedKnights(held))
      BY <2>2, <2>6, <3>1
    <3>3. QED
      BY <1>9, <2>4, <3>2 DEF KnightsCounted
  <2>7. QED
    BY <2>5, <2>6
<1>14. CardsKnown(m, dk, k, n)
  BY <1>1, <1>10, <1>11, <1>12, <1>13 DEF CardsKnown
<1>15. QED
  BY <1>2, <1>5, <1>8, <1>14

\* The cards of the game are known at this turn.
CardsRight == CardsKnown(cards, deck, knights, turn.number)

\* A winner has the points to win, and holds no card that is a point.
WinnerFits ==
  winner # None => /\ Points(buildings, awards, cards, winner) >= Target
                   /\ \A c \in cards[winner] : c.status = "IN_HAND" => CardType[c.card] # "VICTORY_POINT"

\* Points depend on no more of a player's cards than how many are points.
LEMMA SamePoints ==
  ASSUME NEW b, NEW aw, NEW cs, NEW cn, NEW p,
         Cardinality(VictoryPoints(cn[p])) = Cardinality(VictoryPoints(cs[p]))
  PROVE  Points(b, aw, cn, p) = Points(b, aw, cs, p)
  BY DEF Points, VictoryPoints

\* Looking for the points to win leaves the cards known, and a winner with them.
LEMMA ResolveKeeps ==
  ASSUME NEW b, NEW aw, NEW cs, NEW dk, NEW kn, NEW tn \in TurnType, CardsKnown(cs, dk, kn, tn.number), winner = None,
         ResolveVictory(b, aw, cs, tn, NoDecision), buildings' = b, awards' = aw, deck' = dk, knights' = kn
  PROVE  CardsRight' /\ WinnerFits'
<1>1. PICK p : p = tn.current
  OBVIOUS
<1>2. p \in Players /\ p # None
  BY <1>1, SeatFacts DEF TurnType
<1>3. CASE Points(b, aw, cs, p) >= Target
  <2>1. turn' = [tn EXCEPT !.phase = "GAME_OVER"] /\ winner' = p /\ cards' = [cs EXCEPT ![p] = Reveal(@)]
    BY <1>1, <1>3 DEF ResolveVictory
  <2>2. turn'.number = tn.number
    BY <2>1 DEF TurnType
  <2>3. PICK cn : cn = [cs EXCEPT ![p] = Reveal(@)]
    OBVIOUS
  <2>4. cn[p] = Reveal(cs[p])
    BY <1>2, <2>3 DEF CardsKnown, CardsType
  <2>5. /\ CardsKnown(cn, dk, kn, tn.number)
        /\ Cardinality(VictoryPoints(cn[p])) = Cardinality(VictoryPoints(cs[p]))
        /\ \A c \in cn[p] : c.status = "IN_HAND" => CardType[c.card] # "VICTORY_POINT"
    <3>1. PICK n : n = tn.number
      OBVIOUS
    <3>2. CardsKnown(cs, dk, kn, n)
      BY <3>1
    <3>3. /\ CardsKnown([cs EXCEPT ![p] = Reveal(@)], dk, kn, n)
          /\ Cardinality(VictoryPoints(Reveal(cs[p]))) = Cardinality(VictoryPoints(cs[p]))
          /\ \A c \in Reveal(cs[p]) : c.status = "IN_HAND" => CardType[c.card] # "VICTORY_POINT"
      BY <1>2, <3>2, RevealKeeps
    <3>4. QED
      BY <2>3, <2>4, <3>1, <3>3
  <2>6. cards' = cn
    BY <2>1, <2>3
  <2>7. CardsRight'
    BY <2>2, <2>5, <2>6 DEF CardsRight
  <2>8. Points(b, aw, cn, p) >= Target
    BY <1>3, <2>5, SamePoints
  <2>9. WinnerFits'
    BY <2>1, <2>5, <2>6, <2>8 DEF WinnerFits
  <2>10. QED
    BY <2>7, <2>9
<1>4. CASE ~(Points(b, aw, cs, p) >= Target)
  <2>1. turn' = tn /\ cards' = cs /\ winner' = None
    BY <1>1, <1>4 DEF ResolveVictory
  <2>2. CardsRight'
    BY <2>1 DEF CardsRight
  <2>3. WinnerFits'
    BY <2>1 DEF WinnerFits
  <2>4. QED
    BY <2>2, <2>3
<1>5. QED
  BY <1>3, <1>4

\* What was got by a turn was got by a later one.
LEMMA KnownLater ==
  ASSUME NEW cs, NEW dk, NEW kn, NEW n, NEW m \in Nat, CardsKnown(cs, dk, kn, n), n <= m
  PROVE  CardsKnown(cs, dk, kn, m)
<1>1. UsedWell(cs, m)
  <2>1. ASSUME NEW q \in Players, NEW c \in cs[q]
        PROVE  /\ c.acquired <= m
               /\ c.status \in {"IN_HAND", IF CardType[c.card] = "VICTORY_POINT" THEN "REVEALED" ELSE "PLAYED"}
    <3>1. /\ c.acquired <= n
          /\ c.status \in {"IN_HAND", IF CardType[c.card] = "VICTORY_POINT" THEN "REVEALED" ELSE "PLAYED"}
      BY DEF CardsKnown, UsedWell
    <3>2. c.acquired \in Nat /\ n \in Nat
      BY DEF CardsKnown, CardsType, OwnedCards
    <3>3. QED
      BY <3>1, <3>2
  <2>2. QED
    BY <2>1 DEF UsedWell
<1>2. QED
  BY <1>1 DEF CardsKnown

\* A command that leaves the cards alone leaves them known.
LEMMA KnownStays ==
  ASSUME TurnInvariant', CardsRight, winner = None, winner' = winner,
         cards' = cards, deck' = deck, knights' = knights,
         turn.number <= turn'.number
  PROVE  CardsRight' /\ WinnerFits'
<1>1. PICK cs, dk, kn, n, m : cs = cards /\ dk = deck /\ kn = knights /\ n = turn.number /\ m = turn'.number
  OBVIOUS
<1>2. m \in Nat
  BY <1>1 DEF TurnInvariant, TurnFits, TurnType
<1>3. CardsKnown(cs, dk, kn, m)
  BY <1>1, <1>2, KnownLater DEF CardsRight
<1>4. CardsRight'
  BY <1>1, <1>3 DEF CardsRight
<1>5. QED
  BY <1>4 DEF WinnerFits

\* Looking for the points to win with the cards as they are.
LEMMA ResolvedKeeps ==
  ASSUME CardsRight, winner = None, NEW b, NEW aw, NEW tn \in TurnType, tn.number \in {turn.number, turn.number + 1},
         ResolveVictory(b, aw, cards, tn, NoDecision), buildings' = b, awards' = aw, deck' = deck, knights' = knights
  PROVE  CardsRight' /\ WinnerFits'
<1>1. PICK cs, dk, kn, n : cs = cards /\ dk = deck /\ kn = knights /\ n = turn.number
  OBVIOUS
<1>2. n \in Nat /\ tn.number \in {n, n + 1} /\ CardsKnown(cs, dk, kn, n)
  BY <1>1 DEF CardsRight, CardsKnown
<1>3. PICK m : m = tn.number
  OBVIOUS
<1>4. m \in Nat /\ n <= m
  BY <1>2, <1>3
<1>5. CardsKnown(cs, dk, kn, tn.number)
  BY <1>2, <1>3, <1>4, KnownLater
<1>6. QED
  BY <1>1, <1>5, ResolveKeeps

\* The end of a turn looks at the next player's points.
LEMMA EndTurnKnown ==
  ASSUME TurnInvariant, CardsRight, NEW p, EndTurn(p)
  PROVE  CardsRight' /\ WinnerFits'
<1>1. winner = None /\ p \in Players /\ p = turn.current /\ turn \in TurnType /\ turn.setup = None
  BY InTurnFacts DEF EndTurn, AcceptsEndTurn
<1>2. PICK i : i = CHOOSE j \in 1..N : order[j] = Current
  OBVIOUS
<1>3. i \in 1..N /\ order[i] = turn.current
  BY <1>1, <1>2 DEF TurnInvariant, OrderFits, Current
<1>4. order[(i % N) + 1] \in Players
  BY <1>3, After DEF TurnInvariant, OrderFits
<1>5. PICK next : next = [number |-> turn.number + 1, current |-> order[(i % N) + 1],
                          phase |-> "ROLL_REQUIRED", setup |-> None, lastRoll |-> None, cardPlayed |-> FALSE]
  OBVIOUS
<1>6. next \in TurnType /\ next.number = turn.number + 1
  <2>1. turn.number + 1 \in Nat
    BY <1>1 DEF TurnType
  <2>2. QED
    BY <1>4, <1>5, <2>1 DEF TurnType, Phases
<1>7. PICK b, aw : b = buildings /\ aw = awards
  OBVIOUS
<1>8. /\ ResolveVictory(b, aw, cards, next, NoDecision)
      /\ buildings' = b /\ awards' = aw /\ deck' = deck /\ knights' = knights
  BY <1>2, <1>5, <1>7 DEF EndTurn, board
<1>9. QED
  BY <1>1, <1>6, <1>8, ResolvedKeeps

\* The robber, when it has been settled whom it takes from.
LEMMA RobberKnown ==
  ASSUME TurnInvariant, TurnInvariant', CardsRight, NEW cause, NEW tn,
         tn = [turn EXCEPT !.phase = AfterRobber(pending.cause)], RobberDone(cause, tn),
         winner = None, pending.type \in {"MOVE_ROBBER", "CHOOSE_ROBBER_TARGET"},
         buildings' = buildings, awards' = awards, deck' = deck, knights' = knights
  PROVE  CardsRight' /\ WinnerFits'
<1>1. turn \in TurnType /\ turn.setup = None
  BY DecidesFacts DEF DecisionTypes
<1>2. tn \in TurnType
  BY AfterRobberGoesOn DEF GoesOn
<1>3. tn.number = turn.number /\ turn.number \in Nat
  BY <1>1 DEF TurnType
<1>4. CASE cause = None
  <2>1. turn' = tn /\ cards' = cards /\ winner' = winner
    BY <1>4 DEF RobberDone
  <2>2. turn.number <= turn'.number
    BY <1>3, <2>1
  <2>3. QED
    BY <2>1, <2>2, KnownStays
<1>5. CASE cause # None
  <2>1. PICK b, aw : b = buildings /\ aw = awards
    OBVIOUS
  <2>2. ResolveVictory(b, aw, cards, tn, NoDecision)
    BY <1>5, <2>1 DEF RobberDone
  <2>3. QED
    BY <1>2, <1>3, <2>1, <2>2, ResolvedKeeps
<1>6. QED
  BY <1>4, <1>5

\* Building looks at the points it brings.
LEMMA BuildKnown ==
  ASSUME TurnInvariant, CardsRight, NEW p,
         \/ \E e \in Edges : BuildRoad(p, e)
         \/ \E v \in Vertices : BuildSettlement(p, v) \/ UpgradeCity(p, v)
  PROVE  CardsRight' /\ WinnerFits'
<1>1. winner = None /\ turn \in TurnType
  BY InTurnFacts DEF BuildRoad, AcceptsRoad, BuildSettlement, AcceptsSettlement, UpgradeCity, AcceptsCity
<1>2. ASSUME NEW b, NEW r, Reconcile(b, r, cards), buildings' = b, deck' = deck, knights' = knights
      PROVE  CardsRight' /\ WinnerFits'
  <2>1. PICK aw, tn : aw = Reconciled(b, r, knights) /\ tn = turn
    OBVIOUS
  <2>2. awards' = aw /\ ResolveVictory(b, aw, cards, tn, NoDecision)
    BY <1>2, <2>1 DEF Reconcile
  <2>3. tn \in TurnType /\ tn.number \in {turn.number, turn.number + 1}
    BY <1>1, <2>1
  <2>4. QED
    BY <1>1, <1>2, <2>2, <2>3, ResolvedKeeps
<1>3. CASE \E e \in Edges : BuildRoad(p, e)
  <2>1. PICK e \in Edges : BuildRoad(p, e)
    BY <1>3
  <2>2. PICK b, r : b = buildings /\ r = [roads EXCEPT ![e] = p]
    OBVIOUS
  <2>3. Reconcile(b, r, cards) /\ buildings' = b /\ deck' = deck /\ knights' = knights
    BY <2>1, <2>2 DEF BuildRoad
  <2>4. QED
    BY <1>2, <2>3
<1>4. CASE \E v \in Vertices : BuildSettlement(p, v)
  <2>1. PICK v \in Vertices : BuildSettlement(p, v)
    BY <1>4
  <2>2. PICK b, r : b = [buildings EXCEPT ![v] = Building(p, "SETTLEMENT")] /\ r = roads
    OBVIOUS
  <2>3. Reconcile(b, r, cards) /\ buildings' = b /\ deck' = deck /\ knights' = knights
    BY <2>1, <2>2 DEF BuildSettlement
  <2>4. QED
    BY <1>2, <2>3
<1>5. CASE \E v \in Vertices : UpgradeCity(p, v)
  <2>1. PICK v \in Vertices : UpgradeCity(p, v)
    BY <1>5
  <2>2. PICK b, r : b = [buildings EXCEPT ![v] = Building(p, "CITY")] /\ r = roads
    OBVIOUS
  <2>3. Reconcile(b, r, cards) /\ buildings' = b /\ deck' = deck /\ knights' = knights
    BY <2>1, <2>2 DEF UpgradeCity
  <2>4. QED
    BY <1>2, <2>3
<1>6. QED
  BY <1>3, <1>4, <1>5

\* A card is bought, and may win.
LEMMA BuyKnown ==
  ASSUME TurnInvariant, CardsRight, NEW p, BuyCard(p)
  PROVE  CardsRight' /\ WinnerFits'
<1>1. winner = None /\ turn \in TurnType /\ p \in Players /\ deck # <<>>
  BY InTurnFacts DEF BuyCard, AcceptsBuyCard
<1>2. PICK c0, dk, kn, n : c0 = cards /\ dk = deck /\ kn = knights /\ n = turn.number
  OBVIOUS
<1>3. CardsKnown(c0, dk, kn, n) /\ dk # <<>>
  BY <1>1, <1>2 DEF CardsRight
<1>4. PICK c : c = [card |-> Head(dk), acquired |-> n, status |-> "IN_HAND"]
  OBVIOUS
<1>5. PICK cs, d2 : cs = [c0 EXCEPT ![p] = @ \cup {c}] /\ d2 = Tail(dk)
  OBVIOUS
<1>6. CardsKnown(cs, d2, kn, n)
  BY <1>1, <1>3, <1>4, <1>5, BuyKeeps
<1>7. PICK b, aw, tn : b = buildings /\ aw = Reconciled(buildings, roads, knights) /\ tn = turn
  OBVIOUS
<1>8. /\ ResolveVictory(b, aw, cs, tn, NoDecision)
      /\ buildings' = b /\ awards' = aw /\ deck' = d2 /\ knights' = kn
  BY <1>2, <1>4, <1>5, <1>7 DEF BuyCard, Reconcile, board
<1>9. tn \in TurnType /\ tn.number = n
  BY <1>1, <1>2, <1>7
<1>10. QED
  BY <1>1, <1>6, <1>8, <1>9, ResolveKeeps

\* A card is played.
LEMMA PlayKnown ==
  ASSUME TurnInvariant, CardsRight, knights \in [Players -> Nat], NEW p, NEW c, PlayCard(p, c)
  PROVE  CardsRight' /\ WinnerFits'
<1>1. /\ winner = None /\ turn \in TurnType /\ p \in Players
      /\ c \in cards[p] /\ c.status = "IN_HAND" /\ CardType[c.card] # "VICTORY_POINT"
  BY InTurnFacts DEF PlayCard, AcceptsPlayCard, Playable, InHand
<1>2. PICK cs, dk, kn, n : cs = cards /\ dk = deck /\ kn = knights /\ n = turn.number
  OBVIOUS
<1>3. CardsKnown(cs, dk, kn, n) /\ kn \in [Players -> Nat] /\ c \in cs[p]
  BY <1>1, <1>2 DEF CardsRight
<1>4. PICK d : d = [c EXCEPT !.status = "PLAYED"]
  OBVIOUS
<1>5. PICK k : k = IF CardType[c.card] = "KNIGHT" THEN [kn EXCEPT ![p] = @ + 1] ELSE kn
  OBVIOUS
<1>6. CardsKnown([cs EXCEPT ![p] = (@ \ {c}) \cup {d}], dk, k, n)
  BY <1>1, <1>3, <1>4, <1>5, PlayKeeps
<1>7. cards' = [cs EXCEPT ![p] = (@ \ {c}) \cup {d}] /\ deck' = dk /\ winner' = None
  BY <1>1, <1>2, <1>4 DEF PlayCard
<1>8. knights' = k
  BY <1>2, <1>5 DEF PlayCard
<1>9. turn'.number = n
  <2>1. (\E phase : turn' = [turn EXCEPT !.cardPlayed = TRUE, !.phase = phase]) \/ turn' = [turn EXCEPT !.cardPlayed = TRUE]
    BY DEF PlayCard
  <2>2. QED
    BY <1>1, <1>2, <2>1 DEF TurnType
<1>10. CardsRight'
  BY <1>6, <1>7, <1>8, <1>9 DEF CardsRight
<1>11. QED
  BY <1>7, <1>10 DEF WinnerFits

\* A free road, which may win.
LEMMA FreeRoadKnown ==
  ASSUME TurnInvariant, TurnInvariant', CardsRight, NEW p, NEW e, PlaceFreeRoad(p, e)
  PROVE  CardsRight' /\ WinnerFits'
<1>1. /\ winner = None /\ pending.type = "PLACE_FREE_ROADS" /\ pending.type \in DecisionTypes
      /\ buildings' = buildings /\ deck' = deck /\ knights' = knights
  BY DEF PlaceFreeRoad, AcceptsFreeRoad, DecidesCard, Decides, DecisionTypes
<1>2. turn \in TurnType /\ turn.number \in Nat
  BY <1>1, DecidesFacts DEF TurnType
<1>3. PICK tn, aw, b : /\ tn = [turn EXCEPT !.phase = Resume] /\ b = buildings
                       /\ aw = Reconciled(buildings, [roads EXCEPT ![e] = p], knights)
  OBVIOUS
<1>4. CASE ResolveVictory(b, aw, cards, tn, NoDecision)
  <2>1. awards' = aw
    BY <1>3 DEF PlaceFreeRoad
  <2>2. tn \in TurnType /\ tn.number = turn.number
    BY <1>1, <1>2, <1>3, ResumeGoesOn DEF GoesOn, TurnType
  <2>3. QED
    BY <1>1, <1>3, <1>4, <2>1, <2>2, ResolvedKeeps
<1>5. CASE turn' = turn /\ cards' = cards /\ winner' = winner
  <2>1. turn.number <= turn'.number
    BY <1>2, <1>5
  <2>2. QED
    BY <1>1, <1>5, <2>1, KnownStays
<1>6. QED
  BY <1>3, <1>4, <1>5 DEF PlaceFreeRoad

\* What is known of the cards, and of a winner, after a step of the game.
LEMMA PlaysOnKnown ==
  ASSUME TurnInvariant, TurnInvariant', CardsRight, knights \in [Players -> Nat], NEW p \in Players, PlaysOn(p)
  PROVE  CardsRight' /\ WinnerFits'
<1>1. winner = None /\ turn.number \in Nat /\ turn'.number \in {turn.number, turn.number + 1}
  BY SetupIsOver DEF TurnType
<1>2. turn.number <= turn'.number
  BY <1>1
<1>3. ASSUME \/ \E total \in Dice : RollDice(p, total)
             \/ \E bag \in Discards(p) : DiscardResources(p, bag)
             \/ FinishFreeRoads(p) \/ AcceptTrade(p) \/ RejectTrade(p)
             \/ \E bag \in Inventions : ChooseInvention(p, bag)
             \/ \E x \in Resources : ChooseMonopoly(p, x)
             \/ \E q \in Players, t \in Terms : ProposeTrade(p, q, t.gives, t.gets)
             \/ \E t \in Terms : CounterTrade(p, t.gives, t.gets)
             \/ \E give \in Resources, get \in Transferable : MaritimeTrade(p, give, get)
      PROVE  CardsRight' /\ WinnerFits'
  <2>1. winner' = winner /\ cards' = cards /\ deck' = deck /\ knights' = knights
    BY <1>3, Zenon DEF RollDice, DiscardResources, FinishFreeRoads, AcceptTrade, RejectTrade, ChooseInvention,
                       ChooseMonopoly, ProposeTrade, CounterTrade, MaritimeTrade
  <2>2. QED
    BY <1>1, <1>2, <2>1, KnownStays
<1>4. ASSUME NEW t \in Tiles, MoveRobber(p, t) PROVE CardsRight' /\ WinnerFits'
  <2>1. PICK cause, tn : cause = pending.cause /\ tn = [turn EXCEPT !.phase = AfterRobber(pending.cause)]
    OBVIOUS
  <2>2. /\ pending.type \in {"MOVE_ROBBER", "CHOOSE_ROBBER_TARGET"}
        /\ buildings' = buildings /\ awards' = awards /\ deck' = deck /\ knights' = knights
    BY <1>4 DEF MoveRobber, AcceptsMoveRobber, Decides
  <2>3. CASE RobberDone(cause, tn)
    BY <1>1, <2>1, <2>2, <2>3, RobberKnown
  <2>4. CASE cards' = cards /\ winner' = winner
    BY <1>1, <1>2, <2>2, <2>4, KnownStays
  <2>5. QED
    BY <1>4, <2>1, <2>3, <2>4 DEF MoveRobber
<1>5. ASSUME NEW q \in Players, NEW x \in Resources, StealFrom(p, q, x) PROVE CardsRight' /\ WinnerFits'
  <2>1. PICK cause, tn : cause = pending.cause /\ tn = [turn EXCEPT !.phase = AfterRobber(pending.cause)]
    OBVIOUS
  <2>2. /\ pending.type \in {"MOVE_ROBBER", "CHOOSE_ROBBER_TARGET"} /\ RobberDone(cause, tn)
        /\ buildings' = buildings /\ awards' = awards /\ deck' = deck /\ knights' = knights
    BY <1>5, <2>1 DEF StealFrom, AcceptsSteal, Decides, board
  <2>3. QED
    BY <1>1, <2>1, <2>2, RobberKnown
<1>6. CASE (\E e \in Edges : BuildRoad(p, e)) \/ (\E v \in Vertices : BuildSettlement(p, v) \/ UpgradeCity(p, v))
  BY <1>6, BuildKnown
<1>7. CASE \E e \in Edges : PlaceFreeRoad(p, e)
  BY <1>7, FreeRoadKnown
<1>8. CASE BuyCard(p)
  BY <1>8, BuyKnown
<1>9. CASE \E c \in cards[p] : PlayCard(p, c)
  BY <1>9, PlayKnown
<1>10. CASE EndTurn(p)
  BY <1>10, EndTurnKnown
<1>11. QED
  BY <1>3, <1>4, <1>5, <1>6, <1>7, <1>8, <1>9, <1>10, Zenon DEF PlaysOn

\* What is known of the cards, and of a winner, after every command.
LEMMA KnownStep ==
  ASSUME TurnInvariant, TurnInvariant', AsksFit, knights \in [Players -> Nat], CardsRight, WinnerFits, [Next]_vars
  PROVE  CardsRight' /\ WinnerFits'
<1>1. CASE UNCHANGED vars
  BY <1>1 DEF vars, CardsRight, WinnerFits
<1>2. CASE Stopped
  BY <1>1, <1>2 DEF Stopped
<1>3. ASSUME NEW p \in Players, PlayerStep(p) PROVE CardsRight' /\ WinnerFits'
  <2>1. CASE (\E v \in SetupSites : PlaceInitialSettlement(p, v)) \/ (\E e \in Edges : PlaceInitialRoad(p, e))
    <3>1. /\ winner = None /\ winner' = winner /\ cards' = cards /\ deck' = deck /\ knights' = knights /\ Setup
      BY <2>1 DEF PlaceInitialSettlement, AcceptsInitialSettlement, PlaceInitialRoad, AcceptsInitialRoad, InTurn, Setup
    <3>2. turn.number = 0
      BY <3>1 DEF AsksFit, CountFits
    <3>3. turn'.number \in Nat
      BY DEF TurnInvariant, TurnFits, TurnType
    <3>4. turn.number <= turn'.number
      BY <3>2, <3>3
    <3>5. QED
      BY <3>1, <3>4, KnownStays
  <2>2. CASE PlaysOn(p)
    BY <2>2, PlaysOnKnown
  <2>3. QED
    BY <1>3, <2>1, <2>2, PlayerSteps
<1>4. QED
  BY <1>1, <1>2, <1>3 DEF Next

-----------------------------------------------------------------------------
(* The card behind a decision.                                             *)

PlayedIn(held, card, type) == CardType[card] = type /\ \E c \in held : c.card = card /\ c.status = "PLAYED"

\* A decision d of a player with these cards comes from one that was played.
EffectOf(d, held) ==
  /\ d.type = "PLACE_FREE_ROADS" => PlayedIn(held, d.card, "ROAD_BUILDING")
  /\ d.type = "CHOOSE_INVENTION_RESOURCES" => PlayedIn(held, d.card, "INVENTION")
  /\ d.type = "CHOOSE_MONOPOLY_RESOURCE" => PlayedIn(held, d.card, "MONOPOLY")
  /\ d.type \in {"MOVE_ROBBER", "CHOOSE_ROBBER_TARGET"} => (d.cause = None \/ PlayedIn(held, d.cause, "KNIGHT"))

EffectFits == EffectOf(pending, cards[turn.current])

\* Nothing that is not a card's effect needs a card.
LEMMA NoEffect ==
  ASSUME pending'.type \notin {"PLACE_FREE_ROADS", "CHOOSE_INVENTION_RESOURCES", "CHOOSE_MONOPOLY_RESOURCE",
                               "MOVE_ROBBER", "CHOOSE_ROBBER_TARGET"}
  PROVE  EffectFits'
  BY DEF EffectFits, EffectOf

\* Playing a card opens its effect.
LEMMA PlayEffect ==
  ASSUME TurnInvariant, CardsType(cards), NEW p, NEW c, PlayCard(p, c)
  PROVE  EffectFits'
<1>1. turn \in TurnType /\ p \in Players /\ p = turn.current /\ c \in cards[p]
  BY InTurnFacts DEF PlayCard, AcceptsPlayCard, Playable, InHand
<1>2. PICK cs, d : cs = cards /\ d = [c EXCEPT !.status = "PLAYED"]
  OBVIOUS
<1>3. d.card = c.card /\ d.status = "PLAYED"
  BY <1>1, <1>2 DEF CardsType, OwnedCards
<1>4. cards' = [cs EXCEPT ![p] = (@ \ {c}) \cup {d}] /\ cs \in [Players -> SUBSET OwnedCards]
  BY <1>2 DEF PlayCard, CardsType
<1>5. PICK held : held = (cs[p] \ {c}) \cup {d}
  OBVIOUS
<1>6. cards'[p] = held /\ d \in held
  BY <1>1, <1>4, <1>5
<1>7. turn'.current = p
  <2>1. (\E phase : turn' = [turn EXCEPT !.cardPlayed = TRUE, !.phase = phase]) \/ turn' = [turn EXCEPT !.cardPlayed = TRUE]
    BY DEF PlayCard
  <2>2. QED
    BY <1>1, <2>1 DEF TurnType
<1>8. PlayedIn(held, c.card, CardType[c.card])
  BY <1>3, <1>6 DEF PlayedIn
<1>9. EffectOf(pending', held)
  <2>1. PICK n : n = pending'
    OBVIOUS
  <2>2. \/ CardType[c.card] = "KNIGHT" /\ n = [type |-> "MOVE_ROBBER", actor |-> p, cause |-> c.card]
        \/ CardType[c.card] = "ROAD_BUILDING" /\ \E k : n = [type |-> "PLACE_FREE_ROADS", actor |-> p, card |-> c.card, remaining |-> k]
        \/ CardType[c.card] = "INVENTION" /\ n = [type |-> "CHOOSE_INVENTION_RESOURCES", actor |-> p, card |-> c.card]
        \/ CardType[c.card] = "MONOPOLY" /\ n = [type |-> "CHOOSE_MONOPOLY_RESOURCE", actor |-> p, card |-> c.card]
    BY <2>1 DEF PlayCard
  <2>3. EffectOf(n, held)
    BY <1>8, <2>2 DEF EffectOf
  <2>4. QED
    BY <2>1, <2>3
<1>10. QED
  BY <1>6, <1>7, <1>9 DEF EffectFits

\* The card behind the open decision stays where it is until it is settled.
LEMMA PlaysOnEffect ==
  ASSUME TurnInvariant, CardsType(cards), EffectFits, NEW p \in Players, PlaysOn(p)
  PROVE  EffectFits'
<1>1. ASSUME pending' = NoDecision PROVE EffectFits'
  <2>1. pending'.type = None /\ None \notin DecisionTypes
    BY <1>1, SeatFacts DEF NoDecision
  <2>2. QED
    BY <2>1, NoEffect DEF DecisionTypes
<1>2. ASSUME Closes PROVE EffectFits'
  BY <1>1, <1>2 DEF Closes, Settled
<1>3. turn \in TurnType
  BY SetupIsOver
<1>4. CASE \/ \E e \in Edges : BuildRoad(p, e)
           \/ \E q \in Players, x \in Resources : StealFrom(p, q, x)
           \/ \E v \in Vertices : BuildSettlement(p, v) \/ UpgradeCity(p, v)
           \/ BuyCard(p) \/ FinishFreeRoads(p)
           \/ \E bag \in Inventions : ChooseInvention(p, bag)
           \/ \E x \in Resources : ChooseMonopoly(p, x)
           \/ AcceptTrade(p) \/ RejectTrade(p)
           \/ \E give \in Resources, get \in Transferable : MaritimeTrade(p, give, get)
           \/ EndTurn(p)
  BY <1>2, <1>4, SettlingCloses
<1>5. CASE \E e \in Edges : PlaceFreeRoad(p, e)
  <2>1. PICK e \in Edges : PlaceFreeRoad(p, e)
    BY <1>5
  <2>2. CASE pending' = [pending EXCEPT !.remaining = 1] /\ UNCHANGED <<turn, cards, winner>>
    <3>1. pending = [type |-> "PLACE_FREE_ROADS", actor |-> turn.current, card |-> pending.card,
                     remaining |-> pending.remaining]
      BY <2>1 DEF PlaceFreeRoad, AcceptsFreeRoad, DecidesCard, Decides, TurnInvariant, DecisionFits, CardFits
    <3>2. pending'.type = "PLACE_FREE_ROADS" /\ pending'.card = pending.card
      BY <2>2, <3>1
    <3>3. PlayedIn(cards[turn.current], pending.card, "ROAD_BUILDING")
      BY <3>1 DEF EffectFits, EffectOf
    <3>4. QED
      BY <2>2, <3>2, <3>3 DEF EffectFits, EffectOf
  <2>3. CASE ~(pending' = [pending EXCEPT !.remaining = 1] /\ UNCHANGED <<turn, cards, winner>>)
    BY <1>2, <2>1, <2>3, FreeRoadCloses
  <2>4. QED
    BY <2>2, <2>3
<1>6. CASE \E total \in Dice : RollDice(p, total)
  <2>1. PICK total : RollDice(p, total)
    BY <1>6
  <2>2. pending = NoDecision
    BY <2>1 DEF RollDice, AcceptsRoll, InTurn
  <2>3. CASE pending' = pending
    BY <1>1, <2>2, <2>3
  <2>4. CASE pending'.type = "DISCARD_RESOURCES"
    BY <2>4, NoEffect
  <2>5. CASE pending'.type = "MOVE_ROBBER" /\ pending'.cause = None
    BY <2>5 DEF EffectFits, EffectOf
  <2>6. QED
    BY <2>1, <2>3, <2>4, <2>5 DEF RollDice
<1>7. CASE \E bag \in Discards(p) : DiscardResources(p, bag)
  <2>1. PICK bag : DiscardResources(p, bag)
    BY <1>7
  <2>2. pending = [type |-> "DISCARD_RESOURCES", trigger |-> turn.current,
                   required |-> pending.required, completed |-> pending.completed]
    BY <2>1 DEF DiscardResources, AcceptsDiscard, Decides, TurnInvariant, DecisionFits, DiscardFits
  <2>3. CASE pending' = [pending EXCEPT !.completed = @ \cup {p}]
    <3>1. pending'.type = "DISCARD_RESOURCES"
      BY <2>2, <2>3
    <3>2. QED
      BY <3>1, NoEffect
  <2>4. CASE pending' = [type |-> "MOVE_ROBBER", actor |-> pending.trigger, cause |-> None]
    BY <2>4 DEF EffectFits, EffectOf
  <2>5. QED
    BY <2>1, <2>3, <2>4 DEF DiscardResources
<1>8. CASE \E t \in Tiles : MoveRobber(p, t)
  <2>1. PICK t \in Tiles : MoveRobber(p, t)
    BY <1>8
  <2>2. CASE RobberTargets(buildings, hand, t, p) = {}
    BY <1>2, <2>1, <2>2, RobberCloses
  <2>3. CASE RobberTargets(buildings, hand, t, p) # {}
    <3>1. pending.type = "MOVE_ROBBER"
      BY <2>1 DEF MoveRobber, AcceptsMoveRobber, Decides
    <3>2. PICK targets, d : /\ targets = RobberTargets(buildings, hand, t, p)
                            /\ d = [type |-> "CHOOSE_ROBBER_TARGET", actor |-> p, tile |-> t,
                                    targets |-> targets, cause |-> pending.cause]
      OBVIOUS
    <3>3. pending' = d /\ turn' = [turn EXCEPT !.phase = "ROBBER_TARGET_REQUIRED"] /\ cards' = cards
      BY <2>1, <2>3, <3>2 DEF MoveRobber
    <3>4. turn'.current = turn.current
      BY <1>3, <3>3 DEF TurnType
    <3>5. d.type = "CHOOSE_ROBBER_TARGET" /\ d.cause = pending.cause
      BY <3>2
    <3>6. pending.cause = None \/ PlayedIn(cards[turn.current], pending.cause, "KNIGHT")
      BY <3>1 DEF EffectFits, EffectOf
    <3>7. QED
      BY <3>3, <3>4, <3>5, <3>6 DEF EffectFits, EffectOf
  <2>4. QED
    BY <2>2, <2>3
<1>9. CASE \E c \in cards[p] : PlayCard(p, c)
  BY <1>9, PlayEffect
<1>10. CASE \/ \E q \in Players, t \in Terms : ProposeTrade(p, q, t.gives, t.gets)
            \/ \E t \in Terms : CounterTrade(p, t.gives, t.gets)
  <2>1. \E i, q, a, gives, gets, k : pending' = Offer(i, q, a, gives, gets, k)
    BY <1>10 DEF ProposeTrade, CounterTrade
  <2>2. pending'.type = "RESPOND_TO_TRADE"
    BY <2>1 DEF Offer
  <2>3. QED
    BY <2>2, NoEffect
<1>11. QED
  BY <1>4, <1>5, <1>6, <1>7, <1>8, <1>9, <1>10 DEF PlaysOn

\* The card behind the open decision, after every command.
LEMMA EffectStep ==
  ASSUME TurnInvariant, CardsFit, EffectFits, [Next]_vars
  PROVE  EffectFits'
<1>1. CASE UNCHANGED vars
  BY <1>1 DEF vars, EffectFits
<1>2. CASE Stopped
  BY <1>1, <1>2 DEF Stopped
<1>3. ASSUME NEW p \in Players, PlayerStep(p) PROVE EffectFits'
  <2>1. CASE (\E v \in SetupSites : PlaceInitialSettlement(p, v)) \/ (\E e \in Edges : PlaceInitialRoad(p, e))
    <3>1. pending' = NoDecision
      BY <2>1 DEF PlaceInitialSettlement, AcceptsInitialSettlement, PlaceInitialRoad, AcceptsInitialRoad, InTurn
    <3>2. pending'.type = None /\ None \notin DecisionTypes
      BY <3>1, SeatFacts DEF NoDecision
    <3>3. QED
      BY <3>2, NoEffect DEF DecisionTypes
  <2>2. CASE PlaysOn(p)
    BY <2>2, PlaysOnEffect DEF CardsFit
  <2>3. QED
    BY <1>3, <2>1, <2>2, PlayerSteps
<1>4. QED
  BY <1>1, <1>2, <1>3 DEF Next

\* Every card of a new game is in the deck.
LEMMA KnownInit ==
  ASSUME Init
  PROVE  CardsRight /\ WinnerFits /\ EffectFits
<1>1. PICK cs, dk, kn : cs = cards /\ dk = deck /\ kn = knights
  OBVIOUS
<1>2. cs = [q \in Players |-> {}] /\ kn = [q \in Players |-> 0] /\ dk \in Decks
  BY <1>1 DEF Init
<1>3. CardsType(cs) /\ dk \in Seq(Cards)
  BY <1>1, CardsInit DEF CardsFit
<1>4. ToSet(dk) = Cards /\ IsInjective(dk)
  BY <1>2, EngineAssumption DEF EngineAssumption, Cards
<1>5. DOMAIN dk = 1..Len(dk)
  BY <1>3
<1>6. HeldOnce(cs, dk)
  BY <1>2, <1>4, <1>5 DEF HeldOnce, ToSet, IsInjective
<1>7. UsedWell(cs, 0)
  BY <1>2 DEF UsedWell
<1>8. \A q \in Players : Cardinality(PlayedKnights(cs[q])) = 0
  BY <1>2, FS_EmptySet DEF PlayedKnights
<1>9. CardsKnown(cs, dk, kn, 0)
  BY <1>2, <1>3, <1>6, <1>7, <1>8 DEF CardsKnown, KnightsCounted
<1>10. turn.number = 0
  BY DEF Init
<1>11. CardsRight
  BY <1>1, <1>9, <1>10 DEF CardsRight
<1>12. WinnerFits
  BY DEF Init, WinnerFits
<1>13. pending.type = None /\ None \notin DecisionTypes
  BY SeatFacts DEF Init, NoDecision
<1>14. QED
  BY <1>11, <1>12, <1>13 DEF EffectFits, EffectOf, DecisionTypes

\* f pairs the members of S with those of T.
Pairs(f, S, T) == f \in [S -> T] /\ (\A t \in T : \E s \in S : f[s] = t) /\ \A a, b \in S : f[a] = f[b] => a = b

\* Sets whose members correspond one to one have the same size.
LEMMA SameSize ==
  ASSUME NEW S, NEW T, IsFiniteSet(S), NEW f, Pairs(f, S, T)
  PROVE  IsFiniteSet(T) /\ Cardinality(T) = Cardinality(S)
<1>1. f \in Surjection(S, T)
  BY DEF Pairs, Surjection
<1>2. f \in Injection(S, T)
  BY DEF Pairs, Injection, IsInjective
<1>3. QED
  BY <1>1, <1>2, FS_Surjection

\* The cards of the players, with their holders, and the identifiers of those.
Holding(cs, all, held, ids) ==
  /\ all = UNION {cs[o] : o \in Players}
  /\ held = {qc \in Players \X all : qc[2] \in cs[qc[1]]}
  /\ ids = {qc[2].card : qc \in held}

\* The cards the players hold, and what is left of the deck.
LEMMA HeldAndDealt ==
  ASSUME NEW cs, NEW dk, NEW kn, NEW n, CardsKnown(cs, dk, kn, n),
         NEW all, NEW held, NEW ids, Holding(cs, all, held, ids)
  PROVE  /\ Cardinality(held) = Cardinality(ids) /\ ids \cap ToSet(dk) = {} /\ ids \cup ToSet(dk) = Cards
         /\ Len(dk) + Cardinality(ids) = Cardinality(Cards)
         /\ \A qc \in held : qc[1] \in Players /\ qc[2] \in cs[qc[1]]
<1>1. CardsType(cs) /\ dk \in Seq(Cards) /\ HeldOnce(cs, dk)
  BY DEF CardsKnown
<1>2. IsFiniteSet(Players)
  BY BoardAssumption DEF BoardAssumption
<1>3. IsFiniteSet(all)
  <2>1. PICK family : family = {cs[o] : o \in Players}
    OBVIOUS
  <2>2. PICK f : f = [o \in Players |-> cs[o]]
    OBVIOUS
  <2>3. f \in Surjection(Players, family)
    BY <2>1, <2>2 DEF Surjection
  <2>4. IsFiniteSet(family)
    BY <1>2, <2>3, FS_Surjection
  <2>5. \A T \in family : IsFiniteSet(T)
    BY <1>1, <2>1 DEF CardsType
  <2>6. IsFiniteSet(UNION family)
    BY <2>4, <2>5, FS_UNION
  <2>7. QED
    BY <2>1, <2>6 DEF Holding
<1>4. IsFiniteSet(held)
  <2>1. IsFiniteSet(Players \X all) /\ held \subseteq Players \X all
    BY <1>2, <1>3, FS_Product DEF Holding
  <2>2. QED
    BY <2>1, FS_Subset
<1>5. \A qc \in held : qc[1] \in Players /\ qc[2] \in cs[qc[1]] /\ qc = <<qc[1], qc[2]>>
  BY DEF Holding
<1>6. \A q \in Players : \A c \in cs[q] : <<q, c>> \in held
  BY DEF Holding
<1>7. /\ \A id \in ids : \E qc \in held : qc[2].card = id
      /\ \A qc \in held : qc[2].card \in ids
  BY DEF Holding
<1>8. \A x, y \in held : x[2].card = y[2].card => x = y
  <2> TAKE x, y \in held
  <2>1. HAVE x[2].card = y[2].card
  <2>2. PICK q, c : q = x[1] /\ c = x[2]
    OBVIOUS
  <2>3. PICK o, d : o = y[1] /\ d = y[2]
    OBVIOUS
  <2>4. q \in Players /\ o \in Players /\ c \in cs[q] /\ d \in cs[o] /\ c.card = d.card /\ x = <<q, c>> /\ y = <<o, d>>
    BY <1>5, <2>1, <2>2, <2>3
  <2>5. q = o /\ c = d
    BY <1>1, <2>4 DEF HeldOnce
  <2>6. QED
    BY <2>4, <2>5
<1>9. IsFiniteSet(ids) /\ Cardinality(ids) = Cardinality(held)
  <2>1. PICK f : f = [qc \in held |-> qc[2].card]
    OBVIOUS
  <2>2. f \in [held -> ids]
    BY <1>7, <2>1
  <2>3. \A id \in ids : \E qc \in held : f[qc] = id
    BY <1>7, <2>1
  <2>4. \A x, y \in held : f[x] = f[y] => x = y
    BY <1>8, <2>1
  <2>5. Pairs(f, held, ids)
    BY <2>2, <2>3, <2>4 DEF Pairs
  <2>6. QED
    BY <1>4, <2>5, SameSize
<1>10. PICK left : left = ToSet(dk)
  OBVIOUS
<1>11. PICK len : len = Len(dk)
  OBVIOUS
<1>12. /\ len \in Nat /\ left \subseteq Cards
       /\ \A i \in 1..len : dk[i] \in left
       /\ \A card \in left : \E i \in 1..len : dk[i] = card
  BY <1>1, <1>10, <1>11 DEF ToSet
<1>13. \A id \in ids : \E q \in Players : \E c \in cs[q] : c.card = id /\ id \in Cards
  <2> TAKE id \in ids
  <2>1. PICK qc \in held : qc[2].card = id
    BY <1>7
  <2>2. PICK q, c : q = qc[1] /\ c = qc[2]
    OBVIOUS
  <2>3. q \in Players /\ c \in cs[q] /\ c.card = id
    BY <1>5, <2>1, <2>2
  <2>4. id \in Cards
    BY <1>1, <2>3 DEF CardsType, OwnedCards
  <2>5. QED
    BY <2>3, <2>4
<1>14. \A q \in Players : \A c \in cs[q] : c.card \in ids
  <2> TAKE q \in Players
  <2> TAKE c \in cs[q]
  <2>1. PICK qc : qc = <<q, c>>
    OBVIOUS
  <2>2. qc \in held /\ qc[2] = c
    BY <1>6, <2>1
  <2>3. QED
    BY <1>7, <2>2
<1>15. ids \cap left = {}
  <2> SUFFICES ASSUME NEW id \in ids, id \in left PROVE FALSE
    OBVIOUS
  <2>1. PICK i \in 1..len : dk[i] = id
    BY <1>12
  <2>2. QED
    BY <1>1, <1>11, <1>13, <2>1 DEF HeldOnce
<1>16. ids \cup left = Cards
  <2>1. ASSUME NEW card \in Cards PROVE card \in ids \cup left
    BY <1>1, <1>11, <1>12, <1>14 DEF HeldOnce
  <2>2. QED
    BY <1>12, <1>13, <2>1
<1>17. IsFiniteSet(left) /\ Cardinality(left) = len
  <2>1. PICK f : f = [i \in 1..len |-> dk[i]]
    OBVIOUS
  <2>2. f \in [1..len -> left]
    BY <1>12, <2>1
  <2>3. \A card \in left : \E i \in 1..len : f[i] = card
    BY <1>12, <2>1
  <2>4. \A i, j \in 1..len : f[i] = f[j] => i = j
    BY <1>1, <1>11, <2>1 DEF HeldOnce
  <2>5. IsFiniteSet(1..len) /\ Cardinality(1..len) = len
    BY <1>12, FS_Interval
  <2>6. Pairs(f, 1..len, left)
    BY <2>2, <2>3, <2>4 DEF Pairs
  <2>7. QED
    BY <2>5, <2>6, SameSize
<1>18. len + Cardinality(ids) = Cardinality(Cards)
  <2>1. Cardinality(ids \cup left) = Cardinality(ids) + Cardinality(left) - Cardinality(ids \cap left)
    BY <1>9, <1>17, FS_Union
  <2>2. Cardinality(ids \cap left) = 0
    BY <1>15, FS_EmptySet
  <2>3. Cardinality(ids) \in Nat
    BY <1>9, FS_CardinalityType
  <2>4. PICK a, b : a = Cardinality(ids) /\ b = Cardinality(Cards)
    OBVIOUS
  <2>5. b = a + len - 0 /\ a \in Nat
    BY <1>16, <1>17, <2>1, <2>2, <2>3, <2>4
  <2>6. len + a = b
    BY <1>12, <2>5
  <2>7. QED
    BY <2>4, <2>6
<1>19. QED
  BY <1>5, <1>9, <1>10, <1>11, <1>15, <1>16, <1>18

\* The card behind a decision was played, by the player who decides.
LEMMA CoherenceAsserted ==
  ASSUME TurnInvariant, EffectFits
  PROVE  PendingCoherence
<1>1. CASE pending.type = "PLACE_FREE_ROADS"
  <2>1. pending.actor = turn.current /\ pending.remaining \in {1, 2} /\ turn.phase = "FREE_ROAD_PLACEMENT"
    BY <1>1 DEF TurnInvariant, DecisionFits, CardFits
  <2>2. PlayedCard(pending.actor, pending.card, "ROAD_BUILDING")
    BY <1>1, <2>1 DEF EffectFits, EffectOf, PlayedIn, PlayedCard
  <2>3. QED
    BY <1>1, <2>1, <2>2 DEF PendingCoherence
<1>2. CASE pending.type = "CHOOSE_INVENTION_RESOURCES"
  <2>1. pending.actor = turn.current /\ turn.phase = Resume
    BY <1>2 DEF TurnInvariant, DecisionFits, CardFits
  <2>2. PlayedCard(pending.actor, pending.card, "INVENTION")
    BY <1>2, <2>1 DEF EffectFits, EffectOf, PlayedIn, PlayedCard
  <2>3. QED
    BY <1>2, <2>1, <2>2 DEF PendingCoherence
<1>3. CASE pending.type = "CHOOSE_MONOPOLY_RESOURCE"
  <2>1. pending.actor = turn.current /\ turn.phase = Resume
    BY <1>3 DEF TurnInvariant, DecisionFits, CardFits
  <2>2. PlayedCard(pending.actor, pending.card, "MONOPOLY")
    BY <1>3, <2>1 DEF EffectFits, EffectOf, PlayedIn, PlayedCard
  <2>3. QED
    BY <1>3, <2>1, <2>2 DEF PendingCoherence
<1>4. CASE pending.type \in {"MOVE_ROBBER", "CHOOSE_ROBBER_TARGET"}
  <2>1. pending.actor = turn.current
    BY <1>4 DEF TurnInvariant, DecisionFits, RobberFits
  <2>2. pending.cause # None => PlayedCard(pending.actor, pending.cause, "KNIGHT")
    BY <1>4, <2>1 DEF EffectFits, EffectOf, PlayedIn, PlayedCard
  <2>3. QED
    BY <1>4, <2>1, <2>2 DEF PendingCoherence
<1>5. CASE pending.type \notin {"PLACE_FREE_ROADS", "CHOOSE_INVENTION_RESOURCES", "CHOOSE_MONOPOLY_RESOURCE",
                                "MOVE_ROBBER", "CHOOSE_ROBBER_TARGET"}
  BY <1>5 DEF PendingCoherence
<1>6. QED
  BY <1>1, <1>2, <1>3, <1>4, <1>5

\* The engine's assertions about development cards.
LEMMA CardsAsserted ==
  ASSUME TurnInvariant, CardsRight, EffectFits
  PROVE  DevelopmentCardState
<1>1. PICK cs, dk, kn, n : cs = cards /\ dk = deck /\ kn = knights /\ n = turn.number
  OBVIOUS
<1>2. CardsKnown(cs, dk, kn, n)
  BY <1>1 DEF CardsRight
<1>3. PICK all : all = UNION {cs[o] : o \in Players}
  OBVIOUS
<1>4. PICK held : held = {qc \in Players \X all : qc[2] \in cs[qc[1]]}
  OBVIOUS
<1>5. PICK ids : ids = {qc[2].card : qc \in held}
  OBVIOUS
<1>6. Holding(cs, all, held, ids)
  BY <1>3, <1>4, <1>5 DEF Holding
<1>7. /\ Cardinality(held) = Cardinality(ids) /\ ids \cap ToSet(dk) = {} /\ ids \cup ToSet(dk) = Cards
      /\ Len(dk) + Cardinality(ids) = Cardinality(Cards)
      /\ \A qc \in held : qc[1] \in Players /\ qc[2] \in cs[qc[1]]
  BY <1>2, <1>6, HeldAndDealt
<1>8. \A q \in Players : \A c \in cs[q] : OwnedCard(c)
  <2> TAKE q \in Players
  <2> TAKE c \in cs[q]
  <2>1. /\ c.acquired <= n
        /\ c.status \in {"IN_HAND", IF CardType[c.card] = "VICTORY_POINT" THEN "REVEALED" ELSE "PLAYED"}
    BY <1>2 DEF CardsKnown, UsedWell
  <2>2. c.acquired \in Nat /\ n \in Nat
    BY <1>2 DEF CardsKnown, CardsType, OwnedCards
  <2>3. c.acquired \in 0..n
    BY <2>1, <2>2
  <2>4. QED
    BY <1>1, <2>1, <2>3 DEF OwnedCard
<1>9. \A qc \in held : OwnedCard(qc[2])
  BY <1>7, <1>8
<1>10. \A q \in Players : kn[q] = Cardinality({c \in cs[q] : c.status = "PLAYED" /\ CardType[c.card] = "KNIGHT"})
  BY <1>2 DEF CardsKnown, KnightsCounted, PlayedKnights
<1>11. winner # None => pending = NoDecision
  BY DEF TurnInvariant, TurnFits
<1>12. PendingCoherence
  BY CoherenceAsserted
<1>13. all = UNION {cards[o] : o \in Players}
  BY <1>1, <1>3
<1>14. held = {qc \in Players \X UNION {cards[o] : o \in Players} : qc[2] \in cards[qc[1]]}
  BY <1>1, <1>4, <1>13
<1>15. QED
  BY <1>1, <1>5, <1>7, <1>9, <1>10, <1>11, <1>12, <1>14, Zenon DEF DevelopmentCardState

\* The engine's assertions about points and awards.
LEMMA ScoresAsserted ==
  ASSUME TurnInvariant, AwardsFit, WinnerFits
  PROVE  ScoringState
  BY DEF TurnInvariant, TurnFits, AwardsFit, WinnerFits, ScoringState, InHand

\* Everything the engine's assertions rest on.
AllFit ==
  /\ ScoreFits /\ ResourcesFit /\ AwardsFit /\ BoardFits /\ AsksFit /\ SetupFits
  /\ CardsRight /\ WinnerFits /\ EffectFits

\* Everything holds in a new game.
LEMMA AllInit ==
  ASSUME Init
  PROVE  AllFit
  BY ScoreInit, ResourceInit, AwardInit, BoardInit, AsksInit, KnownInit DEF AllFit

\* Everything holds after every command.
LEMMA AllStep ==
  ASSUME TurnInvariant, CardsFit, AllFit, [Next]_vars
  PROVE  AllFit'
<1>1. TurnInvariant' /\ ScoreFits' /\ EffectFits'
  BY TurnStep, ScoreStep, EffectStep DEF AllFit
<1>2. ResourcesFit' /\ AwardsFit' /\ BoardFits'
  BY ResourceStep, AwardStep, BoardStep DEF AllFit
<1>3. AsksFit' /\ SetupFits'
  BY <1>1, AsksStep DEF AllFit
<1>4. CardsRight' /\ WinnerFits'
  BY <1>1, KnownStep DEF AllFit, AwardsFit
<1>5. QED
  BY <1>1, <1>2, <1>3, <1>4 DEF AllFit

\* The assertions of the engine hold in every state of every game: no
\* sequence of legal commands makes the engine throw on the next one.
THEOREM AssertionsHoldAlways == Spec => []AssertionsHold
<1>1. Init => AllFit
  BY AllInit
<1>2. TurnInvariant /\ CardsFit /\ AllFit /\ [Next]_vars => AllFit'
  BY AllStep
<1>3. TurnInvariant /\ CardsFit /\ AllFit => AssertionsHold
  <2>1. SUFFICES ASSUME TurnInvariant, CardsFit, AllFit PROVE AssertionsHold
    OBVIOUS
  <2>2. InitialSetupState /\ (turn.number = 0 /\ buildings = [v \in Vertices |-> Unbuilt] => CreatedGame)
    BY <2>1, SetupAsserted DEF AllFit
  <2>3. NormalTurnState
    BY <2>1, TurnAsserted DEF AllFit
  <2>4. RobberWorkflowState /\ PaidBuildingState /\ TradingState
    BY <2>1, OthersAsserted DEF AllFit
  <2>5. ScoringState /\ DevelopmentCardState
    BY <2>1, ScoresAsserted, CardsAsserted DEF AllFit
  <2>6. QED
    BY <2>2, <2>3, <2>4, <2>5 DEF AssertionsHold
<1>4. QED
  BY <1>1, <1>2, <1>3, TurnsHold, PTL DEF Spec

-----------------------------------------------------------------------------
(* The longest road is longest: what the search returns is the length of a *)
(* longest trail over the player's roads.                                  *)

\* The trails that walk no road, and one road more.
Begun == {[used |-> {}, at |-> v] : v \in Vertices}
Onward(r, q, t) == {e \in Roads(r, q) \ t.used : t.at \in e}
Open(b, q, t) == t.used = {} \/ b[t.at].owner \in {None, q}
Extended(r, q, t) == {[used |-> t.used \cup {e}, at |-> Other(e, t.at)] : e \in Onward(r, q, t)}
Longer(b, r, q, trails) == trails \cup UNION {Extended(r, q, t) : t \in {u \in trails : Open(b, q, u)}}

\* The trails of at most n roads, as the definition counts them.
WalkedFrom(b, r, q) == CHOOSE w : w = [n \in Nat |-> IF n = 0 THEN Begun ELSE Longer(b, r, q, w[n - 1])]

\* The trails are those of at most as many roads as a player has.
LEMMA TrailsAreWalked ==
  ASSUME NEW q
  PROVE  TrailsOf(q) = WalkedFrom(buildings, roads, q)[RoadLimit]
  BY DEF TrailsOf, WalkedFrom, Begun, Longer, Extended, Onward, Open

\* The first n steps of a walk.
UpTo(w, b, r, q, n) ==
  w[0] = Begun /\ \A m \in 1..n : w[m] = Longer(b, r, q, w[m - 1])

\* Two walks agree as far as both go.
LEMMA WalksAgree ==
  ASSUME NEW b, NEW r, NEW q, NEW g, NEW h, NEW n \in Nat, UpTo(g, b, r, q, n), UpTo(h, b, r, q, n)
  PROVE  g[n] = h[n]
<1> DEFINE G == {m \in Nat : m <= n => g[m] = h[m]}
<1>1. 0 \in G
  BY DEF UpTo
<1>2. ASSUME NEW m \in Nat, m \in G PROVE m + 1 \in G
  <2>1. CASE m + 1 <= n
    <3>1. m + 1 \in 1..n /\ (m + 1) - 1 = m /\ g[m] = h[m]
      BY <1>2, <2>1
    <3>2. g[m + 1] = Longer(b, r, q, g[m]) /\ h[m + 1] = Longer(b, r, q, h[m])
      BY <3>1 DEF UpTo
    <3>3. QED
      BY <3>1, <3>2
  <2>2. QED
    BY <2>1
<1>3. n \in G
  <2> HIDE DEF G
  <2>1. QED
    BY <1>1, <1>2, SetOfNumbers
<1>4. QED
  BY <1>3

\* There is a walk of every length.
LEMMA WalksExist ==
  ASSUME NEW b, NEW r, NEW q, NEW n \in Nat
  PROVE  \E w : UpTo(w, b, r, q, n)
<1> DEFINE G == {m \in Nat : \E w : UpTo(w, b, r, q, m)}
<1>1. 0 \in G
  <2>1. PICK w : w = [k \in Nat |-> Begun]
    OBVIOUS
  <2>2. UpTo(w, b, r, q, 0)
    BY <2>1 DEF UpTo
  <2>3. QED
    BY <2>2
<1>2. ASSUME NEW m \in Nat, m \in G PROVE m + 1 \in G
  <2>1. PICK h : UpTo(h, b, r, q, m)
    BY <1>2
  <2>2. PICK w : w = [k \in Nat |-> IF k = m + 1 THEN Longer(b, r, q, h[m]) ELSE h[k]]
    OBVIOUS
  <2>3. w[0] = Begun
    BY <2>1, <2>2 DEF UpTo
  <2>4. ASSUME NEW k \in 1..(m + 1) PROVE w[k] = Longer(b, r, q, w[k - 1])
    <3>1. k \in Nat /\ k - 1 \in Nat /\ k - 1 # m + 1
      OBVIOUS
    <3>2. w[k - 1] = h[k - 1]
      BY <2>2, <3>1
    <3>3. CASE k = m + 1
      <4>1. k - 1 = m /\ w[k] = Longer(b, r, q, h[m])
        BY <2>2, <3>1, <3>3
      <4>2. QED
        BY <3>2, <4>1
    <3>4. CASE k # m + 1
      <4>1. k \in 1..m /\ w[k] = h[k]
        BY <2>2, <3>1, <3>4
      <4>2. h[k] = Longer(b, r, q, h[k - 1])
        BY <2>1, <4>1 DEF UpTo
      <4>3. QED
        BY <3>2, <4>1, <4>2
    <3>5. QED
      BY <3>3, <3>4
  <2>5. UpTo(w, b, r, q, m + 1)
    BY <2>3, <2>4 DEF UpTo
  <2>6. QED
    BY <2>5
<1>3. n \in G
  <2> HIDE DEF G
  <2>1. QED
    BY <1>1, <1>2, SetOfNumbers
<1>4. QED
  BY <1>3

\* Steps that agree up to a length agree up to a smaller one.
LEMMA WalkShorter ==
  ASSUME NEW b, NEW r, NEW q, NEW w, NEW n \in Nat, UpTo(w, b, r, q, n + 1)
  PROVE  UpTo(w, b, r, q, n) /\ w[n + 1] = Longer(b, r, q, w[n])
<1>1. \A m \in 1..n : m \in 1..(n + 1)
  OBVIOUS
<1>2. n + 1 \in 1..(n + 1) /\ (n + 1) - 1 = n
  OBVIOUS
<1>3. w[0] = Begun /\ \A m \in 1..(n + 1) : w[m] = Longer(b, r, q, w[m - 1])
  BY DEF UpTo
<1>4. w[n + 1] = Longer(b, r, q, w[n])
  BY <1>2, <1>3
<1>5. UpTo(w, b, r, q, n)
  BY <1>1, <1>3 DEF UpTo
<1>6. QED
  BY <1>4, <1>5

\* The walk the definition chooses.
LEMMA WalkedFacts ==
  ASSUME NEW b, NEW r, NEW q, NEW w, w = WalkedFrom(b, r, q)
  PROVE  w[0] = Begun /\ \A n \in Nat : w[n + 1] = Longer(b, r, q, w[n])
<1>1. PICK g : g = [n \in Nat |-> CHOOSE h : UpTo(h, b, r, q, n)]
  OBVIOUS
<1>2. ASSUME NEW n \in Nat PROVE UpTo(g[n], b, r, q, n)
  <2>1. \E h : UpTo(h, b, r, q, n)
    BY WalksExist
  <2>2. g[n] = CHOOSE h : UpTo(h, b, r, q, n)
    BY <1>1
  <2>3. QED
    BY <2>1, <2>2
<1>3. PICK f : f = [n \in Nat |-> g[n][n]]
  OBVIOUS
<1>4. f[0] = Begun
  BY <1>2, <1>3 DEF UpTo
<1>5. ASSUME NEW n \in Nat PROVE f[n + 1] = Longer(b, r, q, f[n])
  <2>1. PICK h, k : h = g[n + 1] /\ k = g[n]
    OBVIOUS
  <2>2. UpTo(h, b, r, q, n + 1) /\ UpTo(k, b, r, q, n)
    <3>1. n + 1 \in Nat
      OBVIOUS
    <3>2. QED
      BY <1>2, <2>1, <3>1
  <2>3. UpTo(h, b, r, q, n) /\ h[n + 1] = Longer(b, r, q, h[n])
    BY <2>2, WalkShorter
  <2>4. h[n] = k[n]
    BY <2>2, <2>3, WalksAgree
  <2>5. f[n + 1] = h[n + 1] /\ f[n] = k[n]
    BY <1>3, <2>1
  <2>6. QED
    BY <2>3, <2>4, <2>5
<1>6. ASSUME NEW n \in Nat PROVE f[n] = IF n = 0 THEN Begun ELSE Longer(b, r, q, f[n - 1])
  <2>1. CASE n = 0
    BY <1>4, <2>1
  <2>2. CASE n # 0
    <3>1. n - 1 \in Nat /\ (n - 1) + 1 = n
      BY <2>2
    <3>2. QED
      BY <1>5, <2>2, <3>1
  <2>3. QED
    BY <2>1, <2>2
<1>7. f = [n \in Nat |-> IF n = 0 THEN Begun ELSE Longer(b, r, q, f[n - 1])]
  BY <1>3, <1>6
<1>8. w = [n \in Nat |-> IF n = 0 THEN Begun ELSE Longer(b, r, q, w[n - 1])]
  <2>1. \E x : x = [n \in Nat |-> IF n = 0 THEN Begun ELSE Longer(b, r, q, x[n - 1])]
    BY <1>7
  <2>2. w = CHOOSE x : x = [n \in Nat |-> IF n = 0 THEN Begun ELSE Longer(b, r, q, x[n - 1])]
    BY DEF WalkedFrom
  <2>3. QED
    BY <2>1, <2>2, Zenon
<1>9. ASSUME NEW n \in Nat PROVE w[n + 1] = Longer(b, r, q, w[n])
  <2>1. n + 1 \in Nat /\ n + 1 # 0 /\ (n + 1) - 1 = n
    OBVIOUS
  <2>2. \A m \in Nat : w[m] = IF m = 0 THEN Begun ELSE Longer(b, r, q, w[m - 1])
    BY <1>8
  <2>3. QED
    BY <2>1, <2>2
<1>10. w[0] = Begun
  BY <1>8
<1>11. QED
  BY <1>9, <1>10

\* What the search finds for a trail: as long as one of the trails that extend
\* it, and at least as long as each.
Found(b, r, q, len, t) ==
  /\ len[t.used][t.at] \in Nat
  /\ b[t.at].owner \in {None, q} =>
       \A e \in Onward(r, q, t) : 1 + len[t.used \cup {e}][Other(e, t.at)] <= len[t.used][t.at]
  /\ len[t.used][t.at] # 0 =>
       /\ b[t.at].owner \in {None, q}
       /\ \E e \in Onward(r, q, t) : len[t.used][t.at] = 1 + len[t.used \cup {e}][Other(e, t.at)]

\* The search finds that for every trail.
LEMMA SearchFacts ==
  ASSUME NEW b, NEW r, NEW q, NEW len, len = TrailLengthFrom(b, r, q),
         NEW t, t.used \in SUBSET Edges, t.at \in Vertices
  PROVE  Found(b, r, q, len, t)
<1>1. PICK used, v : used = t.used /\ v = t.at
  OBVIOUS
<1>2. used \in SUBSET Edges /\ v \in Vertices
  BY <1>1
<1>3. PICK next : next = {f \in EdgesAt(v) \ used : r[f] = q}
  OBVIOUS
<1>4. next = Onward(r, q, t)
  BY <1>1, <1>3 DEF Onward, Roads, EdgesAt
<1>5. ASSUME NEW e \in next PROVE len[used \cup {e}][Other(e, v)] \in Nat
  <2>1. e \in Edges /\ v \in e
    BY <1>3 DEF EdgesAt
  <2>2. Other(e, v) \in Vertices
    BY <2>1, OtherEnd
  <2>3. used \cup {e} \in SUBSET Edges
    BY <1>2, <2>1
  <2>4. len[used \cup {e}] \in [Vertices -> Nat]
    BY <2>3, TrailType
  <2>5. QED
    BY <2>2, <2>4
<1>6. PICK way : way = WayOn(b, r, q, len, used, v)
  OBVIOUS
<1>7. /\ way \in Nat
      /\ Blocked(b, q, v) => way = 0
      /\ ~Blocked(b, q, v) => \A e \in next : 1 + len[used \cup {e}][Other(e, v)] <= way
      /\ way # 0 => \E e \in next : way = 1 + len[used \cup {e}][Other(e, v)]
  BY <1>3, <1>5, <1>6, WayFacts
<1>8. len[used][v] = way
  <2>1. len[used] = WaysOn(b, r, q, len, used)
    BY <1>2, TrailsExist
  <2>2. QED
    BY <1>2, <1>6, <2>1 DEF WaysOn
<1>9. Blocked(b, q, v) <=> b[v].owner \notin {None, q}
  BY DEF Blocked
<1>10. /\ way \in Nat
       /\ b[v].owner \in {None, q} => \A e \in next : 1 + len[used \cup {e}][Other(e, v)] <= way
       /\ way # 0 => b[v].owner \in {None, q} /\ \E e \in next : way = 1 + len[used \cup {e}][Other(e, v)]
  BY <1>7, <1>9
<1>11. QED
  BY <1>1, <1>4, <1>8, <1>10 DEF Found

\* A trail over the player's roads, which is no longer with any way on than most.
Sound(r, q, len, most, t) ==
  /\ t.used \subseteq Roads(r, q) /\ t.at \in Vertices
  /\ t.used # {} => Cardinality(t.used) + len[t.used][t.at] <= most

\* A road more keeps a trail sound.
LEMMA StepSound ==
  ASSUME NEW b, NEW r, NEW q, NEW len, len = TrailLengthFrom(b, r, q), NEW most, most = LongestRoadLength(b, r, q),
         NEW t, Sound(r, q, len, most, t), Open(b, q, t), NEW e \in Onward(r, q, t),
         NEW u, u = [used |-> t.used \cup {e}, at |-> Other(e, t.at)]
  PROVE  Sound(r, q, len, most, u) /\ Cardinality(u.used) = Cardinality(t.used) + 1
<1>1. e \in Roads(r, q) /\ e \notin t.used /\ t.at \in e /\ e \in Edges
  BY DEF Onward, Roads
<1>2. t.used \in SUBSET Edges /\ t.at \in Vertices /\ t.used \subseteq Roads(r, q)
  BY DEF Sound, Roads
<1>3. Other(e, t.at) \in e /\ Other(e, t.at) \in Vertices
  BY <1>1, OtherEnd
<1>4. u.used = t.used \cup {e} /\ u.at = Other(e, t.at)
  OBVIOUS
<1>5. u.used \subseteq Roads(r, q) /\ u.at \in Vertices
  BY <1>1, <1>2, <1>3, <1>4
<1>6. IsFiniteSet(t.used) /\ Cardinality(t.used) \in Nat
  <2>1. IsFiniteSet(t.used)
    BY <1>2, EdgesFinite
  <2>2. QED
    BY <2>1, FS_CardinalityType
<1>7. Cardinality(u.used) = Cardinality(t.used) + 1
  BY <1>1, <1>4, <1>6, FS_AddElement
<1>8. most \in Nat
  BY LengthType
<1>9. Cardinality(u.used) + len[u.used][u.at] <= most
  <2>1. CASE t.used = {}
    <3>1. 1 + len[{e}][Other(e, t.at)] <= most
      BY <1>1, <1>3, LengthFacts
    <3>2. u.used = {e} /\ Cardinality(t.used) = 0
      BY <1>4, <2>1, FS_EmptySet
    <3>3. Cardinality(u.used) = 1
      BY <1>7, <3>2
    <3>4. QED
      BY <1>4, <3>1, <3>2, <3>3
  <2>2. CASE t.used # {}
    <3>1. b[t.at].owner \in {None, q}
      BY <2>2 DEF Open
    <3>2. 1 + len[t.used \cup {e}][Other(e, t.at)] <= len[t.used][t.at] /\ len[t.used][t.at] \in Nat
      BY <1>2, <3>1, SearchFacts DEF Found
    <3>3. len[u.used][u.at] \in Nat
      <4>1. u.used \in SUBSET Edges
        BY <1>5 DEF Roads
      <4>2. QED
        BY <1>5, <4>1, SearchFacts DEF Found
    <3>4. Cardinality(t.used) + len[t.used][t.at] <= most
      BY <2>2 DEF Sound
    <3>5. PICK x, y, c : x = len[t.used][t.at] /\ y = len[u.used][u.at] /\ c = Cardinality(t.used)
      OBVIOUS
    <3>6. x \in Nat /\ y \in Nat /\ c \in Nat /\ 1 + y <= x /\ c + x <= most
      BY <1>4, <1>6, <3>2, <3>3, <3>4, <3>5
    <3>7. (c + 1) + y <= most
      BY <1>8, <3>6
    <3>8. QED
      BY <1>7, <3>5, <3>7
  <2>3. QED
    BY <2>1, <2>2
<1>10. QED
  BY <1>5, <1>7, <1>9 DEF Sound

\* Every trail walked is sound.
LEMMA WalkSound ==
  ASSUME NEW b, NEW r, NEW q, NEW len, len = TrailLengthFrom(b, r, q), NEW most, most = LongestRoadLength(b, r, q),
         NEW w, w = WalkedFrom(b, r, q), NEW n \in Nat
  PROVE  \A t \in w[n] : Sound(r, q, len, most, t)
<1> DEFINE G == {m \in Nat : \A t \in w[m] : Sound(r, q, len, most, t)}
<1>1. 0 \in G
  <2>1. w[0] = Begun
    BY WalkedFacts
  <2>2. ASSUME NEW v \in Vertices PROVE Sound(r, q, len, most, [used |-> {}, at |-> v])
    BY DEF Sound
  <2>3. QED
    BY <2>1, <2>2 DEF Begun
<1>2. ASSUME NEW m \in Nat, m \in G PROVE m + 1 \in G
  <2>1. w[m + 1] = Longer(b, r, q, w[m])
    BY WalkedFacts
  <2>2. ASSUME NEW u \in w[m + 1], u \notin w[m] PROVE Sound(r, q, len, most, u)
    <3>1. PICK t \in w[m] : Open(b, q, t) /\ u \in Extended(r, q, t)
      BY <2>1, <2>2 DEF Longer
    <3>2. PICK e \in Onward(r, q, t) : u = [used |-> t.used \cup {e}, at |-> Other(e, t.at)]
      BY <3>1 DEF Extended
    <3>3. Sound(r, q, len, most, t)
      BY <1>2
    <3>4. QED
      BY <3>1, <3>2, <3>3, StepSound
  <2>3. QED
    BY <1>2, <2>2
<1>3. n \in G
  <2> HIDE DEF G
  <2>1. QED
    BY <1>1, <1>2, SetOfNumbers
<1>4. QED
  BY <1>3

\* A trail that is open at its end is walked on by every road there.
LEMMA WalkOn ==
  ASSUME NEW b, NEW r, NEW q, NEW w, w = WalkedFrom(b, r, q), NEW n \in Nat,
         NEW t \in w[n], Open(b, q, t), NEW e \in Onward(r, q, t),
         NEW u, u = [used |-> t.used \cup {e}, at |-> Other(e, t.at)]
  PROVE  u \in w[n + 1]
<1>1. w[n + 1] = Longer(b, r, q, w[n])
  BY WalkedFacts
<1>2. u \in Extended(r, q, t)
  BY DEF Extended
<1>3. QED
  BY <1>1, <1>2 DEF Longer

\* What was walked stays walked.
LEMMA WalkStays ==
  ASSUME NEW b, NEW r, NEW q, NEW w, w = WalkedFrom(b, r, q), NEW n \in Nat, NEW d \in Nat
  PROVE  w[n] \subseteq w[n + d]
<1> DEFINE G == {m \in Nat : w[n] \subseteq w[n + m]}
<1>1. 0 \in G
  <2>1. n + 0 = n
    OBVIOUS
  <2>2. QED
    BY <2>1
<1>2. ASSUME NEW m \in Nat, m \in G PROVE m + 1 \in G
  <2>1. PICK k \in Nat : k = n + m
    OBVIOUS
  <2>2. w[k + 1] = Longer(b, r, q, w[k])
    BY WalkedFacts
  <2>3. w[k] \subseteq w[k + 1]
    BY <2>2 DEF Longer
  <2>4. n + (m + 1) = k + 1 /\ w[n] \subseteq w[k]
    BY <1>2, <2>1
  <2>5. QED
    BY <2>3, <2>4
<1>3. d \in G
  <2> HIDE DEF G
  <2>1. QED
    BY <1>1, <1>2, SetOfNumbers
<1>4. QED
  BY <1>3

\* A trail with a way on is walked on by a road after which the way is one
\* shorter.
LEMMA WalkGoesOn ==
  ASSUME NEW b, NEW r, NEW q, NEW len, len = TrailLengthFrom(b, r, q), NEW w, w = WalkedFrom(b, r, q),
         NEW k \in Nat, NEW s \in w[k], s.used # {}, NEW m \in Nat, len[s.used][s.at] = m + 1
  PROVE  \E u \in w[k + 1] : /\ u.used # {} /\ len[u.used][u.at] = m
                             /\ Cardinality(u.used) = Cardinality(s.used) + 1
<1>1. PICK most : most = LongestRoadLength(b, r, q)
  OBVIOUS
<1>2. Sound(r, q, len, most, s)
  BY <1>1, WalkSound
<1>3. s.used \in SUBSET Edges /\ s.at \in Vertices
  BY <1>2 DEF Sound, Roads
<1>4. len[s.used][s.at] # 0
  OBVIOUS
<1>5. b[s.at].owner \in {None, q} /\
        \E e \in Onward(r, q, s) : len[s.used][s.at] = 1 + len[s.used \cup {e}][Other(e, s.at)]
  <2>1. Found(b, r, q, len, s)
    BY <1>3, SearchFacts
  <2>2. QED
    BY <1>4, <2>1 DEF Found
<1>6. PICK e \in Onward(r, q, s) : len[s.used][s.at] = 1 + len[s.used \cup {e}][Other(e, s.at)]
  BY <1>5
<1>7. Open(b, q, s)
  BY <1>5 DEF Open
<1>8. PICK u : u = [used |-> s.used \cup {e}, at |-> Other(e, s.at)]
  OBVIOUS
<1>9. u \in w[k + 1]
  BY <1>7, <1>8, WalkOn
<1>10. Sound(r, q, len, most, u) /\ Cardinality(u.used) = Cardinality(s.used) + 1
  BY <1>1, <1>2, <1>7, <1>8, StepSound
<1>11. u.used = s.used \cup {e} /\ u.at = Other(e, s.at)
  BY <1>8
<1>12. u.used \in SUBSET Edges /\ u.at \in Vertices /\ u.used # {}
  BY <1>10, <1>11 DEF Sound, Roads
<1>13. len[u.used][u.at] \in Nat
  BY <1>12, SearchFacts DEF Found
<1>14. len[u.used][u.at] = m
  <2>1. m + 1 = 1 + len[u.used][u.at]
    BY <1>6, <1>11
  <2>2. QED
    BY <1>13, <2>1
<1>15. QED
  BY <1>9, <1>10, <1>12, <1>14

\* A trail can be walked on as far as the search says.
LEMMA WalkAttains ==
  ASSUME NEW b, NEW r, NEW q, NEW len, len = TrailLengthFrom(b, r, q), NEW w, w = WalkedFrom(b, r, q),
         NEW n \in Nat, NEW t \in w[n], t.used # {}, NEW more \in Nat, len[t.used][t.at] = more
  PROVE  \E u \in w[n + more] : Cardinality(u.used) = Cardinality(t.used) + more
<1>1. PICK most : most = LongestRoadLength(b, r, q)
  OBVIOUS
<1> DEFINE Reached(m, k, s) == \E u \in w[k + m] : Cardinality(u.used) = Cardinality(s.used) + m
<1> DEFINE G == {m \in Nat : \A k \in Nat : \A s \in w[k] : s.used # {} /\ len[s.used][s.at] = m => Reached(m, k, s)}
<1>2. 0 \in G
  <2>1. ASSUME NEW k \in Nat, NEW s \in w[k], s.used # {} PROVE Reached(0, k, s)
    <3>1. k + 0 = k
      OBVIOUS
    <3>2. Sound(r, q, len, most, s)
      BY <1>1, WalkSound
    <3>3. IsFiniteSet(s.used)
      BY <3>2, EdgesFinite DEF Sound, Roads
    <3>4. Cardinality(s.used) \in Nat
      BY <3>3, FS_CardinalityType
    <3>5. Cardinality(s.used) = Cardinality(s.used) + 0
      BY <3>4
    <3>6. QED
      BY <3>1, <3>5
  <2>2. QED
    BY <2>1
<1>3. ASSUME NEW m \in Nat, m \in G PROVE m + 1 \in G
  <2>1. ASSUME NEW k \in Nat, NEW s \in w[k], s.used # {}, len[s.used][s.at] = m + 1 PROVE Reached(m + 1, k, s)
    <3>1. PICK u \in w[k + 1] : /\ u.used # {} /\ len[u.used][u.at] = m
                               /\ Cardinality(u.used) = Cardinality(s.used) + 1
      BY <2>1, WalkGoesOn
    <3>2. k + 1 \in Nat
      OBVIOUS
    <3>3. Reached(m, k + 1, u)
      BY <1>3, <3>1, <3>2
    <3>4. PICK x \in w[(k + 1) + m] : Cardinality(x.used) = Cardinality(u.used) + m
      BY <3>3
    <3>5. Cardinality(s.used) \in Nat
      <4>1. Sound(r, q, len, most, s)
        BY <1>1, WalkSound
      <4>2. IsFiniteSet(s.used)
        BY <4>1, EdgesFinite DEF Sound, Roads
      <4>3. QED
        BY <4>2, FS_CardinalityType
    <3>6. (k + 1) + m = k + (m + 1)
      OBVIOUS
    <3>7. Cardinality(x.used) = Cardinality(s.used) + (m + 1)
      BY <3>1, <3>4, <3>5
    <3>8. x \in w[k + (m + 1)]
      BY <3>4, <3>6
    <3>9. QED
      BY <3>7, <3>8
  <2>2. QED
    BY <2>1
<1>4. more \in G
  <2> HIDE DEF G
  <2>1. QED
    BY <1>2, <1>3, SetOfNumbers
<1>5. Reached(more, n, t)
  BY <1>4
<1>6. QED
  BY <1>5

\* The search returns the length of a longest trail, whatever the position.
LEMMA SearchIsLongest ==
  ASSUME NEW b, NEW r, NEW q, NEW w, w = WalkedFrom(b, r, q), Cardinality(Roads(r, q)) <= RoadLimit
  PROVE  LongestRoadLength(b, r, q) = Max({Cardinality(t.used) : t \in w[RoadLimit]})
<1>1. PICK len, most : len = TrailLengthFrom(b, r, q) /\ most = LongestRoadLength(b, r, q)
  OBVIOUS
<1>2. most \in Nat /\ RoadLimit \in Nat
  BY <1>1, LengthType, BoardAssumption DEF BoardAssumption
<1>3. IsFiniteSet(Roads(r, q)) /\ Cardinality(Roads(r, q)) \in Nat
  <2>1. IsFiniteSet(Roads(r, q))
    BY EdgesFinite DEF Roads
  <2>2. QED
    BY <2>1, FS_CardinalityType
<1>4. ASSUME NEW n \in Nat, NEW t \in w[n]
      PROVE  Cardinality(t.used) \in Nat /\ Cardinality(t.used) <= most /\ Cardinality(t.used) <= RoadLimit
  <2>1. Sound(r, q, len, most, t)
    BY <1>1, <1>4, WalkSound
  <2>2. IsFiniteSet(t.used) /\ Cardinality(t.used) \in Nat /\ Cardinality(t.used) <= Cardinality(Roads(r, q))
    <3>1. t.used \subseteq Roads(r, q)
      BY <2>1 DEF Sound
    <3>2. IsFiniteSet(t.used) /\ Cardinality(t.used) <= Cardinality(Roads(r, q))
      BY <1>3, <3>1, FS_Subset
    <3>3. QED
      BY <3>2, FS_CardinalityType
  <2>3. Cardinality(t.used) <= RoadLimit
    BY <1>2, <1>3, <2>2
  <2>4. CASE t.used = {}
    <3>1. Cardinality(t.used) = 0
      BY <2>4, FS_EmptySet
    <3>2. QED
      BY <1>2, <2>3, <3>1
  <2>5. CASE t.used # {}
    <3>1. t.used \in SUBSET Edges /\ t.at \in Vertices
      BY <2>1 DEF Sound, Roads
    <3>2. len[t.used][t.at] \in Nat
      BY <1>1, <3>1, SearchFacts DEF Found
    <3>3. Cardinality(t.used) + len[t.used][t.at] <= most
      BY <2>1, <2>5 DEF Sound
    <3>4. QED
      BY <1>2, <2>2, <2>3, <3>2, <3>3
  <2>6. QED
    BY <2>4, <2>5
<1>5. \E n \in Nat : \E t \in w[n] : n = most /\ Cardinality(t.used) = most
  <2>1. w[0] = Begun
    BY WalkedFacts
  <2>2. CASE most = 0
    <3>1. PICK v \in Vertices : TRUE
      BY BoardAssumption DEF BoardAssumption
    <3>2. PICK t : t = [used |-> {}, at |-> v]
      OBVIOUS
    <3>3. t \in w[0] /\ Cardinality(t.used) = 0
      BY <2>1, <3>2, FS_EmptySet DEF Begun
    <3>4. QED
      BY <2>2, <3>3
  <2>3. CASE most # 0
    <3>1. \E e \in Roads(r, q) : \E v \in e : most = 1 + len[{e}][v]
      BY <1>1, <2>3, LengthFacts
    <3>2. PICK e \in Roads(r, q) : \E v \in e : most = 1 + len[{e}][v]
      BY <3>1
    <3>3. PICK v \in e : most = 1 + len[{e}][v]
      BY <3>2
    <3>4. e \in Edges
      BY DEF Roads
    <3>5. PICK start : start = Other(e, v)
      OBVIOUS
    <3>6. start \in e /\ start \in Vertices /\ Other(e, start) = v
      BY <3>4, <3>5, OtherEnd
    <3>7. PICK s : s = [used |-> {}, at |-> start]
      OBVIOUS
    <3>8. s \in w[0]
      BY <2>1, <3>6, <3>7 DEF Begun
    <3>9. Open(b, q, s) /\ e \in Onward(r, q, s)
      BY <3>6, <3>7 DEF Open, Onward
    <3>10. PICK t : t = [used |-> s.used \cup {e}, at |-> Other(e, s.at)]
      OBVIOUS
    <3>11. t.used = {e} /\ t.at = v
      BY <3>6, <3>7, <3>10
    <3>12. t \in w[0 + 1]
      BY <3>8, <3>9, <3>10, WalkOn
    <3>13. t \in w[1] /\ 1 \in Nat
      <4>1. 0 + 1 = 1
        OBVIOUS
      <4>2. QED
        BY <3>12, <4>1
    <3>14. v \in Vertices
      <4>1. Other(e, start) \in Vertices
        BY <3>4, <3>6, OtherEnd
      <4>2. QED
        BY <3>6, <4>1
    <3>15. t.used \in SUBSET Edges /\ t.at \in Vertices
      BY <3>4, <3>11, <3>14
    <3>16. PICK more : more = len[t.used][t.at]
      OBVIOUS
    <3>17. more \in Nat
      BY <1>1, <3>15, <3>16, SearchFacts DEF Found
    <3>18. PICK u \in w[1 + more] : Cardinality(u.used) = Cardinality(t.used) + more
      <4>1. t.used # {} /\ len[t.used][t.at] = more /\ len = TrailLengthFrom(b, r, q)
        BY <1>1, <3>11, <3>16
      <4>2. \E u \in w[1 + more] : Cardinality(u.used) = Cardinality(t.used) + more
        BY <3>13, <3>17, <4>1, WalkAttains
      <4>3. QED
        BY <4>2
    <3>19. most = 1 + more
      BY <3>3, <3>11, <3>16
    <3>20. Cardinality(t.used) = 1
      BY <3>11, FS_Singleton
    <3>21. Cardinality(u.used) = most /\ u \in w[most]
      BY <3>18, <3>19, <3>20
    <3>22. QED
      BY <1>2, <3>21
  <2>4. QED
    BY <2>2, <2>3
<1>6. PICK t \in w[most] : Cardinality(t.used) = most
  BY <1>5
<1>7. t \in w[RoadLimit]
  <2>1. most <= RoadLimit
    BY <1>2, <1>4, <1>6
  <2>2. PICK d \in Nat : RoadLimit = most + d
    <3>1. RoadLimit - most \in Nat /\ RoadLimit = most + (RoadLimit - most)
      BY <1>2, <2>1
    <3>2. QED
      BY <3>1
  <2>3. w[most] \subseteq w[most + d]
    BY <1>2, WalkStays
  <2>4. QED
    BY <1>6, <2>2, <2>3
<1>8. PICK S : S = {Cardinality(u.used) : u \in w[RoadLimit]}
  OBVIOUS
<1>9. most \in S
  BY <1>6, <1>7, <1>8
<1>10. \A y \in S : y \in Nat /\ y <= most
  BY <1>2, <1>4, <1>8
<1>11. PICK max : max = Max(S)
  OBVIOUS
<1>12. max = CHOOSE x \in S : \A y \in S : x >= y
  BY <1>11 DEF Max
<1>13. \E x \in S : \A y \in S : x >= y
  BY <1>2, <1>9, <1>10
<1>14. max \in S /\ \A y \in S : max >= y
  BY <1>12, <1>13, Zenon
<1>15. max = most
  BY <1>2, <1>9, <1>10, <1>14
<1>16. QED
  BY <1>1, <1>8, <1>11, <1>15

\* What the code's search returns is the length of a longest trail, in every
\* state of every game and on every board.
THEOREM LongestRoadIsLongestHolds == Spec => []LongestRoadIsLongest
<1>1. Init => AllFit
  BY AllInit
<1>2. TurnInvariant /\ CardsFit /\ AllFit /\ [Next]_vars => AllFit'
  BY AllStep
<1>3. AllFit => LongestRoadIsLongest
  <2>1. SUFFICES ASSUME AllFit, NEW q \in Players
                 PROVE  LongestRoadLength(buildings, roads, q) = Max({Cardinality(t.used) : t \in TrailsOf(q)})
    BY DEF LongestRoadIsLongest
  <2>2. PICK b, r : b = buildings /\ r = roads
    OBVIOUS
  <2>3. Cardinality(Roads(r, q)) <= RoadLimit
    BY <2>1, <2>2 DEF AllFit, BoardFits, WithinLimits
  <2>4. PICK w : w = WalkedFrom(b, r, q)
    OBVIOUS
  <2>5. LongestRoadLength(b, r, q) = Max({Cardinality(t.used) : t \in w[RoadLimit]})
    BY <2>3, <2>4, SearchIsLongest
  <2>6. TrailsOf(q) = w[RoadLimit]
    BY <2>2, <2>4, TrailsAreWalked
  <2>7. QED
    BY <2>2, <2>5, <2>6
<1>4. QED
  BY <1>1, <1>2, <1>3, TurnsHold, PTL DEF Spec
=============================================================================
