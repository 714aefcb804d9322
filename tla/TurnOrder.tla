----------------------------- MODULE TurnOrder -----------------------------
(***************************************************************************)
(* A game as those who run it need to know it: whose turn it is, who owes  *)
(* an answer, and who has won.  What a command does on the board is left   *)
(* out.  GameEngine implements this specification; LocalGame builds on it. *)
(*                                                                         *)
(* A decision is open while somebody owes an answer: owing names those     *)
(* players, and at most more further answers of one player can follow when *)
(* they have all answered: the robber after discards, the victim after the *)
(* robber, the reply to a counter-offer, the second free road.             *)
(***************************************************************************)
EXTENDS Naturals, Sequences

CONSTANTS Players, None, Orders     \* Orders: the orders of the players that may be drawn

VARIABLE game

\* half 1: place a settlement, or roll; half 2: place a road, or act and end the turn
NewGame(order) ==
  [order |-> order, setup |-> 1, current |-> order[1], half |-> 1, card |-> FALSE,
   owing |-> {}, more |-> 0, winner |-> None]

Init == \E order \in Orders : game = NewGame(order)

Identity(g) == <<g.setup, g.current>>

\* The setup goes once through the order, and once back.
NextTurn(g) ==
  LET n == Len(g.order)
      i == CHOOSE i \in 1..n : g.order[i] = g.current
      placed == g.setup + 1
      fresh == [g EXCEPT !.half = 1, !.card = FALSE, !.owing = {}, !.more = 0]
  IN  IF g.setup = None THEN [fresh EXCEPT !.current = g.order[(i % n) + 1]]
      ELSE IF g.setup = 2 * n THEN [fresh EXCEPT !.setup = None, !.current = g.order[1]]
      ELSE [fresh EXCEPT !.setup = placed,
                         !.current = g.order[IF placed <= n THEN placed ELSE 2 * n + 1 - placed]]

Asks(g, owing, more) == {[g EXCEPT !.owing = ask[1], !.more = ask[2]] : ask \in owing \X more}
OrWon(g) == {g, [g EXCEPT !.winner = g.current]}
MayEnd(g) == g.winner = None /\ g.owing = {} /\ g.setup = None /\ g.half = 2

Roll(g) ==
  LET rolled == [g EXCEPT !.half = 2]
  IN  {rolled} \cup Asks(rolled, (SUBSET Players) \ {{}}, {2}) \cup Asks(rolled, {{g.current}}, {1})

\* A card opens a decision of its player; the award a knight brings is
\* counted when the robber is done.
PlayCard(g) ==
  IF g.card THEN {} ELSE Asks([g EXCEPT !.card = TRUE], {{g.current}}, {0, 1})

\* Building, buying and the bank change nothing here, unless they win.
Build(g) == OrWon(g)
Propose(g) == Asks(g, {{q} : q \in Players \ {g.current}}, {1})

Act(g) ==
  IF g.setup # None THEN IF g.half = 1 THEN {[g EXCEPT !.half = 2]} ELSE {NextTurn(g)}
  ELSE PlayCard(g) \cup (IF g.half = 1 THEN Roll(g)
                         ELSE Build(g) \cup Propose(g) \cup OrWon(NextTurn(g)))

Answer(g, p) ==
  LET rest == g.owing \ {p}
  IN  IF rest # {} THEN {[g EXCEPT !.owing = rest]}
      ELSE OrWon([g EXCEPT !.owing = {}, !.more = 0])
             \cup (IF g.more = 0 THEN {} ELSE Asks(g, {{q} : q \in Players}, 0..(g.more - 1)))

\* What a command of p can make of the game.
After(g, p) ==
  IF g.winner # None THEN {}
  ELSE IF g.owing = {} THEN IF p = g.current THEN Act(g) ELSE {}
  ELSE IF p \in g.owing THEN Answer(g, p) ELSE {}

Next == \E p \in Players : game' \in After(game, p)

Spec == Init /\ [][Next]_game
=============================================================================
