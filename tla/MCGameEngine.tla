---------------------------- MODULE MCGameEngine ----------------------------
(* Small boards for the engine. *)
EXTENDS AiAgent, TLC
CONSTANTS p, q, z, lumber, ore

Bag(l, o) == lumber :> l @@ ore :> o
OneLumber == Bag(1, 0)
OneOre == Bag(0, 1)
OneEach == Bag(1, 1)
TwoOre == Bag(0, 2)
Way(u, v) == {u, v}
ThreeSeats == <<p, z, q>>

(***************************************************************************)
(* Roads that meet at two vertices: a settlement on vertex 3 cuts the road *)
(* from 1 to 5.  Nobody comes to the last road; with it the setup has room *)
(* wherever the players settle (RoomAssumption).                           *)
(***************************************************************************)
Branches == {Way(1, 2), Way(2, 3), Way(3, 4), Way(4, 5), Way(3, 6), Way(6, 7), Way(7, 8),
             Way(8, 9), Way(2, 10), Way(10, 11), Way(11, 12), Way(12, 13), Way(14, 15)}
Waste == [at |-> {2, 9}, resource |-> None, number |-> 0]
FourTiles == {Waste, [at |-> {3, 4, 5, 13}, resource |-> lumber, number |-> 1],
              [at |-> {5, 7}, resource |-> lumber, number |-> 2],
              [at |-> {1, 3, 7, 11}, resource |-> ore, number |-> 2]}
\* [seat in the round, round]
BranchSites == [i \in 1..3, r \in 1..2 |-> {<<<<1, 7>>, <<11, 13>>, <<9, 5>>>>[i][r]}]
\* In each of four turns the building tiles yield.
FourTurns == <<{2}, {2}, {2}, {2}>>
NoCards == <<>>
NoDeck == {<<>>}

(***************************************************************************)
(* A short row, where the roads of p are soon boxed in, and stubs, one of  *)
(* them out of reach.                                                      *)
(***************************************************************************)
Row == {Way(1, 2), Way(2, 3), Way(3, 4), Way(4, 5), Way(5, 6), Way(7, 8), Way(9, 10), Way(11, 12), Way(13, 14)}
RowWaste == [at |-> {6, 7}, resource |-> None, number |-> 0]
RowTiles == {RowWaste, [at |-> {2, 6}, resource |-> ore, number |-> 1],
             [at |-> {4, 11}, resource |-> lumber, number |-> 1]}
RowPorts == {[at |-> {3, 4}, kind |-> "GENERIC"], [at |-> {6, 7}, kind |-> ore]}
\* p: 2 and 4, q: 6 and 7, z: 9 and 11
RowSites == [i \in 1..3, r \in 1..2 |-> {<<<<2, 7>>, <<9, 11>>, <<6, 4>>>>[i][r]}]
FiveCards == <<"KNIGHT", "ROAD_BUILDING", "INVENTION", "MONOPOLY", "VICTORY_POINT">>
Shuffles == {<<1, 2, 3, 4, 5>>, <<3, 4, 5, 2, 1>>}
\* p draws cards in its first turn and plays them in its second, the fourth
\* of the game; a seven is rolled with many cards out, or with few.
Sevens == <<{1, 7}, {1}, {7}, {1}>>
LumberForOre == {[gives |-> OneLumber, gets |-> OneOre]}
=============================================================================
