----------------------------- MODULE BoardRules -----------------------------
(***************************************************************************)
(* The placement, production and road rules of packages/game-core (rules/) *)
(* as operators over an occupancy of the board: b gives the building on    *)
(* every vertex, r the owner of every edge.  The board itself (which       *)
(* vertices an edge joins, which vertices a tile has, what it produces on  *)
(* which number, where the ports are) is a constant.                       *)
(***************************************************************************)
EXTENDS Integers, FiniteSetsExt, Functions

CONSTANTS Players, None,
          Vertices, Edges,      \* an edge is the set of its two vertices
          Tiles,                \* [at : SUBSET Vertices, resource, number], resource None: desert
          Ports,                \* [at : SUBSET Vertices, kind : Resources or "GENERIC"]
          Resources,
          RoadLimit, SettlementLimit, CityLimit,        \* pieces of one player
          ResourcePortRatio, GenericPortRatio, BankRatio

ASSUME BoardAssumption ==
  /\ None \notin Players
  /\ IsFiniteSet(Players) /\ IsFiniteSet(Resources)
  /\ IsFiniteSet(Vertices) /\ Vertices # {} /\ IsFiniteSet(Tiles)
  /\ Edges \subseteq SUBSET Vertices
  /\ \A e \in Edges : Cardinality(e) = 2
  /\ \A t \in Tiles : t.at \subseteq Vertices /\ t.resource \in Resources \cup {None}
  /\ {RoadLimit, SettlementLimit, CityLimit} \subseteq Nat
  /\ {ResourcePortRatio, GenericPortRatio, BankRatio} \subseteq Nat

Bags == [Resources -> Nat]
Empty == [x \in Resources |-> 0]
Count(bag) == SumFunction(bag)
Covers(bag, cost) == \A x \in Resources : bag[x] >= cost[x]
Plus(bag, other) == [x \in Resources |-> bag[x] + other[x]]
Minus(bag, other) == [x \in Resources |-> bag[x] - other[x]]

Unbuilt == [owner |-> None, type |-> None]
Building(p, type) == [owner |-> p, type |-> type]

Adjacent(v) == {u \in Vertices : u # v /\ {u, v} \in Edges}
EdgesAt(v) == {e \in Edges : v \in e}

Roads(r, p) == {e \in Edges : r[e] = p}
Settlements(b, p) == {v \in Vertices : b[v] = Building(p, "SETTLEMENT")}
Cities(b, p) == {v \in Vertices : b[v] = Building(p, "CITY")}

-----------------------------------------------------------------------------
(* Placement.                                                              *)

Free(b, v) == b[v] = Unbuilt /\ \A u \in Adjacent(v) : b[u] = Unbuilt

ValidInitialSettlement(b, p, v) ==
  Free(b, v) /\ Cardinality(Settlements(b, p)) < SettlementLimit

ValidInitialRoad(r, p, e, settlement) ==
  r[e] = None /\ settlement \in e /\ Cardinality(Roads(r, p)) < RoadLimit

\* An own building at an end connects a road; so does an own road that ends
\* there, unless an opponent has built on that vertex.
Connected(b, r, p, e) ==
  \E v \in e : \/ b[v].owner = p
               \/ b[v] = Unbuilt /\ \E f \in EdgesAt(v) \ {e} : r[f] = p

ValidFreeRoad(b, r, p, e) ==
  r[e] = None /\ Connected(b, r, p, e) /\ Cardinality(Roads(r, p)) < RoadLimit

LegalFreeRoads(b, r, p) == {e \in Edges : ValidFreeRoad(b, r, p, e)}

\* How many roads the Road Building card grants, 0 where the card has no use.
FreeRoadCount(b, r, p) ==
  IF LegalFreeRoads(b, r, p) = {} THEN 0 ELSE Min({2, RoadLimit - Cardinality(Roads(r, p))})

ValidPaidSettlement(b, r, p, v) ==
  /\ Free(b, v)
  /\ \E e \in EdgesAt(v) : r[e] = p
  /\ Cardinality(Settlements(b, p)) < SettlementLimit

ValidCity(b, p, v) == v \in Settlements(b, p) /\ Cardinality(Cities(b, p)) < CityLimit

-----------------------------------------------------------------------------
(* Production: a settlement yields one card of its tile, a city two; the   *)
(* robber's tile yields nothing.  When the bank cannot pay everybody, one  *)
(* entitled player takes what is left and several take nothing.            *)

Yield(b, p, t) ==
  Cardinality({v \in t.at : b[v] = Building(p, "SETTLEMENT")})
    + 2 * Cardinality({v \in t.at : b[v] = Building(p, "CITY")})

Demand(b, robber, total, p, x) ==
  SumFunction([t \in {u \in Tiles \ {robber} : u.number = total /\ u.resource = x} |-> Yield(b, p, t)])

Produced(b, robber, bank, total) ==
  LET demand == [x \in Resources |-> [p \in Players |-> Demand(b, robber, total, p, x)]]
      alone(x) == Cardinality({p \in Players : demand[x][p] > 0}) = 1
  IN  [p \in Players |-> [x \in Resources |->
        IF SumFunction(demand[x]) <= bank[x] THEN demand[x][p]
        ELSE IF alone(x) THEN Min({demand[x][p], bank[x]}) ELSE 0]]

StartingGrant(v, bank) ==
  [x \in Resources |->
     Min({bank[x], Cardinality({t \in Tiles : v \in t.at /\ t.resource = x})})]

RobberTargets(b, hand, t, p) ==
  {q \in Players \ {p} : Count(hand[q]) > 0 /\ \E v \in t.at : b[v].owner = q}

MaritimeRatio(b, p, give) ==
  LET kinds == {port.kind : port \in {o \in Ports : \E v \in o.at : b[v].owner = p}}
  IN  IF give \in kinds THEN ResourcePortRatio
      ELSE IF "GENERIC" \in kinds THEN GenericPortRatio ELSE BankRatio

-----------------------------------------------------------------------------
(* The longest road of p: from every road towards both of its ends, the    *)
(* longest way on over unused roads, stopped by an opponent's building.    *)

Blocked(b, p, v) == b[v].owner \notin {None, p}
Other(e, v) == CHOOSE u \in e : u # v

TrailThroughBuildings(b, r, p) ==   \* mutant: an opponent's building does not stop a road
  LET length[used \in SUBSET Edges] ==
        [v \in Vertices |->
           Max({0} \cup {1 + length[used \cup {e}][Other(e, v)] : e \in {f \in EdgesAt(v) \ used : r[f] = p}})]
  IN  length
TrailLengthFrom(b, r, p) ==
  LET length[used \in SUBSET Edges] ==
        [v \in Vertices |->
           LET next == {e \in EdgesAt(v) \ used : r[e] = p}
           IN  IF Blocked(b, p, v) THEN 0
               ELSE Max({0} \cup {1 + length[used \cup {e}][Other(e, v)] : e \in next})]
  IN  length

LongestRoadLength(b, r, p) ==
  LET from == TrailLengthFrom(b, r, p)
  IN  Max({0} \cup {1 + from[{way[1]}][way[2]] : way \in {ev \in Roads(r, p) \X Vertices : ev[2] \in ev[1]}})

OnlyLeader(value, holder, minimum) ==   \* mutant: a tie takes the award away
  LET best == Max({value[p] : p \in Players})
      leaders == {p \in Players : value[p] = best}
  IN  IF best >= minimum /\ Cardinality(leaders) = 1 THEN CHOOSE p \in leaders : TRUE ELSE None
\* The holder of an award keeps it while nobody has more; otherwise it goes
\* to the only leader, or to nobody.
Holder(value, holder, minimum) ==
  LET best == Max({value[p] : p \in Players})
      leaders == {p \in Players : value[p] = best}
  IN  IF best < minimum THEN None
      ELSE IF holder \in leaders THEN holder
      ELSE IF Cardinality(leaders) = 1 THEN CHOOSE p \in leaders : TRUE ELSE None
=============================================================================
