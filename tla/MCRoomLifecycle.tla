-------------------------- MODULE MCRoomLifecycle --------------------------
(***************************************************************************)
(* Instances of RoomLifecycle, from nothing, from a state where a Host has *)
(* just started a game and its first record is durable, so that the bounds *)
(* are spent on disconnections, expiries, replacements and restarts, or    *)
(* from either.                                                            *)
(***************************************************************************)
EXTENDS RoomLifecycle, TLC

CONSTANT HumanCount   \* the first seats are Humans when the game starts, the rest AI

\* Identifiers are random and compared only for equality.
SessionSymmetry == Permutations(Sessions)

HumanTuples == {h \in [1..HumanCount -> Sessions] : \A s, t \in 1..HumanCount : h[s] = h[t] => s = t}

StartedRoom(humans) ==
    [revision |-> 0, host |-> humans[1],
     seats |-> [s \in Seats |-> IF s \in DOMAIN humans
                               THEN [HumanSeat(humans[s]) EXCEPT !.ready = TRUE] ELSE AiSeat],
     sessions |-> [x \in Sessions |->
        IF \E s \in DOMAIN humans : humans[s] = x
        THEN NewSession(CHOOSE s \in DOMAIN humans : humans[s] = x)
        ELSE None],
     idleDeadline |-> IdleTtl, idleTask |-> None,
     abandonedDeadline |-> None, abandonedTask |-> None,
     game |-> [original |-> [s \in Seats |-> IF s \in DOMAIN humans THEN humans[s] ELSE None],
               replaced |-> {}, presence |-> [s \in Seats |-> None],
               abandoned |-> None, winner |-> FALSE, failed |-> FALSE]]

GameInit ==
    \E humans \in HumanTuples :
        /\ process = "up" /\ room = StartedRoom(humans) /\ io = "none"
        /\ disk = Record(StartedRoom(humans)) /\ committed = disk /\ queue = {}
        /\ now = 0 /\ issued = Live(room) /\ failures = 0
        /\ told = [revision |-> 0, members |-> Live(room), ended |-> {}]

GameSpec == GameInit /\ [][Next]_vars /\ Fairness
EitherSpec == (Init \/ GameInit) /\ [][Next]_vars /\ Fairness
=============================================================================
