-------------------------- MODULE MCServerProcess --------------------------
(***************************************************************************)
(* Instances of ServerProcess from its start, either with a clock that     *)
(* stands still, so that the bounds are spent on Rooms and the shutdown,   *)
(* or on a failure too, or with one that moves and fewer requests.  The    *)
(* buckets hold a few tokens; join and resume are left to create, which is *)
(* like them.                                                              *)
(***************************************************************************)
EXTENDS ServerProcess

CONSTANTS c1, c2, x, y

CapacityIs == [server |-> [all |-> 6, connect |-> 2, create |-> 3],
               transport |-> [all |-> 5, create |-> 3],
               session |-> [all |-> 2, commands |-> 1]]
RateIs == [server |-> [all |-> 1, connect |-> 1, create |-> 1],
           transport |-> [all |-> 1, create |-> 1],
           session |-> [all |-> 1, commands |-> 1]]

BudgetsAre == {[requests |-> 6, failures |-> 0, ticks |-> 0], [requests |-> 4, failures |-> 1, ticks |-> 0],
               [requests |-> 1, failures |-> 0, ticks |-> 2]}
=============================================================================
