--------------------------- MODULE MCGameCommands ---------------------------
(***************************************************************************)
(* Requests for the runs of GameCommands: a player's two successive        *)
(* commands, the second of them also in a form that reuses the first's     *)
(* identifier, and a rival's command for the same version.                 *)
(***************************************************************************)
EXTENDS GameCommands

CONSTANTS player, rival

Request(s, id, expected, move) ==
    [session |-> s, id |-> id, expected |-> expected, move |-> move]

SomeRequests ==
    {Request(player, 1, 0, "a"), Request(player, 2, 1, "a"),
     Request(player, 1, 1, "b"), Request(rival, 1, 0, "a")}
=============================================================================
