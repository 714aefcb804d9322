---------------------------- MODULE CommandLedger ----------------------------
(***************************************************************************)
(* What the server promises a player about commands, whatever it caches,   *)
(* retries, loses or restarts: an append-only history of transitions, one  *)
(* per state version, in which a request occurs at most once, at the       *)
(* version it expected, and which holds every request ever answered with   *)
(* success.                                                                *)
(***************************************************************************)
EXTENDS Naturals

CONSTANTS
    Requests,   \* command requests, each naming the version it expects
    ServerAi    \* the author of the AI seats' own commands

VARIABLES
    version,    \* the state version
    history,    \* transitions: [request, at], `at' the version produced
    accepted    \* requests answered with success

ledger == <<version, history, accepted>>

Init == version = 0 /\ history = {} /\ accepted = {}

\* The next transition, by a Human request or by the server's AI.
Append(request) ==
    /\ request # ServerAi => request.expected = version
    /\ version' = version + 1
    /\ history' = history \cup {[request |-> request, at |-> version + 1]}
    /\ UNCHANGED accepted

Accept(request) ==
    /\ \E entry \in history : entry.request = request
    /\ accepted' = accepted \cup {request}
    /\ UNCHANGED <<version, history>>

Next == \/ \E request \in Requests \cup {ServerAi} : Append(request)
        \/ \E request \in Requests : Accept(request)

Spec == Init /\ [][Next]_ledger
=============================================================================
