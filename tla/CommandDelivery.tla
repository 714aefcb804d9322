--------------------------- MODULE CommandDelivery ---------------------------
(***************************************************************************)
(* The browser's side of an online game: the delivery of commands with     *)
(* bounded retries, the view and its resynchronization                     *)
(* (src/application/gateways/socket-game-gateway.ts) and the resumption of *)
(* the session after a loss (socket-lobby-gateway.ts), over a connection   *)
(* that may be lost at any point, to a server that orders, replays and     *)
(* publishes (game-session.ts, register-lobby-handlers.ts).                *)
(*                                                                         *)
(* One browser, one session; other players and AI seats are OtherMove.     *)
(* Messages of one connection arrive in order.  Time is abstract: a time   *)
(* limit may pass whenever what it limits has not happened.                *)
(***************************************************************************)
EXTENDS Naturals, Sequences, FiniteSets

CONSTANTS
    None,           \* null
    ServerAi,       \* author of the transitions of others
    QueueCapacity,  \* queueCapacity
    MaxRetries,     \* maxRetries
    FinalVersion,   \* the game is over at this version (bound)
    MaxCommands,    \* bound: commands submitted and snapshots asked for, together
    MaxAsks,        \* bound: snapshots asked for by hand or on a change of status
    MaxLosses,      \* bound: lost connections, restarts, disconnections by the server
    SlowConsumer    \* receipts of this browser may be late

Requests == [id : 1..MaxCommands, expected : 0..FinalVersion]

ASSUME DeliveryConstants ==
    /\ QueueCapacity \in Nat \ {0} /\ MaxRetries \in Nat /\ FinalVersion \in Nat
    /\ MaxCommands \in Nat /\ MaxAsks \in Nat /\ MaxLosses \in Nat /\ SlowConsumer \in BOOLEAN
    /\ ServerAi \notin Requests

VARIABLES
    link,      \* the transport: "up" when resumed, "open", "down", "cut" or "gone"
    resuming,  \* #resumePromise is pending
    view,      \* #wire: state version and publication revision
    queue,     \* #queue
    active,    \* #active and where its delivery stands, or None
    resync,    \* #resyncRequired
    task,      \* #snapshotTask is pending
    toServer, toClient,   \* messages in flight on the current connection
    served,    \* the server's active socket: "current", a "stale" one, or "none"
    work,      \* commands in the Room's FIFO
    busy,      \* the answer to come from the operation that holds the FIFO
    server,    \* the game: versions, transitions made, requests refused by a rule
    ended,     \* the session's grace is over
    submitted, \* commands submitted so far
    reports,   \* history: what the player was told of each request
    losses, asks   \* bounds

client == <<view, queue, active, resync, task, reports, submitted>>
channels == <<toServer, toClient>>
game == <<served, work, busy, server, ended>>
bounds == <<losses, asks>>
vars == <<link, resuming, client, channels, game, bounds>>

-----------------------------------------------------------------------------
(* Messages and views.                                                     *)

View(g) == [version |-> g.version, publication |-> g.publication]
Command(entry) == [kind |-> "command", request |-> entry.request, attempt |-> entry.attempt]
Ask == [kind |-> "ask"]
Snapshot(kind, v) == [kind |-> kind, view |-> v]
Ack(command, answer, version) ==
    [kind |-> "ack", request |-> command.request, attempt |-> command.attempt,
     answer |-> answer, version |-> version]

\* The messages of q at the positions in kept, in their order.
Pick(q, kept) ==
    LET at(k) == CHOOSE i \in kept : Cardinality({j \in kept : j <= i}) = k
    IN  [k \in 1..Cardinality(kept) |-> q[at(k)]]

Attached == link = "up"
Send(message) == toServer' = Append(toServer, message)

\* #accept: only a view that is newer in one respect and older in none.
NewerVersion(v) == v.version > view.version   \* mutant: presence changes are ignored
Newer(v) == v.version >= view.version /\ v.publication >= view.publication /\ v # view
Gap(v) == v.version > view.version + 1 \/ v.publication > view.publication + 1

Cancelled == {[request |-> queue[i], outcome |-> "cancelled"] : i \in 1..Len(queue)}

AcceptSilently(v) ==   \* mutant: the end of the game forgets the queue
    /\ view' = IF Newer(v) THEN v ELSE view
    /\ queue' = IF Newer(v) /\ v.version = FinalVersion THEN <<>> ELSE queue
    /\ UNCHANGED reports
Accept(v) ==
    IF Newer(v)
    THEN /\ view' = v
         /\ IF v.version = FinalVersion
            THEN queue' = <<>> /\ reports' = reports \cup Cancelled
            ELSE UNCHANGED <<queue, reports>>
    ELSE UNCHANGED <<view, queue, reports>>

-----------------------------------------------------------------------------
(* The stages of a delivery.                                               *)

Start(request) ==
    [request |-> request, attempt |-> 1, stage |-> "start", answer |-> None, version |-> 0]
At(stage) == active # None /\ active.stage = stage
Go(stage) == active' = [active EXCEPT !.stage = stage]

\* A promise reaction is due: it runs before the browser's next event.
Due ==
    /\ active # None
    /\ \/ active.stage \in {"start", "send", "confirmed", "failed", "rejected"}
       \/ active.stage = "pace" /\ active.attempt = 1
       \/ active.stage \in {"attach", "reattach"} /\ Attached

\* A delivery that waits for a snapshot goes on when the task is settled.
Waiting == {"sync", "resend", "confirm", "failing"}
Onward == [sync |-> "pace", resend |-> "send", confirm |-> "confirmed"]
AfterSnapshot(entry, ok) ==
    IF entry = None \/ entry.stage \notin Waiting THEN entry
    ELSE [entry EXCEPT !.stage =
        IF @ = "failing" THEN "rejected" ELSE IF ~ok THEN "failed" ELSE Onward[@]]

\* The loop of #deliver goes on, or the outcome stays uncertain.
Retry(entry) ==
    IF entry.attempt <= MaxRetries
    THEN [entry EXCEPT !.attempt = @ + 1, !.stage = "start"]
    ELSE [entry EXCEPT !.stage = "failed"]

\* The promise of submit settles and #drain takes the next entry.
Report(outcome) ==
    /\ reports' = reports \cup {[request |-> active.request, outcome |-> outcome]}
    /\ active' = IF queue = <<>> THEN None ELSE Start(Head(queue))
    /\ queue' = IF queue = <<>> THEN queue ELSE Tail(queue)

\* requestSnapshot while attached; one task at a time.
RequestSnapshot ==
    /\ task' = TRUE
    /\ IF task THEN UNCHANGED toServer ELSE Send(Ask)

-----------------------------------------------------------------------------
(* The player and the delivery loop.                                       *)

Submit ==
    /\ ~Due /\ Attached /\ submitted + asks < MaxCommands /\ view.version < FinalVersion
    /\ resync => active # None
    /\ Len(queue) + (IF active = None THEN 0 ELSE 1) < QueueCapacity
    /\ submitted' = submitted + 1
    /\ LET request == [id |-> submitted + 1, expected |-> view.version]
       IN IF active = None THEN active' = Start(request) /\ UNCHANGED queue
                           ELSE queue' = Append(queue, request) /\ UNCHANGED active
    /\ UNCHANGED <<link, resuming, view, resync, task, channels, game, reports, bounds>>

\* The player asks, or the Room's lifecycle status changes.
Resync ==
    /\ ~Due /\ Attached /\ ~task
    /\ asks < MaxAsks /\ submitted + asks < MaxCommands /\ asks' = asks + 1
    /\ RequestSnapshot
    /\ UNCHANGED <<link, resuming, view, queue, active, resync, toClient, game, reports,
                   submitted, losses>>

Begin ==
    /\ At("start")
    /\ \/ ~Attached /\ Go("attach") /\ UNCHANGED <<task, toServer>>
       \/ /\ Attached /\ (active.attempt > 1 \/ resync \/ task)
          /\ RequestSnapshot /\ Go("sync")
       \/ /\ Attached /\ ~(active.attempt > 1 \/ resync \/ task)
          /\ Go("pace") /\ UNCHANGED <<task, toServer>>
    /\ UNCHANGED <<link, resuming, view, queue, resync, toClient, game, reports, submitted, bounds>>

\* #waitForAttachment is woken; the second wait is followed by a snapshot.
Wake ==
    /\ Attached
    /\ \/ At("attach") /\ Go("start") /\ UNCHANGED <<task, toServer>>
       \/ At("reattach") /\ Go("resend") /\ RequestSnapshot
    /\ UNCHANGED <<link, resuming, view, queue, resync, toClient, game, reports, submitted, bounds>>

\* The delay before a retry has passed.
Pace ==
    /\ At("pace") /\ Go(IF Attached THEN "send" ELSE "reattach")
    /\ UNCHANGED <<link, resuming, view, queue, resync, task, channels, game, reports,
                   submitted, bounds>>

\* An emission without a connection is kept for the next one.
SendCommand ==
    /\ At("send") /\ Go("sent") /\ Send(Command(active))
    /\ UNCHANGED <<link, resuming, view, queue, resync, task, toClient, game, reports,
                   submitted, bounds>>

\* After an accepted or rejected answer and the snapshot that confirms it.
Confirm ==
    /\ At("confirmed")
    /\ IF view.version < active.version
       THEN Go("failed") /\ UNCHANGED <<reports, queue>>
       ELSE Report(active.answer)
    /\ UNCHANGED <<link, resuming, view, resync, task, channels, game, submitted, bounds>>

\* Any error: resynchronize if possible, then reject.
Fail ==
    /\ At("failed") /\ resync' = TRUE
    /\ IF Attached THEN RequestSnapshot /\ Go("failing")
                   ELSE Go("rejected") /\ UNCHANGED <<task, toServer>>
    /\ UNCHANGED <<link, resuming, view, queue, toClient, game, reports, submitted, bounds>>

Reject ==
    /\ At("rejected") /\ Report("failed")
    /\ UNCHANGED <<link, resuming, view, resync, task, channels, game, submitted, bounds>>

Proceed == Begin \/ Wake \/ Pace \/ SendCommand \/ Confirm \/ Fail \/ Reject

-----------------------------------------------------------------------------
(* Time limits of the browser.                                             *)

AckTimeout ==
    /\ At("sent")
    /\ resync' = TRUE /\ active' = Retry(active)
    /\ toServer' = IF link = "down" THEN Pick(toServer, {i \in 1..Len(toServer) : toServer[i] # Command(active)})
                                    ELSE toServer
    /\ UNCHANGED <<link, resuming, view, queue, task, toClient, game, reports, submitted, bounds>>

\* A late answer to the request is ignored, so neither is kept.
SnapshotTimeout ==
    /\ ~Due /\ task /\ task' = FALSE /\ resync' = TRUE
    /\ active' = AfterSnapshot(active, FALSE)
    /\ toServer' = Pick(toServer, {i \in 1..Len(toServer) : toServer[i] # Ask})
    /\ toClient' = Pick(toClient, {i \in 1..Len(toClient) : toClient[i].kind \notin {"view", "noview"}})
    /\ UNCHANGED <<link, resuming, view, queue, game, reports, submitted, bounds>>

AttachTimeout ==
    /\ ~Due /\ (At("attach") \/ At("reattach"))
    /\ Go("failed")
    /\ UNCHANGED <<link, resuming, view, queue, resync, task, channels, game, reports,
                   submitted, bounds>>

-----------------------------------------------------------------------------
(* Messages from the server.                                               *)

Received == ~Due /\ toClient # <<>> /\ toClient' = Tail(toClient)
Message == Head(toClient)

ReceiveAck ==
    /\ Received /\ Message.kind = "ack"
    /\ IF At("sent") /\ active.request = Message.request /\ active.attempt = Message.attempt
       THEN \/ /\ Message.answer \in {"accepted", "rejected"}
               /\ active' = [active EXCEPT !.answer = Message.answer, !.version = Message.version,
                                           !.stage = "confirm"]
               /\ RequestSnapshot /\ UNCHANGED resync
            \/ /\ Message.answer = "busy" \/ (Message.answer = "no member" /\ ~Attached)
               /\ resync' = TRUE /\ active' = Retry(active)
               /\ UNCHANGED <<task, toServer>>
            \/ /\ Message.answer = "refused" \/ (Message.answer = "no member" /\ Attached)
               /\ Go("failed") /\ UNCHANGED <<resync, task, toServer>>
       ELSE UNCHANGED <<active, resync, task, toServer>>
    /\ UNCHANGED <<link, resuming, view, queue, game, reports, submitted, bounds>>

ReceiveSnapshot ==
    /\ Received /\ Message.kind \in {"view", "noview"} /\ task
    /\ LET ok == Message.kind = "view"
       IN /\ IF ok THEN Accept(Message.view) ELSE UNCHANGED <<view, queue, reports>>
          /\ resync' = ~ok /\ task' = FALSE
          /\ active' = AfterSnapshot(active, ok)
    /\ UNCHANGED <<link, resuming, toServer, game, submitted, bounds>>

\* A published view.  A gap is repaired.
ReceiveUpdate ==
    /\ Received /\ Message.kind = "update" /\ Attached
    /\ Accept(Message.view)
    /\ IF Newer(Message.view) /\ Gap(Message.view)
       THEN RequestSnapshot ELSE UNCHANGED <<task, toServer>>
    /\ UNCHANGED <<link, resuming, active, resync, game, submitted, bounds>>

\* The session is attached again: resynchronize at once.
ReceiveResumed ==
    /\ Received /\ Message.kind = "resumed"
    /\ link' = "up" /\ resuming' = FALSE
    /\ RequestSnapshot
    /\ UNCHANGED <<view, queue, active, resync, game, reports, submitted, bounds>>

\* A refused resume drops the credential, and with it the game.
ReceiveRefusal ==
    /\ Received /\ Message.kind = "refusal"
    /\ link' = "gone" /\ resuming' = FALSE
    /\ active' = None /\ queue' = <<>>
    /\ reports' = reports \cup Cancelled \cup
            (IF active = None THEN {} ELSE {[request |-> active.request, outcome |-> "cancelled"]})
    /\ task' = FALSE /\ resync' = FALSE /\ toServer' = <<>>
    /\ UNCHANGED <<view, game, submitted, bounds>>

-----------------------------------------------------------------------------
(* The connection.                                                         *)

\* What a loss does in the browser: calls with a time limit fail at once, a
\* resume in progress has none and is forgotten by the transport.
Detach(status) ==
    /\ link' = status /\ toClient' = <<>> /\ toServer' = <<>>
    /\ task' = FALSE /\ resync' = TRUE
    /\ active' = IF At("sent") THEN Retry(active) ELSE AfterSnapshot(active, TRUE)
    /\ UNCHANGED <<resuming, view, queue, reports, submitted>>

Unlinked == IF busy = None THEN None ELSE [busy EXCEPT !.live = FALSE]

\* Some of what was under way still reaches the server, which may not notice.
Drop ==
    /\ ~Due /\ link \in {"open", "up"} /\ losses < MaxLosses /\ losses' = losses + 1
    /\ Detach("down")
    /\ \E n \in 0..Len(toServer) :
        LET commands == Pick(toServer, {i \in 1..n : toServer[i].kind = "command"})
        IN work' = IF served = "current" THEN work \o commands ELSE work
    /\ served' = IF served = "current" THEN "stale" ELSE served
    /\ busy' = Unlinked
    /\ UNCHANGED <<server, ended, asks>>

\* The server restarts: what it had not committed is gone.
Restart ==
    /\ ~Due /\ link \in {"open", "up"} /\ losses < MaxLosses /\ losses' = losses + 1
    /\ Detach("down")
    /\ served' = "none" /\ work' = <<>> /\ busy' = None
    /\ server' = [server EXCEPT !.publication = @ + 1]
    /\ UNCHANGED <<ended, asks>>

\* The transport reconnects by itself; what was emitted meanwhile goes first.
\* server:hello starts a resume unless one is thought to be in progress.
Connect ==
    /\ ~Due /\ link = "down" /\ link' = "open"
    /\ resuming' = TRUE
    /\ toServer' = IF resuming THEN toServer ELSE Append(toServer, [kind |-> "resume"])
    /\ UNCHANGED <<client, toClient, game, bounds>>

\* socket.disconnect(true) after unanswered receipts: the server lets go, and
\* the transport does not reconnect after a disconnection by the server.
Cut ==
    /\ served = "current" /\ SlowConsumer /\ losses < MaxLosses /\ losses' = losses + 1
    /\ \E i \in 1..Len(toClient) : toClient[i].kind = "update"
    /\ toClient' = Append(toClient, [kind |-> "cut"])
    /\ served' = "none" /\ work' = <<>> /\ busy' = Unlinked
    /\ server' = [server EXCEPT !.publication = @ + 1]
    /\ UNCHANGED <<link, resuming, client, toServer, ended, asks>>

ReceiveCut ==
    /\ ~Due /\ toClient # <<>> /\ Message.kind = "cut"
    /\ Detach("cut")
    /\ UNCHANGED <<game, bounds>>

-----------------------------------------------------------------------------
(* The server.                                                             *)

Publish(g) ==
    toClient' = IF served = "current" THEN Append(toClient, Snapshot("update", View(g)))
                                      ELSE toClient

Notice ==
    /\ served = "stale" /\ served' = "none" /\ work' = <<>>
    /\ server' = [server EXCEPT !.publication = @ + 1]
    /\ UNCHANGED <<link, resuming, client, channels, busy, ended, bounds>>

Expire ==
    /\ served = "none" /\ link # "gone" /\ ~ended /\ ended' = TRUE
    /\ UNCHANGED <<link, resuming, client, channels, served, work, busy, server, bounds>>

\* A resume waits for the operation that holds the FIFO and supersedes the rest.
HandleResume ==
    /\ toServer # <<>> /\ Head(toServer).kind = "resume" /\ toServer' = Tail(toServer)
    /\ busy = None /\ ~ended
    /\ served' = "current" /\ work' = <<>>
    /\ server' = IF served = "none" THEN [server EXCEPT !.publication = @ + 1] ELSE server
    /\ toClient' = toClient \o <<[kind |-> "resumed"], Snapshot("update", View(server'))>>
    /\ UNCHANGED <<link, resuming, client, busy, ended, bounds>>

\* SESSION_INVALID, but also GAME_BUSY, RATE_LIMITED, GAME_UNAVAILABLE.
RefuseResume ==
    /\ toServer # <<>> /\ Head(toServer).kind = "resume" /\ toServer' = Tail(toServer)
    /\ toClient' = Append(toClient, [kind |-> "refusal"])
    /\ UNCHANGED <<link, resuming, client, game, bounds>>

\* A command joins the FIFO, or is refused at once.
HandleCommand ==
    /\ toServer # <<>> /\ Head(toServer).kind = "command" /\ toServer' = Tail(toServer)
    /\ link \in {"open", "up"}
    /\ \/ served = "current" /\ work' = Append(work, Head(toServer)) /\ UNCHANGED toClient
       \/ /\ toClient' = Append(toClient, Ack(Head(toServer),
                            IF served = "current" THEN "busy" ELSE "no member", 0))
          /\ UNCHANGED work
    /\ UNCHANGED <<link, resuming, client, served, busy, server, ended, bounds>>

HandleAsk ==
    /\ toServer # <<>> /\ Head(toServer).kind = "ask" /\ toServer' = Tail(toServer)
    /\ \/ served = "current" /\ toClient' = Append(toClient, Snapshot("view", View(server)))
       \/ toClient' = Append(toClient, [kind |-> "noview"])
    /\ UNCHANGED <<link, resuming, client, game, bounds>>

\* Execution at the head of the FIFO.
Answering(command, answer, version) ==
    busy' = [request |-> command.request, attempt |-> command.attempt, answer |-> answer,
             version |-> version, live |-> served = "current"]
Made(request) == {t \in server.history : t.request = request}
Refused(request) == {t \in server.refused : t.request = request}
TransitionBy(author) ==
    [server EXCEPT !.version = @ + 1, !.publication = @ + 1,
                   !.history = @ \cup {[request |-> author, at |-> server.version + 1]}]

Replay(command) ==
    /\ \/ \E t \in Made(command.request) : Answering(command, "accepted", t.at)
       \/ \E t \in Refused(command.request) : Answering(command, "rejected", t.at)
    /\ UNCHANGED <<server, toClient>>

ExecuteTwice(command) ==   \* mutant: results are not retained and versions not compared
    /\ server.version < FinalVersion
    /\ server' = TransitionBy(command.request)
    /\ Publish(server')
    /\ Answering(command, "accepted", server'.version)
Execute(command) ==
    /\ Made(command.request) \cup Refused(command.request) = {}
    /\ command.request.expected = server.version /\ server.version < FinalVersion
    /\ server' = TransitionBy(command.request)
    /\ Publish(server')
    /\ Answering(command, "accepted", server'.version)

\* Against a rule or the version: retained.  Paused or limited: not retained.
RefuseBeforeReplay(command) ==   \* mutant: a retry is judged before its result is looked up
    /\ UNCHANGED <<server, toClient>>
    /\ \/ Answering(command, "rejected", server.version)
       \/ Answering(command, "refused", 0)
Refuse(command) ==
    /\ Made(command.request) \cup Refused(command.request) = {}
    /\ UNCHANGED toClient
    /\ \/ /\ server' = [server EXCEPT !.refused =
                            @ \cup {[request |-> command.request, at |-> server.version]}]
          /\ Answering(command, "rejected", server.version)
       \/ UNCHANGED server /\ Answering(command, "refused", 0)

RunHead ==
    /\ busy = None /\ work # <<>> /\ work' = Tail(work)
    /\ Execute(Head(work)) \/ Replay(Head(work)) \/ Refuse(Head(work))
    /\ UNCHANGED <<link, resuming, client, toServer, served, ended, bounds>>

\* Another player moves, or an AI seat while the answer is held back.
OtherMove ==
    /\ served # "none" /\ server.version < FinalVersion
    /\ server' = TransitionBy(ServerAi)
    /\ Publish(server')
    /\ UNCHANGED <<link, resuming, client, toServer, served, work, busy, ended, bounds>>

AnswerBusy ==
    /\ busy # None /\ busy' = None
    /\ toClient' = IF busy.live THEN Append(toClient, Ack(busy, busy.answer, busy.version))
                                ELSE toClient
    /\ UNCHANGED <<link, resuming, client, toServer, served, work, server, ended, bounds>>

-----------------------------------------------------------------------------

Init ==
    /\ link = "up" /\ resuming = FALSE /\ served = "current"
    /\ server = [version |-> 0, publication |-> 0, history |-> {}, refused |-> {}]
    /\ view = View(server)
    /\ queue = <<>> /\ active = None /\ resync = FALSE /\ task = FALSE
    /\ toServer = <<>> /\ toClient = <<>> /\ work = <<>> /\ busy = None /\ ended = FALSE
    /\ submitted = 0 /\ reports = {} /\ losses = 0 /\ asks = 0

Receive == ReceiveAck \/ ReceiveSnapshot \/ ReceiveUpdate \/ ReceiveResumed \/ ReceiveRefusal
           \/ ReceiveCut
ServerStep == Notice \/ HandleResume \/ RefuseResume \/ HandleCommand \/ HandleAsk \/ RunHead
              \/ AnswerBusy

Next ==
    \/ Submit \/ Resync \/ Proceed \/ AckTimeout \/ SnapshotTimeout \/ AttachTimeout
    \/ Receive \/ Drop \/ Restart \/ Connect \/ Cut
    \/ ServerStep \/ Expire \/ OtherMove

Spec == Init /\ [][Next]_vars

\* The browser's own steps and timers happen; nothing is asked of the network.
BrowserFairness == WF_vars(Proceed) /\ WF_vars(AckTimeout) /\ WF_vars(SnapshotTimeout)
                   /\ WF_vars(AttachTimeout)
BrowserSpec == Spec /\ BrowserFairness

\* A network that works between losses, too.
FairSpec ==
    /\ BrowserSpec
    /\ WF_vars(Receive) /\ WF_vars(Connect)
    /\ WF_vars(Notice \/ HandleCommand \/ HandleAsk \/ RunHead \/ AnswerBusy)
    /\ WF_vars(HandleResume \/ RefuseResume)

-----------------------------------------------------------------------------
(* Properties.                                                             *)

Outcomes == {"accepted", "rejected", "failed", "cancelled"}
Stages == {"start", "attach", "pace", "reattach", "send", "sent", "confirmed", "failed",
           "rejected"} \cup Waiting
ViewType == [version : Nat, publication : Nat]
EntryType == [request : Requests, attempt : 1..MaxRetries + 1, stage : Stages,
              answer : {None, "accepted", "rejected"}, version : Nat]

\* Every variable has the shape the code gives it.
TypeOK ==
    /\ link \in {"up", "open", "down", "cut", "gone"} /\ resuming \in BOOLEAN
    /\ view \in ViewType /\ queue \in Seq(Requests) /\ Len(queue) < QueueCapacity
    /\ active \in EntryType \cup {None}
    /\ resync \in BOOLEAN /\ task \in BOOLEAN /\ ended \in BOOLEAN
    /\ served \in {"current", "stale", "none"}
    /\ submitted \in 0..MaxCommands
    /\ reports \subseteq [request : Requests, outcome : Outcomes]

\* What the player is told of a command is true and final: one outcome, a
\* rejected command is never applied, whatever retries and late messages do.
ReportsAreTrue ==
    \A report \in reports :
        /\ report.outcome = "rejected" => Made(report.request) = {}
        /\ report.outcome = "accepted" => Made(report.request) # {}
        /\ \A other \in reports : other.request = report.request => other = report

\* The view is never silently stale: once everything sent has arrived and no
\* snapshot is awaited, it is the server's or the player is told to resync.
StaleIsFlagged ==
    Attached /\ toClient = <<>> /\ ~task => resync \/ view = View(server)

\* Every command submitted is settled, whatever the network does: again and
\* again none is outstanding (the number of submissions is bounded).
Outstanding == {n \in 1..submitted : \A report \in reports : report.request.id # n}
SubmissionsSettle == []<>(Outstanding = {})

Ledger == INSTANCE CommandLedger WITH
    version <- server.version, history <- server.history,
    accepted <- {report.request : report \in {r \in reports : r.outcome = "accepted"}}

\* What the player sees of commands is the promise of CommandLedger: applied at
\* most once, at the version they expected, and before they are called accepted.
KeepsLedger == Ledger!Spec

\* A lost session comes back or is given up (README.md:81).
SessionReturns == link \notin {"up", "gone"} ~> link \in {"up", "gone"}

\* A session is given up only when its grace is over (README.md:81).
ForfeitsOnlyEnded == link = "gone" => ended
=============================================================================
