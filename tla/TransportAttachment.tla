------------------------ MODULE TransportAttachment ------------------------
(***************************************************************************)
(* Which socket speaks for which session while a game is played            *)
(* (server/src/lobby/register-lobby-handlers.ts), composed with the Room's *)
(* bounded FIFO (game/game-execution-queue.ts) and the transport latch and *)
(* presence of the game it protects (lobby/room-service.ts).               *)
(*                                                                         *)
(* Socket events and timers run one at a time, when no promise reaction is *)
(* due; an operation holds the queue from the moment it begins until its   *)
(* commit, so only a commit is waited for.  The order of the continuation  *)
(* of one operation and of the beginning of the next is left open.  Time   *)
(* is abstract: a grace may end as soon as it has been armed.              *)
(***************************************************************************)
EXTENDS Naturals, Sequences, FiniteSets

CONSTANTS
    Sessions,         \* Human sessions of the game
    Sockets,          \* transports; a closed one stands for a new one later
    None,             \* null
    Capacity,         \* maxQueuedOperations
    ControlCapacity,  \* positions reserved for disconnects and expiries
    MaxVersion,       \* bound: commands that take effect
    MaxQueued,        \* bound: no command is sent when this many operations wait
    MaxLost,          \* bound: no socket closes after this many losses
    MaxResumes        \* bound: valid resumes of one session

ASSUME TransportConstants ==
    /\ Cardinality(Sockets) >= Cardinality(Sessions)
    /\ None \notin Sessions /\ None \notin Sockets /\ None \notin [found : BOOLEAN]
    /\ None \notin [session : Sessions, socket : Sockets, found : BOOLEAN]
    /\ Capacity \in Nat \ {0} /\ ControlCapacity \in Nat \ {0}

VARIABLES
    live,      \* the Room is open and the service has not disposed of it
    sockets,   \* per socket: connected, data.sessionId, attachmentPending
    active,    \* activeSockets
    seats,     \* connectionStatus of each session's seat
    deadline,  \* reconnectDeadlineMs of each session; 0 is null
    armed,     \* sessions whose reconnectTask is pending
    epoch,     \* transportEpoch of each session
    game,      \* the game's latch, the absent Humans it knows of, its version
    queue,     \* the Room's FIFO; the running operation is at its head
    running,   \* None, or whether the head operation found what it needs
    settled,   \* the resume whose continuation is due, or None
    lost,      \* history: sessions whose transport was lost and not resumed
    newest,    \* history: the socket of each session's newest valid resume
    refused,   \* history: a resume was refused GAME_BUSY since the latch was last released
    losses     \* disconnections processed so far; also names deadlines

vars == <<live, sockets, active, seats, deadline, armed, epoch, game, queue,
          running, settled, lost, newest, refused, losses>>
room == <<seats, deadline, armed>>
history == <<lost, newest>>
pause == <<game, refused>>

-----------------------------------------------------------------------------
(* The queue.                                                              *)

\* `mark' is the epoch a command was sent under, or the deadline a control
\* operation carries; `newest' remembers history for the properties.
Op(kind, s, socket, mark) ==
    [kind |-> kind, session |-> s, socket |-> socket, mark |-> mark, newest |-> newest[s]]

Control == {"disconnect", "expire"}
SizeOf(kinds) == Cardinality({i \in 1..Len(queue) : queue[i].kind \in kinds})

Admits(kind) ==
    IF kind \in Control THEN SizeOf(Control) < ControlCapacity
                        ELSE Len(queue) - SizeOf(Control) < Capacity

Enqueue(op) == queue' = Append(queue, op)

\* Whether an attachment is pending matters only while the socket is open.
Closed == [open |-> FALSE, session |-> None, pending |-> FALSE]

Member(s) == seats[s] # "DISCONNECTED"
Absent(status) == {s \in Sessions : status[s] # "CONNECTED"}

\* Events wait for promise reactions: the caller of a committed operation, and
\* the operation that is next.
Event == live /\ settled = None /\ (queue # <<>> => running # None)

-----------------------------------------------------------------------------
(* Socket events.                                                          *)

\* A fresh transport: nothing that the server still holds refers to it.
Connect(t) ==
    /\ Event /\ ~sockets[t].open
    /\ \A i \in 1..Len(queue) : queue[i].socket # t
    /\ sockets' = [sockets EXCEPT ![t].open = TRUE]
    /\ UNCHANGED <<live, active, room, epoch, pause, queue, running, settled, history, losses>>

\* The session's resume arrives on an unattached socket.  It supersedes the
\* old transport and pauses the game before it waits its turn.
RequestResumeQuietly(t, s) ==   \* mutant: queued work keeps its authority
    /\ Event /\ sockets[t] = [open |-> TRUE, session |-> None, pending |-> FALSE]
    /\ newest' = IF Member(s) THEN [newest EXCEPT ![s] = t] ELSE newest
    /\ Admits("resume")
    /\ Enqueue(Op("resume", s, t, 0))
    /\ sockets' = [sockets EXCEPT ![t].pending = TRUE]
    /\ UNCHANGED <<live, active, room, epoch, pause, running, settled, lost, losses>>
RequestResume(t, s) ==
    /\ Event /\ sockets[t] = [open |-> TRUE, session |-> None, pending |-> FALSE]
    /\ epoch[s] < MaxResumes
    /\ IF Member(s)
       THEN /\ epoch' = [epoch EXCEPT ![s] = @ + 1]
            /\ game' = [game EXCEPT !.latch = TRUE]
            /\ newest' = [newest EXCEPT ![s] = t]
       ELSE UNCHANGED <<epoch, game, newest>>
    /\ IF Admits("resume")
       THEN /\ Enqueue(Op("resume", s, t, 0))
            /\ sockets' = [sockets EXCEPT ![t].pending = TRUE]
            /\ UNCHANGED refused
       ELSE /\ refused' = (refused \/ Member(s))
            /\ UNCHANGED <<queue, sockets>>
    /\ UNCHANGED <<live, active, room, running, settled, lost, losses>>

\* A command from the attached socket of a connected seat joins the queue.
SendCommand(t) ==
    /\ Event /\ sockets[t].open /\ sockets[t].session # None
    /\ LET s == sockets[t].session
       IN /\ active[s] = t /\ seats[s] = "CONNECTED"
          /\ Admits("command") /\ Len(queue) < MaxQueued
          /\ Enqueue(Op("command", s, t, epoch[s]))
    /\ UNCHANGED <<live, sockets, active, room, epoch, pause, running, settled, history, losses>>

\* markDisconnected: latch now, and a control operation for the seat.  When no
\* position is left the seat is never told.
MarkDisconnected(s) ==
    /\ losses' = losses + 1
    /\ UNCHANGED refused
    /\ IF Member(s)
       THEN /\ game' = [game EXCEPT !.latch = TRUE]
            /\ IF Admits("disconnect")
               THEN Enqueue(Op("disconnect", s, None, losses + 1))
               ELSE UNCHANGED queue
       ELSE UNCHANGED <<game, queue>>

\* A socket closes.  Only the one that speaks for its session has an effect.
LoseSocket(t) ==
    /\ Event /\ sockets[t].open /\ losses < MaxLost
    /\ sockets' = [sockets EXCEPT ![t] = Closed]
    /\ LET s == sockets[t].session
       IN IF s # None /\ active[s] = t
          THEN /\ active' = [active EXCEPT ![s] = None]
               /\ lost' = lost \cup {s}
               /\ MarkDisconnected(s)
          ELSE UNCHANGED <<active, lost, pause, queue, losses>>
    /\ UNCHANGED <<live, room, epoch, running, settled, newest>>

\* A reconnect grace ends.  With no position left the whole service stops.
EndGrace(s) ==
    /\ Event /\ s \in armed
    /\ armed' = armed \ {s}
    /\ IF Admits("expire")
       THEN Enqueue(Op("expire", s, None, deadline[s])) /\ UNCHANGED live
       ELSE live' = FALSE /\ UNCHANGED queue
    /\ UNCHANGED <<sockets, active, seats, deadline, epoch, pause, running, settled, history, losses>>

-----------------------------------------------------------------------------
(* Operations, begun in admission order.                                   *)

Begin(kind, found) ==
    /\ live /\ running = None /\ queue # <<>> /\ Head(queue).kind = kind
    /\ running' = [found |-> found]
    /\ UNCHANGED <<sockets, active, epoch, queue, settled, newest, losses>>

\* setPresence with the seats as they will be; it releases the latch.
SynchronizeLatch(status) ==      \* mutant: the game keeps its old presence
    game' = [game EXCEPT !.latch = FALSE] /\ refused' = FALSE
SynchronizeChanges(status) ==    \* mutant: nothing to do for the same presence
    IF Absent(status) = game.absent
    THEN UNCHANGED pause
    ELSE game' = [game EXCEPT !.latch = FALSE, !.absent = Absent(status)] /\ refused' = FALSE
SynchronizePresence(status) ==
    /\ game' = [game EXCEPT !.latch = FALSE, !.absent = Absent(status)]
    /\ refused' = FALSE

\* The seat is CONNECTED again and its grace forgotten.
BeginResume ==
    LET s == Head(queue).session
    IN /\ Begin("resume", TRUE) /\ Member(s)
       /\ seats' = [seats EXCEPT ![s] = "CONNECTED"]
       /\ deadline' = [deadline EXCEPT ![s] = 0]
       /\ armed' = armed \ {s}
       /\ lost' = lost \ {s}
       /\ SynchronizePresence(seats')
       /\ UNCHANGED live

\* The session loses its seat; with the last session the Room closes.
Expire(s) ==
    /\ seats' = [seats EXCEPT ![s] = "DISCONNECTED"]
    /\ deadline' = [deadline EXCEPT ![s] = 0]
    /\ armed' = armed \ {s}
    /\ IF \E other \in Sessions \ {s} : Member(other)
       THEN SynchronizePresence(seats') /\ UNCHANGED live
       ELSE live' = FALSE /\ UNCHANGED pause

\* A resume that arrives late expires the session itself.
BeginLateResume ==
    LET s == Head(queue).session
    IN /\ Begin("resume", FALSE) /\ deadline[s] # 0
       /\ Expire(s)
       /\ UNCHANGED lost

BeginInvalidResume ==
    /\ Begin("resume", FALSE) /\ ~Member(Head(queue).session)
    /\ UNCHANGED <<live, room, pause, lost>>

\* A connected seat starts its grace; any other is left as it is.
BeginDisconnect ==
    LET op == Head(queue)
        s == op.session
    IN /\ Begin("disconnect", TRUE)
       /\ IF seats[s] = "CONNECTED"
          THEN /\ seats' = [seats EXCEPT ![s] = "RECONNECTING"]
               /\ deadline' = [deadline EXCEPT ![s] = op.mark]
               /\ armed' = armed \cup {s}
               /\ SynchronizePresence(seats')
          ELSE UNCHANGED <<room, pause>>
       /\ UNCHANGED <<live, lost>>

\* The grace that ended may have been renewed or resumed since.
BeginExpire ==
    LET op == Head(queue)
    IN /\ Begin("expire", TRUE)
       /\ IF Member(op.session) /\ deadline[op.session] = op.mark
          THEN Expire(op.session)
          ELSE UNCHANGED <<live, room, pause>>
       /\ UNCHANGED lost

\* The attachment, its epoch, the seat and the pause are read again.
Authorized(op) ==
    /\ sockets[op.socket].open /\ sockets[op.socket].session = op.session
    /\ active[op.session] = op.socket
    /\ epoch[op.session] = op.mark
    /\ seats[op.session] = "CONNECTED"

BeginCommand ==
    /\ Begin("command", TRUE)
    /\ Authorized(Head(queue)) /\ ~game.latch /\ game.absent = {}
    /\ game.version < MaxVersion
    /\ game' = [game EXCEPT !.version = @ + 1]
    /\ UNCHANGED <<live, room, lost, refused>>

\* Refused by authority, by the pause or by the engine's rules.
RefuseCommand ==
    /\ Begin("command", FALSE)
    /\ UNCHANGED <<live, room, pause, lost>>

\* The operation is committed; it leaves the queue and its caller goes on.
Finish ==
    /\ live /\ running # None /\ settled = None
    /\ queue' = Tail(queue) /\ running' = None
    /\ settled' = IF Head(queue).kind = "resume"
                  THEN [session |-> Head(queue).session, socket |-> Head(queue).socket,
                        found |-> running.found]
                  ELSE None
    /\ UNCHANGED <<live, sockets, active, room, epoch, pause, history, losses>>

-----------------------------------------------------------------------------
(* Continuation of a resume.                                               *)

RefuseAttachment ==
    /\ live /\ settled # None /\ ~settled.found
    /\ settled' = None
    /\ sockets' = [sockets EXCEPT ![settled.socket].pending = FALSE]
    /\ UNCHANGED <<live, active, room, epoch, pause, queue, running, history, losses>>

\* The socket closed while its resume waited: the session is lost again.
ForgetLostAttachment ==   \* mutant: nobody marks the seat
    /\ live /\ settled # None /\ settled.found /\ ~sockets[settled.socket].open
    /\ settled' = None
    /\ sockets' = [sockets EXCEPT ![settled.socket].pending = FALSE]
    /\ UNCHANGED <<live, active, room, epoch, pause, queue, running, history, losses>>
AbandonAttachment ==
    /\ live /\ settled # None /\ settled.found /\ ~sockets[settled.socket].open
    /\ settled' = None
    /\ sockets' = [sockets EXCEPT ![settled.socket].pending = FALSE]
    /\ MarkDisconnected(settled.session)
    /\ UNCHANGED <<live, active, room, epoch, running, history>>

\* The socket takes over; the one it replaces loses its session, then closes.
AttachSession ==
    /\ live /\ settled # None /\ settled.found /\ sockets[settled.socket].open
    /\ settled' = None
    /\ active' = [active EXCEPT ![settled.session] = settled.socket]
    /\ sockets' = [t \in Sockets |->
            IF t = settled.socket
            THEN [open |-> TRUE, session |-> settled.session, pending |-> FALSE]
            ELSE IF t = active[settled.session]
            THEN Closed
            ELSE sockets[t]]
    /\ UNCHANGED <<live, room, epoch, pause, queue, running, history, losses>>

-----------------------------------------------------------------------------

\* Every Human is attached and the game runs; the other sockets are unattached.
Init ==
    /\ live = TRUE
    /\ active \in [Sessions -> Sockets]
    /\ \A s, z \in Sessions : active[s] = active[z] => s = z
    /\ sockets = [t \in Sockets |->
         [open |-> TRUE, pending |-> FALSE,
          session |-> IF \E s \in Sessions : active[s] = t
                      THEN CHOOSE s \in Sessions : active[s] = t ELSE None]]
    /\ seats = [s \in Sessions |-> "CONNECTED"]
    /\ deadline = [s \in Sessions |-> 0] /\ armed = {}
    /\ epoch = [s \in Sessions |-> 0]
    /\ game = [latch |-> FALSE, absent |-> {}, version |-> 0]
    /\ queue = <<>> /\ running = None /\ settled = None
    /\ lost = {} /\ newest = active /\ refused = FALSE /\ losses = 0

Next ==
    \/ \E t \in Sockets, s \in Sessions : RequestResume(t, s)
    \/ \E t \in Sockets : Connect(t) \/ SendCommand(t) \/ LoseSocket(t)
    \/ \E s \in Sessions : EndGrace(s)
    \/ BeginResume \/ BeginLateResume \/ BeginInvalidResume
    \/ BeginDisconnect \/ BeginExpire \/ BeginCommand \/ RefuseCommand
    \/ Finish \/ RefuseAttachment \/ AbandonAttachment \/ AttachSession

Spec == Init /\ [][Next]_vars

-----------------------------------------------------------------------------
(* Properties.                                                             *)

Idle == live /\ queue = <<>> /\ running = None /\ settled = None
OpType == [kind : {"resume", "command"} \cup Control, session : Sessions,
           socket : Sockets \cup {None}, mark : Nat, newest : Sockets]

\* Every variable has the shape the code gives it.
TypeOK ==
    /\ live \in BOOLEAN
    /\ sockets \in [Sockets -> [open : BOOLEAN, session : Sessions \cup {None}, pending : BOOLEAN]]
    /\ active \in [Sessions -> Sockets \cup {None}]
    /\ seats \in [Sessions -> {"CONNECTED", "RECONNECTING", "DISCONNECTED"}]
    /\ deadline \in [Sessions -> Nat] /\ armed \subseteq Sessions
    /\ epoch \in [Sessions -> Nat]
    /\ game \in [latch : BOOLEAN, absent : SUBSET Sessions, version : Nat]
    /\ queue \in Seq(OpType)
    /\ running \in {None, [found |-> TRUE], [found |-> FALSE]}
    /\ settled \in [session : Sessions, socket : Sockets, found : BOOLEAN] \cup {None}
    /\ lost \subseteq Sessions /\ newest \in [Sessions -> Sockets]
    /\ refused \in BOOLEAN /\ losses \in Nat

\* The registry and the sockets agree, so that no two open sockets ever speak
\* for one session.
OneTransport ==
    \A t \in Sockets, s \in Sessions : active[s] = t <=> sockets[t].session = s

\* A seat shown CONNECTED is never left behind without a transport: whatever
\* closes while a resume waits, some operation is still due to notice.
NoOrphanSeat ==
    Idle => \A s \in Sessions : seats[s] = "CONNECTED" => active[s] # None

\* Sockets, registry and seats agree, whatever closes between two steps of a
\* resume: one transport for a session, and no seat without one.
AttachmentsAgree == TypeOK /\ OneTransport /\ NoOrphanSeat

\* A pause ends: with everybody connected and nothing in the queue, the latch
\* is released, unless a resume has been turned away by a full queue.
PauseEnds ==
    Idle /\ ~refused /\ (\A s \in Sessions : seats[s] = "CONNECTED") => ~game.latch

\* The game advances only while the Room shows every Human connected, although
\* the game reads its own copy of the presence.
ProgressNeedsEveryone ==
    [][game'.version # game.version => \A s \in Sessions : seats[s] = "CONNECTED"]_vars

\* A valid resume supersedes the queued work of older transports at once, long
\* before it is attached.
ResumeSupersedes ==
    [][game'.version # game.version => Head(queue).newest = newest[Head(queue).session]]_vars

\* Claimed by ADR-V2-0005 ("The newest valid resume wins"): the socket that
\* speaks for a session keeps its seat connected.
NewestResumeWins ==
    Idle => \A s \in Sessions : active[s] # None => seats[s] = "CONNECTED"

\* Claimed by the README ("Disconnects immediately pause authoritative
\* progress"): no command takes effect between a loss and its resume.
PauseIsImmediate ==
    [][game'.version # game.version /\ settled = None => lost = {}]_vars
=============================================================================
