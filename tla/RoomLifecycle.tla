---------------------------- MODULE RoomLifecycle ----------------------------
(***************************************************************************)
(* One Room aggregate of server/src/lobby/room-service.ts: its seats, the  *)
(* sessions that own them, its Host, its game's presence, the three kinds  *)
(* of lifecycle timer, the durable record and the last committed snapshot. *)
(*                                                                         *)
(* Every operation of the Room runs alone in the Room's FIFO queue.  It    *)
(* first changes memory in one uninterrupted turn, then waits for storage: *)
(* `io' is "save" or "remove" while that wait lasts, and only SaveOK or    *)
(* RemoveOK lets the next operation begin.  Timers fire, transports close, *)
(* time passes and the process halts at any moment, waits included.        *)
(***************************************************************************)
EXTENDS Naturals, FiniteSets

CONSTANTS
    SeatCount,       \* number of canonical seats (the code has 4)
    Sessions,        \* session identifiers the generator can issue
    None,            \* null
    ReconnectGrace,  \* reconnectGraceMs
    RestartGrace,    \* restartRecoveryGraceMs
    IdleTtl,         \* roomIdleTtlMs
    AbandonedTtl,    \* gameAbandonedTtlMs
    TimerSlack,      \* how early a timer may fire with respect to now()
    Horizon,         \* bound: clients act and the clock runs freely before it
    MaxRevision,     \* bound: clients act while the revision is below it
    MaxQueued,       \* bound: lost transports waiting in the Room queue
    MaxFailures      \* bound: crashes and storage failures

ASSUME RoomConstants ==
    /\ SeatCount \in Nat \ {0, 1}
    /\ None \notin Sessions \cup Nat
    /\ {ReconnectGrace, RestartGrace, IdleTtl, AbandonedTtl} \subseteq Nat \ {0}
    /\ {TimerSlack, Horizon, MaxRevision, MaxQueued, MaxFailures} \subseteq Nat

VARIABLES
    process,    \* "up", "recovering" (before #initialized) or "down"
    room,       \* the RoomState in memory, or None
    io,         \* the storage call the current operation awaits
    disk,       \* the durable MultiplayerRecord, or None
    committed,  \* #committedRecords / #committedSnapshots of the Room, or None
    queue,      \* lifecycle operations admitted to the Room queue, not yet run
    now,        \* runtime.now()
    issued,     \* identifiers already issued
    failures,   \* halts so far (bound)
    told        \* history: what clients have been told, kept across restarts

vars == <<process, room, io, disk, committed, queue, now, issued, failures, told>>

-----------------------------------------------------------------------------
(* Seats, sessions and game records.                                       *)

Seats == 1..SeatCount
First(S) == CHOOSE s \in S : \A t \in S : s <= t

EmptySeat == [occupancy |-> "EMPTY", session |-> None, ready |-> FALSE,
              status |-> None, deadline |-> None]
AiSeat == [EmptySeat EXCEPT !.occupancy = "AI"]
HumanSeat(x) == [occupancy |-> "HUMAN", session |-> x, ready |-> FALSE,
                 status |-> "CONNECTED", deadline |-> None]
NewSession(s) == [seat |-> s, deadline |-> None, task |-> None]

HumanSeats(r) == {s \in Seats : r.seats[s].occupancy = "HUMAN"}
ConnectedSeats(r) == {s \in HumanSeats(r) : r.seats[s].status = "CONNECTED"}
ExpiredSeats(r) == {s \in HumanSeats(r) : r.seats[s].status = "DISCONNECTED"}
Live(r) == {x \in Sessions : r.sessions[x] # None}

Finished(r) == r.game # None /\ r.game.winner

\* The presence list the Room derives from its seats.
PresenceOf(r) ==
    [s \in Seats |->
        IF s \in HumanSeats(r) \ ConnectedSeats(r)
        THEN [deadline |-> r.seats[s].deadline,
              replacementRequired |-> s \in ExpiredSeats(r)]
        ELSE None]

AbsentSeats(g) == {s \in Seats : g.presence[s] # None}

LifecycleStatus(g) ==
    CASE g.winner -> "FINISHED"
      [] ~g.winner /\ g.failed -> "ERROR"
      [] OTHER -> IF \E s \in AbsentSeats(g) : g.presence[s].replacementRequired
                  THEN "PAUSED_REPLACEMENT_REQUIRED"
                  ELSE IF AbsentSeats(g) # {} THEN "PAUSED_RECONNECTING" ELSE "ACTIVE"

\* The record handed to the repository: sessions reach it through Human seats.
Record(r) ==
    [revision |-> r.revision, host |-> r.host, seats |-> r.seats,
     idleDeadline |-> r.idleDeadline, abandonedDeadline |-> r.abandonedDeadline,
     game |-> r.game,
     sessions |-> [x \in Sessions |->
        IF x \in Live(r) /\ \E s \in HumanSeats(r) : r.seats[s].session = x
        THEN [seat |-> CHOOSE s \in HumanSeats(r) : r.seats[s].session = x,
              deadline |-> r.sessions[x].deadline]
        ELSE None]]

-----------------------------------------------------------------------------
(* The relationships multiplayerRecordSchema.superRefine requires of a     *)
(* record.  Saving any other record throws, and one failed save disposes   *)
(* the whole service, every other Room with it.                            *)

MembershipValid(rec) ==
    /\ \A s, t \in HumanSeats(rec) : rec.seats[s].session = rec.seats[t].session => s = t
    /\ \A x, y \in Live(rec) : rec.sessions[x].seat = rec.sessions[y].seat => x = y
    /\ \E s \in HumanSeats(rec) : rec.seats[s].session = rec.host
    /\ Live(rec) # {}
    /\ \A x \in Live(rec) :
        \E s \in HumanSeats(rec) : rec.seats[s].session = x /\ rec.sessions[x].seat = s

ConnectionValid(rec) ==
    \A s \in HumanSeats(rec) :
        LET seat == rec.seats[s]
            session == rec.sessions[seat.session]
        IN /\ (seat.status = "CONNECTED") <=> (seat.deadline = None)
           /\ (seat.status = "DISCONNECTED") <=> (session = None)
           /\ session # None => session.seat = s /\ session.deadline = seat.deadline

WaitingValid(rec) == rec.abandonedDeadline = None /\ ExpiredSeats(rec) = {}

ExpectedLifecycle(rec) ==
    CASE rec.game.winner -> "FINISHED"
      [] ~rec.game.winner /\ rec.game.failed -> "ERROR"
      [] OTHER -> IF ExpiredSeats(rec) # {} THEN "PAUSED_REPLACEMENT_REQUIRED"
                  ELSE IF HumanSeats(rec) # ConnectedSeats(rec)
                       THEN "PAUSED_RECONNECTING" ELSE "ACTIVE"

GameValid(rec) ==
    LET g == rec.game IN
    /\ \A s \in Seats : rec.seats[s].occupancy # "EMPTY"
    /\ g.abandoned = rec.abandonedDeadline
    /\ LifecycleStatus(g) = ExpectedLifecycle(rec)
    /\ Cardinality({s \in Seats : g.original[s] # None}) >= 2
    /\ \A s \in Seats :
        IF g.original[s] = None
        THEN rec.seats[s].occupancy = "AI" /\ s \notin g.replaced
        ELSE IF s \in g.replaced
             THEN rec.seats[s].occupancy = "AI"
             ELSE s \in HumanSeats(rec) /\ rec.seats[s].session = g.original[s]
    /\ g.presence = PresenceOf(rec)

RecordValid(rec) ==
    /\ MembershipValid(rec)
    /\ ConnectionValid(rec)
    /\ IF rec.game = None THEN WaitingValid(rec) ELSE GameValid(rec)

-----------------------------------------------------------------------------
(* Helpers of the service, as functions of the Room they change.           *)

TouchRoom(r) ==
    IF r.game # None THEN [r EXCEPT !.idleTask = None]
    ELSE [r EXCEPT !.idleDeadline = now + IdleTtl, !.idleTask = now + IdleTtl]

GameCleanupUnarmed(r) ==   \* mutant
    IF r.abandonedDeadline # None THEN r
    ELSE [r EXCEPT !.abandonedDeadline = now + AbandonedTtl]
ScheduleGameCleanup(r) ==
    IF r.abandonedDeadline # None THEN r
    ELSE [r EXCEPT !.abandonedDeadline = now + AbandonedTtl,
                   !.abandonedTask = now + AbandonedTtl]

SynchronizeGamePresence(r) ==
    IF r.game = None THEN r
    ELSE LET keep == ExpiredSeats(r) # {} \/ Finished(r)
             deadline == IF keep THEN r.abandonedDeadline ELSE None
         IN [r EXCEPT !.abandonedDeadline = deadline,
                      !.abandonedTask = IF keep THEN @ ELSE None,
                      !.game.presence = PresenceOf(r),
                      !.game.abandoned = deadline]

HostNeverTransferred(r) == r   \* mutant
TransferExpiredHost(r) ==
    IF r.game = None \/ r.host \in Live(r) \/ ConnectedSeats(r) = {} THEN r
    ELSE [r EXCEPT !.host = r.seats[First(ConnectedSeats(r))].session]

SeatRemovedSessionKept(r, x) ==   \* mutant
    [r EXCEPT !.seats[r.sessions[x].seat] = EmptySeat]
RemoveSessionAndSeat(r, x) ==
    [r EXCEPT !.sessions[x] = None, !.seats[r.sessions[x].seat] = EmptySeat]

BumpRevision(r) == [r EXCEPT !.revision = @ + 1]

\* #persist: a finished game first gets its cleanup deadline; an unchanged
\* record is not written again.
Persist(r) ==
    LET final == IF Finished(r) /\ r.abandonedDeadline = None
                 THEN SynchronizeGamePresence(ScheduleGameCleanup(r)) ELSE r
    IN /\ room' = final
       /\ io' = IF Record(final) = committed THEN "none" ELSE "save"

\* #closeRoom: memory keeps the Room until the durable row is gone.
CloseRoom(r) == room' = r /\ io' = "remove"

\* A member has left a waiting Room: pass the Host on, or close.
AfterDeparture(r, x) ==
    IF HumanSeats(r) = {} \/ (r.host = x /\ ConnectedSeats(r) = {}) THEN CloseRoom(r)
    ELSE Persist(TouchRoom(
            IF r.host = x
            THEN [r EXCEPT !.host = r.seats[First(ConnectedSeats(r))].session]
            ELSE r))

\* The end of a session whose grace has run out.
EndSession(x) ==
    IF room.game = None
    THEN AfterDeparture(BumpRevision(RemoveSessionAndSeat(room, x)), x)
    ELSE LET gone == BumpRevision([room EXCEPT
                !.sessions[x] = None,
                !.seats = [s \in Seats |->
                    IF s \in HumanSeats(room) /\ room.seats[s].session = x
                    THEN [room.seats[s] EXCEPT !.status = "DISCONNECTED"]
                    ELSE room.seats[s]]])
         IN IF \A s \in HumanSeats(gone) : gone.seats[s].session \notin Live(gone)
            THEN CloseRoom(gone)
            ELSE Persist(SynchronizeGamePresence(
                            ScheduleGameCleanup(TransferExpiredHost(gone))))

RearmSession(x, deadline) ==
    room' = [room EXCEPT !.sessions[x].task = deadline] /\ UNCHANGED io

ExpireWhateverDeadline(x, deadline) ==   \* mutant: a stale expiry is not recognised
    IF room = None \/ x \notin Live(room) \/ deadline > now THEN UNCHANGED <<room, io>>
    ELSE EndSession(x)
ExpireDisconnectedSession(x, deadline) ==
    IF room = None \/ x \notin Live(room) \/ room.sessions[x].deadline # deadline
    THEN UNCHANGED <<room, io>>
    ELSE IF deadline > now THEN RearmSession(x, deadline) ELSE EndSession(x)

-----------------------------------------------------------------------------
(* Operations of attached clients, run at the head of the Room queue.      *)

Idle == process = "up" /\ io = "none"
ClientTurn == Idle /\ now < Horizon
Member(x) == room # None /\ x \in Live(room)
SeatOf(x) == room.sessions[x].seat
OwnsSeat(x) == LET seat == room.seats[SeatOf(x)]
               IN seat.occupancy = "HUMAN" /\ seat.session = x
\* A request that carries the revision it was made against.
MayChange == room.revision < MaxRevision

Unmoved == UNCHANGED <<process, disk, committed, queue, now, issued, failures, told>>

CreateRoom ==
    /\ ClientTurn /\ room = None /\ queue = {}
    /\ \E x \in Sessions \ issued :
        /\ issued' = issued \cup {x}
        /\ Persist(TouchRoom(
            [revision |-> 0, host |-> x,
             seats |-> [s \in Seats |-> IF s = 1 THEN HumanSeat(x) ELSE EmptySeat],
             sessions |-> [y \in Sessions |-> IF y = x THEN NewSession(1) ELSE None],
             idleDeadline |-> 0, idleTask |-> None,
             abandonedDeadline |-> None, abandonedTask |-> None, game |-> None]))
    /\ UNCHANGED <<process, disk, committed, queue, now, failures, told>>

JoinRoom ==
    /\ ClientTurn /\ room # None /\ MayChange
    /\ room.game = None
    /\ LET free == {s \in Seats : room.seats[s].occupancy = "EMPTY"} IN
        /\ free # {}
        /\ \E x \in Sessions \ issued :
            /\ issued' = issued \cup {x}
            /\ Persist(TouchRoom(BumpRevision([room EXCEPT
                    !.seats[First(free)] = HumanSeat(x),
                    !.sessions[x] = NewSession(First(free))])))
    /\ UNCHANGED <<process, disk, committed, queue, now, failures, told>>

ResumeSession(x) ==
    /\ ClientTurn /\ Member(x) /\ MayChange /\ OwnsSeat(x)
    /\ LET session == room.sessions[x]
           seat == room.seats[session.seat]
           kept == [room EXCEPT !.sessions[x].task = None, !.sessions[x].deadline = None]
           back == IF seat.status = "CONNECTED" THEN kept
                   ELSE BumpRevision([kept EXCEPT
                            !.seats[session.seat].status = "CONNECTED",
                            !.seats[session.seat].deadline = None])
       IN IF session.deadline # None /\ now >= session.deadline
          THEN ExpireDisconnectedSession(x, session.deadline)
          ELSE Persist(TouchRoom(SynchronizeGamePresence(TransferExpiredHost(back))))
    /\ Unmoved

SetReady(x, ready) ==
    /\ ClientTurn /\ Member(x) /\ MayChange
    /\ room.game = None
    /\ OwnsSeat(x) /\ room.seats[SeatOf(x)].status = "CONNECTED"
    /\ LET touched == TouchRoom(room) IN
        Persist(IF room.seats[SeatOf(x)].ready = ready THEN touched
                ELSE BumpRevision([touched EXCEPT !.seats[SeatOf(x)].ready = ready]))
    /\ Unmoved

SetAiSeat(x, s, seat) ==
    /\ ClientTurn /\ Member(x) /\ MayChange
    /\ room.game = None /\ room.host = x
    /\ room.seats[s].occupancy # "HUMAN"
    /\ LET touched == TouchRoom(room) IN
        Persist(IF room.seats[s] = seat THEN touched
                ELSE BumpRevision([touched EXCEPT !.seats[s] = seat]))
    /\ Unmoved

LeaveRoomSameRevision(x) ==   \* mutant
    /\ ClientTurn /\ Member(x) /\ MayChange
    /\ room.game = None
    /\ AfterDeparture(RemoveSessionAndSeat(room, x), x)
    /\ Unmoved
LeaveRoom(x) ==
    /\ ClientTurn /\ Member(x) /\ MayChange
    /\ room.game = None
    /\ AfterDeparture(BumpRevision(RemoveSessionAndSeat(room, x)), x)
    /\ Unmoved

RequestSnapshot(x) ==
    /\ ClientTurn /\ Member(x)
    /\ Persist(TouchRoom(room))
    /\ Unmoved

StartReady(r) ==
    /\ \A s \in Seats : r.seats[s].occupancy # "EMPTY"
    /\ Cardinality(HumanSeats(r)) >= 2
    /\ \A s \in HumanSeats(r) : r.seats[s].status = "CONNECTED" /\ r.seats[s].ready

RequestStart(x) ==
    /\ ClientTurn /\ Member(x) /\ MayChange
    /\ room.host = x /\ room.game = None
    /\ StartReady(room)
    /\ \A s \in HumanSeats(room) :
        room.seats[s].session \in Live(room) /\ room.sessions[room.seats[s].session].seat = s
    /\ Persist(BumpRevision([room EXCEPT
            !.idleTask = None,
            !.game = [original |-> [s \in Seats |-> room.seats[s].session],
                      replaced |-> {}, presence |-> [s \in Seats |-> None],
                      abandoned |-> None, winner |-> FALSE, failed |-> FALSE]]))
    /\ Unmoved

\* The Host, connected, while a Human's grace has run out.
ReplacementAuthority(x) ==
    /\ Member(x) /\ room.host = x
    /\ \E s \in ConnectedSeats(room) : room.seats[s].session = x
    /\ room.game # None
    /\ LifecycleStatus(room.game) = "PAUSED_REPLACEMENT_REQUIRED"

ReplaceWithoutPresence(x, s) ==   \* mutant
    /\ ClientTurn /\ ReplacementAuthority(x) /\ MayChange
    /\ s \in ExpiredSeats(room)
    /\ Persist(BumpRevision([room EXCEPT
            !.game.replaced = @ \cup {s}, !.seats[s] = AiSeat]))
    /\ Unmoved
ReplaceExpiredHuman(x, s) ==
    /\ ClientTurn /\ ReplacementAuthority(x) /\ MayChange
    /\ s \in ExpiredSeats(room)
    /\ room.game.presence[s] # None /\ room.game.presence[s].replacementRequired
    /\ Persist(SynchronizeGamePresence(BumpRevision([room EXCEPT
            !.game.replaced = @ \cup {s}, !.seats[s] = AiSeat])))
    /\ Unmoved

CloseActiveGame(x) ==
    /\ ClientTurn /\ ReplacementAuthority(x)
    /\ CloseRoom(room)
    /\ Unmoved

\* The game's own commits: the winning command, or an AI seat that cannot move.
FinishGame ==
    /\ ClientTurn /\ room # None /\ room.game # None
    /\ LifecycleStatus(room.game) = "ACTIVE"
    /\ Persist([room EXCEPT !.game.winner = TRUE])
    /\ queue' = queue \cup {[kind |-> "finished", session |-> None, deadline |-> None]}
    /\ UNCHANGED <<process, disk, committed, now, issued, failures, told>>

FailGame ==
    /\ ClientTurn /\ room # None /\ room.game # None
    /\ LifecycleStatus(room.game) = "ACTIVE"
    /\ Persist([room EXCEPT !.game.failed = TRUE])
    /\ Unmoved

ClientStep ==
    \/ CreateRoom \/ JoinRoom \/ FinishGame \/ FailGame
    \/ \E x \in Sessions :
        \/ ResumeSession(x) \/ LeaveRoom(x) \/ RequestSnapshot(x)
        \/ RequestStart(x) \/ CloseActiveGame(x)
        \/ \E ready \in BOOLEAN : SetReady(x, ready)
        \/ \E s \in Seats : ReplaceExpiredHuman(x, s)
        \/ \E s \in Seats, seat \in {EmptySeat, AiSeat} : SetAiSeat(x, s, seat)

-----------------------------------------------------------------------------
(* Lost transports, timers, and the operations they put in the Room queue. *)

Op(kind, x, deadline) == [kind |-> kind, session |-> x, deadline |-> deadline]
Enqueue(op) ==
    /\ queue' = queue \cup {op}
    /\ UNCHANGED <<process, io, disk, committed, now, issued, failures, told>>

\* markDisconnected captures its deadline before it waits for the queue.
LoseTransport(x) ==
    /\ process = "up" /\ now < Horizon /\ Member(x)
    /\ LET waiting == {op \in queue : op.kind = "disconnect"} IN
        Cardinality(waiting) < MaxQueued /\ \A op \in waiting : op.session # x
    /\ Enqueue(Op("disconnect", x, now + ReconnectGrace))
    /\ UNCHANGED room

Due(task) == task # None /\ task <= now + TimerSlack

\* A session's timer holds the deadline it was armed for; a disconnection
\* processed late arms it for the next instant.
FireSessionTimer(x) ==
    /\ process = "up" /\ Member(x) /\ Due(room.sessions[x].task)
    /\ Enqueue(Op("session", x, room.sessions[x].deadline))
    /\ room' = [room EXCEPT !.sessions[x].task = None]

FireIdleTimer ==
    /\ process = "up" /\ room # None /\ Due(room.idleTask)
    /\ Enqueue(Op("idle", None, room.idleTask))
    /\ room' = [room EXCEPT !.idleTask = None]

FireAbandonedTimer ==
    /\ process = "up" /\ room # None /\ Due(room.abandonedTask)
    /\ Enqueue(Op("abandoned", None, room.abandonedTask))
    /\ room' = [room EXCEPT !.abandonedTask = None]

FireTimer == FireIdleTimer \/ FireAbandonedTimer \/ \E x \in Sessions : FireSessionTimer(x)

Dequeue(op) ==
    /\ Idle /\ op \in queue
    /\ queue' = queue \ {op}
    /\ UNCHANGED <<process, disk, committed, now, issued, failures, told>>

MarkDisconnected(op) ==
    /\ op.kind = "disconnect" /\ Dequeue(op)
    /\ LET x == op.session IN
        IF ~Member(x) \/ ~OwnsSeat(x) THEN UNCHANGED <<room, io>>
        ELSE LET s == SeatOf(x) IN
            IF room.seats[s].status = "RECONNECTING" THEN Persist(room)
            ELSE Persist(SynchronizeGamePresence(BumpRevision([room EXCEPT
                    !.seats[s].status = "RECONNECTING",
                    !.seats[s].deadline = op.deadline,
                    !.sessions[x].deadline = op.deadline,
                    !.sessions[x].task =
                        IF op.deadline > now THEN op.deadline ELSE now + 1])))

ExpireSession(op) ==
    /\ op.kind = "session" /\ Dequeue(op)
    /\ ExpireDisconnectedSession(op.session, op.deadline)

ExpireIdleRoom(op) ==
    /\ op.kind = "idle" /\ Dequeue(op)
    /\ IF room = None \/ room.game # None \/ room.idleDeadline # op.deadline
       THEN UNCHANGED <<room, io>>
       ELSE IF op.deadline > now
       THEN room' = [room EXCEPT !.idleTask = op.deadline] /\ UNCHANGED io
       ELSE CloseRoom(room)

EarlyAbandonedTimerLost(op) ==   \* mutant: an early timer is not armed again
    /\ op.kind = "abandoned" /\ Dequeue(op)
    /\ IF room = None \/ room.game = None \/ room.abandonedDeadline # op.deadline
          \/ op.deadline > now
       THEN UNCHANGED <<room, io>> ELSE CloseRoom(room)
ExpireAbandonedGame(op) ==
    /\ op.kind = "abandoned" /\ Dequeue(op)
    /\ IF room = None \/ room.game = None \/ room.abandonedDeadline # op.deadline
       THEN UNCHANGED <<room, io>>
       ELSE IF op.deadline > now
       THEN room' = [room EXCEPT !.abandonedTask = op.deadline] /\ UNCHANGED io
       ELSE CloseRoom(room)

PublishFinished(op) ==
    /\ op.kind = "finished" /\ Dequeue(op)
    /\ IF room = None THEN UNCHANGED <<room, io>> ELSE Persist(BumpRevision(room))

RunLifecycle ==
    \E op \in queue :
        \/ MarkDisconnected(op) \/ ExpireSession(op) \/ ExpireIdleRoom(op)
        \/ ExpireAbandonedGame(op) \/ PublishFinished(op)

-----------------------------------------------------------------------------
(* Storage, halts and recovery.                                            *)

\* What has been acknowledged or broadcast once this record is committed.
Tell(members, revision) ==
    told' = [revision |-> revision, members |-> members,
             ended |-> told.ended \cup (told.members \ members)]

UpdateMissesItsRow ==   \* mutant: an update that changed no row is taken for a success
    /\ process # "down" /\ io = "save"
    /\ disk' = (IF disk = None THEN Record(room) ELSE disk)
    /\ committed' = Record(room) /\ io' = "none"
    /\ Tell(Live(committed'), room.revision)
    /\ UNCHANGED <<process, room, queue, now, issued, failures>>
SaveOK ==
    /\ process # "down" /\ io = "save"
    /\ RecordValid(Record(room))
    /\ disk' = Record(room) /\ committed' = Record(room) /\ io' = "none"
    /\ Tell(Live(disk'), room.revision)
    /\ UNCHANGED <<process, room, queue, now, issued, failures>>

RemoveOK ==
    /\ process # "down" /\ io = "remove"
    /\ disk' = None /\ committed' = None /\ room' = None /\ io' = "none"
    /\ Tell({}, 0)
    /\ UNCHANGED <<process, queue, now, issued, failures>>

\* The process dies, or a storage call fails or loses its answer and the
\* service disposes itself.  The call in flight may or may not have landed.
Halt ==
    /\ process # "down" /\ failures < MaxFailures
    /\ failures' = failures + 1
    /\ \/ UNCHANGED disk
       \/ io = "save" /\ RecordValid(Record(room)) /\ disk' = Record(room)
       \/ io = "remove" /\ disk' = None
    /\ process' = "down" /\ room' = None /\ io' = "none"
    /\ committed' = None /\ queue' = {}
    /\ UNCHANGED <<now, issued, told>>

DroppedAtStart(rec) ==
    \/ rec.game = None /\ rec.idleDeadline <= now
    \/ rec.abandonedDeadline # None /\ rec.abandonedDeadline <= now

\* Every saved session must come back: within its saved deadline, or within
\* the restart grace when it was connected.
Restored(rec) ==
    LET deadline(x) == IF rec.sessions[x].deadline # None
                       THEN rec.sessions[x].deadline ELSE now + RestartGrace
    IN SynchronizeGamePresence(
        [revision |-> rec.revision, host |-> rec.host,
         seats |-> [s \in Seats |->
            IF s \in HumanSeats(rec) /\ rec.seats[s].session \in Live(rec)
            THEN [rec.seats[s] EXCEPT !.status = "RECONNECTING",
                                      !.deadline = deadline(rec.seats[s].session)]
            ELSE rec.seats[s]],
         sessions |-> [x \in Sessions |->
            IF x \in Live(rec)
            THEN [seat |-> rec.sessions[x].seat, deadline |-> deadline(x), task |-> deadline(x)]
            ELSE None],
         idleDeadline |-> rec.idleDeadline,
         idleTask |-> IF rec.game = None THEN rec.idleDeadline ELSE None,
         abandonedDeadline |-> rec.abandonedDeadline,
         abandonedTask |-> rec.abandonedDeadline,
         game |-> rec.game])

\* Sessions whose grace ended while the process was down.
Overdue(r) ==
    {x \in Live(r) : r.sessions[x].deadline # None /\ r.sessions[x].deadline <= now}

\* Rooms nobody can return to are removed.  A game whose presence changes is
\* saved at once; otherwise the save follows the expiries.
Recover ==
    /\ process = "down"
    /\ IF disk = None \/ DroppedAtStart(disk)
       THEN /\ process' = "up" /\ disk' = None
            /\ Tell({}, 0)
            /\ UNCHANGED <<room, io>>
       ELSE /\ process' = "recovering"
            /\ room' = Restored(disk)
            /\ io' = IF room'.game # disk.game \/ Overdue(room') = {} THEN "save" ELSE "none"
            /\ UNCHANGED <<disk, told>>
    /\ UNCHANGED <<committed, queue, now, issued, failures>>

\* Sessions already past their deadline end before clients are admitted.
RecoverExpire ==
    /\ process = "recovering" /\ io = "none" /\ room # None
    /\ \E x \in Overdue(room) :
        /\ \A y \in Overdue(room) : SeatOf(x) <= SeatOf(y)
        /\ ExpireDisconnectedSession(x, room.sessions[x].deadline)
    /\ Unmoved

RecoverReady ==
    /\ process = "recovering" /\ io = "none"
    /\ room # None => Overdue(room) = {}
    /\ process' = "up"
    /\ UNCHANGED <<room, io, disk, committed, queue, now, issued, failures, told>>

\* Beyond the horizon the clock runs only while a timer, or an expiry that an
\* early timer has queued, waits for it.
Waiting(task) == task # None /\ task > now
Tick ==
    /\ process # "recovering"
    /\ \/ now < Horizon
       \/ \E op \in queue : Waiting(op.deadline)
       \/ room # None /\ \/ Waiting(room.idleTask) \/ Waiting(room.abandonedTask)
                         \/ \E x \in Live(room) : Waiting(room.sessions[x].task)
    /\ now' = now + 1
    /\ UNCHANGED <<process, room, io, disk, committed, queue, issued, failures, told>>

-----------------------------------------------------------------------------

Init ==
    /\ process = "up" /\ room = None /\ io = "none"
    /\ disk = None /\ committed = None /\ queue = {}
    /\ now = 0 /\ issued = {} /\ failures = 0
    /\ told = [revision |-> 0, members |-> {}, ended |-> {}]

ServerStep == RunLifecycle \/ FireTimer \/ SaveOK \/ RemoveOK
              \/ Recover \/ RecoverExpire \/ RecoverReady

Next == ClientStep \/ ServerStep \/ Halt \/ Tick \/ \E x \in Sessions : LoseTransport(x)

\* The event loop keeps running timers and queued operations, storage keeps
\* answering, a stopped process is started again, and time passes.  Clients
\* promise nothing.  Weak fairness is written with ENABLED expanded where the
\* condition is short: a queued operation can run whenever the Room is idle, a
\* timer can fire whenever it is due, recovery whenever it awaits nothing.
CanRunLifecycle == Idle /\ queue # {}
CanFireTimer ==
    /\ process = "up" /\ room # None
    /\ \/ Due(room.idleTask) \/ Due(room.abandonedTask)
       \/ \E x \in Live(room) : Due(room.sessions[x].task)
CanRecover == process = "down" \/ (process = "recovering" /\ io = "none")

Fairness ==
    /\ []<>~CanRunLifecycle \/ []<><<RunLifecycle>>_vars
    /\ []<>~CanFireTimer \/ []<><<FireTimer>>_vars
    /\ WF_vars(SaveOK \/ RemoveOK)
    /\ []<>~CanRecover \/ []<><<Recover \/ RecoverExpire \/ RecoverReady>>_vars
    /\ WF_vars(Tick)

Spec == Init /\ [][Next]_vars /\ Fairness

-----------------------------------------------------------------------------
(* Properties.                                                             *)

Deadline == Nat \cup {None}
SeatType == [occupancy : {"EMPTY", "AI", "HUMAN"}, session : Sessions \cup {None},
             ready : BOOLEAN, status : {None, "CONNECTED", "RECONNECTING", "DISCONNECTED"},
             deadline : Deadline]
GameType == [original : [Seats -> Sessions \cup {None}], replaced : SUBSET Seats,
             presence : [Seats -> {None} \cup [deadline : Deadline, replacementRequired : BOOLEAN]],
             abandoned : Deadline, winner : BOOLEAN, failed : BOOLEAN]
RecordType == [revision : Nat, host : Sessions, seats : [Seats -> SeatType],
               idleDeadline : Nat, abandonedDeadline : Deadline, game : GameType \cup {None},
               sessions : [Sessions -> {None} \cup [seat : Seats, deadline : Deadline]]]
RoomType == [revision : Nat, host : Sessions, seats : [Seats -> SeatType],
             idleDeadline : Nat, idleTask : Deadline,
             abandonedDeadline : Deadline, abandonedTask : Deadline, game : GameType \cup {None},
             sessions : [Sessions ->
                {None} \cup [seat : Seats, deadline : Deadline, task : Deadline]]]
OpType == [kind : {"session", "disconnect", "idle", "abandoned", "finished"},
           session : Sessions \cup {None}, deadline : Deadline]

\* None is none of the records.
ASSUME NoneIsNothing ==
    /\ None \notin RoomType /\ None \notin RecordType /\ None \notin GameType
    /\ None \notin [seat : Seats, deadline : Deadline, task : Deadline]
    /\ None \notin [seat : Seats, deadline : Deadline]
    /\ None \notin [deadline : Deadline, replacementRequired : BOOLEAN]

\* Every variable has the shape the code gives it.
TypeOK ==
    /\ process \in {"up", "recovering", "down"} /\ io \in {"none", "save", "remove"}
    /\ room \in RoomType \cup {None}
    /\ disk \in RecordType \cup {None} /\ committed \in RecordType \cup {None}
    /\ queue \subseteq OpType
    /\ now \in Nat /\ issued \subseteq Sessions /\ failures \in Nat
    /\ told \in [revision : Nat, members : SUBSET Sessions, ended : SUBSET Sessions]

\* Whatever the order of joins, leaves, lost transports, resumes, expiries,
\* replacements, AI failures and restarts, the record an operation submits is
\* one the repository's schema accepts: #persist never disposes the service
\* because the Room contradicts itself.
SavesAreValid == io = "save" => RecordValid(Record(room))

\* Between operations memory, the durable record and the committed snapshot
\* agree: no handler leaves a change of the Room unpersisted.
CommittedIsDurable ==
    process = "up" /\ io = "none" =>
        /\ committed = disk
        /\ IF room = None THEN disk = None ELSE Record(room) = disk

Pending(kind, x, deadline) == Op(kind, x, deadline) \in queue

\* No zombie Room: every deadline the Room keeps has a timer armed for it or
\* an expiry of it in the queue, however often resumes, touches and early
\* timers have cancelled and rearmed them.
TimersCover ==
    process = "up" /\ room # None /\ io # "remove" =>
        /\ \A x \in Live(room) :
            LET session == room.sessions[x] IN
            session.deadline # None =>
                session.task # None \/ Pending("session", x, session.deadline)
        /\ room.game = None =>
            room.idleTask = room.idleDeadline \/ Pending("idle", None, room.idleDeadline)
        /\ room.abandonedDeadline # None =>
            \/ room.abandonedTask = room.abandonedDeadline
            \/ Pending("abandoned", None, room.abandonedDeadline)

\* The abandoned-game countdown runs exactly while a game is over or a Human's
\* grace has run out: resumes, replacements and restarts neither leave it
\* running under a game that went on, nor stop it under one that cannot.
CountdownMatches ==
    room # None /\ io # "remove" =>
        ((room.abandonedDeadline # None) <=>
            (room.game # None /\ (Finished(room) \/ ExpiredSeats(room) # {})))

\* The Room holds together, through every halt and recovery: what an operation
\* submits is valid, what was committed is durable, and the countdown of an
\* abandoned game stands for what happened to its players.
RoomHoldsTogether == TypeOK /\ SavesAreValid /\ CommittedIsDurable /\ CountdownMatches

\* Only the Host can replace an expired player or close the game, so while any
\* player of a game is connected the Host's own session has not expired.
HostCanDecide ==
    room # None /\ io # "remove" /\ ConnectedSeats(room) # {} => room.host \in Live(room)

\* A session whose end was published, by leaving, expiry, replacement or the
\* closing of its Room, never has a seat again, across restarts included.
EndedStaysEnded == room # None => Live(room) \cap told.ended = {}

\* The grace a member is given is honoured: outside the closing of the Room
\* and its own leaving, a session ends only once its current deadline is past,
\* so an expiry queued for an earlier disconnection never takes it.
GraceHonoured ==
    [][room # None /\ room' # None /\ io' # "remove" =>
        \A x \in Live(room) \ Live(room') :
            \/ LeaveRoom(x)
            \/ room.sessions[x].deadline # None /\ room.sessions[x].deadline <= now]_vars

\* What the lobby shows of a Room.
Public(rec) == [host |-> rec.host, seats |-> rec.seats, started |-> rec.game # None]

\* Requests name the revision they were decided on: while the service runs, two
\* committed snapshots that show different seats, Host or start never share one.
RevisionIdentifies ==
    [][committed # None /\ committed' # None /\ Public(committed) # Public(committed')
        => committed'.revision > committed.revision]_vars

\* No client sees its Room go back to an earlier revision, across restarts.
PublishedNeverRegresses ==
    [][told'.members # {} /\ told.members # {} => told'.revision >= told.revision]_vars

\* A Room does not outlive its players: once clients have fallen silent it is
\* closed, unless a game goes on with every one of its Humans connected.
RoomEndsWithoutPlayers ==
    <>[](\/ room = None
         \/ room.game # None /\ ~Finished(room) /\ ConnectedSeats(room) = HumanSeats(room))
=============================================================================
