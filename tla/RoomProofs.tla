----------------------------- MODULE RoomProofs -----------------------------
(***************************************************************************)
(* What TLAPS proves of RoomLifecycle, for every number of seats, every    *)
(* set of sessions and every delay: the inductive invariant of a Room and  *)
(* its durable record, and the safety properties that follow from it.      *)
(*                                                                         *)
(* The properties are not inductive by themselves. A save is valid because *)
(* seats and sessions own each other and the game still has the Humans it  *)
(* was started with; the countdown stops in time because the game carries  *)
(* the presence of the seats; a deadline keeps its timer because whatever  *)
(* cancels one arms another or ends the session; and a restart finds all   *)
(* this in the record because the record was sound when it was written.    *)
(*                                                                         *)
(* Helpers of the service are met first, as functions from a fit Room to a *)
(* fit Room; then operations, each to its outcome (saved, closing, or only *)
(* rearmed); then the steps, each with what it owes to the invariant.      *)
(***************************************************************************)
EXTENDS RoomLifecycle, FiniteSetTheorems, WellFoundedInduction, TLAPS
-----------------------------------------------------------------------------
(* The inductive invariant.  Its parts about a Room speak of what a Room    *)
(* and a durable record share.                                              *)

\* Seats and sessions own each other.
Owned(r) ==
    /\ \A s \in Seats : r.seats[s].occupancy # "HUMAN" => r.seats[s].session = None
    /\ \A s \in HumanSeats(r) : r.seats[s].session \in Sessions
    /\ \A s, t \in HumanSeats(r) : r.seats[s].session = r.seats[t].session => s = t
    /\ \A x \in Live(r) : /\ r.sessions[x].seat \in HumanSeats(r)
                          /\ r.seats[r.sessions[x].seat].session = x
                          /\ r.seats[r.sessions[x].seat].deadline = r.sessions[x].deadline

\* A seat is connected, within its grace, or its session has ended.
Connection(r) ==
    \A s \in HumanSeats(r) :
        /\ r.seats[s].status \in {"CONNECTED", "RECONNECTING", "DISCONNECTED"}
        /\ r.seats[s].status = "CONNECTED" <=> r.seats[s].deadline = None
        /\ r.seats[s].status = "DISCONNECTED" <=> r.seats[s].session \notin Live(r)

\* The Host owns a seat, and its session lives while anybody is connected.
HostSeated(r) == \E s \in HumanSeats(r) : r.seats[s].session = r.host
HostLive(r) == ConnectedSeats(r) # {} => r.host \in Live(r)

\* Somebody can come back; before the game nobody who cannot keeps a seat.
Inhabited(r) == Live(r) # {} /\ (r.game = None => ExpiredSeats(r) = {})

\* The game was started by the Humans of the seats, some replaced since.
Seated(r) ==
    r.game # None =>
        /\ \A s \in Seats : r.seats[s].occupancy # "EMPTY"
        /\ Cardinality({s \in Seats : r.game.original[s] # None}) >= 2
        /\ \A s \in Seats :
            IF r.game.original[s] = None
            THEN r.seats[s].occupancy = "AI" /\ s \notin r.game.replaced
            ELSE IF s \in r.game.replaced
                 THEN r.seats[s].occupancy = "AI"
                 ELSE s \in HumanSeats(r) /\ r.seats[s].session = r.game.original[s]

\* The game has its Room's presence and countdown.
Synced(r) == r.game # None => r.game.presence = PresenceOf(r) /\ r.game.abandoned = r.abandonedDeadline

\* The countdown runs for a reason; a game that has just been won gets one when
\* it is saved.
Reason(r) == r.game # None /\ (Finished(r) \/ ExpiredSeats(r) # {})
Counting(r) == r.abandonedDeadline # None <=> Reason(r)
Countable(r) == /\ r.abandonedDeadline # None => Reason(r)
                /\ Reason(r) => r.abandonedDeadline # None \/ Finished(r)

Populated(r) == Owned(r) /\ Connection(r) /\ HostSeated(r) /\ Inhabited(r) /\ Seated(r)
Sound(r) == Populated(r) /\ HostLive(r) /\ Synced(r) /\ Counting(r)

\* What a change may leave behind for the synchronisation that follows it.
Reckoned(r) == /\ r.game = None => r.abandonedDeadline = None
               /\ Reason(r) => r.abandonedDeadline # None \/ Finished(r)

\* A session's timer has a deadline; every deadline has a timer or an expiry.
Tasks(r) == \A x \in Live(r) : r.sessions[x].task # None => r.sessions[x].deadline # None
Covered(r, q) ==
    /\ \A x \in Live(r) :
        r.sessions[x].deadline # None =>
            r.sessions[x].task # None \/ Op("session", x, r.sessions[x].deadline) \in q
    /\ r.game = None => r.idleTask = r.idleDeadline \/ Op("idle", None, r.idleDeadline) \in q
    /\ r.abandonedDeadline # None =>
        r.abandonedTask = r.abandonedDeadline \/ Op("abandoned", None, r.abandonedDeadline) \in q

Fit(r, q) == r \in RoomType /\ Populated(r) /\ Tasks(r) /\ Covered(r, q)

RoomSound ==
    /\ room # None => Tasks(room)
    /\ room # None /\ io # "remove" => Sound(room) /\ Covered(room, queue)
DiskSound == disk # None => Sound(disk)
QueueSound ==
    \A op \in queue : /\ op.kind \in {"session", "disconnect"} => op.session \in Sessions
                      /\ op.kind # "finished" => op.deadline \in Nat

\* What the process, its storage call, memory and storage know of each other.
Durable ==
    /\ io # "none" => room # None
    /\ process = "down" => room = None /\ io = "none" /\ committed = None
    /\ process # "up" => queue = {}
    /\ process # "down" /\ io = "none" =>
        \/ committed = disk /\ (IF room = None THEN disk = None ELSE Record(room) = disk)
        \/ process = "recovering" /\ committed = None /\ room # None /\ Overdue(room) # {}

\* The past: identifiers are issued once, and nothing told is taken back.
Past ==
    /\ told.members \subseteq issued /\ told.ended \subseteq issued
    /\ room # None => Live(room) \subseteq issued /\ Live(room) \cap told.ended = {}
    /\ disk # None => Live(disk) \subseteq issued /\ Live(disk) \cap told.ended = {}
    /\ process # "down" /\ room = None => told.members = {}
    /\ told.members # {} => /\ room # None => room.revision >= told.revision
                            /\ disk # None => disk.revision >= told.revision
    /\ committed # None /\ room # None =>
        /\ room.revision >= committed.revision
        /\ Public(room) # Public(committed) => room.revision > committed.revision

RoomInvariant == TypeOK /\ RoomSound /\ DiskSound /\ QueueSound /\ Durable /\ Past


-----------------------------------------------------------------------------
(* What the helpers of the service do to a Room.                           *)

\* The first of some seats is one of them.
LEMMA FirstIsMember ==
  ASSUME NEW S, S \subseteq Seats, S # {}
  PROVE  First(S) \in S
<1>1. S \subseteq Nat
  BY RoomConstants DEF Seats
<1>2. PICK x \in S : \A y \in S : ~(<<y, x>> \in OpToRel(<, Nat))
  BY <1>1, NatLessThanWellFounded, WFMin
<1>3. ASSUME NEW y \in S, y < x
      PROVE  FALSE
  <2>1. y \in Nat /\ x \in Nat
    BY <1>1
  <2>2. <<y, x>> \in Nat \X Nat /\ <<y, x>>[1] = y /\ <<y, x>>[2] = x
    BY <2>1
  <2>3. <<y, x>> \in OpToRel(<, Nat)
    BY <1>3, <2>2, ZenonT(30) DEF OpToRel
  <2>4. QED
    BY <1>2, <2>3, Zenon
<1>4. \A y \in S : x <= y
  BY <1>1, <1>3
<1>5. QED
  BY <1>4 DEF First

SessionType == [seat : Seats, deadline : Deadline, task : Deadline]

\* The members of the Room's type, one by one.
LEMMA RoomFields ==
  ASSUME NEW r \in RoomType
  PROVE  /\ r.revision \in Nat /\ r.host \in Sessions /\ r.seats \in [Seats -> SeatType]
         /\ r.idleDeadline \in Nat /\ r.idleTask \in Deadline
         /\ r.abandonedDeadline \in Deadline /\ r.abandonedTask \in Deadline
         /\ r.game \in GameType \cup {None} /\ r.sessions \in [Sessions -> {None} \cup SessionType]
BY DEF RoomType, SessionType

\* What the fields of a seat can be.
LEMMA SeatFields ==
  ASSUME NEW seat \in SeatType
  PROVE  /\ seat.occupancy \in {"EMPTY", "AI", "HUMAN"} /\ seat.session \in Sessions \cup {None}
         /\ seat.ready \in BOOLEAN /\ seat.deadline \in Deadline
         /\ seat.status \in {None, "CONNECTED", "RECONNECTING", "DISCONNECTED"}
BY DEF SeatType

\* What the fields of a live session can be.
LEMMA SessionFields ==
  ASSUME NEW r \in RoomType, NEW x \in Live(r)
  PROVE  /\ x \in Sessions /\ r.sessions[x] \in SessionType /\ r.sessions[x] # None
         /\ r.sessions[x].seat \in Seats /\ r.sessions[x].deadline \in Deadline /\ r.sessions[x].task \in Deadline
BY DEF RoomType, SessionType, Live

\* A touched Room has a new idle deadline, and the timer for it.
LEMMA TouchFacts ==
  ASSUME NEW r \in RoomType, now \in Nat
  PROVE  LET t == TouchRoom(r)
         IN /\ t \in RoomType
            /\ t.revision = r.revision /\ t.host = r.host /\ t.seats = r.seats /\ t.sessions = r.sessions
            /\ t.abandonedDeadline = r.abandonedDeadline /\ t.abandonedTask = r.abandonedTask /\ t.game = r.game
            /\ r.game = None => t.idleTask = t.idleDeadline
<1>1. now + IdleTtl \in Nat /\ now + IdleTtl \in Deadline /\ None \in Deadline
  BY RoomConstants DEF Deadline
<1>2. CASE r.game = None
  <2>1. TouchRoom(r) = [r EXCEPT !.idleDeadline = now + IdleTtl, !.idleTask = now + IdleTtl]
    BY <1>2 DEF TouchRoom
  <2>2. QED
    BY <1>1, <1>2, <2>1 DEF RoomType
<1>3. CASE r.game # None
  <2>1. TouchRoom(r) = [r EXCEPT !.idleTask = None]
    BY <1>3 DEF TouchRoom
  <2>2. QED
    BY <1>1, <1>3, <2>1 DEF RoomType
<1>4. QED
  BY <1>2, <1>3

\* A new revision changes nothing else.
LEMMA BumpFacts ==
  ASSUME NEW r \in RoomType
  PROVE  LET t == BumpRevision(r)
         IN /\ t \in RoomType
            /\ t.revision = r.revision + 1 /\ t.host = r.host /\ t.seats = r.seats /\ t.sessions = r.sessions
            /\ t.idleDeadline = r.idleDeadline /\ t.idleTask = r.idleTask
            /\ t.abandonedDeadline = r.abandonedDeadline /\ t.abandonedTask = r.abandonedTask /\ t.game = r.game
BY DEF BumpRevision, RoomType

\* The countdown runs, if it did not before, with its timer.
LEMMA CleanupFacts ==
  ASSUME NEW r \in RoomType, now \in Nat
  PROVE  LET t == ScheduleGameCleanup(r)
         IN /\ t \in RoomType
            /\ t.revision = r.revision /\ t.host = r.host /\ t.seats = r.seats /\ t.sessions = r.sessions
            /\ t.idleDeadline = r.idleDeadline /\ t.idleTask = r.idleTask /\ t.game = r.game
            /\ t.abandonedDeadline # None
            /\ IF r.abandonedDeadline # None
               THEN t.abandonedDeadline = r.abandonedDeadline /\ t.abandonedTask = r.abandonedTask
               ELSE t.abandonedTask = t.abandonedDeadline
<1>1. now + AbandonedTtl \in Nat /\ now + AbandonedTtl \in Deadline /\ now + AbandonedTtl # None
  BY RoomConstants DEF Deadline
<1>2. CASE r.abandonedDeadline = None
  <2>1. /\ ScheduleGameCleanup(r) = [r EXCEPT !.abandonedDeadline = now + AbandonedTtl,
                                              !.abandonedTask = now + AbandonedTtl]
    BY <1>2 DEF ScheduleGameCleanup
  <2>2. QED
    BY <1>1, <1>2, <2>1 DEF RoomType
<1>3. CASE r.abandonedDeadline # None
  BY <1>3 DEF ScheduleGameCleanup
<1>4. QED
  BY <1>2, <1>3

\* The presence of a Room is one a game can hold.
LEMMA PresenceTyped ==
  ASSUME NEW r \in RoomType
  PROVE  PresenceOf(r) \in [Seats -> {None} \cup [deadline : Deadline, replacementRequired : BOOLEAN]]
<1>1. \A s \in Seats : r.seats[s].deadline \in Deadline
  BY DEF RoomType, SeatType
<1>2. QED
  BY <1>1 DEF PresenceOf

\* Synchronising takes the presence from the seats and stops a countdown without a reason.
LEMMA SyncFacts ==
  ASSUME NEW r \in RoomType, r.game # None
  PROVE  LET t == SynchronizeGamePresence(r)
         IN /\ t \in RoomType
            /\ t.revision = r.revision /\ t.host = r.host /\ t.seats = r.seats /\ t.sessions = r.sessions
            /\ t.idleDeadline = r.idleDeadline /\ t.idleTask = r.idleTask
            /\ t.game # None /\ t.game.original = r.game.original /\ t.game.replaced = r.game.replaced
            /\ t.game.winner = r.game.winner /\ t.game.failed = r.game.failed
            /\ t.game.presence = PresenceOf(r) /\ t.game.abandoned = t.abandonedDeadline
            /\ IF ExpiredSeats(r) # {} \/ Finished(r)
               THEN t.abandonedDeadline = r.abandonedDeadline /\ t.abandonedTask = r.abandonedTask
               ELSE t.abandonedDeadline = None /\ t.abandonedTask = None
<1> DEFINE keep == ExpiredSeats(r) # {} \/ Finished(r)
           deadline == IF keep THEN r.abandonedDeadline ELSE None
           g == [r.game EXCEPT !.presence = PresenceOf(r), !.abandoned = deadline]
           task == IF keep THEN r.abandonedTask ELSE None
<1>1. SynchronizeGamePresence(r) = [r EXCEPT !.abandonedDeadline = deadline, !.abandonedTask = task, !.game = g]
  BY DEF SynchronizeGamePresence, RoomType
<1>2. r.game \in GameType /\ deadline \in Deadline /\ task \in Deadline
  BY RoomFields DEF Deadline
<1>3. /\ g \in GameType /\ g.original = r.game.original /\ g.replaced = r.game.replaced
      /\ g.winner = r.game.winner /\ g.failed = r.game.failed
      /\ g.presence = PresenceOf(r) /\ g.abandoned = deadline
  <2>1. PICK p \in [Seats -> {None} \cup [deadline : Deadline, replacementRequired : BOOLEAN]] : p = PresenceOf(r)
    BY PresenceTyped
  <2> HIDE DEF deadline
  <2>2. QED
    BY <1>2, <2>1 DEF GameType
<1>4. g # None
  BY <1>3, NoneIsNothing
<1> HIDE DEF g
<1>5. /\ [r EXCEPT !.abandonedDeadline = deadline, !.abandonedTask = task, !.game = g] \in RoomType
  BY <1>2, <1>3 DEF RoomType
<1>6. QED
  BY <1>1, <1>2, <1>3, <1>4, <1>5 DEF RoomType

-----------------------------------------------------------------------------
(* What keeps a Room sound.                                                 *)

\* Who sits where is a matter of seats, sessions, Host and the game's seats.
LEMMA PopulatedSame ==
  ASSUME NEW r, NEW t, Populated(r),
         t.seats = r.seats, t.sessions = r.sessions, t.host = r.host, (t.game = None) <=> (r.game = None),
         r.game # None => t.game.original = r.game.original /\ t.game.replaced = r.game.replaced
  PROVE  Populated(t) /\ (HostLive(r) => HostLive(t))
<1>1. /\ HumanSeats(t) = HumanSeats(r) /\ ConnectedSeats(t) = ConnectedSeats(r)
      /\ ExpiredSeats(t) = ExpiredSeats(r) /\ Live(t) = Live(r)
  BY DEF HumanSeats, ConnectedSeats, ExpiredSeats, Live
<1>2. Owned(t) /\ Connection(t) /\ HostSeated(t) /\ (HostLive(r) => HostLive(t))
  BY <1>1 DEF Populated, Owned, Connection, HostSeated, HostLive
<1>3. Inhabited(t) /\ Seated(t)
  BY <1>1 DEF Populated, Inhabited, Seated
<1>4. QED
  BY <1>2, <1>3 DEF Populated

\* The other operators of a Room, likewise.
LEMMA SeatsSame ==
  ASSUME NEW r, NEW t, t.seats = r.seats
  PROVE  /\ HumanSeats(t) = HumanSeats(r) /\ ConnectedSeats(t) = ConnectedSeats(r)
         /\ ExpiredSeats(t) = ExpiredSeats(r) /\ PresenceOf(t) = PresenceOf(r)
<1>1. HumanSeats(t) = HumanSeats(r) /\ ConnectedSeats(t) = ConnectedSeats(r) /\ ExpiredSeats(t) = ExpiredSeats(r)
  BY DEF HumanSeats, ConnectedSeats, ExpiredSeats
<1>2. QED
  BY <1>1 DEF PresenceOf

\* The same sessions have the same timers.
LEMMA TasksSame ==
  ASSUME NEW r, NEW t, t.sessions = r.sessions
  PROVE  Live(t) = Live(r) /\ (Tasks(r) => Tasks(t))
BY DEF Live, Tasks

\* A touch keeps the Room fit.
LEMMA TouchFit ==
  ASSUME NEW r, NEW q, Fit(r, q), now \in Nat
  PROVE  LET t == TouchRoom(r)
         IN /\ Fit(t, q) /\ (HostLive(r) => HostLive(t))
            /\ Synced(r) => Synced(t)
            /\ Countable(r) => Countable(t)
<1> DEFINE t == TouchRoom(r)
<1>1. /\ t \in RoomType
      /\ t.revision = r.revision /\ t.host = r.host /\ t.seats = r.seats /\ t.sessions = r.sessions
      /\ t.abandonedDeadline = r.abandonedDeadline /\ t.abandonedTask = r.abandonedTask /\ t.game = r.game
      /\ r.game = None => t.idleTask = t.idleDeadline
  BY TouchFacts DEF Fit
<1> HIDE DEF t
<1>2. Populated(t) /\ (HostLive(r) => HostLive(t)) /\ Tasks(t) /\ Live(t) = Live(r)
  BY <1>1, PopulatedSame, TasksSame DEF Fit
<1>3. Covered(t, q)
  BY <1>1, <1>2 DEF Fit, Covered
<1>4. PresenceOf(t) = PresenceOf(r) /\ ExpiredSeats(t) = ExpiredSeats(r)
  BY <1>1, SeatsSame
<1>5. (Synced(r) => Synced(t)) /\ (Countable(r) => Countable(t))
  BY <1>1, <1>4 DEF Synced, Countable, Reason, Finished
<1>6. QED
  BY <1>1, <1>2, <1>3, <1>5 DEF Fit, t

\* A new revision keeps the Room fit.
LEMMA BumpFit ==
  ASSUME NEW r, NEW q, Fit(r, q)
  PROVE  LET t == BumpRevision(r)
         IN /\ Fit(t, q) /\ (HostLive(r) => HostLive(t))
            /\ Synced(r) => Synced(t)
            /\ Countable(r) => Countable(t)
            /\ Reckoned(r) => Reckoned(t)
<1> DEFINE t == BumpRevision(r)
<1>1. /\ t \in RoomType
      /\ t.revision = r.revision + 1 /\ t.host = r.host /\ t.seats = r.seats /\ t.sessions = r.sessions
      /\ t.idleDeadline = r.idleDeadline /\ t.idleTask = r.idleTask
      /\ t.abandonedDeadline = r.abandonedDeadline /\ t.abandonedTask = r.abandonedTask /\ t.game = r.game
  BY BumpFacts DEF Fit
<1> HIDE DEF t
<1>2. Populated(t) /\ (HostLive(r) => HostLive(t)) /\ Tasks(t) /\ Live(t) = Live(r)
  BY <1>1, PopulatedSame, TasksSame DEF Fit
<1>3. Covered(t, q)
  BY <1>1, <1>2 DEF Fit, Covered
<1>4. PresenceOf(t) = PresenceOf(r) /\ ExpiredSeats(t) = ExpiredSeats(r)
  BY <1>1, SeatsSame
<1>5. (Synced(r) => Synced(t)) /\ (Countable(r) => Countable(t)) /\ (Reckoned(r) => Reckoned(t))
  BY <1>1, <1>4 DEF Synced, Countable, Reckoned, Reason, Finished
<1>6. QED
  BY <1>1, <1>2, <1>3, <1>5 DEF Fit, t

\* After a synchronisation the game and the countdown stand for the seats.
LEMMA SyncFit ==
  ASSUME NEW r, NEW q, Fit(r, q), Reckoned(r)
  PROVE  LET t == SynchronizeGamePresence(r)
         IN /\ Fit(t, q) /\ (HostLive(r) => HostLive(t)) /\ Synced(t) /\ Countable(t)
            /\ t.revision = r.revision /\ t.host = r.host /\ t.seats = r.seats /\ t.sessions = r.sessions
            /\ (t.game = None) <=> (r.game = None)
            /\ (r.abandonedDeadline # None) => Counting(t)
<1> DEFINE t == SynchronizeGamePresence(r)
<1>0. r \in RoomType
  BY DEF Fit
<1>1. CASE r.game = None
  <2>1. t = r
    BY <1>1 DEF SynchronizeGamePresence
  <2>2. Synced(r) /\ Countable(r) /\ r.abandonedDeadline = None
    BY <1>1 DEF Reckoned, Synced, Countable, Reason
  <2> HIDE DEF t
  <2>3. QED
    BY <2>1, <2>2 DEF t
<1>2. CASE r.game # None
  <2>1. /\ t \in RoomType
        /\ t.revision = r.revision /\ t.host = r.host /\ t.seats = r.seats /\ t.sessions = r.sessions
        /\ t.idleDeadline = r.idleDeadline /\ t.idleTask = r.idleTask
        /\ t.game # None /\ t.game.original = r.game.original /\ t.game.replaced = r.game.replaced
        /\ t.game.winner = r.game.winner /\ t.game.failed = r.game.failed
        /\ t.game.presence = PresenceOf(r) /\ t.game.abandoned = t.abandonedDeadline
        /\ IF ExpiredSeats(r) # {} \/ Finished(r)
           THEN t.abandonedDeadline = r.abandonedDeadline /\ t.abandonedTask = r.abandonedTask
           ELSE t.abandonedDeadline = None /\ t.abandonedTask = None
    BY <1>0, <1>2, SyncFacts
  <2> HIDE DEF t
  <2>2. Populated(t) /\ (HostLive(r) => HostLive(t)) /\ Tasks(t) /\ Live(t) = Live(r)
    BY <1>2, <2>1, PopulatedSame, TasksSame DEF Fit
  <2>3. PresenceOf(t) = PresenceOf(r) /\ ExpiredSeats(t) = ExpiredSeats(r)
    BY <2>1, SeatsSame
  <2>4. Synced(t)
    BY <2>1, <2>3 DEF Synced
  <2>5. Finished(t) <=> Finished(r)
    BY <1>2, <2>1 DEF Finished
  <2>6. Countable(t) /\ (r.abandonedDeadline # None => Counting(t))
    BY <1>2, <2>1, <2>3, <2>5 DEF Reckoned, Countable, Counting, Reason
  <2>7. Covered(t, q)
    <3>1. Covered(r, q)
      BY DEF Fit
    <3>2. QED
      BY <1>2, <2>1, <2>2, <3>1 DEF Covered
  <2>8. QED
    BY <1>2, <2>1, <2>2, <2>4, <2>6, <2>7 DEF Fit, t
<1>3. QED
  BY <1>1, <1>2

\* Scheduling the cleanup of a game keeps the Room fit.
LEMMA CleanupFit ==
  ASSUME NEW r, NEW q, Fit(r, q), r.game # None, now \in Nat
  PROVE  LET t == ScheduleGameCleanup(r)
         IN /\ Fit(t, q) /\ (HostLive(r) => HostLive(t)) /\ Reckoned(t)
            /\ t.revision = r.revision /\ t.host = r.host /\ t.seats = r.seats /\ t.sessions = r.sessions
            /\ t.game = r.game /\ t.abandonedDeadline # None
<1> DEFINE t == ScheduleGameCleanup(r)
<1>1. /\ t \in RoomType
      /\ t.revision = r.revision /\ t.host = r.host /\ t.seats = r.seats /\ t.sessions = r.sessions
      /\ t.idleDeadline = r.idleDeadline /\ t.idleTask = r.idleTask /\ t.game = r.game
      /\ t.abandonedDeadline # None
      /\ IF r.abandonedDeadline # None
         THEN t.abandonedDeadline = r.abandonedDeadline /\ t.abandonedTask = r.abandonedTask
         ELSE t.abandonedTask = t.abandonedDeadline
  BY CleanupFacts DEF Fit
<1> HIDE DEF t
<1>2. Populated(t) /\ (HostLive(r) => HostLive(t)) /\ Tasks(t) /\ Live(t) = Live(r)
  BY <1>1, PopulatedSame, TasksSame DEF Fit
<1>3. Covered(t, q)
  <2>1. Covered(r, q)
    BY DEF Fit
  <2>2. QED
    BY <1>1, <1>2, <2>1 DEF Covered
<1>4. Reckoned(t)
  BY <1>1 DEF Reckoned
<1>5. QED
  BY <1>1, <1>2, <1>3, <1>4 DEF Fit, t

\* The Host passes to the first connected player when the old one is gone.
LEMMA TransferFit ==
  ASSUME NEW r, NEW q, Fit(r, q)
  PROVE  LET t == TransferExpiredHost(r)
         IN /\ Fit(t, q) /\ HostLive(t) /\ (Reckoned(r) => Reckoned(t))
            /\ t.revision = r.revision /\ t.seats = r.seats /\ t.sessions = r.sessions
            /\ t.game = r.game /\ t.abandonedDeadline = r.abandonedDeadline
            /\ HostLive(r) => t = r
<1> DEFINE t == TransferExpiredHost(r)
<1>0. r \in RoomType /\ Populated(r)
  BY DEF Fit
<1>1. ASSUME r.game = None
      PROVE  HostLive(r)
  <2>1. PICK s \in HumanSeats(r) : r.seats[s].session = r.host
    BY <1>0 DEF Populated, HostSeated
  <2>2. r.seats[s].status # "DISCONNECTED"
    BY <1>0, <1>1, <2>1 DEF Populated, Inhabited, ExpiredSeats
  <2>3. QED
    BY <1>0, <2>1, <2>2 DEF Populated, Connection, HostLive
<1>2. CASE r.game = None \/ r.host \in Live(r) \/ ConnectedSeats(r) = {}
  <2>1. t = r /\ HostLive(r)
    BY <1>1, <1>2 DEF TransferExpiredHost, HostLive
  <2> HIDE DEF t
  <2>2. QED
    BY <2>1 DEF t
<1>3. CASE ~(r.game = None \/ r.host \in Live(r) \/ ConnectedSeats(r) = {})
  <2>1. PICK s : s = First(ConnectedSeats(r))
    OBVIOUS
  <2>2. s \in ConnectedSeats(r) /\ s \in HumanSeats(r)
    <3>1. ConnectedSeats(r) \subseteq HumanSeats(r) /\ HumanSeats(r) \subseteq Seats
      BY DEF ConnectedSeats, HumanSeats
    <3>2. QED
      BY <1>3, <2>1, <3>1, FirstIsMember
  <2>3. t = [r EXCEPT !.host = r.seats[s].session]
    BY <1>3, <2>1 DEF TransferExpiredHost
  <2>4. r.seats[s].session \in Sessions
    BY <1>0, <2>2 DEF Populated, Owned
  <2>5. /\ t \in RoomType /\ t.host = r.seats[s].session /\ t.revision = r.revision
        /\ t.seats = r.seats /\ t.sessions = r.sessions
        /\ t.idleDeadline = r.idleDeadline /\ t.idleTask = r.idleTask
        /\ t.abandonedDeadline = r.abandonedDeadline /\ t.abandonedTask = r.abandonedTask /\ t.game = r.game
    BY <1>0, <2>3, <2>4 DEF RoomType
  <2> HIDE DEF t
  <2>6. /\ HumanSeats(t) = HumanSeats(r) /\ ConnectedSeats(t) = ConnectedSeats(r)
        /\ ExpiredSeats(t) = ExpiredSeats(r) /\ Live(t) = Live(r) /\ (Tasks(r) => Tasks(t))
    BY <2>5, SeatsSame, TasksSame
  <2>7. HostLive(t)
    <3>1. r.seats[s].status = "CONNECTED"
      BY <2>2 DEF ConnectedSeats
    <3>2. r.seats[s].session \in Live(r)
      BY <1>0, <2>2, <3>1 DEF Populated, Connection
    <3>3. QED
      BY <2>5, <2>6, <3>2 DEF HostLive
  <2>8. Populated(t)
    <3>1. Owned(t) /\ Connection(t) /\ HostSeated(t)
      BY <1>0, <2>2, <2>5, <2>6 DEF Populated, Owned, Connection, HostSeated
    <3>2. Inhabited(t) /\ Seated(t)
      BY <1>0, <2>5, <2>6 DEF Populated, Inhabited, Seated
    <3>3. QED
      BY <3>1, <3>2 DEF Populated
  <2>9. Covered(t, q)
    <3>1. Covered(r, q)
      BY DEF Fit
    <3>2. QED
      BY <2>5, <2>6, <3>1 DEF Covered
  <2>10. Reckoned(r) => Reckoned(t)
    BY <2>5, <2>6 DEF Reckoned, Reason, Finished
  <2>11. ~HostLive(r)
    BY <1>3 DEF HostLive
  <2>12. QED
    BY <2>5, <2>6, <2>7, <2>8, <2>9, <2>10, <2>11 DEF Fit, t
<1>4. QED
  BY <1>2, <1>3

-----------------------------------------------------------------------------
(* Records.                                                                 *)

\* The record of a Room that holds together has the Room's seats and sessions,
\* and holds together itself.
LEMMA RecordFacts ==
  ASSUME NEW r \in RoomType, Owned(r)
  PROVE  LET rec == Record(r)
         IN /\ rec \in RecordType
            /\ rec.revision = r.revision /\ rec.host = r.host /\ rec.seats = r.seats /\ rec.game = r.game
            /\ rec.idleDeadline = r.idleDeadline /\ rec.abandonedDeadline = r.abandonedDeadline
            /\ Live(rec) = Live(r)
            /\ \A x \in Live(r) : rec.sessions[x].seat = r.sessions[x].seat
                                  /\ rec.sessions[x].deadline = r.sessions[x].deadline
<1> DEFINE sessions == [x \in Sessions |->
              IF x \in Live(r) /\ \E s \in HumanSeats(r) : r.seats[s].session = x
              THEN [seat |-> CHOOSE s \in HumanSeats(r) : r.seats[s].session = x,
                    deadline |-> r.sessions[x].deadline]
              ELSE None]
<1>1. ASSUME NEW x \in Live(r)
      PROVE  sessions[x] = [seat |-> r.sessions[x].seat, deadline |-> r.sessions[x].deadline]
  <2>1. PICK z : z = r.sessions[x].seat
    OBVIOUS
  <2>2. z \in HumanSeats(r) /\ r.seats[z].session = x
    BY <2>1 DEF Owned
  <2>3. \A s \in HumanSeats(r) : r.seats[s].session = x => s = z
    BY <2>2 DEF Owned
  <2>4. (CHOOSE s \in HumanSeats(r) : r.seats[s].session = x) = z
    BY <2>2, <2>3
  <2>5. x \in Sessions
    BY DEF Live
  <2>6. QED
    BY <2>1, <2>2, <2>4, <2>5
<1>2. ASSUME NEW x \in Sessions \ Live(r)
      PROVE  sessions[x] = None
  OBVIOUS
<1>3. \A x \in Live(r) : [seat |-> r.sessions[x].seat, deadline |-> r.sessions[x].deadline]
                            \in [seat : Seats, deadline : Deadline]
  BY SessionFields
<1>5. DOMAIN sessions = Sessions /\ sessions = [x \in Sessions |-> sessions[x]]
  OBVIOUS
<1>6. Record(r) = [revision |-> r.revision, host |-> r.host, seats |-> r.seats,
                   idleDeadline |-> r.idleDeadline, abandonedDeadline |-> r.abandonedDeadline,
                   game |-> r.game, sessions |-> sessions]
  BY DEF Record
<1> HIDE DEF sessions
<1>4. \A x \in Live(r) : sessions[x] \in [seat : Seats, deadline : Deadline] /\ sessions[x] # None
  <2> SUFFICES ASSUME NEW x \in Live(r)
               PROVE  sessions[x] \in [seat : Seats, deadline : Deadline] /\ sessions[x] # None
    OBVIOUS
  <2>1. sessions[x] \in [seat : Seats, deadline : Deadline]
    BY <1>1, <1>3
  <2>2. QED
    BY <2>1, NoneIsNothing
<1>7. \A x \in Live(r) : sessions[x].seat = r.sessions[x].seat /\ sessions[x].deadline = r.sessions[x].deadline
  <2> SUFFICES ASSUME NEW x \in Live(r)
               PROVE  sessions[x].seat = r.sessions[x].seat /\ sessions[x].deadline = r.sessions[x].deadline
    OBVIOUS
  <2>1. PICK z, d : z = r.sessions[x].seat /\ d = r.sessions[x].deadline
    OBVIOUS
  <2>2. sessions[x] = [seat |-> z, deadline |-> d]
    BY <1>1, <2>1
  <2>3. QED
    BY <2>1, <2>2
<1>8. sessions \in [Sessions -> {None} \cup [seat : Seats, deadline : Deadline]]
  BY <1>2, <1>4, <1>5
<1>9. Record(r) \in RecordType
  BY <1>6, <1>8, RoomFields DEF RecordType
<1>10. Live(Record(r)) = Live(r)
  BY <1>2, <1>4, <1>6 DEF Live
<1>11. QED
  BY <1>6, <1>7, <1>9, <1>10

\* The record of a sound Room is sound.
LEMMA RecordSound ==
  ASSUME NEW r \in RoomType, Sound(r)
  PROVE  Sound(Record(r)) /\ Record(r) # None
<1> DEFINE rec == Record(r)
<1>0. Owned(r)
  BY DEF Sound, Populated
<1>1. /\ rec \in RecordType
      /\ rec.revision = r.revision /\ rec.host = r.host /\ rec.seats = r.seats /\ rec.game = r.game
      /\ rec.idleDeadline = r.idleDeadline /\ rec.abandonedDeadline = r.abandonedDeadline
      /\ Live(rec) = Live(r)
      /\ \A x \in Live(r) : rec.sessions[x].seat = r.sessions[x].seat
                            /\ rec.sessions[x].deadline = r.sessions[x].deadline
  BY <1>0, RecordFacts
<1> HIDE DEF rec
<1>2. /\ HumanSeats(rec) = HumanSeats(r) /\ ConnectedSeats(rec) = ConnectedSeats(r)
      /\ ExpiredSeats(rec) = ExpiredSeats(r) /\ PresenceOf(rec) = PresenceOf(r)
  BY <1>1, SeatsSame
<1>3. Owned(rec) /\ Connection(rec) /\ HostSeated(rec) /\ HostLive(rec)
  BY <1>1, <1>2 DEF Sound, Populated, Owned, Connection, HostSeated, HostLive
<1>4. Inhabited(rec) /\ Seated(rec)
  BY <1>1, <1>2 DEF Sound, Populated, Inhabited, Seated
<1>5. Synced(rec) /\ Counting(rec)
  BY <1>1, <1>2 DEF Sound, Synced, Counting, Reason, Finished
<1>6. QED
  BY <1>1, <1>3, <1>4, <1>5, NoneIsNothing DEF Sound, Populated, rec

\* A sound record is one the schema accepts.
LEMMA SoundIsValid ==
  ASSUME NEW rec \in RecordType, Sound(rec)
  PROVE  RecordValid(rec)
<1>0. Owned(rec) /\ Connection(rec) /\ HostSeated(rec) /\ Inhabited(rec)
  BY DEF Sound, Populated
<1>1. MembershipValid(rec)
  <2>1. \A s, t \in HumanSeats(rec) : rec.seats[s].session = rec.seats[t].session => s = t
    BY <1>0 DEF Owned
  <2>2. \A x, y \in Live(rec) : rec.sessions[x].seat = rec.sessions[y].seat => x = y
    BY <1>0 DEF Owned
  <2>3. (\E s \in HumanSeats(rec) : rec.seats[s].session = rec.host) /\ Live(rec) # {}
    BY <1>0 DEF HostSeated, Inhabited
  <2>4. \A x \in Live(rec) : \E s \in HumanSeats(rec) : rec.seats[s].session = x /\ rec.sessions[x].seat = s
    BY <1>0 DEF Owned
  <2>5. QED
    BY <2>1, <2>2, <2>3, <2>4 DEF MembershipValid
<1>2. ConnectionValid(rec)
  <2> SUFFICES ASSUME NEW s \in HumanSeats(rec)
               PROVE  LET seat == rec.seats[s]
                          session == rec.sessions[seat.session]
                      IN /\ (seat.status = "CONNECTED") <=> (seat.deadline = None)
                         /\ (seat.status = "DISCONNECTED") <=> (session = None)
                         /\ session # None => session.seat = s /\ session.deadline = seat.deadline
    BY DEF ConnectionValid
  <2>1. PICK x \in Sessions : x = rec.seats[s].session
    BY <1>0 DEF Owned
  <2>2. rec.sessions[x] = None <=> x \notin Live(rec)
    BY DEF Live
  <2>3. /\ (rec.seats[s].status = "CONNECTED") <=> (rec.seats[s].deadline = None)
        /\ (rec.seats[s].status = "DISCONNECTED") <=> (rec.sessions[x] = None)
    BY <1>0, <2>1, <2>2 DEF Connection
  <2>4. rec.sessions[x] # None => rec.sessions[x].seat = s /\ rec.sessions[x].deadline = rec.seats[s].deadline
    BY <1>0, <2>1, <2>2 DEF Owned
  <2>5. QED
    BY <2>1, <2>3, <2>4
<1>3. CASE rec.game = None
  <2>1. WaitingValid(rec)
    BY <1>0, <1>3 DEF WaitingValid, Inhabited, Sound, Counting, Reason
  <2>2. QED
    BY <1>1, <1>2, <1>3, <2>1 DEF RecordValid
<1>4. CASE rec.game # None
  <2>1. /\ \A s \in Seats : rec.seats[s].occupancy # "EMPTY"
        /\ rec.game.abandoned = rec.abandonedDeadline /\ rec.game.presence = PresenceOf(rec)
        /\ Cardinality({s \in Seats : rec.game.original[s] # None}) >= 2
    BY <1>4 DEF Sound, Populated, Seated, Synced
  <2>2. \A s \in Seats :
          IF rec.game.original[s] = None
          THEN rec.seats[s].occupancy = "AI" /\ s \notin rec.game.replaced
          ELSE IF s \in rec.game.replaced
               THEN rec.seats[s].occupancy = "AI"
               ELSE s \in HumanSeats(rec) /\ rec.seats[s].session = rec.game.original[s]
    BY <1>4 DEF Sound, Populated, Seated
  <2>3. LifecycleStatus(rec.game) = ExpectedLifecycle(rec)
    <3> DEFINE p == rec.game.presence
    <3>1. \A s \in Seats : /\ p[s] # None <=> s \in HumanSeats(rec) \ ConnectedSeats(rec)
                           /\ p[s] # None => (p[s].replacementRequired <=> s \in ExpiredSeats(rec))
      <4> SUFFICES ASSUME NEW s \in Seats
                   PROVE  /\ p[s] # None <=> s \in HumanSeats(rec) \ ConnectedSeats(rec)
                          /\ p[s] # None => (p[s].replacementRequired <=> s \in ExpiredSeats(rec))
        OBVIOUS
      <4>1. p[s] = IF s \in HumanSeats(rec) \ ConnectedSeats(rec)
                   THEN [deadline |-> rec.seats[s].deadline, replacementRequired |-> s \in ExpiredSeats(rec)]
                   ELSE None
        BY <2>1 DEF PresenceOf
      <4>2. PICK b \in BOOLEAN : b <=> s \in ExpiredSeats(rec)
        OBVIOUS
      <4>3. rec.seats[s].deadline \in Deadline
        BY DEF RecordType, SeatType
      <4>4. PICK d \in Deadline : d = rec.seats[s].deadline
        BY <4>3
      <4>5. [deadline |-> d, replacementRequired |-> b] # None
        <5>1. [deadline |-> d, replacementRequired |-> b] \in [deadline : Deadline, replacementRequired : BOOLEAN]
          OBVIOUS
        <5>2. QED
          BY <5>1, NoneIsNothing
      <4>6. (s \in ExpiredSeats(rec)) = b
        <5>1. (s \in ExpiredSeats(rec)) \in BOOLEAN
          BY DEF ExpiredSeats
        <5>2. QED
          BY <4>2, <5>1
      <4> HIDE DEF p
      <4>7. p[s] = IF s \in HumanSeats(rec) \ ConnectedSeats(rec)
                   THEN [deadline |-> d, replacementRequired |-> b] ELSE None
        BY <4>1, <4>4, <4>6
      <4>8. QED
        BY <4>2, <4>5, <4>7
    <3>2. ExpiredSeats(rec) \subseteq HumanSeats(rec) \ ConnectedSeats(rec) /\ HumanSeats(rec) \subseteq Seats
          /\ ConnectedSeats(rec) \subseteq HumanSeats(rec)
      BY DEF ExpiredSeats, ConnectedSeats, HumanSeats
    <3>3. AbsentSeats(rec.game) = HumanSeats(rec) \ ConnectedSeats(rec)
      BY <3>1, <3>2 DEF AbsentSeats
    <3>4. (\E s \in AbsentSeats(rec.game) : rec.game.presence[s].replacementRequired) <=> ExpiredSeats(rec) # {}
      BY <3>1, <3>2, <3>3
    <3>5. AbsentSeats(rec.game) # {} <=> HumanSeats(rec) # ConnectedSeats(rec)
      BY <3>2, <3>3
    <3>6. rec.game.winner \in BOOLEAN /\ rec.game.failed \in BOOLEAN
      BY <1>4 DEF RecordType, GameType
    <3> HIDE DEF p
    <3>7. QED
      BY <3>4, <3>5, <3>6 DEF LifecycleStatus, ExpectedLifecycle
  <2>4. GameValid(rec)
    BY <2>1, <2>2, <2>3 DEF GameValid
  <2>5. QED
    BY <1>1, <1>2, <1>4, <2>4 DEF RecordValid
<1>5. QED
  BY <1>3, <1>4

\* Timers are not part of the record.
LEMMA RecordSame ==
  ASSUME NEW r \in RoomType, Owned(r), NEW t \in RoomType, Owned(t),
         t.revision = r.revision, t.host = r.host, t.seats = r.seats, t.game = r.game,
         t.idleDeadline = r.idleDeadline, t.abandonedDeadline = r.abandonedDeadline, Live(t) = Live(r),
         \A x \in Live(r) : t.sessions[x].deadline = r.sessions[x].deadline
  PROVE  Record(t) = Record(r)
<1>1. HumanSeats(t) = HumanSeats(r)
  BY SeatsSame
<1>2. \A x \in Sessions :
        (IF x \in Live(t) /\ \E s \in HumanSeats(t) : t.seats[s].session = x
         THEN [seat |-> CHOOSE s \in HumanSeats(t) : t.seats[s].session = x, deadline |-> t.sessions[x].deadline]
         ELSE None)
        = (IF x \in Live(r) /\ \E s \in HumanSeats(r) : r.seats[s].session = x
           THEN [seat |-> CHOOSE s \in HumanSeats(r) : r.seats[s].session = x, deadline |-> r.sessions[x].deadline]
           ELSE None)
  BY <1>1
<1>3. QED
  BY <1>2 DEF Record

-----------------------------------------------------------------------------
(* How an operation ends.                                                   *)

Saved ==
    /\ room' \in RoomType /\ Sound(room)' /\ Tasks(room)' /\ Covered(room, queue)'
    /\ io' = IF Record(room') = committed THEN "none" ELSE "save"

\* #persist of a fit Room leaves a sound Room, saved or on its way to storage.
LEMMA PersistSaved ==
  ASSUME NEW r, NEW q, Fit(r, q), q = queue', HostLive(r), Synced(r), Countable(r), now \in Nat, Persist(r)
  PROVE  /\ Saved /\ room' \in RoomType
         /\ room'.revision = r.revision /\ room'.host = r.host /\ room'.seats = r.seats
         /\ room'.sessions = r.sessions
         /\ (room'.game = None) <=> (r.game = None)
<1>1. PICK final : /\ final = IF Finished(r) /\ r.abandonedDeadline = None
                              THEN SynchronizeGamePresence(ScheduleGameCleanup(r)) ELSE r
                   /\ room' = final
                   /\ io' = IF Record(final) = committed THEN "none" ELSE "save"
  BY DEF Persist
<1>2. /\ Fit(final, q) /\ Sound(final)
      /\ final.revision = r.revision /\ final.host = r.host /\ final.seats = r.seats
      /\ final.sessions = r.sessions
      /\ (final.game = None) <=> (r.game = None)
  <2>1. CASE Finished(r) /\ r.abandonedDeadline = None
    <3>1. PICK c : c = ScheduleGameCleanup(r)
      OBVIOUS
    <3>2. r.game # None
      BY <2>1 DEF Finished
    <3>3. /\ Fit(c, q) /\ HostLive(c) /\ Reckoned(c)
          /\ c.revision = r.revision /\ c.host = r.host /\ c.seats = r.seats /\ c.sessions = r.sessions
          /\ c.game = r.game /\ c.abandonedDeadline # None
      BY <3>1, <3>2, CleanupFit
    <3>4. final = SynchronizeGamePresence(c)
      BY <1>1, <2>1, <3>1
    <3>5. /\ Fit(final, q) /\ HostLive(final) /\ Synced(final) /\ Counting(final)
          /\ final.revision = c.revision /\ final.host = c.host /\ final.seats = c.seats
          /\ final.sessions = c.sessions
          /\ (final.game = None) <=> (c.game = None)
      BY <3>3, <3>4, SyncFit
    <3>6. QED
      BY <3>3, <3>5 DEF Sound, Fit
  <2>2. CASE ~(Finished(r) /\ r.abandonedDeadline = None)
    <3>1. final = r
      BY <1>1, <2>2
    <3>2. Counting(r)
      BY <2>2 DEF Countable, Counting, Reason
    <3>3. QED
      BY <3>1, <3>2 DEF Sound, Fit
  <2>3. QED
    BY <2>1, <2>2
<1>3. Sound(room)' /\ Tasks(room)' /\ Covered(room, queue)'
  BY <1>1, <1>2 DEF Fit
<1>4. QED
  BY <1>1, <1>2, <1>3 DEF Saved, Fit

\* The Room stays in memory until its row is gone.
Closing == room' \in RoomType /\ Tasks(room)' /\ io' = "remove"

\* Only timers of the Room change.
Rearmed ==
    /\ io' = io /\ room' \in RoomType
    /\ room'.revision = room.revision /\ room'.host = room.host /\ room'.seats = room.seats
    /\ room'.game = room.game /\ room'.idleDeadline = room.idleDeadline
    /\ room'.abandonedDeadline = room.abandonedDeadline
    /\ Live(room)' = Live(room)
    /\ \A x \in Live(room) : /\ room'.sessions[x].seat = room.sessions[x].seat
                             /\ room'.sessions[x].deadline = room.sessions[x].deadline
    /\ Tasks(room)'
    /\ io # "remove" => Covered(room, queue)'

\* What an operation finds: a sound Room and no storage call under way.
Open == room \in RoomType /\ Sound(room) /\ Tasks(room) /\ Covered(room, queue) /\ now \in Nat

\* The queue has lost at most an expiry of one session.
QueueLess(x) == \A op \in queue : op \in queue' \/ (op.kind = "session" /\ op.session = x)

\* The snapshot of a change that others can see has a revision of its own.
Advances ==
    /\ room'.revision >= room.revision
    /\ Public(room)' # Public(room) => room'.revision > room.revision

-----------------------------------------------------------------------------
(* The end of a session.                                                    *)

\* In a waiting Room nobody is expired, so the Host lives.
LEMMA WaitingHostLives ==
  ASSUME NEW r, Populated(r), r.game = None
  PROVE  HostLive(r)
<1>1. PICK s \in HumanSeats(r) : r.seats[s].session = r.host
  BY DEF Populated, HostSeated
<1>2. r.seats[s].status # "DISCONNECTED"
  BY <1>1 DEF Populated, Inhabited, ExpiredSeats
<1>3. QED
  BY <1>1, <1>2 DEF Populated, Connection, HostLive

\* The two seats without a Human are seats.
LEMMA SeatsTyped == EmptySeat \in SeatType /\ AiSeat \in SeatType
BY DEF EmptySeat, AiSeat, SeatType, Deadline

\* What removing a session with its seat changes.
LEMMA RemoveFacts ==
  ASSUME NEW r \in RoomType, NEW x \in Live(r)
  PROVE  LET t == RemoveSessionAndSeat(r, x)
         IN /\ t \in RoomType
            /\ t.revision = r.revision /\ t.host = r.host
            /\ t.seats = [r.seats EXCEPT ![r.sessions[x].seat] = EmptySeat]
            /\ t.sessions = [r.sessions EXCEPT ![x] = None]
            /\ t.idleDeadline = r.idleDeadline /\ t.idleTask = r.idleTask
            /\ t.abandonedDeadline = r.abandonedDeadline /\ t.abandonedTask = r.abandonedTask /\ t.game = r.game
<1>1. PICK s \in Seats : s = r.sessions[x].seat
  BY SessionFields
<1>2. RemoveSessionAndSeat(r, x) = [r EXCEPT !.sessions[x] = None, !.seats[s] = EmptySeat]
  BY <1>1 DEF RemoveSessionAndSeat
<1>3. PICK e \in SeatType : e = EmptySeat
  BY SeatsTyped
<1>4. x \in Sessions
  BY DEF Live
<1>5. RemoveSessionAndSeat(r, x) = [r EXCEPT !.sessions = [r.sessions EXCEPT ![x] = None],
                                             !.seats = [r.seats EXCEPT ![s] = e]]
  BY <1>2, <1>3 DEF RoomType
<1>6. /\ [r.sessions EXCEPT ![x] = None] \in [Sessions -> {None} \cup [seat : Seats, deadline : Deadline, task : Deadline]]
      /\ [r.seats EXCEPT ![s] = e] \in [Seats -> SeatType]
  BY <1>4 DEF RoomType
<1>7. QED
  BY <1>1, <1>3, <1>5, <1>6 DEF RoomType

\* The seat is empty, the session gone, and nobody else is touched.
LEMMA RemovedSeats ==
  ASSUME NEW r \in RoomType, Owned(r), NEW x \in Live(r), NEW t,
         t.seats = [r.seats EXCEPT ![r.sessions[x].seat] = EmptySeat],
         t.sessions = [r.sessions EXCEPT ![x] = None]
  PROVE  /\ Live(t) = Live(r) \ {x} /\ \A y \in Live(t) : t.sessions[y] = r.sessions[y]
         /\ HumanSeats(t) = HumanSeats(r) \ {r.sessions[x].seat}
         /\ \A z \in HumanSeats(t) : t.seats[z] = r.seats[z] /\ r.seats[z].session # x
         /\ Owned(t) /\ (Tasks(r) => Tasks(t))
<1>1. PICK s \in Seats : s = r.sessions[x].seat
  BY SessionFields
<1>2. x \in Sessions /\ s \in HumanSeats(r) /\ r.seats[s].session = x
  BY <1>1 DEF Live, Owned
<1>3. /\ \A z \in Seats : t.seats[z] = IF z = s THEN EmptySeat ELSE r.seats[z]
      /\ \A y \in Sessions : t.sessions[y] = IF y = x THEN None ELSE r.sessions[y]
  BY <1>1 DEF RoomType
<1>4. Live(t) = Live(r) \ {x} /\ \A y \in Live(t) : t.sessions[y] = r.sessions[y]
  BY <1>3 DEF Live
<1>5. EmptySeat.occupancy = "EMPTY" /\ EmptySeat.session = None
  BY DEF EmptySeat
<1>6. HumanSeats(t) = HumanSeats(r) \ {s} /\ \A z \in HumanSeats(t) : t.seats[z] = r.seats[z]
  BY <1>3, <1>5 DEF HumanSeats
<1>7. \A z \in HumanSeats(t) : r.seats[z].session # x
  BY <1>2, <1>6 DEF Owned
<1>8. Owned(t)
  <2>1. \A z \in Seats : t.seats[z].occupancy # "HUMAN" => t.seats[z].session = None
    BY <1>3, <1>5 DEF Owned
  <2>2. /\ \A z \in HumanSeats(t) : t.seats[z].session \in Sessions
        /\ \A y, z \in HumanSeats(t) : t.seats[y].session = t.seats[z].session => y = z
    BY <1>6 DEF Owned
  <2>3. \A y \in Live(t) : /\ t.sessions[y].seat \in HumanSeats(t)
                           /\ t.seats[t.sessions[y].seat].session = y
                           /\ t.seats[t.sessions[y].seat].deadline = t.sessions[y].deadline
    <3> SUFFICES ASSUME NEW y \in Live(t)
                 PROVE  /\ t.sessions[y].seat \in HumanSeats(t)
                        /\ t.seats[t.sessions[y].seat].session = y
                        /\ t.seats[t.sessions[y].seat].deadline = t.sessions[y].deadline
      OBVIOUS
    <3>1. y \in Live(r) /\ y # x /\ t.sessions[y] = r.sessions[y]
      BY <1>4
    <3>2. PICK z : z = r.sessions[y].seat
      OBVIOUS
    <3>3. z \in HumanSeats(r) /\ r.seats[z].session = y /\ r.seats[z].deadline = r.sessions[y].deadline
      BY <3>1, <3>2 DEF Owned
    <3>4. z # s
      BY <1>2, <3>1, <3>3
    <3>5. z \in HumanSeats(t) /\ t.seats[z] = r.seats[z]
      BY <1>6, <3>3, <3>4
    <3>6. QED
      BY <3>1, <3>2, <3>3, <3>5
  <2>4. QED
    BY <2>1, <2>2, <2>3 DEF Owned
<1>9. Tasks(r) => Tasks(t)
  BY <1>4 DEF Tasks
<1>10. QED
  BY <1>1, <1>4, <1>6, <1>7, <1>8, <1>9

\* The timers and expiries of those who stay.
LEMMA CoveredStill ==
  ASSUME Open, NEW x, QueueLess(x), NEW t,
         \A y \in Live(t) : y \in Live(room) /\ y # x /\ t.sessions[y] = room.sessions[y],
         t.game = None => /\ room.game = None
                          /\ t.idleDeadline = room.idleDeadline /\ t.idleTask = room.idleTask,
         t.abandonedDeadline = room.abandonedDeadline, t.abandonedTask = room.abandonedTask
  PROVE  Covered(t, queue')
<1>1. \A kind, y, d : Op(kind, y, d) \in queue /\ (kind # "session" \/ y # x) => Op(kind, y, d) \in queue'
  <2> SUFFICES ASSUME NEW kind, NEW y, NEW d, Op(kind, y, d) \in queue, kind # "session" \/ y # x
               PROVE  Op(kind, y, d) \in queue'
    OBVIOUS
  <2>1. Op(kind, y, d).kind = kind /\ Op(kind, y, d).session = y
    BY DEF Op
  <2>2. QED
    BY <2>1 DEF QueueLess
<1>2. Covered(room, queue)
  BY DEF Open
<1>3. \A y \in Live(t) : t.sessions[y].deadline # None =>
        t.sessions[y].task # None \/ Op("session", y, t.sessions[y].deadline) \in queue'
  <2> SUFFICES ASSUME NEW y \in Live(t), t.sessions[y].deadline # None
               PROVE  t.sessions[y].task # None \/ Op("session", y, t.sessions[y].deadline) \in queue'
    OBVIOUS
  <2>1. y \in Live(room) /\ y # x /\ t.sessions[y] = room.sessions[y]
    OBVIOUS
  <2>2. room.sessions[y].task # None \/ Op("session", y, room.sessions[y].deadline) \in queue
    BY <1>2, <2>1 DEF Covered
  <2>3. QED
    BY <1>1, <2>1, <2>2
<1>4. t.game = None => t.idleTask = t.idleDeadline \/ Op("idle", None, t.idleDeadline) \in queue'
  BY <1>1, <1>2 DEF Covered
<1>5. t.abandonedDeadline # None =>
        t.abandonedTask = t.abandonedDeadline \/ Op("abandoned", None, t.abandonedDeadline) \in queue'
  BY <1>1, <1>2 DEF Covered
<1>6. QED
  BY <1>3, <1>4, <1>5 DEF Covered

\* After a departure from a waiting Room it is saved, or closes.
LEMMA DepartureResult ==
  ASSUME Open, room.game = None, NEW x \in Live(room), QueueLess(x),
         AfterDeparture(BumpRevision(RemoveSessionAndSeat(room, x)), x)
  PROVE  /\ Saved \/ Closing
         /\ room'.revision = room.revision + 1 /\ Live(room)' = Live(room) \ {x}
<1>0. room \in RoomType /\ Sound(room) /\ Tasks(room) /\ now \in Nat /\ Owned(room) /\ Populated(room)
  BY DEF Open, Sound, Populated
<1>1. PICK rem, g : rem = RemoveSessionAndSeat(room, x) /\ g = BumpRevision(rem)
  OBVIOUS
<1>2. /\ g \in RoomType
      /\ g.revision = room.revision + 1 /\ g.host = room.host
      /\ g.seats = [room.seats EXCEPT ![room.sessions[x].seat] = EmptySeat]
      /\ g.sessions = [room.sessions EXCEPT ![x] = None]
      /\ g.idleDeadline = room.idleDeadline /\ g.idleTask = room.idleTask
      /\ g.abandonedDeadline = room.abandonedDeadline /\ g.abandonedTask = room.abandonedTask /\ g.game = room.game
  BY <1>0, <1>1, RemoveFacts, BumpFacts
<1>3. PICK s \in Seats : s = room.sessions[x].seat
  BY <1>0, SessionFields
<1>4. /\ Live(g) = Live(room) \ {x} /\ \A y \in Live(g) : g.sessions[y] = room.sessions[y]
      /\ HumanSeats(g) = HumanSeats(room) \ {s}
      /\ \A z \in HumanSeats(g) : g.seats[z] = room.seats[z] /\ room.seats[z].session # x
      /\ Owned(g) /\ Tasks(g)
  BY <1>0, <1>2, <1>3, RemovedSeats
<1>5. CASE HumanSeats(g) = {} \/ (g.host = x /\ ConnectedSeats(g) = {})
  <2>1. room' = g /\ io' = "remove"
    BY <1>1, <1>5 DEF AfterDeparture, CloseRoom
  <2>2. QED
    BY <1>2, <1>4, <2>1 DEF Closing
<1>6. CASE ~(HumanSeats(g) = {} \/ (g.host = x /\ ConnectedSeats(g) = {}))
  <2>1. PICK h : /\ h = IF g.host = x THEN [g EXCEPT !.host = g.seats[First(ConnectedSeats(g))].session] ELSE g
                 /\ Persist(TouchRoom(h))
    BY <1>1, <1>6 DEF AfterDeparture
  <2>2. PICK host \in Sessions : /\ h = [g EXCEPT !.host = host]
                                 /\ \E z \in HumanSeats(g) : g.seats[z].session = host
    <3>1. CASE g.host = x
      <4>1. PICK z : z = First(ConnectedSeats(g))
        OBVIOUS
      <4>2. z \in ConnectedSeats(g) /\ z \in HumanSeats(g)
        <5>1. ConnectedSeats(g) \subseteq HumanSeats(g) /\ HumanSeats(g) \subseteq Seats
          BY DEF ConnectedSeats, HumanSeats
        <5>2. QED
          BY <1>6, <3>1, <4>1, <5>1, FirstIsMember
      <4>3. g.seats[z].session \in Sessions
        BY <1>4, <4>2 DEF Owned
      <4>4. QED
        BY <2>1, <3>1, <4>1, <4>2, <4>3
    <3>2. CASE g.host # x
      <4>1. h = [g EXCEPT !.host = g.host] /\ g.host \in Sessions
        BY <1>2, <2>1, <3>2 DEF RoomType
      <4>2. PICK z \in HumanSeats(room) : room.seats[z].session = g.host
        BY <1>0, <1>2 DEF Populated, HostSeated
      <4>3. z # s
        BY <1>0, <1>3, <3>2, <4>2 DEF Owned
      <4>4. z \in HumanSeats(g) /\ g.seats[z].session = g.host
        BY <1>4, <4>2, <4>3
      <4>5. QED
        BY <4>1, <4>4
    <3>3. QED
      BY <3>1, <3>2
  <2>3. /\ h \in RoomType /\ h.host = host /\ h.revision = g.revision /\ h.seats = g.seats /\ h.sessions = g.sessions
        /\ h.idleDeadline = g.idleDeadline /\ h.idleTask = g.idleTask /\ h.game = g.game
        /\ h.abandonedDeadline = g.abandonedDeadline /\ h.abandonedTask = g.abandonedTask
    BY <1>2, <2>2 DEF RoomType
  <2>4. HumanSeats(h) = HumanSeats(g) /\ Live(h) = Live(g) /\ Tasks(h)
    BY <1>4, <2>3, SeatsSame, TasksSame
  <2>5. Owned(h) /\ HostSeated(h)
    BY <1>4, <2>2, <2>3, <2>4 DEF Owned, HostSeated
  <2>6. Connection(h)
    <3> SUFFICES ASSUME NEW z \in HumanSeats(h)
                 PROVE  /\ h.seats[z].status \in {"CONNECTED", "RECONNECTING", "DISCONNECTED"}
                        /\ h.seats[z].status = "CONNECTED" <=> h.seats[z].deadline = None
                        /\ h.seats[z].status = "DISCONNECTED" <=> h.seats[z].session \notin Live(h)
      BY DEF Connection
    <3>1. z \in HumanSeats(room) /\ h.seats[z] = room.seats[z] /\ room.seats[z].session # x
      BY <1>4, <2>3, <2>4
    <3>2. QED
      BY <1>0, <1>4, <2>4, <3>1 DEF Populated, Connection
  <2>7. ExpiredSeats(h) = {}
    <3>1. ExpiredSeats(room) = {}
      BY <1>0 DEF Populated, Inhabited
    <3>2. \A z \in HumanSeats(h) : z \in HumanSeats(room) /\ h.seats[z] = room.seats[z]
      BY <1>4, <2>3, <2>4
    <3>3. QED
      BY <3>1, <3>2 DEF ExpiredSeats
  <2>8. Live(h) # {}
    <3>1. PICK z \in HumanSeats(h) : h.seats[z].session = h.host
      BY <2>5 DEF HostSeated
    <3>2. h.seats[z].status # "DISCONNECTED"
      BY <2>7, <3>1 DEF ExpiredSeats
    <3>3. QED
      BY <2>6, <3>1, <3>2 DEF Connection
  <2>9. Populated(h)
    BY <1>2, <2>3, <2>5, <2>6, <2>7, <2>8 DEF Populated, Inhabited, Seated
  <2>10. Covered(h, queue')
    <3>1. \A y \in Live(h) : y \in Live(room) /\ y # x /\ h.sessions[y] = room.sessions[y]
      BY <1>4, <2>3, <2>4
    <3>2. QED
      BY <1>2, <2>3, <3>1, CoveredStill
  <2>11. Synced(h) /\ Countable(h)
    <3>1. room.abandonedDeadline = None
      BY <1>0 DEF Sound, Counting, Reason
    <3>2. QED
      BY <1>2, <2>3, <3>1 DEF Synced, Countable, Reason
  <2>12. PICK q : q = queue'
    OBVIOUS
  <2>13. Fit(h, q) /\ HostLive(h)
    BY <1>2, <2>3, <2>4, <2>9, <2>10, <2>12, WaitingHostLives DEF Fit
  <2>14. PICK t : t = TouchRoom(h) /\ Persist(t)
    BY <2>1
  <2>15. /\ Fit(t, q) /\ HostLive(t) /\ Synced(t) /\ Countable(t)
         /\ t.revision = h.revision /\ t.sessions = h.sessions
    BY <1>0, <2>3, <2>11, <2>13, <2>14, TouchFit, TouchFacts
  <2>16. Saved /\ room'.revision = t.revision /\ room'.sessions = t.sessions
    BY <1>0, <2>1, <2>12, <2>14, <2>15, PersistSaved
  <2>17. Live(room)' = Live(h)
    BY <2>15, <2>16 DEF Live
  <2>18. QED
    BY <1>2, <1>4, <2>3, <2>4, <2>15, <2>16, <2>17
<1>7. QED
  BY <1>5, <1>6

\* A player of a game keeps the seat, disconnected, when the session ends.
LEMMA GoneFacts ==
  ASSUME Open, room.game # None, NEW x \in Live(room), room.sessions[x].deadline # None, QueueLess(x), NEW gone,
         gone = BumpRevision([room EXCEPT
                !.sessions[x] = None,
                !.seats = [s \in Seats |->
                    IF s \in HumanSeats(room) /\ room.seats[s].session = x
                    THEN [room.seats[s] EXCEPT !.status = "DISCONNECTED"]
                    ELSE room.seats[s]]])
  PROVE  /\ gone \in RoomType /\ gone.revision = room.revision + 1 /\ gone.game = room.game
         /\ Live(gone) = Live(room) \ {x} /\ Tasks(gone)
         /\ Live(gone) # {} => Fit(gone, queue')
<1>0. room \in RoomType /\ Sound(room) /\ Tasks(room) /\ Owned(room) /\ Populated(room)
  BY DEF Open, Sound, Populated
<1>1. PICK s \in Seats : s = room.sessions[x].seat
  BY <1>0, SessionFields
<1>2. x \in Sessions /\ s \in HumanSeats(room) /\ room.seats[s].session = x /\ room.seats[s].deadline # None
  BY <1>0, <1>1 DEF Live, Owned
<1>3. \A z \in HumanSeats(room) : room.seats[z].session = x => z = s
  BY <1>0, <1>2 DEF Owned
<1> DEFINE seats == [z \in Seats |-> IF z \in HumanSeats(room) /\ room.seats[z].session = x
                                     THEN [room.seats[z] EXCEPT !.status = "DISCONNECTED"]
                                     ELSE room.seats[z]]
           sessions == [room.sessions EXCEPT ![x] = None]
<1>4. PICK t : t = [room EXCEPT !.sessions = sessions, !.seats = seats] /\ gone = BumpRevision(t)
  BY <1>0 DEF RoomType
<1>5. \A z \in Seats : seats[z] = IF z = s THEN [room.seats[s] EXCEPT !.status = "DISCONNECTED"] ELSE room.seats[z]
  BY <1>2, <1>3
<1>6. \A y \in Sessions : sessions[y] = IF y = x THEN None ELSE room.sessions[y]
  BY <1>0 DEF RoomType
<1>7. /\ seats \in [Seats -> SeatType]
      /\ sessions \in [Sessions -> {None} \cup [seat : Seats, deadline : Deadline, task : Deadline]]
  <2>1. room.seats \in [Seats -> SeatType]
    BY <1>0 DEF RoomType
  <2>2. \A seat \in SeatType : [seat EXCEPT !.status = "DISCONNECTED"] \in SeatType
    BY DEF SeatType
  <2>3. seats \in [Seats -> SeatType]
    BY <2>1, <2>2
  <2>4. QED
    BY <1>0, <2>3 DEF RoomType
<1>8. /\ [room.seats[s] EXCEPT !.status = "DISCONNECTED"].status = "DISCONNECTED"
      /\ [room.seats[s] EXCEPT !.status = "DISCONNECTED"].occupancy = "HUMAN"
      /\ [room.seats[s] EXCEPT !.status = "DISCONNECTED"].session = x
      /\ [room.seats[s] EXCEPT !.status = "DISCONNECTED"].deadline = room.seats[s].deadline
  BY <1>0, <1>2 DEF RoomType, SeatType, HumanSeats
<1> HIDE DEF seats, sessions
<1>9. /\ t \in RoomType /\ t.seats = seats /\ t.sessions = sessions /\ t.revision = room.revision
      /\ t.host = room.host /\ t.idleDeadline = room.idleDeadline /\ t.idleTask = room.idleTask
      /\ t.game = room.game
      /\ t.abandonedDeadline = room.abandonedDeadline /\ t.abandonedTask = room.abandonedTask
  BY <1>0, <1>4, <1>7 DEF RoomType
<1>10. /\ gone \in RoomType /\ gone.seats = seats /\ gone.sessions = sessions /\ gone.revision = room.revision + 1
       /\ gone.host = room.host /\ gone.idleDeadline = room.idleDeadline /\ gone.idleTask = room.idleTask
       /\ gone.game = room.game
       /\ gone.abandonedDeadline = room.abandonedDeadline /\ gone.abandonedTask = room.abandonedTask
  BY <1>4, <1>9, BumpFacts, ZenonT(40)
<1>11. /\ \A z \in Seats \ {s} : gone.seats[z] = room.seats[z]
       /\ gone.seats[s].status = "DISCONNECTED" /\ gone.seats[s].occupancy = "HUMAN"
       /\ gone.seats[s].session = x /\ gone.seats[s].deadline = room.seats[s].deadline
  BY <1>5, <1>8, <1>10
<1>12. Live(gone) = Live(room) \ {x} /\ \A y \in Live(gone) : gone.sessions[y] = room.sessions[y]
  BY <1>6, <1>10 DEF Live
<1>13. HumanSeats(gone) = HumanSeats(room) /\ \A z \in Seats : gone.seats[z].session = room.seats[z].session
                                            /\ gone.seats[z].deadline = room.seats[z].deadline
                                            /\ gone.seats[z].occupancy = room.seats[z].occupancy
  BY <1>2, <1>11, ZenonT(40) DEF HumanSeats
<1>14. Owned(gone)
  <2>1. /\ \A z \in Seats : gone.seats[z].occupancy # "HUMAN" => gone.seats[z].session = None
        /\ \A z \in HumanSeats(gone) : gone.seats[z].session \in Sessions
        /\ \A y, z \in HumanSeats(gone) : gone.seats[y].session = gone.seats[z].session => y = z
    <3>1. HumanSeats(room) \subseteq Seats
      BY DEF HumanSeats
    <3>2. \A z \in Seats : gone.seats[z].occupancy # "HUMAN" => gone.seats[z].session = None
      BY <1>0, <1>13 DEF Owned
    <3>3. \A z \in HumanSeats(gone) : gone.seats[z].session = room.seats[z].session
      BY <1>13, <3>1
    <3>4. /\ \A z \in HumanSeats(gone) : room.seats[z].session \in Sessions
          /\ \A y, z \in HumanSeats(gone) : room.seats[y].session = room.seats[z].session => y = z
      BY <1>0, <1>13 DEF Owned
    <3>5. \A z \in HumanSeats(gone) : gone.seats[z].session \in Sessions
      BY <3>3, <3>4
    <3>6. ASSUME NEW y \in HumanSeats(gone), NEW z \in HumanSeats(gone), gone.seats[y].session = gone.seats[z].session
          PROVE  y = z
      BY <3>3, <3>4, <3>6
    <3>7. QED
      BY <3>2, <3>5, <3>6
  <2>2. \A y \in Live(gone) : /\ gone.sessions[y].seat \in HumanSeats(gone)
                              /\ gone.seats[gone.sessions[y].seat].session = y
                              /\ gone.seats[gone.sessions[y].seat].deadline = gone.sessions[y].deadline
    <3> SUFFICES ASSUME NEW y \in Live(gone)
                 PROVE  /\ gone.sessions[y].seat \in HumanSeats(gone)
                        /\ gone.seats[gone.sessions[y].seat].session = y
                        /\ gone.seats[gone.sessions[y].seat].deadline = gone.sessions[y].deadline
      OBVIOUS
    <3>1. y \in Live(room) /\ gone.sessions[y] = room.sessions[y]
      BY <1>12
    <3>2. PICK z \in Seats : z = room.sessions[y].seat
      BY <1>0, <3>1, SessionFields
    <3>3. z \in HumanSeats(room) /\ room.seats[z].session = y /\ room.seats[z].deadline = room.sessions[y].deadline
      BY <1>0, <3>1, <3>2 DEF Owned
    <3>4. QED
      BY <1>13, <3>1, <3>2, <3>3
  <2>3. QED
    BY <2>1, <2>2 DEF Owned
<1>15. Connection(gone)
  <2> SUFFICES ASSUME NEW z \in HumanSeats(gone)
               PROVE  /\ gone.seats[z].status \in {"CONNECTED", "RECONNECTING", "DISCONNECTED"}
                      /\ gone.seats[z].status = "CONNECTED" <=> gone.seats[z].deadline = None
                      /\ gone.seats[z].status = "DISCONNECTED" <=> gone.seats[z].session \notin Live(gone)
    BY DEF Connection
  <2>1. z \in HumanSeats(room) /\ z \in Seats
    BY <1>13 DEF HumanSeats
  <2>2. CASE z = s
    BY <1>2, <1>11, <1>12, <2>2
  <2>3. CASE z # s
    <3>1. gone.seats[z] = room.seats[z] /\ room.seats[z].session # x
      BY <1>3, <1>11, <2>1, <2>3
    <3>2. QED
      BY <1>0, <1>12, <2>1, <3>1 DEF Populated, Connection
  <2>4. QED
    BY <2>2, <2>3
<1>16. HostSeated(gone)
  <2>1. PICK z \in HumanSeats(room) : room.seats[z].session = room.host
    BY <1>0 DEF Populated, HostSeated
  <2>2. z \in Seats
    BY <2>1 DEF HumanSeats
  <2>3. QED
    BY <1>10, <1>13, <2>1, <2>2 DEF HostSeated
<1>17. Seated(gone)
  <2>1. Seated(room)
    BY <1>0 DEF Populated
  <2>2. QED
    BY <1>10, <1>13, <2>1, ZenonT(40) DEF Seated
<1>18. Tasks(gone)
  BY <1>0, <1>12 DEF Tasks
<1>19. Covered(gone, queue')
  <2>1. \A y \in Live(gone) : y \in Live(room) /\ y # x /\ gone.sessions[y] = room.sessions[y]
    BY <1>12
  <2>2. QED
    BY <1>10, <2>1, CoveredStill
<1>20. QED
  BY <1>10, <1>12, <1>14, <1>15, <1>16, <1>17, <1>18, <1>19 DEF Fit, Populated, Inhabited

-----------------------------------------------------------------------------
(* From the Room an operation finds to the one it leaves.                   *)

\* The lobby shows the host, the seats and the start, and nothing else.
LEMMA PublicSame ==
  ASSUME NEW r, NEW t, t.host = r.host, t.seats = r.seats, (t.game = None) <=> (r.game = None)
  PROVE  Public(t) = Public(r)
<1>1. CASE r.game = None
  <2>1. (t.game # None) = FALSE /\ (r.game # None) = FALSE
    BY <1>1
  <2>2. QED
    BY <2>1 DEF Public
<1>2. CASE r.game # None
  <2>1. (t.game # None) = TRUE /\ (r.game # None) = TRUE
    BY <1>2
  <2>2. QED
    BY <2>1 DEF Public
<1>3. QED
  BY <1>1, <1>2

\* A Room's deadlines are covered by timers and expiries only.
LEMMA CoveredQueue ==
  ASSUME NEW r, NEW q, NEW p, Covered(r, q),
         \A op \in q : op.kind \in {"session", "idle", "abandoned"} => op \in p
  PROVE  Covered(r, p)
<1>1. \A kind \in {"session", "idle", "abandoned"} : \A x, d : Op(kind, x, d) \in q => Op(kind, x, d) \in p
  <2> SUFFICES ASSUME NEW kind \in {"session", "idle", "abandoned"}, NEW x, NEW d, Op(kind, x, d) \in q
               PROVE  Op(kind, x, d) \in p
    OBVIOUS
  <2>1. Op(kind, x, d).kind = kind
    BY DEF Op
  <2>2. QED
    BY <2>1
<1>2. QED
  BY <1>1 DEF Covered

\* An open Room is fit for the queue of the next state when that keeps its expiries.
LEMMA OpenFit ==
  ASSUME Open, NEW q, \A op \in queue : op.kind \in {"session", "idle", "abandoned"} => op \in q
  PROVE  Fit(room, q) /\ HostLive(room) /\ Synced(room) /\ Countable(room) /\ Reckoned(room)
<1>1. Covered(room, q)
  BY CoveredQueue DEF Open
<1>2. Countable(room) /\ Reckoned(room)
  BY DEF Open, Sound, Counting, Countable, Reckoned, Reason
<1>3. QED
  BY <1>1, <1>2 DEF Open, Sound, Fit

\* What others see changes with the revision only.
Follows(r) ==
    \/ r.revision = room.revision + 1
    \/ /\ r.revision = room.revision /\ r.host = room.host /\ r.seats = room.seats
       /\ (r.game = None) <=> (room.game = None)

\* A change that is fit and bumps the revision is saved and advances the Room.
LEMMA Persisted ==
  ASSUME Open, NEW r, Fit(r, queue'), HostLive(r), Synced(r), Countable(r), Follows(r), Persist(r)
  PROVE  Saved /\ Advances /\ Live(room)' = Live(r)
<1>0. now \in Nat /\ room.revision \in Nat
  BY RoomFields DEF Open
<1>1. PICK q : q = queue'
  OBVIOUS
<1>2. Fit(r, q)
  BY <1>1
<1>3. /\ Saved /\ room'.revision = r.revision /\ room'.host = r.host /\ room'.seats = r.seats
      /\ room'.sessions = r.sessions
      /\ (room'.game = None) <=> (r.game = None)
  BY <1>0, <1>1, <1>2, PersistSaved
<1>4. Live(room)' = Live(r)
  BY <1>3 DEF Live
<1>5. Advances
  <2>1. CASE r.revision = room.revision + 1
    BY <1>0, <1>3, <2>1 DEF Advances
  <2>2. CASE /\ r.revision = room.revision /\ r.host = room.host /\ r.seats = room.seats
             /\ (r.game = None) <=> (room.game = None)
    <3>1. Public(room)' = Public(room)
      <4>1. PICK t : t = room'
        OBVIOUS
      <4>2. Public(t) = Public(room)
        BY <1>3, <2>2, <4>1, PublicSame
      <4>3. QED
        BY <4>1, <4>2 DEF Public
    <3>2. QED
      BY <1>0, <1>3, <2>2, <3>1 DEF Advances
  <2>3. QED
    BY <2>1, <2>2 DEF Follows
<1>6. QED
  BY <1>3, <1>4, <1>5

-----------------------------------------------------------------------------
(* Expiry of a session.                                                     *)

\* A session has ended: its Room is saved, or closes.
LEMMA EndResult ==
  ASSUME Open, NEW x \in Live(room), room.sessions[x].deadline # None, QueueLess(x), EndSession(x)
  PROVE  /\ Saved \/ Closing
         /\ room'.revision = room.revision + 1 /\ Live(room)' = Live(room) \ {x}
<1>1. CASE room.game = None
  BY <1>1, DepartureResult DEF EndSession
<1>2. CASE room.game # None
  <2>1. PICK gone :
          /\ gone = BumpRevision([room EXCEPT
                !.sessions[x] = None,
                !.seats = [s \in Seats |->
                    IF s \in HumanSeats(room) /\ room.seats[s].session = x
                    THEN [room.seats[s] EXCEPT !.status = "DISCONNECTED"]
                    ELSE room.seats[s]]])
          /\ IF \A s \in HumanSeats(gone) : gone.seats[s].session \notin Live(gone)
             THEN CloseRoom(gone)
             ELSE Persist(SynchronizeGamePresence(ScheduleGameCleanup(TransferExpiredHost(gone))))
    BY <1>2 DEF EndSession
  <2>2. /\ gone \in RoomType /\ gone.revision = room.revision + 1 /\ gone.game = room.game
        /\ Live(gone) = Live(room) \ {x} /\ Tasks(gone)
        /\ Live(gone) # {} => Fit(gone, queue')
    BY <1>2, <2>1, GoneFacts
  <2>3. CASE \A s \in HumanSeats(gone) : gone.seats[s].session \notin Live(gone)
    <3>1. room' = gone /\ io' = "remove"
      BY <2>1, <2>3 DEF CloseRoom
    <3>2. QED
      BY <2>2, <3>1 DEF Closing
  <2>4. CASE ~(\A s \in HumanSeats(gone) : gone.seats[s].session \notin Live(gone))
    <3>1. PICK q : q = queue'
      OBVIOUS
    <3>2. Fit(gone, q)
      BY <2>2, <2>4, <3>1
    <3>3. PICK a : a = TransferExpiredHost(gone)
      OBVIOUS
    <3>4. PICK b : b = ScheduleGameCleanup(a)
      OBVIOUS
    <3>5. PICK c : c = SynchronizeGamePresence(b)
      OBVIOUS
    <3>6. Persist(c)
      BY <2>1, <2>4, <3>3, <3>4, <3>5
    <3>7. /\ Fit(a, q) /\ HostLive(a) /\ a.revision = gone.revision /\ a.sessions = gone.sessions
          /\ a.game = gone.game
      BY <3>2, <3>3, TransferFit
    <3>8. now \in Nat
      BY DEF Open
    <3>9. /\ Fit(b, q) /\ HostLive(b) /\ Reckoned(b) /\ b.revision = a.revision /\ b.sessions = a.sessions
      BY <1>2, <2>2, <3>4, <3>7, <3>8, CleanupFit
    <3>10. /\ Fit(c, q) /\ HostLive(c) /\ Synced(c) /\ Countable(c)
           /\ c.revision = b.revision /\ c.sessions = b.sessions
      BY <3>5, <3>9, SyncFit
    <3>11. Saved /\ room'.revision = c.revision /\ room'.sessions = c.sessions
      BY <3>1, <3>6, <3>8, <3>10, PersistSaved
    <3>12. QED
      BY <2>2, <3>7, <3>9, <3>10, <3>11 DEF Live
  <2>5. QED
    BY <2>3, <2>4
<1>3. QED
  BY <1>1, <1>2

\* A session is lost only after its deadline.
Kept == \A x \in Live(room) \ Live(room)' : room.sessions[x].deadline # None /\ room.sessions[x].deadline <= now

Outcome == (Saved \/ Closing \/ Rearmed) /\ Advances /\ Kept /\ Live(room)' \subseteq Live(room)

\* An operation that leaves everybody in.
LEMMA StaysOutcome ==
  ASSUME Open, NEW r, Fit(r, queue'), HostLive(r), Synced(r), Countable(r), Follows(r), Persist(r),
         Live(r) = Live(room)
  PROVE  Outcome
BY Persisted DEF Outcome, Kept

\* An operation that finds nothing to do.
LEMMA NothingOutcome ==
  ASSUME Open, room' = room, io' = io, Covered(room, queue')
  PROVE  Outcome
<1>1. Live(room)' = Live(room) /\ Tasks(room)' /\ Covered(room, queue)' /\ Public(room)' = Public(room)
  BY DEF Open, Live, Tasks, Covered, Public
<1>2. room.revision \in Nat /\ room \in RoomType
  BY RoomFields DEF Open
<1>3. QED
  BY <1>1, <1>2 DEF Outcome, Rearmed, Advances, Kept

\* Closing is an outcome.
LEMMA ClosingOutcome ==
  ASSUME Open, CloseRoom(room)
  PROVE  Outcome
<1>1. room' = room /\ io' = "remove"
  BY DEF CloseRoom
<1>2. Live(room)' = Live(room) /\ Tasks(room)' /\ Public(room)' = Public(room)
  BY <1>1 DEF Open, Live, Tasks, Public
<1>3. room.revision \in Nat /\ room \in RoomType
  BY RoomFields DEF Open
<1>4. QED
  BY <1>1, <1>2, <1>3 DEF Outcome, Closing, Advances, Kept

\* The ending of a session that had its whole grace.
LEMMA EndOutcome ==
  ASSUME Open, NEW x \in Live(room), room.sessions[x].deadline # None, room.sessions[x].deadline <= now,
         QueueLess(x), EndSession(x)
  PROVE  Outcome /\ (Saved \/ Closing)
<1>1. /\ Saved \/ Closing
      /\ room'.revision = room.revision + 1 /\ Live(room)' = Live(room) \ {x}
  BY EndResult
<1>2. room.revision \in Nat
  BY RoomFields DEF Open
<1>3. Advances
  BY <1>1, <1>2 DEF Advances
<1>4. QED
  BY <1>1, <1>3 DEF Outcome, Kept

\* The queue has lost at most one operation.
Lost(op) == \A other \in queue : other # op => other \in queue'

\* An expiry, whether stale, early or in time.
LEMMA ExpireOutcome ==
  ASSUME Open, NEW x, NEW d \in Nat, Lost(Op("session", x, d)), ExpireDisconnectedSession(x, d)
  PROVE  Outcome
<1>0. room \in RoomType /\ room # None
  BY NoneIsNothing DEF Open
<1>1. Op("session", x, d).kind = "session" /\ Op("session", x, d).session = x /\ Op("session", x, d).deadline = d
  BY DEF Op
<1>2. QueueLess(x)
  BY <1>1 DEF Lost, QueueLess
<1>3. \A kind, y, e : Op(kind, y, e) \in queue /\ (kind # "session" \/ y # x \/ e # d) => Op(kind, y, e) \in queue'
  <2> SUFFICES ASSUME NEW kind, NEW y, NEW e, Op(kind, y, e) \in queue, kind # "session" \/ y # x \/ e # d
               PROVE  Op(kind, y, e) \in queue'
    OBVIOUS
  <2>1. Op(kind, y, e).kind = kind /\ Op(kind, y, e).session = y /\ Op(kind, y, e).deadline = e
    BY DEF Op
  <2>2. Op(kind, y, e) # Op("session", x, d)
    BY <1>1, <2>1
  <2>3. QED
    BY <2>2 DEF Lost
<1>4. Covered(room, queue)
  BY DEF Open
<1>5. CASE x \notin Live(room) \/ room.sessions[x].deadline # d
  <2>1. room' = room /\ io' = io
    BY <1>5 DEF ExpireDisconnectedSession
  <2>2. Covered(room, queue')
    BY <1>3, <1>4, <1>5 DEF Covered
  <2>3. QED
    BY <2>1, <2>2, NothingOutcome
<1>6. CASE x \in Live(room) /\ room.sessions[x].deadline = d /\ d <= now
  <2>1. d # None
    BY RoomConstants
  <2>2. now \in Nat
    BY DEF Open
  <2>3. EndSession(x)
    BY <1>0, <1>6, <2>2 DEF ExpireDisconnectedSession
  <2>4. QED
    BY <1>2, <1>6, <2>1, <2>3, EndOutcome
<1>7. CASE x \in Live(room) /\ room.sessions[x].deadline = d /\ d > now
  <2>1. room' = [room EXCEPT !.sessions[x].task = d] /\ io' = io
    BY <1>0, <1>7 DEF ExpireDisconnectedSession, RearmSession
  <2>2. d \in Deadline /\ d # None
    BY RoomConstants DEF Deadline
  <2>3. PICK session \in SessionType : session = room.sessions[x] /\ session # None
    BY <1>0, <1>7, SessionFields
  <2>4. PICK new \in SessionType : /\ new = [session EXCEPT !.task = d] /\ new.seat = session.seat
                                   /\ new.deadline = session.deadline /\ new.task = d
    <3>1. [session EXCEPT !.task = d] \in SessionType
      BY <2>2 DEF SessionType
    <3>2. /\ [session EXCEPT !.task = d].seat = session.seat
          /\ [session EXCEPT !.task = d].deadline = session.deadline /\ [session EXCEPT !.task = d].task = d
      BY DEF SessionType
    <3>3. QED
      BY <3>1, <3>2
  <2>5. new # None
    BY <2>4, NoneIsNothing DEF SessionType
  <2>6. x \in Sessions
    BY <1>7 DEF Live
  <2>7. room' = [room EXCEPT !.sessions = [room.sessions EXCEPT ![x] = new]]
    BY <1>0, <2>1, <2>3, <2>4 DEF RoomType
  <2>8. [room.sessions EXCEPT ![x] = new] \in [Sessions -> {None} \cup SessionType]
    BY <1>0, <2>4, RoomFields
  <2>9. /\ room' \in RoomType /\ room'.revision = room.revision /\ room'.host = room.host /\ room'.seats = room.seats
        /\ room'.game = room.game /\ room'.idleDeadline = room.idleDeadline
        /\ room'.idleTask = room.idleTask /\ room'.abandonedTask = room.abandonedTask
        /\ room'.abandonedDeadline = room.abandonedDeadline
        /\ room'.sessions = [room.sessions EXCEPT ![x] = new]
    BY <1>0, <2>7, <2>8 DEF RoomType, SessionType
  <2>10. \A y \in Sessions : room'.sessions[y] = IF y = x THEN new ELSE room.sessions[y]
    BY <1>0, <2>9 DEF RoomType
  <2>11. Live(room)' = Live(room)
    BY <1>7, <2>5, <2>10 DEF Live
  <2>12. \A y \in Live(room) : /\ room'.sessions[y].seat = room.sessions[y].seat
                               /\ room'.sessions[y].deadline = room.sessions[y].deadline
    BY <2>3, <2>4, <2>10 DEF Live
  <2>13. Tasks(room)'
    <3> SUFFICES ASSUME NEW y \in Live(room), room'.sessions[y].task # None
                 PROVE  room'.sessions[y].deadline # None
      BY <2>11 DEF Tasks
    <3>1. CASE y = x
      BY <1>7, <2>2, <2>12, <3>1
    <3>2. CASE y # x
      BY <2>10, <3>2 DEF Open, Tasks, Live
    <3>3. QED
      BY <3>1, <3>2
  <2>14. Covered(room, queue)'
    <3>1. \A y \in Live(room) : room'.sessions[y].deadline # None =>
            room'.sessions[y].task # None \/ Op("session", y, room'.sessions[y].deadline) \in queue'
      <4> SUFFICES ASSUME NEW y \in Live(room), room'.sessions[y].deadline # None
                   PROVE  room'.sessions[y].task # None \/ Op("session", y, room'.sessions[y].deadline) \in queue'
        OBVIOUS
      <4>1. CASE y = x
        BY <2>2, <2>4, <2>6, <2>10, <4>1
      <4>2. CASE y # x
        <5>1. room'.sessions[y] = room.sessions[y]
          BY <2>10, <4>2 DEF Live
        <5>2. room.sessions[y].task # None \/ Op("session", y, room.sessions[y].deadline) \in queue
          BY <1>4, <5>1 DEF Covered
        <5>3. QED
          BY <1>3, <4>2, <5>1, <5>2
      <4>3. QED
        BY <4>1, <4>2
    <3>2. room'.game = None => room'.idleTask = room'.idleDeadline \/ Op("idle", None, room'.idleDeadline) \in queue'
      BY <1>3, <1>4, <2>9 DEF Covered
    <3>3. room'.abandonedDeadline # None =>
            room'.abandonedTask = room'.abandonedDeadline \/ Op("abandoned", None, room'.abandonedDeadline) \in queue'
      BY <1>3, <1>4, <2>9 DEF Covered
    <3>4. QED
      BY <2>11, <3>1, <3>2, <3>3 DEF Covered
  <2>15. Public(room)' = Public(room) /\ room.revision \in Nat
    BY <1>0, <2>9, RoomFields DEF Public
  <2>16. QED
    BY <2>1, <2>9, <2>11, <2>12, <2>13, <2>14, <2>15 DEF Outcome, Rearmed, Advances, Kept
<1>8. QED
  <2>1. d <= now \/ d > now
    BY DEF Open
  <2>2. QED
    BY <1>5, <1>6, <1>7, <2>1

-----------------------------------------------------------------------------
(* Changes of one seat.                                                     *)

\* A waiting Room keeps its Humans when a seat changes otherwise.
LEMMA SeatFit ==
  ASSUME NEW r, NEW q, Fit(r, q), r.game = None, NEW s \in Seats, NEW seat \in SeatType,
         (seat.occupancy = "HUMAN") <=> (r.seats[s].occupancy = "HUMAN"),
         seat.occupancy # "HUMAN" => seat.session = None,
         seat.occupancy = "HUMAN" => /\ seat.session = r.seats[s].session /\ seat.status = r.seats[s].status
                                     /\ seat.deadline = r.seats[s].deadline,
         NEW t, t = [r EXCEPT !.seats = [r.seats EXCEPT ![s] = seat]]
  PROVE  /\ Fit(t, q) /\ t.revision = r.revision /\ t.host = r.host /\ t.sessions = r.sessions
         /\ t.game = r.game /\ HostLive(t) /\ Synced(t)
         /\ Countable(r) => Countable(t)
<1>0. r \in RoomType /\ Populated(r) /\ Owned(r) /\ Connection(r) /\ HostSeated(r) /\ Inhabited(r) /\ Covered(r, q)
  BY DEF Fit, Populated
<1>1. [r.seats EXCEPT ![s] = seat] \in [Seats -> SeatType]
  BY <1>0, RoomFields
<1>2. /\ t \in RoomType /\ t.seats = [r.seats EXCEPT ![s] = seat]
      /\ t.revision = r.revision /\ t.host = r.host /\ t.sessions = r.sessions
      /\ t.idleDeadline = r.idleDeadline /\ t.idleTask = r.idleTask /\ t.game = r.game
      /\ t.abandonedDeadline = r.abandonedDeadline /\ t.abandonedTask = r.abandonedTask
  BY <1>0, <1>1 DEF RoomType
<1>3. \A z \in Seats : t.seats[z] = IF z = s THEN seat ELSE r.seats[z]
  BY <1>0, <1>2, RoomFields
<1>4. HumanSeats(t) = HumanSeats(r) /\ Live(t) = Live(r)
  BY <1>2, <1>3 DEF HumanSeats, Live
<1>5. \A z \in HumanSeats(r) : /\ z \in Seats /\ t.seats[z].session = r.seats[z].session
                               /\ t.seats[z].status = r.seats[z].status
                               /\ t.seats[z].deadline = r.seats[z].deadline
  BY <1>3 DEF HumanSeats
<1>6. ExpiredSeats(t) = ExpiredSeats(r)
  BY <1>4, <1>5 DEF ExpiredSeats
<1>7. Owned(t)
  <2>1. \A z \in Seats : t.seats[z].occupancy # "HUMAN" => t.seats[z].session = None
    BY <1>0, <1>3 DEF Owned
  <2>2. \A z \in HumanSeats(t) : t.seats[z].session \in Sessions
    BY <1>0, <1>4, <1>5 DEF Owned
  <2>3. \A y, z \in HumanSeats(t) : t.seats[y].session = t.seats[z].session => y = z
    <3> SUFFICES ASSUME NEW y \in HumanSeats(t), NEW z \in HumanSeats(t), t.seats[y].session = t.seats[z].session
                 PROVE  y = z
      OBVIOUS
    <3>1. r.seats[y].session = r.seats[z].session
      BY <1>4, <1>5
    <3>2. QED
      BY <1>0, <1>4, <3>1 DEF Owned
  <2>4. \A y \in Live(t) : /\ t.sessions[y].seat \in HumanSeats(t)
                           /\ t.seats[t.sessions[y].seat].session = y
                           /\ t.seats[t.sessions[y].seat].deadline = t.sessions[y].deadline
    <3> SUFFICES ASSUME NEW y \in Live(t)
                 PROVE  /\ t.sessions[y].seat \in HumanSeats(t)
                        /\ t.seats[t.sessions[y].seat].session = y
                        /\ t.seats[t.sessions[y].seat].deadline = t.sessions[y].deadline
      OBVIOUS
    <3>1. PICK z : z = r.sessions[y].seat
      OBVIOUS
    <3>2. z \in HumanSeats(r) /\ r.seats[z].session = y /\ r.seats[z].deadline = r.sessions[y].deadline
      BY <1>0, <1>4, <3>1 DEF Owned
    <3>3. QED
      BY <1>2, <1>4, <1>5, <3>1, <3>2
  <2>5. QED
    BY <2>1, <2>2, <2>3, <2>4 DEF Owned
<1>8. Connection(t)
  <2> SUFFICES ASSUME NEW z \in HumanSeats(t)
               PROVE  /\ t.seats[z].status \in {"CONNECTED", "RECONNECTING", "DISCONNECTED"}
                      /\ t.seats[z].status = "CONNECTED" <=> t.seats[z].deadline = None
                      /\ t.seats[z].status = "DISCONNECTED" <=> t.seats[z].session \notin Live(t)
    BY DEF Connection
  <2>1. QED
    BY <1>0, <1>4, <1>5 DEF Connection
<1>9. HostSeated(t)
  <2>1. PICK z \in HumanSeats(r) : r.seats[z].session = r.host
    BY <1>0 DEF HostSeated
  <2>2. QED
    BY <1>2, <1>4, <1>5, <2>1 DEF HostSeated
<1>10. Inhabited(t) /\ Seated(t) /\ Tasks(t) /\ Covered(t, q) /\ Synced(t)
  <2>1. Inhabited(t) /\ Seated(t) /\ Synced(t)
    BY <1>0, <1>2, <1>4, <1>6 DEF Inhabited, Seated, Synced
  <2>2. Tasks(t) /\ Covered(t, q)
    BY <1>0, <1>2, <1>4, TasksSame DEF Fit, Covered
  <2>3. QED
    BY <2>1, <2>2
<1>11. Countable(r) => Countable(t)
  BY <1>2 DEF Countable, Reason
<1>12. Populated(t)
  BY <1>7, <1>8, <1>9, <1>10 DEF Populated
<1>13. HostLive(t)
  BY <1>2, <1>12, WaitingHostLives
<1>14. QED
  BY <1>2, <1>10, <1>11, <1>12, <1>13 DEF Fit

\* A seat and its session lose their connection, or have it again.
LEMMA PresenceFit ==
  ASSUME NEW r, NEW q, Fit(r, q), Reckoned(r), NEW x \in Live(r),
         NEW seat \in SeatType, seat.occupancy = "HUMAN", seat.session = x,
         seat.status \in {"CONNECTED", "RECONNECTING"},
         (seat.status = "CONNECTED") <=> (seat.deadline = None),
         NEW session \in SessionType, session.seat = r.sessions[x].seat, session.deadline = seat.deadline,
         (session.deadline = None) <=> (session.task = None),
         NEW t \in RoomType, t.seats = [r.seats EXCEPT ![r.sessions[x].seat] = seat],
         t.sessions = [r.sessions EXCEPT ![x] = session],
         t.revision = r.revision, t.host = r.host, t.idleDeadline = r.idleDeadline, t.idleTask = r.idleTask,
         t.abandonedDeadline = r.abandonedDeadline, t.abandonedTask = r.abandonedTask, t.game = r.game
  PROVE  /\ Fit(t, q) /\ Reckoned(t) /\ t.revision = r.revision /\ t.host = r.host /\ t.game = r.game
         /\ Live(t) = Live(r)
         /\ HostLive(r) /\ seat.status = "RECONNECTING" => HostLive(t)
<1>23. PICK s, status, d, task : s = r.sessions[x].seat /\ status = seat.status /\ d = seat.deadline /\ task = session.task
  OBVIOUS
<1>0. /\ r \in RoomType /\ Populated(r) /\ Owned(r) /\ Connection(r) /\ HostSeated(r) /\ Inhabited(r)
      /\ Covered(r, q) /\ Tasks(r)
  BY DEF Fit, Populated
<1>1. /\ x \in Sessions /\ s \in HumanSeats(r) /\ s \in Seats /\ r.seats[s].session = x
      /\ r.seats[s].occupancy = "HUMAN" /\ r.seats[s].status # "DISCONNECTED"
  <2>1. x \in Sessions /\ s \in HumanSeats(r) /\ r.seats[s].session = x
    BY <1>0, <1>23 DEF Live, Owned
  <2>2. r.seats[s].status # "DISCONNECTED"
    BY <1>0, <2>1 DEF Connection
  <2>3. QED
    BY <2>1, <2>2 DEF HumanSeats
<1>2. seat.occupancy = "HUMAN" /\ seat.session = x /\ seat.status = status /\ seat.deadline = d
  BY <1>23
<1>3. session.seat = s /\ session.deadline = d /\ session.task = task
  BY <1>23
<1>4. session # None
  BY <1>3, NoneIsNothing DEF SessionType
<1>7. /\ t \in RoomType /\ t.seats = [r.seats EXCEPT ![s] = seat]
      /\ t.sessions = [r.sessions EXCEPT ![x] = session]
      /\ t.revision = r.revision /\ t.host = r.host
      /\ t.idleDeadline = r.idleDeadline /\ t.idleTask = r.idleTask /\ t.game = r.game
      /\ t.abandonedDeadline = r.abandonedDeadline /\ t.abandonedTask = r.abandonedTask
  BY <1>23
<1>8. /\ \A z \in Seats : t.seats[z] = IF z = s THEN seat ELSE r.seats[z]
      /\ \A y \in Sessions : t.sessions[y] = IF y = x THEN session ELSE r.sessions[y]
  BY <1>0, <1>7, RoomFields
<1>9. HumanSeats(t) = HumanSeats(r) /\ Live(t) = Live(r) /\ HumanSeats(r) \subseteq Seats /\ Live(r) \subseteq Sessions
  BY <1>1, <1>2, <1>4, <1>8 DEF HumanSeats, Live
<1>10. \A z \in Seats : /\ t.seats[z].session = r.seats[z].session
                        /\ t.seats[z].occupancy = r.seats[z].occupancy
  BY <1>1, <1>2, <1>8
<1>11. ExpiredSeats(t) = ExpiredSeats(r)
  BY <1>1, <1>2, <1>8, <1>9 DEF ExpiredSeats
<1>12. \A y \in Live(r) : t.sessions[y].seat = r.sessions[y].seat
  BY <1>3, <1>8, <1>9
<1>13. Owned(t)
  <2>1. \A z \in Seats : t.seats[z].occupancy # "HUMAN" => t.seats[z].session = None
    BY <1>0, <1>10 DEF Owned
  <2>2. \A z \in HumanSeats(t) : t.seats[z].session \in Sessions
    BY <1>0, <1>9, <1>10 DEF Owned
  <2>3. \A y, z \in HumanSeats(t) : t.seats[y].session = t.seats[z].session => y = z
    <3> SUFFICES ASSUME NEW y \in HumanSeats(t), NEW z \in HumanSeats(t), t.seats[y].session = t.seats[z].session
                 PROVE  y = z
      OBVIOUS
    <3>1. r.seats[y].session = r.seats[z].session
      BY <1>9, <1>10
    <3>2. QED
      BY <1>0, <1>9, <3>1 DEF Owned
  <2>4. \A y \in Live(t) : /\ t.sessions[y].seat \in HumanSeats(t)
                           /\ t.seats[t.sessions[y].seat].session = y
                           /\ t.seats[t.sessions[y].seat].deadline = t.sessions[y].deadline
    <3> SUFFICES ASSUME NEW y \in Live(t)
                 PROVE  /\ t.sessions[y].seat \in HumanSeats(t)
                        /\ t.seats[t.sessions[y].seat].session = y
                        /\ t.seats[t.sessions[y].seat].deadline = t.sessions[y].deadline
      OBVIOUS
    <3>1. PICK z : z = r.sessions[y].seat
      OBVIOUS
    <3>2. /\ z \in HumanSeats(r) /\ r.seats[z].session = y /\ r.seats[z].deadline = r.sessions[y].deadline
          /\ z \in Seats
      BY <1>0, <1>9, <3>1 DEF Owned
    <3>3. z = s <=> y = x
      BY <1>1, <1>23, <3>1, <3>2
    <3>4. t.seats[z].deadline = t.sessions[y].deadline
      BY <1>2, <1>3, <1>8, <1>9, <3>2, <3>3
    <3>5. QED
      BY <1>9, <1>10, <1>12, <3>1, <3>2, <3>4
  <2>5. QED
    BY <2>1, <2>2, <2>3, <2>4 DEF Owned
<1>14. Connection(t)
  <2> SUFFICES ASSUME NEW z \in HumanSeats(t)
               PROVE  /\ t.seats[z].status \in {"CONNECTED", "RECONNECTING", "DISCONNECTED"}
                      /\ t.seats[z].status = "CONNECTED" <=> t.seats[z].deadline = None
                      /\ t.seats[z].status = "DISCONNECTED" <=> t.seats[z].session \notin Live(t)
    BY DEF Connection
  <2>1. CASE z = s
    BY <1>1, <1>2, <1>8, <1>9, <1>23, <2>1
  <2>2. CASE z # s
    BY <1>0, <1>8, <1>9, <2>2 DEF Connection
  <2>3. QED
    BY <2>1, <2>2
<1>15. HostSeated(t)
  <2>1. PICK z \in HumanSeats(r) : r.seats[z].session = r.host
    BY <1>0 DEF HostSeated
  <2>2. QED
    BY <1>7, <1>9, <1>10, <2>1 DEF HostSeated
<1>16. Inhabited(t)
  BY <1>0, <1>7, <1>9, <1>11 DEF Inhabited
<1>17. Seated(t)
  <2>1. Seated(r)
    BY <1>0 DEF Populated
  <2>2. t.game = r.game /\ HumanSeats(t) = HumanSeats(r)
    BY <1>7, <1>9
  <2>3. QED
    BY <1>10, <2>1, <2>2 DEF Seated
<1>18. Tasks(t)
  BY <1>0, <1>3, <1>8, <1>9, <1>23 DEF Tasks
<1>19. Covered(t, q)
  <2>1. \A y \in Live(t) : t.sessions[y].deadline # None =>
          t.sessions[y].task # None \/ Op("session", y, t.sessions[y].deadline) \in q
    <3> SUFFICES ASSUME NEW y \in Live(t), t.sessions[y].deadline # None
                 PROVE  t.sessions[y].task # None \/ Op("session", y, t.sessions[y].deadline) \in q
      OBVIOUS
    <3>1. CASE y = x
      BY <1>1, <1>3, <1>8, <1>23, <3>1
    <3>2. CASE y # x
      BY <1>0, <1>8, <1>9, <3>2 DEF Covered
    <3>3. QED
      BY <3>1, <3>2
  <2>2. QED
    BY <1>0, <1>7, <2>1 DEF Covered
<1>20. Reckoned(t)
  BY <1>7, <1>11 DEF Reckoned, Reason, Finished
<1>21. HostLive(r) /\ seat.status = "RECONNECTING" => HostLive(t)
  <2> SUFFICES ASSUME HostLive(r), seat.status = "RECONNECTING", ConnectedSeats(t) # {}
               PROVE  t.host \in Live(t)
    BY DEF HostLive
  <2>1. PICK z \in HumanSeats(t) : t.seats[z].status = "CONNECTED"
    BY DEF ConnectedSeats
  <2>2. z # s
    BY <1>1, <1>2, <1>8, <2>1
  <2>3. z \in ConnectedSeats(r)
    BY <1>8, <1>9, <2>1, <2>2 DEF ConnectedSeats
  <2>4. QED
    BY <1>7, <1>9, <2>3 DEF HostLive
<1>22. QED
  BY <1>7, <1>9, <1>13, <1>14, <1>15, <1>16, <1>17, <1>18, <1>19, <1>20, <1>21 DEF Fit, Populated

-----------------------------------------------------------------------------
(* The operations of attached clients.                                      *)

\* The synchronisation, touch and save that end most operations.
LEMMA SyncedOutcome ==
  ASSUME Open, NEW r, Fit(r, queue'), HostLive(r), Reckoned(r), Live(r) = Live(room), Follows(r),
         Persist(TouchRoom(SynchronizeGamePresence(r))) \/ Persist(SynchronizeGamePresence(r))
  PROVE  Outcome
<1>0. now \in Nat
  BY DEF Open
<1>1. PICK q : q = queue'
  OBVIOUS
<1>2. PICK a : a = SynchronizeGamePresence(r)
  OBVIOUS
<1>3. Fit(r, q)
  BY <1>1
<1>4. /\ Fit(a, q) /\ HostLive(a) /\ Synced(a) /\ Countable(a)
      /\ a.revision = r.revision /\ a.host = r.host /\ a.seats = r.seats /\ a.sessions = r.sessions
      /\ (a.game = None) <=> (r.game = None)
  BY <1>2, <1>3, SyncFit
<1>5. Live(a) = Live(room) /\ Follows(a)
  <2>1. Live(a) = Live(r)
    BY <1>4 DEF Live
  <2>2. Follows(a)
    BY <1>4 DEF Follows
  <2>3. QED
    BY <2>1, <2>2
<1>6. CASE Persist(a)
  BY <1>1, <1>4, <1>5, <1>6, StaysOutcome
<1>7. CASE Persist(TouchRoom(a))
  <2>1. PICK b : b = TouchRoom(a)
    OBVIOUS
  <2>2. Fit(b, q) /\ HostLive(b) /\ Synced(b) /\ Countable(b)
    BY <1>0, <1>4, <2>1, TouchFit
  <2>3. a \in RoomType
    BY <1>4 DEF Fit
  <2>4. /\ b.revision = a.revision /\ b.host = a.host /\ b.seats = a.seats /\ b.sessions = a.sessions
        /\ b.game = a.game
    BY <1>0, <2>1, <2>3, TouchFacts
  <2>5. Live(b) = Live(room)
    BY <1>5, <2>4 DEF Live
  <2>6. Follows(b)
    BY <1>5, <2>4 DEF Follows
  <2>7. QED
    BY <1>1, <1>7, <2>1, <2>2, <2>5, <2>6, StaysOutcome
<1>8. QED
  BY <1>2, <1>6, <1>7

\* A resume, in time or too late.
LEMMA ResumeOutcome ==
  ASSUME Open, queue' = queue, NEW x \in Sessions, ResumeSession(x)
  PROVE  Outcome
<1>0. room \in RoomType /\ now \in Nat /\ x \in Live(room) /\ Owned(room) /\ Connection(room) /\ room.revision \in Nat
  BY RoomFields DEF Open, Sound, Populated, ResumeSession, Member
<1>1. PICK q : q = queue'
  OBVIOUS
<1>2. /\ Fit(room, q) /\ HostLive(room) /\ Reckoned(room)
  BY <1>1, OpenFit
<1>8. PICK s, d : s = room.sessions[x].seat /\ d = room.sessions[x].deadline
  OBVIOUS
<1>9. PICK kept : kept = [room EXCEPT !.sessions[x].task = None, !.sessions[x].deadline = None]
  OBVIOUS
<1>10. PICK back : back = IF room.seats[s].status = "CONNECTED" THEN kept
                          ELSE BumpRevision([kept EXCEPT !.seats[s].status = "CONNECTED",
                                                         !.seats[s].deadline = None])
  OBVIOUS
<1>3. IF d # None /\ now >= d
      THEN ExpireDisconnectedSession(x, d)
      ELSE Persist(TouchRoom(SynchronizeGamePresence(TransferExpiredHost(back))))
  <2>1. IF room.sessions[x].deadline # None /\ now >= room.sessions[x].deadline
        THEN ExpireDisconnectedSession(x, room.sessions[x].deadline)
        ELSE Persist(TouchRoom(SynchronizeGamePresence(TransferExpiredHost(
                IF room.seats[room.sessions[x].seat].status = "CONNECTED"
                THEN [room EXCEPT !.sessions[x].task = None, !.sessions[x].deadline = None]
                ELSE BumpRevision([[room EXCEPT !.sessions[x].task = None, !.sessions[x].deadline = None]
                        EXCEPT !.seats[room.sessions[x].seat].status = "CONNECTED",
                               !.seats[room.sessions[x].seat].deadline = None])))))
    BY Zenon DEF ResumeSession
  <2>2. back = IF room.seats[room.sessions[x].seat].status = "CONNECTED"
                THEN [room EXCEPT !.sessions[x].task = None, !.sessions[x].deadline = None]
                ELSE BumpRevision([[room EXCEPT !.sessions[x].task = None, !.sessions[x].deadline = None]
                        EXCEPT !.seats[room.sessions[x].seat].status = "CONNECTED",
                               !.seats[room.sessions[x].seat].deadline = None])
    BY <1>8, <1>9, <1>10
  <2>3. QED
    BY <1>8, <2>1, <2>2, Zenon
<1>4. /\ s \in HumanSeats(room) /\ s \in Seats /\ room.seats[s].session = x
      /\ room.seats[s].deadline = d /\ d \in Deadline
  <2>1. s \in HumanSeats(room) /\ room.seats[s].session = x /\ room.seats[s].deadline = d
    BY <1>0, <1>3, <1>8, <1>9, <1>10 DEF Owned
  <2>2. QED
    BY <1>0, <1>3, <1>8, <1>9, <1>10, <2>1, SessionFields DEF HumanSeats
<1>5. CASE d # None /\ now >= d
  <2>1. d \in Nat
    BY <1>4, <1>5 DEF Deadline
  <2>2. Lost(Op("session", x, d))
    BY DEF Lost
  <2>3. QED
    BY <1>3, <1>8, <1>9, <1>10, <1>5, <2>1, <2>2, ExpireOutcome
<1>6. CASE ~(d # None /\ now >= d)
  <2>0. PICK a : a = TransferExpiredHost(back) /\ Persist(TouchRoom(SynchronizeGamePresence(a)))
    BY <1>3, <1>8, <1>9, <1>10, <1>6
  <2>1. PICK session \in SessionType : session = room.sessions[x] /\ session # None
    BY <1>0, SessionFields
  <2>2. kept = [room EXCEPT !.sessions = [room.sessions EXCEPT ![x] =
                                            [room.sessions[x] EXCEPT !.deadline = None, !.task = None]]]
    <3>1. [room EXCEPT !.sessions[x].task = None, !.sessions[x].deadline = None]
            = [room EXCEPT !.sessions = [room.sessions EXCEPT ![x] =
                                            [room.sessions[x] EXCEPT !.task = None, !.deadline = None]]]
      BY <1>0 DEF RoomType
    <3>2. [session EXCEPT !.task = None, !.deadline = None] = [session EXCEPT !.deadline = None, !.task = None]
      BY DEF SessionType
    <3>3. QED
      BY <1>3, <1>8, <1>9, <1>10, <2>1, <3>1, <3>2
  <2>3. CASE room.seats[s].status = "CONNECTED"
    <3>1. d = None /\ session.deadline = None /\ session.task = None
      BY <1>0, <1>3, <1>8, <1>9, <1>10, <1>4, <2>1, <2>3 DEF Connection, Open, Tasks
    <3>2. [session EXCEPT !.deadline = None, !.task = None] = session
      BY <3>1 DEF SessionType
    <3>3. [room.sessions EXCEPT ![x] = room.sessions[x]] = room.sessions
      BY <1>0, RoomFields
    <3>4. kept = [room EXCEPT !.sessions = room.sessions]
      BY <2>1, <2>2, <3>2, <3>3
    <3>5. kept = room
      BY <1>0, <3>4 DEF RoomType
    <3>6. back = room
      BY <1>3, <1>8, <1>9, <1>10, <2>3, <3>5
    <3>7. a = room
      BY <1>2, <2>0, <3>6, TransferFit
    <3>8. Follows(room)
      BY DEF Follows
    <3>9. QED
      BY <1>1, <1>2, <2>0, <3>7, <3>8, SyncedOutcome
  <2>4. CASE room.seats[s].status # "CONNECTED"
    <3>1. PICK t : t = [room EXCEPT !.seats = [room.seats EXCEPT ![s] = [room.seats[s] EXCEPT
                                                    !.status = "CONNECTED", !.deadline = None]],
                                    !.sessions = [room.sessions EXCEPT ![x] =
                                                    [room.sessions[x] EXCEPT !.deadline = None, !.task = None]]]
      OBVIOUS
    <3>2. [kept EXCEPT !.seats[s].status = "CONNECTED", !.seats[s].deadline = None] = t
      <4>1. PICK seat \in SeatType : seat = room.seats[s]
        BY <1>0, <1>4, RoomFields
      <4>2. PICK sessions : /\ sessions = [room.sessions EXCEPT ![x] =
                                            [room.sessions[x] EXCEPT !.deadline = None, !.task = None]]
                            /\ kept = [room EXCEPT !.sessions = sessions]
        BY <2>2
      <4>6. kept \in RoomType
        <5>1. [session EXCEPT !.deadline = None, !.task = None] \in SessionType
          BY DEF SessionType, Deadline
        <5>2. sessions \in [Sessions -> {None} \cup SessionType]
          BY <1>0, <2>1, <4>2, <5>1, RoomFields
        <5>3. QED
          BY <1>0, <4>2, <5>2 DEF RoomType, SessionType
      <4>3. [kept EXCEPT !.seats[s].status = "CONNECTED", !.seats[s].deadline = None]
              = [kept EXCEPT !.seats = [kept.seats EXCEPT ![s] = [kept.seats[s] EXCEPT
                                                    !.status = "CONNECTED", !.deadline = None]]]
        BY <4>6 DEF RoomType
      <4>4. kept.seats = room.seats
        BY <1>0, <4>2 DEF RoomType
      <4>5. QED
        BY <1>0, <3>1, <4>2, <4>3, <4>4, ZenonT(40) DEF RoomType
    <3>3. None \in Deadline
      BY DEF Deadline
    <3>4. Fit(t, q) /\ Reckoned(t) /\ t.revision = room.revision /\ Live(t) = Live(room)
      <4>1. PICK connected \in {"CONNECTED", "RECONNECTING"}, none \in Deadline : connected = "CONNECTED" /\ none = None
        BY <3>3
      <4>2. PICK seat \in SeatType : /\ seat = [room.seats[s] EXCEPT !.status = connected, !.deadline = none]
                                     /\ seat.occupancy = "HUMAN" /\ seat.session = x
                                     /\ seat.status = connected /\ seat.deadline = none
        <5>1. PICK old \in SeatType : old = room.seats[s]
          BY <1>0, <1>4, RoomFields
        <5>2. [old EXCEPT !.status = connected, !.deadline = none] \in SeatType
          BY DEF SeatType
        <5>3. /\ [old EXCEPT !.status = connected, !.deadline = none].occupancy = old.occupancy
              /\ [old EXCEPT !.status = connected, !.deadline = none].session = old.session
              /\ [old EXCEPT !.status = connected, !.deadline = none].status = connected
              /\ [old EXCEPT !.status = connected, !.deadline = none].deadline = none
          BY DEF SeatType
        <5>4. old.occupancy = "HUMAN" /\ old.session = x
          BY <1>4, <5>1 DEF HumanSeats
        <5>5. QED
          BY <5>1, <5>2, <5>3, <5>4
      <4>4. PICK new \in SessionType : /\ new = [session EXCEPT !.deadline = none, !.task = none]
                                       /\ new.seat = session.seat /\ new.deadline = none /\ new.task = none
        <5>1. [session EXCEPT !.deadline = none, !.task = none] \in SessionType
          BY DEF SessionType
        <5>2. /\ [session EXCEPT !.deadline = none, !.task = none].seat = session.seat
              /\ [session EXCEPT !.deadline = none, !.task = none].deadline = none
              /\ [session EXCEPT !.deadline = none, !.task = none].task = none
          BY DEF SessionType
        <5>3. QED
          BY <5>1, <5>2
      <4>5. t = [room EXCEPT !.seats = [room.seats EXCEPT ![s] = seat], !.sessions = [room.sessions EXCEPT ![x] = new]]
        BY <2>1, <3>1, <4>1, <4>2, <4>4
      <4>7. /\ [room.seats EXCEPT ![s] = seat] \in [Seats -> SeatType]
            /\ [room.sessions EXCEPT ![x] = new] \in [Sessions -> {None} \cup SessionType]
        BY <1>0, RoomFields
      <4>8. /\ t \in RoomType /\ t.seats = [room.seats EXCEPT ![room.sessions[x].seat] = seat]
            /\ t.sessions = [room.sessions EXCEPT ![x] = new]
            /\ t.revision = room.revision /\ t.host = room.host
            /\ t.idleDeadline = room.idleDeadline /\ t.idleTask = room.idleTask /\ t.game = room.game
            /\ t.abandonedDeadline = room.abandonedDeadline /\ t.abandonedTask = room.abandonedTask
        BY <1>0, <1>8, <4>5, <4>7 DEF RoomType, SessionType
      <4>6. /\ x \in Live(room) /\ Fit(room, q) /\ Reckoned(room) /\ new.seat = room.sessions[x].seat
            /\ new.deadline = none /\ new.task = none
            /\ (seat.status = "CONNECTED") <=> (seat.deadline = None)
            /\ (new.deadline = None) <=> (new.task = None)
            /\ seat.occupancy = "HUMAN" /\ seat.session = x /\ new.deadline = seat.deadline
            /\ seat.status \in {"CONNECTED", "RECONNECTING"}
        BY <1>0, <1>2, <1>8, <2>1, <4>1, <4>2, <4>4
      <4>3. QED
        BY <4>6, <4>8, PresenceFit
    <3>5. back = BumpRevision(t)
      BY <1>3, <1>8, <1>9, <1>10, <2>4, <3>2
    <3>6. Fit(back, q) /\ Reckoned(back) /\ back.revision = room.revision + 1 /\ Live(back) = Live(room)
      <4>1. t \in RoomType
        BY <3>4 DEF Fit
      <4>2. QED
        BY <3>4, <3>5, <4>1, BumpFit, BumpFacts DEF Live
    <3>7. Fit(a, q) /\ HostLive(a) /\ Reckoned(a) /\ a.revision = back.revision /\ a.sessions = back.sessions
      BY <2>0, <3>6, TransferFit
    <3>8. Live(a) = Live(room) /\ Follows(a)
      BY <3>6, <3>7 DEF Live, Follows
    <3>9. QED
      BY <1>1, <2>0, <3>7, <3>8, SyncedOutcome
  <2>5. QED
    BY <2>3, <2>4
<1>7. QED
  BY <1>5, <1>6

\* A changed or unchanged seat of a waiting Room, touched.
LEMMA SeatOutcome ==
  ASSUME Open, queue' = queue, room.game = None, NEW s \in Seats, NEW seat \in SeatType, NEW touched,
         touched = TouchRoom(room),
         (seat.occupancy = "HUMAN") <=> (room.seats[s].occupancy = "HUMAN"),
         seat.occupancy # "HUMAN" => seat.session = None,
         seat.occupancy = "HUMAN" => /\ seat.session = room.seats[s].session /\ seat.status = room.seats[s].status
                                     /\ seat.deadline = room.seats[s].deadline,
         \/ Persist(touched)
         \/ Persist(BumpRevision([touched EXCEPT !.seats = [touched.seats EXCEPT ![s] = seat]]))
  PROVE  Outcome
<1>0. now \in Nat /\ room \in RoomType
  BY DEF Open
<1>1. PICK q : q = queue'
  OBVIOUS
<1>2. Fit(room, q) /\ HostLive(room) /\ Synced(room) /\ Countable(room)
  BY <1>1, OpenFit
<1>3. Fit(touched, q) /\ HostLive(touched) /\ Synced(touched) /\ Countable(touched)
  BY <1>0, <1>2, TouchFit
<1>4. /\ touched.revision = room.revision /\ touched.host = room.host /\ touched.seats = room.seats
      /\ touched.sessions = room.sessions /\ touched.game = room.game
  BY <1>0, TouchFacts
<1>5. CASE Persist(touched)
  <2>1. Live(touched) = Live(room)
    BY <1>4 DEF Live
  <2>2. Follows(touched)
    BY <1>4 DEF Follows
  <2>3. QED
    BY <1>1, <1>3, <1>5, <2>1, <2>2, StaysOutcome
<1>6. CASE Persist(BumpRevision([touched EXCEPT !.seats = [touched.seats EXCEPT ![s] = seat]]))
  <2>1. PICK t : t = [touched EXCEPT !.seats = [touched.seats EXCEPT ![s] = seat]]
    OBVIOUS
  <2>2. PICK g : g = BumpRevision(t)
    OBVIOUS
  <2>3. /\ Fit(t, q) /\ t.revision = touched.revision /\ t.sessions = touched.sessions
        /\ HostLive(t) /\ Synced(t) /\ Countable(t)
    BY <1>3, <1>4, <2>1, SeatFit
  <2>4. t \in RoomType
    BY <2>3 DEF Fit
  <2>5. /\ Fit(g, q) /\ HostLive(g) /\ Synced(g) /\ Countable(g)
        /\ g.revision = t.revision + 1 /\ g.sessions = t.sessions
    BY <2>2, <2>3, <2>4, BumpFit, BumpFacts
  <2>6. Live(g) = Live(room) /\ Follows(g)
    BY <1>4, <2>3, <2>5 DEF Live, Follows
  <2>7. QED
    BY <1>1, <1>6, <2>1, <2>2, <2>5, <2>6, StaysOutcome
<1>7. QED
  BY <1>5, <1>6

\* A member becomes ready, or no longer is.
LEMMA ReadyOutcome ==
  ASSUME Open, queue' = queue, NEW x \in Sessions, NEW ready \in BOOLEAN, SetReady(x, ready)
  PROVE  Outcome
<1>0. /\ room \in RoomType /\ x \in Live(room) /\ Owned(room) /\ room.game = None /\ now \in Nat
  BY DEF Open, Sound, Populated, SetReady, Member
<1>1. PICK s \in Seats : s = SeatOf(x)
  BY <1>0, SessionFields DEF SeatOf
<1>2. PICK touched : touched = TouchRoom(room)
  OBVIOUS
<1>3. touched \in RoomType /\ touched.seats = room.seats
  BY <1>0, <1>2, TouchFacts
<1>4. PICK old \in SeatType : old = room.seats[s]
  BY <1>0, RoomFields
<1>5. PICK seat \in SeatType : /\ seat = [old EXCEPT !.ready = ready] /\ seat.occupancy = old.occupancy
                               /\ seat.session = old.session /\ seat.status = old.status
                               /\ seat.deadline = old.deadline
  <2>1. [old EXCEPT !.ready = ready] \in SeatType
    BY DEF SeatType
  <2>2. /\ [old EXCEPT !.ready = ready].occupancy = old.occupancy
        /\ [old EXCEPT !.ready = ready].session = old.session
        /\ [old EXCEPT !.ready = ready].status = old.status
        /\ [old EXCEPT !.ready = ready].deadline = old.deadline
    BY DEF SeatType
  <2>3. QED
    BY <2>1, <2>2
<1>6. [touched EXCEPT !.seats[s].ready = ready] = [touched EXCEPT !.seats = [touched.seats EXCEPT ![s] = seat]]
  BY <1>3, <1>4, <1>5 DEF RoomType
<1>7. \/ Persist(touched)
      \/ Persist(BumpRevision([touched EXCEPT !.seats[s].ready = ready]))
  BY <1>1, <1>2 DEF SetReady
<1>8. \/ Persist(touched)
      \/ Persist(BumpRevision([touched EXCEPT !.seats = [touched.seats EXCEPT ![s] = seat]]))
  BY <1>6, <1>7
<1>9. seat.occupancy # "HUMAN" => seat.session = None
  BY <1>0, <1>4, <1>5 DEF Owned
<1>10. QED
  BY <1>0, <1>2, <1>4, <1>5, <1>8, <1>9, SeatOutcome, ZenonT(40)

\* The Host gives a seat to an AI player, or empties it.
LEMMA AiSeatOutcome ==
  ASSUME Open, queue' = queue, NEW x \in Sessions, NEW s \in Seats, NEW seat \in {EmptySeat, AiSeat},
         SetAiSeat(x, s, seat)
  PROVE  Outcome
<1>1. PICK touched : touched = TouchRoom(room)
  OBVIOUS
<1>2. seat \in SeatType /\ seat.occupancy # "HUMAN" /\ seat.session = None
  <2>1. EmptySeat.occupancy # "HUMAN" /\ EmptySeat.session = None
    BY DEF EmptySeat
  <2>2. AiSeat.occupancy # "HUMAN" /\ AiSeat.session = None
    BY DEF AiSeat, EmptySeat
  <2>3. QED
    BY <2>1, <2>2, SeatsTyped
<1>3. room.game = None /\ room.seats[s].occupancy # "HUMAN"
  BY DEF SetAiSeat
<1>4. room \in RoomType /\ now \in Nat
  BY DEF Open
<1>5. touched \in RoomType
  BY <1>1, <1>4, TouchFacts
<1>6. [touched EXCEPT !.seats[s] = seat] = [touched EXCEPT !.seats = [touched.seats EXCEPT ![s] = seat]]
  BY <1>5 DEF RoomType
<1>7. Persist(touched) \/ Persist(BumpRevision([touched EXCEPT !.seats[s] = seat]))
  BY <1>1 DEF SetAiSeat
<1>8. QED
  BY <1>1, <1>2, <1>3, <1>6, <1>7, SeatOutcome

\* A snapshot touches the Room.
LEMMA SnapshotOutcome ==
  ASSUME Open, queue' = queue, Persist(TouchRoom(room))
  PROVE  Outcome
<1>0. now \in Nat /\ room \in RoomType
  BY DEF Open
<1>1. PICK q : q = queue'
  OBVIOUS
<1>2. Fit(room, q) /\ HostLive(room) /\ Synced(room) /\ Countable(room)
  BY <1>1, OpenFit
<1>3. PICK t : t = TouchRoom(room)
  OBVIOUS
<1>4. Fit(t, q) /\ HostLive(t) /\ Synced(t) /\ Countable(t)
  BY <1>0, <1>2, <1>3, TouchFit
<1>5. /\ t.revision = room.revision /\ t.host = room.host /\ t.seats = room.seats
      /\ t.sessions = room.sessions /\ t.game = room.game
  BY <1>0, <1>3, TouchFacts
<1>6. Live(t) = Live(room)
  BY <1>5 DEF Live
<1>7. Follows(t)
  BY <1>5 DEF Follows
<1>8. QED
  BY <1>1, <1>3, <1>4, <1>6, <1>7, StaysOutcome

\* A member leaves.
LEMMA LeaveResult ==
  ASSUME Open, queue' = queue, NEW x \in Sessions, LeaveRoom(x)
  PROVE  (Saved \/ Closing) /\ Advances /\ Live(room)' \subseteq Live(room)
<1>1. /\ x \in Live(room) /\ room.game = None
      /\ AfterDeparture(BumpRevision(RemoveSessionAndSeat(room, x)), x)
  BY DEF LeaveRoom, Member
<1>2. QueueLess(x)
  BY DEF QueueLess
<1>3. /\ Saved \/ Closing
      /\ room'.revision = room.revision + 1 /\ Live(room)' = Live(room) \ {x}
  BY <1>1, <1>2, DepartureResult
<1>4. room.revision \in Nat
  BY RoomFields DEF Open
<1>5. QED
  BY <1>3, <1>4 DEF Advances

\* A new member takes an empty seat of a waiting Room.
LEMMA JoinResult ==
  ASSUME Open, queue' = queue, Live(room) \subseteq issued, JoinRoom
  PROVE  \E x \in Sessions \ issued : /\ issued' = issued \cup {x}
                                      /\ Saved /\ Advances /\ Live(room)' = Live(room) \cup {x}
<1>0. /\ room \in RoomType /\ now \in Nat /\ Populated(room) /\ Owned(room) /\ Connection(room) /\ HostSeated(room)
      /\ Inhabited(room) /\ room.game = None /\ room.revision \in Nat /\ Tasks(room)
  BY RoomFields DEF Open, Sound, Populated, JoinRoom
<1>1. PICK q : q = queue'
  OBVIOUS
<1>2. Fit(room, q) /\ Synced(room) /\ Countable(room)
  BY <1>1, OpenFit
<1>3. PICK free, s : free = {z \in Seats : room.seats[z].occupancy = "EMPTY"} /\ s = First(free)
  OBVIOUS
<1>4. PICK x \in Sessions \ issued :
        /\ free # {} /\ issued' = issued \cup {x}
        /\ Persist(TouchRoom(BumpRevision([room EXCEPT !.seats[s] = HumanSeat(x), !.sessions[x] = NewSession(s)])))
  BY <1>3, Zenon DEF JoinRoom
<1>5. s \in Seats /\ room.seats[s].occupancy = "EMPTY" /\ s \notin HumanSeats(room)
  <2>1. free \subseteq Seats
    BY <1>3
  <2>2. s \in free
    BY <1>3, <1>4, <2>1, FirstIsMember
  <2>3. QED
    BY <1>3, <2>2 DEF HumanSeats
<1>6. x \notin Live(room) /\ x # None
  BY <1>4, RoomConstants
<1>7. \A z \in HumanSeats(room) : room.seats[z].session \in Live(room)
  BY <1>0 DEF Connection, Inhabited, ExpiredSeats
<1>8. PICK seat \in SeatType : /\ seat = HumanSeat(x) /\ seat.occupancy = "HUMAN" /\ seat.session = x
                               /\ seat.status = "CONNECTED" /\ seat.deadline = None
  <2>1. x \in Sessions \cup {None} /\ None \in Deadline
    BY DEF Deadline
  <2>2. HumanSeat(x) \in SeatType
    BY <2>1 DEF HumanSeat, SeatType
  <2>3. /\ HumanSeat(x).occupancy = "HUMAN" /\ HumanSeat(x).session = x
        /\ HumanSeat(x).status = "CONNECTED" /\ HumanSeat(x).deadline = None
    BY DEF HumanSeat
  <2>4. QED
    BY <2>2, <2>3
<1>9. PICK session \in SessionType : /\ session = NewSession(s) /\ session.seat = s
                                     /\ session.deadline = None /\ session.task = None
  <2>1. None \in Deadline
    BY DEF Deadline
  <2>2. NewSession(s) \in SessionType
    BY <1>5, <2>1 DEF NewSession, SessionType
  <2>3. NewSession(s).seat = s /\ NewSession(s).deadline = None /\ NewSession(s).task = None
    BY DEF NewSession
  <2>4. QED
    BY <2>2, <2>3
<1>10. session # None
  BY <1>9, NoneIsNothing DEF SessionType
<1>11. PICK t : t = [room EXCEPT !.seats = [room.seats EXCEPT ![s] = seat],
                                 !.sessions = [room.sessions EXCEPT ![x] = session]]
  OBVIOUS
<1>12. [room EXCEPT !.seats[s] = HumanSeat(x), !.sessions[x] = NewSession(s)] = t
  BY <1>0, <1>8, <1>9, <1>11 DEF RoomType
<1>13. /\ [room.seats EXCEPT ![s] = seat] \in [Seats -> SeatType]
       /\ [room.sessions EXCEPT ![x] = session] \in [Sessions -> {None} \cup SessionType]
  BY <1>0, RoomFields
<1>14. /\ t \in RoomType /\ t.seats = [room.seats EXCEPT ![s] = seat]
       /\ t.sessions = [room.sessions EXCEPT ![x] = session]
       /\ t.revision = room.revision /\ t.host = room.host
       /\ t.idleDeadline = room.idleDeadline /\ t.idleTask = room.idleTask /\ t.game = room.game
       /\ t.abandonedDeadline = room.abandonedDeadline /\ t.abandonedTask = room.abandonedTask
  BY <1>0, <1>11, <1>13 DEF RoomType, SessionType
<1>15. /\ \A z \in Seats : t.seats[z] = IF z = s THEN seat ELSE room.seats[z]
       /\ \A y \in Sessions : t.sessions[y] = IF y = x THEN session ELSE room.sessions[y]
  BY <1>0, <1>14, RoomFields
<1>16. HumanSeats(t) = HumanSeats(room) \cup {s} /\ HumanSeats(room) \subseteq Seats
  BY <1>5, <1>8, <1>15 DEF HumanSeats
<1>17. Live(t) = Live(room) \cup {x} /\ Live(room) \subseteq Sessions
  BY <1>4, <1>6, <1>10, <1>15 DEF Live
<1>18. Owned(t)
  <2>1. \A z \in Seats : t.seats[z].occupancy # "HUMAN" => t.seats[z].session = None
    BY <1>0, <1>8, <1>15 DEF Owned
  <2>2. ASSUME NEW z \in HumanSeats(t)
        PROVE  t.seats[z].session \in Sessions
    <3>1. CASE z = s
      BY <1>5, <1>8, <1>15, <3>1
    <3>2. CASE z # s
      BY <1>0, <1>15, <1>16, <3>2 DEF Owned
    <3>3. QED
      BY <3>1, <3>2
  <2>3. \A y, z \in HumanSeats(t) : t.seats[y].session = t.seats[z].session => y = z
    <3> SUFFICES ASSUME NEW y \in HumanSeats(t), NEW z \in HumanSeats(t), t.seats[y].session = t.seats[z].session
                 PROVE  y = z
      OBVIOUS
    <3>1. CASE y = s /\ z # s
      BY <1>5, <1>6, <1>7, <1>8, <1>15, <1>16, <3>1
    <3>2. CASE y # s /\ z = s
      BY <1>5, <1>6, <1>7, <1>8, <1>15, <1>16, <3>2
    <3>3. CASE y # s /\ z # s
      BY <1>0, <1>15, <1>16, <3>3 DEF Owned
    <3>4. QED
      BY <3>1, <3>2, <3>3
  <2>4. \A y \in Live(t) : /\ t.sessions[y].seat \in HumanSeats(t)
                           /\ t.seats[t.sessions[y].seat].session = y
                           /\ t.seats[t.sessions[y].seat].deadline = t.sessions[y].deadline
    <3> SUFFICES ASSUME NEW y \in Live(t)
                 PROVE  /\ t.sessions[y].seat \in HumanSeats(t)
                        /\ t.seats[t.sessions[y].seat].session = y
                        /\ t.seats[t.sessions[y].seat].deadline = t.sessions[y].deadline
      OBVIOUS
    <3>1. CASE y = x
      <4>1. t.sessions[y] = session
        BY <1>15, <3>1
      <4>2. t.seats[s] = seat /\ s \in HumanSeats(t)
        BY <1>5, <1>15, <1>16
      <4>3. QED
        BY <1>8, <1>9, <3>1, <4>1, <4>2
    <3>2. CASE y # x
      <4>1. PICK z : z = room.sessions[y].seat
        OBVIOUS
      <4>2. y \in Live(room) /\ t.sessions[y] = room.sessions[y]
        BY <1>15, <1>17, <3>2
      <4>3. z \in HumanSeats(room) /\ room.seats[z].session = y /\ room.seats[z].deadline = room.sessions[y].deadline
        BY <1>0, <4>1, <4>2 DEF Owned
      <4>4. t.seats[z] = room.seats[z] /\ z \in HumanSeats(t)
        BY <1>5, <1>15, <1>16, <4>3
      <4>5. QED
        BY <4>1, <4>2, <4>3, <4>4
    <3>3. QED
      BY <3>1, <3>2
  <2>5. QED
    BY <2>1, <2>2, <2>3, <2>4 DEF Owned
<1>19. Connection(t)
  <2> SUFFICES ASSUME NEW z \in HumanSeats(t)
               PROVE  /\ t.seats[z].status \in {"CONNECTED", "RECONNECTING", "DISCONNECTED"}
                      /\ t.seats[z].status = "CONNECTED" <=> t.seats[z].deadline = None
                      /\ t.seats[z].status = "DISCONNECTED" <=> t.seats[z].session \notin Live(t)
    BY DEF Connection
  <2>1. CASE z = s
    BY <1>5, <1>8, <1>15, <1>17, <2>1
  <2>2. CASE z # s
    <3>1. z \in HumanSeats(room) /\ t.seats[z] = room.seats[z]
      BY <1>15, <1>16, <2>2
    <3>2. room.seats[z].session \in Live(room) /\ room.seats[z].status # "DISCONNECTED"
      BY <1>0, <1>7, <3>1 DEF Connection
    <3>3. QED
      BY <1>0, <1>17, <3>1, <3>2 DEF Connection
  <2>3. QED
    BY <2>1, <2>2
<1>20. HostSeated(t)
  <2>1. PICK z \in HumanSeats(room) : room.seats[z].session = room.host
    BY <1>0 DEF HostSeated
  <2>2. QED
    BY <1>5, <1>14, <1>15, <1>16, <2>1 DEF HostSeated
<1>21. Inhabited(t) /\ Seated(t)
  <2>1. ExpiredSeats(t) = {}
    <3>1. ASSUME NEW z \in HumanSeats(t)
          PROVE  t.seats[z].status # "DISCONNECTED"
      <4>1. CASE z = s
        BY <1>5, <1>8, <1>15, <4>1
      <4>2. CASE z # s
        BY <1>0, <1>7, <1>15, <1>16, <4>2 DEF Connection
      <4>3. QED
        BY <4>1, <4>2
    <3>2. QED
      BY <3>1 DEF ExpiredSeats
  <2>2. QED
    BY <1>0, <1>14, <1>17, <2>1 DEF Inhabited, Seated
<1>22. Tasks(t)
  BY <1>0, <1>9, <1>15, <1>17 DEF Tasks
<1>23. Covered(t, q)
  <2>1. Covered(room, q)
    BY <1>2 DEF Fit
  <2>2. \A y \in Live(t) : t.sessions[y].deadline # None =>
          t.sessions[y].task # None \/ Op("session", y, t.sessions[y].deadline) \in q
    BY <1>9, <1>15, <1>17, <2>1 DEF Covered
  <2>3. QED
    BY <1>14, <2>1, <2>2 DEF Covered
<1>24. Synced(t) /\ Countable(t)
  BY <1>0, <1>2, <1>14 DEF Synced, Countable, Reason
<1>25. Fit(t, q) /\ HostLive(t)
  <2>1. Populated(t)
    BY <1>18, <1>19, <1>20, <1>21 DEF Populated
  <2>2. QED
    BY <1>0, <1>14, <1>22, <1>23, <2>1, WaitingHostLives DEF Fit
<1>26. PICK g : g = BumpRevision(t)
  OBVIOUS
<1>27. /\ Fit(g, q) /\ HostLive(g) /\ Synced(g) /\ Countable(g)
       /\ g \in RoomType /\ g.revision = t.revision + 1 /\ g.sessions = t.sessions
  BY <1>14, <1>24, <1>25, <1>26, BumpFit, BumpFacts
<1>28. PICK h : h = TouchRoom(g)
  OBVIOUS
<1>29. /\ Fit(h, q) /\ HostLive(h) /\ Synced(h) /\ Countable(h)
       /\ h.revision = g.revision /\ h.sessions = g.sessions
  BY <1>0, <1>27, <1>28, TouchFit, TouchFacts
<1>30. Follows(h) /\ Live(h) = Live(room) \cup {x}
  BY <1>14, <1>17, <1>27, <1>29 DEF Follows, Live
<1>31. Persist(h)
  BY <1>4, <1>12, <1>26, <1>28
<1>32. Saved /\ Advances /\ Live(room)' = Live(h)
  BY <1>1, <1>29, <1>30, <1>31, Persisted
<1>33. QED
  BY <1>4, <1>30, <1>32

\* The game begins with the Humans of the seats, all connected.
LEMMA StartOutcome ==
  ASSUME Open, queue' = queue, NEW x \in Sessions, RequestStart(x)
  PROVE  Outcome
<1>0. /\ room \in RoomType /\ now \in Nat /\ Populated(room) /\ Owned(room) /\ Connection(room) /\ HostSeated(room)
      /\ Inhabited(room) /\ room.game = None /\ room.revision \in Nat /\ Tasks(room)
      /\ room.abandonedDeadline = None
  BY RoomFields DEF Open, Sound, Populated, Counting, Reason, RequestStart
<1>1. PICK q : q = queue'
  OBVIOUS
<1>2. Fit(room, q) /\ HostLive(room)
  BY <1>1, OpenFit
<1>3. /\ \A s \in Seats : room.seats[s].occupancy # "EMPTY"
      /\ Cardinality(HumanSeats(room)) >= 2
      /\ \A s \in HumanSeats(room) : room.seats[s].status = "CONNECTED"
  BY DEF RequestStart, StartReady
<1>4. PICK g : g = [original |-> [s \in Seats |-> room.seats[s].session],
                    replaced |-> {}, presence |-> [s \in Seats |-> None],
                    abandoned |-> None, winner |-> FALSE, failed |-> FALSE]
  OBVIOUS
<1>5. PICK t : t = [room EXCEPT !.idleTask = None, !.game = g] /\ Persist(BumpRevision(t))
  BY <1>4 DEF RequestStart
<1>6. g \in GameType /\ g # None
  <2>1. [s \in Seats |-> room.seats[s].session] \in [Seats -> Sessions \cup {None}]
    <3>1. \A s \in Seats : room.seats[s].session \in Sessions \cup {None}
      BY <1>0, RoomFields, SeatFields
    <3>2. QED
      BY <3>1
  <2>2. [s \in Seats |-> None] \in [Seats -> {None} \cup [deadline : Deadline, replacementRequired : BOOLEAN]]
    OBVIOUS
  <2>3. None \in Deadline
    BY DEF Deadline
  <2>4. g \in GameType
    BY <1>4, <2>1, <2>2, <2>3 DEF GameType
  <2>5. QED
    BY <2>4, NoneIsNothing
<1>7. /\ \A s \in Seats : g.original[s] = room.seats[s].session
      /\ g.replaced = {} /\ g.presence = [s \in Seats |-> None] /\ g.abandoned = None /\ g.winner = FALSE
  BY <1>4
<1>8. /\ t \in RoomType /\ t.revision = room.revision /\ t.host = room.host /\ t.seats = room.seats
      /\ t.sessions = room.sessions /\ t.idleDeadline = room.idleDeadline /\ t.idleTask = None
      /\ t.abandonedDeadline = room.abandonedDeadline /\ t.abandonedTask = room.abandonedTask /\ t.game = g
  <2>1. None \in Deadline
    BY DEF Deadline
  <2>2. QED
    BY <1>0, <1>5, <1>6, <2>1 DEF RoomType
<1>9. /\ HumanSeats(t) = HumanSeats(room) /\ ConnectedSeats(t) = ConnectedSeats(room)
      /\ ExpiredSeats(t) = ExpiredSeats(room) /\ PresenceOf(t) = PresenceOf(room)
      /\ Live(t) = Live(room) /\ Tasks(t)
  BY <1>0, <1>8, SeatsSame, TasksSame
<1>10. Owned(t) /\ Connection(t) /\ HostSeated(t) /\ HostLive(t)
  BY <1>0, <1>2, <1>8, <1>9 DEF Owned, Connection, HostSeated, HostLive
<1>11. Inhabited(t)
  BY <1>0, <1>6, <1>8, <1>9 DEF Inhabited
<1>12. Seated(t)
  <2>1. \A s \in Seats : room.seats[s].session # None <=> s \in HumanSeats(room)
    BY <1>0, RoomConstants DEF Owned, HumanSeats
  <2>2. {s \in Seats : g.original[s] # None} = HumanSeats(room)
    BY <1>7, <2>1 DEF HumanSeats
  <2>3. \A s \in Seats :
          IF g.original[s] = None
          THEN t.seats[s].occupancy = "AI" /\ s \notin g.replaced
          ELSE IF s \in g.replaced
               THEN t.seats[s].occupancy = "AI"
               ELSE s \in HumanSeats(t) /\ t.seats[s].session = g.original[s]
    <3> SUFFICES ASSUME NEW s \in Seats
                 PROVE  IF g.original[s] = None
                        THEN t.seats[s].occupancy = "AI" /\ s \notin g.replaced
                        ELSE IF s \in g.replaced
                             THEN t.seats[s].occupancy = "AI"
                             ELSE s \in HumanSeats(t) /\ t.seats[s].session = g.original[s]
      OBVIOUS
    <3>1. room.seats[s].occupancy \in {"EMPTY", "AI", "HUMAN"}
      BY <1>0, RoomFields, SeatFields
    <3>2. QED
      BY <1>3, <1>7, <1>8, <1>9, <2>1, <3>1 DEF HumanSeats
  <2>4. QED
    BY <1>3, <1>8, <2>2, <2>3 DEF Seated
<1>13. Synced(t)
  <2>1. HumanSeats(room) \ ConnectedSeats(room) = {}
    BY <1>3 DEF ConnectedSeats
  <2>2. PresenceOf(room) = [s \in Seats |-> None]
    BY <2>1 DEF PresenceOf
  <2>3. QED
    BY <1>0, <1>7, <1>8, <1>9, <2>2 DEF Synced
<1>14. Countable(t)
  <2>1. ExpiredSeats(t) = {}
    BY <1>0, <1>9 DEF Inhabited
  <2>2. ~Finished(t)
    BY <1>7, <1>8 DEF Finished
  <2>3. QED
    BY <1>0, <1>8, <2>1, <2>2 DEF Countable, Reason
<1>15. Covered(t, q)
  <2>1. Covered(room, q)
    BY <1>2 DEF Fit
  <2>2. QED
    BY <1>0, <1>6, <1>8, <1>9, <2>1 DEF Covered
<1>16. Fit(t, q)
  BY <1>8, <1>9, <1>10, <1>11, <1>12, <1>15 DEF Fit, Populated
<1>17. PICK b : b = BumpRevision(t) /\ Persist(b)
  BY <1>5
<1>18. /\ Fit(b, q) /\ HostLive(b) /\ Synced(b) /\ Countable(b)
       /\ b.revision = t.revision + 1 /\ b.sessions = t.sessions
  BY <1>8, <1>10, <1>13, <1>14, <1>16, <1>17, BumpFit, BumpFacts
<1>19. Follows(b) /\ Live(b) = Live(room)
  BY <1>8, <1>18 DEF Follows, Live
<1>20. QED
  BY <1>1, <1>17, <1>18, <1>19, StaysOutcome

\* An AI takes the seat of a player whose grace has run out.
LEMMA ReplaceOutcome ==
  ASSUME Open, queue' = queue, NEW x \in Sessions, NEW s \in Seats, ReplaceExpiredHuman(x, s)
  PROVE  Outcome
<1>0. /\ room \in RoomType /\ now \in Nat /\ Populated(room) /\ Owned(room) /\ Connection(room) /\ HostSeated(room)
      /\ Inhabited(room) /\ room.game # None /\ room.revision \in Nat /\ Tasks(room) /\ Seated(room)
      /\ x \in Live(room) /\ room.host = x
  BY RoomFields DEF Open, Sound, Populated, ReplaceExpiredHuman, ReplacementAuthority, Member
<1>1. PICK q : q = queue'
  OBVIOUS
<1>2. Fit(room, q) /\ HostLive(room) /\ Reckoned(room)
  BY <1>1, OpenFit
<1>3. s \in HumanSeats(room) /\ room.seats[s].status = "DISCONNECTED"
  BY DEF ReplaceExpiredHuman, ExpiredSeats
<1>4. room.seats[s].session \notin Live(room)
  BY <1>0, <1>3 DEF Connection
<1>5. PICK seat \in SeatType : seat = AiSeat /\ seat.occupancy = "AI" /\ seat.session = None
  <2>1. AiSeat.occupancy = "AI" /\ AiSeat.session = None
    BY DEF AiSeat, EmptySeat
  <2>2. QED
    BY <2>1, SeatsTyped
<1>6. PICK g \in GameType : g = room.game
  BY <1>0, RoomFields
<1>7. PICK game \in GameType : /\ game = [g EXCEPT !.replaced = g.replaced \cup {s}]
                               /\ game.original = g.original /\ game.replaced = g.replaced \cup {s}
                               /\ game.winner = g.winner
  <2>1. [g EXCEPT !.replaced = g.replaced \cup {s}] \in GameType
    BY DEF GameType
  <2>2. /\ [g EXCEPT !.replaced = g.replaced \cup {s}].original = g.original
        /\ [g EXCEPT !.replaced = g.replaced \cup {s}].replaced = g.replaced \cup {s}
        /\ [g EXCEPT !.replaced = g.replaced \cup {s}].winner = g.winner
    BY DEF GameType
  <2>3. QED
    BY <2>1, <2>2
<1>8. game # None
  BY <1>7, NoneIsNothing
<1>9. PICK t : t = [room EXCEPT !.game = game, !.seats = [room.seats EXCEPT ![s] = seat]]
  OBVIOUS
<1>10. [room EXCEPT !.game.replaced = @ \cup {s}, !.seats[s] = AiSeat] = t
  BY <1>0, <1>5, <1>6, <1>7, <1>9 DEF RoomType
<1>11. [room.seats EXCEPT ![s] = seat] \in [Seats -> SeatType]
  BY <1>0, RoomFields
<1>12. /\ t \in RoomType /\ t.revision = room.revision /\ t.host = room.host
       /\ t.seats = [room.seats EXCEPT ![s] = seat]
       /\ t.sessions = room.sessions /\ t.idleDeadline = room.idleDeadline /\ t.idleTask = room.idleTask
       /\ t.abandonedDeadline = room.abandonedDeadline /\ t.abandonedTask = room.abandonedTask /\ t.game = game
  BY <1>0, <1>9, <1>11 DEF RoomType
<1>13. \A z \in Seats : t.seats[z] = IF z = s THEN seat ELSE room.seats[z]
  BY <1>0, <1>12, RoomFields
<1>14. /\ HumanSeats(t) = HumanSeats(room) \ {s} /\ Live(t) = Live(room) /\ Tasks(t)
       /\ HumanSeats(room) \subseteq Seats
  BY <1>0, <1>5, <1>12, <1>13, TasksSame DEF HumanSeats
<1>15. \A z \in HumanSeats(t) : z \in HumanSeats(room) /\ t.seats[z] = room.seats[z]
  BY <1>13, <1>14
<1>16. Owned(t)
  <2>1. \A z \in Seats : t.seats[z].occupancy # "HUMAN" => t.seats[z].session = None
    BY <1>0, <1>5, <1>13 DEF Owned
  <2>2. /\ \A z \in HumanSeats(t) : t.seats[z].session \in Sessions
        /\ \A y, z \in HumanSeats(t) : t.seats[y].session = t.seats[z].session => y = z
    BY <1>0, <1>15 DEF Owned
  <2>3. \A y \in Live(t) : /\ t.sessions[y].seat \in HumanSeats(t)
                           /\ t.seats[t.sessions[y].seat].session = y
                           /\ t.seats[t.sessions[y].seat].deadline = t.sessions[y].deadline
    <3> SUFFICES ASSUME NEW y \in Live(t)
                 PROVE  /\ t.sessions[y].seat \in HumanSeats(t)
                        /\ t.seats[t.sessions[y].seat].session = y
                        /\ t.seats[t.sessions[y].seat].deadline = t.sessions[y].deadline
      OBVIOUS
    <3>1. PICK z : z = room.sessions[y].seat
      OBVIOUS
    <3>2. z \in HumanSeats(room) /\ room.seats[z].session = y /\ room.seats[z].deadline = room.sessions[y].deadline
      BY <1>0, <1>14, <3>1 DEF Owned
    <3>3. z # s
      BY <1>4, <1>14, <3>2
    <3>4. t.seats[z] = room.seats[z] /\ z \in HumanSeats(t)
      BY <1>13, <1>14, <3>2, <3>3
    <3>5. QED
      BY <1>12, <3>1, <3>2, <3>4
  <2>4. QED
    BY <2>1, <2>2, <2>3 DEF Owned
<1>17. Connection(t)
  <2> SUFFICES ASSUME NEW z \in HumanSeats(t)
               PROVE  /\ t.seats[z].status \in {"CONNECTED", "RECONNECTING", "DISCONNECTED"}
                      /\ t.seats[z].status = "CONNECTED" <=> t.seats[z].deadline = None
                      /\ t.seats[z].status = "DISCONNECTED" <=> t.seats[z].session \notin Live(t)
    BY DEF Connection
  <2>1. QED
    BY <1>0, <1>14, <1>15 DEF Connection
<1>18. HostSeated(t) /\ HostLive(t) /\ Inhabited(t)
  <2>1. PICK z \in HumanSeats(room) : room.seats[z].session = room.host
    BY <1>0 DEF HostSeated
  <2>2. z # s
    BY <1>0, <1>4, <2>1
  <2>3. z \in HumanSeats(t) /\ t.seats[z].session = t.host
    BY <1>12, <1>13, <1>14, <2>1, <2>2
  <2>4. QED
    BY <1>0, <1>8, <1>12, <1>14, <2>3 DEF HostSeated, HostLive, Inhabited
<1>19. Seated(t)
  <2>1. \A z \in Seats : t.seats[z].occupancy # "EMPTY"
    BY <1>0, <1>5, <1>13 DEF Seated
  <2>2. \A z \in Seats :
          IF game.original[z] = None
          THEN t.seats[z].occupancy = "AI" /\ z \notin game.replaced
          ELSE IF z \in game.replaced
               THEN t.seats[z].occupancy = "AI"
               ELSE z \in HumanSeats(t) /\ t.seats[z].session = game.original[z]
    <3> SUFFICES ASSUME NEW z \in Seats
                 PROVE  IF game.original[z] = None
                        THEN t.seats[z].occupancy = "AI" /\ z \notin game.replaced
                        ELSE IF z \in game.replaced
                             THEN t.seats[z].occupancy = "AI"
                             ELSE z \in HumanSeats(t) /\ t.seats[z].session = game.original[z]
      OBVIOUS
    <3>1. IF g.original[z] = None
          THEN room.seats[z].occupancy = "AI" /\ z \notin g.replaced
          ELSE IF z \in g.replaced
               THEN room.seats[z].occupancy = "AI"
               ELSE z \in HumanSeats(room) /\ room.seats[z].session = g.original[z]
      BY <1>0, <1>6 DEF Seated
    <3>2. CASE z = s
      <4>1. g.original[z] # None
        BY <1>3, <3>1, <3>2 DEF HumanSeats
      <4>2. QED
        BY <1>5, <1>7, <1>13, <3>2, <4>1
    <3>3. CASE z # s
      BY <1>7, <1>13, <1>14, <3>1, <3>3
    <3>4. QED
      BY <3>2, <3>3
  <2>3. Cardinality({z \in Seats : game.original[z] # None}) >= 2
    BY <1>0, <1>6, <1>7 DEF Seated
  <2>4. QED
    BY <1>12, <2>1, <2>2, <2>3 DEF Seated
<1>20. Covered(t, q)
  <2>1. Covered(room, q)
    BY <1>2 DEF Fit
  <2>2. QED
    BY <1>0, <1>8, <1>12, <1>14, <2>1 DEF Covered
<1>21. Fit(t, q)
  BY <1>12, <1>14, <1>16, <1>17, <1>18, <1>19, <1>20 DEF Fit, Populated
<1>22. Reckoned(t)
  <2>1. ExpiredSeats(t) # {} => ExpiredSeats(room) # {}
    BY <1>15 DEF ExpiredSeats
  <2>2. Finished(t) <=> Finished(room)
    BY <1>0, <1>6, <1>7, <1>8, <1>12 DEF Finished
  <2>3. QED
    BY <1>0, <1>2, <1>8, <1>12, <2>1, <2>2 DEF Reckoned, Reason
<1>23. PICK b : b = BumpRevision(t)
  OBVIOUS
<1>24. /\ Fit(b, q) /\ HostLive(b) /\ Reckoned(b) /\ b.revision = t.revision + 1 /\ b.sessions = t.sessions
  BY <1>12, <1>18, <1>21, <1>22, <1>23, BumpFit, BumpFacts
<1>25. Follows(b) /\ Live(b) = Live(room)
  BY <1>12, <1>24 DEF Follows, Live
<1>26. Persist(SynchronizeGamePresence(b))
  BY <1>10, <1>23 DEF ReplaceExpiredHuman
<1>27. QED
  BY <1>1, <1>24, <1>25, <1>26, SyncedOutcome

\* The game is won, or an AI seat fails: its seats and its presence stay.
LEMMA GameOverOutcome ==
  ASSUME Open, queue \subseteq queue', room.game # None, NEW game \in GameType,
         game.original = room.game.original, game.replaced = room.game.replaced,
         game.presence = room.game.presence, game.abandoned = room.game.abandoned,
         room.game.winner => game.winner,
         game.winner /\ ~room.game.winner => LifecycleStatus(room.game) = "ACTIVE",
         Persist([room EXCEPT !.game = game])
  PROVE  Outcome
<1>0. room \in RoomType
  BY DEF Open
<1>1. PICK q : q = queue'
  OBVIOUS
<1>2. Fit(room, q) /\ HostLive(room) /\ Synced(room) /\ Countable(room)
  BY <1>1, OpenFit
<1>3. PICK t : t = [room EXCEPT !.game = game]
  OBVIOUS
<1>4. game # None
  BY NoneIsNothing
<1>5. /\ t \in RoomType /\ t.revision = room.revision /\ t.host = room.host /\ t.seats = room.seats
      /\ t.sessions = room.sessions /\ t.idleDeadline = room.idleDeadline /\ t.idleTask = room.idleTask
      /\ t.abandonedDeadline = room.abandonedDeadline /\ t.abandonedTask = room.abandonedTask /\ t.game = game
  BY <1>0, <1>3 DEF RoomType
<1>6. Live(t) = Live(room) /\ PresenceOf(t) = PresenceOf(room) /\ ExpiredSeats(t) = ExpiredSeats(room)
  BY <1>5, SeatsSame, TasksSame
<1>7. Populated(t) /\ HostLive(t) /\ Tasks(t)
  BY <1>2, <1>4, <1>5, PopulatedSame, TasksSame DEF Fit
<1>8. Covered(t, q)
  <2>1. Covered(room, q)
    BY <1>2 DEF Fit
  <2>2. QED
    BY <1>4, <1>5, <1>6, <2>1 DEF Covered
<1>9. Synced(t)
  BY <1>2, <1>5, <1>6 DEF Synced
<1>10. Countable(t)
  <2>1. Finished(room) => Finished(t)
    BY <1>4, <1>5 DEF Finished
  <2>2. QED
    BY <1>2, <1>4, <1>5, <1>6, <2>1 DEF Countable, Reason
<1>11. Follows(t)
  BY <1>4, <1>5 DEF Follows
<1>12. QED
  BY <1>1, <1>3, <1>5, <1>6, <1>7, <1>8, <1>9, <1>10, <1>11, StaysOutcome DEF Fit

\* The game is won, or an AI player fails.
LEMMA FinishOutcome ==
  ASSUME Open, FinishGame \/ (FailGame /\ queue' = queue)
  PROVE  Outcome
<1>0. room \in RoomType /\ room.game # None /\ queue \subseteq queue'
  BY DEF Open, FinishGame, FailGame
<1>1. PICK g \in GameType : g = room.game
  BY <1>0, RoomFields
<1>2. CASE FinishGame
  <2>1. PICK t \in GameType : /\ t = [g EXCEPT !.winner = TRUE] /\ t.original = g.original /\ t.replaced = g.replaced
                              /\ t.presence = g.presence /\ t.abandoned = g.abandoned /\ t.winner = TRUE
    <3>1. [g EXCEPT !.winner = TRUE] \in GameType
      BY DEF GameType
    <3>2. /\ [g EXCEPT !.winner = TRUE].original = g.original /\ [g EXCEPT !.winner = TRUE].replaced = g.replaced
          /\ [g EXCEPT !.winner = TRUE].presence = g.presence
          /\ [g EXCEPT !.winner = TRUE].abandoned = g.abandoned /\ [g EXCEPT !.winner = TRUE].winner = TRUE
      BY DEF GameType
    <3>3. QED
      BY <3>1, <3>2
  <2>2. [room EXCEPT !.game.winner = TRUE] = [room EXCEPT !.game = t]
    BY <1>0, <1>1, <2>1 DEF RoomType
  <2>3. Persist([room EXCEPT !.game = t]) /\ LifecycleStatus(room.game) = "ACTIVE"
    BY <1>2, <2>2 DEF FinishGame
  <2>4. QED
    BY <1>0, <1>1, <2>1, <2>3, GameOverOutcome
<1>3. CASE FailGame
  <2>1. PICK t \in GameType : /\ t = [g EXCEPT !.failed = TRUE] /\ t.original = g.original /\ t.replaced = g.replaced
                              /\ t.presence = g.presence /\ t.abandoned = g.abandoned /\ t.winner = g.winner
    <3>1. [g EXCEPT !.failed = TRUE] \in GameType
      BY DEF GameType
    <3>2. /\ [g EXCEPT !.failed = TRUE].original = g.original /\ [g EXCEPT !.failed = TRUE].replaced = g.replaced
          /\ [g EXCEPT !.failed = TRUE].presence = g.presence
          /\ [g EXCEPT !.failed = TRUE].abandoned = g.abandoned /\ [g EXCEPT !.failed = TRUE].winner = g.winner
      BY DEF GameType
    <3>3. QED
      BY <3>1, <3>2
  <2>2. [room EXCEPT !.game.failed = TRUE] = [room EXCEPT !.game = t]
    BY <1>0, <1>1, <2>1 DEF RoomType
  <2>3. Persist([room EXCEPT !.game = t])
    BY <1>3, <2>2 DEF FailGame
  <2>4. QED
    BY <1>0, <1>1, <2>1, <2>3, GameOverOutcome
<1>4. QED
  BY <1>2, <1>3

-----------------------------------------------------------------------------
(* The operations of the Room queue.                                        *)

\* A lost transport is marked on its seat.
LEMMA MarkOutcome ==
  ASSUME Open, NEW op, op.deadline \in Nat, op.session \in Sessions, MarkDisconnected(op)
  PROVE  Outcome
<1>0. /\ room \in RoomType /\ now \in Nat /\ Owned(room) /\ Connection(room) /\ room.revision \in Nat
      /\ op.kind = "disconnect" /\ queue' = queue \ {op}
  BY RoomFields DEF Open, Sound, Populated, MarkDisconnected, Dequeue
<1>1. PICK q : q = queue'
  OBVIOUS
<1>2. \A other \in queue : other.kind \in {"session", "idle", "abandoned"} => other \in q
  BY <1>0, <1>1
<1>3. Fit(room, q) /\ HostLive(room) /\ Synced(room) /\ Countable(room) /\ Reckoned(room)
  BY <1>2, OpenFit
<1>4. PICK x \in Sessions, d \in Nat : x = op.session /\ d = op.deadline
  OBVIOUS
<1>5. CASE ~Member(x) \/ ~OwnsSeat(x)
  <2>1. room' = room /\ io' = io
    BY <1>4, <1>5 DEF MarkDisconnected
  <2>2. Covered(room, queue')
    BY <1>1, <1>3 DEF Fit
  <2>3. QED
    BY <2>1, <2>2, NothingOutcome
<1>6. CASE Member(x) /\ OwnsSeat(x)
  <2>1. x \in Live(room)
    BY <1>6 DEF Member
  <2>2. PICK s : s = room.sessions[x].seat
    OBVIOUS
  <2>3. /\ s \in HumanSeats(room) /\ s \in Seats /\ room.seats[s].session = x /\ room.seats[s].occupancy = "HUMAN"
    BY <1>0, <2>1, <2>2 DEF Owned, HumanSeats
  <2>4. CASE room.seats[s].status = "RECONNECTING"
    <3>1. Persist(room)
      BY <1>4, <1>6, <2>2, <2>4 DEF MarkDisconnected, SeatOf
    <3>2. Follows(room)
      BY DEF Follows
    <3>3. QED
      BY <1>1, <1>3, <3>1, <3>2, StaysOutcome
  <2>5. CASE room.seats[s].status # "RECONNECTING"
    <3>1. PICK task \in Deadline : task = (IF d > now THEN d ELSE now + 1) /\ task # None
      <4>1. (IF d > now THEN d ELSE now + 1) \in Nat
        BY <1>0
      <4>2. QED
        BY <4>1, RoomConstants DEF Deadline
    <3>2. d \in Deadline /\ d # None
      BY RoomConstants DEF Deadline
    <3>3. PICK seat \in SeatType : /\ seat = [room.seats[s] EXCEPT !.status = "RECONNECTING", !.deadline = d]
                                   /\ seat.occupancy = "HUMAN" /\ seat.session = x
                                   /\ seat.status = "RECONNECTING" /\ seat.deadline = d
      <4>1. PICK old \in SeatType : old = room.seats[s]
        BY <1>0, <2>3, RoomFields
      <4>2. [old EXCEPT !.status = "RECONNECTING", !.deadline = d] \in SeatType
        BY <3>2 DEF SeatType
      <4>3. /\ [old EXCEPT !.status = "RECONNECTING", !.deadline = d].occupancy = old.occupancy
            /\ [old EXCEPT !.status = "RECONNECTING", !.deadline = d].session = old.session
            /\ [old EXCEPT !.status = "RECONNECTING", !.deadline = d].status = "RECONNECTING"
            /\ [old EXCEPT !.status = "RECONNECTING", !.deadline = d].deadline = d
        BY DEF SeatType
      <4>4. QED
        BY <2>3, <4>1, <4>2, <4>3
    <3>4. PICK session \in SessionType : /\ session = [room.sessions[x] EXCEPT !.deadline = d, !.task = task]
                                         /\ session.seat = s /\ session.deadline = d /\ session.task = task
      <4>1. PICK old \in SessionType : old = room.sessions[x]
        BY <1>0, <2>1, SessionFields
      <4>2. [old EXCEPT !.deadline = d, !.task = task] \in SessionType
        BY <3>2 DEF SessionType
      <4>3. /\ [old EXCEPT !.deadline = d, !.task = task].seat = old.seat
            /\ [old EXCEPT !.deadline = d, !.task = task].deadline = d
            /\ [old EXCEPT !.deadline = d, !.task = task].task = task
        BY DEF SessionType
      <4>4. QED
        BY <2>2, <4>1, <4>2, <4>3
    <3>5. PICK t : t = [room EXCEPT !.seats = [room.seats EXCEPT ![s] = seat],
                                    !.sessions = [room.sessions EXCEPT ![x] = session]]
      OBVIOUS
    <3>6. [room EXCEPT !.seats[s].status = "RECONNECTING", !.seats[s].deadline = d,
                       !.sessions[x].deadline = d, !.sessions[x].task = task] = t
      <4>1. PICK u : u = [room EXCEPT !.seats = [room.seats EXCEPT ![s] = seat]]
        OBVIOUS
      <4>2. [room EXCEPT !.seats[s].status = "RECONNECTING", !.seats[s].deadline = d] = u
        BY <1>0, <3>3, <4>1, ZenonT(40) DEF RoomType
      <4>3. u \in RoomType /\ u.sessions = room.sessions
        <5>1. [room.seats EXCEPT ![s] = seat] \in [Seats -> SeatType]
          BY <1>0, RoomFields
        <5>2. QED
          BY <1>0, <4>1, <5>1 DEF RoomType
      <4>4. [u EXCEPT !.sessions[x].deadline = d, !.sessions[x].task = task]
              = [u EXCEPT !.sessions = [room.sessions EXCEPT ![x] = session]]
        BY <3>4, <4>3 DEF RoomType
      <4>5. [u EXCEPT !.sessions = [room.sessions EXCEPT ![x] = session]] = t
        BY <1>0, <3>5, <4>1 DEF RoomType
      <4>6. [room EXCEPT !.seats[s].status = "RECONNECTING", !.seats[s].deadline = d,
                         !.sessions[x].deadline = d, !.sessions[x].task = task]
              = [[room EXCEPT !.seats[s].status = "RECONNECTING", !.seats[s].deadline = d]
                    EXCEPT !.sessions[x].deadline = d, !.sessions[x].task = task]
        OBVIOUS
      <4>7. QED
        BY <4>2, <4>4, <4>5, <4>6
    <3>7. /\ [room.seats EXCEPT ![s] = seat] \in [Seats -> SeatType]
          /\ [room.sessions EXCEPT ![x] = session] \in [Sessions -> {None} \cup SessionType]
      BY <1>0, RoomFields
    <3>8. /\ t \in RoomType /\ t.seats = [room.seats EXCEPT ![room.sessions[x].seat] = seat]
          /\ t.sessions = [room.sessions EXCEPT ![x] = session]
          /\ t.revision = room.revision /\ t.host = room.host
          /\ t.idleDeadline = room.idleDeadline /\ t.idleTask = room.idleTask /\ t.game = room.game
          /\ t.abandonedDeadline = room.abandonedDeadline /\ t.abandonedTask = room.abandonedTask
      BY <1>0, <2>2, <3>5, <3>7 DEF RoomType, SessionType
    <3>9. /\ (seat.status = "CONNECTED") <=> (seat.deadline = None)
          /\ (session.deadline = None) <=> (session.task = None)
          /\ seat.status \in {"CONNECTED", "RECONNECTING"} /\ session.deadline = seat.deadline
          /\ session.seat = room.sessions[x].seat
          /\ seat.occupancy = "HUMAN" /\ seat.session = x /\ seat.status = "RECONNECTING"
      BY <2>2, <3>1, <3>2, <3>3, <3>4
    <3>10. Fit(t, q) /\ Reckoned(t) /\ HostLive(t) /\ Live(t) = Live(room)
      <4>1. x \in Live(room) /\ Fit(room, q) /\ Reckoned(room) /\ HostLive(room)
        BY <1>3, <2>1
      <4>2. QED
        BY <3>8, <3>9, <4>1, PresenceFit
    <3>11. PICK b : b = BumpRevision(t)
      OBVIOUS
    <3>12. /\ Fit(b, q) /\ HostLive(b) /\ Reckoned(b) /\ b.revision = t.revision + 1 /\ b.sessions = t.sessions
      BY <3>8, <3>10, <3>11, BumpFit, BumpFacts
    <3>13. Follows(b) /\ Live(b) = Live(room)
      BY <3>8, <3>10, <3>12 DEF Follows, Live
    <3>14. Persist(SynchronizeGamePresence(b))
      <4>1. Persist(SynchronizeGamePresence(BumpRevision(
              [room EXCEPT !.seats[s].status = "RECONNECTING", !.seats[s].deadline = d,
                           !.sessions[x].deadline = d, !.sessions[x].task = task])))
        BY <1>4, <1>6, <2>2, <2>5, <3>1 DEF MarkDisconnected, SeatOf
      <4>2. QED
        BY <3>6, <3>11, <4>1
    <3>15. QED
      BY <1>1, <3>12, <3>13, <3>14, SyncedOutcome
  <2>6. QED
    BY <2>4, <2>5
<1>7. QED
  BY <1>5, <1>6

\* The expiry of a session at the head of the queue.
LEMMA ExpireSessionOutcome ==
  ASSUME Open, NEW op \in OpType, op.deadline \in Nat, ExpireSession(op)
  PROVE  Outcome
<1>1. op.kind = "session" /\ queue' = queue \ {op} /\ ExpireDisconnectedSession(op.session, op.deadline)
  BY DEF ExpireSession, Dequeue
<1>2. PICK x, d : x = op.session /\ d = op.deadline
  OBVIOUS
<1>3. op = Op("session", x, d)
  BY <1>1, <1>2 DEF OpType, Op
<1>4. Lost(Op("session", x, d))
  BY <1>1, <1>3 DEF Lost
<1>5. QED
  BY <1>1, <1>2, <1>4, ExpireOutcome

\* A timer armed again, or one that has fired.
LEMMA TimerRearmed ==
  ASSUME room \in RoomType, Tasks(room), io' = io,
         room' \in RoomType, room'.revision = room.revision, room'.host = room.host, room'.seats = room.seats,
         room'.game = room.game, room'.idleDeadline = room.idleDeadline, room'.sessions = room.sessions,
         room'.abandonedDeadline = room.abandonedDeadline,
         io # "remove" => Covered(room, queue)'
  PROVE  Rearmed /\ Advances /\ Kept /\ Live(room)' = Live(room)
<1>1. Live(room)' = Live(room) /\ Tasks(room)' /\ Public(room)' = Public(room)
  BY DEF Live, Tasks, Public
<1>2. room.revision \in Nat
  BY RoomFields
<1>3. QED
  BY <1>1, <1>2 DEF Rearmed, Advances, Kept

\* The expiry of a waiting Room at the head of the queue.
LEMMA ExpireIdleOutcome ==
  ASSUME Open, NEW op \in OpType, op.deadline \in Nat, ExpireIdleRoom(op)
  PROVE  Outcome
<1>0. op.kind = "idle" /\ queue' = queue \ {op} /\ room \in RoomType /\ room # None /\ Covered(room, queue)
  BY NoneIsNothing DEF ExpireIdleRoom, Dequeue, Open
<1>1. \A kind, x, d : Op(kind, x, d) \in queue /\ (kind # "idle" \/ d # op.deadline) => Op(kind, x, d) \in queue'
  BY <1>0 DEF Op
<1>2. CASE room.game # None \/ room.idleDeadline # op.deadline
  <2>1. room' = room /\ io' = io
    BY <1>2 DEF ExpireIdleRoom
  <2>2. Covered(room, queue')
    BY <1>0, <1>1, <1>2 DEF Covered
  <2>3. QED
    BY <2>1, <2>2, NothingOutcome
<1>3. CASE ~(room.game # None \/ room.idleDeadline # op.deadline) /\ op.deadline > now
  <2>1. room' = [room EXCEPT !.idleTask = op.deadline] /\ io' = io
    BY <1>0, <1>3 DEF ExpireIdleRoom
  <2>2. op.deadline \in Deadline
    BY DEF Deadline
  <2>3. /\ room' \in RoomType /\ room'.revision = room.revision /\ room'.host = room.host /\ room'.seats = room.seats
        /\ room'.game = room.game /\ room'.idleDeadline = room.idleDeadline /\ room'.sessions = room.sessions
        /\ room'.abandonedDeadline = room.abandonedDeadline /\ room'.abandonedTask = room.abandonedTask
        /\ room'.idleTask = op.deadline
    BY <1>0, <2>1, <2>2 DEF RoomType
  <2>4. Covered(room, queue)'
    BY <1>0, <1>1, <1>3, <2>3 DEF Covered, Live
  <2>5. QED
    BY <2>1, <2>3, <2>4, TimerRearmed DEF Outcome, Open, Sound, Populated
<1>4. CASE ~(room.game # None \/ room.idleDeadline # op.deadline) /\ ~(op.deadline > now)
  BY <1>0, <1>4, ClosingOutcome DEF ExpireIdleRoom
<1>5. QED
  BY <1>2, <1>3, <1>4

\* The expiry of an abandoned game at the head of the queue.
LEMMA ExpireAbandonedOutcome ==
  ASSUME Open, NEW op \in OpType, op.deadline \in Nat, ExpireAbandonedGame(op)
  PROVE  Outcome
<1>0. op.kind = "abandoned" /\ queue' = queue \ {op} /\ room \in RoomType /\ room # None /\ Covered(room, queue)
  BY NoneIsNothing DEF ExpireAbandonedGame, Dequeue, Open
<1>1. \A kind, x, d : Op(kind, x, d) \in queue /\ (kind # "abandoned" \/ d # op.deadline) => Op(kind, x, d) \in queue'
  BY <1>0 DEF Op
<1>2. CASE room.game = None \/ room.abandonedDeadline # op.deadline
  <2>1. room' = room /\ io' = io
    BY <1>2 DEF ExpireAbandonedGame
  <2>2. room.game = None => room.abandonedDeadline = None
    BY DEF Open, Sound, Counting, Reason
  <2>3. op.deadline # None
    BY RoomConstants
  <2>4. Covered(room, queue')
    BY <1>0, <1>1, <1>2, <2>2, <2>3 DEF Covered
  <2>5. QED
    BY <2>1, <2>4, NothingOutcome
<1>3. CASE ~(room.game = None \/ room.abandonedDeadline # op.deadline) /\ op.deadline > now
  <2>1. room' = [room EXCEPT !.abandonedTask = op.deadline] /\ io' = io
    BY <1>0, <1>3 DEF ExpireAbandonedGame
  <2>2. op.deadline \in Deadline
    BY DEF Deadline
  <2>3. /\ room' \in RoomType /\ room'.revision = room.revision /\ room'.host = room.host /\ room'.seats = room.seats
        /\ room'.game = room.game /\ room'.idleDeadline = room.idleDeadline /\ room'.sessions = room.sessions
        /\ room'.abandonedDeadline = room.abandonedDeadline /\ room'.idleTask = room.idleTask
        /\ room'.abandonedTask = op.deadline
    BY <1>0, <2>1, <2>2 DEF RoomType
  <2>4. Covered(room, queue)'
    BY <1>0, <1>1, <1>3, <2>3 DEF Covered, Live
  <2>5. QED
    BY <2>1, <2>3, <2>4, TimerRearmed DEF Outcome, Open, Sound, Populated
<1>4. CASE ~(room.game = None \/ room.abandonedDeadline # op.deadline) /\ ~(op.deadline > now)
  BY <1>0, <1>4, ClosingOutcome DEF ExpireAbandonedGame
<1>5. QED
  BY <1>2, <1>3, <1>4

\* The end of a game is published.
LEMMA PublishOutcome ==
  ASSUME Open, NEW op, PublishFinished(op)
  PROVE  Outcome
<1>0. op.kind = "finished" /\ queue' = queue \ {op} /\ room \in RoomType /\ room # None
  BY NoneIsNothing DEF PublishFinished, Dequeue, Open
<1>1. PICK q : q = queue'
  OBVIOUS
<1>2. \A other \in queue : other.kind \in {"session", "idle", "abandoned"} => other \in q
  BY <1>0, <1>1
<1>3. Fit(room, q) /\ HostLive(room) /\ Synced(room) /\ Countable(room)
  BY <1>2, OpenFit
<1>4. PICK b : b = BumpRevision(room) /\ Persist(b)
  BY <1>0 DEF PublishFinished
<1>5. /\ Fit(b, q) /\ HostLive(b) /\ Synced(b) /\ Countable(b)
      /\ b.revision = room.revision + 1 /\ b.sessions = room.sessions
  BY <1>0, <1>3, <1>4, BumpFit, BumpFacts
<1>6. Follows(b) /\ Live(b) = Live(room)
  BY <1>5 DEF Follows, Live
<1>7. QED
  BY <1>1, <1>4, <1>5, <1>6, StaysOutcome

-----------------------------------------------------------------------------
(* A new Room.                                                              *)

\* A new Room has its creator, and is saved.
LEMMA CreateResult ==
  ASSUME queue' = queue, now \in Nat, CreateRoom
  PROVE  \E x \in Sessions \ issued : issued' = issued \cup {x} /\ Saved /\ Live(room)' = {x}
<1>1. PICK x \in Sessions \ issued :
        /\ issued' = issued \cup {x}
        /\ Persist(TouchRoom(
            [revision |-> 0, host |-> x,
             seats |-> [s \in Seats |-> IF s = 1 THEN HumanSeat(x) ELSE EmptySeat],
             sessions |-> [y \in Sessions |-> IF y = x THEN NewSession(1) ELSE None],
             idleDeadline |-> 0, idleTask |-> None,
             abandonedDeadline |-> None, abandonedTask |-> None, game |-> None]))
  BY DEF CreateRoom
<1>2. PICK seats : seats = [s \in Seats |-> IF s = 1 THEN HumanSeat(x) ELSE EmptySeat]
  OBVIOUS
<1>3. PICK sessions : sessions = [y \in Sessions |-> IF y = x THEN NewSession(1) ELSE None]
  OBVIOUS
<1>4. PICK r : r = [revision |-> 0, host |-> x, seats |-> seats, sessions |-> sessions,
                    idleDeadline |-> 0, idleTask |-> None,
                    abandonedDeadline |-> None, abandonedTask |-> None, game |-> None]
  OBVIOUS
<1>5. Persist(TouchRoom(r))
  BY <1>1, <1>2, <1>3, <1>4
<1>6. 1 \in Seats
  BY RoomConstants DEF Seats
<1>7. None \in Deadline /\ x # None /\ x \in Sessions
  BY RoomConstants DEF Deadline
<1>8. PICK seat \in SeatType : /\ seat = HumanSeat(x) /\ seat.occupancy = "HUMAN" /\ seat.session = x
                               /\ seat.status = "CONNECTED" /\ seat.deadline = None
  <2>1. HumanSeat(x) \in SeatType
    BY <1>7 DEF HumanSeat, SeatType
  <2>2. /\ HumanSeat(x).occupancy = "HUMAN" /\ HumanSeat(x).session = x
        /\ HumanSeat(x).status = "CONNECTED" /\ HumanSeat(x).deadline = None
    BY DEF HumanSeat
  <2>3. QED
    BY <2>1, <2>2
<1>9. PICK session \in SessionType : /\ session = NewSession(1) /\ session.seat = 1
                                     /\ session.deadline = None /\ session.task = None
  <2>1. NewSession(1) \in SessionType
    BY <1>6, <1>7 DEF NewSession, SessionType
  <2>2. NewSession(1).seat = 1 /\ NewSession(1).deadline = None /\ NewSession(1).task = None
    BY DEF NewSession
  <2>3. QED
    BY <2>1, <2>2
<1>10. session # None
  BY NoneIsNothing DEF SessionType
<1>11. PICK empty \in SeatType : empty = EmptySeat /\ empty.occupancy = "EMPTY" /\ empty.session = None
  <2>1. EmptySeat.occupancy = "EMPTY" /\ EmptySeat.session = None
    BY DEF EmptySeat
  <2>2. QED
    BY <2>1, SeatsTyped
<1>12. /\ seats \in [Seats -> SeatType] /\ \A s \in Seats : seats[s] = IF s = 1 THEN seat ELSE empty
  BY <1>2, <1>8, <1>11
<1>13. /\ sessions \in [Sessions -> {None} \cup SessionType]
       /\ \A y \in Sessions : sessions[y] = IF y = x THEN session ELSE None
  BY <1>3, <1>9
<1>14. /\ r \in RoomType /\ r.host = x /\ r.seats = seats /\ r.sessions = sessions
       /\ r.abandonedDeadline = None /\ r.game = None
  <2>1. r \in RoomType
    BY <1>4, <1>7, <1>12, <1>13 DEF RoomType, SessionType
  <2>2. QED
    BY <1>4, <2>1
<1>15. PICK t : t = TouchRoom(r)
  OBVIOUS
<1>16. /\ t \in RoomType /\ t.host = x /\ t.seats = seats /\ t.sessions = sessions
       /\ t.abandonedDeadline = None /\ t.game = None /\ t.idleTask = t.idleDeadline
  BY <1>14, <1>15, TouchFacts
<1>17. HumanSeats(t) = {1} /\ Live(t) = {x}
  BY <1>6, <1>7, <1>8, <1>10, <1>11, <1>12, <1>13, <1>16 DEF HumanSeats, Live
<1>18. t.seats[1] = seat /\ t.sessions[x] = session
  BY <1>6, <1>12, <1>13, <1>16
<1>19. Owned(t)
  <2>1. \A s \in Seats : t.seats[s].occupancy # "HUMAN" => t.seats[s].session = None
    BY <1>8, <1>11, <1>12, <1>16
  <2>2. QED
    BY <1>7, <1>8, <1>9, <1>17, <1>18, <2>1 DEF Owned
<1>20. Connection(t) /\ HostSeated(t) /\ HostLive(t)
  BY <1>8, <1>16, <1>17, <1>18 DEF Connection, HostSeated, HostLive
<1>21. Inhabited(t)
  <2>1. ExpiredSeats(t) = {}
    BY <1>8, <1>17, <1>18 DEF ExpiredSeats
  <2>2. QED
    BY <1>17, <2>1 DEF Inhabited
<1>22. Seated(t) /\ Synced(t) /\ Countable(t) /\ Tasks(t)
  BY <1>9, <1>16, <1>17, <1>18 DEF Seated, Synced, Countable, Reason, Tasks
<1>23. PICK q : q = queue'
  OBVIOUS
<1>24. Covered(t, q)
  BY <1>9, <1>16, <1>17, <1>18 DEF Covered
<1>25. Fit(t, q)
  BY <1>16, <1>19, <1>20, <1>21, <1>22, <1>24 DEF Fit, Populated
<1>26. Saved /\ room'.sessions = t.sessions
  BY <1>5, <1>15, <1>20, <1>22, <1>23, <1>25, PersistSaved
<1>27. Live(room)' = {x}
  BY <1>17, <1>26 DEF Live
<1>28. QED
  BY <1>1, <1>26, <1>27

-----------------------------------------------------------------------------
(* Timers.                                                                  *)

\* A session timer that fires leaves its expiry in the queue.
LEMMA SessionTimerResult ==
  ASSUME room \in RoomType, Tasks(room), io # "remove" => Covered(room, queue), NEW x \in Sessions, FireSessionTimer(x)
  PROVE  /\ Rearmed /\ Advances /\ Kept /\ Live(room)' = Live(room)
         /\ queue' = queue \cup {Op("session", x, room.sessions[x].deadline)}
         /\ room.sessions[x].deadline \in Nat
<1>1. /\ x \in Live(room) /\ room.sessions[x].task # None /\ io' = io
      /\ room' = [room EXCEPT !.sessions[x].task = None]
      /\ queue' = queue \cup {Op("session", x, room.sessions[x].deadline)}
  BY DEF FireSessionTimer, Member, Due, Enqueue
<1>2. PICK session \in SessionType : session = room.sessions[x] /\ session # None
  BY <1>1, SessionFields
<1>3. session.deadline # None /\ session.deadline \in Nat
  <2>1. session.deadline # None
    BY <1>1, <1>2 DEF Tasks
  <2>2. session.deadline \in Deadline
    BY <1>2 DEF SessionType
  <2>3. QED
    BY <2>1, <2>2 DEF Deadline
<1>4. PICK new \in SessionType : /\ new = [session EXCEPT !.task = None] /\ new.seat = session.seat
                                 /\ new.deadline = session.deadline /\ new.task = None
  <2>1. [session EXCEPT !.task = None] \in SessionType
    BY DEF SessionType, Deadline
  <2>2. /\ [session EXCEPT !.task = None].seat = session.seat
        /\ [session EXCEPT !.task = None].deadline = session.deadline /\ [session EXCEPT !.task = None].task = None
    BY DEF SessionType
  <2>3. QED
    BY <2>1, <2>2
<1>5. new # None
  BY <1>4, NoneIsNothing DEF SessionType
<1>6. room' = [room EXCEPT !.sessions = [room.sessions EXCEPT ![x] = new]]
  BY <1>1, <1>2, <1>4 DEF RoomType
<1>7. [room.sessions EXCEPT ![x] = new] \in [Sessions -> {None} \cup SessionType]
  BY RoomFields
<1>8. /\ room' \in RoomType /\ room'.revision = room.revision /\ room'.host = room.host /\ room'.seats = room.seats
      /\ room'.game = room.game /\ room'.idleDeadline = room.idleDeadline
      /\ room'.idleTask = room.idleTask /\ room'.abandonedTask = room.abandonedTask
      /\ room'.abandonedDeadline = room.abandonedDeadline
      /\ room'.sessions = [room.sessions EXCEPT ![x] = new]
  BY <1>6, <1>7 DEF RoomType, SessionType
<1>9. \A y \in Sessions : room'.sessions[y] = IF y = x THEN new ELSE room.sessions[y]
  BY <1>8 DEF RoomType
<1>10. Live(room)' = Live(room)
  BY <1>1, <1>5, <1>9 DEF Live
<1>11. \A y \in Live(room) : /\ room'.sessions[y].seat = room.sessions[y].seat
                             /\ room'.sessions[y].deadline = room.sessions[y].deadline
  BY <1>2, <1>4, <1>9 DEF Live
<1>12. Tasks(room)'
  <2> SUFFICES ASSUME NEW y \in Live(room), room'.sessions[y].task # None
               PROVE  room'.sessions[y].deadline # None
    BY <1>10 DEF Tasks
  <2>1. y # x
    BY <1>4, <1>9
  <2>2. QED
    BY <1>9, <2>1 DEF Tasks, Live
<1>13. ASSUME io # "remove"
       PROVE  Covered(room, queue)'
  <2>0. Covered(room, queue)
    BY <1>13
  <2>1. \A y \in Live(room) : room'.sessions[y].deadline # None =>
          room'.sessions[y].task # None \/ Op("session", y, room'.sessions[y].deadline) \in queue'
    <3> SUFFICES ASSUME NEW y \in Live(room), room'.sessions[y].deadline # None
                 PROVE  room'.sessions[y].task # None \/ Op("session", y, room'.sessions[y].deadline) \in queue'
      OBVIOUS
    <3>1. CASE y = x
      BY <1>1, <1>11, <3>1
    <3>2. CASE y # x
      <4>1. room'.sessions[y] = room.sessions[y]
        BY <1>9, <3>2 DEF Live
      <4>2. room.sessions[y].task # None \/ Op("session", y, room.sessions[y].deadline) \in queue
        BY <2>0, <4>1 DEF Covered
      <4>3. QED
        BY <1>1, <4>1, <4>2
    <3>3. QED
      BY <3>1, <3>2
  <2>2. room'.game = None => room'.idleTask = room'.idleDeadline \/ Op("idle", None, room'.idleDeadline) \in queue'
    BY <1>1, <1>8, <2>0 DEF Covered
  <2>3. room'.abandonedDeadline # None =>
          room'.abandonedTask = room'.abandonedDeadline \/ Op("abandoned", None, room'.abandonedDeadline) \in queue'
    BY <1>1, <1>8, <2>0 DEF Covered
  <2>4. QED
    BY <1>10, <2>1, <2>2, <2>3 DEF Covered
<1>14. Public(room)' = Public(room) /\ room.revision \in Nat
  BY <1>8, RoomFields DEF Public
<1>15. QED
  BY <1>1, <1>2, <1>3, <1>8, <1>10, <1>11, <1>12, <1>13, <1>14 DEF Rearmed, Advances, Kept

\* A timer that fires leaves its expiry in the queue.
LEMMA TimerResult ==
  ASSUME room \in RoomType \cup {None}, room # None => Tasks(room),
         room # None /\ io # "remove" => Covered(room, queue), FireTimer
  PROVE  /\ room \in RoomType /\ Rearmed /\ Advances /\ Kept /\ Live(room)' = Live(room)
         /\ \E op \in OpType : /\ queue' = queue \cup {op} /\ op.deadline \in Nat
                               /\ op.kind \in {"session", "disconnect"} => op.session \in Sessions
<1>0. room \in RoomType /\ Tasks(room) /\ (io # "remove" => Covered(room, queue))
  BY DEF FireTimer, FireIdleTimer, FireAbandonedTimer, FireSessionTimer, Member
<1>1. ASSUME NEW x \in Sessions, FireSessionTimer(x)
      PROVE  /\ Rearmed /\ Advances /\ Kept /\ Live(room)' = Live(room)
             /\ \E op \in OpType : /\ queue' = queue \cup {op} /\ op.deadline \in Nat
                                   /\ op.kind \in {"session", "disconnect"} => op.session \in Sessions
  <2>1. PICK d \in Nat : d = room.sessions[x].deadline /\ queue' = queue \cup {Op("session", x, d)}
    BY <1>0, <1>1, SessionTimerResult
  <2>2. Op("session", x, d) \in OpType /\ Op("session", x, d).deadline \in Nat /\ Op("session", x, d).session \in Sessions
    BY DEF Op, OpType, Deadline
  <2>3. QED
    BY <1>0, <1>1, <2>1, <2>2, SessionTimerResult
<1>2. CASE FireIdleTimer
  <2>1. /\ room.idleTask # None /\ room' = [room EXCEPT !.idleTask = None] /\ io' = io
        /\ queue' = queue \cup {Op("idle", None, room.idleTask)}
    BY <1>2 DEF FireIdleTimer, Due, Enqueue
  <2>2. None \in Deadline /\ room.idleTask \in Nat
    BY <1>0, <2>1, RoomFields DEF Deadline
  <2>3. /\ room' \in RoomType /\ room'.revision = room.revision /\ room'.host = room.host /\ room'.seats = room.seats
        /\ room'.game = room.game /\ room'.idleDeadline = room.idleDeadline /\ room'.sessions = room.sessions
        /\ room'.abandonedDeadline = room.abandonedDeadline /\ room'.abandonedTask = room.abandonedTask
    BY <1>0, <2>1, <2>2 DEF RoomType
  <2>4. io # "remove" => Covered(room, queue)'
    BY <1>0, <2>1, <2>3 DEF Covered, Live
  <2>5. Op("idle", None, room.idleTask) \in OpType /\ Op("idle", None, room.idleTask).deadline \in Nat
        /\ Op("idle", None, room.idleTask).kind = "idle"
    BY <2>2 DEF Op, OpType, Deadline
  <2>6. QED
    BY <1>0, <2>1, <2>3, <2>4, <2>5, TimerRearmed
<1>3. CASE FireAbandonedTimer
  <2>1. /\ room.abandonedTask # None /\ room' = [room EXCEPT !.abandonedTask = None] /\ io' = io
        /\ queue' = queue \cup {Op("abandoned", None, room.abandonedTask)}
    BY <1>3 DEF FireAbandonedTimer, Due, Enqueue
  <2>2. None \in Deadline /\ room.abandonedTask \in Nat
    BY <1>0, <2>1, RoomFields DEF Deadline
  <2>3. /\ room' \in RoomType /\ room'.revision = room.revision /\ room'.host = room.host /\ room'.seats = room.seats
        /\ room'.game = room.game /\ room'.idleDeadline = room.idleDeadline /\ room'.sessions = room.sessions
        /\ room'.abandonedDeadline = room.abandonedDeadline /\ room'.idleTask = room.idleTask
    BY <1>0, <2>1, <2>2 DEF RoomType
  <2>4. io # "remove" => Covered(room, queue)'
    BY <1>0, <2>1, <2>3 DEF Covered, Live
  <2>5. Op("abandoned", None, room.abandonedTask) \in OpType /\ Op("abandoned", None, room.abandonedTask).deadline \in Nat
        /\ Op("abandoned", None, room.abandonedTask).kind = "abandoned"
    BY <2>2 DEF Op, OpType, Deadline
  <2>6. QED
    BY <1>0, <2>1, <2>3, <2>4, <2>5, TimerRearmed
<1>4. QED
  BY <1>0, <1>1, <1>2, <1>3 DEF FireTimer

-----------------------------------------------------------------------------
(* A Room restored from its record.                                         *)

\* A Room restored from a sound record is sound, and every deadline has its timer.
LEMMA RestoredSound ==
  ASSUME NEW rec \in RecordType, Sound(rec), now \in Nat
  PROVE  LET t == Restored(rec)
         IN /\ t \in RoomType /\ Sound(t) /\ Tasks(t) /\ Covered(t, {})
            /\ t.revision = rec.revision /\ Live(t) = Live(rec)
<1>0. Populated(rec) /\ Owned(rec) /\ Connection(rec) /\ HostSeated(rec) /\ Inhabited(rec) /\ Seated(rec)
      /\ Counting(rec)
  BY DEF Sound, Populated
<1>1. /\ rec.revision \in Nat /\ rec.host \in Sessions /\ rec.seats \in [Seats -> SeatType]
      /\ rec.idleDeadline \in Nat /\ rec.abandonedDeadline \in Deadline /\ rec.game \in GameType \cup {None}
      /\ rec.sessions \in [Sessions -> {None} \cup [seat : Seats, deadline : Deadline]]
  BY DEF RecordType
<1> DEFINE deadline(x) == IF rec.sessions[x].deadline # None THEN rec.sessions[x].deadline ELSE now + RestartGrace
<1>2. PICK due : due = [x \in Sessions |-> deadline(x)]
  OBVIOUS
<1>3. \A x \in Live(rec) : /\ due[x] \in Nat /\ due[x] \in Deadline /\ due[x] # None /\ rec.sessions[x].seat \in Seats
                           /\ rec.sessions[x].deadline # None => due[x] = rec.sessions[x].deadline
  <2> SUFFICES ASSUME NEW x \in Live(rec)
               PROVE  /\ due[x] \in Nat /\ due[x] \in Deadline /\ due[x] # None /\ rec.sessions[x].seat \in Seats
                      /\ rec.sessions[x].deadline # None => due[x] = rec.sessions[x].deadline
    OBVIOUS
  <2>1. x \in Sessions /\ rec.sessions[x] \in [seat : Seats, deadline : Deadline]
    BY <1>1 DEF Live
  <2>2. rec.sessions[x].seat \in Seats /\ rec.sessions[x].deadline \in Deadline
    BY <2>1
  <2>3. now + RestartGrace \in Nat
    BY RoomConstants
  <2>4. due[x] = deadline(x)
    BY <1>2, <2>1
  <2>5. due[x] \in Nat
    BY <2>2, <2>3, <2>4 DEF Deadline
  <2>6. QED
    BY <2>2, <2>4, <2>5, RoomConstants DEF Deadline
<1>4. PICK seats : seats = [s \in Seats |->
                                IF s \in HumanSeats(rec) /\ rec.seats[s].session \in Live(rec)
                                THEN [rec.seats[s] EXCEPT !.status = "RECONNECTING",
                                                          !.deadline = due[rec.seats[s].session]]
                                ELSE rec.seats[s]]
  OBVIOUS
<1>5. PICK sessions : sessions = [x \in Sessions |->
                                    IF x \in Live(rec)
                                    THEN [seat |-> rec.sessions[x].seat, deadline |-> due[x], task |-> due[x]]
                                    ELSE None]
  OBVIOUS
<1>6. PICK r : r = [revision |-> rec.revision, host |-> rec.host, seats |-> seats, sessions |-> sessions,
                    idleDeadline |-> rec.idleDeadline,
                    idleTask |-> IF rec.game = None THEN rec.idleDeadline ELSE None,
                    abandonedDeadline |-> rec.abandonedDeadline,
                    abandonedTask |-> rec.abandonedDeadline, game |-> rec.game]
  OBVIOUS
<1>7. Restored(rec) = SynchronizeGamePresence(r)
  <2>1. [s \in Seats |-> IF s \in HumanSeats(rec) /\ rec.seats[s].session \in Live(rec)
                         THEN [rec.seats[s] EXCEPT !.status = "RECONNECTING",
                                                   !.deadline = deadline(rec.seats[s].session)]
                         ELSE rec.seats[s]] = seats
    <3>1. \A s \in Seats : s \in HumanSeats(rec) /\ rec.seats[s].session \in Live(rec) =>
            due[rec.seats[s].session] = deadline(rec.seats[s].session)
      BY <1>2 DEF Live
    <3> HIDE DEF deadline
    <3>2. QED
      BY <1>4, <3>1
  <2>2. [x \in Sessions |-> IF x \in Live(rec)
                            THEN [seat |-> rec.sessions[x].seat, deadline |-> deadline(x), task |-> deadline(x)]
                            ELSE None] = sessions
    <3>1. \A x \in Sessions : due[x] = deadline(x)
      BY <1>2
    <3> HIDE DEF deadline
    <3>2. QED
      BY <1>5, <3>1
  <2>3. Restored(rec) = SynchronizeGamePresence(
        [revision |-> rec.revision, host |-> rec.host,
         seats |-> [s \in Seats |-> IF s \in HumanSeats(rec) /\ rec.seats[s].session \in Live(rec)
                         THEN [rec.seats[s] EXCEPT !.status = "RECONNECTING",
                                                   !.deadline = deadline(rec.seats[s].session)]
                         ELSE rec.seats[s]],
         sessions |-> [x \in Sessions |-> IF x \in Live(rec)
                            THEN [seat |-> rec.sessions[x].seat, deadline |-> deadline(x), task |-> deadline(x)]
                            ELSE None],
         idleDeadline |-> rec.idleDeadline,
         idleTask |-> IF rec.game = None THEN rec.idleDeadline ELSE None,
         abandonedDeadline |-> rec.abandonedDeadline,
         abandonedTask |-> rec.abandonedDeadline,
         game |-> rec.game])
    BY Zenon DEF Restored
  <2>4. r = [revision |-> rec.revision, host |-> rec.host, seats |-> seats, sessions |-> sessions,
             idleDeadline |-> rec.idleDeadline,
             idleTask |-> IF rec.game = None THEN rec.idleDeadline ELSE None,
             abandonedDeadline |-> rec.abandonedDeadline,
             abandonedTask |-> rec.abandonedDeadline, game |-> rec.game]
    BY <1>6
  <2> HIDE DEF deadline
  <2>5. Restored(rec) = SynchronizeGamePresence(
        [revision |-> rec.revision, host |-> rec.host, seats |-> seats, sessions |-> sessions,
         idleDeadline |-> rec.idleDeadline,
         idleTask |-> IF rec.game = None THEN rec.idleDeadline ELSE None,
         abandonedDeadline |-> rec.abandonedDeadline,
         abandonedTask |-> rec.abandonedDeadline,
         game |-> rec.game])
    BY <2>1, <2>2, <2>3, Zenon
  <2>6. [revision |-> rec.revision, host |-> rec.host, seats |-> seats, sessions |-> sessions,
         idleDeadline |-> rec.idleDeadline,
         idleTask |-> IF rec.game = None THEN rec.idleDeadline ELSE None,
         abandonedDeadline |-> rec.abandonedDeadline,
         abandonedTask |-> rec.abandonedDeadline,
         game |-> rec.game] = r
    BY <2>4
  <2>7. QED
    BY <2>5, <2>6, Zenon
<1> HIDE DEF deadline
<1>8. /\ seats \in [Seats -> SeatType]
      /\ \A s \in Seats : /\ seats[s].occupancy = rec.seats[s].occupancy
                          /\ seats[s].session = rec.seats[s].session
      /\ \A s \in HumanSeats(rec) :
            IF rec.seats[s].session \in Live(rec)
            THEN seats[s].status = "RECONNECTING" /\ seats[s].deadline = due[rec.seats[s].session]
            ELSE seats[s] = rec.seats[s]
  <2>1. ASSUME NEW s \in Seats
        PROVE  /\ seats[s] \in SeatType
               /\ seats[s].occupancy = rec.seats[s].occupancy /\ seats[s].session = rec.seats[s].session
               /\ s \in HumanSeats(rec) /\ rec.seats[s].session \in Live(rec) =>
                    seats[s].status = "RECONNECTING" /\ seats[s].deadline = due[rec.seats[s].session]
               /\ s \in HumanSeats(rec) /\ rec.seats[s].session \notin Live(rec) => seats[s] = rec.seats[s]
    <3>1. PICK old \in SeatType : old = rec.seats[s]
      BY <1>1
    <3>2. CASE s \in HumanSeats(rec) /\ rec.seats[s].session \in Live(rec)
      <4>1. PICK d \in Deadline : d = due[rec.seats[s].session]
        BY <1>3, <3>2
      <4>2. seats[s] = [old EXCEPT !.status = "RECONNECTING", !.deadline = d]
        BY <1>4, <3>1, <3>2, <4>1
      <4>3. [old EXCEPT !.status = "RECONNECTING", !.deadline = d] \in SeatType
        BY DEF SeatType
      <4>4. /\ [old EXCEPT !.status = "RECONNECTING", !.deadline = d].occupancy = old.occupancy
            /\ [old EXCEPT !.status = "RECONNECTING", !.deadline = d].session = old.session
            /\ [old EXCEPT !.status = "RECONNECTING", !.deadline = d].status = "RECONNECTING"
            /\ [old EXCEPT !.status = "RECONNECTING", !.deadline = d].deadline = d
        BY DEF SeatType
      <4>5. QED
        BY <3>1, <3>2, <4>1, <4>2, <4>3, <4>4
    <3>3. CASE ~(s \in HumanSeats(rec) /\ rec.seats[s].session \in Live(rec))
      <4>1. seats[s] = rec.seats[s]
        BY <1>4, <3>3
      <4>2. QED
        BY <3>1, <3>3, <4>1
    <3>4. QED
      BY <3>2, <3>3
  <2>2. seats \in [Seats -> SeatType]
    <3>1. seats = [s \in Seats |-> seats[s]]
      BY <1>4
    <3>2. QED
      BY <2>1, <3>1
  <2>3. HumanSeats(rec) \subseteq Seats
    BY DEF HumanSeats
  <2>4. QED
    BY <2>1, <2>2, <2>3
<1>9. /\ sessions \in [Sessions -> {None} \cup SessionType]
      /\ \A x \in Live(rec) : /\ sessions[x] # None /\ sessions[x].seat = rec.sessions[x].seat
                              /\ sessions[x].deadline = due[x] /\ sessions[x].task = due[x]
      /\ \A x \in Sessions \ Live(rec) : sessions[x] = None
  <2>1. ASSUME NEW x \in Live(rec)
        PROVE  /\ sessions[x] \in SessionType /\ sessions[x] # None /\ sessions[x].seat = rec.sessions[x].seat
               /\ sessions[x].deadline = due[x] /\ sessions[x].task = due[x]
    <3>1. PICK s \in Seats, d \in Deadline : s = rec.sessions[x].seat /\ d = due[x]
      BY <1>3
    <3>2. sessions[x] = [seat |-> s, deadline |-> d, task |-> d]
      BY <1>5, <3>1 DEF Live
    <3>3. [seat |-> s, deadline |-> d, task |-> d] \in SessionType
      BY DEF SessionType
    <3>4. QED
      BY <3>1, <3>2, <3>3, NoneIsNothing DEF SessionType
  <2>2. \A x \in Sessions \ Live(rec) : sessions[x] = None
    BY <1>5
  <2>3. sessions = [x \in Sessions |-> sessions[x]]
    BY <1>5
  <2>4. QED
    BY <2>1, <2>2, <2>3
<1>10. /\ r \in RoomType /\ r.revision = rec.revision /\ r.host = rec.host /\ r.seats = seats /\ r.sessions = sessions
       /\ r.idleDeadline = rec.idleDeadline /\ (rec.game = None => r.idleTask = rec.idleDeadline)
       /\ r.abandonedDeadline = rec.abandonedDeadline /\ r.abandonedTask = rec.abandonedDeadline
       /\ r.game = rec.game
  <2>1. PICK task \in Deadline : task = IF rec.game = None THEN rec.idleDeadline ELSE None
    BY <1>1 DEF Deadline
  <2>2. r = [revision |-> rec.revision, host |-> rec.host, seats |-> seats, sessions |-> sessions,
             idleDeadline |-> rec.idleDeadline, idleTask |-> task, abandonedDeadline |-> rec.abandonedDeadline,
             abandonedTask |-> rec.abandonedDeadline, game |-> rec.game]
    BY <1>6, <2>1
  <2>3. r \in RoomType
    BY <1>1, <1>8, <1>9, <2>2 DEF RoomType, SessionType
  <2>4. QED
    BY <2>1, <2>2, <2>3
<1>11. Live(r) = Live(rec) /\ HumanSeats(r) = HumanSeats(rec) /\ HumanSeats(rec) \subseteq Seats
       /\ Live(rec) \subseteq Sessions
  BY <1>8, <1>9, <1>10 DEF Live, HumanSeats
<1>12. ConnectedSeats(r) = {} /\ ExpiredSeats(r) = ExpiredSeats(rec)
  <2>1. \A s \in HumanSeats(r) : r.seats[s].status # "CONNECTED"
                                 /\ (r.seats[s].status = "DISCONNECTED" <=> rec.seats[s].status = "DISCONNECTED")
    <3> SUFFICES ASSUME NEW s \in HumanSeats(rec)
                 PROVE  r.seats[s].status # "CONNECTED"
                        /\ (r.seats[s].status = "DISCONNECTED" <=> rec.seats[s].status = "DISCONNECTED")
      BY <1>11
    <3>1. CASE rec.seats[s].session \in Live(rec)
      BY <1>0, <1>8, <1>10, <3>1 DEF Connection
    <3>2. CASE rec.seats[s].session \notin Live(rec)
      BY <1>0, <1>8, <1>10, <3>2 DEF Connection
    <3>3. QED
      BY <3>1, <3>2
  <2>2. QED
    BY <1>11, <2>1 DEF ConnectedSeats, ExpiredSeats
<1>13. Owned(r)
  <2>1. /\ \A s \in Seats : r.seats[s].occupancy # "HUMAN" => r.seats[s].session = None
        /\ \A s \in HumanSeats(r) : r.seats[s].session \in Sessions
    BY <1>0, <1>8, <1>10, <1>11 DEF Owned
  <2>2. ASSUME NEW y \in HumanSeats(r), NEW z \in HumanSeats(r), r.seats[y].session = r.seats[z].session
        PROVE  y = z
    <3>1. rec.seats[y].session = rec.seats[z].session
      BY <1>8, <1>10, <1>11, <2>2
    <3>2. QED
      BY <1>0, <1>11, <3>1 DEF Owned
  <2>3. ASSUME NEW y \in Live(r)
        PROVE  /\ r.sessions[y].seat \in HumanSeats(r)
               /\ r.seats[r.sessions[y].seat].session = y
               /\ r.seats[r.sessions[y].seat].deadline = r.sessions[y].deadline
    <3>1. PICK z : z = rec.sessions[y].seat
      OBVIOUS
    <3>2. z \in HumanSeats(rec) /\ rec.seats[z].session = y
      BY <1>0, <1>11, <3>1 DEF Owned
    <3>3. seats[z].session = y /\ seats[z].deadline = due[y]
      BY <1>8, <1>11, <3>2
    <3>4. QED
      BY <1>9, <1>10, <1>11, <3>1, <3>2, <3>3
  <2>4. QED
    BY <2>1, <2>2, <2>3 DEF Owned
<1>14. Connection(r)
  <2> SUFFICES ASSUME NEW z \in HumanSeats(rec)
               PROVE  /\ r.seats[z].status \in {"CONNECTED", "RECONNECTING", "DISCONNECTED"}
                      /\ r.seats[z].status = "CONNECTED" <=> r.seats[z].deadline = None
                      /\ r.seats[z].status = "DISCONNECTED" <=> r.seats[z].session \notin Live(r)
    BY <1>11 DEF Connection
  <2>1. CASE rec.seats[z].session \in Live(rec)
    <3>1. r.seats[z].status = "RECONNECTING" /\ r.seats[z].session = rec.seats[z].session
      BY <1>8, <1>10, <1>11, <2>1
    <3>2. r.seats[z].deadline # None
      BY <1>3, <1>8, <1>10, <2>1
    <3>3. QED
      BY <1>11, <2>1, <3>1, <3>2
  <2>2. CASE rec.seats[z].session \notin Live(rec)
    <3>1. r.seats[z] = rec.seats[z]
      BY <1>8, <1>10, <2>2
    <3>2. QED
      BY <1>0, <1>11, <2>2, <3>1 DEF Connection
  <2>3. QED
    BY <2>1, <2>2
<1>15. HostSeated(r) /\ HostLive(r) /\ Inhabited(r)
  <2>1. PICK z \in HumanSeats(rec) : rec.seats[z].session = rec.host
    BY <1>0 DEF HostSeated
  <2>2. HostSeated(r)
    BY <1>8, <1>10, <1>11, <2>1 DEF HostSeated
  <2>3. QED
    BY <1>0, <1>10, <1>11, <1>12, <2>2 DEF HostLive, Inhabited
<1>16. Seated(r)
  <2>1. Seated(rec)
    BY <1>0
  <2>2. r.game = rec.game /\ HumanSeats(r) = HumanSeats(rec)
        /\ \A s \in Seats : /\ r.seats[s].occupancy = rec.seats[s].occupancy
                            /\ r.seats[s].session = rec.seats[s].session
    BY <1>8, <1>10, <1>11
  <2>3. QED
    BY <2>1, <2>2 DEF Seated
<1>17. Tasks(r) /\ Covered(r, {})
  <2>1. \A x \in Live(r) : r.sessions[x].task # None /\ r.sessions[x].deadline # None
    BY <1>3, <1>9, <1>10, <1>11
  <2>2. QED
    BY <1>10, <2>1 DEF Tasks, Covered
<1>18. PICK q : q = {}
  OBVIOUS
<1>19. Fit(r, q) /\ Reckoned(r)
  <2>1. Reckoned(r)
    BY <1>0, <1>10, <1>12 DEF Reckoned, Counting, Reason, Finished
  <2>2. QED
    BY <1>10, <1>13, <1>14, <1>15, <1>16, <1>17, <1>18, <2>1 DEF Fit, Populated
<1>20. PICK t : t = Restored(rec)
  OBVIOUS
<1>21. t = SynchronizeGamePresence(r)
  BY <1>7, <1>20
<1>22. /\ Fit(t, q) /\ HostLive(t) /\ Synced(t) /\ Countable(t)
       /\ t.revision = r.revision /\ t.seats = r.seats /\ t.sessions = r.sessions
       /\ (t.game = None) <=> (r.game = None)
       /\ (r.abandonedDeadline # None) => Counting(t)
  BY <1>15, <1>19, <1>21, SyncFit
<1>23. Counting(t)
  <2>1. CASE r.abandonedDeadline # None
    BY <1>22, <2>1
  <2>2. CASE r.abandonedDeadline = None
    <3>1. ~Reason(r)
      BY <1>0, <1>10, <1>12, <2>2 DEF Counting, Reason, Finished
    <3>2. ExpiredSeats(t) = ExpiredSeats(r)
      BY <1>22, SeatsSame
    <3>3. ~Reason(t)
      <4>1. CASE r.game = None
        BY <1>22, <4>1 DEF Reason
      <4>2. CASE r.game # None
        <5>1. t.game.winner = r.game.winner
          BY <1>10, <1>21, <4>2, SyncFacts
        <5>2. QED
          BY <1>22, <3>1, <3>2, <4>2, <5>1 DEF Reason, Finished
      <4>3. QED
        BY <4>1, <4>2
    <3>4. QED
      BY <1>22, <3>3 DEF Countable, Counting
  <2>3. QED
    BY <2>1, <2>2
<1>24. Live(t) = Live(rec)
  BY <1>11, <1>22 DEF Live
<1>25. QED
  BY <1>10, <1>18, <1>20, <1>22, <1>23, <1>24 DEF Sound, Fit

-----------------------------------------------------------------------------
(* The invariant is inductive.                                              *)

\* A Room that is not closing is open to operations.
LEMMA InvariantOpen ==
  ASSUME RoomInvariant, room # None, io # "remove"
  PROVE  Open
<1>1. TypeOK /\ RoomSound
  BY DEF RoomInvariant
<1>2. QED
  BY <1>1 DEF TypeOK, RoomSound, Open

\* Timers do not bear on a Room's soundness.
LEMMA RearmedSound ==
  ASSUME room \in RoomType, Sound(room), Rearmed
  PROVE  /\ Sound(room)' /\ Owned(room)' /\ Owned(room)
         /\ Record(room') = Record(room)
<1>1. PICK t \in RoomType :
        /\ t = room' /\ t.revision = room.revision /\ t.host = room.host /\ t.seats = room.seats
        /\ t.game = room.game /\ t.idleDeadline = room.idleDeadline /\ t.abandonedDeadline = room.abandonedDeadline
  BY DEF Rearmed
<1>2. Live(t) = Live(room) /\ \A x \in Live(room) : /\ t.sessions[x].seat = room.sessions[x].seat
                                                    /\ t.sessions[x].deadline = room.sessions[x].deadline
  BY <1>1 DEF Rearmed, Live
<1>3. /\ HumanSeats(t) = HumanSeats(room) /\ ConnectedSeats(t) = ConnectedSeats(room)
      /\ ExpiredSeats(t) = ExpiredSeats(room) /\ PresenceOf(t) = PresenceOf(room)
  BY <1>1, SeatsSame
<1>4. Owned(room) /\ Owned(t)
  BY <1>1, <1>2, <1>3 DEF Sound, Populated, Owned
<1>5. Connection(t) /\ HostSeated(t) /\ HostLive(t) /\ Inhabited(t)
  BY <1>1, <1>2, <1>3 DEF Sound, Populated, Connection, HostSeated, HostLive, Inhabited
<1>6. Seated(t)
  BY <1>1, <1>3 DEF Sound, Populated, Seated
<1>7. Synced(t) /\ Counting(t)
  BY <1>1, <1>3 DEF Sound, Synced, Counting, Reason, Finished
<1>8. Sound(t)
  BY <1>4, <1>5, <1>6, <1>7 DEF Sound, Populated
<1>9. Record(t) = Record(room)
  BY <1>1, <1>2, <1>4, RecordSame
<1>10. QED
  BY <1>1, <1>4, <1>8, <1>9

\* What the queue may hold after a step.
QueueNext ==
    /\ queue' \subseteq OpType /\ (process # "up" => queue' = {})
    /\ \A op \in queue' : /\ op.kind \in {"session", "disconnect"} => op.session \in Sessions
                          /\ op.kind # "finished" => op.deadline \in Nat

\* An operation or a timer of a Room in memory.
LEMMA StepKeeps ==
  ASSUME RoomInvariant, room # None, process # "down",
         \/ io = "none" /\ (Saved \/ Closing)
         \/ process = "up" /\ Rearmed,
         Advances, QueueNext,
         process' = process, disk' = disk, committed' = committed, now' = now, failures' = failures, told' = told,
         issued' \subseteq Sessions, issued \subseteq issued',
         Live(room)' \subseteq issued', Live(room)' \cap issued \subseteq Live(room)
  PROVE  RoomInvariant'
<1>0. /\ TypeOK /\ RoomSound /\ DiskSound /\ QueueSound /\ Durable /\ Past
      /\ room \in RoomType
  BY DEF RoomInvariant, TypeOK
<1>1. room' \in RoomType /\ room' # None /\ io' \in {"none", "save", "remove"}
  <2>1. room' \in RoomType /\ io' \in {"none", "save", "remove"}
    BY <1>0 DEF Saved, Closing, Rearmed, TypeOK
  <2>2. QED
    BY <2>1, NoneIsNothing
<1>2. TypeOK'
  BY <1>0, <1>1 DEF TypeOK, QueueNext
<1>3. RoomSound'
  <2>1. CASE Saved
    BY <2>1 DEF Saved, RoomSound
  <2>2. CASE Closing
    BY <2>2 DEF Closing, RoomSound
  <2>3. CASE Rearmed
    <3>1. io # "remove" => Sound(room)' /\ Covered(room, queue)'
      BY <1>0, <2>3, RearmedSound DEF RoomSound, Rearmed
    <3>2. Tasks(room)' /\ io' = io
      BY <2>3 DEF Rearmed
    <3>3. QED
      BY <3>1, <3>2 DEF RoomSound
  <2>4. QED
    BY <2>1, <2>2, <2>3
<1>4. DiskSound' /\ QueueSound'
  BY <1>0 DEF DiskSound, QueueSound, QueueNext
<1>5. Durable'
  <2>1. process # "up" => queue' = {}
    BY DEF QueueNext
  <2>2. ASSUME io' = "none"
        PROVE  committed = disk /\ Record(room') = disk
    <3>1. CASE io = "none" /\ Saved
      <4>1. Record(room') = committed
        BY <2>2, <3>1 DEF Saved
      <4>2. Record(room') # None
        <5>1. PICK t \in RoomType : t = room'
          BY <1>1
        <5>2. Sound(t)
          BY <3>1, <5>1 DEF Saved
        <5>3. QED
          BY <5>1, <5>2, RecordSound
      <4>3. QED
        BY <1>0, <3>1, <4>1, <4>2 DEF Durable
    <3>2. CASE io = "none" /\ Closing
      BY <2>2, <3>2 DEF Closing
    <3>3. CASE process = "up" /\ Rearmed
      <4>1. io = "none"
        BY <2>2, <3>3 DEF Rearmed
      <4>2. committed = disk /\ Record(room) = disk
        BY <1>0, <3>3, <4>1 DEF Durable
      <4>3. Sound(room)
        BY <1>0, <4>1 DEF RoomSound
      <4>4. QED
        BY <1>0, <3>3, <4>2, <4>3, RearmedSound
    <3>4. QED
      BY <3>1, <3>2, <3>3
  <2>3. QED
    BY <1>1, <2>1, <2>2 DEF Durable
<1>6. Past'
  <2>1. told.members \subseteq issued' /\ told.ended \subseteq issued'
    BY <1>0 DEF Past
  <2>2. Live(room)' \subseteq issued' /\ Live(room)' \cap told.ended = {}
    BY <1>0 DEF Past
  <2>3. disk # None => Live(disk) \subseteq issued' /\ Live(disk) \cap told.ended = {}
    BY <1>0 DEF Past
  <2>4. /\ room.revision \in Nat /\ room'.revision \in Nat /\ told.revision \in Nat
        /\ disk # None => disk.revision \in Nat
        /\ committed # None => committed.revision \in Nat
    <3>1. \A rec \in RecordType : rec.revision \in Nat
      BY DEF RecordType
    <3>2. QED
      BY <1>0, <1>1, <3>1, RoomFields DEF TypeOK
  <2>5. told.members # {} => /\ room'.revision >= told.revision
                             /\ disk # None => disk.revision >= told.revision
    BY <1>0, <2>4 DEF Past, Advances
  <2>6. ASSUME committed # None
        PROVE  /\ room'.revision >= committed.revision
               /\ Public(room)' # Public(committed) => room'.revision > committed.revision
    <3>1. /\ room.revision >= committed.revision
          /\ Public(room) # Public(committed) => room.revision > committed.revision
      BY <1>0, <2>6 DEF Past
    <3>2. QED
      BY <2>4, <2>6, <3>1 DEF Advances
  <2>7. committed # None => Public(committed)' = Public(committed)
    BY DEF Public
  <2>8. disk # None => Live(disk)' = Live(disk)
    BY DEF Live
  <2>9. QED
    BY <1>1, <2>1, <2>2, <2>3, <2>5, <2>6, <2>7, <2>8 DEF Past
<1>7. QED
  BY <1>2, <1>3, <1>4, <1>5, <1>6 DEF RoomInvariant

\* The bodies of the action properties.
Graceful ==
    room # None /\ room' # None /\ io' # "remove" =>
        \A x \in Live(room) \ Live(room') :
            \/ LeaveRoom(x)
            \/ room.sessions[x].deadline # None /\ room.sessions[x].deadline <= now
Identifies ==
    committed # None /\ committed' # None /\ Public(committed) # Public(committed')
        => committed'.revision > committed.revision
Forward == told'.members # {} /\ told.members # {} => told'.revision >= told.revision

\* A step that leaves storage and clients alone.
LEMMA QuietStep ==
  ASSUME RoomInvariant, committed' = committed, told' = told
  PROVE  Identifies /\ Forward
<1>1. told.revision \in Nat
  BY DEF RoomInvariant, TypeOK
<1>2. QED
  BY <1>1 DEF Identifies, Forward

\* An operation run alone, to its outcome.
LEMMA OutcomeKeeps ==
  ASSUME RoomInvariant, room # None, io = "none", process # "down",
         Outcome, process = "up" \/ Saved \/ Closing, QueueNext,
         process' = process, disk' = disk, committed' = committed, now' = now, failures' = failures, told' = told,
         issued' = issued
  PROVE  RoomInvariant' /\ Graceful /\ Identifies /\ Forward
<1>1. issued \subseteq Sessions /\ Live(room) \subseteq issued
  BY DEF RoomInvariant, TypeOK, Past
<1>2. RoomInvariant'
  BY <1>1, StepKeeps DEF Outcome
<1>3. Graceful
  BY DEF Graceful, Outcome, Kept
<1>4. QED
  BY <1>2, <1>3, QuietStep

-----------------------------------------------------------------------------
(* Every step of the Room keeps the invariant.                              *)

\* An operation leaves the queue.
LEMMA QueueShrinks ==
  ASSUME RoomInvariant, process = "up", queue' \subseteq queue
  PROVE  QueueNext
  BY DEF RoomInvariant, TypeOK, QueueSound, QueueNext

\* An operation enters the queue.
LEMMA QueueGrows ==
  ASSUME RoomInvariant, process = "up", NEW op \in OpType, queue' = queue \cup {op},
         op.kind \in {"session", "disconnect"} => op.session \in Sessions,
         op.kind # "finished" => op.deadline \in Nat
  PROVE  QueueNext
  BY DEF RoomInvariant, TypeOK, QueueSound, QueueNext

\* A new Room keeps the invariant.
LEMMA CreateKeeps ==
  ASSUME RoomInvariant, CreateRoom
  PROVE  RoomInvariant' /\ Graceful /\ Identifies /\ Forward
<1>1. /\ process = "up" /\ io = "none" /\ room = None /\ queue' = queue /\ now \in Nat
      /\ process' = process /\ disk' = disk /\ committed' = committed /\ now' = now
      /\ failures' = failures /\ told' = told
  BY DEF CreateRoom, ClientTurn, Idle, RoomInvariant, TypeOK
<1>2. /\ TypeOK /\ DiskSound /\ QueueSound /\ Durable /\ Past
  BY DEF RoomInvariant
<1>3. committed = None /\ disk = None /\ told.members = {}
  BY <1>1, <1>2 DEF Durable, Past
<1>4. PICK x \in Sessions \ issued : issued' = issued \cup {x} /\ Saved /\ Live(room)' = {x}
  BY <1>1, CreateResult
<1>5. PICK r \in RoomType : r = room'
  BY <1>4 DEF Saved
<1>6. /\ Sound(r) /\ Tasks(r) /\ Covered(r, queue) /\ Live(r) = {x}
      /\ r # None /\ Record(r) # None /\ io' = "save"
  <2>1. Sound(r) /\ Tasks(r) /\ Covered(r, queue) /\ Live(r) = {x}
    BY <1>1, <1>4, <1>5 DEF Saved
  <2>2. r # None /\ Record(r) # None
    BY <2>1, NoneIsNothing, RecordSound
  <2>3. io' = "save"
    BY <1>3, <1>4, <1>5, <2>2 DEF Saved
  <2>4. QED
    BY <2>1, <2>2, <2>3
<1>7. TypeOK'
  BY <1>1, <1>2, <1>4, <1>5, <1>6 DEF TypeOK
<1>8. RoomSound'
  BY <1>1, <1>5, <1>6 DEF RoomSound
<1>9. DiskSound' /\ QueueSound' /\ Durable'
  BY <1>1, <1>2, <1>3, <1>5, <1>6 DEF DiskSound, QueueSound, Durable
<1>10. Past'
  BY <1>1, <1>2, <1>3, <1>4, <1>5, <1>6 DEF Past
<1>11. RoomInvariant'
  BY <1>7, <1>8, <1>9, <1>10 DEF RoomInvariant
<1>12. QED
  BY <1>1, <1>11, QuietStep DEF Graceful

\* A join keeps the invariant.
LEMMA JoinKeeps ==
  ASSUME RoomInvariant, JoinRoom
  PROVE  RoomInvariant' /\ Graceful /\ Identifies /\ Forward
<1>1. /\ process = "up" /\ io = "none" /\ room # None /\ queue' = queue
      /\ process' = process /\ disk' = disk /\ committed' = committed /\ now' = now
      /\ failures' = failures /\ told' = told
  BY DEF JoinRoom, ClientTurn, Idle
<1>2. Live(room) \subseteq issued /\ issued \subseteq Sessions
  BY <1>1 DEF RoomInvariant, Past, TypeOK
<1>3. PICK x \in Sessions \ issued : /\ issued' = issued \cup {x}
                                     /\ Saved /\ Advances /\ Live(room)' = Live(room) \cup {x}
  BY <1>1, <1>2, InvariantOpen, JoinResult
<1>4. QueueNext
  BY <1>1, QueueShrinks
<1>5. RoomInvariant'
  BY <1>1, <1>2, <1>3, <1>4, StepKeeps
<1>6. Graceful
  BY <1>3 DEF Graceful
<1>7. QED
  BY <1>1, <1>5, <1>6, QuietStep

\* A leave keeps the invariant.
LEMMA LeaveKeeps ==
  ASSUME RoomInvariant, NEW x \in Sessions, LeaveRoom(x)
  PROVE  RoomInvariant' /\ Graceful /\ Identifies /\ Forward
<1>1. /\ process = "up" /\ io = "none" /\ room # None /\ queue' = queue /\ x \in Live(room) /\ room.game = None
      /\ process' = process /\ disk' = disk /\ committed' = committed /\ now' = now
      /\ failures' = failures /\ told' = told /\ issued' = issued
      /\ AfterDeparture(BumpRevision(RemoveSessionAndSeat(room, x)), x)
  BY DEF LeaveRoom, ClientTurn, Idle, Member, Unmoved
<1>2. Live(room) \subseteq issued /\ issued \subseteq Sessions
  BY <1>1 DEF RoomInvariant, Past, TypeOK
<1>3. (Saved \/ Closing) /\ Advances
  BY <1>1, InvariantOpen, LeaveResult
<1>4. Live(room)' = Live(room) \ {x}
  <2>1. QueueLess(x)
    BY <1>1 DEF QueueLess
  <2>2. QED
    BY <1>1, <2>1, InvariantOpen, DepartureResult
<1>5. QueueNext
  BY <1>1, QueueShrinks
<1>6. RoomInvariant'
  BY <1>1, <1>2, <1>3, <1>4, <1>5, StepKeeps
<1>7. Graceful
  BY <1>4 DEF Graceful
<1>8. QED
  BY <1>1, <1>6, <1>7, QuietStep

\* Every operation of a client keeps the invariant.
LEMMA ClientKeeps ==
  ASSUME RoomInvariant, ClientStep
  PROVE  RoomInvariant' /\ Graceful /\ Identifies /\ Forward
<1>1. SUFFICES ASSUME room # None, process = "up", io = "none", Outcome, queue' = queue,
                      process' = process, disk' = disk, committed' = committed, now' = now,
                      failures' = failures, told' = told, issued' = issued
               PROVE  RoomInvariant' /\ Graceful /\ Identifies /\ Forward
  <2>1. CASE CreateRoom
    BY <2>1, CreateKeeps
  <2>2. CASE JoinRoom
    BY <2>2, JoinKeeps
  <2>3. CASE FinishGame
    <3>1. /\ process = "up" /\ io = "none" /\ room # None
          /\ queue' = queue \cup {Op("finished", None, None)}
          /\ process' = process /\ disk' = disk /\ committed' = committed /\ now' = now
          /\ failures' = failures /\ told' = told /\ issued' = issued
      BY <2>3 DEF FinishGame, ClientTurn, Idle, Op
    <3>2. QueueNext
      <4>1. Op("finished", None, None) \in OpType
        BY RoomConstants DEF Op, OpType, Deadline
      <4>2. Op("finished", None, None).kind = "finished"
        BY DEF Op
      <4>3. QED
        BY <3>1, <4>1, <4>2, QueueGrows
    <3>3. Outcome
      BY <2>3, <3>1, InvariantOpen, FinishOutcome
    <3>4. QED
      BY <3>1, <3>2, <3>3, OutcomeKeeps
  <2>4. CASE FailGame
    <3>1. /\ process = "up" /\ io = "none" /\ room # None /\ queue' = queue
          /\ process' = process /\ disk' = disk /\ committed' = committed /\ now' = now
          /\ failures' = failures /\ told' = told /\ issued' = issued
      BY <2>4 DEF FailGame, ClientTurn, Idle, Unmoved
    <3>2. Outcome
      BY <2>4, <3>1, InvariantOpen, FinishOutcome
    <3>3. QED
      BY <1>1, <3>1, <3>2
  <2>5. ASSUME NEW x \in Sessions, LeaveRoom(x)
        PROVE  RoomInvariant' /\ Graceful /\ Identifies /\ Forward
    BY <2>5, LeaveKeeps
  <2>6. ASSUME NEW x \in Sessions,
               \/ ResumeSession(x) \/ RequestSnapshot(x) \/ RequestStart(x) \/ CloseActiveGame(x)
               \/ \E ready \in BOOLEAN : SetReady(x, ready)
               \/ \E s \in Seats : ReplaceExpiredHuman(x, s)
               \/ \E s \in Seats, seat \in {EmptySeat, AiSeat} : SetAiSeat(x, s, seat)
        PROVE  RoomInvariant' /\ Graceful /\ Identifies /\ Forward
    <3>1. /\ ClientTurn /\ Member(x) /\ Unmoved
      BY <2>6 DEF ResumeSession, RequestSnapshot, RequestStart, CloseActiveGame, ReplacementAuthority,
                  SetReady, ReplaceExpiredHuman, SetAiSeat
    <3>2. /\ process = "up" /\ io = "none" /\ room # None /\ queue' = queue
          /\ process' = process /\ disk' = disk /\ committed' = committed /\ now' = now
          /\ failures' = failures /\ told' = told /\ issued' = issued
      BY <3>1 DEF ClientTurn, Idle, Member, Unmoved
    <3>3. Open
      BY <3>2, InvariantOpen
    <3>4. Outcome
      <4>1. CASE ResumeSession(x)
        BY <3>2, <3>3, <4>1, ResumeOutcome
      <4>2. CASE RequestSnapshot(x)
        BY <3>2, <3>3, <4>2, SnapshotOutcome DEF RequestSnapshot
      <4>3. CASE RequestStart(x)
        BY <3>2, <3>3, <4>3, StartOutcome
      <4>4. CASE CloseActiveGame(x)
        BY <3>3, <4>4, ClosingOutcome DEF CloseActiveGame
      <4>5. ASSUME NEW ready \in BOOLEAN, SetReady(x, ready) PROVE Outcome
        BY <3>2, <3>3, <4>5, ReadyOutcome
      <4>6. ASSUME NEW s \in Seats, ReplaceExpiredHuman(x, s) PROVE Outcome
        BY <3>2, <3>3, <4>6, ReplaceOutcome
      <4>7. ASSUME NEW s \in Seats, NEW seat \in {EmptySeat, AiSeat}, SetAiSeat(x, s, seat) PROVE Outcome
        BY <3>2, <3>3, <4>7, AiSeatOutcome
      <4>8. QED
        BY <2>6, <4>1, <4>2, <4>3, <4>4, <4>5, <4>6, <4>7
    <3>5. QED
      BY <1>1, <3>2, <3>4
  <2>7. QED
    BY <2>1, <2>2, <2>3, <2>4, <2>5, <2>6 DEF ClientStep
<1>2. QueueNext
  BY <1>1, QueueShrinks
<1>3. QED
  BY <1>1, <1>2, OutcomeKeeps

\* A step that moves neither the Room nor its storage.
LEMMA StillKeeps ==
  ASSUME RoomInvariant,
         room' = room, io' = io, disk' = disk, committed' = committed, issued' = issued,
         failures' = failures, told' = told, now' \in Nat,
         \/ process' = process /\ queue' = queue /\ (process = "recovering" => now' = now)
         \/ process' = process /\ process = "up" /\ room = None /\ QueueNext
         \/ /\ process = "recovering" /\ process' = "up" /\ queue' = queue
            /\ io = "none" /\ (room # None => Overdue(room) = {})
  PROVE  RoomInvariant' /\ Graceful /\ Identifies /\ Forward
<1>1. TypeOK /\ RoomSound /\ DiskSound /\ QueueSound /\ Durable /\ Past
  BY DEF RoomInvariant
<1>2. queue' \subseteq OpType /\ QueueSound' /\ (process' # "up" => queue' = {})
  BY <1>1 DEF TypeOK, QueueSound, QueueNext, Durable
<1>3. TypeOK'
  BY <1>1, <1>2 DEF TypeOK
<1>4. RoomSound'
  BY <1>1 DEF RoomSound
<1>5. DiskSound'
  BY <1>1 DEF DiskSound
<1>6. Durable'
  <2>1. now' = now => Overdue(room)' = Overdue(room)
    BY DEF Overdue, Live
  <2>2. QED
    BY <1>1, <1>2, <2>1 DEF Durable
<1>7. Past'
  <2>1. /\ room # None => Live(room)' = Live(room)
        /\ disk # None => Live(disk)' = Live(disk)
        /\ Public(room)' = Public(room) /\ Public(committed)' = Public(committed)
    BY DEF Live, Public
  <2>2. QED
    BY <1>1, <2>1 DEF Past
<1>8. RoomInvariant'
  BY <1>2, <1>3, <1>4, <1>5, <1>6, <1>7 DEF RoomInvariant
<1>9. Graceful
  BY DEF Graceful, Live
<1>10. QED
  BY <1>8, <1>9, QuietStep

\* Every operation of the Room queue keeps the invariant.
LEMMA LifecycleKeeps ==
  ASSUME RoomInvariant, RunLifecycle
  PROVE  RoomInvariant' /\ Graceful /\ Identifies /\ Forward
<1>1. PICK op \in queue : \/ MarkDisconnected(op) \/ ExpireSession(op) \/ ExpireIdleRoom(op)
                          \/ ExpireAbandonedGame(op) \/ PublishFinished(op)
  BY DEF RunLifecycle
<1>2. Dequeue(op)
  BY <1>1 DEF MarkDisconnected, ExpireSession, ExpireIdleRoom, ExpireAbandonedGame, PublishFinished
<1>3. /\ process = "up" /\ io = "none" /\ queue' \subseteq queue
      /\ process' = process /\ disk' = disk /\ committed' = committed /\ now' = now
      /\ failures' = failures /\ told' = told /\ issued' = issued
  BY <1>2 DEF Dequeue, Idle
<1>4. QueueNext
  BY <1>3, QueueShrinks
<1>5. /\ op \in OpType /\ now \in Nat
      /\ op.kind \in {"session", "disconnect"} => op.session \in Sessions
      /\ op.kind # "finished" => op.deadline \in Nat
  BY DEF RoomInvariant, TypeOK, QueueSound
<1>6. CASE room = None
  <2>1. room' = room /\ io' = io
    BY <1>1, <1>6 DEF MarkDisconnected, Member, ExpireSession, ExpireDisconnectedSession, ExpireIdleRoom,
                      ExpireAbandonedGame, PublishFinished
  <2>2. QED
    BY <1>3, <1>4, <1>5, <1>6, <2>1, StillKeeps
<1>7. CASE room # None
  <2>1. Open
    BY <1>3, <1>7, InvariantOpen
  <2>2. CASE MarkDisconnected(op)
    <3>1. op.kind = "disconnect"
      BY <2>2 DEF MarkDisconnected
    <3>2. Outcome
      BY <1>5, <2>1, <2>2, <3>1, MarkOutcome
    <3>3. QED
      BY <1>3, <1>4, <1>7, <3>2, OutcomeKeeps
  <2>3. CASE ExpireSession(op)
    <3>1. op.kind = "session"
      BY <2>3 DEF ExpireSession
    <3>2. Outcome
      BY <1>5, <2>1, <2>3, <3>1, ExpireSessionOutcome
    <3>3. QED
      BY <1>3, <1>4, <1>7, <3>2, OutcomeKeeps
  <2>4. CASE ExpireIdleRoom(op)
    <3>1. op.kind = "idle"
      BY <2>4 DEF ExpireIdleRoom
    <3>2. Outcome
      BY <1>5, <2>1, <2>4, <3>1, ExpireIdleOutcome
    <3>3. QED
      BY <1>3, <1>4, <1>7, <3>2, OutcomeKeeps
  <2>5. CASE ExpireAbandonedGame(op)
    <3>1. op.kind = "abandoned"
      BY <2>5 DEF ExpireAbandonedGame
    <3>2. Outcome
      BY <1>5, <2>1, <2>5, <3>1, ExpireAbandonedOutcome
    <3>3. QED
      BY <1>3, <1>4, <1>7, <3>2, OutcomeKeeps
  <2>6. CASE PublishFinished(op)
    <3>1. Outcome
      BY <2>1, <2>6, PublishOutcome
    <3>2. QED
      BY <1>3, <1>4, <1>7, <3>1, OutcomeKeeps
  <2>7. QED
    BY <1>1, <2>2, <2>3, <2>4, <2>5, <2>6
<1>8. QED
  BY <1>6, <1>7

\* A timer that fires, and a transport that is lost, only add to the queue.
LEMMA RearmedKeeps ==
  ASSUME RoomInvariant, room # None, process = "up", Rearmed, Advances, QueueNext, Live(room)' = Live(room),
         process' = process, disk' = disk, committed' = committed, now' = now, failures' = failures,
         told' = told, issued' = issued
  PROVE  RoomInvariant' /\ Graceful /\ Identifies /\ Forward
<1>1. issued \subseteq Sessions /\ Live(room) \subseteq issued
  BY DEF RoomInvariant, TypeOK, Past
<1>2. RoomInvariant'
  BY <1>1, StepKeeps
<1>3. Graceful
  BY DEF Graceful
<1>4. QED
  BY <1>2, <1>3, QuietStep

\* A timer that fires keeps the invariant.
LEMMA TimerKeeps ==
  ASSUME RoomInvariant, FireTimer
  PROVE  RoomInvariant' /\ Graceful /\ Identifies /\ Forward
<1>1. /\ process = "up" /\ room # None
      /\ process' = process /\ disk' = disk /\ committed' = committed /\ now' = now
      /\ failures' = failures /\ told' = told /\ issued' = issued
  BY DEF FireTimer, FireIdleTimer, FireAbandonedTimer, FireSessionTimer, Enqueue, Member
<1>2. /\ room \in RoomType \cup {None} /\ Tasks(room) /\ (io # "remove" => Covered(room, queue))
  BY <1>1 DEF RoomInvariant, TypeOK, RoomSound
<1>3. /\ Rearmed /\ Advances /\ Live(room)' = Live(room)
      /\ \E op \in OpType : /\ queue' = queue \cup {op} /\ op.deadline \in Nat
                            /\ op.kind \in {"session", "disconnect"} => op.session \in Sessions
  BY <1>2, TimerResult
<1>4. QueueNext
  BY <1>1, <1>3, QueueGrows
<1>5. QED
  BY <1>1, <1>3, <1>4, RearmedKeeps

\* A transport that is lost keeps the invariant.
LEMMA LoseKeeps ==
  ASSUME RoomInvariant, NEW x \in Sessions, LoseTransport(x)
  PROVE  RoomInvariant' /\ Graceful /\ Identifies /\ Forward
<1>1. PICK op : op = Op("disconnect", x, now + ReconnectGrace)
  OBVIOUS
<1>2. /\ process = "up" /\ room # None /\ room' = room /\ io' = io /\ queue' = queue \cup {op}
      /\ process' = process /\ disk' = disk /\ committed' = committed /\ now' = now
      /\ failures' = failures /\ told' = told /\ issued' = issued
  BY <1>1 DEF LoseTransport, Enqueue, Member
<1>3. /\ room \in RoomType /\ Tasks(room) /\ (io # "remove" => Covered(room, queue)) /\ now \in Nat
  BY <1>2 DEF RoomInvariant, TypeOK, RoomSound
<1>4. /\ op \in OpType /\ op.session = x /\ op.deadline \in Nat
  <2>1. now + ReconnectGrace \in Nat
    BY <1>3, RoomConstants
  <2>2. op.session = x /\ op.deadline = now + ReconnectGrace
    BY <1>1 DEF Op
  <2>3. op \in OpType
    BY <1>1, <2>1 DEF Op, OpType, Deadline
  <2>4. QED
    BY <2>1, <2>2, <2>3
<1>5. QueueNext
  BY <1>2, <1>4, QueueGrows
<1>6. io # "remove" => Covered(room, queue')
  BY <1>2, <1>3, CoveredQueue
<1>7. Live(room)' = Live(room)
  BY <1>2 DEF Live
<1>8. Rearmed /\ Advances
  <2>1. room.revision \in Nat
    BY <1>3, RoomFields
  <2>2. Public(room)' = Public(room)
    BY <1>2 DEF Public
  <2>3. QED
    BY <1>2, <1>3, <1>6, <1>7, <2>1, <2>2 DEF Rearmed, Advances
<1>9. QED
  BY <1>2, <1>5, <1>7, <1>8, RearmedKeeps

-----------------------------------------------------------------------------
(* Storage, halts and recovery keep the invariant.                          *)

\* What is written is the Room, and valid.
LEMMA Written ==
  ASSUME RoomInvariant, room # None, io # "remove"
  PROVE  /\ Record(room) \in RecordType /\ Sound(Record(room)) /\ Record(room) # None
         /\ RecordValid(Record(room)) /\ Live(Record(room)) = Live(room)
         /\ Record(room).revision = room.revision /\ Public(Record(room)) = Public(room)
         /\ Live(Record(room)) \subseteq issued /\ Live(room) \cap told.ended = {}
         /\ told.members # {} => room.revision >= told.revision
<1>1. room \in RoomType /\ Sound(room)
  BY DEF RoomInvariant, TypeOK, RoomSound
<1>2. Owned(room)
  BY <1>1 DEF Sound, Populated
<1>3. /\ Record(room) \in RecordType /\ Live(Record(room)) = Live(room)
      /\ Record(room).revision = room.revision /\ Record(room).host = room.host
      /\ Record(room).seats = room.seats /\ Record(room).game = room.game
  BY <1>1, <1>2, RecordFacts
<1>4. Sound(Record(room)) /\ Record(room) # None
  BY <1>1, RecordSound
<1>5. RecordValid(Record(room))
  BY <1>3, <1>4, SoundIsValid
<1>6. Public(Record(room)) = Public(room)
  BY <1>3, PublicSame
<1>7. /\ Live(room) \subseteq issued /\ Live(room) \cap told.ended = {}
      /\ told.members # {} => room.revision >= told.revision
  BY DEF RoomInvariant, Past
<1>8. QED
  BY <1>3, <1>4, <1>5, <1>6, <1>7

\* A save that succeeds: what is durable is the Room, and clients are told.
LEMMA SaveKeeps ==
  ASSUME RoomInvariant, SaveOK
  PROVE  RoomInvariant' /\ Graceful /\ Identifies /\ Forward
<1>1. PICK rec : rec = Record(room)
  OBVIOUS
<1>2. /\ process # "down" /\ io = "save" /\ disk' = rec /\ committed' = rec /\ io' = "none"
      /\ process' = process /\ room' = room /\ queue' = queue /\ now' = now
      /\ issued' = issued /\ failures' = failures
      /\ told' = [revision |-> room.revision, members |-> Live(disk'),
                  ended |-> told.ended \cup (told.members \ Live(disk'))]
  BY <1>1 DEF SaveOK, Tell
<1>3. TypeOK /\ RoomSound /\ QueueSound /\ Durable /\ Past
  BY DEF RoomInvariant
<1>4. room # None /\ room \in RoomType
  BY <1>2, <1>3 DEF Durable, TypeOK
<1>5. /\ rec \in RecordType /\ Sound(rec) /\ rec # None /\ rec.revision = room.revision
      /\ Live(rec) = Live(room) /\ Public(rec) = Public(room)
      /\ Live(room) \subseteq issued /\ Live(room) \cap told.ended = {}
  BY <1>1, <1>2, <1>4, Written
<1>6. Live(disk') = Live(room) /\ room.revision \in Nat /\ issued \subseteq Sessions
  BY <1>2, <1>3, <1>4, <1>5, RoomFields DEF TypeOK
<1>7. /\ told'.revision = room.revision /\ told'.members = Live(room)
      /\ told'.ended = told.ended \cup (told.members \ Live(room))
      /\ told' \in [revision : Nat, members : SUBSET Sessions, ended : SUBSET Sessions]
  <2>1. PICK ended \in SUBSET Sessions : ended = told.ended \cup (told.members \ Live(room))
    BY <1>3 DEF TypeOK
  <2>2. Live(room) \in SUBSET Sessions
    BY <1>5, <1>6
  <2>3. told' = [revision |-> room.revision, members |-> Live(room), ended |-> ended]
    BY <1>2, <1>6, <2>1
  <2>4. QED
    BY <1>6, <2>1, <2>2, <2>3
<1>8. TypeOK'
  BY <1>2, <1>3, <1>5, <1>7 DEF TypeOK
<1>9. RoomSound' /\ DiskSound' /\ QueueSound'
  BY <1>2, <1>3, <1>5 DEF RoomSound, DiskSound, QueueSound
<1>10. Durable'
  BY <1>1, <1>2, <1>3, <1>4 DEF Durable
<1>11. Past'
  <2>1. told.members \subseteq issued /\ told.ended \subseteq issued
    BY <1>3 DEF Past
  <2>2. told'.members \subseteq issued /\ told'.ended \subseteq issued /\ Live(room) \cap told'.ended = {}
    BY <1>5, <1>7, <2>1
  <2>3. Live(room)' = Live(room) /\ Live(disk)' = Live(room)
    BY <1>2, <1>5 DEF Live
  <2>4. Public(committed)' = Public(room) /\ Public(room)' = Public(room)
    BY <1>2, <1>5 DEF Public
  <2>5. room'.revision >= told'.revision /\ disk'.revision >= told'.revision
    BY <1>2, <1>5, <1>6, <1>7
  <2>6. room'.revision >= committed'.revision
    BY <1>2, <1>5, <1>6
  <2>7. QED
    BY <1>2, <1>4, <1>5, <2>2, <2>3, <2>4, <2>5, <2>6 DEF Past
<1>12. Graceful
  BY <1>2 DEF Graceful, Live
<1>13. Identifies
  <2>1. SUFFICES ASSUME committed # None, Public(committed) # Public(committed')
                 PROVE  committed'.revision > committed.revision
    BY DEF Identifies
  <2>2. Public(committed') = Public(room)
    BY <1>2, <1>5
  <2>3. room.revision > committed.revision
    BY <1>3, <1>4, <2>1, <2>2 DEF Past
  <2>4. QED
    BY <1>2, <1>5, <2>3
<1>14. Forward
  BY <1>1, <1>2, <1>4, <1>7, Written DEF Forward
<1>15. QED
  BY <1>8, <1>9, <1>10, <1>11, <1>12, <1>13, <1>14 DEF RoomInvariant

\* The Room is gone, and everybody who was told of it with it.
LEMMA GoneKeeps ==
  ASSUME RoomInvariant, Tell({}, 0), disk' = None, committed' = None, room' = None, io' = "none",
         process' \in {"up", "recovering"}, process' # "up" => process' = process,
         queue' = queue, process # "up" => queue = {},
         now' = now, issued' = issued, failures' = failures
  PROVE  RoomInvariant' /\ Graceful /\ Identifies /\ Forward
<1>1. TypeOK /\ QueueSound /\ Durable /\ Past
  BY DEF RoomInvariant
<1>2. PICK ended : ended = told.ended \cup (told.members \ {})
  OBVIOUS
<1>3. told' = [revision |-> 0, members |-> {}, ended |-> ended]
  BY <1>2 DEF Tell
<1>4. told'.members = {} /\ told'.ended = ended
  BY <1>3
<1>5. ended \subseteq issued /\ issued \subseteq Sessions
  BY <1>1, <1>2 DEF Past, TypeOK
<1>6. TypeOK'
  BY <1>1, <1>3, <1>5 DEF TypeOK
<1>7. RoomSound' /\ DiskSound' /\ QueueSound'
  BY <1>1 DEF RoomSound, DiskSound, QueueSound
<1>8. Durable' /\ Past'
  BY <1>4, <1>5 DEF Durable, Past
<1>9. Graceful /\ Identifies /\ Forward
  BY <1>4 DEF Graceful, Identifies, Forward
<1>10. QED
  BY <1>6, <1>7, <1>8, <1>9 DEF RoomInvariant

\* A halt, with the call in flight landed or not.
LEMMA HaltKeeps ==
  ASSUME RoomInvariant, Halt
  PROVE  RoomInvariant' /\ Graceful /\ Identifies /\ Forward
<1>1. TypeOK /\ DiskSound /\ QueueSound /\ Durable /\ Past
  BY DEF RoomInvariant
<1>2. /\ process' = "down" /\ room' = None /\ io' = "none" /\ committed' = None /\ queue' = {}
      /\ now' = now /\ issued' = issued /\ told' = told /\ failures' \in Nat
  BY <1>1 DEF Halt, TypeOK
<1>3. PICK d : d = disk'
  OBVIOUS
<1>4. /\ d \in RecordType \cup {None}
      /\ d # None => /\ Sound(d) /\ Live(d) \subseteq issued /\ Live(d) \cap told.ended = {}
                     /\ told.members # {} => d.revision >= told.revision
  <2>1. CASE disk' = disk
    BY <1>1, <1>3, <2>1 DEF TypeOK, DiskSound, Past
  <2>2. CASE io = "save" /\ disk' = Record(room)
    <3>1. room # None /\ io # "remove"
      BY <1>1, <2>2 DEF Durable
    <3>2. QED
      BY <1>3, <2>2, <3>1, Written
  <2>3. CASE disk' = None
    BY <1>3, <2>3
  <2>4. QED
    BY <2>1, <2>2, <2>3 DEF Halt
<1>5. TypeOK' /\ RoomSound' /\ DiskSound' /\ QueueSound' /\ Durable'
  BY <1>1, <1>2, <1>3, <1>4 DEF TypeOK, RoomSound, DiskSound, QueueSound, Durable
<1>6. Past'
  <2>1. told.members \subseteq issued /\ told.ended \subseteq issued
    BY <1>1 DEF Past
  <2>2. Live(disk)' = Live(d)
    BY <1>3 DEF Live
  <2>3. QED
    BY <1>2, <1>3, <1>4, <2>1, <2>2 DEF Past
<1>7. Graceful /\ Identifies /\ Forward
  <2>1. told.revision \in Nat
    BY <1>1 DEF TypeOK
  <2>2. QED
    BY <1>2, <2>1 DEF Graceful, Identifies, Forward
<1>8. QED
  BY <1>5, <1>6, <1>7 DEF RoomInvariant

\* A restart restores the Room of the record, or drops it.
LEMMA RecoverKeeps ==
  ASSUME RoomInvariant, Recover
  PROVE  RoomInvariant' /\ Graceful /\ Identifies /\ Forward
<1>1. TypeOK /\ DiskSound /\ QueueSound /\ Durable /\ Past
  BY DEF RoomInvariant
<1>2. /\ process = "down" /\ room = None /\ io = "none" /\ committed = None /\ queue = {}
      /\ committed' = committed /\ queue' = queue /\ now' = now /\ issued' = issued /\ failures' = failures
  BY <1>1 DEF Recover, Durable
<1>3. CASE disk = None \/ DroppedAtStart(disk)
  <2>1. process' = "up" /\ disk' = None /\ Tell({}, 0) /\ room' = room /\ io' = io
    BY <1>3 DEF Recover
  <2>2. QED
    BY <1>2, <2>1, GoneKeeps
<1>4. CASE disk # None /\ ~DroppedAtStart(disk)
  <2>1. PICK t : t = Restored(disk)
    OBVIOUS
  <2>2. /\ process' = "recovering" /\ room' = t /\ disk' = disk /\ told' = told
        /\ io' = IF t.game # disk.game \/ Overdue(t) = {} THEN "save" ELSE "none"
    <3>1. /\ process' = "recovering" /\ room' = Restored(disk) /\ disk' = disk /\ told' = told
          /\ io' = IF room'.game # disk.game \/ Overdue(room') = {} THEN "save" ELSE "none"
      BY <1>4 DEF Recover
    <3>2. QED
      BY <2>1, <3>1
  <2>3. disk \in RecordType /\ Sound(disk) /\ now \in Nat
    BY <1>1, <1>4 DEF TypeOK, DiskSound
  <2>4. /\ t \in RoomType /\ Sound(t) /\ Tasks(t) /\ Covered(t, {})
        /\ t.revision = disk.revision /\ Live(t) = Live(disk)
    BY <2>1, <2>3, RestoredSound
  <2>5. t # None
    BY <2>4, NoneIsNothing
  <2>6. TypeOK'
    BY <1>1, <1>2, <2>2, <2>4 DEF TypeOK
  <2>7. RoomSound' /\ DiskSound' /\ QueueSound'
    BY <1>1, <1>2, <2>2, <2>4 DEF RoomSound, DiskSound, QueueSound
  <2>8. Durable'
    <3>1. Overdue(room)' = Overdue(t)
      BY <1>2, <2>2 DEF Overdue, Live
    <3>2. QED
      BY <1>2, <2>2, <2>5, <3>1 DEF Durable
  <2>9. Past'
    <3>1. Live(room)' = Live(disk) /\ Live(disk)' = Live(disk)
      BY <2>2, <2>4 DEF Live
    <3>2. QED
      BY <1>1, <1>2, <1>4, <2>2, <2>4, <2>5, <3>1 DEF Past
  <2>10. Graceful /\ Identifies /\ Forward
    BY <1>2, <2>2, QuietStep DEF Graceful
  <2>11. QED
    BY <2>6, <2>7, <2>8, <2>9, <2>10 DEF RoomInvariant
<1>5. QED
  BY <1>3, <1>4

\* An expiry before clients are admitted.
LEMMA RecoverExpireKeeps ==
  ASSUME RoomInvariant, RecoverExpire
  PROVE  RoomInvariant' /\ Graceful /\ Identifies /\ Forward
<1>1. /\ process = "recovering" /\ io = "none" /\ room # None
      /\ process' = process /\ disk' = disk /\ committed' = committed /\ now' = now /\ queue' = queue
      /\ failures' = failures /\ told' = told /\ issued' = issued
  BY DEF RecoverExpire, Unmoved
<1>2. PICK x \in Overdue(room) : ExpireDisconnectedSession(x, room.sessions[x].deadline)
  BY DEF RecoverExpire
<1>3. Open /\ queue = {}
  BY <1>1, InvariantOpen DEF RoomInvariant, Durable
<1>4. x \in Live(room) /\ room.sessions[x].deadline # None /\ room.sessions[x].deadline <= now
  BY <1>2 DEF Overdue
<1>5. EndSession(x)
  <2>1. room.sessions[x].deadline \in Nat /\ now \in Nat
    <3>1. room \in RoomType /\ now \in Nat
      BY <1>3 DEF Open
    <3>2. room.sessions[x].deadline \in Deadline
      BY <1>4, <3>1, SessionFields
    <3>3. QED
      BY <1>4, <3>1, <3>2 DEF Deadline
  <2>2. ~(room.sessions[x].deadline > now)
    BY <1>4, <2>1
  <2>3. QED
    BY <1>1, <1>2, <1>4, <2>2 DEF ExpireDisconnectedSession
<1>6. QueueLess(x)
  BY <1>3 DEF QueueLess
<1>7. Outcome /\ (Saved \/ Closing)
  BY <1>3, <1>4, <1>5, <1>6, EndOutcome
<1>8. QueueNext
  BY <1>1, <1>3 DEF QueueNext
<1>9. QED
  BY <1>1, <1>7, <1>8, OutcomeKeeps

\* Every step at once.
LEMMA NextKeeps ==
  ASSUME RoomInvariant, [Next]_vars
  PROVE  RoomInvariant' /\ Graceful /\ Identifies /\ Forward
<1>1. CASE ClientStep
  BY <1>1, ClientKeeps
<1>2. CASE RunLifecycle
  BY <1>2, LifecycleKeeps
<1>3. CASE FireTimer
  BY <1>3, TimerKeeps
<1>4. CASE SaveOK
  BY <1>4, SaveKeeps
<1>5. CASE RemoveOK
  <2>1. /\ process # "down" /\ Tell({}, 0) /\ disk' = None /\ committed' = None /\ room' = None /\ io' = "none"
        /\ process' = process /\ queue' = queue /\ now' = now /\ issued' = issued /\ failures' = failures
    BY <1>5 DEF RemoveOK
  <2>2. process \in {"up", "recovering", "down"} /\ (process # "up" => queue = {})
    BY DEF RoomInvariant, TypeOK, Durable
  <2>3. QED
    BY <2>1, <2>2, GoneKeeps
<1>6. CASE Recover
  BY <1>6, RecoverKeeps
<1>7. CASE RecoverExpire
  BY <1>7, RecoverExpireKeeps
<1>8. CASE RecoverReady
  <2>1. now \in Nat
    BY DEF RoomInvariant, TypeOK
  <2>2. QED
    BY <1>8, <2>1, StillKeeps DEF RecoverReady
<1>9. CASE Halt
  BY <1>9, HaltKeeps
<1>10. CASE Tick
  <2>1. now + 1 \in Nat
    BY DEF RoomInvariant, TypeOK
  <2>2. QED
    BY <1>10, <2>1, StillKeeps DEF Tick
<1>11. ASSUME NEW x \in Sessions, LoseTransport(x)
       PROVE  RoomInvariant' /\ Graceful /\ Identifies /\ Forward
  BY <1>11, LoseKeeps
<1>12. CASE UNCHANGED vars
  <2>1. now \in Nat
    BY DEF RoomInvariant, TypeOK
  <2>2. QED
    BY <1>12, <2>1, StillKeeps DEF vars
<1>13. QED
  BY <1>1, <1>2, <1>3, <1>4, <1>5, <1>6, <1>7, <1>8, <1>9, <1>10, <1>11, <1>12 DEF Next, ServerStep

-----------------------------------------------------------------------------
(* The theorems.                                                            *)

\* The inductive invariant holds in every reachable state: what memory, its
\* timers, the Room queue, storage and the clients know of a Room fits
\* together, whatever joins, leaves, expires, fails or restarts.
THEOREM RoomInvariantHolds == Spec => []RoomInvariant
<1>1. Init => RoomInvariant
  <2>1. SUFFICES ASSUME Init PROVE RoomInvariant
    OBVIOUS
  <2>2. TypeOK
    BY <2>1 DEF Init, TypeOK
  <2>3. QED
    BY <2>1, <2>2 DEF Init, RoomInvariant, RoomSound, DiskSound, QueueSound, Durable, Past
<1>2. RoomInvariant /\ [Next]_vars => RoomInvariant'
  BY NextKeeps
<1>3. QED
  BY <1>1, <1>2, PTL DEF Spec

\* Nothing the Room submits is refused by the schema, what is committed is
\* durable, and the abandoned countdown stands for what happened to the players.
THEOREM RoomAlwaysHoldsTogether == Spec => []RoomHoldsTogether
<1>1. ASSUME RoomInvariant PROVE RoomHoldsTogether
  <2>1. TypeOK
    BY <1>1 DEF RoomInvariant
  <2>2. SavesAreValid
    <3>1. SUFFICES ASSUME io = "save" PROVE RecordValid(Record(room))
      BY DEF SavesAreValid
    <3>2. room # None
      BY <1>1, <3>1 DEF RoomInvariant, Durable
    <3>3. QED
      BY <1>1, <3>1, <3>2, Written
  <2>3. CommittedIsDurable
    BY <1>1 DEF RoomInvariant, Durable, CommittedIsDurable
  <2>4. CountdownMatches
    BY <1>1 DEF RoomInvariant, RoomSound, Sound, Counting, Reason, CountdownMatches
  <2>5. QED
    BY <2>1, <2>2, <2>3, <2>4 DEF RoomHoldsTogether
<1>2. QED
  BY <1>1, RoomInvariantHolds, PTL

\* While any player of the Room is connected, the Host who alone can replace
\* the expired ones or close the game has a session.
THEOREM HostCanAlwaysDecide == Spec => []HostCanDecide
<1>1. RoomInvariant => HostCanDecide
  BY DEF RoomInvariant, RoomSound, Sound, HostLive, HostCanDecide
<1>2. QED
  BY <1>1, RoomInvariantHolds, PTL

\* Every deadline the Room keeps has a timer, or an expiry on its way to the
\* head of the queue: no Room is left behind by a cancelled or an early timer.
THEOREM TimersAlwaysCover == Spec => []TimersCover
<1>1. RoomInvariant => TimersCover
  BY DEF RoomInvariant, RoomSound, Covered, Pending, TimersCover
<1>2. QED
  BY <1>1, RoomInvariantHolds, PTL

\* A session whose end was published is never live again, restarts included.
THEOREM EndedSessionsStayEnded == Spec => []EndedStaysEnded
<1>1. RoomInvariant => EndedStaysEnded
  BY DEF RoomInvariant, Past, EndedStaysEnded
<1>2. QED
  BY <1>1, RoomInvariantHolds, PTL

\* No session is ended before its current deadline except by its own leaving
\* or by the closing of the whole Room.
THEOREM GraceIsHonoured == Spec => GraceHonoured
<1>1. RoomInvariant /\ [Next]_vars => Graceful
  BY NextKeeps
<1>2. RoomInvariant /\ [Next]_vars =>
        [room # None /\ room' # None /\ io' # "remove" =>
            \A x \in Live(room) \ Live(room') :
                \/ LeaveRoom(x)
                \/ room.sessions[x].deadline # None /\ room.sessions[x].deadline <= now]_vars
  BY <1>1 DEF Graceful
<1>3. QED
  BY <1>2, RoomInvariantHolds, PTL DEF Spec, GraceHonoured

\* Two committed snapshots that show a different lobby differ in their revision.
THEOREM RevisionsIdentify == Spec => RevisionIdentifies
<1>1. RoomInvariant /\ [Next]_vars => Identifies
  BY NextKeeps
<1>2. RoomInvariant /\ [Next]_vars =>
        [committed # None /\ committed' # None /\ Public(committed) # Public(committed')
            => committed'.revision > committed.revision]_vars
  BY <1>1 DEF Identifies
<1>3. QED
  BY <1>2, RoomInvariantHolds, PTL DEF Spec, RevisionIdentifies

\* The revision clients are told of a Room never goes back, restarts included.
THEOREM RevisionsNeverRegress == Spec => PublishedNeverRegresses
<1>1. RoomInvariant /\ [Next]_vars => Forward
  BY NextKeeps
<1>2. RoomInvariant /\ [Next]_vars =>
        [told'.members # {} /\ told.members # {} => told'.revision >= told.revision]_vars
  BY <1>1 DEF Forward
<1>3. QED
  BY <1>2, RoomInvariantHolds, PTL DEF Spec, PublishedNeverRegresses
=============
