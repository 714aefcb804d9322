--------------------------- MODULE ServerProcess ---------------------------
(***************************************************************************)
(* One server process from its start to the end of its shutdown: the       *)
(* connections it admits, the requests its limiter lets through, the       *)
(* queues of the Rooms with the writes they wait for, the disposal of the  *)
(* service after a failed write, and closeServers of graceful-shutdown.ts. *)
(*                                                                         *)
(* What the operations do to a Room is RoomLifecycle's; here they only     *)
(* create a Room, write it, close it, or report a lost transport.  A Room  *)
(* has one Human.  A write settles, as the store gives up after a while,   *)
(* and the promise reactions of one event are one step.                    *)
(***************************************************************************)
EXTENDS RequestLimiter

CONSTANTS Clients,              \* browsers, one connection each
          RoomCodes,
          MaxRooms,
          LastSession,          \* bound: sessions are numbered from 1
          MaxClock,             \* bound: the clock stays below
          Budgets               \* bounds: records of the requests, the writes that fail and the
                                \* changes of the clock that one behaviour may have

ASSUME ServerAssumption ==
  /\ IsFiniteSet(RoomCodes) /\ MaxRooms \in 1..Cardinality(RoomCodes)
  /\ MaxSessions \in Nat /\ MaxSessions >= MaxRooms
  /\ None \notin Clients \cup Nat /\ Server \notin Clients \cup Nat /\ \A c \in Clients : c \notin Nat

VARIABLES conns,      \* per client: "none", "handshake", "socket", "closing" or "http"
          who,        \* socket.data.sessionId
          rooms,      \* the session of the Room under each code, or None
          sessions,   \* #sessions
          created,    \* how many sessions there ever were
          queues,     \* per code: the operations admitted
          saving,     \* codes whose first operation waits for a write
          stopping, disposed,
          awaited,    \* per code: how many of the admitted operations a shutdown waits for
          phase,      \* closeServers: "serving", "draining", "closing", "releasing", "ended"
          failed,     \* what the shutdown will report
          repository, \* "open" or "closed"
          left,       \* what remains of the behaviour's budget
          meter,      \* history: an instant, and the connections admitted since
          starved     \* history: an existing session got no bucket

service == <<rooms, sessions, created, queues, saving, disposed, awaited>>
closing == <<stopping, phase, failed, repository>>
history == <<meter, starved>>
vars == <<limits, conns, who, service, closing, left, history>>

Init ==
  /\ now = 1 /\ limiter = NewLimiter
  /\ conns = [c \in Clients |-> "none"] /\ who = [c \in Clients |-> None]
  /\ rooms = [r \in RoomCodes |-> None] /\ sessions = {} /\ created = 0
  /\ queues = [r \in RoomCodes |-> <<>>] /\ saving = {}
  /\ stopping = FALSE /\ disposed = FALSE /\ awaited = [r \in RoomCodes |-> 0]
  /\ phase = "serving" /\ failed = FALSE /\ repository = "open"
  /\ left \in Budgets
  /\ meter = [since |-> now, admitted |-> 0] /\ starved = FALSE

IsReady == ~stopping /\ ~disposed
Lengths == [r \in RoomCodes |-> Len(queues[r])]

\* sessions.get(s)?.roomCode, if the Room is still there
RoomOf(s) == {r \in RoomCodes : s \in sessions /\ rooms[r] = s}

Op(kind, s, c) == [kind |-> kind, session |-> s, client |-> c]
Enqueue(r, op) == queues' = [queues EXCEPT ![r] = Append(@, op)]

\* What a socket still waits for goes on without it, and its session, if it
\* has one, is reported lost.
Abandon(c) ==
  LET orphan(op) == IF op.client = c THEN [op EXCEPT !.client = None] ELSE op
      lost(r) == IF r \in RoomOf(who[c]) THEN <<Op("lost", who[c], None)>> ELSE <<>>
  IN  queues' = [r \in RoomCodes |-> [i \in DOMAIN queues[r] |-> orphan(queues[r][i])] \o lost(r)]

-----------------------------------------------------------------------------
(* Connections.                                                            *)

Connections == {c \in Clients : conns[c] # "none"}

\* allowRequest
Handshake(c) ==
  LET admitted == AdmitConnection(limiter)
  IN  /\ conns[c] = "none" /\ IsReady
      /\ Cardinality(Connections) < MaxTransports
      /\ limiter' = admitted.limiter
      /\ IF admitted.ok
         THEN conns' = [conns EXCEPT ![c] = "handshake"] /\ meter' = [meter EXCEPT !.admitted = @ + 1]
         ELSE UNCHANGED <<conns, meter>>
      /\ UNCHANGED <<now, who, service, closing, left, starved>>

\* The namespace's middleware; the engine refuses the packet when not ready.
Attach(c) ==
  LET attached == AttachTransport(limiter, c)
  IN  /\ conns[c] = "handshake" /\ IsReady
      /\ limiter' = attached.limiter
      /\ conns' = [conns EXCEPT ![c] = IF attached.ok THEN "socket" ELSE "none"]
      /\ UNCHANGED <<now, who, service, closing, left, history>>

\* A page or an asset is asked for; the client takes its time to read it.
Get(c) ==
  /\ phase \in {"serving", "draining"} /\ conns[c] = "none"
  /\ conns' = [conns EXCEPT ![c] = "http"]
  /\ UNCHANGED <<limits, who, service, closing, left, history>>

\* The client, or the network, ends a connection.
EndConnection(c) ==
  /\ conns[c] # "none"
  /\ conns' = [conns EXCEPT ![c] = "none"]
  /\ limiter' = ForgetTransport(limiter, c)
  /\ who' = [who EXCEPT ![c] = None]
  /\ Abandon(c)
  /\ UNCHANGED <<now, rooms, sessions, created, saving, disposed, awaited, closing, left, history>>

-----------------------------------------------------------------------------
(* Requests.                                                               *)

\* room:create, a command, or room:leave; a second attachment of a socket is
\* refused while one is pending.
Serve(c, event) ==
  IF event = "create"
  THEN IF ~IsReady \/ Cardinality({r \in RoomCodes : rooms[r] # None}) >= MaxRooms
       THEN UNCHANGED <<rooms, sessions, created, queues>>
       ELSE \E r \in RoomCodes :
              /\ rooms[r] = None
              /\ created' = created + 1 /\ sessions' = sessions \cup {created'}
              /\ rooms' = [rooms EXCEPT ![r] = created']
              /\ Enqueue(r, Op("create", created', c))
  ELSE /\ IF RoomOf(who[c]) = {} THEN UNCHANGED queues
          ELSE \E r \in RoomOf(who[c]) : Enqueue(r, Op(event, who[c], c))
       /\ UNCHANGED <<rooms, sessions, created>>

Pending(c) ==
  \E r \in RoomCodes : \E i \in DOMAIN queues[r] : queues[r][i].kind = "create" /\ queues[r][i].client = c

Request(c, event) ==
  LET verdict == Allow(limiter, c, who[c], event, sessions)
  IN  /\ conns[c] = "socket" /\ left.requests > 0
      /\ IF event = "create" THEN who[c] = None /\ ~Pending(c) /\ created < LastSession ELSE who[c] # None
      /\ left' = [left EXCEPT !.requests = @ - 1]
      /\ limiter' = verdict.limiter
      /\ starved' = (starved \/ (/\ who[c] \in sessions \ WithSession(verdict.limiter)
                                 /\ Take(limiter, TransportKeys(c, event)).ok))
      /\ IF verdict.ok THEN Serve(c, event) ELSE UNCHANGED <<rooms, sessions, created, queues>>
      /\ UNCHANGED <<now, conns, who, saving, disposed, awaited, closing, meter>>

-----------------------------------------------------------------------------
(* The queues.                                                             *)

Leave(r) ==
  /\ queues' = [queues EXCEPT ![r] = Tail(@)]
  /\ awaited' = [awaited EXCEPT ![r] = IF @ > 0 THEN @ - 1 ELSE 0]

RefusesUnlessReady(r, op) ==   \* mutant: membership is checked before the queue, not after
  IF op.kind = "create" THEN disposed ELSE ~IsReady
\* Stopping and disposal are read when the turn of the operation comes, not
\* so for the first operation of a Room; a Room may have closed meanwhile.
Refuses(r, op) ==
  \/ op.kind # "create" /\ (~IsReady \/ op.session \notin sessions)
  \/ op.kind = "create" /\ disposed

\* A command that changes nothing ends without a write, like a refusal.
Begin(r) ==
  LET op == Head(queues[r])
  IN  /\ queues[r] # <<>> /\ r \notin saving
      /\ \/ /\ Refuses(r, op) \/ op.kind = "command"
            /\ Leave(r) /\ UNCHANGED <<saving, sessions>>
         \/ /\ ~Refuses(r, op)
            /\ saving' = saving \cup {r}
            /\ sessions' = IF op.kind = "leave" THEN sessions \ {op.session} ELSE sessions
            /\ UNCHANGED <<queues, awaited>>
      /\ UNCHANGED <<limits, conns, who, rooms, created, disposed, closing, left, history>>

\* The write has settled, and the operation goes on to its end.  A socket
\* that closed while it waited leaves the new Room again.
SaveSucceeds(r) ==
  LET op == Head(queues[r])
      c == op.client
      gone == op.kind = "create" /\ c = None
      rest == Append(Tail(queues[r]), Op("leave", op.session, None))
  IN  /\ r \in saving /\ saving' = saving \ {r}
      /\ queues' = [queues EXCEPT ![r] = IF gone /\ ~disposed THEN rest ELSE Tail(@)]
      /\ awaited' = [awaited EXCEPT ![r] = IF @ > 0 THEN @ - 1 ELSE 0]
      /\ rooms' = IF op.kind = "leave" /\ ~disposed THEN [rooms EXCEPT ![r] = None] ELSE rooms
      /\ who' = CASE op.kind = "create" /\ ~disposed /\ ~gone -> [who EXCEPT ![c] = op.session]
                  [] op.kind = "leave" /\ c # None -> [who EXCEPT ![c] = None]
                  [] OTHER -> who
      /\ UNCHANGED <<limits, conns, sessions, created, disposed, closing, left, history>>

\* dispose: everything is forgotten, but not the queues that have to drain.
Dispose ==
  /\ disposed' = TRUE
  /\ rooms' = [r \in RoomCodes |-> None] /\ sessions' = {}

SaveFails(r) ==
  LET rest == [queues EXCEPT ![r] = Tail(@)]
  IN  /\ r \in saving /\ left.failures > 0
      /\ left' = [left EXCEPT !.failures = @ - 1]
      /\ saving' = saving \ {r} /\ queues' = rest
      /\ Dispose
      /\ awaited' = IF stopping \/ disposed
                    THEN [awaited EXCEPT ![r] = IF @ > 0 THEN @ - 1 ELSE 0]
                    ELSE [o \in RoomCodes |-> Len(rest[o])]
      /\ UNCHANGED <<limits, conns, who, created, closing, history>>

-----------------------------------------------------------------------------
(* closeServers.                                                           *)

ShutdownAwaitsWrites ==   \* mutant: queues with a write are awaited up to that write
  /\ ~stopping /\ stopping' = TRUE /\ phase' = "draining"
  /\ awaited' = IF disposed THEN awaited ELSE [r \in RoomCodes |-> IF r \in saving THEN 1 ELSE 0]
  /\ UNCHANGED <<limits, conns, who, rooms, sessions, created, queues, saving, disposed, failed, repository,
                 left, history>>
\* SIGINT or SIGTERM.  A service that is disposed of has said what to wait for.
Shutdown ==
  /\ ~stopping /\ stopping' = TRUE /\ phase' = "draining"
  /\ awaited' = IF disposed THEN awaited ELSE Lengths
  /\ UNCHANGED <<limits, conns, who, rooms, sessions, created, queues, saving, disposed, failed, repository,
                 left, history>>

Drained == \A r \in RoomCodes : awaited[r] = 0

\* The queues are idle: the store is flushed, or closed when the service is
\* disposed of, and the listening ends.  Every socket is disconnected, which
\* its handler reports to the Room service.
CloseRealtime ==
  LET members == {r \in RoomCodes : \E c \in Clients : conns[c] = "socket" /\ who[c] # None /\ r \in RoomOf(who[c])}
  IN  /\ phase = "draining" /\ Drained
      /\ phase' = "closing"
      /\ repository' = IF disposed THEN "closed" ELSE repository
      /\ conns' = [c \in Clients |-> IF conns[c] \in {"socket", "handshake"} THEN "closing" ELSE conns[c]]
      /\ who' = [c \in Clients |-> None]
      /\ limiter' = [limiter EXCEPT !.buckets = Only(@, {key \in DOMAIN @ : key[2] \notin Transports(limiter)})]
      /\ queues' = [r \in RoomCodes |-> IF r \in members THEN Append(queues[r], Op("lost", rooms[r], None)) ELSE queues[r]]
      /\ UNCHANGED <<now, rooms, sessions, created, saving, disposed, awaited, stopping, failed, left, history>>

AllClosed ==
  /\ phase = "closing" /\ Connections = {}
  /\ phase' = "releasing"
  /\ UNCHANGED <<limits, conns, who, service, stopping, failed, repository, left, history>>

DeadlineOfIdle ==   \* mutant: a connection that is being answered is left alone
  /\ phase = "closing" /\ \A c \in Clients : conns[c] # "http" /\ Connections # {}
  /\ phase' = "releasing" /\ failed' = TRUE
  /\ conns' = [c \in Clients |-> "none"]
  /\ UNCHANGED <<limits, who, service, stopping, repository, left, history>>
\* Ten seconds have passed: closeFrontierConnections
Deadline ==
  /\ phase = "closing" /\ Connections # {}
  /\ phase' = "releasing" /\ failed' = TRUE
  /\ conns' = [c \in Clients |-> "none"]
  /\ UNCHANGED <<limits, who, service, stopping, repository, left, history>>

Release ==
  /\ phase = "releasing" /\ phase' = "ended"
  /\ Dispose
  /\ limiter' = Disposed(limiter)
  /\ repository' = "closed"
  /\ UNCHANGED <<now, conns, who, created, queues, saving, awaited, stopping, failed, left, history>>

-----------------------------------------------------------------------------
(* The clock of the limiter.                                               *)

Tick ==
  /\ phase = "serving" /\ now < MaxClock /\ left.ticks > 0
  /\ now' = now + 1
  /\ left' = [left EXCEPT !.ticks = @ - 1]
  /\ UNCHANGED <<limiter, conns, who, service, closing, history>>

\* History: the meter starts at some instant.
Watch ==
  /\ meter.since < now
  /\ meter' = [since |-> now, admitted |-> 0]
  /\ UNCHANGED <<limits, conns, who, service, closing, left, starved>>

Proceed == \E r \in RoomCodes : Begin(r) \/ SaveSucceeds(r) \/ SaveFails(r)

Next ==
  \/ \E c \in Clients : Handshake(c) \/ Attach(c) \/ Get(c) \/ EndConnection(c)
  \/ \E c \in Clients, event \in {"create", "command", "leave"} : Request(c, event)
  \/ Proceed
  \/ Shutdown \/ CloseRealtime \/ AllClosed \/ Deadline \/ Release
  \/ Tick \/ Watch

\* Writes settle, the queues of all Rooms go on, and so does the shutdown.
Spec ==
  /\ Init /\ [][Next]_vars
  /\ \A r \in RoomCodes : WF_vars(Begin(r)) /\ WF_vars(SaveSucceeds(r) \/ SaveFails(r))
  /\ WF_vars(CloseRealtime) /\ WF_vars(AllClosed \/ Deadline) /\ WF_vars(Release)

-----------------------------------------------------------------------------
(* Properties.                                                             *)

\* Nothing is being written when the store is closed, nor at any time after
\* the queues were found idle, whatever was admitted or disposed of before.
QuietAfterDrain ==
  phase \in {"closing", "releasing", "ended"} \/ repository = "closed" => saving = {}

\* A shutdown ends, with clients that never close their connections too.
ShutdownEnds == stopping ~> phase = "ended"

\* Over every period, a quiet time before it or not, the server admits no
\* more connections than a full bucket and the time that has passed allow.
WithinBudget ==
  meter.admitted <= Capacity["server"]["connect"] + Rate["server"]["connect"] * (now - meter.since)

\* The limited table of session buckets never keeps a session that exists
\* from sending, however many sessions have come and gone.
NobodyStarves == ~starved

\* A Room that takes the code of a closed one is not written by what was
\* admitted for the other.
WritesOwnRoom ==
  \A r \in saving : ~disposed => rooms[r] = Head(queues[r]).session
=============================================================================
