-------------------------- MODULE TransportProofs --------------------------
(***************************************************************************)
(* Proofs about the transports of a game, for any number of sessions and   *)
(* sockets and any order in which they are lost and resumed: sockets,      *)
(* registry and seats agree, and the game is paused when they do not.      *)
(***************************************************************************)
EXTENDS TransportAttachment, SequenceTheorems, TLAPS

-----------------------------------------------------------------------------
(* The inductive invariant.                                                *)

\* The operations that have not begun.
Waiting == {i \in 1..Len(queue) : i = 1 => running = None}

\* Positions of the resumes under way, 0 for the one whose continuation is due.
Resumes == {i \in 1..Len(queue) : queue[i].kind = "resume"} \cup (IF settled = None THEN {} ELSE {0})
SocketOf(i) == IF i = 0 THEN settled.socket ELSE queue[i].socket

\* A socket that waits for its resume speaks for nobody and waits for one only;
\* a closed socket speaks for nobody.
Attaching ==
    /\ \A t \in Sockets : ~sockets[t].open => sockets[t].session = None
    /\ \A i \in Resumes : /\ SocketOf(i) \in Sockets
                          /\ sockets[SocketOf(i)].open => /\ sockets[SocketOf(i)].pending
                                                          /\ sockets[SocketOf(i)].session = None
    /\ \A i, j \in Resumes : SocketOf(i) = SocketOf(j) => i = j

\* The game's copy of the presence is that of the Room while it is open.
PresenceKnown == live => game.absent = Absent(seats)

\* A command that is still of the current epoch has seen the newest resume.
Superseding ==
    \A i \in 1..Len(queue) : queue[i].kind = "command" =>
      /\ queue[i].mark <= epoch[queue[i].session]
      /\ queue[i].mark = epoch[queue[i].session] => queue[i].newest = newest[queue[i].session]

\* The running operation is in the queue.
Begun == running # None => queue # <<>>

TransportInvariant == TypeOK /\ Begun /\ OneTransport /\ Attaching /\ PresenceKnown /\ Superseding

\* What releases the latch, or has somebody to wait for.
PauseHeld ==
    live /\ game.latch =>
      \/ refused
      \/ \E s \in Sessions : seats[s] # "CONNECTED"
      \/ \E i \in Waiting : queue[i].kind \in {"resume", "disconnect"}

\* What is still to notice that a connected seat has no transport.
LossNoticed ==
    live => \A s \in Sessions : seats[s] = "CONNECTED" /\ active[s] = None =>
      \/ \E i \in Waiting : queue[i].kind = "disconnect" /\ queue[i].session = s
      \/ running = [found |-> TRUE] /\ Head(queue).kind = "resume" /\ Head(queue).session = s
      \/ settled # None /\ settled.found /\ settled.session = s

\* No disconnect has found its positions taken.
ControlFits == SizeOf(Control) < ControlCapacity

-----------------------------------------------------------------------------
(* How the steps change what they share.                                   *)

Begins ==
    \/ BeginResume \/ BeginLateResume \/ BeginInvalidResume
    \/ BeginDisconnect \/ BeginExpire \/ BeginCommand \/ RefuseCommand

\* What every beginning of an operation has in common.
LEMMA BeginFacts ==
  ASSUME TypeOK, NEW kind, NEW found \in BOOLEAN, Begin(kind, found)
  PROVE  /\ live /\ running = None /\ running' = [found |-> found] /\ running' # None
         /\ 1 \in 1..Len(queue) /\ Head(queue) = queue[1] /\ queue[1] \in OpType /\ queue[1].kind = kind
         /\ queue[1].session \in Sessions /\ queue[1].mark \in Nat
         /\ UNCHANGED <<sockets, active, epoch, queue, settled, newest, losses>>
<1>1. queue \in Seq(OpType) /\ queue # <<>> /\ live /\ running = None /\ running' = [found |-> found]
      /\ Head(queue).kind = kind /\ UNCHANGED <<sockets, active, epoch, queue, settled, newest, losses>>
  BY DEF Begin, TypeOK
<1>2. 1 \in 1..Len(queue) /\ Head(queue) = queue[1] /\ queue[1] \in OpType
  BY <1>1
<1>3. queue[1].session \in Sessions /\ queue[1].mark \in Nat
  BY <1>2 DEF OpType
<1>4. [found |-> found] # None
  BY TransportConstants
<1>5. QED
  BY <1>1, <1>2, <1>3, <1>4

\* An operation that begins leaves the sockets and the queue alone.
LEMMA BeginsFacts ==
  ASSUME TypeOK, Begins
  PROVE  /\ live /\ running = None /\ running' \in {[found |-> TRUE], [found |-> FALSE]}
         /\ 1 \in 1..Len(queue) /\ UNCHANGED <<sockets, active, epoch, queue, settled, newest, losses>>
<1>1. PICK kind \in {"resume", "disconnect", "expire", "command"}, found \in BOOLEAN : Begin(kind, found)
  BY DEF Begins, BeginResume, BeginLateResume, BeginInvalidResume, BeginDisconnect, BeginExpire, BeginCommand,
         RefuseCommand
<1>2. QED
  BY <1>1, BeginFacts

\* A step that admits an operation, and one that finishes the first.
LEMMA AppendQueue ==
  ASSUME TypeOK, NEW op \in OpType, queue' = Append(queue, op)
  PROVE  /\ queue' \in Seq(OpType) /\ Len(queue) \in Nat /\ Len(queue') = Len(queue) + 1
         /\ queue'[Len(queue) + 1] = op /\ \A i \in 1..Len(queue) : queue'[i] = queue[i]
BY DEF TypeOK

\* A finished operation is the first of its queue.
LEMMA TailQueue ==
  ASSUME TypeOK, Begun, Finish
  PROVE  /\ queue \in Seq(OpType) /\ queue' \in Seq(OpType) /\ Len(queue) \in Nat /\ Len(queue) >= 1
         /\ Len(queue') = Len(queue) - 1 /\ Head(queue) = queue[1] /\ queue[1] \in OpType
         /\ \A i \in 1..Len(queue') : queue'[i] = queue[i + 1]
<1>1. queue \in Seq(OpType) /\ queue' = Tail(queue)
  BY DEF TypeOK, Finish
<1>2. queue # <<>>
  BY DEF Begun, Finish
<1>3. QED
  BY <1>1, <1>2

\* A queue that takes one more element is a queue.
LEMMA AppendTyped ==
  ASSUME NEW S, NEW q \in Seq(S), NEW q2, NEW e \in S, q2 = q \/ q2 = Append(q, e)
  PROVE  q2 \in Seq(S)
OBVIOUS

\* An operation is admitted with the newest socket of its session in it.
LEMMA OpTyped ==
  ASSUME TypeOK, NEW kind \in {"resume", "command", "disconnect", "expire"}, NEW s \in Sessions,
         NEW t \in Sockets \cup {None}, NEW mark \in Nat
  PROVE  Op(kind, s, t, mark) \in OpType
BY DEF TypeOK, Op, OpType, Control

-----------------------------------------------------------------------------
(* Types.                                                                  *)

\* What a loss does to the queue and the latch.
LEMMA MarkTypes ==
  ASSUME TypeOK, NEW s \in Sessions, MarkDisconnected(s)
  PROVE  /\ queue' \in Seq(OpType) /\ game' \in [latch : BOOLEAN, absent : SUBSET Sessions, version : Nat]
         /\ refused' = refused /\ losses' \in Nat
         /\ game'.absent = game.absent /\ game'.version = game.version
         /\ queue' = queue \/ queue' = Append(queue, Op("disconnect", s, None, losses + 1))
<1>1. /\ losses' = losses + 1 /\ losses \in Nat /\ refused' = refused
      /\ queue' = queue \/ queue' = Append(queue, Op("disconnect", s, None, losses + 1))
      /\ game' = game \/ game' = [game EXCEPT !.latch = TRUE]
      /\ queue \in Seq(OpType) /\ game \in [latch : BOOLEAN, absent : SUBSET Sessions, version : Nat]
  BY DEF MarkDisconnected, TypeOK, Enqueue
<1>2. PICK op \in OpType : op = Op("disconnect", s, None, losses + 1)
  <2>1. losses + 1 \in Nat
    BY <1>1
  <2>2. QED
    BY <2>1, OpTyped
<1>3. queue' \in Seq(OpType)
  BY <1>1, <1>2, AppendTyped
<1>4. /\ game' \in [latch : BOOLEAN, absent : SUBSET Sessions, version : Nat]
      /\ game'.absent = game.absent /\ game'.version = game.version
  BY <1>1
<1>5. QED
  BY <1>1, <1>3, <1>4

\* The operations that begin keep the types.
LEMMA BeginTypes ==
  ASSUME TransportInvariant, Begins
  PROVE  TypeOK'
<1>1. /\ live /\ running = None /\ running' \in {[found |-> TRUE], [found |-> FALSE]}
      /\ 1 \in 1..Len(queue) /\ UNCHANGED <<sockets, active, epoch, queue, settled, newest, losses>>
  BY BeginsFacts DEF TransportInvariant
<1>2. /\ queue[1].session \in Sessions /\ queue[1].mark \in Nat /\ Head(queue) = queue[1]
  <2>1. queue \in Seq(OpType)
    BY DEF TransportInvariant, TypeOK
  <2>2. queue[1] \in OpType /\ Head(queue) = queue[1]
    BY <1>1, <2>1
  <2>3. QED
    BY <2>2 DEF OpType
<1>3. /\ live' \in BOOLEAN /\ seats' \in [Sessions -> {"CONNECTED", "RECONNECTING", "DISCONNECTED"}]
      /\ deadline' \in [Sessions -> Nat] /\ armed' \subseteq Sessions /\ lost' \subseteq Sessions
      /\ refused' \in BOOLEAN
  <2>1. PICK s \in Sessions, mark \in Nat : s = Head(queue).session /\ mark = Head(queue).mark
    BY <1>2
  <2>2. /\ live' \in {live, FALSE} /\ refused' \in {refused, FALSE} /\ lost' \in {lost, lost \ {s}}
        /\ \/ UNCHANGED room
           \/ \E status \in {"CONNECTED", "RECONNECTING", "DISCONNECTED"}, d \in {0, mark} :
                /\ seats' = [seats EXCEPT ![s] = status] /\ deadline' = [deadline EXCEPT ![s] = d]
                /\ armed' \in {armed \ {s}, armed \cup {s}}
    <3>1. CASE BeginResume
      BY <2>1, <3>1 DEF BeginResume, SynchronizePresence
    <3>2. CASE BeginDisconnect
      BY <2>1, <3>2 DEF BeginDisconnect, SynchronizePresence, pause
    <3>3. CASE BeginLateResume \/ BeginExpire
      BY <2>1, <3>3 DEF BeginLateResume, BeginExpire, Expire, SynchronizePresence, pause
    <3>4. CASE BeginInvalidResume \/ BeginCommand \/ RefuseCommand
      BY <3>4 DEF BeginInvalidResume, BeginCommand, RefuseCommand, pause
    <3>5. QED
      BY <3>1, <3>2, <3>3, <3>4 DEF Begins
  <2>3. TypeOK
    BY DEF TransportInvariant
  <2>4. CASE UNCHANGED room
    BY <2>2, <2>3, <2>4 DEF TypeOK, room
  <2>5. CASE ~UNCHANGED room
    <3>1. PICK status \in {"CONNECTED", "RECONNECTING", "DISCONNECTED"}, d \in {0, mark} :
            /\ seats' = [seats EXCEPT ![s] = status] /\ deadline' = [deadline EXCEPT ![s] = d]
            /\ armed' \in {armed \ {s}, armed \cup {s}}
      BY <2>2, <2>5
    <3>2. d \in Nat
      BY <2>1
    <3>3. /\ seats \in [Sessions -> {"CONNECTED", "RECONNECTING", "DISCONNECTED"}]
          /\ deadline \in [Sessions -> Nat] /\ armed \subseteq Sessions /\ lost \subseteq Sessions
          /\ live \in BOOLEAN /\ refused \in BOOLEAN
      BY <2>3 DEF TypeOK
    <3>4. QED
      BY <2>1, <2>2, <3>1, <3>2, <3>3
  <2>6. QED
    BY <2>4, <2>5
<1>4. game' \in [latch : BOOLEAN, absent : SUBSET Sessions, version : Nat]
  <2>1. \A status : Absent(status) \subseteq Sessions
    BY DEF Absent
  <2>2. game \in [latch : BOOLEAN, absent : SUBSET Sessions, version : Nat]
    BY DEF TransportInvariant, TypeOK
  <2>3. \/ game' = game
        \/ game' = [game EXCEPT !.latch = FALSE, !.absent = Absent(seats')]
        \/ game' = [game EXCEPT !.version = @ + 1]
    BY DEF Begins, BeginResume, BeginLateResume, BeginInvalidResume, BeginDisconnect, BeginExpire, BeginCommand,
       RefuseCommand, Expire, SynchronizePresence, pause
  <2>4. CASE game' = [game EXCEPT !.latch = FALSE, !.absent = Absent(seats')]
    BY <2>1, <2>2, <2>4
  <2>5. CASE game' = [game EXCEPT !.version = @ + 1]
    BY <2>2, <2>5
  <2>6. QED
    BY <2>2, <2>3, <2>4, <2>5
<1>5. QED
  BY <1>1, <1>3, <1>4 DEF TransportInvariant, TypeOK

\* Every step keeps the types.
LEMMA TypeStep ==
  ASSUME TransportInvariant, [Next]_vars
  PROVE  TypeOK'
<1>0. TypeOK /\ Begun
  BY DEF TransportInvariant
<1> USE DEF room, history, pause
<1>1. ASSUME NEW t \in Sockets, NEW s \in Sessions, RequestResume(t, s)
      PROVE  TypeOK'
  <2>1. Op("resume", s, t, 0)' \in OpType /\ Op("resume", s, t, 0) \in OpType
    BY <1>1, <1>0 DEF RequestResume, Op, OpType, TypeOK
  <2>2. queue' \in Seq(OpType)
    <3>1. PICK op \in OpType : queue' = queue \/ queue' = Append(queue, op)
      BY <1>1, <2>1, <1>0 DEF RequestResume, Enqueue, TypeOK
    <3>2. QED
      BY <1>0, <3>1, AppendTyped DEF TypeOK
  <2>3. game' \in [latch : BOOLEAN, absent : SUBSET Sessions, version : Nat] /\ refused' \in BOOLEAN
    BY <1>1, <1>0 DEF RequestResume, TypeOK
  <2>4. /\ epoch' \in [Sessions -> Nat] /\ newest' \in [Sessions -> Sockets]
        /\ sockets' \in [Sockets -> [open : BOOLEAN, session : Sessions \cup {None}, pending : BOOLEAN]]
    <3>1. /\ epoch' = epoch \/ epoch' = [epoch EXCEPT ![s] = @ + 1]
          /\ newest' = newest \/ newest' = [newest EXCEPT ![s] = t]
          /\ sockets' = sockets \/ sockets' = [sockets EXCEPT ![t].pending = TRUE]
      BY <1>1 DEF RequestResume
    <3>2. epoch' \in [Sessions -> Nat] /\ newest' \in [Sessions -> Sockets]
      <4>1. epoch \in [Sessions -> Nat] /\ newest \in [Sessions -> Sockets]
        BY <1>0 DEF TypeOK
      <4>2. QED
        BY <3>1, <4>1
    <3>3. sockets' \in [Sockets -> [open : BOOLEAN, session : Sessions \cup {None}, pending : BOOLEAN]]
      <4>1. sockets \in [Sockets -> [open : BOOLEAN, session : Sessions \cup {None}, pending : BOOLEAN]]
        BY <1>0 DEF TypeOK
      <4>2. CASE sockets' = [sockets EXCEPT ![t].pending = TRUE]
        BY <4>1, <4>2
      <4>3. QED
        BY <3>1, <4>1, <4>2
    <3>4. QED
      BY <3>2, <3>3
  <2>5. UNCHANGED <<live, active, seats, deadline, armed, running, settled, lost, losses>>
    BY <1>1, <1>0 DEF RequestResume, TypeOK
  <2>6. QED
    BY <2>2, <2>3, <2>4, <2>5, <1>0 DEF TypeOK
<1>2. ASSUME NEW t \in Sockets, Connect(t)
      PROVE  TypeOK'
  BY <1>2, <1>0, ZenonT(40) DEF Connect, TypeOK
<1>3. ASSUME NEW t \in Sockets, SendCommand(t)
      PROVE  TypeOK'
  <2>1. PICK s : s = sockets[t].session
    OBVIOUS
  <2>2. s \in Sessions /\ queue' = Append(queue, Op("command", s, t, epoch[s]))
    BY <1>3, <2>1, <1>0 DEF SendCommand, Enqueue, TypeOK
  <2>3. queue' \in Seq(OpType)
    BY <2>2, OpTyped, <1>0 DEF TypeOK
  <2>4. QED
    BY <1>3, <2>3, <1>0 DEF SendCommand, TypeOK
<1>4. ASSUME NEW t \in Sockets, LoseSocket(t)
      PROVE  TypeOK'
  <2>1. PICK s : s = sockets[t].session
    OBVIOUS
  <2>2. /\ sockets' = [sockets EXCEPT ![t] = Closed]
        /\ UNCHANGED <<live, room, epoch, running, settled, newest>>
        /\ \/ /\ s \in Sessions /\ active' = [active EXCEPT ![s] = None] /\ lost' = lost \cup {s}
               /\ MarkDisconnected(s)
           \/ UNCHANGED <<active, lost, pause, queue, losses>>
    BY <1>4, <2>1, <1>0 DEF LoseSocket, TypeOK
  <2>3. sockets' \in [Sockets -> [open : BOOLEAN, session : Sessions \cup {None}, pending : BOOLEAN]]
    BY <2>2, <1>0 DEF Closed, TypeOK
  <2>4. CASE s \in Sessions /\ MarkDisconnected(s) /\ active' = [active EXCEPT ![s] = None] /\ lost' = lost \cup {s}
    <3>1. /\ queue' \in Seq(OpType) /\ game' \in [latch : BOOLEAN, absent : SUBSET Sessions, version : Nat]
          /\ refused' = refused /\ losses' \in Nat
      BY <2>4, MarkTypes, <1>0 DEF TypeOK
    <3>2. QED
      BY <2>2, <2>3, <2>4, <3>1, <1>0 DEF TypeOK
  <2>5. CASE UNCHANGED <<active, lost, pause, queue, losses>>
    BY <2>2, <2>3, <2>5, <1>0 DEF TypeOK
  <2>6. QED
    BY <2>2, <2>4, <2>5, <1>0 DEF TypeOK
<1>5. ASSUME NEW s \in Sessions, EndGrace(s)
      PROVE  TypeOK'
  <2>1. queue' \in Seq(OpType) /\ live' \in BOOLEAN
    <3>1. Op("expire", s, None, deadline[s]) \in OpType
      BY OpTyped, <1>0 DEF TypeOK
    <3>2. PICK op \in OpType : queue' = queue \/ queue' = Append(queue, op)
      BY <1>5, <3>1, <1>0 DEF EndGrace, Enqueue, TypeOK
    <3>3. live' \in {live, FALSE}
      BY <1>5, <1>0 DEF EndGrace, TypeOK
    <3>4. QED
      BY <1>0, <3>2, <3>3, AppendTyped DEF TypeOK
  <2>2. QED
    BY <1>5, <2>1, <1>0 DEF EndGrace, TypeOK
<1>6. ASSUME Finish
      PROVE  TypeOK'
  <2>1. queue' \in Seq(OpType) /\ Head(queue) \in OpType
    BY <1>6, TailQueue, <1>0 DEF TypeOK
  <2>2. settled' \in [session : Sessions, socket : Sockets, found : BOOLEAN] \cup {None}
    <3>1. Head(queue).kind = "resume" => Head(queue).socket \in Sockets
      <4>1. Attaching
        BY DEF TransportInvariant
      <4>2. 1 \in 1..Len(queue) /\ 1 # 0 /\ Head(queue) = queue[1]
        BY <1>0, <1>6, TailQueue
      <4>3. QED
        BY <4>1, <4>2 DEF Attaching, Resumes, SocketOf
    <3>2. running \in {[found |-> TRUE], [found |-> FALSE]}
      BY <1>6, <1>0 DEF Finish, TypeOK
    <3>3. running.found \in BOOLEAN /\ Head(queue).session \in Sessions
      <4>1. running.found \in BOOLEAN
        <5>1. PICK b \in BOOLEAN : running = [found |-> b]
          BY <3>2
        <5>2. QED
          BY <5>1
      <4>2. Head(queue).session \in Sessions
        BY <2>1, <1>0 DEF OpType, TypeOK
      <4>3. QED
        BY <4>1, <4>2, <1>0 DEF TypeOK
    <3>4. QED
      BY <1>6, <3>1, <3>3, <1>0 DEF Finish, TypeOK
  <2>3. QED
    BY <1>6, <2>1, <2>2, <1>0 DEF Finish, TypeOK
<1>7. ASSUME AbandonAttachment
      PROVE  TypeOK'
  <2>1. /\ settled.session \in Sessions /\ settled.socket \in Sockets /\ settled' = None
        /\ sockets' = [sockets EXCEPT ![settled.socket].pending = FALSE]
        /\ MarkDisconnected(settled.session)
        /\ UNCHANGED <<live, active, room, epoch, running, history>>
    BY <1>7, <1>0 DEF AbandonAttachment, TypeOK
  <2>2. PICK s \in Sessions : s = settled.session /\ MarkDisconnected(s)
    BY <2>1, <1>0 DEF TypeOK
  <2>3. /\ queue' \in Seq(OpType) /\ game' \in [latch : BOOLEAN, absent : SUBSET Sessions, version : Nat]
        /\ refused' = refused /\ losses' \in Nat
    BY <2>2, MarkTypes, <1>0 DEF TypeOK
  <2>4. QED
    BY <2>1, <2>3, <1>0, ZenonT(40) DEF TypeOK
<1>8. ASSUME RefuseAttachment
      PROVE  TypeOK'
  <2>1. /\ settled.socket \in Sockets /\ settled' = None
        /\ sockets' = [sockets EXCEPT ![settled.socket].pending = FALSE]
        /\ UNCHANGED <<live, active, room, epoch, pause, queue, running, history, losses>>
    BY <1>8, <1>0 DEF RefuseAttachment, TypeOK
  <2>2. QED
    BY <2>1, <1>0, ZenonT(40) DEF TypeOK
<1>9. ASSUME AttachSession
      PROVE  TypeOK'
  <2>1. /\ settled.session \in Sessions /\ settled.socket \in Sockets
        /\ settled' = None /\ active' = [active EXCEPT ![settled.session] = settled.socket]
        /\ UNCHANGED <<live, room, epoch, pause, queue, running, history, losses>>
    BY <1>9, <1>0 DEF AttachSession, TypeOK
  <2>2. sockets' \in [Sockets -> [open : BOOLEAN, session : Sessions \cup {None}, pending : BOOLEAN]]
    BY <1>9, <2>1, <1>0 DEF AttachSession, Closed, TypeOK
  <2>3. QED
    BY <2>1, <2>2, <1>0 DEF TypeOK
<1>10. CASE UNCHANGED vars
  BY <1>10, <1>0 DEF vars, TypeOK
<1>11. ASSUME Begins
       PROVE  TypeOK'
  BY <1>11, BeginTypes, <1>0 DEF TypeOK
<1>12. QED
  BY <1>1, <1>2, <1>3, <1>4, <1>5, <1>6, <1>7, <1>8, <1>9, <1>10, <1>11, <1>0 DEF Next, Begins, TypeOK

-----------------------------------------------------------------------------
(* Sockets, registry and the resumes under way.                            *)

\* Steps that admit at most an operation of another kind leave the resumes
\* under way as they are.
LEMMA SameResumes ==
  ASSUME TypeOK, settled' = settled, NEW op \in OpType, op.kind # "resume",
         queue' = queue \/ queue' = Append(queue, op)
  PROVE  /\ Resumes' = Resumes
         /\ \A i \in Resumes : SocketOf(i)' = SocketOf(i)
<1>1. CASE queue' = queue
  BY <1>1 DEF Resumes, SocketOf
<1>2. CASE queue' = Append(queue, op)
  <2>1. PICK n \in Nat : n = Len(queue)
    BY DEF TypeOK
  <2>2. /\ Len(queue') = n + 1 /\ queue'[n + 1] = op /\ \A i \in 1..n : queue'[i] = queue[i]
    BY <1>2, <2>1, AppendQueue
  <2>3. \A i : i \in 1..(n + 1) /\ queue'[i].kind = "resume" <=> i \in 1..n /\ queue[i].kind = "resume"
    BY <2>2
  <2>4. Resumes' = Resumes
    BY <2>1, <2>2, <2>3 DEF Resumes
  <2>5. \A i \in Resumes : i = 0 \/ i \in 1..n
    BY <2>1 DEF Resumes
  <2>6. \A i \in Resumes : SocketOf(i)' = SocketOf(i)
    BY <2>2, <2>5 DEF SocketOf
  <2>7. QED
    BY <2>4, <2>6
<1>3. QED
  BY <1>1, <1>2

\* A socket that speaks for a session is open and waits for no resume.
LEMMA SpeakerIsSettled ==
  ASSUME TypeOK, Attaching, NEW t \in Sockets, sockets[t].session # None
  PROVE  sockets[t].open /\ \A i \in Resumes : SocketOf(i) # t
BY DEF Attaching

\* The queue, the registry and the sockets as they were: so is the agreement.
LEMMA KeepsAttachments ==
  ASSUME TypeOK, OneTransport, Attaching, UNCHANGED <<sockets, active, settled>>,
         NEW op \in OpType, op.kind # "resume", queue' = queue \/ queue' = Append(queue, op)
  PROVE  OneTransport' /\ Attaching'
<1>1. Resumes' = Resumes /\ \A i \in Resumes : SocketOf(i)' = SocketOf(i)
  BY SameResumes
<1>2. QED
  BY <1>1 DEF OneTransport, Attaching

\* A resume under way ends on its socket: the others are still apart.
LEMMA ResumeGone ==
  ASSUME TypeOK, settled # None, settled' = None, NEW op \in OpType, op.kind # "resume",
         queue' = queue \/ queue' = Append(queue, op)
  PROVE  /\ Resumes' = Resumes \ {0} /\ 0 \in Resumes /\ SocketOf(0) = settled.socket
         /\ \A i \in Resumes' : SocketOf(i)' = SocketOf(i)
<1>1. PICK n \in Nat : n = Len(queue)
  BY DEF TypeOK
<1>2. \/ queue' = queue
      \/ Len(queue') = n + 1 /\ queue'[n + 1] = op /\ \A i \in 1..n : queue'[i] = queue[i]
  BY <1>1, AppendQueue
<1>3. {i \in 1..Len(queue') : queue'[i].kind = "resume"} = {i \in 1..n : queue[i].kind = "resume"}
  <2>1. CASE queue' = queue
    BY <2>1, <1>1
  <2>2. CASE Len(queue') = n + 1 /\ queue'[n + 1] = op /\ \A i \in 1..n : queue'[i] = queue[i]
    BY <2>2
  <2>3. QED
    BY <1>2, <2>1, <2>2
<1>4. Resumes' = Resumes \ {0} /\ 0 \in Resumes
  BY <1>1, <1>3 DEF Resumes
<1>5. \A i \in Resumes' : i \in 1..n
  BY <1>1, <1>3 DEF Resumes
<1>6. \A i \in Resumes' : SocketOf(i)' = SocketOf(i)
  BY <1>2, <1>5 DEF SocketOf
<1>7. QED
  BY <1>4, <1>6 DEF SocketOf

\* Every step keeps sockets and registry in agreement.
LEMMA AttachmentStep ==
  ASSUME TransportInvariant, [Next]_vars
  PROVE  OneTransport' /\ Attaching'
<1>0. TypeOK /\ Begun /\ OneTransport /\ Attaching
  BY DEF TransportInvariant
<1>s. sockets \in [Sockets -> [open : BOOLEAN, session : Sessions \cup {None}, pending : BOOLEAN]]
  BY <1>0 DEF TypeOK
<1>n. None \notin Sockets /\ None \notin Sessions
  BY TransportConstants
<1>1. ASSUME NEW t \in Sockets, NEW s \in Sessions, RequestResume(t, s)
      PROVE  OneTransport' /\ Attaching'
  <2>1. /\ sockets[t] = [open |-> TRUE, session |-> None, pending |-> FALSE]
        /\ active' = active /\ settled' = settled
        /\ \/ UNCHANGED <<queue, sockets>>
           \/ /\ sockets' = [sockets EXCEPT ![t].pending = TRUE]
              /\ \E op : op = Op("resume", s, t, 0) /\ queue' = Append(queue, op)
    BY <1>1 DEF RequestResume, Enqueue
  <2>2. CASE UNCHANGED <<queue, sockets>>
    BY <1>0, <2>1, <2>2 DEF OneTransport, Attaching, Resumes, SocketOf
  <2>3. CASE ~UNCHANGED <<queue, sockets>>
    <3>1. PICK op : op = Op("resume", s, t, 0) /\ queue' = Append(queue, op)
      BY <2>1, <2>3
    <3>2. sockets' = [sockets EXCEPT ![t].pending = TRUE]
      BY <2>1, <2>3
    <3>3. op \in OpType /\ op.kind = "resume" /\ op.socket = t
      BY <3>1, <1>0, OpTyped DEF Op
    <3>4. PICK n \in Nat : n = Len(queue)
      BY <1>0 DEF TypeOK
    <3>5. Len(queue') = n + 1 /\ queue'[n + 1] = op /\ \A i \in 1..n : queue'[i] = queue[i]
      BY <1>0, <3>1, <3>3, <3>4, AppendQueue
    <3>6. Resumes' = Resumes \cup {n + 1}
      BY <2>1, <3>3, <3>4, <3>5 DEF Resumes
    <3>7. \A i \in Resumes : i = 0 \/ i \in 1..n
      BY <3>4 DEF Resumes
    <3>8. /\ \A i \in Resumes : SocketOf(i)' = SocketOf(i) /\ SocketOf(i) # t
          /\ SocketOf(n + 1)' = t
      <4>1. \A i \in Resumes : SocketOf(i)' = SocketOf(i)
        BY <2>1, <3>5, <3>7 DEF SocketOf
      <4>2. \A i \in Resumes : SocketOf(i) # t
        BY <1>0, <2>1 DEF Attaching
      <4>3. QED
        BY <3>3, <3>5, <4>1, <4>2 DEF SocketOf
    <3>9. /\ \A u \in Sockets : sockets'[u].open = sockets[u].open /\ sockets'[u].session = sockets[u].session
          /\ \A u \in Sockets \ {t} : sockets'[u] = sockets[u]
          /\ sockets'[t].pending
      BY <1>s, <3>2
    <3>10. OneTransport'
      BY <1>0, <2>1, <3>9 DEF OneTransport
    <3>11. sockets[t].session = None
      BY <2>1
    <3>12. Attaching'
      BY <1>0, <3>6, <3>8, <3>9, <3>11 DEF Attaching
    <3>13. QED
      BY <3>10, <3>12
  <2>4. QED
    BY <2>2, <2>3
<1>2. ASSUME NEW t \in Sockets, Connect(t)
      PROVE  OneTransport' /\ Attaching'
  <2>1. /\ ~sockets[t].open /\ \A i \in 1..Len(queue) : queue[i].socket # t
        /\ settled = None /\ UNCHANGED <<active, queue, settled>>
        /\ sockets' = [sockets EXCEPT ![t].open = TRUE]
    BY <1>2 DEF Connect, Event
  <2>2. Resumes' = Resumes /\ \A i \in Resumes : SocketOf(i)' = SocketOf(i) /\ SocketOf(i) # t
    BY <2>1 DEF Resumes, SocketOf
  <2>3. /\ \A u \in Sockets : sockets'[u].session = sockets[u].session
        /\ \A u \in Sockets \ {t} : sockets'[u] = sockets[u]
        /\ sockets'[t].open
    BY <1>s, <2>1
  <2>4. OneTransport'
    BY <1>0, <2>1, <2>3 DEF OneTransport
  <2>5. Attaching'
    BY <1>0, <2>2, <2>3 DEF Attaching
  <2>6. QED
    BY <2>4, <2>5
<1>3. ASSUME NEW t \in Sockets, SendCommand(t)
      PROVE  OneTransport' /\ Attaching'
  <2>1. PICK s : s = sockets[t].session
    OBVIOUS
  <2>2. /\ s \in Sessions /\ queue' = Append(queue, Op("command", s, t, epoch[s]))
        /\ UNCHANGED <<sockets, active, settled>>
    BY <1>3, <2>1, <1>s DEF SendCommand, Enqueue
  <2>3. PICK op \in OpType : op.kind # "resume" /\ queue' = Append(queue, op)
    <3>1. epoch[s] \in Nat
      BY <1>0, <2>2 DEF TypeOK
    <3>2. Op("command", s, t, epoch[s]) \in OpType
      BY <1>0, <2>2, <3>1, OpTyped
    <3>3. QED
      BY <2>2, <3>2 DEF Op
  <2>4. QED
    BY <1>0, <2>2, <2>3, KeepsAttachments
<1>4. ASSUME NEW t \in Sockets, LoseSocket(t)
      PROVE  OneTransport' /\ Attaching'
  <2>1. PICK s : s = sockets[t].session
    OBVIOUS
  <2>2. /\ sockets' = [sockets EXCEPT ![t] = Closed] /\ settled' = settled
        /\ \/ /\ s \in Sessions /\ active' = [active EXCEPT ![s] = None] /\ MarkDisconnected(s)
           \/ s # None /\ active[s] # t /\ UNCHANGED <<active, queue>>
           \/ s = None /\ UNCHANGED <<active, queue>>
    BY <1>4, <2>1, <1>s DEF LoseSocket
  <2>3. Resumes' = Resumes /\ \A i \in Resumes : SocketOf(i)' = SocketOf(i)
    <3>1. CASE s \in Sessions /\ MarkDisconnected(s)
      <4>1. losses + 1 \in Nat
        BY <1>0 DEF TypeOK
      <4>2. /\ Op("disconnect", s, None, losses + 1) \in OpType
            /\ Op("disconnect", s, None, losses + 1).kind # "resume"
        BY <1>0, <3>1, <4>1, OpTyped DEF Op
      <4>3. queue' = queue \/ queue' = Append(queue, Op("disconnect", s, None, losses + 1))
        BY <1>0, <3>1, MarkTypes
      <4>4. QED
        BY <1>0, <2>2, <4>2, <4>3, SameResumes
    <3>2. CASE queue' = queue
      BY <2>2, <3>2 DEF Resumes, SocketOf
    <3>3. QED
      BY <2>2, <3>1, <3>2
  <2>4. /\ ~sockets'[t].open /\ sockets'[t].session = None
        /\ \A u \in Sockets \ {t} : sockets'[u] = sockets[u]
    BY <1>s, <2>2 DEF Closed
  <2>5. OneTransport'
    <3>1. s \in Sessions => active[s] = t
      BY <1>0, <2>1 DEF OneTransport
    <3>2. active \in [Sessions -> Sockets \cup {None}]
      BY <1>0 DEF TypeOK
    <3>3. \A u \in Sockets, z \in Sessions : active'[z] = u <=> sockets'[u].session = z
      <4> SUFFICES ASSUME NEW u \in Sockets, NEW z \in Sessions
                   PROVE  active'[z] = u <=> sockets'[u].session = z
        OBVIOUS
      <4>1. active[z] = u <=> sockets[u].session = z
        BY <1>0 DEF OneTransport
      <4>2. active[z] = t <=> s = z
        BY <1>0, <2>1 DEF OneTransport
      <4>3. CASE s \in Sessions /\ active' = [active EXCEPT ![s] = None]
        BY <1>n, <2>4, <3>2, <4>1, <4>2, <4>3
      <4>4. CASE s = None /\ active' = active
        BY <1>n, <2>4, <4>1, <4>2, <4>4
      <4>5. s \in Sessions \cup {None}
        BY <2>1, <1>s
      <4>6. QED
        BY <2>2, <3>1, <4>3, <4>4, <4>5
    <3>4. QED
      BY <3>3 DEF OneTransport
  <2>6. Attaching'
    BY <1>0, <2>3, <2>4 DEF Attaching
  <2>7. QED
    BY <2>5, <2>6
<1>5. ASSUME NEW s \in Sessions, EndGrace(s)
      PROVE  OneTransport' /\ Attaching'
  <2>1. deadline[s] \in Nat
    BY <1>0 DEF TypeOK
  <2>2. /\ Op("expire", s, None, deadline[s]) \in OpType /\ Op("expire", s, None, deadline[s]).kind # "resume"
    BY <1>0, <2>1, OpTyped DEF Op
  <2>3. /\ queue' = queue \/ queue' = Append(queue, Op("expire", s, None, deadline[s]))
        /\ UNCHANGED <<sockets, active, settled>>
    BY <1>5 DEF EndGrace, Enqueue
  <2>4. PICK op \in OpType : op.kind # "resume" /\ (queue' = queue \/ queue' = Append(queue, op))
    BY <2>2, <2>3
  <2>5. QED
    BY <1>0, <2>3, <2>4, KeepsAttachments
<1>6. ASSUME Finish
      PROVE  OneTransport' /\ Attaching'
  <2>1. PICK n \in Nat : n = Len(queue) /\ n >= 1
    BY <1>0, <1>6, TailQueue
  <2>2. /\ Len(queue') = n - 1 /\ Head(queue) = queue[1] /\ \A i \in 1..(n - 1) : queue'[i] = queue[i + 1]
    BY <1>0, <1>6, <2>1, TailQueue
  <2>3. /\ settled = None /\ UNCHANGED <<sockets, active>>
        /\ queue[1].kind = "resume" => settled' # None /\ settled'.socket = queue[1].socket
        /\ queue[1].kind # "resume" => settled' = None
    <3>1. queue[1].kind = "resume" => settled' # None
      <4>1. TypeOK'
        BY TypeStep, <1>6 DEF Next
      <4>2. \A z, b, f : [session |-> z, socket |-> b, found |-> f] = None
                           => [session |-> z, socket |-> b, found |-> f] \notin [session : Sessions, socket : Sockets, found : BOOLEAN]
        BY TransportConstants
      <4>3. queue[1].kind = "resume" => queue[1].session \in Sessions /\ queue[1].socket \in Sockets
        <5>1. queue[1] \in OpType
          BY <1>0, <1>6, TailQueue
        <5>2. queue[1].kind = "resume" => 1 \in Resumes /\ SocketOf(1) = queue[1].socket
          BY <2>1 DEF Resumes, SocketOf
        <5>3. QED
          BY <1>0, <5>1, <5>2 DEF Attaching, OpType
      <4>4. running.found \in BOOLEAN
        <5>1. PICK b \in BOOLEAN : running = [found |-> b]
          BY <1>0, <1>6 DEF Finish, TypeOK
        <5>2. QED
          BY <5>1
      <4>5. QED
        BY <1>6, <2>2, <4>2, <4>3, <4>4 DEF Finish
    <3>2. QED
      BY <1>6, <2>2, <3>1 DEF Finish
  <2>4. \A i \in Resumes' : i \in Nat /\ i + 1 \in Resumes /\ SocketOf(i)' = SocketOf(i + 1)
    <3>1. \A i \in 1..(n - 1) : i + 1 \in 1..n /\ i + 1 # 0 /\ i # 0
      OBVIOUS
    <3>2. \A i \in Resumes' : \/ i \in 1..(n - 1) /\ queue'[i].kind = "resume"
                              \/ i = 0 /\ settled' # None
      <4>1. Resumes' = {i \in 1..(n - 1) : queue'[i].kind = "resume"} \cup (IF settled' = None THEN {} ELSE {0})
        BY <2>2 DEF Resumes
      <4>2. QED
        BY <4>1
    <3>3. \A i \in 1..(n - 1) : queue'[i].kind = "resume" =>
            i + 1 \in Resumes /\ SocketOf(i)' = SocketOf(i + 1)
      BY <2>1, <2>2, <3>1 DEF Resumes, SocketOf
    <3>4. settled' # None => 1 \in Resumes /\ SocketOf(0)' = SocketOf(1)
      BY <2>1, <2>3 DEF Resumes, SocketOf
    <3>5. QED
      BY <3>2, <3>3, <3>4
  <2>5. OneTransport'
    BY <1>0, <2>3 DEF OneTransport
  <2>6. Attaching'
    <3>1. \A i \in Resumes' : /\ SocketOf(i)' \in Sockets
                              /\ sockets'[SocketOf(i)'].open => /\ sockets'[SocketOf(i)'].pending
                                                                /\ sockets'[SocketOf(i)'].session = None
      BY <1>0, <2>3, <2>4 DEF Attaching
    <3>2. \A i, j \in Resumes' : SocketOf(i)' = SocketOf(j)' => i = j
      <4> SUFFICES ASSUME NEW i \in Resumes', NEW j \in Resumes', SocketOf(i)' = SocketOf(j)'
                   PROVE  i = j
        OBVIOUS
      <4>1. i \in Nat /\ j \in Nat /\ i + 1 = j + 1
        BY <1>0, <2>4 DEF Attaching
      <4>2. QED
        BY <4>1
    <3>3. QED
      BY <1>0, <2>3, <3>1, <3>2 DEF Attaching
  <2>7. QED
    BY <2>5, <2>6
<1>7. ASSUME RefuseAttachment \/ AbandonAttachment \/ AttachSession
      PROVE  OneTransport' /\ Attaching'
  <2>1. PICK s \in Sessions, t \in Sockets : settled # None /\ s = settled.session /\ t = settled.socket
    BY <1>0, <1>7 DEF TypeOK, RefuseAttachment, AbandonAttachment, AttachSession
  <2>2. PICK op \in OpType : op.kind # "resume" /\ (queue' = queue \/ queue' = Append(queue, op))
    <3>1. losses + 1 \in Nat
      BY <1>0 DEF TypeOK
    <3>2. Op("disconnect", s, None, losses + 1) \in OpType /\ Op("disconnect", s, None, losses + 1).kind = "disconnect"
      BY <1>0, <3>1, OpTyped DEF Op
    <3>3. CASE AbandonAttachment
      <4>1. MarkDisconnected(s)
        BY <2>1, <3>3 DEF AbandonAttachment
      <4>2. QED
        BY <1>0, <3>2, <4>1, MarkTypes
    <3>4. CASE RefuseAttachment \/ AttachSession
      BY <3>2, <3>4 DEF RefuseAttachment, AttachSession
    <3>5. QED
      BY <1>7, <3>3, <3>4
  <2>3. settled' = None
    BY <1>7 DEF RefuseAttachment, AbandonAttachment, AttachSession
  <2>4. /\ Resumes' = Resumes \ {0} /\ 0 \in Resumes /\ SocketOf(0) = t
        /\ \A i \in Resumes' : SocketOf(i)' = SocketOf(i)
    BY <1>0, <2>1, <2>2, <2>3, ResumeGone
  <2>5. \A i \in Resumes' : SocketOf(i) # t
    BY <1>0, <2>4 DEF Attaching
  <2>6. CASE RefuseAttachment \/ AbandonAttachment
    <3>1. sockets' = [sockets EXCEPT ![t].pending = FALSE] /\ active' = active
      BY <2>1, <2>6 DEF RefuseAttachment, AbandonAttachment
    <3>2. /\ \A u \in Sockets : sockets'[u].session = sockets[u].session /\ sockets'[u].open = sockets[u].open
          /\ \A u \in Sockets \ {t} : sockets'[u] = sockets[u]
      BY <1>s, <3>1
    <3>3. OneTransport'
      BY <1>0, <3>1, <3>2 DEF OneTransport
    <3>4. Attaching'
      BY <1>0, <2>4, <2>5, <3>2 DEF Attaching
    <3>5. QED
      BY <3>3, <3>4
  <2>7. CASE AttachSession
    <3>1. /\ sockets[t].open /\ active' = [active EXCEPT ![s] = t]
          /\ sockets' = [u \in Sockets |->
               IF u = t THEN [open |-> TRUE, session |-> s, pending |-> FALSE]
               ELSE IF u = active[s] THEN Closed ELSE sockets[u]]
      BY <2>1, <2>7 DEF AttachSession
    <3>2. sockets[t].session = None
      BY <1>0, <2>4, <3>1 DEF Attaching
    <3>3. /\ sockets'[t].open /\ sockets'[t].session = s
          /\ \A u \in Sockets \ {t} : u = active[s] => ~sockets'[u].open /\ sockets'[u].session = None
          /\ \A u \in Sockets \ {t} : u # active[s] => sockets'[u] = sockets[u]
      BY <3>1 DEF Closed
    <3>4. active \in [Sessions -> Sockets \cup {None}]
      BY <1>0 DEF TypeOK
    <3>5. \A u \in Sockets, z \in Sessions : active'[z] = u <=> sockets'[u].session = z
      <4> SUFFICES ASSUME NEW u \in Sockets, NEW z \in Sessions
                   PROVE  active'[z] = u <=> sockets'[u].session = z
        OBVIOUS
      <4>1. /\ active[z] = u <=> sockets[u].session = z
            /\ active[s] = u <=> sockets[u].session = s
            /\ active[z] # t /\ active[s] # t
        BY <1>0, <1>n, <3>2 DEF OneTransport
      <4>2. active'[s] = t /\ (z # s => active'[z] = active[z])
        BY <3>1, <3>4
      <4>3. CASE u = t
        BY <3>3, <4>1, <4>2, <4>3
      <4>4. CASE u # t
        BY <1>n, <3>3, <4>1, <4>2, <4>4
      <4>5. QED
        BY <4>3, <4>4
    <3>6. OneTransport'
      BY <3>5 DEF OneTransport
    <3>7. \A i \in Resumes' : sockets'[SocketOf(i)].open =>
             sockets'[SocketOf(i)] = sockets[SocketOf(i)]
      BY <1>0, <2>4, <2>5, <3>3 DEF Attaching
    <3>8. Attaching'
      BY <1>0, <2>4, <3>3, <3>7 DEF Attaching
    <3>9. QED
      BY <3>6, <3>8
  <2>8. QED
    BY <1>7, <2>6, <2>7
<1>8. ASSUME Begins \/ UNCHANGED vars
      PROVE  OneTransport' /\ Attaching'
  <2>1. UNCHANGED <<sockets, active, queue, settled>>
    BY <1>0, <1>8, BeginsFacts DEF vars
  <2>2. Resumes' = Resumes /\ \A i \in Resumes : SocketOf(i)' = SocketOf(i)
    BY <2>1 DEF Resumes, SocketOf
  <2>3. QED
    BY <1>0, <2>1, <2>2 DEF OneTransport, Attaching
<1>9. QED
  BY <1>1, <1>2, <1>3, <1>4, <1>5, <1>6, <1>7, <1>8 DEF Next, Begins

-----------------------------------------------------------------------------
(* Presence, epochs and the running operation.                             *)

\* Every step that changes a seat tells the game, or closes the Room.
LEMMA PresenceStep ==
  ASSUME TransportInvariant, [Next]_vars
  PROVE  PresenceKnown'
<1>0. TypeOK /\ PresenceKnown
  BY DEF TransportInvariant
<1>g. game \in [latch : BOOLEAN, absent : SUBSET Sessions, version : Nat]
  BY <1>0 DEF TypeOK
<1>1. CASE /\ UNCHANGED seats
           /\ live' => live
           /\ game'.absent = game.absent
  BY <1>0, <1>1 DEF PresenceKnown, Absent
<1>2. CASE game'.absent = Absent(seats') \/ ~live'
  BY <1>2 DEF PresenceKnown, Absent
<1>3. ASSUME NEW t \in Sockets, NEW s \in Sessions, RequestResume(t, s)
      PROVE  PresenceKnown'
  <2>1. UNCHANGED <<live, seats>> /\ (game' = game \/ game' = [game EXCEPT !.latch = TRUE])
    BY <1>3 DEF RequestResume, room
  <2>2. QED
    BY <1>1, <1>g, <2>1
<1>4. ASSUME NEW s \in Sessions, MarkDisconnected(s), UNCHANGED <<live, room>>
      PROVE  PresenceKnown'
  BY <1>0, <1>1, <1>4, MarkTypes DEF room
<1>5. ASSUME NEW t \in Sockets, LoseSocket(t)
      PROVE  PresenceKnown'
  <2>1. UNCHANGED <<live, room>> /\ (game' = game \/ \E s \in Sessions : MarkDisconnected(s))
    <3>1. sockets[t].session \in Sessions \cup {None}
      BY <1>0 DEF TypeOK
    <3>2. QED
      BY <1>5, <3>1 DEF LoseSocket, pause
  <2>2. QED
    BY <1>1, <1>4, <2>1 DEF room
<1>6. CASE AbandonAttachment
  <2>1. UNCHANGED <<live, room>> /\ settled.session \in Sessions /\ MarkDisconnected(settled.session)
    BY <1>0, <1>6 DEF AbandonAttachment, TypeOK
  <2>2. QED
    BY <1>4, <2>1
<1>7. ASSUME NEW t \in Sockets, Connect(t) \/ SendCommand(t)
      PROVE  PresenceKnown'
  BY <1>1, <1>7 DEF Connect, SendCommand, room, pause
<1>8. ASSUME NEW s \in Sessions, EndGrace(s)
      PROVE  PresenceKnown'
  BY <1>1, <1>8 DEF EndGrace, pause
<1>9. CASE Finish \/ RefuseAttachment \/ AttachSession \/ UNCHANGED vars
  BY <1>1, <1>9 DEF Finish, RefuseAttachment, AttachSession, room, pause, vars
<1>10. ASSUME NEW status, SynchronizePresence(status)
       PROVE  game'.absent = Absent(status)
  BY <1>g, <1>10 DEF SynchronizePresence
<1>11. CASE BeginResume
  BY <1>2, <1>10, <1>11 DEF BeginResume
<1>12. ASSUME NEW s \in Sessions, Expire(s)
       PROVE  PresenceKnown'
  BY <1>2, <1>10, <1>12 DEF Expire
<1>13. CASE BeginLateResume
  <2>1. Head(queue).session \in Sessions
    BY <1>0, <1>13, BeginFacts DEF BeginLateResume
  <2>2. QED
    BY <1>12, <1>13, <2>1 DEF BeginLateResume
<1>14. CASE BeginExpire
  <2>1. Head(queue).session \in Sessions
    BY <1>0, <1>14, BeginFacts DEF BeginExpire
  <2>2. CASE Expire(Head(queue).session)
    BY <1>12, <2>1, <2>2
  <2>3. CASE ~Expire(Head(queue).session)
    BY <1>1, <1>14, <2>3 DEF BeginExpire, room, pause
  <2>4. QED
    BY <2>2, <2>3
<1>15. CASE BeginDisconnect
  <2>1. CASE SynchronizePresence(seats')
    BY <1>2, <1>10, <2>1
  <2>2. CASE ~SynchronizePresence(seats')
    BY <1>1, <1>15, <2>2 DEF BeginDisconnect, room, pause
  <2>3. QED
    BY <2>1, <2>2
<1>16. CASE BeginInvalidResume \/ RefuseCommand
  BY <1>1, <1>16 DEF BeginInvalidResume, RefuseCommand, room, pause
<1>17. CASE BeginCommand
  <2>1. UNCHANGED <<live, seats>> /\ game' = [game EXCEPT !.version = @ + 1]
    BY <1>17 DEF BeginCommand, room
  <2>2. game'.absent = game.absent
    BY <1>g, <2>1
  <2>3. QED
    BY <1>1, <2>1, <2>2
<1>18. QED
  BY <1>3, <1>5, <1>6, <1>7, <1>8, <1>9, <1>11, <1>13, <1>14, <1>15, <1>16, <1>17 DEF Next

\* What a step does to the queue: nothing, one more operation at its end, or
\* the first one gone.
LEMMA QueueStep ==
  ASSUME TypeOK, [Next]_vars
  PROVE  \/ queue' = queue
         \/ \E op \in OpType :
              /\ queue' = Append(queue, op) /\ UNCHANGED <<running>>
              /\ op.kind = "command" => op.mark = epoch[op.session] /\ op.newest = newest[op.session]
         \/ Finish
<1>1. ASSUME NEW t \in Sockets, NEW s \in Sessions, RequestResume(t, s)
      PROVE  \/ queue' = queue
             \/ \E op \in OpType : queue' = Append(queue, op) /\ op.kind # "command" /\ UNCHANGED running
  BY <1>1, OpTyped DEF RequestResume, Enqueue, Op
<1>2. ASSUME NEW t \in Sockets, SendCommand(t)
      PROVE  \E op \in OpType : /\ queue' = Append(queue, op) /\ UNCHANGED running
                                /\ op.mark = epoch[op.session] /\ op.newest = newest[op.session]
  <2>1. PICK s : s = sockets[t].session
    OBVIOUS
  <2>2. s \in Sessions /\ queue' = Append(queue, Op("command", s, t, epoch[s])) /\ UNCHANGED running
    BY <1>2, <2>1 DEF SendCommand, Enqueue, TypeOK
  <2>3. PICK op : op = Op("command", s, t, epoch[s])
    OBVIOUS
  <2>4. op \in OpType /\ op.mark = epoch[op.session] /\ op.newest = newest[op.session]
    <3>1. epoch[s] \in Nat
      BY <2>2 DEF TypeOK
    <3>2. QED
      BY <2>2, <2>3, <3>1, OpTyped DEF Op
  <2>5. QED
    BY <2>2, <2>3, <2>4
<1>3. ASSUME NEW s \in Sessions, MarkDisconnected(s), UNCHANGED running
      PROVE  \/ queue' = queue
             \/ \E op \in OpType : queue' = Append(queue, op) /\ op.kind # "command" /\ UNCHANGED running
  <2>1. losses + 1 \in Nat
    BY DEF TypeOK
  <2>2. Op("disconnect", s, None, losses + 1) \in OpType /\ Op("disconnect", s, None, losses + 1).kind # "command"
    BY <2>1, OpTyped DEF Op
  <2>3. QED
    BY <1>3, <2>2, MarkTypes
<1>4. ASSUME NEW t \in Sockets, LoseSocket(t)
      PROVE  queue' = queue \/ \E s \in Sessions : MarkDisconnected(s) /\ UNCHANGED running
  <2>1. sockets[t].session \in Sessions \cup {None}
    BY DEF TypeOK
  <2>2. QED
    BY <1>4, <2>1 DEF LoseSocket
<1>5. ASSUME AbandonAttachment
      PROVE  \E s \in Sessions : MarkDisconnected(s) /\ UNCHANGED running
  BY <1>5 DEF AbandonAttachment, TypeOK
<1>6. ASSUME NEW s \in Sessions, EndGrace(s)
      PROVE  \/ queue' = queue
             \/ \E op \in OpType : queue' = Append(queue, op) /\ op.kind # "command" /\ UNCHANGED running
  <2>1. deadline[s] \in Nat
    BY DEF TypeOK
  <2>2. Op("expire", s, None, deadline[s]) \in OpType /\ Op("expire", s, None, deadline[s]).kind # "command"
    BY <2>1, OpTyped DEF Op
  <2>3. QED
    BY <1>6, <2>2 DEF EndGrace, Enqueue
<1>7. ASSUME NEW t \in Sockets, Connect(t)
      PROVE  queue' = queue
  BY <1>7 DEF Connect
<1>8. ASSUME RefuseAttachment \/ AttachSession \/ UNCHANGED vars
      PROVE  queue' = queue
  BY <1>8 DEF RefuseAttachment, AttachSession, vars
<1>9. ASSUME Begins
      PROVE  queue' = queue
  BY <1>9, BeginsFacts
<1>10. QED
  BY <1>1, <1>2, <1>3, <1>4, <1>5, <1>6, <1>7, <1>8, <1>9 DEF Next, Begins

\* Only a valid resume changes an epoch, and it raises it.
LEMMA EpochStep ==
  ASSUME TypeOK, [Next]_vars
  PROVE  \A z \in Sessions : \/ epoch'[z] = epoch[z] /\ newest'[z] = newest[z]
                             \/ epoch'[z] = epoch[z] + 1
<1>0. epoch \in [Sessions -> Nat] /\ newest \in [Sessions -> Sockets]
  BY DEF TypeOK
<1>1. ASSUME NEW t \in Sockets, NEW s \in Sessions, RequestResume(t, s)
      PROVE  \A z \in Sessions : \/ epoch'[z] = epoch[z] /\ newest'[z] = newest[z]
                                 \/ epoch'[z] = epoch[z] + 1
  <2>1. \/ UNCHANGED <<epoch, newest>>
        \/ epoch' = [epoch EXCEPT ![s] = @ + 1] /\ newest' = [newest EXCEPT ![s] = t]
    BY <1>1 DEF RequestResume
  <2>2. QED
    BY <1>0, <2>1
<1>2. ASSUME ~\E t \in Sockets, s \in Sessions : RequestResume(t, s)
      PROVE  UNCHANGED <<epoch, newest>>
  <2>1. Begins => UNCHANGED <<epoch, newest>>
    BY BeginsFacts
  <2>2. QED
    BY <1>2, <2>1 DEF Next, Begins, Connect, SendCommand, LoseSocket, EndGrace, Finish, RefuseAttachment,
       AbandonAttachment, AttachSession, history, vars
<1>3. QED
  BY <1>1, <1>2

\* Every step keeps a superseded socket from being attached again.
LEMMA SupersedingStep ==
  ASSUME TransportInvariant, [Next]_vars
  PROVE  Superseding'
<1>0. TypeOK /\ Begun /\ Superseding
  BY DEF TransportInvariant
<1>1. PICK n \in Nat : n = Len(queue)
  BY <1>0 DEF TypeOK
<1>2. \A i \in 1..Len(queue') : queue'[i].kind = "command" =>
        /\ queue'[i].session \in Sessions /\ queue'[i].mark \in Nat
        /\ queue'[i].mark <= epoch[queue'[i].session]
        /\ queue'[i].mark = epoch[queue'[i].session] => queue'[i].newest = newest[queue'[i].session]
  <2>0. \A i \in 1..n : queue[i].kind = "command" =>
          /\ queue[i].session \in Sessions /\ queue[i].mark \in Nat
          /\ queue[i].mark <= epoch[queue[i].session]
          /\ queue[i].mark = epoch[queue[i].session] => queue[i].newest = newest[queue[i].session]
    <3>1. \A i \in 1..n : queue[i] \in OpType
      BY <1>0, <1>1 DEF TypeOK
    <3>2. \A i \in 1..n : queue[i].session \in Sessions /\ queue[i].mark \in Nat
      BY <3>1 DEF OpType
    <3>3. QED
      BY <1>0, <1>1, <3>2 DEF Superseding
  <2>1. CASE queue' = queue
    BY <1>1, <2>0, <2>1
  <2>2. ASSUME NEW op \in OpType, queue' = Append(queue, op),
               op.kind = "command" => op.mark = epoch[op.session] /\ op.newest = newest[op.session]
        PROVE  \A i \in 1..Len(queue') : queue'[i].kind = "command" =>
                 /\ queue'[i].session \in Sessions /\ queue'[i].mark \in Nat
                 /\ queue'[i].mark <= epoch[queue'[i].session]
                 /\ queue'[i].mark = epoch[queue'[i].session] => queue'[i].newest = newest[queue'[i].session]
    <3>1. Len(queue') = n + 1 /\ queue'[n + 1] = op /\ \A i \in 1..n : queue'[i] = queue[i]
      BY <1>0, <1>1, <2>2, AppendQueue
    <3>2. op.session \in Sessions /\ op.mark \in Nat
      BY DEF OpType
    <3>3. \A i \in 1..(n + 1) : i = n + 1 \/ i \in 1..n
      OBVIOUS
    <3>4. QED
      BY <2>0, <2>2, <3>1, <3>2, <3>3
  <2>3. CASE Finish
    <3>1. Len(queue') = n - 1 /\ \A i \in 1..(n - 1) : queue'[i] = queue[i + 1]
      BY <1>0, <1>1, <2>3, TailQueue
    <3>2. \A i \in 1..(n - 1) : i + 1 \in 1..n
      OBVIOUS
    <3>3. QED
      BY <2>0, <3>1, <3>2
  <2>4. QED
    BY <1>0, <2>1, <2>2, <2>3, QueueStep
<1>3. \A z \in Sessions : /\ epoch[z] \in Nat
                          /\ \/ epoch'[z] = epoch[z] /\ newest'[z] = newest[z]
                             \/ epoch'[z] = epoch[z] + 1
  BY <1>0, EpochStep DEF TypeOK
<1>4. QED
  BY <1>2, <1>3 DEF Superseding

\* Every step keeps an operation that runs the first of its queue.
LEMMA BegunStep ==
  ASSUME TransportInvariant, [Next]_vars
  PROVE  Begun'
<1>0. TypeOK /\ Begun
  BY DEF TransportInvariant
<1>1. CASE Begins
  <2>1. queue \in Seq(OpType) /\ 1 \in 1..Len(queue) /\ queue' = queue
    BY <1>0, <1>1, BeginsFacts DEF TypeOK
  <2>2. QED
    BY <2>1 DEF Begun
<1>2. CASE Finish
  BY <1>2 DEF Finish, Begun
<1>3. CASE ~Begins /\ ~Finish
  <2>1. running' = running
    BY <1>3 DEF Next, Begins, RequestResume, Connect, SendCommand, LoseSocket, EndGrace, RefuseAttachment,
       AbandonAttachment, AttachSession, vars
  <2>2. ASSUME NEW op \in OpType, queue' = Append(queue, op)
        PROVE  queue' # <<>>
    BY <1>0, <2>2, AppendQueue
  <2>3. queue' = queue \/ queue' # <<>>
    BY <1>0, <1>3, <2>2, QueueStep
  <2>4. QED
    BY <1>0, <2>1, <2>3 DEF Begun
<1>4. QED
  BY <1>1, <1>2, <1>3

\* The invariant holds before anybody connects.
LEMMA TransportInitially ==
  ASSUME Init
  PROVE  TransportInvariant
<1>1. TypeOK
  <2>1. sockets \in [Sockets -> [open : BOOLEAN, session : Sessions \cup {None}, pending : BOOLEAN]]
    BY DEF Init
  <2>2. queue \in Seq(OpType)
    BY DEF Init
  <2>3. QED
    BY <2>1, <2>2 DEF Init, TypeOK
<1>2. OneTransport
  <2> SUFFICES ASSUME NEW t \in Sockets, NEW s \in Sessions
               PROVE  active[s] = t <=> sockets[t].session = s
    BY DEF OneTransport
  <2>1. sockets[t].session = IF \E z \in Sessions : active[z] = t
                             THEN CHOOSE z \in Sessions : active[z] = t ELSE None
    BY DEF Init
  <2>2. \A z \in Sessions : active[s] = active[z] => s = z
    BY DEF Init
  <2>3. None # s
    BY TransportConstants
  <2>4. QED
    BY <2>1, <2>2, <2>3
<1>3. Attaching
  <2>1. Resumes = {}
    BY DEF Init, Resumes
  <2>2. \A t \in Sockets : sockets[t].open
    BY DEF Init
  <2>3. QED
    BY <2>1, <2>2 DEF Attaching
<1>4. PresenceKnown
  BY DEF Init, PresenceKnown, Absent
<1>5. Superseding /\ Begun
  BY DEF Init, Superseding, Begun
<1>6. QED
  BY <1>1, <1>2, <1>3, <1>4, <1>5 DEF TransportInvariant

\* Every step keeps the invariant.
LEMMA TransportStep ==
  ASSUME TransportInvariant, [Next]_vars
  PROVE  TransportInvariant'
BY TypeStep, AttachmentStep, PresenceStep, SupersedingStep, BegunStep DEF TransportInvariant

\* Whatever closes, resumes or ends while operations wait: sockets and registry
\* agree, a socket that waits for its resume speaks for nobody, the game knows
\* who is present, and a queued command of the current epoch is of the newest
\* resume.
THEOREM TransportInvariantHolds == Spec => []TransportInvariant
<1>1. Init => TransportInvariant
  BY TransportInitially
<1>2. TransportInvariant /\ [Next]_vars => TransportInvariant'
  BY TransportStep
<1>3. QED
  BY <1>1, <1>2, PTL DEF Spec

\* No two open sockets ever speak for one session, and none for two.
THEOREM OneTransportPerSession == Spec => [](TypeOK /\ OneTransport)
<1>1. TransportInvariant => TypeOK /\ OneTransport
  BY DEF TransportInvariant
<1>2. QED
  BY <1>1, TransportInvariantHolds, PTL

\* The only step that moves the game is a command that begins with everybody
\* present.
LEMMA OnlyCommandsMove ==
  ASSUME TypeOK, [Next]_vars, game'.version # game.version
  PROVE  BeginCommand
<1>g. game \in [latch : BOOLEAN, absent : SUBSET Sessions, version : Nat]
  BY DEF TypeOK
<1>1. ASSUME NEW status, SynchronizePresence(status)
      PROVE  game'.version = game.version
  BY <1>g, <1>1 DEF SynchronizePresence
<1>2. ASSUME game' = game \/ game' = [game EXCEPT !.latch = TRUE]
      PROVE  game'.version = game.version
  BY <1>g, <1>2
<1>3. ASSUME NEW s, MarkDisconnected(s)
      PROVE  game'.version = game.version
  BY <1>2, <1>3 DEF MarkDisconnected
<1>4. ASSUME NEW s, Expire(s)
      PROVE  game'.version = game.version
  BY <1>1, <1>2, <1>4 DEF Expire, pause
<1>5. ASSUME NEW t \in Sockets, NEW s \in Sessions, RequestResume(t, s)
      PROVE  game'.version = game.version
  BY <1>2, <1>5 DEF RequestResume
<1>6. ASSUME NEW t \in Sockets, Connect(t) \/ SendCommand(t) \/ LoseSocket(t)
      PROVE  game'.version = game.version
  BY <1>2, <1>3, <1>6 DEF Connect, SendCommand, LoseSocket, pause
<1>7. ASSUME NEW s \in Sessions, EndGrace(s)
      PROVE  game'.version = game.version
  BY <1>2, <1>7 DEF EndGrace, pause
<1>8. ASSUME \/ Finish \/ RefuseAttachment \/ AbandonAttachment \/ AttachSession \/ UNCHANGED vars
             \/ BeginInvalidResume \/ RefuseCommand
      PROVE  game'.version = game.version
  BY <1>2, <1>3, <1>8 DEF Finish, RefuseAttachment, AbandonAttachment, AttachSession, vars, pause,
     BeginInvalidResume, RefuseCommand
<1>9. ASSUME BeginResume \/ BeginLateResume \/ BeginDisconnect \/ BeginExpire
      PROVE  game'.version = game.version
  BY <1>1, <1>2, <1>4, <1>9 DEF BeginResume, BeginLateResume, BeginDisconnect, BeginExpire, pause
<1>10. QED
  BY <1>5, <1>6, <1>7, <1>8, <1>9 DEF Next

\* The game advances only while the Room shows every Human connected, although
\* it reads its own copy of who is absent.
THEOREM AdvancesWithEveryone == Spec => ProgressNeedsEveryone
<1>1. ASSUME TransportInvariant, [Next]_vars, game'.version # game.version
      PROVE  \A s \in Sessions : seats[s] = "CONNECTED"
  <2>1. TypeOK /\ PresenceKnown /\ BeginCommand
    BY <1>1, OnlyCommandsMove DEF TransportInvariant
  <2>2. live /\ game.absent = {}
    BY <2>1, BeginFacts DEF BeginCommand
  <2>3. QED
    BY <2>1, <2>2 DEF PresenceKnown, Absent
<1>2. TransportInvariant /\ [Next]_vars
        => [game'.version # game.version => \A s \in Sessions : seats[s] = "CONNECTED"]_vars
  BY <1>1
<1>3. QED
  BY <1>2, TransportInvariantHolds, PTL DEF Spec, ProgressNeedsEveryone

\* From the moment a valid resume arrives no command of an older transport
\* takes effect, however long it has been in the queue.
THEOREM ResumesSupersede == Spec => ResumeSupersedes
<1>1. ASSUME TransportInvariant, [Next]_vars, game'.version # game.version
      PROVE  Head(queue).newest = newest[Head(queue).session]
  <2>1. TypeOK /\ Superseding /\ BeginCommand
    BY <1>1, OnlyCommandsMove DEF TransportInvariant
  <2>2. 1 \in 1..Len(queue) /\ Head(queue) = queue[1] /\ queue[1].kind = "command"
    BY <2>1, BeginFacts DEF BeginCommand
  <2>3. epoch[queue[1].session] = queue[1].mark
    BY <2>1, <2>2 DEF BeginCommand, Authorized
  <2>4. QED
    BY <2>1, <2>2, <2>3 DEF Superseding
<1>2. TransportInvariant /\ [Next]_vars
        => [game'.version # game.version => Head(queue).newest = newest[Head(queue).session]]_vars
  BY <1>1
<1>3. QED
  BY <1>2, TransportInvariantHolds, PTL DEF Spec, ResumeSupersedes

-----------------------------------------------------------------------------
(* What is still to notice a loss, and what is still to release the latch.  *)

\* Operations that wait go on waiting when another joins them, which then
\* waits too.
LEMMA WaitingKept ==
  ASSUME TypeOK, Begun, running' = running, NEW op \in OpType,
         queue' = queue \/ queue' = Append(queue, op)
  PROVE  /\ \A i \in Waiting : i \in Waiting' /\ queue'[i] = queue[i]
         /\ queue' = Append(queue, op) => \E i \in Waiting' : queue'[i] = op
<1>1. PICK n \in Nat : n = Len(queue)
  BY DEF TypeOK
<1>2. CASE queue' = queue
  <2>1. queue # Append(queue, op)
    BY <1>1, AppendQueue
  <2>2. QED
    BY <1>2, <2>1 DEF Waiting
<1>3. CASE queue' = Append(queue, op)
  <2>1. Len(queue') = n + 1 /\ queue'[n + 1] = op /\ \A i \in 1..n : queue'[i] = queue[i]
    BY <1>1, <1>3, AppendQueue
  <2>2. n = 0 => running = None
    <3>1. queue \in Seq(OpType)
      BY DEF TypeOK
    <3>2. n = 0 => queue = <<>>
      BY <1>1, <3>1, EmptySeq
    <3>3. QED
      BY <3>2 DEF Begun
  <2>3. n + 1 \in Waiting'
    BY <2>1, <2>2 DEF Waiting
  <2>4. \A i \in Waiting : i \in Waiting' /\ queue'[i] = queue[i]
    BY <1>1, <2>1 DEF Waiting
  <2>5. QED
    BY <2>1, <2>3, <2>4
<1>4. QED
  BY <1>2, <1>3

\* Only the operation that begins stops waiting.
LEMMA WaitingBegins ==
  ASSUME TypeOK, Begins
  PROVE  /\ \A i \in Waiting \ {1} : i \in Waiting'
         /\ queue' = queue /\ 1 \in Waiting
BY BeginsFacts DEF Waiting

\* When the first operation is committed the others move up.
LEMMA WaitingMoves ==
  ASSUME TypeOK, Begun, Finish
  PROVE  \A i \in Waiting : i - 1 \in Waiting' /\ queue'[i - 1] = queue[i]
<1>1. PICK n \in Nat : n = Len(queue) /\ n >= 1
  BY TailQueue
<1>2. Len(queue') = n - 1 /\ \A i \in 1..(n - 1) : queue'[i] = queue[i + 1]
  BY <1>1, TailQueue
<1>3. running # None /\ running' = None
  BY DEF Finish
<1>4. \A i \in Waiting : i \in 2..n
  BY <1>1, <1>3 DEF Waiting
<1>5. \A i \in 2..n : i - 1 \in 1..(n - 1) /\ (i - 1) + 1 = i
  OBVIOUS
<1>6. \A j \in 1..(n - 1) : j \in Waiting'
  BY <1>2, <1>3 DEF Waiting
<1>7. QED
  BY <1>2, <1>4, <1>5, <1>6

\* With a position left for it, the loss of a member's transport is queued.
LEMMA LossQueued ==
  ASSUME TypeOK, Begun, ControlFits, NEW s \in Sessions, MarkDisconnected(s), running' = running
  PROVE  /\ \A i \in Waiting : i \in Waiting' /\ queue'[i] = queue[i]
         /\ refused' = refused
         /\ \/ ~Member(s) /\ game' = game
            \/ \E i \in Waiting' : queue'[i].kind = "disconnect" /\ queue'[i].session = s
<1>1. losses + 1 \in Nat
  BY DEF TypeOK
<1>2. PICK op \in OpType : op = Op("disconnect", s, None, losses + 1) /\ op.kind = "disconnect" /\ op.session = s
  <2>1. Op("disconnect", s, None, losses + 1) \in OpType
    BY <1>1, OpTyped
  <2>2. /\ Op("disconnect", s, None, losses + 1).kind = "disconnect"
        /\ Op("disconnect", s, None, losses + 1).session = s
    BY DEF Op
  <2>3. QED
    BY <2>1, <2>2
<1>3. Admits("disconnect")
  BY DEF ControlFits, Admits, Control
<1>4. \/ ~Member(s) /\ game' = game /\ queue' = queue
      \/ Member(s) /\ queue' = Append(queue, op)
  BY <1>2, <1>3 DEF MarkDisconnected, Enqueue
<1>5. QED
  BY <1>2, <1>4, WaitingKept DEF MarkDisconnected

\* While control operations find room, every step keeps what a pause needs.
LEMMA PauseStep ==
  ASSUME TransportInvariant, ControlFits, PauseHeld, [Next]_vars
  PROVE  PauseHeld'
<1>0. TypeOK /\ Begun
  BY DEF TransportInvariant
<1>g. game \in [latch : BOOLEAN, absent : SUBSET Sessions, version : Nat]
  BY <1>0 DEF TypeOK
<1> DEFINE Kept == \A i \in Waiting : i \in Waiting' /\ queue'[i] = queue[i]
<1>1. ASSUME live' => live, game'.latch => game.latch, refused => refused', seats' = seats, Kept
      PROVE  PauseHeld'
  BY <1>1 DEF PauseHeld
<1>2. ASSUME \E i \in Waiting' : queue'[i].kind \in {"resume", "disconnect"}
      PROVE  PauseHeld'
  BY <1>2 DEF PauseHeld
<1>3. ASSUME queue' = queue, running' = running
      PROVE  Kept
  BY <1>3 DEF Waiting
<1>4. ASSUME NEW t \in Sockets, NEW s \in Sessions, RequestResume(t, s)
      PROVE  PauseHeld'
  <2>1. PICK op \in OpType : op = Op("resume", s, t, 0) /\ op.kind = "resume"
    <3>1. Op("resume", s, t, 0) \in OpType
      BY <1>0, OpTyped
    <3>2. Op("resume", s, t, 0).kind = "resume"
      BY DEF Op
    <3>3. QED
      BY <3>1, <3>2
  <2>2. /\ UNCHANGED <<live, seats, running>>
        /\ \/ queue' = Append(queue, op)
           \/ queue' = queue /\ refused' = (refused \/ Member(s))
        /\ ~Member(s) => game' = game
    BY <1>4, <2>1 DEF RequestResume, Enqueue, room
  <2>3. CASE queue' = Append(queue, op)
    BY <1>0, <1>2, <2>1, <2>2, <2>3, WaitingKept, ZenonT(40)
  <2>4. CASE queue' = queue /\ Member(s) /\ refused'
    BY <2>4 DEF PauseHeld
  <2>5. CASE queue' = queue /\ ~Member(s) /\ (refused => refused')
    BY <1>1, <1>3, <2>2, <2>5
  <2>6. QED
    BY <2>2, <2>3, <2>4, <2>5
<1>5. ASSUME NEW t \in Sockets, Connect(t)
      PROVE  PauseHeld'
  BY <1>1, <1>3, <1>5 DEF Connect, room, pause
<1>6. ASSUME NEW t \in Sockets, SendCommand(t)
      PROVE  PauseHeld'
  <2>1. UNCHANGED <<live, seats, game, refused, running>>
    BY <1>6 DEF SendCommand, room, pause
  <2>2. ~Finish /\ (queue' = queue \/ \E op \in OpType : queue' = Append(queue, op))
    <3>1. ~Finish
      BY <1>6 DEF SendCommand, Event, Finish
    <3>2. QED
      BY <1>0, <3>1, QueueStep
  <2>3. Kept
    BY <1>0, <1>3, <2>1, <2>2, WaitingKept
  <2>4. QED
    BY <1>1, <2>1, <2>3
<1>7. ASSUME NEW s \in Sessions, MarkDisconnected(s), UNCHANGED <<live, room, running>>
      PROVE  PauseHeld'
  <2>1. /\ Kept /\ refused' = refused /\ seats' = seats
        /\ \/ game' = game
           \/ \E i \in Waiting' : queue'[i].kind = "disconnect" /\ queue'[i].session = s
    BY <1>0, <1>7, LossQueued DEF room
  <2>2. QED
    BY <1>1, <1>2, <1>7, <2>1
<1>8. ASSUME NEW t \in Sockets, LoseSocket(t)
      PROVE  PauseHeld'
  <2>1. /\ UNCHANGED <<live, room, running>>
        /\ \/ UNCHANGED <<pause, queue>>
           \/ \E s \in Sessions : MarkDisconnected(s)
    <3>1. sockets[t].session \in Sessions \cup {None}
      BY <1>0 DEF TypeOK
    <3>2. QED
      BY <1>8, <3>1 DEF LoseSocket, pause
  <2>2. QED
    BY <1>1, <1>3, <1>7, <2>1 DEF room, pause
<1>9. CASE AbandonAttachment
  <2>1. UNCHANGED <<live, room, running>> /\ settled.session \in Sessions /\ MarkDisconnected(settled.session)
    BY <1>0, <1>9 DEF AbandonAttachment, TypeOK
  <2>2. QED
    BY <1>7, <2>1
<1>10. ASSUME NEW s \in Sessions, EndGrace(s)
       PROVE  PauseHeld'
  <2>1. /\ UNCHANGED <<seats, game, refused, running>>
        /\ \/ queue' = Append(queue, Op("expire", s, None, deadline[s])) /\ live' = live
           \/ ~live'
    BY <1>10 DEF EndGrace, Enqueue, pause
  <2>2. PICK op \in OpType : op = Op("expire", s, None, deadline[s])
    BY <1>0, OpTyped DEF TypeOK
  <2>3. CASE queue' = Append(queue, op)
    <3>1. Kept
      BY <1>0, <2>1, <2>3, WaitingKept
    <3>2. QED
      BY <1>1, <1>10, <2>1, <3>1 DEF PauseHeld
  <2>4. CASE ~live'
    BY <2>4 DEF PauseHeld
  <2>5. QED
    BY <2>1, <2>2, <2>3, <2>4
<1>11. CASE RefuseAttachment \/ AttachSession \/ UNCHANGED vars
  BY <1>1, <1>3, <1>11 DEF RefuseAttachment, AttachSession, room, pause, vars
<1>12. CASE Finish
  <2>1. UNCHANGED <<live, seats, game, refused>>
    BY <1>12 DEF Finish, room, pause
  <2>2. \A i \in Waiting : \E j \in Waiting' : queue'[j] = queue[i]
    BY <1>0, <1>12, WaitingMoves
  <2>3. QED
    BY <2>1, <2>2 DEF PauseHeld
<1>13. ASSUME NEW status, SynchronizePresence(status)
       PROVE  PauseHeld'
  <2>1. game'.latch = FALSE
    BY <1>g, <1>13 DEF SynchronizePresence
  <2>2. QED
    BY <2>1 DEF PauseHeld
<1>14. CASE Begins
  <2>1. /\ \A i \in Waiting \ {1} : i \in Waiting'
        /\ queue' = queue
        /\ Head(queue) = queue[1] /\ queue[1].session \in Sessions
    <3>1. 1 \in 1..Len(queue) /\ queue \in Seq(OpType)
      BY <1>0, <1>14, BeginsFacts DEF TypeOK
    <3>2. queue[1] \in OpType /\ Head(queue) = queue[1]
      BY <3>1
    <3>3. QED
      BY <1>0, <1>14, <3>2, WaitingBegins DEF OpType
  <2>2. ASSUME live' => live, game'.latch => game.latch, refused => refused', seats' = seats,
               \/ Head(queue).kind \in {"expire", "command"}
               \/ \E s \in Sessions : seats[s] # "CONNECTED"
        PROVE  PauseHeld'
    <3>1. CASE Head(queue).kind \in {"expire", "command"}
      <4>1. \A i \in Waiting : queue[i].kind \in {"resume", "disconnect"} => i # 1
        BY <2>1, <3>1
      <4>2. \A i \in Waiting : queue[i].kind \in {"resume", "disconnect"} => i \in Waiting' /\ queue'[i] = queue[i]
        BY <2>1, <4>1
      <4>3. QED
        BY <2>2, <4>2 DEF PauseHeld
    <3>2. CASE \E s \in Sessions : seats[s] # "CONNECTED"
      BY <2>2, <3>2 DEF PauseHeld
    <3>3. QED
      BY <2>2, <3>1, <3>2
  <2>3. CASE BeginResume
    BY <1>13, <2>3 DEF BeginResume
  <2>4. ASSUME NEW s, Expire(s)
        PROVE  PauseHeld'
    <3>1. CASE ~live'
      BY <3>1 DEF PauseHeld
    <3>2. CASE SynchronizePresence(seats')
      BY <1>13, <3>2
    <3>3. QED
      BY <2>4, <3>1, <3>2 DEF Expire
  <2>5. CASE BeginLateResume
    BY <2>4, <2>5 DEF BeginLateResume
  <2>6. CASE BeginExpire
    <3>1. CASE Expire(Head(queue).session)
      BY <2>4, <3>1
    <3>2. CASE UNCHANGED <<live, room, pause>>
      BY <2>2, <2>6, <3>2 DEF BeginExpire, Begin, room, pause
    <3>3. QED
      BY <2>6, <3>1, <3>2 DEF BeginExpire
  <2>7. CASE BeginInvalidResume
    <3>1. seats[Head(queue).session] # "CONNECTED"
      BY <2>7 DEF BeginInvalidResume, Member
    <3>2. QED
      BY <2>1, <2>2, <2>7, <3>1 DEF BeginInvalidResume, room, pause
  <2>8. CASE BeginDisconnect
    <3>1. CASE SynchronizePresence(seats')
      BY <1>13, <3>1
    <3>2. CASE ~SynchronizePresence(seats')
      <4>1. seats[Head(queue).session] # "CONNECTED" /\ UNCHANGED <<live, room, pause>>
        BY <2>8, <3>2 DEF BeginDisconnect
      <4>2. QED
        BY <2>1, <2>2, <4>1 DEF room, pause
    <3>3. QED
      BY <3>1, <3>2
  <2>9. CASE BeginCommand
    <3>1. /\ UNCHANGED <<live, seats, refused>> /\ Head(queue).kind = "command"
          /\ game' = [game EXCEPT !.version = @ + 1]
      BY <2>9 DEF BeginCommand, Begin, room
    <3>2. game'.latch = game.latch
      BY <1>g, <3>1
    <3>3. QED
      BY <2>2, <3>1, <3>2
  <2>10. CASE RefuseCommand
    BY <2>2, <2>10 DEF RefuseCommand, Begin, room, pause
  <2>11. QED
    BY <1>14, <2>3, <2>5, <2>6, <2>7, <2>8, <2>9, <2>10 DEF Begins
<1>15. QED
  BY <1>4, <1>5, <1>6, <1>8, <1>9, <1>10, <1>11, <1>12, <1>14 DEF Next, Begins

\* As long as every disconnect finds a position, the pause ends: with everybody
\* connected and nothing queued the latch is released, unless a resume was
\* turned away by a full queue.
THEOREM PauseEndsWhenAllConnected == Spec /\ []ControlFits => []PauseEnds
<1>1. Init => PauseHeld
  BY DEF Init, PauseHeld
<1>2. TransportInvariant /\ PauseHeld /\ ControlFits /\ [Next]_vars => PauseHeld'
  BY PauseStep
<1>3. TransportInvariant /\ PauseHeld => PauseEnds
  BY DEF PauseHeld, PauseEnds, Idle, Waiting
<1>4. QED
  BY <1>1, <1>2, <1>3, TransportInvariantHolds, PTL DEF Spec

\* An operation that found its Room is not None.
LEMMA FoundIsSome == [found |-> TRUE] # None
<1>1. [found |-> TRUE] \in [found : BOOLEAN]
  OBVIOUS
<1>2. QED
  BY <1>1, TransportConstants

\* A connected seat never loses its transport unnoticed: the operation that
\* notices is queued at once, or the resume that has reconnected the seat is
\* still to attach its socket.
LEMMA LossStep ==
  ASSUME TransportInvariant, ControlFits, LossNoticed, [Next]_vars
  PROVE  LossNoticed'
<1>0. TypeOK /\ Begun
  BY DEF TransportInvariant
<1>k. \A kind, z, t, mark : Op(kind, z, t, mark).kind = kind
  BY DEF Op
<1>t. /\ active \in [Sessions -> Sockets \cup {None}] /\ None \notin Sockets
      /\ seats \in [Sessions -> {"CONNECTED", "RECONNECTING", "DISCONNECTED"}]
  BY <1>0, TransportConstants DEF TypeOK
<1> DEFINE Kept == \A i \in Waiting : i \in Waiting' /\ queue'[i] = queue[i]
           Due(s) == \E i \in Waiting : queue[i].kind = "disconnect" /\ queue[i].session = s
           Taking(s) == running = [found |-> TRUE] /\ Head(queue).kind = "resume" /\ Head(queue).session = s
           Settling(s) == settled # None /\ settled.found /\ settled.session = s
<1>h. \A s \in Sessions : live /\ seats[s] = "CONNECTED" /\ active[s] = None => Due(s) \/ Taking(s) \/ Settling(s)
  BY DEF LossNoticed
<1>i. ASSUME \A s \in Sessions : live' /\ seats'[s] = "CONNECTED" /\ active'[s] = None
                                    => Due(s)' \/ Taking(s)' \/ Settling(s)'
      PROVE  LossNoticed'
  BY <1>i DEF LossNoticed
<1>q. ASSUME running # None PROVE queue # <<>>
  BY <1>0, <1>q DEF Begun
<1>r. [found |-> TRUE] # None
  BY FoundIsSome
\* An operation that joins the queue is not at its head while one runs.
<1>1. ASSUME Kept, queue' = queue \/ (\E op \in OpType : queue' = Append(queue, op)), running' = running,
             settled' = settled, live' => live, UNCHANGED seats,
             \A s \in Sessions : active'[s] = None => active[s] = None \/ seats[s] # "CONNECTED" \/ Due(s)'
      PROVE  LossNoticed'
  <2>1. ASSUME NEW s, Taking(s)
        PROVE  Taking(s)'
    <3>1. queue # <<>> /\ queue \in Seq(OpType)
      BY <1>0, <1>q, <1>r, <2>1 DEF TypeOK
    <3>2. Head(queue') = Head(queue)
      BY <1>1, <3>1
    <3>3. QED
      BY <1>1, <2>1, <3>2
  <2>2. ASSUME NEW s, Due(s)
        PROVE  Due(s)'
    BY <1>1, <2>2
  <2>3. ASSUME NEW s, Settling(s)
        PROVE  Settling(s)'
    BY <1>1, <2>3
  <2> HIDE DEF Due, Taking, Settling
  <2>4. QED
    BY <1>1, <1>h, <1>i, <2>1, <2>2, <2>3
<1> HIDE DEF Taking, Settling
<1>2. ASSUME NEW op \in OpType, queue' = Append(queue, op), running' = running
      PROVE  Kept
  BY <1>0, <1>2, WaitingKept
<1>3. ASSUME queue' = queue, running' = running
      PROVE  Kept
  BY <1>3 DEF Waiting
<1>4. ASSUME queue' = queue \/ (\E op \in OpType : queue' = Append(queue, op)), running' = running,
             settled' = settled, live' => live, UNCHANGED <<active, seats>>
      PROVE  LossNoticed'
  <2>1. Kept
    BY <1>2, <1>3, <1>4
  <2> HIDE DEF Kept, Due
  <2>2. QED
    BY <1>1, <1>4, <2>1
<1>5. ASSUME ~Finish
      PROVE  queue' = queue \/ (\E op \in OpType : queue' = Append(queue, op))
  BY <1>0, <1>5, QueueStep
<1>6. ASSUME NEW t \in Sockets, NEW s \in Sessions, RequestResume(t, s)
      PROVE  LossNoticed'
  <2>1. UNCHANGED <<live, active, seats, running, settled>> /\ ~Finish
    BY <1>6 DEF RequestResume, Event, Finish, room
  <2>2. QED
    BY <1>4, <1>5, <2>1
<1>7. ASSUME NEW t \in Sockets, Connect(t) \/ SendCommand(t)
      PROVE  LossNoticed'
  <2>1. UNCHANGED <<live, active, seats, running, settled>>
    BY <1>7 DEF Connect, SendCommand, room
  <2>2. ~Finish
    BY <2>1 DEF Finish
  <2>3. QED
    BY <1>4, <1>5, <2>1, <2>2
<1>8. ASSUME NEW s \in Sessions, EndGrace(s)
      PROVE  LossNoticed'
  <2>1. UNCHANGED <<active, seats, running, settled>>
    BY <1>8 DEF EndGrace
  <2>2. (live' => live) /\ ~Finish
    BY <1>8, <2>1 DEF EndGrace, Event, Finish
  <2>3. QED
    BY <1>4, <1>5, <2>1, <2>2
<1>9. ASSUME NEW t \in Sockets, LoseSocket(t)
      PROVE  LossNoticed'
  <2>1. PICK s \in Sessions \cup {None} : s = sockets[t].session
    BY <1>0 DEF TypeOK
  <2>2. /\ UNCHANGED <<live, seats, running, settled>>
        /\ \/ /\ s \in Sessions /\ active' = [active EXCEPT ![s] = None] /\ MarkDisconnected(s)
           \/ UNCHANGED <<active, queue>>
    BY <1>9, <2>1 DEF LoseSocket, room
  <2>3. ~Finish
    BY <2>2 DEF Finish
  <2>4. CASE UNCHANGED <<active, queue>>
    BY <1>4, <2>2, <2>4
  <2>5. CASE s \in Sessions /\ active' = [active EXCEPT ![s] = None] /\ MarkDisconnected(s)
    <3>1. Kept /\ (~Member(s) \/ Due(s)')
      BY <1>0, <2>2, <2>5, LossQueued
    <3>2. \A z \in Sessions : active'[z] = None => active[z] = None \/ seats[z] # "CONNECTED" \/ Due(z)'
      <4> SUFFICES ASSUME NEW z \in Sessions, active'[z] = None
                   PROVE  active[z] = None \/ seats[z] # "CONNECTED" \/ Due(z)'
        OBVIOUS
      <4> HIDE DEF Due, Kept
      <4>1. CASE z = s
        BY <3>1, <4>1 DEF Member
      <4>2. CASE z # s
        BY <1>t, <2>5, <4>2
      <4>3. QED
        BY <4>1, <4>2
    <3>3. queue' = queue \/ (\E op \in OpType : queue' = Append(queue, op))
      BY <1>5, <2>3
    <3> HIDE DEF Due, Kept
    <3>4. QED
      BY <1>1, <2>2, <3>1, <3>2, <3>3
  <2>6. QED
    BY <2>2, <2>4, <2>5
<1>10. CASE RefuseAttachment \/ AttachSession
  <2>1. PICK z \in Sessions, t \in Sockets : settled # None /\ z = settled.session /\ t = settled.socket
    BY <1>0, <1>10 DEF TypeOK, RefuseAttachment, AttachSession
  <2>2. UNCHANGED <<live, seats, running, queue>>
    BY <1>10 DEF RefuseAttachment, AttachSession, room
  <2>3. /\ \/ ~settled.found /\ active' = active
           \/ active' = [active EXCEPT ![z] = t]
    BY <1>10, <2>1 DEF RefuseAttachment, AttachSession
  <2>4. \A s \in Sessions : active'[s] = None => active[s] = None /\ (settled.found => s # z)
    BY <1>t, <2>3
  <2>5. \A s \in Sessions : active'[s] = None => active[s] = None /\ ~Settling(s)
    BY <2>1, <2>4 DEF Settling
  <2>6. \A s \in Sessions : (Due(s) => Due(s)') /\ (Taking(s) => Taking(s)')
    BY <2>2 DEF Waiting, Taking
  <2> HIDE DEF Due
  <2>7. QED
    BY <1>h, <1>i, <2>2, <2>5, <2>6
<1>11. CASE AbandonAttachment
  <2>1. PICK z \in Sessions : settled # None /\ z = settled.session /\ MarkDisconnected(z)
    BY <1>0, <1>11 DEF AbandonAttachment, TypeOK
  <2>2. UNCHANGED <<live, seats, active, running>>
    BY <1>11 DEF AbandonAttachment, room
  <2>3. Kept /\ (~Member(z) \/ Due(z)')
    BY <1>0, <2>1, <2>2, LossQueued
  <2>4. \A s \in Sessions : Settling(s) => s = z
    BY <2>1 DEF Settling
  <2>5. \A s \in Sessions : Due(s) => Due(s)'
    BY <2>3
  <2>6. ASSUME NEW s \in Sessions, Taking(s)
        PROVE  Taking(s)'
    <3>1. queue # <<>> /\ queue \in Seq(OpType)
      BY <1>0, <1>q, <1>r, <2>6 DEF TypeOK, Taking
    <3>2. ~Finish
      BY <2>1 DEF Finish
    <3>3. Head(queue') = Head(queue)
      BY <1>5, <3>1, <3>2
    <3>4. QED
      BY <2>2, <2>6, <3>3 DEF Taking
  <2> HIDE DEF Due, Kept
  <2>7. QED
    BY <1>h, <1>i, <2>2, <2>3, <2>4, <2>5, <2>6 DEF Member
<1>12. CASE UNCHANGED vars
  BY <1>4, <1>12 DEF vars
<1>13. CASE Finish
  <2>1. UNCHANGED <<live, seats, active>> /\ settled = None /\ running # None
    BY <1>13 DEF Finish, room
  <2>2. \A s \in Sessions : Due(s) => Due(s)'
    <3>1. \A i \in Waiting : \E j \in Waiting' : queue'[j] = queue[i]
      BY <1>0, <1>13, WaitingMoves
    <3>2. QED
      BY <3>1
  <2>3. ASSUME NEW s \in Sessions, Taking(s)
        PROVE  Settling(s)'
    <3>1. running = [found |-> TRUE] /\ Head(queue).kind = "resume" /\ Head(queue).session = s
      BY <2>3 DEF Taking
    <3>2. settled' = [session |-> s, socket |-> Head(queue).socket, found |-> TRUE]
      BY <1>13, <3>1 DEF Finish
    <3>3. settled' # None
      <4>1. TypeOK' /\ Attaching
        BY TypeStep DEF TransportInvariant
      <4>2. 1 \in 1..Len(queue) /\ Head(queue) = queue[1]
        BY <1>0, <1>13, TailQueue
      <4>3. 1 \in Resumes /\ SocketOf(1) = Head(queue).socket
        BY <3>1, <4>2 DEF Resumes, SocketOf
      <4>4. Head(queue).socket \in Sockets
        BY <4>1, <4>3 DEF Attaching
      <4>5. settled' \in [session : Sessions, socket : Sockets, found : BOOLEAN]
        BY <3>2, <4>4
      <4>6. QED
        BY <4>5, TransportConstants
    <3>4. QED
      BY <3>2, <3>3 DEF Settling
  <2>4. \A s \in Sessions : ~Settling(s)
    BY <2>1 DEF Settling
  <2> HIDE DEF Due
  <2>5. QED
    BY <1>h, <1>i, <2>1, <2>2, <2>3, <2>4
<1>14. CASE Begins
  <2>1. /\ live /\ running = None /\ UNCHANGED <<active, queue, settled>>
        /\ \A i \in Waiting \ {1} : i \in Waiting'
    BY <1>0, <1>14, BeginsFacts, WaitingBegins
  <2>2. Head(queue) = queue[1] /\ queue[1].session \in Sessions
    <3>1. 1 \in 1..Len(queue) /\ queue \in Seq(OpType)
      BY <1>0, <1>14, BeginsFacts DEF TypeOK
    <3>2. queue[1] \in OpType /\ Head(queue) = queue[1]
      BY <3>1
    <3>3. QED
      BY <3>2 DEF OpType
  <2>3. PICK z \in Sessions : z = Head(queue).session
    BY <2>2
  <2>4. \A s \in Sessions : ~Taking(s) /\ (Settling(s) => Settling(s)')
    BY <1>r, <2>1 DEF Taking, Settling
  <2>5. \A s \in Sessions : Due(s) => Due(s)' \/ (s = z /\ Head(queue).kind = "disconnect")
    BY <2>1, <2>2, <2>3
  <2>6. \A s \in Sessions : s # z => seats'[s] = seats[s] \/ ~live'
    BY <1>14, <1>t, <2>3 DEF Begins, BeginResume, BeginLateResume, BeginInvalidResume, BeginDisconnect, BeginExpire,
       BeginCommand, RefuseCommand, Expire, room
  <2>7. live' /\ seats'[z] = "CONNECTED" =>
          \/ Taking(z)'
          \/ seats[z] = "CONNECTED" /\ Head(queue).kind # "disconnect"
    <3>1. CASE BeginResume
      BY <2>1, <2>3, <3>1 DEF BeginResume, Begin, Taking
    <3>2. CASE BeginDisconnect
      BY <1>t, <2>3, <3>2 DEF BeginDisconnect, room
    <3>3. CASE BeginLateResume \/ BeginExpire
      BY <1>t, <2>3, <3>3 DEF BeginLateResume, BeginExpire, Begin, Expire, room
    <3>4. CASE BeginInvalidResume \/ BeginCommand \/ RefuseCommand
      BY <2>3, <3>4 DEF BeginInvalidResume, BeginCommand, RefuseCommand, Begin, room
    <3>5. QED
      BY <1>14, <3>1, <3>2, <3>3, <3>4 DEF Begins
  <2> HIDE DEF Due
  <2>8. QED
    BY <1>h, <1>i, <2>1, <2>4, <2>5, <2>6, <2>7
<1>15. QED
  BY <1>6, <1>7, <1>8, <1>9, <1>10, <1>11, <1>12, <1>13, <1>14 DEF Next, Begins

\* As long as every disconnect finds a position, the registry, the sockets and
\* the seats agree: whatever closes while a resume waits, no seat is left
\* connected without a transport and without an operation that will notice.
THEOREM AttachmentsAlwaysAgree == Spec /\ []ControlFits => []AttachmentsAgree
<1>1. Init => LossNoticed
  BY TransportConstants DEF Init, LossNoticed
<1>2. TransportInvariant /\ LossNoticed /\ ControlFits /\ [Next]_vars => LossNoticed'
  BY LossStep
<1>3. TransportInvariant /\ LossNoticed => AttachmentsAgree
  <2> SUFFICES ASSUME TransportInvariant, LossNoticed
               PROVE  AttachmentsAgree
    OBVIOUS
  <2>1. NoOrphanSeat
    <3> SUFFICES ASSUME Idle, NEW s \in Sessions, seats[s] = "CONNECTED", active[s] = None
                 PROVE  FALSE
      BY DEF NoOrphanSeat
    <3>1. Waiting = {} /\ settled = None /\ running = None /\ live
      BY DEF Idle, Waiting
    <3>2. [found |-> TRUE] # None
      BY FoundIsSome
    <3>3. QED
      BY <3>1, <3>2 DEF LossNoticed
  <2>2. QED
    BY <2>1 DEF AttachmentsAgree, TransportInvariant
<1>4. QED
  BY <1>1, <1>2, <1>3, TransportInvariantHolds, PTL DEF Spec
=============================================================================
