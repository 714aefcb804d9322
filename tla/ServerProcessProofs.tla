------------------------ MODULE ServerProcessProofs ------------------------
(***************************************************************************)
(* Proofs about the server process, for any number of browsers, Room codes *)
(* and requests: what its shutdown waits for, which Room a write belongs   *)
(* to, and what its limiter lets through.                                  *)
(***************************************************************************)
EXTENDS ServerProcess, FiniteSetTheorems, SequenceTheorems, TLAPS

-----------------------------------------------------------------------------
(* The inductive invariant of the queues.                                  *)

OpType == [kind : {"create", "command", "leave", "lost"}, session : Nat, client : Clients \cup {None}]

ServerTypeOK ==
  /\ conns \in [Clients -> {"none", "handshake", "socket", "closing", "http"}]
  /\ created \in Nat /\ sessions \subseteq 1..created
  /\ who \in [Clients -> 1..created \cup {None}]
  /\ rooms \in [RoomCodes -> 1..created \cup {None}]
  /\ queues \in [RoomCodes -> Seq(OpType)] /\ saving \subseteq RoomCodes
  /\ stopping \in BOOLEAN /\ disposed \in BOOLEAN /\ awaited \in [RoomCodes -> Nat]
  /\ phase \in {"serving", "draining", "closing", "releasing", "ended"}
  /\ repository \in {"open", "closed"}

\* An operation of a session that exists waits in the queue of its Room.
AtHome ==
  \A r \in RoomCodes : \A i \in 1..Len(queues[r]) :
    /\ queues[r][i].session \in 1..created
    /\ queues[r][i].session \in sessions => rooms[r] = queues[r][i].session

\* Until a creation is done, nothing else is under way for its session: no
\* socket speaks for it, and it exists unless everything is disposed of.
Newborn ==
  \A r \in RoomCodes : \A i \in 1..Len(queues[r]) : queues[r][i].kind = "create" =>
    /\ disposed \/ queues[r][i].session \in sessions
    /\ \A c \in Clients : who[c] # queues[r][i].session
    /\ \A q \in RoomCodes : \A j \in 1..Len(queues[q]) :
         queues[q][j].session = queues[r][i].session => q = r /\ j = i

\* A session that exists has one Room, and no Room has two codes.
Housed ==
  /\ \A s \in sessions : \E r \in RoomCodes : rooms[r] = s
  /\ \A r, q \in RoomCodes : rooms[r] = rooms[q] /\ rooms[r] # None => r = q
  /\ Cardinality({r \in RoomCodes : rooms[r] # None}) <= MaxRooms

\* The first operation is the one that waits for its write; the session of
\* one that leaves is already gone, its Room not yet.
Written ==
  \A r \in saving :
    /\ queues[r] # <<>>
    /\ ~disposed => /\ rooms[r] = queues[r][1].session
                    /\ queues[r][1].kind = "leave" => queues[r][1].session \notin sessions

\* A shutdown waits for every write, and for every creation, which is the one
\* operation that may still begin a write.
Awaits ==
  stopping \/ disposed => \A r \in RoomCodes :
    /\ r \in saving => awaited[r] >= 1
    /\ ~disposed => \A i \in 1..Len(queues[r]) : queues[r][i].kind = "create" => i <= awaited[r]

\* Once nothing is awaited nothing is written, and nothing is awaited anew.
Closed ==
  /\ phase # "serving" <=> stopping
  /\ phase \in {"closing", "releasing", "ended"} => Drained
  /\ repository = "closed" => phase \in {"closing", "releasing", "ended"}
  /\ disposed => sessions = {} /\ \A r \in RoomCodes : rooms[r] = None

QueueInvariant == ServerTypeOK /\ AtHome /\ Newborn /\ Housed /\ Written /\ Awaits /\ Closed

-----------------------------------------------------------------------------
(* The inductive invariant of the limiter.                                 *)

Connect == <<"connect", Server>>

\* The buckets of a limiter belong to the server, which always has its own, to
\* browsers, and to the first n sessions.
Shaped(l, n) ==
  /\ DOMAIN l = {"buckets", "pruned", "disposed"}
  /\ DOMAIN l.buckets \subseteq (ServerUses \X {Server}) \cup (TransportUses \X Clients) \cup (SessionUses \X (1..n))
  /\ ServerUses \X {Server} \subseteq DOMAIN l.buckets

\* A socket has its buckets for as long as it is one, and the limiter is
\* disposed of after the last.
LimiterOK ==
  /\ now \in Nat
  /\ Shaped(limiter, created)
  /\ \A c \in Clients : conns[c] = "socket" => TransportUses \X {c} \subseteq DOMAIN limiter.buckets
  /\ limiter.disposed => phase = "ended"
  /\ phase \in {"closing", "releasing", "ended"} => \A c \in Clients : conns[c] \notin {"socket", "handshake"}

\* What the meter has counted since it started, and the tokens that are left,
\* fit into a full bucket and what was refilled meanwhile.
MeterOK ==
  LET b == limiter.buckets[Connect]
      full == Capacity["server"]["connect"]
      rate == Rate["server"]["connect"]
  IN  /\ b \in [tokens : Nat, updated : Nat]
      /\ meter \in [since : Nat, admitted : Nat] /\ meter.since <= now
      /\ b.updated <= now /\ b.tokens <= full
      /\ IF b.updated < meter.since THEN meter.admitted = 0
         ELSE meter.admitted + b.tokens <= full + rate * (b.updated - meter.since)

LimiterInvariant == LimiterOK /\ MeterOK /\ ~starved

-----------------------------------------------------------------------------
(* How queues change.                                                      *)

Same(op, o) == op.kind = o.kind /\ op.session = o.session

\* Room r's queue loses `d' operations in front; what may be new is one
\* operation behind, of the given kind and session.
Moves(r, d, kinds, s) ==
  /\ d \in {0, 1} /\ d <= Len(queues[r])
  /\ Len(queues'[r]) \in {Len(queues[r]) - d, Len(queues[r]) - d + 1}
  /\ \A j \in 1..(Len(queues[r]) - d) : Same(queues'[r][j], queues[r][j + d])
  /\ Len(queues'[r]) = Len(queues[r]) - d + 1 =>
       /\ queues'[r][Len(queues[r]) - d + 1].kind \in kinds
       /\ queues'[r][Len(queues[r]) - d + 1].session = s

\* Appending, and taking the first operation away.
LEMMA AppendMoves ==
  ASSUME NEW r \in RoomCodes, NEW op \in OpType, queues[r] \in Seq(OpType), queues'[r] = Append(queues[r], op)
  PROVE  Moves(r, 0, {op.kind}, op.session)
BY DEF Moves, Same

\* The first operation of a queue is done, and no other operation moves.
LEMMA TailMoves ==
  ASSUME NEW r \in RoomCodes, NEW kinds, NEW s, queues[r] \in Seq(OpType), queues[r] # <<>>,
         queues'[r] = Tail(queues[r])
  PROVE  Moves(r, 1, kinds, s)
BY DEF Moves, Same

\* A queue that stays is a queue that moves by nothing.
LEMMA StillMoves ==
  ASSUME NEW r \in RoomCodes, NEW kinds, NEW s, queues[r] \in Seq(OpType), queues'[r] = queues[r]
  PROVE  Moves(r, 0, kinds, s)
BY DEF Moves, Same

\* The first operation is done, and the one it gives rise to waits last.
LEMMA TailAppendMoves ==
  ASSUME NEW r \in RoomCodes, NEW op \in OpType, queues[r] \in Seq(OpType), queues[r] # <<>>,
         queues'[r] = Append(Tail(queues[r]), op)
  PROVE  Moves(r, 1, {op.kind}, op.session)
<1>1. /\ Tail(queues[r]) \in Seq(OpType) /\ Len(Tail(queues[r])) = Len(queues[r]) - 1 /\ Len(queues[r]) \in Nat
      /\ \A j \in 1..(Len(queues[r]) - 1) : Tail(queues[r])[j] = queues[r][j + 1]
      /\ Len(queues[r]) > 0
  OBVIOUS
<1>2. /\ Len(queues'[r]) = Len(queues[r])
      /\ \A j \in 1..(Len(queues[r]) - 1) : queues'[r][j] = queues[r][j + 1]
      /\ queues'[r][Len(queues[r])] = op
  BY <1>1
<1>3. QED
  BY <1>1, <1>2 DEF Moves, Same

\* What queues, Rooms and sockets may do in a step in which no Room is created.
LEMMA QueuesKeep ==
  ASSUME QueueInvariant, ServerTypeOK',
         NEW drop \in [RoomCodes -> {0, 1}], NEW new \in [RoomCodes -> Nat],
         created' = created, sessions' \subseteq sessions, disposed => disposed',
         \A r \in RoomCodes : rooms'[r] = rooms[r] \/ (rooms'[r] = None /\ rooms[r] \notin sessions'),
         \A s \in sessions' : \E r \in RoomCodes : rooms'[r] = s,
         \A r \in RoomCodes : Moves(r, drop[r], {"command", "leave", "lost"}, new[r]),
         \A r \in RoomCodes : Len(queues'[r]) = Len(queues[r]) - drop[r] + 1 =>
              /\ new[r] \in 1..created
              /\ new[r] \in sessions' => rooms'[r] = new[r]
              /\ \A q \in RoomCodes : \A i \in 1..Len(queues[q]) :
                   queues[q][i].kind = "create" /\ queues[q][i].session = new[r] => i <= drop[q],
         \A r \in RoomCodes : \A i \in 1..Len(queues[r]) :
              queues[r][i].kind = "create" /\ i > drop[r] =>
                /\ disposed' \/ queues[r][i].session \in sessions'
                /\ \A c \in Clients : who'[c] # queues[r][i].session
  PROVE  AtHome' /\ Newborn' /\ Housed'
<1> DEFINE old(r) == Len(queues[r])
<1>1. \A r \in RoomCodes : old(r) \in Nat /\ Len(queues'[r]) \in Nat /\ drop[r] \in {0, 1}
  BY DEF QueueInvariant, ServerTypeOK
<1>2. \A r \in RoomCodes : \A j \in 1..Len(queues'[r]) :
        \/ j + drop[r] \in 1..old(r) /\ Same(queues'[r][j], queues[r][j + drop[r]])
        \/ /\ j = old(r) - drop[r] + 1 /\ Len(queues'[r]) = j
           /\ queues'[r][j].session = new[r] /\ queues'[r][j].kind # "create"
  BY <1>1, SMTT(20) DEF Moves
<1>3. AtHome'
  <2> SUFFICES ASSUME NEW r \in RoomCodes, NEW j \in 1..Len(queues'[r])
               PROVE  /\ queues'[r][j].session \in 1..created'
                      /\ queues'[r][j].session \in sessions' => rooms'[r] = queues'[r][j].session
    BY DEF AtHome
  <2>1. CASE j + drop[r] \in 1..old(r) /\ Same(queues'[r][j], queues[r][j + drop[r]])
    <3>1. /\ queues[r][j + drop[r]].session \in 1..created
          /\ queues[r][j + drop[r]].session \in sessions => rooms[r] = queues[r][j + drop[r]].session
      BY <2>1 DEF QueueInvariant, AtHome
    <3>2. QED
      BY <2>1, <3>1 DEF Same
  <2>2. CASE j = old(r) - drop[r] + 1 /\ Len(queues'[r]) = j /\ queues'[r][j].session = new[r]
    BY <2>2
  <2>3. QED
    BY <1>2, <2>1, <2>2
<1>4. Newborn'
  <2> SUFFICES ASSUME NEW r \in RoomCodes, NEW j \in 1..Len(queues'[r]), queues'[r][j].kind = "create"
               PROVE  /\ disposed' \/ queues'[r][j].session \in sessions'
                      /\ \A c \in Clients : who'[c] # queues'[r][j].session
                      /\ \A q \in RoomCodes : \A k \in 1..Len(queues'[q]) :
                           queues'[q][k].session = queues'[r][j].session => q = r /\ k = j
    BY DEF Newborn
  <2> DEFINE i == j + drop[r]
  <2>1. i \in 1..old(r) /\ i > drop[r] /\ Same(queues'[r][j], queues[r][i]) /\ queues[r][i].kind = "create"
    BY <1>1, <1>2 DEF Same
  <2>2. /\ disposed' \/ queues[r][i].session \in sessions'
        /\ \A c \in Clients : who'[c] # queues[r][i].session
    BY <2>1
  <2>3. ASSUME NEW q \in RoomCodes, NEW k \in 1..Len(queues'[q]), queues'[q][k].session = queues'[r][j].session
        PROVE  q = r /\ k = j
    <3>1. CASE k + drop[q] \in 1..old(q) /\ Same(queues'[q][k], queues[q][k + drop[q]])
      <4>1. queues[q][k + drop[q]].session = queues[r][i].session
        BY <2>1, <2>3, <3>1 DEF Same
      <4>2. q = r /\ k + drop[q] = i
        BY <2>1, <3>1, <4>1 DEF QueueInvariant, Newborn
      <4>3. QED
        BY <1>1, <4>2
    <3>2. CASE k = old(q) - drop[q] + 1 /\ Len(queues'[q]) = k /\ queues'[q][k].session = new[q]
      <4>1. queues[r][i].session = new[q] /\ Len(queues'[q]) = Len(queues[q]) - drop[q] + 1
        BY <2>1, <2>3, <3>2 DEF Same
      <4>2. i <= drop[r]
        BY <2>1, <4>1
      <4>3. QED
        BY <1>1, <2>1, <4>2
    <3>3. QED
      BY <1>2, <3>1, <3>2
  <2>4. QED
    BY <2>1, <2>2, <2>3 DEF Same
<1>5. Housed'
  <2>1. \A r, q \in RoomCodes : rooms'[r] = rooms'[q] /\ rooms'[r] # None => r = q
    BY DEF QueueInvariant, Housed
  <2>2. Cardinality({r \in RoomCodes : rooms'[r] # None}) <= MaxRooms
    <3> DEFINE S == {r \in RoomCodes : rooms[r] # None}
               T == {r \in RoomCodes : rooms'[r] # None}
    <3>1. T \subseteq S /\ S \subseteq RoomCodes
      OBVIOUS
    <3>2. IsFiniteSet(S)
      BY <3>1, FS_Subset, ServerAssumption
    <3>3. Cardinality(T) <= Cardinality(S) /\ IsFiniteSet(T)
      BY <3>1, <3>2, FS_Subset
    <3>4. Cardinality(S) \in Nat /\ Cardinality(T) \in Nat /\ Cardinality(RoomCodes) \in Nat
      BY <3>2, <3>3, FS_CardinalityType, ServerAssumption
    <3>5. Cardinality(S) <= MaxRooms /\ MaxRooms \in Nat
      BY <3>4, ServerAssumption DEF QueueInvariant, Housed
    <3> HIDE DEF S, T
    <3>6. Cardinality(T) <= MaxRooms
      BY <3>3, <3>4, <3>5
    <3>7. QED
      BY <3>6 DEF T
  <2>3. QED
    BY <2>1, <2>2 DEF Housed
<1>6. QED
  BY <1>3, <1>4, <1>5

-----------------------------------------------------------------------------
(* The steps that change a queue.                                          *)

\* A connection that ends: what waits for it stays where it is, and the loss
\* of its session is reported to the Room that session is in.
LEMMA AbandonMoves ==
  ASSUME QueueInvariant, NEW c \in Clients, Abandon(c)
  PROVE  /\ queues' \in [RoomCodes -> Seq(OpType)]
         /\ \A r \in RoomCodes :
              IF r \in RoomOf(who[c]) THEN Moves(r, 0, {"lost"}, who[c])
              ELSE Len(queues'[r]) = Len(queues[r]) /\ \A s \in Nat : Moves(r, 0, {"lost"}, s)
<1> DEFINE orphan(op) == IF op.client = c THEN [op EXCEPT !.client = None] ELSE op
           lost(r) == IF r \in RoomOf(who[c]) THEN <<Op("lost", who[c], None)>> ELSE <<>>
           kept(r) == [i \in DOMAIN queues[r] |-> orphan(queues[r][i])]
<1>1. queues' = [r \in RoomCodes |-> kept(r) \o lost(r)]
  BY DEF Abandon
<1>2. \A op \in OpType : orphan(op) \in OpType /\ Same(orphan(op), op)
  BY DEF OpType, Same
<1>3. queues \in [RoomCodes -> Seq(OpType)]
  BY DEF QueueInvariant, ServerTypeOK
<1> HIDE DEF orphan
<1>4. ASSUME NEW r \in RoomCodes
      PROVE  /\ kept(r) \in Seq(OpType) /\ Len(kept(r)) = Len(queues[r])
             /\ \A i \in 1..Len(queues[r]) : Same(kept(r)[i], queues[r][i])
  <2>1. queues[r] \in Seq(OpType)
    BY <1>3
  <2>2. \A i \in 1..Len(queues[r]) : queues[r][i] \in OpType
    BY <2>1
  <2>3. DOMAIN queues[r] = 1..Len(queues[r]) /\ Len(queues[r]) \in Nat
    BY <2>1
  <2>4. kept(r) \in [1..Len(queues[r]) -> OpType]
    BY <1>2, <2>2, <2>3
  <2>5. kept(r) \in Seq(OpType) /\ Len(kept(r)) = Len(queues[r])
    BY <2>3, <2>4
  <2>6. QED
    BY <1>2, <2>2, <2>3, <2>5
<1>5. ASSUME NEW r \in RoomCodes, r \in RoomOf(who[c])
      PROVE  /\ lost(r) \in Seq(OpType) /\ Len(lost(r)) = 1 /\ lost(r)[1].kind = "lost"
             /\ lost(r)[1].session = who[c]
  <2>0. who[c] \in Nat
    <3>1. who[c] \in sessions
      BY <1>5 DEF RoomOf
    <3>2. \A s \in sessions : s \in Nat
      BY DEF QueueInvariant, ServerTypeOK
    <3>3. QED
      BY <3>1, <3>2
  <2>1. Op("lost", who[c], None) \in OpType
    BY <2>0 DEF Op, OpType
  <2>2. Op("lost", who[c], None).kind = "lost" /\ Op("lost", who[c], None).session = who[c]
    BY DEF Op
  <2>3. lost(r) = <<Op("lost", who[c], None)>>
    BY <1>5
  <2> HIDE DEF lost
  <2>4. QED
    BY <2>1, <2>2, <2>3
<1>6. ASSUME NEW r \in RoomCodes, r \notin RoomOf(who[c])
      PROVE  lost(r) = <<>>
  BY <1>6
<1> HIDE DEF kept, lost
<1>7. ASSUME NEW r \in RoomCodes, r \in RoomOf(who[c])
      PROVE  queues'[r] \in Seq(OpType) /\ Moves(r, 0, {"lost"}, who[c])
  <2>1. queues'[r] = kept(r) \o lost(r) /\ queues[r] \in Seq(OpType) /\ Len(queues[r]) \in Nat
    BY <1>1, <1>3
  <2>2. /\ kept(r) \in Seq(OpType) /\ lost(r) \in Seq(OpType)
        /\ Len(kept(r)) = Len(queues[r]) /\ Len(lost(r)) = 1
    BY <1>4, <1>5, <1>7
  <2>3. /\ queues'[r] \in Seq(OpType) /\ Len(queues'[r]) = Len(queues[r]) + 1
        /\ \A i \in 1..(Len(queues[r]) + 1) :
             queues'[r][i] = IF i <= Len(queues[r]) THEN kept(r)[i] ELSE lost(r)[i - Len(queues[r])]
    <3>1. /\ kept(r) \o lost(r) \in Seq(OpType) /\ Len(kept(r) \o lost(r)) = Len(kept(r)) + Len(lost(r))
          /\ \A i \in 1..(Len(kept(r)) + Len(lost(r))) : (kept(r) \o lost(r))[i] =
               IF i <= Len(kept(r)) THEN kept(r)[i] ELSE lost(r)[i - Len(kept(r))]
      BY <2>2, ConcatProperties
    <3>2. QED
      BY <2>1, <2>2, <3>1
  <2>4. queues'[r][Len(queues[r]) + 1] = lost(r)[1] /\ \A i \in 1..Len(queues[r]) : queues'[r][i] = kept(r)[i]
    BY <2>1, <2>3, SMTT(20)
  <2>5. QED
    BY <1>4, <1>5, <1>7, <2>1, <2>3, <2>4 DEF Moves
<1>8. ASSUME NEW r \in RoomCodes, r \notin RoomOf(who[c])
      PROVE  queues'[r] \in Seq(OpType) /\ Len(queues'[r]) = Len(queues[r]) /\ \A s \in Nat : Moves(r, 0, {"lost"}, s)
  <2>1. queues'[r] = kept(r) \o lost(r) /\ lost(r) = <<>> /\ queues[r] \in Seq(OpType) /\ Len(queues[r]) \in Nat
    BY <1>1, <1>3, <1>6, <1>8
  <2>2. queues'[r] = kept(r)
    BY <1>4, <2>1, ConcatEmptySeq
  <2>3. QED
    BY <1>4, <2>1, <2>2 DEF Moves
<1>9. QED
  BY <1>1, <1>7, <1>8

\* What the queues of a step keep of the writes under way.
LEMMA WrittenKeeps ==
  ASSUME QueueInvariant, ServerTypeOK',
         NEW drop \in [RoomCodes -> {0, 1}], NEW new \in [RoomCodes -> Nat],
         \A r \in RoomCodes : Moves(r, drop[r], {"command", "leave", "lost"}, new[r]),
         sessions' \subseteq sessions, disposed => disposed', saving' \subseteq saving,
         \A r \in saving' : drop[r] = 0 /\ (~disposed' => rooms'[r] = rooms[r])
  PROVE  Written'
<1> SUFFICES ASSUME NEW r \in saving'
             PROVE  /\ queues'[r] # <<>>
                    /\ ~disposed' => /\ rooms'[r] = queues'[r][1].session
                                     /\ queues'[r][1].kind = "leave" => queues'[r][1].session \notin sessions'
  BY DEF Written
<1>1. /\ r \in RoomCodes /\ queues[r] # <<>> /\ queues[r] \in Seq(OpType) /\ queues'[r] \in Seq(OpType)
      /\ Moves(r, 0, {"command", "leave", "lost"}, new[r])
  BY DEF QueueInvariant, ServerTypeOK, Written
<1>2. Len(queues[r]) \in Nat /\ Len(queues[r]) >= 1 /\ Len(queues'[r]) \in Nat
  BY <1>1
<1>3. Len(queues'[r]) >= 1 /\ Same(queues'[r][1], queues[r][1])
  BY <1>1, <1>2 DEF Moves
<1>4. queues'[r] # <<>>
  BY <1>1, <1>3
<1>5. QED
  BY <1>3, <1>4 DEF QueueInvariant, Written, Same

\* What they keep of the operations a shutdown waits for.
LEMMA AwaitsKeeps ==
  ASSUME QueueInvariant, ServerTypeOK',
         NEW drop \in [RoomCodes -> {0, 1}], NEW new \in [RoomCodes -> Nat],
         \A r \in RoomCodes : Moves(r, drop[r], {"command", "leave", "lost"}, new[r]),
         disposed => disposed', stopping' \/ disposed' => stopping \/ disposed,
         stopping' \/ disposed' => \A r \in saving' : awaited'[r] >= 1,
         \A r \in RoomCodes : awaited'[r] >= awaited[r] - drop[r]
  PROVE  Awaits'
<1> SUFFICES ASSUME stopping' \/ disposed', NEW r \in RoomCodes, ~disposed',
                    NEW i \in 1..Len(queues'[r]), queues'[r][i].kind = "create"
             PROVE  i <= awaited'[r]
  BY DEF Awaits
<1>1. /\ Len(queues[r]) \in Nat /\ Len(queues'[r]) \in Nat /\ drop[r] \in {0, 1}
      /\ awaited[r] \in Nat /\ awaited'[r] \in Nat
  BY DEF QueueInvariant, ServerTypeOK
<1>2. i + drop[r] \in 1..Len(queues[r]) /\ Same(queues'[r][i], queues[r][i + drop[r]])
  <2>1. Moves(r, drop[r], {"command", "leave", "lost"}, new[r])
    OBVIOUS
  <2>2. CASE i <= Len(queues[r]) - drop[r]
    BY <1>1, <2>1, <2>2 DEF Moves
  <2>3. CASE i = Len(queues[r]) - drop[r] + 1
    BY <1>1, <2>1, <2>3 DEF Moves
  <2>4. QED
    BY <1>1, <2>1, <2>2, <2>3 DEF Moves
<1>3. i + drop[r] <= awaited[r]
  BY <1>2 DEF QueueInvariant, Awaits, Same
<1>4. QED
  BY <1>1, <1>3

-----------------------------------------------------------------------------
(* The steps of the server, one by one.                                    *)

\* What one kind of operation may do to a queue, several kinds may.
LEMMA WiderMoves ==
  ASSUME NEW r \in RoomCodes, NEW d, NEW kinds, NEW s, Moves(r, d, kinds, s), kinds \subseteq {"command", "leave", "lost"}
  PROVE  Moves(r, d, {"command", "leave", "lost"}, s)
BY DEF Moves

\* A step that leaves the queues and the Rooms alone.
LEMMA QuietStep ==
  ASSUME QueueInvariant, ServerTypeOK', UNCHANGED <<service, who>>,
         \/ UNCHANGED closing
         \/ phase = "closing" /\ phase' = "releasing" /\ UNCHANGED <<stopping, repository>>
  PROVE  QueueInvariant'
<1>1. UNCHANGED <<rooms, sessions, created, queues, saving, disposed, awaited, who, stopping, repository>>
  BY DEF service, closing
<1>2. AtHome' /\ Newborn' /\ Housed' /\ Written' /\ Awaits'
  BY <1>1 DEF QueueInvariant, AtHome, Newborn, Housed, Written, Awaits
<1>3. Closed'
  BY <1>1 DEF QueueInvariant, Closed, Drained, closing
<1>4. QED
  BY <1>2, <1>3 DEF QueueInvariant

\* A connection ends.
LEMMA EndConnectionStep ==
  ASSUME QueueInvariant, NEW c \in Clients, EndConnection(c)
  PROVE  QueueInvariant'
<1> DEFINE drop == [r \in RoomCodes |-> 0]
           new == [r \in RoomCodes |-> IF who[c] \in Nat THEN who[c] ELSE 0]
<1>1. /\ UNCHANGED <<rooms, sessions, created, saving, disposed, awaited, stopping, phase, repository>>
      /\ who' = [who EXCEPT ![c] = None] /\ conns' = [conns EXCEPT ![c] = "none"] /\ Abandon(c)
  BY DEF EndConnection, closing
<1>2. ServerTypeOK'
  BY <1>1, AbandonMoves DEF QueueInvariant, ServerTypeOK
<1>3. drop \in [RoomCodes -> {0, 1}] /\ new \in [RoomCodes -> Nat]
  OBVIOUS
<1>4. \A r \in RoomCodes : r \in RoomOf(who[c]) => /\ who[c] \in sessions /\ who[c] \in Nat
                                                  /\ rooms[r] = who[c] /\ new[r] = who[c]
  <2>1. \A s \in sessions : s \in Nat
    BY DEF QueueInvariant, ServerTypeOK
  <2>2. QED
    BY <2>1 DEF RoomOf
<1>5. \A r \in RoomCodes : Moves(r, drop[r], {"command", "leave", "lost"}, new[r])
  BY <1>1, <1>3, <1>4, AbandonMoves, WiderMoves
<1>6. \A r \in RoomCodes : Len(queues'[r]) = Len(queues[r]) - drop[r] + 1 => r \in RoomOf(who[c])
  <2>1. \A r \in RoomCodes : Len(queues[r]) \in Nat
    BY DEF QueueInvariant, ServerTypeOK
  <2>2. QED
    BY <1>1, <2>1, AbandonMoves
<1>7. \A r \in RoomCodes : Len(queues'[r]) = Len(queues[r]) - drop[r] + 1 =>
        /\ new[r] \in 1..created
        /\ new[r] \in sessions' => rooms'[r] = new[r]
        /\ \A q \in RoomCodes : \A i \in 1..Len(queues[q]) :
             queues[q][i].kind = "create" /\ queues[q][i].session = new[r] => i <= drop[q]
  BY <1>1, <1>4, <1>6 DEF QueueInvariant, ServerTypeOK, Newborn
<1>8. \A r \in RoomCodes : \A i \in 1..Len(queues[r]) :
        queues[r][i].kind = "create" /\ i > drop[r] =>
          /\ disposed' \/ queues[r][i].session \in sessions'
          /\ \A d \in Clients : who'[d] # queues[r][i].session
  <2>1. \A r \in RoomCodes : \A i \in 1..Len(queues[r]) : queues[r][i].session # None
    BY ServerAssumption DEF QueueInvariant, AtHome
  <2>2. \A d \in Clients : who'[d] \in {who[d], None}
    BY <1>1 DEF QueueInvariant, ServerTypeOK
  <2>3. QED
    BY <1>1, <2>1, <2>2 DEF QueueInvariant, Newborn
<1>9. \A s \in sessions' : \E r \in RoomCodes : rooms'[r] = s
  BY <1>1 DEF QueueInvariant, Housed
<1>10. AtHome' /\ Newborn' /\ Housed'
  <2> HIDE DEF drop, new
  <2>1. QED
    BY <1>1, <1>2, <1>3, <1>5, <1>7, <1>8, <1>9, QueuesKeep, ZenonT(40)
<1>11. Written'
  <2>1. \A r \in saving' : drop[r] = 0
    BY <1>2 DEF ServerTypeOK
  <2> HIDE DEF drop, new
  <2>2. QED
    BY <1>1, <1>2, <1>3, <1>5, <2>1, WrittenKeeps
<1>12. Awaits'
  <2>1. \A r \in RoomCodes : awaited'[r] >= awaited[r] - drop[r]
    BY <1>1 DEF QueueInvariant, ServerTypeOK
  <2>2. stopping' \/ disposed' => \A r \in saving' : awaited'[r] >= 1
    BY <1>1 DEF QueueInvariant, Awaits, ServerTypeOK
  <2> HIDE DEF drop, new
  <2>3. QED
    BY <1>1, <1>2, <1>3, <1>5, <2>1, <2>2, AwaitsKeeps
<1>13. Closed'
  BY <1>1 DEF QueueInvariant, Closed, Drained
<1>14. QED
  BY <1>2, <1>10, <1>11, <1>12, <1>13 DEF QueueInvariant

\* A step in which operations are admitted, each of a session that exists in
\* the queue of its Room, and nothing else happens to the Rooms: what the
\* handlers of a request and of a shutdown do.
LEMMA AdmitStep ==
  ASSUME QueueInvariant, ServerTypeOK', NEW new \in [RoomCodes -> Nat],
         UNCHANGED <<rooms, sessions, created, saving, disposed, awaited, stopping>>,
         \A r \in RoomCodes : Moves(r, 0, {"command", "leave", "lost"}, new[r]),
         \A r \in RoomCodes : queues'[r] # queues[r] =>
            \E c \in Clients : new[r] = who[c] /\ new[r] \in sessions /\ rooms[r] = new[r],
         \A c \in Clients : who'[c] \in {who[c], None}
  PROVE  AtHome' /\ Newborn' /\ Housed' /\ Written' /\ Awaits'
<1> DEFINE drop == [r \in RoomCodes |-> 0]
<1>1. drop \in [RoomCodes -> {0, 1}] /\ \A r \in RoomCodes : drop[r] = 0
  OBVIOUS
<1>2. \A r \in RoomCodes : Moves(r, drop[r], {"command", "leave", "lost"}, new[r])
  BY <1>1
<1> HIDE DEF drop
<1>3. \A r \in RoomCodes : Len(queues'[r]) = Len(queues[r]) - drop[r] + 1 =>
        /\ new[r] \in 1..created
        /\ new[r] \in sessions' => rooms'[r] = new[r]
        /\ \A q \in RoomCodes : \A i \in 1..Len(queues[q]) :
             queues[q][i].kind = "create" /\ queues[q][i].session = new[r] => i <= drop[q]
  <2> SUFFICES ASSUME NEW r \in RoomCodes, Len(queues'[r]) = Len(queues[r]) - drop[r] + 1
               PROVE  /\ new[r] \in 1..created
                      /\ new[r] \in sessions' => rooms'[r] = new[r]
                      /\ \A q \in RoomCodes : \A i \in 1..Len(queues[q]) :
                           queues[q][i].kind = "create" => queues[q][i].session # new[r]
    OBVIOUS
  <2>1. Len(queues[r]) \in Nat
    BY DEF QueueInvariant, ServerTypeOK
  <2>2. queues'[r] # queues[r]
    BY <1>1, <2>1
  <2>3. PICK c \in Clients : new[r] = who[c] /\ new[r] \in sessions /\ rooms[r] = new[r]
    BY <2>2
  <2>4. new[r] \in 1..created /\ (new[r] \in sessions' => rooms'[r] = new[r])
    BY <2>3 DEF QueueInvariant, ServerTypeOK
  <2>5. \A q \in RoomCodes : \A i \in 1..Len(queues[q]) :
          queues[q][i].kind = "create" => queues[q][i].session # new[r]
    BY <2>3 DEF QueueInvariant, Newborn
  <2>6. QED
    BY <2>4, <2>5
<1>4. \A r \in RoomCodes : \A i \in 1..Len(queues[r]) :
        queues[r][i].kind = "create" /\ i > drop[r] =>
          /\ disposed' \/ queues[r][i].session \in sessions'
          /\ \A d \in Clients : who'[d] # queues[r][i].session
  <2>1. \A r \in RoomCodes : \A i \in 1..Len(queues[r]) : queues[r][i].session # None
    BY ServerAssumption DEF QueueInvariant, AtHome
  <2>2. QED
    BY <2>1 DEF QueueInvariant, Newborn
<1>5. \A s \in sessions' : \E r \in RoomCodes : rooms'[r] = s
  BY DEF QueueInvariant, Housed
<1>6. AtHome' /\ Newborn' /\ Housed'
  BY <1>1, <1>2, <1>3, <1>4, <1>5, QueuesKeep
<1>7. \A r \in saving' : drop[r] = 0
  BY <1>1 DEF QueueInvariant, ServerTypeOK
<1>8. Written'
  BY <1>1, <1>2, <1>7, WrittenKeeps
<1>9. \A r \in RoomCodes : awaited'[r] >= awaited[r] - drop[r]
  BY <1>1 DEF QueueInvariant, ServerTypeOK
<1>10. stopping' \/ disposed' => \A r \in saving' : awaited'[r] >= 1
  BY DEF QueueInvariant, Awaits, ServerTypeOK
<1>11. Awaits'
  BY <1>1, <1>2, <1>9, <1>10, AwaitsKeeps
<1>12. QED
  BY <1>6, <1>8, <1>11

\* A command or a departure is admitted to the queue of the Room.
LEMMA EnqueueStep ==
  ASSUME QueueInvariant, NEW c \in Clients, NEW event \in {"command", "leave"}, NEW r \in RoomOf(who[c]),
         Enqueue(r, Op(event, who[c], c)),
         UNCHANGED <<conns, who, rooms, sessions, created, saving, disposed, awaited, closing>>
  PROVE  QueueInvariant'
<1>1. r \in RoomCodes /\ who[c] \in sessions /\ rooms[r] = who[c] /\ who[c] \in Nat
  <2>1. \A s \in sessions : s \in Nat
    BY DEF QueueInvariant, ServerTypeOK
  <2>2. QED
    BY <2>1 DEF RoomOf
<1> DEFINE op == Op(event, who[c], c)
           new == [q \in RoomCodes |-> who[c]]
<1>2. op \in OpType /\ op.kind = event /\ op.session = who[c]
  BY <1>1 DEF Op, OpType
<1> HIDE DEF op
<1>3. queues \in [RoomCodes -> Seq(OpType)] /\ queues' = [queues EXCEPT ![r] = Append(@, op)]
  BY DEF QueueInvariant, ServerTypeOK, Enqueue, op
<1>4. /\ queues'[r] = Append(queues[r], op)
      /\ \A q \in RoomCodes : q # r => queues'[q] = queues[q]
      /\ queues' \in [RoomCodes -> Seq(OpType)]
  BY <1>1, <1>2, <1>3
<1>5. ServerTypeOK'
  BY <1>4 DEF QueueInvariant, ServerTypeOK, closing
<1>6. new \in [RoomCodes -> Nat] /\ \A q \in RoomCodes : new[q] = who[c]
  BY <1>1
<1>7. \A q \in RoomCodes : Moves(q, 0, {"command", "leave", "lost"}, new[q])
  <2> SUFFICES ASSUME NEW q \in RoomCodes
               PROVE  Moves(q, 0, {"command", "leave", "lost"}, who[c])
    BY <1>6
  <2>1. CASE q = r
    BY <1>2, <1>3, <1>4, <2>1, AppendMoves, WiderMoves
  <2>2. CASE q # r
    BY <1>3, <1>4, <2>2, StillMoves
  <2>3. QED
    BY <2>1, <2>2
<1>8. \A q \in RoomCodes : queues'[q] # queues[q] =>
         \E d \in Clients : new[q] = who[d] /\ new[q] \in sessions /\ rooms[q] = new[q]
  BY <1>1, <1>4, <1>6
<1> HIDE DEF new
<1>9. UNCHANGED <<stopping, phase, repository>>
  BY DEF closing
<1>10. AtHome' /\ Newborn' /\ Housed' /\ Written' /\ Awaits'
  BY <1>5, <1>6, <1>7, <1>8, <1>9, AdmitStep
<1>11. Closed'
  BY <1>9 DEF QueueInvariant, Closed, Drained
<1>12. QED
  BY <1>5, <1>10, <1>11 DEF QueueInvariant

\* The realtime server closes: every socket goes, its session is reported lost.
LEMMA CloseRealtimeStep ==
  ASSUME QueueInvariant, CloseRealtime
  PROVE  QueueInvariant'
<1> DEFINE members == {r \in RoomCodes : \E c \in Clients : conns[c] = "socket" /\ who[c] # None /\ r \in RoomOf(who[c])}
           op(r) == Op("lost", rooms[r], None)
           new == [r \in RoomCodes |-> IF r \in members THEN rooms[r] ELSE 0]
<1>1. /\ UNCHANGED <<rooms, sessions, created, saving, disposed, awaited, stopping>>
      /\ phase = "draining" /\ Drained /\ phase' = "closing"
      /\ repository' = IF disposed THEN "closed" ELSE repository
      /\ queues' = [r \in RoomCodes |-> IF r \in members THEN Append(queues[r], op(r)) ELSE queues[r]]
      /\ conns' = [c \in Clients |-> IF conns[c] \in {"socket", "handshake"} THEN "closing" ELSE conns[c]]
      /\ who' = [c \in Clients |-> None]
  BY DEF CloseRealtime
<1>2. queues \in [RoomCodes -> Seq(OpType)]
  BY DEF QueueInvariant, ServerTypeOK
<1>3. \A r \in members : \E c \in Clients : rooms[r] = who[c] /\ who[c] \in sessions
  BY DEF RoomOf
<1>4. \A r \in members : /\ rooms[r] \in sessions /\ rooms[r] \in Nat
                         /\ op(r) \in OpType /\ op(r).kind = "lost" /\ op(r).session = rooms[r]
  <2>1. \A s \in sessions : s \in Nat
    BY DEF QueueInvariant, ServerTypeOK
  <2>2. \A r \in members : rooms[r] \in sessions /\ rooms[r] \in Nat
    BY <1>3, <2>1
  <2>3. QED
    BY <2>2 DEF Op, OpType
<1> HIDE DEF members, op
<1>5. members \subseteq RoomCodes
  BY DEF members
<1>6. /\ \A r \in members : queues'[r] = Append(queues[r], op(r))
      /\ \A r \in RoomCodes \ members : queues'[r] = queues[r]
      /\ queues' \in [RoomCodes -> Seq(OpType)]
  BY <1>1, <1>2, <1>4, <1>5
<1>7. ServerTypeOK'
  BY <1>1, <1>6 DEF QueueInvariant, ServerTypeOK
<1>8. /\ new \in [RoomCodes -> Nat]
      /\ \A r \in members : new[r] = rooms[r]
  BY <1>4, <1>5
<1> HIDE DEF new
<1>9. \A r \in RoomCodes : Moves(r, 0, {"command", "leave", "lost"}, new[r])
  <2> SUFFICES ASSUME NEW r \in RoomCodes
               PROVE  Moves(r, 0, {"command", "leave", "lost"}, new[r])
    OBVIOUS
  <2>1. CASE r \in members
    BY <1>2, <1>4, <1>6, <1>8, <2>1, AppendMoves, WiderMoves
  <2>2. CASE r \notin members
    BY <1>2, <1>6, <2>2, StillMoves
  <2>3. QED
    BY <2>1, <2>2
<1>10. \A r \in RoomCodes : queues'[r] # queues[r] =>
         \E c \in Clients : new[r] = who[c] /\ new[r] \in sessions /\ rooms[r] = new[r]
  BY <1>3, <1>6, <1>8
<1>11. \A c \in Clients : who'[c] \in {who[c], None}
  BY <1>1
<1>12. AtHome' /\ Newborn' /\ Housed' /\ Written' /\ Awaits'
  BY <1>1, <1>7, <1>8, <1>9, <1>10, <1>11, AdmitStep
<1>13. Closed'
  BY <1>1 DEF QueueInvariant, Closed, Drained
<1>14. QED
  BY <1>7, <1>12, <1>13 DEF QueueInvariant

\* A Room is created: its session and its code are new, and its first
\* operation is the creation.
LEMMA CreateStep ==
  ASSUME QueueInvariant, NEW c \in Clients, who[c] = None, IsReady, NEW r \in RoomCodes, rooms[r] = None,
         Cardinality({q \in RoomCodes : rooms[q] # None}) < MaxRooms,
         created' = created + 1, sessions' = sessions \cup {created'}, rooms' = [rooms EXCEPT ![r] = created'],
         Enqueue(r, Op("create", created', c)),
         UNCHANGED <<conns, who, saving, disposed, awaited, closing>>
  PROVE  QueueInvariant'
<1> DEFINE s == created + 1
           op == Op("create", s, c)
<1>1. /\ created \in Nat /\ created' = s /\ s \in Nat /\ s \notin 1..created /\ 1..created' = 1..created \cup {s}
      /\ sessions' = sessions \cup {s} /\ sessions \subseteq 1..created /\ s # None
  BY ServerAssumption DEF QueueInvariant, ServerTypeOK
<1>2. op \in OpType /\ op.kind = "create" /\ op.session = s
  BY <1>1 DEF Op, OpType
<1>3. queues \in [RoomCodes -> Seq(OpType)] /\ queues' = [queues EXCEPT ![r] = Append(@, op)]
  BY <1>1 DEF QueueInvariant, ServerTypeOK, Enqueue
<1> HIDE DEF op
<1>4. /\ queues'[r] = Append(queues[r], op)
      /\ \A q \in RoomCodes : q # r => queues'[q] = queues[q]
      /\ queues' \in [RoomCodes -> Seq(OpType)]
  BY <1>2, <1>3
<1>5. /\ Len(queues'[r]) = Len(queues[r]) + 1 /\ queues'[r][Len(queues[r]) + 1] = op
      /\ \A i \in 1..Len(queues[r]) : queues'[r][i] = queues[r][i]
      /\ \A q \in RoomCodes : Len(queues[q]) \in Nat
  BY <1>2, <1>3, <1>4
<1>6. \A q \in RoomCodes : \A i \in 1..Len(queues'[q]) :
        \/ i \in 1..Len(queues[q]) /\ queues'[q][i] = queues[q][i]
        \/ q = r /\ i = Len(queues[r]) + 1 /\ queues'[q][i] = op
  <2>1. ASSUME NEW q \in RoomCodes, q # r, NEW i \in 1..Len(queues'[q])
        PROVE  i \in 1..Len(queues[q]) /\ queues'[q][i] = queues[q][i]
    BY <1>4, <2>1
  <2>2. PICK n \in Nat : n = Len(queues[r]) /\ Len(queues'[r]) = n + 1
    BY <1>5
  <2>3. ASSUME NEW i \in 1..(n + 1)
        PROVE  \/ i \in 1..n /\ queues'[r][i] = queues[r][i]
               \/ i = n + 1 /\ queues'[r][i] = op
    <3>1. i \in 1..n \/ i = n + 1
      BY <2>3
    <3>2. QED
      BY <1>5, <2>2, <3>1
  <2>4. QED
    BY <2>1, <2>2, <2>3
<1>7. /\ UNCHANGED <<conns, who, saving, disposed, awaited, stopping, phase, repository>>
      /\ ~disposed /\ ~stopping
  BY DEF closing, IsReady
<1>8. /\ rooms'[r] = s /\ \A q \in RoomCodes : q # r => rooms'[q] = rooms[q]
      /\ rooms \in [RoomCodes -> 1..created \cup {None}]
  BY <1>1 DEF QueueInvariant, ServerTypeOK
<1> HIDE DEF s
<1>9. ServerTypeOK'
  <2>1. rooms' \in [RoomCodes -> 1..created' \cup {None}] /\ who' \in [Clients -> 1..created' \cup {None}]
    BY <1>1, <1>7 DEF QueueInvariant, ServerTypeOK
  <2>2. sessions' \subseteq 1..created' /\ created' \in Nat
    BY <1>1
  <2>3. QED
    BY <1>4, <1>7, <2>1, <2>2 DEF QueueInvariant, ServerTypeOK
<1>10. AtHome'
  <2> SUFFICES ASSUME NEW q \in RoomCodes, NEW i \in 1..Len(queues'[q])
               PROVE  /\ queues'[q][i].session \in 1..created'
                      /\ queues'[q][i].session \in sessions' => rooms'[q] = queues'[q][i].session
    BY DEF AtHome
  <2>1. CASE i \in 1..Len(queues[q]) /\ queues'[q][i] = queues[q][i]
    <3>1. /\ queues[q][i].session \in 1..created
          /\ queues[q][i].session \in sessions => rooms[q] = queues[q][i].session
      BY <2>1 DEF QueueInvariant, AtHome
    <3>2. queues[q][i].session \in sessions => q # r
      BY <1>1, <3>1, ServerAssumption
    <3>3. QED
      BY <1>1, <1>8, <2>1, <3>1, <3>2
  <2>2. CASE q = r /\ queues'[q][i] = op
    BY <1>1, <1>2, <1>8, <2>2
  <2>3. QED
    BY <1>6, <2>1, <2>2
<1>11. Newborn'
  <2> SUFFICES ASSUME NEW q \in RoomCodes, NEW i \in 1..Len(queues'[q]), queues'[q][i].kind = "create"
               PROVE  /\ disposed' \/ queues'[q][i].session \in sessions'
                      /\ \A d \in Clients : who'[d] # queues'[q][i].session
                      /\ \A p \in RoomCodes : \A j \in 1..Len(queues'[p]) :
                           queues'[p][j].session = queues'[q][i].session => p = q /\ j = i
    BY DEF Newborn
  <2>1. \A p \in RoomCodes : \A j \in 1..Len(queues[p]) : queues[p][j].session # s
    BY <1>1 DEF QueueInvariant, AtHome
  <2>2. CASE i \in 1..Len(queues[q]) /\ queues'[q][i] = queues[q][i]
    <3>1. /\ queues[q][i].session \in sessions
          /\ \A d \in Clients : who[d] # queues[q][i].session
          /\ \A p \in RoomCodes : \A j \in 1..Len(queues[p]) :
               queues[p][j].session = queues[q][i].session => p = q /\ j = i
      BY <1>7, <2>2 DEF QueueInvariant, Newborn
    <3>2. \A p \in RoomCodes : \A j \in 1..Len(queues'[p]) :
            queues'[p][j].session = queues[q][i].session => j \in 1..Len(queues[p]) /\ queues'[p][j] = queues[p][j]
      BY <1>2, <1>6, <2>1, <2>2
    <3>3. \A p \in RoomCodes : \A j \in 1..Len(queues'[p]) :
            queues'[p][j].session = queues[q][i].session => p = q /\ j = i
      BY <3>1, <3>2
    <3>4. queues'[q][i] = queues[q][i]
      BY <2>2
    <3>5. (\A d \in Clients : who'[d] # queues[q][i].session) /\ queues[q][i].session \in sessions'
      BY <1>1, <1>7, <3>1
    <3>6. QED
      BY <3>3, <3>4, <3>5
  <2>3. CASE q = r /\ i = Len(queues[r]) + 1 /\ queues'[q][i] = op
    <3>1. \A d \in Clients : who[d] # s
      BY <1>1 DEF QueueInvariant, ServerTypeOK
    <3>2. \A p \in RoomCodes : \A j \in 1..Len(queues'[p]) : queues'[p][j].session = s => p = q /\ j = i
      BY <1>6, <2>1, <2>3
    <3>3. QED
      BY <1>1, <1>2, <1>7, <2>3, <3>1, <3>2
  <2>4. QED
    BY <1>6, <2>2, <2>3
<1>12. Housed'
  <2>1. \A t \in sessions' : \E q \in RoomCodes : rooms'[q] = t
    <3> SUFFICES ASSUME NEW t \in sessions'
                 PROVE  \E q \in RoomCodes : rooms'[q] = t
      OBVIOUS
    <3>1. CASE t = s
      BY <1>8, <3>1
    <3>2. CASE t \in sessions
      <4>1. PICK q \in RoomCodes : rooms[q] = t
        BY <3>2 DEF QueueInvariant, Housed
      <4>2. q # r
        BY <1>1, <3>2, <4>1, ServerAssumption
      <4>3. QED
        BY <1>8, <4>1, <4>2
    <3>3. QED
      BY <1>1, <3>1, <3>2
  <2>2. \A p, q \in RoomCodes : rooms'[p] = rooms'[q] /\ rooms'[p] # None => p = q
    <3>1. \A q \in RoomCodes : rooms[q] # s
      BY <1>1, <1>8
    <3>2. QED
      BY <1>8, <3>1 DEF QueueInvariant, Housed
  <2>3. Cardinality({q \in RoomCodes : rooms'[q] # None}) <= MaxRooms
    <3> DEFINE S == {q \in RoomCodes : rooms[q] # None}
               T == {q \in RoomCodes : rooms'[q] # None}
    <3>1. T = S \cup {r} /\ S \subseteq RoomCodes /\ r \notin S
      BY <1>1, <1>8
    <3>2. IsFiniteSet(S)
      BY <3>1, FS_Subset, ServerAssumption
    <3>3. Cardinality(T) = Cardinality(S) + 1
      BY <3>1, <3>2, FS_AddElement
    <3>4. Cardinality(S) \in Nat /\ Cardinality(RoomCodes) \in Nat /\ Cardinality(S) < MaxRooms
      BY <3>2, FS_CardinalityType, ServerAssumption
    <3>5. MaxRooms \in Nat
      BY <3>4, ServerAssumption
    <3> HIDE DEF S, T
    <3>6. Cardinality(T) <= MaxRooms
      BY <3>3, <3>4, <3>5
    <3>7. QED
      BY <3>6 DEF T
  <2>4. QED
    BY <2>1, <2>2, <2>3 DEF Housed
<1>13. Written'
  <2> SUFFICES ASSUME NEW q \in saving'
               PROVE  /\ queues'[q] # <<>>
                      /\ ~disposed' => /\ rooms'[q] = queues'[q][1].session
                                       /\ queues'[q][1].kind = "leave" => queues'[q][1].session \notin sessions'
    BY DEF Written
  <2>1. /\ q \in RoomCodes /\ queues[q] # <<>> /\ queues[q] \in Seq(OpType) /\ rooms[q] = queues[q][1].session
        /\ queues[q][1].kind = "leave" => queues[q][1].session \notin sessions
    BY <1>7 DEF QueueInvariant, ServerTypeOK, Written
  <2>2. Len(queues[q]) >= 1 /\ queues'[q][1] = queues[q][1] /\ queues'[q] # <<>>
    <3>1. Len(queues[q]) \in Nat /\ Len(queues[q]) >= 1
      BY <2>1
    <3>2. CASE q = r
      BY <1>2, <1>4, <1>5, <2>1, <3>1, <3>2
    <3>3. CASE q # r
      BY <1>4, <2>1, <3>1, <3>3
    <3>4. QED
      BY <3>1, <3>2, <3>3
  <2>3. queues[q][1].session \in 1..created
    BY <2>1, <2>2 DEF QueueInvariant, AtHome
  <2>4. q # r
    BY <2>1, <2>3, ServerAssumption
  <2>5. QED
    BY <1>1, <1>8, <2>1, <2>2, <2>3, <2>4
<1>14. Awaits' /\ Closed'
  BY <1>7 DEF QueueInvariant, Awaits, Closed, Drained
<1>15. QED
  BY <1>9, <1>10, <1>11, <1>12, <1>13, <1>14 DEF QueueInvariant

\* A request, whatever the limiter says of it.
LEMMA RequestStep ==
  ASSUME QueueInvariant, NEW c \in Clients, NEW event \in {"create", "command", "leave"}, Request(c, event)
  PROVE  QueueInvariant'
<1>1. /\ UNCHANGED <<conns, who, saving, disposed, awaited, closing>>
      /\ UNCHANGED <<rooms, sessions, created, queues>> \/ Serve(c, event)
      /\ event = "create" => who[c] = None
  BY DEF Request
<1>2. CASE UNCHANGED <<rooms, sessions, created, queues>>
  <2>1. ServerTypeOK'
    BY <1>1, <1>2 DEF QueueInvariant, ServerTypeOK, closing
  <2>2. QED
    BY <1>1, <1>2, <2>1, QuietStep DEF service
<1>3. CASE event = "create" /\ Serve(c, event) /\ ~UNCHANGED <<rooms, sessions, created, queues>>
  <2>1. /\ IsReady /\ ~(Cardinality({q \in RoomCodes : rooms[q] # None}) >= MaxRooms)
        /\ \E r \in RoomCodes :
              /\ rooms[r] = None
              /\ created' = created + 1 /\ sessions' = sessions \cup {created'}
              /\ rooms' = [rooms EXCEPT ![r] = created']
              /\ Enqueue(r, Op("create", created', c))
    BY <1>3 DEF Serve
  <2>2. Cardinality({q \in RoomCodes : rooms[q] # None}) < MaxRooms
    <3> DEFINE S == {q \in RoomCodes : rooms[q] # None}
    <3>1. Cardinality(S) \in Nat /\ Cardinality(RoomCodes) \in Nat
      BY FS_Subset, FS_CardinalityType, ServerAssumption
    <3>2. MaxRooms \in Nat
      BY <3>1, ServerAssumption
    <3> HIDE DEF S
    <3>3. ~(Cardinality(S) >= MaxRooms)
      BY <2>1 DEF S
    <3>4. Cardinality(S) < MaxRooms
      BY <3>1, <3>2, <3>3
    <3>5. QED
      BY <3>4 DEF S
  <2>3. QED
    BY <1>1, <1>3, <2>1, <2>2, CreateStep
<1>4. CASE event # "create" /\ Serve(c, event) /\ ~UNCHANGED <<rooms, sessions, created, queues>>
  <2>1. /\ UNCHANGED <<rooms, sessions, created>>
        /\ \E r \in RoomOf(who[c]) : Enqueue(r, Op(event, who[c], c))
    BY <1>4 DEF Serve
  <2>2. QED
    BY <1>1, <1>4, <2>1, EnqueueStep
<1>5. QED
  BY <1>1, <1>2, <1>3, <1>4

\* The first operation of a queue is done: it leaves, and one that a shutdown
\* waits for is waited for no longer.
LEMMA LeaveStep ==
  ASSUME QueueInvariant, NEW r \in RoomCodes, r \notin saving, queues[r] # <<>>, Leave(r),
         UNCHANGED <<conns, who, rooms, sessions, created, saving, disposed, closing>>
  PROVE  QueueInvariant'
<1> DEFINE drop == [q \in RoomCodes |-> IF q = r THEN 1 ELSE 0]
           new == [q \in RoomCodes |-> 0]
<1>1. /\ queues \in [RoomCodes -> Seq(OpType)] /\ awaited \in [RoomCodes -> Nat]
      /\ queues' = [queues EXCEPT ![r] = Tail(@)]
      /\ awaited' = [awaited EXCEPT ![r] = IF @ > 0 THEN @ - 1 ELSE 0]
      /\ UNCHANGED <<stopping, phase, repository>>
  BY DEF QueueInvariant, ServerTypeOK, Leave, closing
<1>2. /\ queues'[r] = Tail(queues[r]) /\ queues[r] \in Seq(OpType)
      /\ \A q \in RoomCodes : q # r => queues'[q] = queues[q]
      /\ queues' \in [RoomCodes -> Seq(OpType)]
  BY <1>1
<1>3. /\ awaited' \in [RoomCodes -> Nat]
      /\ \A q \in RoomCodes : q # r => awaited'[q] = awaited[q]
      /\ awaited'[r] >= awaited[r] - 1 /\ awaited'[r] <= awaited[r]
  BY <1>1
<1>4. ServerTypeOK'
  BY <1>1, <1>2, <1>3 DEF QueueInvariant, ServerTypeOK
<1>5. /\ drop \in [RoomCodes -> {0, 1}] /\ new \in [RoomCodes -> Nat]
      /\ drop[r] = 1 /\ \A q \in RoomCodes : (q # r => drop[q] = 0) /\ drop[q] >= 0
  OBVIOUS
<1> HIDE DEF drop, new
<1>6. \A q \in RoomCodes : Moves(q, drop[q], {"command", "leave", "lost"}, new[q])
  <2> SUFFICES ASSUME NEW q \in RoomCodes
               PROVE  Moves(q, drop[q], {"command", "leave", "lost"}, new[q])
    OBVIOUS
  <2>1. CASE q = r
    BY <1>2, <1>5, <2>1, TailMoves
  <2>2. CASE q # r
    BY <1>1, <1>2, <1>5, <2>2, StillMoves
  <2>3. QED
    BY <2>1, <2>2
<1>7. \A q \in RoomCodes : Len(queues'[q]) # Len(queues[q]) - drop[q] + 1
  <2>1. \A q \in RoomCodes : Len(queues[q]) \in Nat /\ Len(queues'[q]) \in Nat
    BY <1>1, <1>2
  <2>2. Len(queues'[r]) = Len(queues[r]) - 1
    BY <1>2
  <2>3. Len(queues'[r]) # Len(queues[r]) - drop[r] + 1
    BY <1>5, <2>1, <2>2
  <2>4. \A q \in RoomCodes : q # r => Len(queues'[q]) # Len(queues[q]) - drop[q] + 1
    BY <1>2, <1>5, <2>1
  <2>5. QED
    BY <2>3, <2>4
<1>8. \A q \in RoomCodes : \A i \in 1..Len(queues[q]) :
        queues[q][i].kind = "create" /\ i > drop[q] =>
          /\ disposed' \/ queues[q][i].session \in sessions'
          /\ \A d \in Clients : who'[d] # queues[q][i].session
  BY DEF QueueInvariant, Newborn
<1>9. \A s \in sessions' : \E q \in RoomCodes : rooms'[q] = s
  BY DEF QueueInvariant, Housed
<1>10. AtHome' /\ Newborn' /\ Housed'
  BY <1>4, <1>5, <1>6, <1>7, <1>8, <1>9, QueuesKeep
<1>11. saving' \subseteq RoomCodes /\ \A q \in saving' : q # r
  BY DEF QueueInvariant, ServerTypeOK
<1>12. Written'
  BY <1>4, <1>5, <1>6, <1>11, WrittenKeeps
<1>13. Awaits'
  <2>1. \A q \in RoomCodes : awaited'[q] >= awaited[q] - drop[q]
    BY <1>1, <1>3, <1>5
  <2>2. stopping' \/ disposed' => \A q \in saving' : awaited'[q] >= 1
    BY <1>1, <1>3, <1>11 DEF QueueInvariant, Awaits
  <2>3. QED
    BY <1>1, <1>4, <1>5, <1>6, <2>1, <2>2, AwaitsKeeps
<1>14. Closed'
  <2>1. Drained => Drained'
    BY <1>1, <1>3 DEF Drained
  <2>2. QED
    BY <1>1, <2>1 DEF QueueInvariant, Closed
<1>15. QED
  BY <1>4, <1>10, <1>12, <1>13, <1>14 DEF QueueInvariant

\* An operation is found good and waits for its write.
LEMMA WriteStep ==
  ASSUME QueueInvariant, NEW r \in RoomCodes, r \notin saving, queues[r] # <<>>, ~Refuses(r, Head(queues[r])),
         saving' = saving \cup {r},
         sessions' = IF Head(queues[r]).kind = "leave" THEN sessions \ {Head(queues[r]).session} ELSE sessions,
         UNCHANGED <<conns, who, rooms, created, queues, disposed, awaited, closing>>
  PROVE  QueueInvariant'
<1> DEFINE op == queues[r][1]
<1>1. /\ Head(queues[r]) = op /\ 1 \in 1..Len(queues[r]) /\ queues \in [RoomCodes -> Seq(OpType)]
  BY DEF QueueInvariant, ServerTypeOK
<1>2. /\ op.kind # "create" => IsReady /\ op.session \in sessions
      /\ op.kind = "create" => ~disposed
  BY <1>1 DEF Refuses
<1>3. op.session \in 1..created /\ (op.session \in sessions => rooms[r] = op.session)
  BY <1>1 DEF QueueInvariant, AtHome
<1>4. ~disposed => op.session \in sessions /\ rooms[r] = op.session
  BY <1>1, <1>2, <1>3 DEF QueueInvariant, Newborn
<1>5. /\ sessions' = IF op.kind = "leave" THEN sessions \ {op.session} ELSE sessions
      /\ sessions' \subseteq sessions
      /\ UNCHANGED <<stopping, phase, repository>>
  BY <1>1 DEF closing
<1>6. ServerTypeOK'
  BY <1>5 DEF QueueInvariant, ServerTypeOK
<1> DEFINE drop == [q \in RoomCodes |-> 0]
           new == [q \in RoomCodes |-> 0]
<1>7. /\ drop \in [RoomCodes -> {0, 1}] /\ new \in [RoomCodes -> Nat]
      /\ \A q \in RoomCodes : drop[q] = 0 /\ new[q] = 0
  OBVIOUS
<1> HIDE DEF drop, new
<1>8. \A q \in RoomCodes : Moves(q, drop[q], {"command", "leave", "lost"}, new[q])
  BY <1>1, <1>7, StillMoves
<1>9. \A q \in RoomCodes : Len(queues'[q]) # Len(queues[q]) - drop[q] + 1
  BY <1>1, <1>7
<1>10. \A q \in RoomCodes : \A i \in 1..Len(queues[q]) :
        queues[q][i].kind = "create" /\ i > drop[q] =>
          /\ disposed' \/ queues[q][i].session \in sessions'
          /\ \A d \in Clients : who'[d] # queues[q][i].session
  <2> SUFFICES ASSUME NEW q \in RoomCodes, NEW i \in 1..Len(queues[q]), queues[q][i].kind = "create"
               PROVE  /\ disposed' \/ queues[q][i].session \in sessions'
                      /\ \A d \in Clients : who'[d] # queues[q][i].session
    OBVIOUS
  <2>1. op.session = queues[q][i].session => op = queues[q][i]
    BY <1>1 DEF QueueInvariant, Newborn
  <2>2. /\ disposed \/ queues[q][i].session \in sessions
        /\ \A d \in Clients : who[d] # queues[q][i].session
    BY DEF QueueInvariant, Newborn
  <2>3. op.kind = "leave" => op.session # queues[q][i].session
    BY <2>1
  <2>4. QED
    BY <1>5, <2>2, <2>3
<1>11. \A s \in sessions' : \E q \in RoomCodes : rooms'[q] = s
  BY <1>5 DEF QueueInvariant, Housed
<1>12. AtHome' /\ Newborn' /\ Housed'
  BY <1>5, <1>6, <1>7, <1>8, <1>9, <1>10, <1>11, QueuesKeep
<1>13. Written'
  <2> SUFFICES ASSUME NEW q \in saving'
               PROVE  /\ queues'[q] # <<>>
                      /\ ~disposed' => /\ rooms'[q] = queues'[q][1].session
                                       /\ queues'[q][1].kind = "leave" => queues'[q][1].session \notin sessions'
    BY DEF Written
  <2>1. CASE q = r
    BY <1>4, <1>5, <2>1
  <2>2. CASE q \in saving
    BY <1>5, <2>2 DEF QueueInvariant, Written
  <2>3. QED
    BY <2>1, <2>2
<1>14. Awaits'
  <2> SUFFICES ASSUME stopping \/ disposed
               PROVE  \A q \in RoomCodes :
                        /\ q \in saving' => awaited[q] >= 1
                        /\ ~disposed => \A i \in 1..Len(queues[q]) : queues[q][i].kind = "create" => i <= awaited[q]
    BY <1>5 DEF Awaits
  <2>1. \A q \in RoomCodes :
          /\ q \in saving => awaited[q] >= 1
          /\ ~disposed => \A i \in 1..Len(queues[q]) : queues[q][i].kind = "create" => i <= awaited[q]
    BY DEF QueueInvariant, Awaits
  <2>2. op.kind = "create" /\ ~disposed
    BY <1>2 DEF IsReady
  <2>3. awaited[r] >= 1
    BY <1>1, <2>1, <2>2 DEF QueueInvariant, ServerTypeOK
  <2>4. QED
    BY <2>1, <2>3
<1>15. Closed'
  BY <1>5 DEF QueueInvariant, Closed, Drained
<1>16. QED
  BY <1>6, <1>12, <1>13, <1>14, <1>15 DEF QueueInvariant

\* The first operation of a queue begins: a leave, or one that writes.
LEMMA BeginStep ==
  ASSUME QueueInvariant, NEW r \in RoomCodes, Begin(r)
  PROVE  QueueInvariant'
BY LeaveStep, WriteStep DEF Begin

\* The write of the first operation has settled well.
LEMMA SaveSucceedsStep ==
  ASSUME QueueInvariant, NEW r \in RoomCodes, SaveSucceeds(r)
  PROVE  QueueInvariant'
<1> DEFINE op == queues[r][1]
           gone == op.kind = "create" /\ op.client = None
           leave == Op("leave", op.session, None)
           stays == gone /\ ~disposed
           drop == [q \in RoomCodes |-> IF q = r THEN 1 ELSE 0]
           new == [q \in RoomCodes |-> op.session]
<1>1. /\ queues \in [RoomCodes -> Seq(OpType)] /\ awaited \in [RoomCodes -> Nat] /\ queues[r] # <<>>
      /\ Head(queues[r]) = op /\ 1 \in 1..Len(queues[r]) /\ r \in saving
  BY DEF QueueInvariant, ServerTypeOK, Written, SaveSucceeds
<1>2. /\ saving' = saving \ {r}
      /\ queues' = [queues EXCEPT ![r] = IF stays THEN Append(Tail(queues[r]), leave) ELSE Tail(queues[r])]
      /\ awaited' = [awaited EXCEPT ![r] = IF @ > 0 THEN @ - 1 ELSE 0]
      /\ rooms' = IF op.kind = "leave" /\ ~disposed THEN [rooms EXCEPT ![r] = None] ELSE rooms
      /\ who' = CASE op.kind = "create" /\ ~disposed /\ ~gone -> [who EXCEPT ![op.client] = op.session]
                  [] op.kind = "leave" /\ op.client # None -> [who EXCEPT ![op.client] = None]
                  [] OTHER -> who
      /\ UNCHANGED <<conns, sessions, created, disposed, stopping, phase, repository>>
  BY <1>1 DEF SaveSucceeds, closing
<1>3. op \in OpType /\ op.session \in 1..created /\ op.session \in Nat
  <2>1. op \in OpType
    BY <1>1
  <2>2. op.session \in 1..created
    BY <1>1 DEF QueueInvariant, AtHome
  <2>3. QED
    BY <2>1, <2>2 DEF OpType
<1>4. leave \in OpType /\ leave.kind = "leave" /\ leave.session = op.session
  BY <1>3 DEF Op, OpType
<1>5. ~disposed => rooms[r] = op.session /\ (op.kind = "leave" => op.session \notin sessions)
  BY <1>1 DEF QueueInvariant, Written
<1>6. \A c \in Clients : who'[c] \in {who[c], None} \/ (op.kind = "create" /\ who'[c] = op.session)
  BY <1>2 DEF QueueInvariant, ServerTypeOK
<1>7. who' \in [Clients -> 1..created \cup {None}]
  BY <1>2, <1>3 DEF QueueInvariant, ServerTypeOK, OpType
<1> HIDE DEF leave, gone
<1>8. /\ queues'[r] = IF stays THEN Append(Tail(queues[r]), leave) ELSE Tail(queues[r])
      /\ \A q \in RoomCodes : q # r => queues'[q] = queues[q]
  BY <1>1, <1>2
<1>9. queues' \in [RoomCodes -> Seq(OpType)]
  <2>1. Tail(queues[r]) \in Seq(OpType) /\ Append(Tail(queues[r]), leave) \in Seq(OpType)
    BY <1>1, <1>4
  <2>2. QED
    BY <1>1, <1>2, <2>1
<1>10. /\ awaited' \in [RoomCodes -> Nat]
       /\ \A q \in RoomCodes : q # r => awaited'[q] = awaited[q]
       /\ awaited'[r] >= awaited[r] - 1 /\ awaited'[r] <= awaited[r]
  BY <1>1, <1>2
<1>11. ServerTypeOK'
  BY <1>2, <1>7, <1>9, <1>10 DEF QueueInvariant, ServerTypeOK
<1>12. /\ drop \in [RoomCodes -> {0, 1}] /\ new \in [RoomCodes -> Nat]
       /\ drop[r] = 1 /\ \A q \in RoomCodes : (q # r => drop[q] = 0) /\ drop[q] >= 0 /\ new[q] = op.session
  BY <1>3
<1> HIDE DEF drop, new
<1>13. \A q \in RoomCodes : Moves(q, drop[q], {"command", "leave", "lost"}, new[q])
  <2> SUFFICES ASSUME NEW q \in RoomCodes
               PROVE  Moves(q, drop[q], {"command", "leave", "lost"}, new[q])
    OBVIOUS
  <2>1. CASE q = r /\ stays
    <3>1. Moves(r, 1, {"leave"}, op.session)
      BY <1>1, <1>4, <1>8, <2>1, TailAppendMoves
    <3>2. QED
      BY <1>12, <2>1, <3>1, WiderMoves
  <2>2. CASE q = r /\ ~stays
    BY <1>1, <1>8, <1>12, <2>2, TailMoves
  <2>3. CASE q # r
    BY <1>1, <1>8, <1>12, <2>3, StillMoves
  <2>4. QED
    BY <2>1, <2>2, <2>3
<1>14. \A q \in RoomCodes : Len(queues'[q]) = Len(queues[q]) - drop[q] + 1 => q = r /\ stays
  <2>1. \A q \in RoomCodes : Len(queues[q]) \in Nat /\ Len(queues'[q]) \in Nat
    BY <1>1, <1>9
  <2>2. ~stays => Len(queues'[r]) = Len(queues[r]) - 1
    BY <1>1, <1>8
  <2>3. ~stays => Len(queues'[r]) # Len(queues[r]) - drop[r] + 1
    BY <1>12, <2>1, <2>2
  <2>4. \A q \in RoomCodes : q # r => Len(queues'[q]) # Len(queues[q]) - drop[q] + 1
    BY <1>8, <1>12, <2>1
  <2>5. QED
    BY <2>3, <2>4
<1>15. \A q \in RoomCodes : \A i \in 1..Len(queues[q]) :
         (op.kind = "create" \/ queues[q][i].kind = "create") /\ queues[q][i].session = op.session => q = r /\ i = 1
  BY <1>1 DEF QueueInvariant, Newborn
<1>16. \A q \in RoomCodes : Len(queues'[q]) = Len(queues[q]) - drop[q] + 1 =>
        /\ new[q] \in 1..created
        /\ new[q] \in sessions' => rooms'[q] = new[q]
        /\ \A p \in RoomCodes : \A i \in 1..Len(queues[p]) :
             queues[p][i].kind = "create" /\ queues[p][i].session = new[q] => i <= drop[p]
  <2> SUFFICES ASSUME NEW q \in RoomCodes, q = r, stays
               PROVE  /\ new[q] \in 1..created
                      /\ new[q] \in sessions' => rooms'[q] = new[q]
                      /\ \A p \in RoomCodes : \A i \in 1..Len(queues[p]) :
                           queues[p][i].kind = "create" /\ queues[p][i].session = new[q] => i <= drop[p]
    BY <1>14
  <2>1. new[q] = op.session /\ op.kind = "create" /\ ~disposed
    BY <1>12 DEF gone
  <2>2. rooms'[q] = new[q]
    BY <1>2, <1>5, <2>1
  <2>3. QED
    BY <1>3, <1>12, <1>15, <2>1, <2>2
<1>17. \A q \in RoomCodes : \A i \in 1..Len(queues[q]) :
        queues[q][i].kind = "create" /\ i > drop[q] =>
          /\ disposed' \/ queues[q][i].session \in sessions'
          /\ \A d \in Clients : who'[d] # queues[q][i].session
  <2> SUFFICES ASSUME NEW q \in RoomCodes, NEW i \in 1..Len(queues[q]), queues[q][i].kind = "create", i > drop[q]
               PROVE  /\ disposed \/ queues[q][i].session \in sessions
                      /\ \A d \in Clients : who'[d] # queues[q][i].session
    BY <1>2
  <2>1. /\ disposed \/ queues[q][i].session \in sessions
        /\ \A d \in Clients : who[d] # queues[q][i].session
        /\ queues[q][i].session # None
    BY ServerAssumption DEF QueueInvariant, Newborn, AtHome
  <2>2. ~(q = r /\ i = 1)
    BY <1>12
  <2>3. queues[q][i].session # op.session
    BY <1>15, <2>2
  <2>4. QED
    BY <1>6, <2>1, <2>3
<1>18. \A q \in RoomCodes : rooms'[q] = rooms[q] \/ (rooms'[q] = None /\ rooms[q] \notin sessions')
  BY <1>2, <1>5 DEF QueueInvariant, ServerTypeOK
<1>19. \A s \in sessions' : \E q \in RoomCodes : rooms'[q] = s
  <2> SUFFICES ASSUME NEW s \in sessions
               PROVE  \E q \in RoomCodes : rooms'[q] = s
    BY <1>2
  <2>1. PICK q \in RoomCodes : rooms[q] = s
    BY DEF QueueInvariant, Housed
  <2>2. rooms'[q] = rooms[q]
    BY <1>2, <1>18, <2>1
  <2>3. QED
    BY <2>1, <2>2
<1>20. AtHome' /\ Newborn' /\ Housed'
  BY <1>2, <1>11, <1>12, <1>13, <1>16, <1>17, <1>18, <1>19, QueuesKeep
<1>21. saving' \subseteq RoomCodes /\ \A q \in saving' : q # r /\ q \in saving
  BY <1>2 DEF QueueInvariant, ServerTypeOK
<1>22. Written'
  <2>1. \A q \in saving' : rooms'[q] = rooms[q]
    BY <1>2, <1>21 DEF QueueInvariant, ServerTypeOK
  <2>2. QED
    BY <1>2, <1>11, <1>12, <1>13, <1>21, <2>1, WrittenKeeps
<1>23. Awaits'
  <2>1. \A q \in RoomCodes : awaited'[q] >= awaited[q] - drop[q]
    <3>1. awaited'[r] >= awaited[r] - drop[r]
      BY <1>10, <1>12
    <3>2. \A q \in RoomCodes : q # r => awaited'[q] >= awaited[q] - drop[q]
      BY <1>1, <1>10, <1>12
    <3>3. QED
      BY <3>1, <3>2
  <2>2. stopping' \/ disposed' => \A q \in saving' : awaited'[q] >= 1
    BY <1>2, <1>10, <1>21 DEF QueueInvariant, Awaits
  <2>3. QED
    BY <1>2, <1>11, <1>12, <1>13, <2>1, <2>2, AwaitsKeeps
<1>24. Closed'
  <2>1. Drained => Drained'
    BY <1>1, <1>10 DEF Drained
  <2>2. disposed => rooms' = rooms
    BY <1>2
  <2>3. QED
    BY <1>2, <2>1, <2>2 DEF QueueInvariant, Closed
<1>25. QED
  BY <1>11, <1>20, <1>22, <1>23, <1>24 DEF QueueInvariant

\* The write fails: the service is disposed of, and what its queues hold then
\* is what a shutdown will wait for.
LEMMA SaveFailsStep ==
  ASSUME QueueInvariant, NEW r \in RoomCodes, SaveFails(r)
  PROVE  QueueInvariant'
<1> DEFINE drop == [q \in RoomCodes |-> IF q = r THEN 1 ELSE 0]
           new == [q \in RoomCodes |-> 0]
<1>1. /\ queues \in [RoomCodes -> Seq(OpType)] /\ awaited \in [RoomCodes -> Nat] /\ queues[r] # <<>>
      /\ queues' = [queues EXCEPT ![r] = Tail(@)]
      /\ awaited' = IF stopping \/ disposed
                    THEN [awaited EXCEPT ![r] = IF @ > 0 THEN @ - 1 ELSE 0]
                    ELSE [q \in RoomCodes |-> Len(queues'[q])]
      /\ saving' = saving \ {r} /\ saving \subseteq RoomCodes
      /\ disposed' = TRUE /\ rooms' = [q \in RoomCodes |-> None] /\ sessions' = {}
      /\ UNCHANGED <<conns, who, created, stopping, phase, repository>>
  BY DEF QueueInvariant, ServerTypeOK, Written, SaveFails, Dispose, closing
<1>2. /\ queues'[r] = Tail(queues[r]) /\ queues[r] \in Seq(OpType)
      /\ \A q \in RoomCodes : q # r => queues'[q] = queues[q]
      /\ queues' \in [RoomCodes -> Seq(OpType)]
  BY <1>1
<1>3. \A q \in RoomCodes : Len(queues'[q]) \in Nat /\ Len(queues[q]) \in Nat
  BY <1>1, <1>2
<1>4. awaited' \in [RoomCodes -> Nat]
  BY <1>1, <1>3
<1>5. ServerTypeOK'
  BY <1>1, <1>2, <1>4 DEF QueueInvariant, ServerTypeOK
<1>6. /\ drop \in [RoomCodes -> {0, 1}] /\ new \in [RoomCodes -> Nat]
      /\ drop[r] = 1 /\ \A q \in RoomCodes : (q # r => drop[q] = 0) /\ drop[q] >= 0
  OBVIOUS
<1> HIDE DEF drop, new
<1>7. \A q \in RoomCodes : Moves(q, drop[q], {"command", "leave", "lost"}, new[q])
  <2> SUFFICES ASSUME NEW q \in RoomCodes
               PROVE  Moves(q, drop[q], {"command", "leave", "lost"}, new[q])
    OBVIOUS
  <2>1. CASE q = r
    BY <1>1, <1>2, <1>6, <2>1, TailMoves
  <2>2. CASE q # r
    BY <1>1, <1>2, <1>6, <2>2, StillMoves
  <2>3. QED
    BY <2>1, <2>2
<1>8. \A q \in RoomCodes : Len(queues'[q]) # Len(queues[q]) - drop[q] + 1
  <2>1. Len(queues'[r]) = Len(queues[r]) - 1
    BY <1>1, <1>2
  <2>2. Len(queues'[r]) # Len(queues[r]) - drop[r] + 1
    BY <1>3, <1>6, <2>1
  <2>3. \A q \in RoomCodes : q # r => Len(queues'[q]) # Len(queues[q]) - drop[q] + 1
    BY <1>2, <1>3, <1>6
  <2>4. QED
    BY <2>2, <2>3
<1>9. \A q \in RoomCodes : \A i \in 1..Len(queues[q]) :
        queues[q][i].kind = "create" /\ i > drop[q] =>
          /\ disposed' \/ queues[q][i].session \in sessions'
          /\ \A d \in Clients : who'[d] # queues[q][i].session
  BY <1>1 DEF QueueInvariant, Newborn
<1>10. AtHome' /\ Newborn' /\ Housed'
  BY <1>1, <1>5, <1>6, <1>7, <1>8, <1>9, QueuesKeep
<1>11. Written'
  BY <1>1, <1>5, <1>6, <1>7, WrittenKeeps
<1>12. Awaits'
  <2> SUFFICES ASSUME NEW q \in saving'
               PROVE  awaited'[q] >= 1
    BY <1>1 DEF Awaits
  <2>1. q \in RoomCodes /\ q \in saving /\ q # r
    BY <1>1
  <2>2. CASE stopping \/ disposed
    BY <1>1, <2>1, <2>2 DEF QueueInvariant, Awaits
  <2>3. CASE ~(stopping \/ disposed)
    <3>1. queues'[q] = queues[q] /\ queues[q] # <<>> /\ queues[q] \in Seq(OpType)
      BY <1>1, <1>2, <2>1 DEF QueueInvariant, Written
    <3>2. Len(queues'[q]) >= 1
      BY <3>1
    <3>3. QED
      BY <1>1, <2>1, <2>3, <3>2
  <2>4. QED
    BY <2>2, <2>3
<1>13. Closed'
  <2>1. stopping /\ Drained => Drained'
    BY <1>1 DEF Drained
  <2>2. QED
    BY <1>1, <2>1 DEF QueueInvariant, Closed
<1>14. QED
  BY <1>5, <1>10, <1>11, <1>12, <1>13 DEF QueueInvariant

\* The signal: what the queues hold then is what the shutdown waits for.
LEMMA ShutdownStep ==
  ASSUME QueueInvariant, Shutdown
  PROVE  QueueInvariant'
<1>1. /\ UNCHANGED <<conns, who, rooms, sessions, created, queues, saving, disposed, repository>>
      /\ ~stopping /\ stopping' = TRUE /\ phase' = "draining"
      /\ awaited' = IF disposed THEN awaited ELSE [r \in RoomCodes |-> Len(queues[r])]
  BY DEF Shutdown, Lengths
<1>2. \A r \in RoomCodes : queues[r] \in Seq(OpType) /\ Len(queues[r]) \in Nat /\ awaited[r] \in Nat
  BY DEF QueueInvariant, ServerTypeOK
<1>3. ServerTypeOK'
  <2>1. awaited' \in [RoomCodes -> Nat]
    BY <1>1, <1>2 DEF QueueInvariant, ServerTypeOK
  <2>2. QED
    BY <1>1, <2>1 DEF QueueInvariant, ServerTypeOK
<1>4. AtHome' /\ Newborn' /\ Housed' /\ Written'
  BY <1>1 DEF QueueInvariant, AtHome, Newborn, Housed, Written
<1>5. Awaits'
  <2>1. CASE disposed
    BY <1>1, <2>1 DEF QueueInvariant, Awaits
  <2>2. CASE ~disposed
    <3>1. \A r \in saving : r \in RoomCodes /\ Len(queues[r]) >= 1
      BY <1>2 DEF QueueInvariant, ServerTypeOK, Written
    <3>2. \A r \in RoomCodes : awaited'[r] = Len(queues[r])
      BY <1>1, <2>2
    <3>3. QED
      BY <1>1, <1>2, <3>1, <3>2 DEF Awaits
  <2>3. QED
    BY <2>1, <2>2
<1>6. Closed'
  BY <1>1 DEF QueueInvariant, Closed
<1>7. QED
  BY <1>3, <1>4, <1>5, <1>6 DEF QueueInvariant

\* The last step of a shutdown: the service is disposed of.
LEMMA ReleaseStep ==
  ASSUME QueueInvariant, Release
  PROVE  QueueInvariant'
<1>1. /\ UNCHANGED <<conns, who, created, queues, saving, awaited, stopping>>
      /\ phase = "releasing" /\ phase' = "ended" /\ repository' = "closed"
      /\ disposed' = TRUE /\ rooms' = [r \in RoomCodes |-> None] /\ sessions' = {}
  BY DEF Release, Dispose
<1>2. ServerTypeOK'
  BY <1>1 DEF QueueInvariant, ServerTypeOK
<1>3. AtHome' /\ Newborn' /\ Written'
  BY <1>1 DEF QueueInvariant, AtHome, Newborn, Written
<1>4. Housed'
  <2>1. {r \in RoomCodes : rooms'[r] # None} = {}
    BY <1>1
  <2>2. Cardinality({r \in RoomCodes : rooms'[r] # None}) = 0 /\ MaxRooms >= 0
    <3>1. Cardinality(RoomCodes) \in Nat
      BY FS_CardinalityType, ServerAssumption
    <3>2. MaxRooms \in Nat
      BY <3>1, ServerAssumption
    <3>3. QED
      BY <2>1, <3>2, FS_EmptySet
  <2>3. QED
    BY <1>1, <2>2 DEF Housed
<1>5. Awaits'
  BY <1>1 DEF QueueInvariant, Awaits, Closed
<1>6. Closed'
  BY <1>1 DEF QueueInvariant, Closed, Drained
<1>7. QED
  BY <1>2, <1>3, <1>4, <1>5, <1>6 DEF QueueInvariant

-----------------------------------------------------------------------------
(* The theorems about the queues.                                          *)

\* The service starts with nothing admitted.
LEMMA QueuesStart == Init => QueueInvariant
<1> SUFFICES ASSUME Init
             PROVE  QueueInvariant
  OBVIOUS
<1>1. ServerTypeOK
  <2>1. <<>> \in Seq(OpType)
    OBVIOUS
  <2>2. queues \in [RoomCodes -> Seq(OpType)]
    BY <2>1 DEF Init
  <2>3. QED
    BY <2>2 DEF Init, ServerTypeOK
<1>2. Housed
  <2>1. {r \in RoomCodes : rooms[r] # None} = {}
    BY DEF Init
  <2>2. Cardinality({r \in RoomCodes : rooms[r] # None}) = 0 /\ MaxRooms >= 0
    <3>1. Cardinality(RoomCodes) \in Nat
      BY FS_CardinalityType, ServerAssumption
    <3>2. MaxRooms \in Nat
      BY <3>1, ServerAssumption
    <3>3. QED
      BY <2>1, <3>2, FS_EmptySet
  <2>3. QED
    BY <2>2 DEF Init, Housed
<1>3. AtHome /\ Newborn /\ Written /\ Awaits
  BY DEF Init, AtHome, Newborn, Written, Awaits
<1>4. Closed
  BY DEF Init, Closed
<1>5. QED
  BY <1>1, <1>2, <1>3, <1>4 DEF QueueInvariant

\* Every step of the server keeps the invariant of its queues.
LEMMA QueuesStep ==
  ASSUME QueueInvariant, [Next]_vars
  PROVE  QueueInvariant'
<1>1. CASE UNCHANGED vars
  BY <1>1 DEF vars, service, closing, QueueInvariant, ServerTypeOK, AtHome, Newborn, Housed, Written, Awaits,
              Closed, Drained
<1>2. ASSUME NEW c \in Clients, Handshake(c) \/ Attach(c) \/ Get(c)
      PROVE  QueueInvariant'
  <2>1. UNCHANGED <<service, who, closing>> /\ \E s \in {"none", "handshake", "socket", "http"} :
          conns' = [conns EXCEPT ![c] = s] \/ conns' = conns
    BY <1>2 DEF Handshake, Attach, Get
  <2>2. ServerTypeOK'
    BY <2>1 DEF QueueInvariant, ServerTypeOK, service, closing
  <2>3. QED
    BY <2>1, <2>2, QuietStep
<1>3. CASE Tick \/ Watch
  <2>1. UNCHANGED <<service, who, closing, conns>>
    BY <1>3 DEF Tick, Watch
  <2>2. ServerTypeOK'
    BY <2>1 DEF QueueInvariant, ServerTypeOK, service, closing
  <2>3. QED
    BY <2>1, <2>2, QuietStep
<1>4. CASE AllClosed \/ Deadline
  <2>1. /\ UNCHANGED <<service, who, stopping, repository>> /\ phase = "closing" /\ phase' = "releasing"
        /\ conns' = conns \/ conns' = [c \in Clients |-> "none"]
    BY <1>4 DEF AllClosed, Deadline
  <2>2. ServerTypeOK'
    BY <2>1 DEF QueueInvariant, ServerTypeOK, service
  <2>3. QED
    BY <2>1, <2>2, QuietStep
<1>5. QED
  BY <1>1, <1>2, <1>3, <1>4, EndConnectionStep, RequestStep, BeginStep, SaveSucceedsStep, SaveFailsStep,
     ShutdownStep, CloseRealtimeStep, ReleaseStep DEF Next, Proceed

\* The invariant of the queues holds in every reachable state.
THEOREM QueueInvariantHolds == Spec => []QueueInvariant
<1>1. QueueInvariant /\ [Next]_vars => QueueInvariant'
  BY QueuesStep
<1>2. QED
  BY <1>1, QueuesStart, PTL DEF Spec

\* From the moment the store is flushed or closed on, nothing is written: a
\* shutdown has waited for every write, and for every creation, the one
\* operation that may still begin one.
THEOREM NothingWrittenAfterDrain == Spec => []QuietAfterDrain
<1>1. QueueInvariant => QuietAfterDrain
  <2> SUFFICES ASSUME QueueInvariant, phase \in {"closing", "releasing", "ended"} \/ repository = "closed"
               PROVE  saving = {}
    BY DEF QuietAfterDrain
  <2>1. phase \in {"closing", "releasing", "ended"} /\ stopping /\ Drained
    BY DEF QueueInvariant, Closed
  <2>2. \A r \in saving : r \in RoomCodes /\ awaited[r] >= 1
    BY <2>1 DEF QueueInvariant, Awaits, ServerTypeOK
  <2>3. \A r \in RoomCodes : awaited[r] = 0
    BY <2>1 DEF Drained
  <2>4. QED
    BY <2>2, <2>3
<1>2. QED
  BY <1>1, QueueInvariantHolds, PTL

\* What is being written belongs to the Room that has the code now, also when
\* another Room had it before.
THEOREM WritesBelong == Spec => []WritesOwnRoom
<1>1. QueueInvariant => WritesOwnRoom
  <2> SUFFICES ASSUME QueueInvariant, NEW r \in saving, ~disposed
               PROVE  rooms[r] = Head(queues[r]).session
    BY DEF WritesOwnRoom
  <2>1. r \in RoomCodes /\ queues[r] # <<>> /\ rooms[r] = queues[r][1].session /\ queues[r] \in Seq(OpType)
    BY DEF QueueInvariant, Written, ServerTypeOK
  <2>2. QED
    BY <2>1
<1>2. QED
  BY <1>1, QueueInvariantHolds, PTL

-----------------------------------------------------------------------------
(* What the operations of a limiter keep.                                  *)

\* Limiter m is l after an operation: it has the bucket of connections as it
\* was, and those of the browsers other than the ones that are gone.
Keeps(l, m, n, gone) ==
  /\ Shaped(m, n) /\ m.buckets[Connect] = l.buckets[Connect] /\ m.disposed = l.disposed
  /\ \A key \in TransportUses \X (Clients \ gone) : key \in DOMAIN l.buckets => key \in DOMAIN m.buckets

\* The bucket of connections is the server's own.
LEMMA ConnectKey ==
  /\ \A l, n : Shaped(l, n) => Connect \in DOMAIN l.buckets
  /\ "connect" \notin TransportUses \cup SessionUses /\ "commands" \notin TransportUses \cup ServerUses
BY LimiterAssumption DEF Connect, Shaped, ServerUses, TransportUses, SessionUses

\* Whatever keys it takes tokens from, no bucket comes or goes.
LEMMA TakeKeeps ==
  ASSUME NEW l, NEW n, Shaped(l, n), NEW keys, \A i \in DOMAIN keys : <<keys[i][2], keys[i][3]>> # Connect
  PROVE  /\ Keeps(l, Take(l, keys).limiter, n, {})
         /\ DOMAIN Take(l, keys).limiter.buckets = DOMAIN l.buckets
<1> DEFINE m == Take(l, keys).limiter
<1>1. PICK f, touched : /\ m = [l EXCEPT !.buckets = f] /\ DOMAIN f = DOMAIN l.buckets
                        /\ touched \subseteq {<<keys[i][2], keys[i][3]>> : i \in DOMAIN keys}
                        /\ \A key \in DOMAIN l.buckets : key \notin touched => f[key] = l.buckets[key]
  <2> DEFINE at(i) == <<keys[i][2], keys[i][3]>>
             refilled(i) == Refilled(l.buckets[at(i)], keys[i][1], keys[i][2])
             empty == {i \in DOMAIN keys : refilled(i).tokens < 1}
             taken == {i \in DOMAIN keys : \A j \in empty : i < j}
             index(key) == CHOOSE i \in DOMAIN keys : at(i) = key
             touched == {at(i) : i \in {j \in DOMAIN keys : \A k \in empty : j <= k}}
             g(key) == IF key \notin touched THEN l.buckets[key]
                       ELSE IF index(key) \in taken THEN [refilled(index(key)) EXCEPT !.tokens = @ - 1]
                       ELSE refilled(index(key))
             f == [key \in DOMAIN l.buckets |-> g(key)]
  <2>1. m = [l EXCEPT !.buckets = f]
    BY DEF Take
  <2>2. touched \subseteq {at(i) : i \in DOMAIN keys}
    OBVIOUS
  <2>3. \A key \in DOMAIN l.buckets : key \notin touched => f[key] = l.buckets[key]
    OBVIOUS
  <2>4. DOMAIN f = DOMAIN l.buckets
    OBVIOUS
  <2> HIDE DEF f, touched
  <2>5. QED
    BY <2>1, <2>2, <2>3, <2>4
<1> HIDE DEF m
<1>2. DOMAIN m = DOMAIN l /\ m.buckets = f /\ m.disposed = l.disposed
  BY <1>1 DEF Shaped
<1>3. Connect \in DOMAIN l.buckets /\ Connect \notin touched
  BY <1>1, ConnectKey
<1>4. Shaped(m, n)
  BY <1>1, <1>2 DEF Shaped
<1>5. QED
  BY <1>1, <1>2, <1>3, <1>4 DEF Keeps, m

\* Buckets of browsers and sessions may be given up.
LEMMA OnlyKeeps ==
  ASSUME NEW l, NEW n, Shaped(l, n), NEW keys \in SUBSET DOMAIN l.buckets, ServerUses \X {Server} \subseteq keys,
         NEW m, DOMAIN m = DOMAIN l, m.disposed = l.disposed, m.buckets = Only(l.buckets, keys),
         NEW gone, \A key \in TransportUses \X (Clients \ gone) : key \in DOMAIN l.buckets => key \in keys
  PROVE  Keeps(l, m, n, gone)
<1>1. DOMAIN m.buckets = keys /\ \A key \in keys : m.buckets[key] = l.buckets[key]
  BY DEF Only
<1>2. Connect \in keys
  BY DEF Connect, ServerUses
<1>3. QED
  BY <1>1, <1>2 DEF Keeps, Shaped

\* Buckets of a browser or a session may be new.
LEMMA MoreKeeps ==
  ASSUME NEW l, NEW n, Shaped(l, n),
         NEW keys \in SUBSET ((TransportUses \X Clients) \cup (SessionUses \X (1..n))),
         NEW f, DOMAIN f = DOMAIN l.buckets \cup keys, \A key \in DOMAIN l.buckets : f[key] = l.buckets[key],
         NEW m, m = [l EXCEPT !.buckets = f]
  PROVE  Keeps(l, m, n, {}) /\ DOMAIN m.buckets = DOMAIN l.buckets \cup keys
<1>1. DOMAIN m = DOMAIN l /\ m.disposed = l.disposed /\ m.buckets = f
  BY DEF Shaped
<1>2. Connect \in DOMAIN l.buckets
  BY ConnectKey
<1>3. QED
  BY <1>1, <1>2 DEF Keeps, Shaped

\* The sessions that have buckets are known by the one for commands.
LEMMA SessionsKnown ==
  ASSUME NEW l, NEW n, Shaped(l, n)
  PROVE  WithSession(l) = {s \in 1..n : <<"commands", s>> \in DOMAIN l.buckets}
<1>1. \A key \in DOMAIN l.buckets : key[1] = "commands" => key \in SessionUses \X (1..n)
  BY ConnectKey DEF Shaped
<1>2. ASSUME NEW s
      PROVE  s \in WithSession(l) <=> s \in 1..n /\ <<"commands", s>> \in DOMAIN l.buckets
  <2>1. ASSUME s \in WithSession(l)
        PROVE  s \in 1..n /\ <<"commands", s>> \in DOMAIN l.buckets
    <3>1. PICK key \in DOMAIN l.buckets : key[1] = "commands" /\ s = key[2]
      BY <2>1 DEF WithSession, Owners
    <3>2. key \in SessionUses \X (1..n)
      BY <1>1, <3>1
    <3>3. QED
      BY <3>1, <3>2
  <2>2. ASSUME s \in 1..n, <<"commands", s>> \in DOMAIN l.buckets
        PROVE  s \in WithSession(l)
    <3>1. PICK key : key = <<"commands", s>>
      OBVIOUS
    <3>2. key \in DOMAIN l.buckets /\ key[1] = "commands" /\ key[2] = s
      BY <2>2, <3>1
    <3>3. QED
      BY <3>2 DEF WithSession, Owners
  <2>3. QED
    BY <2>1, <2>2
<1>3. QED
  BY <1>2

\* A limiter that keeps the counts twice keeps them.
LEMMA KeepsTwice ==
  ASSUME NEW l, NEW m, NEW k, NEW n, Keeps(l, m, n, {}), Keeps(m, k, n, {})
  PROVE  Keeps(l, k, n, {})
BY DEF Keeps

\* A pruned limiter has the buckets of the sessions that exist, and of nobody less.
LEMMA PruneKeeps ==
  ASSUME NEW l, NEW n \in Nat, Shaped(l, n), NEW existing
  PROVE  /\ Keeps(l, Prune(l, existing), n, {})
         /\ WithSession(Prune(l, existing)) \subseteq existing
         /\ DOMAIN Prune(l, existing).buckets \subseteq DOMAIN l.buckets
         /\ \A key \in DOMAIN Prune(l, existing).buckets : Prune(l, existing).buckets[key] = l.buckets[key]
         /\ ServerUses \X {Server} \subseteq DOMAIN Prune(l, existing).buckets
<1> DEFINE m == Prune(l, existing)
           keys == {key \in DOMAIN l.buckets : key[2] \notin WithSession(l) \ existing}
<1>1. DOMAIN m = DOMAIN l /\ m.disposed = l.disposed /\ m.buckets = Only(l.buckets, keys)
  BY DEF Prune, Shaped
<1>2. WithSession(l) \subseteq Nat
  <2>1. WithSession(l) = {s \in 1..n : <<"commands", s>> \in DOMAIN l.buckets}
    BY SessionsKnown
  <2>2. QED
    BY <2>1
<1>3. ServerUses \X {Server} \subseteq keys
  BY <1>2, ServerAssumption DEF Shaped
<1>4. \A key \in TransportUses \X (Clients \ {}) : key \in DOMAIN l.buckets => key \in keys
  BY <1>2, ServerAssumption
<1>5. keys \in SUBSET DOMAIN l.buckets
  OBVIOUS
<1> HIDE DEF m
<1>6. Keeps(l, m, n, {})
  <2> HIDE DEF keys
  <2>1. QED
    BY <1>1, <1>3, <1>4, <1>5, OnlyKeeps
<1>7. DOMAIN m.buckets = keys /\ \A key \in keys : m.buckets[key] = l.buckets[key]
  BY <1>1 DEF Only
<1>8. WithSession(m) \subseteq existing
  <2> SUFFICES ASSUME NEW s \in WithSession(m)
               PROVE  s \in existing
    OBVIOUS
  <2>1. s \in 1..n /\ <<"commands", s>> \in keys
    BY <1>6, <1>7, SessionsKnown DEF Keeps
  <2>2. s \in WithSession(l)
    BY <2>1, SessionsKnown
  <2>3. QED
    BY <2>1, <2>2
<1>9. QED
  BY <1>3, <1>6, <1>7, <1>8 DEF m

\* A session that gets its buckets is known from then on.
LEMMA AddSessionKeeps ==
  ASSUME NEW l, NEW n, Shaped(l, n), NEW s \in 1..n
  PROVE  Keeps(l, AddSession(l, s), n, {}) /\ s \in WithSession(AddSession(l, s))
<1> DEFINE keys == SessionUses \X {s}
           f == [key \in DOMAIN l.buckets \cup keys |->
                   IF key \in DOMAIN l.buckets THEN l.buckets[key] ELSE Fresh("session", key[1])]
           m == AddSession(l, s)
<1>1. keys \in SUBSET ((TransportUses \X Clients) \cup (SessionUses \X (1..n)))
  OBVIOUS
<1>2. m = [l EXCEPT !.buckets = f]
  BY DEF AddSession
<1>3. <<"commands", s>> \in keys
  BY DEF SessionUses
<1>4. DOMAIN f = DOMAIN l.buckets \cup keys /\ \A key \in DOMAIN l.buckets : f[key] = l.buckets[key]
  OBVIOUS
<1> HIDE DEF keys, f, m
<1>5. Keeps(l, m, n, {}) /\ DOMAIN m.buckets = DOMAIN l.buckets \cup keys
  BY <1>1, <1>2, <1>4, MoreKeeps
<1>6. s \in WithSession(m)
  BY <1>3, <1>5, SessionsKnown DEF Keeps
<1>7. QED
  BY <1>5, <1>6 DEF m

\* A browser that attaches has all its buckets then.
LEMMA AttachKeeps ==
  ASSUME NEW l, NEW n, Shaped(l, n), NEW t \in Clients
  PROVE  /\ Keeps(l, AttachTransport(l, t).limiter, n, {})
         /\ AttachTransport(l, t).ok => TransportUses \X {t} \subseteq DOMAIN AttachTransport(l, t).limiter.buckets
<1> DEFINE refuses == l.disposed \/ Cardinality(Transports(l)) >= MaxTransports \/ t \in Transports(l)
           keys == TransportUses \X {t}
           f == [key \in DOMAIN l.buckets \cup keys |->
                   IF key \in DOMAIN l.buckets THEN l.buckets[key] ELSE Fresh("transport", key[1])]
           m == [l EXCEPT !.buckets = f]
<1>1. AttachTransport(l, t) = IF refuses THEN [ok |-> FALSE, limiter |-> l] ELSE [ok |-> TRUE, limiter |-> m]
  BY DEF AttachTransport, Refused
<1>2. Keeps(l, l, n, {})
  BY DEF Keeps
<1>3. keys \in SUBSET ((TransportUses \X Clients) \cup (SessionUses \X (1..n)))
  OBVIOUS
<1>4. DOMAIN f = DOMAIN l.buckets \cup keys /\ \A key \in DOMAIN l.buckets : f[key] = l.buckets[key]
  OBVIOUS
<1> HIDE DEF keys, f, refuses
<1>5. Keeps(l, m, n, {}) /\ DOMAIN m.buckets = DOMAIN l.buckets \cup keys
  BY <1>3, <1>4, MoreKeeps
<1> HIDE DEF m
<1>6. QED
  BY <1>1, <1>2, <1>5 DEF keys

\* A browser whose connection has ended loses its buckets, nobody else does.
LEMMA ForgetKeeps ==
  ASSUME NEW l, NEW n, Shaped(l, n), NEW t \in Clients
  PROVE  Keeps(l, ForgetTransport(l, t), n, {t})
<1> DEFINE keys == {key \in DOMAIN l.buckets : key[2] # t}
           m == ForgetTransport(l, t)
<1>1. DOMAIN m = DOMAIN l /\ m.disposed = l.disposed /\ m.buckets = Only(l.buckets, keys)
  BY DEF ForgetTransport, Shaped
<1>2. ServerUses \X {Server} \subseteq keys
  BY ServerAssumption DEF Shaped
<1>3. \A key \in TransportUses \X (Clients \ {t}) : key \in DOMAIN l.buckets => key \in keys
  OBVIOUS
<1>4. keys \in SUBSET DOMAIN l.buckets
  OBVIOUS
<1> HIDE DEF keys
<1>5. QED
  BY <1>1, <1>2, <1>3, <1>4, OnlyKeeps

\* The buckets a request takes from.
LEMMA TransportKeysAre ==
  ASSUME NEW t \in Clients, NEW event
  PROVE  \A i \in DOMAIN TransportKeys(t, event) :
           /\ <<TransportKeys(t, event)[i][2], TransportKeys(t, event)[i][3]>>
                \in (ServerUses \X {Server}) \cup (TransportUses \X {t})
           /\ <<TransportKeys(t, event)[i][2], TransportKeys(t, event)[i][3]>> # Connect
<1>1. CASE event \in Attaching
  <2>1. TransportKeys(t, event) = <<<<"server", "all", Server>>, <<"transport", "all", t>>,
                                    <<"transport", event, t>>, <<"server", event, Server>>>>
    BY <1>1 DEF TransportKeys
  <2>2. QED
    BY <1>1, <2>1, ServerAssumption, LimiterAssumption DEF ServerUses, TransportUses, Connect
<1>2. CASE event \notin Attaching
  <2>1. TransportKeys(t, event) = <<<<"server", "all", Server>>, <<"transport", "all", t>>>>
    BY <1>2 DEF TransportKeys
  <2>2. QED
    BY <1>2, <2>1, ServerAssumption DEF ServerUses, TransportUses, Connect
<1>3. QED
  BY <1>1, <1>2

\* No key of a session is the key that connections are counted under.
LEMMA SessionKeysAre ==
  ASSUME NEW s, NEW event
  PROVE  \A i \in DOMAIN SessionKeys(s, event) :
           <<SessionKeys(s, event)[i][2], SessionKeys(s, event)[i][3]>> # Connect
<1>1. CASE event = "command"
  <2>1. SessionKeys(s, event) = <<<<"session", "all", s>>, <<"session", "commands", s>>>>
    BY <1>1 DEF SessionKeys
  <2>2. QED
    BY <2>1 DEF Connect
<1>2. CASE event # "command"
  <2>1. SessionKeys(s, event) = <<<<"session", "all", s>>>>
    BY <1>2 DEF SessionKeys
  <2>2. QED
    BY <2>1 DEF Connect
<1>3. QED
  BY <1>1, <1>2

\* Whether the buckets suffice depends on those buckets alone.
LEMMA SameVerdict ==
  ASSUME NEW l, NEW m, NEW keys,
         \A i \in DOMAIN keys : m.buckets[<<keys[i][2], keys[i][3]>>] = l.buckets[<<keys[i][2], keys[i][3]>>]
  PROVE  Take(m, keys).ok = Take(l, keys).ok
<1> DEFINE empty(k) == {i \in DOMAIN keys : Refilled(k.buckets[<<keys[i][2], keys[i][3]>>], keys[i][1], keys[i][2]).tokens < 1}
<1>1. Take(m, keys).ok = (empty(m) = {}) /\ Take(l, keys).ok = (empty(l) = {})
  BY DEF Take
<1>2. empty(m) = empty(l)
  OBVIOUS
<1>3. QED
  BY <1>1, <1>2

\* A session that exists finds room in the table of buckets, which prunes the
\* sessions that do not when it is full.
LEMMA SessionFits ==
  ASSUME NEW l, NEW n \in Nat, Shaped(l, n), NEW existing \in SUBSET (1..n), Cardinality(existing) <= MaxSessions,
         NEW s \in existing
  PROVE  /\ SessionBucket(l, s, existing).ok
         /\ Keeps(l, SessionBucket(l, s, existing).limiter, n, {})
         /\ s \in WithSession(SessionBucket(l, s, existing).limiter)
<1> DEFINE full(m) == Cardinality(WithSession(m)) >= MaxSessions
           pruned == Prune(l, existing)
<1>1. SessionBucket(l, s, existing) =
        IF s \in WithSession(l) THEN [ok |-> TRUE, limiter |-> l]
        ELSE IF full(IF full(l) THEN pruned ELSE l) THEN [ok |-> FALSE, limiter |-> IF full(l) THEN pruned ELSE l]
        ELSE [ok |-> TRUE, limiter |-> AddSession(IF full(l) THEN pruned ELSE l, s)]
  BY DEF SessionBucket, Refused
<1>2. Keeps(l, pruned, n, {}) /\ WithSession(pruned) \subseteq existing /\ DOMAIN pruned.buckets \subseteq DOMAIN l.buckets
  BY PruneKeeps
<1>3. Keeps(l, l, n, {})
  BY DEF Keeps
<1>4. CASE s \in WithSession(l)
  BY <1>1, <1>3, <1>4
<1>5. CASE s \notin WithSession(l)
  <2>1. s \notin WithSession(pruned)
    <3>1. WithSession(l) = {q \in 1..n : <<"commands", q>> \in DOMAIN l.buckets}
      BY SessionsKnown
    <3>2. WithSession(pruned) = {q \in 1..n : <<"commands", q>> \in DOMAIN pruned.buckets}
      BY <1>2, SessionsKnown DEF Keeps
    <3>3. QED
      BY <1>2, <1>5, <3>1, <3>2
  <2>2. ~full(pruned)
    <3>1. IsFiniteSet(existing) /\ IsFiniteSet(existing \ {s})
      <4>1. IsFiniteSet(1..n)
        BY FS_Interval
      <4>2. QED
        BY <4>1, FS_Subset
    <3>2. Cardinality(existing \ {s}) = Cardinality(existing) - 1
      BY <3>1, FS_RemoveElement
    <3>3. Cardinality(WithSession(pruned)) <= Cardinality(existing \ {s}) /\ IsFiniteSet(WithSession(pruned))
      BY <1>2, <2>1, <3>1, FS_Subset
    <3>4. /\ Cardinality(WithSession(pruned)) \in Nat /\ Cardinality(existing) \in Nat
          /\ Cardinality(existing \ {s}) \in Nat /\ MaxSessions \in Nat
      BY <3>1, <3>3, FS_CardinalityType, ServerAssumption
    <3>5. Cardinality(WithSession(pruned)) < MaxSessions
      BY <3>2, <3>3, <3>4
    <3> HIDE DEF pruned
    <3>6. QED
      BY <3>4, <3>5
  <2>3. SessionBucket(l, s, existing) = [ok |-> TRUE, limiter |-> AddSession(IF full(l) THEN pruned ELSE l, s)]
    BY <1>1, <1>5, <2>2
  <2>4. PICK m : m = (IF full(l) THEN pruned ELSE l)
    OBVIOUS
  <2>5. Keeps(l, m, n, {}) /\ Shaped(m, n)
    BY <1>2, <1>3, <2>4 DEF Keeps
  <2>6. Keeps(m, AddSession(m, s), n, {}) /\ s \in WithSession(AddSession(m, s))
    BY <2>5, AddSessionKeeps
  <2>7. QED
    BY <2>3, <2>4, <2>5, <2>6, KeepsTwice
<1>6. QED
  BY <1>4, <1>5

\* A request leaves the limiter in order, whatever it is told; and a session
\* that exists has its bucket when the browser has tokens for the request.
LEMMA AllowKeeps ==
  ASSUME NEW l, NEW n \in Nat, Shaped(l, n), NEW t \in Clients, NEW s, NEW event,
         NEW existing \in SUBSET (1..n), Cardinality(existing) <= MaxSessions
  PROVE  /\ Keeps(l, Allow(l, t, s, event, existing).limiter, n, {})
         /\ (/\ ~l.disposed /\ TransportUses \X {t} \subseteq DOMAIN l.buckets
             /\ s \in existing /\ Take(l, TransportKeys(t, event)).ok)
              => s \in WithSession(Allow(l, t, s, event, existing).limiter)
<1> DEFINE due == PruneDue(l, existing)
           keys == TransportKeys(t, event)
           first == Take(due, keys)
           session == SessionBucket(first.limiter, s, existing)
           verdict == Allow(l, t, s, event, existing)
<1>1. verdict = IF l.disposed THEN Refused(l)
                ELSE IF t \notin Transports(due) THEN Refused(due)
                ELSE IF ~first.ok \/ s \notin existing THEN first
                ELSE IF ~session.ok THEN session
                ELSE Take(session.limiter, SessionKeys(s, event))
  BY DEF Allow
<1>2. Keeps(l, l, n, {})
  BY DEF Keeps
<1>3. /\ Keeps(l, due, n, {})
      /\ \A key \in DOMAIN due.buckets : due.buckets[key] = l.buckets[key]
      /\ ServerUses \X {Server} \subseteq DOMAIN due.buckets
  <2>1. due = l \/ due = Prune(l, existing)
    BY DEF PruneDue
  <2>2. CASE due = l
    BY <1>2, <2>2 DEF Shaped
  <2>3. CASE due = Prune(l, existing)
    BY <2>3, PruneKeeps
  <2>4. QED
    BY <2>1, <2>2, <2>3
<1> HIDE DEF due
<1>4. Keeps(due, first.limiter, n, {}) /\ DOMAIN first.limiter.buckets = DOMAIN due.buckets
  BY <1>3, TakeKeeps, TransportKeysAre DEF Keeps
<1> HIDE DEF first
<1>5. Keeps(l, first.limiter, n, {}) /\ Shaped(first.limiter, n)
  BY <1>3, <1>4, KeepsTwice DEF Keeps
<1>6. s \in existing => /\ session.ok /\ Keeps(first.limiter, session.limiter, n, {})
                        /\ s \in WithSession(session.limiter)
  BY <1>5, SessionFits
<1> HIDE DEF session
<1>7. s \in existing =>
        LET m == Take(session.limiter, SessionKeys(s, event)).limiter
        IN  Keeps(l, m, n, {}) /\ s \in WithSession(m)
  <2> SUFFICES ASSUME s \in existing
               PROVE  LET m == Take(session.limiter, SessionKeys(s, event)).limiter
                      IN  Keeps(l, m, n, {}) /\ s \in WithSession(m)
    OBVIOUS
  <2> DEFINE m == Take(session.limiter, SessionKeys(s, event)).limiter
  <2>1. Shaped(session.limiter, n) /\ Keeps(l, session.limiter, n, {})
    BY <1>5, <1>6, KeepsTwice DEF Keeps
  <2>2. Keeps(session.limiter, m, n, {}) /\ DOMAIN m.buckets = DOMAIN session.limiter.buckets
    BY <2>1, TakeKeeps, SessionKeysAre
  <2> HIDE DEF m
  <2>3. Keeps(l, m, n, {}) /\ Shaped(m, n)
    BY <2>1, <2>2, KeepsTwice DEF Keeps
  <2>4. WithSession(m) = WithSession(session.limiter)
    <3>1. WithSession(m) = {q \in 1..n : <<"commands", q>> \in DOMAIN m.buckets}
      BY <2>3, SessionsKnown
    <3>2. WithSession(session.limiter) = {q \in 1..n : <<"commands", q>> \in DOMAIN session.limiter.buckets}
      BY <2>1, SessionsKnown
    <3>3. QED
      BY <2>2, <3>1, <3>2
  <2>5. QED
    BY <1>6, <2>3, <2>4 DEF m
<1>8. Keeps(l, verdict.limiter, n, {})
  <2>1. Refused(l).limiter = l /\ Refused(due).limiter = due
    BY DEF Refused
  <2>2. QED
    BY <1>1, <1>2, <1>3, <1>5, <1>6, <1>7, <2>1
<1>9. ASSUME ~l.disposed, TransportUses \X {t} \subseteq DOMAIN l.buckets, s \in existing, Take(l, keys).ok
      PROVE  s \in WithSession(verdict.limiter)
  <2>1. TransportUses \X {t} \subseteq DOMAIN due.buckets
    BY <1>3, <1>9 DEF Keeps
  <2>2. t \in Transports(due)
    <3>1. PICK key : key = <<"all", t>>
      OBVIOUS
    <3>2. key \in DOMAIN due.buckets /\ key[1] = "all" /\ key[2] = t
      BY <2>1, <3>1 DEF TransportUses
    <3>3. t \in Owners(due, "all")
      BY <3>2 DEF Owners
    <3>4. WithSession(due) = {q \in 1..n : <<"commands", q>> \in DOMAIN due.buckets}
      BY <1>3, SessionsKnown DEF Keeps
    <3>5. t \notin WithSession(due) /\ t # Server
      BY <3>4, ServerAssumption
    <3>6. QED
      BY <3>3, <3>5 DEF Transports
  <2>3. \A i \in DOMAIN keys : due.buckets[<<keys[i][2], keys[i][3]>>] = l.buckets[<<keys[i][2], keys[i][3]>>]
    <3>1. \A i \in DOMAIN keys : <<keys[i][2], keys[i][3]>> \in (ServerUses \X {Server}) \cup (TransportUses \X {t})
      BY TransportKeysAre
    <3> HIDE DEF keys
    <3>2. QED
      BY <1>3, <2>1, <3>1
  <2>4. Take(due, keys).ok = Take(l, keys).ok
    <3> HIDE DEF keys
    <3>1. QED
      BY <2>3, SameVerdict
  <2>5. first.ok
    BY <1>9, <2>4 DEF first
  <2>6. verdict = Take(session.limiter, SessionKeys(s, event))
    BY <1>1, <1>6, <1>9, <2>2, <2>5
  <2>7. QED
    BY <1>7, <1>9, <2>6
<1>10. QED
  BY <1>8, <1>9

-----------------------------------------------------------------------------
(* The steps of the server, as its limiter and the meter see them.         *)

\* There are no more sessions than Rooms, so their buckets fit the table.
LEMMA SessionsFit ==
  ASSUME QueueInvariant
  PROVE  sessions \in SUBSET (1..created) /\ created \in Nat /\ Cardinality(sessions) <= MaxSessions
<1> DEFINE S == {r \in RoomCodes : rooms[r] # None}
           T == {r \in RoomCodes : rooms[r] \in sessions}
           f == [r \in T |-> rooms[r]]
<1>1. sessions \subseteq 1..created /\ created \in Nat
  BY DEF QueueInvariant, ServerTypeOK
<1>2. T \subseteq S /\ S \subseteq RoomCodes
  <2>1. \A s \in sessions : s \in Nat /\ s # None
    BY <1>1, ServerAssumption
  <2>2. QED
    BY <2>1
<1>3. IsFiniteSet(S) /\ IsFiniteSet(T) /\ Cardinality(T) <= Cardinality(S)
  BY <1>2, FS_Subset, ServerAssumption
<1>4. f \in Surjection(T, sessions)
  <2>1. \A s \in sessions : \E r \in T : f[r] = s
    BY DEF QueueInvariant, Housed
  <2>2. f \in [T -> sessions]
    OBVIOUS
  <2> HIDE DEF f, T
  <2>3. QED
    BY <2>1, <2>2 DEF Surjection
<1>5. IsFiniteSet(sessions) /\ Cardinality(sessions) <= Cardinality(T)
  <2> HIDE DEF f, T
  <2>1. QED
    BY <1>3, <1>4, FS_Surjection
<1>6. Cardinality(S) <= MaxRooms
  BY DEF QueueInvariant, Housed
<1>7. /\ Cardinality(sessions) \in Nat /\ Cardinality(S) \in Nat /\ Cardinality(T) \in Nat
      /\ Cardinality(RoomCodes) \in Nat
  BY <1>3, <1>5, FS_CardinalityType, ServerAssumption
<1>8. MaxRooms \in Nat /\ MaxSessions \in Nat /\ MaxSessions >= MaxRooms
  BY <1>7, ServerAssumption
<1> HIDE DEF S, T
<1>9. Cardinality(sessions) <= MaxSessions
  BY <1>3, <1>5, <1>6, <1>7, <1>8
<1>10. QED
  BY <1>1, <1>9

\* A step in which neither the meter nor the clock moves, and no connection
\* is asked for.
LEMMA LimiterStays ==
  ASSUME LimiterInvariant, NEW gone, Keeps(limiter, limiter', created, gone),
         now' = now, meter' = meter, ~starved', created \in Nat, created' \in Nat, created <= created',
         \A c \in Clients : conns'[c] = "socket" =>
           (conns[c] = "socket" /\ c \notin gone) \/ TransportUses \X {c} \subseteq DOMAIN limiter'.buckets,
         phase = "ended" => phase' = "ended",
         phase' \in {"closing", "releasing", "ended"} => \A c \in Clients : conns'[c] \notin {"socket", "handshake"}
  PROVE  LimiterInvariant'
<1>1. Shaped(limiter', created)
  BY DEF Keeps
<1>2. 1..created \subseteq 1..created'
  OBVIOUS
<1>3. \A c \in Clients : conns'[c] = "socket" => TransportUses \X {c} \subseteq DOMAIN limiter'.buckets
  <2> SUFFICES ASSUME NEW c \in Clients, conns[c] = "socket", c \notin gone
               PROVE  TransportUses \X {c} \subseteq DOMAIN limiter'.buckets
    OBVIOUS
  <2>1. TransportUses \X {c} \subseteq DOMAIN limiter.buckets
    BY DEF LimiterInvariant, LimiterOK
  <2>2. \A key \in TransportUses \X {c} : key \in TransportUses \X (Clients \ gone)
    OBVIOUS
  <2>3. QED
    BY <2>1, <2>2 DEF Keeps
<1>4. Shaped(limiter, created)'
  BY <1>1, <1>2 DEF Shaped
<1>5. LimiterOK'
  BY <1>3, <1>4 DEF LimiterInvariant, LimiterOK, Keeps
<1>6. MeterOK'
  BY DEF LimiterInvariant, MeterOK, Keeps
<1>7. QED
  BY <1>5, <1>6 DEF LimiterInvariant

\* The lesser of two numbers is one of them, and no more than either.
LEMMA LeastBounds ==
  ASSUME NEW m \in Nat, NEW n \in Nat
  PROVE  Least(m, n) \in Nat /\ Least(m, n) <= m /\ Least(m, n) <= n
BY DEF Least

\* What refilling and taking a token makes of the meter's bound.
LEMMA Distributes ==
  ASSUME NEW r \in Nat, NEW a \in Nat, NEW b \in Nat
  PROVE  r * a + b * r = r * (a + b) /\ r * a <= r * (a + b) /\ r * a \in Nat /\ b * r \in Nat /\ r * (a + b) \in Nat
OBVIOUS

\* A connection is asked for: the one step that takes from its bucket.
LEMMA HandshakeStep ==
  ASSUME QueueInvariant, LimiterInvariant, NEW c \in Clients, Handshake(c)
  PROVE  LimiterInvariant'
<1> DEFINE b == limiter.buckets[Connect]
           full == Capacity["server"]["connect"]
           rate == Rate["server"]["connect"]
           elapsed == IF now > b.updated THEN now - b.updated ELSE 0
           filled == Least(full, b.tokens + elapsed * rate)
           m == AdmitConnection(limiter)
<1>1. /\ now' = now /\ starved' = starved /\ created' = created /\ phase' = phase /\ ~stopping
      /\ limiter' = m.limiter
      /\ \A d \in Clients : conns'[d] = "socket" => conns[d] = "socket"
      /\ meter' = IF m.ok THEN [meter EXCEPT !.admitted = @ + 1] ELSE meter
  BY DEF Handshake, service, closing, IsReady, QueueInvariant, ServerTypeOK
<1>2. phase = "serving"
  BY <1>1 DEF QueueInvariant, Closed
<1>3. ~limiter.disposed /\ Shaped(limiter, created) /\ Connect \in DOMAIN limiter.buckets
  BY <1>2, ConnectKey DEF LimiterInvariant, LimiterOK
<1>4. /\ full \in Nat /\ rate \in Nat /\ b \in [tokens : Nat, updated : Nat] /\ now \in Nat
      /\ b.updated <= now /\ b.tokens <= full
      /\ meter \in [since : Nat, admitted : Nat] /\ meter.since <= now
      /\ IF b.updated < meter.since THEN meter.admitted = 0
         ELSE meter.admitted + b.tokens <= full + rate * (b.updated - meter.since)
  BY LimiterAssumption DEF LimiterInvariant, LimiterOK, MeterOK
<1>5. PICK f : /\ limiter' = [limiter EXCEPT !.buckets = f] /\ DOMAIN f = DOMAIN limiter.buckets
               /\ m.ok <=> ~(filled < 1)
               /\ f[Connect] = [tokens |-> IF m.ok THEN filled - 1 ELSE filled, updated |-> Latest(b.updated)]
  <2> DEFINE keys == <<<<"server", "connect", Server>>>>
             at(i) == <<keys[i][2], keys[i][3]>>
             refilled(i) == Refilled(limiter.buckets[at(i)], keys[i][1], keys[i][2])
             empty == {i \in DOMAIN keys : refilled(i).tokens < 1}
             taken == {i \in DOMAIN keys : \A j \in empty : i < j}
             index(key) == CHOOSE i \in DOMAIN keys : at(i) = key
             touched == {at(i) : i \in {j \in DOMAIN keys : \A k \in empty : j <= k}}
             g(key) == IF key \notin touched THEN limiter.buckets[key]
                       ELSE IF index(key) \in taken THEN [refilled(index(key)) EXCEPT !.tokens = @ - 1]
                       ELSE refilled(index(key))
             f == [key \in DOMAIN limiter.buckets |-> g(key)]
             after == [tokens |-> filled, updated |-> Latest(b.updated)]
  <2>1. m = [ok |-> empty = {}, limiter |-> [limiter EXCEPT !.buckets = f]]
    BY <1>3 DEF AdmitConnection, Take
  <2>2. DOMAIN keys = {1} /\ at(1) = Connect
    BY DEF Connect
  <2>3. refilled(1) = after
    BY DEF Refilled, Connect
  <2> HIDE DEF after, keys
  <2>4. after.tokens = filled
    BY DEF after
  <2>5. empty = IF filled < 1 THEN {1} ELSE {}
    <3> HIDE DEF filled, refilled
    <3>1. QED
      BY <2>2, <2>3, <2>4
  <2>6. touched = {Connect}
    BY <2>2, <2>5
  <2>7. index(Connect) = 1
    BY <2>2
  <2>8. taken = IF filled < 1 THEN {} ELSE {1}
    BY <2>2, <2>5
  <2>9. f[Connect] = IF filled < 1 THEN after ELSE [after EXCEPT !.tokens = @ - 1]
    <3> HIDE DEF touched, index, taken, filled, refilled
    <3>1. g(Connect) = IF filled < 1 THEN after ELSE [after EXCEPT !.tokens = @ - 1]
      BY <2>3, <2>6, <2>7, <2>8
    <3> HIDE DEF g
    <3>2. QED
      BY <1>3, <3>1
  <2>10. m.ok <=> ~(filled < 1)
    <3> HIDE DEF filled, empty, f
    <3>1. m.ok = (empty = {})
      <4> HIDE DEF m
      <4>1. QED
        BY <2>1
    <3>2. QED
      BY <2>5, <3>1
  <2>11. f[Connect] = [tokens |-> IF m.ok THEN filled - 1 ELSE filled, updated |-> Latest(b.updated)]
    <3> HIDE DEF filled, m
    <3>1. QED
      BY <2>9, <2>10 DEF after
  <2>12. limiter' = [limiter EXCEPT !.buckets = f]
    <3> HIDE DEF empty, f, m
    <3>1. QED
      BY <1>1, <2>1
  <2>13. DOMAIN f = DOMAIN limiter.buckets
    OBVIOUS
  <2> HIDE DEF f, m, filled
  <2>14. QED
    BY <2>10, <2>11, <2>12, <2>13
<1> HIDE DEF m
<1>6. limiter'.buckets = f /\ DOMAIN limiter' = DOMAIN limiter /\ limiter'.disposed = limiter.disposed
  BY <1>3, <1>5 DEF Shaped
<1>7. LimiterOK'
  <2>1. Shaped(limiter, created)'
    BY <1>1, <1>3, <1>5, <1>6 DEF Shaped
  <2>2. QED
    BY <1>1, <1>2, <1>5, <1>6, <2>1 DEF LimiterInvariant, LimiterOK
<1>8. PICK t, u, a : t = b.tokens /\ u = b.updated /\ a = meter.admitted
  OBVIOUS
<1>9. PICK since : since = meter.since
  OBVIOUS
<1>10. t \in Nat /\ u \in Nat /\ a \in Nat /\ since \in Nat /\ elapsed = now - u /\ elapsed \in Nat
  BY <1>4, <1>8, <1>9
<1>11. /\ Latest(b.updated) = now /\ filled \in Nat /\ filled <= full /\ filled <= t + elapsed * rate
  <2>1. elapsed * rate \in Nat
    BY <1>4, <1>10
  <2>2. PICK p : p = elapsed * rate
    OBVIOUS
  <2>3. filled = Least(full, t + p) /\ t + p \in Nat
    BY <1>8, <1>10, <2>1, <2>2
  <2>4. filled \in Nat /\ filled <= full /\ filled <= t + p
    <3> HIDE DEF filled
    <3>1. QED
      BY <1>4, <2>3, LeastBounds
  <2>5. Latest(u) = now
    <3>1. now \in Nat /\ u <= now
      BY <1>4, <1>8
    <3>2. QED
      BY <1>10, <3>1 DEF Latest
  <2>6. QED
    BY <1>8, <2>2, <2>4, <2>5
<1>12. a + filled <= full + rate * (now - since)
  <2>1. CASE u < since
    <3>1. a = 0 /\ now - since \in Nat
      BY <1>4, <1>8, <1>9, <1>10, <2>1
    <3>2. rate * (now - since) \in Nat
      BY <1>4, <3>1
    <3>3. QED
      BY <1>4, <1>10, <1>11, <3>1, <3>2
  <2>2. CASE ~(u < since)
    <3>1. a + t <= full + rate * (u - since) /\ u - since \in Nat
      BY <1>4, <1>8, <1>9, <1>10, <2>2
    <3>2. rate * (u - since) + elapsed * rate = rate * ((u - since) + elapsed)
      BY <1>4, <1>10, <3>1, Distributes
    <3>3. rate * (u - since) \in Nat /\ elapsed * rate \in Nat
      BY <1>4, <1>10, <3>1, Distributes
    <3>4. (u - since) + elapsed = now - since
      BY <1>4, <1>10
    <3> HIDE DEF elapsed, filled
    <3>5. QED
      BY <1>4, <1>10, <1>11, <3>1, <3>2, <3>3, <3>4
  <2>3. QED
    BY <2>1, <2>2
<1>13. MeterOK'
  <2>1. PICK b2 : b2 = f[Connect]
    OBVIOUS
  <2>2. /\ b2 \in [tokens : Nat, updated : Nat] /\ b2.updated = now /\ b2.tokens <= full
        /\ b2.tokens = IF m.ok THEN filled - 1 ELSE filled
    <3> HIDE DEF filled
    <3>1. (IF m.ok THEN filled - 1 ELSE filled) \in Nat /\ (IF m.ok THEN filled - 1 ELSE filled) <= full
      BY <1>4, <1>5, <1>11
    <3>2. QED
      BY <1>4, <1>5, <1>11, <2>1, <3>1
  <2>3. /\ meter' \in [since : Nat, admitted : Nat] /\ meter'.since = since
        /\ meter'.admitted = IF m.ok THEN a + 1 ELSE a
    BY <1>1, <1>4, <1>8, <1>9
  <2>4. meter'.admitted + b2.tokens <= full + rate * (now - since)
    <3>1. meter'.admitted + b2.tokens = a + filled
      <4> HIDE DEF filled
      <4>1. QED
        BY <1>10, <1>11, <2>2, <2>3
    <3>2. QED
      BY <1>12, <3>1
  <2>5. limiter'.buckets[Connect] = b2
    BY <1>6, <2>1
  <2> HIDE DEF b, filled, elapsed
  <2>6. QED
    BY <1>1, <1>4, <1>9, <1>10, <2>2, <2>3, <2>4, <2>5 DEF MeterOK
<1>14. QED
  BY <1>1, <1>7, <1>13 DEF LimiterInvariant

\* A request is admitted or refused by the limiter.
LEMMA LimiterRequest ==
  ASSUME QueueInvariant, QueueInvariant', LimiterInvariant,
         NEW c \in Clients, NEW event \in {"create", "command", "leave"}, Request(c, event)
  PROVE  LimiterInvariant'
<1> DEFINE verdict == Allow(limiter, c, who[c], event, sessions)
<1>1. /\ conns[c] = "socket" /\ limiter' = verdict.limiter /\ UNCHANGED <<now, conns, meter, closing>>
      /\ starved' = (starved \/ (/\ who[c] \in sessions \ WithSession(verdict.limiter)
                                 /\ Take(limiter, TransportKeys(c, event)).ok))
      /\ created' \in {created, created + 1}
  BY DEF Request, Serve
<1>2. Shaped(limiter, created) /\ ~starved /\ TransportUses \X {c} \subseteq DOMAIN limiter.buckets
  BY <1>1 DEF LimiterInvariant, LimiterOK
<1>3. ~limiter.disposed
  BY <1>1 DEF LimiterInvariant, LimiterOK
<1>4. sessions \in SUBSET (1..created) /\ created \in Nat /\ Cardinality(sessions) <= MaxSessions
  BY SessionsFit
<1>5. /\ Keeps(limiter, verdict.limiter, created, {})
      /\ who[c] \in sessions /\ Take(limiter, TransportKeys(c, event)).ok => who[c] \in WithSession(verdict.limiter)
  BY <1>2, <1>3, <1>4, AllowKeeps
<1> HIDE DEF verdict
<1>6. ~starved'
  BY <1>1, <1>2, <1>5
<1>7. Keeps(limiter, limiter', created, {})
  BY <1>1, <1>5
<1>8. created' \in Nat /\ created <= created'
  BY <1>1, <1>4
<1>9. phase' = phase /\ \A d \in Clients : conns'[d] = conns[d]
  BY <1>1 DEF closing
<1>10. phase' \in {"closing", "releasing", "ended"} => \A d \in Clients : conns'[d] \notin {"socket", "handshake"}
  BY <1>9 DEF LimiterInvariant, LimiterOK
<1>11. QED
  BY <1>1, <1>4, <1>6, <1>7, <1>8, <1>9, <1>10, LimiterStays

\* Connections come and go.
LEMMA LimiterConnections ==
  ASSUME QueueInvariant, LimiterInvariant, NEW c \in Clients, Attach(c) \/ Get(c) \/ EndConnection(c)
  PROVE  LimiterInvariant'
<1>1. /\ now' = now /\ meter' = meter /\ ~starved' /\ created' = created /\ created \in Nat /\ phase' = phase
      /\ Shaped(limiter, created)
      /\ conns \in [Clients -> {"none", "handshake", "socket", "closing", "http"}]
      /\ phase \in {"closing", "releasing", "ended"} => \A d \in Clients : conns[d] \notin {"socket", "handshake"}
  BY DEF Attach, Get, EndConnection, service, closing, history, limits, LimiterInvariant, LimiterOK, QueueInvariant,
         ServerTypeOK
<1>2. CASE Attach(c)
  <2> DEFINE attached == AttachTransport(limiter, c)
  <2>1. /\ ~stopping /\ limiter' = attached.limiter
        /\ conns' = [conns EXCEPT ![c] = IF attached.ok THEN "socket" ELSE "none"]
    BY <1>2 DEF Attach, IsReady
  <2>2. phase = "serving"
    BY <2>1 DEF QueueInvariant, Closed, ServerTypeOK
  <2>3. /\ Keeps(limiter, attached.limiter, created, {})
        /\ attached.ok => TransportUses \X {c} \subseteq DOMAIN attached.limiter.buckets
    BY <1>1, AttachKeeps
  <2> HIDE DEF attached
  <2>4. \A d \in Clients : conns'[d] = "socket" =>
           conns[d] = "socket" \/ TransportUses \X {d} \subseteq DOMAIN limiter'.buckets
    BY <1>1, <2>1, <2>3
  <2>5. Keeps(limiter, limiter', created, {})
    BY <2>1, <2>3
  <2>6. QED
    BY <1>1, <2>2, <2>4, <2>5, LimiterStays
<1>3. CASE Get(c)
  <2>1. limiter' = limiter /\ conns' = [conns EXCEPT ![c] = "http"]
    BY <1>3 DEF Get, limits
  <2>2. \A d \in Clients : conns'[d] \in {conns[d], "http"}
    BY <1>1, <2>1
  <2>3. Keeps(limiter, limiter', created, {})
    BY <1>1, <2>1 DEF Keeps
  <2>4. QED
    BY <1>1, <2>2, <2>3, LimiterStays
<1>4. CASE EndConnection(c)
  <2>1. limiter' = ForgetTransport(limiter, c) /\ conns' = [conns EXCEPT ![c] = "none"]
    BY <1>4 DEF EndConnection
  <2>2. \A d \in Clients : conns'[d] = IF d = c THEN "none" ELSE conns[d]
    BY <1>1, <2>1
  <2>3. Keeps(limiter, limiter', created, {c})
    BY <1>1, <2>1, ForgetKeeps
  <2>4. QED
    BY <1>1, <2>2, <2>3, LimiterStays
<1>5. QED
  BY <1>2, <1>3, <1>4

\* The service goes on, or shuts down.
LEMMA LimiterService ==
  ASSUME QueueInvariant, LimiterInvariant,
         UNCHANGED vars \/ Proceed \/ Shutdown \/ AllClosed \/ Deadline
  PROVE  LimiterInvariant'
<1>1. /\ UNCHANGED <<limiter, now, meter, created>> /\ ~starved' /\ created \in Nat /\ Shaped(limiter, created)
      /\ \A d \in Clients : conns'[d] \in {conns[d], "none"}
      /\ phase' = phase \/ phase' = "draining" \/ (phase = "closing" /\ phase' = "releasing")
      /\ phase = "ended" => phase' = "ended"
      /\ phase \in {"closing", "releasing", "ended"} => \A d \in Clients : conns[d] \notin {"socket", "handshake"}
  BY DEF vars, service, closing, history, limits, Proceed, Begin, SaveSucceeds, SaveFails, Shutdown, AllClosed, Deadline,
         LimiterInvariant, LimiterOK, QueueInvariant, ServerTypeOK, Closed
<1>2. Keeps(limiter, limiter', created, {})
  BY <1>1 DEF Keeps
<1>3. \A d \in Clients : conns'[d] = "socket" => conns[d] = "socket"
  BY <1>1
<1>4. phase' \in {"closing", "releasing", "ended"} => \A d \in Clients : conns'[d] \notin {"socket", "handshake"}
  BY <1>1
<1>5. QED
  BY <1>1, <1>2, <1>3, <1>4, LimiterStays

\* Shutdown closes the sockets and releases what they were counted for.
LEMMA LimiterCloses ==
  ASSUME QueueInvariant, LimiterInvariant, CloseRealtime \/ Release
  PROVE  LimiterInvariant'
<1>1. /\ now' = now /\ meter' = meter /\ ~starved' /\ starved' = starved /\ created' = created /\ created \in Nat
      /\ Shaped(limiter, created)
  BY DEF CloseRealtime, Release, history, LimiterInvariant, LimiterOK, QueueInvariant, ServerTypeOK
<1>2. CASE CloseRealtime
  <2> DEFINE keys == {key \in DOMAIN limiter.buckets : key[2] \notin Transports(limiter)}
  <2>1. /\ phase = "draining" /\ phase' = "closing"
        /\ conns' = [d \in Clients |-> IF conns[d] \in {"socket", "handshake"} THEN "closing" ELSE conns[d]]
        /\ limiter' = [limiter EXCEPT !.buckets = Only(@, keys)]
    BY <1>2 DEF CloseRealtime
  <2>2. keys \in SUBSET DOMAIN limiter.buckets /\ ServerUses \X {Server} \subseteq keys
    BY <1>1 DEF Shaped, Transports
  <2> HIDE DEF keys
  <2>3. /\ DOMAIN limiter' = DOMAIN limiter /\ limiter'.disposed = limiter.disposed
        /\ limiter'.buckets = Only(limiter.buckets, keys)
    BY <1>1, <2>1 DEF Shaped
  <2>4. Keeps(limiter, limiter', created, Clients)
    BY <1>1, <2>2, <2>3, OnlyKeeps
  <2>5. \A d \in Clients : conns'[d] \notin {"socket", "handshake"}
    BY <2>1
  <2>6. QED
    BY <1>1, <2>1, <2>4, <2>5, LimiterStays
<1>3. CASE Release
  <2>1. /\ phase = "releasing" /\ phase' = "ended" /\ conns' = conns
        /\ limiter' = [limiter EXCEPT !.disposed = TRUE, !.buckets = Only(@, ServerUses \X {Server})]
    BY <1>3 DEF Release, Disposed
  <2>2. /\ DOMAIN limiter' = {"buckets", "pruned", "disposed"}
        /\ limiter'.buckets = Only(limiter.buckets, ServerUses \X {Server})
    BY <1>1, <2>1 DEF Shaped
  <2>3. /\ DOMAIN limiter'.buckets = ServerUses \X {Server}
        /\ \A key \in ServerUses \X {Server} : limiter'.buckets[key] = limiter.buckets[key]
    BY <2>2 DEF Only
  <2>4. limiter'.buckets[Connect] = limiter.buckets[Connect]
    BY <2>3 DEF Connect, ServerUses
  <2>5. Shaped(limiter, created)'
    BY <2>2, <2>3 DEF Shaped
  <2>6. LimiterOK'
    BY <1>1, <2>1, <2>5 DEF LimiterInvariant, LimiterOK
  <2>7. MeterOK'
    BY <1>1, <2>4 DEF LimiterInvariant, MeterOK
  <2>8. QED
    BY <1>1, <2>6, <2>7 DEF LimiterInvariant
<1>4. QED
  BY <1>2, <1>3

\* Time passes.
LEMMA LimiterClock ==
  ASSUME LimiterInvariant, Tick \/ Watch
  PROVE  LimiterInvariant'
<1>1. UNCHANGED <<limiter, conns, service, closing, starved>> /\ UNCHANGED <<created, phase>>
  BY DEF Tick, Watch, limits, history, service, closing
<1>2. now \in Nat /\ now' \in {now, now + 1}
  BY DEF Tick, Watch, limits, LimiterInvariant, LimiterOK
<1>3. LimiterOK'
  BY <1>1, <1>2 DEF LimiterInvariant, LimiterOK, Shaped
<1>4. CASE Tick
  <2>1. now' = now + 1 /\ limiter' = limiter /\ meter' = meter
    BY <1>1, <1>4 DEF Tick, history
  <2>2. PICK b, bound : /\ b = limiter.buckets[Connect]
                        /\ bound = Capacity["server"]["connect"] + Rate["server"]["connect"] * (b.updated - meter.since)
    OBVIOUS
  <2>3. /\ b \in [tokens : Nat, updated : Nat] /\ b.updated <= now /\ b.tokens <= Capacity["server"]["connect"]
        /\ meter \in [since : Nat, admitted : Nat] /\ meter.since <= now
        /\ IF b.updated < meter.since THEN meter.admitted = 0 ELSE meter.admitted + b.tokens <= bound
    BY <2>2 DEF LimiterInvariant, MeterOK
  <2>4. b.updated <= now' /\ meter.since <= now'
    BY <1>2, <2>1, <2>3
  <2>5. MeterOK'
    BY <2>1, <2>2, <2>3, <2>4 DEF MeterOK
  <2>6. QED
    BY <1>1, <1>3, <2>5 DEF LimiterInvariant
<1>5. CASE Watch
  <2>1. /\ meter' = [since |-> now, admitted |-> 0] /\ now' = now /\ limiter' = limiter
    BY <1>1, <1>5 DEF Watch, limits
  <2>2. PICK b : b = limiter.buckets[Connect]
    OBVIOUS
  <2>3. b \in [tokens : Nat, updated : Nat] /\ b.updated <= now /\ b.tokens <= Capacity["server"]["connect"]
    BY <2>2 DEF LimiterInvariant, MeterOK
  <2>4. Capacity["server"]["connect"] \in Nat /\ Rate["server"]["connect"] \in Nat
    BY LimiterAssumption
  <2>5. ~(b.updated < now) => 0 + b.tokens <= Capacity["server"]["connect"] + Rate["server"]["connect"] * (b.updated - now)
    <3> SUFFICES ASSUME ~(b.updated < now)
                 PROVE  0 + b.tokens <= Capacity["server"]["connect"] + Rate["server"]["connect"] * (b.updated - now)
      OBVIOUS
    <3>1. b.updated - now = 0 /\ b.tokens \in Nat
      BY <1>2, <2>3
    <3>2. Rate["server"]["connect"] * 0 = 0
      BY <2>4
    <3>3. QED
      BY <2>3, <2>4, <3>1, <3>2
  <2>6. QED
    <3>1. MeterOK'
      BY <1>2, <2>1, <2>2, <2>3, <2>5 DEF MeterOK
    <3>2. QED
      BY <1>1, <1>3, <3>1 DEF LimiterInvariant
<1>6. QED
  BY <1>1, <1>3, <1>4, <1>5 DEF LimiterInvariant

\* A fresh limiter has counted nothing.
LEMMA LimiterStarts == Init => LimiterInvariant
<1> SUFFICES ASSUME Init
             PROVE  LimiterInvariant
  OBVIOUS
<1>1. /\ DOMAIN limiter = {"buckets", "pruned", "disposed"} /\ ~limiter.disposed
      /\ limiter.buckets = [key \in ServerUses \X {Server} |-> Fresh("server", key[1])] /\ now = 1
  BY DEF Init, NewLimiter
<1>2. DOMAIN limiter.buckets = ServerUses \X {Server}
  BY <1>1
<1>3. Shaped(limiter, created)
  BY <1>1, <1>2 DEF Shaped
<1>4. LimiterOK
  BY <1>1, <1>3 DEF Init, LimiterOK
<1>5. limiter.buckets[Connect] = [tokens |-> Capacity["server"]["connect"], updated |-> 1]
  BY <1>1 DEF Connect, ServerUses, Fresh
<1>6. MeterOK
  <2>1. Capacity["server"]["connect"] \in Nat /\ Rate["server"]["connect"] \in Nat
    BY LimiterAssumption
  <2>2. Rate["server"]["connect"] * (1 - 1) = 0
    BY <2>1
  <2>3. QED
    BY <1>1, <1>5, <2>1, <2>2 DEF Init, MeterOK
<1>7. QED
  BY <1>4, <1>6 DEF Init, LimiterInvariant

-----------------------------------------------------------------------------
(* The theorems about the limiter.                                         *)

\* The two invariants together hold in every reachable state.
THEOREM LimiterInvariantHolds == Spec => [](QueueInvariant /\ LimiterInvariant)
<1>1. Init => QueueInvariant /\ LimiterInvariant
  BY QueuesStart, LimiterStarts
<1>2. QueueInvariant /\ LimiterInvariant /\ [Next]_vars => QueueInvariant' /\ LimiterInvariant'
  <2> SUFFICES ASSUME QueueInvariant, LimiterInvariant, [Next]_vars
               PROVE  QueueInvariant' /\ LimiterInvariant'
    OBVIOUS
  <2>1. QueueInvariant'
    BY QueuesStep
  <2>2. LimiterInvariant'
    BY <2>1, HandshakeStep, LimiterRequest, LimiterConnections, LimiterService, LimiterCloses, LimiterClock DEF Next
  <2>3. QED
    BY <2>1, <2>2
<1>3. QED
  BY <1>1, <1>2, PTL DEF Spec

\* Over any period the server admits at most a full bucket of connections and
\* those the time of the period refills.
THEOREM StaysWithinBudget == Spec => []WithinBudget
<1>1. LimiterInvariant => WithinBudget
  <2> SUFFICES ASSUME LimiterInvariant
               PROVE  WithinBudget
    OBVIOUS
  <2> DEFINE full == Capacity["server"]["connect"]
             rate == Rate["server"]["connect"]
  <2>1. PICK t, u, a, since : /\ t = limiter.buckets[Connect].tokens /\ u = limiter.buckets[Connect].updated
                              /\ a = meter.admitted /\ since = meter.since
    OBVIOUS
  <2>2. full \in Nat /\ rate \in Nat
    BY LimiterAssumption
  <2>3. /\ t \in Nat /\ u \in Nat /\ a \in Nat /\ since \in Nat /\ now \in Nat /\ u <= now /\ since <= now
        /\ IF u < since THEN a = 0 ELSE a + t <= full + rate * (u - since)
    BY <2>1 DEF LimiterInvariant, LimiterOK, MeterOK
  <2> HIDE DEF full, rate
  <2>4. a <= full + rate * (now - since)
    <3>1. CASE u < since
      <4>1. rate * (now - since) \in Nat
        BY <2>2, <2>3
      <4>2. QED
        BY <2>2, <2>3, <3>1, <4>1
    <3>2. CASE ~(u < since)
      <4>1. u - since \in Nat /\ now - u \in Nat /\ (u - since) + (now - u) = now - since
        BY <2>3, <3>2
      <4>2. /\ rate * (u - since) <= rate * ((u - since) + (now - u))
            /\ rate * (u - since) \in Nat /\ rate * ((u - since) + (now - u)) \in Nat
        BY <2>2, <4>1, Distributes
      <4>3. a + t <= full + rate * (u - since)
        BY <2>3, <3>2
      <4>4. QED
        BY <2>2, <2>3, <4>1, <4>2, <4>3
    <3>3. QED
      BY <3>1, <3>2
  <2>5. QED
    BY <2>1, <2>4 DEF WithinBudget, full, rate
<1>2. QED
  BY <1>1, LimiterInvariantHolds, PTL

\* No session that exists is refused for want of a bucket: when the table is
\* full, there is one of a session that does not exist to give up.
THEOREM NobodyEverStarves == Spec => []NobodyStarves
<1>1. LimiterInvariant => NobodyStarves
  BY DEF LimiterInvariant, NobodyStarves
<1>2. QED
  BY <1>1, LimiterInvariantHolds, PTL
=============================================================================
