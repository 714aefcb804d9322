------------------------ MODULE CommandDeliveryProofs ------------------------
(***************************************************************************)
(* That the player is told the truth about commands and never shown a      *)
(* stale view unawares, for any number of commands, retries, losses and    *)
(* views: the inductive invariant of CommandDelivery, and its refinement   *)
(* of CommandLedger.                                                       *)
(***************************************************************************)
EXTENDS CommandDelivery, FiniteSetTheorems, NaturalsInduction, WellFoundedInduction, TLAPS

-----------------------------------------------------------------------------
(* The invariant.                                                          *)

Attempts == 1..MaxRetries + 1
CommandType == [kind : {"command"}, request : Requests, attempt : Attempts]
Outgoing == CommandType \cup [kind : {"ask", "resume"}]
AckType == [kind : {"ack"}, request : Requests, attempt : Attempts, version : Nat,
            answer : {"accepted", "rejected", "busy", "no member", "refused"}]
CarryType == [kind : {"view", "update"}, view : ViewType]
Incoming == AckType \cup CarryType \cup [kind : {"noview", "resumed", "refusal", "cut"}]
BusyType == [request : Requests, attempt : Attempts, version : Nat, live : BOOLEAN,
             answer : {"accepted", "rejected", "refused"}]
ServerType == [version : Nat, publication : Nat,
               history : SUBSET [request : Requests \cup {ServerAi}, at : Nat],
               refused : SUBSET [request : Requests, at : Nat]]

Answered == {"confirm", "confirmed"}

\* TypeOK, and the shape of what is under way.
Typed ==
    /\ TypeOK
    /\ toServer \in Seq(Outgoing) /\ toClient \in Seq(Incoming)
    /\ work \in Seq(CommandType) /\ busy \in BusyType \cup {None}
    /\ server \in ServerType
    /\ losses \in Nat /\ asks \in Nat
    /\ active # None /\ active.stage \in Answered => active.answer \in {"accepted", "rejected"}

\* A command is waited for in one place, and no more once it was reported.
Settled ==
    /\ \A i \in 1..Len(queue) :
        /\ queue[i].id <= submitted
        /\ \A j \in 1..Len(queue) : queue[i] = queue[j] => i = j
        /\ active # None => queue[i] # active.request
        /\ \A report \in reports : report.request # queue[i]
    /\ active # None => /\ active.request.id <= submitted
                        /\ \A report \in reports : report.request # active.request
    /\ \A report \in reports :
        /\ report.request.id <= submitted
        /\ \A other \in reports : other.request = report.request => other = report

\* An answer is backed by what the server has recorded.
Backed(request, answer) ==
    /\ answer = "accepted" => Made(request) # {}
    /\ answer = "rejected" => Refused(request) # {}

\* The server records one verdict on a request, and every answer under way says it.
Truthful ==
    /\ \A request \in Requests : Made(request) = {} \/ Refused(request) = {}
    /\ \A report \in reports : Backed(report.request, report.outcome)
    /\ active # None /\ active.stage \in Answered => Backed(active.request, active.answer)
    /\ busy # None => Backed(busy.request, busy.answer)
    /\ \A i \in 1..Len(toClient) :
        toClient[i].kind = "ack" => Backed(toClient[i].request, toClient[i].answer)

AtMost(v, w) == v.version <= w.version /\ v.publication <= w.publication
Carries(i) == toClient[i].kind \in {"view", "update"}

\* Views arrive in the order the server made them.
Ordered ==
    /\ AtMost(view, View(server))
    /\ \A i \in 1..Len(toClient) : Carries(i) =>
        /\ AtMost(view, toClient[i].view) /\ AtMost(toClient[i].view, View(server))
        /\ \A j \in i..Len(toClient) : Carries(j) => AtMost(toClient[i].view, toClient[j].view)

\* A view that no publication follows is the server's.
Latest ==
    served = "current" =>
        \A i \in 1..Len(toClient) :
            Carries(i) /\ (\A j \in i + 1..Len(toClient) : toClient[j].kind # "update")
                => toClient[i].view = View(server)

\* With no view under way the browser has the server's, or knows that it may not.
Flagged ==
    served = "current" /\ Attached /\ (\A i \in 1..Len(toClient) : ~Carries(i))
        => resync \/ task \/ view = View(server)

\* A connection the server has let go of is told so.
Noticed ==
    (Attached \/ \E i \in 1..Len(toClient) : toClient[i].kind = "resumed")
        => served = "current" \/ \E i \in 1..Len(toClient) : toClient[i].kind = "cut"

DeliveryInvariant == Typed /\ Settled /\ Truthful /\ Ordered /\ Latest /\ Flagged /\ Noticed

-----------------------------------------------------------------------------
(* What is left of a sequence by Pick.                                     *)

\* An increasing numbering of the kept positions: how many there are so far.
LEMMA Ranks ==
  ASSUME NEW n \in Nat, NEW kept \in SUBSET (1..n)
  PROVE  LET rank(i) == Cardinality({j \in kept : j <= i})
         IN  /\ Cardinality(kept) \in Nat
             /\ \A i \in kept : rank(i) \in 1..Cardinality(kept)
             /\ \A i, j \in kept : i < j => rank(i) < rank(j)
             /\ \A k \in 1..Cardinality(kept) : \E i \in kept : rank(i) = k
<1> DEFINE upto(i) == {j \in kept : j <= i}
           rank(i) == Cardinality(upto(i))
<1>0. \A i \in kept : i \in Nat /\ i <= n
  OBVIOUS
<1>1. IsFiniteSet(kept) /\ Cardinality(kept) \in Nat
  <2>1. IsFiniteSet(1..n)
    BY FS_Interval
  <2>2. IsFiniteSet(kept)
    BY <2>1, FS_Subset
  <2>3. QED
    BY <2>2, FS_CardinalityType
<1>2. \A i : IsFiniteSet(upto(i)) /\ rank(i) \in Nat /\ rank(i) <= Cardinality(kept)
  <2> SUFFICES ASSUME NEW i
               PROVE  IsFiniteSet(upto(i)) /\ rank(i) \in Nat /\ rank(i) <= Cardinality(kept)
    OBVIOUS
  <2>1. upto(i) \in SUBSET kept
    OBVIOUS
  <2> HIDE DEF upto
  <2>2. QED
    BY <1>1, <2>1, FS_Subset, FS_CardinalityType
<1>3. ASSUME NEW i \in kept
      PROVE  rank(i) \in 1..Cardinality(kept)
  <2>1. i \in upto(i)
    OBVIOUS
  <2> HIDE DEF upto
  <2>2. rank(i) # 0
    BY <1>2, <2>1, FS_EmptySet
  <2>3. QED
    BY <1>1, <1>2, <2>2
<1>4. ASSUME NEW i \in kept, NEW j \in kept, i < j
      PROVE  rank(i) < rank(j)
  <2>1. upto(i) \in SUBSET upto(j) /\ j \in upto(j) /\ j \notin upto(i)
    <3>1. j <= j /\ ~(j <= i) /\ \A k \in kept : k <= i => k <= j
      BY <1>0, <1>4
    <3>2. QED
      BY <3>1
  <2> HIDE DEF upto
  <2>2. rank(i) <= rank(j) /\ rank(i) # rank(j)
    BY <1>2, <2>1, FS_Subset
  <2>3. QED
    BY <1>2, <2>2
<1>5. ASSUME NEW k \in 1..Cardinality(kept)
      PROVE  \E i \in kept : rank(i) = k
  <2> DEFINE enough == {i \in Nat : rank(i) >= k}
  <2>1. upto(n) = kept
    BY <1>0
  <2>2. rank(n) = Cardinality(kept)
    BY <2>1
  <2>3. n \in enough /\ enough \subseteq Nat
    BY <2>2
  <2>4. PICK m \in enough : \A i \in enough : m <= i
    <3> HIDE DEF enough
    <3>1. PICK m \in enough : \A i \in enough : ~(<<i, m>> \in OpToRel(<, Nat))
      BY <2>3, NatLessThanWellFounded, WFMin
    <3>2. ASSUME NEW i \in enough, i < m
          PROVE  FALSE
      <4>1. i \in Nat /\ m \in Nat
        BY <2>3
      <4>2. <<i, m>> \in Nat \X Nat /\ <<i, m>>[1] = i /\ <<i, m>>[2] = m
        BY <4>1
      <4>3. <<i, m>> \in OpToRel(<, Nat)
        BY <3>2, <4>2, ZenonT(30) DEF OpToRel
      <4>4. QED
        BY <3>1, <4>3, Zenon
    <3>3. \A i \in enough : i \in Nat /\ m \in Nat /\ ~(i < m)
      BY <2>3, <3>2
    <3>4. QED
      BY <3>3
  <2>5. m \in Nat /\ rank(m) >= k
    BY <2>4
  <2>6. m # 0
    <3>1. \A i \in kept : ~(i <= 0)
      OBVIOUS
    <3>2. rank(0) = 0
      BY <3>1, FS_EmptySet, Zenon
    <3>3. QED
      BY <2>5, <3>2
  <2>7. m - 1 \in Nat /\ m - 1 \notin enough
    <3> HIDE DEF enough
    <3>1. m - 1 \in Nat /\ ~(m <= m - 1)
      BY <2>5, <2>6
    <3>2. QED
      BY <2>4, <3>1
  <2>8. rank(m - 1) < k
    <3>1. rank(m - 1) \in Nat /\ ~(rank(m - 1) >= k)
      BY <1>2, <2>7
    <3>2. QED
      BY <3>1
  <2>9. upto(m) = IF m \in kept THEN upto(m - 1) \cup {m} ELSE upto(m - 1)
    <3>1. \A i \in kept : i <= m <=> i <= m - 1 \/ i = m
      BY <1>0, <2>5
    <3>2. QED
      BY <2>5, <3>1
  <2>10. m \notin upto(m - 1)
    BY <2>5
  <2> HIDE DEF upto, enough
  <2>11. m \in kept
    BY <2>5, <2>8, <2>9, <1>2
  <2>12. rank(m) = rank(m - 1) + 1
    BY <1>2, <2>9, <2>10, <2>11, FS_AddElement
  <2>13. QED
    BY <1>2, <2>5, <2>8, <2>11, <2>12
<1>6. QED
  BY <1>1, <1>3, <1>4, <1>5

\* Pick keeps exactly the messages at the kept positions, in their order.
LEMMA PickFacts ==
  ASSUME NEW T, NEW q \in Seq(T), NEW kept \in SUBSET (1..Len(q))
  PROVE  /\ Pick(q, kept) \in Seq(T)
         /\ \E at \in [1..Len(Pick(q, kept)) -> kept] :
              /\ \A k \in 1..Len(Pick(q, kept)) : Pick(q, kept)[k] = q[at[k]]
              /\ \A k, l \in 1..Len(Pick(q, kept)) : k < l => at[k] < at[l]
              /\ \A i \in kept : \E k \in 1..Len(Pick(q, kept)) : at[k] = i
<1> DEFINE rank(i) == Cardinality({j \in kept : j <= i})
           n == Cardinality(kept)
           at == [k \in 1..n |-> CHOOSE i \in kept : rank(i) = k]
<1>0. Len(q) \in Nat /\ \A i \in kept : i \in 1..Len(q) /\ i \in Nat
  OBVIOUS
<1>1. /\ n \in Nat
      /\ \A i \in kept : rank(i) \in 1..n
      /\ \A i, j \in kept : i < j => rank(i) < rank(j)
      /\ \A k \in 1..n : \E i \in kept : rank(i) = k
  BY <1>0, Ranks, Zenon
<1>2. Pick(q, kept) = [k \in 1..n |-> q[CHOOSE i \in kept : rank(i) = k]]
  BY DEF Pick
<1> HIDE DEF rank, n
<1>3. \A k \in 1..n : at[k] \in kept /\ rank(at[k]) = k
  BY <1>1
<1>4. Pick(q, kept) = [k \in 1..n |-> q[at[k]]]
  BY <1>2
<1>5. at \in [1..n -> kept]
  BY <1>3
<1> HIDE DEF at
<1>6. \A k \in 1..n : q[at[k]] \in T
  <2>1. \A i \in 1..Len(q) : q[i] \in T
    OBVIOUS
  <2>2. QED
    BY <1>0, <1>3, <2>1
<1>7. Pick(q, kept) \in Seq(T) /\ Len(Pick(q, kept)) = n
  BY <1>1, <1>4, <1>6
<1>8. ASSUME NEW k \in 1..n, NEW l \in 1..n, k < l
      PROVE  at[k] < at[l]
  <2>1. PICK x, y : x = at[k] /\ y = at[l]
    OBVIOUS
  <2>2. x \in kept /\ y \in kept /\ rank(x) = k /\ rank(y) = l
    BY <1>3, <2>1
  <2>3. y < x => l < k
    BY <1>1, <2>2
  <2>4. k \in Nat /\ l \in Nat /\ k # l /\ ~(l < k)
    BY <1>1, <1>8
  <2>5. x # y
    BY <2>2, <2>4
  <2>6. x \in Nat /\ y \in Nat
    BY <1>0, <2>2
  <2>7. QED
    BY <2>1, <2>3, <2>4, <2>5, <2>6
<1>9. ASSUME NEW i \in kept
      PROVE  \E k \in 1..n : at[k] = i
  <2>1. rank(i) \in 1..n
    BY <1>1
  <2>2. PICK j : j = at[rank(i)]
    OBVIOUS
  <2>3. j \in kept /\ rank(j) = rank(i)
    BY <1>3, <2>1, <2>2
  <2>4. (j < i => rank(j) < rank(i)) /\ (i < j => rank(i) < rank(j))
    BY <1>1, <2>3
  <2>5. i \in Nat /\ j \in Nat /\ rank(i) \in Nat
    BY <1>0, <1>1, <2>1, <2>3
  <2>6. j = i
    BY <2>3, <2>4, <2>5
  <2>7. QED
    BY <2>1, <2>2, <2>6
<1>10. QED
  BY <1>4, <1>5, <1>7, <1>8, <1>9

-----------------------------------------------------------------------------
(* What the steps of a delivery make of its entry.                         *)

\* A new entry has its first attempt before it.
LEMMA StartFacts ==
  ASSUME NEW request \in Requests
  PROVE  /\ Start(request) \in EntryType
         /\ Start(request).request = request /\ Start(request).stage = "start"
<1>1. 1 \in Attempts
  BY DeliveryConstants DEF Attempts
<1>2. QED
  BY <1>1 DEF Start, EntryType, Stages, Attempts

\* An entry at another stage is the same entry.
LEMMA StageFacts ==
  ASSUME NEW entry \in EntryType, NEW stage \in Stages
  PROVE  LET next == [entry EXCEPT !.stage = stage]
         IN  /\ next \in EntryType /\ next.stage = stage
             /\ next.request = entry.request /\ next.answer = entry.answer
BY DEF EntryType

\* A retry is an attempt more, or gives up: it has no answer to report.
LEMMA RetryFacts ==
  ASSUME NEW entry \in EntryType
  PROVE  /\ Retry(entry) \in EntryType /\ Retry(entry).stage \in {"start", "failed"}
         /\ Retry(entry).request = entry.request
<1>1. CASE entry.attempt <= MaxRetries
  <2>1. Retry(entry) = [entry EXCEPT !.attempt = entry.attempt + 1, !.stage = "start"]
    BY <1>1 DEF Retry
  <2>2. entry.attempt + 1 \in 1..MaxRetries + 1 /\ "start" \in Stages
    BY <1>1, DeliveryConstants DEF EntryType, Stages
  <2>3. QED
    BY <2>1, <2>2 DEF EntryType
<1>2. CASE ~(entry.attempt <= MaxRetries)
  <2>1. Retry(entry) = [entry EXCEPT !.stage = "failed"]
    BY <1>2 DEF Retry
  <2>2. QED
    BY <2>1 DEF EntryType, Stages
<1>3. QED
  BY <1>1, <1>2

\* The stages a settled snapshot leads to.
LEMMA OnwardFacts ==
  ASSUME NEW entry, entry \in EntryType \cup {None}, NEW ok \in BOOLEAN
  PROVE  LET next == AfterSnapshot(entry, ok)
         IN  /\ next \in EntryType \cup {None}
             /\ next # None => /\ entry # None /\ next.request = entry.request
                               /\ next.answer = entry.answer
                               /\ next.stage \in Answered => entry.stage \in Answered
<1>1. CASE entry = None \/ entry.stage \notin Waiting
  BY <1>1 DEF AfterSnapshot
<1>2. CASE ~(entry = None \/ entry.stage \notin Waiting)
  <2> DEFINE stage == IF entry.stage = "failing" THEN "rejected" ELSE IF ~ok THEN "failed" ELSE Onward[entry.stage]
  <2>1. entry \in EntryType /\ entry.stage \in Waiting /\ entry # None
    BY <1>2
  <2>2. AfterSnapshot(entry, ok) = [entry EXCEPT !.stage = stage]
    BY <1>2 DEF AfterSnapshot
  <2>3. Onward["sync"] = "pace" /\ Onward["resend"] = "send" /\ Onward["confirm"] = "confirmed"
    BY DEF Onward
  <2>4. stage \in {"rejected", "failed", "pace", "send", "confirmed"}
    BY <2>1, <2>3 DEF Waiting
  <2>5. stage = "confirmed" => entry.stage = "confirm"
    BY <2>1, <2>3 DEF Waiting
  <2> HIDE DEF stage
  <2>6. stage \in Stages
    BY <2>4 DEF Stages
  <2>7. stage \in Answered => entry.stage \in Answered
    BY <2>4, <2>5 DEF Answered
  <2>8. QED
    BY <2>1, <2>2, <2>6, <2>7, StageFacts
<1>3. QED
  BY <1>1, <1>2

-----------------------------------------------------------------------------
(* The steps of the delivery loop that report nothing.                     *)

\* The delivery goes on: it may send, ask for a snapshot, and give up an answer.
Goes ==
    /\ active' \in EntryType \cup {None}
    /\ active' # None => /\ active # None /\ active'.request = active.request
                         /\ active'.stage \in Answered =>
                                active.stage \in Answered /\ active'.answer = active.answer

\* The steps that leave the server, what comes from it and the view alone.
Inner ==
    /\ link' = link /\ resuming' = resuming /\ view' = view /\ queue' = queue
    /\ toClient' = toClient /\ served' = served /\ work' = work /\ busy' = busy
    /\ server' = server /\ ended' = ended /\ reports' = reports /\ submitted' = submitted
    /\ losses' = losses
    /\ toServer' \in Seq(Outgoing) /\ asks' \in Nat
    /\ task' \in BOOLEAN /\ resync' \in BOOLEAN
    /\ task = TRUE => task' = TRUE
    /\ resync = TRUE => resync' = TRUE
    /\ Goes

\* What the browser sends.
LEMMA OutgoingFacts ==
  /\ Ask \in Outgoing
  /\ \A entry \in EntryType : Command(entry) \in Outgoing /\ Command(entry) \in CommandType
BY DEF Ask, Command, Outgoing, CommandType, EntryType, Attempts

\* A request for a snapshot sends one message at most.
LEMMA RequestFacts ==
  ASSUME Typed, RequestSnapshot
  PROVE  task' = TRUE /\ toServer' \in Seq(Outgoing)
BY OutgoingFacts DEF Typed, RequestSnapshot, Send

\* An entry that only moves to another stage goes on.
LEMMA GoFacts ==
  ASSUME Typed, active # None, NEW stage \in Stages \ Answered, Go(stage)
  PROVE  Goes
<1>1. active \in EntryType
  BY DEF Typed, TypeOK
<1>2. active' = [active EXCEPT !.stage = stage]
  BY DEF Go
<1>3. QED
  BY <1>1, <1>2, StageFacts DEF Goes

\* The delivery loop's own steps, but for those that report an outcome.
LEMMA InnerSteps ==
  ASSUME Typed,
         \/ Resync \/ Begin \/ Wake \/ Pace \/ SendCommand \/ Fail \/ AckTimeout \/ AttachTimeout
         \/ Confirm /\ view.version < active.version
  PROVE  Inner
<1>0. /\ task \in BOOLEAN /\ resync \in BOOLEAN /\ toServer \in Seq(Outgoing) /\ asks \in Nat
      /\ active \in EntryType \cup {None}
      /\ active # None => active \in EntryType
  BY DEF Typed, TypeOK
<1>1. \A stage \in {"attach", "start", "pace", "sync", "resend", "send", "reattach", "sent", "failed", "failing",
                    "rejected"} : stage \in Stages \ Answered
  BY DEF Stages, Waiting, Answered
<1>2. active' = active => Goes
  BY <1>0 DEF Goes
<1>3. ASSUME Resync PROVE Inner
  <2>1. asks' \in Nat /\ active' = active
    BY <1>0, <1>3 DEF Resync
  <2>2. task' = TRUE /\ toServer' \in Seq(Outgoing)
    BY <1>3, RequestFacts DEF Resync
  <2>3. QED
    BY <1>0, <1>2, <1>3, <2>1, <2>2 DEF Resync, Inner, game
<1>4. ASSUME Begin PROVE Inner
  <2>1. Goes
    BY <1>1, <1>4, GoFacts DEF Begin, At
  <2>2. task' \in {task, TRUE} /\ toServer' \in Seq(Outgoing)
    BY <1>0, <1>4, RequestFacts DEF Begin
  <2>3. QED
    BY <1>0, <1>4, <2>1, <2>2 DEF Begin, Inner, bounds, game
<1>5. ASSUME Wake PROVE Inner
  <2>1. Goes
    BY <1>1, <1>5, GoFacts DEF Wake, At
  <2>2. task' \in {task, TRUE} /\ toServer' \in Seq(Outgoing)
    BY <1>0, <1>5, RequestFacts DEF Wake
  <2>3. QED
    BY <1>0, <1>5, <2>1, <2>2 DEF Wake, Inner, bounds, game
<1>6. ASSUME Pace PROVE Inner
  <2>1. Goes
    BY <1>1, <1>6, GoFacts DEF Pace, At
  <2>2. QED
    BY <1>0, <1>6, <2>1 DEF Pace, Inner, bounds, channels, game
<1>7. ASSUME SendCommand PROVE Inner
  <2>1. Goes
    BY <1>1, <1>7, GoFacts DEF SendCommand, At
  <2>2. toServer' \in Seq(Outgoing)
    BY <1>0, <1>7, OutgoingFacts DEF SendCommand, Send, At
  <2>3. QED
    BY <1>0, <1>7, <2>1, <2>2 DEF SendCommand, Inner, bounds, game
<1>8. ASSUME Fail PROVE Inner
  <2>1. Goes
    BY <1>1, <1>8, GoFacts DEF Fail, At
  <2>2. task' \in {task, TRUE} /\ toServer' \in Seq(Outgoing)
    BY <1>0, <1>8, RequestFacts DEF Fail
  <2>3. QED
    BY <1>0, <1>8, <2>1, <2>2 DEF Fail, Inner, bounds, game
<1>9. ASSUME AckTimeout PROVE Inner
  <2>1. active \in EntryType /\ active # None /\ active' = Retry(active)
    BY <1>0, <1>9 DEF AckTimeout, At
  <2>2. Goes
    BY <2>1, RetryFacts DEF Goes, Answered
  <2>3. toServer' \in Seq(Outgoing)
    <3> DEFINE kept == {i \in 1..Len(toServer) : toServer[i] # Command(active)}
    <3>1. toServer' = Pick(toServer, kept) \/ toServer' = toServer
      BY <1>9 DEF AckTimeout
    <3>2. kept \in SUBSET (1..Len(toServer))
      OBVIOUS
    <3> HIDE DEF kept
    <3>3. QED
      BY <1>0, <3>1, <3>2, PickFacts
  <2>4. QED
    BY <1>0, <1>9, <2>2, <2>3 DEF AckTimeout, Inner, bounds, game
<1>10. ASSUME AttachTimeout PROVE Inner
  <2>1. Goes
    BY <1>1, <1>10, GoFacts DEF AttachTimeout, At
  <2>2. QED
    BY <1>0, <1>10, <2>1 DEF AttachTimeout, Inner, bounds, channels, game
<1>11. ASSUME Confirm, view.version < active.version PROVE Inner
  <2>1. Goes
    BY <1>1, <1>11, GoFacts DEF Confirm, At
  <2>2. QED
    BY <1>0, <1>11, <2>1 DEF Confirm, Inner, bounds, channels, game
<1>12. QED
  BY <1>3, <1>4, <1>5, <1>6, <1>7, <1>8, <1>9, <1>10, <1>11

\* What is told of views depends on these variables alone.
LEMMA ViewsKept ==
  ASSUME Ordered, Latest, Flagged, Noticed,
         link' = link, view' = view, toClient' = toClient, served' = served, server' = server,
         task = TRUE => task' = TRUE, resync = TRUE => resync' = TRUE
  PROVE  Ordered' /\ Latest' /\ Flagged' /\ Noticed'
<1>1. Ordered' /\ Latest' /\ Noticed'
  BY DEF Ordered, Latest, Noticed, Carries, View, Attached
<1>2. Flagged'
  BY DEF Flagged, Carries, View, Attached
<1>3. QED
  BY <1>1, <1>2

\* None of them changes what the player is told or shown.
LEMMA InnerKeeps ==
  ASSUME DeliveryInvariant, Inner
  PROVE  DeliveryInvariant'
<1>0. /\ link' = link /\ resuming' = resuming /\ view' = view /\ queue' = queue /\ toClient' = toClient
      /\ served' = served /\ work' = work /\ busy' = busy /\ server' = server /\ ended' = ended
      /\ reports' = reports /\ submitted' = submitted /\ losses' = losses
  BY DEF Inner
<1>1. Typed'
  <2>1. active' # None /\ active'.stage \in Answered => active'.answer \in {"accepted", "rejected"}
    BY DEF DeliveryInvariant, Typed, Inner, Goes
  <2>2. QED
    BY <1>0, <2>1 DEF DeliveryInvariant, Typed, TypeOK, Inner, Goes
<1>2. Settled'
  BY <1>0 DEF DeliveryInvariant, Settled, Inner, Goes
<1>3. Truthful'
  BY <1>0 DEF DeliveryInvariant, Truthful, Inner, Goes, Backed, Made, Refused
<1>4. Ordered' /\ Latest' /\ Flagged' /\ Noticed'
  BY <1>0, ViewsKept DEF DeliveryInvariant, Inner
<1>5. QED
  BY <1>1, <1>2, <1>3, <1>4 DEF DeliveryInvariant

-----------------------------------------------------------------------------
(* Commands submitted and reported.                                        *)

\* A submitted command is new, and waits in one place.
LEMMA SubmitKeeps ==
  ASSUME DeliveryInvariant, Submit
  PROVE  DeliveryInvariant'
<1> DEFINE request == [id |-> submitted + 1, expected |-> view.version]
<1>0. /\ link' = link /\ resuming' = resuming /\ view' = view /\ resync' = resync /\ task' = task
      /\ toServer' = toServer /\ toClient' = toClient /\ served' = served /\ work' = work
      /\ busy' = busy /\ server' = server /\ ended' = ended /\ reports' = reports
      /\ losses' = losses /\ asks' = asks /\ submitted' = submitted + 1
  BY DEF Submit, channels, game, bounds
<1>1. /\ submitted \in Nat /\ submitted + asks < MaxCommands /\ view.version \in Nat
      /\ view.version < FinalVersion /\ asks \in Nat /\ queue \in Seq(Requests) /\ Len(queue) \in Nat
      /\ active \in EntryType \cup {None}
      /\ active # None => active.request \in Requests
      /\ Len(queue) < QueueCapacity
  BY DEF Submit, DeliveryInvariant, Typed, TypeOK, ViewType, EntryType
<1>2. request \in Requests /\ request.id = submitted + 1
  BY <1>1, DeliveryConstants DEF Requests
<1> HIDE DEF request
<1>3. submitted' \in 0..MaxCommands
  BY <1>0, <1>1, DeliveryConstants
<1>4. /\ \A i \in 1..Len(queue) : queue[i] # request
      /\ active # None => active.request # request
      /\ \A report \in reports : report.request # request
  <2>1. ~(submitted + 1 <= submitted)
    BY <1>1
  <2>2. QED
    BY <1>2, <2>1 DEF DeliveryInvariant, Settled
<1>5. CASE active = None
  <2>1. active' = Start(request) /\ queue' = queue
    BY <1>5 DEF Submit, request
  <2>2. active' \in EntryType /\ active'.request = request /\ active'.stage = "start"
    BY <1>2, <2>1, StartFacts
  <2>3. Typed'
    BY <1>0, <1>3, <2>1, <2>2 DEF DeliveryInvariant, Typed, TypeOK, Answered
  <2>4. Settled'
    <3>1. submitted <= submitted' /\ request.id <= submitted'
      BY <1>0, <1>1, <1>2
    <3>2. \A i \in 1..Len(queue) : queue[i].id \in Nat /\ queue[i].id <= submitted'
      <4>1. \A i \in 1..Len(queue) : queue[i] \in Requests /\ queue[i].id <= submitted
        BY <1>1 DEF DeliveryInvariant, Settled
      <4>2. \A r \in Requests : r.id \in Nat /\ (r.id <= submitted => r.id <= submitted')
        BY <1>0, <1>1 DEF Requests
      <4>3. QED
        BY <4>1, <4>2
    <3>3. \A report \in reports : report.request.id \in Nat /\ report.request.id <= submitted'
      BY <1>0, <1>1 DEF DeliveryInvariant, Settled, Requests, Typed, TypeOK
    <3>4. QED
      BY <1>0, <1>4, <2>1, <2>2, <3>1, <3>2, <3>3 DEF DeliveryInvariant, Settled
  <2>5. Truthful'
    BY <1>0, <2>2 DEF DeliveryInvariant, Truthful, Answered, Backed, Made, Refused
  <2>6. QED
    BY <1>0, <2>3, <2>4, <2>5, ViewsKept DEF DeliveryInvariant
<1>6. CASE active # None
  <2>1. active' = active /\ queue' = Append(queue, request)
    BY <1>6 DEF Submit, request
  <2>2. /\ queue' \in Seq(Requests) /\ Len(queue') = Len(queue) + 1
        /\ queue'[Len(queue) + 1] = request
        /\ \A i \in 1..Len(queue) : queue'[i] = queue[i]
    BY <1>1, <1>2, <2>1
  <2>3. Len(queue') < QueueCapacity
    BY <1>1, <1>6, <2>2 DEF Submit
  <2>4. Typed'
    BY <1>0, <1>3, <2>1, <2>2, <2>3 DEF DeliveryInvariant, Typed, TypeOK
  <2>5. Settled'
    <3>1. submitted <= submitted' /\ request.id <= submitted'
      BY <1>0, <1>1, <1>2
    <3>2. \A i \in 1..Len(queue) : queue[i].id \in Nat /\ queue[i].id <= submitted'
      <4>1. \A i \in 1..Len(queue) : queue[i] \in Requests /\ queue[i].id <= submitted
        BY <1>1 DEF DeliveryInvariant, Settled
      <4>2. \A r \in Requests : r.id \in Nat /\ (r.id <= submitted => r.id <= submitted')
        BY <1>0, <1>1 DEF Requests
      <4>3. QED
        BY <4>1, <4>2
    <3>3. \A report \in reports : report.request.id \in Nat /\ report.request.id <= submitted'
      BY <1>0, <1>1 DEF DeliveryInvariant, Settled, Requests, Typed, TypeOK
    <3>4. active.request.id <= submitted'
      <4>1. active.request \in Requests /\ active.request.id <= submitted
        BY <1>1, <1>6 DEF DeliveryInvariant, Settled
      <4>2. QED
        BY <1>0, <1>1, <4>1 DEF Requests
    <3>5. \A i \in 1..Len(queue') : i \in 1..Len(queue) \/ i = Len(queue) + 1
      BY <1>1, <2>2
    <3>6. ASSUME NEW i \in 1..Len(queue')
          PROVE  /\ queue'[i].id <= submitted'
                 /\ \A j \in 1..Len(queue') : queue'[i] = queue'[j] => i = j
                 /\ queue'[i] # active.request
                 /\ \A report \in reports : report.request # queue'[i]
      <4>1. CASE i \in 1..Len(queue)
        BY <1>4, <1>6, <2>2, <3>2, <3>5, <4>1 DEF DeliveryInvariant, Settled
      <4>2. CASE i = Len(queue) + 1
        BY <1>4, <1>6, <2>2, <3>1, <3>5, <4>2
      <4>3. QED
        BY <3>5, <4>1, <4>2
    <3>7. QED
      BY <1>0, <1>6, <2>1, <3>3, <3>4, <3>6 DEF DeliveryInvariant, Settled
  <2>6. Truthful'
    BY <1>0, <2>1 DEF DeliveryInvariant, Truthful, Answered, Backed, Made, Refused
  <2>7. QED
    BY <1>0, <2>4, <2>5, <2>6, ViewsKept DEF DeliveryInvariant
<1>7. QED
  BY <1>5, <1>6

\* A command reported is not waited for again; the next one takes its place.
LEMMA ReportKeeps ==
  ASSUME DeliveryInvariant, active # None, NEW outcome \in {"accepted", "rejected", "failed"},
         Backed(active.request, outcome), Report(outcome),
         UNCHANGED <<link, resuming, view, resync, task, channels, game, submitted, bounds>>
  PROVE  DeliveryInvariant'
<1> DEFINE report == [request |-> active.request, outcome |-> outcome]
<1>0. /\ link' = link /\ resuming' = resuming /\ view' = view /\ resync' = resync /\ task' = task
      /\ toServer' = toServer /\ toClient' = toClient /\ served' = served /\ work' = work
      /\ busy' = busy /\ server' = server /\ ended' = ended /\ submitted' = submitted
      /\ losses' = losses /\ asks' = asks
  BY DEF channels, game, bounds
<1>1. /\ active \in EntryType /\ active.request \in Requests /\ queue \in Seq(Requests)
      /\ reports \subseteq [request : Requests, outcome : Outcomes]
      /\ Len(queue) < QueueCapacity /\ Len(queue) \in Nat /\ QueueCapacity \in Nat
  BY DeliveryConstants DEF DeliveryInvariant, Typed, TypeOK, EntryType
<1>2. report \in [request : Requests, outcome : Outcomes] /\ report.request = active.request
      /\ report.outcome = outcome
  BY <1>1 DEF Outcomes
<1>3. reports' = reports \cup {report}
  BY DEF Report
<1> HIDE DEF report
<1>4. \A old \in reports : old.request # active.request /\ old.request.id <= submitted
  BY DEF DeliveryInvariant, Settled
<1>5. \A new \in reports' :
        /\ new.request.id <= submitted /\ Backed(new.request, new.outcome)
        /\ \A other \in reports' : other.request = new.request => other = new
        /\ \A i \in 1..Len(queue) : new.request # queue[i]
  BY <1>2, <1>3, <1>4 DEF DeliveryInvariant, Settled, Truthful
<1>6. reports' \subseteq [request : Requests, outcome : Outcomes]
  BY <1>1, <1>2, <1>3
<1>7. CASE queue = <<>>
  <2>1. active' = None /\ queue' = queue
    BY <1>7 DEF Report
  <2>2. Typed'
    BY <1>0, <1>6, <2>1 DEF DeliveryInvariant, Typed, TypeOK
  <2>3. Settled'
    BY <1>0, <1>5, <1>7, <2>1 DEF Settled
  <2>4. Truthful'
    BY <1>0, <1>5, <2>1 DEF DeliveryInvariant, Truthful, Backed, Made, Refused
  <2>5. QED
    BY <1>0, <2>2, <2>3, <2>4, ViewsKept DEF DeliveryInvariant
<1>8. CASE queue # <<>>
  <2>1. active' = Start(Head(queue)) /\ queue' = Tail(queue)
    BY <1>8 DEF Report
  <2>2. /\ Head(queue) = queue[1] /\ 1 \in 1..Len(queue) /\ Head(queue) \in Requests
        /\ queue' \in Seq(Requests) /\ Len(queue') = Len(queue) - 1
        /\ \A i \in 1..Len(queue') : queue'[i] = queue[i + 1] /\ i + 1 \in 1..Len(queue) /\ i + 1 # 1
    BY <1>1, <1>8, <2>1
  <2>3. active' \in EntryType /\ active'.request = queue[1] /\ active'.stage = "start"
    BY <2>1, <2>2, StartFacts
  <2>4. Len(queue') < QueueCapacity
    BY <1>1, <2>2
  <2>5. Typed'
    BY <1>0, <1>6, <2>2, <2>3, <2>4 DEF DeliveryInvariant, Typed, TypeOK, Answered
  <2>6. Settled'
    <3>1. ASSUME NEW i \in 1..Len(queue')
          PROVE  /\ queue'[i].id <= submitted'
                 /\ \A j \in 1..Len(queue') : queue'[i] = queue'[j] => i = j
                 /\ queue'[i] # active'.request
                 /\ \A new \in reports' : new.request # queue'[i]
      <4>1. \A j \in 1..Len(queue') : queue[i + 1] = queue[j + 1] => i + 1 = j + 1
        BY <2>2 DEF DeliveryInvariant, Settled
      <4>2. queue[i + 1] # queue[1] /\ queue[i + 1].id <= submitted
        BY <2>2 DEF DeliveryInvariant, Settled
      <4>3. \A new \in reports' : new.request # queue[i + 1]
        BY <1>5, <2>2
      <4>4. \A j \in 1..Len(queue') : i + 1 = j + 1 => i = j
        OBVIOUS
      <4>5. QED
        BY <1>0, <2>2, <2>3, <4>1, <4>2, <4>3, <4>4
    <3>2. active'.request.id <= submitted' /\ \A new \in reports' : new.request # active'.request
      BY <1>0, <1>5, <2>2, <2>3 DEF DeliveryInvariant, Settled
    <3>3. QED
      BY <1>0, <1>5, <3>1, <3>2 DEF Settled
  <2>7. Truthful'
    BY <1>0, <1>5, <2>3 DEF DeliveryInvariant, Truthful, Answered, Backed, Made, Refused
  <2>8. QED
    BY <1>0, <2>5, <2>6, <2>7, ViewsKept DEF DeliveryInvariant
<1>9. QED
  BY <1>7, <1>8

\* The outcomes the delivery loop reports are backed.
LEMMA ConfirmKeeps ==
  ASSUME DeliveryInvariant, Confirm, ~(view.version < active.version)
  PROVE  DeliveryInvariant'
<1>1. active # None /\ active.answer \in {"accepted", "rejected"} /\ Backed(active.request, active.answer)
  BY DEF Confirm, At, DeliveryInvariant, Typed, Truthful, Answered
<1>2. Report(active.answer) /\ UNCHANGED <<link, resuming, view, resync, task, channels, game, submitted, bounds>>
  BY DEF Confirm
<1>3. QED
  BY <1>1, <1>2, ReportKeeps

\* A failure claims nothing.
LEMMA RejectKeeps ==
  ASSUME DeliveryInvariant, Reject
  PROVE  DeliveryInvariant'
<1>1. active # None /\ Backed(active.request, "failed")
  BY DEF Reject, At, Backed
<1>2. Report("failed") /\ UNCHANGED <<link, resuming, view, resync, task, channels, game, submitted, bounds>>
  BY DEF Reject
<1>3. QED
  BY <1>1, <1>2, ReportKeeps

-----------------------------------------------------------------------------
(* What is left of the messages to the browser after some of them.         *)

\* The messages under way are some of those before, every publication after
\* the first of them and every loss included: at says where they were.
Sifted(at) ==
    /\ at \in [1..Len(toClient') -> 1..Len(toClient)]
    /\ \A i \in 1..Len(toClient') : toClient'[i] = toClient[at[i]]
    /\ \A i, j \in 1..Len(toClient') : i < j => at[i] < at[j]
    /\ \A i \in 1..Len(toClient'), j \in 1..Len(toClient) :
        at[i] < j /\ toClient[j].kind = "update" => \E k \in 1..Len(toClient') : at[k] = j

\* The first message is gone.
LEMMA TailSifts ==
  ASSUME toClient \in Seq(Incoming), toClient # <<>>, toClient' = Tail(toClient)
  PROVE  /\ toClient' \in Seq(Incoming) /\ Len(toClient) \in Nat /\ 1 \in 1..Len(toClient)
         /\ Len(toClient') = Len(toClient) - 1
         /\ Message = toClient[1] /\ Message \in Incoming
         /\ \A i \in 1..Len(toClient') : toClient'[i] = toClient[i + 1] /\ i + 1 \in 1..Len(toClient)
         /\ \A i \in 1..Len(toClient) : i # 1 => i - 1 \in 1..Len(toClient') /\ toClient'[i - 1] = toClient[i]
         /\ \E at : Sifted(at)
<1> DEFINE at == [i \in 1..Len(toClient') |-> i + 1]
<1>1. /\ toClient' \in Seq(Incoming) /\ Len(toClient) \in Nat /\ 1 \in 1..Len(toClient)
      /\ Len(toClient') = Len(toClient) - 1
      /\ Message = toClient[1] /\ Message \in Incoming
      /\ \A i \in 1..Len(toClient') : toClient'[i] = toClient[i + 1] /\ i + 1 \in 1..Len(toClient)
  BY DEF Message
<1>2. \A i \in 1..Len(toClient) : i # 1 => i - 1 \in 1..Len(toClient') /\ toClient'[i - 1] = toClient[i]
  <2> SUFFICES ASSUME NEW i \in 1..Len(toClient), i # 1
               PROVE  i - 1 \in 1..Len(toClient') /\ toClient'[i - 1] = toClient[i]
    OBVIOUS
  <2>1. i - 1 \in 1..Len(toClient') /\ (i - 1) + 1 = i
    BY <1>1
  <2>2. QED
    BY <1>1, <2>1
<1>3. \A i \in 1..Len(toClient') : at[i] = i + 1
  OBVIOUS
<1>4. at \in [1..Len(toClient') -> 1..Len(toClient)]
  BY <1>1
<1> HIDE DEF at
<1>5. \A i, j \in 1..Len(toClient') : i < j => at[i] < at[j]
  BY <1>1, <1>3
<1>6. ASSUME NEW i \in 1..Len(toClient'), NEW j \in 1..Len(toClient), at[i] < j
      PROVE  \E k \in 1..Len(toClient') : at[k] = j
  <2>1. j - 1 \in 1..Len(toClient') /\ (j - 1) + 1 = j
    BY <1>1, <1>3, <1>6
  <2>2. QED
    BY <1>3, <2>1
<1>7. Sifted(at)
  BY <1>1, <1>3, <1>4, <1>5, <1>6 DEF Sifted
<1>8. QED
  BY <1>1, <1>2, <1>7

\* The answers to a request for a snapshot are gone.
LEMMA PickSifts ==
  ASSUME toClient \in Seq(Incoming),
         toClient' = Pick(toClient, {i \in 1..Len(toClient) : toClient[i].kind \notin {"view", "noview"}})
  PROVE  /\ toClient' \in Seq(Incoming)
         /\ \E at : Sifted(at)
         /\ \A i \in 1..Len(toClient) : toClient[i].kind \notin {"view", "noview"} =>
                \E k \in 1..Len(toClient') : toClient'[k] = toClient[i]
<1> DEFINE kept == {i \in 1..Len(toClient) : toClient[i].kind \notin {"view", "noview"}}
<1>1. kept \in SUBSET (1..Len(toClient))
  OBVIOUS
<1>2. \A i \in 1..Len(toClient) : toClient[i].kind \notin {"view", "noview"} <=> i \in kept
  OBVIOUS
<1>3. toClient' = Pick(toClient, kept)
  OBVIOUS
<1> HIDE DEF kept
<1>4. PICK p : p = Pick(toClient, kept)
  OBVIOUS
<1>5. /\ p \in Seq(Incoming)
      /\ \E at \in [1..Len(p) -> kept] :
           /\ \A k \in 1..Len(p) : p[k] = toClient[at[k]]
           /\ \A k, l \in 1..Len(p) : k < l => at[k] < at[l]
           /\ \A i \in kept : \E k \in 1..Len(p) : at[k] = i
  BY <1>1, <1>4, PickFacts, SMTT(25)
<1>6. PICK at \in [1..Len(p) -> kept] :
        /\ \A k \in 1..Len(p) : p[k] = toClient[at[k]]
        /\ \A k, l \in 1..Len(p) : k < l => at[k] < at[l]
        /\ \A i \in kept : \E k \in 1..Len(p) : at[k] = i
  BY <1>5
<1>7. \A j \in 1..Len(toClient) : toClient[j].kind = "update" => j \in kept
  BY <1>2
<1>8. toClient' = p
  BY <1>3, <1>4
<1>9. at \in [1..Len(toClient') -> 1..Len(toClient)]
  BY <1>1, <1>6, <1>8
<1>10. Sifted(at)
  BY <1>6, <1>7, <1>8, <1>9 DEF Sifted
<1>11. toClient' \in Seq(Incoming)
  BY <1>5, <1>8
<1>12. ASSUME NEW i \in 1..Len(toClient), toClient[i].kind \notin {"view", "noview"}
       PROVE  \E k \in 1..Len(toClient') : toClient'[k] = toClient[i]
  <2>1. PICK k \in 1..Len(p) : at[k] = i
    BY <1>2, <1>6, <1>12
  <2>2. QED
    BY <1>6, <1>8, <2>1
<1>13. QED
  BY <1>10, <1>11, <1>12

\* The order of the views, and that the last is the server's, outlive a sifting.
LEMMA SiftedKeeps ==
  ASSUME DeliveryInvariant, NEW at, Sifted(at), Len(toClient') \in Nat,
         server' = server, served' = served, AtMost(view', View(server)),
         \A i \in 1..Len(toClient') : Carries(i)' => AtMost(view', toClient'[i].view)
  PROVE  Ordered' /\ Latest'
<1>0. /\ at \in [1..Len(toClient') -> 1..Len(toClient)]
      /\ \A i \in 1..Len(toClient') : toClient'[i] = toClient[at[i]] /\ at[i] \in 1..Len(toClient)
      /\ Len(toClient) \in Nat /\ View(server)' = View(server)
  <2>1. at \in [1..Len(toClient') -> 1..Len(toClient)] /\ \A i \in 1..Len(toClient') : toClient'[i] = toClient[at[i]]
    BY DEF Sifted
  <2>2. Len(toClient) \in Nat
    BY DEF DeliveryInvariant, Typed
  <2>3. View(server)' = View(server)
    BY DEF View
  <2>4. QED
    BY <2>1, <2>2, <2>3
<1>1. ASSUME NEW i \in 1..Len(toClient'), Carries(i)'
      PROVE  /\ AtMost(view', toClient'[i].view) /\ AtMost(toClient'[i].view, View(server)')
             /\ \A j \in i..Len(toClient') : Carries(j)' => AtMost(toClient'[i].view, toClient'[j].view)
  <2>1. Carries(at[i]) /\ at[i] \in 1..Len(toClient)
    BY <1>0, <1>1 DEF Carries
  <2>2. AtMost(toClient[at[i]].view, View(server))
    BY <2>1 DEF DeliveryInvariant, Ordered
  <2>3. ASSUME NEW j \in i..Len(toClient'), Carries(j)'
        PROVE  AtMost(toClient'[i].view, toClient'[j].view)
    <3>1. j \in 1..Len(toClient') /\ (i = j \/ i < j)
      OBVIOUS
    <3>2. at[j] \in 1..Len(toClient) /\ toClient'[j] = toClient[at[j]]
      BY <1>0, <3>1
    <3>3. at[i] <= at[j]
      BY <1>0, <2>1, <3>1, <3>2 DEF Sifted
    <3>4. at[j] \in at[i]..Len(toClient)
      BY <1>0, <2>1, <3>2, <3>3
    <3>5. Carries(at[j])
      BY <2>3, <3>2 DEF Carries
    <3>6. AtMost(toClient[at[i]].view, toClient[at[j]].view)
      BY <2>1, <3>4, <3>5 DEF DeliveryInvariant, Ordered
    <3>7. QED
      BY <1>0, <3>2, <3>6
  <2>4. QED
    BY <1>0, <1>1, <2>2, <2>3
<1>2. ASSUME served = "current", NEW i \in 1..Len(toClient'), Carries(i)',
             \A j \in i + 1..Len(toClient') : toClient'[j].kind # "update"
      PROVE  toClient'[i].view = View(server)
  <2>1. Carries(at[i]) /\ at[i] \in 1..Len(toClient)
    BY <1>0, <1>2 DEF Carries
  <2>2. ASSUME NEW j \in at[i] + 1..Len(toClient)
        PROVE  toClient[j].kind # "update"
    <3> SUFFICES ASSUME toClient[j].kind = "update"
                 PROVE  FALSE
      OBVIOUS
    <3>1. j \in 1..Len(toClient) /\ at[i] < j
      BY <2>1
    <3>2. PICK k \in 1..Len(toClient') : at[k] = j
      BY <3>1 DEF Sifted
    <3>3. toClient'[k].kind = "update"
      BY <1>0, <3>2
    <3>4. ~(k < i) /\ k # i
      BY <1>0, <2>1, <3>1, <3>2 DEF Sifted
    <3>5. k \in i + 1..Len(toClient')
      BY <3>4
    <3>6. QED
      BY <1>2, <3>3, <3>5
  <2>3. toClient[at[i]].view = View(server)
    BY <1>2, <2>1, <2>2 DEF DeliveryInvariant, Latest
  <2>4. QED
    BY <1>0, <2>3
<1>3. Ordered'
  BY <1>0, <1>1 DEF Ordered
<1>4. Latest'
  BY <1>0, <1>2 DEF Latest
<1>5. QED
  BY <1>3, <1>4

\* A message that is neither a view nor a notice of the connection goes by.
LEMMA PassedKeeps ==
  ASSUME DeliveryInvariant, toClient # <<>>, toClient' = Tail(toClient),
         Message.kind \notin {"view", "update", "cut"},
         link' = link, view' = view, served' = served, server' = server,
         \/ resync' = TRUE
         \/ (resync = TRUE => resync' = TRUE) /\ (task = TRUE => task' = TRUE)
  PROVE  Ordered' /\ Latest' /\ Flagged' /\ Noticed'
<1>1. /\ Len(toClient') \in Nat /\ Len(toClient) \in Nat /\ 1 \in 1..Len(toClient)
      /\ \A i \in 1..Len(toClient') : toClient'[i] = toClient[i + 1] /\ i + 1 \in 1..Len(toClient)
      /\ \A i \in 1..Len(toClient) : i # 1 => i - 1 \in 1..Len(toClient') /\ toClient'[i - 1] = toClient[i]
      /\ Message = toClient[1]
      /\ \E at : Sifted(at)
  BY TailSifts DEF DeliveryInvariant, Typed
<1>2. AtMost(view', View(server)) /\ \A i \in 1..Len(toClient') : Carries(i)' => AtMost(view', toClient'[i].view)
  BY <1>1 DEF DeliveryInvariant, Ordered, Carries
<1>3. Ordered' /\ Latest'
  BY <1>1, <1>2, SiftedKeeps
<1>4. Flagged'
  <2> SUFFICES ASSUME served' = "current", Attached', \A i \in 1..Len(toClient') : ~Carries(i)', resync' # TRUE
               PROVE  task' = TRUE \/ view' = View(server)'
    BY DEF Flagged
  <2>1. \A i \in 1..Len(toClient) : ~Carries(i)
    BY <1>1 DEF Carries
  <2>2. served = "current" /\ Attached
    BY DEF Attached
  <2>3. resync = TRUE \/ task = TRUE \/ view = View(server)
    BY <2>1, <2>2 DEF DeliveryInvariant, Flagged, Typed, TypeOK
  <2>4. QED
    BY <2>3 DEF View
<1>5. Noticed'
  <2>1. (\E i \in 1..Len(toClient') : toClient'[i].kind = "resumed") =>
            \E i \in 1..Len(toClient) : toClient[i].kind = "resumed"
    BY <1>1
  <2>2. (\E i \in 1..Len(toClient) : toClient[i].kind = "cut") =>
            \E i \in 1..Len(toClient') : toClient'[i].kind = "cut"
    BY <1>1
  <2>3. QED
    BY <2>1, <2>2 DEF DeliveryInvariant, Noticed, Attached
<1>6. QED
  BY <1>3, <1>4, <1>5

\* A view taken over is the newest so far; the last of them is the server's.
LEMMA AcceptedKeeps ==
  ASSUME DeliveryInvariant, toClient # <<>>, toClient' = Tail(toClient),
         Message.kind \in {"view", "update"}, view' = Message.view,
         link' = link, served' = served, server' = server
  PROVE  Ordered' /\ Latest' /\ Flagged' /\ Noticed'
<1>1. /\ Len(toClient') \in Nat /\ Len(toClient) \in Nat /\ 1 \in 1..Len(toClient)
      /\ \A i \in 1..Len(toClient') : toClient'[i] = toClient[i + 1] /\ i + 1 \in 1..Len(toClient)
      /\ \A i \in 1..Len(toClient) : i # 1 => i - 1 \in 1..Len(toClient') /\ toClient'[i - 1] = toClient[i]
      /\ Message = toClient[1]
      /\ \E at : Sifted(at)
  BY TailSifts DEF DeliveryInvariant, Typed
<1>2. Carries(1)
  BY <1>1 DEF Carries
<1>3. AtMost(view', View(server))
  BY <1>1, <1>2 DEF DeliveryInvariant, Ordered
<1>4. ASSUME NEW i \in 1..Len(toClient'), Carries(i)'
      PROVE  AtMost(view', toClient'[i].view)
  <2>1. i + 1 \in 1..Len(toClient) /\ Carries(i + 1)
    BY <1>1, <1>4 DEF Carries
  <2>2. QED
    BY <1>1, <1>2, <2>1 DEF DeliveryInvariant, Ordered
<1>5. Ordered' /\ Latest'
  BY <1>1, <1>3, <1>4, SiftedKeeps
<1>6. Flagged'
  <2> SUFFICES ASSUME served' = "current", \A i \in 1..Len(toClient') : ~Carries(i)'
               PROVE  view' = View(server)'
    BY DEF Flagged
  <2>1. ASSUME NEW j \in 1 + 1..Len(toClient)
        PROVE  toClient[j].kind # "update"
    <3>1. j \in 1..Len(toClient) /\ j # 1
      BY <1>1
    <3>2. QED
      BY <1>1, <3>1 DEF Carries
  <2>2. toClient[1].view = View(server)
    BY <1>1, <1>2, <2>1 DEF DeliveryInvariant, Latest
  <2>3. QED
    BY <1>1, <2>2 DEF View
<1>7. Noticed'
  <2>1. (\E i \in 1..Len(toClient') : toClient'[i].kind = "resumed") =>
            \E i \in 1..Len(toClient) : toClient[i].kind = "resumed"
    BY <1>1
  <2>2. (\E i \in 1..Len(toClient) : toClient[i].kind = "cut") =>
            \E i \in 1..Len(toClient') : toClient'[i].kind = "cut"
    BY <1>1
  <2>3. QED
    BY <2>1, <2>2 DEF DeliveryInvariant, Noticed, Attached
<1>8. QED
  BY <1>5, <1>6, <1>7

-----------------------------------------------------------------------------
(* What the browser's steps do to the commands it waits for.               *)

\* Whoever only goes on, or tells of commands it gave up, tells the truth.
LEMMA BrowserTruth ==
  ASSUME DeliveryInvariant, Goes, server' = server, busy' = busy,
         \A report \in reports' : report \in reports \/ report.outcome = "cancelled",
         \A i \in 1..Len(toClient') : \E j \in 1..Len(toClient) : toClient'[i] = toClient[j]
  PROVE  Truthful'
<1>1. \A request, answer : Backed(request, answer) => Backed(request, answer)'
  BY DEF Backed, Made, Refused
<1>2. \A request \in Requests : Made(request)' = {} \/ Refused(request)' = {}
  BY DEF DeliveryInvariant, Truthful, Made, Refused
<1>3. \A report \in reports' : Backed(report.request, report.outcome)'
  <2> SUFFICES ASSUME NEW report \in reports'
               PROVE  Backed(report.request, report.outcome)'
    OBVIOUS
  <2>1. CASE report \in reports
    BY <1>1, <2>1 DEF DeliveryInvariant, Truthful
  <2>2. CASE report.outcome = "cancelled"
    BY <2>2 DEF Backed
  <2>3. QED
    BY <2>1, <2>2
<1>4. (active # None /\ active.stage \in Answered => Backed(active.request, active.answer))'
  BY DEF DeliveryInvariant, Truthful, Goes, Backed, Made, Refused
<1>5. (busy # None => Backed(busy.request, busy.answer))'
  BY DEF DeliveryInvariant, Truthful, Backed, Made, Refused
<1>6. ASSUME NEW i \in 1..Len(toClient'), toClient'[i].kind = "ack"
      PROVE  Backed(toClient[i].request, toClient[i].answer)'
  <2>1. PICK j \in 1..Len(toClient) : toClient'[i] = toClient[j]
    OBVIOUS
  <2>2. Backed(toClient[j].request, toClient[j].answer)
    BY <1>6, <2>1 DEF DeliveryInvariant, Truthful
  <2>3. QED
    BY <2>1, <2>2 DEF Backed, Made, Refused
<1>7. QED
  BY <1>2, <1>3, <1>4, <1>5, <1>6 DEF Truthful

\* What is waited for stays so.
LEMMA StillSettled ==
  ASSUME Settled, Goes, queue' = queue, reports' = reports, submitted' = submitted
  PROVE  Settled'
BY DEF Settled, Goes

\* The queue given up is reported once, whoever else is waited for.
LEMMA CancelledOnce ==
  ASSUME DeliveryInvariant
  PROVE  LET told == reports \cup Cancelled
         IN  /\ told \subseteq [request : Requests, outcome : Outcomes]
             /\ \A report \in told : report \in reports \/ report.outcome = "cancelled"
             /\ \A report \in told :
                  /\ report.request.id <= submitted
                  /\ \A other \in told : other.request = report.request => other = report
                  /\ active # None => report.request # active.request
<1>0. queue \in Seq(Requests) /\ reports \subseteq [request : Requests, outcome : Outcomes]
  BY DEF DeliveryInvariant, Typed, TypeOK
<1>1. \A report \in Cancelled : \E i \in 1..Len(queue) : report = [request |-> queue[i], outcome |-> "cancelled"]
  BY DEF Cancelled
<1>2. \A i \in 1..Len(queue) : queue[i] \in Requests
  BY <1>0
<1>3. \A report \in Cancelled :
        /\ report \in [request : Requests, outcome : Outcomes] /\ report.outcome = "cancelled"
        /\ \E i \in 1..Len(queue) : report.request = queue[i]
        /\ \A other \in Cancelled : other.request = report.request => other = report
  BY <1>1, <1>2 DEF Outcomes
<1>4. \A report \in Cancelled :
        /\ report.request.id <= submitted
        /\ active # None => report.request # active.request
        /\ \A other \in reports : other.request # report.request
  BY <1>3 DEF DeliveryInvariant, Settled
<1>5. \A report \in reports :
        /\ report.request.id <= submitted
        /\ active # None => report.request # active.request
        /\ \A other \in reports : other.request = report.request => other = report
  BY DEF DeliveryInvariant, Settled
<1> HIDE DEF Cancelled
<1>6. QED
  BY <1>0, <1>3, <1>4, <1>5

\* A newer view is taken over, and with the last of a game goes the queue.
LEMMA AcceptFacts ==
  ASSUME DeliveryInvariant, NEW v \in ViewType, AtMost(view, v), Accept(v)
  PROVE  /\ view' = v
         /\ \/ queue' = queue /\ reports' = reports
            \/ queue' = <<>> /\ reports' = reports \cup Cancelled
<1>1. view \in ViewType
  BY DEF DeliveryInvariant, Typed, TypeOK
<1>2. Newer(v) \/ v = view
  BY <1>1 DEF Newer, AtMost, ViewType
<1>3. QED
  BY <1>2 DEF Accept

\* Taking over a view settles the commands it ends.
LEMMA AcceptSettles ==
  ASSUME DeliveryInvariant, Goes, submitted' = submitted,
         \/ queue' = queue /\ reports' = reports
         \/ queue' = <<>> /\ reports' = reports \cup Cancelled
  PROVE  /\ Settled'
         /\ queue' \in Seq(Requests) /\ Len(queue') < QueueCapacity
         /\ reports' \subseteq [request : Requests, outcome : Outcomes]
         /\ \A report \in reports' : report \in reports \/ report.outcome = "cancelled"
<1>1. CASE queue' = queue /\ reports' = reports
  BY <1>1, StillSettled DEF DeliveryInvariant, Typed, TypeOK
<1>2. CASE queue' = <<>> /\ reports' = reports \cup Cancelled
  <2>1. queue' \in Seq(Requests) /\ Len(queue') = 0 /\ 0 < QueueCapacity
    BY <1>2, DeliveryConstants
  <2>2. /\ reports' \subseteq [request : Requests, outcome : Outcomes]
        /\ \A report \in reports' : report \in reports \/ report.outcome = "cancelled"
        /\ \A report \in reports' :
             /\ report.request.id <= submitted
             /\ \A other \in reports' : other.request = report.request => other = report
             /\ active # None => report.request # active.request
    BY <1>2, CancelledOnce
  <2>3. active' # None => active'.request.id <= submitted
    BY DEF Goes, DeliveryInvariant, Settled
  <2>4. Settled'
    BY <2>1, <2>2, <2>3 DEF Settled, Goes
  <2>5. QED
    BY <2>1, <2>2, <2>4
<1>3. QED
  BY <1>1, <1>2

-----------------------------------------------------------------------------
(* Messages from the server.                                               *)

\* The frame of a message received: what has gone, and what came.
LEMMA ReceivedFacts ==
  ASSUME DeliveryInvariant, toClient # <<>>, toClient' = Tail(toClient)
  PROVE  /\ toClient' \in Seq(Incoming) /\ Message = toClient[1] /\ 1 \in 1..Len(toClient)
         /\ Message \in Incoming
         /\ \A i \in 1..Len(toClient') : \E j \in 1..Len(toClient) : toClient'[i] = toClient[j]
         /\ Message.kind = "ack" => Message \in AckType /\ Backed(Message.request, Message.answer)
         /\ Message.kind \in {"view", "update"} => Message.view \in ViewType /\ AtMost(view, Message.view)
<1>1. /\ toClient' \in Seq(Incoming) /\ Message = toClient[1] /\ 1 \in 1..Len(toClient)
      /\ Message \in Incoming
      /\ \A i \in 1..Len(toClient') : toClient'[i] = toClient[i + 1] /\ i + 1 \in 1..Len(toClient)
  BY TailSifts DEF DeliveryInvariant, Typed
<1>2. ASSUME Message.kind = "ack"
      PROVE  Message \in AckType /\ Backed(Message.request, Message.answer)
  BY <1>1, <1>2 DEF Incoming, CarryType, DeliveryInvariant, Truthful
<1>3. ASSUME Message.kind \in {"view", "update"}
      PROVE  Message.view \in ViewType /\ AtMost(view, Message.view)
  <2>1. Message.view \in ViewType
    BY <1>1, <1>3 DEF Incoming, CarryType, AckType
  <2>2. Carries(1)
    BY <1>1, <1>3 DEF Carries
  <2>3. QED
    BY <1>1, <2>1, <2>2 DEF DeliveryInvariant, Ordered
<1>4. QED
  BY <1>1, <1>2, <1>3

\* An answer is noted as it was given, or ends the attempt.
LEMMA ReceiveAckKeeps ==
  ASSUME DeliveryInvariant, ReceiveAck
  PROVE  DeliveryInvariant'
<1>0. /\ link' = link /\ resuming' = resuming /\ view' = view /\ queue' = queue
      /\ served' = served /\ work' = work /\ busy' = busy /\ server' = server /\ ended' = ended
      /\ reports' = reports /\ submitted' = submitted /\ losses' = losses /\ asks' = asks
  BY DEF ReceiveAck, game, bounds
<1>1. toClient # <<>> /\ toClient' = Tail(toClient) /\ Message.kind = "ack"
  BY DEF ReceiveAck, Received
<1>2. /\ toClient' \in Seq(Incoming) /\ Message \in AckType /\ Backed(Message.request, Message.answer)
      /\ \A i \in 1..Len(toClient') : \E j \in 1..Len(toClient) : toClient'[i] = toClient[j]
  BY <1>1, ReceivedFacts
<1>3. /\ task \in BOOLEAN /\ resync \in BOOLEAN /\ toServer \in Seq(Outgoing)
      /\ active \in EntryType \cup {None} /\ Typed
  BY DEF DeliveryInvariant, Typed, TypeOK
<1>4. CASE ~(At("sent") /\ active.request = Message.request /\ active.attempt = Message.attempt)
  <2>1. active' = active /\ resync' = resync /\ task' = task /\ toServer' = toServer
    BY <1>4 DEF ReceiveAck
  <2>2. Goes
    BY <1>3, <2>1 DEF Goes
  <2>3. Typed'
    BY <1>0, <1>2, <2>1 DEF DeliveryInvariant, Typed, TypeOK
  <2>4. Settled' /\ Truthful'
    BY <1>0, <1>2, <2>2, StillSettled, BrowserTruth DEF DeliveryInvariant
  <2>5. Ordered' /\ Latest' /\ Flagged' /\ Noticed'
    BY <1>0, <1>1, <2>1, PassedKeeps
  <2>6. QED
    BY <2>3, <2>4, <2>5 DEF DeliveryInvariant
<1>5. CASE At("sent") /\ active.request = Message.request /\ active.attempt = Message.attempt
  <2>0. active \in EntryType /\ active # None /\ active.stage = "sent"
    BY <1>3, <1>5 DEF At
  <2>1. CASE /\ Message.answer \in {"accepted", "rejected"}
             /\ active' = [active EXCEPT !.answer = Message.answer, !.version = Message.version, !.stage = "confirm"]
             /\ RequestSnapshot /\ resync' = resync
    <3>1. task' = TRUE /\ toServer' \in Seq(Outgoing)
      BY <1>3, <2>1, RequestFacts
    <3>2. /\ active' \in EntryType /\ active'.request = active.request
          /\ active'.answer = Message.answer /\ active'.stage = "confirm"
      BY <1>2, <2>0, <2>1 DEF EntryType, AckType, Stages, Waiting
    <3>3. Typed'
      BY <1>0, <1>2, <2>1, <3>1, <3>2 DEF DeliveryInvariant, Typed, TypeOK
    <3>4. Settled'
      BY <1>0, <2>0, <3>2 DEF DeliveryInvariant, Settled
    <3>5. Truthful'
      <4>1. \A request, answer : Backed(request, answer) => Backed(request, answer)'
        BY <1>0 DEF Backed, Made, Refused
      <4>2. Backed(active.request, active.answer)'
        BY <1>0, <1>2, <1>5, <3>2 DEF Backed, Made, Refused
      <4>3. ASSUME NEW i \in 1..Len(toClient'), toClient'[i].kind = "ack"
            PROVE  Backed(toClient[i].request, toClient[i].answer)'
        <5>1. PICK j \in 1..Len(toClient) : toClient'[i] = toClient[j]
          BY <1>2
        <5>2. Backed(toClient[j].request, toClient[j].answer)
          BY <4>3, <5>1 DEF DeliveryInvariant, Truthful
        <5>3. QED
          BY <1>0, <5>1, <5>2 DEF Backed, Made, Refused
      <4>4. \A request \in Requests : Made(request)' = {} \/ Refused(request)' = {}
        BY <1>0 DEF DeliveryInvariant, Truthful, Made, Refused
      <4>5. /\ \A report \in reports' : Backed(report.request, report.outcome)'
            /\ (busy # None => Backed(busy.request, busy.answer))'
        BY <1>0 DEF DeliveryInvariant, Truthful, Backed, Made, Refused
      <4>6. QED
        BY <4>2, <4>3, <4>4, <4>5 DEF Truthful
    <3>6. Ordered' /\ Latest' /\ Flagged' /\ Noticed'
      BY <1>0, <1>1, <2>1, <3>1, PassedKeeps
    <3>7. QED
      BY <3>3, <3>4, <3>5, <3>6 DEF DeliveryInvariant
  <2>2. CASE /\ resync' \in {resync, TRUE} /\ task' = task /\ toServer' = toServer
             /\ active' = Retry(active) \/ Go("failed")
    <3>1. Goes
      <4>1. CASE active' = Retry(active)
        BY <2>0, <4>1, RetryFacts DEF Goes, Answered
      <4>2. CASE Go("failed")
        BY <1>3, <2>0, <4>2, GoFacts DEF Stages, Answered
      <4>3. QED
        BY <2>2, <4>1, <4>2
    <3>2. active' # None /\ active'.stage \in Answered => active'.answer \in {"accepted", "rejected"}
      BY <3>1 DEF Goes, DeliveryInvariant, Typed
    <3>3. active' \in EntryType \cup {None} /\ resync' \in BOOLEAN
      BY <1>3, <2>2, <3>1 DEF Goes
    <3>4. Typed'
      BY <1>0, <1>2, <2>2, <3>2, <3>3 DEF DeliveryInvariant, Typed, TypeOK
    <3>5. Settled' /\ Truthful'
      BY <1>0, <1>2, <3>1, StillSettled, BrowserTruth DEF DeliveryInvariant
    <3>6. Ordered' /\ Latest' /\ Flagged' /\ Noticed'
      BY <1>0, <1>1, <1>3, <2>2, PassedKeeps
    <3>7. QED
      BY <3>4, <3>5, <3>6 DEF DeliveryInvariant
  <2>3. \/ /\ Message.answer \in {"accepted", "rejected"}
           /\ active' = [active EXCEPT !.answer = Message.answer, !.version = Message.version, !.stage = "confirm"]
           /\ RequestSnapshot /\ resync' = resync
        \/ /\ resync' \in {resync, TRUE} /\ task' = task /\ toServer' = toServer
           /\ active' = Retry(active) \/ Go("failed")
    BY <1>5 DEF ReceiveAck
  <2>4. QED
    BY <2>1, <2>2, <2>3
<1>6. QED
  BY <1>4, <1>5

\* A snapshot asked for is taken over and settles the task; none is told of.
LEMMA ReceiveSnapshotKeeps ==
  ASSUME DeliveryInvariant, ReceiveSnapshot
  PROVE  DeliveryInvariant'
<1> DEFINE ok == Message.kind = "view"
<1>0. /\ link' = link /\ resuming' = resuming /\ toServer' = toServer
      /\ served' = served /\ work' = work /\ busy' = busy /\ server' = server /\ ended' = ended
      /\ submitted' = submitted /\ losses' = losses /\ asks' = asks
  BY DEF ReceiveSnapshot, game, bounds
<1>1. toClient # <<>> /\ toClient' = Tail(toClient) /\ Message.kind \in {"view", "noview"}
  BY DEF ReceiveSnapshot, Received
<1>2. /\ toClient' \in Seq(Incoming)
      /\ \A i \in 1..Len(toClient') : \E j \in 1..Len(toClient) : toClient'[i] = toClient[j]
      /\ ok => Message.view \in ViewType /\ AtMost(view, Message.view)
  BY <1>1, ReceivedFacts
<1>3. active \in EntryType \cup {None} /\ view \in ViewType
  BY DEF DeliveryInvariant, Typed, TypeOK
<1>4. resync' = ~ok /\ task' = FALSE /\ active' = AfterSnapshot(active, ok)
  BY DEF ReceiveSnapshot
<1>5. /\ ok => view' = Message.view
      /\ ~ok => view' = view
      /\ \/ queue' = queue /\ reports' = reports
         \/ queue' = <<>> /\ reports' = reports \cup Cancelled
  <2>1. CASE ok
    BY <1>2, <2>1, AcceptFacts DEF ReceiveSnapshot
  <2>2. CASE ~ok
    BY <2>2 DEF ReceiveSnapshot
  <2>3. QED
    BY <2>1, <2>2
<1>6. Goes
  <2>1. ok \in BOOLEAN
    OBVIOUS
  <2> HIDE DEF ok
  <2>2. QED
    BY <1>3, <1>4, <2>1, OnwardFacts DEF Goes
<1>7. /\ Settled' /\ queue' \in Seq(Requests) /\ Len(queue') < QueueCapacity
      /\ reports' \subseteq [request : Requests, outcome : Outcomes]
      /\ \A report \in reports' : report \in reports \/ report.outcome = "cancelled"
  BY <1>0, <1>5, <1>6, AcceptSettles
<1>8. Truthful'
  BY <1>0, <1>2, <1>6, <1>7, BrowserTruth
<1>9. Typed'
  <2>1. active' # None /\ active'.stage \in Answered => active'.answer \in {"accepted", "rejected"}
    BY <1>6 DEF Goes, DeliveryInvariant, Typed
  <2>2. active' \in EntryType \cup {None} /\ view' \in ViewType
    BY <1>2, <1>3, <1>5, <1>6 DEF Goes
  <2>3. resync' \in BOOLEAN /\ task' \in BOOLEAN
    BY <1>4
  <2>4. QED
    BY <1>0, <1>2, <1>7, <2>1, <2>2, <2>3 DEF DeliveryInvariant, Typed, TypeOK
<1>10. Ordered' /\ Latest' /\ Flagged' /\ Noticed'
  <2>1. CASE ok
    BY <1>0, <1>1, <1>5, <2>1, AcceptedKeeps
  <2>2. CASE ~ok
    <3>1. resync' = TRUE /\ Message.kind \notin {"view", "update", "cut"}
      BY <1>1, <1>4, <2>2
    <3>2. view' = view
      BY <1>5, <2>2
    <3>3. QED
      BY <1>0, <1>1, <3>1, <3>2, PassedKeeps
  <2>3. QED
    BY <2>1, <2>2
<1>11. QED
  BY <1>7, <1>8, <1>9, <1>10 DEF DeliveryInvariant

\* A publication is taken over, and a gap before it repaired.
LEMMA ReceiveUpdateKeeps ==
  ASSUME DeliveryInvariant, ReceiveUpdate
  PROVE  DeliveryInvariant'
<1>0. /\ link' = link /\ resuming' = resuming /\ active' = active /\ resync' = resync
      /\ served' = served /\ work' = work /\ busy' = busy /\ server' = server /\ ended' = ended
      /\ submitted' = submitted /\ losses' = losses /\ asks' = asks
  BY DEF ReceiveUpdate, game, bounds
<1>1. toClient # <<>> /\ toClient' = Tail(toClient) /\ Message.kind = "update"
  BY DEF ReceiveUpdate, Received
<1>2. /\ toClient' \in Seq(Incoming)
      /\ \A i \in 1..Len(toClient') : \E j \in 1..Len(toClient) : toClient'[i] = toClient[j]
      /\ Message.view \in ViewType /\ AtMost(view, Message.view)
  BY <1>1, ReceivedFacts
<1>3. /\ active \in EntryType \cup {None} /\ Typed
      /\ task \in BOOLEAN /\ toServer \in Seq(Outgoing)
  BY DEF DeliveryInvariant, Typed, TypeOK
<1>4. /\ view' = Message.view
      /\ \/ queue' = queue /\ reports' = reports
         \/ queue' = <<>> /\ reports' = reports \cup Cancelled
  BY <1>2, AcceptFacts DEF ReceiveUpdate
<1>5. task' \in BOOLEAN /\ toServer' \in Seq(Outgoing)
  <2>1. RequestSnapshot \/ UNCHANGED <<task, toServer>>
    BY DEF ReceiveUpdate
  <2>2. QED
    BY <1>3, <2>1, RequestFacts
<1>6. Goes
  BY <1>0, <1>3 DEF Goes
<1>7. /\ Settled' /\ queue' \in Seq(Requests) /\ Len(queue') < QueueCapacity
      /\ reports' \subseteq [request : Requests, outcome : Outcomes]
      /\ \A report \in reports' : report \in reports \/ report.outcome = "cancelled"
  BY <1>0, <1>4, <1>6, AcceptSettles
<1>8. Truthful'
  BY <1>0, <1>2, <1>6, <1>7, BrowserTruth
<1>9. Typed'
  BY <1>0, <1>2, <1>4, <1>5, <1>7 DEF DeliveryInvariant, Typed, TypeOK
<1>10. Ordered' /\ Latest' /\ Flagged' /\ Noticed'
  BY <1>0, <1>1, <1>4, AcceptedKeeps
<1>11. QED
  BY <1>7, <1>8, <1>9, <1>10 DEF DeliveryInvariant

-----------------------------------------------------------------------------
(* The connection: losses, resumption, time limits of the browser.         *)

\* The order of what is left after the first message.
LEMMA TailKeeps ==
  ASSUME DeliveryInvariant, toClient # <<>>, toClient' = Tail(toClient),
         view' = view, served' = served, server' = server
  PROVE  /\ Ordered' /\ Latest'
         /\ \A i \in 1..Len(toClient') : \E j \in 1..Len(toClient) : toClient'[i] = toClient[j]
         /\ Message.kind # "cut" /\ (\E i \in 1..Len(toClient) : toClient[i].kind = "cut")
                => \E i \in 1..Len(toClient') : toClient'[i].kind = "cut"
<1>1. /\ Len(toClient') \in Nat /\ Len(toClient) \in Nat /\ 1 \in 1..Len(toClient)
      /\ \A i \in 1..Len(toClient') : toClient'[i] = toClient[i + 1] /\ i + 1 \in 1..Len(toClient)
      /\ \A i \in 1..Len(toClient) : i # 1 => i - 1 \in 1..Len(toClient') /\ toClient'[i - 1] = toClient[i]
      /\ Message = toClient[1]
      /\ \E at : Sifted(at)
  BY TailSifts DEF DeliveryInvariant, Typed
<1>2. AtMost(view', View(server)) /\ \A i \in 1..Len(toClient') : Carries(i)' => AtMost(view', toClient'[i].view)
  BY <1>1 DEF DeliveryInvariant, Ordered, Carries
<1>3. Ordered' /\ Latest'
  BY <1>1, <1>2, SiftedKeeps
<1>4. \A i \in 1..Len(toClient') : \E j \in 1..Len(toClient) : toClient'[i] = toClient[j]
  BY <1>1
<1>5. ASSUME Message.kind # "cut", NEW i \in 1..Len(toClient), toClient[i].kind = "cut"
      PROVE  \E j \in 1..Len(toClient') : toClient'[j].kind = "cut"
  <2>1. i # 1
    BY <1>1, <1>5
  <2>2. i - 1 \in 1..Len(toClient') /\ toClient'[i - 1] = toClient[i]
    BY <1>1, <2>1
  <2>3. QED
    BY <1>5, <2>2
<1>6. QED
  BY <1>3, <1>4, <1>5

\* The session is attached again, and a snapshot asked for.
LEMMA ReceiveResumedKeeps ==
  ASSUME DeliveryInvariant, ReceiveResumed
  PROVE  DeliveryInvariant'
<1>0. /\ link' = "up" /\ resuming' = FALSE /\ view' = view /\ queue' = queue /\ active' = active
      /\ resync' = resync /\ served' = served /\ work' = work /\ busy' = busy /\ server' = server
      /\ ended' = ended /\ reports' = reports /\ submitted' = submitted /\ losses' = losses /\ asks' = asks
  BY DEF ReceiveResumed, game, bounds
<1>1. toClient # <<>> /\ toClient' = Tail(toClient) /\ Message.kind = "resumed"
  BY DEF ReceiveResumed, Received
<1>2. toClient' \in Seq(Incoming) /\ Message = toClient[1] /\ 1 \in 1..Len(toClient)
  BY <1>1, ReceivedFacts
<1>3. task' = TRUE /\ toServer' \in Seq(Outgoing)
  <2>1. Typed /\ RequestSnapshot
    BY DEF ReceiveResumed, DeliveryInvariant
  <2>2. QED
    BY <2>1, RequestFacts
<1>4. Typed'
  BY <1>0, <1>2, <1>3 DEF DeliveryInvariant, Typed, TypeOK
<1>5. Goes
  BY <1>0 DEF Goes, DeliveryInvariant, Typed, TypeOK
<1>6. /\ Ordered' /\ Latest'
      /\ \A i \in 1..Len(toClient') : \E j \in 1..Len(toClient) : toClient'[i] = toClient[j]
      /\ (\E i \in 1..Len(toClient) : toClient[i].kind = "cut") => \E i \in 1..Len(toClient') : toClient'[i].kind = "cut"
  BY <1>0, <1>1, TailKeeps
<1>7. Settled' /\ Truthful'
  BY <1>0, <1>5, <1>6, StillSettled, BrowserTruth DEF DeliveryInvariant
<1>8. Flagged'
  BY <1>3 DEF Flagged
<1>9. Noticed'
  <2>1. served = "current" \/ \E i \in 1..Len(toClient) : toClient[i].kind = "cut"
    BY <1>1, <1>2 DEF DeliveryInvariant, Noticed
  <2>2. QED
    BY <1>0, <1>6, <2>1 DEF Noticed
<1>10. QED
  BY <1>4, <1>6, <1>7, <1>8, <1>9 DEF DeliveryInvariant

\* With the session go its commands, each told of once.
LEMMA ReceiveRefusalKeeps ==
  ASSUME DeliveryInvariant, ReceiveRefusal
  PROVE  DeliveryInvariant'
<1> DEFINE own == IF active = None THEN {} ELSE {[request |-> active.request, outcome |-> "cancelled"]}
<1>0. /\ link' = "gone" /\ resuming' = FALSE /\ view' = view /\ queue' = <<>> /\ active' = None
      /\ task' = FALSE /\ resync' = FALSE /\ toServer' = <<>>
      /\ served' = served /\ work' = work /\ busy' = busy /\ server' = server
      /\ ended' = ended /\ submitted' = submitted /\ losses' = losses /\ asks' = asks
      /\ reports' = (reports \cup Cancelled) \cup own
  BY DEF ReceiveRefusal, game, bounds
<1>1. toClient # <<>> /\ toClient' = Tail(toClient) /\ Message.kind = "refusal"
  BY DEF ReceiveRefusal, Received
<1>2. toClient' \in Seq(Incoming)
  BY <1>1, ReceivedFacts
<1>3. \A report \in own :
        /\ report \in [request : Requests, outcome : Outcomes] /\ report.outcome = "cancelled"
        /\ active # None /\ report.request = active.request /\ report.request.id <= submitted
        /\ \A other \in own : other = report
  BY DEF DeliveryInvariant, Typed, TypeOK, EntryType, Outcomes, Settled
<1> HIDE DEF own
<1>4. PICK told : told = reports \cup Cancelled
  OBVIOUS
<1>5. /\ told \subseteq [request : Requests, outcome : Outcomes]
      /\ \A report \in told : report \in reports \/ report.outcome = "cancelled"
      /\ \A report \in told :
           /\ report.request.id <= submitted
           /\ \A other \in told : other.request = report.request => other = report
           /\ active # None => report.request # active.request
  BY <1>4, CancelledOnce
<1>6. reports' = told \cup own
  BY <1>0, <1>4
<1>7. /\ reports' \subseteq [request : Requests, outcome : Outcomes]
      /\ \A report \in reports' : report \in reports \/ report.outcome = "cancelled"
      /\ \A report \in reports' :
           /\ report.request.id <= submitted
           /\ \A other \in reports' : other.request = report.request => other = report
  BY <1>3, <1>5, <1>6
<1>8. Settled'
  BY <1>0, <1>7 DEF Settled
<1>9. Typed'
  <2>1. Len(queue') < QueueCapacity /\ queue' \in Seq(Requests)
    BY <1>0, DeliveryConstants
  <2>2. toServer' \in Seq(Outgoing) /\ active' \in EntryType \cup {None}
    BY <1>0
  <2>3. TypeOK'
    BY <1>0, <1>7, <2>1, <2>2 DEF DeliveryInvariant, Typed, TypeOK
  <2>4. QED
    BY <1>0, <1>2, <2>2, <2>3 DEF DeliveryInvariant, Typed
<1>10. /\ Ordered' /\ Latest'
       /\ \A i \in 1..Len(toClient') : \E j \in 1..Len(toClient) : toClient'[i] = toClient[j]
       /\ (\E i \in 1..Len(toClient) : toClient[i].kind = "cut") => \E i \in 1..Len(toClient') : toClient'[i].kind = "cut"
  BY <1>0, <1>1, TailKeeps
<1>11. Goes
  BY <1>0 DEF Goes
<1>12. Truthful'
  BY <1>0, <1>7, <1>10, <1>11, BrowserTruth
<1>13. Flagged' /\ Noticed'
  BY <1>0, <1>10 DEF Flagged, Noticed, Attached, DeliveryInvariant
<1>14. QED
  BY <1>8, <1>9, <1>10, <1>12, <1>13 DEF DeliveryInvariant

\* The snapshot is not awaited any more, and the player may have to resync.
LEMMA SnapshotTimeoutKeeps ==
  ASSUME DeliveryInvariant, SnapshotTimeout
  PROVE  DeliveryInvariant'
<1>0. /\ link' = link /\ resuming' = resuming /\ view' = view /\ queue' = queue
      /\ task' = FALSE /\ resync' = TRUE /\ active' = AfterSnapshot(active, FALSE)
      /\ served' = served /\ work' = work /\ busy' = busy /\ server' = server /\ ended' = ended
      /\ reports' = reports /\ submitted' = submitted /\ losses' = losses /\ asks' = asks
  BY DEF SnapshotTimeout, game, bounds
<1>1. toServer' \in Seq(Outgoing)
  <2> DEFINE kept == {i \in 1..Len(toServer) : toServer[i] # Ask}
  <2>1. toServer' = Pick(toServer, kept) /\ kept \in SUBSET (1..Len(toServer)) /\ toServer \in Seq(Outgoing)
    BY DEF SnapshotTimeout, DeliveryInvariant, Typed
  <2> HIDE DEF kept
  <2>2. QED
    BY <2>1, PickFacts
<1>2. /\ toClient' \in Seq(Incoming)
      /\ \E at : Sifted(at)
      /\ \A i \in 1..Len(toClient) : toClient[i].kind \notin {"view", "noview"} =>
             \E k \in 1..Len(toClient') : toClient'[k] = toClient[i]
  BY PickSifts DEF SnapshotTimeout, DeliveryInvariant, Typed
<1>3. \A i \in 1..Len(toClient') : \E j \in 1..Len(toClient) : toClient'[i] = toClient[j]
  BY <1>2 DEF Sifted
<1>4. Goes
  BY <1>0, OnwardFacts DEF Goes, DeliveryInvariant, Typed, TypeOK
<1>5. Typed'
  <2>1. active' # None /\ active'.stage \in Answered => active'.answer \in {"accepted", "rejected"}
    BY <1>4 DEF Goes, DeliveryInvariant, Typed
  <2>2. QED
    BY <1>0, <1>1, <1>2, <1>4, <2>1 DEF DeliveryInvariant, Typed, TypeOK, Goes
<1>6. Settled' /\ Truthful'
  BY <1>0, <1>3, <1>4, StillSettled, BrowserTruth DEF DeliveryInvariant
<1>7. Ordered' /\ Latest'
  <2>1. Len(toClient') \in Nat
    BY <1>2
  <2>2. AtMost(view', View(server))
    BY <1>0 DEF DeliveryInvariant, Ordered
  <2>3. \A i \in 1..Len(toClient') : Carries(i)' => AtMost(view', toClient'[i].view)
    BY <1>0, <1>3 DEF DeliveryInvariant, Ordered, Carries
  <2>4. QED
    BY <1>0, <1>2, <2>1, <2>2, <2>3, SiftedKeeps
<1>8. Flagged'
  BY <1>0 DEF Flagged
<1>9. Noticed'
  <2>1. (\E i \in 1..Len(toClient) : toClient[i].kind = "cut") => \E i \in 1..Len(toClient') : toClient'[i].kind = "cut"
    BY <1>2
  <2>2. (\E i \in 1..Len(toClient') : toClient'[i].kind = "resumed") => \E i \in 1..Len(toClient) : toClient[i].kind = "resumed"
    BY <1>3
  <2>3. QED
    BY <1>0, <2>1, <2>2 DEF DeliveryInvariant, Noticed, Attached
<1>10. QED
  BY <1>5, <1>6, <1>7, <1>8, <1>9 DEF DeliveryInvariant

\* What the server records backs the answers from then on.
LEMMA TruthKept ==
  ASSUME DeliveryInvariant, Goes,
         server.history \subseteq server'.history, server.refused \subseteq server'.refused,
         \A request \in Requests : (Made(request) = {} \/ Refused(request) = {})',
         \/ busy' = None
         \/ Backed(busy.request, busy.answer)'
         \/ busy # None /\ busy'.request = busy.request /\ busy'.answer = busy.answer,
         \A report \in reports' : report \in reports \/ report.outcome = "cancelled",
         \A i \in 1..Len(toClient') :
             \/ \E j \in 1..Len(toClient) : toClient'[i] = toClient[j]
             \/ toClient'[i].kind # "ack"
             \/ Backed(toClient[i].request, toClient[i].answer)'
  PROVE  Truthful'
<1>1. \A request, answer : Backed(request, answer) => Backed(request, answer)'
  BY DEF Backed, Made, Refused
<1>2. \A report \in reports' : Backed(report.request, report.outcome)'
  <2> SUFFICES ASSUME NEW report \in reports'
               PROVE  Backed(report.request, report.outcome)'
    OBVIOUS
  <2>1. CASE report \in reports
    BY <1>1, <2>1 DEF DeliveryInvariant, Truthful
  <2>2. CASE report.outcome = "cancelled"
    BY <2>2 DEF Backed
  <2>3. QED
    BY <2>1, <2>2
<1>3. (active # None /\ active.stage \in Answered => Backed(active.request, active.answer))'
  <2> SUFFICES ASSUME active' # None, active'.stage \in Answered
               PROVE  Backed(active.request, active.answer)'
    OBVIOUS
  <2>1. /\ active'.request = active.request /\ active'.answer = active.answer
        /\ Backed(active.request, active.answer)
    BY DEF Goes, DeliveryInvariant, Truthful
  <2>2. QED
    BY <2>1 DEF Backed, Made, Refused
<1>4. (busy # None => Backed(busy.request, busy.answer))'
  <2>1. CASE busy # None /\ busy'.request = busy.request /\ busy'.answer = busy.answer
    <3>1. Backed(busy.request, busy.answer)
      BY <2>1 DEF DeliveryInvariant, Truthful
    <3>2. QED
      BY <2>1, <3>1 DEF Backed, Made, Refused
  <2>2. QED
    BY <2>1
<1>5. ASSUME NEW i \in 1..Len(toClient'), toClient'[i].kind = "ack"
      PROVE  Backed(toClient[i].request, toClient[i].answer)'
  <2>1. CASE \E j \in 1..Len(toClient) : toClient'[i] = toClient[j]
    <3>1. PICK j \in 1..Len(toClient) : toClient'[i] = toClient[j]
      BY <2>1
    <3>2. Backed(toClient[j].request, toClient[j].answer)
      BY <1>5, <3>1 DEF DeliveryInvariant, Truthful
    <3>3. QED
      BY <3>1, <3>2 DEF Backed, Made, Refused
  <2>2. QED
    BY <1>5, <2>1
<1>6. QED
  BY <1>2, <1>3, <1>4, <1>5 DEF Truthful

\* After a loss nothing is under way, and the player knows.
LEMMA DetachKeeps ==
  ASSUME DeliveryInvariant, NEW status \in {"down", "cut"}, Detach(status),
         server' \in ServerType, AtMost(View(server), View(server)'),
         server'.history = server.history, server'.refused = server.refused,
         busy' \in BusyType \cup {None},
         \/ busy' = None
         \/ busy # None /\ busy'.request = busy.request /\ busy'.answer = busy.answer,
         work' \in Seq(CommandType), served' \in {"current", "stale", "none"}, ended' = ended,
         losses' \in Nat, asks' = asks
  PROVE  DeliveryInvariant'
<1>0. /\ link' = status /\ toClient' = <<>> /\ toServer' = <<>> /\ task' = FALSE /\ resync' = TRUE
      /\ resuming' = resuming /\ view' = view /\ queue' = queue /\ reports' = reports /\ submitted' = submitted
      /\ active' = IF At("sent") THEN Retry(active) ELSE AfterSnapshot(active, TRUE)
  BY DEF Detach
<1>1. active \in EntryType \cup {None} /\ view \in ViewType
  BY DEF DeliveryInvariant, Typed, TypeOK
<1>2. Goes
  <2>1. CASE At("sent")
    BY <1>0, <1>1, <2>1, RetryFacts DEF Goes, At, Answered
  <2>2. CASE ~At("sent")
    BY <1>0, <1>1, <2>2, OnwardFacts DEF Goes
  <2>3. QED
    BY <2>1, <2>2
<1>3. Typed'
  <2>1. active' # None /\ active'.stage \in Answered => active'.answer \in {"accepted", "rejected"}
    BY <1>2 DEF Goes, DeliveryInvariant, Typed
  <2>2. toClient' \in Seq(Incoming) /\ toServer' \in Seq(Outgoing)
    BY <1>0
  <2>3. active' \in EntryType \cup {None}
    BY <1>2 DEF Goes
  <2>4. QED
    BY <1>0, <2>1, <2>2, <2>3 DEF DeliveryInvariant, Typed, TypeOK
<1>4. Settled'
  BY <1>0, <1>2, StillSettled DEF DeliveryInvariant
<1>5. Truthful'
  <2>1. \A request \in Requests : (Made(request) = {} \/ Refused(request) = {})'
    BY DEF DeliveryInvariant, Truthful, Made, Refused
  <2>2. Len(toClient') = 0
    BY <1>0
  <2>3. QED
    BY <1>0, <1>2, <2>1, <2>2, TruthKept
<1>6. AtMost(view', View(server)')
  BY <1>0, <1>1 DEF DeliveryInvariant, Ordered, AtMost, ViewType, View, ServerType, Typed
<1>7. Len(toClient') = 0 /\ link' # "up"
  BY <1>0
<1>8. Ordered' /\ Latest' /\ Flagged' /\ Noticed'
  BY <1>0, <1>6, <1>7 DEF Ordered, Latest, Flagged, Noticed, Attached
<1>9. QED
  BY <1>3, <1>4, <1>5, <1>8 DEF DeliveryInvariant

\* A loss in the browser that the server may not notice.
LEMMA DropKeeps ==
  ASSUME DeliveryInvariant, Drop
  PROVE  DeliveryInvariant'
<1>1. /\ Detach("down") /\ server' = server /\ ended' = ended /\ asks' = asks /\ losses' = losses + 1
      /\ busy' = Unlinked /\ served' = IF served = "current" THEN "stale" ELSE served
  BY DEF Drop
<1>2. /\ server \in ServerType /\ losses \in Nat /\ busy \in BusyType \cup {None}
      /\ work \in Seq(CommandType) /\ toServer \in Seq(Outgoing) /\ served \in {"current", "stale", "none"}
  BY DEF DeliveryInvariant, Typed, TypeOK
<1>3. /\ busy' \in BusyType \cup {None}
      /\ \/ busy' = None
         \/ busy # None /\ busy'.request = busy.request /\ busy'.answer = busy.answer
  BY <1>1, <1>2 DEF Unlinked, BusyType
<1>4. work' \in Seq(CommandType)
  <2>1. PICK n \in 0..Len(toServer) :
          work' = IF served = "current"
                  THEN work \o Pick(toServer, {i \in 1..n : toServer[i].kind = "command"}) ELSE work
    BY DEF Drop
  <2> DEFINE kept == {i \in 1..n : toServer[i].kind = "command"}
  <2>2. Len(toServer) \in Nat /\ n \in Nat
    BY <1>2
  <2>3. kept \in SUBSET (1..Len(toServer))
    BY <2>2
  <2>4. \A i \in kept : toServer[i] \in CommandType
    <3>1. \A i \in kept : toServer[i] \in Outgoing /\ toServer[i].kind = "command"
      BY <1>2, <2>3
    <3>2. QED
      BY <3>1 DEF Outgoing
  <2>5. work' = IF served = "current" THEN work \o Pick(toServer, kept) ELSE work
    BY <2>1
  <2> HIDE DEF kept
  <2>6. PICK p : p = Pick(toServer, kept)
    OBVIOUS
  <2>7. p \in Seq(Outgoing) /\ \E at \in [1..Len(p) -> kept] : \A k \in 1..Len(p) : p[k] = toServer[at[k]]
    BY <1>2, <2>3, <2>6, PickFacts
  <2>8. \A k \in 1..Len(p) : p[k] \in CommandType
    BY <2>4, <2>7
  <2>9. p \in Seq(CommandType)
    BY <2>7, <2>8
  <2>10. work' = IF served = "current" THEN work \o p ELSE work
    BY <2>5, <2>6
  <2>11. QED
    BY <1>2, <2>9, <2>10
<1>5. AtMost(View(server), View(server)')
  BY <1>1, <1>2 DEF AtMost, View, ServerType
<1>6. served' \in {"current", "stale", "none"} /\ losses' \in Nat
  BY <1>1, <1>2
<1>7. QED
  BY <1>1, <1>2, <1>3, <1>4, <1>5, <1>6, DetachKeeps

\* A connection or a restart the server knows of is a publication more.
LEMMA PublicationMore ==
  ASSUME DeliveryInvariant, server' = [server EXCEPT !.publication = @ + 1]
  PROVE  /\ server' \in ServerType /\ AtMost(View(server), View(server)')
         /\ server'.history = server.history /\ server'.refused = server.refused
         /\ \A request \in Requests : (Made(request) = {} \/ Refused(request) = {})'
<1>1. server \in ServerType
  BY DEF DeliveryInvariant, Typed
<1>2. /\ server' \in ServerType /\ server'.version = server.version /\ server'.publication = server.publication + 1
      /\ server'.history = server.history /\ server'.refused = server.refused
  BY <1>1 DEF ServerType
<1>3. AtMost(View(server), View(server)')
  BY <1>1, <1>2 DEF AtMost, View, ServerType
<1>4. \A request \in Requests : (Made(request) = {} \/ Refused(request) = {})'
  BY <1>2 DEF DeliveryInvariant, Truthful, Made, Refused
<1>5. QED
  BY <1>2, <1>3, <1>4

\* A restart forgets the work, not the records.
LEMMA RestartKeeps ==
  ASSUME DeliveryInvariant, Restart
  PROVE  DeliveryInvariant'
<1>1. /\ Detach("down") /\ server' = [server EXCEPT !.publication = @ + 1]
      /\ ended' = ended /\ asks' = asks /\ losses' = losses + 1
      /\ busy' = None /\ served' = "none" /\ work' = <<>>
  BY DEF Restart
<1>2. losses' \in Nat /\ work' \in Seq(CommandType)
  BY <1>1 DEF DeliveryInvariant, Typed
<1>3. /\ server' \in ServerType /\ AtMost(View(server), View(server)')
      /\ server'.history = server.history /\ server'.refused = server.refused
  BY <1>1, PublicationMore
<1>4. QED
  BY <1>1, <1>2, <1>3, DetachKeeps

\* The server's disconnection reaches the browser.
LEMMA ReceiveCutKeeps ==
  ASSUME DeliveryInvariant, ReceiveCut
  PROVE  DeliveryInvariant'
<1>1. /\ Detach("cut") /\ served' = served /\ work' = work /\ busy' = busy /\ server' = server
      /\ ended' = ended /\ losses' = losses /\ asks' = asks
  BY DEF ReceiveCut, game, bounds
<1>2. /\ server \in ServerType /\ losses \in Nat /\ busy \in BusyType \cup {None}
      /\ work \in Seq(CommandType) /\ served \in {"current", "stale", "none"}
  BY DEF DeliveryInvariant, Typed, TypeOK
<1>3. AtMost(View(server), View(server)')
  BY <1>1, <1>2 DEF AtMost, View, ServerType
<1>4. QED
  BY <1>1, <1>2, <1>3, DetachKeeps

-----------------------------------------------------------------------------
(* The server's steps: they add to what is under way to the browser.       *)

Added == Len(toClient) + 1..Len(toClient')
Extended ==
    /\ toClient' \in Seq(Incoming) /\ Len(toClient) <= Len(toClient')
    /\ \A i \in 1..Len(toClient) : toClient'[i] = toClient[i]

\* Nothing is added.
LEMMA NothingAdded ==
  ASSUME DeliveryInvariant, toClient' = toClient
  PROVE  Extended /\ Added = {}
<1>1. toClient \in Seq(Incoming) /\ Len(toClient) \in Nat
  BY DEF DeliveryInvariant, Typed
<1>2. QED
  BY <1>1 DEF Extended, Added

\* One message is added.
LEMMA OneAdded ==
  ASSUME DeliveryInvariant, NEW m \in Incoming, toClient' = Append(toClient, m)
  PROVE  /\ Extended /\ Added = {Len(toClient) + 1}
         /\ \A i \in Added : toClient'[i] = m
<1>1. toClient \in Seq(Incoming) /\ Len(toClient) \in Nat
  BY DEF DeliveryInvariant, Typed
<1>2. /\ toClient' \in Seq(Incoming) /\ Len(toClient') = Len(toClient) + 1
      /\ toClient'[Len(toClient) + 1] = m
      /\ \A i \in 1..Len(toClient) : toClient'[i] = toClient[i]
  BY <1>1
<1>3. Added = {Len(toClient) + 1}
  BY <1>1, <1>2 DEF Added
<1>4. QED
  BY <1>1, <1>2, <1>3 DEF Extended

\* Two messages are added.
LEMMA TwoAdded ==
  ASSUME DeliveryInvariant, NEW m \in Incoming, NEW n \in Incoming, toClient' = toClient \o <<m, n>>
  PROVE  /\ Extended /\ Added = {Len(toClient) + 1, Len(toClient) + 2}
         /\ toClient'[Len(toClient) + 1] = m /\ toClient'[Len(toClient) + 2] = n
<1>1. toClient \in Seq(Incoming) /\ Len(toClient) \in Nat
  BY DEF DeliveryInvariant, Typed
<1>2. <<m, n>> \in Seq(Incoming) /\ Len(<<m, n>>) = 2 /\ <<m, n>>[1] = m /\ <<m, n>>[2] = n
  OBVIOUS
<1>3. /\ toClient' \in Seq(Incoming) /\ Len(toClient') = Len(toClient) + 2
      /\ toClient'[Len(toClient) + 1] = m /\ toClient'[Len(toClient) + 2] = n
      /\ \A i \in 1..Len(toClient) : toClient'[i] = toClient[i]
  BY <1>1, <1>2
<1>4. Added = {Len(toClient) + 1, Len(toClient) + 2}
  BY <1>1, <1>3 DEF Added
<1>5. QED
  BY <1>1, <1>3, <1>4 DEF Extended

\* Order and currency of the views when messages are added.
LEMMA ExtendedKeeps ==
  ASSUME DeliveryInvariant, Extended, server' \in ServerType, AtMost(View(server), View(server)'),
         view' = view, link' = link, task' = task, resync' = resync,
         \A i \in Added : Carries(i)' => toClient'[i].view = View(server)',
         \/ served' # "current"
         \/ served = "current" /\ View(server)' = View(server)
         \/ \E i \in Added : toClient'[i].kind = "update",
         \/ served' = "current"
         \/ \E i \in Added : toClient'[i].kind = "cut"
         \/ served # "current" /\ \A i \in Added : toClient'[i].kind # "resumed"
  PROVE  Ordered' /\ Latest' /\ Flagged' /\ Noticed'
<1>0. /\ Len(toClient) \in Nat /\ Len(toClient') \in Nat /\ Len(toClient) <= Len(toClient')
      /\ \A i \in 1..Len(toClient) : i \in 1..Len(toClient') /\ toClient'[i] = toClient[i]
      /\ \A i \in 1..Len(toClient') : i \in 1..Len(toClient) \/ i \in Added
      /\ \A i \in Added : i \in 1..Len(toClient') /\ Len(toClient) < i
  BY DEF Extended, Added, DeliveryInvariant, Typed
<1>1. /\ View(server) \in ViewType /\ View(server)' \in ViewType /\ view \in ViewType
      /\ \A i \in 1..Len(toClient) : Carries(i) => toClient[i].view \in ViewType
  <2>1. View(server) \in ViewType /\ View(server)' \in ViewType /\ view \in ViewType
    BY DEF View, ServerType, ViewType, DeliveryInvariant, Typed, TypeOK
  <2>2. \A i \in 1..Len(toClient) : toClient[i] \in Incoming
    BY DEF DeliveryInvariant, Typed
  <2>3. \A m \in Incoming : m.kind \in {"view", "update"} => m.view \in ViewType
    BY DEF Incoming, AckType, CarryType
  <2>4. QED
    BY <2>1, <2>2, <2>3 DEF Carries
<1>2. \A u, v, w \in ViewType : AtMost(u, v) /\ AtMost(v, w) => AtMost(u, w)
  BY DEF AtMost, ViewType
<1>3. AtMost(View(server)', View(server)')
  BY <1>1 DEF AtMost, ViewType
<1>4. AtMost(view', View(server)')
  BY <1>1, <1>2 DEF DeliveryInvariant, Ordered
<1>5. ASSUME NEW i \in 1..Len(toClient'), Carries(i)'
      PROVE  AtMost(view', toClient'[i].view) /\ AtMost(toClient'[i].view, View(server)')
  <2>1. CASE i \in 1..Len(toClient)
    <3>1. Carries(i) /\ toClient'[i] = toClient[i]
      BY <1>0, <1>5, <2>1 DEF Carries
    <3>2. AtMost(view, toClient[i].view) /\ AtMost(toClient[i].view, View(server))
      BY <2>1, <3>1 DEF DeliveryInvariant, Ordered
    <3>3. QED
      BY <1>1, <1>2, <2>1, <3>1, <3>2
  <2>2. CASE i \in Added
    BY <1>3, <1>4, <1>5, <2>2
  <2>3. QED
    BY <1>0, <2>1, <2>2
<1>6. ASSUME NEW i \in 1..Len(toClient'), Carries(i)', NEW j \in i..Len(toClient'), Carries(j)'
      PROVE  AtMost(toClient'[i].view, toClient'[j].view)
  <2>1. j \in 1..Len(toClient') /\ i <= j
    OBVIOUS
  <2>2. CASE j \in 1..Len(toClient)
    <3>1. i \in 1..Len(toClient) /\ j \in i..Len(toClient)
      BY <1>0, <2>1, <2>2
    <3>2. Carries(i) /\ Carries(j) /\ toClient'[i] = toClient[i] /\ toClient'[j] = toClient[j]
      BY <1>0, <1>6, <2>2, <3>1 DEF Carries
    <3>3. QED
      BY <3>1, <3>2 DEF DeliveryInvariant, Ordered
  <2>3. CASE j \in Added
    BY <1>5, <1>6, <2>3
  <2>4. QED
    BY <1>0, <2>1, <2>2, <2>3
<1>7. Ordered'
  BY <1>4, <1>5, <1>6 DEF Ordered
<1>8. Latest'
  <2> SUFFICES ASSUME served' = "current", NEW i \in 1..Len(toClient'), Carries(i)',
                      \A j \in i + 1..Len(toClient') : toClient'[j].kind # "update"
               PROVE  toClient'[i].view = View(server)'
    BY DEF Latest
  <2>1. CASE i \in Added
    BY <2>1
  <2>2. CASE i \in 1..Len(toClient)
    <3>1. \A j \in Added : j \in i + 1..Len(toClient')
      BY <1>0, <2>2
    <3>2. served = "current" /\ View(server)' = View(server)
      BY <3>1
    <3>3. Carries(i) /\ toClient'[i] = toClient[i]
      BY <1>0, <2>2 DEF Carries
    <3>4. \A j \in i + 1..Len(toClient) : j \in 1..Len(toClient) /\ j \in i + 1..Len(toClient')
      BY <1>0, <2>2
    <3>5. \A j \in i + 1..Len(toClient) : toClient[j].kind # "update"
      BY <1>0, <3>4
    <3>6. QED
      BY <2>2, <3>2, <3>3, <3>5 DEF DeliveryInvariant, Latest
  <2>3. QED
    BY <1>0, <2>1, <2>2
<1>9. Flagged'
  <2> SUFFICES ASSUME served' = "current", Attached', \A i \in 1..Len(toClient') : ~Carries(i)'
               PROVE  (resync \/ task \/ view = View(server))'
    BY DEF Flagged
  <2>1. \A i \in Added : toClient'[i].kind # "update"
    BY <1>0 DEF Carries
  <2>2. served = "current" /\ View(server)' = View(server) /\ Attached
    BY <2>1 DEF Attached
  <2>3. \A i \in 1..Len(toClient) : ~Carries(i)
    BY <1>0 DEF Carries
  <2>4. resync \/ task \/ view = View(server)
    BY <2>2, <2>3 DEF DeliveryInvariant, Flagged
  <2>5. QED
    BY <2>2, <2>4
<1>10. Noticed'
  <2> SUFFICES ASSUME served' # "current", \A i \in Added : toClient'[i].kind # "cut",
                      Attached' \/ \E i \in 1..Len(toClient') : toClient'[i].kind = "resumed"
               PROVE  \E i \in 1..Len(toClient') : toClient'[i].kind = "cut"
    BY <1>0 DEF Noticed
  <2>1. served # "current" /\ \A i \in Added : toClient'[i].kind # "resumed"
    OBVIOUS
  <2>2. Attached \/ \E i \in 1..Len(toClient) : toClient[i].kind = "resumed"
    BY <1>0, <2>1 DEF Attached
  <2>3. PICK i \in 1..Len(toClient) : toClient[i].kind = "cut"
    BY <2>1, <2>2 DEF DeliveryInvariant, Noticed
  <2>4. QED
    BY <1>0, <2>3
<1>11. QED
  BY <1>7, <1>8, <1>9, <1>10

\* The browser is not there.
Beyond ==
    /\ link' = link /\ resuming' = resuming /\ view' = view /\ queue' = queue /\ active' = active
    /\ resync' = resync /\ task' = task /\ reports' = reports /\ submitted' = submitted /\ asks' = asks

\* A server that records what it answers, and publishes what it changes.
LEMMA ServerKeeps ==
  ASSUME DeliveryInvariant, Beyond, Extended,
         toServer' \in Seq(Outgoing), work' \in Seq(CommandType), busy' \in BusyType \cup {None},
         served' \in {"current", "stale", "none"}, ended' \in BOOLEAN, losses' \in Nat,
         server' \in ServerType, AtMost(View(server), View(server)'),
         server.history \subseteq server'.history, server.refused \subseteq server'.refused,
         \A request \in Requests : (Made(request) = {} \/ Refused(request) = {})',
         \/ busy' = None
         \/ Backed(busy.request, busy.answer)'
         \/ busy # None /\ busy'.request = busy.request /\ busy'.answer = busy.answer,
         \A i \in Added :
            /\ Carries(i)' => toClient'[i].view = View(server)'
            /\ toClient'[i].kind = "ack" => Backed(toClient[i].request, toClient[i].answer)',
         \/ served' # "current"
         \/ served = "current" /\ View(server)' = View(server)
         \/ \E i \in Added : toClient'[i].kind = "update",
         \/ served' = "current"
         \/ \E i \in Added : toClient'[i].kind = "cut"
         \/ served # "current" /\ \A i \in Added : toClient'[i].kind # "resumed"
  PROVE  DeliveryInvariant'
<1>1. Goes
  BY DEF Beyond, Goes, DeliveryInvariant, Typed, TypeOK
<1>2. Typed'
  BY DEF Beyond, Extended, DeliveryInvariant, Typed, TypeOK
<1>3. Settled'
  BY <1>1, StillSettled DEF Beyond, DeliveryInvariant
<1>4. Truthful'
  <2>1. \A i \in 1..Len(toClient') : i \in 1..Len(toClient) \/ i \in Added
    BY DEF Extended, Added, DeliveryInvariant, Typed
  <2>2. \A i \in 1..Len(toClient') :
            \/ \E j \in 1..Len(toClient) : toClient'[i] = toClient[j]
            \/ toClient'[i].kind # "ack"
            \/ Backed(toClient[i].request, toClient[i].answer)'
    BY <2>1 DEF Extended
  <2>3. \A report \in reports' : report \in reports \/ report.outcome = "cancelled"
    BY DEF Beyond
  <2>4. QED
    BY <1>1, <2>2, <2>3, TruthKept
<1>5. Ordered' /\ Latest' /\ Flagged' /\ Noticed'
  <2>1. view' = view /\ link' = link /\ task' = task /\ resync' = resync
    BY DEF Beyond
  <2>2. \A i \in Added : Carries(i)' => toClient'[i].view = View(server)'
    OBVIOUS
  <2>3. QED
    BY <2>1, <2>2, ExtendedKeeps
<1>6. QED
  BY <1>2, <1>3, <1>4, <1>5 DEF DeliveryInvariant

\* The types of what the server has and gets, by name.
LEMMA ServerFields ==
  ASSUME DeliveryInvariant
  PROVE  /\ server \in ServerType /\ losses \in Nat /\ busy \in BusyType \cup {None}
         /\ work \in Seq(CommandType) /\ served \in {"current", "stale", "none"} /\ ended \in BOOLEAN
         /\ toServer \in Seq(Outgoing) /\ toClient \in Seq(Incoming) /\ asks \in Nat
         /\ toServer # <<>> =>
              /\ Tail(toServer) \in Seq(Outgoing)
              /\ Head(toServer) \in Outgoing
              /\ Head(toServer).kind = "command" => Head(toServer) \in CommandType
<1>1. /\ server \in ServerType /\ losses \in Nat /\ busy \in BusyType \cup {None}
      /\ work \in Seq(CommandType) /\ served \in {"current", "stale", "none"} /\ ended \in BOOLEAN
      /\ toServer \in Seq(Outgoing) /\ toClient \in Seq(Incoming) /\ asks \in Nat
  BY DEF DeliveryInvariant, Typed, TypeOK
<1>2. ASSUME toServer # <<>>
      PROVE  /\ Tail(toServer) \in Seq(Outgoing)
             /\ Head(toServer) \in Outgoing
             /\ Head(toServer).kind = "command" => Head(toServer) \in CommandType
  <2>1. Tail(toServer) \in Seq(Outgoing) /\ Head(toServer) \in Outgoing
    BY <1>1, <1>2
  <2>2. QED
    BY <2>1 DEF Outgoing
<1>3. QED
  BY <1>1, <1>2

\* A server that stays as it is has the same records and the same view.
LEMMA ServerSame ==
  ASSUME DeliveryInvariant, server' = server
  PROVE  /\ server' \in ServerType /\ AtMost(View(server), View(server)') /\ View(server)' = View(server)
         /\ server.history \subseteq server'.history /\ server.refused \subseteq server'.refused
         /\ \A request \in Requests : (Made(request) = {} \/ Refused(request) = {})'
<1>1. server' \in ServerType /\ AtMost(View(server), View(server)') /\ View(server)' = View(server)
  BY DEF AtMost, View, ServerType, DeliveryInvariant, Typed
<1>2. \A request \in Requests : (Made(request) = {} \/ Refused(request) = {})'
  BY DEF DeliveryInvariant, Truthful, Made, Refused
<1>3. QED
  BY <1>1, <1>2

\* The answer under way, its connection lost or not.
LEMMA UnlinkedFacts ==
  ASSUME DeliveryInvariant, busy' = Unlinked
  PROVE  /\ busy' \in BusyType \cup {None}
         /\ \/ busy' = None
            \/ busy # None /\ busy'.request = busy.request /\ busy'.answer = busy.answer
BY ServerFields DEF Unlinked, BusyType

\* The server notices a loss.
LEMMA NoticeKeeps ==
  ASSUME DeliveryInvariant, Notice
  PROVE  DeliveryInvariant'
<1>1. /\ Beyond /\ served = "stale" /\ served' = "none" /\ work' = <<>>
      /\ server' = [server EXCEPT !.publication = @ + 1]
      /\ toServer' = toServer /\ toClient' = toClient /\ busy' = busy /\ ended' = ended /\ losses' = losses
  BY DEF Notice, client, channels, bounds, Beyond
<1>2. Extended /\ Added = {}
  BY <1>1, NothingAdded
<1>3. /\ server' \in ServerType /\ AtMost(View(server), View(server)')
      /\ server'.history = server.history /\ server'.refused = server.refused
      /\ \A request \in Requests : (Made(request) = {} \/ Refused(request) = {})'
  BY <1>1, PublicationMore
<1>4. work' \in Seq(CommandType)
  BY <1>1
<1>5. QED
  BY <1>1, <1>2, <1>3, <1>4, ServerFields, ServerKeeps

\* The grace of a session ends.
LEMMA ExpireKeeps ==
  ASSUME DeliveryInvariant, Expire
  PROVE  DeliveryInvariant'
<1>1. /\ Beyond /\ served = "none" /\ served' = served /\ work' = work /\ server' = server
      /\ toServer' = toServer /\ toClient' = toClient /\ busy' = busy /\ ended' = TRUE /\ losses' = losses
  BY DEF Expire, client, channels, bounds, Beyond
<1>2. Extended /\ Added = {}
  BY <1>1, NothingAdded
<1>3. QED
  BY <1>1, <1>2, ServerFields, ServerSame, ServerKeeps

\* The transport connects again; nothing comes through yet.
LEMMA ConnectKeeps ==
  ASSUME DeliveryInvariant, Connect
  PROVE  DeliveryInvariant'
<1>1. /\ link' = "open" /\ link = "down" /\ resuming' = TRUE /\ view' = view /\ queue' = queue /\ active' = active
      /\ resync' = resync /\ task' = task /\ reports' = reports /\ submitted' = submitted /\ asks' = asks
      /\ toClient' = toClient /\ served' = served /\ work' = work /\ busy' = busy /\ server' = server
      /\ ended' = ended /\ losses' = losses
      /\ toServer' = IF resuming THEN toServer ELSE Append(toServer, [kind |-> "resume"])
  BY DEF Connect, client, game, bounds
<1>2. toServer' \in Seq(Outgoing)
  <2>1. [kind |-> "resume"] \in Outgoing
    BY DEF Outgoing
  <2>2. QED
    BY <1>1, <2>1, ServerFields
<1>3. Typed'
  BY <1>1, <1>2 DEF DeliveryInvariant, Typed, TypeOK
<1>4. Goes
  BY <1>1 DEF Goes, DeliveryInvariant, Typed, TypeOK
<1>5. Settled' /\ Truthful'
  BY <1>1, <1>4, StillSettled, BrowserTruth DEF DeliveryInvariant
<1>6. Ordered' /\ Latest'
  BY <1>1 DEF DeliveryInvariant, Ordered, Latest, Carries, View
<1>7. Flagged' /\ Noticed'
  BY <1>1 DEF DeliveryInvariant, Flagged, Noticed, Attached
<1>8. QED
  BY <1>3, <1>5, <1>6, <1>7 DEF DeliveryInvariant

\* A slow consumer is let go of, and told so behind all else.
LEMMA CutKeeps ==
  ASSUME DeliveryInvariant, Cut
  PROVE  DeliveryInvariant'
<1> DEFINE m == [kind |-> "cut"]
<1>1. /\ Beyond /\ served' = "none" /\ work' = <<>> /\ busy' = Unlinked /\ toServer' = toServer /\ ended' = ended
      /\ losses' = losses + 1 /\ server' = [server EXCEPT !.publication = @ + 1]
      /\ toClient' = Append(toClient, m)
  BY DEF Cut, client, Beyond
<1>2. m \in Incoming /\ m.kind = "cut"
  BY DEF Incoming
<1> HIDE DEF m
<1>3. Extended /\ Added = {Len(toClient) + 1} /\ \A i \in Added : toClient'[i] = m
  BY <1>1, <1>2, OneAdded
<1>4. /\ server' \in ServerType /\ AtMost(View(server), View(server)')
      /\ server'.history = server.history /\ server'.refused = server.refused
      /\ \A request \in Requests : (Made(request) = {} \/ Refused(request) = {})'
  BY <1>1, PublicationMore
<1>5. work' \in Seq(CommandType) /\ losses' \in Nat
  BY <1>1, ServerFields
<1>6. \A i \in Added : ~Carries(i)' /\ toClient'[i].kind = "cut"
  BY <1>2, <1>3 DEF Carries
<1>7. \E i \in Added : toClient'[i].kind = "cut"
  BY <1>3, <1>6
<1>8. QED
  BY <1>1, <1>3, <1>4, <1>5, <1>6, <1>7, UnlinkedFacts, ServerFields, ServerKeeps

\* A resume makes the connection the session's, and publishes.
LEMMA HandleResumeKeeps ==
  ASSUME DeliveryInvariant, HandleResume
  PROVE  DeliveryInvariant'
<1> DEFINE m == [kind |-> "resumed"]
           n == Snapshot("update", View(server)')
<1>1. /\ Beyond /\ toServer # <<>> /\ toServer' = Tail(toServer) /\ served' = "current" /\ work' = <<>>
      /\ busy' = busy /\ ended' = ended /\ losses' = losses
      /\ server' = [server EXCEPT !.publication = @ + 1] \/ server' = server
  BY DEF HandleResume, client, bounds, Beyond
<1>2. toClient' = toClient \o <<m, n>>
  BY DEF HandleResume, View
<1>3. /\ server' \in ServerType /\ AtMost(View(server), View(server)')
      /\ server.history \subseteq server'.history /\ server.refused \subseteq server'.refused
      /\ \A request \in Requests : (Made(request) = {} \/ Refused(request) = {})'
  BY <1>1, PublicationMore, ServerSame
<1>4. m \in Incoming /\ m.kind = "resumed"
  BY DEF Incoming
<1>5. n \in Incoming /\ n.kind = "update" /\ n.view = View(server)'
  <2>1. View(server)' \in ViewType
    BY <1>3 DEF View, ViewType, ServerType
  <2>2. QED
    BY <2>1 DEF Incoming, CarryType, Snapshot
<1> HIDE DEF m, n
<1>6. /\ Extended /\ Added = {Len(toClient) + 1, Len(toClient) + 2}
      /\ toClient'[Len(toClient) + 1] = m /\ toClient'[Len(toClient) + 2] = n
  BY <1>2, <1>4, <1>5, TwoAdded
<1>7. \A i \in Added : /\ Carries(i)' => toClient'[i].view = View(server)'
                       /\ toClient'[i].kind # "ack"
  BY <1>4, <1>5, <1>6 DEF Carries
<1>8. \E i \in Added : toClient'[i].kind = "update"
  BY <1>5, <1>6
<1>9. work' \in Seq(CommandType)
  BY <1>1
<1>10. QED
  BY <1>1, <1>3, <1>6, <1>7, <1>8, <1>9, ServerFields, ServerKeeps

\* A message that tells nothing of the game, or the server's view, to the browser.
LEMMA TellingKeeps ==
  ASSUME DeliveryInvariant, Beyond, server' = server, served' = served, ended' = ended, losses' = losses,
         toServer' \in Seq(Outgoing), work' \in Seq(CommandType),
         busy' = None \/ busy' = busy,
         NEW m \in Incoming, toClient' = Append(toClient, m),
         m.kind \in {"ack", "noview", "refusal"} \/ (m.kind = "view" /\ m.view = View(server)),
         m.kind = "ack" => Backed(m.request, m.answer)
  PROVE  DeliveryInvariant'
<1>1. Extended /\ Added = {Len(toClient) + 1} /\ \A i \in Added : toClient'[i] = m
  BY OneAdded
<1>2. /\ server' \in ServerType /\ AtMost(View(server), View(server)') /\ View(server)' = View(server)
      /\ server.history \subseteq server'.history /\ server.refused \subseteq server'.refused
      /\ \A request \in Requests : (Made(request) = {} \/ Refused(request) = {})'
  BY ServerSame
<1>3. ASSUME NEW i \in Added
      PROVE  /\ Carries(i)' => toClient'[i].view = View(server)'
             /\ toClient'[i].kind = "ack" => Backed(toClient[i].request, toClient[i].answer)'
             /\ toClient'[i].kind # "resumed"
  <2>1. toClient'[i] = m
    BY <1>1
  <2>2. Carries(i)' => toClient'[i].view = View(server)'
    BY <1>2, <2>1 DEF Carries
  <2>3. toClient'[i].kind = "ack" => Backed(toClient[i].request, toClient[i].answer)'
    BY <2>1 DEF Backed, Made, Refused
  <2>4. QED
    BY <2>1, <2>2, <2>3
<1>4. QED
  BY <1>1, <1>2, <1>3, ServerFields, ServerKeeps

\* A resume is refused.
LEMMA RefuseResumeKeeps ==
  ASSUME DeliveryInvariant, RefuseResume
  PROVE  DeliveryInvariant'
<1> DEFINE m == [kind |-> "refusal"]
<1>1. /\ Beyond /\ toServer # <<>> /\ toServer' = Tail(toServer) /\ toClient' = Append(toClient, m)
      /\ served' = served /\ work' = work /\ busy' = busy /\ server' = server /\ ended' = ended
      /\ losses' = losses
  BY DEF RefuseResume, client, game, bounds, Beyond
<1>2. m \in Incoming /\ m.kind = "refusal"
  BY DEF Incoming
<1> HIDE DEF m
<1>3. QED
  BY <1>1, <1>2, ServerFields, TellingKeeps

\* A command waits its turn, or is turned away.
LEMMA HandleCommandKeeps ==
  ASSUME DeliveryInvariant, HandleCommand
  PROVE  DeliveryInvariant'
<1> DEFINE m == Ack(Head(toServer), IF served = "current" THEN "busy" ELSE "no member", 0)
<1>1. /\ Beyond /\ toServer # <<>> /\ Head(toServer).kind = "command" /\ toServer' = Tail(toServer)
      /\ served' = served /\ busy' = busy /\ server' = server /\ ended' = ended /\ losses' = losses
  BY DEF HandleCommand, client, bounds, Beyond
<1>2. \/ work' = Append(work, Head(toServer)) /\ toClient' = toClient
      \/ work' = work /\ toClient' = Append(toClient, m)
  BY DEF HandleCommand
<1>3. Head(toServer) \in CommandType
  BY <1>1, ServerFields
<1>4. CASE work' = Append(work, Head(toServer)) /\ toClient' = toClient
  <2>1. work' \in Seq(CommandType)
    BY <1>3, <1>4, ServerFields
  <2>2. Extended /\ Added = {}
    BY <1>4, NothingAdded
  <2>3. QED
    BY <1>1, <2>1, <2>2, ServerFields, ServerSame, ServerKeeps
<1>5. CASE work' = work /\ toClient' = Append(toClient, m)
  <2>1. m \in Incoming /\ m.kind = "ack" /\ m.answer \in {"busy", "no member"}
    BY <1>3 DEF Ack, CommandType, Incoming, AckType
  <2> HIDE DEF m
  <2>2. Backed(m.request, m.answer)
    BY <2>1 DEF Backed
  <2>3. QED
    BY <1>1, <1>5, <2>1, <2>2, ServerFields, TellingKeeps
<1>6. QED
  BY <1>2, <1>4, <1>5

\* A snapshot is the server's view.
LEMMA HandleAskKeeps ==
  ASSUME DeliveryInvariant, HandleAsk
  PROVE  DeliveryInvariant'
<1>1. /\ Beyond /\ toServer # <<>> /\ toServer' = Tail(toServer)
      /\ served' = served /\ work' = work /\ busy' = busy /\ server' = server /\ ended' = ended
      /\ losses' = losses
  BY DEF HandleAsk, client, game, bounds, Beyond
<1>2. PICK m : /\ m = Snapshot("view", View(server)) \/ m = [kind |-> "noview"]
               /\ toClient' = Append(toClient, m)
  BY DEF HandleAsk
<1>3. View(server) \in ViewType
  BY ServerFields DEF View, ViewType, ServerType
<1>4. m \in Incoming /\ (m.kind = "noview" \/ (m.kind = "view" /\ m.view = View(server)))
  <2>1. CASE m = Snapshot("view", View(server))
    BY <1>3, <2>1 DEF Snapshot, Incoming, CarryType
  <2>2. CASE m = [kind |-> "noview"]
    BY <2>2 DEF Incoming
  <2>3. QED
    BY <1>2, <2>1, <2>2
<1>5. QED
  BY <1>1, <1>2, <1>4, ServerFields, TellingKeeps

\* The answer goes out, if its connection is still there.
LEMMA AnswerBusyKeeps ==
  ASSUME DeliveryInvariant, AnswerBusy
  PROVE  DeliveryInvariant'
<1> DEFINE m == Ack(busy, busy.answer, busy.version)
<1>1. /\ Beyond /\ busy # None /\ busy' = None /\ toServer' = toServer
      /\ served' = served /\ work' = work /\ server' = server /\ ended' = ended /\ losses' = losses
      /\ toClient' = IF busy.live THEN Append(toClient, m) ELSE toClient
  BY DEF AnswerBusy, client, bounds, Beyond
<1>2. busy \in BusyType
  BY <1>1, ServerFields
<1>3. m \in Incoming /\ m.kind = "ack" /\ m.request = busy.request /\ m.answer = busy.answer
  BY <1>2 DEF BusyType, Ack, Incoming, AckType
<1>4. Backed(busy.request, busy.answer)
  BY <1>1 DEF DeliveryInvariant, Truthful
<1> HIDE DEF m
<1>5. CASE busy.live
  BY <1>1, <1>3, <1>4, <1>5, ServerFields, TellingKeeps
<1>6. CASE ~busy.live
  <2>1. Extended /\ Added = {}
    BY <1>1, <1>6, NothingAdded
  <2>2. QED
    BY <1>1, <2>1, ServerFields, ServerSame, ServerKeeps
<1>7. QED
  BY <1>5, <1>6

\* A transition is recorded, once, under its author.
LEMMA TransitionFacts ==
  ASSUME DeliveryInvariant, NEW author \in Requests \cup {ServerAi}, server' = TransitionBy(author),
         author \in Requests => Refused(author) = {}
  PROVE  /\ server' \in ServerType /\ AtMost(View(server), View(server)')
         /\ server.history \subseteq server'.history /\ server.refused \subseteq server'.refused
         /\ [request |-> author, at |-> server.version + 1] \in server'.history
         /\ \A request \in Requests : (Made(request) = {} \/ Refused(request) = {})'
<1> DEFINE entry == [request |-> author, at |-> server.version + 1]
<1>1. server \in ServerType
  BY ServerFields
<1>2. /\ server.version \in Nat /\ server.publication \in Nat
      /\ server.history \subseteq [request : Requests \cup {ServerAi}, at : Nat]
      /\ server.refused \subseteq [request : Requests, at : Nat]
  BY <1>1 DEF ServerType
<1>3. entry \in [request : Requests \cup {ServerAi}, at : Nat] /\ entry.request = author
  BY <1>2
<1>4. server' = [server EXCEPT !.version = server.version + 1, !.publication = server.publication + 1,
                               !.history = server.history \cup {entry}]
  BY DEF TransitionBy
<1> HIDE DEF entry
<1>5. /\ server' \in ServerType
      /\ server'.version = server.version + 1 /\ server'.publication = server.publication + 1
      /\ server'.history = server.history \cup {entry} /\ server'.refused = server.refused
  <2>1. /\ server.version + 1 \in Nat /\ server.publication + 1 \in Nat
        /\ server.history \cup {entry} \in SUBSET [request : Requests \cup {ServerAi}, at : Nat]
    BY <1>2, <1>3
  <2>2. PICK v, p, h : v = server.version + 1 /\ p = server.publication + 1 /\ h = server.history \cup {entry}
    OBVIOUS
  <2>3. server' = [server EXCEPT !.version = v, !.publication = p, !.history = h]
    BY <1>4, <2>2
  <2>4. v \in Nat /\ p \in Nat /\ h \in SUBSET [request : Requests \cup {ServerAi}, at : Nat]
    BY <2>1, <2>2
  <2>5. /\ server' \in ServerType /\ server'.version = v /\ server'.publication = p
        /\ server'.history = h /\ server'.refused = server.refused
    BY <1>1, <2>3, <2>4 DEF ServerType
  <2>6. QED
    BY <2>2, <2>5
<1>6. AtMost(View(server), View(server)')
  BY <1>2, <1>5 DEF AtMost, View
<1>7. ASSUME NEW request \in Requests
      PROVE  (Made(request) = {} \/ Refused(request) = {})'
  <2>1. Refused(request)' = Refused(request)
    BY <1>5 DEF Refused
  <2>2. request # author => Made(request)' = Made(request)
    BY <1>3, <1>5 DEF Made
  <2>3. QED
    BY <2>1, <2>2 DEF DeliveryInvariant, Truthful
<1>8. QED
  BY <1>5, <1>6, <1>7 DEF entry

\* A published view is the server's.
LEMMA PublishFacts ==
  ASSUME DeliveryInvariant, Publish(server'), server' \in ServerType, served' = served
  PROVE  /\ Extended
         /\ \A i \in Added : /\ Carries(i)' => toClient'[i].view = View(server)'
                             /\ toClient'[i].kind = "update"
         /\ \/ served' # "current" /\ Added = {}
            \/ served' = "current" /\ \E i \in Added : toClient'[i].kind = "update"
<1> DEFINE m == Snapshot("update", View(server)')
<1>1. toClient' = IF served = "current" THEN Append(toClient, m) ELSE toClient
  BY DEF Publish, View
<1>2. m \in Incoming /\ m.kind = "update" /\ m.view = View(server)'
  <2>1. View(server)' \in ViewType
    BY DEF View, ViewType, ServerType
  <2>2. QED
    BY <2>1 DEF Incoming, CarryType, Snapshot
<1> HIDE DEF m
<1>3. CASE served = "current"
  <2>1. Extended /\ Added = {Len(toClient) + 1} /\ \A i \in Added : toClient'[i] = m
    BY <1>1, <1>2, <1>3, OneAdded
  <2>2. QED
    BY <1>2, <1>3, <2>1
<1>4. CASE served # "current"
  BY <1>1, <1>4, NothingAdded
<1>5. QED
  BY <1>3, <1>4

\* Somebody else moves.
LEMMA OtherMoveKeeps ==
  ASSUME DeliveryInvariant, OtherMove
  PROVE  DeliveryInvariant'
<1>1. /\ Beyond /\ toServer' = toServer /\ served' = served /\ work' = work /\ busy' = busy /\ ended' = ended
      /\ losses' = losses /\ server' = TransitionBy(ServerAi) /\ Publish(server')
  BY DEF OtherMove, client, bounds, Beyond
<1>2. /\ server' \in ServerType /\ AtMost(View(server), View(server)')
      /\ server.history \subseteq server'.history /\ server.refused \subseteq server'.refused
      /\ \A request \in Requests : (Made(request) = {} \/ Refused(request) = {})'
  <2>1. ServerAi \in Requests \cup {ServerAi} /\ ServerAi \notin Requests
    BY DeliveryConstants
  <2>2. QED
    BY <1>1, <2>1, TransitionFacts
<1>3. /\ Extended
      /\ \A i \in Added : /\ Carries(i)' => toClient'[i].view = View(server)'
                          /\ toClient'[i].kind = "update"
      /\ \/ served' # "current" /\ Added = {}
         \/ served' = "current" /\ \E i \in Added : toClient'[i].kind = "update"
  BY <1>1, <1>2, PublishFacts
<1>4. QED
  BY <1>1, <1>2, <1>3, ServerFields, ServerKeeps

\* An answer made out for a command.
LEMMA AnsweringFacts ==
  ASSUME NEW command \in CommandType, NEW answer \in {"accepted", "rejected", "refused"}, NEW version \in Nat,
         busy' = [request |-> command.request, attempt |-> command.attempt, answer |-> answer,
                  version |-> version, live |-> served = "current"]
  PROVE  busy' \in BusyType /\ busy'.request = command.request /\ busy'.answer = answer
BY DEF BusyType, CommandType

\* The head of the FIFO is executed, replayed or refused, and answered accordingly.
LEMMA RunHeadKeeps ==
  ASSUME DeliveryInvariant, RunHead
  PROVE  DeliveryInvariant'
<1>1. /\ Beyond /\ work # <<>> /\ work' = Tail(work) /\ toServer' = toServer /\ served' = served
      /\ ended' = ended /\ losses' = losses
  BY DEF RunHead, client, bounds, Beyond
<1>2. PICK command : command = Head(work)
  OBVIOUS
<1>3. command \in CommandType /\ work' \in Seq(CommandType) /\ command.request \in Requests
  <2>1. work \in Seq(CommandType)
    BY ServerFields
  <2>2. command = work[1] /\ 1 \in 1..Len(work)
    BY <1>1, <1>2, <2>1
  <2>3. command \in CommandType
    BY <2>1, <2>2
  <2>4. Tail(work) \in Seq(CommandType)
    BY <1>1, <2>1
  <2>5. QED
    BY <1>1, <2>3, <2>4 DEF CommandType
<1>4. Execute(command) \/ Replay(command) \/ Refuse(command)
  BY <1>2 DEF RunHead
<1>5. server \in ServerType
  BY ServerFields
<1>6. CASE Execute(command)
  <2>1. /\ server' = TransitionBy(command.request) /\ Publish(server')
        /\ Refused(command.request) = {}
    BY <1>6 DEF Execute
  <2>2. /\ server' \in ServerType /\ AtMost(View(server), View(server)')
        /\ server.history \subseteq server'.history /\ server.refused \subseteq server'.refused
        /\ [request |-> command.request, at |-> server.version + 1] \in server'.history
        /\ \A request \in Requests : (Made(request) = {} \/ Refused(request) = {})'
    BY <1>3, <2>1, TransitionFacts
  <2>3. PICK version : version = server'.version
    OBVIOUS
  <2>4. version \in Nat
    BY <2>2, <2>3 DEF ServerType
  <2>5. busy' \in BusyType /\ busy'.request = command.request /\ busy'.answer = "accepted"
    BY <1>3, <1>6, <2>3, <2>4, AnsweringFacts DEF Execute, Answering
  <2>6. Backed(busy.request, busy.answer)'
    BY <2>2, <2>5 DEF Backed, Made
  <2>7. /\ Extended
        /\ \A i \in Added : /\ Carries(i)' => toClient'[i].view = View(server)'
                            /\ toClient'[i].kind = "update"
        /\ \/ served' # "current" /\ Added = {}
           \/ served' = "current" /\ \E i \in Added : toClient'[i].kind = "update"
    BY <1>1, <2>1, <2>2, PublishFacts
  <2>8. QED
    BY <1>1, <1>3, <2>2, <2>5, <2>6, <2>7, ServerFields, ServerKeeps
<1>7. CASE Replay(command)
  <2>1. server' = server /\ toClient' = toClient
    BY <1>7 DEF Replay
  <2>2. \/ \E t \in Made(command.request) : Answering(command, "accepted", t.at)
        \/ \E t \in Refused(command.request) : Answering(command, "rejected", t.at)
    BY <1>7 DEF Replay
  <2>3. busy' \in BusyType /\ Backed(busy.request, busy.answer)'
    <3>1. CASE \E t \in Made(command.request) : Answering(command, "accepted", t.at)
      <4>1. PICK t \in Made(command.request) : Answering(command, "accepted", t.at)
        BY <3>1
      <4>2. t.at \in Nat
        BY <1>5, <4>1 DEF Made, ServerType
      <4>3. busy' \in BusyType /\ busy'.request = command.request /\ busy'.answer = "accepted"
        BY <1>3, <4>1, <4>2, AnsweringFacts DEF Answering
      <4>4. Backed(busy.request, busy.answer)'
        BY <2>1, <4>1, <4>3 DEF Backed, Made
      <4>5. QED
        BY <4>3, <4>4
    <3>2. CASE \E t \in Refused(command.request) : Answering(command, "rejected", t.at)
      <4>1. PICK t \in Refused(command.request) : Answering(command, "rejected", t.at)
        BY <3>2
      <4>2. t.at \in Nat
        BY <1>5, <4>1 DEF Refused, ServerType
      <4>3. busy' \in BusyType /\ busy'.request = command.request /\ busy'.answer = "rejected"
        BY <1>3, <4>1, <4>2, AnsweringFacts DEF Answering
      <4>4. Backed(busy.request, busy.answer)'
        BY <2>1, <4>1, <4>3 DEF Backed, Refused
      <4>5. QED
        BY <4>3, <4>4
    <3>3. QED
      BY <2>2, <3>1, <3>2
  <2>4. Extended /\ Added = {}
    BY <2>1, NothingAdded
  <2>5. QED
    BY <1>1, <1>3, <2>1, <2>3, <2>4, ServerFields, ServerSame, ServerKeeps
<1>8. CASE Refuse(command)
  <2>1. toClient' = toClient /\ Made(command.request) = {}
    BY <1>8 DEF Refuse
  <2>2. Extended /\ Added = {}
    BY <2>1, NothingAdded
  <2>3. server.version \in Nat
    BY <1>5 DEF ServerType
  <2>4. CASE /\ server' = [server EXCEPT !.refused =
                              @ \cup {[request |-> command.request, at |-> server.version]}]
             /\ Answering(command, "rejected", server.version)
    <3> DEFINE entry == [request |-> command.request, at |-> server.version]
    <3>1. entry \in [request : Requests, at : Nat] /\ entry.request = command.request
      BY <1>3, <2>3
    <3>2. server' = [server EXCEPT !.refused = server.refused \cup {entry}]
      BY <2>4
    <3> HIDE DEF entry
    <3>3. /\ server' \in ServerType /\ server'.version = server.version /\ server'.publication = server.publication
          /\ server'.history = server.history /\ server'.refused = server.refused \cup {entry}
      BY <1>5, <3>1, <3>2 DEF ServerType
    <3>4. AtMost(View(server), View(server)') /\ View(server)' = View(server)
      BY <1>5, <3>3 DEF AtMost, View, ServerType
    <3>5. ASSUME NEW request \in Requests
          PROVE  (Made(request) = {} \/ Refused(request) = {})'
      <4>1. Made(request)' = Made(request)
        BY <3>3 DEF Made
      <4>2. request # command.request => Refused(request)' = Refused(request)
        BY <3>1, <3>3 DEF Refused
      <4>3. QED
        BY <2>1, <4>1, <4>2 DEF DeliveryInvariant, Truthful
    <3>6. busy' \in BusyType /\ busy'.request = command.request /\ busy'.answer = "rejected"
      BY <1>3, <2>3, <2>4, AnsweringFacts DEF Answering
    <3>7. Backed(busy.request, busy.answer)'
      BY <3>1, <3>3, <3>6 DEF Backed, Refused
    <3>8. server.history \subseteq server'.history /\ server.refused \subseteq server'.refused
      BY <3>3
    <3>9. QED
      BY <1>1, <1>3, <2>2, <3>3, <3>4, <3>5, <3>6, <3>7, <3>8, ServerFields, ServerKeeps
  <2>5. CASE server' = server /\ Answering(command, "refused", 0)
    <3>1. busy' \in BusyType /\ busy'.answer = "refused"
      BY <1>3, <2>5, AnsweringFacts DEF Answering
    <3>2. Backed(busy.request, busy.answer)'
      BY <3>1 DEF Backed
    <3>3. QED
      BY <1>1, <1>3, <2>2, <2>5, <3>1, <3>2, ServerFields, ServerSame, ServerKeeps
  <2>6. QED
    BY <1>8, <2>4, <2>5 DEF Refuse
<1>9. QED
  BY <1>4, <1>6, <1>7, <1>8

-----------------------------------------------------------------------------
(* The theorems.                                                           *)

\* Initially nothing is under way and the view is the server's.
LEMMA DeliveryInitially == Init => DeliveryInvariant
<1> SUFFICES ASSUME Init
             PROVE  DeliveryInvariant
  OBVIOUS
<1>1. /\ link = "up" /\ resuming = FALSE /\ served = "current" /\ queue = <<>> /\ active = None
      /\ resync = FALSE /\ task = FALSE /\ toServer = <<>> /\ toClient = <<>> /\ work = <<>> /\ busy = None
      /\ ended = FALSE /\ submitted = 0 /\ reports = {} /\ losses = 0 /\ asks = 0 /\ view = View(server)
      /\ server = [version |-> 0, publication |-> 0, history |-> {}, refused |-> {}]
  BY DEF Init
<1>2. /\ server \in ServerType /\ server.history = {} /\ server.refused = {} /\ server.version = 0
      /\ server.publication = 0
  BY <1>1 DEF ServerType
<1>3. view \in ViewType /\ AtMost(view, View(server))
  BY <1>1, <1>2 DEF ViewType, View, AtMost
<1>4. /\ queue \in Seq(Requests) /\ Len(queue) = 0 /\ toServer \in Seq(Outgoing) /\ toClient \in Seq(Incoming)
      /\ Len(toClient) = 0 /\ work \in Seq(CommandType)
  BY <1>1
<1>5. TypeOK
  <2>1. Len(queue) < QueueCapacity /\ submitted \in 0..MaxCommands
    BY <1>1, <1>4, DeliveryConstants
  <2>2. reports \subseteq [request : Requests, outcome : Outcomes]
    BY <1>1
  <2>3. QED
    BY <1>1, <1>3, <1>4, <2>1, <2>2 DEF TypeOK
<1>6. Typed
  BY <1>1, <1>2, <1>4, <1>5 DEF Typed
<1>7. Settled /\ Truthful
  BY <1>1, <1>2, <1>4 DEF Settled, Truthful, Made, Refused
<1>8. Ordered /\ Latest /\ Flagged /\ Noticed
  BY <1>1, <1>3, <1>4 DEF Ordered, Latest, Flagged, Noticed
<1>9. QED
  BY <1>6, <1>7, <1>8 DEF DeliveryInvariant

\* Every step of the browser, the network and the server preserves the invariant.
LEMMA DeliveryStep == DeliveryInvariant /\ [Next]_vars => DeliveryInvariant'
<1> SUFFICES ASSUME DeliveryInvariant, [Next]_vars
             PROVE  DeliveryInvariant'
  OBVIOUS
<1>0. Typed
  BY DEF DeliveryInvariant
<1>1. CASE Submit
  BY <1>1, SubmitKeeps
<1>2. CASE Resync \/ AckTimeout \/ AttachTimeout
  BY <1>0, <1>2, InnerSteps, InnerKeeps
<1>3. CASE Proceed
  <2>1. CASE Begin \/ Wake \/ Pace \/ SendCommand \/ Fail
    BY <1>0, <2>1, InnerSteps, InnerKeeps
  <2>2. CASE Confirm
    BY <1>0, <2>2, InnerSteps, InnerKeeps, ConfirmKeeps
  <2>3. CASE Reject
    BY <2>3, RejectKeeps
  <2>4. QED
    BY <1>3, <2>1, <2>2, <2>3 DEF Proceed
<1>4. CASE SnapshotTimeout
  BY <1>4, SnapshotTimeoutKeeps
<1>5. CASE Receive
  BY <1>5, ReceiveAckKeeps, ReceiveSnapshotKeeps, ReceiveUpdateKeeps, ReceiveResumedKeeps,
     ReceiveRefusalKeeps, ReceiveCutKeeps DEF Receive
<1>6. CASE Drop \/ Restart \/ Connect \/ Cut
  BY <1>6, DropKeeps, RestartKeeps, ConnectKeeps, CutKeeps
<1>7. CASE ServerStep
  BY <1>7, NoticeKeeps, HandleResumeKeeps, RefuseResumeKeeps, HandleCommandKeeps, HandleAskKeeps,
     RunHeadKeeps, AnswerBusyKeeps DEF ServerStep
<1>8. CASE Expire \/ OtherMove
  BY <1>8, ExpireKeeps, OtherMoveKeeps
<1>9. CASE UNCHANGED vars
  <2>1. /\ Beyond /\ server' = server /\ served' = served /\ work' = work /\ busy' = busy /\ ended' = ended
        /\ toServer' = toServer /\ toClient' = toClient /\ losses' = losses
    BY <1>9 DEF vars, client, channels, game, bounds, Beyond
  <2>2. Extended /\ Added = {}
    BY <2>1, NothingAdded
  <2>3. QED
    BY <2>1, <2>2, ServerFields, ServerSame, ServerKeeps
<1>10. QED
  BY <1>1, <1>2, <1>3, <1>4, <1>5, <1>6, <1>7, <1>8, <1>9 DEF Next

\* The invariant holds in every behaviour.
THEOREM DeliveryInvariantHolds == Spec => []DeliveryInvariant
BY DeliveryInitially, DeliveryStep, PTL DEF Spec

\* Whatever is lost, retried, replayed or restarted, the player is told of a
\* command once, and what he is told the server's records bear out.
THEOREM ReportsAlwaysTrue == Spec => []ReportsAreTrue
<1>1. DeliveryInvariant => ReportsAreTrue
  <2> SUFFICES ASSUME DeliveryInvariant, NEW report \in reports
               PROVE  /\ report.outcome = "rejected" => Made(report.request) = {}
                      /\ report.outcome = "accepted" => Made(report.request) # {}
                      /\ \A other \in reports : other.request = report.request => other = report
    BY DEF ReportsAreTrue
  <2>1. report.request \in Requests
    BY DEF DeliveryInvariant, Typed, TypeOK
  <2>2. Backed(report.request, report.outcome)
    BY DEF DeliveryInvariant, Truthful
  <2>3. Made(report.request) = {} \/ Refused(report.request) = {}
    BY <2>1 DEF DeliveryInvariant, Truthful
  <2>4. QED
    BY <2>2, <2>3 DEF Backed, DeliveryInvariant, Settled
<1>2. QED
  BY <1>1, DeliveryInvariantHolds, PTL

\* However views, losses and resumptions interleave, a browser that awaits
\* nothing shows the server's view or says that it may not.
THEOREM StaleAlwaysFlagged == Spec => []StaleIsFlagged
<1>1. DeliveryInvariant => StaleIsFlagged
  <2> SUFFICES ASSUME DeliveryInvariant, Attached, toClient = <<>>, ~task
               PROVE  resync \/ view = View(server)
    BY DEF StaleIsFlagged
  <2>1. Len(toClient) = 0
    OBVIOUS
  <2>2. served = "current"
    BY <2>1 DEF DeliveryInvariant, Noticed
  <2>3. QED
    BY <2>1, <2>2 DEF DeliveryInvariant, Flagged
<1>2. QED
  BY <1>1, DeliveryInvariantHolds, PTL

\* Every variable always has its type.
THEOREM DeliveryTypeCorrect == Spec => []TypeOK
<1>1. DeliveryInvariant => TypeOK
  BY DEF DeliveryInvariant, Typed
<1>2. QED
  BY <1>1, DeliveryInvariantHolds, PTL

-----------------------------------------------------------------------------
(* The refinement of CommandLedger.                                        *)

Accepted == {report.request : report \in {r \in reports : r.outcome = "accepted"}}
Quiet == server'.version = server.version /\ server'.history = server.history /\ Accepted' = Accepted

\* What the player is told besides success is nothing to the ledger.
LEMMA TellingIsQuiet ==
  ASSUME server' = server, reports \subseteq reports',
         \A report \in reports' : report \in reports \/ report.outcome # "accepted"
  PROVE  Quiet
BY DEF Quiet, Accepted

\* The end of the game, or of the session, cancels what is queued.
LEMMA CancellingIsQuiet ==
  ASSUME server' = server, reports \subseteq reports',
         \A report \in reports' : report \in reports \/ report \in Cancelled \/ report.outcome = "cancelled"
  PROVE  Quiet
<1>1. \A report \in Cancelled : report.outcome = "cancelled"
  BY DEF Cancelled
<1>2. QED
  BY <1>1, TellingIsQuiet

\* A change of the publication revision alone is nothing to the ledger.
LEMMA PublishingIsQuiet ==
  ASSUME DeliveryInvariant, reports' = reports,
         \/ server' = server
         \/ server' = [server EXCEPT !.publication = @ + 1]
  PROVE  Quiet
<1>1. server \in ServerType
  BY ServerFields
<1>2. server'.version = server.version /\ server'.history = server.history
  BY <1>1 DEF ServerType
<1>3. QED
  BY <1>2 DEF Quiet, Accepted

\* The browser's own steps, but for a report, leave the ledger alone.
LEMMA BrowserIsQuiet ==
  ASSUME DeliveryInvariant,
         \/ Submit \/ Resync \/ Begin \/ Wake \/ Pace \/ SendCommand \/ Fail \/ AckTimeout
         \/ SnapshotTimeout \/ AttachTimeout \/ ReceiveAck \/ ReceiveResumed \/ Connect
  PROVE  Quiet
<1>1. server' = server /\ reports' = reports
  BY DEF Submit, Resync, Begin, Wake, Pace, SendCommand, Fail, AckTimeout, SnapshotTimeout, AttachTimeout,
         ReceiveAck, ReceiveResumed, Connect, game, client
<1>2. QED
  BY <1>1, PublishingIsQuiet

\* What happens to the connection leaves the ledger alone.
LEMMA LosingIsQuiet ==
  ASSUME DeliveryInvariant, Drop \/ Restart \/ Cut \/ ReceiveCut \/ Notice \/ Expire
  PROVE  Quiet
<1>1. reports' = reports /\ (server' = server \/ server' = [server EXCEPT !.publication = @ + 1])
  BY DEF Drop, Restart, Cut, ReceiveCut, Notice, Expire, Detach, game, client
<1>2. QED
  BY <1>1, PublishingIsQuiet

\* So does what the server does with a message.
LEMMA HandlingIsQuiet ==
  ASSUME DeliveryInvariant, HandleResume \/ RefuseResume \/ HandleCommand \/ HandleAsk \/ AnswerBusy
  PROVE  Quiet
<1>1. reports' = reports /\ (server' = server \/ server' = [server EXCEPT !.publication = @ + 1])
  BY DEF HandleResume, RefuseResume, HandleCommand, HandleAsk, AnswerBusy, game, client
<1>2. QED
  BY <1>1, PublishingIsQuiet

\* Views and refusals tell the player of cancellations only.
LEMMA HearingIsQuiet ==
  ASSUME ReceiveSnapshot \/ ReceiveUpdate \/ ReceiveRefusal
  PROVE  Quiet
<1>1. CASE ReceiveSnapshot \/ ReceiveUpdate
  <2>1. server' = server /\ (reports' = reports \/ reports' = reports \cup Cancelled)
    BY <1>1 DEF ReceiveSnapshot, ReceiveUpdate, Accept, game
  <2>2. QED
    BY <2>1, CancellingIsQuiet
<1>2. CASE ReceiveRefusal
  <2>1. server' = server /\ reports \subseteq reports'
    BY <1>2 DEF ReceiveRefusal, game
  <2>2. \A report \in reports' : report \in reports \/ report \in Cancelled \/ report.outcome = "cancelled"
    <3>1. \A report \in IF active = None THEN {} ELSE {[request |-> active.request, outcome |-> "cancelled"]} :
             report.outcome = "cancelled"
      OBVIOUS
    <3>2. QED
      BY <1>2, <3>1 DEF ReceiveRefusal
  <2>3. QED
    BY <2>1, <2>2, CancellingIsQuiet
<1>3. QED
  BY <1>1, <1>2

\* Nothing but a transition changes what the server recorded of transitions.
LEMMA JudgingIsQuiet ==
  ASSUME DeliveryInvariant, NEW command, Replay(command) \/ Refuse(command), reports' = reports
  PROVE  Quiet
<1>1. server \in ServerType
  BY ServerFields
<1>2. server' = server
      \/ \E entry : server' = [server EXCEPT !.refused = server.refused \cup {entry}]
  BY DEF Replay, Refuse
<1>3. server'.version = server.version /\ server'.history = server.history
  BY <1>1, <1>2 DEF ServerType
<1>4. QED
  BY <1>3 DEF Quiet, Accepted

\* A transition is the next entry of the ledger.
LEMMA TransitionAppends ==
  ASSUME DeliveryInvariant, NEW author \in Requests \cup {ServerAi}, server' = TransitionBy(author),
         author # ServerAi => author.expected = server.version, reports' = reports
  PROVE  Ledger!Append(author)
<1> DEFINE entry == [request |-> author, at |-> server.version + 1]
<1>1. server \in ServerType
  BY ServerFields
<1>2. server' = [server EXCEPT !.version = server.version + 1, !.publication = server.publication + 1,
                               !.history = server.history \cup {entry}]
  BY DEF TransitionBy
<1> HIDE DEF entry
<1>3. server'.version = server.version + 1 /\ server'.history = server.history \cup {entry}
  BY <1>1, <1>2 DEF ServerType
<1>4. QED
  BY <1>3 DEF Ledger!Append, entry

\* A success is reported of a request the ledger holds.
LEMMA ConfirmingAccepts ==
  ASSUME DeliveryInvariant, Confirm, ~(view.version < active.version)
  PROVE  Quiet \/ \E request \in Requests : Ledger!Accept(request)
<1>1. /\ active # None /\ active.answer \in {"accepted", "rejected"} /\ Backed(active.request, active.answer)
      /\ active.request \in Requests
  BY DEF Confirm, At, DeliveryInvariant, Typed, TypeOK, Truthful, Answered, EntryType
<1>2. PICK request, answer : request = active.request /\ answer = active.answer
  OBVIOUS
<1>3. server' = server /\ reports' = reports \cup {[request |-> request, outcome |-> answer]}
  BY <1>2 DEF Confirm, Report, game
<1>4. CASE answer = "rejected"
  BY <1>3, <1>4, TellingIsQuiet
<1>5. CASE answer = "accepted"
  <2>1. PICK entry \in server.history : entry.request = request
    BY <1>1, <1>2, <1>5 DEF Backed, Made
  <2>2. Accepted' = Accepted \cup {request}
    <3> DEFINE report == [request |-> request, outcome |-> "accepted"]
    <3>1. report.request = request /\ report.outcome = "accepted" /\ reports' = reports \cup {report}
      BY <1>3, <1>5
    <3> HIDE DEF report
    <3>2. QED
      BY <3>1 DEF Accepted
  <2>3. Ledger!Accept(request)
    BY <1>3, <2>1, <2>2 DEF Ledger!Accept, Accepted
  <2>4. QED
    BY <1>1, <1>2, <2>3
<1>6. QED
  BY <1>1, <1>2, <1>4, <1>5

\* Every step records the next transition, reports a recorded one, or is quiet.
LEMMA LedgerStep == DeliveryInvariant /\ [Next]_vars => [Ledger!Next]_Ledger!ledger
<1> SUFFICES ASSUME DeliveryInvariant, [Next]_vars
             PROVE  Quiet \/ Ledger!Next
  BY DEF Quiet, Accepted, Ledger!ledger
<1>0. Typed
  BY DEF DeliveryInvariant
<1>1. CASE Submit \/ Resync \/ AckTimeout \/ SnapshotTimeout \/ AttachTimeout \/ Connect
  BY <1>1, BrowserIsQuiet
<1>2. CASE Proceed
  <2>1. CASE Begin \/ Wake \/ Pace \/ SendCommand \/ Fail
    BY <2>1, BrowserIsQuiet
  <2>2. CASE Confirm /\ view.version < active.version
    <3>1. server' = server /\ reports' = reports
      BY <2>2 DEF Confirm, game
    <3>2. QED
      BY <3>1, PublishingIsQuiet
  <2>3. CASE Confirm /\ ~(view.version < active.version)
    BY <2>3, ConfirmingAccepts DEF Ledger!Next
  <2>4. CASE Reject
    <3>1. server' = server /\ reports' = reports \cup {[request |-> active.request, outcome |-> "failed"]}
      BY <2>4 DEF Reject, Report, game
    <3>2. QED
      BY <3>1, TellingIsQuiet
  <2>5. QED
    BY <1>2, <2>1, <2>2, <2>3, <2>4 DEF Proceed
<1>3. CASE Receive
  BY <1>3, BrowserIsQuiet, HearingIsQuiet, LosingIsQuiet DEF Receive
<1>4. CASE Drop \/ Restart \/ Cut \/ Expire
  BY <1>4, LosingIsQuiet
<1>5. CASE ServerStep
  <2>1. CASE RunHead
    <3>1. PICK command : command = Head(work)
      OBVIOUS
    <3>2. work \in Seq(CommandType) /\ work # <<>> /\ reports' = reports
      BY <2>1, ServerFields DEF RunHead, client
    <3>3. command = work[1] /\ 1 \in 1..Len(work)
      BY <3>1, <3>2
    <3>4. command \in CommandType
      BY <3>2, <3>3
    <3>5. command.request \in Requests
      BY <3>4 DEF CommandType
    <3>6. Execute(command) \/ Replay(command) \/ Refuse(command)
      BY <2>1, <3>1 DEF RunHead
    <3>7. CASE Execute(command)
      <4>1. server' = TransitionBy(command.request) /\ command.request.expected = server.version
        BY <3>7 DEF Execute
      <4>2. Ledger!Append(command.request)
        BY <3>2, <3>5, <4>1, TransitionAppends
      <4>3. QED
        BY <3>5, <4>2 DEF Ledger!Next
    <3>8. QED
      BY <3>2, <3>6, <3>7, JudgingIsQuiet
  <2>2. CASE Notice
    BY <2>2, LosingIsQuiet
  <2>3. CASE HandleResume \/ RefuseResume \/ HandleCommand \/ HandleAsk \/ AnswerBusy
    BY <2>3, HandlingIsQuiet
  <2>4. QED
    BY <1>5, <2>1, <2>2, <2>3 DEF ServerStep
<1>6. CASE OtherMove
  <2>1. server' = TransitionBy(ServerAi) /\ reports' = reports
    BY <1>6 DEF OtherMove, client
  <2>2. Ledger!Append(ServerAi)
    BY <2>1, TransitionAppends
  <2>3. QED
    BY <2>2 DEF Ledger!Next
<1>7. CASE UNCHANGED vars
  <2>1. server' = server /\ reports' = reports
    BY <1>7 DEF vars, game, client
  <2>2. QED
    BY <2>1, PublishingIsQuiet
<1>8. QED
  BY <1>1, <1>2, <1>3, <1>4, <1>5, <1>6, <1>7 DEF Next

\* What the player sees of commands is the promise of CommandLedger: applied at
\* most once, at the version they expected, and before they are called accepted.
THEOREM DeliveryKeepsLedger == Spec => KeepsLedger
<1>1. Init => Ledger!Init
  BY DEF Init, Ledger!Init
<1>2. QED
  BY <1>1, LedgerStep, DeliveryInvariantHolds, PTL DEF Spec, KeepsLedger, Ledger!Spec

=============================================================================
