------------------------- MODULE GameCommandsProofs -------------------------
(***************************************************************************)
(* Proofs that the command ledger of GameCommands keeps its promises for   *)
(* any sessions, requests, cache limit and bounds.                         *)
(***************************************************************************)
EXTENDS GameCommands, TLAPS

AnswerType == [request : Requests, answer : {"accepted", "rejected"}]

\* What later states may not lose: transitions, and results still due.
Grows(g, h) ==
    /\ g.applied \subseteq h.applied
    /\ \A r \in Requests, ok \in BOOLEAN : RetainedIn(g, r, ok) => RetainedIn(h, r, ok)

-----------------------------------------------------------------------------
(* The bounded cache.                                                      *)

\* Retaining one more result shifts the sequence by at most one place, which
\* is the place of the only dropped result, and never by the new one.
LEMMA RetainedShift ==
    ASSUME NEW q \in Seq(EntryType), NEW e \in EntryType, Len(q) <= CacheLimit
    PROVE  LET all == Append(q, e)
               c == Retained(all)
           IN \E d \in {0, 1} :
                /\ c \in Seq(EntryType)
                /\ d <= Len(q)
                /\ Len(c) = Len(q) + 1 - d /\ Len(c) <= CacheLimit
                /\ \A i \in 1..Len(c) : c[i] = all[i + d]
                /\ Dropped(all) = IF d = 1 THEN {all[1].request} ELSE {}
<1> DEFINE all == Append(q, e)
           c == Retained(all)
<1>1. /\ all \in Seq(EntryType) /\ Len(all) = Len(q) + 1 /\ all # <<>>
      /\ Head(all) = all[1] /\ Len(q) \in Nat
  OBVIOUS
<1>2. CASE Len(all) > CacheLimit
  <2>1. c = Tail(all) /\ Dropped(all) = {all[1].request}
    BY <1>1, <1>2 DEF Retained, Dropped
  <2>2. Len(q) >= 1 /\ Len(q) = CacheLimit
    BY <1>1, <1>2, GameConstants
  <2>3. /\ c \in Seq(EntryType) /\ Len(c) = Len(q)
        /\ \A i \in 1..Len(c) : c[i] = all[i + 1]
    BY <1>1, <2>1
  <2>4. QED
    BY <2>1, <2>2, <2>3
<1>3. CASE ~(Len(all) > CacheLimit)
  <2>1. c = all /\ Dropped(all) = {}
    BY <1>3 DEF Retained, Dropped
  <2>2. QED
    BY <1>1, <1>3, <2>1, GameConstants
<1>4. QED
  BY <1>2, <1>3

\* Retaining a result touches the author's cache and the forgotten requests.
LEMMA RetainFields ==
    ASSUME NEW g \in GameType, NEW r \in Requests, NEW ok \in BOOLEAN
    PROVE  LET h == Retain(g, r, ok)
               all == Append(g.cache[r.session], Entry(r, ok))
           IN /\ h.version = g.version /\ h.applied = g.applied
              /\ h.humans = g.humans /\ h.publication = g.publication
              /\ h.paused = g.paused /\ h.failed = g.failed /\ h.over = g.over
              /\ h.cache[r.session] = Retained(all)
              /\ \A s \in Sessions \ {r.session} : h.cache[s] = g.cache[s]
              /\ h.forgotten = g.forgotten \cup Dropped(all)
BY GameConstants DEF Retain, GameType

\* Retaining a result keeps the cache within its limit, leaves every other
\* result retained or forgotten, and retains the new one.
LEMMA RetainKeeps ==
    ASSUME NEW g \in GameType, CacheOK(g), NEW r \in Requests, NEW ok \in BOOLEAN
    PROVE  LET h == Retain(g, r, ok)
           IN /\ h \in GameType
              /\ \A s \in Sessions : Len(h.cache[s]) <= CacheLimit
              /\ RetainedIn(h, r, ok)
              /\ Grows(g, h)
<1> DEFINE h == Retain(g, r, ok)
           q == g.cache[r.session]
           e == Entry(r, ok)
           all == Append(q, e)
<1>1. /\ r.session \in Sessions /\ q \in Seq(EntryType) /\ e \in EntryType
      /\ Len(q) <= CacheLimit
  BY GameConstants DEF GameType, CacheOK, EntryType, Entry
<1>2. PICK d \in {0, 1} :
        /\ Retained(all) \in Seq(EntryType)
        /\ d <= Len(q)
        /\ Len(Retained(all)) = Len(q) + 1 - d /\ Len(Retained(all)) <= CacheLimit
        /\ \A i \in 1..Len(Retained(all)) : Retained(all)[i] = all[i + d]
        /\ Dropped(all) = IF d = 1 THEN {all[1].request} ELSE {}
  BY <1>1, RetainedShift
<1>3. /\ all \in Seq(EntryType) /\ Len(all) = Len(q) + 1 /\ all[Len(q) + 1] = e
      /\ \A i \in 1..Len(q) : all[i] = q[i]
      /\ Len(q) \in Nat
  BY <1>1
<1>4. h \in GameType
  <2>1. Dropped(all) \subseteq Requests
    <3>1. all[1] \in EntryType
      BY <1>3
    <3>2. QED
      BY <3>1, <1>2 DEF EntryType
  <2>2. g.forgotten \cup Dropped(all) \in SUBSET Requests
    BY <2>1 DEF GameType
  <2>3. [g.cache EXCEPT ![r.session] = Retained(all)] \in [Sessions -> Seq(EntryType)]
    BY <1>1, <1>2 DEF GameType
  <2>4. h = [g EXCEPT !.cache = [g.cache EXCEPT ![r.session] = Retained(all)],
                      !.forgotten = g.forgotten \cup Dropped(all)]
    BY DEF Retain
  <2>5. QED
    BY <2>2, <2>3, <2>4 DEF GameType
<1>5. \A s \in Sessions : Len(h.cache[s]) <= CacheLimit
  <2>1. /\ h.cache[r.session] = Retained(all)
        /\ \A s \in Sessions \ {r.session} : h.cache[s] = g.cache[s]
    BY RetainFields
  <2>2. Len(Retained(all)) <= CacheLimit
    BY <1>2
  <2>3. \A s \in Sessions : Len(g.cache[s]) <= CacheLimit
    BY DEF CacheOK
  <2> HIDE DEF h, all
  <2>4. QED
    BY <2>1, <2>2, <2>3
<1>6. RetainedIn(h, r, ok)
  <2>0. h.cache[r.session] = Retained(all)
    BY RetainFields
  <2>1. Len(q) + 1 - d \in 1..Len(h.cache[r.session])
    BY <1>2, <1>3, <2>0
  <2>2. h.cache[r.session][Len(q) + 1 - d] = e
    <3>1. (Len(q) + 1 - d) + d = Len(q) + 1
      BY <1>2, <1>3
    <3>2. QED
      BY <1>2, <1>3, <2>0, <2>1, <3>1
  <2>3. QED
    BY <2>1, <2>2 DEF RetainedIn, Entries
<1>7. ASSUME NEW x \in Requests, NEW b \in BOOLEAN, RetainedIn(g, x, b)
      PROVE  RetainedIn(h, x, b)
  <2>1. CASE x \in g.forgotten \/ x.session # r.session
    BY <1>7, <2>1, RetainFields, GameConstants DEF RetainedIn, Entries
  <2>2. CASE x.session = r.session /\ Entry(x, b) \in Entries(g, x.session)
    <3>1. PICK i \in 1..Len(q) : q[i] = Entry(x, b)
      BY <2>2 DEF Entries
    <3>2. CASE i - d >= 1
      <4>1. i - d \in 1..Len(h.cache[r.session])
        BY <1>2, <1>3, <3>1, <3>2, RetainFields
      <4>2. h.cache[r.session][i - d] = Entry(x, b)
        <5>1. /\ i - d \in 1..Len(Retained(all)) /\ (i - d) + d = i
              /\ h.cache[r.session] = Retained(all)
          BY <1>2, <1>3, <4>1, RetainFields
        <5>2. QED
          BY <1>2, <1>3, <3>1, <5>1
      <4>3. QED
        BY <2>2, <4>1, <4>2 DEF RetainedIn, Entries
    <3>3. CASE i - d < 1
      <4>1. i = 1 /\ d = 1
        BY <1>2, <1>3, <3>1, <3>3
      <4>2. Dropped(all) = {x}
        BY <1>2, <1>3, <3>1, <4>1 DEF Entry
      <4>3. QED
        BY <4>2, RetainFields DEF RetainedIn
    <3>4. QED
      BY <3>2, <3>3, <1>2
  <2>3. QED
    BY <1>7, <2>1, <2>2 DEF RetainedIn
<1>8. QED
  BY <1>4, <1>5, <1>6, <1>7, RetainFields DEF Grows

\* The cache stays true to the log: a fresh identifier joins it at most once.
LEMMA RetainCacheOK ==
    ASSUME NEW g \in GameType, CacheOK(g), NEW r \in Requests, NEW ok \in BOOLEAN,
           Cached(g, r) = {}, ok => AppliedIn(g, r)
    PROVE  CacheOK(Retain(g, r, ok))
<1> DEFINE h == Retain(g, r, ok)
           q == g.cache[r.session]
           e == Entry(r, ok)
           all == Append(q, e)
<1>1. /\ r.session \in Sessions /\ q \in Seq(EntryType) /\ e \in EntryType
      /\ e.request = r /\ (e.accepted <=> ok)
      /\ Len(q) <= CacheLimit /\ Len(q) \in Nat
  <2>1. r.session \in Sessions /\ q \in Seq(EntryType)
    BY GameConstants DEF GameType
  <2>2. e \in EntryType /\ e.request = r /\ (e.accepted <=> ok)
    BY DEF EntryType, Entry
  <2>3. QED
    BY <2>1, <2>2 DEF CacheOK
<1>2. PICK d \in {0, 1} :
        /\ Len(Retained(all)) = Len(q) + 1 - d
        /\ \A i \in 1..Len(Retained(all)) : Retained(all)[i] = all[i + d]
  BY <1>1, RetainedShift, ZenonT(40)
<1>3. /\ all[Len(q) + 1] = e
      /\ \A i \in 1..Len(q) : all[i] = q[i]
  BY <1>1
<1>4. \A i \in 1..Len(q) :
        /\ q[i].request.session = r.session
        /\ q[i].accepted => AppliedIn(g, q[i].request)
        /\ q[i].request.id # r.id
        /\ \A j \in 1..Len(q) : q[i].request.id = q[j].request.id => i = j
  BY <1>1 DEF CacheOK, Cached, Entries
<1>5. /\ \A s \in Sessions : Len(h.cache[s]) <= CacheLimit
      /\ h.applied = g.applied
      /\ h.cache[r.session] = Retained(all)
      /\ \A s \in Sessions \ {r.session} : h.cache[s] = g.cache[s]
  BY RetainKeeps, RetainFields
<1> HIDE DEF h, q, e, all
<1>6. ASSUME NEW i \in 1..Len(q) + 1
      PROVE  /\ all[i].request.session = r.session
             /\ all[i].accepted => AppliedIn(h, all[i].request)
             /\ \A j \in 1..Len(q) + 1 : all[i].request.id = all[j].request.id => i = j
  <2>1. i \in 1..Len(q) \/ i = Len(q) + 1
    BY <1>1
  <2>2. /\ all[i].request.session = r.session
        /\ all[i].accepted => AppliedIn(h, all[i].request)
    BY <1>1, <1>3, <1>4, <1>5, <2>1 DEF AppliedIn
  <2>3. ASSUME NEW j \in 1..Len(q) + 1, all[i].request.id = all[j].request.id
        PROVE  i = j
    <3>1. j \in 1..Len(q) \/ j = Len(q) + 1
      BY <1>1
    <3>2. QED
      BY <1>1, <1>3, <1>4, <2>1, <2>3, <3>1
  <2>4. QED
    BY <2>2, <2>3
<1>7. ASSUME NEW s \in Sessions
      PROVE  /\ \A i \in 1..Len(h.cache[s]) :
                  /\ h.cache[s][i].request.session = s
                  /\ h.cache[s][i].accepted => AppliedIn(h, h.cache[s][i].request)
             /\ \A i, j \in 1..Len(h.cache[s]) :
                  h.cache[s][i].request.id = h.cache[s][j].request.id => i = j
  <2>1. CASE s # r.session
    BY <1>5, <2>1 DEF CacheOK, AppliedIn
  <2>2. CASE s = r.session
    <3>1. h.cache[s] = Retained(all)
      BY <1>5, <2>2
    <3>2. ASSUME NEW i \in 1..Len(h.cache[s])
          PROVE  i + d \in 1..Len(q) + 1 /\ h.cache[s][i] = all[i + d]
      <4>1. i \in 1..Len(q) + 1 - d
        BY <1>2, <3>1
      <4>2. i + d \in 1..Len(q) + 1
        BY <1>1, <4>1
      <4>3. QED
        BY <1>2, <3>1, <4>2
    <3>3. ASSUME NEW i \in 1..Len(h.cache[s]), NEW j \in 1..Len(h.cache[s]),
                 h.cache[s][i].request.id = h.cache[s][j].request.id
          PROVE  i = j
      <4>1. /\ i + d \in 1..Len(q) + 1 /\ h.cache[s][i] = all[i + d]
            /\ j + d \in 1..Len(q) + 1 /\ h.cache[s][j] = all[j + d]
        BY <3>2
      <4>2. i + d = j + d
        BY <1>6, <3>3, <4>1
      <4>3. QED
        BY <4>2
    <3>4. ASSUME NEW i \in 1..Len(h.cache[s])
          PROVE  /\ h.cache[s][i].request.session = s
                 /\ h.cache[s][i].accepted => AppliedIn(h, h.cache[s][i].request)
      BY <1>6, <2>2, <3>2
    <3>5. QED
      BY <3>3, <3>4
  <2>3. QED
    BY <2>1, <2>2
<1>8. QED
  BY <1>5, <1>7 DEF CacheOK, h

\* If only the command being retained was not yet accounted for, all Human
\* transitions are retained or forgotten afterwards.
LEMMA RetainAppliedOK ==
    ASSUME NEW g \in GameType, CacheOK(g), NEW r \in Requests, NEW ok \in BOOLEAN,
           \A p \in g.applied : p.request # ServerAi =>
                RetainedIn(g, p.request, TRUE) \/ (ok /\ p.request = r)
    PROVE  AppliedOK(Retain(g, r, ok))
<1> DEFINE h == Retain(g, r, ok)
<1>1. h.applied = g.applied /\ RetainedIn(h, r, ok) /\ Grows(g, h)
  BY RetainFields, RetainKeeps
<1> HIDE DEF h
<1>2. SUFFICES ASSUME NEW p \in g.applied, p.request # ServerAi
               PROVE  RetainedIn(h, p.request, TRUE)
  BY <1>1 DEF AppliedOK, h
<1>3. p.request \in Requests
  BY <1>2 DEF GameType
<1>4. CASE RetainedIn(g, p.request, TRUE)
  BY <1>1, <1>3, <1>4 DEF Grows
<1>5. CASE ok /\ p.request = r
  <2>1. ok = TRUE
    BY <1>5
  <2>2. QED
    BY <1>1, <1>5, <2>1
<1>6. QED
  BY <1>2, <1>4, <1>5

-----------------------------------------------------------------------------
(* Transitions and other changes of a game.                                *)

\* Answers stay true to a game that only grows.
LEMMA GrowsAnswers ==
    ASSUME NEW g, NEW h, NEW given \in SUBSET AnswerType, AnswersOK(g, given), Grows(g, h)
    PROVE  AnswersOK(h, given)
<1>1. SUFFICES ASSUME NEW a \in given
               PROVE  /\ a.answer = "accepted" => AppliedIn(h, a.request)
                      /\ RetainedIn(h, a.request, a.answer = "accepted")
  BY DEF AnswersOK
<1>2. a.request \in Requests /\ (a.answer = "accepted") \in BOOLEAN
  BY DEF AnswerType
<1>3. a.answer = "accepted" => AppliedIn(h, a.request)
  BY DEF AnswersOK, Grows, AppliedIn
<1>4. RetainedIn(h, a.request, a.answer = "accepted")
  BY <1>2 DEF AnswersOK, Grows
<1>5. QED
  BY <1>3, <1>4

\* Presence, failure, the end of the game and publication leave the ledger.
LEMMA SameLedger ==
    ASSUME NEW g, NEW h, NEW given, GameOK(g, given),
           h.version = g.version, h.applied = g.applied,
           h.cache = g.cache, h.forgotten = g.forgotten
    PROVE  GameOK(h, given) /\ Grows(g, h)
<1>1. \A s : Entries(h, s) = Entries(g, s)
  BY DEF Entries
<1>2. \A r, ok : RetainedIn(h, r, ok) <=> RetainedIn(g, r, ok)
  BY <1>1 DEF RetainedIn
<1>3. \A r : AppliedIn(h, r) <=> AppliedIn(g, r)
  BY DEF AppliedIn
<1>4. LogOK(h) /\ CacheOK(h)
  BY <1>3 DEF GameOK, LogOK, CacheOK
<1>5. AppliedOK(h) /\ AnswersOK(h, given)
  BY <1>2, <1>3 DEF GameOK, AppliedOK, AnswersOK
<1>6. QED
  BY <1>2, <1>4, <1>5 DEF GameOK, Grows

\* A transition at the version its author names extends the log by one entry
\* and touches nothing else.
LEMMA TransitionOK ==
    ASSUME NEW g \in GameType, LogOK(g), CacheOK(g),
           NEW author \in Requests \cup {ServerAi},
           author # ServerAi => author.expected = g.version
    PROVE  LET h == Transition(g, author)
           IN /\ h \in GameType
              /\ h.version = g.version + 1
              /\ h.applied = g.applied \cup {[request |-> author, at |-> g.version + 1]}
              /\ h.cache = g.cache /\ h.forgotten = g.forgotten
              /\ h.humans = g.humans /\ h.publication = g.publication
              /\ h.paused = g.paused /\ h.failed = g.failed /\ h.over = g.over
              /\ LogOK(h) /\ CacheOK(h) /\ Grows(g, h)
              /\ author # ServerAi => AppliedIn(h, author)
<1> DEFINE h == Transition(g, author)
           new == [request |-> author, at |-> g.version + 1]
<1>1. g.version \in Nat /\ new \in [request : Requests \cup {ServerAi}, at : Nat]
  BY DEF GameType
<1>2. /\ h.version = g.version + 1 /\ h.applied = g.applied \cup {new}
      /\ h.cache = g.cache /\ h.forgotten = g.forgotten
      /\ h.humans = g.humans /\ h.publication = g.publication
      /\ h.paused = g.paused /\ h.failed = g.failed /\ h.over = g.over
  BY DEF Transition, GameType
<1>3. h \in GameType
  BY <1>1 DEF Transition, GameType
<1> HIDE DEF h
<1>4. LogOK(h)
  <2>1. \A p \in g.applied : p.at \in 1..g.version /\ p.at \in Nat
    BY DEF LogOK
  <2>2. \A p \in h.applied : p \in g.applied \/ p = new
    BY <1>2
  <2>3. \A p \in h.applied :
          /\ p.at \in 1..h.version
          /\ p.request # ServerAi => p.at = p.request.expected + 1
    BY <1>1, <1>2, <2>1, <2>2 DEF LogOK
  <2>4. \A p, q \in h.applied : p.at = q.at => p = q
    BY <1>1, <1>2, <2>1, <2>2 DEF LogOK
  <2>5. QED
    BY <2>3, <2>4 DEF LogOK
<1>5. \A s : Entries(h, s) = Entries(g, s)
  BY <1>2 DEF Entries
<1>6. Grows(g, h)
  BY <1>2, <1>5 DEF Grows, RetainedIn
<1>7. CacheOK(h)
  BY <1>2 DEF CacheOK, AppliedIn
<1>8. AppliedIn(h, author)
  <2>1. new \in h.applied /\ new.request = author
    BY <1>2
  <2>2. QED
    BY <2>1 DEF AppliedIn
<1>9. QED
  BY <1>2, <1>3, <1>4, <1>6, <1>7, <1>8 DEF h

\* Publishing raises the publication revision alone.
LEMMA PublishFields ==
    ASSUME NEW g \in GameType
    PROVE  LET h == Publish(g)
           IN /\ h \in GameType
              /\ h.version = g.version /\ h.applied = g.applied
              /\ h.cache = g.cache /\ h.forgotten = g.forgotten
              /\ h.publication = g.publication + 1
BY DEF Publish, GameType

\* An operation is a record with the fields it was given, and never None.
LEMMA TaskFields ==
    ASSUME NEW stage \in {"save", "choose"}, NEW request \in Requests \cup {None},
           NEW advance \in BOOLEAN
    PROVE  LET t == Task(stage, request, advance)
           IN /\ t \in TaskType /\ t # None
              /\ t.stage = stage /\ t.request = request /\ t.advance = advance
<1>1. Task(stage, request, advance) \in TaskType
  BY DEF Task, TaskType
<1>2. \A t \in TaskType : t # None
  BY GameConstants DEF TaskType
<1>3. QED
  BY <1>1, <1>2 DEF Task

-----------------------------------------------------------------------------
(* The inductive invariant: the initial state, then one lemma per action.  *)

\* A new game satisfies the invariant.
LEMMA Initially == Init => Inductive
<1> SUFFICES ASSUME Init PROVE Inductive
  OBVIOUS
<1>1. NewGame \in GameType
  BY DEF NewGame, GameType
<1>2. /\ NewGame.version = 0 /\ NewGame.applied = {} /\ NewGame.publication = 0
      /\ NewGame.cache = [s \in Sessions |-> <<>>]
  BY DEF NewGame
<1>3. GameOK(NewGame, {})
  BY <1>2, GameConstants DEF GameOK, LogOK, CacheOK, AppliedOK, AnswersOK
<1>4. TypeOK
  BY <1>1 DEF Init, TypeOK
<1>5. TaskOK /\ StepOK /\ PublishedOK
  BY <1>2 DEF Init, TaskOK, StepOK, PublishedOK, NotOlder
<1>6. QED
  BY <1>3, <1>4, <1>5 DEF Init, Inductive

\* An operation that changes the idle game and awaits its commit.
LEMMA AwaitCommit ==
    ASSUME Inductive, game = disk, up', TypeOK',
           UNCHANGED <<disk, answers, shown>>,
           GameOK(game', answers), StepOK',
           NotOlder(disk.publication, disk.version, game'.publication, game'.version),
           task' # None, task'.stage = "save",
           task'.request # None =>
              /\ RetainedIn(game', task'.request, task'.advance)
              /\ task'.advance => AppliedIn(game', task'.request)
    PROVE  Inductive'
<1>1. GameOK(game, answers)' /\ GameOK(disk, answers)'
  BY DEF Inductive
<1>2. TaskOK'
  BY DEF TaskOK
<1>3. PublishedOK'
  BY DEF Inductive, PublishedOK, NotOlder
<1>4. QED
  BY <1>1, <1>2, <1>3 DEF Inductive

\* An accepted command: one transition, retained, awaiting its commit.
LEMMA AcceptedStep ==
    ASSUME Inductive, NEW request \in Requests, ExecuteAccepted(request)
    PROVE  Inductive'
<1>0. /\ Executable(request) /\ request.expected = game.version
      /\ task' = Task("save", request, TRUE)
      /\ UNCHANGED <<up, disk, latch, answers, shown, halts>>
  BY DEF ExecuteAccepted
<1>1. PICK over \in BOOLEAN :
        game' = Publish(Retain([Transition(game, request) EXCEPT !.over = over], request, TRUE))
  BY DEF ExecuteAccepted
<1> DEFINE moved == Transition(game, request)
           ended == [moved EXCEPT !.over = over]
           kept == Retain(ended, request, TRUE)
<1>2. /\ game = disk /\ game \in GameType /\ GameOK(game, answers)
      /\ answers \in SUBSET AnswerType /\ task = None /\ up
      /\ Cached(game, request) = {}
  BY <1>0 DEF Executable, Ready, Inductive, TypeOK, TaskOK, AnswerType
<1>3. request # ServerAi /\ request # None /\ request.session \in Sessions
  BY GameConstants
<1>4. /\ moved \in GameType /\ moved.version = game.version + 1
      /\ moved.applied = game.applied \cup {[request |-> request, at |-> game.version + 1]}
      /\ moved.cache = game.cache /\ moved.forgotten = game.forgotten
      /\ moved.publication = game.publication
      /\ LogOK(moved) /\ CacheOK(moved) /\ Grows(game, moved) /\ AppliedIn(moved, request)
  BY <1>0, <1>2, <1>3, TransitionOK DEF GameOK
<1>5. /\ ended \in GameType /\ ended.version = moved.version
      /\ ended.applied = moved.applied /\ ended.cache = moved.cache
      /\ ended.forgotten = moved.forgotten /\ ended.publication = moved.publication
  BY <1>4 DEF GameType
<1> HIDE DEF moved, ended, kept
<1>6. LogOK(ended) /\ CacheOK(ended) /\ Grows(game, ended) /\ AppliedIn(ended, request)
  <2>1. \A s : Entries(ended, s) = Entries(moved, s)
    BY <1>5 DEF Entries
  <2>2. QED
    BY <1>4, <1>5, <2>1 DEF LogOK, CacheOK, Grows, AppliedIn, RetainedIn
<1>7. /\ kept \in GameType /\ CacheOK(kept) /\ AppliedOK(kept) /\ Grows(ended, kept)
      /\ RetainedIn(kept, request, TRUE)
      /\ kept.version = ended.version /\ kept.applied = ended.applied
      /\ kept.publication = ended.publication
  <2>1. Cached(ended, request) = {}
    BY <1>2, <1>4, <1>5 DEF Cached, Entries
  <2>2. ASSUME NEW p \in ended.applied, p.request # ServerAi
        PROVE  RetainedIn(ended, p.request, TRUE) \/ (TRUE /\ p.request = request)
    <3>1. p.request = request \/ p \in game.applied
      BY <1>4, <1>5
    <3>2. p \in game.applied => p.request \in Requests /\ RetainedIn(game, p.request, TRUE)
      BY <1>2, <2>2 DEF GameOK, AppliedOK, GameType
    <3>3. QED
      BY <1>6, <3>1, <3>2 DEF Grows
  <2>3. CacheOK(kept)
    BY <1>5, <1>6, <2>1, RetainCacheOK DEF kept
  <2>4. AppliedOK(kept)
    BY <1>5, <1>6, <2>2, RetainAppliedOK DEF kept
  <2>5. QED
    BY <1>5, <1>6, <2>3, <2>4, RetainFields, RetainKeeps DEF kept
<1>8. GameOK(kept, answers)
  <2>1. LogOK(kept)
    BY <1>6, <1>7 DEF LogOK
  <2>2. Grows(game, kept)
    BY <1>6, <1>7 DEF Grows
  <2>3. AnswersOK(kept, answers)
    BY <1>2, <2>2, GrowsAnswers DEF GameOK
  <2>4. QED
    BY <1>7, <2>1, <2>3 DEF GameOK
<1>9. /\ game' \in GameType /\ GameOK(game', answers) /\ Grows(kept, game')
      /\ game'.version = disk.version + 1 /\ game'.publication = disk.publication + 1
      /\ game'.applied = disk.applied \cup {[request |-> request, at |-> disk.version + 1]}
  <2>1. game' = Publish(kept)
    BY <1>1 DEF kept, ended, moved
  <2>2. /\ game' \in GameType /\ game'.version = kept.version
        /\ game'.applied = kept.applied /\ game'.cache = kept.cache
        /\ game'.forgotten = kept.forgotten
        /\ game'.publication = kept.publication + 1
    BY <1>7, <2>1, PublishFields
  <2>3. GameOK(game', answers) /\ Grows(kept, game')
    BY <1>8, <2>2, SameLedger
  <2>4. QED
    BY <1>2, <1>4, <1>5, <1>7, <2>2, <2>3
<1>10. /\ task' \in TaskType /\ task' # None /\ task'.stage = "save"
       /\ task'.request = request /\ task'.advance = TRUE
  BY <1>0, TaskFields
<1>11. TypeOK'
  BY <1>0, <1>2, <1>9, <1>10 DEF TypeOK, Inductive
<1>12. StepOK'
  BY <1>0, <1>2, <1>3, <1>9 DEF StepOK
<1>13. RetainedIn(game', request, TRUE) /\ AppliedIn(game', request)
  BY <1>6, <1>7, <1>9 DEF Grows, AppliedIn
<1>14. NotOlder(disk.publication, disk.version, game'.publication, game'.version)
  BY <1>2, <1>9 DEF NotOlder, GameType
<1>15. QED
  BY <1>0, <1>2, <1>9, <1>10, <1>11, <1>12, <1>13, <1>14, AwaitCommit

\* A rejected command: its verdict is retained, the log is untouched.
LEMMA RejectedStep ==
    ASSUME Inductive, NEW request \in Requests, ExecuteRejected(request)
    PROVE  Inductive'
<1>1. /\ game = disk /\ game \in GameType /\ GameOK(game, answers)
      /\ answers \in SUBSET AnswerType /\ up
      /\ Cached(game, request) = {}
      /\ game' = Retain(game, request, FALSE)
      /\ task' = Task("save", request, FALSE)
      /\ UNCHANGED <<up, disk, latch, answers, shown, halts>>
  BY DEF ExecuteRejected, Executable, Ready, Inductive, TypeOK, TaskOK, AnswerType
<1>2. /\ game' \in GameType /\ Grows(game, game') /\ RetainedIn(game', request, FALSE)
      /\ game'.version = game.version /\ game'.applied = game.applied
      /\ game'.publication = game.publication
  BY <1>1, RetainKeeps, RetainFields DEF GameOK
<1>3. GameOK(game', answers)
  <2>1. CacheOK(game')
    BY <1>1, RetainCacheOK DEF GameOK
  <2>2. \A p \in game.applied : p.request # ServerAi =>
            RetainedIn(game, p.request, TRUE) \/ (FALSE /\ p.request = request)
    BY <1>1 DEF GameOK, AppliedOK
  <2>3. AppliedOK(game')
    BY <1>1, <2>2, RetainAppliedOK DEF GameOK
  <2>4. LogOK(game')
    BY <1>1, <1>2 DEF GameOK, LogOK
  <2>5. AnswersOK(game', answers)
    BY <1>1, <1>2, GrowsAnswers DEF GameOK
  <2>6. QED
    BY <2>1, <2>3, <2>4, <2>5 DEF GameOK
<1>4. /\ task' \in TaskType /\ task' # None /\ task'.stage = "save"
      /\ task'.request = request /\ task'.advance = FALSE
  BY <1>1, TaskFields
<1>5. TypeOK' /\ StepOK'
  BY <1>1, <1>2, <1>4 DEF TypeOK, StepOK, Inductive
<1>6. NotOlder(disk.publication, disk.version, game'.publication, game'.version)
  <2>1. /\ game.publication \in Nat /\ game.version \in Nat
        /\ disk.publication = game.publication /\ disk.version = game.version
    BY <1>1 DEF GameType
  <2>2. QED
    BY <1>2, <2>1 DEF NotOlder
<1>7. QED
  BY <1>1, <1>2, <1>3, <1>4, <1>5, <1>6, AwaitCommit

\* A move of an AI seat, made for the operation that holds the queue.
LEMMA AiMoveStep ==
    ASSUME Inductive, AiMove
    PROVE  Inductive'
<1>1. /\ game = disk /\ game \in GameType /\ GameOK(game, answers)
      /\ answers \in SUBSET AnswerType
      /\ up /\ task \in TaskType /\ task.stage = "choose" /\ task.advance
      /\ task.request # None =>
            /\ RetainedIn(game, task.request, task.advance)
            /\ task.advance => AppliedIn(game, task.request)
      /\ task' = [task EXCEPT !.stage = "save"]
      /\ UNCHANGED <<up, disk, latch, answers, shown, halts>>
  BY DEF AiMove, MayChoose, Inductive, TypeOK, TaskOK, AnswerType
<1>2. PICK over \in BOOLEAN :
        game' = Publish([Transition(game, ServerAi) EXCEPT !.over = over])
  BY DEF AiMove
<1> DEFINE moved == Transition(game, ServerAi)
           ended == [moved EXCEPT !.over = over]
<1>3. /\ moved \in GameType /\ moved.version = game.version + 1
      /\ moved.applied = game.applied \cup {[request |-> ServerAi, at |-> game.version + 1]}
      /\ moved.cache = game.cache /\ moved.forgotten = game.forgotten
      /\ moved.publication = game.publication
      /\ LogOK(moved) /\ CacheOK(moved) /\ Grows(game, moved)
  BY <1>1, TransitionOK DEF GameOK
<1>4. /\ ended \in GameType /\ ended.version = moved.version
      /\ ended.applied = moved.applied /\ ended.cache = moved.cache
      /\ ended.forgotten = moved.forgotten /\ ended.publication = moved.publication
  BY <1>3 DEF GameType
<1>5. game' = Publish(ended)
  BY <1>2
<1> HIDE DEF moved, ended
<1>6. GameOK(moved, answers)
  <2>1. AppliedOK(moved)
    <3>1. \A p \in game.applied : p.request # ServerAi =>
                p.request \in Requests /\ RetainedIn(game, p.request, TRUE)
      BY <1>1 DEF GameOK, AppliedOK, GameType
    <3>2. ASSUME NEW p \in moved.applied, p.request # ServerAi
          PROVE  RetainedIn(moved, p.request, TRUE)
      <4>1. p \in game.applied
        BY <1>3, <3>2
      <4>2. QED
        BY <1>3, <3>1, <3>2, <4>1 DEF Grows
    <3>3. QED
      BY <3>2 DEF AppliedOK
  <2>2. AnswersOK(moved, answers)
    BY <1>1, <1>3, GrowsAnswers DEF GameOK
  <2>3. QED
    BY <1>3, <2>1, <2>2 DEF GameOK
<1>7. GameOK(ended, answers) /\ Grows(moved, ended)
  BY <1>4, <1>6, SameLedger
<1>8. /\ game' \in GameType /\ game'.version = ended.version
      /\ game'.applied = ended.applied /\ game'.cache = ended.cache
      /\ game'.forgotten = ended.forgotten
      /\ game'.publication = ended.publication + 1
  BY <1>4, <1>5, PublishFields
<1>9. GameOK(game', answers) /\ Grows(ended, game')
  BY <1>7, <1>8, SameLedger
<1>10. /\ task' \in TaskType /\ task' # None /\ task'.stage = "save"
       /\ task'.request = task.request /\ task'.advance = task.advance
  <2>1. /\ task' \in TaskType /\ task'.stage = "save"
        /\ task'.request = task.request /\ task'.advance = task.advance
    BY <1>1 DEF TaskType
  <2>2. QED
    BY <2>1, GameConstants DEF TaskType
<1>11. task'.request # None =>
         /\ RetainedIn(game', task'.request, task'.advance)
         /\ task'.advance => AppliedIn(game', task'.request)
  BY <1>1, <1>3, <1>7, <1>9, <1>10 DEF Grows, AppliedIn, TaskType
<1>12. TypeOK'
  BY <1>1, <1>8, <1>10 DEF TypeOK, Inductive
<1>13. StepOK'
  BY <1>1, <1>3, <1>4, <1>8 DEF StepOK
<1>14. NotOlder(disk.publication, disk.version, game'.publication, game'.version)
  BY <1>1, <1>3, <1>4, <1>8 DEF NotOlder, GameType
<1>15. QED
  BY <1>1, <1>9, <1>10, <1>11, <1>12, <1>13, <1>14, AwaitCommit

\* A published change that leaves the ledger of an idle game alone.
LEMMA EditStep ==
    ASSUME Inductive, game = disk, up' = TRUE, latch' \in BOOLEAN, halts' \in Nat,
           UNCHANGED <<disk, answers, shown>>,
           NEW g \in GameType, game' = Publish(g),
           g.version = game.version, g.applied = game.applied, g.cache = game.cache,
           g.forgotten = game.forgotten, g.publication = game.publication,
           task' \in TaskType, task'.stage = "save",
           task'.request # None =>
              /\ RetainedIn(game, task'.request, task'.advance)
              /\ task'.advance => AppliedIn(game, task'.request)
    PROVE  Inductive'
<1>1. game \in GameType /\ GameOK(game, answers)
  BY DEF Inductive, TypeOK
<1>2. /\ game' \in GameType /\ game'.version = game.version
      /\ game'.applied = game.applied /\ game'.cache = game.cache
      /\ game'.forgotten = game.forgotten
      /\ game'.publication = game.publication + 1
  BY PublishFields
<1>3. GameOK(game', answers) /\ Grows(game, game')
  BY <1>1, <1>2, SameLedger
<1>4. task' # None
  BY GameConstants DEF TaskType
<1>5. task'.request # None =>
         /\ RetainedIn(game', task'.request, task'.advance)
         /\ task'.advance => AppliedIn(game', task'.request)
  BY <1>3 DEF Grows, AppliedIn, TaskType
<1>6. TypeOK'
  BY <1>2 DEF TypeOK, Inductive
<1>7. StepOK'
  BY <1>2 DEF StepOK
<1>8. NotOlder(disk.publication, disk.version, game'.publication, game'.version)
  <2>1. game.publication \in Nat /\ game.version \in Nat
    BY <1>1 DEF GameType
  <2>2. QED
    BY <1>2, <2>1 DEF NotOlder
<1>9. QED
  BY <1>3, <1>4, <1>5, <1>6, <1>7, <1>8, AwaitCommit

\* A failed AI game is published and saved with its log unchanged.
LEMMA AiFailStep ==
    ASSUME Inductive, AiFail
    PROVE  Inductive'
<1> DEFINE g == [game EXCEPT !.failed = TRUE]
<1>1. /\ game = disk /\ game \in GameType /\ latch \in BOOLEAN /\ halts \in Nat
      /\ up = TRUE /\ task \in TaskType
      /\ task.request # None =>
            /\ RetainedIn(game, task.request, task.advance)
            /\ task.advance => AppliedIn(game, task.request)
      /\ game' = Publish(g)
      /\ task' = [task EXCEPT !.stage = "save"]
      /\ UNCHANGED <<up, disk, latch, answers, shown, halts>>
  BY DEF AiFail, MayChoose, Inductive, TypeOK, TaskOK
<1>2. /\ g \in GameType
      /\ g.version = game.version /\ g.applied = game.applied /\ g.cache = game.cache
      /\ g.forgotten = game.forgotten /\ g.publication = game.publication
  BY <1>1 DEF GameType
<1>3. /\ task' \in TaskType /\ task'.stage = "save"
      /\ task'.request = task.request /\ task'.advance = task.advance
  BY <1>1 DEF TaskType
<1> HIDE DEF g
<1>4. QED
  BY <1>1, <1>2, <1>3, EditStep

\* A presence list, changed or not, leaves commands and results alone.
LEMMA PresenceStep ==
    ASSUME Inductive, NEW paused \in BOOLEAN, NEW changed \in BOOLEAN,
           SetPresence(paused, changed)
    PROVE  Inductive'
<1>1. /\ game = disk /\ game \in GameType /\ halts \in Nat /\ task = None
      /\ up = TRUE /\ latch' = FALSE
      /\ UNCHANGED <<up, disk, answers, shown, halts>>
  BY DEF SetPresence, Ready, Inductive, TypeOK, TaskOK
<1>2. CASE changed
  <2> DEFINE g == [game EXCEPT !.paused = paused]
  <2>1. game' = Publish(g) /\ task' = Task("save", None, FALSE)
    BY <1>2 DEF SetPresence
  <2>2. /\ g \in GameType
        /\ g.version = game.version /\ g.applied = game.applied /\ g.cache = game.cache
        /\ g.forgotten = game.forgotten /\ g.publication = game.publication
    BY <1>1 DEF GameType
  <2>3. task' \in TaskType /\ task'.stage = "save" /\ task'.request = None
    BY <2>1, TaskFields
  <2> HIDE DEF g
  <2>4. QED
    BY <1>1, <2>1, <2>2, <2>3, EditStep
<1>3. CASE ~changed
  <2>1. UNCHANGED <<game, task>>
    BY <1>3 DEF SetPresence
  <2>2. QED
    BY <1>1, <2>1 DEF Inductive, TypeOK, TaskOK, StepOK, PublishedOK
<1>4. QED
  BY <1>2, <1>3

\* Replacing a Human forgets the results of that session and no transition.
LEMMA ReplaceStep ==
    ASSUME Inductive, NEW s \in Sessions, NEW paused \in BOOLEAN, ReplaceHuman(s, paused)
    PROVE  Inductive'
<1> DEFINE g == [game EXCEPT !.humans = @ \ {s}, !.cache[s] = <<>>,
                     !.forgotten = @ \cup {e.request : e \in Entries(game, s)},
                     !.paused = paused]
<1>1. /\ game = disk /\ game \in GameType /\ GameOK(game, answers) /\ halts \in Nat
      /\ answers \in SUBSET AnswerType /\ up = TRUE /\ latch' = FALSE
      /\ game' = Publish(g) /\ task' = Task("save", None, TRUE)
      /\ UNCHANGED <<up, disk, answers, shown, halts>>
  BY DEF ReplaceHuman, Ready, Inductive, TypeOK, TaskOK, AnswerType
<1>2. {e.request : e \in Entries(game, s)} \subseteq Requests
  <2>1. \A i \in 1..Len(game.cache[s]) : game.cache[s][i] \in EntryType
    BY <1>1 DEF GameType
  <2>2. QED
    BY <2>1 DEF Entries, EntryType
<1>3. /\ g.version = game.version /\ g.applied = game.applied
      /\ g.publication = game.publication
      /\ g.forgotten = game.forgotten \cup {e.request : e \in Entries(game, s)}
      /\ g.cache = [game.cache EXCEPT ![s] = <<>>]
  BY <1>1 DEF GameType
<1>4. g \in GameType
  <2> DEFINE humans == game.humans \ {s}
             cache == [game.cache EXCEPT ![s] = <<>>]
             forgotten == game.forgotten \cup {e.request : e \in Entries(game, s)}
  <2>1. /\ humans \in SUBSET Sessions /\ cache \in [Sessions -> Seq(EntryType)]
        /\ forgotten \in SUBSET Requests
    BY <1>1, <1>2 DEF GameType
  <2>2. g = [game EXCEPT !.humans = humans, !.cache = cache,
                         !.forgotten = forgotten, !.paused = paused]
    OBVIOUS
  <2> HIDE DEF humans, cache, forgotten
  <2>3. QED
    BY <1>1, <2>1, <2>2, ZenonT(40) DEF GameType
<1> HIDE DEF g
<1>5. /\ g.cache[s] = <<>>
      /\ \A z \in Sessions \ {s} : g.cache[z] = game.cache[z]
  BY <1>1, <1>3 DEF GameType
<1>6. Grows(game, g)
  <2>1. SUFFICES ASSUME NEW r \in Requests, NEW ok \in BOOLEAN, RetainedIn(game, r, ok)
                 PROVE  RetainedIn(g, r, ok)
    BY <1>3 DEF Grows
  <2>2. CASE r \in game.forgotten
    BY <1>3, <2>2 DEF RetainedIn
  <2>3. CASE r.session = s /\ Entry(r, ok) \in Entries(game, s)
    <3>1. Entry(r, ok).request = r
      BY DEF Entry
    <3>2. QED
      BY <1>3, <2>3, <3>1 DEF RetainedIn
  <2>4. CASE r.session # s /\ Entry(r, ok) \in Entries(game, r.session)
    BY <1>5, <2>4, GameConstants DEF RetainedIn, Entries
  <2>5. QED
    BY <2>1, <2>2, <2>3, <2>4 DEF RetainedIn
<1>7. GameOK(g, answers)
  <2>1. LogOK(g)
    BY <1>1, <1>3 DEF GameOK, LogOK
  <2>2. CacheOK(g)
    <3>1. \A r : AppliedIn(g, r) <=> AppliedIn(game, r)
      BY <1>3 DEF AppliedIn
    <3>2. Len(g.cache[s]) = 0 /\ 1..Len(g.cache[s]) = {} /\ 0 <= CacheLimit
      BY <1>5, GameConstants
    <3>3. ASSUME NEW z \in Sessions
          PROVE  /\ Len(g.cache[z]) <= CacheLimit
                 /\ \A i \in 1..Len(g.cache[z]) :
                      /\ g.cache[z][i].request.session = z
                      /\ g.cache[z][i].accepted => AppliedIn(g, g.cache[z][i].request)
                 /\ \A i, j \in 1..Len(g.cache[z]) :
                      g.cache[z][i].request.id = g.cache[z][j].request.id => i = j
      <4>1. CASE z = s
        BY <3>2, <4>1
      <4>2. CASE z # s
        BY <1>1, <1>5, <3>1, <4>2 DEF GameOK, CacheOK
      <4>3. QED
        BY <4>1, <4>2
    <3>4. QED
      BY <3>3 DEF CacheOK
  <2>3. AppliedOK(g)
    <3>1. \A p \in game.applied : p.request # ServerAi =>
                p.request \in Requests /\ RetainedIn(game, p.request, TRUE)
      BY <1>1 DEF GameOK, AppliedOK, GameType
    <3>2. QED
      BY <1>3, <1>6, <3>1 DEF AppliedOK, Grows
  <2>4. AnswersOK(g, answers)
    BY <1>1, <1>6, GrowsAnswers DEF GameOK
  <2>5. QED
    BY <2>1, <2>2, <2>3, <2>4 DEF GameOK
<1>8. /\ game' \in GameType /\ game'.version = g.version
      /\ game'.applied = g.applied /\ game'.cache = g.cache
      /\ game'.forgotten = g.forgotten
      /\ game'.publication = g.publication + 1
  BY <1>1, <1>4, PublishFields
<1>9. GameOK(game', answers)
  BY <1>7, <1>8, SameLedger
<1>10. task' \in TaskType /\ task' # None /\ task'.stage = "save" /\ task'.request = None
  BY <1>1, TaskFields
<1>11. TypeOK' /\ StepOK'
  BY <1>1, <1>3, <1>8, <1>10 DEF TypeOK, StepOK, Inductive
<1>12. NotOlder(disk.publication, disk.version, game'.publication, game'.version)
  <2>1. /\ game.publication \in Nat /\ game.version \in Nat
        /\ disk.publication = game.publication /\ disk.version = game.version
    BY <1>1 DEF GameType
  <2>2. QED
    BY <1>3, <1>8, <2>1 DEF NotOlder
<1>13. QED
  BY <1>1, <1>9, <1>10, <1>11, <1>12, AwaitCommit

\* The commit makes the game durable, and only then answers a rejection.
LEMMA CommitStep ==
    ASSUME Inductive, SaveOK
    PROVE  Inductive'
<1>1. /\ disk' = game /\ game' = game /\ up /\ task \in TaskType
      /\ game \in GameType /\ GameOK(game, answers)
      /\ task.request # None =>
            /\ RetainedIn(game, task.request, task.advance)
            /\ task.advance => AppliedIn(game, task.request)
      /\ shown' = [publication |-> game.publication, version |-> game.version]
      /\ UNCHANGED <<up, latch, halts>>
  BY DEF SaveOK, Inductive, TypeOK, TaskOK
<1>2. /\ answers' \subseteq AnswerType
      /\ AnswersOK(game, answers')
      /\ task' \in TaskType \cup {None}
      /\ task' # None => task' = [task EXCEPT !.stage = "choose"] /\ task.advance
  <2>1. CASE task.advance
    <3>1. task' = [task EXCEPT !.stage = "choose"] /\ answers' = answers
      BY <2>1 DEF SaveOK
    <3>2. QED
      BY <1>1, <2>1, <3>1 DEF TaskType, Inductive, TypeOK, GameOK, AnswerType
  <2>2. CASE ~task.advance /\ task.request = None
    BY <1>1, <2>2 DEF SaveOK, Inductive, TypeOK, GameOK, AnswerType
  <2>3. CASE ~task.advance /\ task.request # None
    <3> DEFINE a == [request |-> task.request, answer |-> "rejected"]
    <3>1. task' = None /\ answers' = answers \cup {a}
      BY <2>3 DEF SaveOK
    <3>2. a \in AnswerType /\ RetainedIn(game, a.request, FALSE) /\ a.answer = "rejected"
      <4>1. task.request \in Requests /\ task.advance = FALSE
        BY <1>1, <2>3 DEF TaskType
      <4>2. QED
        BY <1>1, <2>3, <4>1 DEF AnswerType
    <3> HIDE DEF a
    <3>3. AnswersOK(game, answers)
      BY <1>1 DEF GameOK
    <3>4. ASSUME NEW b \in answers'
          PROVE  /\ b.answer = "accepted" => AppliedIn(game, b.request)
                 /\ RetainedIn(game, b.request, b.answer = "accepted")
      <4>1. CASE b \in answers
        BY <3>3, <4>1 DEF AnswersOK
      <4>2. CASE b = a
        <5>1. (b.answer = "accepted") = FALSE
          BY <3>2, <4>2
        <5>2. QED
          BY <3>2, <4>2, <5>1
      <4>3. QED
        BY <3>1, <4>1, <4>2
    <3>5. QED
      BY <3>1, <3>2, <3>4 DEF AnswersOK, Inductive, TypeOK, AnswerType
  <2>4. QED
    BY <2>1, <2>2, <2>3
<1>3. GameOK(game', answers') /\ GameOK(disk', answers')
  BY <1>1, <1>2 DEF GameOK
<1>4. TaskOK'
  <2>1. task' # None =>
          /\ task'.stage = "choose" /\ task'.advance = task.advance /\ task.advance
          /\ task'.request = task.request
    BY <1>1, <1>2 DEF TaskType
  <2>2. QED
    BY <1>1, <2>1 DEF TaskOK
<1>5. StepOK' /\ PublishedOK'
  BY <1>1 DEF StepOK, PublishedOK, NotOlder, GameType
<1>6. TypeOK'
  BY <1>1, <1>2 DEF TypeOK, Inductive, GameType, AnswerType
<1>7. QED
  BY <1>3, <1>4, <1>5, <1>6 DEF Inductive

\* A halt keeps either the committed game or the one being written, whole.
LEMMA HaltStep ==
    ASSUME Inductive, Halt
    PROVE  Inductive'
<1>1. /\ disk' = disk \/ disk' = game
      /\ game' = disk' /\ up' = FALSE /\ task' = None /\ halts' = halts + 1
      /\ UNCHANGED <<latch, answers, shown>>
  BY DEF Halt
<1>2. /\ game \in GameType /\ disk \in GameType /\ halts \in Nat
      /\ shown \in [publication : Nat, version : Nat]
  BY DEF Inductive, TypeOK
<1>3. TypeOK'
  <2>1. disk' \in GameType /\ game' \in GameType /\ halts' \in Nat
    BY <1>1, <1>2
  <2>2. up' \in BOOLEAN /\ task' \in TaskType \cup {None}
    BY <1>1
  <2>3. QED
    BY <1>1, <2>1, <2>2 DEF Inductive, TypeOK
<1>4. GameOK(game', answers') /\ GameOK(disk', answers')
  BY <1>1 DEF Inductive
<1>5. TaskOK' /\ StepOK'
  BY <1>1 DEF TaskOK, StepOK
<1>6. PublishedOK'
  BY <1>1, <1>2 DEF Inductive, PublishedOK, NotOlder, GameType
<1>7. QED
  BY <1>3, <1>4, <1>5, <1>6 DEF Inductive

\* A restart continues the durable game under the same answers.
LEMMA RecoverStep ==
    ASSUME Inductive, Recover
    PROVE  Inductive'
<1>1. /\ game = disk /\ game \in GameType /\ GameOK(game, answers) /\ halts \in Nat
      /\ up' = TRUE /\ latch' = FALSE /\ task' = Task("save", None, FALSE)
      /\ UNCHANGED <<disk, answers, shown, halts>>
  BY DEF Recover, Inductive, TypeOK, TaskOK
<1>2. task' \in TaskType /\ task' # None /\ task'.stage = "save" /\ task'.request = None
  BY <1>1, TaskFields
<1>3. CASE game' = disk
  <2>1. TypeOK' /\ StepOK'
    BY <1>1, <1>2, <1>3 DEF Inductive, TypeOK, StepOK
  <2>2. NotOlder(disk.publication, disk.version, game'.publication, game'.version)
    BY <1>1, <1>3 DEF NotOlder, GameType
  <2>3. QED
    BY <1>1, <1>2, <1>3, <2>1, <2>2, AwaitCommit
<1>4. CASE game' = Publish([disk EXCEPT !.paused = TRUE])
  <2> DEFINE g == [disk EXCEPT !.paused = TRUE]
  <2>1. /\ g \in GameType
        /\ g.version = game.version /\ g.applied = game.applied /\ g.cache = game.cache
        /\ g.forgotten = game.forgotten /\ g.publication = game.publication
    BY <1>1 DEF GameType
  <2>2. game' = Publish(g)
    BY <1>4
  <2> HIDE DEF g
  <2>3. QED
    BY <1>1, <1>2, <2>1, <2>2, EditStep
<1>5. QED
  BY <1>3, <1>4 DEF Recover

\* A replayed answer repeats the verdict that the game retains.
LEMMA ReplayStep ==
    ASSUME Inductive, NEW request \in Requests, Replay(request)
    PROVE  Inductive'
<1>1. PICK e \in Cached(game, request) :
        /\ e.request = request
        /\ answers' = answers \cup {[request |-> request, answer |->
                                        IF e.accepted THEN "accepted" ELSE "rejected"]}
  BY DEF Replay
<1> DEFINE a == [request |-> request, answer |-> IF e.accepted THEN "accepted" ELSE "rejected"]
<1>2. /\ game = disk /\ game \in GameType /\ GameOK(game, answers)
      /\ answers \in SUBSET AnswerType
      /\ UNCHANGED <<up, game, disk, task, latch, shown, halts>>
  BY DEF Replay, Ready, Inductive, TypeOK, TaskOK, AnswerType
<1>3. request.session \in Sessions
  BY GameConstants
<1>4. PICK i \in 1..Len(game.cache[request.session]) : e = game.cache[request.session][i]
  BY DEF Cached, Entries
<1>5. e \in EntryType /\ (e.accepted => AppliedIn(game, request))
  BY <1>1, <1>2, <1>3, <1>4 DEF GameType, GameOK, CacheOK
<1>6. Entry(request, e.accepted) = e
  BY <1>1, <1>5 DEF Entry, EntryType
<1>7. RetainedIn(game, request, e.accepted)
  BY <1>6 DEF RetainedIn, Cached
<1>8. /\ a \in AnswerType /\ a.request = request
      /\ (a.answer = "accepted") = e.accepted
  <2>1. a.answer = IF e.accepted THEN "accepted" ELSE "rejected"
    OBVIOUS
  <2>2. CASE e.accepted = TRUE
    BY <2>2 DEF AnswerType
  <2>3. CASE e.accepted = FALSE
    BY <2>3 DEF AnswerType
  <2>4. QED
    BY <1>5, <2>2, <2>3 DEF EntryType
<1> HIDE DEF a
<1>9. AnswersOK(game, answers')
  <2>1. ASSUME NEW b \in answers'
        PROVE  /\ b.answer = "accepted" => AppliedIn(game, b.request)
               /\ RetainedIn(game, b.request, b.answer = "accepted")
    <3>1. CASE b \in answers
      BY <1>2, <3>1 DEF GameOK, AnswersOK
    <3>2. CASE b = a
      BY <1>5, <1>7, <1>8, <3>2
    <3>3. QED
      BY <1>1, <3>1, <3>2 DEF a
  <2>2. QED
    BY <2>1 DEF AnswersOK
<1>10. TypeOK'
  BY <1>1, <1>2, <1>8 DEF Inductive, TypeOK, AnswerType, a
<1>11. TaskOK' /\ StepOK' /\ PublishedOK'
  BY <1>2 DEF Inductive, TaskOK, StepOK, PublishedOK
<1>12. QED
  BY <1>2, <1>9, <1>10, <1>11 DEF Inductive, GameOK

\* The answer given after the AI loop is about a command already durable.
LEMMA AiDoneStep ==
    ASSUME Inductive, AiDone
    PROVE  Inductive'
<1>1. /\ game = disk /\ game \in GameType /\ GameOK(game, answers)
      /\ answers \in SUBSET AnswerType /\ task' = None
      /\ task \in TaskType /\ task.advance = TRUE
      /\ task.request # None =>
            RetainedIn(game, task.request, TRUE) /\ AppliedIn(game, task.request)
      /\ UNCHANGED <<up, game, disk, latch, shown, halts>>
  BY DEF AiDone, MayChoose, Inductive, TypeOK, TaskOK, TaskType, AnswerType
<1>2. answers' \in SUBSET AnswerType /\ AnswersOK(game, answers')
  <2>1. CASE task.request = None
    BY <1>1, <2>1 DEF AiDone, GameOK
  <2>2. CASE task.request # None
    <3> DEFINE a == [request |-> task.request, answer |-> "accepted"]
    <3>1. /\ answers' = answers \cup {a} /\ a \in AnswerType
          /\ a.request = task.request /\ (a.answer = "accepted") = TRUE
      BY <1>1, <2>2 DEF AiDone, AnswerType, TaskType
    <3> HIDE DEF a
    <3>2. ASSUME NEW b \in answers'
          PROVE  /\ b.answer = "accepted" => AppliedIn(game, b.request)
                 /\ RetainedIn(game, b.request, b.answer = "accepted")
      <4>1. CASE b \in answers
        BY <1>1, <4>1 DEF GameOK, AnswersOK
      <4>2. CASE b = a
        BY <1>1, <2>2, <3>1, <4>2
      <4>3. QED
        BY <3>1, <4>1, <4>2
    <3>3. QED
      BY <1>1, <3>1, <3>2 DEF AnswersOK
  <2>3. QED
    BY <2>1, <2>2
<1>3. TypeOK' /\ TaskOK' /\ StepOK' /\ PublishedOK'
  BY <1>1, <1>2 DEF Inductive, TypeOK, TaskOK, StepOK, PublishedOK, AnswerType
<1>4. QED
  BY <1>1, <1>2, <1>3 DEF Inductive, GameOK

\* Starting the AI loop changes neither the game nor the record.
LEMMA AdvanceStep ==
    ASSUME Inductive, AdvanceAi
    PROVE  Inductive'
<1>1. /\ game = disk /\ task' = Task("choose", None, TRUE)
      /\ UNCHANGED <<up, game, disk, latch, answers, shown, halts>> /\ up
  BY DEF AdvanceAi, Ready, Inductive, TaskOK
<1>2. /\ task' \in TaskType /\ task'.stage = "choose" /\ task'.advance = TRUE
      /\ task'.request = None
  BY <1>1, TaskFields
<1>3. QED
  BY <1>1, <1>2 DEF Inductive, TypeOK, TaskOK, StepOK, PublishedOK

\* The latch and stuttering disturb no conjunct.
LEMMA QuietStep ==
    ASSUME Inductive, latch' \in BOOLEAN,
           UNCHANGED <<up, game, disk, task, answers, shown, halts>>
    PROVE  Inductive'
BY DEF Inductive, TypeOK, TaskOK, StepOK, PublishedOK

\* Every step keeps the invariant.
LEMMA InductiveStep == Inductive /\ [Next]_vars => Inductive'
<1> SUFFICES ASSUME Inductive, [Next]_vars PROVE Inductive'
  OBVIOUS
<1>1. ASSUME NEW request \in Requests,
             Replay(request) \/ ExecuteAccepted(request) \/ ExecuteRejected(request)
      PROVE  Inductive'
  BY <1>1, ReplayStep, AcceptedStep, RejectedStep
<1>2. CASE AdvanceAi \/ AiMove \/ AiFail \/ AiDone
  BY <1>2, AdvanceStep, AiMoveStep, AiFailStep, AiDoneStep
<1>3. CASE PauseTransport
  BY <1>3, QuietStep DEF PauseTransport
<1>4. ASSUME NEW paused \in BOOLEAN, NEW changed \in BOOLEAN, SetPresence(paused, changed)
      PROVE  Inductive'
  BY <1>4, PresenceStep
<1>5. ASSUME NEW s \in Sessions, NEW paused \in BOOLEAN, ReplaceHuman(s, paused)
      PROVE  Inductive'
  BY <1>5, ReplaceStep
<1>6. CASE SaveOK \/ Halt \/ Recover
  BY <1>6, CommitStep, HaltStep, RecoverStep
<1>7. CASE UNCHANGED vars
  BY <1>7, QuietStep DEF vars, Inductive, TypeOK
<1>8. QED
  BY <1>1, <1>2, <1>3, <1>4, <1>5, <1>6, <1>7 DEF Next

\* The invariant that carries the results below: the game in memory and the one
\* on disk each have a log with one transition per version, and caches and given
\* answers that agree with it; memory is ahead of the disk by at most the one
\* operation that is being saved.
THEOREM InductiveInvariant == Spec => []Inductive
<1>1. QED
  BY Initially, InductiveStep, PTL DEF Spec

-----------------------------------------------------------------------------
(* What the server promises about commands.                                *)

\* Type correctness of the game session, its durable record and its history.
THEOREM TypeCorrect == Spec => []TypeOK
<1>1. Inductive => TypeOK
  BY DEF Inductive
<1>2. QED
  BY <1>1, InductiveInvariant, PTL

\* No retry, eviction, crash or lost save lets one request move the game twice.
THEOREM CommandsApplyAtMostOnce == Spec => []AtMostOnce
<1>1. Inductive => AtMostOnce
  BY DEF Inductive, GameOK, LogOK, AtMostOnce
<1>2. QED
  BY <1>1, InductiveInvariant, PTL

\* A success told to a client is in the durable game for ever after.
THEOREM AcceptedCommandsSurvive == Spec => []AcceptedIsDurable
<1>1. Inductive => AcceptedIsDurable
  BY DEF Inductive, GameOK, AnswersOK, AppliedIn, AcceptedIsDurable
<1>2. QED
  BY <1>1, InductiveInvariant, PTL

\* Until its result is forgotten, a request is answered with one verdict only.
THEOREM AnswersAgree == Spec => []VerdictsAgree
<1>1. Inductive => VerdictsAgree
  <2>1. SUFFICES ASSUME Inductive, NEW a \in answers, NEW b \in answers,
                        a.request = b.request, a.request \notin disk.forgotten
                 PROVE  a = b
    BY DEF VerdictsAgree
  <2> DEFINE s == a.request.session
             told(x) == x.answer = "accepted"
  <2>2. /\ a \in AnswerType /\ b \in AnswerType
        /\ AnswersOK(disk, answers) /\ CacheOK(disk)
    BY <2>1 DEF Inductive, TypeOK, GameOK, AnswerType
  <2>3. s \in Sessions
    BY <2>2, GameConstants DEF AnswerType
  <2>4. /\ Entry(a.request, told(a)) \in Entries(disk, s)
        /\ Entry(a.request, told(b)) \in Entries(disk, s)
    BY <2>1, <2>2 DEF AnswersOK, RetainedIn
  <2>5. PICK i, j \in 1..Len(disk.cache[s]) :
          /\ disk.cache[s][i] = Entry(a.request, told(a))
          /\ disk.cache[s][j] = Entry(a.request, told(b))
    BY <2>4 DEF Entries
  <2>6. i = j
    BY <2>2, <2>3, <2>5 DEF CacheOK, Entry
  <2>7. told(a) = told(b)
    BY <2>5, <2>6 DEF Entry
  <2>8. a.answer = b.answer
    BY <2>2, <2>7 DEF AnswerType
  <2>9. QED
    BY <2>1, <2>2, <2>8 DEF AnswerType
<1>2. QED
  BY <1>1, InductiveInvariant, PTL

\* No session retains more results than commandCacheSize, nor two for one id.
THEOREM CacheStaysBounded == Spec => []CacheBounded
<1>1. Inductive => CacheBounded
  BY DEF Inductive, GameOK, CacheOK, CacheBounded
<1>2. QED
  BY <1>1, InductiveInvariant, PTL

\* GAME_PAUSED and GAME_UNAVAILABLE are never said of a command that took effect.
THEOREM RefusalsAreHonest == Spec => []RefusedNotApplied
<1>1. Inductive => RefusedNotApplied
  <2>1. SUFFICES ASSUME Inductive, NEW r \in Requests, Refused(r),
                        r \notin game.forgotten, NEW p \in game.applied, p.request = r
                 PROVE  FALSE
    BY DEF RefusedNotApplied
  <2>2. Entry(r, TRUE) \in Entries(game, r.session)
    BY <2>1, GameConstants DEF Inductive, GameOK, AppliedOK, RetainedIn
  <2>3. Entry(r, TRUE) \in Cached(game, r)
    BY <2>2 DEF Cached, Entry
  <2>4. QED
    BY <2>1, <2>3 DEF Refused
<1>2. QED
  BY <1>1, InductiveInvariant, PTL

\* What viewers see never goes back, whatever halts in between.
THEOREM PublicationsAdvance == Spec => PublicationOrder
<1>1. Inductive /\ [Next]_vars =>
        [shown' # shown => /\ shown'.publication > shown.publication
                           /\ shown'.version >= shown.version]_vars
  <2>1. SUFFICES ASSUME Inductive, Next, shown' # shown
                 PROVE  /\ shown'.publication > shown.publication
                        /\ shown'.version >= shown.version
    BY DEF vars
  <2>2. SaveOK
    BY <2>1 DEF Next, Replay, ExecuteAccepted, ExecuteRejected, AdvanceAi, AiMove,
                AiFail, AiDone, PauseTransport, SetPresence, ReplaceHuman, Halt, Recover
  <2>3. shown' = [publication |-> game.publication, version |-> game.version]
    BY <2>2 DEF SaveOK
  <2>4. /\ shown \in [publication : Nat, version : Nat]
        /\ game.publication \in Nat /\ game.version \in Nat
        /\ disk.publication \in Nat /\ disk.version \in Nat
    BY <2>1 DEF Inductive, TypeOK, GameType
  <2>5. /\ NotOlder(shown.publication, shown.version, disk.publication, disk.version)
        /\ NotOlder(disk.publication, disk.version, game.publication, game.version)
    BY <2>1 DEF Inductive, PublishedOK
  <2>6. /\ shown.publication <= game.publication /\ shown.version <= game.version
        /\ shown.publication = game.publication => shown.version = game.version
    BY <2>4, <2>5 DEF NotOlder
  <2>7. shown.publication # game.publication
    BY <2>1, <2>3, <2>4, <2>6
  <2>8. QED
    BY <2>3, <2>4, <2>6, <2>7
<1>2. QED
  BY <1>1, InductiveInvariant, PTL DEF Spec, PublicationOrder

-----------------------------------------------------------------------------
(* The game session implements CommandLedger.                              *)

Told == {r \in Requests : [request |-> r, answer |-> "accepted"] \in answers}

\* A step that makes the game durable, or loses it, appends at most one entry.
LEMMA DurableStep ==
    ASSUME Inductive, disk' = disk \/ disk' = game, Told' = Told
    PROVE  [Ledger!Next]_(Ledger!ledger)
<1>1. CASE disk'.version = disk.version /\ disk'.applied = disk.applied
  BY <1>1 DEF Ledger!ledger, Told
<1>2. CASE \E author \in Requests \cup {ServerAi} :
            /\ author # ServerAi => author.expected = disk.version
            /\ disk'.version = disk.version + 1
            /\ disk'.applied = disk.applied \cup {[request |-> author, at |-> disk.version + 1]}
  BY <1>2 DEF Ledger!Next, Ledger!Append, Told
<1>3. QED
  BY <1>1, <1>2 DEF Inductive, StepOK

\* Answering a request whose transition is durable accepts it.
LEMMA AnswerStep ==
    ASSUME Inductive, disk' = disk, NEW r \in Requests, NEW verdict \in {"accepted", "rejected"},
           answers' = answers \cup {[request |-> r, answer |-> verdict]},
           verdict = "accepted" => AppliedIn(disk, r)
    PROVE  [Ledger!Next]_(Ledger!ledger)
<1>1. CASE verdict = "accepted"
  <2>1. Told' = Told \cup {r}
    BY <1>1 DEF Told
  <2>2. QED
    BY <1>1, <2>1 DEF Ledger!Next, Ledger!Accept, AppliedIn, Told
<1>2. CASE verdict = "rejected"
  <2>1. Told' = Told
    BY <1>2 DEF Told
  <2>2. QED
    BY <2>1, DurableStep
<1>3. QED
  BY <1>1, <1>2

\* Every step of the session is a step of the ledger or leaves it alone.
LEMMA LedgerStep == Inductive /\ [Next]_vars => [Ledger!Next]_(Ledger!ledger)
<1> SUFFICES ASSUME Inductive, [Next]_vars PROVE [Ledger!Next]_(Ledger!ledger)
  OBVIOUS
<1>1. ASSUME NEW request \in Requests, Replay(request)
      PROVE  [Ledger!Next]_(Ledger!ledger)
  <2>1. PICK e \in Cached(game, request) :
          /\ e.request = request
          /\ answers' = answers \cup {[request |-> request, answer |->
                                          IF e.accepted THEN "accepted" ELSE "rejected"]}
    BY <1>1 DEF Replay
  <2>2. disk' = disk /\ game = disk /\ game \in GameType /\ CacheOK(game)
    BY <1>1 DEF Replay, Ready, Inductive, TypeOK, TaskOK, GameOK
  <2>3. request.session \in Sessions
    BY GameConstants
  <2>4. PICK i \in 1..Len(game.cache[request.session]) : e = game.cache[request.session][i]
    BY DEF Cached, Entries
  <2>5. e.accepted => AppliedIn(disk, request)
    BY <2>1, <2>2, <2>3, <2>4 DEF CacheOK
  <2>6. CASE e.accepted
    BY <2>1, <2>2, <2>5, <2>6, AnswerStep
  <2>7. CASE ~e.accepted
    BY <2>1, <2>2, <2>7, AnswerStep
  <2>8. QED
    BY <2>6, <2>7
<1>2. CASE AiDone
  <2>1. /\ disk' = disk /\ game = disk /\ task \in TaskType
        /\ task.request # None => AppliedIn(disk, task.request)
    BY <1>2 DEF AiDone, MayChoose, Inductive, TypeOK, TaskOK
  <2>2. CASE task.request = None
    BY <1>2, <2>1, <2>2, DurableStep DEF AiDone, Told
  <2>3. CASE task.request # None
    <3>1. /\ task.request \in Requests
          /\ answers' = answers \cup {[request |-> task.request, answer |-> "accepted"]}
      BY <1>2, <2>1, <2>3 DEF AiDone, TaskType
    <3>2. QED
      BY <2>1, <2>3, <3>1, AnswerStep
  <2>4. QED
    BY <2>2, <2>3
<1>3. CASE SaveOK
  <2>1. Told' = Told
    BY <1>3 DEF SaveOK, Told
  <2>2. QED
    BY <1>3, <2>1, DurableStep DEF SaveOK
<1>4. CASE Halt
  BY <1>4, DurableStep DEF Halt, Told
<1>5. CASE UNCHANGED <<disk, answers>>
  BY <1>5, DurableStep DEF Told
<1>6. QED
  BY <1>1, <1>2, <1>3, <1>4, <1>5
     DEF Next, vars, ExecuteAccepted, ExecuteRejected, AdvanceAi, AiMove, AiFail,
         PauseTransport, SetPresence, ReplaceHuman, Recover

\* The durable game is an append-only ledger that holds every accepted command.
THEOREM ImplementsLedger == Spec => KeepsLedger
<1>1. Init => Ledger!Init
  BY DEF Init, NewGame, Ledger!Init
<1>2. QED
  BY <1>1, LedgerStep, InductiveInvariant, PTL DEF Spec, KeepsLedger, Ledger!Spec
=============================================================================
