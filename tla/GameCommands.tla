---------------------------- MODULE GameCommands ----------------------------
(***************************************************************************)
(* The command ledger of one GameSession (server/src/game/game-session.ts):*)
(* execution of Human commands against the engine's version check, the     *)
(* bounded per-session cache of results, the AI seats that move before a   *)
(* command is answered, the pause latch, and the commit that precedes      *)
(* every answer and publication.  Requests arrive in any order and any     *)
(* number of times: delivery, retry and admission are not trusted here.    *)
(*                                                                         *)
(* One operation holds the Room queue at a time; `task' is that operation  *)
(* while it waits for storage ("save") or for an AI choice ("choose").     *)
(***************************************************************************)
EXTENDS Naturals, Sequences, FiniteSets

CONSTANTS
    Sessions,     \* Human sessions of the game
    Requests,     \* command requests clients may send
    None,         \* null
    ServerAi,     \* author of AI commands
    CacheLimit,   \* commandCacheSize
    MaxVersion,   \* bound: no transition beyond this version
    MaxHalts,     \* bound: crashes, storage failures and shutdowns
    MaxPublished  \* bound: presence changes below this publication revision

ASSUME GameConstants ==
    /\ \A r \in Requests :
        r = [session |-> r.session, id |-> r.id, expected |-> r.expected, move |-> r.move]
        /\ r.session \in Sessions /\ r.expected \in Nat
    /\ None \notin Requests /\ ServerAi \notin Requests
    /\ None \notin [stage : {"save", "choose"}, request : Requests \cup {None},
                     advance : BOOLEAN]
    /\ CacheLimit \in Nat \ {0}
    /\ MaxVersion \in Nat /\ MaxHalts \in Nat /\ MaxPublished \in Nat

VARIABLES
    up,       \* the process runs and the game is restored
    game,     \* the GameSession in memory
    disk,     \* the game part of the durable record
    task,     \* the operation holding the queue, or None
    latch,    \* #transportPaused
    answers,  \* history: answers given to clients
    shown,    \* history: the newest publication any client has seen
    halts     \* halts so far (bound)

vars == <<up, game, disk, task, latch, answers, shown, halts>>

-----------------------------------------------------------------------------
(* `applied' and `forgotten' are history: the transitions made, and the    *)
(* requests whose retained result was dropped.  They live in the record so *)
(* that a crash takes them back with it.                                   *)

NewGame ==
    [version |-> 0, applied |-> {}, forgotten |-> {},
     cache |-> [s \in Sessions |-> <<>>], humans |-> Sessions,
     paused |-> FALSE, failed |-> FALSE, over |-> FALSE, publication |-> 0]

Entry(request, accepted) == [request |-> request, accepted |-> accepted]
Entries(g, s) == {g.cache[s][i] : i \in 1..Len(g.cache[s])}
Cached(g, request) ==
    {e \in Entries(g, request.session) : e.request.id = request.id}

Active(g) == ~g.paused /\ ~g.failed /\ ~g.over
Paused(g) == g.paused /\ ~g.failed /\ ~g.over

\* Insertion order; the oldest result goes when the limit is passed.
Retained(entries) ==
    IF Len(entries) > CacheLimit THEN Tail(entries) ELSE entries
Dropped(entries) ==
    IF Len(entries) > CacheLimit THEN {Head(entries).request} ELSE {}

Retain(g, request, accepted) ==
    LET entries == Append(g.cache[request.session], Entry(request, accepted))
    IN [g EXCEPT !.cache[request.session] = Retained(entries),
                 !.forgotten = @ \cup Dropped(entries)]

TransitionSameVersion(g, author) ==   \* mutant
    [g EXCEPT !.applied = @ \cup {[request |-> author, at |-> g.version + 1]}]
Transition(g, author) ==
    [g EXCEPT !.version = @ + 1,
              !.applied = @ \cup {[request |-> author, at |-> g.version + 1]}]

Publish(g) == [g EXCEPT !.publication = @ + 1]

\* `advance': AI seats move once this operation is durable.
Task(stage, request, advance) ==
    [stage |-> stage, request |-> request, advance |-> advance]

Ready == up /\ task = None

-----------------------------------------------------------------------------
(* Human commands.                                                         *)

\* An exact retry of a retained request gets the original result, before any
\* check of the game's lifecycle; it changes nothing else.
Replay(request) ==
    /\ Ready /\ request.session \in game.humans
    /\ \E e \in Cached(game, request) :
        /\ e.request = request
        /\ answers' = answers \cup {[request |-> request, answer |->
                            IF e.accepted THEN "accepted" ELSE "rejected"]}
    /\ UNCHANGED <<up, game, disk, task, latch, shown, halts>>

\* GAME_PAUSED or GAME_UNAVAILABLE: refused without being retained, so the
\* answer changes no state and needs no action.
Refused(request) ==
    /\ Ready /\ request.session \in game.humans
    /\ Cached(game, request) = {}
    /\ latch \/ Paused(game) \/ game.failed

Executable(request) ==
    /\ Ready /\ request.session \in game.humans
    /\ Cached(game, request) = {}
    /\ ~latch /\ ~Paused(game) /\ ~game.failed

\* The engine applies the command; it may end the game.
AnswerFirst(request) ==   \* mutant: answered before the commit
    /\ Executable(request)
    /\ request.expected = game.version /\ ~game.over /\ game.version < MaxVersion
    /\ game' = Publish(Retain(Transition(game, request), request, TRUE))
    /\ task' = Task("save", request, TRUE)
    /\ answers' = answers \cup {[request |-> request, answer |-> "accepted"]}
    /\ UNCHANGED <<up, disk, latch, shown, halts>>
ExecuteAccepted(request) ==
    /\ Executable(request)
    /\ request.expected = game.version /\ ~game.over
    /\ game.version < MaxVersion
    /\ \E over \in BOOLEAN :
        game' = Publish(Retain([Transition(game, request) EXCEPT !.over = over], request, TRUE))
    /\ task' = Task("save", request, TRUE)
    /\ UNCHANGED <<up, disk, latch, answers, shown, halts>>

\* The engine refuses it: a stale version, a finished game, or any rule.
ExecuteRejected(request) ==
    /\ Executable(request)
    /\ game' = Retain(game, request, FALSE)
    /\ task' = Task("save", request, FALSE)
    /\ UNCHANGED <<up, disk, latch, answers, shown, halts>>

-----------------------------------------------------------------------------
(* AI seats.  Choosing is asynchronous and holds the queue; the latch and  *)
(* the lifecycle are read again when the choice arrives.                   *)

AdvanceAi ==
    /\ Ready /\ Active(game)
    /\ task' = Task("choose", None, TRUE)
    /\ UNCHANGED <<up, game, disk, latch, answers, shown, halts>>

MayChoose == up /\ task # None /\ task.stage = "choose"

AiMoveUnnumbered ==   \* mutant: published under the same revision
    /\ MayChoose /\ ~latch /\ Active(game) /\ game.version < MaxVersion
    /\ game' = Transition(game, ServerAi)
    /\ task' = [task EXCEPT !.stage = "save"]
    /\ UNCHANGED <<up, disk, latch, answers, shown, halts>>
AiMove ==
    /\ MayChoose /\ ~latch /\ Active(game)
    /\ game.version < MaxVersion
    /\ \E over \in BOOLEAN :
        game' = Publish([Transition(game, ServerAi) EXCEPT !.over = over])
    /\ task' = [task EXCEPT !.stage = "save"]
    /\ UNCHANGED <<up, disk, latch, answers, shown, halts>>

\* An illegal choice or an exhausted limit.
AiFail ==
    /\ MayChoose /\ Active(game)
    /\ game' = Publish([game EXCEPT !.failed = TRUE])
    /\ task' = [task EXCEPT !.stage = "save"]
    /\ UNCHANGED <<up, disk, latch, answers, shown, halts>>

\* The next actor is Human, or the loop has to stop; the command that started
\* it, if any, is answered only now.
AiDone ==
    /\ MayChoose
    /\ task' = None
    /\ answers' = IF task.request = None THEN answers
                  ELSE answers \cup {[request |-> task.request, answer |-> "accepted"]}
    /\ UNCHANGED <<up, game, disk, latch, shown, halts>>

-----------------------------------------------------------------------------
(* Presence, replacement, storage and restarts.                            *)

\* A transport is lost or superseded: effective before the Room queue is.
PauseTransport ==
    /\ up /\ latch' = TRUE
    /\ UNCHANGED <<up, game, disk, task, answers, shown, halts>>

\* The Room installs the presence list, even an unchanged one, and releases the
\* latch.
SetPresence(paused, changed) ==
    /\ Ready /\ (paused # game.paused => changed)
    /\ latch' = FALSE
    /\ IF changed
       THEN /\ game.publication < MaxPublished
            /\ game' = Publish([game EXCEPT !.paused = paused])
            /\ task' = Task("save", None, FALSE)
       ELSE UNCHANGED <<game, task>>
    /\ UNCHANGED <<up, disk, answers, shown, halts>>

\* The Host hands an expired Human's seat to an AI: mapping and results go.
ReplaceHumanUnsaved(s, paused) ==   \* mutant: AI seats move before the commit
    /\ Ready /\ s \in game.humans /\ Paused(game)
    /\ latch' = FALSE
    /\ game' = Publish([game EXCEPT
            !.humans = @ \ {s}, !.cache[s] = <<>>,
            !.forgotten = @ \cup {e.request : e \in Entries(game, s)},
            !.paused = paused])
    /\ task' = Task("choose", None, TRUE)
    /\ UNCHANGED <<up, disk, answers, shown, halts>>
ReplaceHuman(s, paused) ==
    /\ Ready /\ s \in game.humans /\ Paused(game)
    /\ latch' = FALSE
    /\ game' = Publish([game EXCEPT
            !.humans = @ \ {s}, !.cache[s] = <<>>,
            !.forgotten = @ \cup {e.request : e \in Entries(game, s)},
            !.paused = paused])
    /\ task' = Task("save", None, TRUE)
    /\ UNCHANGED <<up, disk, answers, shown, halts>>

\* The aggregate is durable: publish, then run AI seats or answer.
SaveOK ==
    /\ up /\ task # None /\ task.stage = "save"
    /\ disk' = game
    /\ shown' = [publication |-> game.publication, version |-> game.version]
    /\ IF task.advance
       THEN task' = [task EXCEPT !.stage = "choose"] /\ UNCHANGED answers
       ELSE /\ task' = None
            /\ answers' = IF task.request = None THEN answers
                          ELSE answers \cup {[request |-> task.request, answer |-> "rejected"]}
    /\ UNCHANGED <<up, game, latch, halts>>

\* A crash, a failed or unanswered storage call, or a shutdown: the write in
\* flight may have landed; memory is gone and nothing more is answered.
Halt ==
    /\ up /\ halts < MaxHalts
    /\ disk' \in IF task # None /\ task.stage = "save" THEN {disk, game} ELSE {disk}
    /\ game' = disk' /\ up' = FALSE /\ task' = None /\ halts' = halts + 1
    /\ UNCHANGED <<latch, answers, shown>>

\* Every Human must return, so the game restarts paused; that presence is
\* published as a change unless the saved one was already the same.
RecoverWithoutCache ==   \* mutant: retained results are not restored
    /\ ~up /\ up' = TRUE /\ latch' = FALSE
    /\ game' = Publish([disk EXCEPT !.paused = TRUE, !.cache = [s \in Sessions |-> <<>>]])
    /\ task' = Task("save", None, FALSE)
    /\ UNCHANGED <<disk, answers, shown, halts>>
Recover ==
    /\ ~up /\ up' = TRUE /\ latch' = FALSE
    /\ \E unchanged \in BOOLEAN :
        /\ unchanged => disk.paused
        /\ game' = IF unchanged THEN disk ELSE Publish([disk EXCEPT !.paused = TRUE])
    /\ task' = Task("save", None, FALSE)
    /\ UNCHANGED <<disk, answers, shown, halts>>

-----------------------------------------------------------------------------

Init ==
    /\ up = TRUE /\ game = NewGame /\ disk = NewGame
    /\ task = None /\ latch = FALSE /\ answers = {} /\ halts = 0
    /\ shown = [publication |-> 0, version |-> 0]

Next ==
    \/ \E request \in Requests :
        Replay(request) \/ ExecuteAccepted(request) \/ ExecuteRejected(request)
    \/ AdvanceAi \/ AiMove \/ AiFail \/ AiDone
    \/ PauseTransport
    \/ \E paused, changed \in BOOLEAN : SetPresence(paused, changed)
    \/ \E s \in Sessions, paused \in BOOLEAN : ReplaceHuman(s, paused)
    \/ SaveOK \/ Halt \/ Recover

Spec == Init /\ [][Next]_vars

-----------------------------------------------------------------------------
(* Properties.                                                             *)

EntryType == [request : Requests, accepted : BOOLEAN]
GameType ==
    [version : Nat, applied : SUBSET [request : Requests \cup {ServerAi}, at : Nat],
     forgotten : SUBSET Requests, cache : [Sessions -> Seq(EntryType)],
     humans : SUBSET Sessions, paused : BOOLEAN, failed : BOOLEAN, over : BOOLEAN,
     publication : Nat]
TaskType == [stage : {"save", "choose"}, request : Requests \cup {None}, advance : BOOLEAN]

\* Every variable has the shape the code gives it.
TypeOK ==
    /\ up \in BOOLEAN /\ latch \in BOOLEAN
    /\ game \in GameType /\ disk \in GameType
    /\ task \in TaskType \cup {None}
    /\ answers \subseteq [request : Requests, answer : {"accepted", "rejected"}]
    /\ shown \in [publication : Nat, version : Nat]
    /\ halts \in Nat

\* A Human request changes the game at most once, whether it is retried,
\* delayed past the eviction of its result, or sent again after a restart.
AtMostOnce ==
    \A p, q \in game.applied : p.request = q.request /\ p.request # ServerAi => p = q

\* A success that a client was told survives every later crash and failed save.
AcceptedIsDurable ==
    \A a \in answers : a.answer = "accepted" =>
        \E p \in disk.applied : p.request = a.request

\* Every answer to one request tells the same verdict, restarts included,
\* until its result is evicted or its session replaced.
VerdictsAgree ==
    \A a, b \in answers :
        a.request = b.request /\ a.request \notin disk.forgotten => a = b

\* Retention is bounded for every session and holds one result per command.
CacheBounded ==
    \A s \in Sessions :
        /\ Len(game.cache[s]) <= CacheLimit
        /\ \A i, j \in 1..Len(game.cache[s]) :
            game.cache[s][i].request.id = game.cache[s][j].request.id => i = j

\* A client that is told its game is paused or unavailable may conclude that
\* the command did not take effect, retained results being looked up first.
RefusedNotApplied ==
    \A r \in Requests : Refused(r) =>
        r \in game.forgotten \/ \A p \in game.applied : p.request # r

\* What viewers see only moves forward, across restarts: each newer publication
\* has a greater revision and never an older state.
PublicationOrder ==
    [][shown' # shown => /\ shown'.publication > shown.publication
                         /\ shown'.version >= shown.version]_vars

Ledger == INSTANCE CommandLedger WITH
            version <- disk.version, history <- disk.applied,
            accepted <- {r \in Requests : [request |-> r, answer |-> "accepted"] \in answers}

\* The session keeps the promise of CommandLedger.
KeepsLedger == Ledger!Spec

-----------------------------------------------------------------------------
(* The inductive invariant behind the theorems of GameCommandsProofs.      *)

\* The transitions of a game: one per version, Human ones at the version named.
LogOK(g) ==
    /\ \A p \in g.applied :
        /\ p.at \in 1..g.version
        /\ p.request # ServerAi => p.at = p.request.expected + 1
    /\ \A p, q \in g.applied : p.at = q.at => p = q

AppliedIn(g, request) == \E p \in g.applied : p.request = request
RetainedIn(g, request, accepted) ==
    request \in g.forgotten \/ Entry(request, accepted) \in Entries(g, request.session)

\* The cache of a game: bounded, one entry per identifier, true to the log.
CacheOK(g) ==
    \A s \in Sessions :
        /\ Len(g.cache[s]) <= CacheLimit
        /\ \A i \in 1..Len(g.cache[s]) :
            /\ g.cache[s][i].request.session = s
            /\ g.cache[s][i].accepted => AppliedIn(g, g.cache[s][i].request)
        /\ \A i, j \in 1..Len(g.cache[s]) :
            g.cache[s][i].request.id = g.cache[s][j].request.id => i = j

\* Every Human transition is retained or forgotten.
AppliedOK(g) ==
    \A p \in g.applied : p.request # ServerAi => RetainedIn(g, p.request, TRUE)

\* Every answer given agrees with what the game retains.
AnswersOK(g, given) ==
    \A a \in given :
        /\ a.answer = "accepted" => AppliedIn(g, a.request)
        /\ RetainedIn(g, a.request, a.answer = "accepted")

GameOK(g, given) ==
    LogOK(g) /\ CacheOK(g) /\ AppliedOK(g) /\ AnswersOK(g, given)

\* Only an operation that awaits its commit is ahead of the durable game, by
\* at most one transition, and then under a newer publication revision.
TaskOK ==
    /\ ~up => task = None
    /\ task = None \/ task.stage = "choose" => game = disk
    /\ task # None =>
        /\ task.stage = "choose" => task.advance
        /\ task.request # None =>
            /\ RetainedIn(game, task.request, task.advance)
            /\ task.advance => AppliedIn(game, task.request)

StepOK ==
    \/ game.version = disk.version /\ game.applied = disk.applied
    \/ \E author \in Requests \cup {ServerAi} :
        /\ author # ServerAi => author.expected = disk.version
        /\ game.version = disk.version + 1
        /\ game.applied = disk.applied \cup {[request |-> author, at |-> disk.version + 1]}

NotOlder(p1, v1, p2, v2) == p1 <= p2 /\ v1 <= v2 /\ (p1 = p2 => v1 = v2)
PublishedOK ==
    /\ NotOlder(shown.publication, shown.version, disk.publication, disk.version)
    /\ NotOlder(disk.publication, disk.version, game.publication, game.version)

Inductive ==
    /\ TypeOK /\ GameOK(game, answers) /\ GameOK(disk, answers)
    /\ TaskOK /\ StepOK /\ PublishedOK
=============================================================================
