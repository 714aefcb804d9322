# Frontier Isles: formal models

TLA+ models of Frontier Isles: its rules engine and computer players, its
multiplayer server, the browser's side of an online game and the single-player
game in the browser; the TLC runs that check them on small instances, and TLAPS
proofs for every value of the constants. Paths below are relative to the
repository root.

To run: `tlc -workers 2 -config MCTransport.cfg MCTransportAttachment`,
`tlapm GameCommandsProofs.tla`. The community modules and the TLAPS library must
be on the module path. `PROJECT.json` lists every run, the lines each definition
models, the hazards and the properties that watch them.

| module | models | checked by |
|---|---|---|
| `RoomLifecycle` | one Room: seats, sessions, Host, presence, timers, saves, recovery | `MCRoomLifecycle` (2 runs), `RoomProofs` |
| `GameCommands` | one game session: commands, result cache, AI seats, pause, commit, restart | `MCGameCommands`, `GameCommandsProofs` |
| `CommandLedger` | what a player is promised about commands | refined by `GameCommands` and by `CommandDelivery` |
| `TransportAttachment` | sockets, the bounded Room queue and the pause latch | `MCTransportAttachment` (2 runs), `TransportProofs` |
| `MysqlStore` | the MySQL repository in overlapping server processes, its transactions and the rows | `MCMysqlStore`, `PersistenceProofs` |
| `RecordStore` | what a store promises: one atomic record per Room | refined by `MysqlStore` |
| `CommandDelivery` | the browser's gateways: command delivery with retries, view, resynchronization, resumption, over a connection that fails | `MCCommandDelivery` (2 runs), `CommandDeliveryProofs` |
| `BoardRules` | placement, production, ports, the longest road | used by `GameEngine` |
| `GameEngine` | every command of the rules engine, from setup to the winner | `MCGameEngine` (2 runs), `EngineProofs` |
| `GameInvariants` | the engine's own assertions, and what a game must never do | the same |
| `TurnOrder` | a game as those who run it see it: whose turn, who owes an answer, who won | refined by `GameEngine` (proved in `EngineProofs`), used by `LocalGame` |
| `PlayerView` | what a player is shown and offered | `MCGameEngine`, `PlayerProofs` |
| `AiAgent` | which commands a computer player may answer | `MCGameEngine`, `PlayerProofs` |
| `LocalGame` | the single-player gateway: AI loop, counts of a turn, saves, reloads | `MCLocalGame`, `PersistenceProofs` |
| `RequestLimiter` | the token buckets | used by `ServerProcess` and its proofs |
| `ServerProcess` | one server process: admission, queues of several Rooms, disposal, shutdown | `MCServerProcess`, `ServerProcessProofs` |

## 1. The system

One Node process keeps every Room in memory and a single durable store (MySQL,
or SQLite in development) behind it. A Room goes from a lobby with four seats to
a game played by two to four Humans and server-run AI seats. Clients speak
Socket.IO; a client that disconnects keeps its seat for a grace period and
resumes with a token.

| component | state | operations | modelled |
|---|---|---|---|
| Room service, `server/src/lobby/room-service.ts` | Rooms, sessions, Host, revision, three kinds of timer, committed records and snapshots | create, join, resume, leave, ready, AI seat, start, snapshot, disconnect, expiries, replacement, close, `initialize`, dispose | `RoomLifecycle`; its admission rules in `TransportAttachment` |
| Game session, `server/src/game/game-session.ts` | engine state, result caches, seat mapping, presence, latch, publication revision | execute, AI loop, setPresence, replaceHuman, save/restore, publish | `GameCommands` |
| Execution queue, `server/src/game/game-execution-queue.ts` | per-Room FIFO, 64 ordinary and 16 control positions | enqueue, refuse, drain | with its users, in `TransportAttachment` and `ServerProcess` |
| Socket handlers, `server/src/lobby/register-lobby-handlers.ts` | active socket per session, pending attachments | resume, command, disconnect, replacement | `TransportAttachment`; the limiter in front of them and creations in `ServerProcess` |
| Aggregate record, `server/src/persistence/multiplayer-record.ts` | none | validates every record that is saved or loaded | `RecordValid` of `RoomLifecycle` |
| Stores, `server/src/persistence/*store.ts`, `*repository.ts` | rows with revision and incarnation | load, save, remove, quarantine | an atomic save that may fail after landing, for the Rooms; `MysqlStore` for MySQL itself |
| Server process, `server/src/server.ts`, `graceful-shutdown.ts`, `create-*.ts` | connections | start, admission, signals, ordered shutdown | `ServerProcess`; `Recover` and `Halt` of `RoomLifecycle` |
| Request limiter, `server/src/security/request-limiter.ts` | token buckets | admit, attach, allow, forget, prune, dispose | `RequestLimiter` |
| Client gateways, `src/application/gateways/socket-*.ts` | latest view, queue, command being delivered, credential, resume in progress | submit, resync, resume, connection events | `CommandDelivery`; lobby requests not yet |
| Single-player gateway, `src/application/gateways/local-game-gateway.ts`, `src/application/stores`, `src/infrastructure/persistence` | engine state, counts of the turn, latest save, page | create, submit, AI loop, save, load, delete | `LocalGame` |
| Rules engine, `packages/game-core/src` | `GameState` | twenty-one commands, assertions, views | `BoardRules`, `GameEngine`, `GameInvariants`, `PlayerView` |
| AI agent, `packages/game-ai/src` | none | choose a command from a view | `AiAgent`; any choice, or failure, in `GameCommands` |
| Wire contracts, identifiers, board generation, UI, deployment | none | schemas, random names, tables, rendering | not modelled: pure data or I/O |

How they interact. A socket event calls the Room service, which enqueues an
operation on the Room's FIFO. The operation looks the session up again, changes
memory in one turn, and waits for the store; only then does the next operation
start, and only then are clients told. Timers enqueue control operations.
`markDisconnected` and `resumeSession` set the game's transport latch *before*
they queue, and the operation that later installs the presence list releases it.
A Human command holds the queue until the AI seats that follow have moved, one
commit each. Every request passes the limiter first. A storage failure disposes the whole service; the process restarts
(Docker restarts it on failure, `deploy/README.md`) and `initialize` rebuilds the
Rooms from the store with every Human absent. Alone, a player's browser runs the
same engine and the same agents in a loop, and saves after every command.

What is hard. Reads repeated on both sides of a wait; a latch outside the
queue; disconnects, resumes and expiries that overtake one another; timers that
fire early; a bounded queue that refuses some of the steps of a protocol; a bounded cache of
results that outlives restarts; a crash between a commit and the answer; and one
invalid record that would stop every Room. In the engine: decisions that
interrupt a turn in many orders, awards that move with an opponent's command,
rules that are written twice (in the view that offers commands and in the
handlers that judge them), and assertions that throw where they fail. `PROJECT.json` lists them under
`hazards` at their lines.

What makes each part correct. Room: the record is always one the schema accepts,
a Room always has a Host who can act and a timer for every deadline, an ended
session stays ended. Commands: applied at most once, accepted ones durable, all
answers to one request agree. Transports: one per session, no seat without
somebody to notice its loss, no progress while somebody is away. Store: one
writer, no lost update. Engine: no legal sequence of commands breaks one of its
assertions, a view offers exactly the legal commands and gives nothing away,
somebody can always go on, and awards match their definition. Single player: what
is called saved is saved, and the computer players always hand over. Process:
nothing is written after the store is closed, and a shutdown ends.

## 2. The models

### RoomLifecycle

Follows `room-service.ts` operation by operation; each action makes all the
helper calls of its handler (`touchRoom`, `#synchronizeGamePresence`,
`#scheduleGameCleanup`, `#transferExpiredHost`, `#persist`). `room` is the
`RoomState` in memory, with the pending timer of each deadline (`task`) beside
it; `disk` is the stored record; `committed` the committed one; `io` is the
storage call being awaited, so everything that does not hold the queue (timers,
closing transports, the clock, a halt) interleaves with it. `told` is history:
what clients have been shown.

* Time is a small integer. A timer may fire up to `TimerSlack` before its
  deadline, since the code rechecks `now()` and rearms; late firing is the
  default, nothing forces a due timer.
* `queue` is a set, not a sequence: control operations of a Room may run in any
  order. This over-approximates the FIFO.
* Client requests run at the head of the queue in one step. Requests that are
  refused change nothing and have no action, with one exception that matters:
  a resume past its grace expires the session.
* `Halt` is a crash, a failed save, a save whose answer is lost, or a shutdown.
  The call in flight may have landed. Memory and the queue are gone.
* `Recover` is `initialize`: expired Rooms are removed, every session must come
  back within its saved deadline or the restart grace, and sessions already
  overdue end before clients are admitted. The Room revision is kept as saved
  (`docs/v2/V2_PERSISTENCE_RECOVERY.md`).
* `CreateRoom` waits until the queue of a closed Room has drained; the reuse of
  a Room code before that is `WritesOwnRoom` of `ServerProcess`.

### GameCommands and CommandLedger

`Replay`, `ExecuteAccepted` and `ExecuteRejected` are the three outcomes of
`#executeHuman`; requests arrive in any order and any number of times, so
delivery and retries are not trusted. `task` is the operation that holds the
queue: `"save"` while its commit is awaited and `"choose"` while an AI choice is.
A command is answered when its AI loop ends. `game` and `disk` are the session in
memory and in the record; `applied` and `forgotten` are history inside them, so a
crash rolls them back too. `shown` is the newest publication a client has seen,
and `answers` everything clients have been told.

The engine is abstract: a command at the expected version either is a transition
(which may end the game) or is refused by some rule; at another version it is
refused. The presence epoch that makes the AI loop choose again is abstracted:
any choice is possible at any turn.

`CommandLedger` is the promise: an append-only history, one transition per
version, each request at most once at the version it expected, and every
accepted request in it. Its `history` is mapped to the *durable* log, so the
refinement says that no promise depends on memory.

### TransportAttachment

Socket handlers, queue, and the latch together. `sockets` holds
`data.sessionId` and `attachmentPending`, `active` is `activeSockets`, `queue` is
the FIFO with the running operation at its head, and `settled` is the caller of a
committed resume, whose continuation attaches the socket. `game` is what the
game session knows: its latch, its own copy of the absent Humans, a version.

* JavaScript runs socket events and timers only when no promise reaction is due
  (`Event`): a commit that has finished settles its caller first, and an idle
  queue begins a new operation before the next event. Whether the continuation of an operation
  runs before or after the beginning of the next is left open.
* Grace periods are abstract: once armed, one may end at any moment, before or
  after a late resume.
* A commit always succeeds here; failures are in `RoomLifecycle.Halt`.
* A control operation refused by a full queue is modelled as the code has it: a
  lost disconnect is dropped, a timer disposes the service. At the checked
  bounds the ordinary positions are exhausted and the control positions never
  are; what their exhaustion leads to is a hazard without a property.

### MysqlStore and RecordStore

A store belongs to one server process. `revisions` is its `#revisions`, `tx` the
transaction it runs for a Room (the Room queue keeps them one at a time, the pool
keeps `PoolSize` in all), `keys` and `read` its load. Every statement is an
action: the lock on the metadata row (`Admit`), the count, the insertion, the
guarded UPDATE or DELETE (`ChangeRow`), COMMIT, and the return that moves the
believed revision (`Answer`). A statement that fails ends the transaction
(`Fail`); a time limit or a lost connection leaves it to the database
(`Abandon`, then `Commit` or `Rollback`). Either closes the store for good.

Of InnoDB only this is assumed: a write or `FOR UPDATE` waits for the row's lock
and then sees the newest committed row; locks last to the end of the
transaction; COMMIT is atomic. Gap locks and the scans of the quarantine
statements, which lock more, are left out: the model allows more interleavings.
`payload` is the set of writes a record was built from, so overwriting is
visible. Left out: schema checks, quarantine of rows that do not decode or share
a session, a removal without a known revision (the service removes only Rooms it
saved or loaded), and a wait for a connection that ends in a failure, which has
the effect of a transaction that fails at once.

`RecordStore` is the promise: a write is built on all the record held, a removal
takes everything, and only what took effect is acknowledged. `removed`, `acked`
and `due` are history. The repository supports one server only
(`docs/v2/ADR-V2-0014-mysql-aggregate-persistence.md:44`); two are in the instance because a
restart overlaps them.

### CommandDelivery

One browser with one session, from an attached game on. `active` is the command
`#deliver` works on with the point it has reached (`stage`, one per `await`),
`queue`, `resync` and `view` are the gateway's fields, `task` says that
`#snapshotTask` is pending and `resuming` that `#resumePromise` is. `link` is
the connection as the two gateways see it; `"open"` is connected but not yet
attached. A channel is a sequence, and `Pick` what is left of it at the positions kept. The server is reduced to what a browser can tell: its own view of the
connection (`served`, which may be stale), the commands that wait in the Room's
FIFO, the answer being held back, and the versions and results of the game,
which survive a restart as `GameCommands` shows.

* Messages of one connection arrive in order, in both directions. A loss empties
  them, except that any prefix of the commands under way may still arrive.
* A promise reaction runs before the next event of the browser (`Due`).
* Requests with a time limit (`game:command`, `game:request-snapshot`) fail at
  the loss of the connection; `session:resume` has no time limit, and Socket.IO
  drops the callback of such a request (client 4.8). Nor does its client
  reconnect after a disconnection by the server. Both are external facts.
* A time limit may pass at any time. A late answer to a command is ignored, since
  it is one of an older attempt.
* Updates that the server sends are published before the command that caused
  them is answered. A refusal of a command by a rule, or because the game is
  paused, and the refusal of a resume are always possible.
* Moves of others may happen while an answer is held back, which includes the AI
  seats' moves the code makes then.
* Left out: a second request after a malformed snapshot, a change of game or
  seat under the gateway, and disposal.

On one connection the server's views arrive in order, and a loss discards those
under way, so the gateway's refusal of older views (`Newer`) is a second line of
defence in this model: TLC finds the view monotone without it, and no property
is stated about it. What it could break, by refusing too much, is watched by
`StaleIsFlagged`.

`Ledger` maps what the player was told: the refinement says that the promise of
`CommandLedger`, which `GameCommands` keeps at the server, still holds when it is
seen through retries, replays and reconnections.

### BoardRules, GameEngine, GameInvariants

One action per kind of command, translated from its handler: `Accepts...` is
what the handler checks, and the action is that guard with everything the handler
changes, the reconciliation of awards and victory included. A command that is
refused changes nothing and has no action. Checks that many handlers share
(`InTurn`, `Decides`) and helpers (`Pay`, `Reconcile`, `ResolveVictory`) are
operators of their own. The board is a constant, so boards of a few vertices are
enough for what depends on shape, such as roads that meet or are cut.

Randomness is a choice: who begins, the deck, the dice, the stolen card. The
version a command expects belongs to `GameCommands`. `Sites`, `Terms`,
`Transferable` and `Rolls` bound what players try and which totals each turn may draw, not
what the engine does: after the last of `Rolls` nobody rolls, everything before is open.

The longest road is a recursive function over the roads used, as the search of
the code is (`rules/longest-road.ts`); `LongestRoadIsLongest` compares it with a
definition by sets of trails that grow road by road.

`GameInvariants` holds the assertions of `packages/game-core/src/engine`
(`assertNormalTurnState` and its like), which run on every command's state before
and after. A state that breaks one makes every later command throw.

### TurnOrder

What is left of a game when the board is forgotten: the order, the setup that
runs through it and back, whose turn it is, the one card of a turn, who owes an
answer, and how many more answers of one player can follow at most. `FollowsTurns`
is the refinement of it by the whole engine, with `Shown` as the mapping.
`LocalGame` uses its operators as the game, so that a gateway can be explored
over all games without a board.

### PlayerView and AiAgent

`LegalActions` is the view's second statement of the rules
(`selectors/player-view.ts`), `ViewMatchesEngine` compares it with the guards of
the engine for every target of every command. `Hidden` collects what the view is
a function of and a player may not know; `Twins` are the states that differ from
the present one only in it, and `ViewIsPrivate` demands the same view in all.
`Permitted` is what the page enables its buttons by (`ui/panels/ActionPanel.tsx:20`).

The agents score candidates; which one wins depends on weights, a personality
and simulated games. `Answers` is the set of all commands that some scores select, so
`AiChoosesLegally` holds for every tuning of them. How often a command may be
repeated in a turn is only in `Fallback`.

### LocalGame

An operation of `LocalGameGateway` runs from its call to its end in steps, one
per `await`: `step` says what it waits for. The buttons of the page are disabled
meanwhile, so operations follow one another; a failed write and the end of the
page may come between any two steps. A save holds the counts of the turn with the
game, `tally` recounts them for comparison. The budget of a turn counts the
Human's commands too (`acceptTransition`), although `docs/AI_DESIGN.md:236` calls
it the maximum of AI commands per turn.

After a failed write the loop has ended, `aiThinking` is still shown and nobody
moves until the player loads the save or starts anew: the model has this as the
code does, and `OperationsEnd` counts it as an end, with an error shown.

### RequestLimiter and ServerProcess

`RequestLimiter` is the limiter as operators on its buckets; `ServerProcess`
places it in front of connections and requests. Tokens are whole and time comes
in ticks of the limiter's clock. The Rooms are reduced to what several of them share: codes, sessions,
the queues, writes that wait, and the service's `stopping` and `disposed`.
`awaited` is what `shutdown` or `dispose` has collected of `idle()` promises, as
the number of operations ahead of them. An HTTP request is a connection whose
client reads at its own pace.

## 3. What the runs show

Every passing run explores its whole state space; every property of a passing
run has a mutant (a plausible bug, defined beside the action it replaces and
marked `mutant`) that violates it under the same configuration. Each model with
a run has one type invariant at most; where it is part of a run it is a conjunct
of the invariant that holds the component together.

| run | instance | shows |
|---|---|---|
| `room_lobby` | 2 seats, 2 sessions, revision below 6, from nothing or from a started game of 2 Humans, timers up to 1 early, 1 halt | `RoomHoldsTogether` (valid records, durability, the countdown), `HostCanDecide`, `TimersCover`, `EndedStaysEnded`, `GraceHonoured`, `RevisionIdentifies`, `PublishedNeverRegresses` |
| `room_ends` | the same, revision below 4, timers never early, with fairness | `RoomEndsWithoutPlayers` |
| `game_commands` | 2 players, 4 requests (one reuses an identifier), cache of 1, 1 halt | durability, agreement of answers, ordered publications, refinement of `CommandLedger`, and `Inductive` |
| `transport` | 2 sessions, 3 sockets, 3 queue positions, 2 losses, 2 resumes each | one transport per session and no orphan seat (`AttachmentsAgree`), pauses end, no progress without everybody, resumes supersede queued work |
| `mysql_store` | 2 processes, 2 Rooms, room for 1, 4 saves | `WithinLimit`, `RecoversAcked`, refinement of `RecordStore` |
| `delivery` | 2 submissions or 1 and a snapshot asked for, queue of 2, 1 retry, 1 loss of any kind, a disconnection by the server included; a game of 2 transitions; fairness for the browser only | `ReportsAreTrue`, `StaleIsFlagged`, refinement of `CommandLedger`, `SubmissionsSettle` |
| `isles_turns` | 3 players, 15 vertices in branches, the last two out of play, 4 full turns, no cards, no trades | `NobodyPlaysOn`, `AwardsAreEarned`, `LongestRoadIsLongest` |
| `isles_cards` | 3 players, 14 vertices, the last two out of play, 4 full turns with all five kinds of card, sevens, two ports, an offer and its counter-offers | `AssertionsHold`, `ViewMatchesEngine`, `ViewIsPrivate`, `AiChoosesLegally`, refinement of `TurnOrder` |
| `local_games` | 1 Human, 2 computer players, budget of 9, 1 failed write, 1 reload, with fairness | `SavedIsDurable`, `CountsAreOfThisTurn`, `OperationsEnd` |
| `server_process` | 2 connections, 2 Rooms, 3 sessions over time, a shutdown at any time, with fairness; 6 requests, or 4 and 1 failed write, or 1 request while the limiter's clock ticks twice | `QuietAfterDrain`, `WithinBudget`, `NobodyStarves`, `WritesOwnRoom`, `ShutdownEnds` |
| `delivery_resume`, `transport_newest` | 2 losses, no commands; as `transport` | counterexamples, section 4 |

Three more configurations stay outside the list, for use while the modules
change: `MCRoomGame.cfg` (a started game of three Humans: `RoomHoldsTogether`,
`HostCanDecide`; passes), and `MCTransportPause.cfg` and `MCDeliveryForfeit.cfg`
(counterexamples, section 4).

Bounds. `Horizon` and `MaxRevision` limit what clients start, not what the
server finishes: timers, expiries and recovery run on beyond them. A horizon of
two with grace 1 and time-to-live 2 is enough for a disconnection, its expiry
and a second disconnection or a restart in between, which is where deadlines can
be confused. Three sessions, with which the Host may pass to one of two others,
are in `MCRoomGame.cfg`. Two recoveries add nothing to one, since
recovery starts from a record that an ordinary save could have written; one halt
keeps the runs short, and the theorems of section 5 have no such bound. Five
revisions let a started game lose, expire and replace a player after the Room
was touched before. `room_ends` has exact timers: `TimersCover` shows that an early one is
always armed again. In
`game_commands` a cache of one forces evictions with two commands. In
`transport` two losses and two resumes of each session give the overlap of one
connection's disconnect with another's resume on both sides, and three positions are filled by
one resume of each session and a command or a third socket's resume.
In `mysql_store` fencing concerns pairs of writers, and four saves are one more than
it takes to create, load, remove, create again and update late, the case the
incarnation is for. In `delivery` the second command queues behind the first, so that it is retried,
overtaken by others' moves, or cancelled by the end of the game; one loss puts an
answer, its snapshot and the retry on different connections; with a loss there is one submission or
one transition (`OneAtATime`, which only excludes steps that no fairness asks for). `FinalVersion` 2
is the least game in which a command applied twice is seen. A snapshot asked
for by hand behaves like those the gateway asks for itself, and takes the place
of a command.
In the two engine runs the
board is a constant of a few vertices with the hexagons' features that matter: a
vertex where three roads meet, one where a settlement cuts a road, a tile that two
players share, a port of each kind, a row where roads run out. Costs are one or
two cards and two resources are enough to tell giving from getting; the numbers (limits of
pieces, hand limit, points to win) are scaled so that each is met: road and
settlement limits, a bank that runs short, discards by one or several players, a
win by award. In the fourth turn
the first player can play, before or after the dice, what it bought in its first; two shuffles and two cards bought put
each kind of card there. Which turns may draw a seven is fixed by `Sevens`. `isles_turns`
leaves cards and trades out so that building goes further: pieces run out, the longest
road is cut and changes hands, a win comes with an opponent's settlement.
In `local_games` the budget of 9 leaves room for the dice, discards, the robber, a
card and some builds, and computer players that go on building reach it; `MaxKeys` lets the
Human pass it. In `server_process` two Rooms and three sessions
give one code used twice while another Room is open and a table of buckets that is full.
`room_lobby` and `room_ends` start also in a just-started game, a state that
some joins and one start lead to, to spend their bounds on the game.
Sessions and sockets are interchangeable in the `SYMMETRY` runs (identifiers are
random and only compared); the liveness runs use none.

`CHECK_DEADLOCK FALSE` is set where the system really may stop: clients need not
do anything, and the bounds end their activity. `game_commands` checks deadlock:
its session always has a move, and so do the two engine runs and
`local_games`: nobody is ever without a command to send (`Stopped` is the end of a
game or of the bound on turns).

Fairness. For `RoomEndsWithoutPlayers`: queued operations run, due
timers fire, the store answers or the service is disposed, a stopped process is
started again, and time passes. The first two are the event loop, the third is
the repository's own time limits (a failing call disposes the service), the
fourth the restart policy. Clients promise nothing, and `Halt` is never fair.
For `SubmissionsSettle`: the browser's promise reactions run and its timers pass
(`BrowserFairness`); messages need not arrive and a lost connection need not
return, so it is the time limits alone that settle a command. For
`OperationsEnd`: the storage answers and an agent computes its command. For
`ShutdownEnds`: queues go on, writes settle (the store has time limits), and the
phases of the shutdown follow one another, the ten-second timer among them;
clients promise nothing. The counterexample to `SessionReturns` has `FairSpec`, in which the network and
the server work whenever they are not failing; the session stays away although
everything else is in order.

## 4. Findings

The first two are runs that end in a counterexample, the next two are found by the
extra configurations named.

* **A late disconnect undoes a resume** (`transport_newest`). The newest valid
  resume wins, says `docs/v2/ADR-V2-0005-session-recovery-and-room-lifecycle.md:21`.
  `#markDisconnected` looks at the seat, not at the transport it was called for.
  If the old socket closes while the new one's resume is being committed, the
  disconnect runs after it: the seat becomes `RECONNECTING` and its grace runs
  although its newest transport is attached. The player has to resume again.
* **An unanswered resume blocks later ones** (`delivery_resume`). When the
  connection is lost between `session:resume` and its answer, `#resumePromise`
  (`src/application/gateways/socket-lobby-gateway.ts:158`) stays pending, and on
  every later connection `server:hello` is handed that promise instead of
  sending a resume. Automatic resumption
  (`docs/v2/V2_GOAL_A_PROGRESS.md:205`) does not happen until the page is
  reloaded, and the seat may expire meanwhile.
* **A resume releases somebody else's pause** (`MCTransportPause.cfg`, `PauseIsImmediate`). Disconnects
  pause progress immediately, says `README.md:81`. The latch is one bit for all
  sessions: a resume that was queued before another session's loss clears it
  when it installs its presence list, and a third player's command queued
  between resume and disconnect is applied.
* **A busy Room costs the seat** (`MCDeliveryForfeit.cfg`, `ForfeitsOnlyEnded`). Any refused resume clears
  the credential (`socket-lobby-gateway.ts:426`), also one that says that the
  Room is busy and to retry shortly (`server/src/lobby/room-service.ts:250`).

Two more, which the models contain and no run is spent on. The latch is set
before a resume asks for a place in the queue (`server/src/lobby/room-service.ts:269`),
so one that is refused `GAME_BUSY` leaves a game of connected Humans paused until
the next presence change; `PauseEnds` shows that this is the only way a pause
outlasts its cause. And a slow consumer, which resumes from a fresh view
according to `docs/v2/V2_PROTOCOL.md:26`, does not: after
`socket.disconnect(true)` (`register-lobby-handlers.ts:173`) the Socket.IO client does not
reconnect and nothing calls `connect` (`Cut`, `ReceiveCut`; with `SlowConsumer`
one loss is enough to violate `SessionReturns`).

A command that was applied may be reported as failed: when the snapshot that
should confirm an acceptance is refused, times out or is older
(`socket-game-gateway.ts:168`), or the retries run out. The code calls that outcome
uncertain, so `ReportsAreTrue` demands nothing of `"failed"`.

## 5. What is proved

The proof modules extend the component's module (`PersistenceProofs` both keepers of a
game that outlive a process, `PlayerProofs` the proofs of the engine), add no assumption of their
own, and are checked by TLAPS for every value of the constants that the named
assumptions of the models allow. Bounds of the models (`MaxRevision`,
`MaxCommands`, `MaxLosses` and the like) are constants too, so a theorem holds
for any of them. The
assumptions say that `None` is not one of the values it stands beside
(`NoneIsNothing` in `RoomLifecycle`, the conditions on `None`, in `LocalGame` on `Null`,
elsewhere), that numbers are
numbers and limits positive where the configuration demands it
(`server/src/config.ts`), and the shape of what is drawn or configured
(`OrdersAssumption`, `LimiterAssumption`, `BoardAssumption` with finitely many
tiles and at least one vertex; `EngineAssumption` with at least two seats, more than two points to win
and shuffles that have every card once; `ViewAssumption`, that an Invention card
asks for two resources, which `rules/development-card-rules.ts:113` demands
and `selectors/player-view.ts:155` lists as pairs). `RoomAssumption` in `AiAgent` is about
the size of the board, since on a board that is too small the setup has no place
left and nobody has an answer: two tiles, a second road and a second settlement for
everybody (15 and 5, `rules/initial-road-rules.ts:21`,
`rules/initial-settlement-rules.ts:20`), an edge at every vertex, and a free
vertex without neighbours beside fewer settlements than the setup has in all. The
board of the game has 19 tiles and 54 vertices with two or three neighbours
(`board/topology-invariants.ts:165` and 306): seven settlements block at most
28 of the vertices. The boards TLC uses satisfy it too; each has one edge out of reach for that,
which changes nothing that is reached.

| theorem | statement |
|---|---|
| **`GameCommandsProofs`** | any sessions, requests, cache limit, restarts |
| `InductiveInvariant` | `[]Inductive` |
| `TypeCorrect` | `[]TypeOK` |
| `CommandsApplyAtMostOnce` | `[]AtMostOnce` |
| `AcceptedCommandsSurvive` | `[]AcceptedIsDurable` |
| `AnswersAgree` | `[]VerdictsAgree` |
| `CacheStaysBounded` | `[]CacheBounded` |
| `RefusalsAreHonest` | `[]RefusedNotApplied` |
| `PublicationsAdvance` | `PublicationOrder` |
| `ImplementsLedger` | `KeepsLedger`, the refinement of `CommandLedger` |
| **`RoomProofs`** | any seats, sessions, delays, early timers, restarts |
| `RoomInvariantHolds` | `[]RoomInvariant` |
| `RoomAlwaysHoldsTogether` | `[]RoomHoldsTogether` |
| `HostCanAlwaysDecide` | `[]HostCanDecide` |
| `TimersAlwaysCover` | `[]TimersCover` |
| `EndedSessionsStayEnded` | `[]EndedStaysEnded` |
| `GraceIsHonoured` | `GraceHonoured` |
| `RevisionsIdentify` | `RevisionIdentifies` |
| `RevisionsNeverRegress` | `PublishedNeverRegresses` |
| **`TransportProofs`** | any sessions, sockets, capacities |
| `TransportInvariantHolds` | `[]TransportInvariant` |
| `OneTransportPerSession` | `[](TypeOK /\ OneTransport)` |
| `AdvancesWithEveryone` | `ProgressNeedsEveryone` |
| `ResumesSupersede` | `ResumeSupersedes` |
| `PauseEndsWhenAllConnected` | `[]ControlFits => []PauseEnds` |
| `AttachmentsAlwaysAgree` | `[]ControlFits => []AttachmentsAgree` |
| **`PersistenceProofs`**, `MysqlStore` | any processes, Rooms, writes, pool size |
| `StoreInvariantHolds` | `[]StoreInvariant` |
| `StaysWithinLimit` | `[]WithinLimit` |
| `LoadRecoversAcked` | `[]RecoversAcked` |
| `ImplementsRecords` | `KeepsRecords`, the refinement of `RecordStore` |
| **`ServerProcessProofs`** | any clients, codes, capacities and rates |
| `QueueInvariantHolds` | `[]QueueInvariant` |
| `NothingWrittenAfterDrain` | `[]QuietAfterDrain` |
| `WritesBelong` | `[]WritesOwnRoom` |
| `LimiterInvariantHolds` | `[](QueueInvariant /\ LimiterInvariant)` |
| `StaysWithinBudget` | `[]WithinBudget` |
| `NobodyEverStarves` | `[]NobodyStarves` |
| **`CommandDeliveryProofs`** | any commands, queue, retries, losses |
| `DeliveryInvariantHolds` | `[]DeliveryInvariant` |
| `DeliveryTypeCorrect` | `[]TypeOK` |
| `ReportsAlwaysTrue` | `[]ReportsAreTrue` |
| `StaleAlwaysFlagged` | `[]StaleIsFlagged` |
| `DeliveryKeepsLedger` | `KeepsLedger`, the refinement of `CommandLedger` |
| **`PersistenceProofs`**, `LocalGame` | any players, orders, budget, failed writes, reloads |
| `LocalInvariantHolds` | `[]LocalInvariant` |
| `SavedMeansSaved` | `[]SavedIsDurable` |
| `CountsFollowTheTurn` | `[]CountsAreOfThisTurn` |
| **`EngineProofs`** | any board, deck, prices, limits, dice, number of players |
| `TurnsHold` | `[](TurnInvariant /\ CardsFit)` |
| `TurnsAreFollowed` | `FollowsTurns`, the refinement of `TurnOrder` |
| `NobodyPlaysOnHolds` | `[]NobodyPlaysOn` |
| `CardsAreConserved` | `[](ResourceState /\ Conserved)` |
| `HoldersDeserve` | `[](LongestRoad /\ LargestArmy)` |
| `AwardsAreEarnedHolds` | `AwardsAreEarned` |
| `AssertionsHoldAlways` | `[]AssertionsHold` |
| `LongestRoadIsLongestHolds` | `[]LongestRoadIsLongest` |
| **`PlayerProofs`** | the same |
| `ViewMatchesEngineHolds` | `[]ViewMatchesEngine` |
| `ViewIsPrivateHolds` | `[]ViewIsPrivate` |
| `AiChoosesLegallyHolds` | `[]AiChoosesLegally` |

Every statement is `Spec => ...`. None of the properties is inductive alone, and each module
opens with the invariant that is. The argument in each:

* **GameCommands.** That a request is applied once needs one transition per
  version and each Human transition at the version its request expected
  (`LogOK`); that a retry replays needs every applied request to be retained or
  forgotten (`AppliedOK`) and every retained success to be applied (`CacheOK`);
  that answers agree with them needs `AnswersOK`. All of this has to hold twice,
  for `game` and for `disk`, because a halt replaces one by the other, and a step
  is safe only because memory is ahead of the disk by at most the one operation
  that awaits its commit (`TaskOK`, `StepOK`) and under a newer publication
  revision (`PublishedOK`).
* **RoomLifecycle.** What the record schema demands of a Room is not preserved by itself.
  `Sound` adds that seats and sessions own each other (`Owned`), that a seat's
  status follows its deadline and its session (`Connection`), that the game
  still has the Humans it was started with or their replacements (`Seated`), its
  copy of presence and countdown (`Synced`), and that the countdown has a reason
  exactly while it runs (`Counting`). `Covered` gives every deadline a timer or a
  queued expiry. A halt exchanges memory for the record, so `Sound` holds of the record
  too (`DiskSound`), and `Durable` says when the two are equal. `Past` ties what clients were told to both: without it a
  session that ended could be found again by a recovery. Helpers of the service
  are lemmas from a fit Room to a fit Room, operations compose them, and each
  step has one lemma.
* **TransportAttachment.** A command carries the epoch it was sent in;
  `Superseding` says that one of the current epoch has seen the newest resume,
  which outlives reconnections because a resume and the epoch change together.
  `PresenceKnown` makes the game's copy of who is absent the Room's. That a pause
  ends and that no seat is orphaned (`PauseHeld`, `LossNoticed`) need a queued
  operation or a continuation to point at. A disconnect that finds the sixteen
  control positions taken is dropped by the code, and its seat stays connected
  without a transport: the two theorems therefore have the condition
  `[]ControlFits`, that there is always a position left. TLC's instances have
  enough positions for it, and nothing in the code guarantees it in general (the
  hazard at `server/src/game/game-execution-queue.ts:24`).
* **MysqlStore.** `Believes`: whatever a process has read or saved of a Room was
  a row of it, not newer than the present row of its incarnation, and equal to it at the same
  version. Together with what a statement that has run relies on until its
  transaction ends (`LockOK`), and one admitted insert at a time (`ExclusionOK`,
  `RoomLeft`), a commit is one atomic conditional replacement. `DueOK` follows what
  was acknowledged through the reads of a load.
* **ServerProcess.** A shutdown waits for every creation (`Awaits`) because that
  is the only queued operation whose check of `stopping` is already behind it;
  an operation of a session that exists is in the queue of its own Room
  (`AtHome`), and a session is born before a socket speaks for it (`Newborn`).
  For the limiter, a full bucket and the refill bound what was admitted together
  with what is left (`MeterOK`); a full table is no reason to refuse a session,
  since buckets belong to sessions that exist (`Shaped`).
* **CommandDelivery.** `Truthful`: the server keeps one verdict on a request, and
  every answer in a queue, in flight or held by the gateway is backed by it.
  `Settled`: a command waits in one place, and in none once it was reported.
  Views in flight are ordered, the last one published is the server's (`Ordered`,
  `Latest`), and a browser with no view under way has that view, awaits a snapshot, or is
  flagged (`Flagged`), provided a connection the server let go of is told so
  (`Noticed`). The refinement maps `Execute` and `OtherMove` to `Append` and the
  report of a success to `Accept`; every other step stutters.
* **LocalGame.** The counts in memory and in a readable save are of the turn
  their game is in (`Sound`), which the next turn always changes
  (`NextTurnFacts`, over any order of players); a game stays playable whatever
  is done (`AfterFacts`), and a page or an operation always has one (`Held`).
* **GameEngine.** Which decision is open says which phase the turn is in and whom
  it asks (`DecisionFits`); the phase says whether the dice were rolled and
  whether the setup is over (`TurnFits`). Most commands end in one of three
  ways, each with one lemma: they settle what was open (`SettledFits`), open a
  decision (`OpenFits`), or take one of several answers. The refinement shows of
  each of these what `TurnOrder` sees of it (`SettledShows`, `AskingFollows`).
  That nobody plays on needs more than points: while a knight's robber is open
  the award it brought is not counted yet (`NotWonYet`), and in the setup
  the first player's settlements are counted (`SetupScore`), so that a game that starts with
  more than two points to win does not begin with a winner.
  The assertions of the engine need more still (`AllFit`). Resources: the bank's
  and the players' cards of each kind add up (`Balanced`) and an open offer is
  covered by its author (`OfferFits`). Awards: whoever holds one has
  the most (`AwardsFit`). Board: pieces run out (`BoardFits`). Decisions: the
  phase asks for what is open, discards are halves of hands that have not
  changed since, the robber's targets are those it found (`AsksFit`). The setup:
  the settlement that waits for its road, and a game with nothing built
  (`SetupFits`). Cards: every card is in the deck or with one player, once, and
  played knights are counted (`CardsKnown`); a winner has the points to win
  (`WinnerFits`), and behind every card's decision stands a card its
  player has played (`EffectFits`). Sums over players and the search for the longest
  road are recursive: that the recursions have a value is proved by induction
  over subsets (`SubsetInduction`), and so is what a sum does when a value changes
  and that lengths are numbers.
  That the search finds a longest trail goes both ways: no trail is longer than
  the search says of any part of it (`Sound`, along the walk of trails), and
  from every trail one can walk on as far as the search says (`WalkAttains`).
  The view and the engine state each rule in their own words, and they agree only in
  states a game can reach: the phase says which decision is open and whom it asks
  (`PhaseAsks`), a discard that is owed can be put together from the hand it is
  owed from (`PartOfBag`), the author of an open offer can provide what it
  promises (`OfferFits`). That a view gives nothing away rests on what it is made
  of (`SameView`): the player's own hand and cards, numbers of those of others,
  and what lies open. The three exchanges of `Twins` leave these alone: hands of
  the same size, cards that the player cannot have seen because each is in one
  place (`HeldOnce`), the two sides of an offer between others.
  What an agent answers is legal because its proposals come from what the view
  lists, which is what the engine accepts (`ViewMatchesEngine` and one lemma for each kind of
  answer, gathered in `Fine`). That it has an answer at all needs more: no more settlements than
  turns of the setup so far (`SetupRoom`, with `RoomAssumption` a site is left), a
  card's effect that is open can still be had (`EffectCanEnd`: a free road has
  an edge, an invention its resources), free roads are asked for in the phase
  in which they are placed (`FreeRoadsAsked`), and an agent that takes the
  most of what it has first reaches the size of the discard it owes (`GreedyPart`).

Lemmas about data that several steps need come first: the bounded cache, what
`Pick` leaves of a channel, the first of a set of seats, folds of the service's
helpers, tails and concatenations of queues. Where TLC can, it checked the
invariants on the instances of section 3 before they were proved.

Only model-checked:

* `RoomEndsWithoutPlayers`, `SubmissionsSettle`, `OperationsEnd` and
  `ShutdownEnds`: liveness under fairness, and `ENABLED`.
* That `ControlFits` holds, as it does in the runs, and the two findings that are runs.

## 6. What is not modelled, and the plan

Not modelled, and why:

* Board generation: fixed tables and a seeded shuffle, with golden tests. Seeded
  generators and the order in which dice are drawn: a choice in the models.
* The scores, personalities and simulations of the AI: a choice among what they
  choose from. Events of the engine and their views per player.
* Wire schemas, identifiers, tokens, the user interface, deployment and
  configuration. They keep no state that another component's order of steps
  could disturb.
* Lobby requests of the browser (create, join, ready, start), which have no time
  limit either; the server's side of them is `RoomLifecycle`.
* The SQLite store, a single-connection store for development, and the
  quarantine of rows that do not decode.
* In single player: two tabs that share one save, the import of older formats,
  the limit of 20000 commands in a game.
* In the limiter: fractions of a token, the count of refusals for the log. Joins
  and resumes are further values of `Attaching`.
* Sixteen control positions that are all taken (`game-execution-queue.ts:24`).
  `TransportAttachment` has the refusals, the run does not reach them.
* The presence epoch that makes the AI loop choose again (`game-session.ts:475`),
  since any legal choice may be applied.

To do:

1. The lobby requests of the browser, composed with `RoomLifecycle`'s revisions.

The cache of results is bounded by design (`docs/KNOWN_LIMITATIONS.md:39`), so
the properties speak of requests whose result has not been forgotten.
