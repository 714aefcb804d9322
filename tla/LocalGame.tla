----------------------------- MODULE LocalGame -----------------------------
(***************************************************************************)
(* The single-player game in the browser: LocalGameGateway runs the        *)
(* computer players up to the next decision of the Human and saves the     *)
(* game after every command it accepts.  The game itself is TurnOrder,     *)
(* which GameEngine implements; that the engine accepts what an agent      *)
(* answers is AiChoosesLegally.                                            *)
(*                                                                         *)
(* The buttons are disabled while an operation is under way, so operations *)
(* follow one another; what may come between two steps of one is a failed  *)
(* write and the end of the page.  The limit of 20000 commands in a game   *)
(* is not modelled.                                                        *)
(***************************************************************************)
EXTENDS Naturals, Sequences, FiniteSets, SequencesExt, FiniteSetsExt


CONSTANTS Players, Orders,
          Null,                 \* null: no game, no save, no winner
          Human,
          Corrupt,              \* a stored text parseGameSave refuses
          Budget,               \* maxCommandsPerTurn
          Attempts,             \* maximumTradeAttempts
          MaxFailures, MaxReloads,      \* bounds: failed writes, reloads of the page
          MaxKeys               \* bound: commands in a turn of the Human

ASSUME OrdersAssumption ==
  /\ Human \in Players /\ Null \notin Players \cup Nat
  /\ Budget \in Nat /\ Attempts \in Nat /\ MaxKeys \in Nat
  /\ \A order \in Orders : /\ order \in Seq(Players) /\ Len(order) > 1
                           /\ ToSet(order) = Players /\ IsInjective(order)

VARIABLES memory,     \* the gateway: [game, identity, keys, offers], or Null
          disk,       \* the latest save: the same, Null or Corrupt
          tally,      \* history, part of a save: how many commands the turn has had
          screen, offered,      \* the page, and its Continue button
          saveStatus, aiThinking, error,
          step,       \* "idle", or what the operation awaits
          then,       \* what follows the write: "run" the AI, or "done"
          failures, reloads

localVars == <<memory, disk, tally, screen, offered, saveStatus, aiThinking, error, step, then, failures, reloads>>

Turns == INSTANCE TurnOrder WITH None <- Null, game <- memory.game

Envelope == [memory |-> memory, tally |-> tally]
Readable(save) == save \notin {Null, Corrupt}

Fresh == /\ memory = Null /\ tally = 0
         /\ screen = "HOME" /\ offered = Readable(disk)
         /\ saveStatus = "IDLE" /\ aiThinking = FALSE /\ error = Null
         /\ step = "idle" /\ then = "done"

LocalInit == disk \in {Null, Corrupt} /\ Fresh /\ failures = 0 /\ reloads = 0

Game == memory.game

DecisionActor(g) ==
  LET owing == {i \in DOMAIN g.order : g.order[i] \in g.owing}
  IN  IF owing = {} THEN g.current ELSE g.order[Min(owing)]

TrackedAnew(m) == [m EXCEPT !.identity = Turns!Identity(m.game), !.keys = 0, !.offers = 0]   \* mutant: in every turn, again and again
\* refreshTurnTracking
Tracked(m) ==
  IF Turns!Identity(m.game) = m.identity THEN m
  ELSE [m EXCEPT !.identity = Turns!Identity(m.game), !.keys = 0, !.offers = 0]

\* The tally stops beyond what the guards allow a turn.
Counted == IF tally > Budget + MaxKeys THEN tally ELSE tally + 1

AcceptQuietly(g) ==   \* mutant: the last save is still said to be current
  LET counted == [memory EXCEPT !.game = g, !.keys = @ + 1]
  IN  /\ memory' = Tracked(counted)
      /\ tally' = IF Turns!Identity(g) = Turns!Identity(Game) THEN Counted ELSE 0
      /\ step' = "write" /\ then' = "run" /\ UNCHANGED saveStatus
\* acceptTransition: the command counts for the turn it leaves the game in.
Accept(g) ==
  LET proposes == Game.owing = {} /\ Game.half = 2 /\ g.more = 1 /\ g.owing # {g.current}
      counted == [memory EXCEPT !.game = g, !.keys = @ + 1, !.offers = @ + (IF proposes THEN 1 ELSE 0)]
      sameTurn == Turns!Identity(g) = Turns!Identity(Game)
  IN  /\ memory' = Tracked(counted)
      /\ tally' = IF sameTurn THEN Counted ELSE 0
      /\ step' = "write" /\ then' = "run" /\ saveStatus' = "SAVING"

-----------------------------------------------------------------------------
(* What the player starts.                                                 *)

\* Start on the first page, Restart in a game.
CreateGame ==
  /\ step = "idle"
  /\ \E order \in Orders :
       LET g == Turns!NewGame(order)
       IN  memory' = [game |-> g, identity |-> Turns!Identity(g), keys |-> 0, offers |-> 0]
  /\ tally' = 0
  /\ error' = Null /\ saveStatus' = "SAVING" /\ step' = "write" /\ then' = "run"
  /\ UNCHANGED <<disk, screen, offered, aiThinking, failures, reloads>>

Submit ==
  /\ step = "idle" /\ screen = "GAME"
  /\ memory.keys < MaxKeys
  /\ \E g \in Turns!After(Game, Human) : Accept(g)
  /\ UNCHANGED <<disk, screen, offered, aiThinking, error, failures, reloads>>

SaveGame ==
  /\ step = "idle" /\ screen = "GAME"
  /\ saveStatus' = "SAVING" /\ step' = "write" /\ then' = "done"
  /\ UNCHANGED <<memory, disk, tally, screen, offered, aiThinking, error, failures, reloads>>

LoadWithoutCounts ==   \* mutant: the turn is counted from the load on
  /\ step = "idle" /\ screen = "HOME" /\ offered /\ Readable(disk)
  /\ memory' = [disk.memory EXCEPT !.keys = 0, !.offers = 0] /\ tally' = disk.tally
  /\ saveStatus' = "SAVED" /\ error' = Null /\ step' = "run"
  /\ UNCHANGED <<disk, screen, offered, aiThinking, then, failures, reloads>>
LoadLatestGame ==
  /\ step = "idle" /\ screen = "HOME" /\ offered
  /\ IF Readable(disk)
     THEN /\ memory' = disk.memory /\ tally' = disk.tally
          /\ saveStatus' = "SAVED" /\ error' = Null /\ step' = "run"
          /\ UNCHANGED aiThinking
     ELSE /\ error' = "load" /\ aiThinking' = FALSE
          /\ UNCHANGED <<memory, tally, saveStatus, step>>
  /\ UNCHANGED <<disk, screen, offered, then, failures, reloads>>

DeleteSavedGame ==
  /\ step = "idle" /\ screen = "HOME" /\ offered
  /\ disk' = Null /\ saveStatus' = "IDLE" /\ offered' = FALSE
  /\ UNCHANGED <<memory, tally, screen, aiThinking, error, step, then, failures, reloads>>

LeaveGame ==
  /\ step = "idle" /\ screen = "GAME"
  /\ screen' = "HOME" /\ offered' = Readable(disk)
  /\ UNCHANGED <<memory, disk, tally, saveStatus, aiThinking, error, step, then, failures, reloads>>

-----------------------------------------------------------------------------
(* The steps of an operation.                                              *)

\* The page follows only an operation that succeeds.
Finish == step' = "idle" /\ screen' = "GAME" /\ offered' = (offered \/ Readable(disk))
SetError(what) == step' = "idle" /\ error' = what

WriteSucceeds ==
  /\ step = "write"
  /\ disk' = Envelope /\ saveStatus' = "SAVED"
  /\ step' = IF then = "run" THEN "run" ELSE "idle"
  /\ UNCHANGED <<memory, tally, screen, offered, aiThinking, error, then, failures, reloads>>

\* The operation ends here, the AI is not run and still shown as thinking.
WriteFails ==
  /\ step = "write" /\ failures < MaxFailures
  /\ failures' = failures + 1
  /\ saveStatus' = "ERROR" /\ SetError("save")
  /\ UNCHANGED <<memory, disk, tally, screen, offered, aiThinking, then, reloads>>

HumansMove(g) == g.winner # Null \/ DecisionActor(g) = Human

\* The computer player gives up where the turn has had its commands, unless
\* it may end the turn.
RunAi ==
  /\ step = "run"
  /\ IF HumansMove(Game)
     THEN /\ aiThinking' = FALSE /\ Finish
          /\ UNCHANGED <<memory, tally, saveStatus, error, then>>
     ELSE IF memory.keys < Budget
     THEN /\ memory' = Tracked(memory) /\ aiThinking' = TRUE /\ step' = "choose"
          /\ UNCHANGED <<tally, screen, offered, saveStatus, error, then>>
     ELSE IF Turns!MayEnd(Game)
     THEN /\ aiThinking' = TRUE
          /\ \E g \in Turns!OrWon(Turns!NextTurn(Game)) : Accept(g)
          /\ UNCHANGED <<screen, offered, error>>
     ELSE /\ aiThinking' = FALSE /\ SetError("ai")
          /\ UNCHANGED <<memory, tally, screen, offered, saveStatus, then>>
  /\ UNCHANGED <<disk, failures, reloads>>

AgentChooses ==
  LET p == DecisionActor(Game)
      free == Game.owing = {}
      choices == IF memory.offers < Attempts \/ ~free THEN Turns!After(Game, p)
                 ELSE Turns!After(Game, p) \ (IF Turns!MayEnd(Game) THEN Turns!Propose(Game) ELSE {})
  IN  /\ step = "choose"
      /\ \E g \in choices : Accept(g)
      /\ UNCHANGED <<disk, screen, offered, aiThinking, error, failures, reloads>>

\* The page is closed or reloaded, at any moment.
Reload ==
  /\ reloads < MaxReloads
  /\ reloads' = reloads + 1
  /\ memory' = Null /\ tally' = 0
  /\ screen' = "HOME" /\ offered' = Readable(disk)
  /\ saveStatus' = "IDLE" /\ aiThinking' = FALSE /\ error' = Null
  /\ step' = "idle" /\ then' = "done"
  /\ UNCHANGED <<disk, failures>>

Proceed == WriteSucceeds \/ WriteFails \/ RunAi \/ AgentChooses

LocalNext ==
  \/ CreateGame \/ Submit \/ SaveGame \/ LoadLatestGame \/ DeleteSavedGame \/ LeaveGame
  \/ Proceed \/ Reload

\* Nothing an operation awaits is for ever: the storage answers, and an agent
\* computes its command.
LocalSpec == LocalInit /\ [][LocalNext]_localVars /\ WF_localVars(Proceed)

-----------------------------------------------------------------------------
(* Properties.                                                             *)

\* "Saved" is said only of the game that is shown: the save then holds it and
\* the counts that go with it, over failed writes, new games and reloads.
SavedIsDurable == saveStatus = "SAVED" => disk = Envelope

\* The commands counted against a turn are those of that turn, also when the
\* turn was begun before the page was closed and is continued from the save.
CountsAreOfThisTurn ==
  memory # Null => memory.keys = tally /\ memory.identity = Turns!Identity(Game)

\* Every operation ends: whatever the computer players choose, they hand over
\* to the Human, win, or stop with an error.
OperationsEnd == step # "idle" ~> step = "idle"

=============================================================================
