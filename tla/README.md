# Verification of the skribbl game server

TLA+ modules for the server of the game (`src/apps/server`) and the client's connection to it
(`src/apps/client`), the TLC runs that check them on small instances and TLAPS proofs of what
matters most for every instance.

## The system

The server is one node process. It keeps each room as one JSON record in Redis, keeps
timers and the RoomManager in its own memory, and talks to the players over Socket.IO.
Every handler has the same shape: read the room, wait, compute the next record with a
pure function, write the record back, wait, arm timers and send events. Nothing
serialises the handlers of a room: neither a lock nor a version.

| component | state | operations | interacts with |
|---|---|---|---|
| room record (`services/game/round/state`, `rules`, `room-repository.ts`) | the record `skribbl:room:<id>` | pure transitions, GET, SET, DEL | every handler |
| game engine (`services/game/engine`, `round/flows`) | none | `start_game`, `choose_word`, `guess`; timeouts of word selection, hints, drawing, round end | record, room timers, events |
| room timers (`room-timer-scheduler.ts`) | a handle per room and phase, a list for the hints | schedule, cancel, clear | called by the engine, calls it back |
| word service (`services/word-service`) | the dictionary | options, fallback word; comparing words when the dictionary is loaded | engine |
| RoomManager (`room-manager.ts`) | rooms, players, reconnect timers, empty-room timers | `createRoom`, `addPlayer`, `removePlayer`, `deleteRoom`, two timeouts | socket handlers; calls back `index.ts` |
| sessions (`session-repository.ts`, `session-reconnect.ts`) | Redis hashes with an optional time to live, `socket.data` | save, get, expire, replace; reconnect | socket handlers |
| socket handlers (`transport/socket/handlers`) | none | `create_room`, `join_room`, `disconnect` | all of the above |
| HTTP (`transport/http`) | none but the rate limiter | `POST /rooms`, `GET /rooms/:code`, health | room service |
| rate limiters (`utils`) | a token bucket per category of events and socket, or per address | `consume`, `Retry-After` | HTTP, sockets |
| client socket (`apps/client`) | state, attempts, retry timer, join payload | connect and join, disconnect, retry | the server |
| process (`index.ts`) | none | start, wiring, shutdown | all of the above |

What makes it correct, and what is hard about it:

* record and rules: words are never repeated, a hint never completes the word, points are
  bounded, the lead goes round. Hard: boundaries (last letter, last round, end of the array).
* engine: a game goes from phase to phase and comes to its end, each timer acts on the phase
  it was set for, what was announced is on record. Hard: handlers interleave at every await;
  late timers; two handlers that hold the same record; a write that follows another's.
* RoomManager: nobody loses a place while present, an empty room closes. Hard: the order of
  leave, return and two kinds of timer; handles that get overwritten.
* sessions and sockets: one seat each, a player can come back, and who left is timed out.
  Hard: a return that overlaps the disconnect, duplicated sockets, closing during a join.
* the whole: a game goes on, stays timed and loses no points while players leave, return and are
  put out in the middle of it. Hard: the leader, the owner or the last missing guesser goes; a
  restart leaves the record and the sessions, and nothing else.
* rate limiters: no more is let through than the limit, and whoever waits is served. Hard: the
  wall clock that is set back; rounding.
* client: a lost connection is retried, one that was given up is not. Hard: timers and attempts
  that are under way when the application changes its mind.

`PROJECT.json` lists the hazards line by line, with the properties that cover them.

## The modules

| module | models |
|---|---|
| `Scoring` | points, as exact integers, including where the product of doubles rounds down |
| `RoomState` | the record and the pure functions from record to record |
| `RoomStore` | how handlers reach it: GET, SET, replies, resumed handlers |
| `GameEngine` | every handler of the engine, the room timers, what the players were shown |
| `Game` | the abstract game: stages, leader, guessers and points, no storage and no timers |
| `RoomInvariants`, `GameProperties` | what is claimed of a record; of the engine |
| `RoomStateProofs`, `GameProofs` | lemmas on the pure functions; the inductive invariant, the lead and the refinement of `Game` |
| `GamePaceProofs` | what holds of the game up to the first lost update: timers, hints, what was announced |
| `RoomManager` | the RoomManager, one step per operation |
| `RoomTenancy`, `RoomTenancyProofs` | what the RoomManager promises a well-behaved caller, and the proof |
| `RoomLifecycle` | creation, join, disconnect, reconnection, time-outs and deletion of a room |
| `LifecycleProperties`, `LifecycleProofs` | what is claimed of that; the inductive invariants of it: of every copy, whatever overlaps, and of record, sessions, sockets and RoomManager, up to the first lost update or crossing |
| `Server`, `ServerProperties`, `ServerProofs` | engine and life of the room over one record, and restarts of the process; what is claimed of the whole; the inductive invariants of it |
| `TokenBucket`, `TokenBucketProofs` | one bucket of a rate limiter, under a clock that is set back and forth, and the proof |
| `GameSocketClient` | the client's connection and its retries |
| `WordForms` | `areNearWordForms`: the loop that compares two words of the dictionary, and what it is to find out |
| `UnitProofs` | the proofs about these two |
| `MCGame`, `MCLifecycle`, `MCServer`, `MCUnits` | small instances |

`GameEngine` and `RoomLifecycle` both extend `RoomStore`, which extends `RoomState`, which
extends `Scoring`; `RoomLifecycle` has an instance of `RoomManager`; `RoomTenancy` extends it.
`Server` extends `GameEngine` and `RoomLifecycle`. `MCUnits` puts the parts that share no state
side by side and runs one of them at a time.

### How a handler is modelled

A handler in flight is a record: the command it waits for (`pc`), the room it has read or
written (`st`) and its arguments. The code between two awaits is one action, named for what it
saves or does after the reply; the first one reads the room and evaluates the guards.

* All commands go over one Redis connection, which executes and answers them in order. A
  GET sees the writes issued before it, so a command takes effect in the step that issues it.
* Replies arrive in chunks (`Deliver`). The handlers of a chunk resume before the event loop
  takes another socket event or timer. In which order depends on how deep their awaits are
  nested; the model allows any order. Violations that must not hang on this are searched under
  `InReplyOrder`.
* The guards of an engine handler read the record it has just been sent and nothing else.
  They are evaluated when the GET is issued; a handler they turn away leaves no trace, it only
  sends an error or, for a wrong guess, a message.
* `fetchSockets` answers from memory: it gives way to other handlers of the chunk at most.
* A write followed by events only (a hint) ends the handler with the write.
* A timer may fire at any time while it is pending and the timers of different phases in any
  order. That allows more than the clock does.
* `lostUpdate` is a history variable: some write replaced a record its handler had not seen.
  `crossed`, in `RoomLifecycle`, is another: an event came across a handler it concerns. There are
  four such events: a socket closes that a handler is serving, or whose player one is acting for; a
  client comes back as a player somebody acts for; a reconnect timer fires for such a player; the
  room is deleted with somebody on the way in. Nothing in the code waits for the handler then.
  Neither variable has any influence on a step. `scoreboard` and `told` keep the points and the
  "correct" results the players were shown.

### How the parts are composed

In `Server` the engine and the life of the room share the variables of `RoomStore`: one record,
one connection with its queue of replies, one event loop. Their handlers differ in `pc`, so each
resumes its own; a step of one leaves the variables of the other alone, with two exceptions that
the code has too: a player who is seated and one who is put out make the server send the scores
of the record it wrote. A request of the engine comes over a socket that holds the player's seat,
whatever the record says of the player by then.

`Restart` is the end of the process and its next start: handlers, timers, the RoomManager and the
sockets are gone, and Redis keeps the record and the sessions. It may happen between any two steps.
A command that was issued has been executed: the step of a handler that writes includes the write. A
rejected Redis command has the same outcome where nothing handles the rejection and node ends the
process, which is every handler of a socket and of a timer (`create-http-handler.ts` catches it for
`POST /rooms`, whose client then gets an error and no token: to the room it is an owner who never
comes); so has a shutdown whose disconnect handlers lose the race with `redis.quit`.

### Abstractions

A word is a value with a length, the mask the number of letters still hidden, a nickname and a
session id are values. Dates shown to players, layout of events and wording are left out; the
clock is an input of a guess. In the RoomManager the timers of a kind are counted, with a
flag for whether the newest is the one on record: a handle that is overwritten can no longer be
cancelled, and timers with the same delay fire oldest first. A room code is not used twice. A
socket is opened and closed once, and sends `join_room` with the token it has as soon as it is
open, as the client does. `session_ready` reaches a socket only while it is open. The owner of a
room created over HTTP is connected in the record and has no seat until it joins.

The tokens of a bucket are counted in 1/60000, of which a millisecond is worth the rate per minute:
the doubles of the code are taken to be exact. The socket of the client is external: `connect`
does nothing to a connection that is open or opening, an attempt that fails says
`connect_error`, to which nobody listens. A word of `WordForms` is a sequence of letters.

## The runs

| run | instance | shows |
|---|---|---|
| `game` | 3 players, any of them connected, 5 words of 2 letters, 2 hints asked for, 3 handlers in flight until the second word is chosen, then 2; beyond the first lost update with 2 connected and 2 in flight | always: every copy of the record is well formed (`CopiesOK`), words are fresh, hints leave a letter, the leader does not guess, no early end, the lead goes round. Up to the first lost update: refines `Game`; at rest exactly the right timer is pending; no hint too many; what was announced is on record; the round is over once all have guessed |
| `game_stalls` (violation) | 3 players, 2 in flight, fair | a late guess puts a finished round back to drawing; no timer is left and the game never ends |
| `guess_erased` (violation) | 3 connected players, 2 in flight | two correct guesses at once: both are told so, and one of them is not in the record |
| `life` | 2 nicknames with 2 ids each, 3 sockets, 3 sessions, 2 in flight | up to the first lost update or crossing, at every moment: record, sessions, sockets and RoomManager agree. Always: no copy is overfull or has an id, a nickname or an owner twice |
| `seat_timed_out` (violation) | 2 players, 2 in flight | a return that overlaps the disconnect: the seated player is timed out |
| `server` | 2 players, one seated and one who joins, 3 sockets, 3 sessions, 1 in flight, 1 restart | players leave, return and are put out in the middle of games: the game stays timed, nobody loses points, the RoomManager keeps its promises while the process lives, and seats keep theirs after a restart |
| `server_races` | 2 players, 3 sockets, 3 sessions, 2 in flight, lobby and first round | disconnects, returns and removals race the engine: every copy of the record stays well formed, each seat taken once; the RoomManager keeps its promises up to the first lost update or crossing |
| `server_live` | 2 players, 3 sockets, 3 sessions, 1 in flight, fair | a game ends or its room is deleted, whoever leaves, returns or is put out; a room that everybody has left is deleted from Redis |
| `lead_lost` (violation) | 3 players, 1 in flight | a leader who is put out keeps the lead, though two others are there |
| `round_waits` (violation) | 3 players, 1 in flight | the last missing guesser leaves: all who are left have guessed, the round goes on |
| `units` | 4 guests; a bucket of 2 at 7 a minute, 4 requests, 8 readings of the clock; 3 attempts; words of up to 5 letters | the promises of the RoomManager, and that an abandoned room closes; the limit holds and `Retry-After` suffices; the client stays away once told to and starts to retry a loss; near forms of a word are told |
| `client_waits` (violation) | 3 attempts, fair | a loss whose first retry fails is neither retried again nor reported |

Bounds, and why they are enough. `MaxInFlight` bounds the handlers in flight: two are enough for a
lost update, three for one handler between two others. Two players are one leader and one guesser,
three make "all but one have guessed" and a lead that does not alternate. `RoundsCount` is 1, which
gives a game of two or three rounds: first, last, and one between. `game` has three handlers in
flight through the first round and its end, which is where they differ from those of any other round
by nothing but the number; with two, it goes on to the end of the game. There are as many words as a
game can use plus the options. One hint shows one of two letters, and the second asked for must be
refused. The clock is read midway: what a reading is worth is a matter of the lemmas on scores. Two
ids for a nickname let a player who was timed out join again; three sockets allow two connections of
one player besides one of the other, or three of one.

In the runs of the server a third socket and session are the ones a player returns with, hints are
off, and the players hold their seats at the start; how they come to them is the subject of `life`,
and `server` has a second player join besides. One restart shows what is left of everything the
process kept. `server_races` looks at what overwrites what in the lobby and the first round, with
handlers that resume in the order of their replies: what no lost update may break is asked for
throughout, the promises of the RoomManager up to the first. States that differ only in what the
players were shown, or in which history variable excuses them, count as one (`WithoutHistory`):
neither steps nor properties depend on it. `server` has one handler in flight so that it can go
through whole games and a restart; for any number of them its properties are proved.

A bucket of two with four requests is emptied, refilled and emptied again; 7 a minute is a
rate that does not divide a minute, with readings just before and at the moment a token is
complete, and at the end of `Retry-After`. The words have three letters to choose from, and
the thresholds of the code, words of at least 6 letters with 3 in common, are 3 and 1.
Four guests let any order of three others happen around each.

Symmetry is used for words, sockets, sessions and interchangeable players, and in no run that
checks liveness. Deadlock checking is off: a finished game has nothing left to do, nor has a
room whose sockets are all closed, a bucket after its last request or a word that was judged.

What `life` and the server runs claim of the seats ends with the first lost update or crossing.
That is no convenience: for each of the four events there is a trace, with two handlers in flight,
that breaks one of the claims as soon as the event is not counted. A disconnect while the join of the
same socket is in flight leaves a player in the record for good whom no timer will remove
(`AbsentPlayersAreTimed`); a return, a time-out or the close of the old socket while the player is
being acted for leaves a player with a seat who is disconnected in the record
(`SeatedPlayersAreOnRecord`); an arrival during the deletion is seated in no room (`SeatsAreKept`).
The hazards in `PROJECT.json` name these at their lines. `seat_timed_out` checks `SeatedPlayersAreKept`,
the claim without that limit, as this is the one that a test makes.

Fairness. Weak fairness of `Replies` and `Resume` (`RepliesArrive`, `ResumeGame`, `ResumeMember` in
`Server`): Redis answers and promises resolve. Weak fairness of each timer: node fires them, the
browser too. An attempt to connect ends one way or the other. None for players: they may do
nothing at all, and liveness holds in spite of it.

## What the runs found

Six places where the code does not do what its comments or tests say, listed under `findings` in
`PROJECT.json`. Three causes:

* A handler writes what it computed before an await, or acts on what it checked before one
  (`game_stalls`, `guess_erased`, `seat_timed_out`). A queue per room, or a version checked by the
  write, would remove these.
* Who is in the room changes and nobody evaluates again what depends on it (`lead_lost`,
  `round_waits`). These need no race. `server_live` shows that the game still comes to its end: the
  timers carry it.
* An attempt to connect that fails is not noticed (`client_waits`). The client waits in `connecting`,
  and neither the second and third delay nor the state `failed` is ever reached.

One thing that looks wrong is harmless: when the leader chooses before the handler that opened the
selection has armed its timeout, the timeout stays armed through the drawing; it finds another phase
and does nothing (`AtRestTheRightTimerIsPending` allows for it).

## The proofs

`RoomStateProofs` proves what the pure functions keep, each for every value of the constants: the
range of a score (`GuesserScoreBounds`, `LeaderContributionBounds`), that
`getNextLeaderPlayerId` returns a player (`NextLeaderType`), a connected one if there is any and
another one than the leader if that is possible (`NextLeaderIsPresent`), and for each transition
that it leads from a well-formed record to one. `SettingsAssumption` is the range the schemas allow:
2 to 12 players.

`GameProofs` has the inductive invariant: every copy of the record, the stored one and those the
handlers hold, satisfies `RoomOK`, and every handler holds a copy that its next step can start
from (a handler that waits to save a drawing holds a word selection, and so on). It has to be about
the copies: writes are blind, so what a stale handler holds may be the record a moment later. With
that, nothing depends on which write wins, and the theorems hold for any number of handlers in
flight, players, words and rounds, lost updates included: `CopiesStayOK`, `TypeCorrect`,
`WordsStayFresh`, `WordStaysSecret`, `LeaderStaysOut`, `NoEarlyGameOver`. They rest on
`SettingsAssumption`, `WordsAssumption` (the dictionary is large enough, as the shipped one is),
`StoreAssumption` and the assumption on the order of joining in `GameEngine`.

Two more need only that the cast stays: no engine step adds, drops, or disconnects a player.
`LeadStaysInTurn` proves `LeadGoesRound` of every copy, whichever write wins: the leader is a
function of the round's number, and each copy carries both. `EngineRefinesGame` proves
`RefinesGame`: a step that loses no update writes over the very record its handler had read, so the
pure function it applies is the step of `Game`; all others stutter.

`GamePaceProofs` proves what holds up to the first lost update, for any number of handlers in
flight: `TheRightTimerIsPending`, `HintsStayInBudget`, `ToldIsRecorded`, `LastGuessEndsRound`. A
record alone does not tell what its handlers are still going to do, so the invariants are about the
handlers in flight, the record and the timers together. They compare copies by their `Rank`, the
number of phases a game has gone through when it gets there, which determines phase and round:

* `Paced`: commands are answered in the order of their ranks; what waits for its answer is at most one
  phase behind the record, what has been answered at most two; and of the handlers that have moved the
  game on, at most one is in a chunk. Without it a handler resumed late could arm a timer for a
  phase that is over.
* `OnTime`: each phase either has its timer, or a handler that is about to set it or was woken by it.
  No timer is set for a phase that is to come, and one that ends a drawing or a pause belongs to
  the present phase.
* `Budget`: hints given, under way and still to come, where a drawing whose timers are not set yet
  counts all of its hints as to come.
* `Recorded`: no copy has a point, and none of the present phase a guesser, that the record lacks; if
  all have guessed, the handler that saw it is among those in flight.

`LifecycleProofs` proves `LifeTypeOK` and `RoomsAreSeatedRight` (`LifeTypeCorrect`,
`SeatsStayRight`) in the same way: the invariant `LifeSound` says of every copy of the record,
stored, held or in a reply, that it is well formed and its seats are taken once, and each pure
function keeps that. A join keeps nicknames apart because it looks for the nickname in the copy it
extends, so a join that works on an old copy may lose somebody, and never seats anybody twice. To
that the invariant adds what a handler must have got hold of by the command it waits for, that a
socket with a player has a session, and that the RoomManager counts a timer only while one is
pending. It leaves room for other handlers beside those of the life of the room (`G`), so that
the lemmas hold for the server too, where the engine's are among them. The theorems rest on
`NamesAssumption` (every player has one name, and there are finitely many sockets),
`SettingsAssumption` and `StoreAssumption`.

The second half proves what `life` checks of the seats, for any number of players, sockets, sessions
and handlers in flight: `EachHoldsOneSeat`, `TheSeatedAreKept`, `TheSeatedAreOnRecord`,
`TheAbsentAreTimed` and `TheClosedRoomStaysGone`. They hold at every moment up to the first lost update
or crossing, and say nothing beyond ([The runs](#the-runs) has why they cannot). A player who is on the
way in or out is in a state of its own, so the invariant `AllAgree` says what agrees of the others, and
of each handler how far it must have come:

* Handlers in flight keep apart (`OneEach`): no two act for the same player, serve the same socket or
  write the same session. That is what `crossed` is for, and what lets the steps of one handler be
  proved to leave the conditions of all others alone.
* What is not issued is not in use (`Issuance`); a player has one session and one open socket with
  a seat (`OneSessionEach`, `OneSocketEach`); no timer has been overwritten, a reconnect timer belongs
  to a player of the RoomManager and an empty timer to a room without any (`TimersNeat`).
* Whoever has a seat has no timer (`SeatedKept`), is connected in the record and has a session that
  does not expire (`SeatedOnRecord`), but for a player who returns, whose old socket has its session
  replaced before it is closed (`Returning`). Whoever is in the record without a seat has a reconnect
  timer (`AbsentTimed`), but for a player on the way in, out or back (`Moving`).
* Each handler, by the command it waits for (`Underway`): the socket it will seat the player at is
  still open and has none; a new player's id is on no socket and in no session but its own; a returning
  one is connected in the record with the new session its only one; one who leaves has no seat, and
  no timer as yet; one that was told the room is gone will still find it gone. It may hold an old copy
  of the record: if it writes that, the update is lost.

A step is proved in two parts: what it does to the handler that takes it, and that the others do not
notice (`Untouched`): it changes only players, sessions and sockets that none of them is concerned
with. `up` says whether the RoomManager knows of the room, which it always does here and no longer
after a restart. Nothing is assumed about `MaxInFlight`.

`ServerProofs` puts the two together: `ServerTypeCorrect` and `EveryCopyStaysSound` prove
`ServerTypeOK` and `EveryCopyIsSound` of `ServerSpec`, for any number of players, handlers and
restarts. The invariant `ServerSound` is `LifeSound` with the engine's handlers, each with a copy
it can go on from (`HandlerOK`), for `G`. The engine's steps keep it because no pure function of
the game touches the seats (`SameSeats`), and those of the life of the room because none of them
touches the phase: a disconnect that writes an old phase back writes one that once was right. A
restart keeps it because it leaves only the record and the sessions. So what the handlers do to
each other is confined to *which* well-formed record wins; what can go wrong with that is under
[What the runs found](#what-the-runs-found). To the assumptions of `LifecycleProofs` this adds
`WordsAssumption`, the readings of the clock in `LobbyAssumption`, and `RestartsAssumption`.

`NobodyLosesPoints` proves `PointsAreKept`: a handler of the life of the room that loses no update
extends, shortens or reconnects the record as it is and never touches a score, and the engine's pure
functions only add to it; a start resets the scores of a lobby, where they are all zero.
`GameStaysTimed` proves `GameIsTimed` from the invariants of `GamePaceProofs`, which were stated of
any queue that contains handlers of the game: `LifeShape` says what a step of the life of the room
does to them, which is to put a handler of its own beside them, and to the record, where it changes
the players and nothing of the phase. `Begun` says that before the first session nothing has
happened that could set a timer.

`SeatsStandRestarts` and `PromisesStandWhileUp` prove `SeatsOutliveRestarts` and `PromisesWhileUp`
of the server in the same way and to the same limit, for any number of handlers in flight. The
engine's handlers change neither who is in the record, nor who of them is connected or
owns the room (`TurnKeepsPlayers`), and touch no socket, session or RoomManager: the handlers of the
life of the room do not notice them, unless an update is lost. A restart closes every socket and forgets the
handlers, the RoomManager and its timers, so what these promised is gone with `up`; sessions and record
stay as they are, whatever the handlers that died had written of them, and that is enough for whoever
is seated afterwards.

`RoomTenancyProofs` proves `TenancyOK` and `NobodyInsideIsPutOut` for any number of players and no
assumption. `TenancyOK` says nothing of the players of a room that is not there; the inductive
invariant `TenancyInv` adds that there are none before `createRoom`, which sets the room up anew,
and that only players are inside.

`TokenBucketProofs` proves `LimitHolds`, `RetryAfterSuffices` and `DebtIsBounded` for any rate, capacity
and clock, one that is set back and forth included. The invariant accounts for the tokens: for
each request that was let through, what is in the bucket and what has been taken since is no more
than the bucket holds and the clock, by its last reading, has refilled. That is an equation of
readings, not of elapsed time, so setting the clock back takes away what setting it forth gives.
For `Retry-After` it adds that the bucket holds less than a token at a refusal and no less than the
time since has refilled. Only `BucketAssumption` is used.

`UnitProofs` proves `StaysAway` for any number of attempts; the invariant adds that an open
connection has begun counting afresh, so that losing it sets the timer. It also proves
`VerdictIsRight` (`LoopTellsNearForms`) for words of any length over any letters and for any
thresholds: before an edit the loop's two positions are the same and the words agree up to there
(`InStep`); after it they agree up to the first difference and, beyond it, in step or with a shift
of one, by which of the words is longer (`EditedAt`). A second difference then refutes every way of
getting from one word to the other by one letter (`TwoEditsApart`), and the end of a word without
one names such a way (`OneEditNear`).

Every invariant that a passing run checks is proved, and so is every action property and the
refinement of `Game`. The theorems of the life of a room and of the server are about the whole of
their specifications; those named above say up to which event of a behaviour. Only model-checked:
liveness under fairness (`GameEndsWhoeverLeaves`, `AbandonedRoomIsDeleted`, `AbandonedRoomCloses`,
`LossIsRetried`), which is beyond the prover, as are ENABLED and induction over recursive
definitions.

## Not modelled

* Routing, parsing and CORS of HTTP, and the schemas: they turn a request away or hand it on and
  keep no state. `POST /rooms` is an action, with the rate limit apart from it.
* Which event shows what to whom, beyond points and "correct" results; layout and wording.
* The map of buckets by address: an entry is never removed. It is a matter of memory, not of what
  is let through.
* The dictionary's file: reading, parsing and the pairs that are compared. `WordForms` has the
  comparison, `WordsAssumption` what the engine needs of the result.
* The handles of `RoomTimerScheduler`: `GameEngine` counts pending timers. A handle that has
  fired stays in the map and clearing it does nothing.
* More than one room: rooms share the connection to Redis and the event loop, and no state.
* `create_room` or `join_room` twice on one socket: the client sends one.
* Build, release and CI scripts; configuration, logging, wiring.

## Plan

Done: the core (record, store, engine, abstract game, proofs), the RoomManager, the life cycle with
its proofs, the server with restarts and its proofs, the rate limiters, the client, the comparison of
words; the proofs of what holds of a game up to the first lost update, of the life of a room and
the server up to the first lost update or crossing, and of the comparison of words. Left:

* `RoomTimerScheduler`: the handles as the code keeps them, refining the timers of `GameEngine`.
