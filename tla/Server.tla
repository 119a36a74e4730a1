------------------------------- MODULE Server -------------------------------
(***************************************************************************)
(* The whole server for one room: the game engine and the life of the room *)
(* over the same record, connection and event loop (index.ts).  Players    *)
(* leave, return and are timed out in the middle of a game, and the        *)
(* process may die and be started again.                                   *)
(*                                                                         *)
(* What is in Redis survives the process: the record and the sessions.     *)
(* Timers, handlers, sockets and the RoomManager do not.                   *)
(***************************************************************************)
EXTENDS GameEngine, RoomLifecycle

CONSTANT MaxRestarts  \* bound on the number of restarts

ASSUME RestartsAssumption == MaxRestarts \in Nat

VARIABLE restarts     \* how often the process has been started again

engineVars == <<timers, scoreboard, told>>
serverVars == <<storeVars, engineVars, lifeVars, restarts>>

ServerTypeOK ==
  /\ timers \in [ wordSelection : Nat, drawing : Nat, roundEnd : Nat,
                  hints : [miniRound : Nat, pending : Nat] ]
  /\ scoreboard \in [PlayerIds -> Nat]
  /\ told \in SUBSET PlayerIds
  /\ room \in Room \cup {NoRoom}
  /\ queue \in Seq(Handler \cup LifeHandler)
  /\ ready \in Seq(Handler \cup LifeHandler)
  /\ lostUpdate \in BOOLEAN
  /\ sessions \in [SessionIds -> PlayerIds \cup {NoPlayer}]
  /\ sockets \in [Sockets -> Socket]
  /\ Manager!ManagerTypeOK
  /\ crossed \in BOOLEAN
  /\ restarts \in 0..MaxRestarts

ServerInit ==
  /\ LifeInit
  /\ timers = NoTimers
  /\ scoreboard = [p \in PlayerIds |-> 0]
  /\ told = {}
  /\ restarts = 0

(***************************************************************************)
(* Steps of the engine.  A request comes over the socket that holds the    *)
(* player's seat, whatever the record says of the player.                  *)
(***************************************************************************)
PlayerRequest ==
  /\ \E p \in Seated :
       \/ StartGame(p)
       \/ \E w \in Words : ChooseWord(p, w)
       \/ Guess(p)
  /\ UNCHANGED <<lifeVars, restarts>>

GameTimerFires == TimerFires /\ UNCHANGED <<lifeVars, restarts>>
ResumeGame     == Resume /\ UNCHANGED <<lifeVars, restarts>>

(***************************************************************************)
(* Steps of the life of the room.  A player who joins, and one who is put  *)
(* out, make the server send everybody the scores of the record it wrote.  *)
(***************************************************************************)
Arrival   == (SocketEvent \/ Post) /\ UNCHANGED <<engineVars, restarts>>
Departure == Expiry /\ UNCHANGED <<engineVars, restarts>>

ResumeMember ==
  /\ \E i \in DOMAIN ready :
       \/ ResumeSilently(i) /\ UNCHANGED scoreboard
       \/ SeatJoined(i) /\ scoreboard' = ScoresOf(ready[i].st)
       \/ SaveWithoutPlayer(i) /\ scoreboard' = ScoresOf(room')
  /\ UNCHANGED <<timers, told, restarts>>

RepliesArrive == Deliver /\ UNCHANGED <<engineVars, lifeVars, restarts>>

(***************************************************************************)
(* The process dies and is started again.  A command that was issued has   *)
(* been executed.  Every client loses its connection.                      *)
(***************************************************************************)
Restart ==
  /\ restarts < MaxRestarts
  /\ restarts' = restarts + 1
  /\ queue' = <<>> /\ ready' = <<>>
  /\ timers' = NoTimers
  /\ sockets' = [s \in Sockets |->
       IF sockets[s].status = "open" THEN [sockets[s] EXCEPT !.status = "closed"]
       ELSE sockets[s]]
  /\ managed' = FALSE
  /\ playerIds' = {}
  /\ reconnecting' = [p \in PlayerIds |-> Manager!NoTimer]
  /\ emptying' = Manager!NoTimer
  /\ UNCHANGED <<room, lostUpdate, scoreboard, told, sessions, expiring, issued, tokens,
                 crossed>>

(***************************************************************************)
ServerNext ==
  \/ PlayerRequest \/ GameTimerFires \/ ResumeGame
  \/ Arrival \/ Departure \/ ResumeMember
  \/ RepliesArrive
  \/ Restart

ServerSpec == ServerInit /\ [][ServerNext]_serverVars

(* Redis answers and expires, promises resolve and timers fire; the        *)
(* players need not do anything.                                           *)
ServerFairness ==
  /\ WF_serverVars(RepliesArrive)
  /\ WF_serverVars(ResumeGame)
  /\ WF_serverVars(ResumeMember)
  /\ WF_serverVars(WordSelectionTimeout /\ UNCHANGED <<lifeVars, restarts>>)
  /\ WF_serverVars(HintTimeout /\ UNCHANGED <<lifeVars, restarts>>)
  /\ WF_serverVars(DrawingTimeout /\ UNCHANGED <<lifeVars, restarts>>)
  /\ WF_serverVars(RoundEndTimeout /\ UNCHANGED <<lifeVars, restarts>>)
  /\ \A p \in PlayerIds :
       WF_serverVars(ReconnectTimeout(p) /\ UNCHANGED <<engineVars, restarts>>)
  /\ WF_serverVars(DeleteEmptyRoom /\ UNCHANGED <<engineVars, restarts>>)
=============================================================================
