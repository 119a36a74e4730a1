-------------------------- MODULE ServerProperties --------------------------
(***************************************************************************)
(* What the server guarantees when players leave, return and are timed out *)
(* in the middle of a game, and when its process is started again.         *)
(***************************************************************************)
EXTENDS Server, GameProperties, LifecycleProperties

ServerCopies == ({room} \cup Copies) \ {NoRoom}

(* A disconnect, a reconnection or a removal writes back a record it read  *)
(* before a phase went by; whatever overwrites what, every copy of the     *)
(* record stays well formed, with each seat taken once.                    *)
EveryCopyIsSound == \A st \in ServerCopies : RoomOK(st) /\ SeatsOK(st)

(* No player loses points by leaving, returning or outliving the process   *)
(* (createDisconnectedState, createReconnectedState).                      *)
PointsAreKept ==
  [][room # NoRoom /\ room' # NoRoom =>
       \A p \in Members(room) \cap Members(room') :
         lostUpdate' \/ ScoresOf(room')[p] >= ScoresOf(room)[p]]_serverVars

(* Whoever leaves or is put out, a game at rest has the timer of its phase *)
(* pending, as long as the process lives.                                  *)
GameIsTimed ==
  restarts = 0 /\ room # NoRoom => AtRestTheRightTimerIsPending

(* A seat is worth something after a restart too: whoever holds one is in  *)
(* the record as connected, with a session that does not expire.  Nothing  *)
(* else of the RoomManager's promises outlives the process.                *)
SeatsOutliveRestarts == OneSeatEach /\ SeatedPlayersAreOnRecord

PromisesWhileUp ==
  restarts = 0 => SeatsAreKept /\ AbsentPlayersAreTimed /\ ClosedRoomIsGone

(* A game that has begun comes to its end or its room is deleted, even if  *)
(* everybody leaves, the leader is put out or the owner is, unless the     *)
(* process dies.                                                           *)
InGame == room # NoRoom /\ room.phase = "in_game"

GameEndsWhoeverLeaves == InGame ~> (~InGame \/ lostUpdate \/ restarts > 0)

(* The lead passes to a player who is connected, if there is one           *)
(* (getNextLeaderPlayerId).                                                *)
RoundEnds ==
  /\ InGame /\ room'.phase = "in_game"
  /\ room.roundPhase = "drawing" /\ room'.roundPhase = "round_end"

LeadPassesToConnected ==
  [][RoundEnds => room'.leaderPlayerId \in Connected(room') \/ Connected(room') = {}]_serverVars
=============================================================================
