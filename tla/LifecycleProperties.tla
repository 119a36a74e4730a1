------------------------ MODULE LifecycleProperties ------------------------
(***************************************************************************)
(* What the life of a room guarantees.                                     *)
(***************************************************************************)
EXTENDS RoomLifecycle

LifeCopies == ({room} \cup Copies) \ {NoRoom}

Owners(st) == {i \in DOMAIN st.players : st.players[i].isOwner}

(* Whatever overwrites what, no copy of the record holds more players than *)
(* the settings allow, two with the same id or nickname, or two owners,    *)
(* and the rounds are enough for everybody in it to lead (canJoinLobby,    *)
(* createJoinedPlayerState).                                               *)
SeatsOK(st) ==
  /\ Len(st.players) <= MaxPlayers
  /\ \A i, j \in DOMAIN st.players :
       NameOf[st.players[i].id] = NameOf[st.players[j].id] => i = j
  /\ \A i, j \in Owners(st) : i = j
  /\ CalculateTotalMiniRounds(Len(st.players)) <= st.totalMiniRounds

RoomsAreSeatedRight == \A st \in LifeCopies : SeatsOK(st)

(***************************************************************************)
(* The handlers of several players may overlap.  What follows holds until  *)
(* a handler overwrites a record it has not seen, or an event comes across *)
(* a handler it concerns: a socket closes that is being served, a client   *)
(* comes back or a timer fires for a player who is being acted for, or the *)
(* room is deleted with somebody on the way in.  Each of these breaks it.  *)
(***************************************************************************)
Undisturbed == ~lostUpdate /\ ~crossed

(* A player holds one seat at most (disconnectDuplicateSockets).           *)
OneSeatEach == Undisturbed => \A p \in PlayerIds : Cardinality(Seats(p)) <= 1

(* A player who holds a seat belongs to the room for the RoomManager, and  *)
(* no timer is running that would put the player out or close the room     *)
(* (addPlayer cancels them).                                               *)
SeatedAreKept ==
  \A p \in Seated :
    /\ managed /\ p \in playerIds
    /\ reconnecting[p].pending = 0 /\ emptying.pending = 0

SeatsAreKept == Undisturbed => SeatedAreKept

(* The same when all is at rest, whatever came across what on the way.     *)
SeatedPlayersAreKept == NobodyInFlight => SeatedAreKept

(* A player who holds a seat is in the record as connected, and can come   *)
(* back with the token it was given, which does not expire, unless it is   *)
(* just getting another one.                                               *)
SeatedPlayersAreOnRecord ==
  Undisturbed =>
    \A p \in Seated :
      /\ room # NoRoom /\ p \in Connected(room)
      /\ ActedFor(p) \/ \A s \in Seats(p) :
           sessions[sockets[s].session] = p /\ sockets[s].session \notin expiring

(* A player in the record without a seat is disconnected and its time to   *)
(* come back is running; or it created the room with POST /rooms and has   *)
(* yet to join it; or it is on the way in, out or back.                    *)
AbsentPlayersAreTimed ==
  Undisturbed /\ room # NoRoom =>
    \A p \in Members(room) :
      Seats(p) = {} /\ ~ActedFor(p) =>
        IF p \in playerIds
        THEN p \notin Connected(room) /\ reconnecting[p].pending = 1
        ELSE CurrentPlayer(room, p).isOwner

(* A room the RoomManager has closed is gone from Redis and stays gone.    *)
ClosedRoomIsGone == Undisturbed /\ issued # {} /\ ~managed => room = NoRoom

(* A room that everybody has left is deleted, unless someone comes back.   *)
AbandonedRoomIsDeleted ==
  (room # NoRoom /\ playerIds # {} /\ \A p \in PlayerIds : Seats(p) = {})
     ~> (room = NoRoom \/ \E s \in Sockets : sockets[s].status = "open")
=============================================================================
