--------------------------- MODULE RoomLifecycle ---------------------------
(***************************************************************************)
(* One room from its creation to its deletion: who is in the record, which *)
(* sockets and sessions they hold, and what the RoomManager believes       *)
(* (transport/socket/handlers, services/game/session, services/game/room,  *)
(* repositories/session-repository.ts, index.ts).                          *)
(*                                                                         *)
(* A handler in flight is a record as in RoomStore, with the socket it     *)
(* serves, the nickname it was given, the session it looks up or writes,   *)
(* the player ("who") it acts for and the sockets it has fetched.          *)
(***************************************************************************)
EXTENDS RoomStore

CONSTANTS
  Sockets,    \* sockets: each is opened once and closed once
  SessionIds, \* the session ids randomUUID may return
  Names,      \* nicknames
  NameOf,     \* the nickname of each player id
  NoSocket, NoSession, NoName

ASSUME NamesAssumption ==
  /\ NameOf \in [PlayerIds -> Names]
  /\ NoPlayer \notin PlayerIds /\ NoSocket \notin Sockets
  /\ NoSession \notin SessionIds /\ NoName \notin Names
  /\ IsFiniteSet(Sockets)

VARIABLES
  sessions,  \* Redis: the player of each stored session
  expiring,  \* Redis: the sessions with a time to live
  issued,    \* the player and session ids given out so far
  sockets,   \* per socket its status and socket.data
  tokens,    \* the reconnect token each nickname's client holds
  managed, playerIds, reconnecting, emptying, \* the RoomManager
  crossed    \* history: an event came across a handler it concerned

Manager == INSTANCE RoomManager

managerVars == <<managed, playerIds, reconnecting, emptying>>
lifeVars == <<sessions, expiring, issued, sockets, tokens, managerVars, crossed>>
lifecycleVars == <<storeVars, lifeVars>>

Socket == [ status : {"new", "open", "closed"},
            player : PlayerIds \cup {NoPlayer}, session : SessionIds \cup {NoSession} ]
NewSocket == [status |-> "new", player |-> NoPlayer, session |-> NoSession]

LifePcs == { "createSaved", "createSessionSaved",
             "reconnectSession", "reconnectLoad", "reconnectSaved",
             "sessionReplaced", "socketsFetched",
             "joinLoad", "joinSaved", "joinSessionSaved",
             "leaveSession", "leaveLoad", "leaveSaved", "leaveExpires",
             "expiredLoad" }

(* Where a handler is seating a player.                                    *)
WaysIn == LifePcs \ { "leaveSession", "leaveLoad", "leaveSaved", "leaveExpires", "expiredLoad" }

LifeHandler == [ pc : LifePcs, st : Room \cup {NoRoom},
                 who : PlayerIds \cup {NoPlayer}, socket : Sockets \cup {NoSocket},
                 name : Names \cup {NoName}, session : SessionIds \cup {NoSession},
                 others : SUBSET Sockets ]

LifeTypeOK ==
  /\ room \in Room \cup {NoRoom}
  /\ queue \in Seq(LifeHandler) /\ ready \in Seq(LifeHandler)
  /\ lostUpdate \in BOOLEAN
  /\ sessions \in [SessionIds -> PlayerIds \cup {NoPlayer}]
  /\ expiring \in SUBSET SessionIds
  /\ issued \in SUBSET (PlayerIds \cup SessionIds)
  /\ sockets \in [Sockets -> Socket]
  /\ tokens \in [Names -> SessionIds \cup {NoSession}]
  /\ Manager!ManagerTypeOK
  /\ crossed \in BOOLEAN

LifeInit ==
  /\ StoreInit(NoRoom)
  /\ sessions = [t \in SessionIds |-> NoPlayer]
  /\ expiring = {}
  /\ issued = {}
  /\ sockets = [s \in Sockets |-> NewSocket]
  /\ tokens = [n \in Names |-> NoSession]
  /\ Manager!ManagerInit
  /\ crossed = FALSE

(***************************************************************************)
(* Handlers and their commands.                                            *)
(***************************************************************************)
NewHandler(pc) ==
  [ pc |-> pc, st |-> NoRoom, who |-> NoPlayer, socket |-> NoSocket,
    name |-> NoName, session |-> NoSession, others |-> {} ]

(* A new handler issues its first command; a resumed one its next.         *)
Begin(h) == queue' = Append(queue, h) /\ UNCHANGED ready
Await(i, h) == queue' = Append(queue, h) /\ ready' = RemoveAt(ready, i)

(* Who and what the handlers of the room's life in flight are busy with.   *)
LifeInFlight == {h \in ToSet(queue) \cup ToSet(ready) : h.pc \in LifePcs}

ActedFor(p) == p # NoPlayer /\ \E h \in LifeInFlight : h.who = p
Served(s)   == \E h \in LifeInFlight : h.socket = s
SomeoneOnTheWayIn == \E h \in LifeInFlight : h.pc \in WaysIn

(* History: an event that comes across what it concerns is remembered.     *)
Crosses(what) == crossed' = (crossed \/ what)

(* GET of the room by the i-th handler.                                    *)
Load(i, pc) ==
  /\ Await(i, [ready[i] EXCEPT !.pc = pc, !.st = room])
  /\ UNCHANGED <<room, lostUpdate>>

Fresh(ids) == ids \ issued

(* socket.join and attachSocketSession, on a socket that may have closed   *)
(* meanwhile; session_ready reaches the client only through an open one.   *)
Attach(s, name, p, session) ==
  /\ sockets' = [sockets EXCEPT ![s].player = p, ![s].session = session]
  /\ tokens' = IF sockets[s].status = "open"
               THEN [tokens EXCEPT ![name] = session] ELSE tokens
  /\ Manager!AddPlayer(p)

(* Mutant: takes the socket's word for it, whatever became of the session. *)
LeaverUnchecked(s) ==
  LET data == sockets[s]
  IN [NewHandler("leaveSession") EXCEPT !.session = data.session, !.who = data.player]

(* handleDisconnect up to its first await, for a socket with these data.   *)
Leaver(s) ==
  LET data == sockets[s]
  IN [NewHandler("leaveSession") EXCEPT !.session = data.session,
        !.who = IF sessions[data.session] = data.player THEN data.player ELSE NoPlayer]

HasSession(s) == sockets[s].player # NoPlayer

(* The open sockets that hold a player's seat.                             *)
Seats(p) == {s \in Sockets : sockets[s].status = "open" /\ sockets[s].player = p}
Seated == {p \in PlayerIds : Seats(p) # {}}

(***************************************************************************)
(* create_room on a socket, POST /rooms, and createRoomWithOwner.          *)
(***************************************************************************)
CreateRoom(s, name) ==
  /\ EventLoopFree
  /\ issued = {}
  /\ Manager!CreateRoom
  /\ \E p \in Fresh(PlayerIds), t \in Fresh(SessionIds) :
       /\ NameOf[p] = name
       /\ issued' = {p, t}
       /\ room' = LobbyRoom(<<p>>, {p})
       /\ Begin([NewHandler("createSaved") EXCEPT !.st = room', !.who = p, !.socket = s,
                                         !.name = name, !.session = t])
  /\ UNCHANGED <<lostUpdate, sessions, expiring, tokens, crossed>>

CreateRoomOnSocket(s, name) ==
  /\ sockets[s].status = "new"
  /\ sockets' = [sockets EXCEPT ![s].status = "open"]
  /\ CreateRoom(s, name)

PostRoom(name) == CreateRoom(NoSocket, name) /\ UNCHANGED sockets

(* saveSession, for a player who is new.                                   *)
SaveSession(i, pc) ==
  /\ sessions' = [sessions EXCEPT ![ready[i].session] = ready[i].who]
  /\ Await(i, [ready[i] EXCEPT !.pc = pc])
  /\ UNCHANGED <<room, lostUpdate, expiring, issued, sockets, tokens, managerVars, crossed>>

SaveOwnerSession(i) == Resumes(i, "createSaved") /\ SaveSession(i, "createSessionSaved")

SeatOwner(i) ==
  /\ Resumes(i, "createSessionSaved")
  /\ ready[i].socket # NoSocket
  /\ Attach(ready[i].socket, ready[i].name, ready[i].who, ready[i].session)
  /\ Finish(i)
  /\ UNCHANGED <<sessions, expiring, issued, crossed>>

AnswerPost(i) ==
  /\ Resumes(i, "createSessionSaved")
  /\ ready[i].socket = NoSocket
  /\ tokens' = [tokens EXCEPT ![ready[i].name] = ready[i].session]
  /\ Finish(i)
  /\ UNCHANGED <<sessions, expiring, issued, sockets, managerVars, crossed>>

(***************************************************************************)
(* join_room: the client sends it as soon as its socket is open, with the  *)
(* token it has.                                                           *)
(***************************************************************************)
OpenSocket(s) ==
  /\ EventLoopFree
  /\ sockets[s].status = "new"
  /\ sockets' = [sockets EXCEPT ![s].status = "open"]

Join(s, name) ==
  /\ OpenSocket(s)
  /\ issued # {} /\ tokens[name] = NoSession
  /\ Begin([NewHandler("joinLoad") EXCEPT !.st = room, !.socket = s, !.name = name])
  /\ UNCHANGED <<room, lostUpdate, sessions, expiring, issued, tokens, managerVars, crossed>>

Rejoin(s, name) ==
  /\ OpenSocket(s)
  /\ tokens[name] # NoSession
  /\ Begin([NewHandler("reconnectSession") EXCEPT !.who = sessions[tokens[name]], !.socket = s,
                                         !.name = name, !.session = tokens[name]])
  /\ Crosses(ActedFor(sessions[tokens[name]]))
  /\ UNCHANGED <<room, lostUpdate, sessions, expiring, issued, tokens, managerVars>>

(* tryReconnect; wherever it gives up, the room is loaded for a new join.  *)
LookUpSession(i) ==
  /\ Resumes(i, "reconnectSession")
  /\ Load(i, IF ready[i].who # NoPlayer /\ NameOf[ready[i].who] = ready[i].name
             THEN "reconnectLoad" ELSE "joinLoad")
  /\ UNCHANGED lifeVars

(* Mutants: makes the player's entry anew; passes the lead of a player who *)
(* goes or comes, but not the roles.                                       *)
SetStatusAfresh(st, p, status) ==
  [st EXCEPT !.players = [i \in DOMAIN @ |->
     IF @[i].id = p THEN NewPlayer(p, @[i].isOwner, status) ELSE @[i]]]

SetStatusAndLead(st, p, status) ==
  [st EXCEPT !.leaderPlayerId = IF @ = p THEN NextLeader(st) ELSE @,
             !.players = [i \in DOMAIN @ |->
     IF @[i].id = p THEN [@[i] EXCEPT !.connectionStatus = status] ELSE @[i]]]

SetStatus(st, p, status) ==
  [st EXCEPT !.players = [i \in DOMAIN @ |->
     IF @[i].id = p THEN [@[i] EXCEPT !.connectionStatus = status] ELSE @[i]]]

StillSeated(p, st) == st # NoRoom /\ p \in Members(st)

GiveUpReconnect(i) ==
  /\ Resumes(i, "reconnectLoad")
  /\ ~StillSeated(ready[i].who, ready[i].st)
  /\ Load(i, "joinLoad")
  /\ UNCHANGED lifeVars

SaveReconnected(i) ==
  /\ Resumes(i, "reconnectLoad")
  /\ StillSeated(ready[i].who, ready[i].st)
  /\ SaveRoom(i, SetStatus(ready[i].st, ready[i].who, "connected"), "reconnectSaved")
  /\ UNCHANGED lifeVars

(* Mutant: renames the key, and with it goes the expiry.                   *)
RenameSession(i) ==
  /\ Resumes(i, "reconnectSaved")
  /\ \E t \in Fresh(SessionIds) :
       LET old == ready[i].session
       IN /\ issued' = issued \cup {t}
          /\ sessions' = [sessions EXCEPT ![t] = ready[i].who, ![old] = NoPlayer]
          /\ expiring' = {IF u = old THEN t ELSE u : u \in expiring}
          /\ Await(i, [ready[i] EXCEPT !.pc = "sessionReplaced", !.session = t])
  /\ UNCHANGED <<room, lostUpdate, sockets, tokens, managerVars, crossed>>

(* One transaction: the old token is spent, the new one has no expiry.     *)
ReplaceSession(i) ==
  /\ Resumes(i, "reconnectSaved")
  /\ \E t \in Fresh(SessionIds) :
       /\ issued' = issued \cup {t}
       /\ sessions' = [sessions EXCEPT ![t] = ready[i].who, ![ready[i].session] = NoPlayer]
       /\ expiring' = expiring \ {ready[i].session}
       /\ Await(i, [ready[i] EXCEPT !.pc = "sessionReplaced", !.session = t])
  /\ UNCHANGED <<room, lostUpdate, sockets, tokens, managerVars, crossed>>

(* Mutant: leaves the player's other sockets alone.                        *)
FetchNoSockets(i) ==
  /\ Resumes(i, "sessionReplaced")
  /\ ready' = [ready EXCEPT ![i].pc = "socketsFetched"]
  /\ UNCHANGED <<room, queue, lostUpdate, lifeVars>>

(* fetchSockets answers from memory: the handler stays in the same chunk.  *)
FetchSockets(i) ==
  /\ Resumes(i, "sessionReplaced")
  /\ ready' = [ready EXCEPT ![i].pc = "socketsFetched",
        ![i].others = {s \in Sockets \ {ready[i].socket} :
                         sockets[s].status = "open" /\ sockets[s].player = ready[i].who}]
  /\ UNCHANGED <<room, queue, lostUpdate, lifeVars>>

(* The other sockets of the player are disconnected, each with its own     *)
(* handleDisconnect, and the new one takes the seat.                       *)
SeatReturned(i) ==
  /\ Resumes(i, "socketsFetched")
  /\ LET h == ready[i]
         dropped == {s \in h.others : sockets[s].status = "open"}
     IN /\ \E leavers \in SetToSeqs(dropped) :
             queue' = queue \o [k \in DOMAIN leavers |-> Leaver(leavers[k])]
        /\ ready' = RemoveAt(ready, i)
        /\ sockets' = [s \in Sockets |->
             IF s \in dropped THEN [sockets[s] EXCEPT !.status = "closed"]
             ELSE IF s = h.socket
             THEN [sockets[s] EXCEPT !.player = h.who, !.session = h.session]
             ELSE sockets[s]]
        /\ tokens' = IF sockets[h.socket].status = "open"
                     THEN [tokens EXCEPT ![h.name] = h.session] ELSE tokens
        /\ Manager!AddPlayer(h.who)
  /\ UNCHANGED <<room, lostUpdate, sessions, expiring, issued, crossed>>

(***************************************************************************)
(* A new player.                                                           *)
(***************************************************************************)
NicknameTaken(st, name) == \E p \in Members(st) : NameOf[p] = name

(* Mutant: a nickname for two.                                             *)
CanJoinUnderAnyName(st, name) ==
  st # NoRoom /\ st.phase = "lobby" /\ Len(st.players) < MaxPlayers

CanJoinLobby(st, name) ==
  /\ st # NoRoom
  /\ st.phase = "lobby"
  /\ Len(st.players) < MaxPlayers
  /\ ~NicknameTaken(st, name)

JoinedRoom(st, p) ==
  [st EXCEPT !.totalMiniRounds = CalculateTotalMiniRounds(Len(st.players) + 1),
             !.players = Append(@, NewPlayer(p, FALSE, "connected"))]

RefuseJoin(i) ==
  /\ Resumes(i, "joinLoad")
  /\ ~CanJoinLobby(ready[i].st, ready[i].name)
  /\ Finish(i)
  /\ UNCHANGED lifeVars

SaveJoined(i) ==
  /\ Resumes(i, "joinLoad")
  /\ CanJoinLobby(ready[i].st, ready[i].name)
  /\ \E p \in Fresh(PlayerIds), t \in Fresh(SessionIds) :
       LET next == JoinedRoom(ready[i].st, p)
       IN /\ NameOf[p] = ready[i].name
          /\ issued' = issued \cup {p, t}
          /\ room' = next
          /\ lostUpdate' = (lostUpdate \/ room # ready[i].st)
          /\ Await(i, [ready[i] EXCEPT !.pc = "joinSaved", !.st = next,
                                       !.who = p, !.session = t])
  /\ UNCHANGED <<sessions, expiring, sockets, tokens, managerVars, crossed>>

SaveJoinedSession(i) == Resumes(i, "joinSaved") /\ SaveSession(i, "joinSessionSaved")

SeatJoined(i) ==
  /\ Resumes(i, "joinSessionSaved")
  /\ Attach(ready[i].socket, ready[i].name, ready[i].who, ready[i].session)
  /\ Finish(i)
  /\ UNCHANGED <<sessions, expiring, issued, crossed>>

(***************************************************************************)
(* A socket closes: by the client, a lost connection or a ping timeout.    *)
(* Before it is attached to a player, handleDisconnect does nothing.       *)
(***************************************************************************)
CloseSocket(s) ==
  /\ EventLoopFree
  /\ sockets[s].status = "open"
  /\ sockets' = [sockets EXCEPT ![s].status = "closed"]
  /\ IF HasSession(s) THEN Begin(Leaver(s)) ELSE UNCHANGED <<queue, ready>>
  /\ Crosses(Served(s) \/ ActedFor(sockets[s].player))
  /\ UNCHANGED <<room, lostUpdate, sessions, expiring, issued, tokens, managerVars>>

IgnoreLeaver(i) ==
  /\ \/ Resumes(i, "leaveSession") /\ ready[i].who = NoPlayer
     \/ Resumes(i, "leaveLoad") /\ ready[i].st = NoRoom
  /\ Finish(i)
  /\ UNCHANGED lifeVars

LoadForLeaver(i) ==
  /\ Resumes(i, "leaveSession")
  /\ ready[i].who # NoPlayer
  /\ Load(i, "leaveLoad")
  /\ UNCHANGED lifeVars

SaveDisconnected(i) ==
  /\ Resumes(i, "leaveLoad")
  /\ ready[i].st # NoRoom
  /\ SaveRoom(i, SetStatus(ready[i].st, ready[i].who, "disconnected"), "leaveSaved")
  /\ UNCHANGED lifeVars

(* setSessionExpiry: nothing happens to a session that is gone.            *)
ExpireSession(i) ==
  /\ Resumes(i, "leaveSaved")
  /\ expiring' = IF sessions[ready[i].session] = NoPlayer
                 THEN expiring ELSE expiring \cup {ready[i].session}
  /\ Await(i, [ready[i] EXCEPT !.pc = "leaveExpires"])
  /\ UNCHANGED <<room, lostUpdate, sessions, issued, sockets, tokens, managerVars, crossed>>

OpenReconnectWindow(i) ==
  /\ Resumes(i, "leaveExpires")
  /\ Manager!RemovePlayer(ready[i].who)
  /\ Finish(i)
  /\ UNCHANGED <<sessions, expiring, issued, sockets, tokens, crossed>>

(***************************************************************************)
(* Timers: of Redis, and of the RoomManager with the callbacks index.ts    *)
(* gives it.                                                               *)
(***************************************************************************)
SessionExpires(t) ==
  /\ t \in expiring
  /\ sessions' = [sessions EXCEPT ![t] = NoPlayer]
  /\ expiring' = expiring \ {t}
  /\ UNCHANGED <<storeVars, issued, sockets, tokens, managerVars, crossed>>

ReconnectTimeout(p) ==
  /\ EventLoopFree
  /\ Manager!ReconnectTimerFires(p)
  /\ Begin([NewHandler("expiredLoad") EXCEPT !.st = room, !.who = p])
  /\ Crosses(ActedFor(p))
  /\ UNCHANGED <<room, lostUpdate, sessions, expiring, issued, sockets, tokens>>

(* The filter of the players: nobody is in the record twice.               *)
WithoutPlayer(st, p) ==
  IF p \in Members(st) THEN [st EXCEPT !.players = RemoveAt(@, IndexOf(st, p))] ELSE st

IgnoreReconnectTimeout(i) ==
  /\ Resumes(i, "expiredLoad")
  /\ ready[i].st = NoRoom
  /\ Finish(i)
  /\ UNCHANGED lifeVars

SaveWithoutPlayer(i) ==
  /\ Resumes(i, "expiredLoad")
  /\ ready[i].st # NoRoom
  /\ SaveRoomAndFinish(i, WithoutPlayer(ready[i].st, ready[i].who))
  /\ UNCHANGED lifeVars

(* Mutant: forgets the room and leaves its record.                         *)
ForgetEmptyRoom ==
  EventLoopFree /\ Manager!EmptyTimerFires
    /\ Crosses(SomeoneOnTheWayIn)
    /\ UNCHANGED <<storeVars, sessions, expiring, issued, sockets, tokens>>

DeleteEmptyRoom ==
  /\ EventLoopFree
  /\ Manager!EmptyTimerFires
  /\ room' = NoRoom
  /\ Crosses(SomeoneOnTheWayIn)
  /\ UNCHANGED <<queue, ready, lostUpdate, sessions, expiring, issued, sockets, tokens>>

(***************************************************************************)
SocketEvent ==
  \E s \in Sockets :
    \/ \E name \in Names : CreateRoomOnSocket(s, name) \/ Join(s, name) \/ Rejoin(s, name)
    \/ CloseSocket(s)

Post == \E name \in Names : PostRoom(name)

Expiry ==
  \/ \E t \in SessionIds : SessionExpires(t)
  \/ \E p \in PlayerIds : ReconnectTimeout(p)
  \/ DeleteEmptyRoom

(* The steps that send the room no score_update, and those that do.        *)
ResumeSilently(i) ==
  \/ SaveOwnerSession(i) \/ SeatOwner(i) \/ AnswerPost(i)
  \/ LookUpSession(i) \/ GiveUpReconnect(i) \/ SaveReconnected(i)
  \/ ReplaceSession(i) \/ FetchSockets(i) \/ SeatReturned(i)
  \/ RefuseJoin(i) \/ SaveJoined(i) \/ SaveJoinedSession(i)
  \/ IgnoreLeaver(i) \/ LoadForLeaver(i) \/ SaveDisconnected(i)
  \/ ExpireSession(i) \/ OpenReconnectWindow(i)
  \/ IgnoreReconnectTimeout(i)

ResumeLife ==
  \E i \in DOMAIN ready :
    ResumeSilently(i) \/ SeatJoined(i) \/ SaveWithoutPlayer(i)

LifeReplies == Deliver /\ UNCHANGED lifeVars

LifeNext == SocketEvent \/ Post \/ Expiry \/ LifeReplies \/ ResumeLife

LifeSpec == LifeInit /\ [][LifeNext]_lifecycleVars

(* Redis answers and expires, promises resolve and timers fire.            *)
FairLifeSpec ==
  /\ LifeSpec
  /\ WF_lifecycleVars(LifeReplies)
  /\ WF_lifecycleVars(ResumeLife)
  /\ WF_lifecycleVars(DeleteEmptyRoom)
  /\ \A p \in PlayerIds : WF_lifecycleVars(ReconnectTimeout(p))
  /\ \A t \in SessionIds : WF_lifecycleVars(SessionExpires(t))
=============================================================================
