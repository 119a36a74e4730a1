--------------------------- MODULE LifecycleProofs ---------------------------
(***************************************************************************)
(* Every copy of the record that the handlers of a room's life compute is  *)
(* well formed, with each seat taken once, for any number of handlers in   *)
(* flight.  Beside them the store may serve other handlers, any set G of   *)
(* records, as it does in the server.                                      *)
(*                                                                         *)
(* The second half: record, sessions, sockets and RoomManager agree, for   *)
(* any number of handlers in flight, but for what each of these is just    *)
(* doing to its own player; until one overwrites a record it has not seen, *)
(* or an event comes across a handler it concerns.                         *)
(***************************************************************************)
EXTENDS LifecycleProperties, RoomStateProofs

(***************************************************************************)
(* The record.                                                             *)
(***************************************************************************)
SoundRoom(st) == RoomOK(st) /\ SeatsOK(st)

(* The same players in the same order; all else may differ.                *)
SameSeats(st, new) ==
  /\ Len(new.players) = Len(st.players)
  /\ new.totalMiniRounds = st.totalMiniRounds
  /\ \A i \in DOMAIN st.players :
       /\ new.players[i].id = st.players[i].id
       /\ new.players[i].isOwner = st.players[i].isOwner

LEMMA SameSeatsOK ==
  ASSUME NEW st \in Room, NEW new \in Room, SameSeats(st, new), SeatsOK(st)
  PROVE  SeatsOK(new)
<1>1. /\ DOMAIN new.players = DOMAIN st.players
      /\ Len(new.players) = Len(st.players)
  BY PlayersDomain DEF SameSeats
<1>2. \A i \in DOMAIN st.players :
        /\ new.players[i].id = st.players[i].id
        /\ new.players[i].isOwner = st.players[i].isOwner
  BY DEF SameSeats
<1>3. Owners(new) = Owners(st)
  BY <1>1, <1>2 DEF Owners
<1> QED
  BY <1>1, <1>2, <1>3 DEF SeatsOK, SameSeats

LEMMA TotalMiniRoundsGrow ==
  ASSUME NEW m \in Nat, NEW n \in Nat, m <= n
  PROVE  /\ CalculateTotalMiniRounds(m) \in Nat
         /\ CalculateTotalMiniRounds(m) <= CalculateTotalMiniRounds(n)
         /\ m >= 1 => CalculateTotalMiniRounds(m) >= 1
<1>1. RoundsCount \in Nat /\ RoundsCount >= 1
  BY SettingsAssumption
<1>2. RoundsCount * (n - m) >= 0 /\ RoundsCount * n = RoundsCount * m + RoundsCount * (n - m)
  BY <1>1
<1>3. RoundsCount * m \in Nat /\ (m >= 1 => RoundsCount * m >= 1)
  BY <1>1
<1> QED
  BY <1>1, <1>2, <1>3 DEF CalculateTotalMiniRounds

LEMMA SetStatusSound ==
  ASSUME NEW st, SoundRoom(st), NEW p, NEW status \in {"connected", "disconnected"}
  PROVE  SoundRoom(SetStatus(st, p, status))
<1> DEFINE players == [i \in DOMAIN st.players |->
             IF st.players[i].id = p
             THEN [st.players[i] EXCEPT !.connectionStatus = status] ELSE st.players[i]]
           new == [st EXCEPT !.players = players]
<1>1. st \in Room
  BY DEF SoundRoom, RoomOK
<1>2. new = SetStatus(st, p, status)
  BY DEF SetStatus
<1>3. /\ players \in Seq(Player) /\ Len(players) = Len(st.players)
      /\ DOMAIN players = DOMAIN st.players
  <2>1. players \in [1..Len(st.players) -> Player]
    BY <1>1, PlayersDomain DEF Player
  <2> HIDE DEF players
  <2> QED
    BY <1>1, <2>1, PlayersDomain, FunctionIsSequence
<1>4. \A i \in DOMAIN st.players :
        /\ players[i].id = st.players[i].id
        /\ players[i].isOwner = st.players[i].isOwner
        /\ players[i].role = st.players[i].role
        /\ players[i].guessed = st.players[i].guessed
  BY <1>1, PlayersDomain DEF Player
<1> HIDE DEF players
<1>5. new \in Room /\ new.players = players
  BY <1>1, <1>3 DEF Room
<1>6. /\ new.phase = st.phase /\ new.roundPhase = st.roundPhase
      /\ new.miniRoundNumber = st.miniRoundNumber /\ new.totalMiniRounds = st.totalMiniRounds
      /\ new.leaderPlayerId = st.leaderPlayerId
      /\ new.wordOptions = st.wordOptions /\ new.usedWords = st.usedWords
      /\ new.word = st.word /\ new.wordMask = st.wordMask /\ new.hintsUsed = st.hintsUsed
  BY <1>1 DEF Room
<1> HIDE DEF new
<1>7. LeaderOnlyDraws(new)
  BY <1>3, <1>4, <1>5, <1>6 DEF SoundRoom, RoomOK, LeaderOnlyDraws, Playing, InPhase
<1>8. GameLengthOK(new) /\ RoundNumberOK(new)
  BY <1>6 DEF SoundRoom, RoomOK, GameLengthOK, RoundNumberOK
<1>9. WordsFresh(new) /\ MaskMatchesHints(new)
  BY <1>6, Zenon DEF SoundRoom, RoomOK, WordsFresh, MaskMatchesHints, Playing, InPhase
<1>10. SeatsOK(new)
  BY <1>1, <1>3, <1>4, <1>5, <1>6, SameSeatsOK DEF SameSeats, SoundRoom
<1> QED
  BY <1>2, <1>5, <1>7, <1>8, <1>9, <1>10 DEF SoundRoom, RoomOK

LEMMA WithoutPlayerSound ==
  ASSUME NEW st, SoundRoom(st), NEW p
  PROVE  SoundRoom(WithoutPlayer(st, p))
<1>1. CASE p \notin Members(st)
  BY <1>1 DEF WithoutPlayer
<1>2. CASE p \in Members(st)
  <2> DEFINE k == IndexOf(st, p)
             n == Len(st.players)
             players == RemoveAt(st.players, k)
             new == [st EXCEPT !.players = players]
             was(j) == IF j < k THEN j ELSE j + 1
  <2>1. st \in Room /\ n \in Nat /\ k \in 1..n
    BY <1>2, IndexOfMember, PlayersDomain DEF SoundRoom, RoomOK
  <2>2. WithoutPlayer(st, p) = new
    BY <1>2 DEF WithoutPlayer
  <2>3. /\ players \in Seq(Player) /\ Len(players) = n - 1
        /\ \A j \in 1..(n - 1) : players[j] = st.players[was(j)]
    BY <2>1, PlayersDomain, RemoveAtType
  <2>4. /\ DOMAIN players = 1..(n - 1) /\ DOMAIN st.players = 1..n
        /\ \A j \in 1..(n - 1) : was(j) \in 1..n
        /\ \A i, j \in 1..(n - 1) : was(i) = was(j) => i = j
    <3>1. DOMAIN players = 1..(n - 1) /\ DOMAIN st.players = 1..n
      BY <2>1, <2>3, LenProperties, PlayersDomain
    <3> HIDE DEF players, k, n
    <3>2. /\ \A j \in 1..(n - 1) : was(j) \in 1..n
          /\ \A i, j \in 1..(n - 1) : was(i) = was(j) => i = j
      BY <2>1
    <3> QED
      BY <3>1, <3>2 DEF n
  <2> HIDE DEF players, k, was
  <2>5. new \in Room /\ new.players = players
    BY <2>1, <2>3 DEF Room
  <2>6. /\ new.phase = st.phase /\ new.roundPhase = st.roundPhase
        /\ new.miniRoundNumber = st.miniRoundNumber /\ new.totalMiniRounds = st.totalMiniRounds
        /\ new.leaderPlayerId = st.leaderPlayerId
        /\ new.wordOptions = st.wordOptions /\ new.usedWords = st.usedWords
        /\ new.word = st.word /\ new.wordMask = st.wordMask /\ new.hintsUsed = st.hintsUsed
    BY <2>1 DEF Room
  <2> HIDE DEF new
  <2>7. LeaderOnlyDraws(new)
    BY <2>3, <2>4, <2>5, <2>6 DEF SoundRoom, RoomOK, LeaderOnlyDraws, Playing, InPhase
  <2>8. GameLengthOK(new) /\ RoundNumberOK(new)
    BY <2>6 DEF SoundRoom, RoomOK, GameLengthOK, RoundNumberOK
  <2>9. WordsFresh(new) /\ MaskMatchesHints(new)
    BY <2>6, Zenon DEF SoundRoom, RoomOK, WordsFresh, MaskMatchesHints, Playing, InPhase
  <2>10. SeatsOK(new)
    <3>1. \A i, j \in DOMAIN players :
            NameOf[players[i].id] = NameOf[players[j].id] => i = j
      <4>1. \A i, j \in 1..n :
              NameOf[st.players[i].id] = NameOf[st.players[j].id] => i = j
        BY <2>4 DEF SoundRoom, SeatsOK
      <4> SUFFICES ASSUME NEW i \in 1..(n - 1), NEW j \in 1..(n - 1),
                          NameOf[players[i].id] = NameOf[players[j].id]
                   PROVE  i = j
        BY <2>4
      <4>2. NameOf[st.players[was(i)].id] = NameOf[st.players[was(j)].id]
        BY <2>3
      <4>3. was(i) = was(j)
        BY <2>4, <4>1, <4>2
      <4> QED
        BY <2>4, <4>3
    <3>2. \A i, j \in Owners(new) : i = j
      BY <2>3, <2>4, <2>5 DEF SoundRoom, SeatsOK, Owners
    <3>3. CalculateTotalMiniRounds(n - 1) <= CalculateTotalMiniRounds(n)
          /\ CalculateTotalMiniRounds(n - 1) \in Nat /\ CalculateTotalMiniRounds(n) \in Nat
      BY <2>1, TotalMiniRoundsGrow
    <3>4. CalculateTotalMiniRounds(n) <= st.totalMiniRounds /\ n <= MaxPlayers
      BY DEF SoundRoom, SeatsOK
    <3>5. st.totalMiniRounds \in Nat /\ MaxPlayers \in Nat
      BY <2>1, SettingsAssumption DEF Room
    <3> HIDE DEF n
    <3>6. /\ CalculateTotalMiniRounds(n - 1) <= st.totalMiniRounds
          /\ n - 1 <= MaxPlayers
      BY <2>1, <3>3, <3>4, <3>5
    <3> QED
      BY <2>3, <2>5, <2>6, <3>1, <3>2, <3>6 DEF SeatsOK, n
  <2> QED
    BY <2>2, <2>5, <2>7, <2>8, <2>9, <2>10 DEF SoundRoom, RoomOK
<1> QED
  BY <1>1, <1>2

LEMMA JoinedRoomSound ==
  ASSUME NEW st, SoundRoom(st), NEW p \in PlayerIds,
         st.phase = "lobby", Len(st.players) < MaxPlayers, ~NicknameTaken(st, NameOf[p])
  PROVE  SoundRoom(JoinedRoom(st, p))
<1> DEFINE n == Len(st.players)
           entry == NewPlayer(p, FALSE, "connected")
           players == Append(st.players, entry)
           total == CalculateTotalMiniRounds(n + 1)
           new == [st EXCEPT !.totalMiniRounds = total, !.players = players]
<1>1. /\ st \in Room /\ n \in Nat /\ st.players \in Seq(Player)
      /\ DOMAIN st.players = 1..n
  BY PlayersDomain DEF SoundRoom, RoomOK
<1>2. new = JoinedRoom(st, p)
  BY DEF JoinedRoom
<1>3. entry \in Player /\ entry.id = p /\ ~entry.isOwner
  BY DEF NewPlayer, Player
<1> HIDE DEF entry
<1>4. /\ players \in Seq(Player) /\ Len(players) = n + 1
      /\ \A i \in 1..n : players[i] = st.players[i]
      /\ players[n + 1] = entry
  BY <1>1, <1>3, AppendProperties
<1> HIDE DEF players
<1>5. DOMAIN players = 1..(n + 1)
  BY <1>4, LenProperties
<1>6. total \in Nat /\ total \in 1..(RoundsCount * MaxPlayers)
  <2>1. n + 1 \in Nat /\ n + 1 >= 1 /\ MaxPlayers \in Nat /\ n + 1 <= MaxPlayers
    BY <1>1, SettingsAssumption
  <2>2. total \in Nat /\ total <= CalculateTotalMiniRounds(MaxPlayers) /\ total >= 1
    BY <2>1, TotalMiniRoundsGrow
  <2>3. CalculateTotalMiniRounds(MaxPlayers) = RoundsCount * MaxPlayers
    BY DEF CalculateTotalMiniRounds
  <2>4. RoundsCount * MaxPlayers \in Nat
    BY SettingsAssumption
  <2> HIDE DEF total
  <2> QED
    BY <2>2, <2>3, <2>4
<1> HIDE DEF total
<1>7. /\ new \in Room /\ new.players = players /\ new.totalMiniRounds = total
      /\ new.phase = "lobby" /\ new.miniRoundNumber = st.miniRoundNumber
  BY <1>1, <1>4, <1>6 DEF Room
<1> HIDE DEF new
<1>8. GameLengthOK(new) /\ RoundNumberOK(new)
  BY <1>6, <1>7 DEF SoundRoom, RoomOK, GameLengthOK, RoundNumberOK
<1>9. LeaderOnlyDraws(new) /\ WordsFresh(new) /\ MaskMatchesHints(new)
  BY <1>7 DEF LeaderOnlyDraws, WordsFresh, MaskMatchesHints, InPhase, Playing
<1>10. \A i, j \in DOMAIN players :
         NameOf[players[i].id] = NameOf[players[j].id] => i = j
  <2>1. \A i, j \in 1..n :
          NameOf[st.players[i].id] = NameOf[st.players[j].id] => i = j
    BY <1>1 DEF SoundRoom, SeatsOK
  <2>2. \A i \in 1..n : NameOf[st.players[i].id] # NameOf[p]
    BY <1>1 DEF NicknameTaken, Members
  <2>3. \A i \in 1..(n + 1) : i \in 1..n \/ i = n + 1
    BY <1>1
  <2> QED
    BY <1>3, <1>4, <1>5, <2>1, <2>2, <2>3
<1>11. \A i, j \in Owners(new) : i = j
  <2>1. Owners(new) \subseteq Owners(st)
    BY <1>1, <1>3, <1>4, <1>5, <1>7 DEF Owners
  <2> QED
    BY <2>1 DEF SoundRoom, SeatsOK
<1>12. SeatsOK(new)
  <2>1. n + 1 <= MaxPlayers /\ CalculateTotalMiniRounds(n + 1) <= total
    BY <1>1, <1>6, SettingsAssumption DEF total
  <2> QED
    BY <1>4, <1>7, <1>10, <1>11, <2>1 DEF SeatsOK
<1> QED
  BY <1>2, <1>7, <1>8, <1>9, <1>12 DEF SoundRoom, RoomOK

LEMMA NewRoomSound ==
  ASSUME NEW p \in PlayerIds
  PROVE  SoundRoom(LobbyRoom(<<p>>, {p}))
<1> DEFINE new == LobbyRoom(<<p>>, {p})
<1>1. /\ <<p>> \in Seq(PlayerIds) /\ Len(<<p>>) = 1
      /\ 1 \in 1..MaxPlayers
  BY SettingsAssumption
<1>2. RoomOK(new)
  BY <1>1, LobbyRoomOK
<1>3. /\ DOMAIN new.players = {1} /\ new.totalMiniRounds = CalculateTotalMiniRounds(1)
      /\ Len(new.players) = 1
  <2>1. new.totalMiniRounds = CalculateTotalMiniRounds(1)
    BY <1>1 DEF LobbyRoom
  <2>2. DOMAIN new.players = {1}
    BY <1>1 DEF LobbyRoom
  <2>3. new.players \in Seq(Player)
    BY <1>2, PlayersDomain DEF RoomOK
  <2>4. Len(new.players) \in Nat /\ 1..Len(new.players) = {1}
    BY <2>2, <2>3, LenProperties
  <2> HIDE DEF new
  <2>5. Len(new.players) = 1
    <3>1. 1 \in 1..Len(new.players)
      BY <2>4
    <3>2. Len(new.players) \in 1..Len(new.players)
      BY <2>4, <3>1
    <3> QED
      BY <2>4, <3>2
  <2> QED
    BY <2>1, <2>2, <2>5
<1>4. CalculateTotalMiniRounds(1) \in Nat
  BY SettingsAssumption DEF CalculateTotalMiniRounds
<1> HIDE DEF new
<1>5. SeatsOK(new)
  BY <1>1, <1>3, <1>4, SettingsAssumption DEF SeatsOK, Owners
<1> QED
  BY <1>2, <1>5 DEF SoundRoom, new

(***************************************************************************)
(* The invariant.                                                          *)
(***************************************************************************)
CopyOK(st) == st = NoRoom \/ SoundRoom(st)

(* Every handler but those that have yet to find out acts for a player,    *)
(* and one that does so over a socket has a session.  A join goes on with  *)
(* the record it has written.                                              *)
SoundHandlers ==
  {h \in LifeHandler :
     /\ CopyOK(h.st)
     /\ h.pc \notin {"reconnectSession", "leaveSession", "joinLoad"} => h.who \in PlayerIds
     /\ h.who # NoPlayer /\ h.pc # "expiredLoad" => h.session \in SessionIds
     /\ h.pc \in {"joinSaved", "joinSessionSaved"} => h.st # NoRoom}

CopiesSound(G) ==
  /\ CopyOK(room)
  /\ queue \in Seq(G \cup SoundHandlers)
  /\ ready \in Seq(G \cup SoundHandlers)
  /\ lostUpdate \in BOOLEAN

Apart(G) == \A h \in G : h.pc \notin LifePcs

(* A timer is on record only while it is pending.                          *)
ManagerSound ==
  /\ Manager!ManagerTypeOK
  /\ \A p \in PlayerIds : reconnecting[p].onRecord => reconnecting[p].pending >= 1
  /\ emptying.onRecord => emptying.pending >= 1

(* A socket with a player has a session.                                   *)
SocketsSound ==
  /\ sessions \in [SessionIds -> PlayerIds \cup {NoPlayer}]
  /\ expiring \in SUBSET SessionIds
  /\ issued \in SUBSET (PlayerIds \cup SessionIds)
  /\ sockets \in [Sockets -> Socket]
  /\ tokens \in [Names -> SessionIds \cup {NoSession}]
  /\ \A s \in Sockets : HasSession(s) => sockets[s].session \in SessionIds

LifeSound(G) == CopiesSound(G) /\ SocketsSound /\ ManagerSound

(***************************************************************************)
(* The handlers in flight.                                                 *)
(***************************************************************************)
LEMMA BeginSound ==
  ASSUME NEW G, CopiesSound(G), NEW h \in SoundHandlers, Begin(h),
         CopyOK(room'), lostUpdate' \in BOOLEAN
  PROVE  CopiesSound(G)'
<1>1. queue' \in Seq(G \cup SoundHandlers)
  BY AppendProperties DEF Begin, CopiesSound
<1> QED
  BY <1>1 DEF Begin, CopiesSound

LEMMA AwaitSound ==
  ASSUME NEW G, CopiesSound(G), NEW i \in DOMAIN ready, NEW h \in SoundHandlers,
         Await(i, h), CopyOK(room'), lostUpdate' \in BOOLEAN
  PROVE  CopiesSound(G)'
<1>1. queue' \in Seq(G \cup SoundHandlers)
  BY AppendProperties DEF Await, CopiesSound
<1>2. ready' \in Seq(G \cup SoundHandlers)
  BY RemoveAtType DEF Await, CopiesSound
<1> QED
  BY <1>1, <1>2 DEF CopiesSound

LEMMA EndSound ==
  ASSUME NEW G, CopiesSound(G), NEW i \in DOMAIN ready,
         ready' = RemoveAt(ready, i), queue' = queue,
         CopyOK(room'), lostUpdate' \in BOOLEAN
  PROVE  CopiesSound(G)'
<1>1. ready' \in Seq(G \cup SoundHandlers)
  BY RemoveAtType DEF CopiesSound
<1> QED
  BY <1>1 DEF CopiesSound

LEMMA DeliverSound ==
  ASSUME NEW G, CopiesSound(G), Deliver
  PROVE  CopiesSound(G)'
<1> DEFINE S == G \cup SoundHandlers
<1>1. PICK n \in 1..Len(queue) : /\ ready' = SubSeq(queue, 1, n)
                                /\ queue' = SubSeq(queue, n + 1, Len(queue))
  BY DEF Deliver
<1>2. /\ queue \in Seq(S) /\ Len(queue) \in Nat
      /\ \A j \in 1..Len(queue) : queue[j] \in S
  BY LenProperties, ElementOfSeq DEF CopiesSound
<1> HIDE DEF S
<1>3. /\ \A j \in 1..n : queue[j] \in S
      /\ \A j \in (n + 1)..Len(queue) : queue[j] \in S
  BY <1>2
<1>4. ready' \in Seq(S)
  BY <1>1, <1>2, <1>3, SubSeqProperties
<1>5. queue' \in Seq(S)
  BY <1>1, <1>2, <1>3, SubSeqProperties
<1> QED
  BY <1>4, <1>5 DEF Deliver, CopiesSound, S

LEMMA ReadySound ==
  ASSUME NEW G, CopiesSound(G), Apart(G), NEW i, NEW pc \in LifePcs, Resumes(i, pc)
  PROVE  /\ i \in DOMAIN ready /\ ready[i].pc = pc
         /\ ready[i] \in SoundHandlers
<1>1. i \in DOMAIN ready /\ ready[i].pc = pc
  BY DEF Resumes
<1>2. ready[i] \in G \cup SoundHandlers
  BY <1>1, LenProperties, ElementOfSeq DEF CopiesSound
<1> QED
  BY <1>1, <1>2 DEF Apart

(* A step of the i-th handler that leaves the record, or writes it.        *)
LEMMA FinishSound ==
  ASSUME NEW G, CopiesSound(G), NEW i \in DOMAIN ready, Finish(i)
  PROVE  CopiesSound(G)'
  BY EndSound DEF Finish, CopiesSound

LEMMA LoadSound ==
  ASSUME NEW G, CopiesSound(G), NEW i \in DOMAIN ready, NEW pc,
         [ready[i] EXCEPT !.pc = pc, !.st = room] \in SoundHandlers, Load(i, pc)
  PROVE  CopiesSound(G)'
  BY AwaitSound DEF Load, CopiesSound

LEMMA SaveSound ==
  ASSUME NEW G, CopiesSound(G), NEW i \in DOMAIN ready, NEW next, SoundRoom(next), NEW pc,
         [ready[i] EXCEPT !.pc = pc, !.st = next] \in SoundHandlers,
         SaveRoom(i, next, pc)
  PROVE  CopiesSound(G)'
<1>1. /\ Await(i, [ready[i] EXCEPT !.pc = pc, !.st = next])
      /\ CopyOK(room') /\ lostUpdate' \in BOOLEAN
  BY DEF SaveRoom, Await, CopyOK
<1> QED
  BY <1>1, AwaitSound

LEMMA HandlerGoesOn ==
  ASSUME NEW h \in SoundHandlers, NEW pc \in LifePcs, NEW st, CopyOK(st),
         pc \notin {"reconnectSession", "leaveSession"},
         pc \in {"joinSaved", "joinSessionSaved"} => st # NoRoom,
         h.pc = "expiredLoad" => pc = "expiredLoad",
         pc = "joinLoad" \/ h.who \in PlayerIds
  PROVE  [h EXCEPT !.pc = pc, !.st = st] \in SoundHandlers
<1> DEFINE new == [h EXCEPT !.pc = pc, !.st = st]
<1>1. st \in Room \cup {NoRoom}
  BY DEF CopyOK, SoundRoom, RoomOK
<1>2. h \in LifeHandler
  BY DEF SoundHandlers
<1>3. /\ new \in LifeHandler /\ new.st = st /\ new.pc = pc
      /\ new.who = h.who /\ new.session = h.session
  BY <1>1, <1>2 DEF LifeHandler
<1> HIDE DEF new
<1> QED
  BY <1>3 DEF SoundHandlers, new

(***************************************************************************)
(* The RoomManager.                                                        *)
(***************************************************************************)
LEMMA CancelType ==
  ASSUME NEW t \in Manager!Timers, t.onRecord => t.pending >= 1
  PROVE  /\ Manager!Cancel(t) \in Manager!Timers
         /\ ~Manager!Cancel(t).onRecord
  BY DEF Manager!Timers, Manager!Cancel

LEMMA SetType ==
  ASSUME NEW t \in Manager!Timers
  PROVE  Manager!Set(t) \in Manager!Timers /\ Manager!Set(t).pending >= 1
  BY DEF Manager!Timers, Manager!Set

LEMMA AddPlayerSound ==
  ASSUME ManagerSound, NEW p \in PlayerIds, Manager!AddPlayer(p)
  PROVE  ManagerSound'
<1>1. CASE ~managed
  BY <1>1 DEF ManagerSound, Manager!AddPlayer, Manager!managerVars, Manager!ManagerTypeOK
<1>2. CASE managed
  <2>1. /\ reconnecting' = [reconnecting EXCEPT ![p] = Manager!Cancel(reconnecting[p])]
        /\ emptying' = Manager!Cancel(emptying)
        /\ playerIds' = playerIds \cup {p} /\ managed' = managed
    BY <1>2 DEF Manager!AddPlayer
  <2>2. /\ reconnecting \in [PlayerIds -> Manager!Timers] /\ emptying \in Manager!Timers
        /\ playerIds \in SUBSET PlayerIds /\ managed \in BOOLEAN
        /\ \A q \in PlayerIds : reconnecting[q].onRecord => reconnecting[q].pending >= 1
        /\ emptying.onRecord => emptying.pending >= 1
    BY DEF ManagerSound, Manager!ManagerTypeOK
  <2>3. /\ Manager!Cancel(reconnecting[p]) \in Manager!Timers
        /\ ~Manager!Cancel(reconnecting[p]).onRecord
    BY <2>2, CancelType
  <2>4. emptying' \in Manager!Timers /\ ~emptying'.onRecord
    BY <2>1, <2>2, CancelType
  <2>5. /\ reconnecting' \in [PlayerIds -> Manager!Timers]
        /\ \A q \in PlayerIds : reconnecting'[q].onRecord => reconnecting'[q].pending >= 1
    BY <2>1, <2>2, <2>3
  <2> QED
    BY <2>1, <2>2, <2>4, <2>5 DEF ManagerSound, Manager!ManagerTypeOK
<1> QED
  BY <1>1, <1>2

LEMMA RemovePlayerSound ==
  ASSUME ManagerSound, NEW p \in PlayerIds, Manager!RemovePlayer(p)
  PROVE  ManagerSound'
<1>1. CASE ~managed
  BY <1>1 DEF ManagerSound, Manager!RemovePlayer, Manager!managerVars, Manager!ManagerTypeOK
<1>2. CASE managed
  <2>1. /\ reconnecting' = [reconnecting EXCEPT ![p] = Manager!Set(reconnecting[p])]
        /\ UNCHANGED <<managed, playerIds, emptying>>
    BY <1>2 DEF Manager!RemovePlayer
  <2>2. /\ reconnecting \in [PlayerIds -> Manager!Timers]
        /\ \A q \in PlayerIds : reconnecting[q].onRecord => reconnecting[q].pending >= 1
    BY DEF ManagerSound, Manager!ManagerTypeOK
  <2>3. /\ Manager!Set(reconnecting[p]) \in Manager!Timers
        /\ Manager!Set(reconnecting[p]).pending >= 1
    BY <2>2, SetType
  <2>4. /\ reconnecting' \in [PlayerIds -> Manager!Timers]
        /\ \A q \in PlayerIds : reconnecting'[q].onRecord => reconnecting'[q].pending >= 1
    BY <2>1, <2>2, <2>3
  <2> QED
    BY <2>1, <2>4 DEF ManagerSound, Manager!ManagerTypeOK
<1> QED
  BY <1>1, <1>2

LEMMA ManagerTimersSound ==
  ASSUME ManagerSound,
         \/ \E p \in PlayerIds : Manager!ReconnectTimerFires(p)
         \/ Manager!EmptyTimerFires
  PROVE  ManagerSound'
<1>0. /\ reconnecting \in [PlayerIds -> Manager!Timers] /\ emptying \in Manager!Timers
      /\ playerIds \in SUBSET PlayerIds /\ managed \in BOOLEAN
      /\ \A q \in PlayerIds : reconnecting[q].onRecord => reconnecting[q].pending >= 1
      /\ emptying.onRecord => emptying.pending >= 1
  BY DEF ManagerSound, Manager!ManagerTypeOK
<1>1. ASSUME NEW p \in PlayerIds, Manager!ReconnectTimerFires(p)
      PROVE  ManagerSound'
  <2>1. /\ reconnecting[p].pending > 0
        /\ reconnecting' = [reconnecting EXCEPT ![p] = Manager!Fire(reconnecting[p])]
        /\ playerIds' = playerIds \ {p} /\ managed' = managed
        /\ emptying' = IF playerIds' = {} THEN Manager!Set(emptying) ELSE emptying
    BY <1>1 DEF Manager!ReconnectTimerFires
  <2>2. /\ Manager!Fire(reconnecting[p]) \in Manager!Timers
        /\ ~Manager!Fire(reconnecting[p]).onRecord
    BY <1>0, <2>1 DEF Manager!Fire, Manager!Timers
  <2>3. /\ reconnecting' \in [PlayerIds -> Manager!Timers]
        /\ \A q \in PlayerIds : reconnecting'[q].onRecord => reconnecting'[q].pending >= 1
    BY <1>0, <2>1, <2>2
  <2>4. emptying' \in Manager!Timers /\ (emptying'.onRecord => emptying'.pending >= 1)
    BY <1>0, <2>1, SetType
  <2> QED
    BY <1>0, <2>1, <2>3, <2>4 DEF ManagerSound, Manager!ManagerTypeOK
<1>2. CASE Manager!EmptyTimerFires
  <2>1. /\ emptying.pending > 0 /\ managed' = FALSE
        /\ emptying' = [emptying EXCEPT !.pending = @ - 1, !.onRecord = FALSE]
        /\ UNCHANGED <<playerIds, reconnecting>>
    BY <1>2 DEF Manager!EmptyTimerFires
  <2>2. emptying' = [pending |-> emptying.pending - 1, onRecord |-> FALSE]
    BY <1>0, <2>1 DEF Manager!Timers
  <2>3. emptying.pending - 1 \in Nat
    BY <1>0, <2>1 DEF Manager!Timers
  <2>4. emptying' \in Manager!Timers /\ ~emptying'.onRecord
    BY <2>2, <2>3 DEF Manager!Timers
  <2> QED
    BY <1>0, <2>1, <2>4 DEF ManagerSound, Manager!ManagerTypeOK
<1> QED
  BY <1>1, <1>2

(***************************************************************************)
(* The steps that leave most of it alone.                                  *)
(***************************************************************************)
LEMMA LifeVarsUnchanged ==
  ASSUME SocketsSound, ManagerSound, UNCHANGED lifeVars
  PROVE  SocketsSound' /\ ManagerSound'
  BY DEF lifeVars, managerVars, SocketsSound, ManagerSound, HasSession, Manager!ManagerTypeOK

LEMMA ManagerUnchanged ==
  ASSUME ManagerSound, UNCHANGED managerVars
  PROVE  ManagerSound'
  BY DEF managerVars, ManagerSound, Manager!ManagerTypeOK

LEMMA SocketStatusSound ==
  ASSUME SocketsSound, NEW s \in Sockets, NEW status \in {"new", "open", "closed"},
         sockets' = [sockets EXCEPT ![s].status = status],
         UNCHANGED <<sessions, expiring, issued, tokens>>
  PROVE  SocketsSound'
<1>1. sockets \in [Sockets -> Socket]
  BY DEF SocketsSound
<1>2. sockets' = [sockets EXCEPT ![s] = [sockets[s] EXCEPT !.status = status]]
  BY <1>1 DEF Socket
<1>3. /\ sockets' \in [Sockets -> Socket]
      /\ \A u \in Sockets : /\ sockets'[u].player = sockets[u].player
                            /\ sockets'[u].session = sockets[u].session
  BY <1>1, <1>2 DEF Socket
<1> QED
  BY <1>3 DEF SocketsSound, HasSession

LEMMA AttachSound ==
  ASSUME SocketsSound, ManagerSound,
         NEW s, NEW name, NEW p \in PlayerIds, NEW t \in SessionIds,
         Attach(s, name, p, t), UNCHANGED <<sessions, expiring, issued>>
  PROVE  SocketsSound' /\ ManagerSound'
<1>1. sockets \in [Sockets -> Socket] /\ tokens \in [Names -> SessionIds \cup {NoSession}]
  BY DEF SocketsSound
<1>2. ManagerSound'
  BY AddPlayerSound DEF Attach
<1>3. tokens' \in [Names -> SessionIds \cup {NoSession}]
  BY <1>1 DEF Attach
<1>4. /\ sockets' \in [Sockets -> Socket]
      /\ \A u \in Sockets : HasSession(u)' => sockets'[u].session \in SessionIds
  <2>1. CASE s \in Sockets
    <3>1. sockets' = [sockets EXCEPT ![s] = [sockets[s] EXCEPT !.player = p, !.session = t]]
      BY <1>1, <2>1 DEF Attach, Socket
    <3>2. /\ [sockets[s] EXCEPT !.player = p, !.session = t] \in Socket
          /\ [sockets[s] EXCEPT !.player = p, !.session = t].session = t
      BY <1>1, <2>1 DEF Socket
    <3> QED
      BY <1>1, <2>1, <3>1, <3>2 DEF SocketsSound, HasSession
  <2>2. CASE s \notin Sockets
    <3>1. sockets' = sockets
      BY <1>1, <2>2 DEF Attach
    <3> QED
      BY <3>1 DEF SocketsSound, HasSession
  <2> QED
    BY <2>1, <2>2
<1> QED
  BY <1>2, <1>3, <1>4 DEF SocketsSound

LEMMA NewHandlerType ==
  ASSUME NEW pc \in LifePcs
  PROVE  /\ NewHandler(pc) \in LifeHandler
         /\ NewHandler(pc).pc = pc /\ NewHandler(pc).st = NoRoom
         /\ NewHandler(pc).who = NoPlayer /\ NewHandler(pc).session = NoSession
  BY DEF NewHandler, LifeHandler

LEMMA LeaverSound ==
  ASSUME SocketsSound, NEW s \in Sockets
  PROVE  Leaver(s) \in SoundHandlers
<1> DEFINE data == sockets[s]
           who == IF sessions[data.session] = data.player THEN data.player ELSE NoPlayer
           new == NewHandler("leaveSession")
           h == [new EXCEPT !.session = data.session, !.who = who]
<1>1. Leaver(s) = h
  BY DEF Leaver
<1>2. /\ data \in Socket /\ who \in PlayerIds \cup {NoPlayer}
      /\ who # NoPlayer => data.session \in SessionIds
  BY DEF SocketsSound, HasSession, Socket
<1>3. data.session \in SessionIds \cup {NoSession}
  BY <1>2 DEF Socket
<1>4. new \in LifeHandler /\ new.pc = "leaveSession" /\ new.st = NoRoom
  BY NewHandlerType DEF LifePcs
<1> HIDE DEF data, who, new
<1>5. /\ h \in LifeHandler /\ h.pc = "leaveSession" /\ h.st = NoRoom
      /\ h.who = who /\ h.session = data.session
  BY <1>2, <1>3, <1>4 DEF LifeHandler
<1> HIDE DEF h
<1>6. h \in SoundHandlers
  BY <1>2, <1>5 DEF SoundHandlers, CopyOK
<1> QED
  BY <1>1, <1>6

(***************************************************************************)
(* A room and its owner.                                                   *)
(***************************************************************************)
LEMMA CreateRoomSound ==
  ASSUME NEW G, LifeSound(G), NEW s \in Sockets \cup {NoSocket}, NEW name \in Names,
         \/ s \in Sockets /\ CreateRoomOnSocket(s, name)
         \/ s = NoSocket /\ PostRoom(name)
  PROVE  LifeSound(G)'
<1>1. CreateRoom(s, name)
  BY DEF CreateRoomOnSocket, PostRoom
<1>2. PICK p \in Fresh(PlayerIds), t \in Fresh(SessionIds) :
        /\ NameOf[p] = name
        /\ issued' = {p, t}
        /\ room' = LobbyRoom(<<p>>, {p})
        /\ Begin([NewHandler("createSaved") EXCEPT !.st = room', !.who = p, !.socket = s,
                                          !.name = name, !.session = t])
  BY <1>1 DEF CreateRoom
<1>3. p \in PlayerIds /\ t \in SessionIds
  BY DEF Fresh
<1>4. SoundRoom(room')
  BY <1>2, <1>3, NewRoomSound
<1>5. CopiesSound(G)'
  <2> DEFINE new == NewHandler("createSaved")
             h == [new EXCEPT !.st = room', !.who = p, !.socket = s,
                              !.name = name, !.session = t]
  <2>1. Begin(h)
    BY <1>2
  <2>2. room' \in Room
    BY <1>4 DEF SoundRoom, RoomOK
  <2>3. new \in LifeHandler /\ new.pc = "createSaved"
    BY NewHandlerType DEF LifePcs
  <2> HIDE DEF new
  <2>4. /\ h \in LifeHandler /\ h.pc = "createSaved" /\ h.st = room'
        /\ h.who = p /\ h.session = t
    BY <1>3, <2>2, <2>3 DEF LifeHandler
  <2> HIDE DEF h
  <2>5. h \in SoundHandlers
    BY <1>3, <1>4, <2>4 DEF SoundHandlers, CopyOK
  <2>6. lostUpdate' \in BOOLEAN
    BY <1>1 DEF CreateRoom, LifeSound, CopiesSound
  <2> QED
    BY <1>4, <2>1, <2>5, <2>6, BeginSound DEF LifeSound, CopyOK
<1>6. ManagerSound'
  BY <1>1 DEF CreateRoom, LifeSound, ManagerSound, Manager!CreateRoom, Manager!ManagerTypeOK
<1>7. SocketsSound'
  <2>1. /\ issued' \in SUBSET (PlayerIds \cup SessionIds)
        /\ UNCHANGED <<sessions, expiring, tokens>>
    BY <1>1, <1>2, <1>3 DEF CreateRoom
  <2>2. /\ sockets' \in [Sockets -> Socket]
        /\ \A u \in Sockets : HasSession(u)' => sockets'[u].session \in SessionIds
    <3>1. CASE UNCHANGED sockets
      BY <3>1 DEF LifeSound, SocketsSound, HasSession
    <3>2. CASE s \in Sockets /\ CreateRoomOnSocket(s, name)
      <4>1. sockets \in [Sockets -> Socket]
        BY DEF LifeSound, SocketsSound
      <4>2. sockets' = [sockets EXCEPT ![s] = [sockets[s] EXCEPT !.status = "open"]]
        BY <3>2, <4>1 DEF CreateRoomOnSocket, Socket
      <4>3. /\ sockets' \in [Sockets -> Socket]
            /\ \A u \in Sockets : /\ sockets'[u].player = sockets[u].player
                                  /\ sockets'[u].session = sockets[u].session
        BY <3>2, <4>1, <4>2 DEF Socket
      <4> QED
        BY <4>3 DEF LifeSound, SocketsSound, HasSession
    <3> QED
      BY <3>1, <3>2 DEF PostRoom
  <2> QED
    BY <2>1, <2>2 DEF LifeSound, SocketsSound
<1> QED
  BY <1>5, <1>6, <1>7 DEF LifeSound

LEMMA SaveSessionSound ==
  ASSUME NEW G, LifeSound(G), NEW i \in DOMAIN ready, ready[i] \in SoundHandlers,
         ready[i].pc # "expiredLoad", ready[i].who \in PlayerIds,
         NEW pc \in {"createSessionSaved", "joinSessionSaved"},
         pc = "joinSessionSaved" => ready[i].pc = "joinSaved", SaveSession(i, pc)
  PROVE  LifeSound(G)'
<1>1. CopiesSound(G)'
  <2> DEFINE h == [ready[i] EXCEPT !.pc = pc]
  <2>1. CopyOK(ready[i].st) /\ ready[i] \in LifeHandler /\ pc \in LifePcs
    BY DEF SoundHandlers, LifePcs
  <2>2. h = [ready[i] EXCEPT !.pc = pc, !.st = ready[i].st]
    BY <2>1 DEF LifeHandler
  <2>3. h \in SoundHandlers
    <3>1. pc = "joinSessionSaved" => ready[i].st # NoRoom
      BY DEF SoundHandlers
    <3> QED
      BY <2>1, <2>2, <3>1, HandlerGoesOn
  <2>4. Await(i, h) /\ room' = room /\ lostUpdate' = lostUpdate
    BY DEF SaveSession
  <2> HIDE DEF h
  <2> QED
    BY <2>3, <2>4, AwaitSound DEF LifeSound, CopiesSound
<1>2. SocketsSound'
  BY DEF SaveSession, LifeSound, SocketsSound, HasSession
<1>3. ManagerSound'
  BY ManagerUnchanged DEF SaveSession, LifeSound
<1> QED
  BY <1>1, <1>2, <1>3 DEF LifeSound

LEMMA CreationStepsSound ==
  ASSUME NEW G, LifeSound(G), Apart(G), NEW i,
         SaveOwnerSession(i) \/ SeatOwner(i) \/ AnswerPost(i)
  PROVE  LifeSound(G)'
<1>1. CopiesSound(G) /\ SocketsSound /\ ManagerSound
  BY DEF LifeSound
<1>2. CASE SaveOwnerSession(i)
  <2>1. /\ i \in DOMAIN ready /\ ready[i].pc = "createSaved" /\ ready[i] \in SoundHandlers
    BY <1>1, <1>2, ReadySound DEF SaveOwnerSession, LifePcs
  <2>2. ready[i].who \in PlayerIds
    BY <2>1 DEF SoundHandlers
  <2> QED
    BY <1>2, <2>1, <2>2, SaveSessionSound DEF SaveOwnerSession
<1>3. CASE SeatOwner(i)
  <2>1. /\ i \in DOMAIN ready /\ ready[i].pc = "createSessionSaved"
        /\ ready[i] \in SoundHandlers
    BY <1>1, <1>3, ReadySound DEF SeatOwner, LifePcs
  <2>2. ready[i].who \in PlayerIds /\ ready[i].session \in SessionIds
    BY <2>1, NamesAssumption DEF SoundHandlers
  <2>3. SocketsSound' /\ ManagerSound'
    BY <1>1, <1>3, <2>2, AttachSound DEF SeatOwner
  <2>4. CopiesSound(G)'
    BY <1>1, <1>3, <2>1, FinishSound DEF SeatOwner
  <2> QED
    BY <2>3, <2>4 DEF LifeSound
<1>4. CASE AnswerPost(i)
  <2>1. /\ i \in DOMAIN ready /\ ready[i].pc = "createSessionSaved"
        /\ ready[i] \in SoundHandlers
    BY <1>1, <1>4, ReadySound DEF AnswerPost, LifePcs
  <2>2. ready[i].session \in SessionIds
    BY <2>1, NamesAssumption DEF SoundHandlers
  <2>3. SocketsSound'
    BY <1>1, <1>4, <2>2 DEF AnswerPost, SocketsSound, HasSession
  <2>4. ManagerSound'
    BY <1>1, <1>4, ManagerUnchanged DEF AnswerPost
  <2>5. CopiesSound(G)'
    BY <1>1, <1>4, <2>1, FinishSound DEF AnswerPost
  <2> QED
    BY <2>3, <2>4, <2>5 DEF LifeSound
<1> QED
  BY <1>2, <1>3, <1>4

(***************************************************************************)
(* A player who comes back.                                                *)
(***************************************************************************)
LEMMA RejoinSound ==
  ASSUME NEW G, LifeSound(G), NEW s \in Sockets, NEW name \in Names, Rejoin(s, name)
  PROVE  LifeSound(G)'
<1> DEFINE token == tokens[name]
           new == NewHandler("reconnectSession")
           h == [new EXCEPT !.who = sessions[token], !.socket = s,
                            !.name = name, !.session = token]
<1>1. token \in SessionIds /\ sessions[token] \in PlayerIds \cup {NoPlayer}
  BY DEF Rejoin, LifeSound, SocketsSound
<1>2. new \in LifeHandler /\ new.pc = "reconnectSession" /\ new.st = NoRoom
  BY NewHandlerType DEF LifePcs
<1>3. Begin(h) /\ room' = room /\ lostUpdate' = lostUpdate
  BY DEF Rejoin
<1> HIDE DEF token, new
<1>4. /\ h \in LifeHandler /\ h.pc = "reconnectSession" /\ h.st = NoRoom
      /\ h.session = token
  BY <1>1, <1>2 DEF LifeHandler
<1> HIDE DEF h
<1>5. h \in SoundHandlers
  BY <1>1, <1>4 DEF SoundHandlers, CopyOK
<1>6. CopiesSound(G)'
  BY <1>3, <1>5, BeginSound DEF LifeSound, CopiesSound
<1>7. SocketsSound'
  BY SocketStatusSound DEF Rejoin, OpenSocket, LifeSound
<1>8. ManagerSound'
  BY ManagerUnchanged DEF Rejoin, LifeSound
<1> QED
  BY <1>6, <1>7, <1>8 DEF LifeSound

LEMMA ReconnectStepsSound ==
  ASSUME NEW G, LifeSound(G), Apart(G), NEW i,
         LookUpSession(i) \/ GiveUpReconnect(i) \/ SaveReconnected(i)
  PROVE  LifeSound(G)'
<1>1. CopiesSound(G) /\ SocketsSound /\ ManagerSound /\ CopyOK(room)
  BY DEF LifeSound, CopiesSound
<1>2. SocketsSound' /\ ManagerSound'
  BY <1>1, LifeVarsUnchanged DEF LookUpSession, GiveUpReconnect, SaveReconnected
<1>3. CASE LookUpSession(i)
  <2> DEFINE found == ready[i].who # NoPlayer /\ NameOf[ready[i].who] = ready[i].name
             pc == IF found THEN "reconnectLoad" ELSE "joinLoad"
  <2>1. /\ i \in DOMAIN ready /\ ready[i].pc = "reconnectSession"
        /\ ready[i] \in SoundHandlers
    BY <1>1, <1>3, ReadySound DEF LookUpSession, LifePcs
  <2>2. ready[i].who \in PlayerIds \cup {NoPlayer}
    BY <2>1 DEF SoundHandlers, LifeHandler
  <2>3. pc \in {"reconnectLoad", "joinLoad"} /\ pc \in LifePcs
        /\ (pc = "joinLoad" \/ ready[i].who \in PlayerIds)
    BY <2>2 DEF LifePcs
  <2>4. Load(i, pc)
    BY <1>3 DEF LookUpSession
  <2> HIDE DEF pc, found
  <2>5. [ready[i] EXCEPT !.pc = pc, !.st = room] \in SoundHandlers
    BY <1>1, <2>1, <2>3, HandlerGoesOn
  <2>6. CopiesSound(G)'
    BY <1>1, <2>1, <2>4, <2>5, LoadSound
  <2> QED
    BY <1>2, <2>6 DEF LifeSound
<1>4. CASE GiveUpReconnect(i)
  <2>1. /\ i \in DOMAIN ready /\ ready[i].pc = "reconnectLoad"
        /\ ready[i] \in SoundHandlers
    BY <1>1, <1>4, ReadySound DEF GiveUpReconnect, LifePcs
  <2>2. [ready[i] EXCEPT !.pc = "joinLoad", !.st = room] \in SoundHandlers
    BY <1>1, <2>1, HandlerGoesOn DEF LifePcs
  <2>3. CopiesSound(G)'
    BY <1>1, <1>4, <2>1, <2>2, LoadSound DEF GiveUpReconnect
  <2> QED
    BY <1>2, <2>3 DEF LifeSound
<1>5. CASE SaveReconnected(i)
  <2> DEFINE next == SetStatus(ready[i].st, ready[i].who, "connected")
  <2>1. /\ i \in DOMAIN ready /\ ready[i].pc = "reconnectLoad"
        /\ ready[i] \in SoundHandlers
    BY <1>1, <1>5, ReadySound DEF SaveReconnected, LifePcs
  <2>2. SoundRoom(ready[i].st) /\ ready[i].who \in PlayerIds
    BY <1>5, <2>1 DEF SaveReconnected, StillSeated, SoundHandlers, CopyOK
  <2>3. SoundRoom(next)
    BY <2>2, SetStatusSound
  <2>4. SaveRoom(i, next, "reconnectSaved")
    BY <1>5 DEF SaveReconnected
  <2> HIDE DEF next
  <2>5. [ready[i] EXCEPT !.pc = "reconnectSaved", !.st = next] \in SoundHandlers
    BY <2>1, <2>2, <2>3, HandlerGoesOn DEF LifePcs, CopyOK
  <2>6. CopiesSound(G)'
    BY <1>1, <2>1, <2>3, <2>4, <2>5, SaveSound
  <2> QED
    BY <1>2, <2>6 DEF LifeSound
<1> QED
  BY <1>3, <1>4, <1>5

LEMMA ReplaceSessionSound ==
  ASSUME NEW G, LifeSound(G), Apart(G), NEW i, ReplaceSession(i)
  PROVE  LifeSound(G)'
<1>1. CopiesSound(G) /\ SocketsSound /\ ManagerSound /\ CopyOK(room)
  BY DEF LifeSound, CopiesSound
<1>2. /\ i \in DOMAIN ready /\ ready[i].pc = "reconnectSaved"
      /\ ready[i] \in SoundHandlers
  BY <1>1, ReadySound DEF ReplaceSession, LifePcs
<1>3. PICK t \in Fresh(SessionIds) :
        /\ issued' = issued \cup {t}
        /\ sessions' = [sessions EXCEPT ![t] = ready[i].who, ![ready[i].session] = NoPlayer]
        /\ expiring' = expiring \ {ready[i].session}
        /\ Await(i, [ready[i] EXCEPT !.pc = "sessionReplaced", !.session = t])
  BY DEF ReplaceSession
<1>4. /\ t \in SessionIds /\ ready[i].who \in PlayerIds /\ ready[i] \in LifeHandler
      /\ CopyOK(ready[i].st)
  BY <1>2 DEF Fresh, SoundHandlers
<1>5. CopiesSound(G)'
  <2> DEFINE h == [ready[i] EXCEPT !.pc = "sessionReplaced", !.session = t]
  <2>1. /\ h \in LifeHandler /\ h.pc = "sessionReplaced" /\ h.st = ready[i].st
        /\ h.who = ready[i].who /\ h.session = t
    BY <1>4 DEF LifeHandler, LifePcs
  <2>2. Await(i, h)
    BY <1>3
  <2> HIDE DEF h
  <2>3. h \in SoundHandlers
    BY <1>4, <2>1 DEF SoundHandlers
  <2>4. room' = room /\ lostUpdate' = lostUpdate
    BY DEF ReplaceSession
  <2> QED
    BY <1>1, <1>2, <2>2, <2>3, <2>4, AwaitSound DEF CopiesSound
<1>6. SocketsSound'
  <2>1. sessions' \in [SessionIds -> PlayerIds \cup {NoPlayer}]
    BY <1>1, <1>3, <1>4 DEF SocketsSound
  <2>2. /\ expiring' \in SUBSET SessionIds
        /\ issued' \in SUBSET (PlayerIds \cup SessionIds)
    BY <1>1, <1>3, <1>4 DEF SocketsSound
  <2>3. UNCHANGED <<sockets, tokens>>
    BY DEF ReplaceSession
  <2> QED
    BY <1>1, <2>1, <2>2, <2>3 DEF SocketsSound, HasSession
<1>7. ManagerSound'
  BY <1>1, ManagerUnchanged DEF ReplaceSession
<1> QED
  BY <1>5, <1>6, <1>7 DEF LifeSound

LEMMA FetchSocketsSound ==
  ASSUME NEW G, LifeSound(G), Apart(G), NEW i, FetchSockets(i)
  PROVE  LifeSound(G)'
<1>1. CopiesSound(G) /\ SocketsSound /\ ManagerSound
  BY DEF LifeSound
<1>2. /\ i \in DOMAIN ready /\ ready[i].pc = "sessionReplaced"
      /\ ready[i] \in SoundHandlers
  BY <1>1, ReadySound DEF FetchSockets, LifePcs
<1> DEFINE others == {s \in Sockets \ {ready[i].socket} :
                        sockets[s].status = "open" /\ sockets[s].player = ready[i].who}
           h == [ready[i] EXCEPT !.pc = "socketsFetched", !.others = others]
           S == G \cup SoundHandlers
<1>3. others \in SUBSET Sockets
  OBVIOUS
<1>4. ready \in Seq(S) /\ i \in 1..Len(ready)
  BY <1>1, <1>2, LenProperties DEF CopiesSound
<1>5. ready' = [ready EXCEPT ![i].pc = "socketsFetched", ![i].others = others]
  BY DEF FetchSockets
<1> HIDE DEF others, S
<1>6. ready' = [ready EXCEPT ![i] = h]
  BY <1>2, <1>5
<1>7. /\ h \in LifeHandler /\ h.pc = "socketsFetched" /\ h.st = ready[i].st
      /\ h.who = ready[i].who /\ h.session = ready[i].session
  BY <1>2, <1>3 DEF SoundHandlers, LifeHandler, LifePcs
<1> HIDE DEF h
<1>8. h \in SoundHandlers
  BY <1>2, <1>7 DEF SoundHandlers
<1>9. ready' \in Seq(S)
  BY <1>4, <1>6, <1>8, ExceptSeq DEF S
<1>10. CopiesSound(G)'
  BY <1>1, <1>9 DEF FetchSockets, CopiesSound, S
<1>11. SocketsSound' /\ ManagerSound'
  BY <1>1, LifeVarsUnchanged DEF FetchSockets
<1> QED
  BY <1>10, <1>11 DEF LifeSound

LEMMA SeatReturnedSound ==
  ASSUME NEW G, LifeSound(G), Apart(G), NEW i, SeatReturned(i)
  PROVE  LifeSound(G)'
<1> DEFINE h == ready[i]
           dropped == {s \in h.others : sockets[s].status = "open"}
           S == G \cup SoundHandlers
<1>1. CopiesSound(G) /\ SocketsSound /\ ManagerSound
  BY DEF LifeSound
<1>2. /\ i \in DOMAIN ready /\ h.pc = "socketsFetched" /\ h \in SoundHandlers
  BY <1>1, ReadySound DEF SeatReturned, LifePcs
<1>3. h.who \in PlayerIds /\ h.session \in SessionIds /\ h.others \in SUBSET Sockets
  BY <1>2, NamesAssumption DEF SoundHandlers, LifeHandler
<1>4. PICK leavers \in SetToSeqs(dropped) :
        queue' = queue \o [k \in DOMAIN leavers |-> Leaver(leavers[k])]
  BY DEF SeatReturned
<1>5. CopiesSound(G)'
  <2> DEFINE n == Cardinality(dropped)
             followers == [k \in DOMAIN leavers |-> Leaver(leavers[k])]
  <2>1. n \in Nat
    <3>1. IsFiniteSet(dropped)
      BY <1>3, NamesAssumption, FS_Subset
    <3> QED
      BY <3>1, FS_CardinalityType
  <2>2. leavers \in [1..n -> dropped]
    BY <1>4 DEF SetToSeqs
  <2>3. \A k \in 1..n : Leaver(leavers[k]) \in SoundHandlers
    BY <1>1, <1>3, <2>2, LeaverSound
  <2>4. followers \in [1..n -> S]
    BY <2>2, <2>3
  <2>5. queue \in Seq(S)
    BY <1>1 DEF CopiesSound
  <2>6. queue' = queue \o followers
    BY <1>4
  <2> HIDE DEF followers, n, S
  <2>7. queue' \in Seq(S)
    BY <2>1, <2>4, <2>5, <2>6, FunctionIsSequence, ConcatProperties
  <2>8. ready' \in Seq(S)
    BY <1>1, <1>2, RemoveAtType DEF SeatReturned, CopiesSound, S
  <2> QED
    BY <1>1, <2>7, <2>8 DEF SeatReturned, CopiesSound, S
<1>6. SocketsSound'
  <2>1. /\ sockets \in [Sockets -> Socket] /\ tokens \in [Names -> SessionIds \cup {NoSession}]
        /\ \A s \in Sockets : HasSession(s) => sockets[s].session \in SessionIds
    BY <1>1 DEF SocketsSound
  <2>2. tokens' \in [Names -> SessionIds \cup {NoSession}]
    BY <1>3, <2>1 DEF SeatReturned
  <2>3. sockets' = [s \in Sockets |->
          IF s \in dropped THEN [sockets[s] EXCEPT !.status = "closed"]
          ELSE IF s = h.socket
          THEN [sockets[s] EXCEPT !.player = h.who, !.session = h.session]
          ELSE sockets[s]]
    BY DEF SeatReturned
  <2> HIDE DEF dropped, h
  <2>4. /\ sockets' \in [Sockets -> Socket]
        /\ \A s \in Sockets : HasSession(s)' => sockets'[s].session \in SessionIds
    <3>1. ASSUME NEW s \in Sockets
          PROVE  /\ sockets'[s] \in Socket
                 /\ sockets'[s].player # NoPlayer => sockets'[s].session \in SessionIds
      <4>1. /\ sockets[s] \in Socket
            /\ sockets[s].player # NoPlayer => sockets[s].session \in SessionIds
        BY <2>1 DEF HasSession
      <4>2. CASE s \in dropped
        <5>1. sockets'[s] = [sockets[s] EXCEPT !.status = "closed"]
          BY <2>3, <4>2
        <5> QED
          BY <4>1, <5>1 DEF Socket
      <4>3. CASE s \notin dropped /\ s = h.socket
        <5>1. sockets'[s] = [sockets[s] EXCEPT !.player = h.who, !.session = h.session]
          BY <2>3, <4>3
        <5> QED
          BY <1>3, <4>1, <5>1 DEF Socket
      <4>4. CASE s \notin dropped /\ s # h.socket
        BY <2>3, <4>1, <4>4
      <4> QED
        BY <4>2, <4>3, <4>4
    <3>2. DOMAIN sockets' = Sockets /\ sockets' = [s \in Sockets |-> sockets'[s]]
      BY <2>3
    <3> QED
      BY <3>1, <3>2 DEF HasSession
  <2>5. UNCHANGED <<sessions, expiring, issued>>
    BY DEF SeatReturned
  <2> QED
    BY <1>1, <2>2, <2>4, <2>5 DEF SocketsSound
<1>7. ManagerSound'
  BY <1>1, <1>3, AddPlayerSound DEF SeatReturned
<1> QED
  BY <1>5, <1>6, <1>7 DEF LifeSound

(***************************************************************************)
(* A new player.                                                           *)
(***************************************************************************)
LEMMA JoinSound ==
  ASSUME NEW G, LifeSound(G), NEW s \in Sockets, NEW name \in Names, Join(s, name)
  PROVE  LifeSound(G)'
<1> DEFINE new == NewHandler("joinLoad")
           h == [new EXCEPT !.st = room, !.socket = s, !.name = name]
<1>1. new \in LifeHandler /\ new.pc = "joinLoad" /\ new.who = NoPlayer
  BY NewHandlerType DEF LifePcs
<1>2. CopyOK(room) /\ room \in Room \cup {NoRoom}
  BY DEF LifeSound, CopiesSound, CopyOK, SoundRoom, RoomOK
<1>3. Begin(h) /\ room' = room /\ lostUpdate' = lostUpdate
  BY DEF Join
<1> HIDE DEF new
<1>4. /\ h \in LifeHandler /\ h.pc = "joinLoad" /\ h.st = room
      /\ h.who = NoPlayer
  BY <1>1, <1>2 DEF LifeHandler
<1> HIDE DEF h
<1>5. h \in SoundHandlers
  BY <1>2, <1>4 DEF SoundHandlers
<1>6. CopiesSound(G)'
  BY <1>3, <1>5, BeginSound DEF LifeSound, CopiesSound
<1>7. SocketsSound'
  BY SocketStatusSound DEF Join, OpenSocket, LifeSound
<1>8. ManagerSound'
  BY ManagerUnchanged DEF Join, LifeSound
<1> QED
  BY <1>6, <1>7, <1>8 DEF LifeSound

LEMMA SaveJoinedSound ==
  ASSUME NEW G, LifeSound(G), Apart(G), NEW i, SaveJoined(i)
  PROVE  LifeSound(G)'
<1> DEFINE st == ready[i].st
<1>1. CopiesSound(G) /\ SocketsSound /\ ManagerSound
  BY DEF LifeSound
<1>2. /\ i \in DOMAIN ready /\ ready[i].pc = "joinLoad" /\ ready[i] \in SoundHandlers
  BY <1>1, ReadySound DEF SaveJoined, LifePcs
<1>3. PICK p \in Fresh(PlayerIds), t \in Fresh(SessionIds) :
        /\ NameOf[p] = ready[i].name
        /\ issued' = issued \cup {p, t}
        /\ room' = JoinedRoom(st, p)
        /\ lostUpdate' = (lostUpdate \/ room # st)
        /\ Await(i, [ready[i] EXCEPT !.pc = "joinSaved", !.st = JoinedRoom(st, p),
                                     !.who = p, !.session = t])
  BY DEF SaveJoined
<1>4. p \in PlayerIds /\ t \in SessionIds /\ ready[i] \in LifeHandler
  BY <1>2 DEF Fresh, SoundHandlers
<1>5. SoundRoom(room')
  <2>1. SoundRoom(st)
    BY <1>2 DEF SaveJoined, CanJoinLobby, SoundHandlers, CopyOK
  <2>2. /\ st.phase = "lobby" /\ Len(st.players) < MaxPlayers
        /\ ~NicknameTaken(st, NameOf[p])
    BY <1>3 DEF SaveJoined, CanJoinLobby
  <2> QED
    BY <1>3, <1>4, <2>1, <2>2, JoinedRoomSound
<1>6. CopiesSound(G)'
  <2> DEFINE h == [ready[i] EXCEPT !.pc = "joinSaved", !.st = room',
                                   !.who = p, !.session = t]
  <2>1. room' \in Room
    BY <1>5 DEF SoundRoom, RoomOK
  <2>2. Await(i, h)
    BY <1>3
  <2> HIDE DEF st
  <2>3. /\ h \in LifeHandler /\ h.pc = "joinSaved" /\ h.st = room'
        /\ h.who = p /\ h.session = t
    BY <1>4, <2>1 DEF LifeHandler, LifePcs
  <2> HIDE DEF h
  <2>4. h \in SoundHandlers
    BY <1>4, <1>5, <2>1, <2>3, StoreAssumption DEF SoundHandlers, CopyOK
  <2>5. lostUpdate' \in BOOLEAN
    BY <1>3
  <2> QED
    BY <1>1, <1>2, <1>5, <2>2, <2>4, <2>5, AwaitSound DEF CopyOK
<1>7. SocketsSound'
  <2>1. issued' \in SUBSET (PlayerIds \cup SessionIds)
    BY <1>1, <1>3, <1>4 DEF SocketsSound
  <2> QED
    BY <1>1, <2>1 DEF SaveJoined, SocketsSound, HasSession
<1>8. ManagerSound'
  BY <1>1, ManagerUnchanged DEF SaveJoined
<1> QED
  BY <1>6, <1>7, <1>8 DEF LifeSound

LEMMA JoinStepsSound ==
  ASSUME NEW G, LifeSound(G), Apart(G), NEW i,
         RefuseJoin(i) \/ SaveJoined(i) \/ SaveJoinedSession(i) \/ SeatJoined(i)
  PROVE  LifeSound(G)'
<1>1. CopiesSound(G) /\ SocketsSound /\ ManagerSound
  BY DEF LifeSound
<1>2. CASE RefuseJoin(i)
  <2>1. i \in DOMAIN ready
    BY <1>2 DEF RefuseJoin, Resumes
  <2>2. CopiesSound(G)'
    BY <1>1, <1>2, <2>1, FinishSound DEF RefuseJoin
  <2>3. SocketsSound' /\ ManagerSound'
    BY <1>1, <1>2, LifeVarsUnchanged DEF RefuseJoin
  <2> QED
    BY <2>2, <2>3 DEF LifeSound
<1>3. CASE SaveJoinedSession(i)
  <2>1. i \in DOMAIN ready /\ ready[i].pc = "joinSaved" /\ ready[i] \in SoundHandlers
    BY <1>1, <1>3, ReadySound DEF SaveJoinedSession, LifePcs
  <2>2. ready[i].who \in PlayerIds
    BY <2>1 DEF SoundHandlers
  <2> QED
    BY <1>3, <2>1, <2>2, SaveSessionSound DEF SaveJoinedSession
<1>4. CASE SeatJoined(i)
  <2>1. i \in DOMAIN ready /\ ready[i].pc = "joinSessionSaved" /\ ready[i] \in SoundHandlers
    BY <1>1, <1>4, ReadySound DEF SeatJoined, LifePcs
  <2>2. ready[i].who \in PlayerIds /\ ready[i].session \in SessionIds
    BY <2>1, NamesAssumption DEF SoundHandlers
  <2>3. SocketsSound' /\ ManagerSound'
    BY <1>1, <1>4, <2>2, AttachSound DEF SeatJoined
  <2>4. CopiesSound(G)'
    BY <1>1, <1>4, <2>1, FinishSound DEF SeatJoined
  <2> QED
    BY <2>3, <2>4 DEF LifeSound
<1> QED
  BY <1>2, <1>3, <1>4, SaveJoinedSound

(***************************************************************************)
(* A player who leaves.                                                    *)
(***************************************************************************)
LEMMA CloseSocketSound ==
  ASSUME NEW G, LifeSound(G), NEW s \in Sockets, CloseSocket(s)
  PROVE  LifeSound(G)'
<1>1. CopiesSound(G) /\ SocketsSound /\ ManagerSound
  BY DEF LifeSound
<1>2. room' = room /\ lostUpdate' = lostUpdate
  BY DEF CloseSocket
<1>3. CopiesSound(G)'
  <2>1. CASE HasSession(s)
    <3>1. Begin(Leaver(s)) /\ Leaver(s) \in SoundHandlers
      BY <1>1, <2>1, LeaverSound DEF CloseSocket
    <3> QED
      BY <1>1, <1>2, <3>1, BeginSound DEF CopiesSound
  <2>2. CASE ~HasSession(s)
    BY <1>1, <1>2, <2>2 DEF CloseSocket, CopiesSound
  <2> QED
    BY <2>1, <2>2
<1>4. SocketsSound'
  BY <1>1, SocketStatusSound DEF CloseSocket
<1>5. ManagerSound'
  BY <1>1, ManagerUnchanged DEF CloseSocket
<1> QED
  BY <1>3, <1>4, <1>5 DEF LifeSound

LEMMA LeaveStepsSound ==
  ASSUME NEW G, LifeSound(G), Apart(G), NEW i,
         \/ IgnoreLeaver(i) \/ LoadForLeaver(i) \/ SaveDisconnected(i)
         \/ ExpireSession(i) \/ OpenReconnectWindow(i)
  PROVE  LifeSound(G)'
<1>1. CopiesSound(G) /\ SocketsSound /\ ManagerSound /\ CopyOK(room)
  BY DEF LifeSound, CopiesSound
<1>2. CASE IgnoreLeaver(i)
  <2>1. i \in DOMAIN ready
    BY <1>2 DEF IgnoreLeaver, Resumes
  <2>2. CopiesSound(G)'
    BY <1>1, <1>2, <2>1, FinishSound DEF IgnoreLeaver
  <2>3. SocketsSound' /\ ManagerSound'
    BY <1>1, <1>2, LifeVarsUnchanged DEF IgnoreLeaver
  <2> QED
    BY <2>2, <2>3 DEF LifeSound
<1>3. CASE LoadForLeaver(i)
  <2>1. i \in DOMAIN ready /\ ready[i].pc = "leaveSession" /\ ready[i] \in SoundHandlers
    BY <1>1, <1>3, ReadySound DEF LoadForLeaver, LifePcs
  <2>2. ready[i].who \in PlayerIds
    BY <1>3, <2>1 DEF LoadForLeaver, SoundHandlers, LifeHandler
  <2>3. [ready[i] EXCEPT !.pc = "leaveLoad", !.st = room] \in SoundHandlers
    BY <1>1, <2>1, <2>2, HandlerGoesOn DEF LifePcs
  <2>4. CopiesSound(G)'
    BY <1>1, <1>3, <2>1, <2>3, LoadSound DEF LoadForLeaver
  <2>5. SocketsSound' /\ ManagerSound'
    BY <1>1, <1>3, LifeVarsUnchanged DEF LoadForLeaver
  <2> QED
    BY <2>4, <2>5 DEF LifeSound
<1>4. CASE SaveDisconnected(i)
  <2> DEFINE next == SetStatus(ready[i].st, ready[i].who, "disconnected")
  <2>1. i \in DOMAIN ready /\ ready[i].pc = "leaveLoad" /\ ready[i] \in SoundHandlers
    BY <1>1, <1>4, ReadySound DEF SaveDisconnected, LifePcs
  <2>2. SoundRoom(ready[i].st) /\ ready[i].who \in PlayerIds
    BY <1>4, <2>1 DEF SaveDisconnected, SoundHandlers, CopyOK
  <2>3. SoundRoom(next)
    BY <2>2, SetStatusSound
  <2>4. SaveRoom(i, next, "leaveSaved")
    BY <1>4 DEF SaveDisconnected
  <2> HIDE DEF next
  <2>5. [ready[i] EXCEPT !.pc = "leaveSaved", !.st = next] \in SoundHandlers
    BY <2>1, <2>2, <2>3, HandlerGoesOn DEF LifePcs, CopyOK
  <2>6. CopiesSound(G)'
    BY <1>1, <2>1, <2>3, <2>4, <2>5, SaveSound
  <2>7. SocketsSound' /\ ManagerSound'
    BY <1>1, <1>4, LifeVarsUnchanged DEF SaveDisconnected
  <2> QED
    BY <2>6, <2>7 DEF LifeSound
<1>5. CASE ExpireSession(i)
  <2> DEFINE h == [ready[i] EXCEPT !.pc = "leaveExpires"]
  <2>1. i \in DOMAIN ready /\ ready[i].pc = "leaveSaved" /\ ready[i] \in SoundHandlers
    BY <1>1, <1>5, ReadySound DEF ExpireSession, LifePcs
  <2>2. /\ ready[i].who \in PlayerIds /\ ready[i].session \in SessionIds
        /\ ready[i] \in LifeHandler /\ CopyOK(ready[i].st)
    BY <2>1, NamesAssumption DEF SoundHandlers
  <2>3. h = [ready[i] EXCEPT !.pc = "leaveExpires", !.st = ready[i].st]
    BY <2>2 DEF LifeHandler
  <2>4. h \in SoundHandlers
    BY <2>1, <2>2, <2>3, HandlerGoesOn DEF LifePcs
  <2>5. Await(i, h) /\ room' = room /\ lostUpdate' = lostUpdate
    BY <1>5 DEF ExpireSession
  <2> HIDE DEF h
  <2>6. CopiesSound(G)'
    BY <1>1, <2>1, <2>4, <2>5, AwaitSound DEF CopiesSound
  <2>7. expiring' \in SUBSET SessionIds
    BY <1>1, <1>5, <2>2 DEF ExpireSession, SocketsSound
  <2>8. SocketsSound'
    BY <1>1, <1>5, <2>7 DEF ExpireSession, SocketsSound, HasSession
  <2>9. ManagerSound'
    BY <1>1, <1>5, ManagerUnchanged DEF ExpireSession
  <2> QED
    BY <2>6, <2>8, <2>9 DEF LifeSound
<1>6. CASE OpenReconnectWindow(i)
  <2>1. i \in DOMAIN ready /\ ready[i].pc = "leaveExpires" /\ ready[i] \in SoundHandlers
    BY <1>1, <1>6, ReadySound DEF OpenReconnectWindow, LifePcs
  <2>2. ready[i].who \in PlayerIds
    BY <2>1 DEF SoundHandlers
  <2>3. CopiesSound(G)'
    BY <1>1, <1>6, <2>1, FinishSound DEF OpenReconnectWindow
  <2>4. ManagerSound'
    BY <1>1, <1>6, <2>2, RemovePlayerSound DEF OpenReconnectWindow
  <2>5. SocketsSound'
    BY <1>1, <1>6 DEF OpenReconnectWindow, SocketsSound, HasSession
  <2> QED
    BY <2>3, <2>4, <2>5 DEF LifeSound
<1> QED
  BY <1>2, <1>3, <1>4, <1>5, <1>6

(***************************************************************************)
(* Timers.                                                                 *)
(***************************************************************************)
LEMMA ExpirySound ==
  ASSUME NEW G, LifeSound(G), Expiry
  PROVE  LifeSound(G)'
<1>1. CopiesSound(G) /\ SocketsSound /\ ManagerSound /\ CopyOK(room)
  BY DEF LifeSound, CopiesSound
<1>2. ASSUME NEW t \in SessionIds, SessionExpires(t)
      PROVE  LifeSound(G)'
  <2>1. CopiesSound(G)'
    BY <1>1, <1>2 DEF SessionExpires, storeVars, CopiesSound
  <2>2. SocketsSound'
    BY <1>1, <1>2 DEF SessionExpires, SocketsSound, HasSession
  <2>3. ManagerSound'
    BY <1>1, <1>2, ManagerUnchanged DEF SessionExpires
  <2> QED
    BY <2>1, <2>2, <2>3 DEF LifeSound
<1>3. ASSUME NEW p \in PlayerIds, ReconnectTimeout(p)
      PROVE  LifeSound(G)'
  <2> DEFINE new == NewHandler("expiredLoad")
             h == [new EXCEPT !.st = room, !.who = p]
  <2>1. new \in LifeHandler /\ new.pc = "expiredLoad"
    BY NewHandlerType DEF LifePcs
  <2>2. room \in Room \cup {NoRoom}
    BY <1>1 DEF CopyOK, SoundRoom, RoomOK
  <2>3. Begin(h) /\ room' = room /\ lostUpdate' = lostUpdate
    BY <1>3 DEF ReconnectTimeout
  <2> HIDE DEF new
  <2>4. h \in LifeHandler /\ h.pc = "expiredLoad" /\ h.st = room /\ h.who = p
    BY <2>1, <2>2 DEF LifeHandler
  <2> HIDE DEF h
  <2>5. h \in SoundHandlers
    BY <1>1, <2>4 DEF SoundHandlers
  <2>6. CopiesSound(G)'
    BY <1>1, <2>3, <2>5, BeginSound DEF CopiesSound
  <2>7. ManagerSound'
    BY <1>1, <1>3, ManagerTimersSound DEF ReconnectTimeout
  <2>8. SocketsSound'
    BY <1>1, <1>3 DEF ReconnectTimeout, SocketsSound, HasSession
  <2> QED
    BY <2>6, <2>7, <2>8 DEF LifeSound
<1>4. CASE DeleteEmptyRoom
  <2>1. CopiesSound(G)'
    BY <1>1, <1>4 DEF DeleteEmptyRoom, CopiesSound, CopyOK
  <2>2. ManagerSound'
    BY <1>1, <1>4, ManagerTimersSound DEF DeleteEmptyRoom
  <2>3. SocketsSound'
    BY <1>1, <1>4 DEF DeleteEmptyRoom, SocketsSound, HasSession
  <2> QED
    BY <2>1, <2>2, <2>3 DEF LifeSound
<1> QED
  BY <1>2, <1>3, <1>4 DEF Expiry

LEMMA TimeoutStepsSound ==
  ASSUME NEW G, LifeSound(G), Apart(G), NEW i,
         IgnoreReconnectTimeout(i) \/ SaveWithoutPlayer(i)
  PROVE  LifeSound(G)'
<1>1. CopiesSound(G) /\ SocketsSound /\ ManagerSound
  BY DEF LifeSound
<1>2. SocketsSound' /\ ManagerSound'
  BY <1>1, LifeVarsUnchanged DEF IgnoreReconnectTimeout, SaveWithoutPlayer
<1>3. CASE IgnoreReconnectTimeout(i)
  <2>1. i \in DOMAIN ready
    BY <1>3 DEF IgnoreReconnectTimeout, Resumes
  <2>2. CopiesSound(G)'
    BY <1>1, <1>3, <2>1, FinishSound DEF IgnoreReconnectTimeout
  <2> QED
    BY <1>2, <2>2 DEF LifeSound
<1>4. CASE SaveWithoutPlayer(i)
  <2> DEFINE next == WithoutPlayer(ready[i].st, ready[i].who)
  <2>1. i \in DOMAIN ready /\ ready[i] \in SoundHandlers
    BY <1>1, <1>4, ReadySound DEF SaveWithoutPlayer, LifePcs
  <2>2. SoundRoom(next)
    BY <1>4, <2>1, WithoutPlayerSound DEF SaveWithoutPlayer, SoundHandlers, CopyOK
  <2>3. SaveRoomAndFinish(i, next)
    BY <1>4 DEF SaveWithoutPlayer
  <2> HIDE DEF next
  <2>4. /\ ready' = RemoveAt(ready, i) /\ queue' = queue
        /\ CopyOK(room') /\ lostUpdate' \in BOOLEAN
    BY <2>2, <2>3 DEF SaveRoomAndFinish, CopyOK
  <2>5. CopiesSound(G)'
    BY <1>1, <2>1, <2>4, EndSound
  <2> QED
    BY <1>2, <2>5 DEF LifeSound
<1> QED
  BY <1>3, <1>4

(***************************************************************************)
(* Every step, whatever other handlers are in flight.                      *)
(***************************************************************************)
LEMMA ArrivalSound ==
  ASSUME NEW G, LifeSound(G), SocketEvent \/ Post
  PROVE  LifeSound(G)'
<1>1. CASE Post
  BY <1>1, CreateRoomSound DEF Post
<1>2. CASE SocketEvent
  <2>1. PICK s \in Sockets :
          \/ \E name \in Names : CreateRoomOnSocket(s, name) \/ Join(s, name) \/ Rejoin(s, name)
          \/ CloseSocket(s)
    BY <1>2 DEF SocketEvent
  <2>2. ASSUME NEW name \in Names, CreateRoomOnSocket(s, name)
        PROVE  LifeSound(G)'
    <3>1. s \in Sockets \cup {NoSocket}
      OBVIOUS
    <3> QED
      BY <2>2, <3>1, CreateRoomSound
  <2>3. ASSUME NEW name \in Names, Join(s, name)
        PROVE  LifeSound(G)'
    BY <2>3, JoinSound
  <2>4. ASSUME NEW name \in Names, Rejoin(s, name)
        PROVE  LifeSound(G)'
    BY <2>4, RejoinSound
  <2>5. CASE CloseSocket(s)
    BY <2>5, CloseSocketSound
  <2> QED
    BY <2>1, <2>2, <2>3, <2>4, <2>5
<1> QED
  BY <1>1, <1>2

LEMMA MemberStepsSound ==
  ASSUME NEW G, LifeSound(G), Apart(G), NEW i,
         ResumeSilently(i) \/ SeatJoined(i) \/ SaveWithoutPlayer(i)
  PROVE  LifeSound(G)'
  BY CreationStepsSound, ReconnectStepsSound, ReplaceSessionSound, FetchSocketsSound,
     SeatReturnedSound, JoinStepsSound, LeaveStepsSound, TimeoutStepsSound
  DEF ResumeSilently

LEMMA LifeSoundInit ==
  ASSUME NEW G, LifeInit
  PROVE  LifeSound(G)
<1>1. CopiesSound(G)
  BY EmptySeq DEF LifeInit, StoreInit, CopiesSound, CopyOK
<1>2. SocketsSound
  BY DEF LifeInit, SocketsSound, HasSession, NewSocket, Socket
<1>3. ManagerSound
  BY DEF LifeInit, Manager!ManagerInit, ManagerSound, Manager!ManagerTypeOK,
         Manager!Timers, Manager!NoTimer
<1> QED
  BY <1>1, <1>2, <1>3 DEF LifeSound

LEMMA LifeSoundStep ==
  ASSUME NEW G, LifeSound(G), Apart(G), [LifeNext]_lifecycleVars
  PROVE  LifeSound(G)'
<1>1. CopiesSound(G) /\ SocketsSound /\ ManagerSound
  BY DEF LifeSound
<1>2. CASE SocketEvent \/ Post
  BY <1>2, ArrivalSound
<1>3. CASE Expiry
  BY <1>3, ExpirySound
<1>4. CASE LifeReplies
  <2>1. CopiesSound(G)'
    BY <1>1, <1>4, DeliverSound DEF LifeReplies
  <2>2. SocketsSound' /\ ManagerSound'
    BY <1>1, <1>4, LifeVarsUnchanged DEF LifeReplies
  <2> QED
    BY <2>1, <2>2 DEF LifeSound
<1>5. CASE ResumeLife
  BY <1>5, MemberStepsSound DEF ResumeLife
<1>6. CASE UNCHANGED lifecycleVars
  <2>1. CopiesSound(G)'
    BY <1>1, <1>6 DEF lifecycleVars, storeVars, CopiesSound
  <2>2. SocketsSound' /\ ManagerSound'
    BY <1>1, <1>6, LifeVarsUnchanged DEF lifecycleVars
  <2> QED
    BY <2>1, <2>2 DEF LifeSound
<1> QED
  BY <1>2, <1>3, <1>4, <1>5, <1>6 DEF LifeNext

(***************************************************************************)
(* The theorems.                                                           *)
(***************************************************************************)
LEMMA LifeStaysSound == LifeSpec => []LifeSound({})
<1>1. LifeInit => LifeSound({})
  BY LifeSoundInit
<1>2. Apart({})
  BY DEF Apart
<1>3. LifeSound({}) /\ [LifeNext]_lifecycleVars => LifeSound({})'
  BY <1>2, LifeSoundStep
<1> QED
  BY <1>1, <1>3, PTL DEF LifeSpec

(* What came across what is remembered for good.                           *)
LEMMA CrossedStays ==
  ASSUME crossed \in BOOLEAN,
         \/ SocketEvent \/ Post \/ Expiry
         \/ \E i \in DOMAIN ready : ResumeSilently(i) \/ SeatJoined(i) \/ SaveWithoutPlayer(i)
         \/ UNCHANGED crossed
  PROVE  crossed' \in BOOLEAN /\ (crossed => crossed')
<1>1. ASSUME NEW c, Crosses(c)
      PROVE  crossed' \in BOOLEAN /\ (crossed => crossed')
  BY <1>1 DEF Crosses
<1>2. CASE UNCHANGED crossed
  BY <1>2
<1>3. CASE SocketEvent
  <2>1. ASSUME NEW s \in Sockets, NEW name \in Names, CreateRoomOnSocket(s, name)
        PROVE  UNCHANGED crossed
    BY <2>1 DEF CreateRoomOnSocket, CreateRoom
  <2>2. ASSUME NEW s \in Sockets, NEW name \in Names, Join(s, name)
        PROVE  UNCHANGED crossed
    BY <2>2 DEF Join
  <2>3. ASSUME NEW s \in Sockets, NEW name \in Names, Rejoin(s, name)
        PROVE  crossed' \in BOOLEAN /\ (crossed => crossed')
    BY <1>1, <2>3 DEF Rejoin
  <2>4. ASSUME NEW s \in Sockets, CloseSocket(s)
        PROVE  crossed' \in BOOLEAN /\ (crossed => crossed')
    BY <1>1, <2>4 DEF CloseSocket
  <2> QED
    BY <1>2, <1>3, <2>1, <2>2, <2>3, <2>4 DEF SocketEvent
<1>4. CASE Post
  BY <1>2, <1>4 DEF Post, PostRoom, CreateRoom
<1>5. CASE Expiry
  <2>1. ASSUME NEW t \in SessionIds, SessionExpires(t)
        PROVE  UNCHANGED crossed
    BY <2>1 DEF SessionExpires
  <2>2. ASSUME NEW p \in PlayerIds, ReconnectTimeout(p)
        PROVE  crossed' \in BOOLEAN /\ (crossed => crossed')
    BY <1>1, <2>2 DEF ReconnectTimeout
  <2>3. ASSUME DeleteEmptyRoom
        PROVE  crossed' \in BOOLEAN /\ (crossed => crossed')
    BY <1>1, <2>3 DEF DeleteEmptyRoom
  <2> QED
    BY <1>2, <1>5, <2>1, <2>2, <2>3 DEF Expiry
<1>6. ASSUME NEW i \in DOMAIN ready, ResumeSilently(i) \/ SeatJoined(i) \/ SaveWithoutPlayer(i)
      PROVE  UNCHANGED crossed
  <2>1. CASE SaveOwnerSession(i) \/ SaveJoinedSession(i)
    BY <2>1 DEF SaveOwnerSession, SaveJoinedSession, SaveSession
  <2>2. CASE SeatOwner(i) \/ AnswerPost(i) \/ SeatJoined(i)
    BY <2>2 DEF SeatOwner, AnswerPost, SeatJoined
  <2>3. CASE LookUpSession(i) \/ GiveUpReconnect(i) \/ SaveReconnected(i) \/ RefuseJoin(i)
    BY <2>3 DEF LookUpSession, GiveUpReconnect, SaveReconnected, RefuseJoin, lifeVars
  <2>4. CASE ReplaceSession(i) \/ SeatReturned(i) \/ SaveJoined(i)
    BY <2>4 DEF ReplaceSession, SeatReturned, SaveJoined
  <2>5. CASE FetchSockets(i) \/ IgnoreLeaver(i) \/ LoadForLeaver(i) \/ SaveDisconnected(i)
    BY <2>5 DEF FetchSockets, IgnoreLeaver, LoadForLeaver, SaveDisconnected, lifeVars
  <2>6. CASE ExpireSession(i) \/ OpenReconnectWindow(i)
    BY <2>6 DEF ExpireSession, OpenReconnectWindow
  <2>7. CASE IgnoreReconnectTimeout(i) \/ SaveWithoutPlayer(i)
    BY <2>7 DEF IgnoreReconnectTimeout, SaveWithoutPlayer, lifeVars
  <2> QED
    BY <1>6, <2>1, <2>2, <2>3, <2>4, <2>5, <2>6, <2>7 DEF ResumeSilently
<1> QED
  BY <1>2, <1>3, <1>4, <1>5, <1>6

CrossedOK == crossed \in BOOLEAN

LEMMA LifeRemembers == LifeSpec => []CrossedOK
<1>1. LifeInit => CrossedOK
  BY DEF LifeInit, CrossedOK
<1>2. CrossedOK /\ [LifeNext]_lifecycleVars => CrossedOK'
  <2>1. LifeReplies \/ UNCHANGED lifecycleVars => UNCHANGED crossed
    BY DEF LifeReplies, lifecycleVars, lifeVars
  <2> QED
    BY <2>1, CrossedStays DEF LifeNext, ResumeLife, CrossedOK
<1> QED
  BY <1>1, <1>2, PTL DEF LifeSpec

(* Type correctness of the life of a room.                                 *)
THEOREM LifeTypeCorrect == LifeSpec => []LifeTypeOK
<1>1. LifeSound({}) /\ CrossedOK => LifeTypeOK
  <2> SUFFICES ASSUME LifeSound({}), CrossedOK PROVE LifeTypeOK
    OBVIOUS
  <2>1. {} \cup SoundHandlers \subseteq LifeHandler
    BY DEF SoundHandlers
  <2>2. queue \in Seq(LifeHandler) /\ ready \in Seq(LifeHandler)
    BY <2>1, SeqMonotonic DEF LifeSound, CopiesSound
  <2>3. room \in Room \cup {NoRoom}
    BY DEF LifeSound, CopiesSound, CopyOK, SoundRoom, RoomOK
  <2> QED
    BY <2>2, <2>3 DEF LifeSound, CopiesSound, SocketsSound, ManagerSound, CrossedOK, LifeTypeOK
<1> QED
  BY <1>1, LifeStaysSound, LifeRemembers, PTL

(* Whatever joins, disconnects, returns and removals overwrite each other, *)
(* no copy of the record is overfull, has an id, a nickname or an owner    *)
(* twice, or too few rounds for its players.                               *)
THEOREM SeatsStayRight == LifeSpec => []RoomsAreSeatedRight
<1>1. LifeSound({}) => RoomsAreSeatedRight
  <2> SUFFICES ASSUME LifeSound({}), NEW st \in LifeCopies
               PROVE  SeatsOK(st)
    BY DEF RoomsAreSeatedRight
  <2>1. \A h \in SoundHandlers : CopyOK(h.st)
    BY DEF SoundHandlers
  <2>2. /\ \A i \in DOMAIN queue : queue[i] \in SoundHandlers
        /\ \A i \in DOMAIN ready : ready[i] \in SoundHandlers
    BY LenProperties, ElementOfSeq DEF LifeSound, CopiesSound
  <2>3. CopyOK(st) /\ st # NoRoom
    BY <2>1, <2>2 DEF LifeCopies, Copies, LifeSound, CopiesSound
  <2> QED
    BY <2>3 DEF CopyOK, SoundRoom
<1> QED
  BY <1>1, LifeStaysSound, PTL

(***************************************************************************)
(* Record, sessions, sockets and RoomManager.  Who is in the record, who   *)
(* of them is connected, and who owns the room; nobody, if there is none.  *)
(***************************************************************************)
PlayersIn(st) == IF st = NoRoom THEN {} ELSE Members(st)
PlayersOn(st) == IF st = NoRoom THEN {} ELSE Connected(st)
OwnersIn(st)  == IF st = NoRoom THEN {} ELSE {st.players[i].id : i \in Owners(st)}

LEMMA NoRoomIsNone ==
  ASSUME NEW st, SoundRoom(st)
  PROVE  st # NoRoom /\ st \in Room
  BY StoreAssumption DEF SoundRoom, RoomOK

(* The three sets, from the entries of the players.                        *)
LEMMA PlayersOf ==
  ASSUME NEW st, SoundRoom(st)
  PROVE  /\ \A p : p \in PlayersIn(st) <=>
                     \E i \in DOMAIN st.players : st.players[i].id = p
         /\ \A p : p \in PlayersOn(st) <=>
                     \E i \in DOMAIN st.players :
                       st.players[i].id = p /\ st.players[i].connectionStatus = "connected"
         /\ \A p : p \in OwnersIn(st) <=>
                     \E i \in DOMAIN st.players :
                       st.players[i].id = p /\ st.players[i].isOwner
         /\ PlayersIn(st) \subseteq PlayerIds /\ PlayersOn(st) \subseteq PlayersIn(st)
<1>1. st # NoRoom /\ st \in Room
  BY NoRoomIsNone
<1>2. \A i \in DOMAIN st.players : st.players[i] \in Player
  BY <1>1, PlayersDomain
<1>3. \A p : p \in PlayersIn(st) <=> \E i \in DOMAIN st.players : st.players[i].id = p
  BY <1>1 DEF PlayersIn, Members
<1>4. \A p : p \in PlayersOn(st) <=>
               \E i \in DOMAIN st.players :
                 st.players[i].id = p /\ st.players[i].connectionStatus = "connected"
  BY <1>1 DEF PlayersOn, Connected, IsConnected
<1>5. \A p : p \in OwnersIn(st) <=>
               \E i \in DOMAIN st.players : st.players[i].id = p /\ st.players[i].isOwner
  BY <1>1 DEF OwnersIn, Owners
<1>6. PlayersIn(st) \subseteq PlayerIds
  BY <1>2, <1>3 DEF Player
<1>7. PlayersOn(st) \subseteq PlayersIn(st)
  BY <1>3, <1>4
<1> QED
  BY <1>3, <1>4, <1>5, <1>6, <1>7

(* A player has one entry.                                                 *)
LEMMA OneEntry ==
  ASSUME NEW st, SoundRoom(st)
  PROVE  \A i, j \in DOMAIN st.players : st.players[i].id = st.players[j].id => i = j
  BY DEF SoundRoom, SeatsOK

LEMMA OwnerFlag ==
  ASSUME NEW st, SoundRoom(st), NEW p \in PlayersIn(st)
  PROVE  CurrentPlayer(st, p).isOwner <=> p \in OwnersIn(st)
<1>1. p \in Members(st) /\ st \in Room
  BY NoRoomIsNone DEF PlayersIn
<1>2. IndexOf(st, p) \in DOMAIN st.players /\ st.players[IndexOf(st, p)].id = p
  BY <1>1, IndexOfMember DEF CurrentPlayer
<1> QED
  BY <1>2, PlayersOf, OneEntry DEF CurrentPlayer

LEMMA StatusSet ==
  ASSUME NEW st, SoundRoom(st), NEW p \in PlayersIn(st),
         NEW status \in {"connected", "disconnected"}
  PROVE  LET new == SetStatus(st, p, status)
         IN /\ SoundRoom(new)
            /\ PlayersIn(new) = PlayersIn(st) /\ OwnersIn(new) = OwnersIn(st)
            /\ PlayersOn(new) = IF status = "connected" THEN PlayersOn(st) \cup {p}
                                ELSE PlayersOn(st) \ {p}
<1> DEFINE new == SetStatus(st, p, status)
           n == DOMAIN st.players
<1>1. SoundRoom(new) /\ st \in Room
  BY SetStatusSound, NoRoomIsNone
<1>2. new.players = [i \in n |->
        IF st.players[i].id = p THEN [st.players[i] EXCEPT !.connectionStatus = status]
        ELSE st.players[i]]
  BY <1>1 DEF SetStatus, Room
<1>3. DOMAIN new.players = n
  BY <1>2
<1>4. ASSUME NEW i \in n
      PROVE  /\ new.players[i].id = st.players[i].id
             /\ new.players[i].isOwner = st.players[i].isOwner
             /\ new.players[i].connectionStatus =
                  IF st.players[i].id = p THEN status ELSE st.players[i].connectionStatus
  <2>1. st.players[i] \in Player
    BY <1>1, PlayersDomain
  <2> QED
    BY <1>2, <2>1 DEF Player
<1> HIDE DEF new
<1>5. ASSUME NEW q
      PROVE  q \in PlayersIn(new) <=> q \in PlayersIn(st)
  BY <1>1, <1>3, <1>4, PlayersOf
<1>6. ASSUME NEW q
      PROVE  q \in OwnersIn(new) <=> q \in OwnersIn(st)
  BY <1>1, <1>3, <1>4, PlayersOf
<1>7. ASSUME NEW q
      PROVE  q \in PlayersOn(new) <=>
               IF q = p THEN status = "connected" ELSE q \in PlayersOn(st)
  BY <1>1, <1>3, <1>4, PlayersOf
<1> QED
  BY <1>1, <1>5, <1>6, <1>7 DEF new

LEMMA PlayerPutOut ==
  ASSUME NEW st, SoundRoom(st), NEW p
  PROVE  LET new == WithoutPlayer(st, p)
         IN /\ SoundRoom(new)
            /\ PlayersIn(new) = PlayersIn(st) \ {p}
            /\ PlayersOn(new) = PlayersOn(st) \ {p}
            /\ OwnersIn(new) = OwnersIn(st) \ {p}
<1> DEFINE new == WithoutPlayer(st, p)
           k == IndexOf(st, p)
           n == Len(st.players)
<1>1. SoundRoom(new) /\ st \in Room /\ st # NoRoom
  BY WithoutPlayerSound, NoRoomIsNone
<1>2. CASE p \notin Members(st)
  <2>1. new = st
    BY <1>2 DEF WithoutPlayer
  <2>2. p \notin PlayersIn(st) /\ p \notin PlayersOn(st) /\ p \notin OwnersIn(st)
    BY <1>1, <1>2, PlayersOf DEF PlayersIn
  <2> QED
    BY <1>1, <2>1, <2>2
<1>3. CASE p \in Members(st)
  <2>1. /\ k \in DOMAIN st.players /\ st.players[k].id = p
        /\ DOMAIN st.players = 1..n /\ n \in Nat /\ st.players \in Seq(Player)
    BY <1>1, <1>3, IndexOfMember, PlayersDomain DEF CurrentPlayer
  <2>2. new.players = RemoveAt(st.players, k)
    BY <1>1, <1>3 DEF WithoutPlayer, Room
  <2> HIDE DEF k, n
  <2>3. /\ Len(new.players) = n - 1 /\ new.players \in Seq(Player)
        /\ \A j \in 1..(n - 1) :
             new.players[j] = IF j < k THEN st.players[j] ELSE st.players[j + 1]
    BY <2>1, <2>2, RemoveAtType DEF n
  <2>4. DOMAIN new.players = 1..(n - 1)
    BY <2>3, LenProperties
  <2>5. ASSUME NEW j \in DOMAIN new.players
        PROVE  \E i \in DOMAIN st.players : i # k /\ st.players[i] = new.players[j]
    <3>1. CASE j < k
      <4>1. j \in 1..n /\ j # k
        BY <2>1, <2>4, <3>1
      <4> QED
        BY <2>1, <2>3, <2>4, <3>1, <4>1
    <3>2. CASE ~(j < k)
      <4>1. j + 1 \in 1..n /\ j + 1 # k
        BY <2>1, <2>4, <3>2
      <4> QED
        BY <2>1, <2>3, <2>4, <3>2, <4>1
    <3> QED
      BY <3>1, <3>2
  <2>6. ASSUME NEW i \in DOMAIN st.players, i # k
        PROVE  \E j \in DOMAIN new.players : st.players[i] = new.players[j]
    <3>1. CASE i < k
      BY <2>1, <2>3, <2>4, <3>1
    <3>2. CASE ~(i < k)
      <4> DEFINE j == i - 1
      <4>1. j \in 1..(n - 1) /\ ~(j < k) /\ j + 1 = i
        BY <2>1, <2>6, <3>2
      <4> HIDE DEF j
      <4> QED
        BY <2>3, <2>4, <4>1
    <3> QED
      BY <3>1, <3>2
  <2>7. \A i \in DOMAIN st.players : st.players[i].id = p <=> i = k
    BY <2>1, OneEntry
  <2> HIDE DEF new
  <2>8. PlayersIn(new) = PlayersIn(st) \ {p}
    BY <1>1, <2>5, <2>6, <2>7, PlayersOf
  <2>9. PlayersOn(new) = PlayersOn(st) \ {p}
    BY <1>1, <2>5, <2>6, <2>7, PlayersOf
  <2>10. OwnersIn(new) = OwnersIn(st) \ {p}
    BY <1>1, <2>5, <2>6, <2>7, PlayersOf
  <2> QED
    BY <1>1, <2>8, <2>9, <2>10 DEF new
<1> QED
  BY <1>2, <1>3

LEMMA PlayerAdded ==
  ASSUME NEW st, NEW p \in PlayerIds, CanJoinLobby(st, NameOf[p]), CopyOK(st)
  PROVE  LET new == JoinedRoom(st, p)
         IN /\ SoundRoom(new)
            /\ PlayersIn(new) = PlayersIn(st) \cup {p}
            /\ PlayersOn(new) = PlayersOn(st) \cup {p}
            /\ OwnersIn(new) = OwnersIn(st)
<1> DEFINE new == JoinedRoom(st, p)
           n == Len(st.players)
           entry == NewPlayer(p, FALSE, "connected")
<1>1. SoundRoom(st)
  BY DEF CanJoinLobby, CopyOK
<1>2. SoundRoom(new) /\ st \in Room
  BY <1>1, JoinedRoomSound, NoRoomIsNone DEF CanJoinLobby
<1>3. /\ n \in Nat /\ DOMAIN st.players = 1..n /\ st.players \in Seq(Player)
  BY <1>2, PlayersDomain
<1>4. entry \in Player /\ entry.id = p /\ ~entry.isOwner /\ entry.connectionStatus = "connected"
  BY DEF NewPlayer, Player
<1>5. new.players = Append(st.players, entry)
  BY <1>2 DEF JoinedRoom, Room
<1> HIDE DEF new, entry
<1>6. /\ new.players \in Seq(Player) /\ Len(new.players) = n + 1
      /\ \A i \in 1..n : new.players[i] = st.players[i]
      /\ new.players[n + 1] = entry
  BY <1>3, <1>4, <1>5, AppendProperties
<1> HIDE DEF n
<1>7. DOMAIN new.players = 1..(n + 1)
  BY <1>6, LenProperties
<1>8. /\ \A i \in 1..n : i \in 1..(n + 1)
      /\ n + 1 \in 1..(n + 1)
      /\ \A i \in 1..(n + 1) : i \in 1..n \/ i = n + 1
  BY <1>3
<1>9. ASSUME NEW q
      PROVE  /\ q \in PlayersIn(new) <=> q \in PlayersIn(st) \/ q = p
             /\ q \in PlayersOn(new) <=> q \in PlayersOn(st) \/ q = p
             /\ q \in OwnersIn(new) <=> q \in OwnersIn(st)
  <2>1. q \in PlayersIn(new) <=> q \in PlayersIn(st) \/ q = p
    BY <1>1, <1>2, <1>3, <1>4, <1>6, <1>7, <1>8, PlayersOf
  <2>2. q \in PlayersOn(new) <=> q \in PlayersOn(st) \/ q = p
    BY <1>1, <1>2, <1>3, <1>4, <1>6, <1>7, <1>8, PlayersOf
  <2>3. q \in OwnersIn(new) <=> q \in OwnersIn(st)
    BY <1>1, <1>2, <1>3, <1>4, <1>6, <1>7, <1>8, PlayersOf
  <2> QED
    BY <2>1, <2>2, <2>3
<1> QED
  BY <1>2, <1>9 DEF new

LEMMA OwnerAlone ==
  ASSUME NEW p \in PlayerIds
  PROVE  LET new == LobbyRoom(<<p>>, {p})
         IN /\ SoundRoom(new)
            /\ PlayersIn(new) = {p} /\ PlayersOn(new) = {p} /\ OwnersIn(new) = {p}
<1> DEFINE new == LobbyRoom(<<p>>, {p})
<1>1. SoundRoom(new)
  BY NewRoomSound
<1>2. /\ DOMAIN new.players = {1} /\ new.players[1].id = p
      /\ new.players[1].isOwner /\ new.players[1].connectionStatus = "connected"
  <2>1. new.players = [i \in 1..Len(<<p>>) |->
          NewPlayer(<<p>>[i], i = 1,
            IF <<p>>[i] \in {p} THEN "connected" ELSE "disconnected")]
    BY DEF LobbyRoom
  <2>2. 1..Len(<<p>>) = {1} /\ <<p>>[1] = p
    OBVIOUS
  <2> HIDE DEF new
  <2>3. DOMAIN new.players = {1} /\ new.players[1] = NewPlayer(p, TRUE, "connected")
    BY <2>1, <2>2
  <2> QED
    BY <2>3 DEF NewPlayer
<1> HIDE DEF new
<1>3. ASSUME NEW q
      PROVE  /\ q \in PlayersIn(new) <=> q = p
             /\ q \in PlayersOn(new) <=> q = p
             /\ q \in OwnersIn(new) <=> q = p
  BY <1>1, <1>2, PlayersOf
<1> QED
  BY <1>1, <1>3 DEF new

(***************************************************************************)
(* The handlers in flight.  Two of them never act for the same player,     *)
(* serve the same socket or write the same session, until an event comes   *)
(* across a handler it concerns.                                           *)
(***************************************************************************)
Separate(f, g) ==
  f.pc \in LifePcs /\ g.pc \in LifePcs =>
    /\ f.who = g.who => f.who = NoPlayer
    /\ f.socket = g.socket => f.socket = NoSocket
    /\ f.session = g.session /\ f.who # NoPlayer /\ g.who # NoPlayer => f.session = NoSession

AllSeparate(q) == \A j, k \in DOMAIN q : j # k => Separate(q[j], q[k])

OneEach ==
  /\ AllSeparate(queue) /\ AllSeparate(ready)
  /\ \A f \in ToSet(queue), g \in ToSet(ready) : Separate(f, g)

(* The handler h ends or goes on, and those in New are what comes of it.   *)
Replaces(h, New) ==
  /\ OneEach'
  /\ \A f \in LifeInFlight' : f \in New \/ (f \in LifeInFlight /\ Separate(f, h))
  /\ \A f \in LifeInFlight : f = h \/ f \in LifeInFlight'
  /\ \A g \in New : g.pc \in LifePcs => g \in LifeInFlight'

(* Nobody, for a step that no handler has taken.                           *)
Idle == NewHandler("none")

LEMMA IdleIsNobody ==
  /\ Idle.pc = "none" /\ "none" \notin LifePcs
  /\ \A f : Separate(f, Idle) /\ Separate(Idle, f)
<1>1. Idle.pc = "none" /\ "none" \notin LifePcs
  BY DEF Idle, NewHandler, LifePcs
<1> QED
  BY <1>1 DEF Separate

LEMMA SeparateSymmetric ==
  ASSUME NEW f, NEW g, Separate(f, g)
  PROVE  Separate(g, f)
  BY DEF Separate

LEMMA AppendSeparate ==
  ASSUME NEW V, NEW q \in Seq(V), NEW g, AllSeparate(q),
         \A f \in ToSet(q) : Separate(f, g)
  PROVE  AllSeparate(Append(q, g)) /\ ToSet(Append(q, g)) = ToSet(q) \cup {g}
<1> DEFINE S == V \cup {g}
<1>1. q \in Seq(S) /\ g \in S
  BY SeqMonotonic
<1>2. ToSet(Append(q, g)) = ToSet(q) \cup {g}
  BY <1>1, ToSetAppend
<1> HIDE DEF S
<1> DEFINE r == Append(q, g)
           n == Len(q)
<1>3. /\ n \in Nat /\ DOMAIN q = 1..n /\ \A k \in 1..n : q[k] \in ToSet(q)
  BY <1>1, ToSetOf
<1>4. /\ r \in Seq(S) /\ Len(r) = n + 1
      /\ \A k \in 1..n : r[k] = q[k]
      /\ r[n + 1] = g
  BY <1>1, AppendProperties
<1>5. DOMAIN r = 1..(n + 1)
  BY <1>4, LenProperties
<1> HIDE DEF r, n
<1>6. ASSUME NEW j \in 1..(n + 1), NEW k \in 1..(n + 1), j # k
      PROVE  Separate(r[j], r[k])
  <2>1. CASE j \in 1..n /\ k \in 1..n
    BY <1>3, <1>4, <1>6, <2>1 DEF AllSeparate
  <2>2. CASE j \in 1..n /\ k = n + 1
    BY <1>3, <1>4, <2>2
  <2>3. CASE k \in 1..n /\ j = n + 1
    BY <1>3, <1>4, <2>3, SeparateSymmetric
  <2> QED
    BY <1>3, <1>6, <2>1, <2>2, <2>3
<1> QED
  BY <1>5, <1>6, <1>2 DEF AllSeparate, r

(* The one that leaves a sequence was separate from the ones that stay.    *)
LEMMA RemoveSeparate ==
  ASSUME NEW S, NEW q \in Seq(S), NEW i \in DOMAIN q, AllSeparate(q)
  PROVE  /\ RemoveAt(q, i) \in Seq(S)
         /\ AllSeparate(RemoveAt(q, i))
         /\ \A f \in ToSet(RemoveAt(q, i)) : f \in ToSet(q) /\ Separate(f, q[i])
         /\ \A f \in ToSet(q) : f = q[i] \/ f \in ToSet(RemoveAt(q, i))
<1> DEFINE r == RemoveAt(q, i)
           n == Len(q)
<1>1. n \in Nat /\ DOMAIN q = 1..n /\ i \in 1..n
  BY ToSetOf
<1>2. /\ r \in Seq(S) /\ Len(r) = n - 1
      /\ \A k \in 1..(n - 1) : r[k] = IF k < i THEN q[k] ELSE q[k + 1]
  BY RemoveAtType
<1>3. DOMAIN r = 1..(n - 1) /\ \A f : f \in ToSet(r) <=> \E k \in 1..(n - 1) : r[k] = f
  BY <1>2, ToSetOf
<1>4. ToSet(r) \subseteq ToSet(q) /\ ToSet(q) \subseteq ToSet(r) \cup {q[i]}
  BY ToSetRemove
<1> HIDE DEF r
<1>5. PICK m \in [1..(n - 1) -> 1..n] : \A k \in 1..(n - 1) : m[k] = IF k < i THEN k ELSE k + 1
  <2> DEFINE f == [k \in 1..(n - 1) |-> IF k < i THEN k ELSE k + 1]
  <2>1. \A k \in 1..(n - 1) : k \in 1..n /\ k + 1 \in 1..n
    BY <1>1
  <2>2. f \in [1..(n - 1) -> 1..n]
    BY <2>1
  <2> QED
    BY <2>2
<1>6. ASSUME NEW k \in 1..(n - 1)
      PROVE  r[k] = q[m[k]] /\ m[k] # i
  <2>1. CASE k < i
    <3>1. m[k] = k /\ k # i
      BY <1>1, <1>5, <2>1
    <3> QED
      BY <1>2, <2>1, <3>1
  <2>2. CASE ~(k < i)
    <3>1. m[k] = k + 1
      BY <1>5, <2>2
    <3>2. k + 1 # i
      BY <1>1, <2>2
    <3> QED
      BY <1>2, <2>2, <3>1, <3>2
  <2> QED
    BY <2>1, <2>2
<1>7. \A j, k \in 1..(n - 1) : j # k => m[j] # m[k]
  BY <1>1, <1>5
<1>8. AllSeparate(r)
  BY <1>1, <1>3, <1>5, <1>6, <1>7 DEF AllSeparate
<1>9. ASSUME NEW f \in ToSet(r)
      PROVE  Separate(f, q[i])
  <2>1. PICK k \in 1..(n - 1) : r[k] = f
    BY <1>3
  <2>2. f = q[m[k]] /\ m[k] # i /\ m[k] \in 1..n
    BY <1>5, <1>6, <2>1
  <2> QED
    BY <1>1, <2>2 DEF AllSeparate
<1> QED
  BY <1>2, <1>4, <1>8, <1>9 DEF r

LEMMA CutSeparate ==
  ASSUME NEW S, NEW q \in Seq(S), NEW n \in 1..Len(q), AllSeparate(q)
  PROVE  /\ AllSeparate(SubSeq(q, 1, n)) /\ AllSeparate(SubSeq(q, n + 1, Len(q)))
         /\ \A f \in ToSet(SubSeq(q, n + 1, Len(q))), g \in ToSet(SubSeq(q, 1, n)) :
              Separate(f, g)
         /\ ToSet(q) = ToSet(SubSeq(q, 1, n)) \cup ToSet(SubSeq(q, n + 1, Len(q)))
<1> DEFINE l == Len(q)
           a == SubSeq(q, 1, n)
           b == SubSeq(q, n + 1, l)
<1>1. l \in Nat /\ n \in 1..l /\ DOMAIN q = 1..l
  BY ToSetOf
<1>2. /\ a \in Seq(S) /\ b \in Seq(S) /\ Len(a) = n /\ Len(b) = l - n
      /\ \A k \in 1..n : a[k] = q[k]
      /\ \A k \in 1..(l - n) : b[k] = q[n + k]
      /\ ToSet(q) = ToSet(a) \cup ToSet(b)
  BY ToSetCut
<1> HIDE DEF a, b, l
<1>3. DOMAIN a = 1..n /\ \A f : f \in ToSet(a) <=> \E k \in 1..n : a[k] = f
  <2>1. a \in Seq(S) /\ Len(a) = n
    BY <1>2
  <2>2. DOMAIN a = 1..n
    BY <2>1, LenProperties
  <2>3. \A f : f \in ToSet(a) <=> \E k \in 1..n : a[k] = f
    BY <2>1, ToSetUpTo
  <2> QED
    BY <2>2, <2>3
<1>4. DOMAIN b = 1..(l - n) /\ \A f : f \in ToSet(b) <=> \E k \in 1..(l - n) : b[k] = f
  <2>1. DOMAIN b = 1..Len(b)
    BY <1>2, LenProperties
  <2> QED
    BY <1>2, <2>1, ToSetUpTo
<1>5. /\ DOMAIN a = 1..n /\ DOMAIN b = 1..(l - n)
      /\ \A f : f \in ToSet(a) <=> \E k \in 1..n : a[k] = f
      /\ \A f : f \in ToSet(b) <=> \E k \in 1..(l - n) : b[k] = f
  BY <1>3, <1>4
<1>6. /\ \A k \in 1..n : k \in 1..l
      /\ \A k \in 1..(l - n) : n + k \in 1..l /\ n + k \notin 1..n
      /\ \A j, k \in 1..(l - n) : j # k => n + j # n + k
  BY <1>1
<1>7. AllSeparate(a)
  BY <1>1, <1>2, <1>5, <1>6 DEF AllSeparate
<1>8. AllSeparate(b)
  <2>1. ASSUME NEW j \in 1..(l - n), NEW k \in 1..(l - n), j # k
        PROVE  Separate(q[n + j], q[n + k])
    <3>1. n + j \in DOMAIN q /\ n + k \in DOMAIN q
      BY <1>1, <1>6
    <3>2. n + j # n + k
      BY <1>6, <2>1
    <3> QED
      BY <3>1, <3>2 DEF AllSeparate
  <2> QED
    BY <1>2, <1>5, <2>1 DEF AllSeparate
<1>9. ASSUME NEW f \in ToSet(b), NEW g \in ToSet(a)
      PROVE  Separate(f, g)
  <2>1. PICK j \in 1..(l - n) : f = q[n + j]
    BY <1>2, <1>5
  <2>2. PICK k \in 1..n : g = q[k]
    BY <1>2, <1>5
  <2>3. n + j \in DOMAIN q /\ k \in DOMAIN q /\ n + j # k
    BY <1>1, <1>6
  <2> QED
    BY <2>1, <2>2, <2>3 DEF AllSeparate
<1> QED
  BY <1>2, <1>7, <1>8, <1>9 DEF a, b, l

LEMMA HandlerBegins ==
  ASSUME NEW S, queue \in Seq(S), ready \in Seq(S), OneEach, NEW g, Begin(g),
         \A f \in LifeInFlight : Separate(f, g)
  PROVE  Replaces(Idle, {g})
<1>1. queue' = Append(queue, g) /\ ready' = ready
  BY DEF Begin
<1>2. \A f \in ToSet(queue) \cup ToSet(ready) : Separate(f, g)
  BY DEF LifeInFlight, Separate
<1>3. AllSeparate(queue)' /\ ToSet(queue)' = ToSet(queue) \cup {g}
  BY <1>1, <1>2, AppendSeparate DEF OneEach
<1>4. AllSeparate(ready)' /\ ToSet(ready)' = ToSet(ready)
  BY <1>1 DEF OneEach
<1>5. OneEach'
  BY <1>2, <1>3, <1>4, SeparateSymmetric DEF OneEach
<1> QED
  BY <1>3, <1>4, <1>5, IdleIsNobody DEF Replaces, LifeInFlight

LEMMA HandlerEnds ==
  ASSUME NEW S, queue \in Seq(S), ready \in Seq(S), OneEach,
         NEW i \in DOMAIN ready, ready' = RemoveAt(ready, i), queue' = queue
  PROVE  Replaces(ready[i], {})
<1>1. /\ AllSeparate(ready)'
      /\ \A f \in ToSet(ready)' : f \in ToSet(ready) /\ Separate(f, ready[i])
      /\ \A f \in ToSet(ready) : f = ready[i] \/ f \in ToSet(ready)'
  BY RemoveSeparate DEF OneEach
<1>2. ToSet(queue)' = ToSet(queue) /\ AllSeparate(queue)'
  BY DEF OneEach
<1>3. ready[i] \in ToSet(ready)
  BY DEF ToSet
<1>4. OneEach'
  BY <1>1, <1>2 DEF OneEach
<1>5. \A f \in ToSet(queue) : Separate(f, ready[i])
  BY <1>3 DEF OneEach
<1> QED
  BY <1>1, <1>2, <1>4, <1>5 DEF Replaces, LifeInFlight

LEMMA HandlerAwaits ==
  ASSUME NEW S, queue \in Seq(S), ready \in Seq(S), OneEach,
         NEW i \in DOMAIN ready, NEW g, Await(i, g),
         \A f \in LifeInFlight : Separate(f, ready[i]) => Separate(f, g)
  PROVE  Replaces(ready[i], {g})
<1>1. queue' = Append(queue, g) /\ ready' = RemoveAt(ready, i)
  BY DEF Await
<1>2. /\ AllSeparate(ready)'
      /\ \A f \in ToSet(ready)' : f \in ToSet(ready) /\ Separate(f, ready[i])
      /\ \A f \in ToSet(ready) : f = ready[i] \/ f \in ToSet(ready)'
  BY <1>1, RemoveSeparate DEF OneEach
<1>3. ready[i] \in ToSet(ready)
  BY DEF ToSet
<1>4. \A f \in ToSet(queue) : Separate(f, ready[i])
  BY <1>3 DEF OneEach
<1>5. \A f \in ToSet(queue) \cup ToSet(ready) : Separate(f, ready[i]) => Separate(f, g)
  BY DEF LifeInFlight, Separate
<1>6. AllSeparate(queue)' /\ ToSet(queue)' = ToSet(queue) \cup {g}
  BY <1>1, <1>4, <1>5, AppendSeparate DEF OneEach
<1>7. OneEach'
  BY <1>2, <1>5, <1>6, SeparateSymmetric DEF OneEach
<1> QED
  BY <1>2, <1>4, <1>6, <1>7 DEF Replaces, LifeInFlight

(* The handler goes on in the same chunk.                                  *)
LEMMA HandlerStays ==
  ASSUME NEW S, queue \in Seq(S), ready \in Seq(S), OneEach,
         NEW i \in DOMAIN ready, NEW g, ready' = [ready EXCEPT ![i] = g], queue' = queue,
         \A f \in LifeInFlight : Separate(f, ready[i]) => Separate(f, g)
  PROVE  Replaces(ready[i], {g})
<1>1. \A f \in ToSet(queue) \cup ToSet(ready) : Separate(f, ready[i]) => Separate(f, g)
  BY DEF LifeInFlight, Separate
<1>2. /\ DOMAIN ready' = DOMAIN ready /\ ready'[i] = g
      /\ \A k \in DOMAIN ready : k # i => ready'[k] = ready[k]
  OBVIOUS
<1>3. \A k \in DOMAIN ready : k # i =>
        /\ ready[k] \in ToSet(ready) /\ Separate(ready[k], ready[i])
        /\ Separate(ready[k], g) /\ Separate(g, ready[k])
  <2>1. \A k \in DOMAIN ready : k # i =>
          ready[k] \in ToSet(ready) /\ Separate(ready[k], ready[i])
    BY DEF OneEach, AllSeparate, ToSet
  <2> QED
    BY <1>1, <2>1, SeparateSymmetric
<1>4. AllSeparate(ready)'
  BY <1>2, <1>3 DEF OneEach, AllSeparate
<1>5. /\ \A f \in ToSet(ready)' : f = g \/ (f \in ToSet(ready) /\ Separate(f, ready[i]))
      /\ \A f \in ToSet(ready) : f = ready[i] \/ f \in ToSet(ready)'
      /\ g \in ToSet(ready)' /\ ready[i] \in ToSet(ready)
  BY <1>2, <1>3 DEF ToSet
<1>6. \A f \in ToSet(queue) : Separate(f, ready[i]) /\ Separate(f, g)
  BY <1>1, <1>5 DEF OneEach
<1>7. ToSet(queue)' = ToSet(queue) /\ AllSeparate(queue)'
  BY DEF OneEach
<1>8. OneEach'
  BY <1>4, <1>5, <1>6, <1>7 DEF OneEach
<1> QED
  BY <1>5, <1>6, <1>7, <1>8 DEF Replaces, LifeInFlight

LEMMA HandlersDelivered ==
  ASSUME NEW S, queue \in Seq(S), ready \in Seq(S), OneEach, Deliver
  PROVE  OneEach' /\ LifeInFlight' = LifeInFlight
<1>1. PICK n \in 1..Len(queue) : /\ ready' = SubSeq(queue, 1, n)
                                /\ queue' = SubSeq(queue, n + 1, Len(queue))
  BY DEF Deliver
<1>2. /\ AllSeparate(ready)' /\ AllSeparate(queue)'
      /\ \A f \in ToSet(queue)', g \in ToSet(ready)' : Separate(f, g)
      /\ ToSet(queue) = ToSet(ready)' \cup ToSet(queue)'
  BY <1>1, CutSeparate DEF OneEach
<1>3. ToSet(ready) = {}
  BY DEF Deliver, ToSet
<1> QED
  BY <1>2, <1>3 DEF OneEach, LifeInFlight

(* A handler that is resumed is in flight.                                 *)
LEMMA ResumedInFlight ==
  ASSUME NEW i \in DOMAIN ready, ready[i].pc \in LifePcs
  PROVE  ready[i] \in LifeInFlight
  BY DEF LifeInFlight, ToSet

(***************************************************************************)
(* What record, sessions, sockets and RoomManager have to do with each     *)
(* other, and how far they may differ for the players that handlers in     *)
(* flight are seating, taking out or putting out.                          *)
(*                                                                         *)
(* "up" tells whether the RoomManager knows the room: one that was started *)
(* after the room was created does not, and does nothing.                  *)
(***************************************************************************)

IsOpen(s) == sockets[s].status = "open"

(* What was not issued is not in use.                                      *)
Issuance ==
  /\ issued # {}
  /\ \A t \in SessionIds \ issued :
       /\ sessions[t] = NoPlayer /\ t \notin expiring
       /\ \A s \in Sockets : sockets[s].session # t
  /\ \A p \in PlayerIds \ issued :
       /\ p \notin PlayersIn(room)
       /\ \A t \in SessionIds : sessions[t] # p
       /\ \A s \in Sockets : sockets[s].player # p

(* A player has one session and one open socket.                           *)
OneSessionEach ==
  \A t, u \in SessionIds : sessions[t] = sessions[u] /\ sessions[t] # NoPlayer => t = u

OneSocketEach ==
  /\ \A s, r \in Sockets :
       IsOpen(s) /\ IsOpen(r) /\ HasSession(s) /\ sockets[s].player = sockets[r].player => s = r
  /\ \A s \in Sockets : sockets[s].status = "new" => ~HasSession(s)

(* No timer has been forgotten, and each has its reason.                   *)
OneTimer == [pending |-> 1, onRecord |-> TRUE]
Neat(t) == t \in {Manager!NoTimer, OneTimer}

TimersNeat(up) ==
  IF up
  THEN /\ \A p \in PlayerIds :
            Neat(reconnecting[p]) /\ (reconnecting[p] = OneTimer => p \in playerIds)
       /\ Neat(emptying) /\ (emptying = OneTimer => playerIds = {})
       /\ ~managed => room = NoRoom
       /\ playerIds \subseteq issued
  ELSE /\ ~managed /\ emptying = Manager!NoTimer
       /\ \A p \in PlayerIds : reconnecting[p] = Manager!NoTimer

SeatedKept(up) ==
  up => \A s \in Sockets : IsOpen(s) /\ HasSession(s) =>
    /\ managed /\ sockets[s].player \in playerIds
    /\ reconnecting[sockets[s].player] = Manager!NoTimer /\ emptying = Manager!NoTimer

(* From the time its session is replaced until it takes the seat over, a   *)
(* player who returns has an old socket with a session that is gone.       *)
Returning(h, p) == h.pc \in {"sessionReplaced", "socketsFetched"} /\ h.who = p
SomeReturning(H, p) == \E h \in H : Returning(h, p)
Returns(p) == SomeReturning(LifeInFlight, p)

SeatedOnRecord ==
  \A s \in Sockets : IsOpen(s) /\ HasSession(s) =>
    /\ sockets[s].player \in PlayersOn(room)
    /\ \/ sessions[sockets[s].session] = sockets[s].player /\ sockets[s].session \notin expiring
       \/ Returns(sockets[s].player)

LeavingPcs == {"leaveSession", "leaveLoad", "leaveSaved", "leaveExpires"}
ReturnPcs == {"reconnectSession", "reconnectLoad", "reconnectSaved"}
NewPlayerPcs == {"createSaved", "createSessionSaved", "joinSaved", "joinSessionSaved"}
MovingPcs == LeavingPcs \cup {"reconnectSaved", "sessionReplaced", "socketsFetched",
                              "joinSaved", "joinSessionSaved", "expiredLoad"}

(* A player on the way in, out or back is in the record and has no seat.   *)
Moving(h, p) == h.pc \in MovingPcs /\ h.who = p
SomeMoving(H, p) == \E h \in H : Moving(h, p)
OnTheMove(p) == SomeMoving(LifeInFlight, p)

AbsentTimed(up) ==
  up => \A p \in PlayersIn(room) : Seats(p) = {} =>
    \/ p \in playerIds /\ p \notin PlayersOn(room) /\ reconnecting[p] = OneTimer
    \/ p \notin playerIds /\ p \in OwnersIn(room)
    \/ OnTheMove(p)

SeatsAgree(up) ==
  /\ Issuance /\ OneSessionEach /\ OneSocketEach /\ TimersNeat(up)
  /\ SeatedKept(up) /\ SeatedOnRecord /\ AbsentTimed(up)

(* How far a handler has come.  A room that is gone does not come back.    *)
RoomIsGone(h) == h.pc \in {"leaveLoad", "expiredLoad"} /\ h.st = NoRoom => room = NoRoom

SessionIsOwn(h) ==
  /\ h.who # NoPlayer => h.who \in issued
  /\ h.who # NoPlayer /\ h.pc # "expiredLoad" =>
       h.session \in issued /\ sessions[h.session] \in {h.who, NoPlayer}
  /\ h.pc = "expiredLoad" => h.session = NoSession

SocketWaits(h) ==
  IF h.pc \in WaysIn
  THEN \/ h.socket \in Sockets /\ IsOpen(h.socket) /\ ~HasSession(h.socket)
       \/ h.socket = NoSocket /\ h.pc \in {"createSaved", "createSessionSaved"}
  ELSE h.socket = NoSocket

PlayerIsNew(h) ==
  /\ h.pc \in NewPlayerPcs =>
       h.who \in PlayersOn(room) /\ \A s \in Sockets : sockets[s].player # h.who
  /\ h.pc \in {"createSaved", "joinSaved"} =>
       /\ sessions[h.session] = NoPlayer /\ h.session \notin expiring
       /\ \A t \in SessionIds : sessions[t] # h.who
  /\ h.pc \in {"createSessionSaved", "joinSessionSaved"} =>
       sessions[h.session] = h.who /\ h.session \notin expiring

PlayerIsBack(h) ==
  /\ h.pc \in ReturnPcs /\ h.who # NoPlayer =>
       \A t \in SessionIds : sessions[t] = h.who => t = h.session
  /\ h.pc \in {"reconnectSaved", "sessionReplaced", "socketsFetched"} =>
       h.who \in PlayersOn(room)
  /\ h.pc \in {"sessionReplaced", "socketsFetched"} =>
       /\ sessions[h.session] = h.who /\ h.session \notin expiring
       /\ \A s \in Sockets : sockets[s].session # h.session
  /\ h.pc = "socketsFetched" => h.others = Seats(h.who)

PlayerIsGone(up, h) ==
  /\ h.pc \in LeavingPcs \ {"leaveSession"} => h.who # NoPlayer
  /\ h.pc \in LeavingPcs /\ h.who # NoPlayer =>
       /\ Seats(h.who) = {}
       /\ h.pc \in {"leaveSession", "leaveLoad"} => h.who \in PlayersOn(room)
       /\ h.pc \in {"leaveSaved", "leaveExpires"} => h.who \in PlayersIn(room) \ PlayersOn(room)
       /\ up => h.who \in playerIds /\ reconnecting[h.who] = Manager!NoTimer
  /\ h.pc = "expiredLoad" => Seats(h.who) = {}

Underway(up, h) ==
  /\ RoomIsGone(h) /\ SessionIsOwn(h) /\ SocketWaits(h)
  /\ PlayerIsNew(h) /\ PlayerIsBack(h) /\ PlayerIsGone(up, h)

(* The invariant, until a write is lost or events cross.                   *)
AllAgree(up) ==
  /\ OneEach /\ SeatsAgree(up)
  /\ \A h \in LifeInFlight : Underway(up, h)

(***************************************************************************)
(* Steps that disturb one part and leave the others.                       *)
(***************************************************************************)
LEMMA MovesOn ==
  ASSUME NEW h, NEW New, Replaces(h, New), NEW p
  PROVE  /\ Returns(p) /\ (Returning(h, p) => SomeReturning(New, p)) => Returns(p)'
         /\ OnTheMove(p) /\ (Moving(h, p) => SomeMoving(New, p)) => OnTheMove(p)'
         /\ SomeReturning(New, p) => Returns(p)'
         /\ SomeMoving(New, p) => OnTheMove(p)'
<1>1. SomeReturning(New, p) => Returns(p)'
  BY DEF Replaces, SomeReturning, Returns, Returning, LifePcs
<1>2. SomeMoving(New, p) => OnTheMove(p)'
  BY DEF Replaces, SomeMoving, OnTheMove, Moving, MovingPcs, LeavingPcs, LifePcs
<1>3. ASSUME Returns(p), Returning(h, p) => SomeReturning(New, p)
      PROVE  Returns(p)'
  <2>1. PICK f \in LifeInFlight : Returning(f, p)
    BY <1>3 DEF Returns, SomeReturning
  <2>2. CASE f = h
    BY <1>1, <1>3, <2>1, <2>2
  <2>3. CASE f # h
    BY <2>1, <2>3 DEF Replaces, Returns, SomeReturning, Returning
  <2> QED
    BY <2>2, <2>3
<1>4. ASSUME OnTheMove(p), Moving(h, p) => SomeMoving(New, p)
      PROVE  OnTheMove(p)'
  <2>1. PICK f \in LifeInFlight : Moving(f, p)
    BY <1>4 DEF OnTheMove, SomeMoving
  <2>2. CASE f = h
    BY <1>2, <1>4, <2>1, <2>2
  <2>3. CASE f # h
    BY <2>1, <2>3 DEF Replaces, OnTheMove, SomeMoving, Moving
  <2> QED
    BY <2>2, <2>3
<1> QED
  BY <1>1, <1>2, <1>3, <1>4

LEMMA IssuanceKept ==
  ASSUME Issuance, issued \subseteq issued',
         \A t \in SessionIds :
           /\ sessions'[t] \in {sessions[t], NoPlayer} \cup issued'
           /\ t \notin issued' =>
                /\ sessions'[t] \in {sessions[t], NoPlayer}
                /\ t \in expiring' => t \in expiring,
         PlayersIn(room') \subseteq PlayersIn(room) \cup issued',
         \A s \in Sockets :
           /\ sockets'[s].session \in {sockets[s].session} \cup issued'
           /\ sockets'[s].player \in {sockets[s].player} \cup issued'
  PROVE  Issuance'
<1>1. issued' # {}
  BY DEF Issuance
<1>2. ASSUME NEW t \in SessionIds \ issued'
      PROVE  /\ sessions'[t] = NoPlayer /\ t \notin expiring'
             /\ \A s \in Sockets : sockets'[s].session # t
  BY <1>2 DEF Issuance
<1>3. ASSUME NEW p \in PlayerIds \ issued'
      PROVE  /\ p \notin PlayersIn(room')
             /\ \A t \in SessionIds : sessions'[t] # p
             /\ \A s \in Sockets : sockets'[s].player # p
  BY <1>3, NamesAssumption DEF Issuance
<1> QED
  BY <1>1, <1>2, <1>3 DEF Issuance

LEMMA SocketsStay ==
  ASSUME UNCHANGED sockets
  PROVE  /\ \A p : Seats(p)' = Seats(p)
         /\ \A s : (HasSession(s)' <=> HasSession(s)) /\ (IsOpen(s)' <=> IsOpen(s))
         /\ OneSocketEach => OneSocketEach'
  BY DEF Seats, HasSession, IsOpen, OneSocketEach

LEMMA OpenSeat ==
  ASSUME NEW s \in Sockets, IsOpen(s)
  PROVE  Seats(sockets[s].player) # {}
<1>1. s \in Seats(sockets[s].player)
  BY DEF Seats, IsOpen
<1> QED
  BY <1>1

(* The record changes, or the handler goes on: nobody who is seated leaves *)
(* it, and nobody else comes in or gets connected but by the handler.      *)
LEMMA RecordMoves ==
  ASSUME NEW up \in BOOLEAN, NEW h, NEW New, Replaces(h, New), SeatsAgree(up),
         UNCHANGED <<sessions, expiring, sockets, managerVars>>,
         issued \subseteq issued',
         PlayersIn(room') \subseteq PlayersIn(room) \cup issued',
         \A p \in PlayersOn(room) : Seats(p) # {} =>
           p \in PlayersOn(room') /\ (Returning(h, p) => SomeReturning(New, p)),
         \A p \in PlayersIn(room') : Seats(p) = {} =>
           \/ SomeMoving(New, p)
           \/ /\ p \in PlayersIn(room) /\ ~Moving(h, p)
              /\ p \in PlayersOn(room') => p \in PlayersOn(room)
              /\ p \in OwnersIn(room) => p \in OwnersIn(room'),
         room = NoRoom => room' = NoRoom
  PROVE  SeatsAgree(up)'
<1>1. /\ UNCHANGED <<managed, playerIds, reconnecting, emptying>>
      /\ UNCHANGED <<sessions, expiring, sockets>>
  BY DEF managerVars
<1>2. Issuance'
  BY <1>1, IssuanceKept DEF SeatsAgree
<1>3. OneSessionEach' /\ OneSocketEach'
  BY <1>1, SocketsStay DEF SeatsAgree, OneSessionEach
<1>4. TimersNeat(up)'
  BY <1>1 DEF SeatsAgree, TimersNeat
<1>5. SeatedKept(up)'
  BY <1>1 DEF SeatsAgree, SeatedKept, IsOpen, HasSession
<1>6. SeatedOnRecord'
  <2> SUFFICES ASSUME NEW s \in Sockets, IsOpen(s), HasSession(s)
               PROVE  /\ sockets[s].player \in PlayersOn(room')
                      /\ \/ /\ sessions[sockets[s].session] = sockets[s].player
                            /\ sockets[s].session \notin expiring
                         \/ Returns(sockets[s].player)'
    BY <1>1 DEF SeatedOnRecord, IsOpen, HasSession
  <2>1. Seats(sockets[s].player) # {}
    BY OpenSeat
  <2> QED
    BY <2>1, MovesOn DEF SeatsAgree, SeatedOnRecord
<1>7. AbsentTimed(up)'
  <2> SUFFICES ASSUME up, NEW p \in PlayersIn(room'), Seats(p) = {}
               PROVE  \/ p \in playerIds /\ p \notin PlayersOn(room') /\ reconnecting[p] = OneTimer
                      \/ p \notin playerIds /\ p \in OwnersIn(room')
                      \/ OnTheMove(p)'
    BY <1>1, SocketsStay DEF AbsentTimed
  <2> QED
    BY MovesOn DEF SeatsAgree, AbsentTimed
<1> QED
  BY <1>2, <1>3, <1>4, <1>5, <1>6, <1>7 DEF SeatsAgree

(* A session is saved, replaced or expires.                                *)
LEMMA SessionsMove ==
  ASSUME NEW up \in BOOLEAN, NEW h, NEW New, Replaces(h, New), SeatsAgree(up),
         UNCHANGED <<room, sockets, managerVars>>, issued \subseteq issued',
         Issuance', OneSessionEach',
         \A s \in Sockets : IsOpen(s) /\ HasSession(s) =>
           \/ SomeReturning(New, sockets[s].player)
           \/ Returns(sockets[s].player) /\ ~Returning(h, sockets[s].player)
           \/ /\ ~Returning(h, sockets[s].player)
              /\ sessions'[sockets[s].session] = sessions[sockets[s].session]
              /\ sockets[s].session \in expiring' => sockets[s].session \in expiring,
         \A p \in PlayersIn(room) : Moving(h, p) => SomeMoving(New, p)
  PROVE  SeatsAgree(up)'
<1>1. UNCHANGED <<managed, playerIds, reconnecting, emptying, room, sockets>>
  BY DEF managerVars
<1>3. OneSocketEach'
  BY <1>1, SocketsStay DEF SeatsAgree
<1>4. TimersNeat(up)'
  BY <1>1 DEF SeatsAgree, TimersNeat
<1>5. SeatedKept(up)'
  BY <1>1 DEF SeatsAgree, SeatedKept, IsOpen, HasSession
<1>6. SeatedOnRecord'
  <2> SUFFICES ASSUME NEW s \in Sockets, IsOpen(s), HasSession(s)
               PROVE  /\ sockets[s].player \in PlayersOn(room)
                      /\ \/ /\ sessions'[sockets[s].session] = sockets[s].player
                            /\ sockets[s].session \notin expiring'
                         \/ Returns(sockets[s].player)'
    BY <1>1 DEF SeatedOnRecord, IsOpen, HasSession
  <2> QED
    BY MovesOn DEF SeatsAgree, SeatedOnRecord
<1>7. AbsentTimed(up)'
  <2> SUFFICES ASSUME up, NEW p \in PlayersIn(room), Seats(p) = {}
               PROVE  \/ p \in playerIds /\ p \notin PlayersOn(room) /\ reconnecting[p] = OneTimer
                      \/ p \notin playerIds /\ p \in OwnersIn(room)
                      \/ OnTheMove(p)'
    BY <1>1, SocketsStay DEF AbsentTimed
  <2> QED
    BY MovesOn DEF SeatsAgree, AbsentTimed
<1> QED
  BY <1>3, <1>4, <1>5, <1>6, <1>7 DEF SeatsAgree

(* A socket without a player opens or closes.                              *)
LEMMA SocketsMove ==
  ASSUME NEW up \in BOOLEAN, NEW h, NEW New, Replaces(h, New), SeatsAgree(up),
         CopyOK(room), UNCHANGED <<room, sessions, expiring, issued, managerVars>>,
         \A s \in Sockets :
           /\ sockets'[s].player = sockets[s].player
           /\ sockets'[s].session = sockets[s].session
           /\ HasSession(s) => sockets'[s].status = sockets[s].status
           /\ sockets'[s].status = "new" => sockets[s].status = "new",
         \A p \in PlayersIn(room) : ~Moving(h, p) /\ ~Returning(h, p)
  PROVE  SeatsAgree(up)' /\ \A p \in PlayerIds : Seats(p)' = Seats(p)
<1>1. UNCHANGED <<managed, playerIds, reconnecting, emptying, room, sessions, expiring, issued>>
  BY DEF managerVars
<1>0. \A s \in Sockets : /\ HasSession(s)' <=> HasSession(s)
                         /\ HasSession(s) => (IsOpen(s)' <=> IsOpen(s))
  BY DEF HasSession, IsOpen
<1>8. ASSUME NEW p \in PlayerIds
      PROVE  Seats(p)' = Seats(p)
  <2>1. \A s \in Sockets : sockets[s].player = p => HasSession(s)
    BY NamesAssumption DEF HasSession
  <2> QED
    BY <2>1 DEF Seats
<1>2. Issuance'
  BY <1>1, IssuanceKept DEF SeatsAgree
<1>3. OneSocketEach' /\ OneSessionEach'
  <2>1. OneSessionEach'
    BY <1>1 DEF SeatsAgree, OneSessionEach
  <2>2. ASSUME NEW s \in Sockets, NEW r \in Sockets, IsOpen(s)', IsOpen(r)', HasSession(s)',
               sockets'[s].player = sockets'[r].player
        PROVE  s = r
    <3>1. /\ HasSession(s) /\ HasSession(r) /\ IsOpen(s) /\ IsOpen(r)
          /\ sockets[s].player = sockets[r].player
      BY <1>0, <2>2 DEF HasSession
    <3> QED
      BY <3>1 DEF SeatsAgree, OneSocketEach
  <2>3. ASSUME NEW s \in Sockets, sockets'[s].status = "new"
        PROVE  ~HasSession(s)'
    BY <1>0, <2>3 DEF SeatsAgree, OneSocketEach
  <2> QED
    BY <2>1, <2>2, <2>3 DEF OneSocketEach
<1>4. TimersNeat(up)'
  BY <1>1 DEF SeatsAgree, TimersNeat
<1>5. SeatedKept(up)'
  BY <1>0, <1>1 DEF SeatsAgree, SeatedKept
<1>6. SeatedOnRecord'
  <2> SUFFICES ASSUME NEW s \in Sockets, IsOpen(s)', HasSession(s)'
               PROVE  /\ sockets'[s].player \in PlayersOn(room)
                      /\ \/ /\ sessions[sockets'[s].session] = sockets'[s].player
                            /\ sockets'[s].session \notin expiring
                         \/ Returns(sockets[s].player)'
    BY <1>1 DEF SeatedOnRecord
  <2>1. /\ sockets[s].player \in PlayersOn(room)
        /\ \/ sessions[sockets[s].session] = sockets[s].player /\ sockets[s].session \notin expiring
           \/ Returns(sockets[s].player)
    BY <1>0 DEF SeatsAgree, SeatedOnRecord
  <2>2. sockets[s].player \in PlayersIn(room)
    BY <2>1 DEF PlayersIn, PlayersOn, Members, Connected
  <2> QED
    BY <2>1, <2>2, MovesOn
<1>7. AbsentTimed(up)'
  <2> SUFFICES ASSUME up, NEW p \in PlayersIn(room), Seats(p)' = {}
               PROVE  \/ p \in playerIds /\ p \notin PlayersOn(room) /\ reconnecting[p] = OneTimer
                      \/ p \notin playerIds /\ p \in OwnersIn(room)
                      \/ OnTheMove(p)'
    BY <1>1 DEF AbsentTimed
  <2>1. Seats(p) = {}
    <3>1. p # NoPlayer => \A s \in Sockets : sockets[s].player = p => HasSession(s)
      BY DEF HasSession
    <3>2. p # NoPlayer
      BY PlayersOf, NamesAssumption DEF CopyOK, PlayersIn
    <3> QED
      BY <3>1, <3>2 DEF Seats
  <2> QED
    BY <2>1, MovesOn DEF SeatsAgree, AbsentTimed
<1> QED
  BY <1>2, <1>3, <1>4, <1>5, <1>6, <1>7, <1>8 DEF SeatsAgree

(* A player takes a seat on a socket that has no player, and its other     *)
(* sockets, if there are any, are closed.                                  *)
LEMMA NeatCancel ==
  ASSUME NEW t, Neat(t)
  PROVE  Manager!Cancel(t) = Manager!NoTimer
<1>1. CASE t = Manager!NoTimer
  BY <1>1 DEF Manager!Cancel, Manager!NoTimer
<1>2. CASE t = OneTimer
  <2>1. t.pending = 1 /\ t.onRecord
    BY <1>2 DEF OneTimer
  <2>2. t.pending - 1 = 0
    BY <2>1
  <2> QED
    BY <2>1, <2>2 DEF Manager!Cancel, Manager!NoTimer
<1> QED
  BY <1>1, <1>2 DEF Neat

LEMMA SeatTaken ==
  ASSUME NEW up \in BOOLEAN, NEW h, NEW New, Replaces(h, New), SeatsAgree(up), ManagerSound, CopyOK(room),
         NEW p \in PlayersOn(room), NEW s \in Sockets, NEW t \in SessionIds,
         UNCHANGED <<room, sessions, expiring, issued>>, Manager!AddPlayer(p),
         sessions[t] = p, t \notin expiring, IsOpen(s), ~HasSession(s),
         IsOpen(s)', sockets'[s].player = p, sockets'[s].session = t,
         \A r \in Sockets \ {s} :
           IF sockets[r].player = p
           THEN /\ sockets'[r].status = "closed" /\ sockets'[r].player = p
                /\ sockets'[r].session = sockets[r].session
           ELSE sockets'[r] = sockets[r],
         \A q : q # p => ~Moving(h, q) /\ ~Returning(h, q)
  PROVE  SeatsAgree(up)'
<1>1. /\ p \in PlayersIn(room) /\ p \in PlayerIds /\ room # NoRoom
      /\ PlayersIn(room) \subseteq PlayerIds
  BY PlayersOf DEF CopyOK, PlayersOn
<1>2. /\ Issuance /\ OneSessionEach /\ OneSocketEach /\ TimersNeat(up)
      /\ SeatedKept(up) /\ SeatedOnRecord /\ AbsentTimed(up)
  BY DEF SeatsAgree
<1>3. p \in issued /\ t \in issued /\ p # NoPlayer
  BY <1>1, <1>2, NamesAssumption DEF Issuance
<1>4. \A r \in Sockets : r # s /\ sockets'[r].player # p => sockets'[r] = sockets[r]
  OBVIOUS
<1>5. \A r \in Sockets : r # s => sockets'[r].player = sockets[r].player
  OBVIOUS
<1>6. \A r \in Sockets : IsOpen(r)' /\ sockets'[r].player = p => r = s
  BY DEF IsOpen
<1>7. Issuance'
  BY <1>1, <1>2, <1>3, IssuanceKept
<1>8. OneSessionEach'
  BY <1>2 DEF OneSessionEach
<1>9. OneSocketEach'
  <2>1. ASSUME NEW q \in Sockets, NEW r \in Sockets, IsOpen(q)', IsOpen(r)', HasSession(q)',
               sockets'[q].player = sockets'[r].player
        PROVE  q = r
    <3>1. CASE sockets'[q].player = p
      BY <1>6, <2>1, <3>1
    <3>2. CASE sockets'[q].player # p
      <4>1. sockets'[q] = sockets[q] /\ sockets'[r] = sockets[r]
        BY <1>4, <2>1, <3>2
      <4> QED
        BY <1>2, <2>1, <4>1 DEF OneSocketEach, IsOpen, HasSession
    <3> QED
      BY <3>1, <3>2
  <2>2. ASSUME NEW r \in Sockets, sockets'[r].status = "new"
        PROVE  ~HasSession(r)'
    <3>1. r # s /\ sockets'[r] = sockets[r]
      BY <2>2 DEF IsOpen
    <3> QED
      BY <1>2, <2>2, <3>1 DEF OneSocketEach, HasSession
  <2> QED
    BY <2>1, <2>2 DEF OneSocketEach
<1>10. /\ up => managed
       /\ ~managed => UNCHANGED <<managed, playerIds, reconnecting, emptying>>
       /\ managed => /\ managed' /\ playerIds' = playerIds \cup {p}
                     /\ \A q \in PlayerIds : q # p => reconnecting'[q] = reconnecting[q]
                     /\ reconnecting'[p] = Manager!Cancel(reconnecting[p])
                     /\ emptying' = Manager!Cancel(emptying)
  <2>1. reconnecting \in [PlayerIds -> Manager!Timers]
    BY DEF ManagerSound, Manager!ManagerTypeOK
  <2>2. up => managed
    BY <1>1, <1>2 DEF TimersNeat
  <2>3. ~managed => UNCHANGED <<managed, playerIds, reconnecting, emptying>>
    BY DEF Manager!AddPlayer, Manager!managerVars
  <2>4. managed => /\ managed' /\ playerIds' = playerIds \cup {p}
                   /\ \A q \in PlayerIds : q # p => reconnecting'[q] = reconnecting[q]
                   /\ reconnecting'[p] = Manager!Cancel(reconnecting[p])
                   /\ emptying' = Manager!Cancel(emptying)
    BY <1>1, <2>1 DEF Manager!AddPlayer
  <2> QED
    BY <2>2, <2>3, <2>4
<1>11. up => /\ managed' /\ playerIds' = playerIds \cup {p}
             /\ \A q \in PlayerIds : q # p => reconnecting'[q] = reconnecting[q]
             /\ reconnecting'[p] = Manager!NoTimer /\ emptying' = Manager!NoTimer
  <2>1. up => Neat(reconnecting[p]) /\ Neat(emptying)
    BY <1>1, <1>2 DEF TimersNeat
  <2> QED
    BY <1>10, <2>1, NeatCancel
<1>12. TimersNeat(up)'
  <2>1. CASE up
    <3>1. Neat(Manager!NoTimer) /\ Manager!NoTimer # OneTimer
      BY DEF Neat, OneTimer, Manager!NoTimer
    <3>2. \A q \in PlayerIds :
            Neat(reconnecting'[q]) /\ (reconnecting'[q] = OneTimer => q \in playerIds')
      BY <1>2, <1>11, <2>1, <3>1 DEF TimersNeat
    <3> QED
      BY <1>2, <1>3, <1>11, <2>1, <3>1, <3>2 DEF TimersNeat
  <2>2. CASE ~up
    BY <1>2, <1>10, <2>2 DEF TimersNeat
  <2> QED
    BY <2>1, <2>2
<1>13. SeatedKept(up)'
  <2> SUFFICES ASSUME up, NEW r \in Sockets, IsOpen(r)', HasSession(r)'
               PROVE  /\ managed' /\ sockets'[r].player \in playerIds'
                      /\ reconnecting'[sockets'[r].player] = Manager!NoTimer
                      /\ emptying' = Manager!NoTimer
    BY DEF SeatedKept
  <2>1. CASE sockets'[r].player = p
    BY <1>11, <2>1
  <2>2. CASE sockets'[r].player # p
    <3>1. sockets'[r] = sockets[r]
      BY <1>4, <2>2
    <3>2. IsOpen(r) /\ HasSession(r)
      BY <3>1 DEF IsOpen, HasSession
    <3>3. sockets[r].player \in PlayersOn(room)
      BY <1>2, <3>2 DEF SeatedOnRecord
    <3>4. sockets[r].player \in PlayerIds
      BY <3>3, PlayersOf DEF CopyOK, PlayersOn
    <3> QED
      BY <1>2, <1>11, <2>2, <3>1, <3>2, <3>4 DEF SeatedKept
  <2> QED
    BY <2>1, <2>2
<1>14. SeatedOnRecord'
  <2> SUFFICES ASSUME NEW r \in Sockets, IsOpen(r)', HasSession(r)',
                      NEW q, q = sockets'[r].player
               PROVE  /\ q \in PlayersOn(room)
                      /\ \/ sessions[sockets'[r].session] = q /\ sockets'[r].session \notin expiring
                         \/ Returns(q)'
    BY DEF SeatedOnRecord, Returns, SomeReturning
  <2>1. CASE sockets'[r].player = p
    BY <1>6, <2>1
  <2>2. CASE sockets'[r].player # p
    <3>1. sockets'[r] = sockets[r]
      BY <1>4, <2>2
    <3>2. IsOpen(r) /\ HasSession(r)
      BY <3>1 DEF IsOpen, HasSession
    <3> QED
      BY <1>2, <2>2, <3>1, <3>2, MovesOn DEF SeatedOnRecord
  <2> QED
    BY <2>1, <2>2
<1>15. AbsentTimed(up)'
  <2> SUFFICES ASSUME up, NEW q \in PlayersIn(room), Seats(q)' = {}
               PROVE  \/ q \in playerIds' /\ q \notin PlayersOn(room) /\ reconnecting'[q] = OneTimer
                      \/ q \notin playerIds' /\ q \in OwnersIn(room)
                      \/ OnTheMove(q)'
    BY DEF AbsentTimed
  <2>1. q # p
    <3>1. s \in Seats(p)'
      BY DEF Seats, IsOpen
    <3> QED
      BY <3>1
  <2>2. Seats(q) = {}
    <3>1. ASSUME NEW r \in Seats(q)
          PROVE  r \in Seats(q)'
      <4>1. r # s /\ sockets'[r] = sockets[r]
        BY <1>1, <2>1, NamesAssumption DEF Seats, HasSession
      <4> QED
        BY <4>1 DEF Seats
    <3> QED
      BY <3>1
  <2> QED
    BY <1>1, <1>2, <1>11, <2>1, <2>2, MovesOn DEF AbsentTimed
<1> QED
  BY <1>7, <1>8, <1>9, <1>12, <1>13, <1>14, <1>15 DEF SeatsAgree

(***************************************************************************)
(* What a handler in flight needs to be left alone.                        *)
(***************************************************************************)
RecordUntouched(f) ==
  /\ room = NoRoom => room' = NoRoom
  /\ f.who # NoPlayer /\ f.pc # "expiredLoad" =>
       /\ f.who \in PlayersIn(room') <=> f.who \in PlayersIn(room)
       /\ f.who \in PlayersOn(room') <=> f.who \in PlayersOn(room)

SessionsUntouched(f) ==
  f.who # NoPlayer /\ f.session \in SessionIds =>
    /\ sessions'[f.session] = sessions[f.session]
    /\ f.session \in expiring' => f.session \in expiring
    /\ \A t \in SessionIds : sessions'[t] = f.who => sessions[t] = f.who

SocketsUntouched(f) ==
  /\ f.socket \in Sockets => sockets'[f.socket] = sockets[f.socket]
  /\ f.who # NoPlayer => \A s \in Sockets :
       /\ sockets[s].player = f.who \/ sockets'[s].player = f.who =>
            sockets'[s].player = sockets[s].player /\ sockets'[s].status = sockets[s].status
       /\ sockets'[s].session = f.session /\ f.session \in SessionIds =>
            sockets[s].session = f.session

ManagerUntouched(up, f) ==
  up /\ f.who \in PlayerIds =>
    /\ f.who \in playerIds => f.who \in playerIds'
    /\ reconnecting'[f.who] = reconnecting[f.who]

Untouched(up, f) ==
  RecordUntouched(f) /\ SessionsUntouched(f) /\ SocketsUntouched(f) /\ ManagerUntouched(up, f)

LEMMA UnderwayKept ==
  ASSUME NEW up \in BOOLEAN, NEW f \in SoundHandlers, Underway(up, f), Untouched(up, f),
         issued \subseteq issued'
  PROVE  Underway(up, f)'
<1>1. /\ f \in LifeHandler /\ f.who \in PlayerIds \cup {NoPlayer}
      /\ f.pc \notin {"reconnectSession", "leaveSession", "joinLoad"} => f.who \in PlayerIds
      /\ f.who # NoPlayer /\ f.pc # "expiredLoad" => f.session \in SessionIds
      /\ NoPlayer \notin PlayerIds
  BY NamesAssumption DEF SoundHandlers, LifeHandler
<1>2. RoomIsGone(f)'
  BY DEF Underway, RoomIsGone, Untouched, RecordUntouched
<1>3. SessionIsOwn(f)'
  BY <1>1 DEF Underway, SessionIsOwn, Untouched, SessionsUntouched
<1>4. SocketWaits(f)'
  BY DEF Underway, SocketWaits, Untouched, SocketsUntouched, IsOpen, HasSession
<1>5. f.who # NoPlayer => Seats(f.who)' = Seats(f.who)
  BY DEF Untouched, SocketsUntouched, Seats
<1>6. PlayerIsNew(f)'
  <2>1. f.pc \in NewPlayerPcs => f.who \in PlayerIds /\ f.pc # "expiredLoad"
    BY <1>1 DEF NewPlayerPcs
  <2>2. f.pc \in NewPlayerPcs =>
          f.who \in PlayersOn(room)' /\ \A s \in Sockets : sockets'[s].player # f.who
    BY <1>1, <2>1 DEF Underway, PlayerIsNew, Untouched, RecordUntouched, SocketsUntouched
  <2>3. /\ f.pc \in {"createSaved", "joinSaved"} =>
             /\ sessions'[f.session] = NoPlayer /\ f.session \notin expiring'
             /\ \A t \in SessionIds : sessions'[t] # f.who
        /\ f.pc \in {"createSessionSaved", "joinSessionSaved"} =>
             sessions'[f.session] = f.who /\ f.session \notin expiring'
    BY <1>1, <2>1 DEF Underway, PlayerIsNew, Untouched, SessionsUntouched, NewPlayerPcs
  <2> QED
    BY <2>2, <2>3 DEF PlayerIsNew
<1>7. PlayerIsBack(f)'
  <2>1. f.pc \in ReturnPcs /\ f.who # NoPlayer =>
          \A t \in SessionIds : sessions'[t] = f.who => t = f.session
    BY <1>1 DEF Underway, PlayerIsBack, Untouched, SessionsUntouched, ReturnPcs
  <2>2. f.pc \in {"reconnectSaved", "sessionReplaced", "socketsFetched"} =>
          f.who \in PlayersOn(room)'
    BY <1>1 DEF Underway, PlayerIsBack, Untouched, RecordUntouched
  <2>3. f.pc \in {"sessionReplaced", "socketsFetched"} =>
          /\ sessions'[f.session] = f.who /\ f.session \notin expiring'
          /\ \A s \in Sockets : sockets'[s].session # f.session
    BY <1>1 DEF Underway, PlayerIsBack, Untouched, SessionsUntouched, SocketsUntouched
  <2>4. f.pc = "socketsFetched" => f.others = Seats(f.who)'
    BY <1>1, <1>5 DEF Underway, PlayerIsBack
  <2> QED
    BY <2>1, <2>2, <2>3, <2>4 DEF PlayerIsBack
<1>8. PlayerIsGone(up, f)'
  <2>1. f.pc \in LeavingPcs => f.pc # "expiredLoad"
    BY DEF LeavingPcs
  <2>2. f.pc \in LeavingPcs /\ f.who # NoPlayer =>
          /\ f.pc \in {"leaveSession", "leaveLoad"} => f.who \in PlayersOn(room)'
          /\ f.pc \in {"leaveSaved", "leaveExpires"} => f.who \in PlayersIn(room)' \ PlayersOn(room)'
    BY <1>1, <2>1 DEF Underway, PlayerIsGone, Untouched, RecordUntouched
  <2>3. f.pc \in LeavingPcs /\ f.who # NoPlayer =>
          (up => f.who \in playerIds' /\ reconnecting'[f.who] = Manager!NoTimer)
    BY <1>1 DEF Underway, PlayerIsGone, Untouched, ManagerUntouched
  <2>4. f.pc = "expiredLoad" => f.who # NoPlayer
    BY <1>1
  <2> QED
    BY <1>5, <2>2, <2>3, <2>4 DEF Underway, PlayerIsGone
<1> QED
  BY <1>2, <1>3, <1>4, <1>6, <1>7, <1>8 DEF Underway

LEMMA InFlightSound ==
  ASSUME NEW G, CopiesSound(G), Apart(G)
  PROVE  /\ \A f \in LifeInFlight : f \in SoundHandlers /\ f \in LifeHandler /\ CopyOK(f.st)
         /\ queue \in Seq(G \cup SoundHandlers) /\ ready \in Seq(G \cup SoundHandlers)
<1>1. queue \in Seq(G \cup SoundHandlers) /\ ready \in Seq(G \cup SoundHandlers)
  BY DEF CopiesSound
<1>2. ToSet(queue) \cup ToSet(ready) \subseteq G \cup SoundHandlers
  BY <1>1, ToSetOf
<1> QED
  BY <1>1, <1>2 DEF LifeInFlight, Apart, SoundHandlers

(* A step of the handler h that leaves the others alone.                   *)
LEMMA AgreeAgain ==
  ASSUME NEW G, CopiesSound(G), Apart(G), NEW up \in BOOLEAN, AllAgree(up),
         NEW h, NEW New, Replaces(h, New), SeatsAgree(up)', issued \subseteq issued',
         \A f \in LifeInFlight : Separate(f, h) => Untouched(up, f),
         \A g \in New : Underway(up, g)'
  PROVE  AllAgree(up)'
<1>1. ASSUME NEW f \in LifeInFlight'
      PROVE  Underway(up, f)'
  <2>1. CASE f \in New
    BY <2>1
  <2>2. CASE f \in LifeInFlight /\ Separate(f, h)
    BY <2>2, UnderwayKept, InFlightSound DEF AllAgree
  <2> QED
    BY <2>1, <2>2 DEF Replaces
<1> QED
  BY <1>1 DEF AllAgree, Replaces

LEMMA HandlerResumes ==
  ASSUME NEW G, CopiesSound(G), Apart(G), NEW up \in BOOLEAN, AllAgree(up),
         NEW i, NEW pc \in LifePcs, Resumes(i, pc)
  PROVE  /\ i \in DOMAIN ready /\ ready[i].pc = pc
         /\ ready[i] \in SoundHandlers /\ ready[i] \in LifeHandler /\ CopyOK(ready[i].st)
         /\ ready[i] \in LifeInFlight /\ Underway(up, ready[i])
         /\ OneEach /\ SeatsAgree(up)
<1>1. i \in DOMAIN ready /\ ready[i].pc = pc
  BY DEF Resumes
<1>2. ready[i] \in LifeInFlight
  BY <1>1, ResumedInFlight
<1> QED
  BY <1>1, <1>2, InFlightSound DEF AllAgree

(* What is not touched, by the variables a step leaves alone.              *)
LEMMA NothingTouched ==
  ASSUME NEW up \in BOOLEAN, NEW f
  PROVE  /\ UNCHANGED room => RecordUntouched(f)
         /\ UNCHANGED <<sessions, expiring>> => SessionsUntouched(f)
         /\ UNCHANGED sockets => SocketsUntouched(f)
         /\ UNCHANGED <<playerIds, reconnecting>> => ManagerUntouched(up, f)
<1>1. UNCHANGED room => RecordUntouched(f)
  BY DEF RecordUntouched
<1>2. UNCHANGED <<sessions, expiring>> => SessionsUntouched(f)
  BY DEF SessionsUntouched
<1>3. UNCHANGED sockets => SocketsUntouched(f)
  BY DEF SocketsUntouched
<1>4. UNCHANGED <<playerIds, reconnecting>> => ManagerUntouched(up, f)
  BY DEF ManagerUntouched
<1> QED
  BY <1>1, <1>2, <1>3, <1>4

(* The record changes for one player, whom no other handler acts for.      *)
LEMMA OthersUntouched ==
  ASSUME NEW up \in BOOLEAN, NEW p, room = NoRoom => room' = NoRoom,
         \A q : q # p => /\ q \in PlayersIn(room') <=> q \in PlayersIn(room)
                         /\ q \in PlayersOn(room') <=> q \in PlayersOn(room),
         UNCHANGED <<sessions, expiring, sockets, managerVars>>,
         NEW f, f.who # p
  PROVE  Untouched(up, f)
<1>1. RecordUntouched(f)
  BY DEF RecordUntouched
<1>2. UNCHANGED <<playerIds, reconnecting>>
  BY DEF managerVars
<1> QED
  BY <1>1, <1>2, NothingTouched DEF Untouched

(* Who acts for a player acts for nobody else's.                           *)
LEMMA OtherPlayer ==
  ASSUME NEW f \in LifeInFlight, NEW h, h.pc \in LifePcs, Separate(f, h), h.who # NoPlayer
  PROVE  /\ f.who # h.who
         /\ f.who # NoPlayer /\ f.session = h.session => f.session = NoSession
  BY DEF Separate, LifeInFlight

(***************************************************************************)
(* A socket opens.                                                         *)
(***************************************************************************)
LEMMA IdleNeverMoves ==
  ASSUME NEW p
  PROVE  ~Moving(Idle, p) /\ ~Returning(Idle, p)
  BY IdleIsNobody DEF Moving, Returning, MovingPcs, LeavingPcs

LEMMA OpensUp ==
  ASSUME NEW G, LifeSound(G), NEW up \in BOOLEAN, SeatsAgree(up),
         NEW s \in Sockets, OpenSocket(s), NEW New, Replaces(Idle, New),
         UNCHANGED <<room, sessions, expiring, issued, managerVars>>
  PROVE  /\ SeatsAgree(up)' /\ IsOpen(s)' /\ ~HasSession(s)'
         /\ \A f : f.socket # s => Untouched(up, f)
<1>1. sockets \in [Sockets -> Socket] /\ CopyOK(room)
  BY DEF LifeSound, CopiesSound, SocketsSound
<1>2. ~HasSession(s)
  BY DEF SeatsAgree, OneSocketEach, OpenSocket
<1>3. sockets' = [sockets EXCEPT ![s] = [sockets[s] EXCEPT !.status = "open"]]
  BY <1>1 DEF OpenSocket, Socket
<1>4. /\ sockets'[s].status = "open" /\ sockets'[s].player = sockets[s].player
      /\ sockets'[s].session = sockets[s].session
      /\ \A r \in Sockets \ {s} : sockets'[r] = sockets[r]
  BY <1>1, <1>3 DEF Socket
<1>5. \A r \in Sockets :
        /\ sockets'[r].player = sockets[r].player
        /\ sockets'[r].session = sockets[r].session
        /\ HasSession(r) => sockets'[r].status = sockets[r].status
        /\ sockets'[r].status = "new" => sockets[r].status = "new"
  BY <1>2, <1>4
<1>6. SeatsAgree(up)'
  BY <1>1, <1>5, IdleNeverMoves, SocketsMove
<1>7. ASSUME NEW f, f.socket # s
      PROVE  Untouched(up, f)
  <2>1. SocketsUntouched(f)
    <3>1. \A r \in Sockets : f.who # NoPlayer /\ sockets[r].player = f.who => HasSession(r)
      BY DEF HasSession
    <3> QED
      BY <1>4, <1>5, <1>7, <3>1 DEF SocketsUntouched
  <2>2. UNCHANGED <<playerIds, reconnecting>>
    BY DEF managerVars
  <2> QED
    BY <2>1, <2>2, NothingTouched DEF Untouched
<1> QED
  BY <1>2, <1>4, <1>6, <1>7 DEF IsOpen, HasSession

(* A socket that has just been opened is not being served yet.             *)
LEMMA NobodyServes ==
  ASSUME NEW up \in BOOLEAN, AllAgree(up), NEW s \in Sockets, OpenSocket(s)
  PROVE  \A f \in LifeInFlight : f.socket # s
  BY NamesAssumption DEF AllAgree, Underway, SocketWaits, IsOpen, OpenSocket

LEMMA JoinAgrees ==
  ASSUME NEW G, LifeSound(G), Apart(G), NEW up \in BOOLEAN, AllAgree(up),
         NEW s \in Sockets, NEW name \in Names, Join(s, name)
  PROVE  AllAgree(up)'
<1>1. OpenSocket(s) /\ \A f \in LifeInFlight : f.socket # s
  BY NobodyServes DEF Join, OpenSocket
<1>2. PICK g : g = [NewHandler("joinLoad") EXCEPT !.st = room, !.socket = s, !.name = name]
  OBVIOUS
<1>3. g.pc = "joinLoad" /\ g.socket = s /\ g.who = NoPlayer
  BY <1>2 DEF NewHandler
<1>4. Begin(g) /\ CopiesSound(G)
  BY <1>2 DEF Join, LifeSound
<1>5. UNCHANGED <<room, sessions, expiring, issued, managerVars>>
  BY DEF Join
<1>6. Replaces(Idle, {g})
  <2>1. \A f \in LifeInFlight : Separate(f, g)
    BY <1>1, <1>3 DEF Separate
  <2> QED
    BY <1>4, <2>1, InFlightSound, HandlerBegins DEF AllAgree
<1>7. SeatsAgree(up)' /\ IsOpen(s)' /\ ~HasSession(s)' /\ \A f : f.socket # s => Untouched(up, f)
  BY <1>1, <1>5, <1>6, OpensUp DEF AllAgree
<1>8. RoomIsGone(g)' /\ SessionIsOwn(g)' /\ SocketWaits(g)'
  BY <1>3, <1>7 DEF RoomIsGone, SessionIsOwn, SocketWaits, WaysIn, LifePcs
<1>9. PlayerIsNew(g)' /\ PlayerIsBack(g)' /\ PlayerIsGone(up, g)'
  BY <1>3 DEF PlayerIsNew, PlayerIsBack, PlayerIsGone, NewPlayerPcs, LeavingPcs, ReturnPcs
<1> QED
  BY <1>1, <1>4, <1>5, <1>6, <1>7, <1>8, <1>9, AgreeAgain DEF Underway

(* A session in use is used by the handler of its player alone.            *)
LEMMA SessionInUse ==
  ASSUME NEW up \in BOOLEAN, NEW f, f \in SoundHandlers, Underway(up, f), f.who # NoPlayer,
         NEW t \in SessionIds, f.session = t
  PROVE  sessions[t] \in {f.who, NoPlayer}
  BY NamesAssumption DEF Underway, SessionIsOwn

(* A handler that takes up a player whom nobody acts for.                  *)
LEMMA TakenUp ==
  ASSUME NEW G, CopiesSound(G), Apart(G), NEW up \in BOOLEAN, AllAgree(up),
         NEW g, g.pc \in LifePcs, ~ActedFor(g.who),
         \A f \in LifeInFlight : f.socket = g.socket => f.socket = NoSocket,
         g.who # NoPlayer => \/ g.session = NoSession
                             \/ g.session \in SessionIds /\ sessions[g.session] = g.who
  PROVE  \A f \in LifeInFlight : Separate(f, g)
<1> SUFFICES ASSUME NEW f \in LifeInFlight
             PROVE  Separate(f, g)
  OBVIOUS
<1>1. f \in SoundHandlers /\ Underway(up, f) /\ f.pc \in LifePcs
  BY InFlightSound DEF AllAgree, LifeInFlight
<1>2. f.who = g.who => f.who = NoPlayer
  BY DEF ActedFor
<1>3. f.session = g.session /\ f.who # NoPlayer /\ g.who # NoPlayer => f.session = NoSession
  BY <1>1, <1>2, SessionInUse
<1> QED
  BY <1>2, <1>3 DEF Separate

LEMMA RejoinAgrees ==
  ASSUME NEW G, LifeSound(G), Apart(G), NEW up \in BOOLEAN, AllAgree(up),
         NEW s \in Sockets, NEW name \in Names, Rejoin(s, name), ~crossed'
  PROVE  AllAgree(up)'
<1> DEFINE t == tokens[name]
<1>1. OpenSocket(s) /\ t \in SessionIds /\ \A f \in LifeInFlight : f.socket # s
  BY NobodyServes DEF Rejoin, OpenSocket, LifeSound, SocketsSound
<1>2. PICK g : g = [NewHandler("reconnectSession") EXCEPT !.who = sessions[t], !.socket = s,
                                                          !.name = name, !.session = t]
  OBVIOUS
<1>3. /\ g.pc = "reconnectSession" /\ g.socket = s /\ g.who = sessions[t] /\ g.session = t
  BY <1>2 DEF NewHandler
<1>4. Begin(g) /\ CopiesSound(G)
  BY <1>2 DEF Rejoin, LifeSound
<1>5. UNCHANGED <<room, sessions, expiring, issued, managerVars>>
  BY DEF Rejoin
<1>6. Replaces(Idle, {g})
  <2>1. ~ActedFor(g.who)
    BY <1>3 DEF Rejoin, Crosses
  <2>2. \A f \in LifeInFlight : Separate(f, g)
    BY <1>1, <1>3, <1>4, <2>1, TakenUp DEF LifePcs
  <2> QED
    BY <1>4, <2>2, InFlightSound, HandlerBegins DEF AllAgree
<1>7. SeatsAgree(up)' /\ IsOpen(s)' /\ ~HasSession(s)' /\ \A f : f.socket # s => Untouched(up, f)
  BY <1>1, <1>5, <1>6, OpensUp DEF AllAgree
<1>8. Issuance /\ OneSessionEach /\ g.who \in PlayerIds \cup {NoPlayer}
  BY <1>1, <1>3 DEF AllAgree, SeatsAgree, LifeSound, SocketsSound
<1>9. g.who # NoPlayer => /\ g.who \in issued /\ t \in issued
                          /\ \A u \in SessionIds : sessions[u] = g.who => u = t
  BY <1>1, <1>3, <1>8 DEF Issuance, OneSessionEach
<1> HIDE DEF t
<1>10. RoomIsGone(g)' /\ SessionIsOwn(g)' /\ SocketWaits(g)'
  BY <1>3, <1>5, <1>7, <1>9 DEF RoomIsGone, SessionIsOwn, SocketWaits, WaysIn, LifePcs
<1>11. PlayerIsNew(g)' /\ PlayerIsBack(g)' /\ PlayerIsGone(up, g)'
  BY <1>3, <1>5, <1>9 DEF PlayerIsNew, PlayerIsBack, PlayerIsGone, NewPlayerPcs, LeavingPcs, ReturnPcs
<1> QED
  BY <1>1, <1>4, <1>5, <1>6, <1>7, <1>10, <1>11, AgreeAgain DEF Underway

(***************************************************************************)
(* A room is created, and its owner takes the seat.                        *)
(***************************************************************************)
LEMMA NewSession ==
  ASSUME NEW G, LifeSound(G), Apart(G), NEW up \in BOOLEAN, AllAgree(up), NEW i, NEW pc,
         \/ Resumes(i, "createSaved") /\ pc = "createSessionSaved"
         \/ Resumes(i, "joinSaved") /\ pc = "joinSessionSaved",
         SaveSession(i, pc)
  PROVE  AllAgree(up)'
<1>1. CopiesSound(G) /\ SocketsSound /\ CopyOK(room)
  BY DEF LifeSound, CopiesSound
<1>2. PICK h : h = ready[i]
  OBVIOUS
<1>3. /\ i \in DOMAIN ready /\ h \in SoundHandlers /\ h \in LifeHandler
      /\ h.pc \in {"createSaved", "joinSaved"} /\ h.pc \in LifePcs
      /\ pc = IF h.pc = "createSaved" THEN "createSessionSaved" ELSE "joinSessionSaved"
      /\ Underway(up, h) /\ OneEach /\ SeatsAgree(up)
  BY <1>1, <1>2, HandlerResumes DEF LifePcs
<1>4. PICK g : g = [h EXCEPT !.pc = pc]
  OBVIOUS
<1>5. /\ g.pc = pc /\ g.st = h.st /\ g.who = h.who /\ g.socket = h.socket
      /\ g.session = h.session
  BY <1>3, <1>4 DEF LifeHandler
<1>6. /\ Await(i, g) /\ sessions' = [sessions EXCEPT ![h.session] = h.who]
      /\ UNCHANGED <<room, expiring, issued, sockets, managerVars>>
  BY <1>2, <1>4 DEF SaveSession
<1>7. /\ h.who \in PlayersOn(room) /\ \A s \in Sockets : sockets[s].player # h.who
      /\ sessions[h.session] = NoPlayer /\ h.session \notin expiring
      /\ \A t \in SessionIds : sessions[t] # h.who
  BY <1>3 DEF Underway, PlayerIsNew, NewPlayerPcs
<1>8. h.who \in PlayerIds /\ h.who # NoPlayer /\ h.session \in SessionIds
  BY <1>3, NamesAssumption DEF SoundHandlers
<1>9. h.who \in issued /\ h.session \in issued
  BY <1>3, <1>8 DEF Underway, SessionIsOwn
<1>10. /\ sessions'[h.session] = h.who
       /\ \A t \in SessionIds \ {h.session} : sessions'[t] = sessions[t]
  BY <1>1, <1>6, <1>8 DEF SocketsSound
<1>11. Replaces(h, {g})
  <2>1. \A f \in LifeInFlight : Separate(f, h) => Separate(f, g)
    BY <1>3, <1>5 DEF Separate
  <2> QED
    BY <1>1, <1>2, <1>3, <1>6, <2>1, InFlightSound, HandlerAwaits
<1>12. SeatsAgree(up)'
  <2>1. Issuance /\ OneSessionEach /\ SeatedOnRecord
    BY <1>3 DEF SeatsAgree
  <2>2. Issuance'
    BY <1>6, <1>9, <1>10, <2>1, IssuanceKept
  <2>3. OneSessionEach'
    BY <1>7, <1>10, <2>1 DEF OneSessionEach
  <2>4. \A p : ~Returning(h, p) /\ (Moving(h, p) => SomeMoving({g}, p))
    BY <1>3, <1>5 DEF Returning, Moving, SomeMoving, MovingPcs, LeavingPcs
  <2>5. ASSUME NEW s \in Sockets, IsOpen(s), HasSession(s), ~Returns(sockets[s].player)
        PROVE  sessions'[sockets[s].session] = sessions[sockets[s].session]
    <3>1. /\ sessions[sockets[s].session] = sockets[s].player
          /\ sockets[s].player # NoPlayer /\ sockets[s].session \in SessionIds
      BY <1>1, <2>1, <2>5 DEF SeatedOnRecord, HasSession, SocketsSound
    <3> QED
      BY <1>7, <1>10, <3>1
  <2> QED
    BY <1>3, <1>6, <1>11, <2>1, <2>2, <2>3, <2>4, <2>5, SessionsMove
<1>13. ASSUME NEW f \in LifeInFlight, Separate(f, h)
       PROVE  Untouched(up, f)
  <2>1. f.who # h.who /\ (f.who # NoPlayer /\ f.session = h.session => f.session = NoSession)
    BY <1>3, <1>8, <1>13, OtherPlayer
  <2>2. SessionsUntouched(f)
    BY <1>6, <1>10, <2>1, NamesAssumption DEF SessionsUntouched
  <2> QED
    BY <1>6, <2>2, NothingTouched DEF Untouched, managerVars
<1>14. RoomIsGone(g)' /\ SessionIsOwn(g)' /\ SocketWaits(g)'
  <2>1. SocketWaits(g)'
    BY <1>3, <1>5, <1>6 DEF Underway, SocketWaits, WaysIn, LifePcs, IsOpen, HasSession
  <2>2. RoomIsGone(g)' /\ SessionIsOwn(g)'
    BY <1>3, <1>5, <1>6, <1>9, <1>10 DEF RoomIsGone, SessionIsOwn
  <2> QED
    BY <2>1, <2>2
<1>15. PlayerIsNew(g)'
  BY <1>3, <1>5, <1>6, <1>7, <1>10 DEF PlayerIsNew
<1>16. PlayerIsBack(g)' /\ PlayerIsGone(up, g)'
  BY <1>3, <1>5 DEF PlayerIsBack, PlayerIsGone, LeavingPcs, ReturnPcs
<1> QED
  BY <1>1, <1>6, <1>11, <1>12, <1>13, <1>14, <1>15, <1>16, AgreeAgain DEF Underway

LEMMA OthersInManager ==
  ASSUME NEW up \in BOOLEAN, ManagerSound, NEW p \in PlayerIds, Manager!AddPlayer(p),
         NEW f, f.who # p
  PROVE  ManagerUntouched(up, f)
<1>1. reconnecting \in [PlayerIds -> Manager!Timers]
  BY DEF ManagerSound, Manager!ManagerTypeOK
<1> QED
  BY <1>1 DEF ManagerUntouched, Manager!AddPlayer, Manager!managerVars

LEMMA AttachAgrees ==
  ASSUME NEW G, LifeSound(G), Apart(G), NEW up \in BOOLEAN, AllAgree(up),
         NEW i, Resumes(i, "createSessionSaved") \/ Resumes(i, "joinSessionSaved"),
         ready[i].socket # NoSocket,
         Attach(ready[i].socket, ready[i].name, ready[i].who, ready[i].session),
         Finish(i), UNCHANGED <<sessions, expiring, issued>>
  PROVE  AllAgree(up)'
<1>0. PICK h : h = ready[i]
  OBVIOUS
<1> DEFINE s == h.socket
<1>1. CopiesSound(G) /\ SocketsSound /\ ManagerSound /\ CopyOK(room)
  BY DEF LifeSound, CopiesSound
<1>2. /\ i \in DOMAIN ready /\ h \in SoundHandlers /\ h \in LifeHandler
      /\ h.pc \in {"createSessionSaved", "joinSessionSaved"} /\ h.pc \in LifePcs
      /\ Underway(up, h) /\ OneEach /\ SeatsAgree(up)
  BY <1>0, <1>1, HandlerResumes DEF LifePcs
<1>3. /\ h.who \in PlayersOn(room) /\ \A r \in Sockets : sockets[r].player # h.who
      /\ sessions[h.session] = h.who /\ h.session \notin expiring
  BY <1>2 DEF Underway, PlayerIsNew, NewPlayerPcs
<1>4. s \in Sockets /\ IsOpen(s) /\ ~HasSession(s)
  BY <1>0, <1>2 DEF Underway, SocketWaits, WaysIn, LifePcs
<1>5. h.who \in PlayerIds /\ h.who # NoPlayer /\ h.session \in SessionIds
  BY <1>2, NamesAssumption DEF SoundHandlers
<1>6. /\ sockets' = [sockets EXCEPT ![s] = [sockets[s] EXCEPT !.player = h.who, !.session = h.session]]
      /\ Manager!AddPlayer(h.who)
  BY <1>0, <1>1, <1>4 DEF Attach, SocketsSound, Socket
<1>7. /\ sockets'[s].status = sockets[s].status
      /\ sockets'[s].player = h.who /\ sockets'[s].session = h.session
      /\ \A r \in Sockets \ {s} : sockets'[r] = sockets[r]
  BY <1>1, <1>4, <1>6 DEF SocketsSound, Socket
<1>8. \A q : q # h.who => ~Moving(h, q) /\ ~Returning(h, q)
  BY DEF Moving, Returning
<1>9. UNCHANGED <<room, sessions, expiring, issued>> /\ IsOpen(s)'
  BY <1>4, <1>7 DEF Finish, IsOpen
<1>10. Replaces(h, {})
  BY <1>0, <1>1, <1>2, InFlightSound, HandlerEnds DEF Finish
<1>11. ASSUME NEW f \in LifeInFlight, Separate(f, h)
       PROVE  Untouched(up, f)
  <2>1. f.who # h.who /\ (f.who # NoPlayer /\ f.session = h.session => f.session = NoSession)
    BY <1>2, <1>5, <1>11, OtherPlayer
  <2>2. f.socket \in Sockets => f.socket # s
    BY <1>2, <1>11, NamesAssumption DEF Separate, LifeInFlight
  <2> HIDE DEF s
  <2>3. SocketsUntouched(f)
    BY <1>4, <1>7, <2>1, <2>2, NamesAssumption DEF SocketsUntouched, HasSession
  <2>4. ManagerUntouched(up, f)
    BY <1>1, <1>5, <1>6, <2>1, OthersInManager
  <2> QED
    BY <1>9, <2>3, <2>4, NothingTouched DEF Untouched
<1> HIDE DEF s
<1>12. SeatsAgree(up)'
  BY <1>1, <1>2, <1>3, <1>4, <1>5, <1>6, <1>7, <1>8, <1>9, <1>10, SeatTaken
<1> QED
  BY <1>1, <1>9, <1>10, <1>11, <1>12, AgreeAgain

(* Who is seated is in the record, so what concerns nobody in the record   *)
(* concerns nobody who is seated.                                          *)
LEMMA NobodyMoves ==
  ASSUME NEW h, \A p \in PlayersIn(room) : ~Moving(h, p), CopyOK(room)
  PROVE  /\ \A p \in PlayersIn(room) : ~Returning(h, p)
         /\ \A p \in PlayersOn(room) : p \in PlayersIn(room) /\ ~Returning(h, p)
<1>1. \A p : Returning(h, p) => Moving(h, p)
  BY DEF Returning, Moving, MovingPcs
<1>2. PlayersOn(room) \subseteq PlayersIn(room)
  BY PlayersOf DEF CopyOK, PlayersOn
<1> QED
  BY <1>1, <1>2

(* A handler ends that has changed nothing.                                *)
LEMMA EndsQuietly ==
  ASSUME NEW G, LifeSound(G), Apart(G), NEW up \in BOOLEAN, AllAgree(up),
         NEW i \in DOMAIN ready, ready' = RemoveAt(ready, i), queue' = queue,
         UNCHANGED <<room, sessions, expiring, issued, sockets, managerVars>>,
         \A p \in PlayersIn(room) : ~Moving(ready[i], p)
  PROVE  AllAgree(up)'
<1>1. CopiesSound(G) /\ CopyOK(room)
  BY DEF LifeSound, CopiesSound
<1>2. PICK h : h = ready[i]
  OBVIOUS
<1>3. Replaces(h, {})
  BY <1>1, <1>2, InFlightSound, HandlerEnds DEF AllAgree
<1>4. SeatsAgree(up)'
  BY <1>1, <1>2, <1>3, NobodyMoves, RecordMoves DEF AllAgree
<1>5. \A f : Untouched(up, f)
  BY NothingTouched DEF Untouched, managerVars
<1> QED
  BY <1>1, <1>3, <1>4, <1>5, AgreeAgain

LEMMA CreationStepsAgree ==
  ASSUME NEW G, LifeSound(G), Apart(G), NEW up \in BOOLEAN, AllAgree(up), NEW i,
         SaveOwnerSession(i) \/ SeatOwner(i) \/ AnswerPost(i)
  PROVE  AllAgree(up)'
<1>1. CASE SaveOwnerSession(i)
  BY <1>1, NewSession DEF SaveOwnerSession
<1>2. CASE SeatOwner(i)
  BY <1>2, AttachAgrees DEF SeatOwner
<1>3. CASE AnswerPost(i)
  <2>1. i \in DOMAIN ready /\ ready[i].pc = "createSessionSaved"
    BY <1>3 DEF AnswerPost, Resumes
  <2>2. \A p : ~Moving(ready[i], p)
    BY <2>1 DEF Moving, MovingPcs, LeavingPcs
  <2>3. /\ ready' = RemoveAt(ready, i) /\ queue' = queue
        /\ UNCHANGED <<room, sessions, expiring, issued, sockets, managerVars>>
    BY <1>3 DEF AnswerPost, Finish
  <2> QED
    BY <2>1, <2>2, <2>3, EndsQuietly
<1> QED
  BY <1>1, <1>2, <1>3

(***************************************************************************)
(* A player comes back.                                                    *)
(***************************************************************************)
(* A handler that goes on for the same player, with the same session.      *)
LEMMA SameHandler ==
  ASSUME NEW h, NEW g, h.pc \in LifePcs,
         g.who = h.who, g.socket = h.socket, g.session = h.session
  PROVE  \A f : Separate(f, h) => Separate(f, g)
  BY DEF Separate

LEMMA LoadAgrees ==
  ASSUME NEW G, LifeSound(G), Apart(G), NEW up \in BOOLEAN, AllAgree(up), NEW i,
         LookUpSession(i) \/ GiveUpReconnect(i)
  PROVE  AllAgree(up)'
<1>1. CopiesSound(G) /\ CopyOK(room)
  BY DEF LifeSound, CopiesSound
<1>0. PICK h : h = ready[i]
  OBVIOUS
<1>2. PICK pc \in {"reconnectLoad", "joinLoad"} :
        Load(i, pc) /\ (pc = "reconnectLoad" => Resumes(i, "reconnectSession"))
                    /\ (pc = "reconnectLoad" => h.who # NoPlayer)
  BY <1>0 DEF LookUpSession, GiveUpReconnect
<1>3. /\ i \in DOMAIN ready /\ h \in LifeHandler
      /\ h.pc \in {"reconnectSession", "reconnectLoad"} /\ h.pc \in LifePcs
      /\ Underway(up, h) /\ OneEach /\ SeatsAgree(up)
  BY <1>0, <1>1, HandlerResumes DEF LifePcs, LookUpSession, GiveUpReconnect
<1>4. PICK g : g = [h EXCEPT !.pc = pc, !.st = room]
  OBVIOUS
<1>5. /\ g.pc = pc /\ g.st = room /\ g.who = h.who /\ g.socket = h.socket
      /\ g.session = h.session
  BY <1>3, <1>4 DEF LifeHandler
<1>6. Await(i, g) /\ UNCHANGED <<room, sessions, expiring, issued, sockets, managerVars>>
  BY <1>0, <1>2, <1>4 DEF Load, LookUpSession, GiveUpReconnect, lifeVars
<1>7. Replaces(h, {g})
  BY <1>0, <1>1, <1>3, <1>5, <1>6, SameHandler, InFlightSound, HandlerAwaits
<1>8. SeatsAgree(up)'
  <2>1. \A p : ~Moving(h, p) /\ ~Returning(h, p)
    BY <1>3 DEF Moving, Returning, MovingPcs, LeavingPcs
  <2> QED
    BY <1>1, <1>3, <1>6, <1>7, <2>1, RecordMoves
<1>9. \A f : Untouched(up, f)
  BY <1>6, NothingTouched DEF Untouched, managerVars
<1>10. SocketWaits(g)'
  BY <1>2, <1>3, <1>5, <1>6
  DEF Underway, SocketWaits, WaysIn, LifePcs, IsOpen, HasSession
<1>11. RoomIsGone(g)' /\ SessionIsOwn(g)'
  BY <1>2, <1>3, <1>5, <1>6 DEF Underway, RoomIsGone, SessionIsOwn
<1>12. PlayerIsBack(g)'
  BY <1>2, <1>3, <1>5, <1>6 DEF Underway, PlayerIsBack, ReturnPcs
<1>13. PlayerIsNew(g)' /\ PlayerIsGone(up, g)'
  BY <1>2, <1>5 DEF PlayerIsNew, PlayerIsGone, LeavingPcs, NewPlayerPcs
<1> QED
  BY <1>1, <1>6, <1>7, <1>8, <1>9, <1>10, <1>11, <1>12, <1>13, AgreeAgain DEF Underway

LEMMA SaveReconnectedAgrees ==
  ASSUME NEW G, LifeSound(G), Apart(G), NEW up \in BOOLEAN, AllAgree(up), NEW i,
         SaveReconnected(i), ~lostUpdate'
  PROVE  AllAgree(up)'
<1>1. CopiesSound(G) /\ CopyOK(room)
  BY DEF LifeSound, CopiesSound
<1>0. PICK h : h = ready[i]
  OBVIOUS
<1>2. /\ i \in DOMAIN ready /\ h \in SoundHandlers /\ h \in LifeHandler
      /\ h.pc = "reconnectLoad" /\ h.pc \in LifePcs
      /\ Underway(up, h) /\ OneEach /\ SeatsAgree(up)
  BY <1>0, <1>1, HandlerResumes DEF LifePcs, SaveReconnected
<1>3. h.st = room
  BY <1>0 DEF SaveReconnected, SaveRoom
<1>4. /\ SoundRoom(room) /\ h.who \in PlayersIn(room) /\ room # NoRoom
      /\ h.who # NoPlayer
  BY <1>0, <1>1, <1>2, <1>3, NamesAssumption
  DEF SaveReconnected, StillSeated, CopyOK, PlayersIn, SoundHandlers
<1>5. PICK g : g = [h EXCEPT !.pc = "reconnectSaved", !.st = room']
  OBVIOUS
<1>6. /\ g.pc = "reconnectSaved" /\ g.st = room' /\ g.who = h.who /\ g.socket = h.socket
      /\ g.session = h.session
  BY <1>2, <1>5 DEF LifeHandler
<1>7. /\ Await(i, g) /\ room' = SetStatus(room, h.who, "connected")
      /\ UNCHANGED <<sessions, expiring, issued, sockets, managerVars>>
  BY <1>0, <1>3, <1>5 DEF SaveReconnected, SaveRoom, Await, lifeVars
<1>8. /\ PlayersIn(room') = PlayersIn(room) /\ OwnersIn(room') = OwnersIn(room)
      /\ PlayersOn(room') = PlayersOn(room) \cup {h.who}
  BY <1>4, <1>7, StatusSet
<1>9. Replaces(h, {g})
  BY <1>0, <1>1, <1>2, <1>6, <1>7, SameHandler, InFlightSound, HandlerAwaits
<1>10. SeatsAgree(up)'
  <2>1. /\ \A p : ~Moving(h, p) /\ ~Returning(h, p)
        /\ SomeMoving({g}, h.who)
    BY <1>2, <1>6 DEF Moving, SomeMoving, Returning, MovingPcs, LeavingPcs
  <2> QED
    BY <1>1, <1>2, <1>4, <1>7, <1>8, <1>9, <2>1, RecordMoves
<1>11. ASSUME NEW f \in LifeInFlight, Separate(f, h)
       PROVE  Untouched(up, f)
  <2>1. f.who # h.who
    BY <1>2, <1>4, <1>11, OtherPlayer
  <2> QED
    BY <1>4, <1>7, <1>8, <2>1, OthersUntouched
<1>12. SocketWaits(g)'
  BY <1>2, <1>6, <1>7 DEF Underway, SocketWaits, WaysIn, LifePcs, IsOpen, HasSession
<1>13. RoomIsGone(g)' /\ SessionIsOwn(g)'
  BY <1>2, <1>6, <1>7 DEF Underway, RoomIsGone, SessionIsOwn
<1>14. PlayerIsBack(g)'
  BY <1>2, <1>4, <1>6, <1>7, <1>8 DEF Underway, PlayerIsBack, ReturnPcs
<1>15. PlayerIsNew(g)' /\ PlayerIsGone(up, g)'
  BY <1>6 DEF PlayerIsNew, PlayerIsGone, LeavingPcs, NewPlayerPcs
<1> QED
  BY <1>1, <1>7, <1>9, <1>10, <1>11, <1>12, <1>13, <1>14, <1>15, AgreeAgain DEF Underway

LEMMA ReplaceSessionAgrees ==
  ASSUME NEW G, LifeSound(G), Apart(G), NEW up \in BOOLEAN, AllAgree(up), NEW i,
         ReplaceSession(i)
  PROVE  AllAgree(up)'
<1>1. CopiesSound(G) /\ SocketsSound /\ CopyOK(room)
  BY DEF LifeSound, CopiesSound
<1>0. PICK h : h = ready[i]
  OBVIOUS
<1>2. /\ i \in DOMAIN ready /\ h \in SoundHandlers /\ h \in LifeHandler
      /\ h.pc = "reconnectSaved" /\ h.pc \in LifePcs
      /\ Underway(up, h) /\ OneEach /\ SeatsAgree(up)
  BY <1>0, <1>1, HandlerResumes DEF LifePcs, ReplaceSession
<1>4. PICK t \in Fresh(SessionIds) :
        /\ issued' = issued \cup {t}
        /\ sessions' = [sessions EXCEPT ![t] = h.who, ![h.session] = NoPlayer]
        /\ expiring' = expiring \ {h.session}
        /\ Await(i, [h EXCEPT !.pc = "sessionReplaced", !.session = t])
  BY <1>0 DEF ReplaceSession
<1>5. PICK g : g = [h EXCEPT !.pc = "sessionReplaced", !.session = t]
  OBVIOUS
<1>6. /\ g.pc = "sessionReplaced" /\ g.st = h.st /\ g.who = h.who /\ g.socket = h.socket
      /\ g.session = t
  BY <1>2, <1>5 DEF LifeHandler
<1>7. Await(i, g) /\ UNCHANGED <<room, sockets, managerVars>>
  BY <1>4, <1>5 DEF ReplaceSession
<1>8. /\ h.who \in PlayerIds /\ h.who # NoPlayer /\ h.session \in SessionIds
      /\ t \in SessionIds /\ t \notin issued
  BY <1>2, NamesAssumption DEF SoundHandlers, Fresh
<1>9. /\ h.who \in issued /\ h.session \in issued /\ h.who \in PlayersOn(room)
      /\ sessions[h.session] \in {h.who, NoPlayer}
      /\ \A u \in SessionIds : sessions[u] = h.who => u = h.session
  BY <1>2, <1>8 DEF Underway, SessionIsOwn, PlayerIsBack, ReturnPcs
<1>10. Issuance /\ OneSessionEach /\ SeatedOnRecord
  BY <1>2 DEF SeatsAgree
<1>11. /\ t \notin expiring /\ t # h.session /\ sessions[t] = NoPlayer
       /\ \A s \in Sockets : sockets[s].session # t
  BY <1>8, <1>9, <1>10 DEF Issuance
<1>12. /\ sessions'[t] = h.who /\ sessions'[h.session] = NoPlayer
       /\ \A u \in SessionIds \ {t, h.session} : sessions'[u] = sessions[u]
  BY <1>1, <1>4, <1>8, <1>11 DEF SocketsSound
<1>3. ASSUME NEW f \in LifeInFlight
      PROVE  f \in SoundHandlers /\ f.who # NoPlayer => f.session # t
  BY <1>3, <1>8, NamesAssumption, InFlightSound, <1>1 DEF AllAgree, Underway, SessionIsOwn
<1>13. Replaces(h, {g})
  <2>1. \A f \in LifeInFlight : Separate(f, h) => Separate(f, g)
    BY <1>1, <1>2, <1>3, <1>6, InFlightSound DEF Separate
  <2> QED
    BY <1>0, <1>1, <1>2, <1>7, <2>1, InFlightSound, HandlerAwaits
<1>14. SeatsAgree(up)'
  <2>1. Issuance'
    <3>1. ASSUME NEW u \in SessionIds
          PROVE  sessions'[u] \in {sessions[u], NoPlayer} \cup issued'
      <4>1. CASE u = t
        BY <1>4, <1>9, <1>12, <4>1
      <4>2. CASE u = h.session
        BY <1>12, <4>2
      <4>3. CASE u \notin {t, h.session}
        BY <1>12, <4>3
      <4> QED
        BY <4>1, <4>2, <4>3
    <3>2. \A u \in SessionIds : u \notin issued' =>
            sessions'[u] \in {sessions[u], NoPlayer} /\ (u \in expiring' => u \in expiring)
      BY <1>4, <1>12
    <3> QED
      BY <1>4, <1>7, <1>10, <3>1, <3>2, IssuanceKept
  <2>2. OneSessionEach'
    <3>1. ASSUME NEW u \in SessionIds, NEW v \in SessionIds,
                 sessions'[u] = sessions'[v], sessions'[u] # NoPlayer
          PROVE  u = v
      <4>1. u # h.session /\ v # h.session
        BY <1>12, <3>1
      <4>2. CASE u = t \/ v = t
        BY <1>9, <1>12, <3>1, <4>1, <4>2
      <4>3. CASE u # t /\ v # t
        BY <1>10, <1>12, <3>1, <4>1, <4>3 DEF OneSessionEach
      <4> QED
        BY <4>2, <4>3
    <3> QED
      BY <3>1 DEF OneSessionEach
  <2>3. ASSUME NEW s \in Sockets, IsOpen(s), HasSession(s)
        PROVE  \/ SomeReturning({g}, sockets[s].player)
               \/ Returns(sockets[s].player) /\ ~Returning(h, sockets[s].player)
               \/ /\ ~Returning(h, sockets[s].player)
                  /\ sessions'[sockets[s].session] = sessions[sockets[s].session]
                  /\ sockets[s].session \in expiring' => sockets[s].session \in expiring
    <3>1. CASE sockets[s].player = h.who
      BY <1>6, <3>1 DEF Returning, SomeReturning
    <3>2. CASE sockets[s].player # h.who
      <4>1. ~Returning(h, sockets[s].player)
        BY <1>2 DEF Returning
      <4>2. CASE ~Returns(sockets[s].player)
        <5>1. /\ sessions[sockets[s].session] = sockets[s].player
              /\ sockets[s].player # NoPlayer /\ sockets[s].session \in SessionIds
          BY <1>1, <1>10, <2>3, <4>2 DEF SeatedOnRecord, HasSession, SocketsSound
        <5>2. sockets[s].session # t /\ sockets[s].session # h.session
          BY <1>9, <1>11, <3>2, <5>1
        <5> QED
          BY <1>4, <1>12, <4>1, <5>1, <5>2
      <4> QED
        BY <4>1, <4>2
    <3> QED
      BY <3>1, <3>2
  <2>4. \A p : Moving(h, p) => SomeMoving({g}, p)
    BY <1>6 DEF Moving, SomeMoving, MovingPcs
  <2> QED
    BY <1>2, <1>4, <1>7, <1>13, <2>1, <2>2, <2>3, <2>4, SessionsMove
<1>15. ASSUME NEW f \in LifeInFlight, Separate(f, h)
       PROVE  Untouched(up, f)
  <2>1. f.who # h.who /\ (f.who # NoPlayer /\ f.session = h.session => f.session = NoSession)
    BY <1>2, <1>8, <1>15, OtherPlayer
  <2>2. SessionsUntouched(f)
    <3> SUFFICES ASSUME f.who # NoPlayer, f.session \in SessionIds
                 PROVE  /\ sessions'[f.session] = sessions[f.session]
                        /\ f.session \in expiring' => f.session \in expiring
                        /\ \A u \in SessionIds : sessions'[u] = f.who => sessions[u] = f.who
      BY DEF SessionsUntouched
    <3>1. f.session # h.session /\ f.session # t
      BY <1>1, <1>3, <1>15, <2>1, NamesAssumption, InFlightSound
    <3> QED
      BY <1>4, <1>12, <2>1, <3>1
  <2> QED
    BY <1>7, <2>2, NothingTouched DEF Untouched, managerVars
<1>16. SocketWaits(g)'
  BY <1>2, <1>6, <1>7 DEF Underway, SocketWaits, WaysIn, LifePcs, IsOpen, HasSession
<1>17. RoomIsGone(g)' /\ SessionIsOwn(g)'
  BY <1>4, <1>6, <1>9, <1>12 DEF RoomIsGone, SessionIsOwn
<1>18. PlayerIsBack(g)'
  BY <1>4, <1>6, <1>7, <1>9, <1>11, <1>12 DEF PlayerIsBack, ReturnPcs
<1>19. PlayerIsNew(g)' /\ PlayerIsGone(up, g)'
  BY <1>6 DEF PlayerIsNew, PlayerIsGone, LeavingPcs, NewPlayerPcs
<1> QED
  BY <1>1, <1>4, <1>13, <1>14, <1>15, <1>16, <1>17, <1>18, <1>19, AgreeAgain DEF Underway

LEMMA FetchSocketsAgrees ==
  ASSUME NEW G, LifeSound(G), Apart(G), NEW up \in BOOLEAN, AllAgree(up), NEW i,
         FetchSockets(i)
  PROVE  AllAgree(up)'
<1>1. CopiesSound(G) /\ CopyOK(room)
  BY DEF LifeSound, CopiesSound
<1>0. PICK h : h = ready[i]
  OBVIOUS
<1>2. /\ i \in DOMAIN ready /\ h \in SoundHandlers /\ h \in LifeHandler
      /\ h.pc = "sessionReplaced" /\ h.pc \in LifePcs
      /\ Underway(up, h) /\ OneEach /\ SeatsAgree(up)
  BY <1>0, <1>1, HandlerResumes DEF LifePcs, FetchSockets
<1>4. PICK others : others = {s \in Sockets \ {h.socket} :
                                sockets[s].status = "open" /\ sockets[s].player = h.who}
  OBVIOUS
<1>5. PICK g : g = [h EXCEPT !.pc = "socketsFetched", !.others = others]
  OBVIOUS
<1>6. /\ g.pc = "socketsFetched" /\ g.st = h.st /\ g.who = h.who /\ g.socket = h.socket
      /\ g.session = h.session /\ g.others = others
  BY <1>2, <1>5 DEF LifeHandler
<1>7. UNCHANGED <<room, queue, sessions, expiring, issued, sockets, managerVars>>
  BY DEF FetchSockets, lifeVars
<1>8. Replaces(h, {g})
  <2>1. ready' = [ready EXCEPT ![i].pc = "socketsFetched", ![i].others = others]
    BY <1>0, <1>4 DEF FetchSockets
  <2>2. ready' = [ready EXCEPT ![i] = g]
    BY <1>0, <1>2, <1>5, <2>1
  <2> QED
    BY <1>0, <1>1, <1>2, <1>6, <1>7, <2>2, SameHandler, InFlightSound, HandlerStays
<1>9. SeatsAgree(up)'
  <2>1. /\ \A p : Moving(h, p) => SomeMoving({g}, p)
        /\ \A p : Returning(h, p) => SomeReturning({g}, p)
    BY <1>2, <1>6 DEF Moving, Returning, MovingPcs, SomeMoving, SomeReturning
  <2> QED
    BY <1>1, <1>2, <1>7, <1>8, <2>1, RecordMoves
<1>10. \A f : Untouched(up, f)
  BY <1>7, NothingTouched DEF Untouched, managerVars
<1>11. SocketWaits(g)'
  BY <1>2, <1>6, <1>7 DEF Underway, SocketWaits, WaysIn, LifePcs, IsOpen, HasSession
<1>12. RoomIsGone(g)' /\ SessionIsOwn(g)'
  BY <1>2, <1>6, <1>7 DEF Underway, RoomIsGone, SessionIsOwn
<1>13. PlayerIsBack(g)'
  <2>1. others = Seats(h.who)
    <3>1. h.who # NoPlayer /\ (h.socket \in Sockets => ~HasSession(h.socket))
      BY <1>2, NamesAssumption DEF SoundHandlers, Underway, SocketWaits, WaysIn, LifePcs
    <3> QED
      BY <1>4, <3>1 DEF Seats, HasSession
  <2>2. Seats(h.who)' = Seats(h.who)
    BY <1>7, SocketsStay
  <2> QED
    BY <1>2, <1>6, <1>7, <2>1, <2>2 DEF Underway, PlayerIsBack, ReturnPcs
<1>14. PlayerIsNew(g)' /\ PlayerIsGone(up, g)'
  BY <1>6 DEF PlayerIsNew, PlayerIsGone, LeavingPcs, NewPlayerPcs
<1> QED
  BY <1>1, <1>7, <1>8, <1>9, <1>10, <1>11, <1>12, <1>13, <1>14, AgreeAgain DEF Underway

(* The disconnect handler of the one socket it may have dropped finds that *)
(* its session is gone.                                                    *)
LEMMA OneLeaver ==
  ASSUME NEW D, NEW leavers \in SetToSeqs(D), D = {} \/ \E s : D = {s}
  PROVE  \/ D = {} /\ [k \in DOMAIN leavers |-> Leaver(leavers[k])] = <<>>
         \/ \E s \in D : D = {s} /\ [k \in DOMAIN leavers |-> Leaver(leavers[k])] = <<Leaver(s)>>
<1> DEFINE followers == [k \in DOMAIN leavers |-> Leaver(leavers[k])]
<1>1. leavers \in [1..Cardinality(D) -> D]
  BY DEF SetToSeqs
<1>2. CASE D = {}
  <2>1. Cardinality(D) = 0
    BY <1>2, FS_EmptySet
  <2>2. DOMAIN leavers = {}
    BY <1>1, <2>1
  <2>3. followers \in Seq({}) /\ Len(followers) = 0
    <3>1. followers \in [1..0 -> {}]
      BY <2>2
    <3> HIDE DEF followers
    <3> QED
      BY <3>1, FunctionIsSequence
  <2> HIDE DEF followers
  <2>4. followers = <<>>
    BY <2>3, EmptySeq
  <2> QED
    BY <1>2, <2>4 DEF followers
<1>3. ASSUME NEW s, D = {s}
      PROVE  followers = <<Leaver(s)>>
  <2>1. Cardinality(D) = 1
    BY <1>3, FS_Singleton
  <2>2. DOMAIN leavers = 1..1 /\ leavers[1] = s
    BY <1>1, <1>3, <2>1
  <2>3. followers \in [1..1 -> {Leaver(s)}] /\ followers[1] = Leaver(s)
    BY <2>2
  <2> HIDE DEF followers
  <2>4. followers \in Seq({Leaver(s)}) /\ Len(followers) = 1
    BY <2>3, FunctionIsSequence
  <2> QED
    BY <2>3, <2>4
<1> QED
  BY <1>2, <1>3
LEMMA SeatReturnedAgrees ==
  ASSUME NEW G, LifeSound(G), Apart(G), NEW up \in BOOLEAN, AllAgree(up), NEW i,
         SeatReturned(i)
  PROVE  AllAgree(up)'
<1>1. /\ CopiesSound(G) /\ SocketsSound /\ ManagerSound /\ CopyOK(room)
  BY DEF LifeSound, CopiesSound
<1>0. PICK h : h = ready[i]
  OBVIOUS
<1>2. /\ i \in DOMAIN ready /\ h \in SoundHandlers /\ h \in LifeHandler
      /\ h.pc = "socketsFetched" /\ h.pc \in LifePcs
      /\ Underway(up, h) /\ OneEach /\ SeatsAgree(up)
  BY <1>0, <1>1, HandlerResumes DEF LifePcs, SeatReturned
<1>3. OneSessionEach /\ OneSocketEach
  BY <1>2 DEF SeatsAgree
<1>4. /\ h.who \in PlayerIds /\ h.who # NoPlayer /\ h.session \in SessionIds
      /\ h.socket \in Sockets /\ IsOpen(h.socket) /\ ~HasSession(h.socket)
  BY <1>2, NamesAssumption DEF SoundHandlers, Underway, SocketWaits, WaysIn, LifePcs
<1>5. /\ h.who \in PlayersOn(room) /\ h.others = Seats(h.who)
      /\ sessions[h.session] = h.who /\ h.session \notin expiring
      /\ \A s \in Sockets : sockets[s].session # h.session
  BY <1>2 DEF Underway, PlayerIsBack
<1> DEFINE dropped == {s \in h.others : sockets[s].status = "open"}
<1>6. dropped = Seats(h.who)
  BY <1>5 DEF Seats
<1>7. /\ \E leavers \in SetToSeqs(dropped) :
           queue' = queue \o [k \in DOMAIN leavers |-> Leaver(leavers[k])]
      /\ ready' = RemoveAt(ready, i)
      /\ sockets' = [s \in Sockets |->
           IF s \in dropped THEN [sockets[s] EXCEPT !.status = "closed"]
           ELSE IF s = h.socket
           THEN [sockets[s] EXCEPT !.player = h.who, !.session = h.session]
           ELSE sockets[s]]
      /\ Manager!AddPlayer(h.who)
      /\ UNCHANGED <<room, sessions, expiring, issued>>
  BY <1>0, <1>2 DEF SeatReturned
<1> HIDE DEF dropped
<1>8. \A s \in dropped : s \in Sockets /\ IsOpen(s) /\ sockets[s].player = h.who /\ HasSession(s)
  BY <1>4, <1>6 DEF Seats, IsOpen, HasSession
<1>9. dropped = {} \/ \E s : dropped = {s}
  BY <1>3, <1>8 DEF OneSocketEach
<1>10. ASSUME NEW r \in Sockets
       PROVE  /\ r \in dropped =>
                   /\ sockets'[r].status = "closed" /\ sockets'[r].player = sockets[r].player
                   /\ sockets'[r].session = sockets[r].session
              /\ r \notin dropped /\ r # h.socket => sockets'[r] = sockets[r]
              /\ r = h.socket =>
                   /\ sockets'[r].status = sockets[r].status /\ sockets'[r].player = h.who
                   /\ sockets'[r].session = h.session
  <2>1. sockets[r] \in Socket
    BY <1>1 DEF SocketsSound
  <2>2. sockets'[r] = IF r \in dropped THEN [sockets[r] EXCEPT !.status = "closed"]
                      ELSE IF r = h.socket
                      THEN [sockets[r] EXCEPT !.player = h.who, !.session = h.session]
                      ELSE sockets[r]
    BY <1>7
  <2>3. r = h.socket => r \notin dropped
    BY <1>4, <1>8
  <2>4. CASE r \in dropped
    BY <2>1, <2>2, <2>3, <2>4 DEF Socket
  <2>5. CASE r = h.socket
    BY <2>1, <2>2, <2>3, <2>5 DEF Socket
  <2>6. CASE r \notin dropped /\ r # h.socket
    BY <2>2, <2>6
  <2> QED
    BY <2>4, <2>5, <2>6
<1>11. ASSUME NEW New, Replaces(h, New)
       PROVE  SeatsAgree(up)'
  <2>1. ASSUME NEW r \in Sockets \ {h.socket}
        PROVE  IF sockets[r].player = h.who
               THEN /\ sockets'[r].status = "closed" /\ sockets'[r].player = h.who
                    /\ sockets'[r].session = sockets[r].session
               ELSE sockets'[r] = sockets[r]
    <3>1. CASE r \in dropped
      BY <1>8, <1>10, <3>1
    <3>2. CASE r \notin dropped /\ sockets[r].player = h.who
      <4>1. ~IsOpen(r) /\ HasSession(r)
        BY <1>4, <1>6, <3>2 DEF Seats, IsOpen, HasSession
      <4>2. sockets[r].status = "closed"
        BY <1>1, <1>3, <4>1 DEF OneSocketEach, IsOpen, SocketsSound, Socket
      <4> QED
        BY <1>10, <3>2, <4>2
    <3>3. CASE r \notin dropped /\ sockets[r].player # h.who
      BY <1>10, <3>3
    <3> QED
      BY <3>1, <3>2, <3>3
  <2>2. /\ IsOpen(h.socket)' /\ sockets'[h.socket].player = h.who
        /\ sockets'[h.socket].session = h.session
    BY <1>4, <1>10 DEF IsOpen
  <2>3. \A q : q # h.who => ~Moving(h, q) /\ ~Returning(h, q)
    BY DEF Moving, Returning
  <2> QED
    BY <1>1, <1>2, <1>4, <1>5, <1>7, <1>11, <2>1, <2>2, <2>3, SeatTaken
<1>12. ASSUME NEW f \in LifeInFlight, Separate(f, h)
       PROVE  Untouched(up, f)
  <2>1. f.who # h.who /\ (f.who # NoPlayer /\ f.session = h.session => f.session = NoSession)
    BY <1>2, <1>4, <1>12, OtherPlayer
  <2>2. f.socket \in Sockets => f.socket # h.socket
    BY <1>2, <1>12, NamesAssumption DEF Separate, LifeInFlight
  <2>3. f.socket \in Sockets => f.socket \notin dropped
    BY <1>8, <1>12, NamesAssumption DEF AllAgree, Underway, SocketWaits
  <2>4. SocketsUntouched(f)
    <3>1. f.socket \in Sockets => sockets'[f.socket] = sockets[f.socket]
      BY <1>10, <2>2, <2>3
    <3>2. ASSUME f.who # NoPlayer, NEW s \in Sockets
          PROVE  /\ sockets[s].player = f.who \/ sockets'[s].player = f.who =>
                      sockets'[s].player = sockets[s].player /\ sockets'[s].status = sockets[s].status
                 /\ sockets'[s].session = f.session /\ f.session \in SessionIds =>
                      sockets[s].session = f.session
      <4>1. CASE s \in dropped
        BY <1>8, <1>10, <2>1, <4>1
      <4>2. CASE s = h.socket
        BY <1>4, <1>10, <2>1, <3>2, <4>2, NamesAssumption DEF HasSession
      <4>3. CASE s \notin dropped /\ s # h.socket
        BY <1>10, <4>3
      <4> QED
        BY <4>1, <4>2, <4>3
    <3> QED
      BY <3>1, <3>2 DEF SocketsUntouched
  <2>5. ManagerUntouched(up, f)
    BY <1>1, <1>4, <1>7, <2>1, OthersInManager
  <2> QED
    BY <1>7, <2>4, <2>5, NothingTouched DEF Untouched
<1>13. PICK leavers \in SetToSeqs(dropped) :
         queue' = queue \o [k \in DOMAIN leavers |-> Leaver(leavers[k])]
  BY <1>7
<1>14. queue \in Seq(G \cup SoundHandlers) /\ ready \in Seq(G \cup SoundHandlers)
  BY <1>1, InFlightSound
<1>15. CASE dropped = {} /\ [k \in DOMAIN leavers |-> Leaver(leavers[k])] = <<>>
  <2>1. queue' = queue
    <3>1. queue' = queue \o <<>>
      BY <1>13, <1>15
    <3> QED
      BY <1>14, <3>1, ConcatEmptySeq
  <2>2. Replaces(h, {})
    BY <1>0, <1>2, <1>7, <1>14, <2>1, HandlerEnds
  <2>3. SeatsAgree(up)'
    BY <1>11, <2>2
  <2>4. issued \subseteq issued'
    BY <1>7
  <2> QED
    BY <1>1, <1>12, <2>2, <2>3, <2>4, AgreeAgain
<1>16. ASSUME NEW s \in dropped,
              [k \in DOMAIN leavers |-> Leaver(leavers[k])] = <<Leaver(s)>>
       PROVE  AllAgree(up)'
  <2>1. PICK g : g = Leaver(s)
    OBVIOUS
  <2>2. Await(i, g)
    <3>1. queue' = queue \o <<g>>
      BY <1>13, <1>16, <2>1
    <3>2. queue \in Seq(G \cup SoundHandlers \cup {g})
      BY <1>14, SeqMonotonic
    <3>3. queue' = Append(queue, g)
      BY <3>1, <3>2, AppendIsConcat
    <3> QED
      BY <1>7, <3>3 DEF Await
  <2>3. sessions[sockets[s].session] # sockets[s].player
    BY <1>1, <1>3, <1>4, <1>5, <1>8 DEF OneSessionEach, SocketsSound
  <2>4. g.pc = "leaveSession" /\ g.who = NoPlayer /\ g.socket = NoSocket
    BY <2>1, <2>3 DEF Leaver, NewHandler
  <2>5. Replaces(h, {g})
    <3>1. \A f \in LifeInFlight : Separate(f, h) => Separate(f, g)
      BY <2>4 DEF Separate
    <3> QED
      BY <1>0, <1>2, <1>14, <2>2, <3>1, HandlerAwaits
  <2>6. RoomIsGone(g)' /\ SessionIsOwn(g)' /\ SocketWaits(g)' /\ PlayerIsNew(g)'
    BY <2>4 DEF RoomIsGone, SessionIsOwn, SocketWaits, PlayerIsNew, WaysIn, NewPlayerPcs
  <2>7. PlayerIsBack(g)' /\ PlayerIsGone(up, g)'
    BY <2>4 DEF PlayerIsBack, PlayerIsGone, ReturnPcs
  <2>8. SeatsAgree(up)'
    BY <1>11, <2>5
  <2>9. issued \subseteq issued'
    BY <1>7
  <2>10. Underway(up, g)'
    BY <2>6, <2>7 DEF Underway
  <2> QED
    BY <1>1, <1>12, <2>5, <2>8, <2>9, <2>10, AgreeAgain
<1> QED
  BY <1>9, <1>13, <1>15, <1>16, OneLeaver

(***************************************************************************)
(* A player joins.                                                         *)
(***************************************************************************)
LEMMA SaveJoinedAgrees ==
  ASSUME NEW G, LifeSound(G), Apart(G), NEW up \in BOOLEAN, AllAgree(up), NEW i,
         SaveJoined(i), ~lostUpdate'
  PROVE  AllAgree(up)'
<1>1. CopiesSound(G) /\ CopyOK(room)
  BY DEF LifeSound, CopiesSound
<1>0. PICK h : h = ready[i]
  OBVIOUS
<1>2. /\ i \in DOMAIN ready /\ h \in SoundHandlers /\ h \in LifeHandler
      /\ h.pc = "joinLoad" /\ h.pc \in LifePcs
      /\ Underway(up, h) /\ OneEach /\ SeatsAgree(up) /\ Issuance
  BY <1>0, <1>1, HandlerResumes DEF LifePcs, SaveJoined, SeatsAgree
<1>3. h.st = room
  BY <1>0 DEF SaveJoined
<1>4. PICK p \in Fresh(PlayerIds), t \in Fresh(SessionIds) :
        /\ NameOf[p] = h.name
        /\ issued' = issued \cup {p, t}
        /\ room' = JoinedRoom(room, p)
        /\ Await(i, [h EXCEPT !.pc = "joinSaved", !.st = JoinedRoom(room, p),
                              !.who = p, !.session = t])
  BY <1>0, <1>3 DEF SaveJoined
<1>5. CanJoinLobby(room, h.name)
  BY <1>0, <1>3 DEF SaveJoined
<1>6. /\ p \in PlayerIds /\ t \in SessionIds /\ p \notin issued /\ t \notin issued
      /\ p # NoPlayer
  BY NamesAssumption DEF Fresh
<1>7. PICK g : g = [h EXCEPT !.pc = "joinSaved", !.st = room', !.who = p, !.session = t]
  OBVIOUS
<1>8. /\ g.pc = "joinSaved" /\ g.st = room' /\ g.who = p /\ g.socket = h.socket
      /\ g.session = t
  BY <1>2, <1>7 DEF LifeHandler
<1>9. Await(i, g) /\ UNCHANGED <<sessions, expiring, sockets, managerVars>>
  BY <1>4, <1>7 DEF SaveJoined
<1>10. /\ PlayersIn(room') = PlayersIn(room) \cup {p}
       /\ PlayersOn(room') = PlayersOn(room) \cup {p}
       /\ OwnersIn(room') = OwnersIn(room)
  BY <1>1, <1>4, <1>5, <1>6, PlayerAdded
<1>11. ASSUME NEW f \in LifeInFlight
       PROVE  /\ f.who # p
              /\ f.who # NoPlayer => f.session # t
  <2>1. f \in SoundHandlers /\ SessionIsOwn(f)
    BY <1>1, InFlightSound DEF AllAgree, Underway
  <2> QED
    BY <1>6, <2>1, NamesAssumption DEF SessionIsOwn
<1>12. Replaces(h, {g})
  <2>1. \A f \in LifeInFlight : Separate(f, h) => Separate(f, g)
    BY <1>2, <1>8, <1>11 DEF Separate
  <2> QED
    BY <1>0, <1>1, <1>2, <1>9, <2>1, InFlightSound, HandlerAwaits
<1>13. SeatsAgree(up)'
  <2>1. /\ \A q : ~Moving(h, q) /\ ~Returning(h, q)
        /\ SomeMoving({g}, p) /\ room # NoRoom
    BY <1>2, <1>5, <1>8 DEF Moving, SomeMoving, Returning, MovingPcs, LeavingPcs, CanJoinLobby
  <2>2. issued \subseteq issued' /\ p \in issued'
    BY <1>4
  <2> QED
    BY <1>1, <1>2, <1>9, <1>10, <1>12, <2>1, <2>2, RecordMoves
<1>14. ASSUME NEW f \in LifeInFlight
       PROVE  Untouched(up, f)
  <2>1. room # NoRoom
    BY <1>5 DEF CanJoinLobby
  <2> QED
    BY <1>9, <1>10, <1>11, <1>14, <2>1, OthersUntouched
<1>15. SocketWaits(g)'
  BY <1>2, <1>8, <1>9 DEF Underway, SocketWaits, WaysIn, LifePcs, IsOpen, HasSession
<1>16. /\ sessions[t] = NoPlayer /\ t \notin expiring
       /\ \A u \in SessionIds : sessions[u] # p
       /\ \A s \in Sockets : sockets[s].player # p
  BY <1>2, <1>6 DEF Issuance
<1>17. p \in issued' /\ t \in issued' /\ p \in PlayersOn(room')
  BY <1>4, <1>10
<1>18. PlayerIsNew(g)' /\ SessionIsOwn(g)' /\ RoomIsGone(g)'
  BY <1>8, <1>9, <1>16, <1>17 DEF PlayerIsNew, SessionIsOwn, RoomIsGone
<1>19. PlayerIsBack(g)' /\ PlayerIsGone(up, g)'
  BY <1>8 DEF PlayerIsBack, PlayerIsGone, LeavingPcs, ReturnPcs
<1> QED
  BY <1>1, <1>4, <1>9, <1>12, <1>13, <1>14, <1>15, <1>18, <1>19, AgreeAgain DEF Underway

LEMMA JoinStepsAgree ==
  ASSUME NEW G, LifeSound(G), Apart(G), NEW up \in BOOLEAN, AllAgree(up), NEW i, ~lostUpdate',
         RefuseJoin(i) \/ SaveJoined(i) \/ SaveJoinedSession(i) \/ SeatJoined(i)
  PROVE  AllAgree(up)'
<1>1. CopiesSound(G)
  BY DEF LifeSound
<1>2. CASE RefuseJoin(i)
  <2>1. i \in DOMAIN ready /\ ready[i].pc = "joinLoad"
    BY <1>2 DEF RefuseJoin, Resumes
  <2>2. \A p : ~Moving(ready[i], p)
    BY <2>1 DEF Moving, MovingPcs, LeavingPcs
  <2>3. /\ ready' = RemoveAt(ready, i) /\ queue' = queue
        /\ UNCHANGED <<room, sessions, expiring, issued, sockets, managerVars>>
    BY <1>2 DEF RefuseJoin, Finish, lifeVars
  <2> QED
    BY <2>1, <2>2, <2>3, EndsQuietly
<1>3. CASE SaveJoinedSession(i)
  BY <1>3, NewSession DEF SaveJoinedSession
<1>4. CASE SeatJoined(i)
  <2>1. Resumes(i, "joinSessionSaved")
    BY <1>4 DEF SeatJoined
  <2>2. ready[i].pc = "joinSessionSaved" /\ Underway(up, ready[i])
    BY <1>1, <2>1, HandlerResumes DEF LifePcs
  <2>3. ready[i].socket # NoSocket
    BY <2>2, NamesAssumption DEF Underway, SocketWaits, WaysIn, LifePcs
  <2> QED
    BY <1>4, <2>1, <2>3, AttachAgrees DEF SeatJoined
<1> QED
  BY <1>2, <1>3, <1>4, SaveJoinedAgrees

(***************************************************************************)
(* A player leaves.                                                        *)
(***************************************************************************)
(* A step that no handler takes and that begins none.                      *)
LEMMA NobodyReplaced ==
  ASSUME OneEach, UNCHANGED <<queue, ready>>
  PROVE  Replaces(Idle, {}) /\ LifeInFlight' = LifeInFlight
<1>1. OneEach' /\ LifeInFlight' = LifeInFlight
  BY DEF OneEach, LifeInFlight
<1> QED
  BY <1>1, IdleIsNobody DEF Replaces

LEMMA NobodyActs ==
  ASSUME NEW p, p # NoPlayer, ~ActedFor(p)
  PROVE  ~OnTheMove(p) /\ ~Returns(p) /\ \A f \in LifeInFlight : f.who # p
  BY DEF ActedFor, OnTheMove, SomeMoving, Moving, Returns, SomeReturning, Returning

LEMMA UnusedSocketCloses ==
  ASSUME NEW G, LifeSound(G), Apart(G), NEW up \in BOOLEAN, AllAgree(up),
         NEW s \in Sockets, CloseSocket(s), ~crossed', ~HasSession(s)
  PROVE  AllAgree(up)'
<1>1. /\ CopiesSound(G) /\ CopyOK(room) /\ SocketsSound /\ SeatsAgree(up) /\ OneEach
  BY DEF LifeSound, CopiesSound, AllAgree
<1>2. /\ IsOpen(s) /\ UNCHANGED <<room, sessions, expiring, issued, managerVars, queue, ready>>
  BY DEF CloseSocket, IsOpen
<1>3. ASSUME NEW f \in LifeInFlight
      PROVE  f.socket # s
  BY <1>3 DEF CloseSocket, Crosses, Served
<1>4. /\ sockets'[s].status = "closed" /\ sockets'[s].player = sockets[s].player
      /\ sockets'[s].session = sockets[s].session
      /\ \A r \in Sockets \ {s} : sockets'[r] = sockets[r]
  <2>1. sockets' = [sockets EXCEPT ![s] = [sockets[s] EXCEPT !.status = "closed"]]
    BY <1>1 DEF CloseSocket, SocketsSound, Socket
  <2> QED
    BY <1>1, <2>1 DEF SocketsSound, Socket
<1>5. \A r \in Sockets :
        /\ sockets'[r].player = sockets[r].player
        /\ sockets'[r].session = sockets[r].session
        /\ HasSession(r) => sockets'[r].status = sockets[r].status
        /\ sockets'[r].status = "new" => sockets[r].status = "new"
  BY <1>4
<1>6. Replaces(Idle, {})
  BY <1>1, <1>2, NobodyReplaced
<1>7. SeatsAgree(up)'
  BY <1>1, <1>2, <1>5, <1>6, IdleNeverMoves, SocketsMove
<1>8. ASSUME NEW f \in LifeInFlight
      PROVE  Untouched(up, f)
  <2>1. SocketsUntouched(f)
    <3>1. \A r \in Sockets : f.who # NoPlayer /\ sockets[r].player = f.who => HasSession(r)
      BY DEF HasSession
    <3> QED
      BY <1>3, <1>4, <1>5, <3>1 DEF SocketsUntouched
  <2>2. UNCHANGED <<playerIds, reconnecting>>
    BY <1>2 DEF managerVars
  <2> QED
    BY <1>2, <2>1, <2>2, NothingTouched DEF Untouched
<1>9. issued \subseteq issued'
  BY <1>2
<1> QED
  BY <1>1, <1>6, <1>7, <1>8, <1>9, AgreeAgain

LEMMA SeatCloses ==
  ASSUME NEW G, LifeSound(G), Apart(G), NEW up \in BOOLEAN, AllAgree(up),
         NEW s \in Sockets, CloseSocket(s), ~crossed', HasSession(s)
  PROVE  AllAgree(up)'
<1>1. /\ CopiesSound(G) /\ CopyOK(room) /\ SocketsSound /\ SeatsAgree(up) /\ OneEach
      /\ Issuance /\ OneSessionEach
      /\ OneSocketEach /\ TimersNeat(up) /\ SeatedKept(up) /\ SeatedOnRecord
      /\ AbsentTimed(up)
  BY DEF LifeSound, CopiesSound, SeatsAgree, AllAgree
<1>2. IsOpen(s) /\ UNCHANGED <<room, sessions, expiring, issued, managerVars>>
  BY DEF CloseSocket, IsOpen
<1>3. /\ \A f \in LifeInFlight : f.socket # s
      /\ ~ActedFor(sockets[s].player)
  BY DEF CloseSocket, Crosses, Served
<1>4. /\ sockets'[s].status = "closed" /\ sockets'[s].player = sockets[s].player
      /\ sockets'[s].session = sockets[s].session
      /\ \A r \in Sockets \ {s} : sockets'[r] = sockets[r]
  <2>1. sockets' = [sockets EXCEPT ![s] = [sockets[s] EXCEPT !.status = "closed"]]
    BY <1>1 DEF CloseSocket, SocketsSound, Socket
  <2> QED
    BY <1>1, <2>1 DEF SocketsSound, Socket
<1>5. PICK p, t : p = sockets[s].player /\ t = sockets[s].session
  OBVIOUS
<1>6. p # NoPlayer /\ ~ActedFor(p) /\ t \in SessionIds
  BY <1>1, <1>3, <1>5 DEF HasSession, SocketsSound
<1>7. ~OnTheMove(p) /\ ~Returns(p) /\ \A f \in LifeInFlight : f.who # p
  BY <1>6, NobodyActs
<1>8. p \in PlayersOn(room) /\ sessions[t] = p
  BY <1>1, <1>2, <1>5, <1>7 DEF SeatedOnRecord
<1>9. p \in PlayersIn(room) /\ p \in PlayerIds /\ p \in issued /\ t \in issued
  BY <1>1, <1>6, <1>8, PlayersOf DEF CopyOK, PlayersOn, Issuance
<1>10. PICK g : g = Leaver(s)
  OBVIOUS
<1>11. g.pc = "leaveSession" /\ g.who = p /\ g.session = t /\ g.socket = NoSocket
  BY <1>5, <1>8, <1>10 DEF Leaver, NewHandler
<1>12. Begin(g)
  BY <1>10 DEF CloseSocket
<1>13. Replaces(Idle, {g})
  <2>1. \A f \in LifeInFlight : Separate(f, g)
    BY <1>1, <1>6, <1>8, <1>11, TakenUp DEF LifePcs
  <2> QED
    BY <1>1, <1>12, <2>1, InFlightSound, HandlerBegins
<1>14. UNCHANGED <<managed, playerIds, reconnecting, emptying>>
  BY <1>2 DEF managerVars
<1>15. Seats(p)' = {}
  <2>1. ASSUME NEW r \in Sockets, IsOpen(r)', sockets'[r].player = p
        PROVE  FALSE
    <3>1. r # s
      BY <1>4, <2>1 DEF IsOpen
    <3>2. IsOpen(r) /\ sockets[r].player = p
      BY <1>4, <2>1, <3>1 DEF IsOpen
    <3> QED
      BY <1>1, <1>2, <1>5, <3>1, <3>2 DEF OneSocketEach
  <2> QED
    BY <2>1 DEF Seats, IsOpen
<1>16. ASSUME NEW q, q # p
       PROVE  Seats(q)' = Seats(q)
  <2>1. ASSUME NEW r \in Sockets
        PROVE  r \in Seats(q)' <=> r \in Seats(q)
    <3>1. CASE r = s
      BY <1>4, <1>5, <1>16, <3>1 DEF Seats
    <3>2. CASE r # s
      BY <1>4, <3>2 DEF Seats
    <3> QED
      BY <3>1, <3>2
  <2> QED
    BY <2>1 DEF Seats
<1>17. ASSUME NEW r \in Sockets, IsOpen(r)', HasSession(r)'
       PROVE  r # s /\ sockets'[r] = sockets[r] /\ IsOpen(r) /\ HasSession(r)
  BY <1>4, <1>17 DEF IsOpen, HasSession
<1>18. SeatsAgree(up)'
  <2>1. Issuance'
    <3>1. \A r \in Sockets : /\ sockets'[r].session = sockets[r].session
                             /\ sockets'[r].player = sockets[r].player
      BY <1>4
    <3> QED
      BY <1>1, <1>2, <3>1, IssuanceKept
  <2>2. OneSessionEach' /\ TimersNeat(up)'
    BY <1>1, <1>2, <1>14 DEF OneSessionEach, TimersNeat
  <2>3. OneSocketEach'
    <3>1. ASSUME NEW q \in Sockets, NEW r \in Sockets, IsOpen(q)', IsOpen(r)', HasSession(q)',
                 sockets'[q].player = sockets'[r].player
          PROVE  q = r
      <4>1. HasSession(r)'
        BY <3>1 DEF HasSession
      <4>2. /\ sockets'[q] = sockets[q] /\ IsOpen(q) /\ HasSession(q)
            /\ sockets'[r] = sockets[r] /\ IsOpen(r)
        BY <1>17, <3>1, <4>1
      <4> QED
        BY <1>1, <3>1, <4>2 DEF OneSocketEach
    <3>2. ASSUME NEW r \in Sockets, sockets'[r].status = "new"
          PROVE  ~HasSession(r)'
      <4>1. r # s
        BY <1>4, <3>2
      <4> QED
        BY <1>1, <1>4, <3>2, <4>1 DEF OneSocketEach, HasSession
    <3> QED
      BY <3>1, <3>2 DEF OneSocketEach
  <2>4. SeatedKept(up)'
    <3> SUFFICES ASSUME up, NEW r \in Sockets, IsOpen(r)', HasSession(r)'
                 PROVE  /\ managed' /\ sockets'[r].player \in playerIds'
                        /\ reconnecting'[sockets'[r].player] = Manager!NoTimer
                        /\ emptying' = Manager!NoTimer
      BY DEF SeatedKept
    <3>1. sockets'[r] = sockets[r] /\ IsOpen(r) /\ HasSession(r)
      BY <1>17
    <3> QED
      BY <1>1, <1>14, <3>1 DEF SeatedKept
  <2>5. SeatedOnRecord'
    <3> SUFFICES ASSUME NEW r \in Sockets, IsOpen(r)', HasSession(r)',
                        NEW q, q = sockets'[r].player
                 PROVE  /\ q \in PlayersOn(room)
                        /\ \/ sessions[sockets'[r].session] = q /\ sockets'[r].session \notin expiring
                           \/ Returns(q)'
      BY <1>2 DEF SeatedOnRecord, Returns, SomeReturning
    <3>1. sockets'[r] = sockets[r] /\ IsOpen(r) /\ HasSession(r)
      BY <1>17
    <3> QED
      BY <1>1, <1>13, <3>1, MovesOn, IdleNeverMoves DEF SeatedOnRecord
  <2>6. AbsentTimed(up)'
    <3> SUFFICES ASSUME up, NEW q \in PlayersIn(room), Seats(q)' = {}
                 PROVE  \/ q \in playerIds /\ q \notin PlayersOn(room) /\ reconnecting[q] = OneTimer
                        \/ q \notin playerIds /\ q \in OwnersIn(room)
                        \/ OnTheMove(q)'
      BY <1>2, <1>14 DEF AbsentTimed
    <3>1. CASE q = p
      <4>1. SomeMoving({g}, q)
        BY <1>11, <3>1 DEF SomeMoving, Moving, MovingPcs, LeavingPcs
      <4> QED
        BY <1>13, <4>1, MovesOn
    <3>2. CASE q # p
      <4>1. Seats(q) = {}
        BY <1>16, <3>2
      <4> QED
        BY <1>1, <1>13, <4>1, MovesOn, IdleNeverMoves DEF AbsentTimed
    <3> QED
      BY <3>1, <3>2
  <2> QED
    BY <2>1, <2>2, <2>3, <2>4, <2>5, <2>6 DEF SeatsAgree
<1>19. ASSUME NEW f \in LifeInFlight
       PROVE  Untouched(up, f)
  <2>1. SocketsUntouched(f)
    BY <1>3, <1>4, <1>5, <1>7 DEF SocketsUntouched
  <2> QED
    BY <1>2, <1>14, <2>1, NothingTouched DEF Untouched
<1>20. RoomIsGone(g)' /\ SessionIsOwn(g)' /\ SocketWaits(g)'
  BY <1>2, <1>8, <1>9, <1>11 DEF RoomIsGone, SessionIsOwn, SocketWaits, WaysIn
<1>21. PlayerIsNew(g)' /\ PlayerIsBack(g)'
  BY <1>11 DEF PlayerIsNew, PlayerIsBack, NewPlayerPcs, ReturnPcs
<1>22. PlayerIsGone(up, g)'
  <2>1. up => p \in playerIds /\ reconnecting[p] = Manager!NoTimer
    BY <1>1, <1>2, <1>5 DEF SeatedKept
  <2> QED
    BY <1>2, <1>8, <1>11, <1>14, <1>15, <2>1 DEF PlayerIsGone, LeavingPcs
<1>23. Underway(up, g)' /\ issued \subseteq issued'
  BY <1>2, <1>20, <1>21, <1>22 DEF Underway
<1> QED
  BY <1>1, <1>13, <1>18, <1>19, <1>23, AgreeAgain

LEMMA IgnoreLeaverAgrees ==
  ASSUME NEW G, LifeSound(G), Apart(G), NEW up \in BOOLEAN, AllAgree(up), NEW i,
         IgnoreLeaver(i) \/ IgnoreReconnectTimeout(i)
  PROVE  AllAgree(up)'
<1>1. CopiesSound(G) /\ CopyOK(room)
  BY DEF LifeSound, CopiesSound
<1>0. PICK h : h = ready[i]
  OBVIOUS
<1>2. /\ i \in DOMAIN ready /\ Underway(up, h)
      /\ \/ h.pc = "leaveSession" /\ h.who = NoPlayer
         \/ h.pc \in {"leaveLoad", "expiredLoad"} /\ h.st = NoRoom
  BY <1>0, <1>1, HandlerResumes DEF IgnoreLeaver, IgnoreReconnectTimeout, LifePcs
<1>3. \A p \in PlayersIn(room) : ~Moving(h, p)
  <2>1. CASE h.who = NoPlayer
    BY <1>1, <2>1, PlayersOf, NamesAssumption DEF CopyOK, PlayersIn, Moving
  <2>2. CASE h.pc \in {"leaveLoad", "expiredLoad"} /\ h.st = NoRoom
    BY <1>2, <2>2 DEF Underway, RoomIsGone, PlayersIn
  <2> QED
    BY <1>2, <2>1, <2>2
<1>4. /\ ready' = RemoveAt(ready, i) /\ queue' = queue
      /\ UNCHANGED <<room, sessions, expiring, issued, sockets, managerVars>>
  BY DEF IgnoreLeaver, IgnoreReconnectTimeout, Finish, lifeVars
<1> QED
  BY <1>0, <1>2, <1>3, <1>4, EndsQuietly

LEMMA LoadForLeaverAgrees ==
  ASSUME NEW G, LifeSound(G), Apart(G), NEW up \in BOOLEAN, AllAgree(up), NEW i,
         LoadForLeaver(i)
  PROVE  AllAgree(up)'
<1>1. CopiesSound(G) /\ CopyOK(room)
  BY DEF LifeSound, CopiesSound
<1>0. PICK h : h = ready[i]
  OBVIOUS
<1>2. /\ i \in DOMAIN ready /\ h \in LifeHandler
      /\ h.pc = "leaveSession" /\ h.pc \in LifePcs /\ h.who # NoPlayer
      /\ Underway(up, h) /\ OneEach /\ SeatsAgree(up)
  BY <1>0, <1>1, HandlerResumes DEF LifePcs, LoadForLeaver
<1>3. PICK g : g = [h EXCEPT !.pc = "leaveLoad", !.st = room]
  OBVIOUS
<1>4. /\ g.pc = "leaveLoad" /\ g.st = room /\ g.who = h.who /\ g.session = h.session
      /\ g.socket = h.socket
  BY <1>2, <1>3 DEF LifeHandler
<1>5. Await(i, g) /\ UNCHANGED <<room, sessions, expiring, issued, sockets, managerVars>>
  BY <1>0, <1>3 DEF Load, LoadForLeaver, lifeVars
<1>6. Replaces(h, {g})
  BY <1>0, <1>1, <1>2, <1>4, <1>5, SameHandler, InFlightSound, HandlerAwaits
<1>7. SeatsAgree(up)'
  <2>1. \A p : (Moving(h, p) => SomeMoving({g}, p)) /\ ~Returning(h, p)
    BY <1>2, <1>4 DEF Moving, SomeMoving, Returning, MovingPcs, LeavingPcs
  <2> QED
    BY <1>1, <1>2, <1>5, <1>6, <2>1, RecordMoves
<1>8. \A f : Untouched(up, f)
  BY <1>5, NothingTouched DEF Untouched, managerVars
<1>9. RoomIsGone(g)' /\ SessionIsOwn(g)' /\ SocketWaits(g)'
  BY <1>2, <1>4, <1>5 DEF Underway, RoomIsGone, SessionIsOwn, SocketWaits, WaysIn
<1>10. PlayerIsNew(g)' /\ PlayerIsBack(g)'
  BY <1>4 DEF PlayerIsNew, PlayerIsBack, NewPlayerPcs, ReturnPcs
<1>11. PlayerIsGone(up, g)'
  <2>1. Seats(h.who)' = Seats(h.who)
    BY <1>5, SocketsStay
  <2>2. UNCHANGED <<playerIds, reconnecting>>
    BY <1>5 DEF managerVars
  <2> QED
    BY <1>2, <1>4, <1>5, <2>1, <2>2 DEF Underway, PlayerIsGone, LeavingPcs
<1>12. Underway(up, g)' /\ issued \subseteq issued'
  BY <1>5, <1>9, <1>10, <1>11 DEF Underway
<1> QED
  BY <1>1, <1>6, <1>7, <1>8, <1>12, AgreeAgain

LEMMA SaveDisconnectedAgrees ==
  ASSUME NEW G, LifeSound(G), Apart(G), NEW up \in BOOLEAN, AllAgree(up), NEW i,
         SaveDisconnected(i), ~lostUpdate'
  PROVE  AllAgree(up)'
<1>1. CopiesSound(G) /\ CopyOK(room)
  BY DEF LifeSound, CopiesSound
<1>0. PICK h : h = ready[i]
  OBVIOUS
<1>2. /\ i \in DOMAIN ready /\ h \in SoundHandlers /\ h \in LifeHandler
      /\ h.pc = "leaveLoad" /\ h.pc \in LifePcs
      /\ Underway(up, h) /\ OneEach /\ SeatsAgree(up)
  BY <1>0, <1>1, HandlerResumes DEF LifePcs, SaveDisconnected
<1>3. h.st = room
  BY <1>0 DEF SaveDisconnected, SaveRoom
<1>4. h.who \in PlayerIds /\ h.who # NoPlayer
  BY <1>2, NamesAssumption DEF SoundHandlers
<1>5. SoundRoom(room) /\ h.who \in PlayersOn(room) /\ room # NoRoom /\ Seats(h.who) = {}
  BY <1>0, <1>1, <1>2, <1>3, <1>4 DEF SaveDisconnected, CopyOK, Underway, PlayerIsGone, LeavingPcs
<1>6. h.who \in PlayersIn(room)
  BY <1>5, PlayersOf
<1>7. PICK g : g = [h EXCEPT !.pc = "leaveSaved", !.st = room']
  OBVIOUS
<1>8. /\ g.pc = "leaveSaved" /\ g.st = room' /\ g.who = h.who /\ g.session = h.session
      /\ g.socket = h.socket
  BY <1>2, <1>7 DEF LifeHandler
<1>9. /\ Await(i, g) /\ room' = SetStatus(room, h.who, "disconnected")
      /\ UNCHANGED <<sessions, expiring, issued, sockets, managerVars>>
  BY <1>0, <1>3, <1>7 DEF SaveDisconnected, SaveRoom, Await, lifeVars
<1>10. /\ PlayersIn(room') = PlayersIn(room) /\ OwnersIn(room') = OwnersIn(room)
       /\ PlayersOn(room') = PlayersOn(room) \ {h.who}
  BY <1>5, <1>6, <1>9, StatusSet
<1>11. Replaces(h, {g})
  BY <1>0, <1>1, <1>2, <1>8, <1>9, SameHandler, InFlightSound, HandlerAwaits
<1>12. SeatsAgree(up)'
  <2>1. /\ \A p : ~Returning(h, p)
        /\ SomeMoving({g}, h.who) /\ \A p : p # h.who => ~Moving(h, p)
    BY <1>2, <1>8 DEF Moving, SomeMoving, Returning, MovingPcs, LeavingPcs
  <2> QED
    BY <1>1, <1>2, <1>5, <1>9, <1>10, <1>11, <2>1, RecordMoves
<1>13. ASSUME NEW f \in LifeInFlight, Separate(f, h)
       PROVE  Untouched(up, f)
  <2>1. f.who # h.who
    BY <1>2, <1>4, <1>13, OtherPlayer
  <2> QED
    BY <1>5, <1>9, <1>10, <2>1, OthersUntouched
<1>14. RoomIsGone(g)' /\ SessionIsOwn(g)' /\ SocketWaits(g)'
  BY <1>2, <1>8, <1>9 DEF Underway, RoomIsGone, SessionIsOwn, SocketWaits, WaysIn
<1>15. PlayerIsNew(g)' /\ PlayerIsBack(g)'
  BY <1>8 DEF PlayerIsNew, PlayerIsBack, NewPlayerPcs, ReturnPcs
<1>16. PlayerIsGone(up, g)'
  <2>1. Seats(h.who)' = Seats(h.who)
    BY <1>9, SocketsStay
  <2>2. UNCHANGED <<playerIds, reconnecting>>
    BY <1>9 DEF managerVars
  <2>3. h.who \in PlayersIn(room') \ PlayersOn(room')
    BY <1>6, <1>10
  <2> QED
    BY <1>2, <1>4, <1>8, <1>9, <2>1, <2>2, <2>3 DEF Underway, PlayerIsGone, LeavingPcs
<1>17. Underway(up, g)' /\ issued \subseteq issued'
  BY <1>9, <1>14, <1>15, <1>16 DEF Underway
<1> QED
  BY <1>1, <1>11, <1>12, <1>13, <1>17, AgreeAgain

LEMMA ExpireSessionAgrees ==
  ASSUME NEW G, LifeSound(G), Apart(G), NEW up \in BOOLEAN, AllAgree(up), NEW i,
         ExpireSession(i)
  PROVE  AllAgree(up)'
<1>1. /\ CopiesSound(G) /\ CopyOK(room) /\ SocketsSound
  BY DEF LifeSound, CopiesSound
<1>0. PICK h : h = ready[i]
  OBVIOUS
<1>2. /\ i \in DOMAIN ready /\ h \in SoundHandlers /\ h \in LifeHandler
      /\ h.pc = "leaveSaved" /\ h.pc \in LifePcs
      /\ Underway(up, h) /\ OneEach /\ SeatsAgree(up)
  BY <1>0, <1>1, HandlerResumes DEF LifePcs, ExpireSession
<1>3. Issuance /\ OneSessionEach /\ SeatedOnRecord
  BY <1>2 DEF SeatsAgree
<1>4. h.who \in PlayerIds /\ h.who # NoPlayer /\ h.session \in SessionIds
  BY <1>2, NamesAssumption DEF SoundHandlers
<1>5. Seats(h.who) = {} /\ sessions[h.session] \in {h.who, NoPlayer} /\ h.session \in issued
  BY <1>2, <1>4 DEF Underway, SessionIsOwn, PlayerIsGone, LeavingPcs
<1>6. PICK g : g = [h EXCEPT !.pc = "leaveExpires"]
  OBVIOUS
<1>7. /\ g.pc = "leaveExpires" /\ g.st = h.st /\ g.who = h.who /\ g.session = h.session
      /\ g.socket = h.socket
  BY <1>2, <1>6 DEF LifeHandler
<1>8. /\ Await(i, g)
      /\ expiring' \subseteq expiring \cup {h.session}
      /\ UNCHANGED <<room, sessions, issued, sockets, managerVars>>
  BY <1>0, <1>6 DEF ExpireSession
<1>9. Replaces(h, {g})
  BY <1>0, <1>1, <1>2, <1>7, <1>8, SameHandler, InFlightSound, HandlerAwaits
<1>10. SeatsAgree(up)'
  <2>1. Issuance'
    BY <1>3, <1>5, <1>8, IssuanceKept
  <2>2. OneSessionEach'
    BY <1>3, <1>8 DEF OneSessionEach
  <2>3. \A p : ~Returning(h, p) /\ (Moving(h, p) => SomeMoving({g}, p))
    BY <1>2, <1>7 DEF Moving, SomeMoving, Returning, MovingPcs, LeavingPcs
  <2>4. ASSUME NEW s \in Sockets, IsOpen(s), HasSession(s), ~Returns(sockets[s].player)
        PROVE  sockets[s].session # h.session
    <3>1. sessions[sockets[s].session] = sockets[s].player /\ sockets[s].player # NoPlayer
      BY <1>3, <2>4 DEF SeatedOnRecord, HasSession
    <3>2. sockets[s].player # h.who
      BY <1>5, <2>4, OpenSeat
    <3> QED
      BY <1>5, <3>1, <3>2
  <2> QED
    BY <1>2, <1>8, <1>9, <2>1, <2>2, <2>3, <2>4, SessionsMove
<1>11. ASSUME NEW f \in LifeInFlight, Separate(f, h)
       PROVE  Untouched(up, f)
  <2>1. f.who # h.who /\ (f.who # NoPlayer /\ f.session = h.session => f.session = NoSession)
    BY <1>2, <1>4, <1>11, OtherPlayer
  <2>2. SessionsUntouched(f)
    BY <1>8, <2>1, NamesAssumption DEF SessionsUntouched
  <2> QED
    BY <1>8, <2>2, NothingTouched DEF Untouched, managerVars
<1>12. RoomIsGone(g)' /\ SessionIsOwn(g)' /\ SocketWaits(g)'
  BY <1>2, <1>7, <1>8 DEF Underway, RoomIsGone, SessionIsOwn, SocketWaits, WaysIn
<1>13. PlayerIsNew(g)' /\ PlayerIsBack(g)'
  BY <1>7 DEF PlayerIsNew, PlayerIsBack, NewPlayerPcs, ReturnPcs
<1>14. PlayerIsGone(up, g)'
  <2>1. Seats(h.who)' = Seats(h.who)
    BY <1>8, SocketsStay
  <2>2. UNCHANGED <<playerIds, reconnecting>>
    BY <1>8 DEF managerVars
  <2> QED
    BY <1>2, <1>4, <1>7, <1>8, <2>1, <2>2 DEF Underway, PlayerIsGone, LeavingPcs
<1>15. Underway(up, g)' /\ issued \subseteq issued'
  BY <1>8, <1>12, <1>13, <1>14 DEF Underway
<1> QED
  BY <1>1, <1>9, <1>10, <1>11, <1>15, AgreeAgain

(* The player who left has a minute to come back.                          *)
LEMMA WindowOpens ==
  ASSUME NEW G, LifeSound(G), Apart(G), NEW up \in BOOLEAN, AllAgree(up), NEW i,
         OpenReconnectWindow(i)
  PROVE  AllAgree(up)'
<1>1. /\ CopiesSound(G) /\ CopyOK(room) /\ ManagerSound
  BY DEF LifeSound, CopiesSound
<1>0. PICK h : h = ready[i]
  OBVIOUS
<1>2. /\ i \in DOMAIN ready /\ h \in SoundHandlers /\ h \in LifeHandler
      /\ h.pc = "leaveExpires" /\ h.pc \in LifePcs
      /\ Underway(up, h) /\ OneEach /\ SeatsAgree(up)
  BY <1>0, <1>1, HandlerResumes DEF LifePcs, OpenReconnectWindow
<1>3. /\ Issuance /\ OneSessionEach /\ OneSocketEach /\ TimersNeat(up)
      /\ SeatedKept(up) /\ SeatedOnRecord /\ AbsentTimed(up)
  BY <1>2 DEF SeatsAgree
<1>4. h.who \in PlayerIds /\ h.who # NoPlayer
  BY <1>2, NamesAssumption DEF SoundHandlers
<1>5. /\ Seats(h.who) = {} /\ h.who \in PlayersIn(room) \ PlayersOn(room)
      /\ up => h.who \in playerIds /\ reconnecting[h.who] = Manager!NoTimer
  BY <1>2, <1>4 DEF Underway, PlayerIsGone, LeavingPcs
<1>6. /\ Manager!RemovePlayer(h.who) /\ Finish(i)
      /\ UNCHANGED <<room, sessions, expiring, issued, sockets>>
  BY <1>0 DEF OpenReconnectWindow, Finish
<1>7. UNCHANGED <<managed, playerIds, emptying>>
  BY <1>6 DEF Manager!RemovePlayer, Manager!managerVars
<1>8. Replaces(h, {})
  BY <1>0, <1>1, <1>2, <1>6, InFlightSound, HandlerEnds DEF Finish
<1>9. /\ ~up => UNCHANGED reconnecting
      /\ up => /\ reconnecting'[h.who] = OneTimer
               /\ \A p \in PlayerIds : p # h.who => reconnecting'[p] = reconnecting[p]
  <2>1. CASE up
    <3>1. managed
      BY <1>3, <1>5, <2>1 DEF TimersNeat, PlayersIn
    <3>2. reconnecting \in [PlayerIds -> Manager!Timers]
      BY <1>1 DEF ManagerSound, Manager!ManagerTypeOK
    <3>3. reconnecting' = [reconnecting EXCEPT ![h.who] = Manager!Set(reconnecting[h.who])]
      BY <1>6, <3>1 DEF Manager!RemovePlayer
    <3>4. Manager!Set(Manager!NoTimer) = OneTimer
      BY DEF Manager!Set, Manager!NoTimer, OneTimer
    <3> QED
      BY <1>4, <1>5, <2>1, <3>2, <3>3, <3>4
  <2>2. CASE ~up
    BY <1>3, <1>6, <2>2 DEF TimersNeat, Manager!RemovePlayer, Manager!managerVars
  <2> QED
    BY <2>1, <2>2
<1>10. \A p : (p # h.who => ~Moving(h, p)) /\ ~Returning(h, p)
  BY <1>2 DEF Moving, Returning
<1>11. /\ \A p : Seats(p)' = Seats(p)
       /\ \A s : (HasSession(s)' <=> HasSession(s)) /\ (IsOpen(s)' <=> IsOpen(s))
  BY <1>6, SocketsStay
<1>12. Issuance' /\ OneSessionEach' /\ OneSocketEach'
  BY <1>3, <1>6 DEF Issuance, OneSessionEach, OneSocketEach, IsOpen, HasSession
<1>13. TimersNeat(up)'
  <2>1. CASE up
    <3>1. \A p \in PlayerIds :
            Neat(reconnecting'[p]) /\ (reconnecting'[p] = OneTimer => p \in playerIds)
      BY <1>3, <1>5, <1>9, <2>1 DEF TimersNeat, Neat
    <3> QED
      BY <1>3, <1>6, <1>7, <2>1, <3>1 DEF TimersNeat
  <2>2. CASE ~up
    BY <1>3, <1>7, <1>9, <2>2 DEF TimersNeat
  <2> QED
    BY <2>1, <2>2
<1>14. SeatedKept(up)'
  <2> SUFFICES ASSUME up, NEW s \in Sockets, IsOpen(s), HasSession(s)
               PROVE  /\ managed /\ sockets[s].player \in playerIds
                      /\ reconnecting'[sockets[s].player] = Manager!NoTimer
                      /\ emptying = Manager!NoTimer
    BY <1>6, <1>7, <1>11 DEF SeatedKept
  <2>1. sockets[s].player # h.who /\ sockets[s].player \in PlayersOn(room)
    BY <1>3, <1>5, OpenSeat DEF SeatedOnRecord
  <2>2. sockets[s].player \in PlayerIds
    BY <1>1, <2>1, PlayersOf DEF CopyOK, PlayersOn
  <2> QED
    BY <1>3, <1>9, <2>1, <2>2 DEF SeatedKept
<1>15. SeatedOnRecord'
  <2> SUFFICES ASSUME NEW s \in Sockets, IsOpen(s), HasSession(s), NEW q, q = sockets[s].player
               PROVE  /\ q \in PlayersOn(room)
                      /\ \/ sessions[sockets[s].session] = q /\ sockets[s].session \notin expiring
                         \/ Returns(q)'
    BY <1>6, <1>11 DEF SeatedOnRecord, Returns, SomeReturning
  <2> QED
    BY <1>3, <1>8, <1>10, MovesOn DEF SeatedOnRecord
<1>16. AbsentTimed(up)'
  <2> SUFFICES ASSUME up, NEW p \in PlayersIn(room), Seats(p) = {}
               PROVE  \/ p \in playerIds /\ p \notin PlayersOn(room) /\ reconnecting'[p] = OneTimer
                      \/ p \notin playerIds /\ p \in OwnersIn(room)
                      \/ OnTheMove(p)'
    BY <1>6, <1>7, <1>11 DEF AbsentTimed
  <2>1. CASE p = h.who
    BY <1>5, <1>9, <2>1
  <2>2. CASE p # h.who
    <3>1. p \in PlayerIds
      BY <1>1, PlayersOf DEF CopyOK, PlayersIn
    <3>2. OnTheMove(p) => OnTheMove(p)'
      BY <1>8, <1>10, <2>2, MovesOn
    <3> QED
      BY <1>3, <1>9, <2>2, <3>1, <3>2 DEF AbsentTimed
  <2> QED
    BY <2>1, <2>2
<1>17. SeatsAgree(up)'
  BY <1>12, <1>13, <1>14, <1>15, <1>16 DEF SeatsAgree
<1>18. ASSUME NEW f \in LifeInFlight, Separate(f, h)
       PROVE  Untouched(up, f)
  <2>1. f.who # h.who
    BY <1>2, <1>4, <1>18, OtherPlayer
  <2>2. ManagerUntouched(up, f)
    BY <1>7, <1>9, <2>1 DEF ManagerUntouched
  <2> QED
    BY <1>6, <2>2, NothingTouched DEF Untouched
<1>19. issued \subseteq issued'
  BY <1>6
<1> QED
  BY <1>1, <1>8, <1>17, <1>18, <1>19, AgreeAgain

LEMMA LeaveStepsAgree ==
  ASSUME NEW G, LifeSound(G), Apart(G), NEW up \in BOOLEAN, AllAgree(up), NEW i, ~lostUpdate',
         \/ IgnoreLeaver(i) \/ LoadForLeaver(i) \/ SaveDisconnected(i)
         \/ ExpireSession(i) \/ OpenReconnectWindow(i)
  PROVE  AllAgree(up)'
  BY IgnoreLeaverAgrees, LoadForLeaverAgrees, SaveDisconnectedAgrees, ExpireSessionAgrees,
     WindowOpens

(***************************************************************************)
(* Timers.                                                                 *)
(***************************************************************************)
(* A handler for whom a session expires is either on the way out, or has   *)
(* not yet found the session it was given.                                 *)
LEMMA UnderwayAfterExpiry ==
  ASSUME NEW up \in BOOLEAN, NEW f \in SoundHandlers, Underway(up, f), SocketsSound,
         NEW t \in SessionIds, SessionExpires(t)
  PROVE  Underway(up, f)'
<1>1. /\ t \in expiring /\ expiring' = expiring \ {t} /\ sessions'[t] = NoPlayer
      /\ \A u \in SessionIds \ {t} : sessions'[u] = sessions[u]
      /\ UNCHANGED <<room, issued, sockets, managerVars>>
  BY DEF SessionExpires, SocketsSound, storeVars
<1>2. /\ f.who # NoPlayer /\ f.pc # "expiredLoad" => f.session \in SessionIds
      /\ f.pc \notin {"reconnectSession", "leaveSession", "joinLoad"} => f.who # NoPlayer
  BY NamesAssumption DEF SoundHandlers
<1>3. /\ \A p : Seats(p)' = Seats(p)
      /\ \A s : (HasSession(s)' <=> HasSession(s)) /\ (IsOpen(s)' <=> IsOpen(s))
      /\ UNCHANGED <<playerIds, reconnecting>>
  BY <1>1, SocketsStay DEF managerVars
<1>4. ASSUME NEW u \in SessionIds
      PROVE  /\ sessions'[u] \in {sessions[u], NoPlayer}
             /\ u \notin expiring => sessions'[u] = sessions[u] /\ u \notin expiring'
  BY <1>1
<1>5. \A u \in SessionIds : \A p : sessions'[u] = p /\ p # NoPlayer => sessions[u] = p
  BY <1>4
<1>6. RoomIsGone(f)' /\ SocketWaits(f)'
  BY <1>1, <1>3 DEF Underway, RoomIsGone, SocketWaits
<1>7. SessionIsOwn(f)'
  BY <1>1, <1>2, <1>4 DEF Underway, SessionIsOwn
<1>8. PlayerIsNew(f)'
  <2>1. PlayerIsNew(f)
    BY DEF Underway
  <2>2. f.pc \in NewPlayerPcs => f.who # NoPlayer /\ f.session \in SessionIds
    BY <1>2 DEF NewPlayerPcs
  <2>3. f.pc \in {"createSaved", "joinSaved", "createSessionSaved", "joinSessionSaved"} =>
          f.pc \in NewPlayerPcs
    BY DEF NewPlayerPcs
  <2> QED
    BY <1>1, <1>4, <1>5, <2>1, <2>2, <2>3 DEF PlayerIsNew
<1>9. PlayerIsBack(f)'
  <2>1. PlayerIsBack(f)
    BY DEF Underway
  <2>2. f.pc \in ReturnPcs => f.pc # "expiredLoad"
    BY DEF ReturnPcs
  <2> QED
    BY <1>1, <1>2, <1>3, <1>4, <1>5, <2>1, <2>2 DEF PlayerIsBack
<1>10. PlayerIsGone(up, f)'
  <2>1. PlayerIsGone(up, f)
    BY DEF Underway
  <2> QED
    BY <1>1, <1>3, <2>1 DEF PlayerIsGone
<1> QED
  BY <1>6, <1>7, <1>8, <1>9, <1>10 DEF Underway

LEMMA SessionExpiresAgrees ==
  ASSUME NEW G, LifeSound(G), Apart(G), NEW up \in BOOLEAN, AllAgree(up),
         NEW t \in SessionIds, SessionExpires(t)
  PROVE  AllAgree(up)'
<1>1. /\ CopiesSound(G) /\ CopyOK(room) /\ SocketsSound /\ SeatsAgree(up) /\ OneEach
      /\ Issuance /\ OneSessionEach /\ SeatedOnRecord
  BY DEF LifeSound, CopiesSound, AllAgree, SeatsAgree
<1>2. /\ t \in expiring /\ expiring' = expiring \ {t} /\ sessions'[t] = NoPlayer
      /\ \A u \in SessionIds \ {t} : sessions'[u] = sessions[u]
      /\ UNCHANGED <<room, queue, ready, issued, sockets, managerVars>>
  BY <1>1 DEF SessionExpires, SocketsSound, storeVars
<1>3. Replaces(Idle, {}) /\ LifeInFlight' = LifeInFlight
  BY <1>1, <1>2, NobodyReplaced
<1>4. SeatsAgree(up)'
  <2>1. Issuance'
    <3>1. \A u \in SessionIds : sessions'[u] \in {sessions[u], NoPlayer}
      BY <1>2
    <3> QED
      BY <1>1, <1>2, <3>1, IssuanceKept
  <2>2. OneSessionEach'
    BY <1>1, <1>2 DEF OneSessionEach
  <2>3. ASSUME NEW s \in Sockets, IsOpen(s), HasSession(s), ~Returns(sockets[s].player)
        PROVE  sessions'[sockets[s].session] = sessions[sockets[s].session]
    <3>1. sockets[s].session \notin expiring /\ sockets[s].session \in SessionIds
      BY <1>1, <2>3 DEF SeatedOnRecord, SocketsSound
    <3> QED
      BY <1>2, <3>1
  <2>4. expiring' \subseteq expiring
    BY <1>2
  <2> QED
    BY <1>1, <1>2, <1>3, <2>1, <2>2, <2>3, <2>4, IdleNeverMoves, SessionsMove
<1>5. ASSUME NEW f \in LifeInFlight'
      PROVE  Underway(up, f)'
  <2>1. f \in SoundHandlers /\ Underway(up, f)
    BY <1>1, <1>3, InFlightSound DEF AllAgree
  <2> QED
    BY <1>1, <2>1, UnderwayAfterExpiry
<1> QED
  BY <1>3, <1>4, <1>5 DEF AllAgree, Replaces

(* A timer that fires was on record, and the RoomManager knows the room.   *)
LEMMA NeatPending ==
  ASSUME NEW t, Neat(t)
  PROVE  /\ t.pending > 0 <=> t = OneTimer
         /\ Manager!NoTimer # OneTimer /\ Neat(Manager!NoTimer) /\ Neat(OneTimer)
         /\ Manager!Fire(OneTimer) = Manager!NoTimer
         /\ Manager!Set(Manager!NoTimer) = OneTimer
<1>1. /\ Manager!NoTimer.pending = 0 /\ OneTimer.pending = 1
      /\ Neat(Manager!NoTimer) /\ Neat(OneTimer)
  BY DEF Neat, OneTimer, Manager!NoTimer
<1>2. Manager!Fire(OneTimer) = Manager!NoTimer
  BY DEF Manager!Fire, OneTimer, Manager!NoTimer
<1>3. Manager!Set(Manager!NoTimer) = OneTimer
  BY DEF Manager!Set, OneTimer, Manager!NoTimer
<1>4. t.pending > 0 <=> t = OneTimer
  BY <1>1 DEF Neat
<1> QED
  BY <1>1, <1>2, <1>3, <1>4

LEMMA ReconnectTimeoutAgrees ==
  ASSUME NEW G, LifeSound(G), Apart(G), NEW up \in BOOLEAN, AllAgree(up),
         NEW p \in PlayerIds, ReconnectTimeout(p), ~crossed'
  PROVE  AllAgree(up)'
<1>1. /\ CopiesSound(G) /\ CopyOK(room) /\ ManagerSound /\ SeatsAgree(up) /\ OneEach
      /\ Issuance /\ OneSessionEach /\ OneSocketEach /\ TimersNeat(up)
      /\ SeatedKept(up) /\ SeatedOnRecord /\ AbsentTimed(up)
  BY DEF LifeSound, CopiesSound, AllAgree, SeatsAgree
<1>2. /\ Manager!ReconnectTimerFires(p)
      /\ UNCHANGED <<room, sessions, expiring, issued, sockets>>
  BY DEF ReconnectTimeout
<1>3. PICK g : g = [NewHandler("expiredLoad") EXCEPT !.st = room, !.who = p]
  OBVIOUS
<1>4. /\ g.pc = "expiredLoad" /\ g.st = room /\ g.who = p /\ g.socket = NoSocket
      /\ g.session = NoSession
  BY <1>3 DEF NewHandler
<1>5. Begin(g)
  BY <1>3 DEF ReconnectTimeout
<1>6. /\ p # NoPlayer /\ ~ActedFor(p) /\ \A f \in LifeInFlight : f.who # p
  <2>1. p # NoPlayer /\ ~ActedFor(p)
    BY NamesAssumption DEF ReconnectTimeout, Crosses
  <2> QED
    BY <2>1, NobodyActs
<1>7. Replaces(Idle, {g})
  <2>1. \A f \in LifeInFlight : Separate(f, g)
    BY <1>4, <1>6 DEF Separate
  <2> QED
    BY <1>1, <1>5, <2>1, InFlightSound, HandlerBegins
<1>8. reconnecting[p].pending > 0
  BY <1>2 DEF Manager!ReconnectTimerFires
<1>9. up /\ reconnecting[p] = OneTimer /\ p \in playerIds
  <2>1. up
    BY <1>1, <1>8 DEF TimersNeat, Manager!NoTimer
  <2> QED
    BY <1>1, <1>8, <2>1, NeatPending DEF TimersNeat
<1>10. emptying = Manager!NoTimer
  BY <1>1, <1>9 DEF TimersNeat, Neat
<1>11. /\ reconnecting'[p] = Manager!NoTimer
       /\ \A q \in PlayerIds : q # p => reconnecting'[q] = reconnecting[q]
       /\ playerIds' = playerIds \ {p} /\ managed' = managed
       /\ emptying' = IF playerIds' = {} THEN OneTimer ELSE Manager!NoTimer
  <2>1. reconnecting \in [PlayerIds -> Manager!Timers]
    BY <1>1 DEF ManagerSound, Manager!ManagerTypeOK
  <2>2. /\ reconnecting' = [reconnecting EXCEPT ![p] = Manager!Fire(reconnecting[p])]
        /\ playerIds' = playerIds \ {p} /\ managed' = managed
        /\ emptying' = IF playerIds' = {} THEN Manager!Set(emptying) ELSE emptying
    BY <1>2 DEF Manager!ReconnectTimerFires
  <2>3. Neat(OneTimer)
    BY DEF Neat
  <2> QED
    BY <1>9, <1>10, <2>1, <2>2, <2>3, NeatPending
<1>12. /\ \A q : Seats(q)' = Seats(q)
       /\ \A s : (HasSession(s)' <=> HasSession(s)) /\ (IsOpen(s)' <=> IsOpen(s))
  BY <1>2, SocketsStay
<1>13. ASSUME NEW s \in Sockets, IsOpen(s), HasSession(s)
       PROVE  /\ managed /\ sockets[s].player \in playerIds
              /\ reconnecting[sockets[s].player] = Manager!NoTimer
              /\ sockets[s].player \in PlayerIds /\ sockets[s].player # p
  <2>1. sockets[s].player \in PlayerIds
    BY <1>1, <1>13, PlayersOf DEF SeatedOnRecord, CopyOK, PlayersOn
  <2>2. /\ managed /\ sockets[s].player \in playerIds
        /\ reconnecting[sockets[s].player] = Manager!NoTimer
    BY <1>1, <1>9, <1>13 DEF SeatedKept
  <2>3. Manager!NoTimer # OneTimer
    BY DEF Manager!NoTimer, OneTimer
  <2> QED
    BY <1>9, <2>1, <2>2, <2>3
<1>14. SeatsAgree(up)'
  <2>1. Issuance' /\ OneSessionEach' /\ OneSocketEach'
    BY <1>1, <1>2 DEF Issuance, OneSessionEach, OneSocketEach, IsOpen, HasSession
  <2>2. TimersNeat(up)'
    <3>1. Neat(Manager!NoTimer) /\ Neat(OneTimer) /\ Manager!NoTimer # OneTimer
      BY DEF Neat, Manager!NoTimer, OneTimer
    <3>2. \A q \in PlayerIds :
            Neat(reconnecting'[q]) /\ (reconnecting'[q] = OneTimer => q \in playerIds')
      BY <1>1, <1>9, <1>11, <3>1 DEF TimersNeat
    <3>3. Neat(emptying') /\ (emptying' = OneTimer => playerIds' = {})
      BY <1>11, <3>1
    <3>4. (~managed' => room' = NoRoom) /\ playerIds' \subseteq issued'
      BY <1>1, <1>2, <1>9, <1>11 DEF TimersNeat
    <3> QED
      BY <1>9, <3>2, <3>3, <3>4 DEF TimersNeat
  <2>3. SeatedKept(up)'
    <3> SUFFICES ASSUME NEW s \in Sockets, IsOpen(s), HasSession(s)
                 PROVE  /\ managed' /\ sockets[s].player \in playerIds'
                        /\ reconnecting'[sockets[s].player] = Manager!NoTimer
                        /\ emptying' = Manager!NoTimer
      BY <1>2, <1>12 DEF SeatedKept
    <3> QED
      BY <1>11, <1>13
  <2>4. SeatedOnRecord'
    <3> SUFFICES ASSUME NEW s \in Sockets, IsOpen(s), HasSession(s), NEW q, q = sockets[s].player
                 PROVE  /\ q \in PlayersOn(room)
                        /\ \/ sessions[sockets[s].session] = q /\ sockets[s].session \notin expiring
                           \/ Returns(q)'
      BY <1>2, <1>12 DEF SeatedOnRecord, Returns, SomeReturning
    <3> QED
      BY <1>1, <1>7, IdleNeverMoves, MovesOn DEF SeatedOnRecord
  <2>5. AbsentTimed(up)'
    <3> SUFFICES ASSUME NEW q \in PlayersIn(room), Seats(q) = {}
                 PROVE  \/ q \in playerIds' /\ q \notin PlayersOn(room) /\ reconnecting'[q] = OneTimer
                        \/ q \notin playerIds' /\ q \in OwnersIn(room)
                        \/ OnTheMove(q)'
      BY <1>2, <1>12 DEF AbsentTimed
    <3>1. CASE q = p
      <4>1. SomeMoving({g}, q)
        BY <1>4, <3>1 DEF Moving, SomeMoving, MovingPcs
      <4> QED
        BY <1>7, <4>1, MovesOn
    <3>2. CASE q # p
      <4>1. q \in PlayerIds
        BY <1>1, PlayersOf DEF CopyOK, PlayersIn
      <4>2. OnTheMove(q) => OnTheMove(q)'
        BY <1>7, IdleNeverMoves, MovesOn
      <4> QED
        BY <1>1, <1>9, <1>11, <3>2, <4>1, <4>2 DEF AbsentTimed
    <3> QED
      BY <3>1, <3>2
  <2> QED
    BY <2>1, <2>2, <2>3, <2>4, <2>5 DEF SeatsAgree
<1>15. ASSUME NEW f \in LifeInFlight
       PROVE  Untouched(up, f)
  <2>1. ManagerUntouched(up, f)
    BY <1>6, <1>11 DEF ManagerUntouched
  <2> QED
    BY <1>2, <2>1, NothingTouched DEF Untouched
<1>16. RoomIsGone(g)' /\ SocketWaits(g)' /\ PlayerIsNew(g)' /\ PlayerIsBack(g)'
  BY <1>2, <1>4
  DEF RoomIsGone, SocketWaits, PlayerIsNew, PlayerIsBack, WaysIn, NewPlayerPcs, ReturnPcs
<1>17. SessionIsOwn(g)'
  <2>1. p \in issued'
    BY <1>1, <1>2, <1>9 DEF TimersNeat
  <2> QED
    BY <1>4, <2>1 DEF SessionIsOwn
<1>18. PlayerIsGone(up, g)'
  <2>1. Seats(p)' = {}
    <3>1. \A s \in Sockets : IsOpen(s) /\ sockets[s].player = p => HasSession(s)
      BY NamesAssumption DEF HasSession
    <3>2. Seats(p) = {}
      BY <1>13, <3>1 DEF Seats, IsOpen
    <3> QED
      BY <1>12, <3>2
  <2> QED
    BY <1>4, <2>1 DEF PlayerIsGone, LeavingPcs
<1>19. Underway(up, g)' /\ issued \subseteq issued'
  BY <1>2, <1>16, <1>17, <1>18 DEF Underway
<1> QED
  BY <1>1, <1>7, <1>14, <1>15, <1>19, AgreeAgain

(* A room is deleted: no seat is taken, and nobody is on the way in.       *)
LEMMA DeleteEmptyRoomAgrees ==
  ASSUME NEW G, LifeSound(G), Apart(G), NEW up \in BOOLEAN, AllAgree(up),
         DeleteEmptyRoom, ~crossed'
  PROVE  AllAgree(up)'
<1>1. /\ CopiesSound(G) /\ CopyOK(room) /\ ManagerSound /\ SeatsAgree(up) /\ OneEach
      /\ Issuance /\ OneSessionEach /\ OneSocketEach /\ TimersNeat(up) /\ SeatedKept(up)
  BY DEF LifeSound, CopiesSound, AllAgree, SeatsAgree
<1>2. /\ room' = NoRoom
      /\ UNCHANGED <<queue, ready, sessions, expiring, issued, sockets>>
      /\ UNCHANGED <<playerIds, reconnecting>>
      /\ managed' = FALSE /\ emptying.pending > 0
      /\ emptying' = [emptying EXCEPT !.pending = @ - 1, !.onRecord = FALSE]
  BY DEF DeleteEmptyRoom, Manager!EmptyTimerFires
<1>3. OneEach' /\ LifeInFlight' = LifeInFlight
  BY <1>1, <1>2, NobodyReplaced DEF Replaces
<1>4. up /\ emptying = OneTimer /\ playerIds = {}
  <2>1. up
    BY <1>1, <1>2 DEF TimersNeat, Manager!NoTimer
  <2> QED
    BY <1>1, <1>2, <2>1, NeatPending DEF TimersNeat
<1>5. emptying' = Manager!NoTimer
  <2>1. emptying' = [pending |-> 1 - 1, onRecord |-> FALSE]
    BY <1>2, <1>4 DEF OneTimer
  <2>2. 1 - 1 = 0
    OBVIOUS
  <2> QED
    BY <2>1, <2>2 DEF Manager!NoTimer
<1>6. Neat(Manager!NoTimer) /\ Manager!NoTimer # OneTimer
  BY DEF Neat, Manager!NoTimer, OneTimer
<1>7. \A s \in Sockets : IsOpen(s) => ~HasSession(s)
  BY <1>1, <1>4, <1>6 DEF SeatedKept
<1>8. /\ \A p : Seats(p)' = Seats(p)
      /\ \A s : (HasSession(s)' <=> HasSession(s)) /\ (IsOpen(s)' <=> IsOpen(s))
  BY <1>2, SocketsStay
<1>9. PlayersIn(room') = {}
  BY <1>2 DEF PlayersIn
<1>10. SeatsAgree(up)'
  <2>1. Issuance'
    BY <1>1, <1>2, <1>9, IssuanceKept
  <2>2. OneSessionEach' /\ OneSocketEach'
    BY <1>1, <1>2 DEF OneSessionEach, OneSocketEach, IsOpen, HasSession
  <2>3. TimersNeat(up)'
    BY <1>1, <1>2, <1>4, <1>5, <1>6 DEF TimersNeat
  <2>4. SeatedKept(up)' /\ SeatedOnRecord'
    BY <1>7, <1>8 DEF SeatedKept, SeatedOnRecord
  <2>5. AbsentTimed(up)'
    BY <1>9 DEF AbsentTimed
  <2> QED
    BY <2>1, <2>2, <2>3, <2>4, <2>5 DEF SeatsAgree
<1>11. ASSUME NEW f \in LifeInFlight
       PROVE  Underway(up, f)'
  <2>1. f \in SoundHandlers /\ Underway(up, f) /\ f.pc \in LifePcs /\ f.pc \notin WaysIn
    <3>1. f.pc \notin WaysIn
      BY DEF DeleteEmptyRoom, Crosses, SomeoneOnTheWayIn
    <3> QED
      BY <1>1, <3>1, InFlightSound DEF AllAgree, LifeInFlight
  <2>2. f.pc \in LeavingPcs \cup {"expiredLoad"}
    BY <2>1 DEF WaysIn, LeavingPcs
  <2>3. f.pc \in LeavingPcs => f.who = NoPlayer /\ f.pc = "leaveSession"
    BY <1>4, <2>1 DEF Underway, PlayerIsGone
  <2>4. RoomIsGone(f)' /\ SessionIsOwn(f)' /\ SocketWaits(f)'
    BY <1>2, <2>1 DEF Underway, RoomIsGone, SessionIsOwn, SocketWaits
  <2>5. PlayerIsNew(f)' /\ PlayerIsBack(f)'
    BY <2>2 DEF PlayerIsNew, PlayerIsBack, NewPlayerPcs, ReturnPcs, LeavingPcs
  <2>6. PlayerIsGone(up, f)'
    <3>1. f.pc = "expiredLoad" => Seats(f.who)' = {}
      BY <1>8, <2>1 DEF Underway, PlayerIsGone
    <3> QED
      BY <2>3, <3>1 DEF PlayerIsGone
  <2> QED
    BY <2>4, <2>5, <2>6 DEF Underway
<1> QED
  BY <1>3, <1>10, <1>11 DEF AllAgree

(* The player whose minute is over is put out.                             *)
LEMMA SaveWithoutAgrees ==
  ASSUME NEW G, LifeSound(G), Apart(G), NEW up \in BOOLEAN, AllAgree(up), NEW i,
         SaveWithoutPlayer(i), ~lostUpdate'
  PROVE  AllAgree(up)'
<1>1. CopiesSound(G) /\ CopyOK(room)
  BY DEF LifeSound, CopiesSound
<1>0. PICK h : h = ready[i]
  OBVIOUS
<1>2. /\ i \in DOMAIN ready /\ h.pc = "expiredLoad" /\ h.pc \in LifePcs
      /\ h \in SoundHandlers /\ Underway(up, h) /\ OneEach /\ SeatsAgree(up)
  BY <1>0, <1>1, HandlerResumes DEF LifePcs, SaveWithoutPlayer
<1>3. h.st = room /\ Seats(h.who) = {} /\ h.who # NoPlayer
  <2>1. h.st = room
    BY <1>0 DEF SaveWithoutPlayer, SaveRoomAndFinish
  <2> QED
    BY <1>2, <2>1, NamesAssumption DEF Underway, PlayerIsGone, SoundHandlers
<1>4. SoundRoom(room) /\ room # NoRoom
  BY <1>0, <1>1, <1>3 DEF SaveWithoutPlayer, CopyOK
<1>5. /\ ready' = RemoveAt(ready, i) /\ queue' = queue
      /\ room' = WithoutPlayer(room, h.who)
      /\ UNCHANGED <<sessions, expiring, issued, sockets, managerVars>>
  BY <1>0, <1>3 DEF SaveWithoutPlayer, SaveRoomAndFinish, lifeVars
<1>6. /\ PlayersIn(room') = PlayersIn(room) \ {h.who}
      /\ PlayersOn(room') = PlayersOn(room) \ {h.who}
      /\ OwnersIn(room') = OwnersIn(room) \ {h.who}
  BY <1>4, <1>5, PlayerPutOut
<1>7. Replaces(h, {})
  BY <1>0, <1>1, <1>2, <1>5, InFlightSound, HandlerEnds
<1>8. SeatsAgree(up)'
  <2>1. \A p : ~Returning(h, p) /\ (Moving(h, p) => p = h.who)
    BY <1>2 DEF Moving, Returning
  <2> QED
    BY <1>1, <1>2, <1>3, <1>4, <1>5, <1>6, <1>7, <2>1, RecordMoves
<1>9. ASSUME NEW f \in LifeInFlight, Separate(f, h)
      PROVE  Untouched(up, f)
  <2>1. f.who # h.who
    BY <1>2, <1>3, <1>9, OtherPlayer
  <2> QED
    BY <1>4, <1>5, <1>6, <2>1, OthersUntouched
<1>10. issued \subseteq issued'
  BY <1>5
<1> QED
  BY <1>1, <1>7, <1>8, <1>9, <1>10, AgreeAgain

(***************************************************************************)
(* Replies arrive, and time passes.                                        *)
(***************************************************************************)
LEMMA SameWorld ==
  ASSUME NEW up, AllAgree(up), OneEach', LifeInFlight' = LifeInFlight,
         UNCHANGED <<room, sessions, expiring, issued, sockets, managed, playerIds,
                     reconnecting, emptying>>
  PROVE  AllAgree(up)'
<1>1. /\ Issuance' /\ OneSessionEach' /\ OneSocketEach' /\ TimersNeat(up)'
      /\ SeatedKept(up)'
  BY DEF AllAgree, SeatsAgree, Issuance, OneSessionEach, OneSocketEach, TimersNeat,
     SeatedKept, IsOpen, HasSession
<1>2. SeatedOnRecord'
  BY DEF AllAgree, SeatsAgree, SeatedOnRecord, Returns, IsOpen, HasSession
<1>3. AbsentTimed(up)'
  BY DEF AllAgree, SeatsAgree, AbsentTimed, OnTheMove, Seats
<1>4. ASSUME NEW f \in LifeInFlight'
      PROVE  Underway(up, f)'
  <2>1. Underway(up, f)
    BY <1>4 DEF AllAgree
  <2>2. RoomIsGone(f)' /\ SessionIsOwn(f)' /\ SocketWaits(f)' /\ PlayerIsNew(f)'
    BY <2>1 DEF Underway, RoomIsGone, SessionIsOwn, SocketWaits, PlayerIsNew, IsOpen, HasSession
  <2>3. PlayerIsBack(f)'
    BY <2>1 DEF Underway, PlayerIsBack, Seats
  <2>4. PlayerIsGone(up, f)'
    BY <2>1 DEF Underway, PlayerIsGone, Seats
  <2> QED
    BY <2>2, <2>3, <2>4 DEF Underway
<1> QED
  BY <1>1, <1>2, <1>3, <1>4 DEF AllAgree, SeatsAgree

LEMMA DeliverAgrees ==
  ASSUME NEW G, LifeSound(G), NEW up \in BOOLEAN, AllAgree(up), LifeReplies
  PROVE  AllAgree(up)'
<1>1. OneEach' /\ LifeInFlight' = LifeInFlight
  BY HandlersDelivered DEF AllAgree, LifeReplies, LifeSound, CopiesSound
<1> QED
  BY <1>1, SameWorld DEF LifeReplies, Deliver, lifeVars, managerVars

(***************************************************************************)
(* Every step.                                                             *)
(***************************************************************************)
LEMMA RoomOpens ==
  ASSUME NEW G, LifeSound(G), LifeInit,
         NEW s \in Sockets \cup {NoSocket}, NEW name \in Names,
         \/ s \in Sockets /\ CreateRoomOnSocket(s, name)
         \/ s = NoSocket /\ PostRoom(name)
  PROVE  AllAgree(TRUE)'
<1>1. CreateRoom(s, name)
  BY DEF CreateRoomOnSocket, PostRoom
<1>2. PICK p \in Fresh(PlayerIds), t \in Fresh(SessionIds) :
        /\ NameOf[p] = name
        /\ issued' = {p, t}
        /\ room' = LobbyRoom(<<p>>, {p})
        /\ Begin([NewHandler("createSaved") EXCEPT !.st = room', !.who = p, !.socket = s,
                                          !.name = name, !.session = t])
  BY <1>1 DEF CreateRoom
<1>3. p \in PlayerIds /\ t \in SessionIds /\ p # NoPlayer /\ t # NoSession
  BY NamesAssumption DEF Fresh
<1>4. /\ PlayersIn(room') = {p} /\ PlayersOn(room') = {p} /\ OwnersIn(room') = {p}
  BY <1>2, <1>3, OwnerAlone
<1>5. PICK g : g = [NewHandler("createSaved") EXCEPT !.st = room', !.who = p, !.socket = s,
                                                     !.name = name, !.session = t]
  OBVIOUS
<1>6. g.pc = "createSaved" /\ g.st = room' /\ g.who = p /\ g.socket = s /\ g.session = t
  BY <1>5 DEF NewHandler
<1>7. OneEach' /\ LifeInFlight' \subseteq {g}
  <2>1. queue = <<>> /\ ready = <<>> /\ Begin(g)
    BY <1>2, <1>5 DEF LifeInit, StoreInit
  <2>2. /\ queue \in Seq(G \cup SoundHandlers) /\ ready \in Seq(G \cup SoundHandlers)
    BY DEF LifeSound, CopiesSound
  <2>3. ToSet(queue) = {} /\ ToSet(ready) = {} /\ DOMAIN queue = {} /\ DOMAIN ready = {}
    BY <2>1 DEF ToSet
  <2>4. OneEach /\ LifeInFlight = {}
    BY <2>3 DEF OneEach, AllSeparate, LifeInFlight
  <2>5. Replaces(Idle, {g})
    BY <2>1, <2>2, <2>4, HandlerBegins
  <2> QED
    BY <2>4, <2>5 DEF Replaces
<1>8. /\ sessions = [u \in SessionIds |-> NoPlayer] /\ expiring = {}
      /\ sockets = [r \in Sockets |-> NewSocket] /\ playerIds = {}
      /\ reconnecting = [q \in PlayerIds |-> Manager!NoTimer] /\ emptying = Manager!NoTimer
  BY DEF LifeInit, Manager!ManagerInit
<1>9. /\ managed' = TRUE /\ UNCHANGED <<sessions, expiring, playerIds, reconnecting, emptying>>
  BY <1>1 DEF CreateRoom, Manager!CreateRoom
<1>10. /\ \A r \in Sockets : sockets'[r].player = NoPlayer /\ sockets'[r].session = NoSession
       /\ s \in Sockets => sockets'[s].status = "open"
  <2>1. CASE UNCHANGED sockets /\ s = NoSocket
    BY <1>8, <2>1, NamesAssumption DEF NewSocket
  <2>2. CASE s \in Sockets /\ CreateRoomOnSocket(s, name)
    <3>1. sockets' = [sockets EXCEPT ![s] = [NewSocket EXCEPT !.status = "open"]]
      BY <1>8, <2>2 DEF CreateRoomOnSocket
    <3> QED
      BY <1>8, <2>2, <3>1 DEF NewSocket
  <2> QED
    BY <2>1, <2>2 DEF PostRoom
<1>11. \A r \in Sockets : ~HasSession(r)'
  BY <1>10 DEF HasSession
<1>12. Neat(Manager!NoTimer) /\ Manager!NoTimer # OneTimer
  BY DEF Neat, Manager!NoTimer, OneTimer
<1>13. SeatsAgree(TRUE)'
  <2>1. Issuance'
    <3>1. \A u \in SessionIds : /\ sessions'[u] = NoPlayer /\ u \notin expiring'
                                /\ \A r \in Sockets : sockets'[r].session # u
      BY <1>8, <1>9, <1>10, NamesAssumption
    <3>2. ASSUME NEW q \in PlayerIds, q \notin issued'
          PROVE  /\ q \notin PlayersIn(room')
                 /\ \A u \in SessionIds : sessions'[u] # q
                 /\ \A r \in Sockets : sockets'[r].player # q
      BY <1>2, <1>4, <1>8, <1>9, <1>10, <3>2, NamesAssumption
    <3> QED
      BY <1>2, <3>1, <3>2 DEF Issuance
  <2>2. OneSessionEach' /\ OneSocketEach'
    BY <1>8, <1>9, <1>11 DEF OneSessionEach, OneSocketEach
  <2>3. TimersNeat(TRUE)'
    BY <1>8, <1>9, <1>12 DEF TimersNeat
  <2>4. SeatedKept(TRUE)' /\ SeatedOnRecord'
    BY <1>11 DEF SeatedKept, SeatedOnRecord
  <2>5. AbsentTimed(TRUE)'
    BY <1>4, <1>8, <1>9 DEF AbsentTimed
  <2> QED
    BY <2>1, <2>2, <2>3, <2>4, <2>5 DEF SeatsAgree
<1>14. RoomIsGone(g)' /\ SessionIsOwn(g)' /\ SocketWaits(g)'
  <2>1. RoomIsGone(g)'
    BY <1>6 DEF RoomIsGone
  <2>2. SessionIsOwn(g)'
    BY <1>2, <1>3, <1>6, <1>8, <1>9 DEF SessionIsOwn
  <2>3. SocketWaits(g)'
    BY <1>6, <1>10, <1>11 DEF SocketWaits, IsOpen, WaysIn, LifePcs
  <2> QED
    BY <2>1, <2>2, <2>3
<1>15. PlayerIsNew(g)'
  <2>1. /\ sessions'[t] = NoPlayer /\ t \notin expiring'
        /\ \A u \in SessionIds : sessions'[u] # p
        /\ \A r \in Sockets : sockets'[r].player # p
    BY <1>3, <1>8, <1>9, <1>10
  <2> QED
    BY <1>4, <1>6, <2>1 DEF PlayerIsNew
<1>16. PlayerIsBack(g)' /\ PlayerIsGone(TRUE, g)'
  BY <1>6 DEF PlayerIsBack, PlayerIsGone, LeavingPcs, ReturnPcs
<1> QED
  BY <1>7, <1>13, <1>14, <1>15, <1>16 DEF AllAgree, Underway

LEMMA MemberStepsAgree ==
  ASSUME NEW G, LifeSound(G), Apart(G), NEW up \in BOOLEAN, AllAgree(up), NEW i,
         ResumeSilently(i) \/ SeatJoined(i) \/ SaveWithoutPlayer(i), ~lostUpdate'
  PROVE  AllAgree(up)'
<1>1. CASE ResumeSilently(i)
  BY <1>1, CreationStepsAgree, LoadAgrees, SaveReconnectedAgrees, ReplaceSessionAgrees,
     FetchSocketsAgrees, SeatReturnedAgrees, JoinStepsAgree, LeaveStepsAgree,
     IgnoreLeaverAgrees
  DEF ResumeSilently
<1>2. CASE SeatJoined(i) \/ SaveWithoutPlayer(i)
  BY <1>2, JoinStepsAgree, SaveWithoutAgrees
<1> QED
  BY <1>1, <1>2

LEMMA AgreeStep ==
  ASSUME NEW G, LifeSound(G), Apart(G), NEW up \in BOOLEAN, AllAgree(up), LifeNext,
         ~lostUpdate', ~crossed'
  PROVE  AllAgree(up)'
<1>1. issued # {}
  BY DEF AllAgree, SeatsAgree, Issuance
<1>2. \A s, name : ~CreateRoom(s, name)
  BY <1>1 DEF CreateRoom
<1>3. CASE SocketEvent \/ Post
  <2>1. PICK s \in Sockets :
          (\E name \in Names : Join(s, name) \/ Rejoin(s, name)) \/ CloseSocket(s)
    BY <1>2, <1>3 DEF SocketEvent, Post, CreateRoomOnSocket, PostRoom
  <2>2. CASE CloseSocket(s)
    BY <2>2, UnusedSocketCloses, SeatCloses
  <2>3. CASE \E name \in Names : Join(s, name) \/ Rejoin(s, name)
    BY <2>3, JoinAgrees, RejoinAgrees
  <2> QED
    BY <2>1, <2>2, <2>3
<1>4. CASE Expiry
  BY <1>4, SessionExpiresAgrees, ReconnectTimeoutAgrees, DeleteEmptyRoomAgrees DEF Expiry
<1>5. CASE LifeReplies
  BY <1>5, DeliverAgrees
<1>6. CASE ResumeLife
  BY <1>6, MemberStepsAgree DEF ResumeLife
<1> QED
  BY <1>3, <1>4, <1>5, <1>6 DEF LifeNext

LEMMA FirstStep ==
  ASSUME NEW G, LifeSound(G), LifeInit, LifeNext
  PROVE  AllAgree(TRUE)'
<1>1. /\ queue = <<>> /\ ready = <<>> /\ issued = {} /\ expiring = {}
      /\ \A s \in Sockets : sockets[s].status = "new"
      /\ \A n \in Names : tokens[n] = NoSession
      /\ \A p \in PlayerIds : reconnecting[p].pending = 0
      /\ emptying.pending = 0
  BY DEF LifeInit, StoreInit, NewSocket, Manager!ManagerInit, Manager!NoTimer
<1>2. CASE Post
  BY <1>2, RoomOpens DEF Post
<1>3. CASE SocketEvent
  <2>1. PICK s \in Sockets, name \in Names : CreateRoomOnSocket(s, name)
    BY <1>1, <1>3 DEF SocketEvent, Join, Rejoin, CloseSocket
  <2>2. s \in Sockets \cup {NoSocket}
    OBVIOUS
  <2> QED
    BY <2>1, <2>2, RoomOpens
<1>4. ~Expiry
  <2>1. \A t : ~SessionExpires(t)
    BY <1>1 DEF SessionExpires
  <2>2. \A p \in PlayerIds : ~ReconnectTimeout(p)
    <3>1. ~(0 > 0)
      OBVIOUS
    <3> QED
      BY <1>1, <3>1 DEF ReconnectTimeout, Manager!ReconnectTimerFires
  <2>3. ~DeleteEmptyRoom
    BY <1>1 DEF DeleteEmptyRoom, Manager!EmptyTimerFires
  <2> QED
    BY <2>1, <2>2, <2>3 DEF Expiry
<1>5. ~LifeReplies
  <2>1. Len(queue) = 0
    BY <1>1
  <2>2. 1..Len(queue) = {}
    BY <2>1
  <2> QED
    BY <2>2 DEF LifeReplies, Deliver
<1>6. ~ResumeLife
  <2>1. DOMAIN ready = {}
    BY <1>1
  <2> QED
    BY <2>1 DEF ResumeLife
<1> QED
  BY <1>2, <1>3, <1>4, <1>5, <1>6 DEF LifeNext

(* A lost update is not forgotten.                                         *)
LEMMA LossStays ==
  ASSUME lostUpdate,
         \/ SocketEvent \/ Post \/ Expiry
         \/ \E i \in DOMAIN ready : ResumeSilently(i) \/ SeatJoined(i) \/ SaveWithoutPlayer(i)
         \/ UNCHANGED lostUpdate
  PROVE  lostUpdate'
<1>1. CASE SocketEvent \/ Post
  BY <1>1 DEF SocketEvent, Post, CreateRoomOnSocket, PostRoom, CreateRoom, Join, Rejoin, CloseSocket
<1>2. CASE Expiry
  BY <1>2 DEF Expiry, SessionExpires, ReconnectTimeout, DeleteEmptyRoom, storeVars
<1>3. ASSUME NEW i \in DOMAIN ready, ResumeSilently(i) \/ SeatJoined(i) \/ SaveWithoutPlayer(i)
      PROVE  lostUpdate'
  <2>1. CASE SaveReconnected(i) \/ SaveDisconnected(i) \/ SaveWithoutPlayer(i) \/ SaveJoined(i)
    BY <2>1
    DEF SaveReconnected, SaveDisconnected, SaveWithoutPlayer, SaveJoined, SaveRoom, SaveRoomAndFinish
  <2>2. CASE SaveOwnerSession(i) \/ SaveJoinedSession(i)
    BY <2>2 DEF SaveOwnerSession, SaveJoinedSession, SaveSession
  <2>3. CASE \/ SeatOwner(i) \/ AnswerPost(i) \/ RefuseJoin(i) \/ SeatJoined(i)
             \/ IgnoreLeaver(i) \/ IgnoreReconnectTimeout(i) \/ OpenReconnectWindow(i)
    BY <2>3 DEF SeatOwner, AnswerPost, RefuseJoin, SeatJoined, IgnoreLeaver,
       IgnoreReconnectTimeout, OpenReconnectWindow, Finish
  <2>4. CASE LookUpSession(i) \/ GiveUpReconnect(i) \/ LoadForLeaver(i)
    BY <2>4 DEF LookUpSession, GiveUpReconnect, LoadForLeaver, Load
  <2>5. CASE ReplaceSession(i) \/ FetchSockets(i) \/ SeatReturned(i) \/ ExpireSession(i)
    BY <2>5 DEF ReplaceSession, FetchSockets, SeatReturned, ExpireSession
  <2> QED
    BY <1>3, <2>1, <2>2, <2>3, <2>4, <2>5 DEF ResumeSilently
<1> QED
  BY <1>1, <1>2, <1>3

(***************************************************************************)
(* What it says of seats, record and RoomManager, at any time.             *)
(***************************************************************************)
LEMMA SeatsOfPlayers ==
  ASSUME NEW p \in PlayerIds
  PROVE  /\ \A s \in Seats(p) : s \in Sockets /\ IsOpen(s) /\ HasSession(s) /\ sockets[s].player = p
         /\ p \in Seated <=> Seats(p) # {}
  BY NamesAssumption DEF Seats, Seated, IsOpen, HasSession

(* Who is on the way, for a player of the room, is acted for.              *)
LEMMA ActingHandlers ==
  ASSUME NEW p \in PlayerIds
  PROVE  (OnTheMove(p) => ActedFor(p)) /\ (Returns(p) => ActedFor(p))
  BY NamesAssumption
  DEF ActedFor, OnTheMove, SomeMoving, Moving, Returns, SomeReturning, Returning

LEMMA AgreedSeats ==
  ASSUME NEW up \in BOOLEAN, AllAgree(up)
  PROVE  OneSeatEach /\ SeatedPlayersAreOnRecord
<1>1. OneSocketEach /\ SeatedOnRecord
  BY DEF AllAgree, SeatsAgree
<1>2. OneSeatEach
  <2>1. ASSUME NEW p \in PlayerIds
        PROVE  Cardinality(Seats(p)) <= 1
    <3>1. \A s, r \in Seats(p) : s = r
      BY <1>1, SeatsOfPlayers DEF OneSocketEach
    <3>2. CASE Seats(p) = {}
      BY <3>2, FS_EmptySet
    <3>3. CASE Seats(p) # {}
      <4>1. PICK s : Seats(p) = {s}
        BY <3>1, <3>3
      <4>2. Cardinality({s}) = 1
        BY FS_Singleton
      <4>3. Cardinality(Seats(p)) = 1
        BY <4>1, <4>2
      <4> QED
        BY <4>3
    <3> QED
      BY <3>2, <3>3
  <2> QED
    BY <2>1 DEF OneSeatEach
<1>3. SeatedPlayersAreOnRecord
  <2> SUFFICES ASSUME NEW p \in Seated
               PROVE  /\ room # NoRoom /\ p \in Connected(room)
                      /\ ActedFor(p) \/ \A s \in Seats(p) :
                           sessions[sockets[s].session] = p /\ sockets[s].session \notin expiring
    BY DEF SeatedPlayersAreOnRecord
  <2>1. p \in PlayerIds
    BY DEF Seated
  <2>2. \A s \in Seats(p) :
          /\ p \in PlayersOn(room)
          /\ \/ sessions[sockets[s].session] = p /\ sockets[s].session \notin expiring
             \/ ActedFor(p)
    BY <1>1, <2>1, SeatsOfPlayers, ActingHandlers DEF SeatedOnRecord
  <2>3. p \in PlayersOn(room)
    BY <2>1, <2>2, SeatsOfPlayers
  <2> QED
    BY <2>2, <2>3 DEF PlayersOn
<1> QED
  BY <1>2, <1>3

LEMMA AgreedPromises ==
  ASSUME CopyOK(room), AllAgree(TRUE)
  PROVE  SeatsAreKept /\ AbsentPlayersAreTimed /\ ClosedRoomIsGone
<1>1. TimersNeat(TRUE) /\ SeatedKept(TRUE) /\ AbsentTimed(TRUE)
  BY DEF AllAgree, SeatsAgree
<1>2. SeatsAreKept
  <2> SUFFICES ASSUME NEW p \in Seated
               PROVE  /\ managed /\ p \in playerIds
                      /\ reconnecting[p].pending = 0 /\ emptying.pending = 0
    BY DEF SeatsAreKept, SeatedAreKept
  <2>1. p \in PlayerIds
    BY DEF Seated
  <2>2. PICK s \in Seats(p) : TRUE
    BY <2>1, SeatsOfPlayers
  <2>3. /\ managed /\ p \in playerIds
        /\ reconnecting[p] = Manager!NoTimer /\ emptying = Manager!NoTimer
    BY <1>1, <2>1, <2>2, SeatsOfPlayers DEF SeatedKept
  <2> QED
    BY <2>3 DEF Manager!NoTimer
<1>3. AbsentPlayersAreTimed
  <2> SUFFICES ASSUME room # NoRoom, NEW p \in Members(room), Seats(p) = {}, ~ActedFor(p)
               PROVE  IF p \in playerIds
                      THEN p \notin Connected(room) /\ reconnecting[p].pending = 1
                      ELSE CurrentPlayer(room, p).isOwner
    BY DEF AbsentPlayersAreTimed
  <2>1. SoundRoom(room) /\ p \in PlayersIn(room) /\ PlayersOn(room) = Connected(room)
    BY DEF CopyOK, PlayersIn, PlayersOn
  <2>2. p \in PlayerIds
    BY <2>1, PlayersOf
  <2>3. ~OnTheMove(p)
    BY <2>2, ActingHandlers
  <2>4. \/ p \in playerIds /\ p \notin PlayersOn(room) /\ reconnecting[p] = OneTimer
        \/ p \notin playerIds /\ p \in OwnersIn(room)
    BY <1>1, <2>1, <2>3 DEF AbsentTimed
  <2>5. OneTimer.pending = 1
    BY DEF OneTimer
  <2> QED
    BY <2>1, <2>4, <2>5, OwnerFlag
<1>4. ClosedRoomIsGone
  BY <1>1 DEF ClosedRoomIsGone, TimersNeat
<1> QED
  BY <1>2, <1>3, <1>4

LifePromises ==
  /\ OneSeatEach /\ SeatedPlayersAreOnRecord
  /\ SeatsAreKept /\ AbsentPlayersAreTimed /\ ClosedRoomIsGone

LEMMA UntouchedPromises ==
  ASSUME LifeInit
  PROVE  LifePromises
<1>1. /\ room = NoRoom /\ issued = {}
      /\ \A s \in Sockets : sockets[s].status = "new"
  BY DEF LifeInit, StoreInit, NewSocket
<1>2. \A p : Seats(p) = {}
  BY <1>1 DEF Seats
<1>3. Seated = {}
  BY <1>2 DEF Seated
<1>4. OneSeatEach
  BY <1>2, FS_EmptySet DEF OneSeatEach
<1> QED
  BY <1>1, <1>3, <1>4
  DEF LifePromises, SeatedPlayersAreOnRecord, SeatsAreKept, SeatedAreKept,
      AbsentPlayersAreTimed, ClosedRoomIsGone

(* The invariant of the room's life: all agrees, from the first step on,   *)
(* until a record is overwritten unseen or an event comes across a handler.*)
Agreed == LifeInit \/ lostUpdate \/ crossed \/ AllAgree(TRUE)

LEMMA LifeStaysAgreed == LifeSpec => []Agreed
<1>1. ASSUME LifeSound({}), CrossedOK, Agreed, [LifeNext]_lifecycleVars
      PROVE  Agreed'
  <2>1. Apart({}) /\ TRUE \in BOOLEAN
    BY DEF Apart
  <2>2. CASE LifeNext
    <3>1. LifeReplies => UNCHANGED <<lostUpdate, crossed>>
      BY DEF LifeReplies, Deliver, lifeVars
    <3>2. lostUpdate => lostUpdate'
      BY <2>2, <3>1, LossStays DEF LifeNext, ResumeLife
    <3>3. crossed => crossed'
      BY <1>1, <2>2, <3>1, CrossedStays DEF LifeNext, ResumeLife, CrossedOK
    <3>4. LifeInit => AllAgree(TRUE)'
      BY <1>1, <2>2, FirstStep
    <3>5. AllAgree(TRUE) /\ ~lostUpdate' /\ ~crossed' => AllAgree(TRUE)'
      BY <1>1, <2>1, <2>2, AgreeStep
    <3> QED
      BY <1>1, <3>2, <3>3, <3>4, <3>5 DEF Agreed
  <2>3. CASE UNCHANGED lifecycleVars
    <3>1. UNCHANGED <<room, queue, ready, lostUpdate, sessions, expiring, issued, sockets, tokens,
                      managed, playerIds, reconnecting, emptying, crossed>>
      BY <2>3 DEF lifecycleVars, storeVars, lifeVars, managerVars
    <3>2. LifeInit => LifeInit'
      BY <3>1 DEF LifeInit, StoreInit, Manager!ManagerInit
    <3>3. AllAgree(TRUE) => AllAgree(TRUE)'
      <4>1. AllAgree(TRUE) => OneEach' /\ LifeInFlight' = LifeInFlight
        BY <3>1, NobodyReplaced DEF AllAgree, Replaces
      <4> QED
        BY <3>1, <4>1, SameWorld
    <3> QED
      BY <1>1, <3>1, <3>2, <3>3 DEF Agreed
  <2> QED
    BY <1>1, <2>2, <2>3
<1>2. LifeInit => Agreed
  BY DEF Agreed
<1> QED
  BY <1>1, <1>2, LifeStaysSound, LifeRemembers, PTL DEF LifeSpec

LEMMA LifeKeepsItsPromises == LifeSpec => []LifePromises
<1>1. ASSUME LifeSound({}), Agreed
      PROVE  LifePromises
  <2>1. CASE lostUpdate \/ crossed
    BY <2>1 DEF LifePromises, OneSeatEach, SeatedPlayersAreOnRecord, SeatsAreKept,
       AbsentPlayersAreTimed, ClosedRoomIsGone, Undisturbed
  <2>2. CASE AllAgree(TRUE)
    <3>1. CopyOK(room) /\ TRUE \in BOOLEAN
      BY <1>1 DEF LifeSound, CopiesSound
    <3> QED
      BY <2>2, <3>1, AgreedSeats, AgreedPromises DEF LifePromises
  <2> QED
    BY <1>1, <2>1, <2>2, UntouchedPromises DEF Agreed
<1> QED
  BY <1>1, LifeStaysSound, LifeStaysAgreed, PTL

(* However many handlers are under way, no player ever holds two seats     *)
(* while none has overwritten a record unseen and no event has come across *)
(* one it concerns: disconnectDuplicateSockets drops the socket a player   *)
(* who returns left behind, and joinLobby never hands out an id twice.     *)
THEOREM EachHoldsOneSeat == LifeSpec => []OneSeatEach
<1>1. LifePromises => OneSeatEach
  BY DEF LifePromises
<1> QED
  BY <1>1, LifeKeepsItsPromises, PTL

(* Until then no timer is left that would put a seated player out or close *)
(* the room under it: addPlayer cancels what removePlayer has started, and *)
(* nothing is started for a player who holds a seat.                       *)
THEOREM TheSeatedAreKept == LifeSpec => []SeatsAreKept
<1>1. LifePromises => SeatsAreKept
  BY DEF LifePromises
<1> QED
  BY <1>1, LifeKeepsItsPromises, PTL

(* Until then the record has every seated player as connected, whoever     *)
(* else's handlers write it, and the token of the player's socket works    *)
(* and does not expire (replaceSession, setSessionExpiry).                 *)
THEOREM TheSeatedAreOnRecord == LifeSpec => []SeatedPlayersAreOnRecord
<1>1. LifePromises => SeatedPlayersAreOnRecord
  BY DEF LifePromises
<1> QED
  BY <1>1, LifeKeepsItsPromises, PTL

(* Until then a player of the record who has no seat, and whom no handler  *)
(* is seating or taking out, is disconnected with the one reconnect timer  *)
(* of handleDisconnect pending; or is the owner POST /rooms made, who has  *)
(* not come yet.                                                           *)
THEOREM TheAbsentAreTimed == LifeSpec => []AbsentPlayersAreTimed
<1>1. LifePromises => AbsentPlayersAreTimed
  BY DEF LifePromises
<1> QED
  BY <1>1, LifeKeepsItsPromises, PTL

(* Until then no handler writes back the record of a room that the empty   *)
(* timer of the RoomManager has deleted.                                   *)
THEOREM TheClosedRoomStaysGone == LifeSpec => []ClosedRoomIsGone
<1>1. LifePromises => ClosedRoomIsGone
  BY DEF LifePromises
<1> QED
  BY <1>1, LifeKeepsItsPromises, PTL
=============================================================================
