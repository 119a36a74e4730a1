------------------------------ MODULE MCServer ------------------------------
(***************************************************************************)
(* Small instances of the server for TLC.  They begin with a lobby whose   *)
(* players have created and joined the room and hold their seats; how they *)
(* came to them is the subject of the runs of MCLifecycle.                 *)
(***************************************************************************)
EXTENDS ServerProperties

CONSTANTS p1, p2, p3, s1, s2, s3, s4, s5, t1, t2, t3, t4, t5, w1, w2, w3, w4

Two     == {p1, p2}
Three   == {p1, p2, p3}
OneInOrder   == <<p1>>
TwoInOrder   == <<p1, p2>>
ThreeInOrder == <<p1, p2, p3>>
Itself == [p \in PlayerIds |-> p]

TwoSockets    == {s1, s2}
ThreeSockets  == {s1, s2, s3}
FourSockets   == {s1, s2, s3, s4}
TwoSessions   == {t1, t2}
ThreeSessions == {t1, t2, t3}
FourSessions  == {t1, t2, t3, t4}

ThreeWords == {w1, w2, w3}
FourWords  == {w1, w2, w3, w4}
TwoLetters == [w \in Words |-> 2]
Midway     == {30}

FirstSockets  == <<s1, s2, s3>>
FirstSessions == <<t1, t2, t3>>

Joined == {JoinOrder[k] : k \in DOMAIN JoinOrder}

(* The k-th player of the lobby, for its k-th socket or session.           *)
Holder(seq, x) == CHOOSE p \in PlayerIds \cup {NoPlayer} :
  \/ \E k \in DOMAIN JoinOrder : seq[k] = x /\ p = JoinOrder[k]
  \/ (\A k \in DOMAIN JoinOrder : seq[k] # x) /\ p = NoPlayer

SeatedInit ==
  /\ StoreInit(LobbyRoom(JoinOrder, Joined))
  /\ timers = NoTimers
  /\ scoreboard = [p \in PlayerIds |-> 0]
  /\ told = {}
  /\ sessions = [t \in SessionIds |-> Holder(FirstSessions, t)]
  /\ expiring = {}
  /\ issued = Joined \cup {FirstSessions[k] : k \in DOMAIN JoinOrder}
  /\ sockets = [s \in Sockets |->
       IF Holder(FirstSockets, s) = NoPlayer THEN NewSocket
       ELSE [ status |-> "open", player |-> Holder(FirstSockets, s),
              session |-> CHOOSE t \in SessionIds : sessions[t] = Holder(FirstSockets, s) ]]
  /\ tokens = [n \in Names |->
       IF \E p \in Joined : NameOf[p] = n
       THEN CHOOSE t \in SessionIds : sessions[t] # NoPlayer /\ NameOf[sessions[t]] = n
       ELSE NoSession]
  /\ managed = TRUE
  /\ playerIds = Joined
  /\ reconnecting = [p \in PlayerIds |-> Manager!NoTimer]
  /\ emptying = Manager!NoTimer
  /\ crossed = FALSE
  /\ restarts = 0

SeatedSpec == SeatedInit /\ [][ServerNext]_serverVars
FairSeatedSpec == SeatedSpec /\ ServerFairness

(* Races are looked for in the lobby and the first round.                  *)
FirstRound == room # NoRoom => room.miniRoundNumber <= 1

(* All that steps and the properties of the races depend on: the history   *)
(* variables count for what they excuse, and what was shown for nothing.   *)
WithoutHistory ==
  << room, queue, ready, timers, sessions, expiring, issued, sockets, tokens,
     managerVars, restarts, Undisturbed >>

WordSymmetry == Permutations(Words)
=============================================================================
