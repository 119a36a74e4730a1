------------------------- MODULE RoomTenancyProofs -------------------------
(***************************************************************************)
(* What the RoomManager promises, proved for any number of players.        *)
(***************************************************************************)
EXTENDS RoomTenancy, TLAPS

(* TenancyOK says nothing of the players of a room that is not managed.    *)
(* Before its creation there are none, and createRoom relies on it.        *)
TenancyInv ==
  /\ TenancyOK
  /\ inside \subseteq PlayerIds
  /\ ~created => ~managed /\ playerIds = {}

(***************************************************************************)
(* One timer.                                                              *)
(***************************************************************************)
(* Setting a timer that is not pending, cancelling one or letting a        *)
(* pending one fire leaves no timer that is not on record.                 *)
LEMMA TimerSteps ==
  ASSUME NEW t, OnRecord(t)
  PROVE  /\ t \in Timers
         /\ Cancel(t) = NoTimer
         /\ t.pending = 0 => t = NoTimer
         /\ t.pending > 0 => t = Set(NoTimer) /\ Fire(t) = NoTimer
         /\ NoTimer.pending = 0 /\ Set(NoTimer).pending = 1
         /\ OnRecord(NoTimer) /\ OnRecord(Set(NoTimer))
<1>1. NoTimer \in Timers /\ Set(NoTimer) \in Timers
  BY DEF NoTimer, Set, Timers
<1>2. NoTimer.pending = 0 /\ Set(NoTimer).pending = 1 /\ NoTimer # Set(NoTimer)
  BY DEF NoTimer, Set
<1>3. Cancel(NoTimer) = NoTimer /\ Cancel(Set(NoTimer)) = NoTimer
  BY DEF NoTimer, Set, Cancel
<1>4. Fire(Set(NoTimer)) = NoTimer
  BY DEF NoTimer, Set, Fire
<1> QED
  BY <1>1, <1>2, <1>3, <1>4 DEF OnRecord

(***************************************************************************)
(* The inductive invariant.                                                *)
(***************************************************************************)
LEMMA TenancyInitially == TenancyInit => TenancyInv
<1> SUFFICES ASSUME TenancyInit PROVE TenancyInv
  OBVIOUS
<1>1. OnRecord(NoTimer) /\ NoTimer \in Timers /\ NoTimer.pending = 0
  BY DEF OnRecord, NoTimer, Timers
<1>2. /\ managed = FALSE /\ playerIds = {} /\ inside = {}
      /\ reconnecting = [p \in PlayerIds |-> NoTimer] /\ emptying = NoTimer
  BY DEF TenancyInit, ManagerInit
<1>3. \A p \in PlayerIds : reconnecting[p] = NoTimer
  BY <1>2
<1>4. ManagerTypeOK
  BY <1>1, <1>2 DEF ManagerTypeOK
<1>5. NoStrayTimers /\ PlacesAreKept
  BY <1>1, <1>2, <1>3 DEF NoStrayTimers, PlacesAreKept
<1>6. OnlyEmptyRoomsClose
  BY <1>1, <1>2, <1>3 DEF OnlyEmptyRoomsClose
<1> QED
  BY <1>2, <1>4, <1>5, <1>6 DEF TenancyInv, TenancyOK

(* createRoom: nobody is in the room and no timer of it is pending.        *)
LEMMA CreateKeeps == TenancyInv /\ Create => TenancyInv'
<1> SUFFICES ASSUME TenancyInv, Create PROVE TenancyInv'
  OBVIOUS
<1>1. /\ managed' /\ created' /\ inside = {} /\ playerIds = {}
      /\ emptying.pending = 0 /\ \A p \in PlayerIds : reconnecting[p] = NoTimer
      /\ UNCHANGED <<inside, playerIds, reconnecting, emptying>>
  BY TimerSteps DEF TenancyInv, TenancyOK, ManagerTypeOK, NoStrayTimers, OnlyEmptyRoomsClose,
                    OnRecord, Create, CreateRoom, Timers
<1>2. NoTimer.pending = 0
  BY DEF NoTimer
<1> QED
  BY <1>1, <1>2 DEF TenancyInv, TenancyOK, ManagerTypeOK, NoStrayTimers, PlacesAreKept,
                    OnlyEmptyRoomsClose, Create, CreateRoom

(* addPlayer cancels the player's timer and the room's.                    *)
LEMMA EnterKeeps == ASSUME NEW p \in PlayerIds, TenancyInv, Enter(p) PROVE TenancyInv'
<1>1. CASE ~managed
  BY <1>1 DEF Enter, AddPlayer, managerVars, TenancyInv, TenancyOK, ManagerTypeOK,
              NoStrayTimers, PlacesAreKept, OnlyEmptyRoomsClose
<1>2. CASE managed
  <2>1. /\ reconnecting' = [reconnecting EXCEPT ![p] = NoTimer]
        /\ emptying' = NoTimer
        /\ playerIds' = playerIds \cup {p} /\ inside' = inside \cup {p}
        /\ managed' = managed /\ created' = created /\ created
    BY <1>2, TimerSteps DEF Enter, AddPlayer, TenancyInv, TenancyOK, NoStrayTimers
  <2>2. NoTimer \in Timers /\ NoTimer.pending = 0 /\ OnRecord(NoTimer)
    BY DEF NoTimer, Timers, OnRecord
  <2> QED
    BY <1>2, <2>1, <2>2 DEF TenancyInv, TenancyOK, ManagerTypeOK, NoStrayTimers,
                            PlacesAreKept, OnlyEmptyRoomsClose
<1> QED
  BY <1>1, <1>2

(* removePlayer of somebody inside, who has no timer yet.                  *)
LEMMA LeaveKeeps == ASSUME NEW p \in PlayerIds, TenancyInv, Leave(p) PROVE TenancyInv'
<1>1. managed /\ reconnecting[p] = NoTimer /\ p \in playerIds
  BY TimerSteps DEF Leave, TenancyInv, TenancyOK, NoStrayTimers, PlacesAreKept,
                    OnlyEmptyRoomsClose, ManagerTypeOK
<1>2. /\ reconnecting' = [reconnecting EXCEPT ![p] = Set(NoTimer)]
      /\ inside' = inside \ {p} /\ UNCHANGED <<managed, playerIds, emptying, created>>
  BY <1>1 DEF Leave, RemovePlayer, TenancyInv, TenancyOK, ManagerTypeOK
<1>3. Set(NoTimer) \in Timers /\ Set(NoTimer).pending = 1 /\ OnRecord(Set(NoTimer))
  BY DEF NoTimer, Set, Timers, OnRecord
<1> QED
  BY <1>1, <1>2, <1>3 DEF TenancyInv, TenancyOK, ManagerTypeOK, NoStrayTimers,
                          PlacesAreKept, OnlyEmptyRoomsClose

(* The reconnect timer of a player who is not inside; the room's own timer *)
(* is not pending, or there would be nobody in the room.                   *)
LEMMA WindowClosesKeeps ==
  ASSUME NEW p \in PlayerIds, TenancyInv, ReconnectWindowCloses(p) PROVE TenancyInv'
<1>1. /\ reconnecting[p].pending > 0 /\ reconnecting[p] = Set(NoTimer)
      /\ Fire(reconnecting[p]) = NoTimer
  BY TimerSteps DEF ReconnectWindowCloses, ReconnectTimerFires, TenancyInv, TenancyOK, NoStrayTimers
<1>2. managed /\ p \in playerIds /\ p \notin inside
  BY <1>1 DEF TenancyInv, TenancyOK, PlacesAreKept, OnlyEmptyRoomsClose, NoTimer
<1>3. emptying = NoTimer
  BY <1>2, TimerSteps DEF TenancyInv, TenancyOK, NoStrayTimers, OnlyEmptyRoomsClose, OnRecord
<1>4. /\ reconnecting' = [reconnecting EXCEPT ![p] = NoTimer]
      /\ playerIds' = playerIds \ {p}
      /\ emptying' = IF playerIds' = {} THEN Set(NoTimer) ELSE NoTimer
      /\ UNCHANGED <<managed, created, inside>>
  BY <1>1, <1>3 DEF ReconnectWindowCloses, ReconnectTimerFires
<1>5. /\ NoTimer \in Timers /\ NoTimer.pending = 0 /\ OnRecord(NoTimer)
      /\ Set(NoTimer) \in Timers /\ Set(NoTimer).pending = 1 /\ OnRecord(Set(NoTimer))
  BY DEF NoTimer, Set, Timers, OnRecord
<1> QED
  BY <1>1, <1>2, <1>4, <1>5 DEF TenancyInv, TenancyOK, ManagerTypeOK, NoStrayTimers,
                                PlacesAreKept, OnlyEmptyRoomsClose

(* The room's own timer fires in an empty room.                            *)
LEMMA RoomClosesKeeps == TenancyInv /\ EmptyRoomCloses => TenancyInv'
<1> SUFFICES ASSUME TenancyInv, EmptyRoomCloses PROVE TenancyInv'
  OBVIOUS
<1>1. managed /\ playerIds = {} /\ emptying = Set(NoTimer)
  BY TimerSteps DEF EmptyRoomCloses, EmptyTimerFires, TenancyInv, TenancyOK,
                    OnlyEmptyRoomsClose, NoStrayTimers
<1>2. emptying' = NoTimer
  <2>1. emptying' = [emptying EXCEPT !.pending = emptying.pending - 1, !.onRecord = FALSE]
    BY DEF EmptyRoomCloses, EmptyTimerFires
  <2>2. emptying = [pending |-> 1, onRecord |-> TRUE]
    BY <1>1 DEF Set, NoTimer
  <2>3. emptying' = [pending |-> 1 - 1, onRecord |-> FALSE]
    BY <2>1, <2>2
  <2> QED
    BY <2>3 DEF NoTimer
<1>3. inside = {} /\ \A p \in PlayerIds : reconnecting[p] = NoTimer
  <2>1. \A p \in PlayerIds : p \notin inside /\ ~(reconnecting[p].pending > 0)
    BY <1>1 DEF TenancyInv, TenancyOK, PlacesAreKept
  <2>2. \A p \in PlayerIds : OnRecord(reconnecting[p])
    BY DEF TenancyInv, TenancyOK, NoStrayTimers
  <2>3. Set(NoTimer).pending > 0
    BY DEF Set, NoTimer
  <2>4. inside = {}
    BY <2>1 DEF TenancyInv
  <2>5. ASSUME NEW p \in PlayerIds PROVE reconnecting[p] = NoTimer
    BY <2>1, <2>2, <2>3 DEF OnRecord
  <2> QED
    BY <2>4, <2>5
<1>4. ~managed' /\ UNCHANGED <<playerIds, reconnecting, created, inside>>
  BY DEF EmptyRoomCloses, EmptyTimerFires
<1>5. NoTimer \in Timers /\ NoTimer.pending = 0 /\ OnRecord(NoTimer)
  BY DEF NoTimer, Timers, OnRecord
<1>6. managed' = FALSE
  BY DEF EmptyRoomCloses, EmptyTimerFires
<1>7. ManagerTypeOK'
  BY <1>2, <1>4, <1>5, <1>6 DEF TenancyInv, TenancyOK, ManagerTypeOK
<1>8. NoStrayTimers' /\ PlacesAreKept'
  BY <1>2, <1>3, <1>4, <1>5 DEF NoStrayTimers, PlacesAreKept
<1>9. OnlyEmptyRoomsClose'
  BY <1>2, <1>3, <1>4, <1>5 DEF OnlyEmptyRoomsClose
<1> QED
  BY <1>1, <1>3, <1>4, <1>7, <1>8, <1>9 DEF TenancyInv, TenancyOK

(* deleteRoom cancels every timer: those of players outside it are not     *)
(* pending.                                                                *)
LEMMA DeleteKeeps == TenancyInv /\ Delete => TenancyInv'
<1> SUFFICES ASSUME TenancyInv, Delete PROVE TenancyInv'
  OBVIOUS
<1>1. NoTimer \in Timers /\ NoTimer.pending = 0 /\ OnRecord(NoTimer)
  BY DEF NoTimer, Timers, OnRecord
<1>2. CASE ~managed
  BY <1>2 DEF Delete, DeleteRoom, managerVars, TenancyInv, TenancyOK, ManagerTypeOK,
              NoStrayTimers, PlacesAreKept, OnlyEmptyRoomsClose
<1>3. CASE managed
  <2>1. \A p \in PlayerIds : p \notin playerIds => reconnecting[p] = NoTimer
    <3>1. \A p \in PlayerIds : p \notin playerIds => ~(reconnecting[p].pending > 0)
      BY <1>3 DEF TenancyInv, TenancyOK, PlacesAreKept
    <3>2. \A p \in PlayerIds : OnRecord(reconnecting[p])
      BY DEF TenancyInv, TenancyOK, NoStrayTimers
    <3>3. Set(NoTimer).pending > 0
      BY DEF Set, NoTimer
    <3> QED
      BY <3>1, <3>2, <3>3 DEF OnRecord
  <2>2. \A p \in PlayerIds : Cancel(reconnecting[p]) = NoTimer
    BY TimerSteps DEF TenancyInv, TenancyOK, NoStrayTimers
  <2>3. /\ reconnecting' = [p \in PlayerIds |-> NoTimer]
        /\ emptying' = NoTimer /\ ~managed' /\ inside' = {}
        /\ UNCHANGED <<playerIds, created>> /\ created
    BY <1>3, <2>1, <2>2, TimerSteps DEF Delete, DeleteRoom, TenancyInv, TenancyOK, NoStrayTimers
  <2> QED
    <3>1. managed' = FALSE /\ \A p \in PlayerIds : reconnecting'[p] = NoTimer
      BY <1>3, <2>3 DEF Delete, DeleteRoom
    <3>2. ManagerTypeOK'
      BY <1>1, <2>3, <3>1 DEF TenancyInv, TenancyOK, ManagerTypeOK
    <3>3. NoStrayTimers' /\ PlacesAreKept' /\ OnlyEmptyRoomsClose'
      BY <1>1, <2>3, <3>1 DEF NoStrayTimers, PlacesAreKept, OnlyEmptyRoomsClose
    <3> QED
      BY <2>3, <3>2, <3>3 DEF TenancyInv, TenancyOK
<1> QED
  BY <1>2, <1>3

LEMMA TenancyStep == TenancyInv /\ [TenancyNext]_tenancyVars => TenancyInv'
<1> SUFFICES ASSUME TenancyInv, [TenancyNext]_tenancyVars PROVE TenancyInv'
  OBVIOUS
<1>1. CASE UNCHANGED tenancyVars
  BY <1>1 DEF tenancyVars, managerVars, TenancyInv, TenancyOK, ManagerTypeOK,
              NoStrayTimers, PlacesAreKept, OnlyEmptyRoomsClose
<1>2. CASE TenancyNext
  BY <1>2, CreateKeeps, EnterKeeps, LeaveKeeps, WindowClosesKeeps, RoomClosesKeeps,
     DeleteKeeps DEF TenancyNext
<1> QED
  BY <1>1, <1>2

(* Timers stay on record, a player keeps its place as long as it is inside *)
(* or may come back, and only an empty room has a timer to close it.       *)
THEOREM TenancyHolds == TenancySpec => []TenancyOK
<1>1. TenancyInv => TenancyOK
  BY DEF TenancyInv
<1> QED
  BY <1>1, TenancyInitially, TenancyStep, PTL DEF TenancySpec

(***************************************************************************)
(* The action property.                                                    *)
(***************************************************************************)
(* Only the reconnect timer of a player who is outside takes a player out, *)
(* and only the timer of an empty room or deleteRoom closes it.            *)
LEMMA StepPutsNobodyOut ==
  TenancyInv /\ [TenancyNext]_tenancyVars =>
    [ /\ \A p \in playerIds \ playerIds' : p \notin inside
      /\ managed /\ ~managed' => inside = {} \/ Delete ]_tenancyVars
<1> SUFFICES ASSUME TenancyInv, TenancyNext
             PROVE  /\ \A p \in playerIds \ playerIds' : p \notin inside
                    /\ managed /\ ~managed' => inside = {} \/ Delete
  OBVIOUS
<1>1. CASE Create
  BY <1>1 DEF Create, CreateRoom
<1>2. ASSUME NEW p \in PlayerIds, Enter(p) \/ Leave(p)
      PROVE  playerIds \subseteq playerIds' /\ managed' = managed
  BY <1>2 DEF Enter, Leave, AddPlayer, RemovePlayer, managerVars
<1>3. ASSUME NEW p \in PlayerIds, ReconnectWindowCloses(p)
      PROVE  playerIds \ playerIds' \subseteq {p} /\ p \notin inside /\ managed' = managed
  <2>1. reconnecting[p] \in Timers /\ reconnecting[p].pending > 0
    BY <1>3 DEF ReconnectWindowCloses, ReconnectTimerFires, TenancyInv, TenancyOK, ManagerTypeOK
  <2>2. reconnecting[p] # NoTimer
    BY <2>1 DEF NoTimer
  <2>3. managed
    BY <2>2 DEF TenancyInv, TenancyOK, OnlyEmptyRoomsClose
  <2>4. p \notin inside
    BY <2>1, <2>3 DEF TenancyInv, TenancyOK, PlacesAreKept
  <2> QED
    BY <1>3, <2>4 DEF ReconnectWindowCloses, ReconnectTimerFires
<1>4. CASE EmptyRoomCloses
  <2>1. playerIds = {} /\ managed
    BY <1>4 DEF EmptyRoomCloses, EmptyTimerFires, TenancyInv, TenancyOK, OnlyEmptyRoomsClose
  <2>2. inside = {}
    BY <2>1 DEF TenancyInv, TenancyOK, PlacesAreKept
  <2> QED
    BY <2>1, <2>2
<1>5. CASE Delete
  BY <1>5 DEF Delete, DeleteRoom, managerVars
<1> QED
  BY <1>1, <1>2, <1>3, <1>4, <1>5 DEF TenancyNext

(* Nobody loses a place while inside, and no room closes with somebody in  *)
(* it but by deleteRoom.                                                   *)
THEOREM NobodyIsPutOut == TenancySpec => NobodyInsideIsPutOut
  BY TenancyInitially, TenancyStep, StepPutsNobodyOut, PTL DEF TenancySpec, NobodyInsideIsPutOut
=============================================================================
