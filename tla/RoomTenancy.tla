---------------------------- MODULE RoomTenancy ----------------------------
(***************************************************************************)
(* What the RoomManager promises to a caller who keeps to one rule: a      *)
(* player is removed only after it was added, and not twice in a row.  The *)
(* set "inside" holds the players added and not removed since.             *)
(***************************************************************************)
EXTENDS RoomManager

VARIABLES
  created,  \* createRoom has been called
  inside

tenancyVars == <<managerVars, created, inside>>

TenancyInit == ManagerInit /\ created = FALSE /\ inside = {}

Create ==
  /\ ~created
  /\ CreateRoom
  /\ created' = TRUE
  /\ UNCHANGED inside

Enter(p) ==
  /\ created /\ p \notin inside
  /\ AddPlayer(p)
  /\ inside' = IF managed THEN inside \cup {p} ELSE inside
  /\ UNCHANGED created

Leave(p) ==
  /\ p \in inside
  /\ RemovePlayer(p)
  /\ inside' = inside \ {p}
  /\ UNCHANGED created

ReconnectWindowCloses(p) == ReconnectTimerFires(p) /\ UNCHANGED <<created, inside>>

EmptyRoomCloses == EmptyTimerFires /\ UNCHANGED <<created, inside>>

Delete ==
  /\ created
  /\ DeleteRoom
  /\ inside' = {}
  /\ UNCHANGED created

TenancyNext ==
  \/ Create
  \/ \E p \in PlayerIds : Enter(p) \/ Leave(p) \/ ReconnectWindowCloses(p)
  \/ EmptyRoomCloses
  \/ Delete

TenancySpec == TenancyInit /\ [][TenancyNext]_tenancyVars

(* Timers fire.                                                            *)
TenancyFairness ==
  /\ \A p \in PlayerIds : WF_tenancyVars(ReconnectWindowCloses(p))
  /\ WF_tenancyVars(EmptyRoomCloses)

FairTenancySpec == TenancySpec /\ TenancyFairness

(***************************************************************************)
(* Properties.                                                             *)
(***************************************************************************)
(* No timer is pending that is not on record: every one can be cancelled.  *)
OnRecord(t) == t \in {NoTimer, Set(NoTimer)}

NoStrayTimers == OnRecord(emptying) /\ \A p \in PlayerIds : OnRecord(reconnecting[p])

(* A player keeps its place while it is inside and for as long as the      *)
(* window to come back is open, and no timer runs against one inside       *)
(* (addPlayer cancels it).                                                 *)
PlacesAreKept ==
  managed =>
    \A p \in PlayerIds :
      /\ p \in playerIds <=> p \in inside \/ reconnecting[p].pending > 0
      /\ p \in inside => reconnecting[p].pending = 0

(* The room's own timer runs against an empty room only, and once the room *)
(* is gone no timer is left that would act on it.                          *)
OnlyEmptyRoomsClose ==
  /\ emptying.pending > 0 => managed /\ playerIds = {}
  /\ ~managed => inside = {} /\ \A p \in PlayerIds : reconnecting[p] = NoTimer

TenancyOK == ManagerTypeOK /\ NoStrayTimers /\ PlacesAreKept /\ OnlyEmptyRoomsClose

(* Nobody loses a place while inside, and no room closes with someone in   *)
(* it, but by deleteRoom.                                                  *)
NobodyInsideIsPutOut ==
  [][ /\ \A p \in playerIds \ playerIds' : p \notin inside
      /\ managed /\ ~managed' => inside = {} \/ Delete ]_tenancyVars

(* A room that everybody has left closes, unless someone comes back.       *)
AbandonedRoomCloses ==
  (managed /\ inside = {} /\ playerIds # {}) ~> (~managed \/ inside # {})
=============================================================================
