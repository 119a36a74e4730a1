---------------------------- MODULE RoomManager ----------------------------
(***************************************************************************)
(* The RoomManager's book-keeping of one room (services/game/room): who    *)
(* belongs to it, the minute a player who left has to come back, and the   *)
(* minute an empty room has before it is deleted.  It lives in the memory  *)
(* of the server and runs synchronously: every operation is one step.      *)
(*                                                                         *)
(* A Map keeps one timer handle per player, and the entry of the room one  *)
(* for the room.  A handle that is overwritten or deleted leaves a timer   *)
(* behind that nobody can cancel, so the pending timers are counted and a  *)
(* flag says whether the newest of them is the one on record.  All timers  *)
(* of a kind have the same delay: the oldest fires first.                  *)
(***************************************************************************)
EXTENDS Naturals

CONSTANT PlayerIds

VARIABLES
  managed,      \* rooms.has(roomId)
  playerIds,    \* the entry's set of players; it outlives the entry
  reconnecting, \* per player: reconnect timers pending, and on record or not
  emptying      \* the same for the timers that delete the room

managerVars == <<managed, playerIds, reconnecting, emptying>>

Timers   == [pending : Nat, onRecord : BOOLEAN]
NoTimer  == [pending |-> 0, onRecord |-> FALSE]

Set(t)    == [pending |-> t.pending + 1, onRecord |-> TRUE]
(* Mutant: cancels without asking whether there is a timer.                *)
CancelBlindly(t) == [pending |-> t.pending - 1, onRecord |-> FALSE]

Cancel(t) == IF t.onRecord THEN [pending |-> t.pending - 1, onRecord |-> FALSE] ELSE t
(* The callback deletes what is on record, be it its own handle or not.    *)
Fire(t)   == [pending |-> t.pending - 1, onRecord |-> FALSE]

ManagerTypeOK ==
  /\ managed \in BOOLEAN
  /\ playerIds \in SUBSET PlayerIds
  /\ reconnecting \in [PlayerIds -> Timers]
  /\ emptying \in Timers

ManagerInit ==
  /\ managed = FALSE
  /\ playerIds = {}
  /\ reconnecting = [p \in PlayerIds |-> NoTimer]
  /\ emptying = NoTimer

(* The code of a room is random and, in practice, never used again.        *)
CreateRoom ==
  /\ managed' = TRUE
  /\ UNCHANGED <<playerIds, reconnecting, emptying>>

(* Mutants: leaves the timer that deletes an empty room running; leaves    *)
(* the player's own timer running.                                         *)
AddPlayerToDoomedRoom(p) ==
  IF managed
  THEN /\ reconnecting' = [reconnecting EXCEPT ![p] = Cancel(@)]
       /\ playerIds' = playerIds \cup {p}
       /\ UNCHANGED <<managed, emptying>>
  ELSE UNCHANGED managerVars

AddDoomedPlayer(p) ==
  IF managed
  THEN /\ emptying' = Cancel(emptying)
       /\ playerIds' = playerIds \cup {p}
       /\ UNCHANGED <<managed, reconnecting>>
  ELSE UNCHANGED managerVars

AddPlayer(p) ==
  IF managed
  THEN /\ reconnecting' = [reconnecting EXCEPT ![p] = Cancel(@)]
       /\ emptying' = Cancel(emptying)
       /\ playerIds' = playerIds \cup {p}
       /\ UNCHANGED managed
  ELSE UNCHANGED managerVars

(* Mutant: gives up the player's place at once.                            *)
RemovePlayerAtOnce(p) ==
  IF managed
  THEN /\ reconnecting' = [reconnecting EXCEPT ![p] = Set(@)]
       /\ playerIds' = playerIds \ {p}
       /\ UNCHANGED <<managed, emptying>>
  ELSE UNCHANGED managerVars

(* The player stays in the set until its timer fires.                      *)
RemovePlayer(p) ==
  IF managed
  THEN /\ reconnecting' = [reconnecting EXCEPT ![p] = Set(@)]
       /\ UNCHANGED <<managed, playerIds, emptying>>
  ELSE UNCHANGED managerVars

(* Mutant: looks at the set before it takes the player out.                *)
ReconnectTimerFiresLate(p) ==
  /\ reconnecting[p].pending > 0
  /\ reconnecting' = [reconnecting EXCEPT ![p] = Fire(@)]
  /\ playerIds' = playerIds \ {p}
  /\ emptying' = IF playerIds = {} THEN Set(emptying) ELSE emptying
  /\ UNCHANGED managed

(* The last player of the set to be removed starts the room's own timer.   *)
ReconnectTimerFires(p) ==
  /\ reconnecting[p].pending > 0
  /\ reconnecting' = [reconnecting EXCEPT ![p] = Fire(@)]
  /\ playerIds' = playerIds \ {p}
  /\ emptying' = IF playerIds' = {} THEN Set(emptying) ELSE emptying
  /\ UNCHANGED managed

(* The handle stays in the entry, which is dropped.                        *)
EmptyTimerFires ==
  /\ emptying.pending > 0
  /\ managed' = FALSE
  /\ emptying' = [emptying EXCEPT !.pending = @ - 1, !.onRecord = FALSE]
  /\ UNCHANGED <<playerIds, reconnecting>>

(* No part of the server calls it.                                         *)
DeleteRoom ==
  IF managed
  THEN /\ reconnecting' = [p \in PlayerIds |->
            IF p \in playerIds THEN Cancel(reconnecting[p]) ELSE reconnecting[p]]
       /\ emptying' = Cancel(emptying)
       /\ managed' = FALSE
       /\ UNCHANGED playerIds
  ELSE UNCHANGED managerVars
=============================================================================
