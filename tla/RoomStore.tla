----------------------------- MODULE RoomStore -----------------------------
(***************************************************************************)
(* How the server's handlers reach the room record: one node process, one  *)
(* Redis connection, no lock.  A handler reads the record (GET), waits for *)
(* the reply, computes the next record from what it read and writes it     *)
(* back (SET); other handlers run while it waits.                          *)
(*                                                                         *)
(* The connection executes commands in the order they were issued and      *)
(* answers them in that order, so a GET sees every write issued before it  *)
(* and a command can take effect when it is issued: "queue" holds the      *)
(* handlers whose command is unanswered, in issue order.  The replies that *)
(* arrive in one chunk resolve their promises together: "ready" holds the  *)
(* handlers of that chunk that have yet to resume.  They resume before the *)
(* event loop takes the next socket event or timer, in an order that       *)
(* depends on how deep their awaits are nested: here in any order.         *)
(*                                                                         *)
(* A handler in flight is a record: pc names the command it waits for, st  *)
(* is the room it read or wrote, who the guessing player, word the word it *)
(* was asked for.                                                          *)
(***************************************************************************)
EXTENDS RoomState, SequencesExt

CONSTANTS
  NoRoom,      \* the reply to a GET of a key that does not exist
  NoPlayer,    \* "who" of a handler that acts for no player
  MaxInFlight  \* bound on the handlers in flight at the same time

ASSUME StoreAssumption ==
  /\ NoRoom \notin Room
  /\ MaxInFlight \in Nat \ {0}

VARIABLES
  room,        \* the record in Redis
  queue,       \* handlers whose command has no reply yet
  ready,       \* handlers whose reply has arrived
  lostUpdate   \* history: some write replaced a record its handler never saw

storeVars == <<room, queue, ready, lostUpdate>>

Pcs == { "startGame", "chooseWord", "wordSelectionTimeout", "guess",
         "hintTimeout", "drawingTimeout", "roundEndTimeout",
         "wordSelectionSaved", "drawingSaved", "guessSaved",
         "roundEndSaved", "gameOverSaved" }

Handler == [ pc : Pcs, st : Room,
             who : PlayerIds \cup {NoPlayer}, word : Words \cup {NoWord} ]

StoreTypeOK ==
  /\ room \in Room \cup {NoRoom}
  /\ queue \in Seq(Handler)
  /\ ready \in Seq(Handler)
  /\ lostUpdate \in BOOLEAN

StoreInit(st) ==
  /\ room = st
  /\ queue = <<>>
  /\ ready = <<>>
  /\ lostUpdate = FALSE

(* The event loop takes a socket event or a timer: no promise is pending.  *)
EventLoopFree == ready = <<>> /\ Len(queue) < MaxInFlight

(* getRoomState at the start of a handler, and the guards it evaluates on  *)
(* the reply: they depend on the record alone, so a handler they turn away *)
(* (it sends an error at most) leaves no trace.                            *)
LoadRoom(pc, p, w, accepted) ==
  /\ queue' = IF accepted
              THEN Append(queue, [pc |-> pc, st |-> room, who |-> p, word |-> w])
              ELSE queue
  /\ UNCHANGED <<room, ready, lostUpdate>>

(* A chunk of replies arrives: the answers to the oldest commands.         *)
Deliver ==
  /\ ready = <<>>
  /\ \E n \in 1..Len(queue) :
       /\ ready' = SubSeq(queue, 1, n)
       /\ queue' = SubSeq(queue, n + 1, Len(queue))
  /\ UNCHANGED <<room, lostUpdate>>

(* The i-th handler of the chunk runs on from the command "pc".            *)
Resumes(i, pc) == i \in DOMAIN ready /\ ready[i].pc = pc

(* It ends, or goes on with nothing that concerns the store.               *)
Finish(i) ==
  /\ ready' = RemoveAt(ready, i)
  /\ UNCHANGED <<room, queue, lostUpdate>>

(* saveRoomState(next) by the i-th handler, which then waits for the reply *)
(* at "pc".  The write is blind: it replaces whatever is there.            *)
SaveRoom(i, next, pc) ==
  /\ room' = next
  /\ lostUpdate' = (lostUpdate \/ room # ready[i].st)
  /\ queue' = Append(queue, [ready[i] EXCEPT !.pc = pc, !.st = next])
  /\ ready' = RemoveAt(ready, i)

(* saveRoomState with nothing but events after it.                         *)
SaveRoomAndFinish(i, next) ==
  /\ room' = next
  /\ lostUpdate' = (lostUpdate \/ room # ready[i].st)
  /\ ready' = RemoveAt(ready, i)
  /\ UNCHANGED queue

(* The records the program still holds: the stored one and every copy.     *)
Copies == {queue[i].st : i \in DOMAIN queue} \cup {ready[i].st : i \in DOMAIN ready}
NobodyInFlight == queue = <<>> /\ ready = <<>>

(* The narrower order in which a chunk's handlers resume as their replies  *)
(* came: what goes wrong in it does not hang on how deep the awaits are.   *)
InReplyOrder ==
  \/ ready \in {<<>>, ready'}
  \/ ready' = Tail(ready)
  \/ ready' # <<>> /\ Tail(ready') = Tail(ready)
=============================================================================
