----------------------------- MODULE GameProofs -----------------------------
(***************************************************************************)
(* CopiesOK is an inductive invariant of the game engine: whatever the     *)
(* handlers do to each other's writes, every record they compute is well   *)
(* formed.  It gives type correctness and the first group of properties of *)
(* GameProperties, for any players, words, settings and any number of      *)
(* handlers in flight.                                                     *)
(***************************************************************************)
EXTENDS GameProperties, RoomStateProofs

AllOK(handlers) ==
  /\ handlers \in Seq(Handler)
  /\ \A i \in DOMAIN handlers : HandlerOK(handlers[i])

(***************************************************************************)
(* The queue of handlers.                                                  *)
(***************************************************************************)
LEMMA AppendOK ==
  ASSUME NEW q, AllOK(q), NEW h, HandlerOK(h)
  PROVE  AllOK(Append(q, h))
<1>1. /\ q \in Seq(Handler) /\ h \in Handler
      /\ Len(q) \in Nat /\ DOMAIN q = 1..Len(q)
  BY LenProperties DEF AllOK, HandlerOK
<1>2. /\ Append(q, h) \in Seq(Handler)
      /\ Len(Append(q, h)) = Len(q) + 1
      /\ \A i \in 1..Len(q) : Append(q, h)[i] = q[i]
      /\ Append(q, h)[Len(q) + 1] = h
  BY <1>1, AppendProperties
<1>3. DOMAIN Append(q, h) = 1..(Len(q) + 1)
  BY <1>2, LenProperties
<1>4. \A i \in 1..(Len(q) + 1) : i \in 1..Len(q) \/ i = Len(q) + 1
  BY <1>1
<1> HIDE DEF HandlerOK
<1> QED
  BY <1>1, <1>2, <1>3, <1>4 DEF AllOK

LEMMA SubSeqOK ==
  ASSUME NEW q, AllOK(q), NEW m \in 1..(Len(q) + 1), NEW n \in 0..Len(q)
  PROVE  AllOK(SubSeq(q, m, n))
<1> DEFINE s == SubSeq(q, m, n)
<1>1. q \in Seq(Handler) /\ Len(q) \in Nat /\ DOMAIN q = 1..Len(q)
  BY LenProperties DEF AllOK
<1>2. \A i \in m..n : q[i] \in Handler
  BY <1>1, ElementOfSeq
<1>3. /\ s \in Seq(Handler)
      /\ Len(s) = IF m <= n THEN n - m + 1 ELSE 0
      /\ \A i \in 1..(n - m + 1) : s[i] = q[m + i - 1]
  BY <1>1, <1>2, SubSeqProperties
<1>4. DOMAIN s = 1..Len(s)
  BY <1>3, LenProperties
<1> HIDE DEF s
<1>5. \A i \in DOMAIN s : s[i] = q[m + i - 1] /\ m + i - 1 \in 1..Len(q)
  BY <1>1, <1>3, <1>4
<1> QED
  BY <1>1, <1>3, <1>5 DEF AllOK, s

LEMMA ConcatOK ==
  ASSUME NEW q, AllOK(q), NEW r, AllOK(r)
  PROVE  AllOK(q \o r)
<1>1. /\ q \in Seq(Handler) /\ Len(q) \in Nat /\ DOMAIN q = 1..Len(q)
      /\ r \in Seq(Handler) /\ Len(r) \in Nat /\ DOMAIN r = 1..Len(r)
  BY LenProperties DEF AllOK
<1>2. /\ q \o r \in Seq(Handler)
      /\ Len(q \o r) = Len(q) + Len(r)
      /\ \A i \in 1..(Len(q) + Len(r)) :
           (q \o r)[i] = IF i <= Len(q) THEN q[i] ELSE r[i - Len(q)]
  BY <1>1, ConcatProperties
<1>3. DOMAIN (q \o r) = 1..(Len(q) + Len(r))
  BY <1>2, LenProperties
<1>4. \A i \in 1..(Len(q) + Len(r)) :
        IF i <= Len(q) THEN i \in 1..Len(q) ELSE i - Len(q) \in 1..Len(r)
  BY <1>1
<1> QED
  BY <1>1, <1>2, <1>3, <1>4 DEF AllOK

LEMMA RemoveOK ==
  ASSUME NEW q, AllOK(q), NEW i \in DOMAIN q
  PROVE  AllOK(RemoveAt(q, i))
<1>1. i \in 1..Len(q) /\ Len(q) \in Nat
  BY LenProperties DEF AllOK
<1>2. AllOK(SubSeq(q, 1, i - 1)) /\ AllOK(SubSeq(q, i + 1, Len(q)))
  BY <1>1, SubSeqOK
<1> QED
  BY <1>2, ConcatOK DEF RemoveAt

LEMMA StoreOKSplit ==
  StoreOK <=> /\ room \in Room \cup {NoRoom} /\ lostUpdate \in BOOLEAN
              /\ room # NoRoom => RoomOK(room)
              /\ AllOK(queue) /\ AllOK(ready)
  BY DEF StoreOK, StoreTypeOK, AllOK

(***************************************************************************)
(* The steps of the store.                                                 *)
(***************************************************************************)
LEMMA LoadRoomOK ==
  ASSUME StoreOK, NEW pc, NEW p, NEW w, NEW accepted \in BOOLEAN,
         accepted => HandlerOK([pc |-> pc, st |-> room, who |-> p, word |-> w]),
         LoadRoom(pc, p, w, accepted)
  PROVE  StoreOK'
<1>1. AllOK(queue')
  <2>1. CASE accepted
    BY <2>1, AppendOK, StoreOKSplit DEF LoadRoom
  <2>2. CASE ~accepted
    BY <2>2, StoreOKSplit DEF LoadRoom
  <2> QED
    BY <2>1, <2>2
<1>2. UNCHANGED <<room, ready, lostUpdate>>
  BY DEF LoadRoom
<1> QED
  BY <1>1, <1>2, StoreOKSplit DEF StoreOK, StoreTypeOK, AllOK

LEMMA DeliverOK ==
  ASSUME StoreOK, Deliver
  PROVE  StoreOK'
<1>1. PICK n \in 1..Len(queue) : /\ ready' = SubSeq(queue, 1, n)
                                /\ queue' = SubSeq(queue, n + 1, Len(queue))
  BY DEF Deliver
<1>2. AllOK(queue) /\ Len(queue) \in Nat
  BY StoreOKSplit, LenProperties DEF AllOK
<1>3. /\ n \in 0..Len(queue) /\ 1 \in 1..(Len(queue) + 1)
      /\ n + 1 \in 1..(Len(queue) + 1) /\ Len(queue) \in 0..Len(queue)
  BY <1>2
<1>4. AllOK(ready')
  BY <1>1, <1>2, <1>3, SubSeqOK
<1>5. AllOK(queue')
  BY <1>1, <1>2, <1>3, SubSeqOK
<1>6. UNCHANGED <<room, lostUpdate>>
  BY DEF Deliver
<1> QED
  BY <1>4, <1>5, <1>6 DEF StoreOK, StoreTypeOK, AllOK

LEMMA FinishOK ==
  ASSUME StoreOK, NEW i \in DOMAIN ready, Finish(i)
  PROVE  StoreOK'
<1>1. AllOK(ready')
  BY StoreOKSplit, RemoveOK DEF Finish
<1> QED
  BY <1>1 DEF Finish, StoreOK, StoreTypeOK, AllOK

(* A handler may be given any well-formed room to write.                   *)
LEMMA SaveRoomOK ==
  ASSUME StoreOK, NEW i \in DOMAIN ready, NEW next, RoomOK(next), NEW pc \in Pcs,
         HandlerOK([ready[i] EXCEPT !.pc = pc, !.st = next]),
         SaveRoom(i, next, pc)
  PROVE  StoreOK'
<1>1. AllOK(ready')
  BY StoreOKSplit, RemoveOK DEF SaveRoom
<1>2. AllOK(queue')
  BY StoreOKSplit, AppendOK DEF SaveRoom
<1>3. room' \in Room /\ RoomOK(room')
  BY DEF SaveRoom, RoomOK
<1>4. lostUpdate' \in BOOLEAN
  BY DEF SaveRoom
<1> QED
  BY <1>1, <1>2, <1>3, <1>4 DEF StoreOK, StoreTypeOK, AllOK

LEMMA SaveRoomAndFinishOK ==
  ASSUME StoreOK, NEW i \in DOMAIN ready, NEW next, RoomOK(next),
         SaveRoomAndFinish(i, next)
  PROVE  StoreOK'
<1>1. AllOK(ready')
  BY StoreOKSplit, RemoveOK DEF SaveRoomAndFinish
<1>2. room' \in Room /\ RoomOK(room')
  BY DEF SaveRoomAndFinish, RoomOK
<1>3. lostUpdate' \in BOOLEAN
  BY DEF SaveRoomAndFinish
<1> QED
  BY <1>1, <1>2, <1>3 DEF SaveRoomAndFinish, StoreOK, StoreTypeOK, AllOK

(* The phase a handler has written when it waits at "pc".                  *)
ReachedAt(pc, st) ==
  /\ pc = "wordSelectionSaved" => InPhase(st, "word_selection")
  /\ pc = "drawingSaved" => InPhase(st, "drawing")
  /\ pc = "roundEndSaved" => InPhase(st, "round_end")
  /\ pc = "gameOverSaved" => st.phase = "game_over"

LEMMA PhasesReached ==
  ASSUME NEW st, RoomOK(st)
  PROVE  /\ \A options :
              ReachedAt("wordSelectionSaved", CreateWordSelectionState(st, options))
         /\ \A options :
              ReachedAt("wordSelectionSaved", CreateNextWordSelectionState(st, options))
         /\ \A w : ReachedAt("drawingSaved", CreateDrawingState(st, w))
         /\ st.phase = "in_game" => ReachedAt("roundEndSaved", CreateRoundEndState(st))
         /\ ReachedAt("gameOverSaved", CreateGameOverState(st))
  BY DEF ReachedAt, InPhase, RoomOK, Room, CreateWordSelectionState, CreateNextWordSelectionState,
         CreateDrawingState, CreateRoundEndState, CreateGameOverState

(* A handler that waits for the reply to its write relies on little more.  *)
LEMMA SavedHandlerOK ==
  ASSUME NEW h \in Handler, NEW next, RoomOK(next),
         NEW pc \in {"wordSelectionSaved", "drawingSaved", "roundEndSaved", "gameOverSaved"},
         ReachedAt(pc, next)
  PROVE  /\ pc \in Pcs
         /\ HandlerOK([h EXCEPT !.pc = pc, !.st = next])
<1> DEFINE new == [h EXCEPT !.pc = pc, !.st = next]
<1>1. next \in Room /\ pc \in Pcs
  BY DEF RoomOK, Pcs
<1>2. new \in Handler /\ new.pc = pc /\ new.st = next
  BY <1>1 DEF Handler
<1> HIDE DEF new
<1>3. ReliesOn(new)
  BY <1>2 DEF ReliesOn, ReachedAt
<1> QED
  BY <1>1, <1>2, <1>3 DEF HandlerOK, new

LEMMA LoadedHandlerOK ==
  ASSUME NEW pc \in Pcs, NEW p \in PlayerIds \cup {NoPlayer}, NEW w \in Words \cup {NoWord},
         NEW st, RoomOK(st),
         ReliesOn([pc |-> pc, st |-> st, who |-> p, word |-> w])
  PROVE  HandlerOK([pc |-> pc, st |-> st, who |-> p, word |-> w])
  BY DEF HandlerOK, Handler, RoomOK

LEMMA MembersType ==
  ASSUME NEW st \in Room
  PROVE  Members(st) \subseteq PlayerIds
  BY PlayersDomain DEF Members, Player

LEMMA GuessersType ==
  ASSUME NEW st \in Room
  PROVE  GuessersWhoGuessed(st) \subseteq Members(st) /\ GuessersWhoGuessed(st) \subseteq PlayerIds
  BY MembersType DEF Members, GuessersWhoGuessed

(* A correct guess is on record for the one who made it, next to those     *)
(* that were there.                                                        *)
LEMMA GuessRecorded ==
  ASSUME NEW st \in Room, NEW p \in Members(st) \ {st.leaderPlayerId},
         NEW remaining \in Int
  PROVE  /\ p \in GuessersWhoGuessed(ApplyCorrectGuess(st, p, remaining))
         /\ GuessersWhoGuessed(ApplyCorrectGuess(st, p, remaining))
              = GuessersWhoGuessed(st) \cup {p}
<1> DEFINE new == ApplyCorrectGuess(st, p, remaining)
<1>1. /\ SameCast(st, new) /\ new.leaderPlayerId = st.leaderPlayerId
      /\ \A i \in DOMAIN st.players :
           new.players[i].guessed <=> st.players[i].guessed \/ st.players[i].id = p
  BY GuessEffect
<1> HIDE DEF new
<1>2. PICK i \in DOMAIN st.players : st.players[i].id = p
  BY DEF Members
<1>3. GuessersWhoGuessed(new) = GuessersWhoGuessed(st) \cup {p}
  BY <1>1, <1>2 DEF GuessersWhoGuessed, SameCast
<1> QED
  BY <1>3 DEF new

(***************************************************************************)
(* The state beside the store.                                             *)
(***************************************************************************)
RestTypeOK ==
  /\ timers \in [ wordSelection : Nat, drawing : Nat, roundEnd : Nat,
                  hints : [miniRound : Nat, pending : Nat] ]
  /\ scoreboard \in [PlayerIds -> Nat]
  /\ told \in SUBSET PlayerIds

LEMMA CopiesOKSplit == CopiesOK <=> RestTypeOK /\ StoreOK
  BY DEF CopiesOK, TypeOK, RestTypeOK, StoreOK

LEMMA CopiesOKNext ==
  ASSUME StoreOK', RestTypeOK'
  PROVE  CopiesOK'
  BY DEF CopiesOK, TypeOK, RestTypeOK, StoreOK

LEMMA RestUnchanged ==
  ASSUME CopiesOK, UNCHANGED <<timers, scoreboard, told>>, StoreOK'
  PROVE  CopiesOK'
<1>1. RestTypeOK'
  BY CopiesOKSplit DEF RestTypeOK
<1> QED
  BY <1>1, CopiesOKNext

LEMMA ScoresType ==
  ASSUME NEW st \in Room
  PROVE  ScoresOf(st) \in [PlayerIds -> Nat]
<1>1. \A p \in Members(st) : CurrentPlayer(st, p).score \in Nat
  BY IndexOfMember DEF Player
<1> QED
  BY <1>1 DEF ScoresOf

LEMMA ReadyHandler ==
  ASSUME StoreOK, NEW i \in DOMAIN ready
  PROVE  /\ ready[i] \in Handler /\ ready[i].st \in Room
         /\ RoomOK(ready[i].st) /\ ReliesOn(ready[i])
         /\ ready[i].st.miniRoundNumber \in Nat
  BY DEF StoreOK, HandlerOK, Handler, Room

LEMMA InitOK == Init => CopiesOK
<1> SUFFICES ASSUME Init PROVE CopiesOK
  OBVIOUS
<1>1. PICK connected \in SUBSET PlayerIds : StoreInit(LobbyRoom(JoinOrder, connected))
  BY DEF Init
<1>2. RoomOK(LobbyRoom(JoinOrder, connected))
  BY LobbyAssumption, LobbyRoomOK
<1>3. StoreOK
  <2>1. <<>> \in Seq(Handler) /\ DOMAIN <<>> = {}
    BY EmptySeq
  <2>2. room \in Room /\ RoomOK(room)
    BY <1>1, <1>2 DEF StoreInit, RoomOK
  <2> QED
    BY <1>1, <2>1, <2>2 DEF StoreInit, StoreOK, StoreTypeOK
<1>4. RestTypeOK
  BY DEF Init, RestTypeOK, NoTimers
<1> QED
  BY <1>3, <1>4, CopiesOKSplit

(***************************************************************************)
(* Requests and timers.                                                    *)
(***************************************************************************)
LEMMA RequestOK ==
  ASSUME CopiesOK, Request
  PROVE  CopiesOK'
<1>1. StoreOK /\ RestTypeOK
  BY CopiesOKSplit
<1>2. PICK p \in PlayerIds :
        /\ room # NoRoom
        /\ StartGame(p) \/ (\E w \in Words : ChooseWord(p, w)) \/ Guess(p)
  BY DEF Request
<1>3. RoomOK(room)
  BY <1>1, <1>2 DEF StoreOK
<1>4. CASE StartGame(p)
  <2>1. HandlerOK([pc |-> "startGame", st |-> room, who |-> p, word |-> NoWord])
    BY <1>3, <1>4, LoadedHandlerOK DEF StartGame, ReliesOn, Pcs
  <2>2. StoreOK'
    BY <1>1, <1>4, <2>1, LoadRoomOK DEF StartGame
  <2> QED
    BY <1>1, <1>4, <2>2, RestUnchanged DEF StartGame
<1>5. CASE \E w \in Words : ChooseWord(p, w)
  <2>1. PICK w \in Words : ChooseWord(p, w)
    BY <1>5
  <2>2. HandlerOK([pc |-> "chooseWord", st |-> room, who |-> p, word |-> w])
    BY <1>3, <2>1, LoadedHandlerOK DEF ChooseWord, ReliesOn, Pcs
  <2>3. StoreOK'
    BY <1>1, <2>1, <2>2, LoadRoomOK DEF ChooseWord
  <2> QED
    BY <1>1, <2>1, <2>3, RestUnchanged DEF ChooseWord
<1>6. CASE Guess(p)
  <2>1. HandlerOK([pc |-> "guess", st |-> room, who |-> p, word |-> NoWord])
    BY <1>3, <1>6, LoadedHandlerOK DEF Guess, ReliesOn, Pcs
  <2>2. StoreOK'
    BY <1>1, <1>6, <2>1, LoadRoomOK DEF Guess
  <2> QED
    BY <1>1, <1>6, <2>2, RestUnchanged DEF Guess
<1> QED
  BY <1>2, <1>4, <1>5, <1>6

LEMMA TimerFiresOK ==
  ASSUME CopiesOK, TimerFires
  PROVE  CopiesOK'
<1>1. StoreOK /\ RestTypeOK
  BY CopiesOKSplit
<1>2. ASSUME NEW roundPhase \in RoundPhases, NEW round \in Nat,
             StillIn(roundPhase, round)
      PROVE  RoomOK(room) /\ InPhase(room, roundPhase)
  BY <1>1, <1>2 DEF StillIn, StoreOK
<1>3. timers.wordSelection \in Nat /\ timers.drawing \in Nat /\ timers.roundEnd \in Nat
  BY <1>1 DEF RestTypeOK
<1>4. timers.hints \in [miniRound : Nat, pending : Nat]
  BY <1>1 DEF RestTypeOK
<1>5. CASE WordSelectionTimeout
  <2>1. StillIn("word_selection", timers.wordSelection) =>
          HandlerOK([pc |-> "wordSelectionTimeout", st |-> room, who |-> NoPlayer, word |-> NoWord])
    BY <1>2, <1>3, LoadedHandlerOK DEF ReliesOn, Pcs, RoundPhases
  <2>2. StillIn("word_selection", timers.wordSelection) \in BOOLEAN
    BY DEF StillIn, InPhase
  <2>3. StoreOK'
    BY <1>1, <1>5, <2>1, <2>2, LoadRoomOK DEF WordSelectionTimeout
  <2>4. RestTypeOK'
    BY <1>1, <1>5 DEF WordSelectionTimeout, RestTypeOK
  <2> QED
    BY <2>3, <2>4, CopiesOKNext
<1>6. CASE HintTimeout
  <2> DEFINE accepted == /\ StillIn("drawing", timers.hints.miniRound)
                         /\ RevealHint(room.wordMask) # room.wordMask
  <2>1. accepted =>
          HandlerOK([pc |-> "hintTimeout", st |-> room, who |-> NoPlayer, word |-> NoWord])
    BY <1>2, <1>4, LoadedHandlerOK DEF ReliesOn, Pcs, RoundPhases
  <2>2. accepted \in BOOLEAN
    BY DEF StillIn, InPhase
  <2>3. StoreOK'
    BY <1>1, <1>6, <2>1, <2>2, LoadRoomOK DEF HintTimeout
  <2>4. RestTypeOK'
    <3>1. timers.hints.pending - 1 \in Nat
      BY <1>4, <1>6 DEF HintTimeout
    <3>2. timers' \in [ wordSelection : Nat, drawing : Nat, roundEnd : Nat,
                        hints : [miniRound : Nat, pending : Nat] ]
      BY <1>1, <1>4, <1>6, <3>1 DEF HintTimeout, RestTypeOK
    <3> QED
      BY <1>1, <1>6, <3>2 DEF HintTimeout, RestTypeOK
  <2> QED
    BY <2>3, <2>4, CopiesOKNext
<1>7. CASE DrawingTimeout
  <2>1. StillIn("drawing", timers.drawing) =>
          HandlerOK([pc |-> "drawingTimeout", st |-> room, who |-> NoPlayer, word |-> NoWord])
    BY <1>2, <1>3, LoadedHandlerOK DEF ReliesOn, Pcs, RoundPhases
  <2>2. StillIn("drawing", timers.drawing) \in BOOLEAN
    BY DEF StillIn, InPhase
  <2>3. StoreOK'
    BY <1>1, <1>7, <2>1, <2>2, LoadRoomOK DEF DrawingTimeout
  <2>4. RestTypeOK'
    BY <1>1, <1>7 DEF DrawingTimeout, RestTypeOK
  <2> QED
    BY <2>3, <2>4, CopiesOKNext
<1>8. CASE RoundEndTimeout
  <2>1. StillIn("round_end", timers.roundEnd) =>
          HandlerOK([pc |-> "roundEndTimeout", st |-> room, who |-> NoPlayer, word |-> NoWord])
    BY <1>2, <1>3, LoadedHandlerOK DEF ReliesOn, Pcs, RoundPhases
  <2>2. StillIn("round_end", timers.roundEnd) \in BOOLEAN
    BY DEF StillIn, InPhase
  <2>3. StoreOK'
    BY <1>1, <1>8, <2>1, <2>2, LoadRoomOK DEF RoundEndTimeout
  <2>4. RestTypeOK'
    BY <1>1, <1>8 DEF RoundEndTimeout, RestTypeOK
  <2> QED
    BY <2>3, <2>4, CopiesOKNext
<1> QED
  BY <1>5, <1>6, <1>7, <1>8 DEF TimerFires

(***************************************************************************)
(* Handlers that resume.                                                   *)
(***************************************************************************)
LEMMA WordSelectionStepsOK ==
  ASSUME CopiesOK, NEW i \in DOMAIN ready,
         SaveFirstWordSelection(i) \/ SaveNextWordSelection(i) \/ ArmWordSelection(i)
  PROVE  CopiesOK'
<1> DEFINE st == ready[i].st
<1>1. StoreOK /\ RestTypeOK
  BY CopiesOKSplit
<1>2. ready[i] \in Handler /\ RoomOK(st) /\ ReliesOn(ready[i]) /\ st.miniRoundNumber \in Nat
  BY <1>1, ReadyHandler
<1> HIDE DEF st
<1>3. CASE SaveFirstWordSelection(i)
  <2>1. PICK options \in WordOptions({}) :
          SaveRoom(i, CreateWordSelectionState(st, options), "wordSelectionSaved")
    BY <1>3 DEF SaveFirstWordSelection, st
  <2>2. RoomOK(CreateWordSelectionState(st, options))
    BY <1>2, <1>3, CreateWordSelectionStateOK DEF SaveFirstWordSelection, Resumes, ReliesOn, st
  <2>3. StoreOK'
    BY <1>1, <1>2, <2>1, <2>2, PhasesReached, SavedHandlerOK, SaveRoomOK
  <2> QED
    BY <1>3, <2>3, RestUnchanged DEF SaveFirstWordSelection
<1>4. CASE SaveNextWordSelection(i)
  <2>1. PICK options \in WordOptions(st.usedWords) :
          SaveRoom(i, CreateNextWordSelectionState(st, options), "wordSelectionSaved")
    BY <1>4 DEF SaveNextWordSelection, st
  <2>2. RoomOK(CreateNextWordSelectionState(st, options))
    BY <1>2, <1>4, CreateNextWordSelectionStateOK
    DEF SaveNextWordSelection, Resumes, ReliesOn, st
  <2>3. StoreOK'
    BY <1>1, <1>2, <2>1, <2>2, PhasesReached, SavedHandlerOK, SaveRoomOK
  <2> QED
    BY <1>4, <2>3, RestUnchanged DEF SaveNextWordSelection
<1>5. CASE ArmWordSelection(i)
  <2>1. StoreOK'
    BY <1>1, <1>5, FinishOK DEF ArmWordSelection
  <2>2. RestTypeOK'
    BY <1>1, <1>2, <1>5 DEF ArmWordSelection, RestTypeOK, st
  <2> QED
    BY <2>1, <2>2, CopiesOKNext
<1> QED
  BY <1>3, <1>4, <1>5

LEMMA DrawingStepsOK ==
  ASSUME CopiesOK, NEW i \in DOMAIN ready,
         SaveChosenWord(i) \/ SaveAutoSelectedWord(i) \/ ArmDrawing(i)
  PROVE  CopiesOK'
<1> DEFINE st == ready[i].st
<1>1. StoreOK /\ RestTypeOK
  BY CopiesOKSplit
<1>2. ready[i] \in Handler /\ RoomOK(st) /\ ReliesOn(ready[i]) /\ st.miniRoundNumber \in Nat
  BY <1>1, ReadyHandler
<1>3. ASSUME InPhase(st, "word_selection"), NEW w \in st.wordOptions, SaveDrawing(i, w)
      PROVE  CopiesOK'
  <2>1. RoomOK(CreateDrawingState(st, w))
    BY <1>2, <1>3, CreateDrawingStateOK
  <2>2. StoreOK'
    BY <1>1, <1>2, <1>3, <2>1, PhasesReached, SavedHandlerOK, SaveRoomOK DEF SaveDrawing
  <2>3. RestTypeOK'
    BY <1>1, <1>3 DEF SaveDrawing, RestTypeOK
  <2> QED
    BY <2>2, <2>3, CopiesOKNext
<1>4. CASE SaveChosenWord(i)
  <2>1. InPhase(st, "word_selection") /\ ready[i].word \in st.wordOptions
    BY <1>2, <1>4 DEF SaveChosenWord, Resumes, ReliesOn
  <2> QED
    BY <1>3, <1>4, <2>1 DEF SaveChosenWord
<1>5. CASE SaveAutoSelectedWord(i)
  <2>1. InPhase(st, "word_selection")
    BY <1>2, <1>5 DEF SaveAutoSelectedWord, Resumes, ReliesOn
  <2>2. st.wordOptions # {}
    <3>1. Cardinality(st.wordOptions) = WordChoicesCount
      BY <1>2, <2>1 DEF RoomOK, WordsFresh, Playing, InPhase
    <3> QED
      BY <3>1, FS_EmptySet, SettingsAssumption
  <2>3. PICK w \in st.wordOptions : SaveDrawing(i, w)
    BY <1>5, <2>2 DEF SaveAutoSelectedWord, AutoSelectedWords
  <2> QED
    BY <1>3, <2>1, <2>3
<1>6. CASE ArmDrawing(i)
  <2>1. StoreOK'
    BY <1>1, <1>6, FinishOK DEF ArmDrawing
  <2>2. timers' \in [ wordSelection : Nat, drawing : Nat, roundEnd : Nat,
                      hints : [miniRound : Nat, pending : Nat] ]
    <3>1. timers' = [SetHints(timers, st.miniRoundNumber) EXCEPT !.drawing = st.miniRoundNumber]
      BY <1>6 DEF ArmDrawing
    <3> HIDE DEF st
    <3> QED
      BY <1>1, <1>2, <3>1, SettingsAssumption DEF RestTypeOK, SetHints
  <2>3. RestTypeOK'
    BY <1>1, <1>6, <2>2 DEF ArmDrawing, RestTypeOK
  <2> QED
    BY <2>1, <2>3, CopiesOKNext
<1> QED
  BY <1>4, <1>5, <1>6

LEMMA GuessStepsOK ==
  ASSUME CopiesOK, NEW i \in DOMAIN ready,
         SaveGuess(i) \/ AnnounceGuess(i) \/ SaveHint(i)
  PROVE  CopiesOK'
<1> DEFINE st == ready[i].st
           who == ready[i].who
<1>1. StoreOK /\ RestTypeOK
  BY CopiesOKSplit
<1>2. ready[i] \in Handler /\ RoomOK(st) /\ ReliesOn(ready[i]) /\ st \in Room
  BY <1>1, ReadyHandler
<1>3. CASE SaveGuess(i)
  <2>1. PICK remaining \in RemainingTimes :
          SaveRoom(i, ApplyCorrectGuess(st, who, remaining), "guessSaved")
    BY <1>3 DEF SaveGuess
  <2> DEFINE new == ApplyCorrectGuess(st, who, remaining)
  <2>2. /\ InPhase(st, "drawing") /\ who \in Members(st) /\ who # st.leaderPlayerId
        /\ who \in PlayerIds /\ remaining \in Int
    BY <1>2, <1>3, MembersType, LobbyAssumption, SettingsAssumption
    DEF SaveGuess, Resumes, ReliesOn
  <2>3. RoomOK(new) /\ InPhase(new, "drawing") /\ new \in Room
    BY <1>2, <2>2, ApplyCorrectGuessOK DEF RoomOK
  <2>4. HandlerOK([ready[i] EXCEPT !.pc = "guessSaved", !.st = new]) /\ "guessSaved" \in Pcs
    <3> DEFINE h == [ready[i] EXCEPT !.pc = "guessSaved", !.st = new]
    <3>1. who \in GuessersWhoGuessed(new)
      BY <1>2, <2>2, GuessRecorded
    <3> HIDE DEF new
    <3>2. h \in Handler /\ h.pc = "guessSaved" /\ h.st = new /\ h.who = who
      BY <1>2, <2>3 DEF Handler, Pcs
    <3> HIDE DEF h, who
    <3>3. ReliesOn(h)
      BY <2>3, <3>1, <3>2 DEF ReliesOn
    <3> QED
      BY <2>3, <3>2, <3>3 DEF HandlerOK, h, Pcs
  <2>5. StoreOK'
    BY <1>1, <2>1, <2>3, <2>4, SaveRoomOK
  <2> QED
    BY <1>3, <2>5, RestUnchanged DEF SaveGuess
<1>4. CASE AnnounceGuess(i)
  <2>1. InPhase(st, "drawing") /\ who \in PlayerIds
    BY <1>2, <1>4, GuessersType DEF AnnounceGuess, Resumes, ReliesOn
  <2>2. told' \in SUBSET PlayerIds /\ scoreboard' \in [PlayerIds -> Nat]
    BY <1>1, <1>2, <1>4, <2>1, ScoresType DEF AnnounceGuess, RestTypeOK
  <2>3. CASE AllGuessersFinished(st)
    <3>1. RoomOK(CreateRoundEndState(st))
      BY <1>2, <2>1, CreateRoundEndStateOK
    <3>2. SaveRoom(i, CreateRoundEndState(st), "roundEndSaved")
      BY <1>4, <2>3 DEF AnnounceGuess
    <3>3. StoreOK'
      BY <1>1, <1>2, <2>1, <3>1, <3>2, PhasesReached, SavedHandlerOK, SaveRoomOK DEF InPhase
    <3>4. timers' = [ClearHints(timers) EXCEPT !.drawing = 0]
      BY <1>4, <2>3 DEF AnnounceGuess
    <3>5. RestTypeOK'
      BY <1>1, <2>2, <3>4 DEF RestTypeOK, ClearHints, NoTimers
    <3> QED
      BY <3>3, <3>5, CopiesOKNext
  <2>4. CASE ~AllGuessersFinished(st)
    <3>1. StoreOK'
      BY <1>1, <1>4, <2>4, FinishOK DEF AnnounceGuess
    <3>2. RestTypeOK'
      BY <1>1, <1>4, <2>2, <2>4 DEF AnnounceGuess, RestTypeOK
    <3> QED
      BY <3>1, <3>2, CopiesOKNext
  <2> QED
    BY <2>3, <2>4
<1>5. CASE SaveHint(i)
  <2>1. RoomOK(ApplyHint(st))
    BY <1>2, <1>5, ApplyHintOK DEF SaveHint, Resumes, ReliesOn
  <2>2. StoreOK'
    BY <1>1, <1>5, <2>1, SaveRoomAndFinishOK DEF SaveHint
  <2> QED
    BY <1>5, <2>2, RestUnchanged DEF SaveHint
<1> QED
  BY <1>3, <1>4, <1>5

LEMMA RoundEndStepsOK ==
  ASSUME CopiesOK, NEW i \in DOMAIN ready,
         SaveRoundEnd(i) \/ ArmRoundEnd(i) \/ SaveGameOver(i) \/ ClearRoomTimers(i)
  PROVE  CopiesOK'
<1> DEFINE st == ready[i].st
<1>1. StoreOK /\ RestTypeOK
  BY CopiesOKSplit
<1>2. /\ ready[i] \in Handler /\ RoomOK(st) /\ ReliesOn(ready[i])
      /\ st \in Room /\ st.miniRoundNumber \in Nat
  BY <1>1, ReadyHandler
<1>3. CASE SaveRoundEnd(i)
  <2>1. RoomOK(CreateRoundEndState(st))
    BY <1>2, <1>3, CreateRoundEndStateOK DEF SaveRoundEnd, Resumes, ReliesOn
  <2>2. StoreOK'
    BY <1>1, <1>2, <1>3, <2>1, PhasesReached, SavedHandlerOK, SaveRoomOK
    DEF SaveRoundEnd, Resumes, ReliesOn, InPhase
  <2>3. RestTypeOK'
    BY <1>1, <1>3 DEF SaveRoundEnd, RestTypeOK, ClearHints, NoTimers
  <2> QED
    BY <2>2, <2>3, CopiesOKNext
<1>4. CASE ArmRoundEnd(i)
  <2>1. StoreOK'
    BY <1>1, <1>4, FinishOK DEF ArmRoundEnd
  <2>2. RestTypeOK'
    BY <1>1, <1>2, <1>4, ScoresType DEF ArmRoundEnd, RestTypeOK
  <2> QED
    BY <2>1, <2>2, CopiesOKNext
<1>5. CASE SaveGameOver(i)
  <2>1. RoomOK(CreateGameOverState(st))
    BY <1>2, <1>5, CreateGameOverStateOK DEF SaveGameOver, Resumes, ReliesOn
  <2>2. StoreOK'
    BY <1>1, <1>2, <1>5, <2>1, PhasesReached, SavedHandlerOK, SaveRoomOK DEF SaveGameOver
  <2> QED
    BY <1>5, <2>2, RestUnchanged DEF SaveGameOver
<1>6. CASE ClearRoomTimers(i)
  <2>1. StoreOK'
    BY <1>1, <1>6, FinishOK DEF ClearRoomTimers
  <2>2. RestTypeOK'
    BY <1>1, <1>6 DEF ClearRoomTimers, RestTypeOK, NoTimers
  <2> QED
    BY <2>1, <2>2, CopiesOKNext
<1> QED
  BY <1>3, <1>4, <1>5, <1>6

(***************************************************************************)
(* The theorems.                                                           *)
(***************************************************************************)
(* Every copy of the room, in Redis or in the hands of a handler, is well  *)
(* formed, and every handler holds what its next step relies on.           *)
THEOREM CopiesStayOK == Spec => []CopiesOK
<1>1. CopiesOK /\ [Next]_vars => CopiesOK'
  <2> SUFFICES ASSUME CopiesOK, [Next]_vars
               PROVE  CopiesOK'
    OBVIOUS
  <2>1. CASE Request
    BY <2>1, RequestOK
  <2>2. CASE TimerFires
    BY <2>2, TimerFiresOK
  <2>3. CASE Replies
    <3>1. StoreOK'
      BY <2>3, CopiesOKSplit, DeliverOK DEF Replies
    <3> QED
      BY <2>3, <3>1, RestUnchanged DEF Replies
  <2>4. CASE Resume
    <3>1. PICK i \in DOMAIN ready :
            \/ SaveFirstWordSelection(i) \/ SaveNextWordSelection(i) \/ ArmWordSelection(i)
            \/ SaveChosenWord(i) \/ SaveAutoSelectedWord(i) \/ ArmDrawing(i)
            \/ SaveGuess(i) \/ AnnounceGuess(i) \/ SaveHint(i)
            \/ SaveRoundEnd(i) \/ ArmRoundEnd(i)
            \/ SaveGameOver(i) \/ ClearRoomTimers(i)
      BY <2>4 DEF Resume
    <3> QED
      BY <3>1, WordSelectionStepsOK, DrawingStepsOK, GuessStepsOK, RoundEndStepsOK
  <2>5. CASE UNCHANGED vars
    BY <2>5 DEF vars, storeVars, CopiesOK, TypeOK, StoreOK, StoreTypeOK
  <2> QED
    BY <2>1, <2>2, <2>3, <2>4, <2>5 DEF Next
<1> QED
  BY <1>1, InitOK, PTL DEF Spec

(* Type correctness.                                                       *)
THEOREM TypeCorrect == Spec => []TypeOK
<1>1. CopiesOK => TypeOK
  BY DEF CopiesOK
<1> QED
  BY <1>1, CopiesStayOK, PTL

LEMMA CopiesAreOK ==
  ASSUME CopiesOK, NEW st \in RoomCopies
  PROVE  RoomOK(st)
  BY DEF CopiesOK, StoreOK, RoomCopies, Copies, HandlerOK

(* No word is drawn twice in a game, and the leader always has new words   *)
(* to choose from.                                                         *)
THEOREM WordsStayFresh == Spec => []NoWordTwice
<1>1. CopiesOK => NoWordTwice
  BY CopiesAreOK DEF NoWordTwice, RoomOK
<1> QED
  BY <1>1, CopiesStayOK, PTL

(* However the hint timers interleave with everything else, the mask hides *)
(* a letter and agrees with the number of hints.                           *)
THEOREM WordStaysSecret == Spec => []HintsNeverRevealTheWord
<1>1. CopiesOK => HintsNeverRevealTheWord
  BY CopiesAreOK DEF HintsNeverRevealTheWord, RoomOK
<1> QED
  BY <1>1, CopiesStayOK, PTL

(* The leader of a drawing never has the word credited to him as a guess.  *)
THEOREM LeaderStaysOut == Spec => []LeaderNeverGuesses
<1>1. CopiesOK => LeaderNeverGuesses
  BY CopiesAreOK DEF LeaderNeverGuesses, RoomOK
<1> QED
  BY <1>1, CopiesStayOK, PTL

(* A game is over only after its last round.                               *)
THEOREM NoEarlyGameOver == Spec => []OverOnlyAfterTheLastRound
<1>1. CopiesOK => OverOnlyAfterTheLastRound
  BY CopiesAreOK DEF OverOnlyAfterTheLastRound, RoomOK
<1> QED
  BY <1>1, CopiesStayOK, PTL

(***************************************************************************)
(* What a step does to the copies of the room: all of them stay, or one    *)
(* handler writes the record that its turn computes from the one it holds. *)
(***************************************************************************)
Turn(h, new) ==
  \/ /\ h.pc = "startGame"
     /\ \E options \in WordOptions({}) : new = CreateWordSelectionState(h.st, options)
  \/ /\ h.pc = "roundEndTimeout" /\ h.st.miniRoundNumber < h.st.totalMiniRounds
     /\ \E options \in WordOptions(h.st.usedWords) :
          new = CreateNextWordSelectionState(h.st, options)
  \/ /\ h.pc \in {"chooseWord", "wordSelectionTimeout"}
     /\ \E w \in h.st.wordOptions : new = CreateDrawingState(h.st, w)
  \/ /\ h.pc = "guess"
     /\ \E remaining \in RemainingTimes : new = ApplyCorrectGuess(h.st, h.who, remaining)
  \/ h.pc = "hintTimeout" /\ new = ApplyHint(h.st)
  \/ h.pc \in {"drawingTimeout", "guessSaved"} /\ new = CreateRoundEndState(h.st)
  \/ /\ h.pc = "roundEndTimeout" /\ h.st.miniRoundNumber >= h.st.totalMiniRounds
     /\ new = CreateGameOverState(h.st)

Keeps == UNCHANGED <<room, lostUpdate>> /\ RoomCopies' \subseteq RoomCopies

Writes(i) ==
  /\ Turn(ready[i], room')
  /\ lostUpdate' = (lostUpdate \/ room # ready[i].st)
  /\ RoomCopies' \subseteq RoomCopies \cup {room'}

LEMMA CopiesHeld ==
  /\ Copies = {h.st : h \in ToSet(queue) \cup ToSet(ready)}
  /\ Copies' = {h.st : h \in ToSet(queue') \cup ToSet(ready')}
  BY DEF Copies, ToSet

LEMMA LoadKeeps ==
  ASSUME StoreOK, room # NoRoom, NEW pc \in Pcs, NEW p \in PlayerIds \cup {NoPlayer},
         NEW w \in Words \cup {NoWord}, NEW accepted \in BOOLEAN,
         LoadRoom(pc, p, w, accepted)
  PROVE  Keeps
<1> DEFINE h == [pc |-> pc, st |-> room, who |-> p, word |-> w]
<1>1. h \in Handler /\ h.st = room /\ queue \in Seq(Handler)
  BY DEF Handler, StoreOK, StoreTypeOK
<1>2. queue' = IF accepted THEN Append(queue, h) ELSE queue
  BY DEF LoadRoom
<1> HIDE DEF h
<1>3. ToSet(queue') \subseteq ToSet(queue) \cup {h}
  BY <1>1, <1>2, ToSetAppend
<1>4. UNCHANGED <<room, ready, lostUpdate>> /\ ToSet(ready') = ToSet(ready)
  BY DEF LoadRoom
<1>5. Copies' \subseteq Copies \cup {room}
  BY <1>1, <1>3, <1>4, CopiesHeld
<1> QED
  BY <1>4, <1>5 DEF Keeps, RoomCopies

LEMMA FinishKeeps ==
  ASSUME StoreOK, NEW i \in DOMAIN ready, Finish(i)
  PROVE  Keeps
<1>1. ready \in Seq(Handler) /\ ready' = RemoveAt(ready, i)
  BY DEF StoreOK, StoreTypeOK, Finish
<1>2. ToSet(ready') \subseteq ToSet(ready)
  BY <1>1, ToSetRemove
<1>3. UNCHANGED <<room, queue, lostUpdate>> /\ ToSet(queue') = ToSet(queue)
  BY DEF Finish
<1>4. Copies' \subseteq Copies
  BY <1>2, <1>3, CopiesHeld
<1> QED
  BY <1>3, <1>4 DEF Keeps, RoomCopies

LEMMA DeliverKeeps ==
  ASSUME StoreOK, Deliver
  PROVE  Keeps
<1>1. PICK n \in 1..Len(queue) : /\ ready' = SubSeq(queue, 1, n)
                                /\ queue' = SubSeq(queue, n + 1, Len(queue))
  BY DEF Deliver
<1>2. queue \in Seq(Handler)
  BY DEF StoreOK, StoreTypeOK
<1>3. ToSet(queue) = ToSet(ready') \cup ToSet(queue')
  BY <1>1, <1>2, ToSetCut
<1>4. UNCHANGED <<room, lostUpdate>>
  BY DEF Deliver
<1>5. Copies' \subseteq Copies
  BY <1>3, CopiesHeld
<1> QED
  BY <1>4, <1>5 DEF Keeps, RoomCopies

LEMMA SaveWrites ==
  ASSUME StoreOK, NEW i \in DOMAIN ready, NEW next \in Room, NEW pc \in Pcs,
         SaveRoom(i, next, pc), Turn(ready[i], next)
  PROVE  Writes(i)
<1> DEFINE h == [ready[i] EXCEPT !.pc = pc, !.st = next]
<1>1. /\ queue \in Seq(Handler) /\ ready \in Seq(Handler) /\ ready[i] \in Handler
      /\ next \in Room
  BY DEF StoreOK, StoreTypeOK, HandlerOK
<1>2. h \in Handler /\ h.st = next
  BY <1>1 DEF Handler
<1>3. queue' = Append(queue, h) /\ ready' = RemoveAt(ready, i) /\ room' = next
  BY DEF SaveRoom
<1> HIDE DEF h
<1>4. ToSet(queue') = ToSet(queue) \cup {h} /\ ToSet(ready') \subseteq ToSet(ready)
  BY <1>1, <1>2, <1>3, ToSetAppend, ToSetRemove
<1>5. RoomCopies' \subseteq RoomCopies \cup {room'}
  <2>1. Copies' \subseteq Copies \cup {room'}
    BY <1>2, <1>3, <1>4, CopiesHeld
  <2> QED
    BY <2>1 DEF RoomCopies
<1> QED
  BY <1>5 DEF Writes, SaveRoom

LEMMA SaveAndFinishWrites ==
  ASSUME StoreOK, NEW i \in DOMAIN ready, NEW next,
         SaveRoomAndFinish(i, next), Turn(ready[i], next)
  PROVE  Writes(i)
<1>1. ready \in Seq(Handler) /\ ready' = RemoveAt(ready, i) /\ queue' = queue /\ room' = next
  BY DEF StoreOK, StoreTypeOK, SaveRoomAndFinish
<1>2. ToSet(queue') = ToSet(queue) /\ ToSet(ready') \subseteq ToSet(ready)
  BY <1>1, ToSetRemove
<1>3. RoomCopies' \subseteq RoomCopies \cup {room'}
  <2>1. Copies' \subseteq Copies
    BY <1>2, CopiesHeld
  <2> QED
    BY <2>1 DEF RoomCopies
<1> QED
  BY <1>3 DEF Writes, SaveRoomAndFinish

LEMMA TurnIsSound ==
  ASSUME NEW h, HandlerOK(h), NEW new, Turn(h, new)
  PROVE  /\ h.st \in Room
         /\ h.pc = "startGame" => h.st.phase = "lobby" /\ h.st.miniRoundNumber = 0
         /\ h.pc \in {"chooseWord", "wordSelectionTimeout"} => InPhase(h.st, "word_selection")
         /\ h.pc \in {"guess", "guessSaved", "hintTimeout", "drawingTimeout"}
              => InPhase(h.st, "drawing")
         /\ h.pc = "roundEndTimeout" => InPhase(h.st, "round_end")
         /\ RoomOK(new)
<1> DEFINE st == h.st
<1>1. /\ st \in Room /\ RoomOK(st) /\ ReliesOn(h)
  BY DEF HandlerOK, RoomOK
<1>2. /\ h.pc = "startGame" => st.phase = "lobby" /\ st.miniRoundNumber = 0
      /\ h.pc \in {"chooseWord", "wordSelectionTimeout"} => InPhase(st, "word_selection")
      /\ h.pc \in {"guess", "guessSaved", "hintTimeout", "drawingTimeout"}
           => InPhase(st, "drawing")
      /\ h.pc = "roundEndTimeout" => InPhase(st, "round_end")
  BY <1>1 DEF ReliesOn, RoomOK, RoundNumberOK
<1>3. h.pc = "guess" => h.who \in PlayerIds /\ h.who # st.leaderPlayerId
  BY <1>1, MembersType DEF ReliesOn
<1>4. h.pc = "hintTimeout" => RevealHint(st.wordMask) # st.wordMask
  BY <1>1 DEF ReliesOn
<1>5. \A remaining \in RemainingTimes : remaining \in Int
  BY LobbyAssumption, SettingsAssumption
<1> HIDE DEF st
<1>6. RoomOK(new)
  <2>1. CASE /\ h.pc = "startGame"
             /\ \E options \in WordOptions({}) : new = CreateWordSelectionState(st, options)
    BY <1>1, <1>2, <2>1, CreateWordSelectionStateOK
  <2>2. CASE /\ h.pc = "roundEndTimeout" /\ st.miniRoundNumber < st.totalMiniRounds
             /\ \E options \in WordOptions(st.usedWords) :
                  new = CreateNextWordSelectionState(st, options)
    BY <1>1, <1>2, <2>2, CreateNextWordSelectionStateOK
  <2>3. CASE /\ h.pc \in {"chooseWord", "wordSelectionTimeout"}
             /\ \E w \in st.wordOptions : new = CreateDrawingState(st, w)
    BY <1>1, <1>2, <2>3, CreateDrawingStateOK
  <2>4. CASE /\ h.pc = "guess"
             /\ \E remaining \in RemainingTimes : new = ApplyCorrectGuess(st, h.who, remaining)
    BY <1>1, <1>2, <1>3, <1>5, <2>4, ApplyCorrectGuessOK
  <2>5. CASE h.pc = "hintTimeout" /\ new = ApplyHint(st)
    BY <1>1, <1>2, <1>4, <2>5, ApplyHintOK
  <2>6. CASE h.pc \in {"drawingTimeout", "guessSaved"} /\ new = CreateRoundEndState(st)
    BY <1>1, <1>2, <2>6, CreateRoundEndStateOK
  <2>7. CASE /\ h.pc = "roundEndTimeout" /\ st.miniRoundNumber >= st.totalMiniRounds
             /\ new = CreateGameOverState(st)
    BY <1>1, <1>2, <2>7, CreateGameOverStateOK
  <2> QED
    BY <2>1, <2>2, <2>3, <2>4, <2>5, <2>6, <2>7 DEF Turn, st
<1> QED
  BY <1>1, <1>2, <1>6 DEF st

LEMMA RequestKeeps ==
  ASSUME StoreOK, Request
  PROVE  Keeps
<1>1. PICK p \in PlayerIds :
        /\ room # NoRoom
        /\ StartGame(p) \/ (\E w \in Words : ChooseWord(p, w)) \/ Guess(p)
  BY DEF Request
<1>2. CASE StartGame(p)
  BY <1>1, <1>2, LoadKeeps DEF StartGame, Pcs
<1>3. CASE \E w \in Words : ChooseWord(p, w)
  BY <1>1, <1>3, LoadKeeps DEF ChooseWord, Pcs
<1>4. CASE Guess(p)
  BY <1>1, <1>4, LoadKeeps DEF Guess, Pcs
<1> QED
  BY <1>1, <1>2, <1>3, <1>4

LEMMA TimerKeeps ==
  ASSUME StoreOK, room # NoRoom, TimerFires
  PROVE  Keeps
<1>1. \A phase, round : StillIn(phase, round) \in BOOLEAN
  BY DEF StillIn, InPhase
<1>2. CASE WordSelectionTimeout
  BY <1>1, <1>2, LoadKeeps DEF WordSelectionTimeout, Pcs
<1>3. CASE HintTimeout
  <2> DEFINE accepted == /\ StillIn("drawing", timers.hints.miniRound)
                         /\ RevealHint(room.wordMask) # room.wordMask
  <2>1. accepted \in BOOLEAN
    BY <1>1
  <2>2. LoadRoom("hintTimeout", NoPlayer, NoWord, accepted)
    BY <1>3 DEF HintTimeout
  <2> HIDE DEF accepted
  <2> QED
    BY <2>1, <2>2, LoadKeeps DEF Pcs
<1>4. CASE DrawingTimeout
  BY <1>1, <1>4, LoadKeeps DEF DrawingTimeout, Pcs
<1>5. CASE RoundEndTimeout
  BY <1>1, <1>5, LoadKeeps DEF RoundEndTimeout, Pcs
<1> QED
  BY <1>2, <1>3, <1>4, <1>5 DEF TimerFires

LEMMA ResumeWrites ==
  ASSUME StoreOK, Resume
  PROVE  Keeps \/ \E i \in DOMAIN ready : Writes(i)
<1>1. PICK i \in DOMAIN ready :
        \/ SaveFirstWordSelection(i) \/ SaveNextWordSelection(i) \/ ArmWordSelection(i)
        \/ SaveChosenWord(i) \/ SaveAutoSelectedWord(i) \/ ArmDrawing(i)
        \/ SaveGuess(i) \/ AnnounceGuess(i) \/ SaveHint(i)
        \/ SaveRoundEnd(i) \/ ArmRoundEnd(i)
        \/ SaveGameOver(i) \/ ClearRoomTimers(i)
  BY DEF Resume
<1> DEFINE h == ready[i]
<1>2. HandlerOK(h) /\ ReliesOn(h) /\ RoomOK(h.st)
  BY DEF StoreOK, HandlerOK
<1>3. \A next, pc : SaveRoom(i, next, pc) /\ Turn(h, next) /\ pc \in Pcs => Writes(i)
  BY <1>2, TurnIsSound, SaveWrites DEF RoomOK
<1>4. CASE \/ ArmWordSelection(i) \/ ArmDrawing(i) \/ ArmRoundEnd(i) \/ ClearRoomTimers(i)
           \/ AnnounceGuess(i) /\ ~AllGuessersFinished(h.st)
  BY <1>4, FinishKeeps
  DEF ArmWordSelection, ArmDrawing, ArmRoundEnd, ClearRoomTimers, AnnounceGuess
<1>5. CASE SaveFirstWordSelection(i)
  BY <1>3, <1>5 DEF SaveFirstWordSelection, Resumes, Turn, Pcs
<1>6. CASE SaveNextWordSelection(i)
  BY <1>3, <1>6 DEF SaveNextWordSelection, Resumes, Turn, Pcs
<1>7. CASE SaveChosenWord(i)
  <2>1. h.word \in h.st.wordOptions /\ h.pc = "chooseWord"
    BY <1>2, <1>7 DEF SaveChosenWord, Resumes, ReliesOn
  <2> QED
    BY <1>3, <1>7, <2>1 DEF SaveChosenWord, SaveDrawing, Turn, Pcs
<1>8. CASE SaveAutoSelectedWord(i)
  <2>1. h.pc = "wordSelectionTimeout" /\ InPhase(h.st, "word_selection")
    BY <1>2, <1>8 DEF SaveAutoSelectedWord, Resumes, ReliesOn
  <2>2. Cardinality(h.st.wordOptions) = WordChoicesCount
    BY <1>2, <2>1 DEF RoomOK, WordsFresh, Playing, InPhase
  <2>3. h.st.wordOptions # {}
    BY <2>2, FS_EmptySet, SettingsAssumption
  <2>4. PICK w \in h.st.wordOptions : SaveDrawing(i, w)
    BY <1>8, <2>3 DEF SaveAutoSelectedWord, AutoSelectedWords
  <2> QED
    BY <1>3, <2>1, <2>4 DEF SaveDrawing, Turn, Pcs
<1>9. CASE SaveGuess(i)
  BY <1>3, <1>9 DEF SaveGuess, Resumes, Turn, Pcs
<1>10. CASE AnnounceGuess(i) /\ AllGuessersFinished(h.st)
  BY <1>3, <1>10 DEF AnnounceGuess, Resumes, Turn, Pcs
<1>11. CASE SaveHint(i)
  BY <1>11, SaveAndFinishWrites DEF SaveHint, Resumes, Turn
<1>12. CASE SaveRoundEnd(i)
  BY <1>3, <1>12 DEF SaveRoundEnd, Resumes, Turn, Pcs
<1>13. CASE SaveGameOver(i)
  BY <1>3, <1>13 DEF SaveGameOver, Resumes, Turn, Pcs
<1> QED
  BY <1>1, <1>4, <1>5, <1>6, <1>7, <1>8, <1>9, <1>10, <1>11, <1>12, <1>13

LEMMA StepWrites ==
  ASSUME StoreOK, room # NoRoom, [Next]_vars
  PROVE  Keeps \/ \E i \in DOMAIN ready : Writes(i)
<1>1. CASE UNCHANGED vars
  BY <1>1 DEF vars, storeVars, Keeps, RoomCopies, Copies
<1>2. CASE Replies
  BY <1>2, DeliverKeeps DEF Replies
<1> QED
  BY <1>1, <1>2, RequestKeeps, TimerKeeps, ResumeWrites DEF Next

(***************************************************************************)
(* Nobody comes or goes: every copy of the room seats the players in the   *)
(* order they joined, led by one of them.                                  *)
(***************************************************************************)
RoundLed(st) ==
  IF st.roundPhase = "round_end" THEN st.miniRoundNumber + 1 ELSE st.miniRoundNumber

LeadInTurn(st) ==
  Connected(st) = Members(st) => st.leaderPlayerId = LeaderOfRound(RoundLed(st))

CastOK(st) ==
  /\ DOMAIN st.players = DOMAIN JoinOrder
  /\ \A i \in DOMAIN JoinOrder : st.players[i].id = JoinOrder[i]
  /\ st.leaderPlayerId \in Members(st)
  /\ st.roundParticipantsCount <= 12
  /\ st.phase = "lobby" => st.roundPhase = "round_end"
  /\ LeadInTurn(st)

CastKept == room # NoRoom /\ \A st \in RoomCopies : CastOK(st)

LEMMA CastApart ==
  ASSUME NEW st \in Room, CastOK(st)
  PROVE  SeatsApart(st)
  BY LobbyAssumption, LenProperties DEF CastOK, SeatsApart

LEMMA CastSize ==
  ASSUME NEW st \in Room, CastOK(st)
  PROVE  /\ Len(st.players) = Len(JoinOrder) /\ Len(JoinOrder) \in 1..12
         /\ DOMAIN JoinOrder = 1..Len(JoinOrder)
<1>1. /\ DOMAIN JoinOrder = 1..Len(JoinOrder) /\ Len(JoinOrder) \in Nat
      /\ Len(JoinOrder) \in 1..MaxPlayers
  BY LobbyAssumption, LenProperties
<1>2. DOMAIN st.players = 1..Len(st.players) /\ Len(st.players) \in Nat
  BY PlayersDomain
<1>3. Len(JoinOrder) \in 1..12
  <2>1. MaxPlayers \in 2..12
    BY SettingsAssumption
  <2>2. \A m \in 2..12 : 1..m \subseteq 1..12
    OBVIOUS
  <2> QED
    BY <1>1, <2>1, <2>2
<1>4. DOMAIN st.players = DOMAIN JoinOrder
  BY DEF CastOK
<1> DEFINE m == Len(st.players)
           n == Len(JoinOrder)
<1>5. m \in Nat /\ n \in Nat /\ 1..m = 1..n
  BY <1>1, <1>2, <1>4
<1> HIDE DEF m, n
<1>6. m = n
  BY <1>5
<1> QED
  BY <1>1, <1>3, <1>6 DEF m, n

(* The lead moves on by one place at the end of a round.                   *)
LEMMA RoundEndInTurn ==
  ASSUME NEW st \in Room, CastOK(st), InPhase(st, "drawing"), st.miniRoundNumber # 0,
         Connected(st) = Members(st)
  PROVE  NextLeader(st) = LeaderOfRound(st.miniRoundNumber + 1)
<1> DEFINE n == Len(JoinOrder)
           k == st.miniRoundNumber
           place == ((k - 1) % n) + 1
<1>1. /\ n \in Nat \ {0} /\ DOMAIN st.players = 1..n /\ Len(st.players) = n
      /\ k \in Nat \ {0}
  <2>1. n \in 1..12 /\ DOMAIN JoinOrder = 1..n /\ Len(st.players) = n
    BY CastSize
  <2>2. DOMAIN st.players = 1..n
    BY <2>1 DEF CastOK
  <2>3. k \in Nat
    BY DEF Room
  <2> QED
    BY <2>1, <2>2, <2>3
<1>2. place \in 1..n
  <2> HIDE DEF n, k
  <2> QED
    BY <1>1
<1>3. st.leaderPlayerId = JoinOrder[place]
  BY DEF CastOK, LeadInTurn, RoundLed, LeaderOfRound, InPhase
<1> HIDE DEF place, k
<1>4. st.players[place].id = st.leaderPlayerId
  BY <1>1, <1>2, <1>3 DEF CastOK
<1>5. IndexOf(st, st.leaderPlayerId) = place
  BY <1>1, <1>2, <1>4, CastApart, SeatOf
<1>6. \A j \in DOMAIN st.players : IsConnected(st.players[j])
  <2> SUFFICES ASSUME NEW j \in DOMAIN st.players PROVE IsConnected(st.players[j])
    OBVIOUS
  <2>1. PICK i \in DOMAIN st.players :
          IsConnected(st.players[i]) /\ st.players[i].id = st.players[j].id
    BY DEF Members, Connected
  <2> QED
    BY <2>1, CastApart DEF SeatsApart
<1>7. NextLeader(st) = NextInOrder(st)
  BY <1>6, NextLeaderInTurn DEF CastOK
<1>8. NextLeader(st) = st.players[(place % n) + 1].id
  BY <1>1, <1>5, <1>7 DEF NextInOrder
<1>9. place % n = k % n
  <2> HIDE DEF n
  <2> QED
    BY <1>1, NextPlaceOfRound DEF place
<1>10. (k % n) + 1 \in 1..n
  <2> HIDE DEF n
  <2> QED
    BY <1>1
<1>11. NextLeader(st) = JoinOrder[(k % n) + 1]
  BY <1>1, <1>8, <1>9, <1>10 DEF CastOK
<1>12. (k + 1) - 1 = k
  BY <1>1
<1> QED
  BY <1>11, <1>12 DEF LeaderOfRound, k

LEMMA SameCastOK ==
  ASSUME NEW st \in Room, CastOK(st), NEW new, SameCast(st, new),
         new.leaderPlayerId \in Members(st), new.roundParticipantsCount <= 12,
         new.phase = "in_game" \/ new.roundPhase = "round_end",
         Connected(st) = Members(st) => new.leaderPlayerId = LeaderOfRound(RoundLed(new))
  PROVE  CastOK(new)
<1>1. Members(new) = Members(st) /\ Connected(new) = Connected(st)
  BY SameCastMembers
<1>2. /\ DOMAIN new.players = DOMAIN JoinOrder
      /\ \A i \in DOMAIN JoinOrder : new.players[i].id = JoinOrder[i]
  BY DEF CastOK, SameCast
<1> QED
  BY <1>1, <1>2 DEF CastOK, LeadInTurn

LEMMA TurnKeepsCast ==
  ASSUME NEW h, HandlerOK(h), CastOK(h.st), NEW new, Turn(h, new)
  PROVE  CastOK(new) /\ SameCast(h.st, new)
<1> DEFINE st == h.st
<1>1. /\ st \in Room /\ RoomOK(st) /\ CastOK(st)
      /\ h.pc = "startGame" => st.phase = "lobby" /\ st.miniRoundNumber = 0
      /\ h.pc \in {"chooseWord", "wordSelectionTimeout"} => InPhase(st, "word_selection")
      /\ h.pc \in {"guess", "guessSaved", "hintTimeout", "drawingTimeout"}
           => InPhase(st, "drawing")
      /\ h.pc = "roundEndTimeout" => InPhase(st, "round_end")
  BY TurnIsSound DEF HandlerOK
<1> HIDE DEF st
<1>2. /\ st.leaderPlayerId \in Members(st) /\ st.roundParticipantsCount <= 12
      /\ Connected(st) = Members(st) => st.leaderPlayerId = LeaderOfRound(RoundLed(st))
      /\ st.miniRoundNumber \in Nat /\ st.usedWords \in SUBSET Words
      /\ st.wordOptions \in SUBSET Words
  BY <1>1 DEF CastOK, LeadInTurn, Room
<1>3. ASSUME h.pc = "startGame", NEW options \in WordOptions({}),
             new = CreateWordSelectionState(st, options)
      PROVE  CastOK(new) /\ SameCast(st, new)
  <2>1. options \in SUBSET Words
    BY <1>3 DEF WordOptions
  <2>2. /\ InPhase(new, "word_selection") /\ new.miniRoundNumber = 1
        /\ new.leaderPlayerId = st.leaderPlayerId
        /\ new.roundParticipantsCount = st.roundParticipantsCount /\ SameCast(st, new)
    BY <1>1, <1>3, <2>1, WordSelectionEffect
  <2>3. RoundLed(st) = 1 /\ RoundLed(new) = 1
    BY <1>1, <1>3, <2>2 DEF RoundLed, CastOK, InPhase
  <2> QED
    BY <1>1, <1>2, <2>2, <2>3, SameCastOK DEF InPhase
<1>4. ASSUME h.pc = "roundEndTimeout", NEW options \in WordOptions(st.usedWords),
             new = CreateNextWordSelectionState(st, options)
      PROVE  CastOK(new) /\ SameCast(st, new)
  <2>1. options \in SUBSET Words
    BY <1>4 DEF WordOptions
  <2>2. /\ InPhase(new, "word_selection")
        /\ new.miniRoundNumber = st.miniRoundNumber + 1
        /\ new.leaderPlayerId = st.leaderPlayerId
        /\ new.roundParticipantsCount = st.roundParticipantsCount /\ SameCast(st, new)
    BY <1>1, <1>4, <2>1, NextWordSelectionEffect
  <2>3. RoundLed(new) = RoundLed(st)
    BY <1>1, <1>4, <2>2 DEF RoundLed, InPhase
  <2> QED
    BY <1>1, <1>2, <2>2, <2>3, SameCastOK DEF InPhase
<1>5. ASSUME h.pc \in {"chooseWord", "wordSelectionTimeout"}, NEW w \in st.wordOptions,
             new = CreateDrawingState(st, w)
      PROVE  CastOK(new) /\ SameCast(st, new)
  <2>1. w \in Words
    BY <1>2
  <2>2. /\ InPhase(new, "drawing") /\ new.miniRoundNumber = st.miniRoundNumber
        /\ new.leaderPlayerId = st.leaderPlayerId
        /\ new.roundParticipantsCount <= Len(st.players) /\ SameCast(st, new)
    BY <1>1, <1>5, <2>1, DrawingEffect
  <2>3. RoundLed(new) = RoundLed(st)
    BY <1>1, <1>5, <2>2 DEF RoundLed, InPhase
  <2>4. new.roundParticipantsCount <= 12
    <3>1. Len(st.players) \in 1..12
      BY <1>1, CastSize
    <3>2. new.roundParticipantsCount \in Nat
      BY TurnIsSound DEF RoomOK, Room
    <3>3. \A a \in Nat, b \in 1..12 : a <= b => a <= 12
      OBVIOUS
    <3> QED
      BY <2>2, <3>1, <3>2, <3>3
  <2> QED
    BY <1>1, <1>2, <2>2, <2>3, <2>4, SameCastOK DEF InPhase
<1>6. ASSUME h.pc = "guess", NEW remaining \in RemainingTimes,
             new = ApplyCorrectGuess(st, h.who, remaining)
      PROVE  CastOK(new) /\ SameCast(st, new)
  <2>1. remaining \in Int
    BY LobbyAssumption, SettingsAssumption
  <2>2. /\ new.phase = st.phase /\ new.roundPhase = st.roundPhase
        /\ new.miniRoundNumber = st.miniRoundNumber
        /\ new.leaderPlayerId = st.leaderPlayerId
        /\ new.roundParticipantsCount = st.roundParticipantsCount /\ SameCast(st, new)
    BY <1>1, <1>6, <2>1, GuessEffect
  <2>3. RoundLed(new) = RoundLed(st)
    BY <2>2 DEF RoundLed
  <2> QED
    BY <1>1, <1>2, <1>6, <2>2, <2>3, SameCastOK DEF InPhase
<1>7. ASSUME h.pc = "hintTimeout", new = ApplyHint(st)
      PROVE  CastOK(new) /\ SameCast(st, new)
  <2>1. /\ new.phase = st.phase /\ new.roundPhase = st.roundPhase
        /\ new.miniRoundNumber = st.miniRoundNumber
        /\ new.leaderPlayerId = st.leaderPlayerId
        /\ new.roundParticipantsCount = st.roundParticipantsCount /\ SameCast(st, new)
    BY <1>1, <1>7, HintEffect
  <2>2. RoundLed(new) = RoundLed(st)
    BY <2>1 DEF RoundLed
  <2> QED
    BY <1>1, <1>2, <1>7, <2>1, <2>2, SameCastOK DEF InPhase
<1>8. ASSUME h.pc \in {"drawingTimeout", "guessSaved"}, new = CreateRoundEndState(st)
      PROVE  CastOK(new) /\ SameCast(st, new)
  <2>1. InPhase(st, "drawing") /\ st.miniRoundNumber # 0
    BY <1>1, <1>8 DEF RoomOK, RoundNumberOK, InPhase
  <2>2. /\ InPhase(new, "round_end") /\ new.miniRoundNumber = st.miniRoundNumber
        /\ new.leaderPlayerId = NextLeader(st)
        /\ new.roundParticipantsCount = st.roundParticipantsCount /\ SameCast(st, new)
    BY <1>1, <1>8, <2>1, RoundEndEffect DEF InPhase
  <2>3. NextLeader(st) \in Members(st)
    BY <1>1, <1>2, NextLeaderType
  <2>4. Connected(st) = Members(st) => new.leaderPlayerId = LeaderOfRound(RoundLed(new))
    BY <1>1, <2>1, <2>2, RoundEndInTurn DEF RoundLed, InPhase
  <2> QED
    BY <1>1, <1>2, <2>2, <2>3, <2>4, SameCastOK DEF InPhase
<1>9. ASSUME h.pc = "roundEndTimeout", new = CreateGameOverState(st)
      PROVE  CastOK(new) /\ SameCast(st, new)
  <2>1. /\ new.roundPhase = "round_end" /\ new.miniRoundNumber = st.miniRoundNumber
        /\ new.leaderPlayerId = st.leaderPlayerId
        /\ new.roundParticipantsCount = st.roundParticipantsCount /\ SameCast(st, new)
    BY <1>1, <1>9, GameOverEffect
  <2>2. RoundLed(new) = RoundLed(st)
    BY <1>1, <1>9, <2>1 DEF RoundLed, InPhase
  <2> QED
    BY <1>1, <1>2, <2>1, <2>2, SameCastOK
<1> QED
  BY <1>3, <1>4, <1>5, <1>6, <1>7, <1>8, <1>9 DEF Turn, st

LEMMA CastInit == Init => CastKept
<1> SUFFICES ASSUME Init PROVE CastKept
  OBVIOUS
<1>1. PICK connected \in SUBSET PlayerIds : StoreInit(LobbyRoom(JoinOrder, connected))
  BY DEF Init
<1> DEFINE st == LobbyRoom(JoinOrder, connected)
<1>2. room = st /\ queue = <<>> /\ ready = <<>>
  BY <1>1 DEF StoreInit
<1>3. st \in Room /\ st # NoRoom
  BY LobbyAssumption, LobbyRoomOK, StoreAssumption DEF RoomOK
<1>4. RoomCopies = {st}
  <2>1. Copies = {}
    BY <1>2 DEF Copies
  <2> QED
    BY <1>2, <1>3, <2>1 DEF RoomCopies
<1>5. /\ st.phase = "lobby" /\ st.roundPhase = "round_end" /\ st.miniRoundNumber = 0
      /\ st.leaderPlayerId = JoinOrder[1] /\ st.roundParticipantsCount = 1
  BY DEF LobbyRoom
<1>6. DOMAIN JoinOrder = 1..Len(JoinOrder) /\ Len(JoinOrder) \in Nat \ {0}
  BY LobbyAssumption, LenProperties, SettingsAssumption
<1>7. /\ DOMAIN st.players = DOMAIN JoinOrder
      /\ \A i \in DOMAIN JoinOrder : st.players[i].id = JoinOrder[i]
  BY <1>6 DEF LobbyRoom, NewPlayer
<1> HIDE DEF st
<1>8. JoinOrder[1] \in Members(st)
  BY <1>6, <1>7 DEF Members
<1>9. LeaderOfRound(1) = JoinOrder[1]
  <2> DEFINE n == Len(JoinOrder)
  <2>1. (1 - 1) % n = 0
    BY <1>6
  <2> HIDE DEF n
  <2> QED
    BY <2>1 DEF LeaderOfRound, n
<1>10. CastOK(st)
  BY <1>5, <1>7, <1>8, <1>9 DEF CastOK, LeadInTurn, RoundLed
<1> QED
  BY <1>2, <1>3, <1>4, <1>10 DEF CastKept

LEMMA CastStep ==
  ASSUME CopiesOK, CastKept, [Next]_vars
  PROVE  CastKept'
<1>1. StoreOK /\ room # NoRoom
  BY DEF CopiesOK, CastKept
<1>2. CASE Keeps
  BY <1>1, <1>2 DEF Keeps, CastKept
<1>3. ASSUME NEW i \in DOMAIN ready, Writes(i)
      PROVE  CastKept'
  <2>1. HandlerOK(ready[i]) /\ CastOK(ready[i].st)
    BY <1>1 DEF StoreOK, CastKept, RoomCopies, Copies
  <2>2. CastOK(room') /\ room' \in Room
    BY <1>3, <2>1, TurnKeepsCast, TurnIsSound DEF Writes, RoomOK
  <2>3. room' # NoRoom
    BY <2>2, StoreAssumption
  <2> QED
    BY <1>3, <2>2, <2>3 DEF Writes, CastKept
<1> QED
  BY <1>1, <1>2, <1>3, StepWrites

LEMMA CastStaysKept == Spec => [](CopiesOK /\ CastKept)
<1>1. CopiesOK /\ CastKept /\ [Next]_vars => CastKept'
  BY CastStep
<1> QED
  BY <1>1, CastInit, CopiesStayOK, PTL DEF Spec

(* As long as everybody is connected, the lead goes round in the order the *)
(* players joined, in every copy of the room.                              *)
THEOREM LeadStaysInTurn == Spec => []LeadGoesRound
<1>1. CopiesOK /\ CastKept => LeadGoesRound
  <2> SUFFICES ASSUME CopiesOK, CastKept, NEW st \in RoomCopies, st.phase # "lobby",
                      Connected(st) = Members(st)
               PROVE  st.leaderPlayerId = LeaderOfRound(RoundLed(st))
    BY DEF LeadGoesRound, RoundLed
  <2> QED
    BY DEF CastKept, CastOK, LeadInTurn
<1> QED
  BY <1>1, CastStaysKept, PTL

(***************************************************************************)
(* As long as no update is lost, the engine runs the game of module Game.  *)
(***************************************************************************)

(* A transition that leaves the players, the points and the lead alone.    *)
SameGame(st, new) ==
  /\ new.totalMiniRounds = st.totalMiniRounds
  /\ new.leaderPlayerId = st.leaderPlayerId
  /\ Connected(new) = Connected(st)
  /\ ScoresOf(new) = ScoresOf(st)

LEMMA SameGameIf ==
  ASSUME NEW st \in Room, CastOK(st), NEW new, SameCast(st, new), SameScores(st, new)
  PROVE  /\ new.totalMiniRounds = st.totalMiniRounds
         /\ Connected(new) = Connected(st) /\ ScoresOf(new) = ScoresOf(st)
  BY CastApart, SameCastMembers, SameScoresSeen DEF SameCast

(* What a guess is worth, to the guesser and to the leader.                *)
LEMMA GuessPays ==
  ASSUME NEW st \in Room, CastOK(st), NEW p \in Members(st), p # st.leaderPlayerId,
         NEW remaining \in Int,
         NEW new, new = ApplyCorrectGuess(st, p, remaining)
  PROVE  \A q \in PlayerIds :
           IF q \in {p, st.leaderPlayerId}
           THEN /\ ScoresOf(new)[q] > ScoresOf(st)[q]
                /\ ScoresOf(new)[q] <= ScoresOf(st)[q] + 100
           ELSE ScoresOf(new)[q] = ScoresOf(st)[q]
<1> DEFINE awarded == GuesserScore(remaining, RoundTimeSec, st.hintsUsed, Position(st))
           contribution ==
             LeaderContribution(remaining, RoundTimeSec, st.roundParticipantsCount)
<1>1. /\ SameCast(st, new)
      /\ \A i \in DOMAIN st.players :
           new.players[i].score = st.players[i].score +
             IF st.players[i].id = p THEN awarded
             ELSE IF st.players[i].id = st.leaderPlayerId THEN contribution ELSE 0
  BY GuessEffect
<1>2. awarded \in 5..100
  <2>1. Position(st) \in Nat
    BY PositionType
  <2>2. st.hintsUsed \in Nat /\ RoundTimeSec \in Nat \ {0}
    BY SettingsAssumption DEF Room
  <2> QED
    BY <2>1, <2>2, GuesserScoreBounds
<1>3. contribution \in 1..100
  <2>1. st.roundParticipantsCount \in Nat /\ RoundTimeSec \in Nat \ {0}
    BY SettingsAssumption DEF Room
  <2>2. st.roundParticipantsCount <= 12
    BY DEF CastOK
  <2>3. st.roundParticipantsCount \in 0..100
    BY <2>1, <2>2
  <2> QED
    BY <2>1, <2>3, LeaderContributionBounds
<1> HIDE DEF awarded, contribution
<1>4. Members(new) = Members(st)
  BY <1>1, SameCastMembers
<1>5. ASSUME NEW q \in Members(st)
      PROVE  CurrentPlayer(new, q).score = CurrentPlayer(st, q).score +
               (IF q = p THEN awarded ELSE IF q = st.leaderPlayerId THEN contribution ELSE 0)
  BY <1>1, CastApart, SameSeat DEF CurrentPlayer
<1>6. \A q \in Members(st) : CurrentPlayer(st, q).score \in Nat
  BY IndexOfMember DEF Player
<1>7. st.leaderPlayerId \in Members(st)
  BY DEF CastOK
<1> SUFFICES ASSUME NEW q \in PlayerIds
             PROVE  IF q \in {p, st.leaderPlayerId}
                    THEN /\ ScoresOf(new)[q] > ScoresOf(st)[q]
                         /\ ScoresOf(new)[q] <= ScoresOf(st)[q] + 100
                    ELSE ScoresOf(new)[q] = ScoresOf(st)[q]
  OBVIOUS
<1>8. CASE q \in Members(st)
  <2>1. /\ ScoresOf(new)[q] = CurrentPlayer(new, q).score
        /\ ScoresOf(st)[q] = CurrentPlayer(st, q).score
    BY <1>4, <1>8 DEF ScoresOf
  <2> QED
    BY <1>2, <1>3, <1>5, <1>6, <1>8, <2>1
<1>9. CASE q \notin Members(st)
  <2>1. ScoresOf(new)[q] = 0 /\ ScoresOf(st)[q] = 0
    BY <1>4, <1>9 DEF ScoresOf
  <2> QED
    BY <1>7, <1>9, <2>1
<1> QED
  BY <1>8, <1>9

LEMMA NobodyGuessedYet ==
  ASSUME NEW st, NobodyGuessed(st)
  PROVE  GuessersWhoGuessed(st) = {}
  BY DEF NobodyGuessed, GuessersWhoGuessed

LEMMA RefinesInit == Init => Abstract!Init
<1> SUFFICES ASSUME Init PROVE Abstract!Init
  OBVIOUS
<1>1. PICK connected \in SUBSET PlayerIds : room = LobbyRoom(JoinOrder, connected)
  BY DEF Init, StoreInit
<1>2. room \in Room
  BY <1>1, LobbyAssumption, LobbyRoomOK DEF RoomOK
<1>3. room.phase = "lobby" /\ room.miniRoundNumber = 0
  BY <1>1 DEF LobbyRoom
<1>4. room.totalMiniRounds \in Nat /\ room.leaderPlayerId \in PlayerIds
  BY <1>2 DEF Room
<1>5. Connected(room) \in SUBSET PlayerIds
  BY <1>2, MembersType DEF Members, Connected
<1>6. \A i \in DOMAIN room.players : room.players[i].score = 0
  BY <1>1 DEF LobbyRoom, NewPlayer
<1>7. \A p \in Members(room) : CurrentPlayer(room, p).score = 0
  BY <1>2, <1>6, IndexOfMember DEF CurrentPlayer
<1>8. ScoresOf(room) = [p \in PlayerIds |-> 0]
  BY <1>7 DEF ScoresOf
<1> QED
  BY <1>3, <1>4, <1>5, <1>8 DEF Abstract!Init, InPhase

LEMMA RefinesTurn ==
  ASSUME CopiesOK, NEW h, HandlerOK(h), h.st = room, CastOK(room), Turn(h, room')
  PROVE  [Abstract!Next]_(Abstract!gameVars)
<1> DEFINE st == room
           new == room'
<1>1. /\ st \in Room /\ RoomOK(st) /\ CastOK(st) /\ ReliesOn(h)
      /\ st.leaderPlayerId \in Members(st)
      /\ h.pc = "startGame" => st.phase = "lobby" /\ st.miniRoundNumber = 0
      /\ h.pc \in {"chooseWord", "wordSelectionTimeout"} => InPhase(st, "word_selection")
      /\ h.pc \in {"guess", "guessSaved", "hintTimeout", "drawingTimeout"}
           => InPhase(st, "drawing")
      /\ h.pc = "roundEndTimeout" => InPhase(st, "round_end")
  BY TurnIsSound DEF HandlerOK, CastOK
<1>2. st.usedWords \in SUBSET Words /\ st.wordOptions \in SUBSET Words
  BY <1>1 DEF Room
<1>3. ASSUME h.pc = "startGame", NEW options \in WordOptions({}),
             new = CreateWordSelectionState(st, options)
      PROVE  Abstract!Start
  <2>1. options \in SUBSET Words
    BY <1>3 DEF WordOptions
  <2>2. /\ InPhase(new, "word_selection") /\ new.miniRoundNumber = 1
        /\ SameGame(st, new)
    BY <1>1, <1>3, <2>1, WordSelectionEffect, SameGameIf DEF SameGame
  <2> QED
    BY <1>1, <1>3, <2>2 DEF Abstract!Start, SameGame, InPhase
<1>4. ASSUME h.pc = "roundEndTimeout", st.miniRoundNumber < st.totalMiniRounds,
             NEW options \in WordOptions(st.usedWords),
             new = CreateNextWordSelectionState(st, options)
      PROVE  Abstract!NextRound
  <2>1. options \in SUBSET Words
    BY <1>4 DEF WordOptions
  <2>2. /\ InPhase(new, "word_selection")
        /\ new.miniRoundNumber = st.miniRoundNumber + 1
        /\ SameGame(st, new)
    BY <1>1, <1>4, <2>1, NextWordSelectionEffect, SameGameIf DEF SameGame
  <2> QED
    BY <1>1, <1>4, <2>2 DEF Abstract!NextRound, SameGame, InPhase
<1>5. ASSUME h.pc \in {"chooseWord", "wordSelectionTimeout"}, NEW w \in st.wordOptions,
             new = CreateDrawingState(st, w)
      PROVE  Abstract!PickWord
  <2>1. w \in Words
    BY <1>2
  <2>2. /\ InPhase(new, "drawing") /\ new.miniRoundNumber = st.miniRoundNumber
        /\ SameGame(st, new) /\ GuessersWhoGuessed(new) = {}
    BY <1>1, <1>5, <2>1, DrawingEffect, SameGameIf, NobodyGuessedYet DEF SameGame
  <2> QED
    BY <1>1, <1>5, <2>2 DEF Abstract!PickWord, SameGame, InPhase
<1>6. ASSUME h.pc = "guess", NEW remaining \in RemainingTimes,
             new = ApplyCorrectGuess(st, h.who, remaining)
      PROVE  Abstract!Next
  <2>1. remaining \in Int
    BY LobbyAssumption, SettingsAssumption
  <2>2. /\ h.who \in Members(st) /\ h.who # st.leaderPlayerId
        /\ ~CurrentPlayer(st, h.who).guessed /\ h.who \in PlayerIds
    BY <1>1, <1>6, MembersType DEF ReliesOn
  <2>3. h.who \notin GuessersWhoGuessed(st)
    <3> SUFFICES ASSUME NEW i \in DOMAIN st.players, st.players[i].guessed,
                        st.players[i].id = h.who
                 PROVE  FALSE
      BY DEF GuessersWhoGuessed
    <3>1. CurrentPlayer(st, h.who) = st.players[i]
      BY <1>1, CastApart, SeatOf
    <3> QED
      BY <2>2, <3>1
  <2>4. /\ new.phase = st.phase /\ new.roundPhase = st.roundPhase
        /\ new.miniRoundNumber = st.miniRoundNumber
        /\ new.leaderPlayerId = st.leaderPlayerId /\ SameCast(st, new)
    BY <1>1, <1>6, <2>1, GuessEffect
  <2>5. GuessersWhoGuessed(new) = GuessersWhoGuessed(st) \cup {h.who}
    BY <1>1, <1>6, <2>1, <2>2, GuessRecorded
  <2>6. \A q \in PlayerIds :
          IF q \in {h.who, st.leaderPlayerId}
          THEN /\ ScoresOf(new)[q] > ScoresOf(st)[q]
               /\ ScoresOf(new)[q] <= ScoresOf(st)[q] + 100
          ELSE ScoresOf(new)[q] = ScoresOf(st)[q]
    BY <1>1, <1>6, <2>1, <2>2, GuessPays
  <2>7. Connected(new) = Connected(st) /\ new.totalMiniRounds = st.totalMiniRounds
    BY <2>4, SameCastMembers DEF SameCast
  <2>8. InPhase(st, "drawing") /\ InPhase(new, "drawing")
    BY <1>1, <1>6, <2>4 DEF InPhase
  <2>9. Abstract!GuessWord(h.who)
    <3>1. /\ st.phase = "in_game" /\ st.roundPhase = "drawing"
          /\ new.phase = "in_game" /\ new.roundPhase = "drawing"
      BY <2>8 DEF InPhase
    <3>2. h.who \in PlayerIds \ (GuessersWhoGuessed(st) \cup {st.leaderPlayerId})
      BY <2>2, <2>3
    <3> QED
      BY <2>4, <2>5, <2>6, <2>7, <2>8, <3>1, <3>2 DEF Abstract!GuessWord
  <2> QED
    BY <2>2, <2>9 DEF Abstract!Next
<1>7. ASSUME h.pc = "hintTimeout", new = ApplyHint(st)
      PROVE  UNCHANGED Abstract!gameVars
  <2>1. /\ new.phase = st.phase /\ new.roundPhase = st.roundPhase
        /\ new.miniRoundNumber = st.miniRoundNumber
        /\ new.players = st.players /\ SameGame(st, new)
    BY <1>1, <1>7, HintEffect, SameGameIf DEF SameGame
  <2>2. GuessersWhoGuessed(new) = GuessersWhoGuessed(st)
    BY <2>1 DEF GuessersWhoGuessed, SameGame
  <2> QED
    BY <2>1, <2>2 DEF Abstract!gameVars, SameGame, InPhase
<1>8. ASSUME h.pc \in {"drawingTimeout", "guessSaved"}, new = CreateRoundEndState(st)
      PROVE  Abstract!EndRound
  <2>1. InPhase(st, "drawing")
    BY <1>1, <1>8
  <2>2. /\ InPhase(new, "round_end") /\ new.miniRoundNumber = st.miniRoundNumber
        /\ new.leaderPlayerId = NextLeader(st)
        /\ SameCast(st, new) /\ SameScores(st, new)
    BY <1>1, <1>8, <2>1, RoundEndEffect DEF InPhase
  <2>3. /\ new.totalMiniRounds = st.totalMiniRounds
        /\ Connected(new) = Connected(st) /\ ScoresOf(new) = ScoresOf(st)
    BY <1>1, <2>2, SameGameIf
  <2>4. \/ /\ new.leaderPlayerId \in Connected(st)
           /\ Connected(st) \ {st.leaderPlayerId} # {} => new.leaderPlayerId # st.leaderPlayerId
        \/ new.leaderPlayerId = st.leaderPlayerId /\ Connected(st) = {}
    BY <1>1, <2>2, CastApart, NextLeaderIsPresent
  <2>5. /\ st.phase = "in_game" /\ st.roundPhase = "drawing"
        /\ new.phase = "in_game" /\ new.roundPhase = "round_end"
    BY <2>1, <2>2 DEF InPhase
  <2> QED
    BY <2>2, <2>3, <2>4, <2>5 DEF Abstract!EndRound, InPhase
<1>9. ASSUME h.pc = "roundEndTimeout", st.miniRoundNumber >= st.totalMiniRounds,
             new = CreateGameOverState(st)
      PROVE  Abstract!Finish
  <2>1. /\ new.phase = "game_over" /\ new.miniRoundNumber = st.miniRoundNumber
        /\ SameGame(st, new)
    BY <1>1, <1>9, GameOverEffect, SameGameIf DEF SameGame
  <2>2. st.miniRoundNumber = st.totalMiniRounds
    BY <1>1, <1>9 DEF RoomOK, RoundNumberOK, GameLengthOK, InPhase
  <2> QED
    BY <1>1, <1>9, <2>1, <2>2 DEF Abstract!Finish, SameGame, InPhase
<1> QED
  BY <1>3, <1>4, <1>5, <1>6, <1>7, <1>8, <1>9 DEF Turn, Abstract!Next

LEMMA RefinesStep ==
  ASSUME CopiesOK, CastKept, [Next]_vars
  PROVE  [Abstract!Next \/ lostUpdate']_(Abstract!gameVars)
<1>1. StoreOK /\ room # NoRoom
  BY DEF CopiesOK, CastKept
<1>2. CASE Keeps
  BY <1>2 DEF Keeps, Abstract!gameVars
<1>3. ASSUME NEW i \in DOMAIN ready, Writes(i)
      PROVE  [Abstract!Next \/ lostUpdate']_(Abstract!gameVars)
  <2>1. CASE room # ready[i].st
    BY <1>3, <2>1 DEF Writes
  <2>2. CASE ready[i].st = room
    <3>1. HandlerOK(ready[i]) /\ CastOK(room)
      BY <1>1 DEF StoreOK, CastKept, RoomCopies
    <3>2. [Abstract!Next]_(Abstract!gameVars)
      BY <1>3, <2>2, <3>1, RefinesTurn DEF Writes
    <3> QED
      BY <3>2
  <2> QED
    BY <2>1, <2>2
<1> QED
  BY <1>1, <1>2, <1>3, StepWrites

(* The engine implements the game of module Game, up to the first write    *)
(* that replaces a record its handler had not seen: every step of it is a  *)
(* step of the game or none.                                               *)
THEOREM EngineRefinesGame == Spec => RefinesGame
<1>1. CopiesOK /\ CastKept /\ [Next]_vars => [Abstract!Next \/ lostUpdate']_(Abstract!gameVars)
  BY RefinesStep
<1> QED
  BY <1>1, RefinesInit, CastStaysKept, PTL DEF Spec, RefinesGame
=============================================================================
