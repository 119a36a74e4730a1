---------------------------- MODULE ServerProofs ----------------------------
(***************************************************************************)
(* Every copy of the record stays well formed, with each seat taken once,  *)
(* in the whole server: whatever the engine's handlers and those of the    *)
(* life of the room do to each other's writes, and whenever the process    *)
(* dies.  The handlers of the two kinds wait in the same queue; the lemmas *)
(* of LifecycleProofs are about one of them among any others, here those   *)
(* of the engine.  The last part is about the seats, which outlive a       *)
(* restart, and what the RoomManager keeps of them.                        *)
(***************************************************************************)
EXTENDS ServerProperties, GamePaceProofs, LifecycleProofs

(***************************************************************************)
(* The invariant.                                                          *)
(***************************************************************************)
GameHandlers == {h \in Handler : HandlerOK(h) /\ SeatsOK(h.st)}

ServerSound ==
  /\ LifeSound(GameHandlers)
  /\ RestTypeOK
  /\ restarts \in 0..MaxRestarts

LEMMA GameHandlersApart == Apart(GameHandlers)
  BY DEF Apart, GameHandlers, Handler, Pcs, LifePcs

(* A handler that waits at a command of the engine is one of its own.      *)
LEMMA GameReady ==
  ASSUME CopiesSound(GameHandlers), NEW i, NEW pc \in Pcs, Resumes(i, pc)
  PROVE  /\ i \in DOMAIN ready /\ ready[i].pc = pc /\ ready[i] \in Handler
         /\ SoundRoom(ready[i].st) /\ ready[i].st \in Room /\ ReliesOn(ready[i])
<1>1. i \in DOMAIN ready /\ ready[i].pc = pc
  BY DEF Resumes
<1>2. ready[i] \in GameHandlers \cup SoundHandlers
  BY <1>1, LenProperties, ElementOfSeq DEF CopiesSound
<1>3. \A h \in SoundHandlers : h.pc \notin Pcs
  BY DEF SoundHandlers, LifeHandler, Pcs, LifePcs
<1>4. ready[i] \in GameHandlers
  BY <1>1, <1>2, <1>3
<1> QED
  BY <1>1, <1>4 DEF GameHandlers, HandlerOK, SoundRoom, RoomOK

(***************************************************************************)
(* The engine leaves the seats alone.                                      *)
(***************************************************************************)
LEMMA SeatsKept ==
  ASSUME NEW st, SoundRoom(st), NEW new, RoomOK(new), SameSeats(st, new)
  PROVE  SoundRoom(new)
  BY SameSeatsOK DEF SoundRoom, RoomOK

LEMMA SamePlayersSound ==
  ASSUME NEW st, SoundRoom(st), NEW new, RoomOK(new),
         new.players = st.players, new.totalMiniRounds = st.totalMiniRounds
  PROVE  SoundRoom(new)
  BY SeatsKept DEF SameSeats

LEMMA ResetPlayersSeats ==
  ASSUME NEW st \in Room
  PROVE  /\ Len(ResetPlayers(st)) = Len(st.players)
         /\ \A i \in DOMAIN st.players :
              /\ ResetPlayers(st)[i].id = st.players[i].id
              /\ ResetPlayers(st)[i].isOwner = st.players[i].isOwner
<1>1. ResetPlayers(st) \in Seq(Player) /\ DOMAIN ResetPlayers(st) = DOMAIN st.players
  BY ResetPlayersType
<1>2. Len(ResetPlayers(st)) = Len(st.players)
  BY <1>1, LenProperties, PlayersDomain
<1>3. ASSUME NEW i \in DOMAIN st.players
      PROVE  /\ ResetPlayers(st)[i].id = st.players[i].id
             /\ ResetPlayers(st)[i].isOwner = st.players[i].isOwner
  BY <1>3, PlayersDomain DEF ResetPlayers, Player
<1> QED
  BY <1>2, <1>3

LEMMA WordSelectionSound ==
  ASSUME NEW st, SoundRoom(st), st.phase = "lobby", NEW options \in WordOptions({})
  PROVE  SoundRoom(CreateWordSelectionState(st, options))
<1> DEFINE new == CreateWordSelectionState(st, options)
<1>1. st \in Room
  BY DEF SoundRoom, RoomOK
<1>2. RoomOK(new)
  BY CreateWordSelectionStateOK DEF SoundRoom
<1>3. new.players = ResetPlayers(st) /\ new.totalMiniRounds = st.totalMiniRounds
  BY <1>1 DEF CreateWordSelectionState, Room
<1> HIDE DEF new
<1>4. SameSeats(st, new)
  BY <1>1, <1>3, ResetPlayersSeats DEF SameSeats
<1> QED
  BY <1>2, <1>4, SeatsKept DEF new

LEMMA NextWordSelectionSound ==
  ASSUME NEW st, SoundRoom(st), InPhase(st, "round_end"),
         st.miniRoundNumber < st.totalMiniRounds, NEW options \in WordOptions(st.usedWords)
  PROVE  SoundRoom(CreateNextWordSelectionState(st, options))
<1> DEFINE new == CreateNextWordSelectionState(st, options)
<1>1. RoomOK(new)
  BY CreateNextWordSelectionStateOK DEF SoundRoom
<1>2. new.players = st.players /\ new.totalMiniRounds = st.totalMiniRounds
  BY DEF CreateNextWordSelectionState, SoundRoom, RoomOK, Room
<1> HIDE DEF new
<1> QED
  BY <1>1, <1>2, SamePlayersSound DEF new

LEMMA DrawingSound ==
  ASSUME NEW st, SoundRoom(st), InPhase(st, "word_selection"), NEW chosen \in st.wordOptions
  PROVE  SoundRoom(CreateDrawingState(st, chosen))
<1> DEFINE new == CreateDrawingState(st, chosen)
<1>1. st \in Room
  BY DEF SoundRoom, RoomOK
<1>2. RoomOK(new)
  BY CreateDrawingStateOK DEF SoundRoom
<1>3. new.players = ResetPlayers(st) /\ new.totalMiniRounds = st.totalMiniRounds
  BY <1>1 DEF CreateDrawingState, Room
<1> HIDE DEF new
<1>4. SameSeats(st, new)
  BY <1>1, <1>3, ResetPlayersSeats DEF SameSeats
<1> QED
  BY <1>2, <1>4, SeatsKept DEF new

LEMMA RoundEndSound ==
  ASSUME NEW st, SoundRoom(st), InPhase(st, "drawing")
  PROVE  SoundRoom(CreateRoundEndState(st))
<1> DEFINE new == CreateRoundEndState(st)
           players == [i \in DOMAIN st.players |->
             [st.players[i] EXCEPT !.role = RoleUnder(NextLeader(st), st.players[i].id)]]
<1>1. st \in Room
  BY DEF SoundRoom, RoomOK
<1>2. RoomOK(new)
  BY CreateRoundEndStateOK DEF SoundRoom
<1>3. new.players = players /\ new.totalMiniRounds = st.totalMiniRounds
  BY <1>1 DEF CreateRoundEndState, Room
<1>4. Len(new.players) = Len(st.players)
  BY <1>1, <1>2, <1>3, PlayersDomain DEF RoomOK
<1>5. \A i \in DOMAIN st.players :
        players[i].id = st.players[i].id /\ players[i].isOwner = st.players[i].isOwner
  BY <1>1, PlayersDomain DEF Player
<1> HIDE DEF new, players
<1>6. SameSeats(st, new)
  BY <1>3, <1>4, <1>5 DEF SameSeats
<1> QED
  BY <1>2, <1>6, SeatsKept DEF new

LEMMA GameOverSound ==
  ASSUME NEW st, SoundRoom(st), InPhase(st, "round_end"),
         st.miniRoundNumber >= st.totalMiniRounds
  PROVE  SoundRoom(CreateGameOverState(st))
<1> DEFINE new == CreateGameOverState(st)
<1>1. RoomOK(new)
  BY CreateGameOverStateOK DEF SoundRoom
<1>2. new.players = st.players /\ new.totalMiniRounds = st.totalMiniRounds
  BY DEF CreateGameOverState, SoundRoom, RoomOK, Room
<1> HIDE DEF new
<1> QED
  BY <1>1, <1>2, SamePlayersSound DEF new

LEMMA HintSound ==
  ASSUME NEW st, SoundRoom(st), InPhase(st, "drawing"),
         RevealHint(st.wordMask) # st.wordMask
  PROVE  SoundRoom(ApplyHint(st))
<1> DEFINE new == ApplyHint(st)
<1>1. RoomOK(new)
  BY ApplyHintOK DEF SoundRoom
<1>2. new.players = st.players /\ new.totalMiniRounds = st.totalMiniRounds
  BY DEF ApplyHint, SoundRoom, RoomOK, Room
<1> HIDE DEF new
<1> QED
  BY <1>1, <1>2, SamePlayersSound DEF new

LEMMA GuessSound ==
  ASSUME NEW st, SoundRoom(st), InPhase(st, "drawing"),
         NEW p \in PlayerIds, p # st.leaderPlayerId, NEW remaining \in Int
  PROVE  SoundRoom(ApplyCorrectGuess(st, p, remaining))
<1> DEFINE new == ApplyCorrectGuess(st, p, remaining)
<1>1. st \in Room
  BY DEF SoundRoom, RoomOK
<1>2. RoomOK(new)
  BY ApplyCorrectGuessOK DEF SoundRoom
<1>3. new.totalMiniRounds = st.totalMiniRounds
  BY <1>1 DEF ApplyCorrectGuess, Room
<1>4. DOMAIN new.players = DOMAIN st.players
  BY <1>1 DEF ApplyCorrectGuess, Room
<1>5. Len(new.players) = Len(st.players)
  <2> HIDE DEF new
  <2> QED
    BY <1>1, <1>2, <1>4, PlayersDomain DEF RoomOK
<1>6. ASSUME NEW i \in DOMAIN st.players
      PROVE  /\ new.players[i].id = st.players[i].id
             /\ new.players[i].isOwner = st.players[i].isOwner
  BY <1>1, <1>6, PlayersDomain DEF ApplyCorrectGuess, Room, Player
<1> HIDE DEF new
<1>7. SameSeats(st, new)
  BY <1>3, <1>5, <1>6 DEF SameSeats
<1> QED
  BY <1>2, <1>7, SeatsKept DEF new

(***************************************************************************)
(* The steps of the engine, on the store.                                  *)
(***************************************************************************)
LEMMA RequestLoads ==
  ASSUME CopiesSound(GameHandlers), room # NoRoom,
         NEW pc \in Pcs, NEW p \in PlayerIds \cup {NoPlayer}, NEW w \in Words \cup {NoWord},
         NEW accepted \in BOOLEAN,
         accepted => ReliesOn([pc |-> pc, st |-> room, who |-> p, word |-> w]),
         LoadRoom(pc, p, w, accepted)
  PROVE  CopiesSound(GameHandlers)'
<1> DEFINE h == [pc |-> pc, st |-> room, who |-> p, word |-> w]
<1>1. SoundRoom(room)
  BY DEF CopiesSound, CopyOK
<1>2. CASE accepted
  <2>1. HandlerOK(h)
    BY <1>1, <1>2, LoadedHandlerOK DEF SoundRoom
  <2>2. h \in GameHandlers
    BY <1>1, <2>1 DEF GameHandlers, HandlerOK, SoundRoom
  <2>3. queue' = Append(queue, h)
    BY <1>2 DEF LoadRoom
  <2> HIDE DEF h
  <2>4. queue' \in Seq(GameHandlers \cup SoundHandlers)
    BY <2>2, <2>3, AppendProperties DEF CopiesSound
  <2> QED
    BY <2>4 DEF LoadRoom, CopiesSound
<1>3. CASE ~accepted
  BY <1>3 DEF LoadRoom, CopiesSound
<1> QED
  BY <1>2, <1>3

LEMMA GameSaves ==
  ASSUME CopiesSound(GameHandlers), NEW i \in DOMAIN ready, ready[i] \in Handler,
         NEW next, SoundRoom(next), NEW pc,
         HandlerOK([ready[i] EXCEPT !.pc = pc, !.st = next]), SaveRoom(i, next, pc)
  PROVE  CopiesSound(GameHandlers)'
<1> DEFINE h == [ready[i] EXCEPT !.pc = pc, !.st = next]
<1>1. h.st = next
  BY DEF Handler
<1>2. h \in GameHandlers
  BY <1>1 DEF GameHandlers, HandlerOK, SoundRoom
<1>3. Await(i, h) /\ CopyOK(room') /\ lostUpdate' \in BOOLEAN
  BY DEF SaveRoom, Await, CopyOK
<1> HIDE DEF h
<1>4. queue' \in Seq(GameHandlers \cup SoundHandlers)
  BY <1>2, <1>3, AppendProperties DEF Await, CopiesSound
<1>5. ready' \in Seq(GameHandlers \cup SoundHandlers)
  BY <1>3, RemoveAtType DEF Await, CopiesSound
<1> QED
  BY <1>3, <1>4, <1>5 DEF CopiesSound

LEMMA GameSavesPhase ==
  ASSUME CopiesSound(GameHandlers), NEW i \in DOMAIN ready, ready[i] \in Handler,
         NEW next, SoundRoom(next),
         NEW pc \in {"wordSelectionSaved", "drawingSaved", "roundEndSaved", "gameOverSaved"},
         ReachedAt(pc, next), SaveRoom(i, next, pc)
  PROVE  CopiesSound(GameHandlers)'
<1>1. HandlerOK([ready[i] EXCEPT !.pc = pc, !.st = next])
  BY SavedHandlerOK DEF SoundRoom
<1> QED
  BY <1>1, GameSaves

LEMMA PlayerRequestSound ==
  ASSUME CopiesSound(GameHandlers), NEW p \in PlayerIds,
         StartGame(p) \/ (\E w \in Words : ChooseWord(p, w)) \/ Guess(p)
  PROVE  CopiesSound(GameHandlers)'
<1>1. CASE StartGame(p)
  BY <1>1, RequestLoads DEF StartGame, ReliesOn, Pcs
<1>2. ASSUME NEW w \in Words, ChooseWord(p, w)
      PROVE  CopiesSound(GameHandlers)'
  BY <1>2, RequestLoads DEF ChooseWord, ReliesOn, Pcs
<1>3. CASE Guess(p)
  BY <1>3, RequestLoads DEF Guess, ReliesOn, Pcs
<1> QED
  BY <1>1, <1>2, <1>3

LEMMA GameTimerSound ==
  ASSUME CopiesSound(GameHandlers), RestTypeOK, TimerFires
  PROVE  CopiesSound(GameHandlers)' /\ RestTypeOK'
<1>1. /\ timers.wordSelection \in Nat /\ timers.drawing \in Nat /\ timers.roundEnd \in Nat
      /\ timers.hints \in [miniRound : Nat, pending : Nat]
  BY DEF RestTypeOK
<1>2. ASSUME NEW pc \in Pcs, NEW accepted \in BOOLEAN,
             accepted => /\ room # NoRoom
                         /\ ReliesOn([pc |-> pc, st |-> room, who |-> NoPlayer, word |-> NoWord]),
             LoadRoom(pc, NoPlayer, NoWord, accepted)
      PROVE  CopiesSound(GameHandlers)'
  <2>1. CASE room # NoRoom
    BY <1>2, <2>1, RequestLoads
  <2>2. CASE room = NoRoom
    BY <1>2, <2>2 DEF LoadRoom, CopiesSound
  <2> QED
    BY <2>1, <2>2
<1>3. CASE WordSelectionTimeout
  <2>1. LoadRoom("wordSelectionTimeout", NoPlayer, NoWord,
                 StillIn("word_selection", timers.wordSelection))
    BY <1>3 DEF WordSelectionTimeout
  <2>2. CopiesSound(GameHandlers)'
    BY <1>2, <2>1 DEF StillIn, InPhase, ReliesOn, Pcs
  <2>3. RestTypeOK'
    BY <1>3 DEF WordSelectionTimeout, RestTypeOK
  <2> QED
    BY <2>2, <2>3
<1>4. CASE HintTimeout
  <2>1. LoadRoom("hintTimeout", NoPlayer, NoWord,
                 /\ StillIn("drawing", timers.hints.miniRound)
                 /\ RevealHint(room.wordMask) # room.wordMask)
    BY <1>4 DEF HintTimeout
  <2>2. CopiesSound(GameHandlers)'
    BY <1>2, <2>1 DEF StillIn, InPhase, ReliesOn, Pcs
  <2>3. timers.hints.pending - 1 \in Nat
    BY <1>1, <1>4 DEF HintTimeout
  <2>4. timers' \in [ wordSelection : Nat, drawing : Nat, roundEnd : Nat,
                      hints : [miniRound : Nat, pending : Nat] ]
    BY <1>1, <1>4, <2>3 DEF HintTimeout, RestTypeOK
  <2>5. RestTypeOK'
    BY <1>4, <2>4 DEF HintTimeout, RestTypeOK
  <2> QED
    BY <2>2, <2>5
<1>5. CASE DrawingTimeout
  <2>1. LoadRoom("drawingTimeout", NoPlayer, NoWord,
                 StillIn("drawing", timers.drawing))
    BY <1>5 DEF DrawingTimeout
  <2>2. CopiesSound(GameHandlers)'
    BY <1>2, <2>1 DEF StillIn, InPhase, ReliesOn, Pcs
  <2>3. RestTypeOK'
    BY <1>5 DEF DrawingTimeout, RestTypeOK
  <2> QED
    BY <2>2, <2>3
<1>6. CASE RoundEndTimeout
  <2>1. LoadRoom("roundEndTimeout", NoPlayer, NoWord,
                 StillIn("round_end", timers.roundEnd))
    BY <1>6 DEF RoundEndTimeout
  <2>2. CopiesSound(GameHandlers)'
    BY <1>2, <2>1 DEF StillIn, InPhase, ReliesOn, Pcs
  <2>3. RestTypeOK'
    BY <1>6 DEF RoundEndTimeout, RestTypeOK
  <2> QED
    BY <2>2, <2>3
<1> QED
  BY <1>3, <1>4, <1>5, <1>6 DEF TimerFires

LEMMA ToWordSelectionSound ==
  ASSUME CopiesSound(GameHandlers), RestTypeOK, NEW i,
         SaveFirstWordSelection(i) \/ SaveNextWordSelection(i) \/ ArmWordSelection(i)
  PROVE  CopiesSound(GameHandlers)' /\ RestTypeOK'
<1> DEFINE st == ready[i].st
<1>1. CASE SaveFirstWordSelection(i)
  <2>1. /\ i \in DOMAIN ready /\ ready[i] \in Handler
        /\ SoundRoom(st) /\ st.phase = "lobby"
    BY <1>1, GameReady DEF SaveFirstWordSelection, Pcs, ReliesOn
  <2>2. PICK options \in WordOptions({}) :
          SaveRoom(i, CreateWordSelectionState(st, options), "wordSelectionSaved")
    BY <1>1 DEF SaveFirstWordSelection
  <2> HIDE DEF st
  <2>3. CopiesSound(GameHandlers)'
    BY <2>1, <2>2, WordSelectionSound, PhasesReached, GameSavesPhase DEF SoundRoom
  <2> QED
    BY <1>1, <2>3 DEF SaveFirstWordSelection, RestTypeOK
<1>2. CASE SaveNextWordSelection(i)
  <2>1. /\ i \in DOMAIN ready /\ ready[i] \in Handler
        /\ SoundRoom(st) /\ InPhase(st, "round_end")
    BY <1>2, GameReady DEF SaveNextWordSelection, Pcs, ReliesOn
  <2>2. PICK options \in WordOptions(st.usedWords) :
          SaveRoom(i, CreateNextWordSelectionState(st, options), "wordSelectionSaved")
    BY <1>2 DEF SaveNextWordSelection
  <2>3. st.miniRoundNumber < st.totalMiniRounds
    BY <1>2 DEF SaveNextWordSelection
  <2> HIDE DEF st
  <2>4. CopiesSound(GameHandlers)'
    BY <2>1, <2>2, <2>3, NextWordSelectionSound, PhasesReached, GameSavesPhase DEF SoundRoom
  <2> QED
    BY <1>2, <2>4 DEF SaveNextWordSelection, RestTypeOK
<1>3. CASE ArmWordSelection(i)
  <2>1. i \in DOMAIN ready /\ st \in Room
    BY <1>3, GameReady DEF ArmWordSelection, Pcs
  <2>2. CopiesSound(GameHandlers)'
    BY <1>3, <2>1, FinishSound DEF ArmWordSelection
  <2>3. st.miniRoundNumber \in Nat
    BY <2>1 DEF Room
  <2>4. RestTypeOK'
    BY <1>3, <2>3 DEF ArmWordSelection, RestTypeOK
  <2> QED
    BY <2>2, <2>4
<1> QED
  BY <1>1, <1>2, <1>3

LEMMA ToDrawingSound ==
  ASSUME CopiesSound(GameHandlers), RestTypeOK, NEW i,
         SaveChosenWord(i) \/ SaveAutoSelectedWord(i) \/ ArmDrawing(i)
  PROVE  CopiesSound(GameHandlers)' /\ RestTypeOK'
<1> DEFINE st == ready[i].st
<1>1. ASSUME i \in DOMAIN ready, ready[i] \in Handler, SoundRoom(st),
             InPhase(st, "word_selection"), NEW w \in st.wordOptions, SaveDrawing(i, w)
      PROVE  CopiesSound(GameHandlers)' /\ RestTypeOK'
  <2>1. SoundRoom(CreateDrawingState(st, w))
    BY <1>1, DrawingSound
  <2>2. CopiesSound(GameHandlers)'
    BY <1>1, <2>1, PhasesReached, GameSavesPhase DEF SaveDrawing, SoundRoom
  <2>3. RestTypeOK'
    BY <1>1 DEF SaveDrawing, RestTypeOK
  <2> QED
    BY <2>2, <2>3
<1>2. CASE SaveChosenWord(i)
  <2>1. /\ i \in DOMAIN ready /\ ready[i] \in Handler /\ SoundRoom(st)
        /\ InPhase(st, "word_selection") /\ ready[i].word \in st.wordOptions
    BY <1>2, GameReady DEF SaveChosenWord, Pcs, ReliesOn
  <2> QED
    BY <1>1, <1>2, <2>1 DEF SaveChosenWord
<1>3. CASE SaveAutoSelectedWord(i)
  <2>1. /\ i \in DOMAIN ready /\ ready[i] \in Handler /\ SoundRoom(st)
        /\ InPhase(st, "word_selection")
    BY <1>3, GameReady DEF SaveAutoSelectedWord, Pcs, ReliesOn
  <2>2. st.wordOptions # {}
    <3>1. Cardinality(st.wordOptions) = WordChoicesCount
      BY <2>1 DEF SoundRoom, RoomOK, WordsFresh, Playing, InPhase
    <3> QED
      BY <3>1, FS_EmptySet, SettingsAssumption
  <2>3. PICK w \in st.wordOptions : SaveDrawing(i, w)
    BY <1>3, <2>2 DEF SaveAutoSelectedWord, AutoSelectedWords
  <2> QED
    BY <1>1, <2>1, <2>3
<1>4. CASE ArmDrawing(i)
  <2>1. i \in DOMAIN ready /\ st \in Room
    BY <1>4, GameReady DEF ArmDrawing, Pcs
  <2>2. CopiesSound(GameHandlers)'
    BY <1>4, <2>1, FinishSound DEF ArmDrawing
  <2>3. st.miniRoundNumber \in Nat
    BY <2>1 DEF Room
  <2>4. timers' = [SetHints(timers, st.miniRoundNumber) EXCEPT !.drawing = st.miniRoundNumber]
    BY <1>4 DEF ArmDrawing
  <2> HIDE DEF st
  <2>5. timers' \in [ wordSelection : Nat, drawing : Nat, roundEnd : Nat,
                      hints : [miniRound : Nat, pending : Nat] ]
    BY <2>3, <2>4, SettingsAssumption DEF RestTypeOK, SetHints
  <2>6. RestTypeOK'
    BY <1>4, <2>5 DEF ArmDrawing, RestTypeOK
  <2> QED
    BY <2>2, <2>6
<1> QED
  BY <1>2, <1>3, <1>4

LEMMA GuessStepsSound ==
  ASSUME CopiesSound(GameHandlers), RestTypeOK, NEW i,
         SaveGuess(i) \/ AnnounceGuess(i) \/ SaveHint(i)
  PROVE  CopiesSound(GameHandlers)' /\ RestTypeOK'
<1> DEFINE st == ready[i].st
           who == ready[i].who
<1>1. CASE SaveGuess(i)
  <2>1. /\ i \in DOMAIN ready /\ ready[i] \in Handler /\ SoundRoom(st)
        /\ InPhase(st, "drawing") /\ st \in Room
        /\ who \in Members(st) /\ who # st.leaderPlayerId /\ who \in PlayerIds
    BY <1>1, GameReady, MembersType DEF SaveGuess, Pcs, ReliesOn
  <2>2. PICK remaining \in RemainingTimes :
          SaveRoom(i, ApplyCorrectGuess(st, who, remaining), "guessSaved")
    BY <1>1 DEF SaveGuess
  <2> DEFINE new == ApplyCorrectGuess(st, who, remaining)
  <2>3. remaining \in Int
    BY LobbyAssumption, SettingsAssumption
  <2>4. SoundRoom(new)
    BY <2>1, <2>3, GuessSound
  <2>5. InPhase(new, "drawing")
    BY <2>1, <2>3, ApplyCorrectGuessOK DEF SoundRoom
  <2> DEFINE h == [ready[i] EXCEPT !.pc = "guessSaved", !.st = new]
  <2>6. HandlerOK(h)
    <3>1. new \in Room
      BY <2>4 DEF SoundRoom, RoomOK
    <3>2. who \in GuessersWhoGuessed(new)
      BY <2>1, <2>3, GuessRecorded
    <3> HIDE DEF new
    <3>3. h \in Handler /\ h.pc = "guessSaved" /\ h.st = new /\ h.who = who
      BY <2>1, <3>1 DEF Handler, Pcs
    <3> HIDE DEF h, who
    <3>4. ReliesOn(h)
      BY <2>5, <3>2, <3>3 DEF ReliesOn
    <3> QED
      BY <2>4, <3>3, <3>4 DEF HandlerOK, SoundRoom
  <2>7. CopiesSound(GameHandlers)'
    BY <2>1, <2>2, <2>4, <2>6, GameSaves
  <2> QED
    BY <1>1, <2>7 DEF SaveGuess, RestTypeOK
<1>2. CASE AnnounceGuess(i)
  <2>1. /\ i \in DOMAIN ready /\ ready[i] \in Handler /\ SoundRoom(st) /\ st \in Room
        /\ InPhase(st, "drawing") /\ who \in PlayerIds
    BY <1>2, GameReady, GuessersType DEF AnnounceGuess, Pcs, ReliesOn
  <2>2. told' \in SUBSET PlayerIds /\ scoreboard' \in [PlayerIds -> Nat]
    BY <1>2, <2>1, ScoresType DEF AnnounceGuess, RestTypeOK
  <2>3. CASE AllGuessersFinished(st)
    <3>1. SaveRoom(i, CreateRoundEndState(st), "roundEndSaved")
      BY <1>2, <2>3 DEF AnnounceGuess
    <3>2. CopiesSound(GameHandlers)'
      BY <2>1, <3>1, RoundEndSound, PhasesReached, GameSavesPhase DEF SoundRoom, InPhase
    <3>3. timers' = [ClearHints(timers) EXCEPT !.drawing = 0]
      BY <1>2, <2>3 DEF AnnounceGuess
    <3>4. RestTypeOK'
      BY <2>2, <3>3 DEF RestTypeOK, ClearHints, NoTimers
    <3> QED
      BY <3>2, <3>4
  <2>4. CASE ~AllGuessersFinished(st)
    <3>1. Finish(i) /\ UNCHANGED timers
      BY <1>2, <2>4 DEF AnnounceGuess
    <3>2. CopiesSound(GameHandlers)'
      BY <2>1, <3>1, FinishSound
    <3> QED
      BY <2>2, <3>1, <3>2 DEF RestTypeOK
  <2> QED
    BY <2>3, <2>4
<1>3. CASE SaveHint(i)
  <2>1. /\ i \in DOMAIN ready /\ SoundRoom(st)
        /\ InPhase(st, "drawing") /\ RevealHint(st.wordMask) # st.wordMask
    BY <1>3, GameReady DEF SaveHint, Pcs, ReliesOn
  <2>2. SoundRoom(ApplyHint(st))
    BY <2>1, HintSound
  <2>3. SaveRoomAndFinish(i, ApplyHint(st))
    BY <1>3 DEF SaveHint
  <2>4. /\ ready' = RemoveAt(ready, i) /\ queue' = queue
        /\ CopyOK(room') /\ lostUpdate' \in BOOLEAN
    BY <2>2, <2>3 DEF SaveRoomAndFinish, CopyOK
  <2>5. CopiesSound(GameHandlers)'
    BY <2>1, <2>4, EndSound
  <2> QED
    BY <1>3, <2>5 DEF SaveHint, RestTypeOK
<1> QED
  BY <1>1, <1>2, <1>3

LEMMA ToRoundEndSound ==
  ASSUME CopiesSound(GameHandlers), RestTypeOK, NEW i,
         SaveRoundEnd(i) \/ ArmRoundEnd(i) \/ SaveGameOver(i) \/ ClearRoomTimers(i)
  PROVE  CopiesSound(GameHandlers)' /\ RestTypeOK'
<1> DEFINE st == ready[i].st
<1>1. CASE SaveRoundEnd(i)
  <2>1. /\ i \in DOMAIN ready /\ ready[i] \in Handler /\ SoundRoom(st)
        /\ InPhase(st, "drawing")
    BY <1>1, GameReady DEF SaveRoundEnd, Pcs, ReliesOn
  <2>2. CopiesSound(GameHandlers)'
    BY <1>1, <2>1, RoundEndSound, PhasesReached, GameSavesPhase
    DEF SaveRoundEnd, SoundRoom, InPhase
  <2>3. RestTypeOK'
    BY <1>1 DEF SaveRoundEnd, RestTypeOK, ClearHints, NoTimers
  <2> QED
    BY <2>2, <2>3
<1>2. CASE ArmRoundEnd(i)
  <2>1. i \in DOMAIN ready /\ st \in Room /\ st.miniRoundNumber \in Nat
    BY <1>2, GameReady DEF ArmRoundEnd, Pcs, Room
  <2>2. CopiesSound(GameHandlers)'
    BY <1>2, <2>1, FinishSound DEF ArmRoundEnd
  <2>3. RestTypeOK'
    BY <1>2, <2>1, ScoresType DEF ArmRoundEnd, RestTypeOK
  <2> QED
    BY <2>2, <2>3
<1>3. CASE SaveGameOver(i)
  <2>1. /\ i \in DOMAIN ready /\ ready[i] \in Handler /\ SoundRoom(st)
        /\ InPhase(st, "round_end") /\ st.miniRoundNumber >= st.totalMiniRounds
    BY <1>3, GameReady DEF SaveGameOver, Pcs, ReliesOn
  <2>2. CopiesSound(GameHandlers)'
    BY <1>3, <2>1, GameOverSound, PhasesReached, GameSavesPhase
    DEF SaveGameOver, SoundRoom
  <2> QED
    BY <1>3, <2>2 DEF SaveGameOver, RestTypeOK
<1>4. CASE ClearRoomTimers(i)
  <2>1. i \in DOMAIN ready
    BY <1>4 DEF ClearRoomTimers, Resumes
  <2>2. CopiesSound(GameHandlers)'
    BY <1>4, <2>1, FinishSound DEF ClearRoomTimers
  <2>3. RestTypeOK'
    BY <1>4 DEF ClearRoomTimers, RestTypeOK, NoTimers
  <2> QED
    BY <2>2, <2>3
<1> QED
  BY <1>1, <1>2, <1>3, <1>4

(***************************************************************************)
(* The steps of the server.                                                *)
(***************************************************************************)
LEMMA EngineStepsSound ==
  ASSUME ServerSound, PlayerRequest \/ GameTimerFires \/ ResumeGame
  PROVE  ServerSound'
<1>1. /\ CopiesSound(GameHandlers) /\ SocketsSound /\ ManagerSound
      /\ RestTypeOK /\ restarts \in 0..MaxRestarts
  BY DEF ServerSound, LifeSound
<1>2. UNCHANGED <<lifeVars, restarts>>
  BY DEF PlayerRequest, GameTimerFires, ResumeGame
<1>3. SocketsSound' /\ ManagerSound' /\ restarts' \in 0..MaxRestarts
  BY <1>1, <1>2, LifeVarsUnchanged
<1>4. CASE PlayerRequest
  <2>1. PICK p \in PlayerIds : StartGame(p) \/ (\E w \in Words : ChooseWord(p, w)) \/ Guess(p)
    BY <1>4 DEF PlayerRequest, Seated
  <2>2. CopiesSound(GameHandlers)'
    BY <1>1, <2>1, PlayerRequestSound
  <2>3. UNCHANGED <<timers, scoreboard, told>>
    BY <2>1 DEF StartGame, ChooseWord, Guess
  <2> QED
    BY <1>1, <1>3, <2>2, <2>3 DEF ServerSound, LifeSound, RestTypeOK
<1>5. CASE GameTimerFires
  BY <1>1, <1>3, <1>5, GameTimerSound DEF GameTimerFires, ServerSound, LifeSound
<1>6. CASE ResumeGame
  <2>1. PICK i \in DOMAIN ready :
          \/ SaveFirstWordSelection(i) \/ SaveNextWordSelection(i) \/ ArmWordSelection(i)
          \/ SaveChosenWord(i) \/ SaveAutoSelectedWord(i) \/ ArmDrawing(i)
          \/ SaveGuess(i) \/ AnnounceGuess(i) \/ SaveHint(i)
          \/ SaveRoundEnd(i) \/ ArmRoundEnd(i)
          \/ SaveGameOver(i) \/ ClearRoomTimers(i)
    BY <1>6 DEF ResumeGame, Resume
  <2>2. CopiesSound(GameHandlers)' /\ RestTypeOK'
    BY <1>1, <2>1, ToWordSelectionSound, ToDrawingSound, GuessStepsSound, ToRoundEndSound
  <2> QED
    BY <1>3, <2>2 DEF ServerSound, LifeSound
<1> QED
  BY <1>4, <1>5, <1>6

(* The scores everybody is sent are those of a record, not of none.        *)
LEMMA ResumeMemberSound ==
  ASSUME ServerSound, ResumeMember
  PROVE  ServerSound'
<1>1. PICK i \in DOMAIN ready :
        \/ ResumeSilently(i) /\ UNCHANGED scoreboard
        \/ SeatJoined(i) /\ scoreboard' = ScoresOf(ready[i].st)
        \/ SaveWithoutPlayer(i) /\ scoreboard' = ScoresOf(room')
  BY DEF ResumeMember
<1>2. LifeSound(GameHandlers) /\ CopiesSound(GameHandlers) /\ RestTypeOK
  BY DEF ServerSound, LifeSound
<1>3. LifeSound(GameHandlers)'
  BY <1>1, <1>2, GameHandlersApart, MemberStepsSound
<1>4. scoreboard' \in [PlayerIds -> Nat]
  <2>1. CASE ResumeSilently(i) /\ UNCHANGED scoreboard
    BY <1>2, <2>1 DEF RestTypeOK
  <2>2. CASE SeatJoined(i) /\ scoreboard' = ScoresOf(ready[i].st)
    <3>1. ready[i] \in SoundHandlers /\ ready[i].pc = "joinSessionSaved"
      BY <1>2, <2>2, GameHandlersApart, ReadySound DEF SeatJoined, LifePcs
    <3>2. ready[i].st \in Room
      BY <3>1 DEF SoundHandlers, CopyOK, SoundRoom, RoomOK
    <3> QED
      BY <2>2, <3>2, ScoresType
  <2>3. CASE SaveWithoutPlayer(i) /\ scoreboard' = ScoresOf(room')
    <3>1. ready[i] \in SoundHandlers /\ ready[i].st # NoRoom
      BY <1>2, <2>3, GameHandlersApart, ReadySound DEF SaveWithoutPlayer, LifePcs
    <3>2. SoundRoom(WithoutPlayer(ready[i].st, ready[i].who))
      BY <3>1, WithoutPlayerSound DEF SoundHandlers, CopyOK
    <3>3. room' \in Room
      BY <2>3, <3>2 DEF SaveWithoutPlayer, SaveRoomAndFinish, SoundRoom, RoomOK
    <3> QED
      BY <2>3, <3>3, ScoresType
  <2> QED
    BY <1>1, <2>1, <2>2, <2>3
<1>5. RestTypeOK'
  BY <1>2, <1>4 DEF ResumeMember, RestTypeOK
<1> QED
  BY <1>3, <1>5 DEF ServerSound, ResumeMember

(* What a restart leaves is the record and the sessions.                   *)
LEMMA RestartSound ==
  ASSUME ServerSound, Restart
  PROVE  ServerSound'
<1>1. /\ CopiesSound(GameHandlers) /\ SocketsSound /\ RestTypeOK
      /\ restarts \in 0..MaxRestarts
  BY DEF ServerSound, LifeSound
<1>2. CopiesSound(GameHandlers)'
  BY <1>1, EmptySeq DEF Restart, CopiesSound
<1>3. /\ sockets' \in [Sockets -> Socket]
      /\ \A s \in Sockets : /\ sockets'[s].player = sockets[s].player
                            /\ sockets'[s].session = sockets[s].session
  <2>1. sockets' = [s \in Sockets |->
          IF sockets[s].status = "open" THEN [sockets[s] EXCEPT !.status = "closed"]
          ELSE sockets[s]]
    BY DEF Restart
  <2>2. ASSUME NEW s \in Sockets
        PROVE  /\ sockets'[s] \in Socket
               /\ sockets'[s].player = sockets[s].player
               /\ sockets'[s].session = sockets[s].session
    <3>1. sockets[s] \in Socket
      BY <1>1 DEF SocketsSound
    <3>2. sockets'[s] = IF sockets[s].status = "open"
                        THEN [sockets[s] EXCEPT !.status = "closed"] ELSE sockets[s]
      BY <2>1
    <3> QED
      BY <3>1, <3>2 DEF Socket
  <2> QED
    BY <2>1, <2>2
<1>4. SocketsSound'
  BY <1>1, <1>3 DEF Restart, SocketsSound, HasSession
<1>5. ManagerSound'
  BY DEF Restart, ManagerSound, Manager!ManagerTypeOK, Manager!Timers, Manager!NoTimer
<1>6. RestTypeOK'
  BY <1>1 DEF Restart, RestTypeOK, NoTimers
<1>7. restarts' \in 0..MaxRestarts
  BY <1>1, RestartsAssumption DEF Restart
<1> QED
  BY <1>2, <1>4, <1>5, <1>6, <1>7 DEF ServerSound, LifeSound

LEMMA ServerSoundStep ==
  ASSUME ServerSound, [ServerNext]_serverVars
  PROVE  ServerSound'
<1>1. /\ LifeSound(GameHandlers) /\ RestTypeOK /\ restarts \in 0..MaxRestarts
      /\ CopiesSound(GameHandlers) /\ SocketsSound /\ ManagerSound
  BY DEF ServerSound, LifeSound
<1>2. ASSUME UNCHANGED <<engineVars, restarts>>, LifeSound(GameHandlers)'
      PROVE  ServerSound'
  BY <1>1, <1>2 DEF engineVars, RestTypeOK, ServerSound
<1>3. CASE PlayerRequest \/ GameTimerFires \/ ResumeGame
  BY <1>3, EngineStepsSound
<1>4. CASE Arrival
  BY <1>1, <1>2, <1>4, ArrivalSound DEF Arrival
<1>5. CASE Departure
  BY <1>1, <1>2, <1>5, ExpirySound DEF Departure
<1>6. CASE ResumeMember
  BY <1>6, ResumeMemberSound
<1>7. CASE RepliesArrive
  <2>1. CopiesSound(GameHandlers)' /\ SocketsSound' /\ ManagerSound'
    BY <1>1, <1>7, DeliverSound, LifeVarsUnchanged DEF RepliesArrive
  <2> QED
    BY <1>2, <1>7, <2>1 DEF RepliesArrive, LifeSound
<1>8. CASE Restart
  BY <1>8, RestartSound
<1>9. CASE UNCHANGED serverVars
  <2>1. CopiesSound(GameHandlers)'
    BY <1>1, <1>9 DEF serverVars, storeVars, CopiesSound
  <2>2. SocketsSound' /\ ManagerSound'
    BY <1>1, <1>9, LifeVarsUnchanged DEF serverVars
  <2> QED
    BY <1>2, <1>9, <2>1, <2>2 DEF serverVars, LifeSound
<1> QED
  BY <1>3, <1>4, <1>5, <1>6, <1>7, <1>8, <1>9 DEF ServerNext

LEMMA ServerSoundInit ==
  ASSUME ServerInit
  PROVE  ServerSound
<1>1. LifeSound(GameHandlers)
  BY LifeSoundInit DEF ServerInit
<1>2. RestTypeOK
  BY DEF ServerInit, RestTypeOK, NoTimers
<1> QED
  BY <1>1, <1>2, RestartsAssumption DEF ServerInit, ServerSound

(***************************************************************************)
(* The theorems.                                                           *)
(***************************************************************************)
LEMMA ServerStaysSound == ServerSpec => []ServerSound
<1>1. ServerInit => ServerSound
  BY ServerSoundInit
<1>2. ServerSound /\ [ServerNext]_serverVars => ServerSound'
  BY ServerSoundStep
<1> QED
  BY <1>1, <1>2, PTL DEF ServerSpec

LEMMA CrossingStays ==
  ASSUME CrossedOK, [ServerNext]_serverVars
  PROVE  CrossedOK' /\ (crossed => crossed')
<1>1. CASE Arrival \/ Departure \/ ResumeMember
  BY <1>1, CrossedStays DEF Arrival, Departure, ResumeMember, CrossedOK
<1>2. CASE PlayerRequest \/ GameTimerFires \/ ResumeGame \/ RepliesArrive
  BY <1>2
  DEF PlayerRequest, GameTimerFires, ResumeGame, RepliesArrive, lifeVars, CrossedOK
<1>3. CASE Restart \/ UNCHANGED serverVars
  BY <1>3 DEF Restart, serverVars, lifeVars, CrossedOK
<1> QED
  BY <1>1, <1>2, <1>3 DEF ServerNext

LEMMA ServerRemembers == ServerSpec => []CrossedOK
<1>1. ServerInit => CrossedOK
  BY DEF ServerInit, LifeInit, CrossedOK
<1>2. CrossedOK /\ [ServerNext]_serverVars => CrossedOK'
  BY CrossingStays
<1> QED
  BY <1>1, <1>2, PTL DEF ServerSpec

(* Type correctness of the server.                                         *)
THEOREM ServerTypeCorrect == ServerSpec => []ServerTypeOK
<1>1. ServerSound /\ CrossedOK => ServerTypeOK
  <2> SUFFICES ASSUME ServerSound, CrossedOK PROVE ServerTypeOK
    OBVIOUS
  <2>1. GameHandlers \cup SoundHandlers \subseteq Handler \cup LifeHandler
    BY DEF GameHandlers, SoundHandlers
  <2>2. queue \in Seq(Handler \cup LifeHandler) /\ ready \in Seq(Handler \cup LifeHandler)
    BY <2>1, SeqMonotonic DEF ServerSound, LifeSound, CopiesSound
  <2>3. room \in Room \cup {NoRoom}
    BY DEF ServerSound, LifeSound, CopiesSound, CopyOK, SoundRoom, RoomOK
  <2> QED
    BY <2>2, <2>3
    DEF ServerSound, LifeSound, CopiesSound, SocketsSound, ManagerSound, RestTypeOK,
        CrossedOK, ServerTypeOK
<1> QED
  BY <1>1, ServerStaysSound, ServerRemembers, PTL

(* Whatever the handlers of the game and those of players who join, leave, *)
(* return or are put out overwrite, and however often the process dies:    *)
(* every copy of the record is well formed, with each seat taken once.     *)
THEOREM EveryCopyStaysSound == ServerSpec => []EveryCopyIsSound
<1>1. ServerSound => EveryCopyIsSound
  <2> SUFFICES ASSUME ServerSound, NEW st \in ServerCopies
               PROVE  RoomOK(st) /\ SeatsOK(st)
    BY DEF EveryCopyIsSound
  <2>1. \A h \in GameHandlers \cup SoundHandlers : CopyOK(h.st)
    BY DEF GameHandlers, SoundHandlers, HandlerOK, CopyOK, SoundRoom
  <2>2. /\ \A i \in DOMAIN queue : queue[i] \in GameHandlers \cup SoundHandlers
        /\ \A i \in DOMAIN ready : ready[i] \in GameHandlers \cup SoundHandlers
    BY LenProperties, ElementOfSeq DEF ServerSound, LifeSound, CopiesSound
  <2>3. CopyOK(st) /\ st # NoRoom
    BY <2>1, <2>2 DEF ServerCopies, Copies, ServerSound, LifeSound, CopiesSound
  <2> QED
    BY <2>3 DEF CopyOK, SoundRoom
<1> QED
  BY <1>1, ServerStaysSound, PTL

(***************************************************************************)
(* Until a room is created nothing happens.                                *)
(***************************************************************************)
NothingBegun == LifeInit /\ timers = NoTimers
Begun == issued = {} => NothingBegun

LEMMA UntouchedStep ==
  ASSUME NothingBegun, [ServerNext]_serverVars
  PROVE  \/ UNCHANGED <<storeVars, lifeVars, timers>>
         \/ Arrival /\ (\E s, name : CreateRoom(s, name)) /\ UNCHANGED timers
<1>1. /\ room = NoRoom /\ queue = <<>> /\ ready = <<>> /\ lostUpdate = FALSE
      /\ sessions = [t \in SessionIds |-> NoPlayer] /\ expiring = {} /\ issued = {}
      /\ sockets = [s \in Sockets |-> NewSocket] /\ tokens = [n \in Names |-> NoSession]
      /\ managed = FALSE /\ playerIds = {}
      /\ reconnecting = [p \in PlayerIds |-> Manager!NoTimer] /\ emptying = Manager!NoTimer
      /\ timers = NoTimers
  BY DEF NothingBegun, LifeInit, StoreInit, Manager!ManagerInit
<1>2. /\ \A s \in Sockets : sockets[s].status = "new"
      /\ \A p \in PlayerIds : reconnecting[p].pending = 0
      /\ emptying.pending = 0
      /\ DOMAIN ready = {} /\ Len(queue) = 0
  BY <1>1, EmptySeq DEF NewSocket, Manager!NoTimer
<1>5. ~PlayerRequest
  BY <1>2 DEF PlayerRequest, Seated, Seats
<1>6. ~GameTimerFires
  BY <1>1 DEF GameTimerFires, TimerFires, WordSelectionTimeout, HintTimeout, DrawingTimeout,
              RoundEndTimeout, NoTimers
<1>7. ~ResumeGame /\ ~ResumeMember
  BY <1>2 DEF ResumeGame, Resume, ResumeMember
<1>8. ~RepliesArrive
  BY <1>2 DEF RepliesArrive, Deliver
<1>9. CASE Arrival
  <2>1. \A s \in Sockets, name \in Names : ~Join(s, name) /\ ~Rejoin(s, name)
    BY <1>1 DEF Join, Rejoin
  <2>2. \A s \in Sockets : ~CloseSocket(s)
    BY <1>2 DEF CloseSocket
  <2> QED
    BY <1>9, <2>1, <2>2
    DEF Arrival, SocketEvent, Post, PostRoom, CreateRoomOnSocket, engineVars
<1>10. ~Departure
  <2>1. \A t \in SessionIds : ~SessionExpires(t)
    BY <1>1 DEF SessionExpires
  <2>2. \A p \in PlayerIds : ~ReconnectTimeout(p)
    BY <1>2 DEF ReconnectTimeout, Manager!ReconnectTimerFires
  <2>3. ~DeleteEmptyRoom
    BY <1>2 DEF DeleteEmptyRoom, Manager!EmptyTimerFires
  <2> QED
    BY <2>1, <2>2, <2>3 DEF Departure, Expiry
<1>11. CASE Restart
  <2>1. sockets' = sockets
    BY <1>1, <1>2, <1>11 DEF Restart
  <2> QED
    BY <1>1, <1>11, <2>1 DEF Restart, storeVars, lifeVars, managerVars
<1>12. CASE UNCHANGED serverVars
  BY <1>12 DEF serverVars, engineVars
<1> QED
  BY <1>5, <1>6, <1>7, <1>8, <1>9, <1>10, <1>11, <1>12 DEF ServerNext

LEMMA IssuedGrows ==
  ASSUME ServerSound, [ServerNext]_serverVars, issued' = {}
  PROVE  issued = {}
<1>1. CASE PlayerRequest \/ GameTimerFires \/ ResumeGame
  BY <1>1 DEF PlayerRequest, GameTimerFires, ResumeGame, lifeVars
<1>2. CASE Arrival
  BY <1>2 DEF Arrival, SocketEvent, Post, PostRoom, CreateRoomOnSocket, CreateRoom,
              Join, Rejoin, CloseSocket
<1>3. CASE Departure
  BY <1>3 DEF Departure, Expiry, SessionExpires, ReconnectTimeout, DeleteEmptyRoom
<1>4. CASE ResumeMember
  BY <1>4
  DEF ResumeMember, ResumeSilently, lifeVars, SaveOwnerSession, SaveSession, SeatOwner,
      AnswerPost, LookUpSession, GiveUpReconnect, SaveReconnected, ReplaceSession,
      FetchSockets, SeatReturned, RefuseJoin, SaveJoined, SaveJoinedSession, IgnoreLeaver,
      LoadForLeaver, SaveDisconnected, ExpireSession, OpenReconnectWindow,
      IgnoreReconnectTimeout, SeatJoined, SaveWithoutPlayer
<1>5. CASE RepliesArrive \/ Restart \/ UNCHANGED serverVars
  BY <1>5 DEF RepliesArrive, Restart, serverVars, lifeVars
<1> QED
  BY <1>1, <1>2, <1>3, <1>4, <1>5 DEF ServerNext

LEMMA BegunStep ==
  ASSUME ServerSound, Begun, [ServerNext]_serverVars
  PROVE  Begun'
<1> SUFFICES ASSUME issued' = {} PROVE NothingBegun'
  BY DEF Begun
<1>1. NothingBegun
  BY IssuedGrows DEF Begun
<1>2. \A s, name : ~CreateRoom(s, name)
  BY DEF CreateRoom
<1>3. UNCHANGED <<storeVars, lifeVars, timers>>
  BY <1>1, <1>2, UntouchedStep
<1> QED
  BY <1>1, <1>3
  DEF storeVars, lifeVars, managerVars, NothingBegun, LifeInit, StoreInit, Manager!ManagerInit

(***************************************************************************)
(* The life of the room beside the game: what its handlers do to those of  *)
(* the game, and to the record, when no update is lost.                    *)
(***************************************************************************)
Beside(q, t) == GameOf(t) = GameOf(q) /\ \A i \in GameOf(q) : t[i] = q[i]

LEMMA BesideAppended ==
  ASSUME NEW S, NEW q \in Seq(S), NEW h, h.pc \notin Pcs
  PROVE  Beside(q, Append(q, h))
<1> DEFINE T == S \cup {h}
           t == Append(q, h)
<1>1. q \in Seq(T) /\ h \in T
  BY SeqMonotonic
<1> HIDE DEF T
<1>2. /\ DOMAIN q \subseteq DOMAIN t
      /\ \A i \in DOMAIN q : t[i] = q[i]
      /\ \A i \in DOMAIN t : i \in DOMAIN q \/ t[i] = h
  BY <1>1, PlacesAppended
<1> HIDE DEF t
<1> QED
  BY <1>2 DEF Beside, GameOf, t

LEMMA BesideJoined ==
  ASSUME NEW S, NEW q \in Seq(S), NEW n \in Nat, NEW ls \in [1..n -> S],
         \A k \in 1..n : ls[k].pc \notin Pcs
  PROVE  Beside(q, q \o ls)
<1> DEFINE t == q \o ls
           m == Len(q)
<1>1. ls \in Seq(S) /\ Len(ls) = n
  BY FunctionIsSequence, LenProperties
<1>2. /\ m \in Nat /\ DOMAIN q = 1..m
      /\ t \in Seq(S) /\ Len(t) = m + n
      /\ \A i \in 1..(m + n) : t[i] = IF i <= m THEN q[i] ELSE ls[i - m]
  BY <1>1, ConcatProperties, LenProperties
<1>3. DOMAIN t = 1..(m + n)
  BY <1>2, LenProperties
<1> HIDE DEF t, m
<1>4. \A i \in 1..m : i \in 1..(m + n) /\ t[i] = q[i]
  BY <1>2
<1>5. ASSUME NEW i \in 1..(m + n), i \notin 1..m
      PROVE  t[i].pc \notin Pcs
  <2>1. ~(i <= m) /\ i - m \in 1..n
    BY <1>2, <1>5
  <2>2. t[i] = ls[i - m]
    BY <1>2, <2>1
  <2> QED
    BY <2>1, <2>2
<1>6. GameOf(t) = GameOf(q)
  BY <1>2, <1>3, <1>4, <1>5 DEF GameOf
<1> QED
  BY <1>2, <1>4, <1>6 DEF Beside, GameOf, t

(* The chunk without a handler of the room's life, or with one that goes   *)
(* on in it.                                                               *)
Around(r, u) ==
  \/ Beside(r, u)
  \/ \E i \in DOMAIN r : r[i].pc \notin Pcs /\ u = RemoveAt(r, i)

(* A player who leaves, returns, is put out or is new.                     *)
MembersChange(st, new) ==
  \/ \E p \in PlayerIds, status \in {"connected", "disconnected"} :
       new = SetStatus(st, p, status)
  \/ \E p \in PlayerIds : new = WithoutPlayer(st, p)
  \/ \E p \in PlayerIds :
       /\ st.phase = "lobby" /\ Len(st.players) < MaxPlayers
       /\ ~NicknameTaken(st, NameOf[p]) /\ new = JoinedRoom(st, p)

LifeShape ==
  /\ Beside(queue, queue') /\ Around(ready, ready')
  /\ lostUpdate => lostUpdate'
  /\ \/ room' \in {room, NoRoom}
     \/ ~lostUpdate' => SoundRoom(room) /\ MembersChange(room, room')

LEMMA BeginShape ==
  ASSUME NEW S, queue \in Seq(S), NEW h, h.pc \notin Pcs, Begin(h),
         UNCHANGED <<room, lostUpdate>>
  PROVE  LifeShape
<1>1. queue' = Append(queue, h) /\ ready' = ready
  BY DEF Begin
<1>2. Beside(queue, queue')
  BY <1>1, BesideAppended
<1>3. Beside(ready, ready')
  BY <1>1 DEF Beside
<1> QED
  BY <1>2, <1>3 DEF LifeShape, Around

LEMMA AwaitShape ==
  ASSUME NEW S, queue \in Seq(S), NEW i \in DOMAIN ready, ready[i].pc \notin Pcs,
         NEW h, h.pc \notin Pcs, Await(i, h),
         UNCHANGED <<room, lostUpdate>>
  PROVE  LifeShape
<1>1. queue' = Append(queue, h) /\ ready' = RemoveAt(ready, i)
  BY DEF Await
<1>2. Beside(queue, queue')
  BY <1>1, BesideAppended
<1> QED
  BY <1>1, <1>2 DEF LifeShape, Around

LEMMA FinishShape ==
  ASSUME NEW i \in DOMAIN ready, ready[i].pc \notin Pcs, Finish(i)
  PROVE  LifeShape
<1>1. /\ queue' = queue /\ ready' = RemoveAt(ready, i)
      /\ UNCHANGED <<room, lostUpdate>>
  BY DEF Finish
<1>2. Beside(queue, queue')
  BY <1>1 DEF Beside
<1> QED
  BY <1>1, <1>2 DEF LifeShape, Around

LEMMA SaveShape ==
  ASSUME NEW S, queue \in Seq(S), NEW i \in DOMAIN ready, ready[i].pc \notin Pcs,
         SoundRoom(ready[i].st), MembersChange(ready[i].st, room'),
         lostUpdate' = (lostUpdate \/ room # ready[i].st),
         ready' = RemoveAt(ready, i),
         queue' = queue \/ \E h : h.pc \notin Pcs /\ queue' = Append(queue, h)
  PROVE  LifeShape
<1>1. Beside(queue, queue')
  <2>1. CASE queue' = queue
    BY <2>1 DEF Beside
  <2>2. CASE \E h : h.pc \notin Pcs /\ queue' = Append(queue, h)
    BY <2>2, BesideAppended
  <2> QED
    BY <2>1, <2>2
<1>2. ~lostUpdate' => SoundRoom(room) /\ MembersChange(room, room')
  <2> SUFFICES ASSUME ~lostUpdate' PROVE SoundRoom(room) /\ MembersChange(room, room')
    OBVIOUS
  <2>1. room = ready[i].st
    OBVIOUS
  <2> QED
    BY <2>1
<1> QED
  BY <1>1, <1>2 DEF LifeShape, Around

LEMMA SoundStore ==
  ASSUME ServerSound
  PROVE  LET S == GameHandlers \cup SoundHandlers
         IN /\ queue \in Seq(S) /\ ready \in Seq(S)
            /\ \A i \in DOMAIN ready : ready[i] \in S
            /\ \A h \in SoundHandlers : h.pc \in LifePcs /\ h.pc \notin Pcs
<1>1. \A h \in SoundHandlers : h.pc \in LifePcs /\ h.pc \notin Pcs
  BY DEF SoundHandlers, LifeHandler, Pcs, LifePcs
<1> QED
  BY <1>1, Places DEF ServerSound, LifeSound, CopiesSound

LEMMA NotOfTheGame ==
  ASSUME NEW pc \in LifePcs
  PROVE  pc \notin Pcs
  BY DEF Pcs, LifePcs

LEMMA ArrivalShape ==
  ASSUME ServerSound, issued # {}, Arrival
  PROVE  LifeShape
<1>2. /\ \A s \in Sockets, name \in Names : ~CreateRoomOnSocket(s, name)
      /\ \A name \in Names : ~PostRoom(name)
  BY DEF CreateRoomOnSocket, PostRoom, CreateRoom
<1>3. ASSUME NEW s \in Sockets, NEW name \in Names, Join(s, name)
      PROVE  LifeShape
  <2> DEFINE h == [NewHandler("joinLoad") EXCEPT !.st = room, !.socket = s, !.name = name]
  <2>1. h.pc = "joinLoad"
    BY DEF NewHandler
  <2>2. Begin(h) /\ UNCHANGED <<room, lostUpdate>>
    BY <1>3 DEF Join
  <2> HIDE DEF h
  <2> QED
    BY <2>1, <2>2, SoundStore, NotOfTheGame, BeginShape DEF LifePcs
<1>4. ASSUME NEW s \in Sockets, NEW name \in Names, Rejoin(s, name)
      PROVE  LifeShape
  <2> DEFINE h == [NewHandler("reconnectSession") EXCEPT !.who = sessions[tokens[name]],
                     !.socket = s, !.name = name, !.session = tokens[name]]
  <2>1. h.pc = "reconnectSession"
    BY DEF NewHandler
  <2>2. Begin(h) /\ UNCHANGED <<room, lostUpdate>>
    BY <1>4 DEF Rejoin
  <2> HIDE DEF h
  <2> QED
    BY <2>1, <2>2, SoundStore, NotOfTheGame, BeginShape DEF LifePcs
<1>5. ASSUME NEW s \in Sockets, CloseSocket(s)
      PROVE  LifeShape
  <2>1. CASE HasSession(s)
    <3>1. Begin(Leaver(s)) /\ UNCHANGED <<room, lostUpdate>>
      BY <1>5, <2>1 DEF CloseSocket
    <3>2. Leaver(s).pc \notin Pcs
      BY LeaverSound, SoundStore DEF ServerSound, LifeSound
    <3> QED
      BY <3>1, <3>2, SoundStore, BeginShape
  <2>2. CASE ~HasSession(s)
    BY <1>5, <2>2 DEF CloseSocket, LifeShape, Beside, Around
  <2> QED
    BY <2>1, <2>2
<1> QED
  BY <1>2, <1>3, <1>4, <1>5 DEF Arrival, SocketEvent, Post

LEMMA DepartureShape ==
  ASSUME ServerSound, Departure
  PROVE  LifeShape
<1>1. ASSUME NEW t, SessionExpires(t)
      PROVE  LifeShape
  BY <1>1 DEF SessionExpires, storeVars, LifeShape, Beside, Around
<1>2. ASSUME NEW p, ReconnectTimeout(p)
      PROVE  LifeShape
  <2> DEFINE h == [NewHandler("expiredLoad") EXCEPT !.st = room, !.who = p]
  <2>1. h.pc = "expiredLoad"
    BY DEF NewHandler
  <2>2. Begin(h) /\ UNCHANGED <<room, lostUpdate>>
    BY <1>2 DEF ReconnectTimeout
  <2> HIDE DEF h
  <2> QED
    BY <2>1, <2>2, SoundStore, NotOfTheGame, BeginShape DEF LifePcs
<1>3. ASSUME DeleteEmptyRoom
      PROVE  LifeShape
  BY <1>3 DEF DeleteEmptyRoom, LifeShape, Beside, Around
<1> QED
  BY <1>1, <1>2, <1>3 DEF Departure, Expiry

LEMMA MemberShape ==
  ASSUME ServerSound, ResumeMember
  PROVE  LifeShape
<1>0. PICK i \in DOMAIN ready : ResumeSilently(i) \/ SeatJoined(i) \/ SaveWithoutPlayer(i)
  BY DEF ResumeMember
<1> DEFINE h == ready[i]
           S == GameHandlers \cup SoundHandlers
<1>1. queue \in Seq(S)
  BY SoundStore
<1> HIDE DEF S
<1>2. ASSUME NEW pc \in LifePcs, Resumes(i, pc)
      PROVE  h.pc = pc /\ h.pc \notin Pcs /\ h \in SoundHandlers /\ h \in LifeHandler
  BY <1>2, NotOfTheGame, ReadySound, GameHandlersApart DEF ServerSound, LifeSound, SoundHandlers
<1>3. ASSUME NEW pc \in LifePcs, Resumes(i, pc), Finish(i)
      PROVE  LifeShape
  BY <1>2, <1>3, FinishShape
<1>4. ASSUME NEW pc \in LifePcs, Resumes(i, pc), NEW g, g.pc \in LifePcs, Await(i, g),
             UNCHANGED <<room, lostUpdate>>
      PROVE  LifeShape
  BY <1>1, <1>2, <1>4, NotOfTheGame, AwaitShape
<1>5. ASSUME NEW pc \in LifePcs, Resumes(i, pc), NEW to \in LifePcs, Load(i, to)
      PROVE  LifeShape
  <2> DEFINE g == [h EXCEPT !.pc = to, !.st = room]
  <2>1. g.pc = to
    BY <1>2, <1>5 DEF LifeHandler
  <2>2. Await(i, g) /\ UNCHANGED <<room, lostUpdate>>
    BY <1>5 DEF Load
  <2> HIDE DEF g
  <2> QED
    BY <1>4, <1>5, <2>1, <2>2
<1>6. ASSUME NEW pc \in LifePcs, Resumes(i, pc), NEW to \in LifePcs, NEW next,
             SoundRoom(h.st), MembersChange(h.st, next), SaveRoom(i, next, to)
      PROVE  LifeShape
  <2> DEFINE g == [h EXCEPT !.pc = to, !.st = next]
  <2>1. g.pc = to
    BY <1>2, <1>6 DEF LifeHandler
  <2>2. /\ room' = next /\ lostUpdate' = (lostUpdate \/ room # h.st)
        /\ ready' = RemoveAt(ready, i) /\ queue' = Append(queue, g)
    BY <1>6 DEF SaveRoom
  <2> HIDE DEF g
  <2> QED
    BY <1>1, <1>2, <1>6, <2>1, <2>2, NotOfTheGame, SaveShape
<1>7. ASSUME NEW pc \in LifePcs, Resumes(i, pc), NEW to \in LifePcs,
             Await(i, [h EXCEPT !.pc = to]), UNCHANGED <<room, lostUpdate>>
      PROVE  LifeShape
  <2>1. [h EXCEPT !.pc = to].pc = to
    BY <1>2, <1>7 DEF LifeHandler
  <2> QED
    BY <1>4, <1>7, <2>1
<1>8. CASE \/ SeatOwner(i) \/ AnswerPost(i) \/ RefuseJoin(i) \/ IgnoreLeaver(i)
           \/ OpenReconnectWindow(i) \/ IgnoreReconnectTimeout(i) \/ SeatJoined(i)
  BY <1>3, <1>8
  DEF SeatOwner, AnswerPost, RefuseJoin, IgnoreLeaver, OpenReconnectWindow,
      IgnoreReconnectTimeout, SeatJoined, LifePcs
<1>9. CASE LookUpSession(i) \/ GiveUpReconnect(i) \/ LoadForLeaver(i)
  BY <1>5, <1>9 DEF LookUpSession, GiveUpReconnect, LoadForLeaver, LifePcs
<1>10. CASE SaveOwnerSession(i) \/ SaveJoinedSession(i) \/ ExpireSession(i)
  BY <1>7, <1>10
  DEF SaveOwnerSession, SaveJoinedSession, SaveSession, ExpireSession, LifePcs
<1>11. CASE ReplaceSession(i)
  <2>1. PICK t : Await(i, [h EXCEPT !.pc = "sessionReplaced", !.session = t])
    BY <1>11 DEF ReplaceSession, Fresh
  <2>2. Resumes(i, "reconnectSaved") /\ UNCHANGED <<room, lostUpdate>>
    BY <1>11 DEF ReplaceSession
  <2> DEFINE g == [h EXCEPT !.pc = "sessionReplaced", !.session = t]
  <2>3. g.pc = "sessionReplaced" /\ Await(i, g)
    BY <1>2, <2>1, <2>2 DEF LifePcs, LifeHandler
  <2> HIDE DEF g
  <2> QED
    BY <1>4, <2>2, <2>3 DEF LifePcs
<1>12. CASE FetchSockets(i)
  <2>1. Resumes(i, "sessionReplaced") /\ UNCHANGED <<room, queue, lostUpdate>>
    BY <1>12 DEF FetchSockets
  <2>2. /\ DOMAIN ready' = DOMAIN ready
        /\ \A j \in DOMAIN ready : j # i => ready'[j] = ready[j]
        /\ ready'[i].pc = "socketsFetched"
    BY <1>2, <1>12, <2>1 DEF FetchSockets, LifePcs, LifeHandler
  <2>3. h.pc \notin Pcs /\ ready'[i].pc \notin Pcs
    BY <1>2, <2>1, <2>2 DEF LifePcs, Pcs
  <2>4. Beside(ready, ready')
    BY <2>2, <2>3 DEF Beside, GameOf
  <2> QED
    BY <2>1, <2>4 DEF LifeShape, Beside, Around
<1>13. CASE SeatReturned(i)
  <2> DEFINE dropped == {s \in h.others : sockets[s].status = "open"}
             n == Cardinality(dropped)
  <2>1. /\ Resumes(i, "socketsFetched") /\ ready' = RemoveAt(ready, i)
        /\ UNCHANGED <<room, lostUpdate>>
    BY <1>13 DEF SeatReturned
  <2>2. PICK leavers \in SetToSeqs(dropped) :
          queue' = queue \o [k \in DOMAIN leavers |-> Leaver(leavers[k])]
    BY <1>13 DEF SeatReturned
  <2> DEFINE ls == [k \in DOMAIN leavers |-> Leaver(leavers[k])]
             T == GameHandlers \cup SoundHandlers
  <2>3. h.pc \notin Pcs /\ h.others \in SUBSET Sockets
    BY <1>2, <2>1 DEF LifePcs, LifeHandler
  <2>4. n \in Nat
    <3>1. IsFiniteSet(dropped)
      BY <2>3, NamesAssumption, FS_Subset
    <3> QED
      BY <3>1, FS_CardinalityType
  <2>5. leavers \in [1..n -> dropped]
    BY <2>2 DEF SetToSeqs
  <2>6. \A k \in 1..n : Leaver(leavers[k]) \in SoundHandlers /\ Leaver(leavers[k]).pc \notin Pcs
    BY <2>3, <2>5, LeaverSound, SoundStore DEF ServerSound, LifeSound
  <2>7. ls \in [1..n -> T] /\ \A k \in 1..n : ls[k].pc \notin Pcs
    BY <2>5, <2>6
  <2>8. queue \in Seq(T) /\ queue' = queue \o ls
    BY <2>2, SoundStore
  <2> HIDE DEF ls, T, n
  <2>9. Beside(queue, queue')
    BY <2>4, <2>7, <2>8, BesideJoined
  <2> QED
    BY <2>1, <2>3, <2>9 DEF LifeShape, Around
<1>14. CASE SaveReconnected(i)
  <2>1. /\ Resumes(i, "reconnectLoad") /\ h.st # NoRoom
        /\ SaveRoom(i, SetStatus(h.st, h.who, "connected"), "reconnectSaved")
    BY <1>14 DEF SaveReconnected, StillSeated
  <2>2. SoundRoom(h.st) /\ h.who \in PlayerIds
    BY <1>2, <2>1 DEF LifePcs, SoundHandlers, CopyOK
  <2>3. MembersChange(h.st, SetStatus(h.st, h.who, "connected"))
    BY <2>2 DEF MembersChange
  <2> QED
    BY <1>6, <2>1, <2>2, <2>3 DEF LifePcs
<1>15. CASE SaveDisconnected(i)
  <2>1. /\ Resumes(i, "leaveLoad") /\ h.st # NoRoom
        /\ SaveRoom(i, SetStatus(h.st, h.who, "disconnected"), "leaveSaved")
    BY <1>15 DEF SaveDisconnected
  <2>2. SoundRoom(h.st) /\ h.who \in PlayerIds
    BY <1>2, <2>1 DEF LifePcs, SoundHandlers, CopyOK
  <2>3. MembersChange(h.st, SetStatus(h.st, h.who, "disconnected"))
    BY <2>2 DEF MembersChange
  <2> QED
    BY <1>6, <2>1, <2>2, <2>3 DEF LifePcs
<1>16. CASE SaveJoined(i)
  <2>1. Resumes(i, "joinLoad") /\ CanJoinLobby(h.st, h.name)
    BY <1>16 DEF SaveJoined
  <2>2. PICK p \in PlayerIds, t \in SessionIds :
          /\ NameOf[p] = h.name /\ room' = JoinedRoom(h.st, p)
          /\ lostUpdate' = (lostUpdate \/ room # h.st)
          /\ Await(i, [h EXCEPT !.pc = "joinSaved", !.st = JoinedRoom(h.st, p),
                                !.who = p, !.session = t])
    BY <1>16 DEF SaveJoined, Fresh
  <2>3. SoundRoom(h.st) /\ MembersChange(h.st, room')
    BY <1>2, <2>1, <2>2 DEF CanJoinLobby, LifePcs, SoundHandlers, CopyOK, MembersChange
  <2> DEFINE g == [h EXCEPT !.pc = "joinSaved", !.st = JoinedRoom(h.st, p),
                            !.who = p, !.session = t]
  <2>4. g.pc = "joinSaved"
    BY <1>2, <2>1 DEF LifePcs, LifeHandler
  <2>5. ready' = RemoveAt(ready, i) /\ queue' = Append(queue, g)
    BY <2>2 DEF Await
  <2> HIDE DEF g
  <2>6. h.pc \notin Pcs /\ g.pc \notin Pcs
    BY <1>2, <2>1, <2>4 DEF LifePcs, Pcs
  <2> QED
    BY <1>1, <2>2, <2>3, <2>5, <2>6, SaveShape
<1>17. CASE SaveWithoutPlayer(i)
  <2>1. /\ Resumes(i, "expiredLoad") /\ h.st # NoRoom
        /\ SaveRoomAndFinish(i, WithoutPlayer(h.st, h.who))
    BY <1>17 DEF SaveWithoutPlayer
  <2>2. SoundRoom(h.st) /\ h.who \in PlayerIds /\ h.pc \notin Pcs
    BY <1>2, <2>1 DEF LifePcs, SoundHandlers, CopyOK
  <2>3. /\ room' = WithoutPlayer(h.st, h.who) /\ lostUpdate' = (lostUpdate \/ room # h.st)
        /\ ready' = RemoveAt(ready, i) /\ queue' = queue
    BY <2>1 DEF SaveRoomAndFinish
  <2>4. MembersChange(h.st, room')
    BY <2>2, <2>3 DEF MembersChange
  <2> QED
    BY <1>1, <2>2, <2>3, <2>4, SaveShape
<1> QED
  BY <1>0, <1>8, <1>9, <1>10, <1>11, <1>12, <1>13, <1>14, <1>15, <1>16, <1>17
  DEF ResumeSilently

(***************************************************************************)
(* Nobody loses points.                                                    *)
(***************************************************************************)
LEMMA SoundSeatsApart ==
  ASSUME NEW st, SoundRoom(st)
  PROVE  SeatsApart(st)
  BY DEF SoundRoom, SeatsOK, SeatsApart

LEMMA MembersKeepPlace ==
  ASSUME NEW st, SoundRoom(st), NEW new, MembersChange(st, new)
  PROVE  /\ SoundRoom(new) /\ SamePhase(st, new)
         /\ \A j \in DOMAIN new.players : new.players[j].id \in Members(st) =>
              \E i \in DOMAIN st.players :
                /\ st.players[i].id = new.players[j].id
                /\ st.players[i].score = new.players[j].score
<1>1. /\ st \in Room /\ st.players \in Seq(Player) /\ Len(st.players) \in Nat
      /\ DOMAIN st.players = 1..Len(st.players)
      /\ \A i \in DOMAIN st.players : st.players[i] \in Player
  BY PlayersDomain, Places DEF SoundRoom, RoomOK
<1>2. ASSUME NEW p \in PlayerIds, NEW status \in {"connected", "disconnected"},
             new = SetStatus(st, p, status)
      PROVE  /\ SoundRoom(new) /\ SamePhase(st, new) /\ DOMAIN new.players = DOMAIN st.players
             /\ \A i \in DOMAIN st.players :
                  /\ st.players[i].id = new.players[i].id
                  /\ st.players[i].score = new.players[i].score
  <2>1. SoundRoom(new)
    BY <1>2, SetStatusSound
  <2>2. SamePhase(st, new)
    BY <1>1, <1>2 DEF SetStatus, Room, SamePhase
  <2>3. new.players = [i \in DOMAIN st.players |->
          IF st.players[i].id = p THEN [st.players[i] EXCEPT !.connectionStatus = status]
          ELSE st.players[i]]
    BY <1>1, <1>2 DEF SetStatus, Room
  <2>4. ASSUME NEW i \in DOMAIN st.players
        PROVE  st.players[i].id = new.players[i].id /\ st.players[i].score = new.players[i].score
    BY <1>1, <2>3 DEF Player
  <2> QED
    BY <2>1, <2>2, <2>3, <2>4
<1>3. ASSUME NEW p \in PlayerIds, new = WithoutPlayer(st, p)
      PROVE  /\ SoundRoom(new) /\ SamePhase(st, new)
             /\ \A j \in DOMAIN new.players :
                  \E i \in DOMAIN st.players : st.players[i] = new.players[j]
  <2>1. SoundRoom(new)
    BY <1>3, WithoutPlayerSound
  <2>2. CASE p \in Members(st)
    <3> DEFINE k == IndexOf(st, p)
    <3>1. new = [st EXCEPT !.players = RemoveAt(st.players, k)] /\ k \in DOMAIN st.players
      BY <1>1, <1>3, <2>2, IndexOfMember DEF WithoutPlayer
    <3> HIDE DEF k
    <3>2. new.players = RemoveAt(st.players, k) /\ SamePhase(st, new)
      BY <1>1, <3>1 DEF Room, SamePhase
    <3>3. \A j \in DOMAIN RemoveAt(st.players, k) :
            \E i \in DOMAIN st.players : st.players[i] = RemoveAt(st.players, k)[j]
      <4>1. \A j \in DOMAIN RemoveAt(st.players, k) :
              /\ Was(k, j) \in DOMAIN st.players
              /\ RemoveAt(st.players, k)[j] = st.players[Was(k, j)]
        BY <1>1, <3>1, PlacesRemoved
      <4> QED
        BY <4>1
    <3> QED
      BY <2>1, <3>2, <3>3
  <2>3. CASE p \notin Members(st)
    BY <1>3, <2>1, <2>3 DEF WithoutPlayer, SamePhase
  <2> QED
    BY <2>2, <2>3
<1>4. ASSUME NEW p \in PlayerIds, st.phase = "lobby", Len(st.players) < MaxPlayers,
             ~NicknameTaken(st, NameOf[p]), new = JoinedRoom(st, p)
      PROVE  /\ SoundRoom(new) /\ SamePhase(st, new)
             /\ \A j \in DOMAIN new.players : new.players[j].id \in Members(st) =>
                  \E i \in DOMAIN st.players : st.players[i] = new.players[j]
  <2>1. SoundRoom(new)
    BY <1>4, JoinedRoomSound
  <2> DEFINE entry == NewPlayer(p, FALSE, "connected")
  <2>2. entry \in Player /\ entry.id = p /\ p \notin Members(st)
    BY <1>4 DEF NewPlayer, Player, NicknameTaken
  <2>3. SamePhase(st, new) /\ new.players = Append(st.players, entry)
    BY <1>1, <1>4 DEF JoinedRoom, Room, SamePhase
  <2> HIDE DEF entry
  <2>4. \A j \in DOMAIN Append(st.players, entry) :
          \/ j \in DOMAIN st.players /\ Append(st.players, entry)[j] = st.players[j]
          \/ Append(st.players, entry)[j] = entry
    BY <1>1, <2>2, PlacesAppended
  <2> QED
    BY <2>1, <2>2, <2>3, <2>4
<1> QED
  BY <1>2, <1>3, <1>4 DEF MembersChange

LEMMA MembersKeepPoints ==
  ASSUME NEW st, SoundRoom(st), NEW new, MembersChange(st, new),
         NEW p \in Members(st) \cap Members(new)
  PROVE  ScoresOf(new)[p] >= ScoresOf(st)[p]
<1>1. /\ SoundRoom(new) /\ SeatsApart(st) /\ SeatsApart(new) /\ st \in Room /\ p \in PlayerIds
      /\ ScoresOf(st)[p] \in Nat
  BY MembersKeepPlace, SoundSeatsApart, MembersType, ScoresFormed DEF SoundRoom, RoomOK
<1>2. PICK j \in DOMAIN new.players : new.players[j].id = p
  BY DEF Members
<1>3. PICK i \in DOMAIN st.players :
        st.players[i].id = p /\ st.players[i].score = new.players[j].score
  BY <1>2, MembersKeepPlace
<1>4. CurrentPlayer(st, p) = st.players[i] /\ CurrentPlayer(new, p) = new.players[j]
  BY <1>1, <1>2, <1>3, SeatOf
<1>5. ScoresOf(new)[p] = ScoresOf(st)[p]
  BY <1>1, <1>3, <1>4 DEF ScoresOf
<1> QED
  BY <1>1, <1>5

(* A step of the server that loses no update, as its record sees it.       *)
LEMMA ServerWrites ==
  ASSUME ServerSound, Begun, [ServerNext]_serverVars, ~lostUpdate',
         room # NoRoom, room' # NoRoom
  PROVE  \/ room' = room
         \/ SoundRoom(room) /\ MembersChange(room, room')
         \/ \E h : HandlerOK(h) /\ SeatsApart(h.st) /\ h.st = room /\ Turn(h, room')
<1>1. issued # {}
  BY DEF Begun, NothingBegun, LifeInit, StoreInit
<1>2. LifeShape => room' = room \/ (SoundRoom(room) /\ MembersChange(room, room'))
  BY DEF LifeShape
<1>3. CASE PlayerRequest \/ GameTimerFires
  BY <1>3 DEF PlayerRequest, GameTimerFires, TimerFires, StartGame, ChooseWord, Guess,
              WordSelectionTimeout, HintTimeout, DrawingTimeout, RoundEndTimeout, LoadRoom
<1>4. CASE ResumeGame
  <2>1. ASSUME NEW i \in DOMAIN ready, ready[i].pc \in Pcs
        PROVE  HandlerOK(ready[i]) /\ SeatsOK(ready[i].st)
    BY <2>1, SoundStore DEF GameHandlers
  <2>2. timers \in TimersType
    BY DEF ServerSound, RestTypeOK, TimersType
  <2>3. PICK i \in DOMAIN ready :
          HandlerOK(ready[i]) /\ (Ends(i) \/ Guesses(i) \/ Hints(i) \/ Moves(i))
    BY <1>4, <2>1, <2>2, ResumeShape DEF ReadyOK, ResumeGame
  <2>4. SeatsApart(ready[i].st)
    BY <2>1, <2>3, SoundSeatsApart DEF HandlerOK, SoundRoom, Handler
  <2> QED
    BY <2>3, <2>4 DEF Ends, Finish, Guesses, Hints, Moves
<1>5. CASE Arrival \/ Departure \/ ResumeMember
  BY <1>1, <1>2, <1>5, ArrivalShape, DepartureShape, MemberShape
<1>6. CASE RepliesArrive \/ Restart \/ UNCHANGED serverVars
  BY <1>6 DEF RepliesArrive, Deliver, Restart, serverVars, storeVars
<1> QED
  BY <1>3, <1>4, <1>5, <1>6 DEF ServerNext

LEMMA ServerBegun == ServerSpec => [](ServerSound /\ Begun)
<1>1. ServerInit => Begun
  BY DEF ServerInit, Begun, NothingBegun
<1>2. ServerSound /\ Begun /\ [ServerNext]_serverVars => Begun'
  BY BegunStep
<1> QED
  BY <1>1, <1>2, ServerStaysSound, PTL DEF ServerSpec

(* Whatever becomes of a player's connection, and of the process: as long  *)
(* as no update is lost, nobody's score ever drops.                        *)
THEOREM NobodyLosesPoints == ServerSpec => PointsAreKept
<1>1. ServerSound /\ Begun /\ [ServerNext]_serverVars =>
        [room # NoRoom /\ room' # NoRoom =>
           \A p \in Members(room) \cap Members(room') :
             lostUpdate' \/ ScoresOf(room')[p] >= ScoresOf(room)[p]]_serverVars
  <2> SUFFICES ASSUME ServerSound, Begun, [ServerNext]_serverVars,
                      room # NoRoom, room' # NoRoom,
                      NEW p \in Members(room) \cap Members(room'), ~lostUpdate'
               PROVE  ScoresOf(room')[p] >= ScoresOf(room)[p]
    OBVIOUS
  <2>1. SoundRoom(room) /\ room \in Room /\ p \in PlayerIds /\ ScoresOf(room)[p] \in Nat
    BY MembersType, ScoresFormed
    DEF ServerSound, LifeSound, CopiesSound, CopyOK, SoundRoom, RoomOK
  <2>2. CASE room' = room
    BY <2>1, <2>2
  <2>3. CASE MembersChange(room, room')
    BY <2>1, <2>3, MembersKeepPoints
  <2>4. ASSUME NEW h, HandlerOK(h), SeatsApart(h.st), h.st = room, Turn(h, room')
        PROVE  ScoresOf(room')[p] >= ScoresOf(room)[p]
    <3>1. RoomOK(room')
      BY <2>4, TurnIsSound
    <3>2. ScoresOf(room)[p] <= ScoresOf(room')[p] /\ ScoresOf(room')[p] \in Nat
      BY <2>1, <2>4, <3>1, TurnPays, ScoresFormed DEF RoomOK
    <3> QED
      BY <2>1, <3>2
  <2> QED
    BY <2>2, <2>3, <2>4, ServerWrites
<1> QED
  BY <1>1, ServerBegun, PTL DEF ServerSpec, PointsAreKept

(***************************************************************************)
(* The pace of the game, among players who come and go.                    *)
(***************************************************************************)
LEMMA ReadyKept ==
  ASSUME NEW S, NEW r \in Seq(S), NEW u, Around(r, u), NEW q, NEW st, NEW ts,
         Kept(q, r, st, ts)
  PROVE  Kept(q, u, st, ts)
<1>1. CASE Beside(r, u)
  <2>1. GameOf(u) = GameOf(r) /\ \A i \in GameOf(r) : u[i] = r[i]
    BY <1>1 DEF Beside
  <2>2. Flying(q, u) = Flying(q, r)
    BY <2>1 DEF Flying
  <2>3. Paced(q, u, Rank(st))
    BY <2>1 DEF Kept, Paced, InOrder, Near, OneMove
  <2>4. GuessesWait(q, u, st)
    BY <2>1, <2>2 DEF Kept, OnTime, GuessesWait
  <2> QED
    BY <2>2, <2>3, <2>4 DEF Kept, OnTime
<1>2. ASSUME NEW i \in DOMAIN r, r[i].pc \notin Pcs, u = RemoveAt(r, i)
      PROVE  Kept(q, u, st, ts)
  <2> DEFINE F == Flying(q, r)
             G == Flying(q, u)
  <2>1. /\ Paced(q, u, Rank(st)) /\ G \subseteq F /\ F \subseteq G \cup {r[i]}
        /\ Awaited(G, st) /\ GuessesWait(q, u, st)
    BY <1>2, RemoveKept DEF Kept, OnTime
  <2>2. \A x \in F : x.pc \in Pcs
    BY DEF Flying, GameOf
  <2>3. F = G
    BY <1>2, <2>1, <2>2
  <2>4. SetOnce(F, st, ts) /\ InTheirPhase(st, ts) /\ Timed(F, st, ts)
    BY DEF Kept, OnTime
  <2> HIDE DEF F, G
  <2> QED
    BY <2>1, <2>3, <2>4 DEF Kept, OnTime, F, G
<1> QED
  BY <1>1, <1>2 DEF Around

LEMMA QueueKept ==
  ASSUME NEW q, NEW t, Beside(q, t), NEW r, NEW st, NEW ts, Kept(q, r, st, ts)
  PROVE  Kept(t, r, st, ts)
<1>1. GameOf(t) = GameOf(q) /\ \A i \in GameOf(q) : t[i] = q[i]
  BY DEF Beside
<1>2. Flying(t, r) = Flying(q, r)
  BY <1>1 DEF Flying
<1>3. Paced(t, r, Rank(st))
  BY <1>1 DEF Kept, Paced, InOrder, Near, OneMove
<1>4. GuessesWait(t, r, st)
  BY <1>1, <1>2 DEF Kept, OnTime, GuessesWait
<1> QED
  BY <1>2, <1>3, <1>4 DEF Kept, OnTime

ServerTimely == restarts = 0 /\ ~lostUpdate /\ room # NoRoom => GameKept

LEMMA ServerStore ==
  ASSUME ServerSound, room # NoRoom
  PROVE  GameStore(Handler \cup LifeHandler)
<1>1. GameHandlers \cup SoundHandlers \subseteq Handler \cup LifeHandler
  BY DEF GameHandlers, SoundHandlers
<1>2. queue \in Seq(Handler \cup LifeHandler) /\ ready \in Seq(Handler \cup LifeHandler)
  BY <1>1, SoundStore, SeqMonotonic
<1>3. \A i \in DOMAIN queue : queue[i] \in GameHandlers \cup SoundHandlers
  BY SoundStore, Places
<1>4. FlyingOK(queue, ready)
  BY <1>3, SoundStore DEF FlyingOK, Flying, GameOf, GameHandlers
<1>5. RoomOK(room) /\ timers \in TimersType
  BY DEF ServerSound, LifeSound, CopiesSound, CopyOK, SoundRoom, RestTypeOK, TimersType
<1> QED
  BY <1>2, <1>4, <1>5 DEF GameStore

LEMMA ServerTimelyStep ==
  ASSUME ServerSound, Begun, ServerTimely, [ServerNext]_serverVars
  PROVE  ServerTimely'
<1> SUFFICES ASSUME restarts' = 0, ~lostUpdate', room' # NoRoom PROVE GameKept'
  BY DEF ServerTimely
<1> DEFINE S == Handler \cup LifeHandler
<1>1. ReadyOK /\ timers \in TimersType
  BY SoundStore DEF ReadyOK, GameHandlers, ServerSound, RestTypeOK, TimersType
<1>2. ~SoundRoom(NoRoom) /\ \A h : HandlerOK(h) => h.st # NoRoom
  BY StoreAssumption DEF SoundRoom, RoomOK, HandlerOK
<1>3. CASE Restart
  <2>1. restarts \in Nat /\ restarts' = restarts + 1
    BY <1>3, RestartsAssumption DEF Restart, ServerSound
  <2> QED
    BY <2>1
<1>4. CASE issued = {}
  <2>1. NothingBegun /\ timers = NoTimers /\ room = NoRoom /\ queue = <<>> /\ ready = <<>>
    BY <1>4 DEF Begun, NothingBegun, LifeInit, StoreInit
  <2>2. PICK s, name : CreateRoom(s, name) /\ UNCHANGED timers
    BY <2>1, UntouchedStep DEF storeVars
  <2>3. PICK p : room' = LobbyRoom(<<p>>, {p})
    BY <2>2 DEF CreateRoom
  <2>4. PICK h : h.pc = "createSaved" /\ Begin(h)
    <3>1. \A st, q, t : [NewHandler("createSaved") EXCEPT !.st = st, !.who = q, !.socket = s,
                           !.name = name, !.session = t].pc = "createSaved"
      BY DEF NewHandler
    <3> QED
      BY <2>2, <3>1 DEF CreateRoom
  <2>5. Beside(queue, queue') /\ ready' = ready /\ timers' = NoTimers
    BY <2>1, <2>2, <2>4, SoundStore, BesideAppended DEF Begin, Pcs
  <2>6. Kept(queue, ready, room', timers')
    BY <2>1, <2>3, <2>5, NobodyKept DEF LobbyRoom
  <2> QED
    BY <2>5, <2>6, QueueKept DEF GameKept
<1>5. CASE issued # {} /\ LifeShape /\ UNCHANGED <<timers, restarts>>
  <2>1. /\ Beside(queue, queue') /\ Around(ready, ready') /\ ~lostUpdate
        /\ room' = room \/ (SoundRoom(room) /\ MembersChange(room, room'))
    BY <1>5 DEF LifeShape
  <2>2. SamePhase(room, room')
    BY <2>1, MembersKeepPlace DEF SamePhase
  <2>3. Kept(queue, ready, room, timers)
    BY <1>2, <1>5, <2>1 DEF ServerTimely, GameKept
  <2>4. Kept(queue, ready', room, timers)
    BY <2>1, <2>3, SoundStore, ReadyKept
  <2>5. Kept(queue', ready', room, timers)
    BY <2>1, <2>4, QueueKept
  <2> QED
    BY <1>5, <2>2, <2>5, RecordKept DEF GameKept
<1>6. CASE PlayerRequest \/ GameTimerFires
  <2>1. UNCHANGED <<room, lostUpdate, restarts>>
    BY <1>6 DEF PlayerRequest, GameTimerFires, TimerFires, StartGame, ChooseWord, Guess,
                WordSelectionTimeout, HintTimeout, DrawingTimeout, RoundEndTimeout, LoadRoom
  <2>2. GameKept /\ GameStore(S)
    BY <2>1, ServerStore DEF ServerTimely
  <2> HIDE DEF S
  <2>3. CASE PlayerRequest
    <3>1. PICK p \in PlayerIds : StartGame(p) \/ (\E w \in Words : ChooseWord(p, w)) \/ Guess(p)
      BY <2>3 DEF PlayerRequest, Seated
    <3> QED
      BY <2>2, <3>1, RequestPaced
  <2>4. CASE GameTimerFires
    BY <2>2, <2>4, TimerPaced DEF GameTimerFires
  <2> QED
    BY <1>6, <2>3, <2>4
<1>7. CASE ResumeGame
  <2>1. PICK i \in DOMAIN ready :
          HandlerOK(ready[i]) /\ (Ends(i) \/ Guesses(i) \/ Hints(i) \/ Moves(i))
    BY <1>1, <1>7, ResumeShape DEF ResumeGame
  <2>2. room # NoRoom /\ ~lostUpdate
    <3>1. CASE Ends(i)
      BY <3>1 DEF Ends, Finish
    <3>2. CASE Guesses(i) \/ Hints(i) \/ Moves(i)
      <4>1. ready[i].st = room
        BY <3>2 DEF Guesses, Hints, Moves
      <4>2. ~lostUpdate
        BY <3>2 DEF Guesses, Hints, Moves, SaveRoom, SaveRoomAndFinish
      <4> QED
        BY <1>2, <2>1, <4>1, <4>2
    <3> QED
      BY <2>1, <3>1, <3>2
  <2>3. GameKept /\ GameStore(S)
    BY <1>7, <2>2, ServerStore DEF ServerTimely, ResumeGame
  <2> HIDE DEF S
  <2> QED
    BY <1>7, <2>3, ResumePaced DEF ResumeGame
<1>8. CASE RepliesArrive
  <2>1. UNCHANGED <<room, lostUpdate, restarts, timers>>
    BY <1>8 DEF RepliesArrive, Deliver, engineVars
  <2>2. GameKept /\ GameStore(S)
    BY <2>1, ServerStore DEF ServerTimely
  <2> HIDE DEF S
  <2> QED
    BY <1>8, <2>1, <2>2, DeliverPaced DEF RepliesArrive
<1>9. CASE UNCHANGED serverVars
  BY <1>9 DEF serverVars, storeVars, engineVars, ServerTimely, GameKept
<1>10. CASE issued # {} /\ (Arrival \/ Departure \/ ResumeMember)
  BY <1>5, <1>10, ArrivalShape, DepartureShape, MemberShape
  DEF Arrival, Departure, ResumeMember, engineVars
<1> QED
  BY <1>3, <1>4, <1>6, <1>7, <1>8, <1>9, <1>10 DEF ServerNext

(* Whoever leaves or is put out in the middle of a game, the game at rest  *)
(* has the timer of its phase pending and no other, as long as the process *)
(* lives and no update is lost.                                            *)
THEOREM GameStaysTimed == ServerSpec => []GameIsTimed
<1>1. ServerInit => ServerTimely
  BY DEF ServerInit, LifeInit, StoreInit, ServerTimely
<1>2. ServerSound /\ Begun /\ ServerTimely /\ [ServerNext]_serverVars => ServerTimely'
  BY ServerTimelyStep
<1>3. ServerSound /\ ServerTimely => GameIsTimed
  <2> SUFFICES ASSUME ServerSound, ServerTimely, restarts = 0, room # NoRoom,
                      ~lostUpdate, NobodyInFlight
               PROVE  AtRestTheRightTimerIsPending
    BY DEF GameIsTimed, AtRestTheRightTimerIsPending
  <2>1. GameKept /\ RoomOK(room) /\ timers \in TimersType
    BY ServerStore DEF ServerTimely, GameStore
  <2> QED
    BY <2>1, TimedAtRest DEF AtRestTheRightTimerIsPending
<1> QED
  BY <1>1, <1>2, <1>3, ServerBegun, PTL DEF ServerSpec

(***************************************************************************)
(* The seats.  The engine's handlers change nobody's place in the record,  *)
(* so for the life of the room they might not be there.                    *)
(***************************************************************************)
LEMMA TurnKeepsOwners ==
  ASSUME NEW h, HandlerOK(h), NEW new, Turn(h, new)
  PROVE  \A i \in DOMAIN h.st.players : new.players[i].isOwner = h.st.players[i].isOwner
<1> DEFINE st == h.st
<1>1. st \in Room /\ \A i \in DOMAIN st.players : st.players[i] \in Player
  BY PlayersDomain DEF HandlerOK, RoomOK
<1> HIDE DEF st
<1> SUFFICES ASSUME NEW i \in DOMAIN st.players
             PROVE  new.players[i].isOwner = st.players[i].isOwner
  BY DEF st
<1>2. ASSUME NEW options, \/ new = CreateWordSelectionState(st, options)
                          \/ new = CreateNextWordSelectionState(st, options)
      PROVE  new.players[i].isOwner = st.players[i].isOwner
  <2>1. new.players \in {st.players, ResetPlayers(st)}
    BY <1>1, <1>2 DEF CreateWordSelectionState, CreateNextWordSelectionState, Room
  <2> QED
    BY <1>1, <2>1, ResetPlayersSeats
<1>3. ASSUME NEW w, new = CreateDrawingState(st, w)
      PROVE  new.players[i].isOwner = st.players[i].isOwner
  <2>1. new.players = ResetPlayers(st)
    BY <1>1, <1>3 DEF CreateDrawingState, Room
  <2> QED
    BY <1>1, <2>1, ResetPlayersSeats
<1>4. ASSUME NEW remaining, new = ApplyCorrectGuess(st, h.who, remaining)
      PROVE  new.players[i].isOwner = st.players[i].isOwner
  BY <1>1, <1>4 DEF ApplyCorrectGuess, Room, Player
<1>5. CASE new = ApplyHint(st) \/ new = CreateGameOverState(st)
  BY <1>1, <1>5 DEF ApplyHint, CreateGameOverState, Room
<1>6. CASE new = CreateRoundEndState(st)
  BY <1>1, <1>6 DEF CreateRoundEndState, Room, Player
<1> QED
  BY <1>2, <1>3, <1>4, <1>5, <1>6 DEF Turn, st

LEMMA TurnKeepsPlayers ==
  ASSUME NEW h, HandlerOK(h), SoundRoom(h.st), NEW new, Turn(h, new)
  PROVE  /\ PlayersIn(new) = PlayersIn(h.st) /\ PlayersOn(new) = PlayersOn(h.st)
         /\ OwnersIn(new) = OwnersIn(h.st)
         /\ h.st # NoRoom
<1>1. h.st # NoRoom /\ SeatsApart(h.st)
  BY NoRoomIsNone, SoundSeatsApart
<1>2. new # NoRoom
  BY TurnIsSound, StoreAssumption DEF RoomOK
<1>3. SameCast(h.st, new)
  BY <1>1, TurnPays
<1>4. Members(new) = Members(h.st) /\ Connected(new) = Connected(h.st)
  BY <1>3, SameCastMembers
<1>5. /\ DOMAIN new.players = DOMAIN h.st.players
      /\ \A i \in DOMAIN h.st.players : /\ new.players[i].id = h.st.players[i].id
                                       /\ new.players[i].isOwner = h.st.players[i].isOwner
  BY <1>3, TurnKeepsOwners DEF SameCast
<1>6. Owners(new) = Owners(h.st) /\ Owners(h.st) \subseteq DOMAIN h.st.players
  BY <1>5 DEF Owners
<1>7. {new.players[i].id : i \in Owners(new)} = {h.st.players[i].id : i \in Owners(h.st)}
  BY <1>5, <1>6
<1> QED
  BY <1>1, <1>2, <1>4, <1>7 DEF PlayersIn, PlayersOn, OwnersIn

LEMMA OtherPcs == \A pc \in Pcs : pc \notin LifePcs /\ pc # "none"
  BY DEF Pcs, LifePcs

LEMMA NotOfTheLife ==
  ASSUME NEW g, g.pc \in Pcs
  PROVE  \A f : Separate(f, g) /\ Separate(g, f)
  BY OtherPcs DEF Separate

(* What handlers of the engine put into the queue or take out of it, the   *)
(* handlers of the room's life in flight stay the same.                    *)
LEMMA SameInFlight ==
  ASSUME NEW h, h.pc \notin LifePcs, NEW New, \A g \in New : g.pc \notin LifePcs,
         Replaces(h, New)
  PROVE  OneEach' /\ LifeInFlight' = LifeInFlight /\ Replaces(Idle, {})
<1>1. OneEach' /\ LifeInFlight' = LifeInFlight
  BY DEF Replaces, LifeInFlight
<1> QED
  BY <1>1, IdleIsNobody DEF Replaces

(* A handler of the engine begins.                                         *)
LEMMA GameBeginsAgrees ==
  ASSUME LifeSound(GameHandlers), NEW up \in BOOLEAN, AllAgree(up),
         NEW pc \in Pcs, NEW p, NEW w, NEW accepted \in BOOLEAN,
         LoadRoom(pc, p, w, accepted), UNCHANGED lifeVars
  PROVE  AllAgree(up)'
<1>1. UNCHANGED <<room, ready, sessions, expiring, issued, sockets, managed, playerIds,
                  reconnecting, emptying>>
  BY DEF LoadRoom, lifeVars, managerVars
<1>2. OneEach /\ CopiesSound(GameHandlers)
  BY DEF AllAgree, LifeSound
<1>3. OneEach' /\ LifeInFlight' = LifeInFlight
  <2>1. CASE accepted
    <3>1. PICK g : g = [pc |-> pc, st |-> room, who |-> p, word |-> w]
      OBVIOUS
    <3>2. g.pc = pc /\ Begin(g)
      BY <1>1, <2>1, <3>1 DEF LoadRoom, Begin
    <3>3. Replaces(Idle, {g})
      BY <1>2, <3>2, NotOfTheLife, HandlerBegins DEF CopiesSound
    <3> QED
      BY <3>2, <3>3, OtherPcs, IdleIsNobody, SameInFlight
  <2>2. CASE ~accepted
    BY <1>1, <1>2, <2>2, NobodyReplaced DEF LoadRoom, Replaces
  <2> QED
    BY <2>1, <2>2
<1> QED
  BY <1>1, <1>3, SameWorld

LEMMA RequestAgrees ==
  ASSUME LifeSound(GameHandlers), NEW up \in BOOLEAN, AllAgree(up),
         PlayerRequest \/ GameTimerFires
  PROVE  AllAgree(up)'
<1>1. UNCHANGED lifeVars
  BY DEF PlayerRequest, GameTimerFires
<1>2. CASE PlayerRequest
  <2>1. PICK p : StartGame(p) \/ (\E w \in Words : ChooseWord(p, w)) \/ Guess(p)
    BY <1>2 DEF PlayerRequest
  <2>2. CASE StartGame(p)
    BY <1>1, <2>2, GameBeginsAgrees DEF StartGame, Pcs
  <2>3. ASSUME NEW w \in Words, ChooseWord(p, w)
        PROVE  AllAgree(up)'
    BY <1>1, <2>3, GameBeginsAgrees DEF ChooseWord, Pcs
  <2>4. CASE Guess(p)
    BY <1>1, <2>4, GameBeginsAgrees DEF Guess, Pcs
  <2> QED
    BY <2>1, <2>2, <2>3, <2>4
<1>3. CASE GameTimerFires
  <2>1. \A phase, round : StillIn(phase, round) \in BOOLEAN
    BY DEF StillIn, InPhase
  <2>2. CASE WordSelectionTimeout
    BY <1>1, <2>1, <2>2, GameBeginsAgrees DEF WordSelectionTimeout, Pcs
  <2>3. CASE HintTimeout
    <3> DEFINE accepted == /\ StillIn("drawing", timers.hints.miniRound)
                           /\ RevealHint(room.wordMask) # room.wordMask
    <3>1. accepted \in BOOLEAN
      BY <2>1
    <3>2. LoadRoom("hintTimeout", NoPlayer, NoWord, accepted)
      BY <2>3 DEF HintTimeout
    <3> HIDE DEF accepted
    <3> QED
      BY <1>1, <3>1, <3>2, GameBeginsAgrees DEF Pcs
  <2>4. CASE DrawingTimeout
    BY <1>1, <2>1, <2>4, GameBeginsAgrees DEF DrawingTimeout, Pcs
  <2>5. CASE RoundEndTimeout
    BY <1>1, <2>1, <2>5, GameBeginsAgrees DEF RoundEndTimeout, Pcs
  <2> QED
    BY <1>3, <2>2, <2>3, <2>4, <2>5 DEF GameTimerFires, TimerFires
<1> QED
  BY <1>2, <1>3

(* A handler of the engine writes the record, with everybody in place.     *)
LEMMA GameWritesAgrees ==
  ASSUME LifeSound(GameHandlers), NEW up \in BOOLEAN, AllAgree(up), Replaces(Idle, {}),
         UNCHANGED lifeVars, room # NoRoom,
         PlayersIn(room') = PlayersIn(room), PlayersOn(room') = PlayersOn(room),
         OwnersIn(room') = OwnersIn(room)
  PROVE  AllAgree(up)'
<1>1. UNCHANGED <<sessions, expiring, issued, sockets, managerVars, playerIds, reconnecting>>
  BY DEF lifeVars, managerVars
<1>2. SeatsAgree(up) /\ CopiesSound(GameHandlers)
  BY DEF AllAgree, LifeSound
<1>3. \A p : ~Moving(Idle, p) /\ ~Returning(Idle, p)
  BY IdleNeverMoves
<1>4. CopyOK(room)
  BY <1>2 DEF CopiesSound
<1>5. SeatsAgree(up)'
  BY <1>1, <1>2, <1>3, RecordMoves
<1>6. ASSUME NEW f \in LifeInFlight
      PROVE  Untouched(up, f)
  <2>1. RecordUntouched(f)
    BY DEF RecordUntouched
  <2> QED
    BY <1>1, <2>1, NothingTouched DEF Untouched
<1>7. issued \subseteq issued'
  BY <1>1
<1> QED
  BY <1>2, <1>5, <1>6, <1>7, GameHandlersApart, AgreeAgain

LEMMA ResumeGameAgrees ==
  ASSUME ServerSound, NEW up \in BOOLEAN, AllAgree(up), ~lostUpdate', ResumeGame
  PROVE  AllAgree(up)'
<1>1. ReadyOK /\ timers \in TimersType
  BY SoundStore DEF ReadyOK, GameHandlers, ServerSound, RestTypeOK, TimersType
<1>2. PICK i \in DOMAIN ready :
        HandlerOK(ready[i]) /\ (Ends(i) \/ Guesses(i) \/ Hints(i) \/ Moves(i))
  BY <1>1, ResumeShape DEF ResumeGame
<1>3. PICK h : h = ready[i]
  OBVIOUS
<1>4. h.pc \in Pcs /\ h.pc \notin LifePcs /\ h \in Handler /\ HandlerOK(h)
  BY <1>2, <1>3, OtherPcs DEF HandlerOK, Handler
<1>5. /\ LifeSound(GameHandlers) /\ OneEach /\ CopyOK(room)
      /\ queue \in Seq(GameHandlers \cup SoundHandlers)
      /\ ready \in Seq(GameHandlers \cup SoundHandlers)
  BY DEF ServerSound, LifeSound, CopiesSound, AllAgree
<1>6. UNCHANGED lifeVars
  BY DEF ResumeGame
<1>7. ASSUME ready' = RemoveAt(ready, i), queue' = queue
      PROVE  OneEach' /\ LifeInFlight' = LifeInFlight /\ Replaces(Idle, {})
  <2>1. Replaces(h, {})
    BY <1>3, <1>5, <1>7, HandlerEnds
  <2> QED
    BY <1>4, <2>1, SameInFlight
<1>8. ASSUME Guesses(i) \/ Hints(i) \/ Moves(i)
      PROVE  /\ PlayersIn(room') = PlayersIn(room) /\ PlayersOn(room') = PlayersOn(room)
             /\ OwnersIn(room') = OwnersIn(room) /\ room # NoRoom
  <2>1. h.st = room /\ Turn(h, room')
    BY <1>3, <1>8 DEF Guesses, Hints, Moves
  <2>2. SoundRoom(room) /\ room # NoRoom
    BY <1>4, <1>5, <2>1, StoreAssumption DEF CopyOK, HandlerOK, RoomOK
  <2> QED
    BY <1>4, <2>1, <2>2, TurnKeepsPlayers
<1>9. CASE Ends(i)
  <2>1. ready' = RemoveAt(ready, i) /\ queue' = queue /\ UNCHANGED room
    BY <1>9 DEF Ends, Finish
  <2>2. UNCHANGED <<sessions, expiring, issued, sockets, managed, playerIds, reconnecting,
                    emptying>>
    BY <1>6 DEF lifeVars, managerVars
  <2> QED
    BY <1>7, <2>1, <2>2, SameWorld
<1>10. CASE Guesses(i) \/ Moves(i)
  <2>1. PICK pc \in Pcs : SaveRoom(i, room', pc)
    BY <1>10 DEF Guesses, Moves, PhaseSaved, Pcs
  <2>2. PICK g : g = [h EXCEPT !.pc = pc, !.st = room']
    OBVIOUS
  <2>3. g.pc = pc /\ Await(i, g)
    BY <1>3, <1>4, <2>1, <2>2 DEF SaveRoom, Handler, Await
  <2>4. \A f \in LifeInFlight : Separate(f, g)
    BY <2>3, NotOfTheLife
  <2>5. Replaces(h, {g})
    BY <1>3, <1>5, <2>3, <2>4, HandlerAwaits
  <2>6. Replaces(Idle, {})
    BY <1>4, <2>3, <2>5, OtherPcs, SameInFlight
  <2> QED
    BY <1>5, <1>6, <1>8, <1>10, <2>6, GameWritesAgrees
<1>11. CASE Hints(i)
  <2>1. Replaces(Idle, {})
    BY <1>7, <1>11 DEF Hints, SaveRoomAndFinish
  <2> QED
    BY <1>5, <1>6, <1>8, <1>11, <2>1, GameWritesAgrees
<1> QED
  BY <1>2, <1>9, <1>10, <1>11

(* A lost update is not forgotten.                                         *)
LEMMA LossLasts ==
  ASSUME lostUpdate, [ServerNext]_serverVars
  PROVE  lostUpdate'
<1>1. CASE PlayerRequest \/ GameTimerFires
  BY <1>1 DEF PlayerRequest, GameTimerFires, TimerFires, StartGame, ChooseWord, Guess,
              WordSelectionTimeout, HintTimeout, DrawingTimeout, RoundEndTimeout, LoadRoom
<1>2. CASE ResumeGame
  <2>1. PICK i \in DOMAIN ready :
          \/ SaveFirstWordSelection(i) \/ SaveNextWordSelection(i) \/ ArmWordSelection(i)
          \/ SaveChosenWord(i) \/ SaveAutoSelectedWord(i) \/ ArmDrawing(i)
          \/ SaveGuess(i) \/ AnnounceGuess(i) \/ SaveHint(i)
          \/ SaveRoundEnd(i) \/ ArmRoundEnd(i)
          \/ SaveGameOver(i) \/ ClearRoomTimers(i)
    BY <1>2 DEF ResumeGame, Resume
  <2> QED
    BY <2>1
    DEF SaveFirstWordSelection, SaveNextWordSelection, ArmWordSelection, SaveChosenWord,
        SaveAutoSelectedWord, ArmDrawing, SaveGuess, AnnounceGuess, SaveHint, SaveRoundEnd,
        ArmRoundEnd, SaveGameOver, ClearRoomTimers, SaveDrawing, SaveRoom,
        SaveRoomAndFinish, Finish
<1>3. CASE Arrival \/ Departure \/ ResumeMember
  BY <1>3, LossStays DEF Arrival, Departure, ResumeMember
<1>4. CASE RepliesArrive \/ Restart \/ UNCHANGED serverVars
  BY <1>4 DEF RepliesArrive, Deliver, Restart, serverVars, storeVars
<1> QED
  BY <1>1, <1>2, <1>3, <1>4 DEF ServerNext

(* A restart takes everybody's seat, and what is left is at rest.          *)
LEMMA RestartAgrees ==
  ASSUME ServerSound, NEW up \in BOOLEAN, AllAgree(up), Restart
  PROVE  AllAgree(FALSE)'
<1>1. SeatsAgree(up)
  BY DEF AllAgree
<1>2. OneEach' /\ LifeInFlight' = {}
  <2>1. queue' = <<>> /\ ready' = <<>>
    BY DEF Restart
  <2>2. /\ ToSet(queue)' = {} /\ ToSet(ready)' = {}
        /\ (DOMAIN queue)' = {} /\ (DOMAIN ready)' = {}
    BY <2>1 DEF ToSet
  <2> QED
    BY <2>2 DEF OneEach, AllSeparate, LifeInFlight
<1>3. /\ UNCHANGED <<room, sessions, expiring, issued>>
      /\ managed' = FALSE /\ emptying' = Manager!NoTimer
      /\ reconnecting' = [p \in PlayerIds |-> Manager!NoTimer]
  BY DEF Restart
<1>4. \A s \in Sockets :
        /\ sockets'[s].player = sockets[s].player /\ sockets'[s].session = sockets[s].session
        /\ sockets'[s].status # "open"
        /\ sockets'[s].status = "new" => sockets[s].status = "new"
  <2> SUFFICES ASSUME NEW s \in Sockets
               PROVE  /\ sockets'[s].player = sockets[s].player
                      /\ sockets'[s].session = sockets[s].session
                      /\ sockets'[s].status # "open"
                      /\ sockets'[s].status = "new" => sockets[s].status = "new"
    OBVIOUS
  <2>1. sockets[s] \in Socket
    BY DEF ServerSound, LifeSound, SocketsSound
  <2>2. sockets'[s] = IF sockets[s].status = "open"
                      THEN [sockets[s] EXCEPT !.status = "closed"] ELSE sockets[s]
    BY DEF Restart
  <2> QED
    BY <2>1, <2>2 DEF Socket
<1>5. Issuance'
  BY <1>1, <1>3, <1>4 DEF SeatsAgree, Issuance
<1>6. OneSessionEach' /\ OneSocketEach'
  BY <1>1, <1>3, <1>4 DEF SeatsAgree, OneSessionEach, OneSocketEach, IsOpen, HasSession
<1>7. TimersNeat(FALSE)'
  BY <1>3 DEF TimersNeat
<1>8. SeatedKept(FALSE)' /\ AbsentTimed(FALSE)'
  BY DEF SeatedKept, AbsentTimed
<1>9. SeatedOnRecord'
  BY <1>4 DEF SeatedOnRecord, IsOpen
<1> QED
  BY <1>2, <1>5, <1>6, <1>7, <1>8, <1>9 DEF AllAgree, SeatsAgree

(* Either no room has been created yet, or all agrees, until a record is   *)
(* overwritten unseen or an event comes across a handler it concerns.  The *)
(* RoomManager has to do with it until it loses its memory in a restart.   *)
ServerAgreed ==
  \/ LifeInit \/ lostUpdate \/ crossed
  \/ \E up \in BOOLEAN : AllAgree(up) /\ (restarts = 0 => up)

LEMMA BegunAgrees ==
  ASSUME ServerSound, Begun, LifeInit, [ServerNext]_serverVars
  PROVE  ServerAgreed'
<1>1. NothingBegun
  BY DEF Begun, LifeInit
<1>2. CASE UNCHANGED <<storeVars, lifeVars, timers>>
  BY <1>2
  DEF ServerAgreed, storeVars, lifeVars, managerVars, LifeInit, StoreInit, Manager!ManagerInit
<1>3. CASE Arrival /\ \E s, name : CreateRoom(s, name)
  <2>1. LifeNext /\ LifeSound(GameHandlers)
    BY <1>3 DEF Arrival, LifeNext, ServerSound
  <2>2. AllAgree(TRUE)'
    BY <2>1, FirstStep
  <2> QED
    BY <2>2 DEF ServerAgreed
<1> QED
  BY <1>1, <1>2, <1>3, UntouchedStep

LEMMA ServerAgreedStep ==
  ASSUME ServerSound, Begun, CrossedOK, ServerAgreed, [ServerNext]_serverVars
  PROVE  ServerAgreed'
<1>1. CASE LifeInit
  BY <1>1, BegunAgrees
<1>2. CASE lostUpdate \/ crossed
  BY <1>2, LossLasts, CrossingStays DEF ServerAgreed
<1>3. CASE lostUpdate' \/ crossed'
  BY <1>3 DEF ServerAgreed
<1>4. ASSUME NEW up \in BOOLEAN, AllAgree(up), restarts = 0 => up, ~lostUpdate', ~crossed'
      PROVE  ServerAgreed'
  <2>1. AllAgree(up)' /\ restarts' = restarts => ServerAgreed'
    BY <1>4 DEF ServerAgreed
  <2>2. /\ LifeSound(GameHandlers) /\ Apart(GameHandlers) /\ restarts \in Nat
    BY GameHandlersApart, RestartsAssumption DEF ServerSound
  <2>3. CASE PlayerRequest \/ GameTimerFires
    BY <1>4, <2>1, <2>2, <2>3, RequestAgrees DEF PlayerRequest, GameTimerFires
  <2>4. CASE ResumeGame
    BY <1>4, <2>1, <2>4, ResumeGameAgrees DEF ResumeGame
  <2>5. CASE Arrival \/ Departure \/ ResumeMember \/ RepliesArrive
    <3>1. LifeNext
      BY <2>5 DEF Arrival, Departure, ResumeMember, RepliesArrive, LifeNext, ResumeLife, LifeReplies
    <3>2. AllAgree(up)'
      BY <1>4, <2>2, <3>1, AgreeStep
    <3> QED
      BY <2>1, <2>5, <3>2 DEF Arrival, Departure, ResumeMember, RepliesArrive
  <2>6. CASE Restart
    <3>1. AllAgree(FALSE)'
      BY <1>4, <2>6, RestartAgrees
    <3>2. restarts' # 0
      BY <2>2, <2>6 DEF Restart
    <3> QED
      BY <3>1, <3>2 DEF ServerAgreed
  <2>7. CASE UNCHANGED serverVars
    <3>1. UNCHANGED <<queue, ready, room, sessions, expiring, issued, sockets, managed,
                      playerIds, reconnecting, emptying, restarts>>
      BY <2>7 DEF serverVars, storeVars, lifeVars, managerVars
    <3>2. OneEach' /\ LifeInFlight' = LifeInFlight
      BY <1>4, <3>1, NobodyReplaced DEF AllAgree, Replaces
    <3> QED
      BY <1>4, <2>1, <3>1, <3>2, SameWorld
  <2> QED
    BY <2>3, <2>4, <2>5, <2>6, <2>7 DEF ServerNext
<1> QED
  BY <1>1, <1>2, <1>3, <1>4 DEF ServerAgreed

LEMMA ServerStaysAgreed == ServerSpec => [](ServerSound /\ ServerAgreed)
<1>1. ServerInit => ServerAgreed
  BY DEF ServerInit, ServerAgreed
<1>2. ServerSound /\ Begun /\ CrossedOK /\ ServerAgreed /\ [ServerNext]_serverVars
        => ServerAgreed'
  BY ServerAgreedStep
<1> QED
  BY <1>1, <1>2, ServerBegun, ServerRemembers, PTL DEF ServerSpec

(* Whatever the game does meanwhile, and after a restart too: until a      *)
(* record is overwritten unseen or an event comes across a handler it      *)
(* concerns, a player has one seat, is connected in the record as long as  *)
(* it has it, and the token its client holds opens it again.               *)
THEOREM SeatsStandRestarts == ServerSpec => []SeatsOutliveRestarts
<1>1. ServerAgreed => SeatsOutliveRestarts
  <2> SUFFICES ASSUME ServerAgreed PROVE OneSeatEach /\ SeatedPlayersAreOnRecord
    BY DEF SeatsOutliveRestarts
  <2>1. CASE lostUpdate \/ crossed
    BY <2>1 DEF OneSeatEach, SeatedPlayersAreOnRecord, Undisturbed
  <2>2. LifeInit => OneSeatEach /\ SeatedPlayersAreOnRecord
    BY UntouchedPromises DEF LifePromises
  <2> QED
    BY <2>1, <2>2, AgreedSeats DEF ServerAgreed
<1> QED
  BY <1>1, ServerStaysAgreed, PTL

(* Until the process dies, the RoomManager does in the middle of a game    *)
(* what it does in the lobby, up to the same point: it keeps the seated,   *)
(* times the absent, and a room it has closed stays gone, however far the  *)
(* game is and whichever handlers of the game are under way.               *)
THEOREM PromisesStandWhileUp == ServerSpec => []PromisesWhileUp
<1>1. ServerSound /\ ServerAgreed => PromisesWhileUp
  <2> SUFFICES ASSUME ServerSound, ServerAgreed, restarts = 0
               PROVE  SeatsAreKept /\ AbsentPlayersAreTimed /\ ClosedRoomIsGone
    BY DEF PromisesWhileUp
  <2>1. CopyOK(room)
    BY DEF ServerSound, LifeSound, CopiesSound
  <2>2. CASE lostUpdate \/ crossed
    BY <2>2 DEF SeatsAreKept, AbsentPlayersAreTimed, ClosedRoomIsGone, Undisturbed
  <2>3. CASE LifeInit
    BY <2>3, UntouchedPromises DEF LifePromises
  <2>4. CASE AllAgree(TRUE)
    BY <2>1, <2>4, AgreedPromises
  <2> QED
    BY <2>2, <2>3, <2>4 DEF ServerAgreed
<1> QED
  BY <1>1, ServerStaysAgreed, PTL
=============================================================================
