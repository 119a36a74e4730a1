----------------------------- MODULE GameEngine -----------------------------
(***************************************************************************)
(* One game in one room: the requests start_game, choose_word and guess,   *)
(* the four room timers, and the handlers that serve them                  *)
(* (services/game/engine, round/flows, timers).                            *)
(*                                                                         *)
(* A handler is a chain of actions, one per stretch of code between two    *)
(* awaits on Redis.  Members neither come nor go here and their connection *)
(* status is fixed when the game is set up.                                *)
(***************************************************************************)
EXTENDS RoomStore

CONSTANTS
  JoinOrder,      \* the players in the lobby, the owner first
  RemainingTimes  \* the readings of the clock a correct guess may see

ASSUME LobbyAssumption ==
  /\ JoinOrder \in Seq(PlayerIds)
  /\ Len(JoinOrder) \in 1..MaxPlayers
  /\ \A i, j \in 1..Len(JoinOrder) : JoinOrder[i] = JoinOrder[j] => i = j
  /\ RemainingTimes \subseteq 0..RoundTimeSec
  /\ NoPlayer \notin PlayerIds

VARIABLES
  timers,      \* the room's pending timers
  scoreboard,  \* the scores of the last score_update event
  told         \* who was told "correct" in the round on the players' screens

vars == <<storeVars, timers, scoreboard, told>>

(***************************************************************************)
(* RoomTimerScheduler.  A pending timer is the miniRoundNumber its         *)
(* callback captured, 0 when none is pending; the hint timers of a room    *)
(* are set together and share theirs.  A handle whose timer has fired is   *)
(* kept by the scheduler, but cancelling it does nothing.                  *)
(***************************************************************************)
NoTimers == [wordSelection |-> 0, drawing |-> 0, roundEnd |-> 0,
             hints |-> [miniRound |-> 0, pending |-> 0]]

(* Mutant: one hint timer too many.                                        *)
SetOneHintTooMany(ts, round) ==
  [ts EXCEPT !.hints = [miniRound |-> round, pending |-> HintsCount + 1]]

ClearHints(ts) == [ts EXCEPT !.hints = NoTimers.hints]
SetHints(ts, round) == [ts EXCEPT !.hints = [miniRound |-> round, pending |-> HintsCount]]

TypeOK ==
  /\ StoreTypeOK
  /\ timers \in [ wordSelection : Nat, drawing : Nat, roundEnd : Nat,
                  hints : [miniRound : Nat, pending : Nat] ]
  /\ scoreboard \in [PlayerIds -> Nat]
  /\ told \in SUBSET PlayerIds

Init ==
  /\ \E connected \in SUBSET PlayerIds : StoreInit(LobbyRoom(JoinOrder, connected))
  /\ timers = NoTimers
  /\ scoreboard = [p \in PlayerIds |-> 0]
  /\ told = {}

(***************************************************************************)
(* Requests.  Each loads the room and checks it; the socket's player is p. *)
(***************************************************************************)
StartGame(p) ==
  /\ EventLoopFree
  /\ room # NoRoom
  /\ p \in Members(room)
  /\ CurrentPlayer(room, p).isOwner
  /\ room.phase = "lobby" /\ room.roundPhase = "round_end"
  /\ Len(room.players) >= 2
  /\ LoadRoom("startGame", p, NoWord, TRUE)
  /\ UNCHANGED <<timers, scoreboard, told>>

ChooseWord(p, w) ==
  /\ EventLoopFree
  /\ room # NoRoom
  /\ InPhase(room, "word_selection")
  /\ room.leaderPlayerId = p
  /\ w \in room.wordOptions
  /\ LoadRoom("chooseWord", p, w, TRUE)
  /\ UNCHANGED <<timers, scoreboard, told>>

(* Mutant: does not keep the leader from guessing.                         *)
GuessByAnyone(p) ==
  /\ EventLoopFree
  /\ room # NoRoom
  /\ InPhase(room, "drawing")
  /\ p \in Members(room)
  /\ ~CurrentPlayer(room, p).guessed
  /\ LoadRoom("guess", p, NoWord, TRUE)
  /\ UNCHANGED <<timers, scoreboard, told>>

(* A correct guess; a wrong or a blocked one only sends guess_result.      *)
Guess(p) ==
  /\ EventLoopFree
  /\ room # NoRoom
  /\ InPhase(room, "drawing")
  /\ p \in Members(room)
  /\ p # room.leaderPlayerId /\ ~CurrentPlayer(room, p).guessed
  /\ LoadRoom("guess", p, NoWord, TRUE)
  /\ UNCHANGED <<timers, scoreboard, told>>

(***************************************************************************)
(* Timers that fire.  The timer is used up even if its handler finds that  *)
(* the room has moved on.                                                  *)
(***************************************************************************)
StillIn(roundPhase, round) ==
  /\ room # NoRoom
  /\ InPhase(room, roundPhase)
  /\ room.miniRoundNumber = round

WordSelectionTimeout ==
  /\ EventLoopFree
  /\ timers.wordSelection # 0
  /\ timers' = [timers EXCEPT !.wordSelection = 0]
  /\ LoadRoom("wordSelectionTimeout", NoPlayer, NoWord,
              StillIn("word_selection", timers.wordSelection))
  /\ UNCHANGED <<scoreboard, told>>

(* Mutant: does not notice that there is nothing left to reveal.           *)
HintTimeoutUnchecked ==
  /\ EventLoopFree
  /\ timers.hints.pending # 0
  /\ timers' = [timers EXCEPT !.hints.pending = @ - 1]
  /\ LoadRoom("hintTimeout", NoPlayer, NoWord,
              StillIn("drawing", timers.hints.miniRound))
  /\ UNCHANGED <<scoreboard, told>>

HintTimeout ==
  /\ EventLoopFree
  /\ timers.hints.pending # 0
  /\ timers' = [timers EXCEPT !.hints.pending = @ - 1]
  /\ LoadRoom("hintTimeout", NoPlayer, NoWord,
              /\ StillIn("drawing", timers.hints.miniRound)
              /\ RevealHint(room.wordMask) # room.wordMask)
  /\ UNCHANGED <<scoreboard, told>>

(* Mutant: mistakes the round it was set for.                              *)
DrawingTimeoutOfNextRound ==
  /\ EventLoopFree
  /\ timers.drawing # 0
  /\ timers' = [timers EXCEPT !.drawing = 0]
  /\ LoadRoom("drawingTimeout", NoPlayer, NoWord,
              StillIn("drawing", timers.drawing + 1))
  /\ UNCHANGED <<scoreboard, told>>

DrawingTimeout ==
  /\ EventLoopFree
  /\ timers.drawing # 0
  /\ timers' = [timers EXCEPT !.drawing = 0]
  /\ LoadRoom("drawingTimeout", NoPlayer, NoWord,
              StillIn("drawing", timers.drawing))
  /\ UNCHANGED <<scoreboard, told>>

RoundEndTimeout ==
  /\ EventLoopFree
  /\ timers.roundEnd # 0
  /\ timers' = [timers EXCEPT !.roundEnd = 0]
  /\ LoadRoom("roundEndTimeout", NoPlayer, NoWord,
              StillIn("round_end", timers.roundEnd))
  /\ UNCHANGED <<scoreboard, told>>

(***************************************************************************)
(* handleStartGame, handleRoundEndTimeout: into word selection.            *)
(***************************************************************************)
SaveFirstWordSelection(i) ==
  /\ Resumes(i, "startGame")
  /\ \E options \in WordOptions({}) :
       SaveRoom(i, CreateWordSelectionState(ready[i].st, options), "wordSelectionSaved")
  /\ UNCHANGED <<timers, scoreboard, told>>

SaveNextWordSelection(i) ==
  /\ Resumes(i, "roundEndTimeout")
  /\ ready[i].st.miniRoundNumber < ready[i].st.totalMiniRounds
  /\ \E options \in WordOptions(ready[i].st.usedWords) :
       SaveRoom(i, CreateNextWordSelectionState(ready[i].st, options), "wordSelectionSaved")
  /\ UNCHANGED <<timers, scoreboard, told>>

(* Mutant: a leader who never chooses is not timed.                        *)
ArmNothing(i) ==
  /\ Resumes(i, "wordSelectionSaved")
  /\ Finish(i)
  /\ UNCHANGED <<timers, scoreboard, told>>

ArmWordSelection(i) ==
  /\ Resumes(i, "wordSelectionSaved")
  /\ timers' = [timers EXCEPT !.wordSelection = ready[i].st.miniRoundNumber]
  /\ Finish(i)
  /\ UNCHANGED <<scoreboard, told>>

(***************************************************************************)
(* transitionToDrawing, after a choice or after its timeout.               *)
(***************************************************************************)
SaveDrawing(i, w) ==
  /\ timers' = [timers EXCEPT !.wordSelection = 0]
  /\ SaveRoom(i, CreateDrawingState(ready[i].st, w), "drawingSaved")
  /\ UNCHANGED <<scoreboard, told>>

SaveChosenWord(i) ==
  /\ Resumes(i, "chooseWord")
  /\ SaveDrawing(i, ready[i].word)

SaveAutoSelectedWord(i) ==
  /\ Resumes(i, "wordSelectionTimeout")
  /\ \E w \in AutoSelectedWords(ready[i].st) : SaveDrawing(i, w)

(* round_start shows the new round; its hints and its end are timed.       *)
ArmDrawing(i) ==
  /\ Resumes(i, "drawingSaved")
  /\ LET round == ready[i].st.miniRoundNumber
     IN timers' = [SetHints(timers, round) EXCEPT !.drawing = round]
  /\ told' = {}
  /\ Finish(i)
  /\ UNCHANGED scoreboard

(***************************************************************************)
(* handleGuess, handleHintTimeout.                                         *)
(***************************************************************************)
SaveGuess(i) ==
  /\ Resumes(i, "guess")
  /\ \E remaining \in RemainingTimes :
       SaveRoom(i, ApplyCorrectGuess(ready[i].st, ready[i].who, remaining), "guessSaved")
  /\ UNCHANGED <<timers, scoreboard, told>>

(* Mutant: leaves the timers of the drawing running.                       *)
AnnounceGuessOnly(i) ==
  /\ Resumes(i, "guessSaved")
  /\ told' = told \cup {ready[i].who}
  /\ scoreboard' = ScoresOf(ready[i].st)
  /\ UNCHANGED timers
  /\ IF AllGuessersFinished(ready[i].st)
     THEN SaveRoom(i, CreateRoundEndState(ready[i].st), "roundEndSaved")
     ELSE Finish(i)

(* guess_result and score_update go out; the last guesser ends the round.  *)
AnnounceGuess(i) ==
  /\ Resumes(i, "guessSaved")
  /\ told' = told \cup {ready[i].who}
  /\ scoreboard' = ScoresOf(ready[i].st)
  /\ IF AllGuessersFinished(ready[i].st)
     THEN /\ timers' = [ClearHints(timers) EXCEPT !.drawing = 0]
          /\ SaveRoom(i, CreateRoundEndState(ready[i].st), "roundEndSaved")
     ELSE Finish(i) /\ UNCHANGED timers

SaveHint(i) ==
  /\ Resumes(i, "hintTimeout")
  /\ SaveRoomAndFinish(i, ApplyHint(ready[i].st))
  /\ UNCHANGED <<timers, scoreboard, told>>

(***************************************************************************)
(* handleDrawingTimeout, finalizeRoundEnd, the end of the game.            *)
(***************************************************************************)
SaveRoundEnd(i) ==
  /\ Resumes(i, "drawingTimeout")
  /\ timers' = ClearHints(timers)
  /\ SaveRoom(i, CreateRoundEndState(ready[i].st), "roundEndSaved")
  /\ UNCHANGED <<scoreboard, told>>

ArmRoundEnd(i) ==
  /\ Resumes(i, "roundEndSaved")
  /\ scoreboard' = ScoresOf(ready[i].st)
  /\ timers' = [timers EXCEPT !.roundEnd = ready[i].st.miniRoundNumber]
  /\ Finish(i)
  /\ UNCHANGED told

(* Mutant: ends the game one round early.                                  *)
SaveGameOverEarly(i) ==
  /\ Resumes(i, "roundEndTimeout")
  /\ ready[i].st.miniRoundNumber + 1 >= ready[i].st.totalMiniRounds
  /\ SaveRoom(i, CreateGameOverState(ready[i].st), "gameOverSaved")
  /\ UNCHANGED <<timers, scoreboard, told>>

SaveGameOver(i) ==
  /\ Resumes(i, "roundEndTimeout")
  /\ ready[i].st.miniRoundNumber >= ready[i].st.totalMiniRounds
  /\ SaveRoom(i, CreateGameOverState(ready[i].st), "gameOverSaved")
  /\ UNCHANGED <<timers, scoreboard, told>>

ClearRoomTimers(i) ==
  /\ Resumes(i, "gameOverSaved")
  /\ timers' = NoTimers
  /\ Finish(i)
  /\ UNCHANGED <<scoreboard, told>>

(***************************************************************************)
Request ==
  \E p \in PlayerIds :
    /\ room # NoRoom /\ p \in Connected(room)
    /\ \/ StartGame(p)
       \/ \E w \in Words : ChooseWord(p, w)
       \/ Guess(p)

TimerFires == WordSelectionTimeout \/ HintTimeout \/ DrawingTimeout \/ RoundEndTimeout

Resume ==
  \E i \in DOMAIN ready :
    \/ SaveFirstWordSelection(i) \/ SaveNextWordSelection(i) \/ ArmWordSelection(i)
    \/ SaveChosenWord(i) \/ SaveAutoSelectedWord(i) \/ ArmDrawing(i)
    \/ SaveGuess(i) \/ AnnounceGuess(i) \/ SaveHint(i)
    \/ SaveRoundEnd(i) \/ ArmRoundEnd(i)
    \/ SaveGameOver(i) \/ ClearRoomTimers(i)

Replies == Deliver /\ UNCHANGED <<timers, scoreboard, told>>

Next == Request \/ TimerFires \/ Replies \/ Resume

Spec == Init /\ [][Next]_vars

(* Redis answers, promises resolve and timers fire; nobody has to ask for  *)
(* anything.                                                               *)
Fairness ==
  /\ WF_vars(Replies)
  /\ WF_vars(Resume)
  /\ WF_vars(WordSelectionTimeout)
  /\ WF_vars(HintTimeout)
  /\ WF_vars(DrawingTimeout)
  /\ WF_vars(RoundEndTimeout)

FairSpec == Spec /\ Fairness
=============================================================================
