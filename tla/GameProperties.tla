--------------------------- MODULE GameProperties ---------------------------
(***************************************************************************)
(* What the game engine guarantees, and what it does not.  The first group *)
(* holds whatever the handlers do to each other's writes: it is a property *)
(* of every copy of the room that exists.  The second holds as long as no  *)
(* write has replaced a record its handler had not seen (lostUpdate).      *)
(***************************************************************************)
EXTENDS GameEngine, RoomInvariants

RoomCopies == IF room = NoRoom THEN Copies ELSE Copies \cup {room}

(***************************************************************************)
(* Every copy of the room, whatever was overwritten.                       *)
(***************************************************************************)
(* No word is drawn twice in a game and the leader always has new words to *)
(* choose from (createDrawingState, getWordOptions).                       *)
NoWordTwice == \A st \in RoomCopies : WordsFresh(st)

(* The hints never give the whole word away, and the score is computed     *)
(* with the number of hints the mask shows (handleHintTimeout).            *)
HintsNeverRevealTheWord == \A st \in RoomCopies : MaskMatchesHints(st)

(* Whoever draws is the leader and has not guessed the word, through every *)
(* change of leader (createRoundEndState, handleGuess).                    *)
LeaderNeverGuesses == \A st \in RoomCopies : LeaderOnlyDraws(st)

(* The round number stays within the game, and the game is over only after *)
(* its last round (handleRoundEndTimeout).                                 *)
OverOnlyAfterTheLastRound == \A st \in RoomCopies : RoundNumberOK(st)

(* With everybody connected the lead goes round in the order the players   *)
(* joined, once per round, so that in a whole game each of them leads      *)
(* roundsCount times; at the end of a round the next leader is already in  *)
(* place (getNextLeaderPlayerId, calculateTotalMiniRounds).                *)
LeaderOfRound(k) == JoinOrder[((k - 1) % Len(JoinOrder)) + 1]

LeadGoesRound ==
  \A st \in RoomCopies :
    st.phase # "lobby" /\ Connected(st) = Members(st) =>
      st.leaderPlayerId =
        LeaderOfRound(IF st.roundPhase = "round_end"
                      THEN st.miniRoundNumber + 1 ELSE st.miniRoundNumber)

(* What a handler may rely on after its await: the room it has read or     *)
(* written is well formed and was in the phase it checked, whatever has    *)
(* become of the room in Redis.                                            *)
ReliesOn(h) ==
  /\ h.pc = "startGame" => h.st.phase = "lobby"
  /\ h.pc \in {"chooseWord", "wordSelectionTimeout"} => InPhase(h.st, "word_selection")
  /\ h.pc = "chooseWord" => h.word \in h.st.wordOptions
  /\ h.pc \in {"guess", "guessSaved", "hintTimeout", "drawingTimeout"}
       => InPhase(h.st, "drawing")
  /\ h.pc = "guess" =>
       /\ h.who \in Members(h.st) \ {h.st.leaderPlayerId}
       /\ ~CurrentPlayer(h.st, h.who).guessed
  /\ h.pc = "guessSaved" => h.who \in GuessersWhoGuessed(h.st)
  /\ h.pc = "hintTimeout" => RevealHint(h.st.wordMask) # h.st.wordMask
  /\ h.pc = "wordSelectionSaved" => InPhase(h.st, "word_selection")
  /\ h.pc = "drawingSaved" => InPhase(h.st, "drawing")
  /\ h.pc \in {"roundEndSaved", "roundEndTimeout"} => InPhase(h.st, "round_end")
  /\ h.pc = "gameOverSaved" => h.st.phase = "game_over"

HandlerOK(h) == h \in Handler /\ RoomOK(h.st) /\ ReliesOn(h)

StoreOK ==
  /\ StoreTypeOK
  /\ room # NoRoom => RoomOK(room)
  /\ \A i \in DOMAIN queue : HandlerOK(queue[i])
  /\ \A i \in DOMAIN ready : HandlerOK(ready[i])

(* The inductive invariant: every copy of the room is well formed, and     *)
(* every handler in flight holds one that its next step can start from.    *)
CopiesOK == TypeOK /\ StoreOK

(***************************************************************************)
(* As long as no update has been lost.                                     *)
(***************************************************************************)
(* A room at rest in a game has the timer of its phase pending, set for    *)
(* the round it is in: without it the game would hang.  No timer that ends *)
(* a drawing or a pause is pending in another phase, where it could cut    *)
(* the next one short; a leader quick enough to choose before the server   *)
(* has armed the choice's timeout leaves that timer behind, but only until *)
(* the next choice.  Out of a game nothing is pending.                     *)
TimerOfPhase ==
  [word_selection |-> "wordSelection", drawing |-> "drawing", round_end |-> "roundEnd"]

AtRestTheRightTimerIsPending ==
  ~lostUpdate /\ NobodyInFlight =>
    IF Playing(room)
    THEN /\ timers[TimerOfPhase[room.roundPhase]] = room.miniRoundNumber
         /\ timers.drawing # 0 => room.roundPhase = "drawing"
         /\ timers.roundEnd # 0 => room.roundPhase = "round_end"
         /\ timers.hints.pending # 0 =>
              /\ room.roundPhase = "drawing"
              /\ timers.hints.miniRound = room.miniRoundNumber
    ELSE timers = NoTimers

(* Hints given, hints on their way and hints still to come never add up to *)
(* more than the room was set up with, however the handlers of the hint    *)
(* timers interleave with those of the guesses.                            *)
HintsInFlight ==
  Cardinality({i \in DOMAIN queue : queue[i].pc = "hintTimeout"})
  + Cardinality({i \in DOMAIN ready : ready[i].pc = "hintTimeout"})

HintBudget ==
  ~lostUpdate /\ InPhase(room, "drawing") =>
    room.hintsUsed + HintsInFlight + timers.hints.pending <= HintsCount

(* A player who was told "correct" is recorded as having guessed, and the  *)
(* points every player was shown are in the room's record.                 *)
AnnouncedIsRecorded ==
  ~lostUpdate =>
    /\ \A p \in PlayerIds : scoreboard[p] <= ScoresOf(room)[p]
    /\ InPhase(room, "drawing") /\ timers.drawing # 0 =>
         told \subseteq GuessersWhoGuessed(room)

(* Once every connected guesser has been told "correct" and everything in  *)
(* flight has ended, the round is over: as long as nobody leaves it.       *)
RoundOverOnceAllGuessed ==
  NobodyInFlight /\ room # NoRoom /\ InPhase(room, "drawing") =>
    ConnectedGuessers(room) = {} \/ ~(ConnectedGuessers(room) \subseteq told)

RoundOverOnceAllGuessedUnlessLost == lostUpdate \/ RoundOverOnceAllGuessed

(* As long as no update is lost, the engine runs the game of module Game.  *)
Abstract == INSTANCE Game WITH
  Players   <- PlayerIds,
  MaxPoints <- 100,
  stage     <- IF room.phase = "in_game" THEN room.roundPhase ELSE room.phase,
  round     <- room.miniRoundNumber,
  total     <- room.totalMiniRounds,
  leader    <- room.leaderPlayerId,
  present   <- Connected(room),
  guessed   <- IF InPhase(room, "drawing") THEN GuessersWhoGuessed(room) ELSE {},
  points    <- ScoresOf(room)

RefinesGame ==
  /\ Abstract!Init
  /\ [][Abstract!Next \/ lostUpdate']_(Abstract!gameVars)

(***************************************************************************)
(* What the tests and comments of the code say without that reservation:   *)
(* both fail when two handlers overlap.                                    *)
(***************************************************************************)
(* A correct guess is credited: once everything in flight has ended, each  *)
(* player who was told "correct" in this drawing is down in the record as  *)
(* having guessed, and has points.                                         *)
CorrectGuessIsCredited ==
  NobodyInFlight /\ InPhase(room, "drawing") =>
    \A p \in told : p \in GuessersWhoGuessed(room) /\ ScoresOf(room)[p] > 0

(* The timers carry a game through its phases to game_over.                *)
GameReachesGameOver == room.phase = "in_game" ~> room.phase = "game_over"
=============================================================================
