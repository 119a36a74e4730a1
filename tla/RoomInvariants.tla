--------------------------- MODULE RoomInvariants ---------------------------
(***************************************************************************)
(* What is true of every room record the game engine computes from a lobby *)
(* room, whichever copy of the record it computes it from.                 *)
(***************************************************************************)
EXTENDS RoomState

Playing(st) == st.phase = "in_game"

GuessersWhoGuessed(st) ==
  {st.players[i].id : i \in {j \in DOMAIN st.players :
     st.players[j].guessed /\ st.players[j].id # st.leaderPlayerId}}

ConnectedGuessers(st) == Connected(st) \ {st.leaderPlayerId}

(* The round number is 0 in the lobby, between 1 and the number of rounds  *)
(* during a game, and has reached that number when the game is over.       *)
RoundNumberOK(st) ==
  /\ st.phase = "lobby" => st.miniRoundNumber = 0
  /\ st.phase = "in_game" => st.miniRoundNumber \in 1..st.totalMiniRounds
  /\ st.phase = "game_over" => st.miniRoundNumber = st.totalMiniRounds

(* Every round that has been drawn has used up a word of its own, and the  *)
(* leader who chooses has as many unused words before him as the settings  *)
(* say.                                                                    *)
WordsFresh(st) ==
  Playing(st) =>
    IF st.roundPhase = "word_selection"
    THEN /\ Cardinality(st.usedWords) = st.miniRoundNumber - 1
         /\ st.wordOptions \cap st.usedWords = {}
         /\ Cardinality(st.wordOptions) = WordChoicesCount
    ELSE /\ Cardinality(st.usedWords) = st.miniRoundNumber
         /\ st.word \in st.usedWords

(* The mask of a word being drawn hides at least one letter, and shows as  *)
(* many as hints were counted.                                             *)
MaskMatchesHints(st) ==
  InPhase(st, "drawing") =>
    /\ st.wordMask >= 1
    /\ st.hintsUsed + st.wordMask = WordLength[st.word]

(* The role of a player says whether he is the leader, and the leader of a *)
(* word being drawn has not guessed it.                                    *)
LeaderOnlyDraws(st) ==
  Playing(st) =>
    \A i \in DOMAIN st.players :
      /\ st.players[i].role = RoleUnder(st.leaderPlayerId, st.players[i].id)
      /\ InPhase(st, "drawing") /\ st.players[i].id = st.leaderPlayerId
           => ~st.players[i].guessed

(* A game has at least one round, and no more than the dictionary lasts.   *)
GameLengthOK(st) == st.totalMiniRounds \in 1..(RoundsCount * MaxPlayers)

(* All of it, for a well-formed record: each transition turns a record of  *)
(* this kind into another one.                                             *)
RoomOK(st) ==
  /\ st \in Room
  /\ GameLengthOK(st)
  /\ RoundNumberOK(st)
  /\ WordsFresh(st)
  /\ MaskMatchesHints(st)
  /\ LeaderOnlyDraws(st)
=============================================================================
