----------------------------- MODULE RoomState -----------------------------
(***************************************************************************)
(* The room record the server keeps in Redis under skribbl:room:<id>, and  *)
(* the pure functions that compute the next record from the one a handler  *)
(* has read (services/game/round/state, services/game/round/rules,         *)
(* repositories/room-repository.ts).                                       *)
(*                                                                         *)
(* Data is reduced to what the game's rules tell apart: a word is a value  *)
(* with a length, the mask is the number of letters still hidden, and the  *)
(* deadlines shown to the players (roundEndAt) are left out: the clock is  *)
(* an input of applyCorrectGuess.                                          *)
(***************************************************************************)
EXTENDS Integers, Sequences, FiniteSets, Scoring

CONSTANTS
  PlayerIds,        \* ids of the players that may be in the room
  Words,            \* the dictionary of the room's difficulty
  WordLength,       \* the number of letters of each word
  NoWord,           \* the empty string a room has before its first word
  RoundTimeSec,     \* settings.roundTimeSec
  RoundsCount,      \* settings.roundsCount
  WordChoicesCount, \* settings.wordChoicesCount
  HintsCount,       \* settings.hintsCount, copied to hintsTotal
  MaxPlayers        \* settings.maxPlayers

(* Between ROOM_MAX_PLAYERS_MIN and ROOM_MAX_PLAYERS_MAX (constants.ts).     *)
ASSUME SettingsAssumption ==
  /\ RoundTimeSec \in Nat \ {0}
  /\ RoundsCount \in Nat \ {0}
  /\ WordChoicesCount \in Nat \ {0}
  /\ HintsCount \in Nat
  /\ MaxPlayers \in 2..12

(* The shipped dictionary has 250 words per difficulty and a game at most  *)
(* 10 * 12 rounds of at most 5 options: it never runs out of words.        *)
ASSUME WordsAssumption ==
  /\ NoWord \notin Words
  /\ WordLength \in [Words -> Nat \ {0}]
  /\ IsFiniteSet(Words)
  /\ Cardinality(Words) >= RoundsCount * MaxPlayers + WordChoicesCount

Phases      == {"lobby", "in_game", "game_over"}
RoundPhases == {"word_selection", "drawing", "round_end"}

Player ==
  [ id : PlayerIds, score : Nat, isOwner : BOOLEAN, guessed : BOOLEAN,
    connectionStatus : {"connected", "disconnected"},
    role : {"drawing", "guessing"} ]

Room ==
  [ phase : Phases, roundPhase : RoundPhases,
    miniRoundNumber : Nat, totalMiniRounds : Nat,
    leaderPlayerId : PlayerIds,
    wordOptions : SUBSET Words, usedWords : SUBSET Words,
    word : Words \cup {NoWord}, wordMask : Nat, wordLength : Nat,
    hintsUsed : Nat, roundParticipantsCount : Nat,
    players : Seq(Player) ]

(***************************************************************************)
(* Reading a room.                                                         *)
(***************************************************************************)
Members(st) == {st.players[i].id : i \in DOMAIN st.players}

IsConnected(player) == player.connectionStatus = "connected"

Connected(st) ==
  {st.players[i].id : i \in {j \in DOMAIN st.players : IsConnected(st.players[j])}}

(* getCurrentPlayer: the entry of a player who is in the room.             *)
IndexOf(st, p) == CHOOSE i \in DOMAIN st.players : st.players[i].id = p
CurrentPlayer(st, p) == st.players[IndexOf(st, p)]

InPhase(st, roundPhase) == st.phase = "in_game" /\ st.roundPhase = roundPhase

(* What a score_update event shows, 0 for a player it does not list.       *)
ScoresOf(st) ==
  [p \in PlayerIds |-> IF p \in Members(st) THEN CurrentPlayer(st, p).score ELSE 0]

(***************************************************************************)
(* Rooms in the lobby.                                                     *)
(***************************************************************************)
CalculateTotalMiniRounds(playersCount) == RoundsCount * playersCount

NewPlayer(p, owner, status) ==
  [ id |-> p, score |-> 0, isOwner |-> owner, guessed |-> FALSE,
    connectionStatus |-> status, role |-> "guessing" ]

(* createInitialRoomState for the owner, who is order[1], followed by one  *)
(* createJoinedPlayerState for each of the others, in the order they join. *)
LobbyRoom(order, connected) ==
  [ phase |-> "lobby", roundPhase |-> "round_end",
    miniRoundNumber |-> 0,
    totalMiniRounds |-> CalculateTotalMiniRounds(Len(order)),
    leaderPlayerId |-> order[1],
    wordOptions |-> {}, usedWords |-> {}, word |-> NoWord,
    wordMask |-> 0, wordLength |-> 0, hintsUsed |-> 0,
    roundParticipantsCount |-> 1,
    players |-> [i \in 1..Len(order) |->
                   NewPlayer(order[i], i = 1,
                     IF order[i] \in connected THEN "connected" ELSE "disconnected")] ]

(***************************************************************************)
(* Words.                                                                  *)
(***************************************************************************)
(* Mutant: forgets to leave out the words already used.                    *)
WordOptionsFromAll(used) ==
  {options \in SUBSET Words : Cardinality(options) = WordChoicesCount}

(* getWordOptions: a random choice among the words not used so far, as     *)
(* many as the settings ask for if there are that many.                    *)
WordOptions(used) ==
  LET available == Words \ used
      count == IF WordChoicesCount <= Cardinality(available)
               THEN WordChoicesCount ELSE Cardinality(available)
  IN {options \in SUBSET available : Cardinality(options) = count}

(* pickRandom(wordOptions) ?? pickFallbackWord(): a word of the dictionary *)
(* when there is no option left.                                           *)
AutoSelectedWords(st) == IF st.wordOptions # {} THEN st.wordOptions ELSE Words

(* Mutant: reveals the last hidden letter too.                             *)
RevealHintToTheEnd(mask) == IF mask = 0 THEN mask ELSE mask - 1

(* makeMask hides every letter; revealHint shows one more letter unless    *)
(* that would leave none hidden.                                           *)
MakeMask(word) == WordLength[word]
RevealHint(mask) == IF mask <= 1 THEN mask ELSE mask - 1

(***************************************************************************)
(* Phases.                                                                 *)
(***************************************************************************)
(* The role a transition gives to a player, from the leader it writes.     *)
RoleUnder(leader, p) == IF p = leader THEN "drawing" ELSE "guessing"

(* buildDrawingState, and the same map inside createWordSelectionState.    *)
ResetPlayers(st) ==
  [i \in DOMAIN st.players |->
     [st.players[i] EXCEPT !.guessed = FALSE,
                           !.role = RoleUnder(st.leaderPlayerId, st.players[i].id)]]

CreateWordSelectionState(st, options) ==
  [st EXCEPT !.phase = "in_game", !.roundPhase = "word_selection",
             !.miniRoundNumber = IF @ = 0 THEN 1 ELSE @,
             !.wordOptions = options, !.usedWords = {},
             !.wordMask = 0, !.wordLength = 0, !.hintsUsed = 0,
             !.players = ResetPlayers(st)]

CreateDrawingState(st, chosen) ==
  [st EXCEPT !.phase = "in_game", !.roundPhase = "drawing",
             !.word = chosen, !.usedWords = @ \cup {chosen},
             !.wordOptions = {},
             !.wordMask = MakeMask(chosen), !.wordLength = WordLength[chosen],
             !.hintsUsed = 0,
             !.roundParticipantsCount =
                Cardinality({i \in DOMAIN st.players : IsConnected(st.players[i])}),
             !.players = ResetPlayers(st)]

CreateNextWordSelectionState(st, options) ==
  [st EXCEPT !.phase = "in_game", !.roundPhase = "word_selection",
             !.miniRoundNumber = @ + 1,
             !.wordOptions = options,
             !.wordMask = 0, !.wordLength = 0, !.hintsUsed = 0]

(* Mutants: takes the first connected player of the array; passes the lead *)
(* on without a look at who is connected.                                  *)
FirstConnected(st) ==
  LET connected == {i \in DOMAIN st.players : IsConnected(st.players[i])}
  IN IF connected = {} THEN st.leaderPlayerId
     ELSE st.players[CHOOSE i \in connected : \A j \in connected : i <= j].id

NextInOrder(st) ==
  st.players[(IndexOf(st, st.leaderPlayerId) % Len(st.players)) + 1].id

(* getNextLeaderPlayerId: the next connected player after the leader, in   *)
(* the order of the array and around its end; the leader itself when it is *)
(* the only one connected, or nobody is, or it is no longer in the array.  *)
NextLeader(st) ==
  LET n == Len(st.players)
      current == IndexOf(st, st.leaderPlayerId)
      at(offset) == ((current - 1 + offset) % n) + 1
      candidates == {k \in 1..n : IsConnected(st.players[at(k)])}
      nearest == CHOOSE k \in candidates : \A j \in candidates : k <= j
  IN IF st.leaderPlayerId \notin Members(st) \/ candidates = {}
     THEN st.leaderPlayerId
     ELSE st.players[at(nearest)].id

CreateRoundEndState(st) ==
  LET next == NextLeader(st)
  IN [st EXCEPT !.roundPhase = "round_end",
                !.leaderPlayerId = next,
                !.players = [i \in DOMAIN st.players |->
                   [st.players[i] EXCEPT !.role = RoleUnder(next, st.players[i].id)]]]

CreateGameOverState(st) ==
  [st EXCEPT !.phase = "game_over", !.roundPhase = "round_end"]

(***************************************************************************)
(* Guesses and hints.                                                      *)
(***************************************************************************)
(* The place of a correct guess among those of the round.                  *)
Position(st) ==
  Cardinality({i \in DOMAIN st.players :
                 st.players[i].guessed /\ st.players[i].id # st.leaderPlayerId}) + 1

(* Mutant: gives the points but does not set the flag.                     *)
ApplyGuessUnflagged(st, p, remaining) ==
  [st EXCEPT !.players[IndexOf(st, p)].score =
     @ + GuesserScore(remaining, RoundTimeSec, st.hintsUsed, Position(st))]

(* applyCorrectGuess with the clock at "remaining" seconds.                *)
ApplyCorrectGuess(st, p, remaining) ==
  LET awarded == GuesserScore(remaining, RoundTimeSec, st.hintsUsed, Position(st))
      contribution ==
        LeaderContribution(remaining, RoundTimeSec, st.roundParticipantsCount)
      credited(player) ==
        IF player.id = p
        THEN [player EXCEPT !.score = @ + awarded, !.guessed = TRUE]
        ELSE IF player.id = st.leaderPlayerId
        THEN [player EXCEPT !.score = @ + contribution]
        ELSE player
  IN [st EXCEPT !.players = [i \in DOMAIN st.players |-> credited(st.players[i])]]

(* Mutant: waits for the players who are disconnected, too.                *)
EverybodyFinished(st) ==
  \A i \in DOMAIN st.players :
    st.players[i].id # st.leaderPlayerId => st.players[i].guessed

(* areAllGuessersFinished.                                                 *)
AllGuessersFinished(st) ==
  LET guessers == {i \in DOMAIN st.players :
                     st.players[i].id # st.leaderPlayerId /\ IsConnected(st.players[i])}
  IN guessers # {} /\ \A i \in guessers : st.players[i].guessed

(* The next hint of handleHintTimeout.                                     *)
ApplyHint(st) == [st EXCEPT !.wordMask = RevealHint(@), !.hintsUsed = @ + 1]
=============================================================================
