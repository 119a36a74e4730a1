-------------------------------- MODULE Game --------------------------------
(***************************************************************************)
(* What the server promises the players of a room about the course of a    *)
(* game, with no word of Redis, timers or handlers: it goes through a      *)
(* fixed number of rounds, each of which selects a word, is drawn and      *)
(* ends; the lead passes on at the end of a round, to a player who is      *)
(* present if there is one and to someone else if someone else is; a       *)
(* player guesses a word at most once and the leader never does; points    *)
(* are won by guessing and never lost; and game over is the end.           *)
(***************************************************************************)
EXTENDS Integers

CONSTANTS Players, MaxPoints

VARIABLES
  stage,    \* where the game stands
  round,    \* the number of the round
  total,    \* the number of rounds of the game
  leader,   \* who draws, or is going to
  present,  \* who is connected
  guessed,  \* who has guessed the word of the round
  points    \* the points of each player

gameVars == <<stage, round, total, leader, present, guessed, points>>

Init ==
  /\ stage = "lobby"
  /\ round = 0
  /\ total \in Nat
  /\ leader \in Players
  /\ present \in SUBSET Players
  /\ guessed = {}
  /\ points = [p \in Players |-> 0]

Start ==
  /\ stage = "lobby"
  /\ stage' = "word_selection" /\ round' = 1 /\ guessed' = {}
  /\ UNCHANGED <<total, leader, present, points>>

PickWord ==
  /\ stage = "word_selection"
  /\ stage' = "drawing" /\ guessed' = {}
  /\ UNCHANGED <<round, total, leader, present, points>>

(* Both the guesser and the leader gain from a guess.                      *)
GuessWord(p) ==
  /\ stage = "drawing"
  /\ p \in Players \ (guessed \cup {leader})
  /\ guessed' = guessed \cup {p}
  /\ \A q \in Players :
       IF q \in {p, leader}
       THEN points'[q] > points[q] /\ points'[q] <= points[q] + MaxPoints
       ELSE points'[q] = points[q]
  /\ UNCHANGED <<stage, round, total, leader, present>>

EndRound ==
  /\ stage = "drawing"
  /\ stage' = "round_end" /\ guessed' = {}
  /\ \/ leader' \in present /\ (present \ {leader} # {} => leader' # leader)
     \/ leader' = leader /\ present = {}
  /\ UNCHANGED <<round, total, present, points>>

NextRound ==
  /\ stage = "round_end" /\ round < total
  /\ stage' = "word_selection" /\ round' = round + 1
  /\ UNCHANGED <<total, leader, present, guessed, points>>

Finish ==
  /\ stage = "round_end" /\ round = total
  /\ stage' = "game_over"
  /\ UNCHANGED <<round, total, leader, present, guessed, points>>

Next ==
  \/ Start \/ PickWord \/ (\E p \in Players : GuessWord(p))
  \/ EndRound \/ NextRound \/ Finish

Spec == Init /\ [][Next]_gameVars
=============================================================================
