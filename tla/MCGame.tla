------------------------------- MODULE MCGame -------------------------------
(***************************************************************************)
(* Small instances of the game engine for TLC.                             *)
(***************************************************************************)
EXTENDS GameProperties

CONSTANTS p1, p2, p3, w1, w2, w3, w4, w5

ThreePlayers == {p1, p2, p3}
ThreeInOrder == <<p1, p2, p3>>

FourWords == {w1, w2, w3, w4}
FiveWords == {w1, w2, w3, w4, w5}

(* Of three letters two hints leave one, of two letters one does.          *)
AllOfThreeLetters == [w \in Words |-> 3]
AllOfTwoLetters   == [w \in Words |-> 2]

WordSymmetry == Permutations(Words)

(* A reading of the clock, seconds before the end of a round of 60.        *)
Midway == {30}

HandlersInFlight == Len(queue) + Len(ready)

(* What comes of a lost update is explored while two are connected and two *)
(* handlers are in flight; three are in flight until the second word is    *)
(* chosen, and two after that.                                             *)
SecondWordToCome ==
  \/ room.miniRoundNumber <= 1
  \/ room.miniRoundNumber = 2 /\ InPhase(room, "word_selection")

Explored ==
  /\ lostUpdate => Cardinality(Connected(room)) = 2 /\ HandlersInFlight <= 2
  /\ HandlersInFlight > 2 => SecondWordToCome
=============================================================================
