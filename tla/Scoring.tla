------------------------------ MODULE Scoring ------------------------------
(***************************************************************************)
(* Points for a correct guess (services/game/round/rules/game-scoring.ts). *)
(* The code multiplies doubles; here every factor is an integer and the    *)
(* rounding of Math.round is a division, so that the two agree on every    *)
(* input the game can produce: 0..5 hints, positions 1.., participants     *)
(* 1..12.  Times are whole seconds; the code compares the share of the     *)
(* round that has passed with 1/4, 1/2, 3/4 (guesser) and 1/3, 2/3         *)
(* (leader), which needs no division.                                      *)
(***************************************************************************)
EXTENDS Integers

(* The part of the round that has passed, in units of 1/roundTime, clamped *)
(* to the interval from 0 to the whole round.                              *)
RoundProgress(remaining, roundTime) ==
  IF remaining >= roundTime THEN 0
  ELSE IF remaining <= 0 THEN roundTime
  ELSE roundTime - remaining

(* Tenths: 1, 0.8, 0.6, 0.4.                                               *)
GuesserTimeFactor(progress, roundTime) ==
  IF 4 * progress < roundTime THEN 10
  ELSE IF 2 * progress < roundTime THEN 8
  ELSE IF 4 * progress < 3 * roundTime THEN 6 ELSE 4

(* Tenths: 1 for the first correct guess, then 0.9, 0.8 and 0.7.           *)
GuesserPositionBonus(position) ==
  IF position <= 1 THEN 10
  ELSE IF position = 2 THEN 9
  ELSE IF position = 3 THEN 8 ELSE 7

(* Twentieths: every hint takes 0.05 off.                                  *)
HintPenaltyFactor(hintsUsed) == IF hintsUsed >= 20 THEN 0 ELSE 20 - hintsUsed

(* In two cases the exact product ends in one half and the double the code *)
(* computes lies just below it, so Math.round goes down: 59.5 and 31.5.    *)
RoundsDown(timeFactor, hintsUsed, bonus) ==
  /\ bonus = 7
  /\ \/ timeFactor = 10 /\ hintsUsed = 3
     \/ timeFactor = 6  /\ hintsUsed = 5

(* calculateGuesserScore: 100 times the three factors, rounded, in 5..100. *)
GuesserScore(remaining, roundTime, hintsUsed, position) ==
  LET tf  == GuesserTimeFactor(RoundProgress(remaining, roundTime), roundTime)
      pb  == GuesserPositionBonus(position)
      raw == (2 * tf * HintPenaltyFactor(hintsUsed) * pb + 20) \div 40
      rounded == IF RoundsDown(tf, hintsUsed, pb) THEN raw - 1 ELSE raw
  IN IF rounded < 5 THEN 5 ELSE IF rounded > 100 THEN 100 ELSE rounded

(* Tenths: 1, 0.7, 0.5 by thirds of the round.                             *)
LeaderTimeFactor(progress, roundTime) ==
  IF 3 * progress < roundTime THEN 10
  ELSE IF 3 * progress < 2 * roundTime THEN 7 ELSE 5

(* calculateLeaderContribution: a share of 100 points per participant,     *)
(* scaled by time and rounded half up.                                     *)
LeaderContribution(remaining, roundTime, participants) ==
  LET tf == LeaderTimeFactor(RoundProgress(remaining, roundTime), roundTime)
      n  == IF participants < 1 THEN 1 ELSE participants
  IN (20 * tf + n) \div (2 * n)
=============================================================================
