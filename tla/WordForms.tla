------------------------------ MODULE WordForms ------------------------------
(***************************************************************************)
(* areNearWordForms (services/word-service/word-dictionary.ts): a server   *)
(* whose dictionary holds two near forms of one word does not start.  The  *)
(* loop walks two words in step and counts the edits between them; at the  *)
(* end is a definition of what it is to find out.                          *)
(*                                                                         *)
(* A word is the sequence of its letters after normalizeWord.              *)
(***************************************************************************)
EXTENDS Integers, Sequences, SequencesExt

CONSTANTS
  Letters,
  MinLength,    \* shorter words are told apart whatever they have in common
  PrefixLength, \* letters that two forms of a word must share
  MaxLength     \* bound on the words compared

ASSUME FormsAssumption ==
  /\ MinLength \in Nat /\ PrefixLength \in Nat /\ MaxLength \in Nat
  /\ PrefixLength <= MinLength

VARIABLES
  leftWord, rightWord,
  leftIndex, rightIndex, edits,
  verdict       \* "near" or "apart" once the function has returned

formsVars == <<leftWord, rightWord, leftIndex, rightIndex, edits, verdict>>

Verdicts == {"open", "near", "apart"}

FormsTypeOK ==
  /\ leftWord \in Seq(Letters) /\ rightWord \in Seq(Letters)
  /\ leftIndex \in 0..Len(leftWord) /\ rightIndex \in 0..Len(rightWord)
  /\ edits \in Nat
  /\ verdict \in Verdicts

ComparedWords == BoundedSeq(Letters, MaxLength)

FormsInit ==
  /\ leftWord \in ComparedWords /\ rightWord \in ComparedWords
  /\ leftIndex = 0 /\ rightIndex = 0
  /\ edits = 0
  /\ verdict = "open"

Abs(n) == IF n < 0 THEN -n ELSE n

(* Words the loop need not look at.                                        *)
TooShort == Len(leftWord) < MinLength \/ Len(rightWord) < MinLength
OtherPrefix == SubSeq(leftWord, 1, PrefixLength) # SubSeq(rightWord, 1, PrefixLength)
TooFarInLength == Abs(Len(leftWord) - Len(rightWord)) > 1
Compared == leftWord # rightWord /\ ~TooShort /\ ~OtherPrefix /\ ~TooFarInLength

Return(v) ==
  /\ verdict' = v
  /\ UNCHANGED <<leftWord, rightWord, leftIndex, rightIndex, edits>>

JudgeAtOnce ==
  /\ verdict = "open"
  /\ ~Compared
  /\ Return(IF leftWord = rightWord THEN "near" ELSE "apart")

InBothWords == leftIndex < Len(leftWord) /\ rightIndex < Len(rightWord)

SameLetter ==
  /\ verdict = "open" /\ Compared
  /\ InBothWords
  /\ leftWord[leftIndex + 1] = rightWord[rightIndex + 1]
  /\ leftIndex' = leftIndex + 1 /\ rightIndex' = rightIndex + 1
  /\ UNCHANGED <<leftWord, rightWord, edits, verdict>>

(* Mutant: a letter too many in one word is taken for another letter.      *)
OtherLetterInStep ==
  /\ verdict = "open" /\ Compared
  /\ InBothWords
  /\ leftWord[leftIndex + 1] # rightWord[rightIndex + 1]
  /\ edits' = edits + 1
  /\ IF edits' > 1
     THEN verdict' = "apart" /\ UNCHANGED <<leftIndex, rightIndex>>
     ELSE /\ leftIndex' = leftIndex + 1 /\ rightIndex' = rightIndex + 1
          /\ UNCHANGED verdict
  /\ UNCHANGED <<leftWord, rightWord>>

(* An edit: a letter too many in the longer word, or another letter.       *)
OtherLetter ==
  /\ verdict = "open" /\ Compared
  /\ InBothWords
  /\ leftWord[leftIndex + 1] # rightWord[rightIndex + 1]
  /\ edits' = edits + 1
  /\ IF edits' > 1
     THEN verdict' = "apart" /\ UNCHANGED <<leftIndex, rightIndex>>
     ELSE /\ leftIndex' = IF Len(leftWord) >= Len(rightWord) THEN leftIndex + 1 ELSE leftIndex
          /\ rightIndex' = IF Len(leftWord) <= Len(rightWord) THEN rightIndex + 1 ELSE rightIndex
          /\ UNCHANGED verdict
  /\ UNCHANGED <<leftWord, rightWord>>

(* Letters left over at the end of one word are one more edit.             *)
ReachEnd ==
  /\ verdict = "open" /\ Compared
  /\ ~InBothWords
  /\ LET leftOver == leftIndex < Len(leftWord) \/ rightIndex < Len(rightWord)
         total == IF leftOver THEN edits + 1 ELSE edits
     IN Return(IF total <= 1 THEN "near" ELSE "apart")

FormsNext == JudgeAtOnce \/ SameLetter \/ OtherLetter \/ ReachEnd

FormsSpec == FormsInit /\ [][FormsNext]_formsVars

(***************************************************************************)
(* Two words are forms of one word if they are equal, or long enough, with *)
(* a common beginning, and one comes from the other by replacing or        *)
(* leaving out one letter.                                                 *)
(***************************************************************************)
OneLetterReplaced(v, w) ==
  Len(v) = Len(w) /\ \E k \in DOMAIN v : \A n \in DOMAIN v \ {k} : v[n] = w[n]

OneLetterLeftOut(v, w) == \E k \in DOMAIN v : w = RemoveAt(v, k)

NearForms(v, w) ==
  \/ v = w
  \/ /\ Len(v) >= MinLength /\ Len(w) >= MinLength
     /\ SubSeq(v, 1, PrefixLength) = SubSeq(w, 1, PrefixLength)
     /\ OneLetterReplaced(v, w) \/ OneLetterLeftOut(v, w) \/ OneLetterLeftOut(w, v)

(* The loop finds out exactly that, whichever word comes first.            *)
VerdictIsRight ==
  verdict # "open" => (verdict = "near") = NearForms(leftWord, rightWord)
=============================================================================
