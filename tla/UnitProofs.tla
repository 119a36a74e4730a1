----------------------------- MODULE UnitProofs -----------------------------
(***************************************************************************)
(* Two parts that stand alone: what the client guarantees however many     *)
(* attempts it is allowed, and that the comparison of two words finds out  *)
(* what it is meant to, for words of any length.                           *)
(***************************************************************************)
EXTENDS GameSocketClient, WordForms, SequenceTheorems, TLAPS

(***************************************************************************)
(* The client's connection.                                                *)
(***************************************************************************)

(* An open connection has begun counting afresh, so that losing it never   *)
(* finds the attempts used up.                                             *)
ClientInv ==
  /\ ClientTypeOK
  /\ StaysAway
  /\ link = "open" => reconnectAttempts = 0

LEMMA ClientInvInit == ClientInit => ClientInv
<1> SUFFICES ASSUME ClientInit PROVE ClientInv
  OBVIOUS
<1>1. reconnectAttempts \in 0..MaxReconnectAttempts
  BY AttemptsAssumption DEF ClientInit
<1> QED
  BY <1>1, Zenon DEF ClientInit, ClientInv, ClientTypeOK, StaysAway

LEMMA ClientInvStep ==
  ASSUME ClientInv, [ClientNext]_clientVars
  PROVE  ClientInv'
<1> USE AttemptsAssumption DEF ClientInv, ClientTypeOK, StaysAway
<1>1. CASE ConnectAndJoin
  BY <1>1 DEF ConnectAndJoin, Connect
<1>2. CASE Disconnect
  BY <1>2 DEF Disconnect
<1>3. CASE OnConnect
  BY <1>3 DEF OnConnect
<1>4. CASE OnConnectError
  BY <1>4 DEF OnConnectError
<1>5. CASE OnDisconnect
  <2>1. reconnectAttempts = 0 /\ reconnectAttempts < MaxReconnectAttempts
    BY <1>5 DEF OnDisconnect
  <2>2. pendingJoin /\ ~(reconnectAttempts >= MaxReconnectAttempts)
    BY <1>5, <2>1 DEF OnDisconnect
  <2>3. /\ link' = "closed" /\ state' = "idle" /\ pendingJoin'
        /\ reconnectAttempts' = reconnectAttempts + 1
    BY <1>5, <2>2 DEF OnDisconnect
  <2>4. reconnectTimer' \in BOOLEAN
    BY <1>5, <2>2, Zenon DEF OnDisconnect
  <2>5. reconnectAttempts' \in 0..MaxReconnectAttempts
    BY <2>1, <2>3
  <2>6. pendingJoin' \in BOOLEAN
    BY <1>5, Zenon DEF OnDisconnect
  <2> QED
    BY <2>3, <2>4, <2>5, <2>6
<1>6. CASE ReconnectDelayEnds
  BY <1>6 DEF ReconnectDelayEnds, Connect
<1>7. CASE UNCHANGED clientVars
  BY <1>7 DEF clientVars
<1> QED
  BY <1>1, <1>2, <1>3, <1>4, <1>5, <1>6, <1>7 DEF ClientNext

LEMMA ClientInvHolds == ClientSpec => []ClientInv
<1> QED
  BY ClientInvInit, ClientInvStep, PTL DEF ClientSpec

(* A client that was told to disconnect is not brought back by a timer or  *)
(* an attempt that was under way.                                          *)
THEOREM ClientStaysAway == ClientSpec => []StaysAway
<1>1. ClientInv => StaysAway
  BY DEF ClientInv
<1> QED
  BY <1>1, ClientInvHolds, PTL

(***************************************************************************)
(* The comparison of words.                                                *)
(***************************************************************************)
LEMMA LettersAfterLeavingOut ==
  ASSUME NEW v \in Seq(Letters), NEW k \in DOMAIN v
  PROVE  /\ Len(RemoveAt(v, k)) = Len(v) - 1
         /\ \A n \in 1..(Len(v) - 1) : RemoveAt(v, k)[n] = IF n < k THEN v[n] ELSE v[n + 1]
<1> DEFINE front == SubSeq(v, 1, k - 1)
           back == SubSeq(v, k + 1, Len(v))
<1>1. k \in 1..Len(v) /\ Len(v) \in Nat
  BY LenProperties
<1>2. \A n \in 1..Len(v) : v[n] \in Letters
  BY ElementOfSeq
<1>3. /\ front \in Seq(Letters) /\ Len(front) = k - 1
      /\ \A n \in 1..(k - 1) : front[n] = v[n]
  <2>1. \A n \in 1..(k - 1) : v[n] \in Letters
    BY <1>1, <1>2
  <2>2. /\ front \in Seq(Letters)
        /\ Len(front) = IF 1 <= k - 1 THEN (k - 1) - 1 + 1 ELSE 0
        /\ \A n \in 1..((k - 1) - 1 + 1) : front[n] = v[1 + n - 1]
    BY <1>1, <2>1, SubSeqProperties
  <2> HIDE DEF front
  <2>3. Len(front) = k - 1
    BY <1>1, <2>2
  <2>4. ASSUME NEW n \in 1..(k - 1) PROVE front[n] = v[n]
    <3>1. n \in 1..((k - 1) - 1 + 1) /\ 1 + n - 1 = n
      BY <1>1
    <3> QED
      BY <2>2, <3>1
  <2> QED
    BY <2>2, <2>3, <2>4
<1>4. /\ back \in Seq(Letters) /\ Len(back) = Len(v) - k
      /\ \A n \in 1..(Len(v) - k) : back[n] = v[k + n]
  <2>1. \A n \in (k + 1)..Len(v) : v[n] \in Letters
    BY <1>1, <1>2
  <2>2. /\ back \in Seq(Letters)
        /\ Len(back) = IF k + 1 <= Len(v) THEN Len(v) - (k + 1) + 1 ELSE 0
        /\ \A n \in 1..(Len(v) - (k + 1) + 1) : back[n] = v[(k + 1) + n - 1]
    BY <1>1, <2>1, SubSeqProperties
  <2> HIDE DEF back
  <2> QED
    BY <1>1, <2>2
<1>5. RemoveAt(v, k) = front \o back
  BY DEF RemoveAt
<1> HIDE DEF front, back
<1>6. /\ Len(front \o back) = Len(front) + Len(back)
      /\ \A n \in 1..(Len(front) + Len(back)) :
           (front \o back)[n] = IF n <= Len(front) THEN front[n] ELSE back[n - Len(front)]
  BY <1>3, <1>4, ConcatProperties
<1>7. Len(front \o back) = Len(v) - 1
  BY <1>1, <1>3, <1>4, <1>6
<1>8. ASSUME NEW n \in 1..(Len(v) - 1)
      PROVE  (front \o back)[n] = IF n < k THEN v[n] ELSE v[n + 1]
  <2>1. n \in 1..(Len(front) + Len(back)) /\ (n <= Len(front) <=> n < k)
    BY <1>1, <1>3, <1>4
  <2>2. CASE n < k
    BY <1>1, <1>3, <1>6, <2>1, <2>2
  <2>3. CASE ~(n < k)
    <3>1. n - Len(front) \in 1..(Len(v) - k) /\ k + (n - Len(front)) = n + 1
      BY <1>1, <1>3, <2>3
    <3> QED
      BY <1>4, <1>6, <2>1, <2>3, <3>1
  <2> QED
    BY <2>2, <2>3
<1> QED
  BY <1>5, <1>7, <1>8

LEMMA IsLeftOut ==
  ASSUME NEW v \in Seq(Letters), NEW w \in Seq(Letters), NEW k \in DOMAIN v,
         Len(w) = Len(v) - 1,
         \A n \in 1..(k - 1) : w[n] = v[n],
         \A n \in k..Len(w) : w[n] = v[n + 1]
  PROVE  OneLetterLeftOut(v, w)
<1>1. k \in 1..Len(v) /\ Len(v) \in Nat /\ Len(w) \in Nat
  BY LenProperties
<1>2. ASSUME NEW n \in 1..Len(w) PROVE w[n] = RemoveAt(v, k)[n]
  <2>1. RemoveAt(v, k)[n] = IF n < k THEN v[n] ELSE v[n + 1]
    BY LettersAfterLeavingOut
  <2>2. n < k => n \in 1..(k - 1)
    BY <1>1
  <2>3. ~(n < k) => n \in k..Len(w)
    BY <1>1
  <2> QED
    BY <2>1, <2>2, <2>3
<1>3. Len(w) = Len(RemoveAt(v, k))
  BY LettersAfterLeavingOut
<1>4. RemoveAt(v, k) \in Seq(Letters)
  <2>1. SubSeq(v, 1, k - 1) \in Seq(Letters) /\ SubSeq(v, k + 1, Len(v)) \in Seq(Letters)
    BY <1>1
  <2> QED
    BY <2>1 DEF RemoveAt
<1>5. w = RemoveAt(v, k)
  BY <1>2, <1>3, <1>4, SeqEqual
<1> QED
  BY <1>5 DEF OneLetterLeftOut

(* Two differences: the letter left out is before the first one, and after *)
(* it the words agree with a shift.                                        *)
LEMMA IsNotLeftOut ==
  ASSUME NEW v \in Seq(Letters), NEW w \in Seq(Letters),
         Len(w) = Len(v) - 1,
         NEW k \in DOMAIN w, NEW m \in k..Len(w), v[k] # w[k], w[m] # v[m + 1]
  PROVE  ~OneLetterLeftOut(v, w)
<1> SUFFICES ASSUME NEW r \in DOMAIN v, w = RemoveAt(v, r)
             PROVE  FALSE
  BY DEF OneLetterLeftOut
<1>1. /\ r \in 1..Len(v) /\ k \in 1..Len(w) /\ Len(v) \in Nat /\ Len(w) \in Nat
      /\ m \in 1..Len(w)
  BY LenProperties
<1>2. \A n \in 1..Len(w) : w[n] = IF n < r THEN v[n] ELSE v[n + 1]
  BY LettersAfterLeavingOut
<1>3. r <= k
  BY <1>1, <1>2
<1> QED
  BY <1>1, <1>2, <1>3

LEMMA IsNotReplaced ==
  ASSUME NEW v, NEW w, NEW k \in DOMAIN v, NEW m \in DOMAIN v, k # m,
         v[k] # w[k], v[m] # w[m]
  PROVE  ~OneLetterReplaced(v, w)
  BY DEF OneLetterReplaced

LEMMA LengthsTell ==
  ASSUME NEW v \in Seq(Letters), NEW w \in Seq(Letters)
  PROVE  /\ OneLetterReplaced(v, w) => Len(v) = Len(w)
         /\ OneLetterLeftOut(v, w) => Len(w) = Len(v) - 1
  BY LettersAfterLeavingOut DEF OneLetterReplaced, OneLetterLeftOut

(***************************************************************************)
(* While the loop runs, the letters it has passed agree in step; or, after *)
(* an edit, they agree up to the first difference, at k, and beyond it as  *)
(* the kind of edit would have it.                                         *)
(***************************************************************************)
InStep ==
  edits = 0 /\ leftIndex = rightIndex /\ \A n \in 1..leftIndex : leftWord[n] = rightWord[n]

Shifted(k) ==
  \/ /\ Len(leftWord) = Len(rightWord) /\ leftIndex = rightIndex /\ k <= leftIndex
     /\ \A n \in (k + 1)..leftIndex : leftWord[n] = rightWord[n]
  \/ /\ Len(leftWord) = Len(rightWord) + 1 /\ leftIndex = rightIndex + 1 /\ k <= leftIndex
     /\ \A n \in k..rightIndex : rightWord[n] = leftWord[n + 1]
  \/ /\ Len(rightWord) = Len(leftWord) + 1 /\ rightIndex = leftIndex + 1 /\ k <= rightIndex
     /\ \A n \in k..leftIndex : leftWord[n] = rightWord[n + 1]

EditedAt(k) ==
  /\ edits = 1
  /\ leftWord[k] # rightWord[k]
  /\ \A n \in 1..(k - 1) : leftWord[n] = rightWord[n]
  /\ Shifted(k)

FirstLetters == (1..Len(leftWord)) \cap (1..Len(rightWord))

FormsInv ==
  /\ FormsTypeOK
  /\ VerdictIsRight
  /\ verdict = "open" /\ Compared => InStep \/ \E k \in FirstLetters : EditedAt(k)

LEMMA FormsInvInit == FormsInit => FormsInv
<1> SUFFICES ASSUME FormsInit PROVE FormsInv
  OBVIOUS
<1>1. ComparedWords \subseteq Seq(Letters)
  <2>1. ComparedWords = UNION {[1..m -> Letters] : m \in 0..MaxLength}
    BY DEF ComparedWords, BoundedSeq, SeqOf
  <2> SUFFICES ASSUME NEW m \in 0..MaxLength, NEW w \in [1..m -> Letters]
               PROVE  w \in Seq(Letters)
    BY <2>1
  <2> QED
    BY FormsAssumption
<1>2. leftWord \in Seq(Letters) /\ rightWord \in Seq(Letters)
  BY <1>1 DEF FormsInit
<1>3. FormsTypeOK
  BY <1>2, LenProperties DEF FormsInit, FormsTypeOK, Verdicts
<1>4. InStep
  BY DEF FormsInit, InStep
<1> QED
  BY <1>3, <1>4 DEF FormsInit, FormsInv, VerdictIsRight

(* The lengths of words the loop looks at, and what it knows of them.      *)
LEMMA LengthsCompared ==
  ASSUME FormsTypeOK, Compared
  PROVE  /\ Len(leftWord) \in Nat /\ Len(rightWord) \in Nat
         /\ leftIndex \in Nat /\ rightIndex \in Nat
         /\ leftIndex <= Len(leftWord) /\ rightIndex <= Len(rightWord)
         /\ \/ Len(leftWord) = Len(rightWord)
            \/ Len(leftWord) = Len(rightWord) + 1
            \/ Len(rightWord) = Len(leftWord) + 1
<1>1. Len(leftWord) \in Nat /\ Len(rightWord) \in Nat
  BY LenProperties DEF FormsTypeOK
<1>2. leftIndex \in 0..Len(leftWord) /\ rightIndex \in 0..Len(rightWord)
  BY DEF FormsTypeOK
<1>3. ~(Abs(Len(leftWord) - Len(rightWord)) > 1)
  BY DEF Compared, TooFarInLength
<1> QED
  BY <1>1, <1>2, <1>3 DEF Abs

LEMMA WordDomains ==
  ASSUME FormsTypeOK
  PROVE  /\ DOMAIN leftWord = 1..Len(leftWord) /\ DOMAIN rightWord = 1..Len(rightWord)
         /\ \A k \in FirstLetters : k \in DOMAIN leftWord /\ k \in DOMAIN rightWord /\ k \in Nat
<1>1. DOMAIN leftWord = 1..Len(leftWord) /\ DOMAIN rightWord = 1..Len(rightWord)
  BY LenProperties DEF FormsTypeOK
<1>2. Len(leftWord) \in Nat
  BY LenProperties DEF FormsTypeOK
<1> QED
  BY <1>1, <1>2 DEF FirstLetters

LEMMA EitherIsNear ==
  ASSUME FormsTypeOK, Compared,
         \/ OneLetterReplaced(leftWord, rightWord)
         \/ OneLetterLeftOut(leftWord, rightWord)
         \/ OneLetterLeftOut(rightWord, leftWord)
  PROVE  NearForms(leftWord, rightWord)
<1>1. Len(leftWord) >= MinLength /\ Len(rightWord) >= MinLength
  <2>1. ~(Len(leftWord) < MinLength) /\ ~(Len(rightWord) < MinLength)
    BY DEF Compared, TooShort
  <2>2. Len(leftWord) \in Nat /\ Len(rightWord) \in Nat /\ MinLength \in Nat
    BY LengthsCompared, FormsAssumption
  <2> QED
    BY <2>1, <2>2
<1> QED
  BY <1>1 DEF Compared, OtherPrefix, NearForms

LEMMA AtOnceIsRight ==
  ASSUME FormsTypeOK, ~Compared
  PROVE  NearForms(leftWord, rightWord) <=> leftWord = rightWord
<1>1. Len(leftWord) \in Nat /\ Len(rightWord) \in Nat
      /\ leftWord \in Seq(Letters) /\ rightWord \in Seq(Letters)
  BY LenProperties DEF FormsTypeOK
<1>2. CASE TooShort
  BY <1>1, <1>2, FormsAssumption DEF TooShort, NearForms
<1>3. CASE OtherPrefix
  BY <1>3 DEF OtherPrefix, NearForms
<1>4. CASE TooFarInLength
  <2>1. /\ Len(leftWord) # Len(rightWord)
        /\ Len(rightWord) # Len(leftWord) - 1 /\ Len(leftWord) # Len(rightWord) - 1
    BY <1>1, <1>4 DEF TooFarInLength, Abs
  <2> QED
    BY <1>1, <2>1, LengthsTell DEF NearForms
<1> QED
  BY <1>2, <1>3, <1>4 DEF Compared, NearForms

(* Where the two positions are after an edit.                              *)
LEMMA PositionsEdited ==
  ASSUME FormsTypeOK, Compared, NEW k \in FirstLetters, EditedAt(k)
  PROVE  /\ Len(leftWord) = Len(rightWord) => leftIndex = rightIndex /\ k <= leftIndex
         /\ Len(leftWord) = Len(rightWord) + 1 => leftIndex = rightIndex + 1 /\ k <= leftIndex
         /\ Len(rightWord) = Len(leftWord) + 1 => rightIndex = leftIndex + 1 /\ k <= rightIndex
<1>1. Len(leftWord) \in Nat /\ Len(rightWord) \in Nat
  BY LengthsCompared
<1>2. \/ Len(leftWord) = Len(rightWord) /\ leftIndex = rightIndex /\ k <= leftIndex
      \/ Len(leftWord) = Len(rightWord) + 1 /\ leftIndex = rightIndex + 1 /\ k <= leftIndex
      \/ Len(rightWord) = Len(leftWord) + 1 /\ rightIndex = leftIndex + 1 /\ k <= rightIndex
  BY Zenon DEF EditedAt, Shifted
<1> QED
  BY <1>1, <1>2

(* A second difference is one too many, of whatever kind.                  *)
LEMMA TwoEditsApart ==
  ASSUME FormsTypeOK, Compared, InBothWords,
         leftWord[leftIndex + 1] # rightWord[rightIndex + 1],
         NEW k \in FirstLetters, EditedAt(k)
  PROVE  ~NearForms(leftWord, rightWord)
<1>1. leftWord \in Seq(Letters) /\ rightWord \in Seq(Letters)
  BY DEF FormsTypeOK
<1>2. k \in DOMAIN leftWord /\ k \in DOMAIN rightWord /\ leftWord[k] # rightWord[k]
  BY WordDomains DEF EditedAt
<1>3. Len(leftWord) \in Nat /\ Len(rightWord) \in Nat
  BY LengthsCompared
<1>4. leftIndex \in Nat /\ rightIndex \in Nat /\ k \in Nat
  BY LengthsCompared, WordDomains
<1>5. DOMAIN leftWord = 1..Len(leftWord) /\ DOMAIN rightWord = 1..Len(rightWord)
  BY WordDomains
<1>6. leftIndex < Len(leftWord) /\ rightIndex < Len(rightWord)
  BY DEF InBothWords
<1>7. ~OneLetterReplaced(leftWord, rightWord)
  <2>1. CASE Len(leftWord) = Len(rightWord)
    <3>1. leftIndex = rightIndex /\ k <= leftIndex
      BY <2>1, PositionsEdited
    <3>2. k # leftIndex + 1 /\ leftIndex + 1 \in DOMAIN leftWord
      BY <1>3, <1>4, <1>5, <1>6, <3>1
    <3> QED
      BY <1>2, <3>1, <3>2, IsNotReplaced
  <2> QED
    BY <1>1, <2>1, LengthsTell
<1>8. ~OneLetterLeftOut(leftWord, rightWord)
  <2>1. CASE Len(leftWord) = Len(rightWord) + 1
    <3>1. leftIndex = rightIndex + 1 /\ k <= leftIndex
      BY <2>1, PositionsEdited
    <3>2. rightIndex + 1 \in k..Len(rightWord)
      BY <1>3, <1>4, <1>6, <3>1
    <3>3. Len(rightWord) = Len(leftWord) - 1
      BY <1>3, <2>1
    <3> QED
      BY <1>1, <1>2, <3>1, <3>2, <3>3, IsNotLeftOut
  <2> QED
    <3>1. CASE ~(Len(leftWord) = Len(rightWord) + 1)
      <4>1. Len(rightWord) # Len(leftWord) - 1
        BY <1>3, <3>1
      <4> QED
        BY <1>1, <4>1, LengthsTell
    <3> QED
      BY <2>1, <3>1
<1>9. ~OneLetterLeftOut(rightWord, leftWord)
  <2>1. CASE Len(rightWord) = Len(leftWord) + 1
    <3>1. rightIndex = leftIndex + 1 /\ k <= rightIndex
      BY <2>1, PositionsEdited
    <3>2. leftIndex + 1 \in k..Len(leftWord)
      BY <1>3, <1>4, <1>6, <3>1
    <3>3. Len(leftWord) = Len(rightWord) - 1
      BY <1>3, <2>1
    <3> QED
      BY <1>1, <1>2, <3>1, <3>2, <3>3, IsNotLeftOut
  <2> QED
    <3>1. CASE ~(Len(rightWord) = Len(leftWord) + 1)
      <4>1. Len(leftWord) # Len(rightWord) - 1
        BY <1>3, <3>1
      <4> QED
        BY <1>1, <4>1, LengthsTell
    <3> QED
      BY <2>1, <3>1
<1> QED
  BY <1>7, <1>8, <1>9 DEF Compared, NearForms

(* At the end of one word there is one edit: the one that was made, or the *)
(* letter left over.                                                       *)
LEMMA OneEditNear ==
  ASSUME FormsTypeOK, Compared, ~InBothWords,
         InStep \/ \E k \in FirstLetters : EditedAt(k)
  PROVE  /\ NearForms(leftWord, rightWord)
         /\ edits = 0 \/ (edits = 1 /\ leftIndex = Len(leftWord) /\ rightIndex = Len(rightWord))
<1>1. leftWord \in Seq(Letters) /\ rightWord \in Seq(Letters) /\ leftWord # rightWord
  BY DEF FormsTypeOK, Compared
<1>2. CASE InStep
  <2>1. CASE Len(leftWord) = Len(rightWord)
    <3>1. \A n \in 1..Len(leftWord) : leftWord[n] = rightWord[n]
      BY <1>2, <2>1, LengthsCompared DEF InStep, InBothWords
    <3> QED
      BY <1>1, <2>1, <3>1, SeqEqual
  <2>2. CASE Len(leftWord) = Len(rightWord) + 1
    <3>1. rightIndex = Len(rightWord) /\ Len(leftWord) \in DOMAIN leftWord
      BY <1>2, <2>2, LengthsCompared, WordDomains DEF InStep, InBothWords
    <3>2. /\ Len(rightWord) = Len(leftWord) - 1
          /\ \A n \in 1..(Len(leftWord) - 1) : rightWord[n] = leftWord[n]
          /\ \A n \in Len(leftWord)..Len(rightWord) : rightWord[n] = leftWord[n + 1]
      BY <1>2, <2>2, <3>1, LengthsCompared DEF InStep
    <3>3. OneLetterLeftOut(leftWord, rightWord)
      BY <1>1, <3>1, <3>2, IsLeftOut
    <3> QED
      BY <1>2, <3>3, EitherIsNear DEF InStep
  <2>3. CASE Len(rightWord) = Len(leftWord) + 1
    <3>1. leftIndex = Len(leftWord) /\ Len(rightWord) \in DOMAIN rightWord
      BY <1>2, <2>3, LengthsCompared, WordDomains DEF InStep, InBothWords
    <3>2. /\ Len(leftWord) = Len(rightWord) - 1
          /\ \A n \in 1..(Len(rightWord) - 1) : leftWord[n] = rightWord[n]
          /\ \A n \in Len(rightWord)..Len(leftWord) : leftWord[n] = rightWord[n + 1]
      BY <1>2, <2>3, <3>1, LengthsCompared DEF InStep
    <3>3. OneLetterLeftOut(rightWord, leftWord)
      BY <1>1, <3>1, <3>2, IsLeftOut
    <3> QED
      BY <1>2, <3>3, EitherIsNear DEF InStep
  <2> QED
    BY <2>1, <2>2, <2>3, LengthsCompared
<1>3. ASSUME NEW k \in FirstLetters, EditedAt(k)
      PROVE  /\ NearForms(leftWord, rightWord)
             /\ edits = 1 /\ leftIndex = Len(leftWord) /\ rightIndex = Len(rightWord)
  <2>1. leftIndex = Len(leftWord) /\ rightIndex = Len(rightWord)
    <3>1. leftIndex = Len(leftWord) \/ rightIndex = Len(rightWord)
      BY LengthsCompared DEF InBothWords
    <3>2. Len(leftWord) \in Nat /\ Len(rightWord) \in Nat /\ leftIndex \in Nat /\ rightIndex \in Nat
      BY LengthsCompared
    <3>3. CASE Len(leftWord) = Len(rightWord)
      BY <1>3, <3>1, <3>2, <3>3, PositionsEdited
    <3>4. CASE Len(leftWord) = Len(rightWord) + 1
      <4>1. leftIndex = rightIndex + 1
        BY <1>3, <3>4, PositionsEdited
      <4> QED
        BY <3>1, <3>2, <3>4, <4>1
    <3>5. CASE Len(rightWord) = Len(leftWord) + 1
      <4>1. rightIndex = leftIndex + 1
        BY <1>3, <3>5, PositionsEdited
      <4> QED
        BY <3>1, <3>2, <3>5, <4>1
    <3> QED
      BY <3>3, <3>4, <3>5, LengthsCompared
  <2>2. k \in DOMAIN leftWord /\ k \in DOMAIN rightWord
    BY WordDomains
  <2>3. CASE Len(leftWord) = Len(rightWord)
    <3>1. \A n \in DOMAIN leftWord \ {k} : leftWord[n] = rightWord[n]
      BY <1>3, <2>1, <2>2, <2>3, LengthsCompared, WordDomains DEF EditedAt, Shifted
    <3> QED
      BY <1>3, <2>1, <2>2, <2>3, <3>1, EitherIsNear DEF OneLetterReplaced, EditedAt
  <2>4. CASE Len(leftWord) = Len(rightWord) + 1
    <3>1. /\ Len(rightWord) = Len(leftWord) - 1
          /\ \A n \in 1..(k - 1) : rightWord[n] = leftWord[n]
          /\ \A n \in k..Len(rightWord) : rightWord[n] = leftWord[n + 1]
      BY <1>3, <2>1, <2>4, LengthsCompared DEF EditedAt, Shifted
    <3>2. OneLetterLeftOut(leftWord, rightWord)
      BY <1>1, <2>2, <3>1, IsLeftOut
    <3> QED
      BY <1>3, <2>1, <3>2, EitherIsNear DEF EditedAt
  <2>5. CASE Len(rightWord) = Len(leftWord) + 1
    <3>1. /\ Len(leftWord) = Len(rightWord) - 1
          /\ \A n \in 1..(k - 1) : leftWord[n] = rightWord[n]
          /\ \A n \in k..Len(leftWord) : leftWord[n] = rightWord[n + 1]
      BY <1>3, <2>1, <2>5, LengthsCompared DEF EditedAt, Shifted
    <3>2. OneLetterLeftOut(rightWord, leftWord)
      BY <1>1, <2>2, <3>1, IsLeftOut
    <3> QED
      BY <1>3, <2>1, <3>2, EitherIsNear DEF EditedAt
  <2> QED
    BY <2>3, <2>4, <2>5, LengthsCompared
<1> QED
  BY <1>2, <1>3 DEF InStep

LEMMA FormsInvStep ==
  ASSUME FormsInv, [FormsNext]_formsVars
  PROVE  FormsInv'
<1>0. FormsTypeOK /\ VerdictIsRight
  BY DEF FormsInv
<1>1. CASE UNCHANGED formsVars
  BY <1>1, Zenon DEF FormsInv, formsVars, FormsTypeOK, VerdictIsRight, Compared, TooShort,
     OtherPrefix, TooFarInLength, InStep, FirstLetters, EditedAt, Shifted
<1>2. CASE JudgeAtOnce
  <2>1. /\ UNCHANGED <<leftWord, rightWord, leftIndex, rightIndex, edits>>
        /\ verdict' = IF leftWord = rightWord THEN "near" ELSE "apart"
    BY <1>2 DEF JudgeAtOnce, Return
  <2>2. NearForms(leftWord, rightWord) <=> leftWord = rightWord
    BY <1>0, <1>2, AtOnceIsRight DEF JudgeAtOnce
  <2>3. FormsTypeOK'
    BY <1>0, <2>1 DEF FormsTypeOK, Verdicts
  <2>4. VerdictIsRight'
    <3>1. CASE leftWord = rightWord
      BY <2>1, <2>2, <3>1, Zenon DEF VerdictIsRight
    <3>2. CASE leftWord # rightWord
      <4>1. verdict' = "apart" /\ "apart" # "near"
        BY <2>1, <3>2
      <4>2. NearForms(leftWord, rightWord) = FALSE
        BY <2>2, <3>2 DEF NearForms
      <4> QED
        BY <2>1, <4>1, <4>2 DEF VerdictIsRight
    <3> QED
      BY <3>1, <3>2
  <2>5. verdict' # "open"
    BY <2>1
  <2> QED
    BY <2>3, <2>4, <2>5 DEF FormsInv
<1>3. CASE SameLetter
  <2>1. /\ verdict = "open" /\ verdict' = "open" /\ Compared /\ InBothWords
        /\ leftWord[leftIndex + 1] = rightWord[rightIndex + 1]
        /\ leftIndex' = leftIndex + 1 /\ rightIndex' = rightIndex + 1
        /\ UNCHANGED <<leftWord, rightWord, edits>>
    BY <1>3 DEF SameLetter
  <2>2. leftIndex \in Nat /\ rightIndex \in Nat
    BY <1>0, <2>1, LengthsCompared
  <2>3. FormsTypeOK'
    <3>1. leftIndex + 1 \in 0..Len(leftWord) /\ rightIndex + 1 \in 0..Len(rightWord)
      BY <1>0, <2>1, LengthsCompared DEF InBothWords
    <3> QED
      BY <1>0, <2>1, <3>1 DEF FormsTypeOK
  <2>4. CASE InStep
    <3>1. ASSUME NEW n \in 1..(leftIndex + 1) PROVE leftWord[n] = rightWord[n]
      BY <2>1, <2>2, <2>4 DEF InStep
    <3> QED
      BY <2>1, <2>3, <2>4, <3>1 DEF InStep, FormsInv, VerdictIsRight
  <2>5. ASSUME NEW k \in FirstLetters, EditedAt(k)
        PROVE  FormsInv'
    <3>1. k \in Nat
      BY <1>0, WordDomains
    <3>2. Shifted(k)'
      <4>1. CASE /\ Len(leftWord) = Len(rightWord) /\ leftIndex = rightIndex /\ k <= leftIndex
                 /\ \A n \in (k + 1)..leftIndex : leftWord[n] = rightWord[n]
        <5>1. ASSUME NEW n \in (k + 1)..(leftIndex + 1) PROVE leftWord[n] = rightWord[n]
          BY <2>1, <2>2, <3>1, <4>1
        <5>2. k <= leftIndex + 1
          BY <2>2, <3>1, <4>1
        <5> QED
          BY <2>1, <4>1, <5>1, <5>2 DEF Shifted
      <4>2. CASE /\ Len(leftWord) = Len(rightWord) + 1 /\ leftIndex = rightIndex + 1 /\ k <= leftIndex
                 /\ \A n \in k..rightIndex : rightWord[n] = leftWord[n + 1]
        <5>1. ASSUME NEW n \in k..(rightIndex + 1) PROVE rightWord[n] = leftWord[n + 1]
          BY <2>1, <2>2, <3>1, <4>2
        <5>2. k <= leftIndex + 1
          BY <2>2, <3>1, <4>2
        <5> QED
          BY <2>1, <4>2, <5>1, <5>2 DEF Shifted
      <4>3. CASE /\ Len(rightWord) = Len(leftWord) + 1 /\ rightIndex = leftIndex + 1 /\ k <= rightIndex
                 /\ \A n \in k..leftIndex : leftWord[n] = rightWord[n + 1]
        <5>1. ASSUME NEW n \in k..(leftIndex + 1) PROVE leftWord[n] = rightWord[n + 1]
          BY <2>1, <2>2, <3>1, <4>3
        <5>2. k <= rightIndex + 1
          BY <2>2, <3>1, <4>3
        <5> QED
          BY <2>1, <4>3, <5>1, <5>2 DEF Shifted
      <4> QED
        BY <2>5, <4>1, <4>2, <4>3, Zenon DEF EditedAt, Shifted
    <3>3. EditedAt(k)' /\ k \in FirstLetters'
      BY <2>1, <2>5, <3>2, Zenon DEF EditedAt, FirstLetters
    <3> QED
      BY <2>1, <2>3, <3>3 DEF FormsInv, VerdictIsRight
  <2> QED
    BY <2>1, <2>4, <2>5 DEF FormsInv
<1>4. CASE OtherLetter
  <2>1. /\ verdict = "open" /\ Compared /\ InBothWords
        /\ leftWord[leftIndex + 1] # rightWord[rightIndex + 1]
        /\ edits' = edits + 1
        /\ UNCHANGED <<leftWord, rightWord>>
    BY <1>4 DEF OtherLetter
  <2>2. /\ leftIndex \in Nat /\ rightIndex \in Nat
        /\ Len(leftWord) \in Nat /\ Len(rightWord) \in Nat
        /\ leftIndex < Len(leftWord) /\ rightIndex < Len(rightWord)
    BY <1>0, <2>1, LengthsCompared DEF InBothWords
  <2>3. CASE InStep
    <3>1. edits' = 1 /\ ~(edits' > 1)
      BY <2>1, <2>3 DEF InStep
    <3>2. /\ verdict' = "open"
          /\ leftIndex' = IF Len(leftWord) >= Len(rightWord) THEN leftIndex + 1 ELSE leftIndex
          /\ rightIndex' = IF Len(leftWord) <= Len(rightWord) THEN rightIndex + 1 ELSE rightIndex
      BY <1>4, <2>1, <3>1 DEF OtherLetter
    <3>3. /\ leftIndex' \in 0..Len(leftWord) /\ rightIndex' \in 0..Len(rightWord)
      BY <2>2, <3>2
    <3>4. FormsTypeOK'
      BY <1>0, <2>1, <3>1, <3>2, <3>3 DEF FormsTypeOK, Verdicts
    <3>5. leftIndex = rightIndex
      BY <2>3 DEF InStep
    <3>6. leftIndex + 1 \in FirstLetters
      BY <2>2, <3>5 DEF FirstLetters
    <3>7. PICK k \in FirstLetters : k = leftIndex + 1
      BY <3>6
    <3>8. leftWord[k] # rightWord[k] /\ k \in Nat
      BY <2>1, <2>2, <3>5, <3>7
    <3>9. Shifted(k)'
      <4>1. CASE Len(leftWord) = Len(rightWord)
        <5>1. leftIndex' = leftIndex + 1 /\ rightIndex' = leftIndex + 1
          BY <2>2, <3>2, <3>5, <4>1
        <5> QED
          BY <2>1, <2>2, <3>7, <3>8, <4>1, <5>1 DEF Shifted
      <4>2. CASE Len(leftWord) = Len(rightWord) + 1
        <5>1. leftIndex' = leftIndex + 1 /\ rightIndex' = leftIndex
          BY <2>2, <3>2, <3>5, <4>2
        <5> QED
          BY <2>1, <2>2, <3>7, <3>8, <4>2, <5>1 DEF Shifted
      <4>3. CASE Len(rightWord) = Len(leftWord) + 1
        <5>1. leftIndex' = leftIndex /\ rightIndex' = leftIndex + 1
          BY <2>2, <3>2, <3>5, <4>3
        <5> QED
          BY <2>1, <2>2, <3>7, <3>8, <4>3, <5>1 DEF Shifted
      <4> QED
        BY <1>0, <2>1, <4>1, <4>2, <4>3, LengthsCompared
    <3>10. EditedAt(k)'
      <4>1. \A n \in 1..(k - 1) : leftWord[n] = rightWord[n]
        BY <2>2, <2>3, <3>7 DEF InStep
      <4> QED
        BY <2>1, <3>1, <3>8, <3>9, <4>1 DEF EditedAt
    <3>11. VerdictIsRight'
      BY <3>2 DEF VerdictIsRight
    <3>12. FirstLetters' = FirstLetters
      BY <2>1 DEF FirstLetters
    <3> QED
      BY <3>4, <3>10, <3>11, <3>12, Zenon DEF FormsInv
  <2>4. ASSUME NEW k \in FirstLetters, EditedAt(k)
        PROVE  FormsInv'
    <3>1. edits' = 2 /\ edits' > 1
      BY <2>1, <2>4 DEF EditedAt
    <3>2. verdict' = "apart" /\ UNCHANGED <<leftIndex, rightIndex>>
      BY <1>4, <3>1 DEF OtherLetter
    <3>3. ~NearForms(leftWord, rightWord)
      BY <1>0, <2>1, <2>4, TwoEditsApart
    <3>4. FormsTypeOK'
      BY <1>0, <2>1, <3>1, <3>2 DEF FormsTypeOK, Verdicts
    <3>5. verdict' # "near" /\ verdict' # "open"
      BY <3>2
    <3>6. VerdictIsRight'
      <4>1. NearForms(leftWord, rightWord) = FALSE
        BY <3>3 DEF NearForms
      <4> QED
        BY <2>1, <3>5, <4>1 DEF VerdictIsRight
    <3> QED
      BY <3>4, <3>5, <3>6, Zenon DEF FormsInv
  <2> QED
    BY <2>1, <2>3, <2>4 DEF FormsInv
<1>5. CASE ReachEnd
  <2>1. verdict = "open" /\ Compared /\ ~InBothWords
    BY <1>5 DEF ReachEnd
  <2>2. InStep \/ \E k \in FirstLetters : EditedAt(k)
    BY <2>1 DEF FormsInv
  <2>3. /\ NearForms(leftWord, rightWord)
        /\ edits = 0 \/ (edits = 1 /\ leftIndex = Len(leftWord) /\ rightIndex = Len(rightWord))
    BY <1>0, <2>1, <2>2, OneEditNear
  <2>4. (IF leftIndex < Len(leftWord) \/ rightIndex < Len(rightWord) THEN edits + 1 ELSE edits) <= 1
    BY <1>0, <2>1, <2>3, LengthsCompared
  <2>5. verdict' = "near" /\ UNCHANGED <<leftWord, rightWord, leftIndex, rightIndex, edits>>
    BY <1>5, <2>4 DEF ReachEnd, Return
  <2>6. FormsTypeOK'
    BY <1>0, <2>5 DEF FormsTypeOK, Verdicts
  <2> QED
    BY <2>3, <2>5, <2>6 DEF FormsInv, VerdictIsRight
<1> QED
  BY <1>1, <1>2, <1>3, <1>4, <1>5 DEF FormsNext

(* areNearWordForms takes two words for near forms exactly if one comes    *)
(* from the other by one letter, whichever comes first, for words of any   *)
(* length over any letters and for any thresholds.                         *)
THEOREM LoopTellsNearForms == FormsSpec => []VerdictIsRight
<1>1. FormsInv => VerdictIsRight
  BY DEF FormsInv
<1> QED
  BY <1>1, FormsInvInit, FormsInvStep, PTL DEF FormsSpec
=============================================================================
