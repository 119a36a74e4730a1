---------------------------- MODULE GamePaceProofs ----------------------------
(***************************************************************************)
(* What holds of the game as long as no update is lost.  Every write then  *)
(* replaces the record its handler read, so the handlers in flight tell    *)
(* how far the game may have moved on since each of them read or wrote:    *)
(* by one phase while the handler waits for its reply, by two before it    *)
(* resumes.  From this pace follows which timer is pending, what the hints *)
(* add up to and that what the players were told is on record.             *)
(*                                                                         *)
(* The lemmas on the pace are about the handlers of the game among any     *)
(* others, so that they hold for the server too.                           *)
(***************************************************************************)
EXTENDS GameProofs

(***************************************************************************)
(* Places in a sequence.                                                   *)
(***************************************************************************)
LEMMA Places ==
  ASSUME NEW S, NEW q \in Seq(S)
  PROVE  /\ Len(q) \in Nat /\ DOMAIN q = 1..Len(q)
         /\ \A i \in DOMAIN q : i \in Nat /\ q[i] \in S
  BY LenProperties, ElementOfSeq

LEMMA PlacesAppended ==
  ASSUME NEW S, NEW q \in Seq(S), NEW x \in S
  PROVE  /\ Append(q, x) \in Seq(S)
         /\ DOMAIN q \subseteq DOMAIN Append(q, x)
         /\ Len(q) + 1 \in DOMAIN Append(q, x) /\ Append(q, x)[Len(q) + 1] = x
         /\ \A i \in DOMAIN q : Append(q, x)[i] = q[i] /\ i < Len(q) + 1
         /\ \A i \in DOMAIN Append(q, x) : i \in DOMAIN q \/ i = Len(q) + 1
<1>1. /\ Append(q, x) \in Seq(S) /\ Len(q) \in Nat /\ DOMAIN q = 1..Len(q)
      /\ Len(Append(q, x)) = Len(q) + 1
      /\ \A i \in 1..Len(q) : Append(q, x)[i] = q[i]
      /\ Append(q, x)[Len(q) + 1] = x
  BY AppendProperties, LenProperties
<1>2. DOMAIN Append(q, x) = 1..(Len(q) + 1)
  BY <1>1, LenProperties
<1>3. \A n \in Nat : /\ 1..n \subseteq 1..(n + 1) /\ n + 1 \in 1..(n + 1)
                     /\ \A i \in 1..(n + 1) : i \in 1..n \/ i = n + 1
                     /\ \A i \in 1..n : i < n + 1
  OBVIOUS
<1> QED
  BY <1>1, <1>2, <1>3

(* Where an element of a sequence without its i-th was before.             *)
Was(i, j) == IF j < i THEN j ELSE j + 1

LEMMA PlacesRemoved ==
  ASSUME NEW S, NEW q \in Seq(S), NEW i \in DOMAIN q
  PROVE  /\ RemoveAt(q, i) \in Seq(S)
         /\ \A j \in DOMAIN RemoveAt(q, i) :
              Was(i, j) \in DOMAIN q \ {i} /\ RemoveAt(q, i)[j] = q[Was(i, j)]
         /\ \A j, k \in DOMAIN RemoveAt(q, i) : Was(i, j) = Was(i, k) => j = k
         /\ \A k \in DOMAIN q \ {i} : \E j \in DOMAIN RemoveAt(q, i) : Was(i, j) = k
<1> DEFINE r == RemoveAt(q, i)
           n == Len(q)
<1>1. /\ r \in Seq(S) /\ Len(r) = n - 1
      /\ \A j \in 1..(n - 1) : r[j] = IF j < i THEN q[j] ELSE q[j + 1]
      /\ n \in Nat /\ DOMAIN q = 1..n /\ i \in 1..n
  BY RemoveAtType, LenProperties
<1>2. DOMAIN r = 1..(n - 1)
  BY <1>1, LenProperties
<1> HIDE DEF r, n
<1>3. ASSUME NEW j \in 1..(n - 1)
      PROVE  Was(i, j) \in 1..n /\ Was(i, j) # i /\ r[j] = q[Was(i, j)]
  BY <1>1 DEF Was
<1>4. \A j, k \in 1..(n - 1) : Was(i, j) = Was(i, k) => j = k
  BY <1>1 DEF Was
<1>5. ASSUME NEW k \in 1..n, k # i
      PROVE  \E j \in 1..(n - 1) : Was(i, j) = k
  <2>1. CASE k < i
    <3>1. k \in 1..(n - 1) /\ Was(i, k) = k
      BY <1>1, <2>1 DEF Was
    <3> QED
      BY <3>1
  <2>2. CASE k > i
    <3>1. k - 1 \in 1..(n - 1) /\ Was(i, k - 1) = k
      BY <1>1, <2>2 DEF Was
    <3> QED
      BY <3>1
  <2> QED
    BY <1>1, <1>5, <2>1, <2>2
<1> QED
  BY <1>1, <1>2, <1>3, <1>4, <1>5 DEF r

LEMMA PlacesCut ==
  ASSUME NEW S, NEW q \in Seq(S), NEW n \in 1..Len(q)
  PROVE  LET r == SubSeq(q, 1, n)
             t == SubSeq(q, n + 1, Len(q))
         IN /\ r \in Seq(S) /\ t \in Seq(S)
            /\ \A i \in DOMAIN r : i \in DOMAIN q /\ i <= n /\ r[i] = q[i]
            /\ \A i \in DOMAIN t : n + i \in DOMAIN q /\ i \in Nat /\ i > 0 /\ t[i] = q[n + i]
            /\ \A i \in DOMAIN q : i \in DOMAIN r \/ (i - n \in DOMAIN t /\ n + (i - n) = i)
<1> DEFINE r == SubSeq(q, 1, n)
           t == SubSeq(q, n + 1, Len(q))
           m == Len(q)
<1>1. /\ r \in Seq(S) /\ t \in Seq(S) /\ Len(r) = n /\ Len(t) = m - n
      /\ \A i \in 1..n : r[i] = q[i]
      /\ \A i \in 1..(m - n) : t[i] = q[n + i]
      /\ m \in Nat /\ DOMAIN q = 1..m
  BY ToSetCut, LenProperties
<1>2. DOMAIN r = 1..n /\ DOMAIN t = 1..(m - n)
  BY <1>1, LenProperties
<1> HIDE DEF r, t, m
<1>3. /\ \A i \in 1..n : i \in 1..m /\ i <= n
      /\ \A i \in 1..(m - n) : n + i \in 1..m /\ i \in Nat /\ i > 0
      /\ \A i \in 1..m : i \in 1..n \/ (i - n \in 1..(m - n) /\ n + (i - n) = i)
  BY <1>1 DEF m
<1> QED
  BY <1>1, <1>2, <1>3 DEF r, t, m

(***************************************************************************)
(* The pace of the game.  Every phase is one further than the one before.  *)
(***************************************************************************)
Rank(st) ==
  IF st.phase = "lobby" THEN 0
  ELSE IF st.phase = "game_over" THEN 3 * st.miniRoundNumber + 1
  ELSE IF st.roundPhase = "word_selection" THEN 3 * st.miniRoundNumber - 2
  ELSE IF st.roundPhase = "drawing" THEN 3 * st.miniRoundNumber - 1
  ELSE 3 * st.miniRoundNumber

LEMMA RankOf ==
  ASSUME NEW st, RoomOK(st)
  PROVE  /\ Rank(st) \in Nat /\ st.miniRoundNumber \in Nat
         /\ st.phase = "lobby" => Rank(st) = 0
         /\ st.phase # "lobby" => Rank(st) > 0 /\ st.miniRoundNumber > 0
         /\ InPhase(st, "word_selection") => Rank(st) = 3 * st.miniRoundNumber - 2
         /\ InPhase(st, "drawing") => Rank(st) = 3 * st.miniRoundNumber - 1
         /\ InPhase(st, "round_end") => Rank(st) = 3 * st.miniRoundNumber
         /\ st.phase = "game_over" => Rank(st) = 3 * st.miniRoundNumber + 1
<1> DEFINE k == st.miniRoundNumber
<1>1. /\ k \in Nat
      /\ st.phase \in {"lobby", "in_game", "game_over"}
      /\ st.roundPhase \in {"word_selection", "drawing", "round_end"}
  BY DEF RoomOK, Room, Phases, RoundPhases
<1>2. st.phase # "lobby" => k > 0
  <2>1. st.totalMiniRounds \in Nat \ {0}
    <3>1. RoundsCount * MaxPlayers \in Nat
      BY SettingsAssumption
    <3> QED
      BY <3>1 DEF RoomOK, GameLengthOK
  <2>2. /\ st.phase = "in_game" => k \in 1..st.totalMiniRounds
        /\ st.phase = "game_over" => k = st.totalMiniRounds
    BY DEF RoomOK, RoundNumberOK
  <2> QED
    BY <1>1, <2>1, <2>2
<1> QED
  BY <1>1, <1>2 DEF Rank, InPhase

(* Phases of the same rank, and two drawings of different rank.            *)
LEMMA SameRank ==
  ASSUME NEW a, RoomOK(a), NEW b, RoomOK(b), Rank(a) = Rank(b)
  PROVE  /\ a.phase = "lobby" => b.phase = "lobby"
         /\ InPhase(a, "drawing") =>
              InPhase(b, "drawing") /\ b.miniRoundNumber = a.miniRoundNumber
         /\ InPhase(a, "round_end") =>
              InPhase(b, "round_end") /\ b.miniRoundNumber = a.miniRoundNumber
         /\ InPhase(a, "word_selection") /\ b.phase = "in_game" =>
              InPhase(b, "word_selection") /\ b.miniRoundNumber = a.miniRoundNumber
<1> DEFINE x == a.miniRoundNumber
           y == b.miniRoundNumber
           ra == Rank(a)
           rb == Rank(b)
<1>1. \/ b.phase = "lobby" \/ b.phase = "game_over"
      \/ InPhase(b, "word_selection") \/ InPhase(b, "drawing") \/ InPhase(b, "round_end")
  BY DEF RoomOK, Room, Phases, RoundPhases, InPhase
<1>2. /\ ra \in Nat /\ x \in Nat
      /\ a.phase = "lobby" => ra = 0
      /\ a.phase # "lobby" => ra > 0 /\ x > 0
      /\ InPhase(a, "word_selection") => ra = 3 * x - 2
      /\ InPhase(a, "drawing") => ra = 3 * x - 1
      /\ InPhase(a, "round_end") => ra = 3 * x
  BY RankOf
<1>3. /\ rb \in Nat /\ y \in Nat
      /\ b.phase = "lobby" => rb = 0
      /\ b.phase # "lobby" => rb > 0 /\ y > 0
      /\ InPhase(b, "word_selection") => rb = 3 * y - 2
      /\ InPhase(b, "drawing") => rb = 3 * y - 1
      /\ InPhase(b, "round_end") => rb = 3 * y
      /\ b.phase = "game_over" => rb = 3 * y + 1
  BY RankOf
<1>4. ra = rb
  OBVIOUS
<1>5. /\ InPhase(a, "word_selection") => a.phase = "in_game"
      /\ InPhase(a, "drawing") => a.phase = "in_game"
      /\ InPhase(a, "round_end") => a.phase = "in_game"
      /\ InPhase(b, "word_selection") => b.phase = "in_game"
      /\ b.phase = "game_over" => b.phase # "in_game"
  BY DEF InPhase
<1> HIDE DEF x, y, ra, rb
<1>6. a.phase = "lobby" => b.phase = "lobby"
  BY <1>2, <1>3, <1>4
<1>7. InPhase(a, "drawing") => InPhase(b, "drawing") /\ y = x
  BY <1>1, <1>2, <1>3, <1>4, <1>5
<1>8. InPhase(a, "round_end") => InPhase(b, "round_end") /\ y = x
  BY <1>1, <1>2, <1>3, <1>4, <1>5
<1>9. InPhase(a, "word_selection") /\ b.phase = "in_game" =>
        InPhase(b, "word_selection") /\ y = x
  BY <1>1, <1>2, <1>3, <1>4, <1>5
<1> QED
  BY <1>6, <1>7, <1>8, <1>9 DEF x, y

LEMMA DrawingsFarApart ==
  ASSUME NEW a, RoomOK(a), NEW b, RoomOK(b), InPhase(a, "drawing"), InPhase(b, "drawing"),
         Rank(a) <= Rank(b), Rank(b) <= Rank(a) + 2
  PROVE  Rank(a) = Rank(b)
<1> DEFINE x == a.miniRoundNumber
           y == b.miniRoundNumber
<1>1. x \in Nat /\ y \in Nat /\ Rank(a) = 3 * x - 1 /\ Rank(b) = 3 * y - 1
  BY RankOf
<1> HIDE DEF x, y
<1> QED
  BY <1>1

(* What a handler writes is of the same rank, or one phase further.        *)
LEMMA TurnMoves ==
  ASSUME NEW h, HandlerOK(h), NEW new, Turn(h, new)
  PROVE  /\ RoomOK(h.st) /\ RoomOK(new)
         /\ h.pc \in {"guess", "hintTimeout"} => Rank(new) = Rank(h.st)
         /\ h.pc \notin {"guess", "hintTimeout"} => Rank(new) = Rank(h.st) + 1
<1> DEFINE st == h.st
<1>1. /\ RoomOK(st) /\ st \in Room /\ RoomOK(new)
      /\ h.pc = "startGame" => st.phase = "lobby" /\ st.miniRoundNumber = 0
      /\ h.pc \in {"chooseWord", "wordSelectionTimeout"} => InPhase(st, "word_selection")
      /\ h.pc \in {"guess", "guessSaved", "hintTimeout", "drawingTimeout"}
           => InPhase(st, "drawing")
      /\ h.pc = "roundEndTimeout" => InPhase(st, "round_end")
  BY TurnIsSound DEF HandlerOK
<1>2. st.miniRoundNumber \in Nat /\ st.wordOptions \in SUBSET Words
  BY <1>1 DEF Room
<1>3. ASSUME h.pc = "startGame", NEW options \in WordOptions({}),
             new = CreateWordSelectionState(st, options)
      PROVE  Rank(new) = Rank(st) + 1
  <2>1. InPhase(new, "word_selection") /\ new.miniRoundNumber = 1
    BY <1>1, <1>3, WordSelectionEffect DEF WordOptions
  <2> QED
    BY <1>1, <1>3, <2>1 DEF Rank, InPhase
<1>4. ASSUME h.pc = "roundEndTimeout", NEW options \in WordOptions(st.usedWords),
             new = CreateNextWordSelectionState(st, options)
      PROVE  Rank(new) = Rank(st) + 1
  <2>1. /\ InPhase(new, "word_selection")
        /\ new.miniRoundNumber = st.miniRoundNumber + 1
    BY <1>1, <1>4, NextWordSelectionEffect DEF WordOptions
  <2> QED
    BY <1>1, <1>2, <1>4, <2>1 DEF Rank, InPhase
<1>5. ASSUME h.pc \in {"chooseWord", "wordSelectionTimeout"}, NEW w \in st.wordOptions,
             new = CreateDrawingState(st, w)
      PROVE  Rank(new) = Rank(st) + 1
  <2>1. InPhase(new, "drawing") /\ new.miniRoundNumber = st.miniRoundNumber
    BY <1>1, <1>2, <1>5, DrawingEffect
  <2> QED
    BY <1>1, <1>2, <1>5, <2>1 DEF Rank, InPhase
<1>6. ASSUME h.pc = "guess", NEW remaining \in RemainingTimes,
             new = ApplyCorrectGuess(st, h.who, remaining)
      PROVE  Rank(new) = Rank(st)
  <2>1. remaining \in Int
    BY LobbyAssumption, SettingsAssumption
  <2>2. /\ new.phase = st.phase /\ new.roundPhase = st.roundPhase
        /\ new.miniRoundNumber = st.miniRoundNumber
    BY <1>1, <1>6, <2>1, GuessEffect
  <2> QED
    BY <2>2 DEF Rank
<1>7. ASSUME h.pc = "hintTimeout", new = ApplyHint(st)
      PROVE  Rank(new) = Rank(st)
  BY <1>1, <1>7, HintEffect DEF Rank
<1>8. ASSUME h.pc \in {"drawingTimeout", "guessSaved"}, new = CreateRoundEndState(st)
      PROVE  Rank(new) = Rank(st) + 1
  <2>1. InPhase(new, "round_end") /\ new.miniRoundNumber = st.miniRoundNumber
    BY <1>1, <1>8, RoundEndEffect DEF InPhase
  <2> QED
    BY <1>1, <1>2, <1>8, <2>1 DEF Rank, InPhase
<1>9. ASSUME h.pc = "roundEndTimeout", new = CreateGameOverState(st)
      PROVE  Rank(new) = Rank(st) + 1
  <2>1. new.phase = "game_over" /\ new.miniRoundNumber = st.miniRoundNumber
    BY <1>1, <1>9, GameOverEffect
  <2> QED
    BY <1>1, <1>2, <1>9, <2>1 DEF Rank, InPhase
<1> QED
  BY <1>1, <1>3, <1>4, <1>5, <1>6, <1>7, <1>8, <1>9 DEF Turn

(***************************************************************************)
(* Handlers of the game in a queue q and a chunk of replies r, with the    *)
(* stored record at the rank "now".                                        *)
(***************************************************************************)
PhaseSaved == {"wordSelectionSaved", "drawingSaved", "roundEndSaved", "gameOverSaved"}

GameOf(q) == {i \in DOMAIN q : q[i].pc \in Pcs}

Ranked(q) == \A i \in GameOf(q) : Rank(q[i].st) \in Nat

(* x was issued before y: it has read or written no later a record, and an *)
(* earlier one than y if y has moved the game on.                          *)
Before(x, y) ==
  /\ Rank(x.st) <= Rank(y.st)
  /\ y.pc \in PhaseSaved => Rank(x.st) < Rank(y.st)

InOrder(q, r) ==
  /\ \A i, j \in GameOf(q) : i < j => Before(q[i], q[j])
  /\ \A i \in GameOf(r), j \in GameOf(q) : Before(r[i], q[j])

(* Nothing in the queue is more than one phase behind, a move not at all;  *)
(* nothing in the chunk is more than two, or one while the chunk still has *)
(* a handler that can move the game on.                                    *)
Near(q, r, now) ==
  /\ \A i \in GameOf(q) :
       /\ Rank(q[i].st) <= now /\ now <= Rank(q[i].st) + 1
       /\ q[i].pc \in PhaseSaved => Rank(q[i].st) = now
  /\ \A i \in GameOf(r) : Rank(r[i].st) <= now /\ now <= Rank(r[i].st) + 2
  /\ \A i, j \in GameOf(r) : Rank(r[j].st) = now => now <= Rank(r[i].st) + 1

(* A move that is answered is the latest of its chunk, and the only one.   *)
OneMove(r, now) ==
  \A i \in GameOf(r) : r[i].pc \in PhaseSaved =>
    /\ now <= Rank(r[i].st) + 1
    /\ \A j \in GameOf(r) :
         /\ Rank(r[j].st) <= Rank(r[i].st)
         /\ r[j].pc \in PhaseSaved => i = j

Paced(q, r, now) == InOrder(q, r) /\ Near(q, r, now) /\ OneMove(r, now)

(* A handler that has read the record, or written it within a phase.       *)
LEMMA PacedAppend ==
  ASSUME NEW S, NEW q \in Seq(S), NEW r, NEW now \in Nat, Ranked(q), Ranked(r),
         NEW h \in S, h.pc \in Pcs \ PhaseSaved, Rank(h.st) = now,
         Paced(q, r, now)
  PROVE  Paced(Append(q, h), r, now)
<1> DEFINE t == Append(q, h)
           n == Len(q) + 1
<1>1. /\ t[n] = h
      /\ \A i \in DOMAIN q : t[i] = q[i] /\ i < n /\ i \in Nat
      /\ \A i \in DOMAIN t : i \in DOMAIN q \/ i = n
      /\ n \in Nat
  BY PlacesAppended, Places
<1> HIDE DEF t, n
<1>2. /\ \A i \in GameOf(t) : \/ i \in GameOf(q) /\ t[i] = q[i] /\ i < n
                              \/ i = n /\ t[i] = h
      /\ \A i \in GameOf(q) : i \in Nat
  BY <1>1 DEF GameOf
<1>3. InOrder(t, r)
  <2>1. ASSUME NEW i \in GameOf(t), NEW j \in GameOf(t), i < j
        PROVE  Before(t[i], t[j])
    <3>1. CASE j \in GameOf(q) /\ t[j] = q[j] /\ j < n
      <4>1. i \in GameOf(q) /\ t[i] = q[i]
        BY <1>1, <1>2, <2>1, <3>1
      <4> QED
        BY <2>1, <3>1, <4>1 DEF Paced, InOrder
    <3>2. CASE j = n /\ t[j] = h
      <4>1. i \in GameOf(q) /\ t[i] = q[i]
        BY <1>1, <1>2, <2>1, <3>2
      <4>2. Rank(q[i].st) <= now
        BY <4>1 DEF Paced, Near
      <4> QED
        BY <3>2, <4>1, <4>2 DEF Before
    <3> QED
      BY <1>2, <3>1, <3>2
  <2>2. ASSUME NEW i \in GameOf(r), NEW j \in GameOf(t)
        PROVE  Before(r[i], t[j])
    <3>1. Rank(r[i].st) <= now
      BY DEF Paced, Near
    <3>2. j \in GameOf(q) => Before(r[i], q[j])
      BY DEF Paced, InOrder
    <3> QED
      BY <1>2, <3>1, <3>2 DEF Before
  <2> QED
    BY <2>1, <2>2 DEF InOrder
<1>4. Near(t, r, now)
  BY <1>2 DEF Paced, Near
<1> QED
  BY <1>3, <1>4 DEF Paced, t

(* A handler that ends, or goes on with nothing that concerns the store.   *)
LEMMA PacedRemove ==
  ASSUME NEW S, NEW r \in Seq(S), NEW i \in DOMAIN r, NEW q, NEW now,
         Paced(q, r, now)
  PROVE  Paced(q, RemoveAt(r, i), now)
<1> DEFINE t == RemoveAt(r, i)
<1>1. /\ \A j \in DOMAIN t : Was(i, j) \in DOMAIN r /\ t[j] = r[Was(i, j)]
      /\ \A j, k \in DOMAIN t : Was(i, j) = Was(i, k) => j = k
  BY PlacesRemoved
<1> HIDE DEF t
<1>2. \A j \in GameOf(t) : Was(i, j) \in GameOf(r) /\ t[j] = r[Was(i, j)]
  BY <1>1 DEF GameOf
<1>3. \A j, k \in GameOf(t) : Was(i, j) = Was(i, k) => j = k
  BY <1>1 DEF GameOf
<1>4. InOrder(q, t)
  BY <1>2 DEF Paced, InOrder
<1>5. Near(q, t, now)
  BY <1>2 DEF Paced, Near
<1>6. OneMove(t, now)
  BY <1>2, <1>3 DEF Paced, OneMove
<1> QED
  BY <1>4, <1>5, <1>6 DEF Paced, t

(* A chunk of replies arrives.                                             *)
LEMMA PacedCut ==
  ASSUME NEW S, NEW q \in Seq(S), NEW n \in 1..Len(q), NEW now \in Nat, Ranked(q),
         Paced(q, <<>>, now)
  PROVE  Paced(SubSeq(q, n + 1, Len(q)), SubSeq(q, 1, n), now)
<1> DEFINE r == SubSeq(q, 1, n)
           t == SubSeq(q, n + 1, Len(q))
<1>1. /\ \A i \in DOMAIN r : i \in DOMAIN q /\ i <= n /\ r[i] = q[i]
      /\ \A i \in DOMAIN t : n + i \in DOMAIN q /\ i \in Nat /\ i > 0 /\ t[i] = q[n + i]
      /\ \A i \in DOMAIN q : i \in Nat
      /\ n \in Nat
  BY PlacesCut, Places
<1> HIDE DEF r, t
<1>2. /\ \A i \in GameOf(r) : i \in GameOf(q) /\ i \in Nat /\ i <= n /\ r[i] = q[i]
      /\ \A i \in GameOf(t) : n + i \in GameOf(q) /\ i \in Nat /\ i > 0 /\ t[i] = q[n + i]
  BY <1>1 DEF GameOf
<1>3. \A i, j \in GameOf(q) : i < j => Before(q[i], q[j])
  BY DEF Paced, InOrder
<1>4. \A i \in GameOf(q) : /\ Rank(q[i].st) <= now /\ now <= Rank(q[i].st) + 1
                           /\ q[i].pc \in PhaseSaved => Rank(q[i].st) = now
                           /\ Rank(q[i].st) \in Nat
  BY DEF Paced, Near, Ranked
<1>5. InOrder(t, r)
  <2>1. ASSUME NEW i \in GameOf(t), NEW j \in GameOf(t), i < j
        PROVE  Before(t[i], t[j])
    <3>1. n + i < n + j
      BY <1>1, <1>2, <2>1
    <3> QED
      BY <1>2, <1>3, <3>1
  <2>2. ASSUME NEW i \in GameOf(r), NEW j \in GameOf(t)
        PROVE  Before(r[i], t[j])
    <3>1. i < n + j
      BY <1>1, <1>2
    <3> QED
      BY <1>2, <1>3, <3>1
  <2> QED
    BY <2>1, <2>2 DEF InOrder
<1>6. Near(t, r, now)
  <2>1. \A i \in GameOf(r) : /\ Rank(r[i].st) <= now /\ now <= Rank(r[i].st) + 1
                             /\ now <= Rank(r[i].st) + 2
    BY <1>2, <1>4
  <2> QED
    BY <1>2, <1>4, <2>1 DEF Near
<1>7. OneMove(r, now)
  <2> SUFFICES ASSUME NEW i \in GameOf(r), r[i].pc \in PhaseSaved
               PROVE  /\ now <= Rank(r[i].st) + 1
                      /\ \A j \in GameOf(r) :
                           /\ Rank(r[j].st) <= Rank(r[i].st)
                           /\ r[j].pc \in PhaseSaved => i = j
    BY DEF OneMove
  <2>1. Rank(r[i].st) = now /\ now <= Rank(r[i].st) + 1
    BY <1>2, <1>4
  <2>2. ASSUME NEW j \in GameOf(r)
        PROVE  Rank(r[j].st) <= Rank(r[i].st)
    BY <1>2, <1>4, <2>1
  <2>3. ASSUME NEW j \in GameOf(r), r[j].pc \in PhaseSaved
        PROVE  i = j
    <3>1. Rank(r[j].st) = now
      BY <1>2, <1>4, <2>3
    <3>2. ~(i < j)
      BY <1>2, <1>3, <1>4, <2>1, <2>3, <3>1 DEF Before
    <3>3. ~(j < i)
      BY <1>2, <1>3, <1>4, <2>1, <3>1 DEF Before
    <3> QED
      BY <1>2, <3>2, <3>3
  <2> QED
    BY <2>1, <2>2, <2>3
<1> QED
  BY <1>5, <1>6, <1>7 DEF Paced, r, t

(* The i-th handler of the chunk moves the game on.                        *)
LEMMA PacedMove ==
  ASSUME NEW S, NEW q \in Seq(S), NEW r \in Seq(S), NEW i \in GameOf(r),
         NEW now \in Nat, Ranked(q), Ranked(r), Rank(r[i].st) = now,
         NEW h \in S, h.pc \in Pcs, Rank(h.st) = now + 1,
         Paced(q, r, now)
  PROVE  Paced(Append(q, h), RemoveAt(r, i), now + 1)
<1> DEFINE t == Append(q, h)
           n == Len(q) + 1
           u == RemoveAt(r, i)
<1>1. /\ t[n] = h
      /\ \A j \in DOMAIN q : t[j] = q[j] /\ j < n /\ j \in Nat
      /\ \A j \in DOMAIN t : j \in DOMAIN q \/ j = n
      /\ n \in Nat
  BY PlacesAppended, Places
<1>2. /\ \A j \in DOMAIN u : Was(i, j) \in DOMAIN r /\ u[j] = r[Was(i, j)]
      /\ \A j, k \in DOMAIN u : Was(i, j) = Was(i, k) => j = k
  BY PlacesRemoved DEF GameOf
<1> HIDE DEF t, n, u
<1>3. /\ \A j \in GameOf(t) : \/ j \in GameOf(q) /\ t[j] = q[j] /\ j < n
                              \/ j = n /\ t[j] = h
      /\ \A j \in GameOf(q) : j \in Nat
  BY <1>1 DEF GameOf
<1>4. \A j \in GameOf(u) : Was(i, j) \in GameOf(r) /\ u[j] = r[Was(i, j)]
  BY <1>2 DEF GameOf
<1>5. \A j, k \in GameOf(u) : Was(i, j) = Was(i, k) => j = k
  BY <1>2 DEF GameOf
<1>6. \A j \in GameOf(q) : Rank(q[j].st) = now /\ q[j].pc \notin PhaseSaved
  BY DEF Paced, InOrder, Near, Before, Ranked
<1>7. \A j \in GameOf(r) : Rank(r[j].st) <= now /\ now <= Rank(r[j].st) + 1
                           /\ Rank(r[j].st) \in Nat
  BY DEF Paced, Near, Ranked
<1>8. InOrder(t, u)
  <2>1. ASSUME NEW j \in GameOf(t), NEW k \in GameOf(t), j < k
        PROVE  Before(t[j], t[k])
    <3>1. j \in GameOf(q) /\ t[j] = q[j]
      BY <1>1, <1>3, <2>1
    <3>2. CASE k \in GameOf(q) /\ t[k] = q[k]
      BY <1>6, <3>1, <3>2 DEF Before
    <3>3. CASE t[k] = h
      BY <1>6, <3>1, <3>3 DEF Before
    <3> QED
      BY <1>3, <3>2, <3>3
  <2>2. ASSUME NEW j \in GameOf(u), NEW k \in GameOf(t)
        PROVE  Before(u[j], t[k])
    BY <1>3, <1>4, <1>6, <1>7 DEF Before
  <2> QED
    BY <2>1, <2>2 DEF InOrder
<1>9. Near(t, u, now + 1)
  <2>1. \A j \in GameOf(t) :
          /\ Rank(t[j].st) <= now + 1 /\ now + 1 <= Rank(t[j].st) + 1
          /\ t[j].pc \in PhaseSaved => Rank(t[j].st) = now + 1
    BY <1>3, <1>6
  <2>2. \A j \in GameOf(u) : /\ Rank(u[j].st) <= now /\ now <= Rank(u[j].st) + 1
                             /\ Rank(u[j].st) \in Nat
    BY <1>4, <1>7
  <2> QED
    BY <2>1, <2>2 DEF Near
<1>10. OneMove(u, now + 1)
  <2> SUFFICES ASSUME NEW j \in GameOf(u), u[j].pc \in PhaseSaved
               PROVE  /\ now + 1 <= Rank(u[j].st) + 1
                      /\ \A k \in GameOf(u) :
                           /\ Rank(u[k].st) <= Rank(u[j].st)
                           /\ u[k].pc \in PhaseSaved => j = k
    BY DEF OneMove
  <2>1. \A k \in GameOf(r) :
          /\ Rank(r[k].st) <= Rank(u[j].st)
          /\ r[k].pc \in PhaseSaved => Was(i, j) = k
    BY <1>4 DEF Paced, OneMove
  <2>2. now <= Rank(u[j].st) /\ Rank(u[j].st) \in Nat
    BY <1>4, <1>7, <2>1
  <2>3. \A k \in GameOf(u) :
          /\ Rank(u[k].st) <= Rank(u[j].st)
          /\ u[k].pc \in PhaseSaved => Was(i, j) = Was(i, k)
    BY <1>4, <2>1
  <2> QED
    BY <1>5, <2>2, <2>3
<1> QED
  BY <1>8, <1>9, <1>10 DEF Paced, t, u

(***************************************************************************)
(* The handlers of the game in flight, wherever they wait.                 *)
(***************************************************************************)
Flying(q, r) == {q[i] : i \in GameOf(q)} \cup {r[i] : i \in GameOf(r)}

FlyingOK(q, r) == \A x \in Flying(q, r) : HandlerOK(x)

LEMMA FlyingAppend ==
  ASSUME NEW S, NEW q \in Seq(S), NEW r, NEW h \in S, h.pc \in Pcs
  PROVE  Flying(Append(q, h), r) = Flying(q, r) \cup {h}
<1> DEFINE t == Append(q, h)
           n == Len(q) + 1
<1>1. /\ n \in DOMAIN t /\ t[n] = h
      /\ DOMAIN q \subseteq DOMAIN t
      /\ \A i \in DOMAIN q : t[i] = q[i]
      /\ \A i \in DOMAIN t : i \in DOMAIN q \/ i = n
  BY PlacesAppended
<1> HIDE DEF t, n
<1>2. {t[i] : i \in GameOf(t)} = {q[i] : i \in GameOf(q)} \cup {h}
  BY <1>1 DEF GameOf
<1> QED
  BY <1>2 DEF Flying, t

LEMMA FlyingRemove ==
  ASSUME NEW S, NEW r \in Seq(S), NEW i \in DOMAIN r, NEW q
  PROVE  /\ Flying(q, RemoveAt(r, i)) \subseteq Flying(q, r)
         /\ Flying(q, r) \subseteq Flying(q, RemoveAt(r, i)) \cup {r[i]}
<1> DEFINE u == RemoveAt(r, i)
<1>1. /\ \A j \in DOMAIN u : Was(i, j) \in DOMAIN r /\ u[j] = r[Was(i, j)]
      /\ \A k \in DOMAIN r \ {i} : \E j \in DOMAIN u : Was(i, j) = k
  BY PlacesRemoved
<1> HIDE DEF u
<1>2. \A j \in GameOf(u) : Was(i, j) \in GameOf(r) /\ u[j] = r[Was(i, j)]
  BY <1>1 DEF GameOf
<1>3. \A k \in GameOf(r) \ {i} : \E j \in GameOf(u) : u[j] = r[k]
  BY <1>1 DEF GameOf
<1> QED
  BY <1>2, <1>3 DEF Flying, u

LEMMA FlyingCut ==
  ASSUME NEW S, NEW q \in Seq(S), NEW n \in 1..Len(q)
  PROVE  Flying(SubSeq(q, n + 1, Len(q)), SubSeq(q, 1, n)) = Flying(q, <<>>)
<1> DEFINE r == SubSeq(q, 1, n)
           t == SubSeq(q, n + 1, Len(q))
<1>1. /\ \A i \in DOMAIN r : i \in DOMAIN q /\ r[i] = q[i]
      /\ \A i \in DOMAIN t : n + i \in DOMAIN q /\ t[i] = q[n + i]
      /\ \A i \in DOMAIN q : i \in DOMAIN r \/ (i - n \in DOMAIN t /\ n + (i - n) = i)
  BY PlacesCut
<1> HIDE DEF r, t
<1>2. /\ \A i \in GameOf(r) : i \in GameOf(q) /\ r[i] = q[i]
      /\ \A i \in GameOf(t) : n + i \in GameOf(q) /\ t[i] = q[n + i]
      /\ \A i \in GameOf(q) : \/ i \in GameOf(r) /\ r[i] = q[i]
                              \/ i - n \in GameOf(t) /\ t[i - n] = q[i]
  BY <1>1 DEF GameOf
<1>3. GameOf(<<>>) = {}
  BY EmptySeq DEF GameOf
<1>4. Flying(t, r) \subseteq Flying(q, <<>>)
  <2>1. \A i \in GameOf(r) : r[i] \in Flying(q, <<>>)
    BY <1>2 DEF Flying
  <2>2. \A i \in GameOf(t) : t[i] \in Flying(q, <<>>)
    BY <1>2 DEF Flying
  <2> QED
    BY <2>1, <2>2 DEF Flying
<1>5. ASSUME NEW i \in GameOf(q)
      PROVE  q[i] \in Flying(t, r)
  BY <1>2 DEF Flying
<1>6. Flying(q, <<>>) \subseteq Flying(t, r)
  BY <1>3, <1>5 DEF Flying
<1> QED
  BY <1>4, <1>6 DEF r, t

(***************************************************************************)
(* The timers of a game with the record st.                                *)
(***************************************************************************)
(* A handler waits at pc that has read or written the phase the game is in.*)
Now(F, st, pc) == \E h \in F : h.pc = pc /\ Rank(h.st) = Rank(st)

(* Until a move has been answered and its timer set, the game does not     *)
(* leave the phase it moved to; the leader alone may be quicker and choose *)
(* before the choice is timed.                                             *)
Awaited(F, st) ==
  \A h \in F :
    /\ h.pc = "wordSelectionSaved" => st.phase = "in_game"
    /\ h.pc \in {"drawingSaved", "roundEndSaved"} => Rank(h.st) = Rank(st)
    /\ h.pc = "gameOverSaved" => st.phase = "game_over"

(* No guess of the round is answered before its drawing is.                *)
GuessesWait(q, r, st) ==
  /\ \A i \in GameOf(q) :
       q[i].pc = "drawingSaved" => ~Now(Flying(q, r), st, "guessSaved")
  /\ \A i, j \in GameOf(r) :
       r[i].pc = "drawingSaved" /\ r[j].pc = "guessSaved" => Rank(r[j].st) # Rank(st)

(* A timer is not pending while its setting or its firing is under way.    *)
SetOnce(F, st, ts) ==
  /\ Now(F, st, "drawingSaved") =>
       ts.drawing = 0 /\ ts.hints.pending = 0 /\ ~Now(F, st, "drawingTimeout")
  /\ Now(F, st, "roundEndSaved") => ts.roundEnd = 0 /\ ~Now(F, st, "roundEndTimeout")
  /\ Now(F, st, "drawingTimeout") => ts.drawing = 0
  /\ Now(F, st, "roundEndTimeout") => ts.roundEnd = 0

(* The timers that end a drawing or a pause, and those of the hints, are   *)
(* pending in their phase and their round only.                            *)
InTheirPhase(st, ts) ==
  /\ ts.drawing # 0 => InPhase(st, "drawing") /\ ts.drawing = st.miniRoundNumber
  /\ ts.roundEnd # 0 => InPhase(st, "round_end") /\ ts.roundEnd = st.miniRoundNumber
  /\ ts.hints.pending # 0 =>
       InPhase(st, "drawing") /\ ts.hints.miniRound = st.miniRoundNumber

(* The timer of the phase is pending, or will be, or has just fired.       *)
Timed(F, st, ts) ==
  /\ st.phase = "lobby" => ts = NoTimers
  /\ st.phase = "game_over" => ts = NoTimers \/ Now(F, st, "gameOverSaved")
  /\ InPhase(st, "word_selection") =>
       \/ ts.wordSelection = st.miniRoundNumber
       \/ Now(F, st, "wordSelectionSaved") \/ Now(F, st, "wordSelectionTimeout")
  /\ InPhase(st, "drawing") =>
       \/ ts.drawing = st.miniRoundNumber
       \/ Now(F, st, "drawingSaved") \/ Now(F, st, "drawingTimeout")
  /\ InPhase(st, "round_end") =>
       \/ ts.roundEnd = st.miniRoundNumber
       \/ Now(F, st, "roundEndSaved") \/ Now(F, st, "roundEndTimeout")

OnTime(q, r, st, ts) ==
  /\ Awaited(Flying(q, r), st)
  /\ GuessesWait(q, r, st)
  /\ SetOnce(Flying(q, r), st, ts)
  /\ InTheirPhase(st, ts)
  /\ Timed(Flying(q, r), st, ts)

TimersType ==
  [ wordSelection : Nat, drawing : Nat, roundEnd : Nat,
    hints : [miniRound : Nat, pending : Nat] ]

(***************************************************************************)
(* The steps of the game keep the pace and the timers.                     *)
(***************************************************************************)
Kept(q, r, st, ts) == Paced(q, r, Rank(st)) /\ OnTime(q, r, st, ts)

LEMMA RanksOK ==
  ASSUME NEW q, NEW r, FlyingOK(q, r)
  PROVE  Ranked(q) /\ Ranked(r)
<1>1. \A x \in Flying(q, r) : Rank(x.st) \in Nat
  BY RankOf DEF FlyingOK, HandlerOK
<1> QED
  BY <1>1 DEF Ranked, Flying

LoadPcs == {"startGame", "chooseWord", "guess", "wordSelectionTimeout",
            "hintTimeout", "drawingTimeout", "roundEndTimeout"}

(* A handler that has read the record.                                     *)
LEMMA LoadKept ==
  ASSUME NEW S, NEW q \in Seq(S), NEW r, NEW st, RoomOK(st), FlyingOK(q, r),
         NEW h \in S, h.pc \in LoadPcs, h.st = st,
         Paced(q, r, Rank(st)), Awaited(Flying(q, r), st), GuessesWait(q, r, st)
  PROVE  /\ Paced(Append(q, h), r, Rank(st))
         /\ Flying(Append(q, h), r) = Flying(q, r) \cup {h}
         /\ Awaited(Flying(Append(q, h), r), st)
         /\ GuessesWait(Append(q, h), r, st)
<1> DEFINE t == Append(q, h)
<1>1. h.pc \in Pcs \ PhaseSaved /\ h.pc # "guessSaved"
  BY DEF LoadPcs, Pcs, PhaseSaved
<1>2. Rank(st) \in Nat /\ Ranked(q) /\ Ranked(r)
  BY RankOf, RanksOK
<1>3. Paced(t, r, Rank(st))
  BY <1>1, <1>2, PacedAppend
<1>4. Flying(t, r) = Flying(q, r) \cup {h}
  BY <1>1, FlyingAppend
<1>5. Awaited(Flying(t, r), st)
  BY <1>1, <1>4 DEF Awaited, PhaseSaved
<1>6. GuessesWait(t, r, st)
  <2>1. \A i \in GameOf(t) : (i \in GameOf(q) /\ t[i] = q[i]) \/ t[i] = h
    BY PlacesAppended DEF GameOf
  <2>2. Now(Flying(t, r), st, "guessSaved") => Now(Flying(q, r), st, "guessSaved")
    BY <1>1, <1>4 DEF Now
  <2> HIDE DEF t
  <2> QED
    BY <1>1, <2>1, <2>2 DEF GuessesWait, PhaseSaved
<1> QED
  BY <1>3, <1>4, <1>5, <1>6

LEMMA RequestKept ==
  ASSUME NEW S, NEW q \in Seq(S), NEW r, NEW st, RoomOK(st), FlyingOK(q, r), NEW ts,
         NEW h \in S, h.pc \in {"startGame", "chooseWord", "guess"}, h.st = st,
         Kept(q, r, st, ts)
  PROVE  Kept(Append(q, h), r, st, ts)
<1> DEFINE F == Flying(q, r)
           G == Flying(Append(q, h), r)
<1>1. /\ Paced(Append(q, h), r, Rank(st)) /\ G = F \cup {h}
      /\ Awaited(G, st) /\ GuessesWait(Append(q, h), r, st)
  BY LoadKept DEF Kept, OnTime, LoadPcs
<1>2. SetOnce(F, st, ts) /\ InTheirPhase(st, ts) /\ Timed(F, st, ts)
  BY DEF Kept, OnTime
<1> HIDE DEF F, G
<1>3. \A pc : pc \notin {"startGame", "chooseWord", "guess"} =>
                (Now(G, st, pc) <=> Now(F, st, pc))
  BY <1>1 DEF Now
<1>4. SetOnce(G, st, ts)
  BY <1>2, <1>3 DEF SetOnce
<1>5. Timed(G, st, ts)
  BY <1>2, <1>3 DEF Timed
<1> QED
  BY <1>1, <1>2, <1>4, <1>5 DEF Kept, OnTime, G

(* A timer fires: its handler has read the record, or turns away.          *)
Fired(q, t, h, accepted) == t = IF accepted THEN Append(q, h) ELSE q

LEMMA FiredKept ==
  ASSUME NEW S, NEW q \in Seq(S), NEW r, NEW st, RoomOK(st), FlyingOK(q, r),
         NEW h \in S, h.pc \in LoadPcs, h.st = st, NEW accepted \in BOOLEAN,
         NEW t, Fired(q, t, h, accepted),
         Paced(q, r, Rank(st)), Awaited(Flying(q, r), st), GuessesWait(q, r, st)
  PROVE  /\ Paced(t, r, Rank(st))
         /\ Flying(t, r) = IF accepted THEN Flying(q, r) \cup {h} ELSE Flying(q, r)
         /\ Awaited(Flying(t, r), st)
         /\ GuessesWait(t, r, st)
<1>1. CASE accepted
  BY <1>1, LoadKept DEF Fired
<1>2. CASE ~accepted
  BY <1>2 DEF Fired
<1> QED
  BY <1>1, <1>2

LEMMA WordSelectionFires ==
  ASSUME NEW S, NEW q \in Seq(S), NEW r, NEW st, RoomOK(st), FlyingOK(q, r),
         NEW ts \in TimersType, ts.wordSelection # 0,
         NEW h \in S, h.pc = "wordSelectionTimeout", h.st = st,
         NEW t,
         Fired(q, t, h, InPhase(st, "word_selection") /\ st.miniRoundNumber = ts.wordSelection),
         Kept(q, r, st, ts)
  PROVE  Kept(t, r, st, [ts EXCEPT !.wordSelection = 0])
<1> DEFINE F == Flying(q, r)
           G == Flying(t, r)
           accepted == InPhase(st, "word_selection") /\ st.miniRoundNumber = ts.wordSelection
           us == [ts EXCEPT !.wordSelection = 0]
<1>1. accepted \in BOOLEAN /\ Fired(q, t, h, accepted)
  BY DEF InPhase
<1> HIDE DEF accepted
<1>2. /\ Paced(t, r, Rank(st)) /\ G = IF accepted THEN F \cup {h} ELSE F
      /\ Awaited(G, st) /\ GuessesWait(t, r, st)
  BY <1>1, FiredKept DEF Kept, OnTime, LoadPcs
<1>3. SetOnce(F, st, ts) /\ InTheirPhase(st, ts) /\ Timed(F, st, ts)
  BY DEF Kept, OnTime
<1>4. us.drawing = ts.drawing /\ us.roundEnd = ts.roundEnd /\ us.hints = ts.hints
  BY DEF TimersType
<1> HIDE DEF F, G, us
<1>5. \A pc : pc # "wordSelectionTimeout" => (Now(G, st, pc) <=> Now(F, st, pc))
  BY <1>2 DEF Now
<1>6. \A pc : Now(F, st, pc) => Now(G, st, pc)
  BY <1>2 DEF Now
<1>7. accepted => Now(G, st, "wordSelectionTimeout")
  BY <1>2 DEF Now
<1>8. SetOnce(G, st, us)
  BY <1>3, <1>4, <1>5 DEF SetOnce
<1>9. InTheirPhase(st, us)
  BY <1>3, <1>4 DEF InTheirPhase
<1>10. Timed(G, st, us)
  <2>1. ts # NoTimers
    BY DEF NoTimers
  <2>2. st.phase = "game_over" => Now(G, st, "gameOverSaved")
    BY <1>3, <1>6, <2>1 DEF Timed
  <2>3. st.phase # "lobby"
    BY <1>3, <2>1 DEF Timed
  <2>4. InPhase(st, "word_selection") =>
          Now(G, st, "wordSelectionSaved") \/ Now(G, st, "wordSelectionTimeout")
    BY <1>3, <1>6, <1>7 DEF Timed, accepted
  <2>5. InPhase(st, "drawing") =>
          \/ us.drawing = st.miniRoundNumber
          \/ Now(G, st, "drawingSaved") \/ Now(G, st, "drawingTimeout")
    BY <1>3, <1>4, <1>6 DEF Timed
  <2>6. InPhase(st, "round_end") =>
          \/ us.roundEnd = st.miniRoundNumber
          \/ Now(G, st, "roundEndSaved") \/ Now(G, st, "roundEndTimeout")
    BY <1>3, <1>4, <1>6 DEF Timed
  <2> QED
    BY <2>2, <2>3, <2>4, <2>5, <2>6 DEF Timed
<1> QED
  BY <1>2, <1>8, <1>9, <1>10 DEF Kept, OnTime, G, us

LEMMA HintFires ==
  ASSUME NEW S, NEW q \in Seq(S), NEW r, NEW st, RoomOK(st), FlyingOK(q, r),
         NEW ts \in TimersType, ts.hints.pending # 0,
         NEW h \in S, h.pc = "hintTimeout", h.st = st,
         NEW accepted \in BOOLEAN, NEW t, Fired(q, t, h, accepted),
         Kept(q, r, st, ts)
  PROVE  Kept(t, r, st, [ts EXCEPT !.hints.pending = @ - 1])
<1> DEFINE F == Flying(q, r)
           G == Flying(t, r)
           us == [ts EXCEPT !.hints.pending = @ - 1]
<1>1. /\ Paced(t, r, Rank(st)) /\ G = IF accepted THEN F \cup {h} ELSE F
      /\ Awaited(G, st) /\ GuessesWait(t, r, st)
  BY FiredKept DEF Kept, OnTime, LoadPcs
<1>2. SetOnce(F, st, ts) /\ InTheirPhase(st, ts) /\ Timed(F, st, ts)
  BY DEF Kept, OnTime
<1>3. /\ us.wordSelection = ts.wordSelection /\ us.drawing = ts.drawing
      /\ us.roundEnd = ts.roundEnd /\ us.hints.miniRound = ts.hints.miniRound
      /\ us.hints.pending = ts.hints.pending - 1
  BY DEF TimersType
<1> HIDE DEF F, G, us
<1>4. \A pc : pc # "hintTimeout" => (Now(G, st, pc) <=> Now(F, st, pc))
  BY <1>1 DEF Now
<1>5. SetOnce(G, st, us)
  BY <1>2, <1>3, <1>4 DEF SetOnce
<1>6. InTheirPhase(st, us)
  BY <1>2, <1>3 DEF InTheirPhase
<1>7. Timed(G, st, us)
  <2>1. InPhase(st, "drawing")
    BY <1>2 DEF InTheirPhase
  <2>2. \/ us.drawing = st.miniRoundNumber
        \/ Now(G, st, "drawingSaved") \/ Now(G, st, "drawingTimeout")
    BY <1>2, <1>3, <1>4, <2>1 DEF Timed
  <2> QED
    BY <2>1, <2>2 DEF Timed, InPhase
<1> QED
  BY <1>1, <1>5, <1>6, <1>7 DEF Kept, OnTime, G, us

LEMMA DrawingFires ==
  ASSUME NEW S, NEW q \in Seq(S), NEW r, NEW st, RoomOK(st), FlyingOK(q, r),
         NEW ts \in TimersType, ts.drawing # 0,
         NEW h \in S, h.pc = "drawingTimeout", h.st = st,
         NEW t, Fired(q, t, h, InPhase(st, "drawing") /\ st.miniRoundNumber = ts.drawing),
         Kept(q, r, st, ts)
  PROVE  Kept(t, r, st, [ts EXCEPT !.drawing = 0])
<1> DEFINE F == Flying(q, r)
           G == Flying(t, r)
           us == [ts EXCEPT !.drawing = 0]
<1>1. SetOnce(F, st, ts) /\ InTheirPhase(st, ts) /\ Timed(F, st, ts)
  BY DEF Kept, OnTime
<1>2. InPhase(st, "drawing") /\ st.miniRoundNumber = ts.drawing
  BY <1>1 DEF InTheirPhase
<1>3. /\ Paced(t, r, Rank(st)) /\ G = F \cup {h}
      /\ Awaited(G, st) /\ GuessesWait(t, r, st)
  BY <1>2, LoadKept DEF Kept, OnTime, LoadPcs, Fired
<1>4. us.drawing = 0 /\ us.roundEnd = ts.roundEnd /\ us.hints = ts.hints
  BY DEF TimersType
<1> HIDE DEF F, G, us
<1>5. \A pc : pc # "drawingTimeout" => (Now(G, st, pc) <=> Now(F, st, pc))
  BY <1>3 DEF Now
<1>6. Now(G, st, "drawingTimeout")
  BY <1>3 DEF Now
<1>7. SetOnce(G, st, us)
  BY <1>1, <1>4, <1>5 DEF SetOnce
<1>8. InTheirPhase(st, us)
  BY <1>1, <1>4 DEF InTheirPhase
<1>9. Timed(G, st, us)
  BY <1>2, <1>6 DEF Timed, InPhase
<1> QED
  BY <1>3, <1>7, <1>8, <1>9 DEF Kept, OnTime, G, us

LEMMA RoundEndFires ==
  ASSUME NEW S, NEW q \in Seq(S), NEW r, NEW st, RoomOK(st), FlyingOK(q, r),
         NEW ts \in TimersType, ts.roundEnd # 0,
         NEW h \in S, h.pc = "roundEndTimeout", h.st = st,
         NEW t, Fired(q, t, h, InPhase(st, "round_end") /\ st.miniRoundNumber = ts.roundEnd),
         Kept(q, r, st, ts)
  PROVE  Kept(t, r, st, [ts EXCEPT !.roundEnd = 0])
<1> DEFINE F == Flying(q, r)
           G == Flying(t, r)
           us == [ts EXCEPT !.roundEnd = 0]
<1>1. SetOnce(F, st, ts) /\ InTheirPhase(st, ts) /\ Timed(F, st, ts)
  BY DEF Kept, OnTime
<1>2. InPhase(st, "round_end") /\ st.miniRoundNumber = ts.roundEnd
  BY <1>1 DEF InTheirPhase
<1>3. /\ Paced(t, r, Rank(st)) /\ G = F \cup {h}
      /\ Awaited(G, st) /\ GuessesWait(t, r, st)
  BY <1>2, LoadKept DEF Kept, OnTime, LoadPcs, Fired
<1>4. us.roundEnd = 0 /\ us.drawing = ts.drawing /\ us.hints = ts.hints
  BY DEF TimersType
<1> HIDE DEF F, G, us
<1>5. \A pc : pc # "roundEndTimeout" => (Now(G, st, pc) <=> Now(F, st, pc))
  BY <1>3 DEF Now
<1>6. Now(G, st, "roundEndTimeout")
  BY <1>3 DEF Now
<1>7. SetOnce(G, st, us)
  BY <1>1, <1>4, <1>5 DEF SetOnce
<1>8. InTheirPhase(st, us)
  BY <1>1, <1>4 DEF InTheirPhase
<1>9. Timed(G, st, us)
  BY <1>2, <1>6 DEF Timed, InPhase
<1> QED
  BY <1>3, <1>7, <1>8, <1>9 DEF Kept, OnTime, G, us

(* A chunk of replies arrives.                                             *)
LEMMA DeliverKept ==
  ASSUME NEW S, NEW q \in Seq(S), NEW n \in 1..Len(q), NEW st, RoomOK(st),
         FlyingOK(q, <<>>), NEW ts, Kept(q, <<>>, st, ts)
  PROVE  Kept(SubSeq(q, n + 1, Len(q)), SubSeq(q, 1, n), st, ts)
<1> DEFINE r == SubSeq(q, 1, n)
           t == SubSeq(q, n + 1, Len(q))
           F == Flying(q, <<>>)
<1>1. Paced(t, r, Rank(st))
  BY RankOf, RanksOK, PacedCut DEF Kept
<1>2. Flying(t, r) = F
  BY FlyingCut
<1>3. /\ \A i \in DOMAIN r : i \in DOMAIN q /\ r[i] = q[i]
      /\ \A i \in DOMAIN t : n + i \in DOMAIN q /\ t[i] = q[n + i]
  BY PlacesCut
<1> HIDE DEF r, t
<1>4. /\ \A i \in GameOf(r) : i \in GameOf(q) /\ r[i] = q[i]
      /\ \A i \in GameOf(t) : n + i \in GameOf(q) /\ t[i] = q[n + i]
  BY <1>3 DEF GameOf
<1>5. GuessesWait(t, r, st)
  <2>1. \A i \in GameOf(q) : q[i].pc = "drawingSaved" => ~Now(F, st, "guessSaved")
    BY DEF Kept, OnTime, GuessesWait
  <2>2. \A i \in GameOf(t) : t[i].pc = "drawingSaved" => ~Now(Flying(t, r), st, "guessSaved")
    BY <1>2, <1>4, <2>1
  <2>3. ASSUME NEW i \in GameOf(r), NEW j \in GameOf(r),
               r[i].pc = "drawingSaved", r[j].pc = "guessSaved"
        PROVE  Rank(r[j].st) # Rank(st)
    <3>1. ~Now(F, st, "guessSaved")
      BY <1>4, <2>1, <2>3
    <3>2. r[j] \in F
      BY <1>2 DEF Flying
    <3> QED
      BY <2>3, <3>1, <3>2 DEF Now
  <2> QED
    BY <2>2, <2>3 DEF GuessesWait
<1> QED
  BY <1>1, <1>2, <1>5 DEF Kept, OnTime, r, t

(* The i-th handler of the chunk ends without a write.                     *)
LEMMA RemoveKept ==
  ASSUME NEW S, NEW r \in Seq(S), NEW i \in DOMAIN r, NEW q, NEW st,
         Paced(q, r, Rank(st)), Awaited(Flying(q, r), st), GuessesWait(q, r, st)
  PROVE  LET u == RemoveAt(r, i)
         IN /\ Paced(q, u, Rank(st))
            /\ Flying(q, u) \subseteq Flying(q, r)
            /\ Flying(q, r) \subseteq Flying(q, u) \cup {r[i]}
            /\ Awaited(Flying(q, u), st)
            /\ GuessesWait(q, u, st)
<1> DEFINE u == RemoveAt(r, i)
<1>1. Paced(q, u, Rank(st))
  BY PacedRemove
<1>2. Flying(q, u) \subseteq Flying(q, r) /\ Flying(q, r) \subseteq Flying(q, u) \cup {r[i]}
  BY FlyingRemove
<1>3. \A j \in DOMAIN u : Was(i, j) \in DOMAIN r /\ u[j] = r[Was(i, j)]
  BY PlacesRemoved
<1> HIDE DEF u
<1>4. \A j \in GameOf(u) : Was(i, j) \in GameOf(r) /\ u[j] = r[Was(i, j)]
  BY <1>3 DEF GameOf
<1>5. Awaited(Flying(q, u), st)
  BY <1>2 DEF Awaited
<1>6. GuessesWait(q, u, st)
  <2>1. Now(Flying(q, u), st, "guessSaved") => Now(Flying(q, r), st, "guessSaved")
    BY <1>2 DEF Now
  <2> QED
    BY <1>4, <2>1 DEF GuessesWait
<1> QED
  BY <1>1, <1>2, <1>5, <1>6 DEF u

LEMMA ArmWordSelectionKept ==
  ASSUME NEW S, NEW r \in Seq(S), NEW i \in GameOf(r), NEW q, NEW st, RoomOK(st),
         FlyingOK(q, r), NEW ts \in TimersType, r[i].pc = "wordSelectionSaved",
         Kept(q, r, st, ts)
  PROVE  Kept(q, RemoveAt(r, i), st, [ts EXCEPT !.wordSelection = r[i].st.miniRoundNumber])
<1> DEFINE F == Flying(q, r)
           G == Flying(q, RemoveAt(r, i))
           h == r[i]
           us == [ts EXCEPT !.wordSelection = h.st.miniRoundNumber]
<1>1. /\ Paced(q, RemoveAt(r, i), Rank(st)) /\ G \subseteq F /\ F \subseteq G \cup {h}
      /\ Awaited(G, st) /\ GuessesWait(q, RemoveAt(r, i), st)
  BY RemoveKept DEF Kept, OnTime, GameOf
<1>2. SetOnce(F, st, ts) /\ InTheirPhase(st, ts) /\ Timed(F, st, ts) /\ Awaited(F, st)
  BY DEF Kept, OnTime
<1>3. h \in F /\ HandlerOK(h)
  BY DEF Flying, FlyingOK
<1>4. RoomOK(h.st) /\ InPhase(h.st, "word_selection") /\ st.phase = "in_game"
  BY <1>2, <1>3 DEF HandlerOK, ReliesOn, Awaited
<1>5. Rank(h.st) <= Rank(st) /\ Rank(st) <= Rank(h.st) + 1
  BY DEF Kept, Paced, Near, OneMove, PhaseSaved
<1>6. us.drawing = ts.drawing /\ us.roundEnd = ts.roundEnd /\ us.hints = ts.hints
      /\ us.wordSelection = h.st.miniRoundNumber
  BY DEF TimersType
<1>7. InPhase(st, "word_selection") => h.st.miniRoundNumber = st.miniRoundNumber
  <2> SUFFICES ASSUME InPhase(st, "word_selection")
               PROVE  h.st.miniRoundNumber = st.miniRoundNumber
    OBVIOUS
  <2> DEFINE x == h.st.miniRoundNumber
             y == st.miniRoundNumber
  <2>1. /\ x \in Nat /\ y \in Nat
        /\ Rank(h.st) = 3 * x - 2 /\ Rank(st) = 3 * y - 2
    BY <1>4, RankOf
  <2> HIDE DEF x, y, h
  <2>2. x = y
    BY <1>5, <2>1
  <2> QED
    BY <2>2 DEF x, y
<1> HIDE DEF F, G, us, h
<1>8. \A pc : pc # "wordSelectionSaved" => (Now(G, st, pc) <=> Now(F, st, pc))
  BY <1>1 DEF Now, h
<1>9. SetOnce(G, st, us)
  BY <1>2, <1>6, <1>8 DEF SetOnce
<1>10. InTheirPhase(st, us)
  BY <1>2, <1>6 DEF InTheirPhase
<1>11. Timed(G, st, us)
  BY <1>2, <1>4, <1>6, <1>7, <1>8 DEF Timed
<1> QED
  BY <1>1, <1>9, <1>10, <1>11 DEF Kept, OnTime, G, us, h

(* A move that is answered in its phase was the last one.                  *)
LEMMA OnlyMove ==
  ASSUME NEW S, NEW r \in Seq(S), NEW i \in GameOf(r), NEW q, NEW st, RoomOK(st),
         FlyingOK(q, r), r[i].pc \in PhaseSaved, Rank(r[i].st) = Rank(st),
         Paced(q, r, Rank(st))
  PROVE  \A h \in Flying(q, RemoveAt(r, i)) : h.pc \notin PhaseSaved
<1> DEFINE u == RemoveAt(r, i)
<1>1. /\ \A j \in DOMAIN u : Was(i, j) \in DOMAIN r \ {i} /\ u[j] = r[Was(i, j)]
  BY PlacesRemoved DEF GameOf
<1> HIDE DEF u
<1>2. \A j \in GameOf(u) : Was(i, j) \in GameOf(r) \ {i} /\ u[j] = r[Was(i, j)]
  BY <1>1 DEF GameOf
<1>3. \A j \in GameOf(u) : u[j].pc \notin PhaseSaved
  BY <1>2 DEF Paced, OneMove
<1>4. ASSUME NEW j \in GameOf(q), q[j].pc \in PhaseSaved
      PROVE  FALSE
  <2>1. Rank(r[i].st) < Rank(q[j].st)
    BY <1>4 DEF Paced, InOrder, Before
  <2>2. Rank(q[j].st) = Rank(st)
    BY <1>4 DEF Paced, Near
  <2>3. Rank(st) \in Nat
    BY RankOf
  <2> QED
    BY <2>1, <2>2, <2>3
<1> QED
  BY <1>3, <1>4 DEF Flying, u

LEMMA ArmDrawingKept ==
  ASSUME NEW S, NEW r \in Seq(S), NEW i \in GameOf(r), NEW q, NEW st, RoomOK(st),
         FlyingOK(q, r), NEW ts \in TimersType, r[i].pc = "drawingSaved",
         Kept(q, r, st, ts),
         NEW us, us = [SetHints(ts, r[i].st.miniRoundNumber)
                         EXCEPT !.drawing = r[i].st.miniRoundNumber]
  PROVE  /\ Kept(q, RemoveAt(r, i), st, us)
         /\ InPhase(st, "drawing") /\ Rank(r[i].st) = Rank(st)
         /\ r[i].st.miniRoundNumber = st.miniRoundNumber
<1> DEFINE F == Flying(q, r)
           G == Flying(q, RemoveAt(r, i))
           h == r[i]
<1>1. /\ Paced(q, RemoveAt(r, i), Rank(st)) /\ G \subseteq F /\ F \subseteq G \cup {h}
      /\ Awaited(G, st) /\ GuessesWait(q, RemoveAt(r, i), st)
  BY RemoveKept DEF Kept, OnTime, GameOf
<1>2. SetOnce(F, st, ts) /\ InTheirPhase(st, ts) /\ Timed(F, st, ts) /\ Awaited(F, st)
  BY DEF Kept, OnTime
<1>3. h \in F /\ HandlerOK(h)
  BY DEF Flying, FlyingOK
<1>4. RoomOK(h.st) /\ InPhase(h.st, "drawing") /\ Rank(h.st) = Rank(st)
  BY <1>2, <1>3 DEF HandlerOK, ReliesOn, Awaited
<1>5. InPhase(st, "drawing") /\ h.st.miniRoundNumber = st.miniRoundNumber
  BY <1>4, SameRank
<1>6. /\ us.drawing = st.miniRoundNumber /\ us.roundEnd = ts.roundEnd
      /\ us.hints.miniRound = st.miniRoundNumber
  BY <1>5 DEF TimersType, SetHints
<1>7. \A x \in G : x.pc \notin PhaseSaved
  BY <1>4, OnlyMove DEF Kept, PhaseSaved
<1>8. Now(F, st, "drawingSaved")
  BY <1>3, <1>4 DEF Now
<1> HIDE DEF F, G, h
<1>9. \A pc : Now(G, st, pc) => Now(F, st, pc)
  BY <1>1 DEF Now
<1>10. ~Now(G, st, "drawingTimeout") /\ ~Now(G, st, "drawingSaved")
  BY <1>2, <1>7, <1>8, <1>9 DEF SetOnce, Now, PhaseSaved
<1>11. SetOnce(G, st, us)
  BY <1>2, <1>6, <1>9, <1>10 DEF SetOnce
<1>12. InTheirPhase(st, us)
  BY <1>2, <1>5, <1>6 DEF InTheirPhase
<1>13. Timed(G, st, us)
  BY <1>5, <1>6 DEF Timed, InPhase
<1> QED
  BY <1>1, <1>4, <1>5, <1>11, <1>12, <1>13 DEF Kept, OnTime, G, h

LEMMA ArmRoundEndKept ==
  ASSUME NEW S, NEW r \in Seq(S), NEW i \in GameOf(r), NEW q, NEW st, RoomOK(st),
         FlyingOK(q, r), NEW ts \in TimersType, r[i].pc = "roundEndSaved",
         Kept(q, r, st, ts)
  PROVE  Kept(q, RemoveAt(r, i), st, [ts EXCEPT !.roundEnd = r[i].st.miniRoundNumber])
<1> DEFINE F == Flying(q, r)
           G == Flying(q, RemoveAt(r, i))
           h == r[i]
           us == [ts EXCEPT !.roundEnd = h.st.miniRoundNumber]
<1>1. /\ Paced(q, RemoveAt(r, i), Rank(st)) /\ G \subseteq F /\ F \subseteq G \cup {h}
      /\ Awaited(G, st) /\ GuessesWait(q, RemoveAt(r, i), st)
  BY RemoveKept DEF Kept, OnTime, GameOf
<1>2. SetOnce(F, st, ts) /\ InTheirPhase(st, ts) /\ Timed(F, st, ts) /\ Awaited(F, st)
  BY DEF Kept, OnTime
<1>3. h \in F /\ HandlerOK(h)
  BY DEF Flying, FlyingOK
<1>4. RoomOK(h.st) /\ InPhase(h.st, "round_end") /\ Rank(h.st) = Rank(st)
  BY <1>2, <1>3 DEF HandlerOK, ReliesOn, Awaited
<1>5. InPhase(st, "round_end") /\ h.st.miniRoundNumber = st.miniRoundNumber
  BY <1>4, SameRank
<1>6. /\ us.roundEnd = st.miniRoundNumber /\ us.drawing = ts.drawing
      /\ us.hints = ts.hints
  BY <1>5 DEF TimersType
<1>7. \A x \in G : x.pc \notin PhaseSaved
  BY <1>4, OnlyMove DEF Kept, PhaseSaved
<1>8. Now(F, st, "roundEndSaved")
  BY <1>3, <1>4 DEF Now
<1> HIDE DEF F, G, h, us
<1>9. \A pc : Now(G, st, pc) => Now(F, st, pc)
  BY <1>1 DEF Now
<1>10. ~Now(G, st, "roundEndTimeout") /\ ~Now(G, st, "roundEndSaved")
  BY <1>2, <1>7, <1>8, <1>9 DEF SetOnce, Now, PhaseSaved
<1>11. SetOnce(G, st, us)
  BY <1>2, <1>6, <1>9, <1>10 DEF SetOnce
<1>12. InTheirPhase(st, us)
  BY <1>2, <1>5, <1>6 DEF InTheirPhase
<1>13. Timed(G, st, us)
  BY <1>5, <1>6 DEF Timed, InPhase
<1> QED
  BY <1>1, <1>11, <1>12, <1>13 DEF Kept, OnTime, G, us, h

LEMMA ClearRoomTimersKept ==
  ASSUME NEW S, NEW r \in Seq(S), NEW i \in GameOf(r), NEW q, NEW st,
         NEW ts, r[i].pc = "gameOverSaved", Kept(q, r, st, ts)
  PROVE  Kept(q, RemoveAt(r, i), st, NoTimers)
<1> DEFINE F == Flying(q, r)
           G == Flying(q, RemoveAt(r, i))
<1>1. /\ Paced(q, RemoveAt(r, i), Rank(st)) /\ G \subseteq F
      /\ Awaited(G, st) /\ GuessesWait(q, RemoveAt(r, i), st)
  BY RemoveKept DEF Kept, OnTime, GameOf
<1>2. SetOnce(F, st, ts) /\ Awaited(F, st)
  BY DEF Kept, OnTime
<1>3. st.phase = "game_over"
  BY <1>2 DEF Flying, Awaited
<1> HIDE DEF F, G
<1>4. \A pc : Now(G, st, pc) => Now(F, st, pc)
  BY <1>1 DEF Now
<1>5. SetOnce(G, st, NoTimers)
  BY <1>2, <1>4 DEF SetOnce, NoTimers
<1>6. InTheirPhase(st, NoTimers)
  BY DEF InTheirPhase, NoTimers
<1>7. Timed(G, st, NoTimers)
  BY <1>3 DEF Timed, InPhase
<1> QED
  BY <1>1, <1>5, <1>6, <1>7 DEF Kept, OnTime, G

(* A guess that is told and does not end the round; one that is written,   *)
(* and a hint.                                                             *)
LEMMA EndKept ==
  ASSUME NEW S, NEW r \in Seq(S), NEW i \in GameOf(r), NEW q, NEW st,
         NEW ts, r[i].pc \in {"guess", "guessSaved", "hintTimeout"}, Kept(q, r, st, ts)
  PROVE  Kept(q, RemoveAt(r, i), st, ts)
<1> DEFINE F == Flying(q, r)
           G == Flying(q, RemoveAt(r, i))
<1>1. /\ Paced(q, RemoveAt(r, i), Rank(st)) /\ G \subseteq F /\ F \subseteq G \cup {r[i]}
      /\ Awaited(G, st) /\ GuessesWait(q, RemoveAt(r, i), st)
  BY RemoveKept DEF Kept, OnTime, GameOf
<1>2. SetOnce(F, st, ts) /\ InTheirPhase(st, ts) /\ Timed(F, st, ts)
  BY DEF Kept, OnTime
<1> HIDE DEF F, G
<1>3. \A pc : pc \notin {"guess", "guessSaved", "hintTimeout"} =>
                (Now(G, st, pc) <=> Now(F, st, pc))
  BY <1>1 DEF Now
<1>4. SetOnce(G, st, ts) /\ Timed(G, st, ts)
  BY <1>2, <1>3 DEF SetOnce, Timed
<1> QED
  BY <1>1, <1>2, <1>4 DEF Kept, OnTime, G

SamePhase(st, new) ==
  /\ new.phase = st.phase /\ new.roundPhase = st.roundPhase
  /\ new.miniRoundNumber = st.miniRoundNumber

LEMMA RecordKept ==
  ASSUME NEW q, NEW r, NEW st, NEW ts, Kept(q, r, st, ts), NEW new, SamePhase(st, new)
  PROVE  Kept(q, r, new, ts)
<1>1. Rank(new) = Rank(st) /\ \A phase : InPhase(new, phase) <=> InPhase(st, phase)
  BY DEF Rank, InPhase, SamePhase
<1>2. \A F, pc : Now(F, new, pc) <=> Now(F, st, pc)
  BY <1>1 DEF Now
<1>3. Paced(q, r, Rank(new))
  BY <1>1 DEF Kept
<1>4. Awaited(Flying(q, r), new)
  BY <1>1 DEF Kept, OnTime, Awaited, SamePhase
<1>5. GuessesWait(q, r, new)
  BY <1>1, <1>2 DEF Kept, OnTime, GuessesWait
<1>6. SetOnce(Flying(q, r), new, ts)
  BY <1>2 DEF Kept, OnTime, SetOnce
<1>7. InTheirPhase(new, ts)
  BY <1>1 DEF Kept, OnTime, InTheirPhase, SamePhase
<1>8. Timed(Flying(q, r), new, ts)
  BY <1>1, <1>2 DEF Kept, OnTime, Timed, SamePhase
<1> QED
  BY <1>3, <1>4, <1>5, <1>6, <1>7, <1>8 DEF Kept, OnTime

LEMMA GuessKept ==
  ASSUME NEW S, NEW q \in Seq(S), NEW r \in Seq(S), NEW i \in GameOf(r), NEW st, RoomOK(st),
         FlyingOK(q, r), NEW ts, r[i].pc = "guess", r[i].st = st, Kept(q, r, st, ts),
         NEW new, SamePhase(st, new),
         NEW h \in S, h.pc = "guessSaved", h.st = new
  PROVE  Kept(Append(q, h), RemoveAt(r, i), new, ts)
<1> DEFINE t == Append(q, h)
           u == RemoveAt(r, i)
<1>1. Rank(new) = Rank(st) /\ Rank(st) \in Nat
  BY RankOf DEF Rank, SamePhase
<1>2. Kept(q, u, st, ts)
  BY EndKept
<1>3. Flying(q, u) \subseteq Flying(q, r)
  BY FlyingRemove DEF GameOf
<1>4. FlyingOK(q, u)
  BY <1>3 DEF FlyingOK
<1>5. Paced(t, u, Rank(st))
  BY <1>1, <1>2, <1>4, RanksOK, PacedAppend DEF Kept, Pcs, PhaseSaved
<1>6. Flying(t, u) = Flying(q, u) \cup {h}
  BY FlyingAppend DEF Pcs
<1>7. \A pc : pc # "guessSaved" => (Now(Flying(t, u), st, pc) <=> Now(Flying(q, u), st, pc))
  BY <1>6 DEF Now
<1>8. Awaited(Flying(t, u), st)
  BY <1>2, <1>6 DEF Kept, OnTime, Awaited
<1>9. SetOnce(Flying(t, u), st, ts) /\ InTheirPhase(st, ts) /\ Timed(Flying(t, u), st, ts)
  BY <1>2, <1>7 DEF Kept, OnTime, SetOnce, Timed
<1>10. GuessesWait(t, u, st)
  <2>1. ASSUME NEW j \in GameOf(q), q[j].pc = "drawingSaved"
        PROVE  FALSE
    <3>1. Rank(r[i].st) < Rank(q[j].st)
      BY <2>1 DEF Kept, Paced, InOrder, Before, PhaseSaved
    <3>2. Rank(q[j].st) <= Rank(st)
      BY DEF Kept, Paced, Near
    <3>3. Rank(q[j].st) \in Nat
      BY RanksOK DEF Ranked
    <3> QED
      BY <1>1, <3>1, <3>2, <3>3
  <2>2. \A j \in GameOf(t) : (j \in GameOf(q) /\ t[j] = q[j]) \/ t[j] = h
    BY PlacesAppended DEF GameOf
  <2>3. \A j \in GameOf(t) : t[j].pc # "drawingSaved"
    BY <2>1, <2>2
  <2> QED
    BY <1>2, <2>3 DEF Kept, OnTime, GuessesWait
<1>11. Kept(t, u, st, ts)
  BY <1>5, <1>8, <1>9, <1>10 DEF Kept, OnTime
<1> QED
  BY <1>11, RecordKept

LEMMA HintKept ==
  ASSUME NEW S, NEW q, NEW r \in Seq(S), NEW i \in GameOf(r), NEW st, NEW ts,
         r[i].pc = "hintTimeout", Kept(q, r, st, ts), NEW new, SamePhase(st, new)
  PROVE  Kept(q, RemoveAt(r, i), new, ts)
<1>1. Kept(q, RemoveAt(r, i), st, ts)
  BY EndKept
<1> QED
  BY <1>1, RecordKept

(* Whoever moves the game on finds no other move under way that is not yet *)
(* answered, except for that of a choice that is made quickly.             *)
Movers == {"startGame", "chooseWord", "wordSelectionTimeout", "guessSaved",
           "drawingTimeout", "roundEndTimeout"}

LEMMA MoverIsLast ==
  ASSUME NEW S, NEW q, NEW r, NEW i \in GameOf(r), NEW st, RoomOK(st),
         FlyingOK(q, r), NEW ts, r[i].pc \in Movers, r[i].st = st, Kept(q, r, st, ts)
  PROVE  \A h \in Flying(q, r) : h.pc \in PhaseSaved =>
           h.pc = "wordSelectionSaved" /\ InPhase(st, "word_selection")
<1>1. Rank(st) \in Nat /\ Ranked(q) /\ Ranked(r)
  BY RankOf, RanksOK
<1>2. ASSUME NEW j \in GameOf(q), q[j].pc \in PhaseSaved
      PROVE  FALSE
  <2>1. Rank(st) < Rank(q[j].st) /\ Rank(q[j].st) = Rank(st)
    BY <1>2 DEF Kept, Paced, InOrder, Before, Near
  <2> QED
    BY <1>1, <2>1
<1>3. ASSUME NEW j \in GameOf(r), r[j].pc \in PhaseSaved
      PROVE  r[j].pc = "wordSelectionSaved" /\ InPhase(st, "word_selection")
  <2> DEFINE h == r[j]
  <2>1. /\ h \in Flying(q, r) /\ r[i] \in Flying(q, r)
        /\ HandlerOK(h) /\ HandlerOK(r[i])
    BY DEF Flying, FlyingOK
  <2>2. Rank(h.st) = Rank(st)
    <3>1. Rank(st) <= Rank(h.st)
      BY <1>3 DEF Kept, Paced, OneMove
    <3>2. Rank(h.st) <= Rank(st) /\ Rank(h.st) \in Nat
      BY <1>1 DEF Kept, Paced, Near, Ranked
    <3> QED
      BY <1>1, <3>1, <3>2
  <2>3. RoomOK(h.st) /\ ReliesOn(h) /\ ReliesOn(r[i])
    BY <2>1 DEF HandlerOK
  <2>4. Awaited(Flying(q, r), st) /\ SetOnce(Flying(q, r), st, ts) /\ GuessesWait(q, r, st)
    BY DEF Kept, OnTime
  <2>5. /\ r[i].pc = "startGame" => st.phase = "lobby"
        /\ r[i].pc \in {"chooseWord", "wordSelectionTimeout"} => InPhase(st, "word_selection")
        /\ r[i].pc \in {"guessSaved", "drawingTimeout"} => InPhase(st, "drawing")
        /\ r[i].pc = "roundEndTimeout" => InPhase(st, "round_end")
    BY <2>3 DEF ReliesOn
  <2>6. Now(Flying(q, r), st, r[i].pc) /\ Now(Flying(q, r), st, h.pc)
    BY <2>1, <2>2 DEF Now
  <2>7. CASE h.pc = "wordSelectionSaved"
    <3>1. InPhase(h.st, "word_selection") /\ st.phase = "in_game"
      BY <2>1, <2>3, <2>4, <2>7 DEF ReliesOn, Awaited
    <3> QED
      BY <2>2, <2>3, <2>7, <3>1, SameRank
  <2>8. CASE h.pc = "drawingSaved"
    <3>1. InPhase(st, "drawing")
      BY <2>2, <2>3, <2>8, SameRank DEF ReliesOn
    <3>2. r[i].pc \in {"guessSaved", "drawingTimeout"}
      BY <2>5, <3>1 DEF Movers, InPhase
    <3>3. r[i].pc # "drawingTimeout"
      BY <2>4, <2>6, <2>8 DEF SetOnce
    <3>4. r[i].pc # "guessSaved"
      BY <2>4, <2>8 DEF GuessesWait
    <3> QED
      BY <3>2, <3>3, <3>4
  <2>9. CASE h.pc = "roundEndSaved"
    <3>1. InPhase(st, "round_end")
      BY <2>2, <2>3, <2>9, SameRank DEF ReliesOn
    <3>2. r[i].pc = "roundEndTimeout"
      BY <2>5, <3>1 DEF Movers, InPhase
    <3> QED
      BY <2>4, <2>6, <2>9, <3>2 DEF SetOnce
  <2>10. CASE h.pc = "gameOverSaved"
    <3>1. st.phase = "game_over"
      BY <2>1, <2>4, <2>10 DEF Awaited
    <3> QED
      BY <2>5, <3>1 DEF Movers, InPhase
  <2> QED
    BY <1>3, <2>7, <2>8, <2>9, <2>10 DEF PhaseSaved
<1> QED
  BY <1>2, <1>3 DEF Flying

(* What holds of the timers when a phase begins.                           *)
Begins(pc, new, us) ==
  /\ us.drawing = 0 /\ us.roundEnd = 0 /\ us.hints.pending = 0
  /\ \/ pc = "wordSelectionSaved" /\ InPhase(new, "word_selection")
     \/ pc = "drawingSaved" /\ InPhase(new, "drawing")
     \/ pc = "roundEndSaved" /\ InPhase(new, "round_end")
     \/ pc = "gameOverSaved" /\ new.phase = "game_over"

LEMMA MoveKept ==
  ASSUME NEW S, NEW q \in Seq(S), NEW r \in Seq(S), NEW i \in GameOf(r), NEW st, RoomOK(st),
         FlyingOK(q, r), NEW ts, r[i].pc \in Movers, r[i].st = st, Kept(q, r, st, ts),
         NEW new, Rank(new) = Rank(st) + 1, NEW us,
         NEW h \in S, h.st = new, Begins(h.pc, new, us),
         InPhase(st, "word_selection") => new.phase = "in_game"
  PROVE  Kept(Append(q, h), RemoveAt(r, i), new, us)
<1> DEFINE t == Append(q, h)
           u == RemoveAt(r, i)
           F == Flying(q, r)
           G == Flying(t, u)
<1>1. Rank(st) \in Nat /\ Ranked(q) /\ Ranked(r) /\ h.pc \in Pcs
  BY RankOf, RanksOK DEF Begins, Pcs
<1>2. Paced(t, u, Rank(new))
  BY <1>1, PacedMove DEF Kept
<1>3. G \subseteq F \cup {h} /\ h \in G
  <2>1. Flying(q, u) \subseteq F
    BY FlyingRemove DEF GameOf
  <2>2. G = Flying(q, u) \cup {h}
    BY <1>1, FlyingAppend
  <2> QED
    BY <2>1, <2>2
<1>4. \A x \in F : x.pc \in PhaseSaved =>
        x.pc = "wordSelectionSaved" /\ InPhase(st, "word_selection")
  BY MoverIsLast
<1>5. \A x \in F : Rank(x.st) # Rank(new)
  <2>1. \A x \in F : Rank(x.st) <= Rank(st) /\ Rank(x.st) \in Nat
    BY <1>1 DEF Kept, Paced, Near, Ranked, Flying
  <2> QED
    BY <1>1, <2>1
<1>6. \A j \in GameOf(t) : (j \in GameOf(q) /\ t[j] = q[j]) \/ t[j] = h
  BY PlacesAppended DEF GameOf
<1>7. \A j \in GameOf(u) : u[j] \in F
  <2>1. Flying(q, u) \subseteq F
    BY FlyingRemove DEF GameOf
  <2>2. \A j \in GameOf(u) : u[j] \in Flying(q, u)
    BY DEF Flying
  <2> QED
    BY <2>1, <2>2
<1>8. \A j \in GameOf(q) : q[j] \in F
  BY DEF Flying
<1> HIDE DEF t, u, F, G
<1>9. \A pc : Now(G, new, pc) <=> pc = h.pc
  BY <1>3, <1>5 DEF Now
<1>10. Awaited(G, new)
  <2> SUFFICES ASSUME NEW x \in G
               PROVE  /\ x.pc = "wordSelectionSaved" => new.phase = "in_game"
                      /\ x.pc \in {"drawingSaved", "roundEndSaved"} => Rank(x.st) = Rank(new)
                      /\ x.pc = "gameOverSaved" => new.phase = "game_over"
    BY DEF Awaited
  <2>1. CASE x = h
    BY <2>1 DEF Begins, InPhase
  <2>2. CASE x \in F
    BY <1>4, <2>2 DEF PhaseSaved
  <2> QED
    BY <1>3, <2>1, <2>2
<1>11. GuessesWait(t, u, new)
  <2>1. \A j \in GameOf(t) : t[j].pc = "drawingSaved" => h.pc = "drawingSaved"
    BY <1>4, <1>6, <1>8 DEF PhaseSaved
  <2>2. \A j \in GameOf(u) : u[j].pc # "drawingSaved"
    BY <1>4, <1>7 DEF PhaseSaved
  <2>3. \A j \in GameOf(t) : t[j].pc = "drawingSaved" => ~Now(G, new, "guessSaved")
    BY <1>9, <2>1
  <2> QED
    BY <2>2, <2>3 DEF GuessesWait, G
<1>12. SetOnce(G, new, us)
  BY <1>9 DEF SetOnce, Begins
<1>13. InTheirPhase(new, us)
  BY DEF InTheirPhase, Begins
<1>14. Timed(G, new, us)
  BY <1>9 DEF Timed, Begins, InPhase
<1> QED
  BY <1>2, <1>10, <1>11, <1>12, <1>13, <1>14 DEF Kept, OnTime, G, t, u

(***************************************************************************)
(* The same of the engine's actions, in a queue they may share.            *)
(***************************************************************************)
GameStore(S) ==
  /\ queue \in Seq(S) /\ ready \in Seq(S) /\ Handler \subseteq S
  /\ room # NoRoom /\ RoomOK(room)
  /\ FlyingOK(queue, ready)
  /\ timers \in TimersType

GameKept == Kept(queue, ready, room, timers)

LEMMA LoadedHandler ==
  ASSUME NEW pc \in Pcs, NEW p \in PlayerIds \cup {NoPlayer}, NEW w \in Words \cup {NoWord},
         NEW st, RoomOK(st), NEW h, h = [pc |-> pc, st |-> st, who |-> p, word |-> w]
  PROVE  h \in Handler /\ h.pc = pc /\ h.st = st /\ h.who = p /\ h.word = w
  BY DEF Handler, RoomOK

LEMMA RequestPaced ==
  ASSUME NEW S, GameStore(S), GameKept, NEW p \in PlayerIds,
         StartGame(p) \/ (\E w \in Words : ChooseWord(p, w)) \/ Guess(p)
  PROVE  GameKept'
<1>1. ASSUME NEW pc \in {"startGame", "chooseWord", "guess"}, NEW w \in Words \cup {NoWord},
             LoadRoom(pc, p, w, TRUE), UNCHANGED timers
      PROVE  GameKept'
  <2> DEFINE h == [pc |-> pc, st |-> room, who |-> p, word |-> w]
  <2>1. pc \in Pcs
    BY DEF Pcs
  <2>2. h \in Handler /\ h.pc = pc /\ h.st = room
    BY <2>1, LoadedHandler DEF GameStore
  <2>3. queue' = Append(queue, h) /\ UNCHANGED <<room, ready>>
    BY <1>1 DEF LoadRoom
  <2> HIDE DEF h
  <2>4. Kept(Append(queue, h), ready, room, timers)
    BY <2>2, RequestKept DEF GameStore, GameKept
  <2> QED
    BY <1>1, <2>3, <2>4 DEF GameKept
<1>2. CASE StartGame(p)
  BY <1>1, <1>2 DEF StartGame
<1>3. CASE \E w \in Words : ChooseWord(p, w)
  BY <1>1, <1>3 DEF ChooseWord
<1>4. CASE Guess(p)
  BY <1>1, <1>4 DEF Guess
<1> QED
  BY <1>2, <1>3, <1>4

LEMMA TimerPaced ==
  ASSUME NEW S, GameStore(S), GameKept, TimerFires
  PROVE  GameKept'
<1>1. ASSUME NEW pc \in Pcs
      PROVE  LET h == [pc |-> pc, st |-> room, who |-> NoPlayer, word |-> NoWord]
             IN h \in S /\ h.pc = pc /\ h.st = room
  BY LoadedHandler DEF GameStore
<1>2. \A phase, round :
        StillIn(phase, round) <=> InPhase(room, phase) /\ room.miniRoundNumber = round
  BY DEF StillIn, GameStore
<1>3. /\ queue \in Seq(S) /\ RoomOK(room) /\ FlyingOK(queue, ready) /\ timers \in TimersType
      /\ Kept(queue, ready, room, timers)
  BY DEF GameStore, GameKept
<1>4. CASE WordSelectionTimeout
  <2> DEFINE h == [pc |-> "wordSelectionTimeout", st |-> room,
                   who |-> NoPlayer, word |-> NoWord]
  <2>1. /\ Fired(queue, queue', h, InPhase(room, "word_selection")
                                    /\ room.miniRoundNumber = timers.wordSelection)
        /\ timers.wordSelection # 0 /\ UNCHANGED <<room, ready>>
        /\ timers' = [timers EXCEPT !.wordSelection = 0]
    BY <1>2, <1>4 DEF WordSelectionTimeout, LoadRoom, Fired
  <2>2. h \in S /\ h.pc = "wordSelectionTimeout" /\ h.st = room
    BY <1>1 DEF Pcs
  <2> HIDE DEF h
  <2>3. Kept(queue', ready, room, [timers EXCEPT !.wordSelection = 0])
    BY <1>3, <2>1, <2>2, WordSelectionFires
  <2> QED
    BY <2>1, <2>3 DEF GameKept
<1>5. CASE HintTimeout
  <2> DEFINE h == [pc |-> "hintTimeout", st |-> room, who |-> NoPlayer, word |-> NoWord]
             accepted == /\ StillIn("drawing", timers.hints.miniRound)
                         /\ RevealHint(room.wordMask) # room.wordMask
  <2>1. /\ Fired(queue, queue', h, accepted)
        /\ timers.hints.pending # 0 /\ UNCHANGED <<room, ready>>
        /\ timers' = [timers EXCEPT !.hints.pending = @ - 1]
    BY <1>5 DEF HintTimeout, LoadRoom, Fired
  <2>2. h \in S /\ h.pc = "hintTimeout" /\ h.st = room
    BY <1>1 DEF Pcs
  <2>3. accepted \in BOOLEAN
    BY DEF StillIn, InPhase
  <2> HIDE DEF h, accepted
  <2> DEFINE us == [timers EXCEPT !.hints.pending = @ - 1]
  <2>4. Kept(queue', ready, room, us)
    <3>1. us = [timers EXCEPT !.hints.pending = @ - 1]
      OBVIOUS
    <3> HIDE DEF us
    <3> QED
      BY <1>3, <2>1, <2>2, <2>3, <3>1, HintFires
  <2> QED
    BY <2>1, <2>4 DEF GameKept
<1>6. CASE DrawingTimeout
  <2> DEFINE h == [pc |-> "drawingTimeout", st |-> room, who |-> NoPlayer, word |-> NoWord]
  <2>1. /\ Fired(queue, queue', h, InPhase(room, "drawing")
                                    /\ room.miniRoundNumber = timers.drawing)
        /\ timers.drawing # 0 /\ UNCHANGED <<room, ready>>
        /\ timers' = [timers EXCEPT !.drawing = 0]
    BY <1>2, <1>6 DEF DrawingTimeout, LoadRoom, Fired
  <2>2. h \in S /\ h.pc = "drawingTimeout" /\ h.st = room
    BY <1>1 DEF Pcs
  <2> HIDE DEF h
  <2>3. Kept(queue', ready, room, [timers EXCEPT !.drawing = 0])
    BY <1>3, <2>1, <2>2, DrawingFires
  <2> QED
    BY <2>1, <2>3 DEF GameKept
<1>7. CASE RoundEndTimeout
  <2> DEFINE h == [pc |-> "roundEndTimeout", st |-> room, who |-> NoPlayer, word |-> NoWord]
  <2>1. /\ Fired(queue, queue', h, InPhase(room, "round_end")
                                    /\ room.miniRoundNumber = timers.roundEnd)
        /\ timers.roundEnd # 0 /\ UNCHANGED <<room, ready>>
        /\ timers' = [timers EXCEPT !.roundEnd = 0]
    BY <1>2, <1>7 DEF RoundEndTimeout, LoadRoom, Fired
  <2>2. h \in S /\ h.pc = "roundEndTimeout" /\ h.st = room
    BY <1>1 DEF Pcs
  <2> HIDE DEF h
  <2>3. Kept(queue', ready, room, [timers EXCEPT !.roundEnd = 0])
    BY <1>3, <2>1, <2>2, RoundEndFires
  <2> QED
    BY <2>1, <2>3 DEF GameKept
<1> QED
  BY <1>4, <1>5, <1>6, <1>7 DEF TimerFires

LEMMA DeliverPaced ==
  ASSUME NEW S, GameStore(S), GameKept, Deliver, UNCHANGED timers
  PROVE  GameKept'
<1>1. PICK n \in 1..Len(queue) : /\ ready' = SubSeq(queue, 1, n)
                                /\ queue' = SubSeq(queue, n + 1, Len(queue))
  BY DEF Deliver
<1>2. ready = <<>> /\ UNCHANGED room
  BY DEF Deliver
<1>3. Kept(SubSeq(queue, n + 1, Len(queue)), SubSeq(queue, 1, n), room, timers)
  BY <1>2, DeliverKept DEF GameStore, GameKept
<1> QED
  BY <1>1, <1>2, <1>3 DEF GameKept

(* A handler that waits at a command of the engine is one of the game's.   *)
LEMMA GameResumes ==
  ASSUME NEW S, GameStore(S), NEW pc \in Pcs, NEW i, Resumes(i, pc)
  PROVE  /\ i \in GameOf(ready) /\ i \in DOMAIN ready /\ ready[i].pc = pc
         /\ ready[i] \in Flying(queue, ready) /\ HandlerOK(ready[i])
         /\ ready[i] \in Handler /\ RoomOK(ready[i].st) /\ ReliesOn(ready[i])
  BY DEF Resumes, GameOf, Flying, GameStore, FlyingOK, HandlerOK

(* The timers a move leaves behind.                                        *)
LEMMA TimersAtMove ==
  ASSUME NEW F, NEW st, RoomOK(st), NEW ts \in TimersType, NEW us,
         SetOnce(F, st, ts), InTheirPhase(st, ts), Timed(F, st, ts),
         \/ st.phase = "lobby" /\ us = ts
         \/ InPhase(st, "word_selection") /\ us = [ts EXCEPT !.wordSelection = 0]
         \/ InPhase(st, "drawing") /\ us = [ClearHints(ts) EXCEPT !.drawing = 0]
         \/ /\ InPhase(st, "drawing") /\ Now(F, st, "drawingTimeout")
            /\ us = ClearHints(ts)
         \/ InPhase(st, "round_end") /\ Now(F, st, "roundEndTimeout") /\ us = ts
  PROVE  us.drawing = 0 /\ us.roundEnd = 0 /\ us.hints.pending = 0
<1>1. /\ [ts EXCEPT !.wordSelection = 0].drawing = ts.drawing
      /\ [ts EXCEPT !.wordSelection = 0].roundEnd = ts.roundEnd
      /\ [ts EXCEPT !.wordSelection = 0].hints = ts.hints
      /\ ClearHints(ts).drawing = ts.drawing /\ ClearHints(ts).roundEnd = ts.roundEnd
      /\ ClearHints(ts).hints.pending = 0
      /\ [ClearHints(ts) EXCEPT !.drawing = 0].drawing = 0
      /\ [ClearHints(ts) EXCEPT !.drawing = 0].roundEnd = ts.roundEnd
      /\ [ClearHints(ts) EXCEPT !.drawing = 0].hints.pending = 0
  BY DEF TimersType, ClearHints, NoTimers
<1>2. NoTimers.drawing = 0 /\ NoTimers.roundEnd = 0 /\ NoTimers.hints.pending = 0
  BY DEF NoTimers
<1> QED
  BY <1>1, <1>2 DEF SetOnce, InTheirPhase, Timed, InPhase

(* A write of the next phase.                                              *)
LEMMA MovePaced ==
  ASSUME NEW S, GameStore(S), GameKept, ~lostUpdate', NEW next,
         NEW pc \in {"wordSelectionSaved", "drawingSaved", "roundEndSaved", "gameOverSaved"},
         NEW mover \in Movers, NEW i, Resumes(i, mover), Turn(ready[i], next),
         SaveRoom(i, next, pc), Begins(pc, next, timers'),
         pc = "gameOverSaved" => mover = "roundEndTimeout"
  PROVE  GameKept'
<1> DEFINE h == [ready[i] EXCEPT !.pc = pc, !.st = next]
<1>1. /\ i \in GameOf(ready) /\ ready[i].pc = mover /\ HandlerOK(ready[i])
      /\ ready[i] \in Handler /\ ReliesOn(ready[i])
  BY GameResumes DEF Movers, Pcs
<1>2. ready[i].st = room
  BY DEF SaveRoom
<1>3. RoomOK(next) /\ Rank(next) = Rank(room) + 1 /\ next \in Room
  BY <1>1, <1>2, TurnMoves DEF Movers, RoomOK
<1>4. h \in Handler /\ h.pc = pc /\ h.st = next
  BY <1>1, <1>3 DEF Handler, Pcs
<1>5. queue' = Append(queue, h) /\ ready' = RemoveAt(ready, i) /\ room' = next
  BY DEF SaveRoom
<1>6. InPhase(room, "word_selection") => next.phase = "in_game"
  <2>1. pc = "gameOverSaved" => InPhase(room, "round_end")
    BY <1>1, <1>2 DEF ReliesOn
  <2> QED
    BY <2>1 DEF Begins, InPhase
<1> HIDE DEF h
<1>7. Kept(Append(queue, h), RemoveAt(ready, i), next, timers')
  BY <1>1, <1>2, <1>3, <1>4, <1>6, MoveKept DEF GameStore, GameKept
<1> QED
  BY <1>5, <1>7 DEF GameKept

LEMMA WordSelectionPaced ==
  ASSUME NEW S, GameStore(S), GameKept, ~lostUpdate', NEW i,
         SaveFirstWordSelection(i) \/ SaveNextWordSelection(i) \/ ArmWordSelection(i)
  PROVE  GameKept'
<1> DEFINE F == Flying(queue, ready)
<1>1. SetOnce(F, room, timers) /\ InTheirPhase(room, timers) /\ Timed(F, room, timers)
  BY DEF GameKept, Kept, OnTime
<1>2. RoomOK(room) /\ timers \in TimersType
  BY DEF GameStore
<1>3. ASSUME NEW pc \in Pcs, Resumes(i, pc), room = ready[i].st
      PROVE  Now(F, room, pc) /\ ReliesOn(ready[i]) /\ ready[i].pc = pc
  BY <1>3, GameResumes DEF Now
<1> HIDE DEF F
<1>4. CASE SaveFirstWordSelection(i)
  <2>1. PICK options \in WordOptions({}) :
          SaveRoom(i, CreateWordSelectionState(ready[i].st, options), "wordSelectionSaved")
    BY <1>4 DEF SaveFirstWordSelection
  <2> DEFINE next == CreateWordSelectionState(ready[i].st, options)
  <2>2. Resumes(i, "startGame") /\ room = ready[i].st /\ UNCHANGED timers
    BY <1>4, <2>1 DEF SaveFirstWordSelection, SaveRoom
  <2>3. room.phase = "lobby" /\ ready[i].pc = "startGame"
    BY <1>3, <2>2 DEF ReliesOn, Pcs
  <2>4. Turn(ready[i], next)
    BY <2>3 DEF Turn
  <2>5. timers'.drawing = 0 /\ timers'.roundEnd = 0 /\ timers'.hints.pending = 0
    BY <1>1, <1>2, <2>2, <2>3, TimersAtMove
  <2>6. InPhase(next, "word_selection")
    BY <1>2, <2>2, PhasesReached DEF ReachedAt
  <2>7. Begins("wordSelectionSaved", next, timers')
    BY <2>5, <2>6 DEF Begins
  <2> QED
    BY <2>1, <2>2, <2>4, <2>7, MovePaced DEF Movers
<1>5. CASE SaveNextWordSelection(i)
  <2>1. PICK options \in WordOptions(ready[i].st.usedWords) :
          SaveRoom(i, CreateNextWordSelectionState(ready[i].st, options), "wordSelectionSaved")
    BY <1>5 DEF SaveNextWordSelection
  <2> DEFINE next == CreateNextWordSelectionState(ready[i].st, options)
  <2>2. /\ Resumes(i, "roundEndTimeout") /\ room = ready[i].st /\ UNCHANGED timers
        /\ ready[i].st.miniRoundNumber < ready[i].st.totalMiniRounds
    BY <1>5, <2>1 DEF SaveNextWordSelection, SaveRoom
  <2>3. /\ InPhase(room, "round_end") /\ Now(F, room, "roundEndTimeout")
        /\ ready[i].pc = "roundEndTimeout"
    BY <1>3, <2>2 DEF ReliesOn, Pcs
  <2>4. Turn(ready[i], next)
    BY <2>2, <2>3 DEF Turn
  <2>5. Begins("wordSelectionSaved", next, timers')
    BY <1>1, <1>2, <2>2, <2>3, TimersAtMove, PhasesReached DEF Begins, ReachedAt
  <2> QED
    BY <2>1, <2>2, <2>4, <2>5, MovePaced DEF Movers
<1>6. CASE ArmWordSelection(i)
  <2>1. i \in GameOf(ready) /\ ready[i].pc = "wordSelectionSaved"
    BY <1>6, GameResumes DEF ArmWordSelection, Pcs
  <2>2. /\ ready' = RemoveAt(ready, i) /\ UNCHANGED <<room, queue>>
        /\ timers' = [timers EXCEPT !.wordSelection = ready[i].st.miniRoundNumber]
    BY <1>6 DEF ArmWordSelection, Finish
  <2>3. Kept(queue, RemoveAt(ready, i), room, timers')
    BY <2>1, <2>2, ArmWordSelectionKept DEF GameStore, GameKept
  <2> QED
    BY <2>2, <2>3 DEF GameKept
<1> QED
  BY <1>4, <1>5, <1>6

LEMMA DrawingPaced ==
  ASSUME NEW S, GameStore(S), GameKept, ~lostUpdate', NEW i,
         SaveChosenWord(i) \/ SaveAutoSelectedWord(i) \/ ArmDrawing(i)
  PROVE  GameKept'
<1> DEFINE F == Flying(queue, ready)
<1>1. SetOnce(F, room, timers) /\ InTheirPhase(room, timers) /\ Timed(F, room, timers)
  BY DEF GameKept, Kept, OnTime
<1>2. RoomOK(room) /\ timers \in TimersType
  BY DEF GameStore
<1> HIDE DEF F
<1>3. ASSUME NEW pc \in {"chooseWord", "wordSelectionTimeout"}, Resumes(i, pc),
             NEW w \in ready[i].st.wordOptions, SaveDrawing(i, w)
      PROVE  GameKept'
  <2> DEFINE next == CreateDrawingState(ready[i].st, w)
  <2>1. /\ SaveRoom(i, next, "drawingSaved") /\ room = ready[i].st
        /\ timers' = [timers EXCEPT !.wordSelection = 0]
    BY <1>3 DEF SaveDrawing, SaveRoom
  <2>2. ready[i].pc = pc /\ InPhase(room, "word_selection") /\ ready[i].st = room
    BY <1>3, <2>1, GameResumes DEF Pcs, ReliesOn
  <2>3. Turn(ready[i], next)
    BY <2>2 DEF Turn
  <2>4. Begins("drawingSaved", next, timers')
    <3>1. timers'.drawing = 0 /\ timers'.roundEnd = 0 /\ timers'.hints.pending = 0
      BY <1>1, <1>2, <2>1, <2>2, TimersAtMove
    <3>2. InPhase(next, "drawing")
      BY <1>2, <2>1, PhasesReached DEF ReachedAt
    <3> QED
      BY <3>1, <3>2 DEF Begins
  <2> QED
    BY <1>3, <2>1, <2>3, <2>4, MovePaced DEF Movers
<1>4. CASE SaveChosenWord(i)
  <2>1. ready[i].word \in ready[i].st.wordOptions
    BY <1>4, GameResumes DEF SaveChosenWord, ReliesOn, Pcs
  <2> QED
    BY <1>3, <1>4, <2>1 DEF SaveChosenWord
<1>5. CASE SaveAutoSelectedWord(i)
  <2>1. InPhase(ready[i].st, "word_selection") /\ RoomOK(ready[i].st)
    BY <1>5, GameResumes DEF SaveAutoSelectedWord, ReliesOn, Pcs
  <2>2. ready[i].st.wordOptions # {}
    <3>1. Cardinality(ready[i].st.wordOptions) = WordChoicesCount
      BY <2>1 DEF RoomOK, WordsFresh, Playing, InPhase
    <3> QED
      BY <3>1, FS_EmptySet, SettingsAssumption
  <2>3. PICK w \in ready[i].st.wordOptions : SaveDrawing(i, w)
    BY <1>5, <2>2 DEF SaveAutoSelectedWord, AutoSelectedWords
  <2> QED
    BY <1>3, <1>5, <2>3 DEF SaveAutoSelectedWord
<1>6. CASE ArmDrawing(i)
  <2>1. i \in GameOf(ready) /\ ready[i].pc = "drawingSaved"
    BY <1>6, GameResumes DEF ArmDrawing, Pcs
  <2>2. /\ ready' = RemoveAt(ready, i) /\ UNCHANGED <<room, queue>>
        /\ timers' = [SetHints(timers, ready[i].st.miniRoundNumber)
                         EXCEPT !.drawing = ready[i].st.miniRoundNumber]
    BY <1>6 DEF ArmDrawing, Finish
  <2>3. Kept(queue, RemoveAt(ready, i), room, timers')
    BY <2>1, <2>2, ArmDrawingKept DEF GameStore, GameKept
  <2> QED
    BY <2>2, <2>3 DEF GameKept
<1> QED
  BY <1>4, <1>5, <1>6

(* A guess and a hint leave the phase as it is.                            *)
LEMMA SamePhaseWritten ==
  ASSUME NEW st, RoomOK(st), NEW p
  PROVE  /\ \A remaining \in RemainingTimes :
              SamePhase(st, ApplyCorrectGuess(st, p, remaining))
         /\ SamePhase(st, ApplyHint(st))
  BY DEF SamePhase, ApplyCorrectGuess, ApplyHint, RoomOK, Room

LEMMA GuessPaced ==
  ASSUME NEW S, GameStore(S), GameKept, ~lostUpdate', NEW i,
         SaveGuess(i) \/ AnnounceGuess(i) \/ SaveHint(i)
  PROVE  GameKept'
<1> DEFINE F == Flying(queue, ready)
           st == ready[i].st
<1>1. SetOnce(F, room, timers) /\ InTheirPhase(room, timers) /\ Timed(F, room, timers)
  BY DEF GameKept, Kept, OnTime
<1>2. RoomOK(room) /\ timers \in TimersType
  BY DEF GameStore
<1> HIDE DEF F
<1>3. CASE SaveGuess(i)
  <2>1. PICK remaining \in RemainingTimes :
          SaveRoom(i, ApplyCorrectGuess(st, ready[i].who, remaining), "guessSaved")
    BY <1>3 DEF SaveGuess
  <2> DEFINE next == ApplyCorrectGuess(st, ready[i].who, remaining)
             h == [ready[i] EXCEPT !.pc = "guessSaved", !.st = next]
  <2>2. /\ i \in GameOf(ready) /\ ready[i].pc = "guess" /\ HandlerOK(ready[i])
        /\ ready[i] \in Handler
    BY <1>3, GameResumes DEF SaveGuess, Pcs
  <2>3. /\ queue' = Append(queue, h) /\ ready' = RemoveAt(ready, i) /\ room' = next
        /\ ready[i].st = room /\ UNCHANGED timers
    BY <1>3, <2>1 DEF SaveRoom, SaveGuess
  <2>4. SamePhase(room, next)
    BY <1>2, <2>3, SamePhaseWritten
  <2>5. next \in Room
    <3>1. Turn(ready[i], next)
      BY <2>2 DEF Turn
    <3> QED
      BY <2>2, <3>1, TurnIsSound DEF RoomOK
  <2> HIDE DEF next
  <2>6. h \in Handler /\ h.pc = "guessSaved" /\ h.st = next
    BY <2>2, <2>5 DEF Handler, Pcs
  <2> HIDE DEF h
  <2>7. Kept(Append(queue, h), RemoveAt(ready, i), next, timers)
    BY <2>2, <2>3, <2>4, <2>6, GuessKept DEF GameStore, GameKept
  <2> QED
    BY <2>3, <2>7 DEF GameKept
<1>4. CASE AnnounceGuess(i)
  <2>1. /\ i \in GameOf(ready) /\ ready[i].pc = "guessSaved" /\ RoomOK(st)
        /\ InPhase(st, "drawing") /\ Resumes(i, "guessSaved")
    BY <1>4, GameResumes DEF AnnounceGuess, Pcs, ReliesOn
  <2>2. CASE AllGuessersFinished(st)
    <3>1. /\ SaveRoom(i, CreateRoundEndState(st), "roundEndSaved")
          /\ timers' = [ClearHints(timers) EXCEPT !.drawing = 0] /\ st = room
      BY <1>4, <2>2 DEF AnnounceGuess, SaveRoom
    <3>2. Turn(ready[i], CreateRoundEndState(st))
      BY <2>1 DEF Turn
    <3>3. Begins("roundEndSaved", CreateRoundEndState(st), timers')
      <4>1. timers'.drawing = 0 /\ timers'.roundEnd = 0 /\ timers'.hints.pending = 0
        BY <1>1, <1>2, <2>1, <3>1, TimersAtMove
      <4>2. InPhase(CreateRoundEndState(st), "round_end")
        BY <2>1, PhasesReached DEF ReachedAt, InPhase
      <4> QED
        BY <4>1, <4>2 DEF Begins
    <3> QED
      BY <2>1, <3>1, <3>2, <3>3, MovePaced DEF Movers
  <2>3. CASE ~AllGuessersFinished(st)
    <3>1. ready' = RemoveAt(ready, i) /\ UNCHANGED <<room, queue, timers>>
      BY <1>4, <2>3 DEF AnnounceGuess, Finish
    <3>2. Kept(queue, RemoveAt(ready, i), room, timers)
      BY <2>1, EndKept DEF GameStore, GameKept
    <3> QED
      BY <3>1, <3>2 DEF GameKept
  <2> QED
    BY <2>2, <2>3
<1>5. CASE SaveHint(i)
  <2>1. i \in GameOf(ready) /\ ready[i].pc = "hintTimeout"
    BY <1>5, GameResumes DEF SaveHint, Pcs
  <2>2. /\ ready' = RemoveAt(ready, i) /\ room' = ApplyHint(room) /\ UNCHANGED <<queue, timers>>
    BY <1>5 DEF SaveHint, SaveRoomAndFinish
  <2>3. SamePhase(room, ApplyHint(room))
    BY <1>2, SamePhaseWritten
  <2>4. Kept(queue, RemoveAt(ready, i), ApplyHint(room), timers)
    BY <2>1, <2>3, HintKept DEF GameStore, GameKept
  <2> QED
    BY <2>2, <2>4 DEF GameKept
<1> QED
  BY <1>3, <1>4, <1>5

LEMMA RoundEndPaced ==
  ASSUME NEW S, GameStore(S), GameKept, ~lostUpdate', NEW i,
         SaveRoundEnd(i) \/ ArmRoundEnd(i) \/ SaveGameOver(i) \/ ClearRoomTimers(i)
  PROVE  GameKept'
<1> DEFINE F == Flying(queue, ready)
           st == ready[i].st
<1>1. SetOnce(F, room, timers) /\ InTheirPhase(room, timers) /\ Timed(F, room, timers)
  BY DEF GameKept, Kept, OnTime
<1>2. RoomOK(room) /\ timers \in TimersType
  BY DEF GameStore
<1>3. ASSUME NEW pc \in Pcs, Resumes(i, pc), room = st
      PROVE  Now(F, room, pc) /\ ReliesOn(ready[i]) /\ ready[i].pc = pc
  BY <1>3, GameResumes DEF Now
<1> HIDE DEF F
<1>4. CASE SaveRoundEnd(i)
  <2>1. /\ SaveRoom(i, CreateRoundEndState(st), "roundEndSaved") /\ st = room
        /\ timers' = ClearHints(timers) /\ Resumes(i, "drawingTimeout")
    BY <1>4 DEF SaveRoundEnd, SaveRoom
  <2>2. /\ InPhase(room, "drawing") /\ Now(F, room, "drawingTimeout")
        /\ ready[i].pc = "drawingTimeout"
    BY <1>3, <2>1 DEF ReliesOn, Pcs
  <2>3. Turn(ready[i], CreateRoundEndState(st))
    BY <2>2 DEF Turn
  <2>4. Begins("roundEndSaved", CreateRoundEndState(st), timers')
    BY <1>1, <1>2, <2>1, <2>2, TimersAtMove, PhasesReached DEF Begins, ReachedAt, InPhase
  <2> QED
    BY <2>1, <2>3, <2>4, MovePaced DEF Movers
<1>5. CASE ArmRoundEnd(i)
  <2>1. i \in GameOf(ready) /\ ready[i].pc = "roundEndSaved"
    BY <1>5, GameResumes DEF ArmRoundEnd, Pcs
  <2>2. /\ ready' = RemoveAt(ready, i) /\ UNCHANGED <<room, queue>>
        /\ timers' = [timers EXCEPT !.roundEnd = ready[i].st.miniRoundNumber]
    BY <1>5 DEF ArmRoundEnd, Finish
  <2>3. Kept(queue, RemoveAt(ready, i), room, timers')
    BY <2>1, <2>2, ArmRoundEndKept DEF GameStore, GameKept
  <2> QED
    BY <2>2, <2>3 DEF GameKept
<1>6. CASE SaveGameOver(i)
  <2>1. /\ SaveRoom(i, CreateGameOverState(st), "gameOverSaved") /\ st = room
        /\ UNCHANGED timers /\ Resumes(i, "roundEndTimeout")
        /\ st.miniRoundNumber >= st.totalMiniRounds
    BY <1>6 DEF SaveGameOver, SaveRoom
  <2>2. /\ InPhase(room, "round_end") /\ Now(F, room, "roundEndTimeout")
        /\ ready[i].pc = "roundEndTimeout"
    BY <1>3, <2>1 DEF ReliesOn, Pcs
  <2>3. Turn(ready[i], CreateGameOverState(st))
    BY <2>1, <2>2 DEF Turn
  <2>4. Begins("gameOverSaved", CreateGameOverState(st), timers')
    BY <1>1, <1>2, <2>1, <2>2, TimersAtMove, PhasesReached DEF Begins, ReachedAt
  <2> QED
    BY <2>1, <2>3, <2>4, MovePaced DEF Movers
<1>7. CASE ClearRoomTimers(i)
  <2>1. i \in GameOf(ready) /\ ready[i].pc = "gameOverSaved"
    BY <1>7, GameResumes DEF ClearRoomTimers, Pcs
  <2>2. ready' = RemoveAt(ready, i) /\ UNCHANGED <<room, queue>> /\ timers' = NoTimers
    BY <1>7 DEF ClearRoomTimers, Finish
  <2>3. Kept(queue, RemoveAt(ready, i), room, NoTimers)
    BY <2>1, ClearRoomTimersKept DEF GameStore, GameKept
  <2> QED
    BY <2>2, <2>3 DEF GameKept
<1> QED
  BY <1>4, <1>5, <1>6, <1>7

LEMMA ResumePaced ==
  ASSUME NEW S, GameStore(S), GameKept, ~lostUpdate', Resume
  PROVE  GameKept'
<1>1. PICK i \in DOMAIN ready :
        \/ SaveFirstWordSelection(i) \/ SaveNextWordSelection(i) \/ ArmWordSelection(i)
        \/ SaveChosenWord(i) \/ SaveAutoSelectedWord(i) \/ ArmDrawing(i)
        \/ SaveGuess(i) \/ AnnounceGuess(i) \/ SaveHint(i)
        \/ SaveRoundEnd(i) \/ ArmRoundEnd(i)
        \/ SaveGameOver(i) \/ ClearRoomTimers(i)
  BY DEF Resume
<1> QED
  BY <1>1, WordSelectionPaced, DrawingPaced, GuessPaced, RoundEndPaced

(***************************************************************************)
(* In a game of its own.                                                   *)
(***************************************************************************)
Timely == ~lostUpdate => GameKept

LEMMA EngineStore ==
  ASSUME CopiesOK, CastKept
  PROVE  GameStore(Handler)
  BY DEF CopiesOK, TypeOK, StoreOK, StoreTypeOK, CastKept, GameStore, FlyingOK, Flying, GameOf,
         TimersType

LEMMA NobodyKept ==
  ASSUME NEW st, NEW ts, ts = NoTimers, st.phase = "lobby"
  PROVE  Kept(<<>>, <<>>, st, ts)
<1>1. GameOf(<<>>) = {}
  BY EmptySeq DEF GameOf
<1>2. Flying(<<>>, <<>>) = {}
  BY <1>1 DEF Flying
<1>3. Paced(<<>>, <<>>, Rank(st))
  BY <1>1 DEF Paced, InOrder, Near, OneMove
<1>4. \A pc : ~Now({}, st, pc)
  BY DEF Now
<1>5. OnTime(<<>>, <<>>, st, ts)
  BY <1>1, <1>2, <1>4
  DEF OnTime, Awaited, GuessesWait, SetOnce, InTheirPhase, Timed, InPhase, NoTimers
<1> QED
  BY <1>3, <1>5 DEF Kept

LEMMA TimelyInit == Init => Timely
<1> SUFFICES ASSUME Init PROVE Timely
  OBVIOUS
<1>1. room.phase = "lobby" /\ queue = <<>> /\ ready = <<>> /\ timers = NoTimers
  BY DEF Init, StoreInit, LobbyRoom
<1> QED
  BY <1>1, NobodyKept DEF Timely, GameKept

LEMMA TimelyStep ==
  ASSUME CopiesOK, CastKept, Timely, [Next]_vars
  PROVE  Timely'
<1> SUFFICES ASSUME ~lostUpdate' PROVE GameKept'
  BY DEF Timely
<1>1. GameStore(Handler)
  BY EngineStore
<1>2. GameKept
  <2>1. Keeps \/ \E i \in DOMAIN ready : Writes(i)
    BY StepWrites DEF CopiesOK, CastKept
  <2>2. lostUpdate => lostUpdate'
    BY <2>1 DEF Keeps, Writes
  <2> QED
    BY <2>2 DEF Timely
<1>3. CASE Request
  BY <1>1, <1>2, <1>3, RequestPaced DEF Request
<1>4. CASE Replies
  BY <1>1, <1>2, <1>4, DeliverPaced DEF Replies
<1>5. CASE UNCHANGED vars
  BY <1>2, <1>5 DEF vars, storeVars, GameKept
<1> QED
  BY <1>1, <1>2, <1>3, <1>4, <1>5, TimerPaced, ResumePaced DEF Next

LEMMA GameStaysTimely == Spec => [](CopiesOK /\ CastKept /\ Timely)
<1>1. CopiesOK /\ CastKept /\ Timely /\ [Next]_vars => Timely'
  BY TimelyStep
<1> QED
  BY <1>1, TimelyInit, CastStaysKept, PTL DEF Spec

(* At rest nothing is in flight: the timer of the phase is pending.        *)
LEMMA TimedAtRest ==
  ASSUME NobodyInFlight, GameKept, RoomOK(room), timers \in TimersType
  PROVE  IF Playing(room)
         THEN /\ timers[TimerOfPhase[room.roundPhase]] = room.miniRoundNumber
              /\ timers.drawing # 0 => room.roundPhase = "drawing"
              /\ timers.roundEnd # 0 => room.roundPhase = "round_end"
              /\ timers.hints.pending # 0 =>
                   /\ room.roundPhase = "drawing"
                   /\ timers.hints.miniRound = room.miniRoundNumber
         ELSE timers = NoTimers
<1>1. GameOf(<<>>) = {}
  BY EmptySeq DEF GameOf
<1>2. Flying(queue, ready) = {}
  BY <1>1 DEF Flying, NobodyInFlight
<1>3. \A pc : ~Now({}, room, pc)
  BY DEF Now
<1>4. InTheirPhase(room, timers) /\ Timed({}, room, timers)
  BY <1>2 DEF GameKept, Kept, OnTime
<1>5. room.phase \in Phases /\ room.roundPhase \in RoundPhases
  BY DEF RoomOK, Room
<1>6. CASE Playing(room)
  <2>1. timers[TimerOfPhase[room.roundPhase]] = room.miniRoundNumber
    <3>1. CASE room.roundPhase = "word_selection"
      BY <1>3, <1>4, <1>6, <3>1 DEF Timed, InPhase, Playing, TimerOfPhase
    <3>2. CASE room.roundPhase = "drawing"
      BY <1>3, <1>4, <1>6, <3>2 DEF Timed, InPhase, Playing, TimerOfPhase
    <3>3. CASE room.roundPhase = "round_end"
      BY <1>3, <1>4, <1>6, <3>3 DEF Timed, InPhase, Playing, TimerOfPhase
    <3> QED
      BY <1>5, <3>1, <3>2, <3>3 DEF RoundPhases
  <2> QED
    BY <1>4, <1>6, <2>1 DEF InTheirPhase, InPhase
<1>7. CASE ~Playing(room)
  BY <1>3, <1>4, <1>5, <1>7 DEF Timed, Playing, Phases
<1> QED
  BY <1>6, <1>7

(* A game at rest never hangs, and nothing is pending that could cut a     *)
(* phase short, for any number of handlers in flight before.               *)
THEOREM TheRightTimerIsPending == Spec => []AtRestTheRightTimerIsPending
<1>1. CopiesOK /\ CastKept /\ Timely => AtRestTheRightTimerIsPending
  <2> SUFFICES ASSUME CopiesOK, CastKept, Timely, ~lostUpdate, NobodyInFlight
               PROVE  AtRestTheRightTimerIsPending
    BY DEF AtRestTheRightTimerIsPending
  <2>1. GameKept /\ RoomOK(room) /\ timers \in TimersType
    BY EngineStore DEF Timely, GameStore
  <2> QED
    BY <2>1, TimedAtRest DEF AtRestTheRightTimerIsPending
<1> QED
  BY <1>1, GameStaysTimely, PTL

(***************************************************************************)
(* The hints on their way.                                                 *)
(***************************************************************************)
HintsOf(q) == {i \in DOMAIN q : q[i].pc = "hintTimeout"}

LEMMA HintsCounted ==
  ASSUME NEW S, NEW q \in Seq(S)
  PROVE  IsFiniteSet(HintsOf(q)) /\ Cardinality(HintsOf(q)) \in Nat
<1>1. Len(q) \in Nat /\ HintsOf(q) \subseteq 1..Len(q)
  BY Places DEF HintsOf
<1>2. IsFiniteSet(HintsOf(q))
  <2>1. IsFiniteSet(1..Len(q))
    BY <1>1, FS_Interval
  <2> QED
    BY <1>1, <2>1, FS_Subset
<1> QED
  BY <1>2, FS_CardinalityType

(* A set that another one can be mapped into, one to one, is no smaller.   *)
LEMMA NoMore ==
  ASSUME NEW A, NEW B, IsFiniteSet(B), NEW f,
         \A x \in A : f[x] \in B, \A x, y \in A : f[x] = f[y] => x = y,
         f = [x \in A |-> f[x]]
  PROVE  IsFiniteSet(A) /\ Cardinality(A) <= Cardinality(B)
<1>1. f \in [A -> B]
  OBVIOUS
<1>2. f \in Injection(A, B)
  BY <1>1 DEF Injection, IsInjective
<1> QED
  BY <1>2, FS_Injection

LEMMA HintsAppended ==
  ASSUME NEW S, NEW q \in Seq(S), NEW h \in S
  PROVE  Cardinality(HintsOf(Append(q, h)))
           = Cardinality(HintsOf(q)) + (IF h.pc = "hintTimeout" THEN 1 ELSE 0)
<1> DEFINE t == Append(q, h)
           n == Len(q) + 1
<1>1. /\ n \in DOMAIN t /\ t[n] = h /\ n \in Int
      /\ DOMAIN q \subseteq DOMAIN t
      /\ \A i \in DOMAIN q : t[i] = q[i] /\ i < n /\ i \in Nat
      /\ \A i \in DOMAIN t : i \in DOMAIN q \/ i = n
  BY PlacesAppended, Places
<1> HIDE DEF t, n
<1>2. n \notin HintsOf(q)
  BY <1>1 DEF HintsOf
<1>3. HintsOf(t) = IF h.pc = "hintTimeout" THEN HintsOf(q) \cup {n} ELSE HintsOf(q)
  BY <1>1 DEF HintsOf
<1>4. IsFiniteSet(HintsOf(q)) /\ Cardinality(HintsOf(q)) \in Nat
  BY HintsCounted
<1>5. Cardinality(HintsOf(q) \cup {n}) = Cardinality(HintsOf(q)) + 1
  BY <1>2, <1>4, FS_AddElement
<1>6. Cardinality(HintsOf(q)) = Cardinality(HintsOf(q)) + 0
  BY <1>4
<1> QED
  BY <1>3, <1>5, <1>6 DEF t

LEMMA HintsRemoved ==
  ASSUME NEW S, NEW r \in Seq(S), NEW i \in DOMAIN r
  PROVE  Cardinality(HintsOf(RemoveAt(r, i)))
           <= Cardinality(HintsOf(r)) - (IF r[i].pc = "hintTimeout" THEN 1 ELSE 0)
<1> DEFINE u == RemoveAt(r, i)
           f == [j \in HintsOf(u) |-> Was(i, j)]
           B == HintsOf(r) \ {i}
<1>1. /\ \A j \in DOMAIN u : Was(i, j) \in DOMAIN r \ {i} /\ u[j] = r[Was(i, j)]
      /\ \A j, k \in DOMAIN u : Was(i, j) = Was(i, k) => j = k
  BY PlacesRemoved
<1>2. IsFiniteSet(HintsOf(r)) /\ Cardinality(HintsOf(r)) \in Nat
  BY HintsCounted
<1>3. /\ IsFiniteSet(B)
      /\ Cardinality(B) = IF i \in HintsOf(r) THEN Cardinality(HintsOf(r)) - 1
                          ELSE Cardinality(HintsOf(r))
  BY <1>2, FS_RemoveElement
<1>4. i \in HintsOf(r) <=> r[i].pc = "hintTimeout"
  BY DEF HintsOf
<1> HIDE DEF u
<1>5. \A j \in HintsOf(u) : f[j] \in B
  BY <1>1 DEF HintsOf
<1>6. \A j, k \in HintsOf(u) : f[j] = f[k] => j = k
  BY <1>1 DEF HintsOf
<1>7. f = [j \in HintsOf(u) |-> f[j]]
  OBVIOUS
<1> HIDE DEF f, B
<1>8. Cardinality(HintsOf(u)) <= Cardinality(B)
  BY <1>3, <1>5, <1>6, <1>7, NoMore
<1> QED
  BY <1>2, <1>3, <1>4, <1>8 DEF u

LEMMA HintsCut ==
  ASSUME NEW S, NEW q \in Seq(S), NEW n \in 1..Len(q)
  PROVE  Cardinality(HintsOf(SubSeq(q, n + 1, Len(q)))) + Cardinality(HintsOf(SubSeq(q, 1, n)))
           <= Cardinality(HintsOf(q))
<1> DEFINE r == SubSeq(q, 1, n)
           t == SubSeq(q, n + 1, Len(q))
           H == HintsOf(q)
           R == {i \in H : i <= n}
           T == {i \in H : i > n}
           f == [j \in HintsOf(r) |-> j]
           g == [j \in HintsOf(t) |-> n + j]
<1>1. /\ r \in Seq(S) /\ t \in Seq(S)
      /\ \A i \in DOMAIN r : i \in DOMAIN q /\ i <= n /\ r[i] = q[i]
      /\ \A i \in DOMAIN t : n + i \in DOMAIN q /\ i \in Nat /\ i > 0 /\ t[i] = q[n + i]
      /\ n \in Nat
  BY PlacesCut, Places
<1>2. IsFiniteSet(H) /\ \A i \in H : i \in Nat
  BY HintsCounted, Places DEF HintsOf
<1> HIDE DEF r, t, H
<1>3. IsFiniteSet(R) /\ IsFiniteSet(T) /\ IsFiniteSet(R \cup T)
  BY <1>2, FS_Subset
<1>4. R \cup T = H /\ R \cap T = {}
  BY <1>1, <1>2
<1>5. Cardinality(H) = Cardinality(R) + Cardinality(T)
  <2>1. Cardinality(R) \in Nat /\ Cardinality(T) \in Nat /\ Cardinality({}) = 0
    BY <1>3, FS_CardinalityType, FS_EmptySet
  <2>2. Cardinality(R \cup T) = Cardinality(R) + Cardinality(T) - Cardinality(R \cap T)
    BY <1>3, FS_Union
  <2>3. Cardinality(R \cap T) = 0 /\ Cardinality(R \cup T) = Cardinality(H)
    BY <1>4, <2>1
  <2> HIDE DEF R, T
  <2> QED
    BY <2>1, <2>2, <2>3
<1>6. Cardinality(HintsOf(r)) <= Cardinality(R)
  <2>1. \A j \in HintsOf(r) : f[j] \in R
    BY <1>1 DEF HintsOf, H
  <2>2. \A j, k \in HintsOf(r) : f[j] = f[k] => j = k
    OBVIOUS
  <2>3. f = [j \in HintsOf(r) |-> f[j]]
    OBVIOUS
  <2> HIDE DEF f, R
  <2> QED
    BY <1>3, <2>1, <2>2, <2>3, NoMore
<1>7. Cardinality(HintsOf(t)) <= Cardinality(T)
  <2>1. \A j \in HintsOf(t) : g[j] \in T
    BY <1>1 DEF HintsOf, H
  <2>2. \A j, k \in HintsOf(t) : g[j] = g[k] => j = k
    BY <1>1 DEF HintsOf
  <2>3. g = [j \in HintsOf(t) |-> g[j]]
    OBVIOUS
  <2> HIDE DEF g, T
  <2> QED
    BY <1>3, <2>1, <2>2, <2>3, NoMore
<1>8. /\ Cardinality(HintsOf(r)) \in Nat /\ Cardinality(HintsOf(t)) \in Nat
      /\ Cardinality(R) \in Nat /\ Cardinality(T) \in Nat
  BY <1>1, <1>3, HintsCounted, FS_CardinalityType
<1> HIDE DEF R, T
<1>9. Cardinality(HintsOf(t)) + Cardinality(HintsOf(r)) <= Cardinality(H)
  BY <1>5, <1>6, <1>7, <1>8
<1> QED
  BY <1>9 DEF r, t, H

(* The hints still to come in the drawing: those of the timers, or all of  *)
(* them until the timers are set.                                          *)
ToCome(F, st, ts) == IF Now(F, st, "drawingSaved") THEN HintsCount ELSE ts.hints.pending

Budget(q, r, st, ts) ==
  InPhase(st, "drawing") =>
    st.hintsUsed + Cardinality(HintsOf(q)) + Cardinality(HintsOf(r))
      + ToCome(Flying(q, r), st, ts) <= HintsCount

(* A step that leaves no more hints than there were.                       *)
LEMMA BudgetShrinks ==
  ASSUME NEW S, NEW q \in Seq(S), NEW r \in Seq(S), NEW t \in Seq(S), NEW u \in Seq(S),
         NEW st, RoomOK(st), NEW new, RoomOK(new), SamePhase(st, new),
         NEW ts \in TimersType, NEW us \in TimersType,
         SetOnce(Flying(q, r), st, ts), Budget(q, r, st, ts),
         \A x \in Flying(t, u) : x.pc = "drawingSaved" => x \in Flying(q, r),
         new.hintsUsed + Cardinality(HintsOf(t)) + Cardinality(HintsOf(u)) + us.hints.pending
           <= st.hintsUsed + Cardinality(HintsOf(q)) + Cardinality(HintsOf(r)) + ts.hints.pending
  PROVE  Budget(t, u, new, us)
<1> DEFINE a == st.hintsUsed
           b == new.hintsUsed
           Q == Cardinality(HintsOf(q))
           R == Cardinality(HintsOf(r))
           T == Cardinality(HintsOf(t))
           U == Cardinality(HintsOf(u))
           c == ts.hints.pending
           d == us.hints.pending
<1>1. a \in Nat /\ b \in Nat /\ c \in Nat /\ d \in Nat
  BY DEF RoomOK, Room, TimersType
<1>2. Q \in Nat /\ R \in Nat /\ T \in Nat /\ U \in Nat
  BY HintsCounted
<1>3. b + T + U + d <= a + Q + R + c
  OBVIOUS
<1>4. Rank(new) = Rank(st) /\ (InPhase(new, "drawing") => InPhase(st, "drawing"))
  BY DEF SamePhase, Rank, InPhase
<1>5. Now(Flying(t, u), new, "drawingSaved") => Now(Flying(q, r), st, "drawingSaved")
  BY <1>4 DEF Now
<1>6. Now(Flying(q, r), st, "drawingSaved") => c = 0
  BY DEF SetOnce
<1>7. HintsCount \in Nat
  BY SettingsAssumption
<1>8. InPhase(st, "drawing") => a + Q + R + ToCome(Flying(q, r), st, ts) <= HintsCount
  BY DEF Budget
<1> HIDE DEF a, b, c, d, Q, R, T, U
<1>9. InPhase(new, "drawing") => b + T + U + ToCome(Flying(t, u), new, us) <= HintsCount
  <2> SUFFICES ASSUME InPhase(new, "drawing")
               PROVE  b + T + U + ToCome(Flying(t, u), new, us) <= HintsCount
    OBVIOUS
  <2>1. CASE Now(Flying(t, u), new, "drawingSaved")
    <3>1. ToCome(Flying(t, u), new, us) = HintsCount /\ ToCome(Flying(q, r), st, ts) = HintsCount
      BY <1>5, <2>1 DEF ToCome
    <3> QED
      BY <1>1, <1>2, <1>3, <1>4, <1>5, <1>6, <1>7, <1>8, <2>1, <3>1
  <2>2. CASE ~Now(Flying(t, u), new, "drawingSaved") /\ Now(Flying(q, r), st, "drawingSaved")
    <3>1. ToCome(Flying(t, u), new, us) = d /\ ToCome(Flying(q, r), st, ts) = HintsCount
      BY <2>2 DEF ToCome, d
    <3> QED
      BY <1>1, <1>2, <1>3, <1>4, <1>6, <1>7, <1>8, <2>2, <3>1
  <2>3. CASE ~Now(Flying(t, u), new, "drawingSaved") /\ ~Now(Flying(q, r), st, "drawingSaved")
    <3>1. ToCome(Flying(t, u), new, us) = d /\ ToCome(Flying(q, r), st, ts) = c
      BY <2>3 DEF ToCome, c, d
    <3> QED
      BY <1>1, <1>2, <1>3, <1>4, <1>7, <1>8, <3>1
  <2> QED
    BY <2>1, <2>2, <2>3
<1> QED
  BY <1>9 DEF Budget, b, T, U

(* The timers of the drawing are set.                                      *)
LEMMA BudgetArmed ==
  ASSUME NEW S, NEW q \in Seq(S), NEW r \in Seq(S), NEW u \in Seq(S),
         NEW st, RoomOK(st), NEW ts, NEW us, us.hints.pending = HintsCount,
         Cardinality(HintsOf(u)) <= Cardinality(HintsOf(r)),
         Now(Flying(q, r), st, "drawingSaved"), Budget(q, r, st, ts)
  PROVE  Budget(q, u, st, us)
<1> DEFINE a == st.hintsUsed
           Q == Cardinality(HintsOf(q))
           R == Cardinality(HintsOf(r))
           U == Cardinality(HintsOf(u))
<1>1. a \in Nat /\ Q \in Nat /\ R \in Nat /\ U \in Nat /\ HintsCount \in Nat
  BY HintsCounted, SettingsAssumption DEF RoomOK, Room
<1>2. ToCome(Flying(q, r), st, ts) = HintsCount /\ ToCome(Flying(q, u), st, us) = HintsCount
  BY DEF ToCome
<1>3. InPhase(st, "drawing") => a + Q + R + HintsCount <= HintsCount
  BY <1>2 DEF Budget
<1>4. U <= R
  OBVIOUS
<1> HIDE DEF a, Q, R, U
<1>5. InPhase(st, "drawing") => a + Q + U + HintsCount <= HintsCount
  BY <1>1, <1>3, <1>4
<1> QED
  BY <1>2, <1>5 DEF Budget, a, Q, U

(* A drawing begins: no handler of a hint is left from the last one.       *)
LEMMA BudgetBegins ==
  ASSUME NEW S, NEW q \in Seq(S), NEW r \in Seq(S), NEW h \in S,
         NEW i \in DOMAIN r, h.pc = "drawingSaved",
         NEW st, RoomOK(st), NEW new, RoomOK(new), FlyingOK(q, r),
         Rank(new) = Rank(st) + 1, new.hintsUsed = 0, r[i].pc \in Movers, r[i].st = st,
         NEW us, us.hints.pending = 0, Paced(q, r, Rank(st))
  PROVE  Budget(Append(q, h), RemoveAt(r, i), new, us)
<1> SUFFICES ASSUME InPhase(new, "drawing")
             PROVE  Budget(Append(q, h), RemoveAt(r, i), new, us)
  BY DEF Budget
<1>1. /\ Rank(st) \in Nat /\ Rank(new) \in Nat /\ i \in GameOf(r) /\ "hintTimeout" \in Pcs
  BY RankOf DEF GameOf, Movers, Pcs
<1>2. ASSUME NEW x \in Flying(q, r)
      PROVE  /\ HandlerOK(x) /\ Rank(x.st) \in Nat
             /\ Rank(x.st) <= Rank(st) /\ Rank(st) <= Rank(x.st) + 1
  <2>1. HandlerOK(x) /\ Rank(x.st) \in Nat
    BY RankOf DEF FlyingOK, HandlerOK
  <2>2. CASE \E j \in GameOf(q) : x = q[j]
    BY <2>2, <2>1 DEF Paced, Near
  <2>3. CASE \E j \in GameOf(r) : x = r[j]
    BY <1>1, <2>1, <2>3 DEF Paced, Near
  <2> QED
    BY <2>1, <2>2, <2>3 DEF Flying
<1>3. \A x \in Flying(q, r) : x.pc # "hintTimeout"
  <2> SUFFICES ASSUME NEW x \in Flying(q, r), x.pc = "hintTimeout"
               PROVE  FALSE
    OBVIOUS
  <2>1. InPhase(x.st, "drawing") /\ RoomOK(x.st)
    BY <1>2 DEF HandlerOK, ReliesOn
  <2>2. Rank(x.st) <= Rank(new) /\ Rank(new) <= Rank(x.st) + 2
    BY <1>1, <1>2
  <2>3. Rank(x.st) = Rank(new)
    BY <2>1, <2>2, DrawingsFarApart
  <2> QED
    BY <1>1, <1>2, <2>3
<1>4. HintsOf(q) = {} /\ HintsOf(r) = {}
  BY <1>1, <1>3 DEF HintsOf, Flying, GameOf
<1>5. Cardinality(HintsOf(Append(q, h))) = 0
  <2>1. Cardinality(HintsOf(Append(q, h))) = Cardinality(HintsOf(q)) + 0
    BY HintsAppended
  <2> QED
    BY <1>4, <2>1, FS_EmptySet
<1>6. Cardinality(HintsOf(RemoveAt(r, i))) = 0
  <2>1. Cardinality(HintsOf(RemoveAt(r, i))) <= Cardinality(HintsOf(r)) - 0
    BY HintsRemoved DEF Movers
  <2>2. RemoveAt(r, i) \in Seq(S)
    BY PlacesRemoved
  <2>3. Cardinality(HintsOf(RemoveAt(r, i))) \in Nat
    BY <2>2, HintsCounted
  <2> QED
    BY <1>4, <2>1, <2>3, FS_EmptySet
<1>7. ToCome(Flying(Append(q, h), RemoveAt(r, i)), new, us) \in {0, HintsCount}
  BY DEF ToCome
<1> QED
  BY <1>5, <1>6, <1>7, SettingsAssumption DEF Budget

(***************************************************************************)
(* The steps of the engine, when no update is lost.                        *)
(***************************************************************************)
(* A request or a timer: its handler h has read the record, or turns away. *)
Loads(h) ==
  /\ h.pc \in LoadPcs /\ h.st = room
  /\ queue' \in {queue, Append(queue, h)}
  /\ UNCHANGED <<room, ready, scoreboard, told>>
  /\ timers'.drawing \in {timers.drawing, 0}
  /\ IF h.pc = "hintTimeout"
     THEN timers.hints.pending # 0 /\ timers'.hints.pending = timers.hints.pending - 1
     ELSE timers'.hints.pending = timers.hints.pending

(* The i-th handler of the chunk ends without a write.                     *)
Ends(i) ==
  /\ Finish(i)
  /\ \/ /\ ready[i].pc \in {"wordSelectionSaved", "roundEndSaved", "gameOverSaved"}
        /\ scoreboard' \in {scoreboard, ScoresOf(ready[i].st)} /\ told' = told
        /\ timers'.drawing \in {timers.drawing, 0}
        /\ timers'.hints.pending \in {timers.hints.pending, 0}
     \/ /\ ready[i].pc = "drawingSaved"
        /\ scoreboard' = scoreboard /\ told' = {}
        /\ timers'.hints.pending = HintsCount
     \/ /\ ready[i].pc = "guessSaved" /\ ~AllGuessersFinished(ready[i].st)
        /\ scoreboard' = ScoresOf(ready[i].st) /\ told' = told \cup {ready[i].who}
        /\ UNCHANGED timers

(* It writes within the phase: a guess, a hint.                            *)
Guesses(i) ==
  /\ ready[i].pc = "guess" /\ ready[i].st = room
  /\ Turn(ready[i], room') /\ SaveRoom(i, room', "guessSaved")
  /\ UNCHANGED <<timers, scoreboard, told>>

Hints(i) ==
  /\ ready[i].pc = "hintTimeout" /\ ready[i].st = room
  /\ Turn(ready[i], room') /\ SaveRoomAndFinish(i, room')
  /\ UNCHANGED <<timers, scoreboard, told>>

(* It moves the game on to the next phase.                                 *)
Moves(i) ==
  /\ ready[i].pc \in Movers /\ ready[i].st = room /\ Turn(ready[i], room')
  /\ \E pc \in PhaseSaved : SaveRoom(i, room', pc)
  /\ \/ UNCHANGED <<scoreboard, told>>
     \/ /\ ready[i].pc = "guessSaved"
        /\ scoreboard' = ScoresOf(room) /\ told' = told \cup {ready[i].who}

LEMMA LoadsOf ==
  ASSUME GameStore(Handler), Request \/ TimerFires
  PROVE  \E h \in Handler : Loads(h)
<1>1. ASSUME NEW pc \in LoadPcs, NEW p \in PlayerIds \cup {NoPlayer}, NEW w \in Words \cup {NoWord},
             NEW accepted, LoadRoom(pc, p, w, accepted), UNCHANGED <<scoreboard, told>>,
             timers'.drawing \in {timers.drawing, 0},
             IF pc = "hintTimeout"
             THEN timers.hints.pending # 0 /\ timers'.hints.pending = timers.hints.pending - 1
             ELSE timers'.hints.pending = timers.hints.pending
      PROVE  \E h \in Handler : Loads(h)
  <2> DEFINE h == [pc |-> pc, st |-> room, who |-> p, word |-> w]
  <2>1. pc \in Pcs
    BY DEF LoadPcs, Pcs
  <2>2. h \in Handler /\ h.pc = pc /\ h.st = room
    BY <2>1, LoadedHandler DEF GameStore
  <2>3. queue' \in {queue, Append(queue, h)} /\ UNCHANGED <<room, ready>>
    BY <1>1 DEF LoadRoom
  <2> HIDE DEF h
  <2> QED
    BY <1>1, <2>2, <2>3 DEF Loads
<1>2. timers \in TimersType
  BY DEF GameStore
<1>3. CASE Request
  <2>1. PICK p \in PlayerIds :
          StartGame(p) \/ (\E w \in Words : ChooseWord(p, w)) \/ Guess(p)
    BY <1>3 DEF Request
  <2>2. CASE StartGame(p)
    BY <1>1, <2>2 DEF StartGame, LoadPcs
  <2>3. CASE \E w \in Words : ChooseWord(p, w)
    BY <1>1, <2>3 DEF ChooseWord, LoadPcs
  <2>4. CASE Guess(p)
    BY <1>1, <2>4 DEF Guess, LoadPcs
  <2> QED
    BY <2>1, <2>2, <2>3, <2>4
<1>4. CASE WordSelectionTimeout
  <2>1. timers'.drawing = timers.drawing /\ timers'.hints.pending = timers.hints.pending
    BY <1>2, <1>4 DEF WordSelectionTimeout, TimersType
  <2> QED
    BY <1>1, <1>4, <2>1 DEF WordSelectionTimeout, LoadPcs
<1>5. CASE HintTimeout
  <2> DEFINE accepted == /\ StillIn("drawing", timers.hints.miniRound)
                         /\ RevealHint(room.wordMask) # room.wordMask
  <2>1. /\ timers'.drawing = timers.drawing /\ timers.hints.pending # 0
        /\ timers'.hints.pending = timers.hints.pending - 1
    BY <1>2, <1>5 DEF HintTimeout, TimersType
  <2>2. /\ LoadRoom("hintTimeout", NoPlayer, NoWord, accepted)
        /\ UNCHANGED <<scoreboard, told>>
    BY <1>5 DEF HintTimeout
  <2> HIDE DEF accepted
  <2> QED
    BY <1>1, <2>1, <2>2 DEF LoadPcs
<1>6. CASE DrawingTimeout
  <2>1. timers'.drawing = 0 /\ timers'.hints.pending = timers.hints.pending
    BY <1>2, <1>6 DEF DrawingTimeout, TimersType
  <2> QED
    BY <1>1, <1>6, <2>1 DEF DrawingTimeout, LoadPcs
<1>7. CASE RoundEndTimeout
  <2>1. timers'.drawing = timers.drawing /\ timers'.hints.pending = timers.hints.pending
    BY <1>2, <1>7 DEF RoundEndTimeout, TimersType
  <2> QED
    BY <1>1, <1>7, <2>1 DEF RoundEndTimeout, LoadPcs
<1> QED
  BY <1>3, <1>4, <1>5, <1>6, <1>7 DEF TimerFires

(* A handler that resumes at a command of the engine is one of the game's. *)
ReadyOK == \A i \in DOMAIN ready : ready[i].pc \in Pcs => HandlerOK(ready[i])

LEMMA ResumeShape ==
  ASSUME ReadyOK, timers \in TimersType, ~lostUpdate', Resume
  PROVE  \E i \in DOMAIN ready :
           HandlerOK(ready[i]) /\ (Ends(i) \/ Guesses(i) \/ Hints(i) \/ Moves(i))
<1>1. PICK i \in DOMAIN ready :
        \/ SaveFirstWordSelection(i) \/ SaveNextWordSelection(i) \/ ArmWordSelection(i)
        \/ SaveChosenWord(i) \/ SaveAutoSelectedWord(i) \/ ArmDrawing(i)
        \/ SaveGuess(i) \/ AnnounceGuess(i) \/ SaveHint(i)
        \/ SaveRoundEnd(i) \/ ArmRoundEnd(i)
        \/ SaveGameOver(i) \/ ClearRoomTimers(i)
  BY DEF Resume
<1> DEFINE h == ready[i]
<1>2. h.pc \in Pcs /\ timers \in TimersType
  BY <1>1
  DEF SaveFirstWordSelection, SaveNextWordSelection, ArmWordSelection, SaveChosenWord,
      SaveAutoSelectedWord, ArmDrawing, SaveGuess, AnnounceGuess, SaveHint, SaveRoundEnd,
      ArmRoundEnd, SaveGameOver, ClearRoomTimers, Resumes, Pcs
<1>3. HandlerOK(h) /\ RoomOK(h.st) /\ ReliesOn(h)
  BY <1>2 DEF ReadyOK, HandlerOK
<1>4. \A next, pc : SaveRoom(i, next, pc) => room' = next /\ h.st = room
  BY DEF SaveRoom
<1> SUFFICES Ends(i) \/ Guesses(i) \/ Hints(i) \/ Moves(i)
  BY <1>3
<1>5. CASE SaveFirstWordSelection(i)
  <2>1. h.pc = "startGame" /\ UNCHANGED <<timers, scoreboard, told>>
    BY <1>5 DEF SaveFirstWordSelection, Resumes
  <2>2. PICK options \in WordOptions({}) :
          SaveRoom(i, CreateWordSelectionState(h.st, options), "wordSelectionSaved")
    BY <1>5 DEF SaveFirstWordSelection
  <2> QED
    BY <1>4, <2>1, <2>2 DEF Moves, Turn, Movers, PhaseSaved
<1>6. CASE SaveNextWordSelection(i)
  <2>1. /\ h.pc = "roundEndTimeout" /\ UNCHANGED <<timers, scoreboard, told>>
        /\ h.st.miniRoundNumber < h.st.totalMiniRounds
    BY <1>6 DEF SaveNextWordSelection, Resumes
  <2>2. PICK options \in WordOptions(h.st.usedWords) :
          SaveRoom(i, CreateNextWordSelectionState(h.st, options), "wordSelectionSaved")
    BY <1>6 DEF SaveNextWordSelection
  <2> QED
    BY <1>4, <2>1, <2>2 DEF Moves, Turn, Movers, PhaseSaved
<1>7. ASSUME h.pc \in {"chooseWord", "wordSelectionTimeout"}, NEW w \in h.st.wordOptions,
             SaveDrawing(i, w)
      PROVE  Moves(i)
  BY <1>4, <1>7 DEF SaveDrawing, Moves, Turn, Movers, PhaseSaved
<1>8. CASE SaveChosenWord(i)
  <2>1. h.word \in h.st.wordOptions /\ h.pc = "chooseWord"
    BY <1>3, <1>8 DEF SaveChosenWord, Resumes, ReliesOn
  <2> QED
    BY <1>7, <1>8, <2>1 DEF SaveChosenWord
<1>9. CASE SaveAutoSelectedWord(i)
  <2>1. h.pc = "wordSelectionTimeout" /\ InPhase(h.st, "word_selection")
    BY <1>3, <1>9 DEF SaveAutoSelectedWord, Resumes, ReliesOn
  <2>2. Cardinality(h.st.wordOptions) = WordChoicesCount
    BY <1>3, <2>1 DEF RoomOK, WordsFresh, Playing, InPhase
  <2>3. h.st.wordOptions # {}
    BY <2>2, FS_EmptySet, SettingsAssumption
  <2>4. PICK w \in h.st.wordOptions : SaveDrawing(i, w)
    BY <1>9, <2>3 DEF SaveAutoSelectedWord, AutoSelectedWords
  <2> QED
    BY <1>7, <2>1, <2>4
<1>10. CASE SaveGuess(i)
  <2>1. h.pc = "guess" /\ UNCHANGED <<timers, scoreboard, told>>
    BY <1>10 DEF SaveGuess, Resumes
  <2>2. PICK remaining \in RemainingTimes :
          SaveRoom(i, ApplyCorrectGuess(h.st, h.who, remaining), "guessSaved")
    BY <1>10 DEF SaveGuess
  <2> QED
    BY <1>4, <2>1, <2>2 DEF Guesses, Turn
<1>11. CASE AnnounceGuess(i)
  <2>1. h.pc = "guessSaved" /\ scoreboard' = ScoresOf(h.st) /\ told' = told \cup {h.who}
    BY <1>11 DEF AnnounceGuess, Resumes
  <2>2. CASE AllGuessersFinished(h.st)
    <3>1. SaveRoom(i, CreateRoundEndState(h.st), "roundEndSaved")
      BY <1>11, <2>2 DEF AnnounceGuess
    <3> QED
      BY <1>4, <2>1, <3>1 DEF Moves, Turn, Movers, PhaseSaved
  <2>3. CASE ~AllGuessersFinished(h.st)
    BY <1>11, <2>1, <2>3 DEF AnnounceGuess, Ends
  <2> QED
    BY <2>2, <2>3
<1>12. CASE SaveHint(i)
  <2>1. /\ h.pc = "hintTimeout" /\ UNCHANGED <<timers, scoreboard, told>>
        /\ SaveRoomAndFinish(i, ApplyHint(h.st))
    BY <1>12 DEF SaveHint, Resumes
  <2>2. room' = ApplyHint(h.st) /\ h.st = room
    BY <2>1 DEF SaveRoomAndFinish
  <2> QED
    BY <2>1, <2>2 DEF Hints, Turn
<1>13. CASE SaveRoundEnd(i)
  <2>1. /\ h.pc = "drawingTimeout" /\ UNCHANGED <<scoreboard, told>>
        /\ SaveRoom(i, CreateRoundEndState(h.st), "roundEndSaved")
    BY <1>13 DEF SaveRoundEnd, Resumes
  <2> QED
    BY <1>4, <2>1 DEF Moves, Turn, Movers, PhaseSaved
<1>14. CASE SaveGameOver(i)
  <2>1. /\ h.pc = "roundEndTimeout" /\ UNCHANGED <<scoreboard, told>>
        /\ h.st.miniRoundNumber >= h.st.totalMiniRounds
        /\ SaveRoom(i, CreateGameOverState(h.st), "gameOverSaved")
    BY <1>14 DEF SaveGameOver, Resumes
  <2> QED
    BY <1>4, <2>1 DEF Moves, Turn, Movers, PhaseSaved
<1>15. CASE ArmWordSelection(i)
  <2>1. timers'.drawing = timers.drawing /\ timers'.hints.pending = timers.hints.pending
    BY <1>2, <1>15 DEF ArmWordSelection, TimersType
  <2> QED
    BY <1>15, <2>1 DEF ArmWordSelection, Resumes, Ends
<1>16. CASE ArmDrawing(i)
  <2>1. timers'.hints.pending = HintsCount
    BY <1>2, <1>16 DEF ArmDrawing, SetHints, TimersType
  <2> QED
    BY <1>16, <2>1 DEF ArmDrawing, Resumes, Ends
<1>17. CASE ArmRoundEnd(i)
  <2>1. timers'.drawing = timers.drawing /\ timers'.hints.pending = timers.hints.pending
    BY <1>2, <1>17 DEF ArmRoundEnd, TimersType
  <2> QED
    BY <1>17, <2>1 DEF ArmRoundEnd, Resumes, Ends
<1>18. CASE ClearRoomTimers(i)
  <2>1. timers'.drawing = 0 /\ timers'.hints.pending = 0
    BY <1>18 DEF ClearRoomTimers, NoTimers
  <2> QED
    BY <1>18, <2>1 DEF ClearRoomTimers, Resumes, Ends
<1> QED
  BY <1>1, <1>5, <1>6, <1>8, <1>9, <1>10, <1>11, <1>12, <1>13, <1>14, <1>15, <1>16, <1>17, <1>18

LEMMA GameShape ==
  ASSUME GameStore(Handler), ~lostUpdate', [Next]_vars
  PROVE  \/ \E h \in Handler : Loads(h)
         \/ Deliver /\ UNCHANGED <<timers, scoreboard, told>>
         \/ \E i \in DOMAIN ready : Ends(i) \/ Guesses(i) \/ Hints(i) \/ Moves(i)
         \/ UNCHANGED vars
<1>1. ReadyOK /\ timers \in TimersType
  BY DEF GameStore, FlyingOK, Flying, GameOf, ReadyOK
<1>2. Resume => \E i \in DOMAIN ready : Ends(i) \/ Guesses(i) \/ Hints(i) \/ Moves(i)
  BY <1>1, ResumeShape
<1> QED
  BY <1>2, LoadsOf DEF Next, Replies

(***************************************************************************)
(* The budget of the hints.                                                *)
(***************************************************************************)
InBudget == Budget(queue, ready, room, timers)

LEMMA BudgetStep ==
  ASSUME GameStore(Handler), GameKept, InBudget, [Next]_vars, ~lostUpdate',
         GameStore(Handler)', GameKept'
  PROVE  InBudget'
<1>1. /\ queue \in Seq(Handler) /\ ready \in Seq(Handler)
      /\ queue' \in Seq(Handler) /\ ready' \in Seq(Handler)
      /\ RoomOK(room) /\ RoomOK(room') /\ timers \in TimersType /\ timers' \in TimersType
      /\ FlyingOK(queue, ready) /\ FlyingOK(queue', ready')
  BY DEF GameStore
<1>2. /\ SetOnce(Flying(queue, ready), room, timers) /\ Budget(queue, ready, room, timers)
      /\ Paced(queue, ready, Rank(room)) /\ Awaited(Flying(queue, ready), room)
      /\ SetOnce(Flying(queue', ready'), room', timers')
  BY DEF GameKept, Kept, OnTime, InBudget
<1> DEFINE n == Cardinality(HintsOf(queue))
           m == Cardinality(HintsOf(ready))
           k == timers.hints.pending
           n1 == Cardinality(HintsOf(queue'))
           m1 == Cardinality(HintsOf(ready'))
           k1 == timers'.hints.pending
<1>3. /\ n \in Nat /\ m \in Nat /\ k \in Nat /\ room.hintsUsed \in Nat
      /\ n1 \in Nat /\ m1 \in Nat /\ k1 \in Nat /\ room'.hintsUsed \in Nat
  BY <1>1, HintsCounted DEF RoomOK, Room, TimersType
<1>4. ASSUME SamePhase(room, room'),
             \A x \in Flying(queue', ready') :
               x.pc = "drawingSaved" => x \in Flying(queue, ready),
             room'.hintsUsed + n1 + m1 + k1 <= room.hintsUsed + n + m + k
      PROVE  InBudget'
  BY <1>1, <1>2, <1>4, BudgetShrinks DEF InBudget
<1>5. ASSUME NEW i \in DOMAIN ready
      PROVE  /\ ready[i] \in Handler /\ ready[i].pc \in Pcs /\ i \in GameOf(ready)
             /\ HandlerOK(ready[i]) /\ ready[i] \in Flying(queue, ready)
  <2>1. ready[i] \in Handler
    BY <1>1, Places
  <2> QED
    BY <1>1, <2>1 DEF Handler, GameOf, Flying, FlyingOK
<1>6. ASSUME NEW i \in DOMAIN ready, ready' = RemoveAt(ready, i), queue' = queue
      PROVE  /\ Flying(queue', ready') \subseteq Flying(queue, ready)
             /\ n1 = n /\ m1 <= m - (IF ready[i].pc = "hintTimeout" THEN 1 ELSE 0)
  BY <1>1, <1>6, FlyingRemove, HintsRemoved
<1>7. ASSUME NEW h \in Handler, Loads(h)
      PROVE  InBudget'
  <2>1. /\ queue' \in {queue, Append(queue, h)} /\ UNCHANGED <<room, ready>>
        /\ h.pc \in Pcs /\ h.pc # "drawingSaved"
    BY <1>7 DEF Loads, LoadPcs, Pcs
  <2>2. Flying(queue', ready') \subseteq Flying(queue, ready) \cup {h}
    <3>1. CASE queue' = queue
      BY <2>1, <3>1
    <3>2. CASE queue' = Append(queue, h)
      BY <1>1, <2>1, <3>2, FlyingAppend
    <3> QED
      BY <2>1, <3>1, <3>2
  <2>3. (n1 = n \/ n1 = n + (IF h.pc = "hintTimeout" THEN 1 ELSE 0)) /\ m1 = m
    <3>1. CASE queue' = queue
      BY <2>1, <3>1
    <3>2. CASE queue' = Append(queue, h)
      BY <1>1, <2>1, <3>2, HintsAppended
    <3> QED
      BY <2>1, <3>1, <3>2
  <2>4. IF h.pc = "hintTimeout" THEN k1 = k - 1 ELSE k1 = k
    BY <1>7 DEF Loads
  <2> HIDE DEF n, m, k, n1, m1, k1
  <2>5. room'.hintsUsed + n1 + m1 + k1 <= room.hintsUsed + n + m + k
    BY <1>3, <2>1, <2>3, <2>4
  <2> QED
    BY <1>4, <2>1, <2>2, <2>5 DEF SamePhase
<1>8. CASE Deliver /\ UNCHANGED <<timers, scoreboard, told>>
  <2>1. PICK c \in 1..Len(queue) : /\ ready' = SubSeq(queue, 1, c)
                                  /\ queue' = SubSeq(queue, c + 1, Len(queue))
    BY <1>8 DEF Deliver
  <2>2. ready = <<>> /\ UNCHANGED <<room, timers>>
    BY <1>8 DEF Deliver
  <2>3. Flying(queue', ready') = Flying(queue, ready)
    BY <1>1, <2>1, <2>2, FlyingCut
  <2>4. n1 + m1 <= n
    BY <1>1, <2>1, HintsCut
  <2>5. k1 = k
    BY <2>2
  <2> HIDE DEF n, m, k, n1, m1, k1
  <2>6. room'.hintsUsed + n1 + m1 + k1 <= room.hintsUsed + n + m + k
    BY <1>3, <2>2, <2>4, <2>5
  <2> QED
    BY <1>4, <2>2, <2>3, <2>6 DEF SamePhase
<1>9. ASSUME NEW i \in DOMAIN ready, Ends(i)
      PROVE  InBudget'
  <2>1. ready' = RemoveAt(ready, i) /\ UNCHANGED <<room, queue>>
    BY <1>9 DEF Ends, Finish
  <2>2. CASE ready[i].pc = "drawingSaved"
    <3>1. k1 = HintsCount
      BY <1>9, <2>2 DEF Ends
    <3>2. Now(Flying(queue, ready), room, "drawingSaved")
      BY <1>2, <1>5, <2>2 DEF Awaited, Now
    <3>3. m1 <= m
      BY <1>3, <1>6, <2>1, <2>2
    <3> QED
      BY <1>1, <1>2, <2>1, <3>1, <3>2, <3>3, BudgetArmed DEF InBudget
  <2>3. CASE ready[i].pc # "drawingSaved"
    <3>1. k1 \in {k, 0}
      BY <1>9, <2>3 DEF Ends
    <3>2. n1 = n /\ m1 <= m
      <4>1. n1 = n /\ (m1 <= m - 1 \/ m1 <= m - 0)
        BY <1>6, <2>1
      <4> HIDE DEF n, m, n1, m1
      <4> QED
        BY <1>3, <4>1
    <3> HIDE DEF n, m, k, n1, m1, k1
    <3>3. room'.hintsUsed + n1 + m1 + k1 <= room.hintsUsed + n + m + k
      BY <1>3, <2>1, <3>1, <3>2
    <3> QED
      BY <1>4, <1>6, <2>1, <3>3 DEF SamePhase
  <2> QED
    BY <2>2, <2>3
<1>10. ASSUME NEW i \in DOMAIN ready, Hints(i)
       PROVE  InBudget'
  <2>1. /\ ready' = RemoveAt(ready, i) /\ UNCHANGED <<queue, timers>>
        /\ ready[i].pc = "hintTimeout" /\ room' = ApplyHint(room)
    BY <1>10 DEF Hints, SaveRoomAndFinish, Turn
  <2>2. room'.hintsUsed = room.hintsUsed + 1 /\ SamePhase(room, room')
    BY <1>1, <2>1, HintEffect DEF RoomOK, SamePhase
  <2>3. n1 = n /\ m1 <= m - 1 /\ k1 = k
    BY <1>6, <2>1
  <2> HIDE DEF n, m, k, n1, m1, k1
  <2>4. room'.hintsUsed + n1 + m1 + k1 <= room.hintsUsed + n + m + k
    BY <1>3, <2>2, <2>3
  <2> QED
    BY <1>4, <1>6, <2>1, <2>2, <2>4
<1>11. ASSUME NEW i \in DOMAIN ready, NEW pc \in Pcs \ {"hintTimeout"}, SaveRoom(i, room', pc)
       PROVE  LET h == [ready[i] EXCEPT !.pc = pc, !.st = room']
              IN /\ queue' = Append(queue, h) /\ ready' = RemoveAt(ready, i)
                 /\ h \in Handler /\ h.pc = pc /\ h.st = room'
                 /\ Flying(queue', ready') \subseteq Flying(queue, ready) \cup {h}
                 /\ n1 = n /\ m1 <= m
  <2> DEFINE h == [ready[i] EXCEPT !.pc = pc, !.st = room']
  <2>1. queue' = Append(queue, h) /\ ready' = RemoveAt(ready, i)
    BY <1>11 DEF SaveRoom
  <2>2. h \in Handler /\ h.pc = pc /\ h.st = room'
    BY <1>1, <1>5 DEF Handler, RoomOK
  <2> HIDE DEF h
  <2>3. Flying(queue', ready) = Flying(queue, ready) \cup {h}
    BY <1>1, <2>1, <2>2, FlyingAppend
  <2>4. Flying(queue', ready') \subseteq Flying(queue', ready)
    BY <1>1, <2>1, FlyingRemove
  <2>5. n1 = n + 0 /\ (m1 <= m - 1 \/ m1 <= m - 0)
    BY <1>1, <2>1, <2>2, HintsAppended, HintsRemoved
  <2>6. n1 = n /\ m1 <= m
    <3> HIDE DEF n, m, n1, m1
    <3> QED
      BY <1>3, <2>5
  <2> QED
    BY <2>1, <2>2, <2>3, <2>4, <2>6 DEF h
<1>12. ASSUME NEW i \in DOMAIN ready, Guesses(i)
       PROVE  InBudget'
  <2>1. PICK remaining \in RemainingTimes :
          room' = ApplyCorrectGuess(room, ready[i].who, remaining)
    BY <1>12 DEF Guesses, Turn
  <2>2. remaining \in Int
    BY LobbyAssumption, SettingsAssumption
  <2>3. SamePhase(room, room') /\ room'.hintsUsed = room.hintsUsed
    BY <1>1, <2>1, <2>2, GuessEffect DEF RoomOK, SamePhase
  <2>4. SaveRoom(i, room', "guessSaved") /\ k1 = k
    BY <1>12 DEF Guesses
  <2>5. \A x \in Flying(queue', ready') : x.pc = "drawingSaved" => x \in Flying(queue, ready)
    <3> DEFINE h == [ready[i] EXCEPT !.pc = "guessSaved", !.st = room']
    <3>1. Flying(queue', ready') \subseteq Flying(queue, ready) \cup {h} /\ h.pc = "guessSaved"
      BY <1>11, <2>4 DEF Pcs
    <3> HIDE DEF h
    <3> QED
      BY <3>1
  <2>6. n1 = n /\ m1 <= m
    BY <1>11, <2>4 DEF Pcs
  <2> HIDE DEF n, m, k, n1, m1, k1
  <2>7. room'.hintsUsed + n1 + m1 + k1 <= room.hintsUsed + n + m + k
    BY <1>3, <2>3, <2>4, <2>6
  <2> QED
    BY <1>4, <2>3, <2>5, <2>7
<1>13. ASSUME NEW i \in DOMAIN ready, Moves(i)
       PROVE  InBudget'
  <2> SUFFICES ASSUME InPhase(room', "drawing")
               PROVE  InBudget'
    BY DEF InBudget, Budget
  <2>1. PICK pc \in PhaseSaved : SaveRoom(i, room', pc)
    BY <1>13 DEF Moves
  <2> DEFINE h == [ready[i] EXCEPT !.pc = pc, !.st = room']
  <2>2. /\ queue' = Append(queue, h) /\ ready' = RemoveAt(ready, i)
        /\ h \in Handler /\ h.pc = pc /\ h.st = room'
    BY <1>11, <2>1 DEF PhaseSaved, Pcs
  <2> HIDE DEF h
  <2>3. ready[i].pc \in Movers /\ ready[i].st = room /\ Turn(ready[i], room')
    BY <1>13 DEF Moves
  <2>4. Rank(room') = Rank(room) + 1
    BY <1>5, <2>3, TurnMoves DEF Movers
  <2>5. h \in Flying(queue', ready')
    <3>1. Flying(queue', ready') = Flying(queue, ready') \cup {h}
      BY <1>1, <2>2, FlyingAppend DEF PhaseSaved, Pcs
    <3> QED
      BY <3>1
  <2>6. pc = "drawingSaved"
    <3>1. HandlerOK(h)
      BY <1>1, <2>5 DEF FlyingOK
    <3> QED
      BY <2>2, <3>1 DEF HandlerOK, ReliesOn, PhaseSaved, InPhase
  <2>7. timers'.hints.pending = 0
    <3>1. Now(Flying(queue', ready'), room', "drawingSaved")
      BY <2>2, <2>5, <2>6 DEF Now
    <3> QED
      BY <1>2, <3>1 DEF SetOnce
  <2>8. room'.hintsUsed = 0
    <3>1. InPhase(room, "word_selection") => ready[i].pc \in {"chooseWord", "wordSelectionTimeout"}
      BY <1>5, <2>3 DEF Movers, HandlerOK, ReliesOn, InPhase
    <3>2. /\ room \in Room /\ room.wordOptions \subseteq Words
          /\ ready[i].pc \notin {"guess", "hintTimeout"}
      BY <1>1, <2>3 DEF RoomOK, Room, Movers
    <3>3. CASE \E w \in room.wordOptions : room' = CreateDrawingState(room, w)
      BY <3>2, <3>3, DrawingEffect
    <3>4. CASE ~\E w \in room.wordOptions : room' = CreateDrawingState(room, w)
      <4>1. room'.roundPhase # "drawing" \/ room'.phase # "in_game"
        BY <1>1, <2>3, <3>2, <3>4 DEF Turn, CreateWordSelectionState, Room,
           CreateNextWordSelectionState, CreateRoundEndState, CreateGameOverState
      <4> QED
        BY <4>1 DEF InPhase
    <3> QED
      BY <3>3, <3>4
  <2> QED
    BY <1>1, <1>2, <2>2, <2>3, <2>4, <2>6, <2>7, <2>8, BudgetBegins DEF InBudget
<1>14. CASE UNCHANGED vars
  BY <1>2, <1>14 DEF vars, storeVars, InBudget
<1> QED
  BY <1>7, <1>8, <1>9, <1>10, <1>12, <1>13, <1>14, GameShape

(***************************************************************************)
(* What the players were told.                                             *)
(***************************************************************************)
LEMMA ScoresFormed ==
  ASSUME NEW st \in Room
  PROVE  \A p \in PlayerIds : ScoresOf(st)[p] \in Nat
  BY ScoresType

(* A turn of the game takes points from nobody.                            *)
LEMMA TurnPays ==
  ASSUME NEW h, HandlerOK(h), SeatsApart(h.st), NEW new, Turn(h, new)
  PROVE  /\ SameCast(h.st, new)
         /\ \A p \in PlayerIds : ScoresOf(h.st)[p] <= ScoresOf(new)[p]
<1> DEFINE st == h.st
<1>1. /\ st \in Room /\ RoomOK(st) /\ SeatsApart(st) /\ new \in Room
      /\ st.wordOptions \in SUBSET Words
      /\ h.pc \in {"guessSaved", "drawingTimeout"} => InPhase(st, "drawing")
      /\ h.pc = "startGame" => st.miniRoundNumber = 0
  <2>1. /\ st \in Room /\ RoomOK(new)
        /\ h.pc \in {"guessSaved", "drawingTimeout"} => InPhase(st, "drawing")
        /\ h.pc = "startGame" => st.miniRoundNumber = 0
    BY TurnIsSound
  <2>2. RoomOK(st)
    BY DEF HandlerOK
  <2>3. new \in Room /\ st.wordOptions \in SUBSET Words
    BY <2>1 DEF RoomOK, Room
  <2> QED
    BY <2>1, <2>2, <2>3
<1> HIDE DEF st
<1>2. SameCast(st, new) /\ SameScores(st, new) =>
        SameCast(st, new) /\ \A p \in PlayerIds : ScoresOf(st)[p] <= ScoresOf(new)[p]
  <2> SUFFICES ASSUME SameCast(st, new), SameScores(st, new), NEW p \in PlayerIds
               PROVE  ScoresOf(st)[p] <= ScoresOf(new)[p]
    OBVIOUS
  <2>1. ScoresOf(new) = ScoresOf(st) /\ ScoresOf(st)[p] \in Nat
    BY <1>1, SameScoresSeen, ScoresFormed
  <2> QED
    BY <2>1
<1>3. ASSUME h.pc = "guess", NEW remaining \in RemainingTimes,
             new = ApplyCorrectGuess(st, h.who, remaining)
      PROVE  SameCast(st, new) /\ \A p \in PlayerIds : ScoresOf(st)[p] <= ScoresOf(new)[p]
  <2> DEFINE awarded == GuesserScore(remaining, RoundTimeSec, st.hintsUsed, Position(st))
             contribution ==
               LeaderContribution(remaining, RoundTimeSec, st.roundParticipantsCount)
  <2>1. remaining \in Int
    BY LobbyAssumption, SettingsAssumption
  <2>2. awarded \in Nat /\ contribution \in Nat
    BY <1>1, <2>1, AwardType
  <2>3. /\ SameCast(st, new)
        /\ \A i \in DOMAIN st.players :
             new.players[i].score = st.players[i].score +
               IF st.players[i].id = h.who THEN awarded
               ELSE IF st.players[i].id = st.leaderPlayerId THEN contribution ELSE 0
    BY <1>1, <1>3, <2>1, GuessEffect
  <2> HIDE DEF awarded, contribution
  <2>4. \A i \in DOMAIN st.players : st.players[i].score \in Nat
    BY <1>1, PlayersDomain DEF Player
  <2>5. \A i \in DOMAIN st.players : st.players[i].score <= new.players[i].score
    BY <2>2, <2>3, <2>4
  <2>6. ASSUME NEW p \in Members(st)
        PROVE  CurrentPlayer(st, p).score <= CurrentPlayer(new, p).score
    BY <1>1, <2>3, <2>5, SameSeat DEF CurrentPlayer
  <2>7. Members(new) = Members(st)
    BY <2>3, SameCastMembers
  <2> QED
    BY <2>3, <2>6, <2>7 DEF ScoresOf
<1>4. ASSUME h.pc = "startGame", NEW options \in WordOptions({}),
             new = CreateWordSelectionState(st, options)
      PROVE  SameCast(st, new) /\ SameScores(st, new)
  BY <1>1, <1>4, WordSelectionEffect DEF WordOptions
<1>5. ASSUME NEW options \in WordOptions(st.usedWords),
             new = CreateNextWordSelectionState(st, options)
      PROVE  SameCast(st, new) /\ SameScores(st, new)
  BY <1>1, <1>5, NextWordSelectionEffect DEF WordOptions
<1>6. ASSUME NEW w \in st.wordOptions, new = CreateDrawingState(st, w)
      PROVE  SameCast(st, new) /\ SameScores(st, new)
  BY <1>1, <1>6, DrawingEffect
<1>7. ASSUME new = ApplyHint(st)
      PROVE  SameCast(st, new) /\ SameScores(st, new)
  BY <1>1, <1>7, HintEffect
<1>8. ASSUME h.pc \in {"guessSaved", "drawingTimeout"}, new = CreateRoundEndState(st)
      PROVE  SameCast(st, new) /\ SameScores(st, new)
  BY <1>1, <1>8, RoundEndEffect DEF InPhase
<1>9. ASSUME new = CreateGameOverState(st)
      PROVE  SameCast(st, new) /\ SameScores(st, new)
  BY <1>1, <1>9, GameOverEffect
<1> QED
  BY <1>2, <1>3, <1>4, <1>5, <1>6, <1>7, <1>8, <1>9 DEF Turn, st

(* Within a drawing no guess is forgotten, and a new drawing starts with   *)
(* none.                                                                   *)
LEMMA TurnRecords ==
  ASSUME NEW h, HandlerOK(h), NEW new, Turn(h, new)
  PROVE  /\ h.pc \in {"guess", "hintTimeout"} =>
              GuessersWhoGuessed(h.st) \subseteq GuessersWhoGuessed(new)
         /\ h.pc = "hintTimeout" =>
              (AllGuessersFinished(new) <=> AllGuessersFinished(h.st))
         /\ h.pc \notin {"guess", "hintTimeout"} /\ InPhase(new, "drawing") =>
              /\ h.pc \in {"chooseWord", "wordSelectionTimeout"}
              /\ ~AllGuessersFinished(new)
<1> DEFINE st == h.st
<1>1. /\ st \in Room /\ RoomOK(st) /\ ReliesOn(h)
      /\ st.wordOptions \in SUBSET Words
      /\ h.pc \in {"guessSaved", "drawingTimeout"} => InPhase(st, "drawing")
  BY TurnIsSound DEF RoomOK, Room, HandlerOK
<1> HIDE DEF st
<1>2. ASSUME h.pc = "guess"
      PROVE  GuessersWhoGuessed(st) \subseteq GuessersWhoGuessed(new)
  <2>1. PICK remaining \in RemainingTimes : new = ApplyCorrectGuess(st, h.who, remaining)
    BY <1>2 DEF Turn, st
  <2>2. remaining \in Int
    BY LobbyAssumption, SettingsAssumption
  <2>3. h.who \in Members(st) \ {st.leaderPlayerId}
    BY <1>1, <1>2 DEF ReliesOn, st
  <2> QED
    BY <1>1, <2>1, <2>2, <2>3, GuessRecorded
<1>3. ASSUME h.pc = "hintTimeout"
      PROVE  /\ GuessersWhoGuessed(st) \subseteq GuessersWhoGuessed(new)
             /\ AllGuessersFinished(new) <=> AllGuessersFinished(st)
  <2>1. new.players = st.players /\ new.leaderPlayerId = st.leaderPlayerId
    BY <1>1, <1>3, HintEffect DEF Turn, st
  <2> QED
    BY <2>1 DEF GuessersWhoGuessed, AllGuessersFinished
<1>4. ASSUME h.pc \notin {"guess", "hintTimeout"}, InPhase(new, "drawing")
      PROVE  h.pc \in {"chooseWord", "wordSelectionTimeout"} /\ ~AllGuessersFinished(new)
  <2>1. CASE /\ h.pc \in {"chooseWord", "wordSelectionTimeout"}
             /\ \E w \in st.wordOptions : new = CreateDrawingState(st, w)
    <3>1. NobodyGuessed(new)
      BY <1>1, <2>1, DrawingEffect
    <3>2. ~AllGuessersFinished(new)
      BY <3>1 DEF NobodyGuessed, AllGuessersFinished
    <3> QED
      BY <2>1, <3>2
  <2>2. CASE ~(/\ h.pc \in {"chooseWord", "wordSelectionTimeout"}
               /\ \E w \in st.wordOptions : new = CreateDrawingState(st, w))
    <3>1. new.roundPhase # "drawing" \/ new.phase # "in_game"
      BY <1>1, <1>4, <2>2 DEF Turn, CreateWordSelectionState, Room,
         CreateNextWordSelectionState, CreateRoundEndState, CreateGameOverState, st
    <3> QED
      BY <1>4, <3>1 DEF InPhase
  <2> QED
    BY <2>1, <2>2
<1> QED
  BY <1>2, <1>3, <1>4 DEF st

LEMMA FlyingNear ==
  ASSUME NEW q, NEW r, NEW st, RoomOK(st), FlyingOK(q, r), Paced(q, r, Rank(st)),
         NEW x \in Flying(q, r)
  PROVE  /\ HandlerOK(x) /\ RoomOK(x.st) /\ Rank(x.st) \in Nat /\ Rank(st) \in Nat
         /\ Rank(x.st) <= Rank(st) /\ Rank(st) <= Rank(x.st) + 2
<1>1. HandlerOK(x) /\ RoomOK(x.st) /\ Rank(x.st) \in Nat /\ Rank(st) \in Nat
  BY RankOf DEF FlyingOK, HandlerOK
<1>2. CASE \E j \in GameOf(q) : x = q[j]
  BY <1>1, <1>2 DEF Paced, Near
<1>3. CASE \E j \in GameOf(r) : x = r[j]
  BY <1>1, <1>3 DEF Paced, Near
<1> QED
  BY <1>1, <1>2, <1>3 DEF Flying

(* The points shown and those of every copy in flight are in the record,   *)
(* and in a drawing the guesses shown and those of its copies are; the     *)
(* guess that completes them has a handler that will end the round.        *)
OnRecord(F, st, us, board, heard) ==
  /\ \A p \in PlayerIds : board[p] <= ScoresOf(st)[p]
  /\ \A x \in F, p \in PlayerIds : ScoresOf(x.st)[p] <= ScoresOf(st)[p]
  /\ InPhase(st, "drawing") =>
       /\ \A x \in F : Rank(x.st) = Rank(st) =>
            GuessersWhoGuessed(x.st) \subseteq GuessersWhoGuessed(st)
       /\ us.drawing # 0 => heard \subseteq GuessersWhoGuessed(st)
       /\ AllGuessersFinished(st) =>
            \E x \in F : x.pc = "guessSaved" /\ AllGuessersFinished(x.st)

Recorded == OnRecord(Flying(queue, ready), room, timers, scoreboard, told)

LEMMA RecordStep ==
  ASSUME GameStore(Handler), GameKept, Recorded, [Next]_vars, ~lostUpdate',
         GameStore(Handler)', GameKept', SeatsApart(room),
         scoreboard \in [PlayerIds -> Nat]
  PROVE  Recorded'
<1> DEFINE F == Flying(queue, ready)
           G == Flying(queue', ready')
<1>1. /\ queue \in Seq(Handler) /\ ready \in Seq(Handler)
      /\ RoomOK(room) /\ RoomOK(room') /\ room \in Room /\ room' \in Room
      /\ FlyingOK(queue, ready) /\ FlyingOK(queue', ready')
      /\ SetOnce(G, room', timers') /\ Awaited(F, room) /\ OnRecord(F, room, timers, scoreboard, told)
  BY DEF GameStore, RoomOK, GameKept, Kept, OnTime, Recorded
<1>2. ASSUME NEW x \in F
      PROVE  /\ HandlerOK(x) /\ RoomOK(x.st) /\ x.st \in Room
             /\ Rank(x.st) \in Nat /\ Rank(room) \in Nat
             /\ Rank(x.st) <= Rank(room) /\ Rank(room) <= Rank(x.st) + 2
             /\ \A p \in PlayerIds : /\ ScoresOf(x.st)[p] \in Nat
                                     /\ ScoresOf(x.st)[p] <= ScoresOf(room)[p]
  <2>1. /\ HandlerOK(x) /\ RoomOK(x.st) /\ Rank(x.st) \in Nat /\ Rank(room) \in Nat
        /\ Rank(x.st) <= Rank(room) /\ Rank(room) <= Rank(x.st) + 2
    BY <1>1, FlyingNear DEF GameKept, Kept
  <2>2. x.st \in Room
    BY <2>1 DEF RoomOK
  <2> QED
    BY <1>1, <2>1, <2>2, ScoresFormed DEF OnRecord
<1>3. /\ \A p \in PlayerIds : /\ ScoresOf(room)[p] \in Nat /\ scoreboard[p] \in Nat
                              /\ scoreboard[p] <= ScoresOf(room)[p]
                              /\ ScoresOf(room')[p] \in Nat
  BY <1>1, ScoresFormed DEF OnRecord
<1>4. ASSUME NEW i \in DOMAIN ready
      PROVE  /\ ready[i] \in Handler /\ ready[i].pc \in Pcs /\ i \in GameOf(ready)
             /\ HandlerOK(ready[i]) /\ ready[i] \in F
  <2>1. ready[i] \in Handler
    BY <1>1, Places
  <2> QED
    BY <1>1, <2>1 DEF Handler, GameOf, Flying, FlyingOK
<1> HIDE DEF F, G
<1>5. ASSUME NEW h \in Handler, Loads(h)
      PROVE  Recorded'
  <2>1. /\ UNCHANGED <<room, ready, scoreboard, told>> /\ timers'.drawing \in {timers.drawing, 0}
        /\ h.st = room
    BY <1>5 DEF Loads
  <2>2. F \subseteq G /\ G \subseteq F \cup {h}
    <3>1. CASE queue' = queue
      BY <2>1, <3>1 DEF F, G
    <3>2. CASE queue' = Append(queue, h)
      <4>1. h.pc \in Pcs
        BY DEF Handler
      <4> QED
        BY <1>1, <2>1, <3>2, <4>1, FlyingAppend DEF F, G
    <3> QED
      BY <1>5, <3>1, <3>2 DEF Loads
  <2>3. OnRecord(G, room, timers', scoreboard, told)
    BY <1>1, <1>3, <2>1, <2>2 DEF OnRecord
  <2> QED
    BY <2>1, <2>3 DEF Recorded, G
<1>6. CASE Deliver /\ UNCHANGED <<timers, scoreboard, told>>
  <2>1. PICK c \in 1..Len(queue) : /\ ready' = SubSeq(queue, 1, c)
                                  /\ queue' = SubSeq(queue, c + 1, Len(queue))
    BY <1>6 DEF Deliver
  <2>2. ready = <<>> /\ UNCHANGED room
    BY <1>6 DEF Deliver
  <2>3. G = F
    BY <1>1, <2>1, <2>2, FlyingCut DEF F, G
  <2> QED
    BY <1>1, <1>6, <2>2, <2>3 DEF Recorded, G
<1>7. ASSUME NEW i \in DOMAIN ready, ready' = RemoveAt(ready, i), queue' = queue
      PROVE  G \subseteq F /\ F \subseteq G \cup {ready[i]}
  BY <1>1, <1>7, FlyingRemove DEF F, G
<1>8. ASSUME NEW i \in DOMAIN ready, Ends(i)
      PROVE  Recorded'
  <2> DEFINE h == ready[i]
  <2>1. /\ UNCHANGED room /\ G \subseteq F /\ F \subseteq G \cup {h}
        /\ h \in F
    BY <1>4, <1>7, <1>8 DEF Ends, Finish
  <2>2. scoreboard' = scoreboard \/ scoreboard' = ScoresOf(h.st)
    BY <1>8 DEF Ends
  <2>3. \A p \in PlayerIds : scoreboard'[p] <= ScoresOf(room)[p]
    BY <1>2, <1>3, <2>1, <2>2
  <2>4. ~(h.pc = "guessSaved" /\ AllGuessersFinished(h.st))
    BY <1>8 DEF Ends
  <2>5. ASSUME InPhase(room, "drawing"), timers'.drawing # 0
        PROVE  told' \subseteq GuessersWhoGuessed(room)
    <3>1. CASE h.pc \in {"wordSelectionSaved", "roundEndSaved", "gameOverSaved"}
      BY <1>1, <1>8, <2>5, <3>1 DEF Ends, OnRecord
    <3>2. CASE h.pc = "drawingSaved"
      BY <1>8, <3>2 DEF Ends
    <3>3. CASE h.pc = "guessSaved"
      <4>1. h.who \in GuessersWhoGuessed(h.st) /\ InPhase(h.st, "drawing") /\ RoomOK(h.st)
        BY <1>2, <2>1, <3>3 DEF HandlerOK, ReliesOn
      <4>2. Rank(h.st) = Rank(room)
        BY <1>1, <1>2, <2>1, <2>5, <4>1, DrawingsFarApart
      <4>3. told' = told \cup {h.who} /\ timers' = timers
        BY <1>8, <3>3 DEF Ends
      <4> QED
        BY <1>1, <2>1, <2>5, <4>1, <4>2, <4>3 DEF OnRecord
    <3> QED
      BY <1>8, <3>1, <3>2, <3>3 DEF Ends
  <2> HIDE DEF h
  <2>6. OnRecord(G, room, timers', scoreboard', told')
    <3>1. \A x \in G, p \in PlayerIds : ScoresOf(x.st)[p] <= ScoresOf(room)[p]
      BY <1>2, <2>1
    <3>2. InPhase(room, "drawing") =>
            /\ \A x \in G : Rank(x.st) = Rank(room) =>
                 GuessersWhoGuessed(x.st) \subseteq GuessersWhoGuessed(room)
            /\ AllGuessersFinished(room) =>
                 \E x \in G : x.pc = "guessSaved" /\ AllGuessersFinished(x.st)
      BY <1>1, <2>1, <2>4 DEF OnRecord
    <3> QED
      BY <2>3, <2>5, <3>1, <3>2 DEF OnRecord
  <2> QED
    BY <2>1, <2>6 DEF Recorded, G
<1>9. ASSUME NEW i \in DOMAIN ready, ready[i].st = room, Turn(ready[i], room')
      PROVE  \A p \in PlayerIds : ScoresOf(room)[p] <= ScoresOf(room')[p]
  BY <1>4, <1>9, TurnPays
<1>10. ASSUME NEW i \in DOMAIN ready, Hints(i)
       PROVE  Recorded'
  <2>1. /\ G \subseteq F /\ F \subseteq G \cup {ready[i]} /\ ready[i].pc = "hintTimeout"
        /\ ready[i].st = room /\ Turn(ready[i], room') /\ UNCHANGED <<timers, scoreboard, told>>
    BY <1>7, <1>10 DEF Hints, SaveRoomAndFinish
  <2>2. /\ Rank(room') = Rank(room) /\ GuessersWhoGuessed(room) \subseteq GuessersWhoGuessed(room')
        /\ AllGuessersFinished(room') <=> AllGuessersFinished(room)
    BY <1>4, <2>1, TurnMoves, TurnRecords
  <2>3. InPhase(room, "drawing")
    BY <1>4, <2>1 DEF HandlerOK, ReliesOn
  <2>4. \A p \in PlayerIds : ScoresOf(room)[p] <= ScoresOf(room')[p]
    BY <1>9, <2>1
  <2>5. /\ \A p \in PlayerIds : scoreboard[p] <= ScoresOf(room')[p]
        /\ \A x \in G, p \in PlayerIds : ScoresOf(x.st)[p] <= ScoresOf(room')[p]
    BY <1>2, <1>3, <2>1, <2>4
  <2>6. /\ \A x \in G : Rank(x.st) = Rank(room') =>
             GuessersWhoGuessed(x.st) \subseteq GuessersWhoGuessed(room')
        /\ timers.drawing # 0 => told \subseteq GuessersWhoGuessed(room')
        /\ AllGuessersFinished(room') =>
             \E x \in G : x.pc = "guessSaved" /\ AllGuessersFinished(x.st)
    BY <1>1, <2>1, <2>2, <2>3 DEF OnRecord
  <2>7. OnRecord(G, room', timers, scoreboard, told)
    BY <2>5, <2>6 DEF OnRecord
  <2> QED
    BY <2>1, <2>7 DEF Recorded, G
<1>11. ASSUME NEW i \in DOMAIN ready, NEW pc \in Pcs, SaveRoom(i, room', pc)
       PROVE  \E h \in Handler : /\ h.pc = pc /\ h.st = room'
                                 /\ h \in G /\ G \subseteq F \cup {h}
  <2> DEFINE h == [ready[i] EXCEPT !.pc = pc, !.st = room']
  <2>1. queue' = Append(queue, h) /\ ready' = RemoveAt(ready, i)
    BY <1>11 DEF SaveRoom
  <2>2. h \in Handler /\ h.pc = pc /\ h.st = room'
    BY <1>1, <1>4 DEF Handler
  <2> HIDE DEF h
  <2>3. Flying(queue', ready) = F \cup {h} /\ G = Flying(queue, ready') \cup {h}
    BY <1>1, <2>1, <2>2, FlyingAppend DEF F, G
  <2>4. G \subseteq Flying(queue', ready)
    <3>1. queue' \in Seq(Handler)
      BY DEF GameStore
    <3> QED
      BY <1>1, <2>1, FlyingRemove DEF G
  <2> QED
    BY <2>2, <2>3, <2>4
<1>12. ASSUME NEW i \in DOMAIN ready, Guesses(i)
       PROVE  Recorded'
  <2>1. /\ ready[i].pc = "guess" /\ ready[i].st = room /\ Turn(ready[i], room')
        /\ UNCHANGED <<timers, scoreboard, told>> /\ SaveRoom(i, room', "guessSaved")
    BY <1>12 DEF Guesses
  <2>2. PICK h \in Handler : /\ h.pc = "guessSaved" /\ h.st = room'
                             /\ h \in G /\ G \subseteq F \cup {h}
    BY <1>11, <2>1 DEF Pcs
  <2>3. Rank(room') = Rank(room) /\ GuessersWhoGuessed(room) \subseteq GuessersWhoGuessed(room')
    BY <1>4, <2>1, TurnMoves, TurnRecords
  <2>4. InPhase(room, "drawing")
    BY <1>4, <2>1 DEF HandlerOK, ReliesOn
  <2>5. \A p \in PlayerIds : ScoresOf(room)[p] <= ScoresOf(room')[p]
    BY <1>9, <2>1
  <2>6. /\ \A p \in PlayerIds : scoreboard[p] <= ScoresOf(room')[p]
        /\ \A x \in G, p \in PlayerIds : ScoresOf(x.st)[p] <= ScoresOf(room')[p]
    BY <1>2, <1>3, <2>2, <2>5
  <2>7. /\ \A x \in G : Rank(x.st) = Rank(room') =>
             GuessersWhoGuessed(x.st) \subseteq GuessersWhoGuessed(room')
        /\ timers.drawing # 0 => told \subseteq GuessersWhoGuessed(room')
    BY <1>1, <2>2, <2>3, <2>4 DEF OnRecord
  <2>8. AllGuessersFinished(room') =>
          \E x \in G : x.pc = "guessSaved" /\ AllGuessersFinished(x.st)
    BY <2>2
  <2>9. OnRecord(G, room', timers, scoreboard, told)
    BY <2>6, <2>7, <2>8 DEF OnRecord
  <2> QED
    BY <2>1, <2>9 DEF Recorded, G
<1>13. ASSUME NEW i \in DOMAIN ready, Moves(i)
       PROVE  Recorded'
  <2>1. /\ ready[i].pc \in Movers /\ ready[i].st = room /\ Turn(ready[i], room')
        /\ scoreboard' = scoreboard \/ scoreboard' = ScoresOf(room)
    BY <1>13 DEF Moves
  <2>2. PICK pc \in PhaseSaved : SaveRoom(i, room', pc)
    BY <1>13 DEF Moves
  <2>3. PICK h \in Handler : /\ h.pc = pc /\ h.st = room'
                             /\ h \in G /\ G \subseteq F \cup {h}
    BY <1>11, <2>2 DEF PhaseSaved, Pcs
  <2>4. Rank(room') = Rank(room) + 1 /\ ready[i].pc \notin {"guess", "hintTimeout"}
    BY <1>4, <2>1, TurnMoves DEF Movers
  <2>5. \A p \in PlayerIds : ScoresOf(room)[p] <= ScoresOf(room')[p]
    BY <1>9, <2>1
  <2>6. /\ \A p \in PlayerIds : scoreboard'[p] <= ScoresOf(room')[p]
        /\ \A x \in G, p \in PlayerIds : ScoresOf(x.st)[p] <= ScoresOf(room')[p]
    BY <1>2, <1>3, <2>1, <2>3, <2>5
  <2>7. ASSUME InPhase(room', "drawing")
        PROVE  ~AllGuessersFinished(room') /\ timers'.drawing = 0
    <3>1. ~AllGuessersFinished(room')
      BY <1>4, <2>1, <2>4, <2>7, TurnRecords
    <3>2. HandlerOK(h)
      BY <1>1, <2>3 DEF FlyingOK, G
    <3>3. pc = "drawingSaved"
      BY <2>3, <2>7, <3>2 DEF HandlerOK, ReliesOn, PhaseSaved, InPhase
    <3>4. Now(G, room', "drawingSaved")
      BY <2>3, <3>3 DEF Now
    <3> QED
      BY <1>1, <3>1, <3>4 DEF SetOnce
  <2>8. \A x \in G : Rank(x.st) = Rank(room') =>
          GuessersWhoGuessed(x.st) \subseteq GuessersWhoGuessed(room')
    BY <1>2, <2>3, <2>4
  <2>9. OnRecord(G, room', timers', scoreboard', told')
    BY <2>6, <2>7, <2>8 DEF OnRecord
  <2> QED
    BY <2>9 DEF Recorded, G
<1>14. CASE UNCHANGED vars
  BY <1>1, <1>14 DEF vars, storeVars, Recorded, F
<1> QED
  BY <1>5, <1>6, <1>8, <1>10, <1>12, <1>13, <1>14, GameShape

(***************************************************************************)
(* As long as no update is lost, in the engine.                            *)
(***************************************************************************)
Settled == ~lostUpdate => InBudget /\ Recorded

LEMMA SettledInit == Init => Settled
<1> SUFFICES ASSUME Init PROVE Settled
  OBVIOUS
<1>1. room.phase = "lobby" /\ queue = <<>> /\ ready = <<>>
  BY DEF Init, StoreInit, LobbyRoom
<1>2. CopiesOK /\ CastKept
  BY InitOK, CastInit
<1>3. room \in Room
  BY <1>2 DEF CopiesOK, StoreOK, CastKept, RoomOK
<1>4. scoreboard = [p \in PlayerIds |-> 0]
  BY DEF Init
<1>5. ~InPhase(room, "drawing")
  BY <1>1 DEF InPhase
<1>6. Flying(queue, ready) = {}
  BY <1>1, EmptySeq DEF Flying, GameOf
<1>7. \A p \in PlayerIds : scoreboard[p] <= ScoresOf(room)[p]
  BY <1>3, <1>4, ScoresFormed
<1> QED
  BY <1>5, <1>6, <1>7 DEF Settled, InBudget, Budget, Recorded, OnRecord

LEMMA SettledStep ==
  ASSUME CopiesOK, CastKept, Timely, Settled, [Next]_vars, CopiesOK', CastKept', Timely'
  PROVE  Settled'
<1> SUFFICES ASSUME ~lostUpdate' PROVE InBudget' /\ Recorded'
  BY DEF Settled
<1>1. ~lostUpdate
  <2>1. Keeps \/ \E i \in DOMAIN ready : Writes(i)
    BY StepWrites DEF CopiesOK, CastKept
  <2> QED
    BY <2>1 DEF Keeps, Writes
<1>2. GameStore(Handler) /\ GameKept
  BY <1>1, EngineStore DEF Timely
<1>3. GameStore(Handler)'
  BY DEF CopiesOK, TypeOK, StoreOK, StoreTypeOK, CastKept, GameStore, FlyingOK, Flying, GameOf,
         TimersType
<1>4. GameKept'
  BY DEF Timely
<1>5. SeatsApart(room) /\ scoreboard \in [PlayerIds -> Nat]
  <2>1. RoomOK(room) /\ CastOK(room)
    BY <1>2 DEF GameStore, CastKept, RoomCopies
  <2> QED
    BY <2>1, CastApart DEF RoomOK, CopiesOK, TypeOK
<1> QED
  BY <1>1, <1>2, <1>3, <1>4, <1>5, BudgetStep, RecordStep DEF Settled

LEMMA GameStaysSettled == Spec => [](CopiesOK /\ CastKept /\ Timely /\ Settled)
<1>1. /\ CopiesOK /\ CastKept /\ Timely /\ Settled
      /\ [Next]_vars
      /\ CopiesOK' /\ CastKept' /\ Timely'
      => Settled'
  BY SettledStep
<1> QED
  BY <1>1, SettledInit, GameStaysTimely, PTL DEF Spec

(* However the handlers of the hints interleave with the guesses, no more  *)
(* hints are given, under way and to come than the settings ask for.       *)
THEOREM HintsStayInBudget == Spec => []HintBudget
<1>1. CopiesOK /\ CastKept /\ Timely /\ Settled => HintBudget
  <2> SUFFICES ASSUME CopiesOK, CastKept, Timely, Settled, ~lostUpdate,
                      InPhase(room, "drawing")
               PROVE  HintBudget
    BY DEF HintBudget
  <2> DEFINE F == Flying(queue, ready)
             n == Cardinality(HintsOf(queue))
             m == Cardinality(HintsOf(ready))
             k == timers.hints.pending
             u == room.hintsUsed
  <2>1. GameStore(Handler) /\ GameKept /\ InBudget
    BY EngineStore DEF Timely, Settled
  <2>2. n \in Nat /\ m \in Nat /\ k \in Nat /\ u \in Nat /\ HintsCount \in Nat
    BY <2>1, HintsCounted, SettingsAssumption DEF GameStore, RoomOK, Room, TimersType
  <2>3. u + n + m + ToCome(F, room, timers) <= HintsCount
    BY <2>1 DEF InBudget, Budget
  <2>4. k <= ToCome(F, room, timers) /\ ToCome(F, room, timers) \in Nat
    BY <2>1, <2>2 DEF GameKept, Kept, OnTime, SetOnce, ToCome
  <2>5. HintsInFlight = n + m
    BY DEF HintsInFlight, HintsOf
  <2> HIDE DEF F, n, m, k, u
  <2>6. u + (n + m) + k <= HintsCount
    BY <2>2, <2>3, <2>4
  <2> QED
    BY <2>5, <2>6 DEF HintBudget, k, u
<1> QED
  BY <1>1, GameStaysSettled, PTL

(* What the players were shown is what the record says: nobody is told     *)
(* "correct" or shown points that are not kept.                            *)
THEOREM ToldIsRecorded == Spec => []AnnouncedIsRecorded
<1>1. Settled => AnnouncedIsRecorded
  BY DEF Settled, Recorded, OnRecord, AnnouncedIsRecorded
<1> QED
  BY <1>1, GameStaysSettled, PTL

(* A drawing at rest still has a guesser who was not told "correct": the   *)
(* last correct guess ends the round.                                      *)
THEOREM LastGuessEndsRound == Spec => []RoundOverOnceAllGuessedUnlessLost
<1>1. CopiesOK /\ CastKept /\ Timely /\ Settled => RoundOverOnceAllGuessedUnlessLost
  <2> SUFFICES ASSUME CopiesOK, CastKept, Timely, Settled, ~lostUpdate, NobodyInFlight,
                      InPhase(room, "drawing"), ConnectedGuessers(room) # {},
                      ConnectedGuessers(room) \subseteq told
               PROVE  FALSE
    BY DEF RoundOverOnceAllGuessedUnlessLost, RoundOverOnceAllGuessed
  <2>1. GameStore(Handler) /\ GameKept /\ Recorded
    BY EngineStore DEF Timely, Settled
  <2>2. RoomOK(room) /\ room \in Room /\ CastOK(room) /\ timers \in TimersType
    BY <2>1 DEF GameStore, RoomOK, CastKept, RoomCopies
  <2>3. timers.drawing # 0
    <3>1. timers.drawing = room.miniRoundNumber
      BY <2>1, <2>2, TimedAtRest DEF Playing, InPhase, TimerOfPhase
    <3> QED
      BY <2>2, <3>1, RankOf DEF InPhase
  <2>4. ConnectedGuessers(room) \subseteq GuessersWhoGuessed(room)
    BY <2>1, <2>3 DEF Recorded, OnRecord
  <2>5. AllGuessersFinished(room)
    <3>1. \E i \in DOMAIN room.players :
            room.players[i].id # room.leaderPlayerId /\ IsConnected(room.players[i])
      BY DEF ConnectedGuessers, Connected
    <3>2. ASSUME NEW i \in DOMAIN room.players,
                 room.players[i].id # room.leaderPlayerId, IsConnected(room.players[i])
          PROVE  room.players[i].guessed
      <4>1. room.players[i].id \in GuessersWhoGuessed(room)
        BY <2>4, <3>2 DEF ConnectedGuessers, Connected
      <4>2. PICK j \in DOMAIN room.players :
              room.players[j].guessed /\ room.players[j].id = room.players[i].id
        BY <4>1 DEF GuessersWhoGuessed
      <4> QED
        BY <2>2, <4>2, CastApart DEF SeatsApart
    <3> QED
      BY <3>1, <3>2 DEF AllGuessersFinished
  <2>6. Flying(queue, ready) = {}
    BY EmptySeq DEF Flying, GameOf, NobodyInFlight
  <2> QED
    BY <2>1, <2>5, <2>6 DEF Recorded, OnRecord
<1> QED
  BY <1>1, GameStaysSettled, PTL
=============================================================================
