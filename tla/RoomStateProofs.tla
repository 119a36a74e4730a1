-------------------------- MODULE RoomStateProofs --------------------------
(***************************************************************************)
(* What the functions on room records return, for every value of the       *)
(* settings: lemmas for the proofs about the handlers that use them.       *)
(***************************************************************************)
EXTENDS RoomInvariants, SequencesExt, FiniteSetTheorems, SequenceTheorems, WellFoundedInduction, TLAPS

(***************************************************************************)
(* Sequences of anything.                                                  *)
(***************************************************************************)
LEMMA RemoveAtType ==
  ASSUME NEW S, NEW q \in Seq(S), NEW i \in DOMAIN q
  PROVE  /\ RemoveAt(q, i) \in Seq(S)
         /\ Len(RemoveAt(q, i)) = Len(q) - 1
         /\ \A j \in 1..(Len(q) - 1) :
              RemoveAt(q, i)[j] = IF j < i THEN q[j] ELSE q[j + 1]
<1> DEFINE before == SubSeq(q, 1, i - 1)
           after  == SubSeq(q, i + 1, Len(q))
<1>1. /\ Len(q) \in Nat /\ i \in 1..Len(q)
      /\ \A j \in 1..Len(q) : q[j] \in S
  BY LenProperties, ElementOfSeq
<1>2. /\ before \in Seq(S) /\ Len(before) = i - 1
      /\ \A j \in 1..(i - 1) : before[j] = q[j]
  <2>1. \A j \in 1..(i - 1) : q[j] \in S
    BY <1>1
  <2>2. /\ before \in Seq(S)
        /\ Len(before) = IF 1 <= i - 1 THEN i - 1 - 1 + 1 ELSE 0
        /\ \A j \in 1..(i - 1 - 1 + 1) : before[j] = q[1 + j - 1]
    BY <1>1, <2>1, SubSeqProperties
  <2> HIDE DEF before
  <2> QED
    BY <1>1, <2>2
<1>3. /\ after \in Seq(S) /\ Len(after) = Len(q) - i
      /\ \A j \in 1..(Len(q) - i) : after[j] = q[i + j]
  <2>1. \A j \in (i + 1)..Len(q) : q[j] \in S
    BY <1>1
  <2>2. /\ after \in Seq(S)
        /\ Len(after) = IF i + 1 <= Len(q) THEN Len(q) - (i + 1) + 1 ELSE 0
        /\ \A j \in 1..(Len(q) - (i + 1) + 1) : after[j] = q[i + 1 + j - 1]
    BY <1>1, <2>1, SubSeqProperties
  <2> HIDE DEF after
  <2> QED
    BY <1>1, <2>2
<1>4. RemoveAt(q, i) = before \o after
  BY DEF RemoveAt
<1> HIDE DEF before, after
<1>5. /\ before \o after \in Seq(S)
      /\ Len(before \o after) = Len(before) + Len(after)
      /\ \A j \in 1..(Len(before) + Len(after)) :
           (before \o after)[j] = IF j <= Len(before) THEN before[j] ELSE after[j - Len(before)]
  BY <1>2, <1>3, ConcatProperties
<1>6. Len(before) + Len(after) = Len(q) - 1
  BY <1>1, <1>2, <1>3
<1>7. ASSUME NEW j \in 1..(Len(q) - 1)
      PROVE  (before \o after)[j] = IF j < i THEN q[j] ELSE q[j + 1]
  <2>1. CASE j < i
    BY <1>1, <1>2, <1>5, <1>6, <1>7, <2>1
  <2>2. CASE j >= i
    <3>1. j - (i - 1) \in 1..(Len(q) - i) /\ i + (j - (i - 1)) = j + 1
      BY <1>1, <1>7, <2>2
    <3>2. (before \o after)[j] = after[j - (i - 1)]
      BY <1>1, <1>2, <1>5, <1>6, <1>7, <2>2
    <3> QED
      BY <1>3, <2>2, <3>1, <3>2
  <2>3. j < i \/ j >= i
    BY <1>1, <1>7
  <2> QED
    BY <2>1, <2>2, <2>3
<1> QED
  BY <1>4, <1>5, <1>6, <1>7

LEMMA ToSetOf ==
  ASSUME NEW S, NEW q \in Seq(S)
  PROVE  /\ Len(q) \in Nat /\ DOMAIN q = 1..Len(q)
         /\ ToSet(q) \subseteq S
         /\ \A x : x \in ToSet(q) <=> \E i \in 1..Len(q) : q[i] = x
  BY LenProperties, ElementOfSeq DEF ToSet

LEMMA ToSetUpTo ==
  ASSUME NEW S, NEW q \in Seq(S), NEW n, Len(q) = n
  PROVE  \A x : x \in ToSet(q) <=> \E i \in 1..n : q[i] = x
  BY ToSetOf

LEMMA ToSetAppend ==
  ASSUME NEW S, NEW q \in Seq(S), NEW x \in S
  PROVE  Append(q, x) \in Seq(S) /\ ToSet(Append(q, x)) = ToSet(q) \cup {x}
<1>1. /\ Append(q, x) \in Seq(S) /\ Len(q) \in Nat
      /\ Len(Append(q, x)) = Len(q) + 1
      /\ \A i \in 1..Len(q) : Append(q, x)[i] = q[i]
      /\ Append(q, x)[Len(q) + 1] = x
  BY AppendProperties, LenProperties
<1>2. \A y : y \in ToSet(Append(q, x)) <=> \E i \in 1..(Len(q) + 1) : Append(q, x)[i] = y
  <2> DEFINE r == Append(q, x)
             n == Len(q) + 1
  <2>1. r \in Seq(S) /\ Len(r) = n
    BY <1>1
  <2> HIDE DEF r, n
  <2>2. \A y : y \in ToSet(r) <=> \E i \in 1..n : r[i] = y
    BY <2>1, ToSetUpTo
  <2> QED
    BY <2>2 DEF r, n
<1>3. \A i \in 1..(Len(q) + 1) : i \in 1..Len(q) \/ i = Len(q) + 1
  BY <1>1
<1>4. 1..Len(q) \subseteq 1..(Len(q) + 1) /\ Len(q) + 1 \in 1..(Len(q) + 1)
  BY <1>1
<1>5. \A y : y \in ToSet(Append(q, x)) <=> y \in ToSet(q) \/ y = x
  <2> SUFFICES ASSUME NEW y
               PROVE  y \in ToSet(Append(q, x)) <=> y \in ToSet(q) \/ y = x
    OBVIOUS
  <2>1. y \in ToSet(q) <=> \E i \in 1..Len(q) : q[i] = y
    BY ToSetOf
  <2> QED
    BY <1>1, <1>2, <1>3, <1>4, <2>1
<1> QED
  BY <1>1, <1>5

LEMMA ToSetRemove ==
  ASSUME NEW S, NEW q \in Seq(S), NEW i \in DOMAIN q
  PROVE  /\ ToSet(RemoveAt(q, i)) \subseteq ToSet(q)
         /\ ToSet(q) \subseteq ToSet(RemoveAt(q, i)) \cup {q[i]}
<1> DEFINE r == RemoveAt(q, i)
<1>1. /\ r \in Seq(S) /\ Len(q) \in Nat /\ i \in 1..Len(q)
      /\ Len(r) = Len(q) - 1
      /\ \A j \in 1..(Len(q) - 1) : r[j] = IF j < i THEN q[j] ELSE q[j + 1]
  BY RemoveAtType, LenProperties
<1>2. /\ \A y : y \in ToSet(r) <=> \E j \in 1..Len(r) : r[j] = y
      /\ \A y : y \in ToSet(q) <=> \E j \in 1..Len(q) : q[j] = y
  BY <1>1, ToSetOf
<1> HIDE DEF r
<1>3. ASSUME NEW j \in 1..Len(r)
      PROVE  r[j] \in ToSet(q)
  <2>1. j \in 1..Len(q) /\ j + 1 \in 1..Len(q)
    BY <1>1
  <2> QED
    BY <1>1, <1>2, <2>1
<1>4. ASSUME NEW j \in 1..Len(q), j # i
      PROVE  q[j] \in ToSet(r)
  <2>1. CASE j < i
    <3>1. j \in 1..Len(r) /\ r[j] = q[j]
      BY <1>1, <2>1
    <3> QED
      BY <1>2, <3>1
  <2>2. CASE j > i
    <3>1. j - 1 \in 1..Len(r) /\ r[j - 1] = q[j - 1 + 1] /\ j - 1 + 1 = j
      BY <1>1, <2>2
    <3> QED
      BY <1>2, <3>1
  <2> QED
    BY <1>1, <1>4, <2>1, <2>2
<1> QED
  BY <1>2, <1>3, <1>4 DEF r

(* What a queue is cut into.                                               *)
LEMMA ToSetCut ==
  ASSUME NEW S, NEW q \in Seq(S), NEW n \in 1..Len(q)
  PROVE  /\ SubSeq(q, 1, n) \in Seq(S) /\ SubSeq(q, n + 1, Len(q)) \in Seq(S)
         /\ Len(SubSeq(q, 1, n)) = n /\ Len(SubSeq(q, n + 1, Len(q))) = Len(q) - n
         /\ \A i \in 1..n : SubSeq(q, 1, n)[i] = q[i]
         /\ \A i \in 1..(Len(q) - n) : SubSeq(q, n + 1, Len(q))[i] = q[n + i]
         /\ ToSet(q) = ToSet(SubSeq(q, 1, n)) \cup ToSet(SubSeq(q, n + 1, Len(q)))
<1> DEFINE r == SubSeq(q, 1, n)
           t == SubSeq(q, n + 1, Len(q))
<1>1. Len(q) \in Nat /\ \A j \in 1..Len(q) : q[j] \in S
  BY LenProperties, ElementOfSeq
<1>2. /\ r \in Seq(S) /\ Len(r) = n
      /\ \A i \in 1..n : r[i] = q[i]
  <2>1. /\ r \in Seq(S)
        /\ Len(r) = IF 1 <= n THEN n - 1 + 1 ELSE 0
        /\ \A i \in 1..(n - 1 + 1) : r[i] = q[1 + i - 1]
    BY <1>1, SubSeqProperties
  <2> HIDE DEF r
  <2> QED
    BY <1>1, <2>1
<1>3. /\ t \in Seq(S) /\ Len(t) = Len(q) - n
      /\ \A i \in 1..(Len(q) - n) : t[i] = q[n + i]
  <2>1. \A j \in (n + 1)..Len(q) : q[j] \in S
    BY <1>1
  <2>2. /\ t \in Seq(S)
        /\ Len(t) = IF n + 1 <= Len(q) THEN Len(q) - (n + 1) + 1 ELSE 0
        /\ \A i \in 1..(Len(q) - (n + 1) + 1) : t[i] = q[n + 1 + i - 1]
    BY <1>1, <2>1, SubSeqProperties
  <2> HIDE DEF t
  <2> QED
    BY <1>1, <2>2
<1> HIDE DEF r, t
<1> DEFINE m == Len(q) - n
<1>4. \A i \in 1..Len(q) : i \in 1..n \/ (i - n \in 1..m /\ n + (i - n) = i)
  BY <1>1
<1>5. t \in Seq(S) /\ Len(t) = m /\ \A i \in 1..m : t[i] = q[n + i]
  BY <1>3
<1>6. \A i \in 1..(Len(q) - n) : n + i \in 1..Len(q)
  BY <1>1
<1>7. 1..n \subseteq 1..Len(q)
  BY <1>1
<1> HIDE DEF m
<1>8. \A y : y \in ToSet(r) <=> \E i \in 1..n : r[i] = y
  BY <1>2, ToSetUpTo
<1>9. \A y : y \in ToSet(t) <=> \E i \in 1..m : t[i] = y
  BY <1>5, ToSetUpTo
<1>10. \A y : y \in ToSet(q) <=> \E i \in 1..Len(q) : q[i] = y
  BY ToSetUpTo
<1>11. ToSet(q) \subseteq ToSet(r) \cup ToSet(t)
  <2> SUFFICES ASSUME NEW i \in 1..Len(q)
               PROVE  q[i] \in ToSet(r) \cup ToSet(t)
    BY <1>10
  <2>1. CASE i \in 1..n
    BY <1>2, <1>8, <2>1
  <2>2. CASE i - n \in 1..m /\ n + (i - n) = i
    BY <1>5, <1>9, <2>2
  <2> QED
    BY <1>4, <2>1, <2>2
<1>12. ToSet(r) \subseteq ToSet(q)
  BY <1>2, <1>7, <1>8, <1>10
<1>13. ToSet(t) \subseteq ToSet(q)
  BY <1>5, <1>6, <1>9, <1>10 DEF m
<1> QED
  BY <1>2, <1>3, <1>11, <1>12, <1>13 DEF r, t

(***************************************************************************)
(* Points.                                                                 *)
(***************************************************************************)
LEMMA ProgressType ==
  ASSUME NEW r \in Int, NEW t \in Nat \ {0}
  PROVE  RoundProgress(r, t) \in 0..t
  BY DEF RoundProgress

LEMMA TimeFactorType ==
  ASSUME NEW p \in Nat, NEW t \in Nat \ {0}
  PROVE  GuesserTimeFactor(p, t) \in {4, 6, 8, 10}
  BY DEF GuesserTimeFactor

LEMMA PositionBonusType ==
  ASSUME NEW position \in Nat
  PROVE  GuesserPositionBonus(position) \in {7, 8, 9, 10}
  BY DEF GuesserPositionBonus

LEMMA HintPenaltyType ==
  ASSUME NEW h \in Nat
  PROVE  HintPenaltyFactor(h) \in 0..20
  BY DEF HintPenaltyFactor

(* A correct guess is worth between 5 and 100 points, whenever it comes    *)
(* and however many hints were shown (calculateGuesserScore).              *)
THEOREM GuesserScoreBounds ==
  ASSUME NEW r \in Int, NEW t \in Nat \ {0}, NEW h \in Nat, NEW position \in Nat
  PROVE  GuesserScore(r, t, h, position) \in 5..100
<1> DEFINE tf == GuesserTimeFactor(RoundProgress(r, t), t)
           pb == GuesserPositionBonus(position)
           hp == HintPenaltyFactor(h)
<1>1. tf \in {4, 6, 8, 10}
  BY ProgressType, TimeFactorType
<1>2. pb \in {7, 8, 9, 10}
  BY PositionBonusType
<1>3. hp \in 0..20
  BY HintPenaltyType
<1>4. 2 * tf * hp * pb + 20 \in Nat
  BY <1>1, <1>2, <1>3
<1>5. (2 * tf * hp * pb + 20) \div 40 \in Int
  BY <1>4
<1> QED
  BY <1>5 DEF GuesserScore

LEMMA LeaderContributionType ==
  ASSUME NEW r \in Int, NEW t \in Nat \ {0}, NEW participants \in Nat
  PROVE  LeaderContribution(r, t, participants) \in Nat
<1> DEFINE tf == LeaderTimeFactor(RoundProgress(r, t), t)
           n  == IF participants < 1 THEN 1 ELSE participants
<1>1. tf \in {5, 7, 10}
  BY ProgressType DEF LeaderTimeFactor
<1>2. n \in Nat \ {0}
  OBVIOUS
<1>3. 20 * tf + n \in Nat /\ 2 * n \in Nat \ {0}
  BY <1>1, <1>2
<1> HIDE DEF tf, n
<1>4. (20 * tf + n) \div (2 * n) \in Nat
  BY <1>3
<1> QED
  BY <1>4 DEF LeaderContribution, tf, n

(* The leader gains between 1 and 100 points by a correct guess, with at   *)
(* most 100 participants (calculateLeaderContribution).                    *)
THEOREM LeaderContributionBounds ==
  ASSUME NEW r \in Int, NEW t \in Nat \ {0}, NEW participants \in 0..100
  PROVE  LeaderContribution(r, t, participants) \in 1..100
<1> DEFINE tf == LeaderTimeFactor(RoundProgress(r, t), t)
           n  == IF participants < 1 THEN 1 ELSE participants
           x  == 20 * tf + n
<1>1. tf \in {5, 7, 10}
  BY ProgressType DEF LeaderTimeFactor
<1>2. n \in 1..100
  OBVIOUS
<1> HIDE DEF tf, n
<1>3. x \in Nat /\ 2 * n \in Nat \ {0} /\ x >= 2 * n /\ x <= 200 * n + n
  BY <1>1, <1>2
<1> DEFINE q == x \div (2 * n)
<1> HIDE DEF x
<1>4. q \in Nat /\ x - (2 * n) * q \in 0..(2 * n - 1)
  BY <1>2, <1>3
<1>5. q # 0
  BY <1>2, <1>3, <1>4
<1>6. q <= 100
  <2>1. ASSUME q >= 101
        PROVE  FALSE
    <3>1. n * q >= n * 101
      BY <1>2, <1>4, <2>1
    <3> QED
      BY <1>2, <1>3, <1>4, <3>1
  <2> QED
    BY <1>4, <2>1
<1> QED
  BY <1>4, <1>5, <1>6 DEF LeaderContribution, tf, n, x

(***************************************************************************)
(* Members and the next leader.                                            *)
(***************************************************************************)
LEMMA PlayersDomain ==
  ASSUME NEW st \in Room
  PROVE  /\ Len(st.players) \in Nat
         /\ DOMAIN st.players = 1..Len(st.players)
         /\ st.players \in Seq(Player)
         /\ \A i \in DOMAIN st.players : st.players[i] \in Player
  BY LenProperties, ElementOfSeq DEF Room

LEMMA IndexOfMember ==
  ASSUME NEW st \in Room, NEW p \in Members(st)
  PROVE  /\ IndexOf(st, p) \in DOMAIN st.players
         /\ CurrentPlayer(st, p).id = p
         /\ CurrentPlayer(st, p) \in Player
  BY PlayersDomain DEF Members, IndexOf, CurrentPlayer

LEMMA CountOfPlayers ==
  ASSUME NEW st \in Room, NEW S \in SUBSET DOMAIN st.players
  PROVE  Cardinality(S) \in Nat /\ IsFiniteSet(S)
<1>1. IsFiniteSet(1..Len(st.players))
  BY PlayersDomain, FS_Interval
<1> QED
  BY <1>1, PlayersDomain, FS_Subset, FS_CardinalityType

LEMMA LeastOf ==
  ASSUME NEW S \in SUBSET Nat, S # {}
  PROVE  \E k \in S : \A j \in S : k <= j
<1>1. PICK k \in S : \A j \in S : ~(<<j, k>> \in OpToRel(<, Nat))
  BY NatLessThanWellFounded, WFMin
<1>2. \A j \in S : j < k => <<j, k>> \in OpToRel(<, Nat)
  BY DEF OpToRel
<1>3. \A j \in S : ~(j < k)
  BY <1>1, <1>2
<1>4. \A j \in S : k <= j
  BY <1>3
<1> QED
  BY <1>4

LEMMA ModuloRange ==
  ASSUME NEW a \in Int, NEW n \in Nat \ {0}
  PROVE  (a % n) + 1 \in 1..n
  OBVIOUS

(* The next leader is one of the players of the room, unless the leader it *)
(* had has left it: then nobody takes over (getNextLeaderPlayerId).        *)
THEOREM NextLeaderType ==
  ASSUME NEW st \in Room
  PROVE  /\ NextLeader(st) \in PlayerIds
         /\ st.leaderPlayerId \in Members(st) => NextLeader(st) \in Members(st)
<1> DEFINE n == Len(st.players)
           current == IndexOf(st, st.leaderPlayerId)
           at(offset) == ((current - 1 + offset) % n) + 1
           candidates == {k \in 1..n : IsConnected(st.players[at(k)])}
           nearest == CHOOSE k \in candidates : \A j \in candidates : k <= j
<1>1. CASE st.leaderPlayerId \notin Members(st) \/ candidates = {}
  BY <1>1 DEF NextLeader, Room
<1>2. CASE st.leaderPlayerId \in Members(st) /\ candidates # {}
  <2>1. nearest \in candidates /\ nearest \in Nat
    <3>1. candidates \in SUBSET Nat
      OBVIOUS
    <3> HIDE DEF candidates
    <3>2. nearest \in candidates
      BY <1>2, <3>1, LeastOf
    <3> QED
      BY <3>1, <3>2
  <2>2. current \in 1..n /\ n \in Nat \ {0}
    BY <1>2, IndexOfMember, PlayersDomain
  <2>3. at(nearest) \in 1..n
    <3> HIDE DEF nearest, current, n
    <3>1. current - 1 + nearest \in Int
      BY <2>1, <2>2
    <3> QED
      BY <3>1, <2>2, ModuloRange
  <2>4. at(nearest) \in DOMAIN st.players /\ st.players[at(nearest)] \in Player
    BY <2>3, PlayersDomain
  <2>5. NextLeader(st) = st.players[at(nearest)].id
    BY <1>2 DEF NextLeader
  <2> HIDE DEF nearest, at
  <2> QED
    BY <2>4, <2>5 DEF Player, Members
<1> QED
  BY <1>1, <1>2

(***************************************************************************)
(* The arrays of players the transitions map to.                           *)
(***************************************************************************)
LEMMA FunctionIsSequence ==
  ASSUME NEW S, NEW n \in Nat, NEW f \in [1..n -> S]
  PROVE  f \in Seq(S) /\ Len(f) = n
<1>1. f \in Seq(S)
  BY SeqDef
<1>2. Len(f) \in Nat /\ 1..Len(f) = 1..n
  BY <1>1, LenProperties
<1> QED
  BY <1>1, <1>2

LEMMA ResetPlayersType ==
  ASSUME NEW st \in Room
  PROVE  /\ ResetPlayers(st) \in Seq(Player)
         /\ DOMAIN ResetPlayers(st) = DOMAIN st.players
         /\ \A i \in DOMAIN st.players :
              /\ ResetPlayers(st)[i].id = st.players[i].id
              /\ ~ResetPlayers(st)[i].guessed
              /\ ResetPlayers(st)[i].role = RoleUnder(st.leaderPlayerId, st.players[i].id)
<1>1. ResetPlayers(st) \in [1..Len(st.players) -> Player]
  BY PlayersDomain DEF ResetPlayers, Player, RoleUnder
<1>2. ResetPlayers(st) \in Seq(Player)
  BY <1>1, PlayersDomain, FunctionIsSequence
<1> QED
  BY <1>1, <1>2, PlayersDomain DEF ResetPlayers, Player

LEMMA ResetPlayersEffect ==
  ASSUME NEW st \in Room
  PROVE  /\ DOMAIN ResetPlayers(st) = DOMAIN st.players
         /\ \A i \in DOMAIN st.players :
              /\ ResetPlayers(st)[i].id = st.players[i].id
              /\ ResetPlayers(st)[i].connectionStatus = st.players[i].connectionStatus
              /\ ResetPlayers(st)[i].score = st.players[i].score
<1>1. DOMAIN ResetPlayers(st) = DOMAIN st.players
  BY DEF ResetPlayers
<1>2. ASSUME NEW i \in DOMAIN st.players
      PROVE  /\ ResetPlayers(st)[i].id = st.players[i].id
             /\ ResetPlayers(st)[i].connectionStatus = st.players[i].connectionStatus
             /\ ResetPlayers(st)[i].score = st.players[i].score
  <2>1. st.players[i] \in Player
    BY PlayersDomain
  <2>2. ResetPlayers(st)[i] = [st.players[i] EXCEPT !.guessed = FALSE,
          !.role = RoleUnder(st.leaderPlayerId, st.players[i].id)]
    BY DEF ResetPlayers
  <2> QED
    BY <2>1, <2>2 DEF Player
<1> QED
  BY <1>1, <1>2

LEMMA ResetPlayersOK ==
  ASSUME NEW st \in Room, NEW new,
         new.players = ResetPlayers(st), new.leaderPlayerId = st.leaderPlayerId
  PROVE  LeaderOnlyDraws(new)
<1> SUFFICES ASSUME NEW i \in DOMAIN new.players
             PROVE  /\ new.players[i].role = RoleUnder(new.leaderPlayerId, new.players[i].id)
                    /\ ~new.players[i].guessed
  BY DEF LeaderOnlyDraws
<1>1. i \in DOMAIN st.players
  BY ResetPlayersType
<1>2. ~ResetPlayers(st)[i].guessed
  BY <1>1, ResetPlayersType
<1>3. ResetPlayers(st)[i].role = RoleUnder(st.leaderPlayerId, ResetPlayers(st)[i].id)
  BY <1>1, ResetPlayersType
<1> QED
  BY <1>2, <1>3

(***************************************************************************)
(* Words.                                                                  *)
(***************************************************************************)
LEMMA EnoughWords ==
  ASSUME NEW used \in SUBSET Words, NEW options \in WordOptions(used),
         Cardinality(used) <= RoundsCount * MaxPlayers
  PROVE  /\ options \in SUBSET Words
         /\ options \cap used = {}
         /\ Cardinality(options) = WordChoicesCount
<1>1. /\ IsFiniteSet(used)
      /\ Cardinality(Words \ used) = Cardinality(Words) - Cardinality(Words \cap used)
      /\ Cardinality(Words) \in Nat /\ Cardinality(used) \in Nat
  BY WordsAssumption, FS_Subset, FS_Difference, FS_CardinalityType
<1>2. Words \cap used = used
  OBVIOUS
<1>3. RoundsCount * MaxPlayers \in Nat /\ WordChoicesCount \in Nat
  BY SettingsAssumption
<1>4. WordChoicesCount <= Cardinality(Words \ used)
  BY <1>1, <1>2, <1>3, WordsAssumption
<1> QED
  BY <1>4 DEF WordOptions

(***************************************************************************)
(* Each transition turns one room record of the kind RoomOK describes into *)
(* another one.                                                            *)
(***************************************************************************)
LEMMA CreateWordSelectionStateOK ==
  ASSUME NEW st, RoomOK(st), st.phase = "lobby",
         NEW options \in WordOptions({})
  PROVE  RoomOK(CreateWordSelectionState(st, options))
<1> DEFINE new == CreateWordSelectionState(st, options)
<1>1. st \in Room /\ st.miniRoundNumber = 0
  BY DEF RoomOK, RoundNumberOK
<1>2. Cardinality({}) = 0
  BY FS_EmptySet
<1>3. 0 <= RoundsCount * MaxPlayers
  BY SettingsAssumption
<1>4. options \in SUBSET Words /\ Cardinality(options) = WordChoicesCount
  BY <1>2, <1>3, EnoughWords
<1>5. new \in Room
  BY <1>1, <1>4, ResetPlayersType DEF CreateWordSelectionState, Room, Phases, RoundPhases
<1>6. /\ new.phase = "in_game" /\ new.roundPhase = "word_selection"
      /\ new.miniRoundNumber = 1 /\ new.totalMiniRounds = st.totalMiniRounds
      /\ new.usedWords = {} /\ new.wordOptions = options
      /\ new.leaderPlayerId = st.leaderPlayerId
      /\ new.players = ResetPlayers(st)
  BY <1>1 DEF CreateWordSelectionState, Room
<1> HIDE DEF new
<1>7. GameLengthOK(new) /\ RoundNumberOK(new)
  BY <1>6, <1>3, SettingsAssumption DEF RoomOK, GameLengthOK, RoundNumberOK
<1>8. WordsFresh(new)
  BY <1>2, <1>4, <1>6 DEF WordsFresh
<1>9. MaskMatchesHints(new)
  BY <1>6 DEF MaskMatchesHints, InPhase
<1>10. LeaderOnlyDraws(new)
  BY <1>1, <1>6, ResetPlayersOK
<1> QED
  BY <1>5, <1>7, <1>8, <1>9, <1>10 DEF RoomOK, new

LEMMA CreateNextWordSelectionStateOK ==
  ASSUME NEW st, RoomOK(st), InPhase(st, "round_end"),
         st.miniRoundNumber < st.totalMiniRounds,
         NEW options \in WordOptions(st.usedWords)
  PROVE  RoomOK(CreateNextWordSelectionState(st, options))
<1> DEFINE new == CreateNextWordSelectionState(st, options)
<1>1. /\ st \in Room
      /\ st.miniRoundNumber \in 1..st.totalMiniRounds
      /\ st.totalMiniRounds \in 1..(RoundsCount * MaxPlayers)
      /\ Cardinality(st.usedWords) = st.miniRoundNumber
  BY DEF RoomOK, RoundNumberOK, GameLengthOK, WordsFresh, Playing, InPhase
<1>2. RoundsCount * MaxPlayers \in Nat
  BY SettingsAssumption
<1>3. st.usedWords \in SUBSET Words /\ Cardinality(st.usedWords) <= RoundsCount * MaxPlayers
  BY <1>1, <1>2 DEF Room
<1>4. /\ options \in SUBSET Words /\ options \cap st.usedWords = {}
      /\ Cardinality(options) = WordChoicesCount
  BY <1>3, EnoughWords
<1>5. new \in Room
  <2>1. st.miniRoundNumber \in Nat /\ st.miniRoundNumber + 1 \in Nat
    BY <1>1 DEF Room
  <2> QED
    BY <1>1, <1>4, <2>1 DEF CreateNextWordSelectionState, Room, Phases, RoundPhases
<1>6. /\ new.phase = "in_game" /\ new.roundPhase = "word_selection"
      /\ new.miniRoundNumber = st.miniRoundNumber + 1
      /\ new.totalMiniRounds = st.totalMiniRounds
      /\ new.usedWords = st.usedWords /\ new.wordOptions = options
      /\ new.leaderPlayerId = st.leaderPlayerId
      /\ new.players = st.players
  BY <1>1 DEF CreateNextWordSelectionState, Room
<1> HIDE DEF new
<1>7. GameLengthOK(new) /\ RoundNumberOK(new)
  BY <1>1, <1>2, <1>6 DEF GameLengthOK, RoundNumberOK
<1>8. WordsFresh(new)
  BY <1>1, <1>4, <1>6 DEF WordsFresh
<1>9. MaskMatchesHints(new)
  BY <1>6 DEF MaskMatchesHints, InPhase
<1>10. LeaderOnlyDraws(new)
  BY <1>6 DEF RoomOK, LeaderOnlyDraws, InPhase, Playing
<1> QED
  BY <1>5, <1>7, <1>8, <1>9, <1>10 DEF RoomOK, new

LEMMA CreateDrawingStateOK ==
  ASSUME NEW st, RoomOK(st), InPhase(st, "word_selection"),
         NEW chosen \in st.wordOptions
  PROVE  RoomOK(CreateDrawingState(st, chosen))
<1> DEFINE new == CreateDrawingState(st, chosen)
           connected == {i \in DOMAIN st.players : IsConnected(st.players[i])}
<1>1. /\ st \in Room
      /\ chosen \in Words /\ chosen \notin st.usedWords
      /\ st.miniRoundNumber \in 1..st.totalMiniRounds
      /\ Cardinality(st.usedWords) = st.miniRoundNumber - 1
  BY DEF RoomOK, RoundNumberOK, WordsFresh, Playing, InPhase, Room
<1>2. Cardinality(connected) \in Nat
  BY <1>1, CountOfPlayers
<1>3. WordLength[chosen] \in Nat \ {0}
  BY <1>1, WordsAssumption
<1>4. new \in Room
  <2> HIDE DEF connected
  <2>1. new = [st EXCEPT !.phase = "in_game", !.roundPhase = "drawing",
                 !.word = chosen, !.usedWords = @ \cup {chosen},
                 !.wordOptions = {},
                 !.wordMask = WordLength[chosen], !.wordLength = WordLength[chosen],
                 !.hintsUsed = 0,
                 !.roundParticipantsCount = Cardinality(connected),
                 !.players = ResetPlayers(st)]
    BY DEF CreateDrawingState, MakeMask, connected
  <2> HIDE DEF new
  <2> QED
    BY <1>1, <1>2, <1>3, <2>1, ResetPlayersType DEF Room, Phases, RoundPhases
<1>5. /\ new.phase = "in_game" /\ new.roundPhase = "drawing"
      /\ new.miniRoundNumber = st.miniRoundNumber
      /\ new.totalMiniRounds = st.totalMiniRounds
      /\ new.usedWords = st.usedWords \cup {chosen} /\ new.word = chosen
      /\ new.wordMask = WordLength[chosen] /\ new.hintsUsed = 0
      /\ new.leaderPlayerId = st.leaderPlayerId
      /\ new.players = ResetPlayers(st)
  BY <1>1 DEF CreateDrawingState, Room, MakeMask
<1> HIDE DEF new
<1>6. GameLengthOK(new) /\ RoundNumberOK(new)
  BY <1>1, <1>5 DEF RoomOK, GameLengthOK, RoundNumberOK
<1>7. WordsFresh(new)
  <2>1. IsFiniteSet(st.usedWords)
    BY <1>1, WordsAssumption, FS_Subset DEF Room
  <2>2. Cardinality(st.usedWords \cup {chosen}) = Cardinality(st.usedWords) + 1
    BY <1>1, <2>1, FS_AddElement
  <2>3. Cardinality(new.usedWords) = st.miniRoundNumber
    BY <1>1, <1>5, <2>2 DEF Room
  <2> QED
    BY <1>5, <2>3 DEF WordsFresh
<1>8. MaskMatchesHints(new)
  BY <1>3, <1>5 DEF MaskMatchesHints
<1>9. LeaderOnlyDraws(new)
  BY <1>1, <1>5, ResetPlayersOK
<1> QED
  BY <1>4, <1>6, <1>7, <1>8, <1>9 DEF RoomOK, new

LEMMA CreateRoundEndStateOK ==
  ASSUME NEW st, RoomOK(st), InPhase(st, "drawing")
  PROVE  RoomOK(CreateRoundEndState(st))
<1> DEFINE new == CreateRoundEndState(st)
           next == NextLeader(st)
           players == [i \in DOMAIN st.players |->
                         [st.players[i] EXCEPT !.role = RoleUnder(next, st.players[i].id)]]
<1>1. st \in Room /\ next \in PlayerIds
  BY NextLeaderType DEF RoomOK
<1>2. players \in [1..Len(st.players) -> Player]
  <2> HIDE DEF next
  <2> QED
    BY <1>1, PlayersDomain DEF Player, RoleUnder
<1>3. players \in Seq(Player) /\ DOMAIN players = DOMAIN st.players
  BY <1>1, <1>2, PlayersDomain, FunctionIsSequence
<1>4. \A i \in DOMAIN players :
        players[i].id = st.players[i].id /\ players[i].role = RoleUnder(next, st.players[i].id)
  BY <1>1, <1>3, PlayersDomain DEF Player
<1>5. new = [st EXCEPT !.roundPhase = "round_end", !.leaderPlayerId = next,
                       !.players = players]
  BY DEF CreateRoundEndState
<1> HIDE DEF new, next, players
<1>6. new \in Room
  BY <1>1, <1>3, <1>5 DEF Room, RoundPhases
<1>7. /\ new.phase = st.phase /\ new.roundPhase = "round_end"
      /\ new.miniRoundNumber = st.miniRoundNumber
      /\ new.totalMiniRounds = st.totalMiniRounds
      /\ new.usedWords = st.usedWords /\ new.word = st.word
      /\ new.leaderPlayerId = next
      /\ new.players = players
  BY <1>1, <1>5 DEF Room
<1>8. GameLengthOK(new) /\ RoundNumberOK(new)
  BY <1>7 DEF RoomOK, GameLengthOK, RoundNumberOK
<1>9. WordsFresh(new)
  BY <1>7 DEF RoomOK, WordsFresh, Playing, InPhase
<1>10. MaskMatchesHints(new)
  BY <1>7 DEF MaskMatchesHints, InPhase
<1>11. LeaderOnlyDraws(new)
  BY <1>4, <1>7 DEF LeaderOnlyDraws, InPhase
<1> QED
  BY <1>6, <1>8, <1>9, <1>10, <1>11 DEF RoomOK, new

LEMMA CreateGameOverStateOK ==
  ASSUME NEW st, RoomOK(st), InPhase(st, "round_end"),
         st.miniRoundNumber >= st.totalMiniRounds
  PROVE  RoomOK(CreateGameOverState(st))
<1> DEFINE new == CreateGameOverState(st)
<1>1. st \in Room
  BY DEF RoomOK
<1>2. new \in Room
  BY <1>1 DEF CreateGameOverState, Room, Phases, RoundPhases
<1>3. /\ new.phase = "game_over"
      /\ new.miniRoundNumber = st.miniRoundNumber
      /\ new.totalMiniRounds = st.totalMiniRounds
  BY <1>1 DEF CreateGameOverState, Room
<1> HIDE DEF new
<1>4. GameLengthOK(new) /\ RoundNumberOK(new)
  BY <1>1, <1>3 DEF RoomOK, GameLengthOK, RoundNumberOK, InPhase, Room
<1>5. WordsFresh(new) /\ MaskMatchesHints(new) /\ LeaderOnlyDraws(new)
  BY <1>3 DEF WordsFresh, MaskMatchesHints, LeaderOnlyDraws, InPhase, Playing
<1> QED
  BY <1>2, <1>4, <1>5 DEF RoomOK, new

LEMMA ApplyHintOK ==
  ASSUME NEW st, RoomOK(st), InPhase(st, "drawing"),
         RevealHint(st.wordMask) # st.wordMask
  PROVE  RoomOK(ApplyHint(st))
<1> DEFINE new == ApplyHint(st)
<1>1. st \in Room /\ st.wordMask \in Nat /\ st.wordMask > 1 /\ st.hintsUsed \in Nat
  BY DEF RoomOK, Room, RevealHint
<1>2. new = [st EXCEPT !.wordMask = st.wordMask - 1, !.hintsUsed = st.hintsUsed + 1]
  BY <1>1 DEF ApplyHint, RevealHint, Room
<1> HIDE DEF new
<1>3. new \in Room
  <2>1. st.wordMask - 1 \in Nat /\ st.hintsUsed + 1 \in Nat
    BY <1>1
  <2> QED
    BY <1>1, <1>2, <2>1 DEF Room
<1>4. /\ new.phase = st.phase /\ new.roundPhase = st.roundPhase
      /\ new.miniRoundNumber = st.miniRoundNumber
      /\ new.totalMiniRounds = st.totalMiniRounds
      /\ new.usedWords = st.usedWords /\ new.word = st.word
      /\ new.wordOptions = st.wordOptions
      /\ new.leaderPlayerId = st.leaderPlayerId /\ new.players = st.players
      /\ new.wordMask = st.wordMask - 1 /\ new.hintsUsed = st.hintsUsed + 1
  BY <1>1, <1>2 DEF Room
<1>5. GameLengthOK(new) /\ RoundNumberOK(new)
  BY <1>4 DEF RoomOK, GameLengthOK, RoundNumberOK
<1>6. WordsFresh(new)
  BY <1>4 DEF RoomOK, WordsFresh, Playing
<1>7. MaskMatchesHints(new)
  BY <1>1, <1>4 DEF RoomOK, MaskMatchesHints, InPhase
<1>8. LeaderOnlyDraws(new)
  BY <1>4 DEF RoomOK, LeaderOnlyDraws, InPhase, Playing
<1> QED
  BY <1>3, <1>5, <1>6, <1>7, <1>8 DEF RoomOK, new

LEMMA PositionType ==
  ASSUME NEW st \in Room
  PROVE  Position(st) \in Nat
<1> DEFINE before == {i \in DOMAIN st.players :
               st.players[i].guessed /\ st.players[i].id # st.leaderPlayerId}
<1>1. before \in SUBSET DOMAIN st.players
  OBVIOUS
<1> HIDE DEF before
<1>2. Cardinality(before) \in Nat
  BY <1>1, CountOfPlayers
<1> QED
  BY <1>2 DEF Position, before

(* Points given for a guess are natural numbers.                           *)
LEMMA AwardType ==
  ASSUME NEW st \in Room, NEW remaining \in Int
  PROVE  /\ GuesserScore(remaining, RoundTimeSec, st.hintsUsed, Position(st)) \in Nat
         /\ LeaderContribution(remaining, RoundTimeSec, st.roundParticipantsCount) \in Nat
<1>1. Position(st) \in Nat
  BY PositionType
<1>2. /\ st.hintsUsed \in Nat /\ st.roundParticipantsCount \in Nat
      /\ RoundTimeSec \in Nat \ {0}
  BY SettingsAssumption DEF Room
<1>3. GuesserScore(remaining, RoundTimeSec, st.hintsUsed, Position(st)) \in 5..100
  BY <1>1, <1>2, GuesserScoreBounds
<1>4. LeaderContribution(remaining, RoundTimeSec, st.roundParticipantsCount) \in Nat
  BY <1>2, LeaderContributionType
<1> QED
  BY <1>3, <1>4

LEMMA ApplyCorrectGuessOK ==
  ASSUME NEW st, RoomOK(st), InPhase(st, "drawing"),
         NEW p \in PlayerIds, p # st.leaderPlayerId, NEW remaining \in Int
  PROVE  /\ RoomOK(ApplyCorrectGuess(st, p, remaining))
         /\ InPhase(ApplyCorrectGuess(st, p, remaining), "drawing")
<1> DEFINE new == ApplyCorrectGuess(st, p, remaining)
           awarded == GuesserScore(remaining, RoundTimeSec, st.hintsUsed, Position(st))
           contribution ==
             LeaderContribution(remaining, RoundTimeSec, st.roundParticipantsCount)
           credited(player) ==
             IF player.id = p
             THEN [player EXCEPT !.score = @ + awarded, !.guessed = TRUE]
             ELSE IF player.id = st.leaderPlayerId
             THEN [player EXCEPT !.score = @ + contribution]
             ELSE player
           players == [i \in DOMAIN st.players |-> credited(st.players[i])]
<1>1. st \in Room /\ awarded \in Nat /\ contribution \in Nat
  BY AwardType DEF RoomOK
<1>2. new = [st EXCEPT !.players = players]
  BY DEF ApplyCorrectGuess
<1> HIDE DEF new, awarded, contribution
<1>3. \A player \in Player :
        /\ credited(player) \in Player
        /\ credited(player).id = player.id
        /\ credited(player).role = player.role
        /\ player.id = st.leaderPlayerId => credited(player).guessed = player.guessed
  <2> SUFFICES ASSUME NEW player \in Player
               PROVE  /\ credited(player) \in Player
                      /\ credited(player).id = player.id
                      /\ credited(player).role = player.role
                      /\ player.id = st.leaderPlayerId
                           => credited(player).guessed = player.guessed
    OBVIOUS
  <2>1. player.score + awarded \in Nat /\ player.score + contribution \in Nat
    BY <1>1 DEF Player
  <2>2. CASE player.id = p
    BY <2>1, <2>2 DEF Player
  <2>3. CASE player.id # p /\ player.id = st.leaderPlayerId
    BY <2>1, <2>3 DEF Player
  <2>4. CASE player.id # p /\ player.id # st.leaderPlayerId
    BY <2>4
  <2> QED
    BY <2>2, <2>3, <2>4
<1> HIDE DEF credited
<1>4. players \in [1..Len(st.players) -> Player]
  BY <1>1, <1>3, PlayersDomain
<1>5. players \in Seq(Player) /\ DOMAIN players = DOMAIN st.players
  BY <1>1, <1>4, PlayersDomain, FunctionIsSequence
<1>6. \A i \in DOMAIN players : players[i] = credited(st.players[i]) /\ st.players[i] \in Player
  BY <1>1, <1>5, PlayersDomain
<1> HIDE DEF players
<1>7. new \in Room
  BY <1>1, <1>2, <1>5 DEF Room
<1>8. /\ new.phase = st.phase /\ new.roundPhase = st.roundPhase
      /\ new.miniRoundNumber = st.miniRoundNumber
      /\ new.totalMiniRounds = st.totalMiniRounds
      /\ new.usedWords = st.usedWords /\ new.word = st.word
      /\ new.wordOptions = st.wordOptions
      /\ new.wordMask = st.wordMask /\ new.hintsUsed = st.hintsUsed
      /\ new.leaderPlayerId = st.leaderPlayerId
      /\ new.players = players
  BY <1>1, <1>2 DEF Room
<1>9. GameLengthOK(new) /\ RoundNumberOK(new)
  BY <1>8 DEF RoomOK, GameLengthOK, RoundNumberOK
<1>10. WordsFresh(new) /\ MaskMatchesHints(new)
  BY <1>8 DEF RoomOK, WordsFresh, MaskMatchesHints, Playing, InPhase
<1>11. LeaderOnlyDraws(new)
  <2> SUFFICES ASSUME NEW i \in DOMAIN players
               PROVE  /\ players[i].role = RoleUnder(st.leaderPlayerId, players[i].id)
                      /\ players[i].id = st.leaderPlayerId => ~players[i].guessed
    BY <1>8 DEF LeaderOnlyDraws
  <2>1. /\ st.players[i].role = RoleUnder(st.leaderPlayerId, st.players[i].id)
        /\ st.players[i].id = st.leaderPlayerId => ~st.players[i].guessed
    BY <1>5 DEF RoomOK, LeaderOnlyDraws, Playing, InPhase
  <2> QED
    BY <1>3, <1>6, <2>1
<1>12. InPhase(new, "drawing")
  BY <1>8 DEF InPhase
<1> QED
  BY <1>7, <1>9, <1>10, <1>11, <1>12 DEF RoomOK, new

(* A lobby with between 1 and maxPlayers players is a good start.          *)
LEMMA LobbyRoomOK ==
  ASSUME NEW order \in Seq(PlayerIds), Len(order) \in 1..MaxPlayers,
         NEW connected \in SUBSET PlayerIds
  PROVE  RoomOK(LobbyRoom(order, connected))
<1> DEFINE new == LobbyRoom(order, connected)
           n == Len(order)
           status(i) == IF order[i] \in connected THEN "connected" ELSE "disconnected"
           players == [i \in 1..n |-> NewPlayer(order[i], i = 1, status(i))]
<1>1. n \in 1..MaxPlayers /\ \A i \in 1..n : order[i] \in PlayerIds
  BY ElementOfSeq
<1>2. \A i \in 1..n : NewPlayer(order[i], i = 1, status(i)) \in Player
  BY <1>1 DEF NewPlayer, Player
<1>3. players \in [1..n -> Player]
  BY <1>2
<1>4. players \in Seq(Player)
  BY <1>1, <1>3, SettingsAssumption, FunctionIsSequence
<1>5. RoundsCount * n \in 1..(RoundsCount * MaxPlayers)
  BY <1>1, SettingsAssumption
<1>6. new.players = players /\ new.totalMiniRounds = RoundsCount * n
  BY DEF LobbyRoom, CalculateTotalMiniRounds
<1> HIDE DEF players, n
<1>7. new \in Room
  <2>1. new.leaderPlayerId \in PlayerIds
    BY <1>1 DEF LobbyRoom, n
  <2>2. RoundsCount * n \in Nat
    BY <1>5
  <2>3. new = [ phase |-> "lobby", roundPhase |-> "round_end",
                miniRoundNumber |-> 0, totalMiniRounds |-> RoundsCount * n,
                leaderPlayerId |-> new.leaderPlayerId,
                wordOptions |-> {}, usedWords |-> {}, word |-> NoWord,
                wordMask |-> 0, wordLength |-> 0, hintsUsed |-> 0,
                roundParticipantsCount |-> 1, players |-> players ]
    BY DEF LobbyRoom, CalculateTotalMiniRounds, players, n
  <2> HIDE DEF new
  <2> QED
    BY <1>4, <2>1, <2>2, <2>3 DEF Room, Phases, RoundPhases
<1>8. new.phase = "lobby" /\ new.miniRoundNumber = 0
  BY DEF LobbyRoom
<1> HIDE DEF new
<1>9. GameLengthOK(new) /\ RoundNumberOK(new)
  BY <1>5, <1>6, <1>8 DEF GameLengthOK, RoundNumberOK
<1>10. WordsFresh(new) /\ MaskMatchesHints(new) /\ LeaderOnlyDraws(new)
  BY <1>8 DEF WordsFresh, MaskMatchesHints, LeaderOnlyDraws, InPhase, Playing
<1> QED
  BY <1>7, <1>9, <1>10 DEF RoomOK, new

(***************************************************************************)
(* What the transitions change and what they leave alone.                  *)
(***************************************************************************)
(* The same players in the same seats, in a game of the same length.       *)
SameCast(st, new) ==
  /\ DOMAIN new.players = DOMAIN st.players
  /\ \A i \in DOMAIN st.players :
       /\ new.players[i].id = st.players[i].id
       /\ new.players[i].connectionStatus = st.players[i].connectionStatus
  /\ new.totalMiniRounds = st.totalMiniRounds

SameScores(st, new) ==
  \A i \in DOMAIN st.players : new.players[i].score = st.players[i].score

NobodyGuessed(st) == \A i \in DOMAIN st.players : ~st.players[i].guessed

SeatsApart(st) ==
  \A i, j \in DOMAIN st.players : st.players[i].id = st.players[j].id => i = j

LEMMA SameCastMembers ==
  ASSUME NEW st, NEW new, SameCast(st, new)
  PROVE  Members(new) = Members(st) /\ Connected(new) = Connected(st)
  BY DEF SameCast, Members, Connected, IsConnected

LEMMA SeatOf ==
  ASSUME NEW st, SeatsApart(st), NEW i \in DOMAIN st.players
  PROVE  IndexOf(st, st.players[i].id) = i /\ CurrentPlayer(st, st.players[i].id) = st.players[i]
  BY DEF SeatsApart, IndexOf, CurrentPlayer

LEMMA SameCastApart ==
  ASSUME NEW st, NEW new, SameCast(st, new), SeatsApart(st)
  PROVE  SeatsApart(new)
  BY DEF SameCast, SeatsApart

LEMMA SameSeat ==
  ASSUME NEW st, NEW new, SameCast(st, new), SeatsApart(st), NEW p \in Members(st)
  PROVE  /\ IndexOf(st, p) \in DOMAIN st.players
         /\ CurrentPlayer(st, p).id = p
         /\ CurrentPlayer(new, p) = new.players[IndexOf(st, p)]
<1>1. PICK i \in DOMAIN st.players : st.players[i].id = p
  BY DEF Members
<1>2. IndexOf(st, p) = i /\ CurrentPlayer(st, p) = st.players[i]
  BY <1>1, SeatOf
<1>3. i \in DOMAIN new.players /\ new.players[i].id = p
  BY <1>1 DEF SameCast
<1>4. CurrentPlayer(new, p) = new.players[i]
  BY <1>3, SameCastApart, SeatOf
<1> QED
  BY <1>1, <1>2, <1>4

LEMMA SameScoresSeen ==
  ASSUME NEW st, NEW new, SameCast(st, new), SameScores(st, new), SeatsApart(st)
  PROVE  ScoresOf(new) = ScoresOf(st)
<1>1. \A p \in Members(st) : CurrentPlayer(new, p).score = CurrentPlayer(st, p).score
  BY SameSeat DEF SameScores, CurrentPlayer
<1> QED
  BY <1>1, SameCastMembers DEF ScoresOf

LEMMA WordSelectionEffect ==
  ASSUME NEW st \in Room, st.miniRoundNumber = 0, NEW options \in SUBSET Words,
         NEW new, new = CreateWordSelectionState(st, options)
  PROVE  /\ InPhase(new, "word_selection") /\ new.miniRoundNumber = 1
         /\ new.leaderPlayerId = st.leaderPlayerId /\ new.hintsUsed = 0
         /\ new.roundParticipantsCount = st.roundParticipantsCount
         /\ SameCast(st, new) /\ SameScores(st, new)
<1>1. /\ InPhase(new, "word_selection") /\ new.miniRoundNumber = 1
      /\ new.leaderPlayerId = st.leaderPlayerId /\ new.hintsUsed = 0
      /\ new.roundParticipantsCount = st.roundParticipantsCount
      /\ new.players = ResetPlayers(st) /\ new.totalMiniRounds = st.totalMiniRounds
  BY DEF CreateWordSelectionState, Room, InPhase
<1> QED
  BY <1>1, ResetPlayersEffect DEF SameCast, SameScores

LEMMA NextWordSelectionEffect ==
  ASSUME NEW st \in Room, NEW options \in SUBSET Words,
         NEW new, new = CreateNextWordSelectionState(st, options)
  PROVE  /\ InPhase(new, "word_selection")
         /\ new.miniRoundNumber = st.miniRoundNumber + 1
         /\ new.leaderPlayerId = st.leaderPlayerId /\ new.hintsUsed = 0
         /\ new.roundParticipantsCount = st.roundParticipantsCount
         /\ SameCast(st, new) /\ SameScores(st, new)
<1>1. /\ InPhase(new, "word_selection")
      /\ new.miniRoundNumber = st.miniRoundNumber + 1
      /\ new.leaderPlayerId = st.leaderPlayerId /\ new.hintsUsed = 0
      /\ new.roundParticipantsCount = st.roundParticipantsCount
      /\ new.players = st.players /\ new.totalMiniRounds = st.totalMiniRounds
  BY DEF CreateNextWordSelectionState, Room, InPhase
<1> QED
  BY <1>1 DEF SameCast, SameScores

LEMMA DrawingEffect ==
  ASSUME NEW st \in Room, NEW chosen \in Words,
         NEW new, new = CreateDrawingState(st, chosen)
  PROVE  /\ InPhase(new, "drawing")
         /\ new.miniRoundNumber = st.miniRoundNumber
         /\ new.leaderPlayerId = st.leaderPlayerId /\ new.hintsUsed = 0
         /\ new.roundParticipantsCount <= Len(st.players)
         /\ SameCast(st, new) /\ SameScores(st, new) /\ NobodyGuessed(new)
<1> DEFINE connected == {i \in DOMAIN st.players : IsConnected(st.players[i])}
<1>1. /\ InPhase(new, "drawing")
      /\ new.miniRoundNumber = st.miniRoundNumber
      /\ new.leaderPlayerId = st.leaderPlayerId /\ new.hintsUsed = 0
      /\ new.roundParticipantsCount = Cardinality(connected)
      /\ new.players = ResetPlayers(st) /\ new.totalMiniRounds = st.totalMiniRounds
  BY DEF CreateDrawingState, Room, InPhase
<1>2. Cardinality(connected) <= Len(st.players)
  <2>1. IsFiniteSet(1..Len(st.players)) /\ Cardinality(1..Len(st.players)) = Len(st.players)
    BY PlayersDomain, FS_Interval
  <2> QED
    BY <2>1, PlayersDomain, FS_Subset
<1> HIDE DEF connected
<1> QED
  BY <1>1, <1>2, ResetPlayersEffect, ResetPlayersType DEF SameCast, SameScores, NobodyGuessed

LEMMA RoundEndEffect ==
  ASSUME NEW st \in Room, st.phase = "in_game",
         NEW new, new = CreateRoundEndState(st)
  PROVE  /\ InPhase(new, "round_end")
         /\ new.miniRoundNumber = st.miniRoundNumber
         /\ new.leaderPlayerId = NextLeader(st) /\ new.hintsUsed = st.hintsUsed
         /\ new.roundParticipantsCount = st.roundParticipantsCount
         /\ SameCast(st, new) /\ SameScores(st, new)
<1> DEFINE next == NextLeader(st)
           players == [i \in DOMAIN st.players |->
                         [st.players[i] EXCEPT !.role = RoleUnder(next, st.players[i].id)]]
<1>1. /\ InPhase(new, "round_end")
      /\ new.miniRoundNumber = st.miniRoundNumber
      /\ new.leaderPlayerId = next /\ new.hintsUsed = st.hintsUsed
      /\ new.roundParticipantsCount = st.roundParticipantsCount
      /\ new.players = players /\ new.totalMiniRounds = st.totalMiniRounds
  BY DEF CreateRoundEndState, Room, InPhase
<1> HIDE DEF next
<1>2. \A i \in DOMAIN st.players :
        /\ players[i].id = st.players[i].id
        /\ players[i].connectionStatus = st.players[i].connectionStatus
        /\ players[i].score = st.players[i].score
  BY PlayersDomain DEF Player
<1> QED
  BY <1>1, <1>2 DEF SameCast, SameScores, next

LEMMA GameOverEffect ==
  ASSUME NEW st \in Room, NEW new, new = CreateGameOverState(st)
  PROVE  /\ new.phase = "game_over" /\ new.roundPhase = "round_end"
         /\ new.miniRoundNumber = st.miniRoundNumber
         /\ new.leaderPlayerId = st.leaderPlayerId /\ new.hintsUsed = st.hintsUsed
         /\ new.roundParticipantsCount = st.roundParticipantsCount
         /\ SameCast(st, new) /\ SameScores(st, new)
<1>1. /\ new.phase = "game_over" /\ new.roundPhase = "round_end"
      /\ new.miniRoundNumber = st.miniRoundNumber
      /\ new.leaderPlayerId = st.leaderPlayerId /\ new.hintsUsed = st.hintsUsed
      /\ new.roundParticipantsCount = st.roundParticipantsCount
      /\ new.players = st.players /\ new.totalMiniRounds = st.totalMiniRounds
  BY DEF CreateGameOverState, Room
<1> QED
  BY <1>1 DEF SameCast, SameScores

LEMMA HintEffect ==
  ASSUME NEW st \in Room, NEW new, new = ApplyHint(st)
  PROVE  /\ new.phase = st.phase /\ new.roundPhase = st.roundPhase
         /\ new.miniRoundNumber = st.miniRoundNumber
         /\ new.leaderPlayerId = st.leaderPlayerId
         /\ new.hintsUsed = st.hintsUsed + 1
         /\ new.roundParticipantsCount = st.roundParticipantsCount
         /\ new.players = st.players
         /\ SameCast(st, new) /\ SameScores(st, new)
<1>1. /\ new.phase = st.phase /\ new.roundPhase = st.roundPhase
      /\ new.miniRoundNumber = st.miniRoundNumber
      /\ new.leaderPlayerId = st.leaderPlayerId
      /\ new.hintsUsed = st.hintsUsed + 1
      /\ new.roundParticipantsCount = st.roundParticipantsCount
      /\ new.players = st.players /\ new.totalMiniRounds = st.totalMiniRounds
  BY DEF ApplyHint, Room
<1> QED
  BY <1>1 DEF SameCast, SameScores

LEMMA GuessEffect ==
  ASSUME NEW st \in Room, NEW p, NEW remaining \in Int,
         NEW new, new = ApplyCorrectGuess(st, p, remaining)
  PROVE  /\ new.phase = st.phase /\ new.roundPhase = st.roundPhase
         /\ new.miniRoundNumber = st.miniRoundNumber
         /\ new.leaderPlayerId = st.leaderPlayerId /\ new.hintsUsed = st.hintsUsed
         /\ new.roundParticipantsCount = st.roundParticipantsCount
         /\ SameCast(st, new)
         /\ \A i \in DOMAIN st.players :
              /\ new.players[i].guessed <=>
                   st.players[i].guessed \/ st.players[i].id = p
              /\ new.players[i].score = st.players[i].score +
                   IF st.players[i].id = p
                   THEN GuesserScore(remaining, RoundTimeSec, st.hintsUsed, Position(st))
                   ELSE IF st.players[i].id = st.leaderPlayerId
                   THEN LeaderContribution(remaining, RoundTimeSec, st.roundParticipantsCount)
                   ELSE 0
<1> DEFINE awarded == GuesserScore(remaining, RoundTimeSec, st.hintsUsed, Position(st))
           contribution ==
             LeaderContribution(remaining, RoundTimeSec, st.roundParticipantsCount)
           credited(player) ==
             IF player.id = p
             THEN [player EXCEPT !.score = @ + awarded, !.guessed = TRUE]
             ELSE IF player.id = st.leaderPlayerId
             THEN [player EXCEPT !.score = @ + contribution]
             ELSE player
           players == [i \in DOMAIN st.players |-> credited(st.players[i])]
<1>1. /\ new.phase = st.phase /\ new.roundPhase = st.roundPhase
      /\ new.miniRoundNumber = st.miniRoundNumber
      /\ new.leaderPlayerId = st.leaderPlayerId /\ new.hintsUsed = st.hintsUsed
      /\ new.roundParticipantsCount = st.roundParticipantsCount
      /\ new.players = players /\ new.totalMiniRounds = st.totalMiniRounds
  BY DEF ApplyCorrectGuess, Room
<1> HIDE DEF awarded, contribution
<1>2. \A player \in Player :
        /\ credited(player).id = player.id
        /\ credited(player).connectionStatus = player.connectionStatus
        /\ credited(player).guessed <=> player.guessed \/ player.id = p
        /\ credited(player).score = player.score +
             IF player.id = p THEN awarded
             ELSE IF player.id = st.leaderPlayerId THEN contribution ELSE 0
  BY DEF Player
<1> HIDE DEF credited
<1>3. \A i \in DOMAIN st.players :
        players[i] = credited(st.players[i]) /\ st.players[i] \in Player
  BY PlayersDomain
<1>4. DOMAIN players = DOMAIN st.players
  OBVIOUS
<1> HIDE DEF players
<1> QED
  BY <1>1, <1>2, <1>3, <1>4 DEF SameCast, awarded, contribution

(***************************************************************************)
(* Who leads next.                                                         *)
(***************************************************************************)
(* Rotation of 1..n: from "current", the next place is current + 1, and a  *)
(* place that is not "current" is reached in fewer than n steps.           *)
LEMMA NextPlace ==
  ASSUME NEW n \in Nat \ {0}, NEW current \in 1..n
  PROVE  (current - 1 + 1) % n = current % n
  OBVIOUS

LEMMA PlaceReached ==
  ASSUME NEW n \in Nat \ {0}, NEW current \in 1..n, NEW j \in 1..n, j # current
  PROVE  \E k \in 1..(n - 1) : ((current - 1 + k) % n) + 1 = j
<1>1. CASE j > current
  <2>1. PICK k \in 1..(n - 1) : k = j - current
    BY <1>1
  <2>2. current - 1 + k = j - 1 /\ (j - 1) % n = j - 1
    BY <2>1
  <2>3. ((current - 1 + k) % n) + 1 = j
    BY <2>2
  <2> QED
    BY <2>3
<1>2. CASE j < current
  <2> DEFINE r == j - 1
  <2>1. PICK k \in 1..(n - 1) : k = j - current + n
    BY <1>2
  <2>2. r \in 0..(n - 1) /\ current - 1 + k = r + n /\ r + 1 = j
    BY <2>1
  <2> HIDE DEF r
  <2>3. (r + n) % n = r
    BY <2>2
  <2>4. ((current - 1 + k) % n) + 1 = j
    BY <2>2, <2>3
  <2> QED
    BY <2>4
<1> QED
  BY <1>1, <1>2

LEMMA PlaceLeft ==
  ASSUME NEW n \in Nat \ {0}, NEW current \in 1..n, NEW k \in 1..(n - 1)
  PROVE  ((current - 1 + k) % n) + 1 # current
<1>1. CASE current + k <= n
  <2>1. (current - 1 + k) % n = current - 1 + k
    BY <1>1
  <2> QED
    BY <2>1
<1>2. CASE current + k > n
  <2> DEFINE r == current - 1 + k - n
  <2>1. r \in 0..(n - 1) /\ current - 1 + k = r + n /\ r # current - 1
    BY <1>2
  <2> HIDE DEF r
  <2>2. (r + n) % n = r
    BY <2>1
  <2> QED
    BY <2>1, <2>2
<1> QED
  BY <1>1, <1>2

LEMMA RemainderIs ==
  ASSUME NEW n \in Nat \ {0}, NEW q \in Nat, NEW r \in 0..(n - 1)
  PROVE  (n * q + r) % n = r
<1> DEFINE x == n * q + r
           d == x \div n
           m == x % n
<1>1. x \in Nat
  OBVIOUS
<1> HIDE DEF x
<1>2. d \in Nat /\ m \in 0..(n - 1) /\ x = n * d + m
  BY <1>1
<1> HIDE DEF d, m
<1>3. n * q + r = n * d + m
  BY <1>2 DEF x
<1>4. q = d
  <2>1. ASSUME q >= d + 1 PROVE FALSE
    <3>1. n * q >= n * (d + 1)
      BY <1>2, <2>1
    <3>2. n * (d + 1) = n * d + n
      BY <1>2
    <3> QED
      BY <1>2, <1>3, <3>1, <3>2
  <2>2. ASSUME d >= q + 1 PROVE FALSE
    <3>1. n * d >= n * (q + 1)
      BY <1>2, <2>2
    <3>2. n * (q + 1) = n * q + n
      OBVIOUS
    <3> QED
      BY <1>2, <1>3, <3>1, <3>2
  <2> QED
    BY <1>2, <2>1, <2>2
<1>5. m = r
  BY <1>2, <1>3, <1>4
<1> QED
  BY <1>5 DEF x, m

(* The place after that of round k is that of round k + 1.                 *)
LEMMA NextPlaceOfRound ==
  ASSUME NEW n \in Nat \ {0}, NEW k \in Nat \ {0}
  PROVE  (((k - 1) % n) + 1) % n = k % n
<1> DEFINE q == (k - 1) \div n
           r == (k - 1) % n
<1>1. q \in Nat /\ r \in 0..(n - 1) /\ k = n * q + r + 1
  OBVIOUS
<1> HIDE DEF q, r
<1>2. CASE r + 1 < n
  <2>1. (r + 1) % n = r + 1
    BY <1>1, <1>2
  <2>2. (n * q + (r + 1)) % n = r + 1
    BY <1>1, <1>2, RemainderIs
  <2>3. k = n * q + (r + 1)
    BY <1>1
  <2> QED
    BY <2>1, <2>2, <2>3 DEF r
<1>3. CASE r + 1 = n
  <2>1. n % n = 0
    OBVIOUS
  <2>2. (n * (q + 1) + 0) % n = 0
    BY <1>1, RemainderIs
  <2>3. k = n * (q + 1) + 0
    BY <1>1, <1>3
  <2>4. k % n = 0
    BY <2>2, <2>3
  <2> QED
    BY <1>3, <2>1, <2>4 DEF r
<1> QED
  BY <1>1, <1>2, <1>3

(* The lead passes to a player who is connected, if there is one, and to   *)
(* somebody else if somebody else is; else it stays                        *)
(* (getNextLeaderPlayerId).                                                *)
THEOREM NextLeaderIsPresent ==
  ASSUME NEW st \in Room, SeatsApart(st), st.leaderPlayerId \in Members(st)
  PROVE  /\ Connected(st) = {} => NextLeader(st) = st.leaderPlayerId
         /\ Connected(st) # {} => NextLeader(st) \in Connected(st)
         /\ Connected(st) \ {st.leaderPlayerId} # {}
              => NextLeader(st) # st.leaderPlayerId
<1> DEFINE n == Len(st.players)
           current == IndexOf(st, st.leaderPlayerId)
           at(offset) == ((current - 1 + offset) % n) + 1
           candidates == {k \in 1..n : IsConnected(st.players[at(k)])}
           nearest == CHOOSE k \in candidates : \A j \in candidates : k <= j
<1>1. current \in 1..n /\ n \in Nat \ {0} /\ DOMAIN st.players = 1..n
  BY IndexOfMember, PlayersDomain
<1>2. st.players[current].id = st.leaderPlayerId
  BY IndexOfMember DEF CurrentPlayer
<1>3. NextLeader(st) = IF candidates = {} THEN st.leaderPlayerId
                       ELSE st.players[at(nearest)].id
  BY DEF NextLeader
<1>4. \A k \in Nat : at(k) \in 1..n
  <2> SUFFICES ASSUME NEW k \in Nat PROVE at(k) \in 1..n
    OBVIOUS
  <2>1. current - 1 + k \in Int
    BY <1>1
  <2> HIDE DEF current, n
  <2> QED
    BY <1>1, <2>1, ModuloRange
<1>5. \A j \in 1..n : \E k \in 1..n : at(k) = j /\ (j # current => k \in 1..(n - 1))
  <2> SUFFICES ASSUME NEW j \in 1..n
               PROVE  \E k \in 1..n : at(k) = j /\ (j # current => k \in 1..(n - 1))
    OBVIOUS
  <2> HIDE DEF current, n
  <2>1. CASE j # current
    <3>1. PICK k \in 1..(n - 1) : at(k) = j
      BY <1>1, <2>1, PlaceReached
    <3>2. k \in 1..n
      BY <1>1
    <3> HIDE DEF at
    <3> QED
      BY <3>1, <3>2
  <2>2. CASE j = current
    <3> DEFINE r == current - 1
    <3>1. r \in 0..(n - 1) /\ current - 1 + n = r + n /\ r + 1 = current
      BY <1>1
    <3> HIDE DEF r
    <3>2. (r + n) % n = r
      BY <1>1, <3>1
    <3> QED
      BY <1>1, <2>2, <3>1, <3>2
  <2> QED
    BY <2>1, <2>2
<1>6. Connected(st) = {st.players[j].id : j \in {j \in 1..n : IsConnected(st.players[j])}}
  BY <1>1 DEF Connected
<1> HIDE DEF current, n
<1>7. CASE candidates = {}
  <2>1. \A j \in 1..n : ~IsConnected(st.players[j])
    BY <1>5, <1>7
  <2>2. Connected(st) = {}
    BY <1>6, <2>1
  <2> QED
    BY <1>3, <1>7, <2>2
<1>8. CASE candidates # {}
  <2>1. /\ nearest \in candidates /\ nearest \in 1..n
        /\ \A j \in candidates : nearest <= j
    <3>1. candidates \in SUBSET Nat /\ candidates \in SUBSET (1..n)
      OBVIOUS
    <3> HIDE DEF candidates
    <3> QED
      BY <1>8, <3>1, LeastOf
  <2>2. at(nearest) \in 1..n /\ IsConnected(st.players[at(nearest)])
    <3>1. IsConnected(st.players[at(nearest)])
      <4> HIDE DEF at, nearest
      <4>1. \A j \in candidates : IsConnected(st.players[at(j)])
        OBVIOUS
      <4> HIDE DEF candidates
      <4> QED
        BY <2>1, <4>1
    <3>2. nearest \in Nat
      BY <1>1, <2>1
    <3> HIDE DEF at, nearest
    <3> QED
      BY <1>4, <3>1, <3>2
  <2> HIDE DEF nearest
  <2>3. st.players[at(nearest)].id \in Connected(st)
    <3> HIDE DEF at
    <3> QED
      BY <1>6, <2>2
  <2>4. ASSUME Connected(st) \ {st.leaderPlayerId} # {}
        PROVE  st.players[at(nearest)].id # st.leaderPlayerId
    <3> HIDE DEF at
    <3>1. PICK j \in 1..n : /\ IsConnected(st.players[j])
                            /\ st.players[j].id # st.leaderPlayerId
      BY <1>6, <2>4
    <3>2. PICK k \in 1..(n - 1) : at(k) = j
      BY <1>2, <1>5, <3>1
    <3>3. k \in candidates
      BY <1>1, <3>1, <3>2
    <3>4. nearest \in 1..(n - 1)
      BY <1>1, <2>1, <3>3
    <3>5. at(nearest) # current
      BY <1>1, <3>4, PlaceLeft DEF at
    <3>6. at(nearest) \in DOMAIN st.players /\ current \in DOMAIN st.players
      BY <1>1, <2>2
    <3> QED
      BY <1>2, <3>5, <3>6 DEF SeatsApart
  <2> QED
    BY <1>3, <1>8, <2>3, <2>4
<1> QED
  BY <1>7, <1>8

(* With everybody connected the lead passes to the next in the array.      *)
LEMMA NextLeaderInTurn ==
  ASSUME NEW st \in Room, st.leaderPlayerId \in Members(st),
         \A j \in DOMAIN st.players : IsConnected(st.players[j])
  PROVE  NextLeader(st) = NextInOrder(st)
<1> DEFINE n == Len(st.players)
           current == IndexOf(st, st.leaderPlayerId)
           at(offset) == ((current - 1 + offset) % n) + 1
           candidates == {k \in 1..n : IsConnected(st.players[at(k)])}
           nearest == CHOOSE k \in candidates : \A j \in candidates : k <= j
<1>1. current \in 1..n /\ n \in Nat \ {0} /\ DOMAIN st.players = 1..n
  BY IndexOfMember, PlayersDomain
<1>2. candidates = 1..n
  <2> SUFFICES ASSUME NEW k \in 1..n PROVE at(k) \in 1..n
    BY <1>1
  <2> HIDE DEF current, n
  <2>1. current - 1 + k \in Int
    BY <1>1
  <2> QED
    BY <1>1, <2>1, ModuloRange
<1>3. nearest = 1
  <2> HIDE DEF candidates, n
  <2>1. 1 \in candidates /\ \A j \in candidates : 1 <= j /\ j \in Int
    BY <1>1, <1>2
  <2>2. \A k \in candidates : (\A j \in candidates : k <= j) => k = 1
    BY <2>1
  <2> QED
    BY <2>1, <2>2
<1>4. NextLeader(st) = st.players[at(nearest)].id
  <2>1. candidates # {}
    BY <1>1, <1>2
  <2> QED
    BY <2>1 DEF NextLeader
<1> HIDE DEF nearest, candidates, current, n
<1>5. at(nearest) = (current % n) + 1
  BY <1>1, <1>3, NextPlace
<1> QED
  BY <1>4, <1>5 DEF NextInOrder, current, n
=============================================================================
