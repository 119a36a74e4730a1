-------------------------- MODULE TokenBucketProofs --------------------------
(***************************************************************************)
(* The limit of a bucket, for every rate, capacity and behaviour of the    *)
(* clock.                                                                  *)
(***************************************************************************)
EXTENDS TokenBucket, TLAPS

(* Tokens are never more than the bucket was left with at any request it   *)
(* let through and the clock has refilled since.                           *)
Spent(i) ==
  parts <= Capacity * Token + (lastRefillTime - served[i]) * RatePerMinute
             - (Len(served) - i + 1) * Token

(* Nor fewer than the clock has refilled since a refusal.                  *)
Earned(t) == parts >= (lastRefillTime - t) * RatePerMinute

BucketInv ==
  /\ BucketTypeOK
  /\ parts <= Capacity * Token
  /\ lastRefillTime <= latest
  /\ DebtIsBounded
  /\ LimitHolds
  /\ \A i \in DOMAIN served : Spent(i)
  /\ \A t \in refusedAt : Earned(t)

(* A stretch of time is refilled for at once or in parts.                  *)
LEMMA RefillAdds ==
  ASSUME NEW s \in Int, NEW t \in Int, NEW u \in Int
  PROVE  (u - t) * RatePerMinute + (t - s) * RatePerMinute = (u - s) * RatePerMinute
<1>1. RatePerMinute \in Int
  BY BucketAssumption
<1> QED
  BY <1>1

LEMMA ClockReadings ==
  ASSUME BucketInv
  PROVE  /\ Clock \subseteq Nat /\ 0 \in Clock
         /\ RatePerMinute \in Nat /\ RatePerMinute > 0
         /\ Capacity * Token \in Nat /\ Capacity * Token >= Token
         /\ parts \in Int /\ lastRefillTime \in Clock /\ latest \in Clock
         /\ served \in Seq(Clock) /\ refusedAt \subseteq Clock
<1> QED
  BY BucketAssumption DEF BucketInv, BucketTypeOK, Token

LEMMA ClockIsInt == \A c \in Clock : c \in Int
<1> QED
  BY BucketAssumption

LEMMA RefillType ==
  ASSUME NEW s \in Int, NEW t \in Int
  PROVE  /\ (t - s) * RatePerMinute \in Int
         /\ s <= t => (t - s) * RatePerMinute >= 0
<1>1. RatePerMinute \in Nat /\ t - s \in Int
  BY BucketAssumption
<1>2. s <= t => t - s >= 0
  OBVIOUS
<1> QED
  BY <1>1, <1>2

(* What n requests and one more cost.                                      *)
LEMMA OneMoreCosts ==
  ASSUME NEW n \in Int, NEW i \in Int
  PROVE  /\ (n - i + 1) * Token \in Int
         /\ (n + 1 - i + 1) * Token = (n - i + 1) * Token + Token
<1> QED
  BY DEF Token

LEMMA RefilledType ==
  ASSUME BucketInv, NEW now \in Clock
  PROVE  /\ Refilled(now) \in Int
         /\ Refilled(now) <= Capacity * Token
         /\ Refilled(now) <= parts + (now - lastRefillTime) * RatePerMinute
         /\ \/ Refilled(now) = parts + (now - lastRefillTime) * RatePerMinute
            \/ Refilled(now) = Capacity * Token
<1>1. /\ now \in Int /\ lastRefillTime \in Int /\ parts \in Int
      /\ RatePerMinute \in Int /\ Capacity * Token \in Int
  BY BucketAssumption DEF BucketInv, BucketTypeOK, Token
<1>2. (now - lastRefillTime) * RatePerMinute \in Int
  BY <1>1
<1> QED
  BY <1>1, <1>2 DEF Refilled

(* What every request does to the clock's side of the state.               *)
LEMMA ClockStep ==
  ASSUME BucketInv, NEW now \in Clock, Consume(now)
  PROVE  /\ lastRefillTime' = now
         /\ latest' \in Clock
         /\ now <= latest' /\ latest <= latest'
<1> QED
  BY BucketAssumption DEF BucketInv, BucketTypeOK, Consume

(* What is left after a refill covers the debt to the latest reading.      *)
LEMMA DebtAfterRefill ==
  ASSUME BucketInv, NEW now \in Clock, NEW late \in Clock, now <= late, latest <= late
  PROVE  Refilled(now) + (late - now) * RatePerMinute >= 0
<1>1. /\ now \in Nat /\ lastRefillTime \in Nat /\ latest \in Nat /\ late \in Nat /\ parts \in Int
      /\ RatePerMinute \in Nat /\ Capacity * Token \in Nat
  BY BucketAssumption DEF BucketInv, BucketTypeOK, Token
<1>2. /\ Refilled(now) \in Int
      /\ (late - now) * RatePerMinute \in Nat
      /\ (late - latest) * RatePerMinute \in Nat
      /\ (latest - lastRefillTime) * RatePerMinute \in Int
      /\ (now - lastRefillTime) * RatePerMinute \in Int
  BY <1>1, RefilledType
<1>3. parts + (latest - lastRefillTime) * RatePerMinute >= 0
  BY DEF BucketInv, DebtIsBounded
<1>4. (late - now) * RatePerMinute + (now - lastRefillTime) * RatePerMinute
        = (late - lastRefillTime) * RatePerMinute
  BY <1>1, RefillAdds
<1>5. (late - latest) * RatePerMinute + (latest - lastRefillTime) * RatePerMinute
        = (late - lastRefillTime) * RatePerMinute
  BY <1>1, RefillAdds
<1>6. CASE Refilled(now) = Capacity * Token
  BY <1>1, <1>2, <1>6
<1>7. CASE Refilled(now) = parts + (now - lastRefillTime) * RatePerMinute
  BY <1>1, <1>2, <1>3, <1>4, <1>5, <1>7
<1> QED
  BY <1>6, <1>7, RefilledType

(* Before a request is let through, the bucket holds no more than what the *)
(* earlier ones have left and the clock has refilled.                      *)
LEMMA SpentAfterRefill ==
  ASSUME BucketInv, NEW now \in Clock, NEW i \in DOMAIN served
  PROVE  Refilled(now) <= Capacity * Token + (now - served[i]) * RatePerMinute
                            - (Len(served) - i + 1) * Token
<1>1. /\ now \in Int /\ lastRefillTime \in Int /\ parts \in Int /\ Capacity * Token \in Int
  BY ClockReadings
<1>2. served[i] \in Int /\ Len(served) \in Int /\ i \in Int
  BY ClockReadings
<1> DEFINE gone == (now - lastRefillTime) * RatePerMinute
           past == (lastRefillTime - served[i]) * RatePerMinute
           cost == (Len(served) - i + 1) * Token
<1>3. gone \in Int /\ past \in Int
  BY <1>1, <1>2, RefillType
<1>8. cost \in Int
  BY <1>2, OneMoreCosts
<1>4. Refilled(now) \in Int /\ Refilled(now) <= parts + gone
  BY RefilledType
<1>5. gone + past = (now - served[i]) * RatePerMinute
  BY <1>1, <1>2, RefillAdds
<1>6. parts <= Capacity * Token + past - cost
  BY DEF BucketInv, Spent
<1> HIDE DEF gone, past, cost
<1>7. Refilled(now) <= Capacity * Token + (gone + past) - cost
  BY <1>1, <1>3, <1>8, <1>4, <1>6
<1> QED
  BY <1>5, <1>7 DEF cost

(* A refusal is followed by nothing but refills, until a request is let    *)
(* through.                                                                *)
LEMMA EarnedAfterRefill ==
  ASSUME BucketInv, NEW now \in Clock, NEW t \in refusedAt, Refilled(now) < Token
  PROVE  Refilled(now) >= (now - t) * RatePerMinute
<1>1. /\ now \in Nat /\ lastRefillTime \in Nat /\ parts \in Int /\ t \in Nat
      /\ RatePerMinute \in Nat /\ Capacity * Token >= Token /\ Capacity * Token \in Int
  BY BucketAssumption DEF BucketInv, BucketTypeOK, Token
<1>2. Refilled(now) = parts + (now - lastRefillTime) * RatePerMinute
  BY <1>1, RefilledType DEF Token
<1>3. (now - lastRefillTime) * RatePerMinute + (lastRefillTime - t) * RatePerMinute
        = (now - t) * RatePerMinute
  BY <1>1, RefillAdds
<1>4. Earned(t)
  BY DEF BucketInv
<1>5. /\ (now - lastRefillTime) * RatePerMinute \in Int
      /\ (lastRefillTime - t) * RatePerMinute \in Int
  BY <1>1
<1> QED
  BY <1>1, <1>2, <1>3, <1>4, <1>5 DEF Earned

(***************************************************************************)
(* A request that is let through, and one that is not.                     *)
(***************************************************************************)
LEMMA ServedStep ==
  ASSUME BucketInv, NEW now \in Clock, Consume(now), Refilled(now) >= Token
  PROVE  BucketInv'
<1> DEFINE n == Len(served)
<1>0. Capacity * Token \in Int
  BY ClockReadings
<1>1. /\ now \in Nat /\ now \in Clock
      /\ Clock \subseteq Nat /\ served \in Seq(Clock) /\ n \in Nat
  BY BucketAssumption DEF BucketInv, BucketTypeOK, Token
<1>2. /\ parts' = Refilled(now) - Token
      /\ served' = Append(served, now)
      /\ refusedAt' = {}
      /\ Refilled(now) \in Int /\ Refilled(now) <= Capacity * Token
  BY RefilledType DEF Consume
<1>3. /\ lastRefillTime' = now /\ latest' \in Clock /\ now <= latest' /\ latest <= latest'
  BY ClockStep
<1>4. /\ Len(served') = n + 1
      /\ \A i \in 1..n : served'[i] = served[i]
      /\ served'[n + 1] = now
      /\ DOMAIN served' = 1..(n + 1) /\ DOMAIN served = 1..n
  BY <1>1, <1>2
<1>5. BucketTypeOK'
  BY <1>1, <1>2, <1>3 DEF BucketTypeOK, Token
<1>6. parts' <= (Capacity * Token)' /\ (lastRefillTime <= latest)'
  BY <1>0, <1>1, <1>2, <1>3 DEF Token
<1>7. DebtIsBounded'
  <2>1. latest' \in Int /\ now \in Int
    BY <1>1, <1>3
  <2>2. (latest' - now) * RatePerMinute \in Int /\ (latest' - now) * RatePerMinute >= 0
    BY <2>1, <1>3, RefillType
  <2>3. Refilled(now) - Token >= 0
    BY <1>2 DEF Token
  <2> QED
    BY <2>2, <2>3, <1>2, <1>3 DEF DebtIsBounded, Token
<1>8. ASSUME NEW i \in DOMAIN served'
      PROVE  Spent(i)'
  <2>1. CASE i = n + 1
    <3>1. (now - now) * RatePerMinute = 0 /\ n \in Int
      BY <1>1, ClockReadings
    <3>2. /\ parts' <= Capacity * Token - Token
          /\ (n + 1 - i + 1) * Token = Token
      BY <2>1, <3>1, <1>0, <1>2 DEF Token
    <3>3. parts' \in Int
      BY <1>2 DEF Token
    <3> QED
      BY <2>1, <3>1, <3>2, <3>3, <1>0, <1>3, <1>4 DEF Spent, Token
  <2>2. CASE i \in 1..n
    <3>1. Refilled(now) <= Capacity * Token + (now - served[i]) * RatePerMinute
                             - (n - i + 1) * Token
      BY <2>2, <1>4, SpentAfterRefill
    <3> DEFINE since == (now - served[i]) * RatePerMinute
               cost  == (n - i + 1) * Token
    <3>2. served[i] \in Clock /\ served'[i] = served[i]
      BY <2>2, <1>1, <1>4
    <3>7. served[i] \in Int /\ now \in Int
      BY <3>2, ClockIsInt, Zenon
    <3>8. i \in Int /\ n \in Int
      BY <2>2, <1>1
    <3>3. since \in Int
      BY <3>7, RefillType
    <3>4. cost \in Int /\ (n + 1 - i + 1) * Token = cost + Token
      BY <3>8, OneMoreCosts
    <3> HIDE DEF since, cost
    <3>9. Refilled(now) <= Capacity * Token + since - cost
      BY <3>1 DEF since, cost
    <3>5. Refilled(now) - Token <= Capacity * Token + since - (cost + Token)
      BY <3>9, <3>3, <3>4, <1>0, <1>2 DEF Token
    <3>6. parts' <= Capacity * Token + since - (n + 1 - i + 1) * Token
      BY <3>4, <3>5, <1>2
    <3> QED
      BY <3>2, <3>6, <1>3, <1>4 DEF Spent, since, Token
  <2> QED
    BY <2>1, <2>2, <1>1, <1>4
<1>9. LimitHolds'
  <2> SUFFICES ASSUME NEW i \in DOMAIN served', NEW j \in DOMAIN served', i <= j
               PROVE  (j - i + 1) * Token
                        <= Capacity * Token + (served'[j] - served'[i]) * RatePerMinute
    BY DEF LimitHolds, Token
  <2>1. CASE j \in 1..n
    <3>1. i \in 1..n /\ served'[i] = served[i] /\ served'[j] = served[j]
      BY <2>1, <1>1, <1>4
    <3> QED
      BY <3>1, <2>1, <1>4 DEF BucketInv, LimitHolds
  <2>2. CASE j = n + 1
    <3>1. served'[j] = now /\ parts' >= 0 /\ parts' \in Int
      BY <2>2, <1>1, <1>2, <1>4 DEF Token
    <3>2. served'[i] \in Clock
      BY <1>5 DEF BucketTypeOK
    <3> DEFINE since == (now - served'[i]) * RatePerMinute
               cost  == (j - i + 1) * Token
    <3>3. served'[i] \in Int /\ now \in Int
      BY <3>2, ClockIsInt, Zenon
    <3>7. i \in Int /\ j \in Int
      BY <1>1, <1>4
    <3>4. since \in Int /\ cost \in Int
      BY <3>3, <3>7, RefillType, OneMoreCosts
    <3>5. parts' <= Capacity * Token + since - cost
      BY <2>2, <1>3, <1>4, <1>8 DEF Spent, Token
    <3> HIDE DEF since, cost
    <3>6. cost <= Capacity * Token + since
      BY <3>1, <3>4, <3>5, <1>0
    <3> QED
      BY <3>1, <3>6 DEF since, cost
  <2> QED
    BY <2>1, <2>2, <1>1, <1>4
<1> QED
  BY <1>2, <1>5, <1>6, <1>7, <1>8, <1>9 DEF BucketInv

LEMMA RefusedStep ==
  ASSUME BucketInv, NEW now \in Clock, Consume(now), Refilled(now) < Token
  PROVE  BucketInv'
<1>1. /\ now \in Nat /\ RatePerMinute \in Nat /\ Capacity * Token \in Int
      /\ Clock \subseteq Nat /\ served \in Seq(Clock) /\ refusedAt \subseteq Clock
  BY BucketAssumption DEF BucketInv, BucketTypeOK, Token
<1>2. /\ parts' = Refilled(now)
      /\ served' = served
      /\ refusedAt' = refusedAt \cup ({now} \cap {latest'})
      /\ Refilled(now) \in Int /\ Refilled(now) <= Capacity * Token
  BY RefilledType DEF Consume, Token
<1>3. /\ lastRefillTime' = now /\ latest' \in Clock /\ now <= latest' /\ latest <= latest'
  BY ClockStep
<1>4. BucketTypeOK'
  BY <1>1, <1>2, <1>3 DEF BucketTypeOK
<1>5. parts' <= (Capacity * Token)' /\ (lastRefillTime <= latest)'
  BY <1>1, <1>2, <1>3 DEF Token
<1>6. Refilled(now) + (latest' - now) * RatePerMinute >= 0
  BY <1>3, DebtAfterRefill
<1>7. DebtIsBounded'
  BY <1>2, <1>3, <1>6 DEF DebtIsBounded
<1>8. LimitHolds'
  BY <1>2 DEF BucketInv, LimitHolds, Token
<1>9. \A i \in DOMAIN served' : Spent(i)'
  BY <1>2, <1>3, SpentAfterRefill DEF Spent, Token
<1>10. ASSUME NEW t \in refusedAt'
       PROVE  Earned(t)'
  <2>1. CASE t \in refusedAt
    BY <2>1, <1>2, <1>3, EarnedAfterRefill DEF Earned
  <2>2. CASE t = now /\ latest' = now
    BY <2>2, <1>1, <1>2, <1>3, <1>6 DEF Earned
  <2> QED
    BY <2>1, <2>2, <1>2
<1> QED
  BY <1>4, <1>5, <1>7, <1>8, <1>9, <1>10 DEF BucketInv

LEMMA BucketInvStep ==
  ASSUME BucketInv, [BucketNext]_bucketVars
  PROVE  BucketInv'
<1>1. CASE UNCHANGED bucketVars
  BY <1>1 DEF bucketVars, BucketInv, BucketTypeOK, DebtIsBounded, LimitHolds, Spent, Earned, Token
<1>2. ASSUME NEW now \in Clock, Consume(now)
      PROVE  BucketInv'
  <2>1. Refilled(now) \in Int
    BY RefilledType
  <2>2. Refilled(now) >= Token \/ Refilled(now) < Token
    BY <2>1 DEF Token
  <2> QED
    BY <2>2, <1>2, ServedStep, RefusedStep
<1> QED
  BY <1>1, <1>2 DEF BucketNext

LEMMA BucketInvInit == BucketInit => BucketInv
<1> SUFFICES ASSUME BucketInit PROVE BucketInv
  OBVIOUS
<1>1. /\ Capacity * Token \in Nat /\ 0 \in Clock /\ RatePerMinute \in Nat
  BY BucketAssumption DEF Token
<1>2. DOMAIN served = {} /\ (latest - lastRefillTime) * RatePerMinute = 0
  BY <1>1 DEF BucketInit
<1> QED
  BY <1>1, <1>2
  DEF BucketInit, BucketInv, BucketTypeOK, DebtIsBounded, LimitHolds, Spent, Earned

LEMMA BucketInvHolds == BucketSpec => []BucketInv
<1> QED
  BY BucketInvInit, BucketInvStep, PTL DEF BucketSpec

(* Between two requests that were let through, no more were than the       *)
(* capacity and the refill allow, for any rate and any clock.              *)
THEOREM LimitAlwaysHolds == BucketSpec => []LimitHolds
<1>1. BucketInv => LimitHolds
  BY DEF BucketInv
<1> QED
  BY <1>1, BucketInvHolds, PTL

(* A clock that is set back costs no more tokens than it gives back.       *)
THEOREM DebtStaysBounded == BucketSpec => []DebtIsBounded
<1>1. BucketInv => DebtIsBounded
  BY DEF BucketInv
<1> QED
  BY <1>1, BucketInvHolds, PTL

(* The Retry-After seconds are enough for one token.                       *)
LEMMA RetryAfterEarnsToken == RetryAfter * RatePerMinute >= Token /\ RetryAfter \in Nat
<1> DEFINE q == (60 + RatePerMinute - 1) \div RatePerMinute
<1>1. RatePerMinute \in Nat \ {0}
  BY BucketAssumption
<1>2. q \in Nat /\ q * RatePerMinute >= 60
  BY <1>1
<1>3. (q * 1000) * RatePerMinute = (q * RatePerMinute) * 1000
  BY <1>1, <1>2
<1> HIDE DEF q
<1>4. q * RatePerMinute \in Nat
  BY <1>1, <1>2
<1>5. RetryAfter = q * 1000
  BY DEF RetryAfter, q
<1> QED
  BY <1>2, <1>3, <1>4, <1>5 DEF Token

(* Whoever was turned away and waits for the Retry-After seconds is served *)
(* next, if nobody else was meanwhile.                                     *)
THEOREM RetryAfterAlwaysSuffices == BucketSpec => RetryAfterSuffices
<1>1. ASSUME BucketInv, [BucketNext]_bucketVars
      PROVE  [\A t \in refusedAt : lastRefillTime' >= t + RetryAfter => served' # served]_bucketVars
  <2> SUFFICES ASSUME NEW now \in Clock, Consume(now),
                      NEW t \in refusedAt, now >= t + RetryAfter
               PROVE  served' # served
    BY <1>1, ClockStep DEF BucketNext
  <2>1. Refilled(now) < Token => Refilled(now) >= (now - t) * RatePerMinute
    BY <1>1, EarnedAfterRefill
  <2>2. /\ now \in Nat /\ t \in Nat /\ RatePerMinute \in Nat /\ served \in Seq(Clock)
    BY <1>1, BucketAssumption DEF BucketInv, BucketTypeOK
  <2>3. /\ (now - t) * RatePerMinute \in Nat
        /\ (now - t) * RatePerMinute >= RetryAfter * RatePerMinute
    <3>1. now - t \in Nat /\ now - t >= RetryAfter
      BY <2>2, RetryAfterEarnsToken
    <3>2. (now - t - RetryAfter) * RatePerMinute \in Nat
      BY <3>1, <2>2, RetryAfterEarnsToken
    <3>3. (now - t) * RatePerMinute
            = (now - t - RetryAfter) * RatePerMinute + RetryAfter * RatePerMinute
      BY <2>2, RetryAfterEarnsToken
    <3>4. RetryAfter * RatePerMinute \in Nat
      BY <2>2, RetryAfterEarnsToken
    <3> QED
      BY <3>2, <3>3, <3>4
  <2>4. Refilled(now) >= Token
    <3>1. Refilled(now) \in Int /\ RetryAfter * RatePerMinute \in Int
      BY <1>1, <2>2, RefilledType, RetryAfterEarnsToken
    <3> QED
      BY <3>1, <2>1, <2>3, RetryAfterEarnsToken DEF Token
  <2>5. served' = Append(served, now)
    BY <2>4 DEF Consume
  <2> QED
    BY <2>2, <2>5
<1> QED
  BY <1>1, BucketInvHolds, PTL DEF RetryAfterSuffices, BucketSpec
=============================================================================
