----------------------------- MODULE TokenBucket -----------------------------
(***************************************************************************)
(* One bucket of a rate limiter (utils/rate-limiter.ts): one per category  *)
(* of events for each socket, one per address for POST /rooms              *)
(* (utils/http-rate-limiter.ts).                                           *)
(*                                                                         *)
(* Date.now() is the wall clock: it is read by every request, and it may   *)
(* be set back or forth between two of them.  Tokens are counted in parts, *)
(* of which a token has as many as a minute has milliseconds, so that a    *)
(* millisecond is worth RatePerMinute parts; the doubles of the code are   *)
(* taken to be exact.                                                      *)
(***************************************************************************)
EXTENDS Integers, Sequences

CONSTANTS
  RatePerMinute, \* 60 * ratePerSecond
  Capacity,      \* tokens of a full bucket
  Clock,         \* readings of the clock, in milliseconds
  MaxRequests    \* bound on the requests served

ASSUME BucketAssumption ==
  /\ RatePerMinute \in Nat \ {0}
  /\ Capacity \in Nat \ {0}
  /\ Clock \subseteq Nat /\ 0 \in Clock
  /\ MaxRequests \in Nat

VARIABLES
  parts,          \* tokens, in parts
  lastRefillTime,
  served,         \* history: when each request was let through
  latest,         \* history: the latest reading of the clock
  refusedAt       \* history: refusals since the last request was let through,
                  \* by a clock that was not set back at the time

bucketVars == <<parts, lastRefillTime, served, latest, refusedAt>>

Token == 60000

BucketTypeOK ==
  /\ parts \in Int
  /\ lastRefillTime \in Clock
  /\ served \in Seq(Clock)
  /\ latest \in Clock
  /\ refusedAt \in SUBSET Clock

BucketInit ==
  /\ parts = Capacity * Token
  /\ lastRefillTime = 0
  /\ served = <<>>
  /\ latest = 0
  /\ refusedAt = {}

(* Mutant: a bucket that overflows.                                        *)
RefilledPastCapacity(now) == parts + (now - lastRefillTime) * RatePerMinute

(* Elapsed time is negative after the clock was set back.                  *)
Refilled(now) ==
  LET grown == parts + (now - lastRefillTime) * RatePerMinute
  IN IF grown < Capacity * Token THEN grown ELSE Capacity * Token

(* Mutant: a request that is turned away pays as well.                     *)
ConsumeRegardless(now) ==
  /\ Len(served) < MaxRequests
  /\ lastRefillTime' = now
  /\ latest' = IF now > latest THEN now ELSE latest
  /\ parts' = Refilled(now) - Token
  /\ IF Refilled(now) >= Token
     THEN served' = Append(served, now) /\ refusedAt' = {}
     ELSE /\ refusedAt' = refusedAt \cup ({now} \cap {latest'})
          /\ UNCHANGED served

Consume(now) ==
  /\ Len(served) < MaxRequests
  /\ lastRefillTime' = now
  /\ latest' = IF now > latest THEN now ELSE latest
  /\ IF Refilled(now) >= Token
     THEN /\ parts' = Refilled(now) - Token
          /\ served' = Append(served, now)
          /\ refusedAt' = {}
     ELSE /\ parts' = Refilled(now)
          /\ refusedAt' = refusedAt \cup ({now} \cap {latest'})
          /\ UNCHANGED served

BucketNext == \E now \in Clock : Consume(now)

BucketSpec == BucketInit /\ [][BucketNext]_bucketVars

(***************************************************************************)
(* What a bucket guarantees.                                               *)
(***************************************************************************)
(* Between any two requests that were let through, no more were than the   *)
(* bucket holds and the clock has refilled since, however often the clock  *)
(* was set back and forth (min(capacity, ...)).                            *)
LimitHolds ==
  \A i, j \in DOMAIN served :
    i <= j =>
      (j - i + 1) * Token <= Capacity * Token + (served[j] - served[i]) * RatePerMinute

(* A clock that is set back costs tokens, below none, but only as many as  *)
(* it gives back on its way to where it was: nobody is shut out for good.  *)
DebtIsBounded == parts + (latest - lastRefillTime) * RatePerMinute >= 0

(* Whoever was turned away and comes back after the Retry-After seconds    *)
(* (ceil(60 / limit)) is served, whatever became of the clock meanwhile,   *)
(* unless it was behind at the refusal or others have used the bucket.     *)
RetryAfter == ((60 + RatePerMinute - 1) \div RatePerMinute) * 1000

RetryAfterSuffices ==
  [][\A t \in refusedAt : lastRefillTime' >= t + RetryAfter => served' # served]_bucketVars
=============================================================================
