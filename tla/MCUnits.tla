------------------------------- MODULE MCUnits -------------------------------
(***************************************************************************)
(* The parts that stand alone, one at a time: the book-keeping of one room *)
(* by the RoomManager, a rate limiter's bucket, the client's socket and    *)
(* the comparison of two words of the dictionary.                          *)
(***************************************************************************)
EXTENDS RoomTenancy, TokenBucket, GameSocketClient, WordForms, TLC

CONSTANTS a, b, c, d

VARIABLE unit

unitVars == <<unit, tenancyVars, bucketVars, clientVars, formsVars>>

Guests == {a, b, c, d}
ThreeLetters == {a, b, c}

(* A limit of 7 a minute: a token takes 8571 ms, Retry-After says 9 s.     *)
Readings == {0, 4000, 8571, 8572, 9000, 17000, 18000, 60000}

Init ==
  /\ unit \in {"tenancy", "bucket", "client", "forms"}
  /\ TenancyInit
  /\ BucketInit
  /\ ClientInit
  /\ FormsInit
  /\ unit # "forms" => leftWord = <<>> /\ rightWord = <<>>

Tenancy ==
  unit = "tenancy" /\ TenancyNext /\ UNCHANGED <<unit, bucketVars, clientVars, formsVars>>

Bucket ==
  unit = "bucket" /\ BucketNext /\ UNCHANGED <<unit, tenancyVars, clientVars, formsVars>>

Client ==
  unit = "client" /\ ClientNext /\ UNCHANGED <<unit, tenancyVars, bucketVars, formsVars>>

Forms ==
  unit = "forms" /\ FormsNext /\ UNCHANGED <<unit, tenancyVars, bucketVars, clientVars>>

Next == Tenancy \/ Bucket \/ Client \/ Forms

Spec == Init /\ [][Next]_unitVars /\ TenancyFairness /\ ClientFairness
=============================================================================
