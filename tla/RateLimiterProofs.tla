-------------------------- MODULE RateLimiterProofs --------------------------
(***************************************************************************)
(* The token bucket keeps the promise of RateEnvelope, for every rate,     *)
(* capacity and window.                                                    *)
(***************************************************************************)
EXTENDS RateLimiter, TokenBucketProofs

(***************************************************************************)
(* What has been admitted in the window and what is left in the bucket are *)
(* paid for together, and a window nobody was admitted in has earned what  *)
(* its time is worth.                                                      *)
(***************************************************************************)
Paid ==
  granted > 0 =>
    /\ since <= bucket.updatedAt
    /\ TokenUnit * granted + bucket.tokens
         <= Capacity + Worth(since, bucket.updatedAt)

Earned ==
  granted = 0 /\ since <= bucket.updatedAt =>
    bucket.tokens >= Smaller(Capacity, Worth(since, bucket.updatedAt))

LimiterInv ==
  /\ TypeOK
  /\ since <= now
  /\ bucket.updatedAt <= now
  /\ Paid
  /\ Earned

LEMMA LimiterInit == Init => LimiterInv
PROOF
<1> SUFFICES ASSUME Init PROVE LimiterInv
  OBVIOUS
<1>1. TypeOK
  BY BucketAssumption DEF Init, TypeOK, InitBucket, Bucket
<1>2. bucket.tokens = Capacity /\ bucket.updatedAt = 0
  BY DEF Init, InitBucket
<1>3. Worth(since, bucket.updatedAt) = 0
  BY <1>2, WorthNat DEF Init
<1> QED BY <1>1, <1>2, <1>3, BucketAssumption
        DEF Init, LimiterInv, Paid, Earned, Smaller

\* What acquire makes of the bucket, before it hands a token out, still pays
\* for the window and has still earned its time.
LEMMA RefillKeeps ==
  ASSUME LimiterInv
  PROVE  LET r == Refilled(bucket, now)
         IN  /\ r.tokens \in 0 .. Capacity
             /\ TokenUnit * granted + r.tokens <= Capacity + Worth(since, now)
             /\ granted = 0 => r.tokens >= Smaller(Capacity, Worth(since, now))
PROOF
<1> DEFINE r == Refilled(bucket, now)
           u == bucket.updatedAt
<1>1. /\ now \in Nat /\ since \in Nat /\ granted \in Nat /\ bucket \in Bucket
      /\ u \in Nat /\ u <= now /\ since <= now
      /\ bucket.tokens \in Nat
  BY BucketAssumption DEF LimiterInv, TypeOK, Bucket
<1>2. r \in Bucket /\ r.tokens \in 0 .. Capacity
  BY <1>1, BucketOperators DEF Bucket
<1>3. r.tokens <= bucket.tokens + Worth(u, now)
      /\ r.tokens \in {bucket.tokens + Worth(u, now), Capacity}
  BY <1>1, RefillWorth DEF Worth
<1>4. Worth(since, now) \in Nat /\ Worth(u, now) \in Nat
  BY <1>1, WorthNat
<1>5. TokenUnit * granted \in Nat
  BY <1>1, BucketAssumption
<1> HIDE DEF r, u
<1>6. TokenUnit * granted + r.tokens <= Capacity + Worth(since, now)
  <2>1. CASE granted = 0
    <3>1. TokenUnit * granted = 0
      BY <2>1, BucketAssumption
    <3> QED BY <1>2, <1>4, <3>1, BucketAssumption
  <2>2. CASE granted > 0
    <3>1. since <= u
          /\ TokenUnit * granted + bucket.tokens <= Capacity + Worth(since, u)
      BY <2>2 DEF LimiterInv, Paid, u
    <3>2. Worth(since, now) = Worth(since, u) + Worth(u, now)
          /\ Worth(since, u) \in Nat
      BY <1>1, <3>1, WorthAdds, WorthNat
    <3> QED BY <1>1, <1>2, <1>3, <1>4, <1>5, <3>1, <3>2, BucketAssumption
  <2> QED BY <1>1, <2>1, <2>2
<1>7. granted = 0 => r.tokens >= Smaller(Capacity, Worth(since, now))
  <2> SUFFICES ASSUME granted = 0, r.tokens # Capacity
               PROVE  r.tokens >= Worth(since, now)
    BY <1>2, <1>4, BucketAssumption DEF Smaller
  <2>1. r.tokens = bucket.tokens + Worth(u, now)
    BY <1>3
  <2>2. CASE since <= u
    <3>1. bucket.tokens >= Smaller(Capacity, Worth(since, u))
      BY <2>2 DEF LimiterInv, Earned, u
    <3>2. Worth(since, now) = Worth(since, u) + Worth(u, now)
          /\ Worth(since, u) \in Nat
      BY <1>1, <2>2, WorthAdds, WorthNat
    <3> QED BY <1>1, <1>2, <1>4, <2>1, <3>1, <3>2, BucketAssumption DEF Smaller
  <2>3. CASE u < since
    <3>1. Worth(u, now) = Worth(u, since) + Worth(since, now)
          /\ Worth(u, since) \in Nat
      BY <1>1, <2>3, WorthAdds, WorthNat
    <3> QED BY <1>1, <1>4, <2>1, <3>1
  <2> QED BY <1>1, <2>2, <2>3
<1> QED BY <1>2, <1>6, <1>7 DEF r

LEMMA LimiterStep == LimiterInv /\ [Next]_vars => LimiterInv'
PROOF
<1> SUFFICES ASSUME LimiterInv, [Next]_vars PROVE LimiterInv'
  OBVIOUS
<1> DEFINE r == Refilled(bucket, now)
<1>1. /\ now \in Nat /\ since \in Nat /\ granted \in Nat /\ bucket \in Bucket
      /\ since <= now
  BY DEF LimiterInv, TypeOK
<1>2. r \in Bucket /\ r.updatedAt = now
  BY <1>1, BucketOperators
<1>3. /\ r.tokens \in 0 .. Capacity
      /\ TokenUnit * granted + r.tokens <= Capacity + Worth(since, now)
      /\ granted = 0 => r.tokens >= Smaller(Capacity, Worth(since, now))
  BY RefillKeeps
<1>4. ASSUME Acquire
      PROVE  LimiterInv'
  <2>1. bucket' \in Bucket /\ bucket'.updatedAt = now
        /\ bucket'.tokens = r.tokens - TokenUnit
    BY <1>1, <1>2, <1>4, BucketOperators DEF Acquire, Taken, Bucket
  <2>2. TokenUnit * (granted + 1) = TokenUnit * granted + TokenUnit
        /\ TokenUnit * granted \in Nat
    BY <1>1, BucketAssumption
  <2>3. Worth(since, now) \in Nat
    BY <1>1, WorthNat
  <2>4. TokenUnit * granted' + bucket'.tokens <= Capacity + Worth(since, now)
    <3> HIDE DEF r
    <3> QED BY <1>3, <1>4, <2>1, <2>2, <2>3, BucketAssumption DEF Acquire
  <2> QED BY <1>1, <1>4, <2>1, <2>4
          DEF Acquire, LimiterInv, TypeOK, Paid, Earned
<1>5. ASSUME Reject
      PROVE  LimiterInv'
  BY <1>1, <1>2, <1>3, <1>5 DEF Reject, LimiterInv, TypeOK, Paid, Earned
<1>6. ASSUME OpenWindow
      PROVE  LimiterInv'
  <2>1. since' = now /\ granted' = 0 /\ UNCHANGED <<now, bucket>>
    BY <1>6 DEF OpenWindow
  <2>2. now <= bucket.updatedAt => Worth(now, bucket.updatedAt) = 0
    BY <1>1, WorthNat DEF LimiterInv, Bucket
  <2>3. bucket.tokens \in 0 .. Capacity /\ 0 <= bucket.tokens
    BY <1>1, BucketAssumption DEF Bucket
  <2> QED BY <1>1, <2>1, <2>2, <2>3, BucketAssumption
          DEF LimiterInv, TypeOK, Paid, Earned, Smaller
<1>7. ASSUME Tick \/ UNCHANGED vars
      PROVE  LimiterInv'
  BY <1>1, <1>7 DEF Tick, vars, LimiterInv, TypeOK, Paid, Earned, Bucket
<1> QED BY <1>4, <1>5, <1>6, <1>7 DEF Next

LEMMA LimiterInvariant == Spec => []LimiterInv
PROOF BY LimiterInit, LimiterStep, PTL DEF Spec

\* The bucket never holds less than nothing nor more than its capacity.
THEOREM BucketTypeCorrect == Spec => []TypeOK
PROOF BY LimiterInvariant, PTL DEF LimiterInv

\* In every window of time the bucket admits no more than the burst capacity
\* and the refill of the window pay for: TokenBucket implements RateEnvelope.
THEOREM BucketKeepsEnvelope == Spec => KeepsEnvelope
PROOF
<1>1. Init => Envelope!Init
  BY DEF Init, Envelope!Init
<1>2. LimiterInv /\ [Next]_vars => [Envelope!Next]_Envelope!envelope
  <2> SUFFICES ASSUME LimiterInv, [Next]_vars
               PROVE  Envelope!Next \/ UNCHANGED Envelope!envelope
    OBVIOUS
  <2>1. ASSUME Acquire
        PROVE  Envelope!Grant
    <3> DEFINE r == Refilled(bucket, now)
    <3>1. /\ r.tokens \in 0 .. Capacity /\ r.tokens >= TokenUnit
          /\ TokenUnit * granted + r.tokens <= Capacity + Worth(since, now)
      BY <2>1, RefillKeeps DEF Acquire, HasToken
    <3>2. TokenUnit * (granted + 1) = TokenUnit * granted + TokenUnit
          /\ TokenUnit * granted \in Nat
      BY BucketAssumption DEF LimiterInv, TypeOK
    <3>3. Worth(since, now) \in Nat
      BY WorthNat DEF LimiterInv, TypeOK
    <3>4. TokenUnit * (granted + 1) <= Capacity + Worth(since, now)
      <4> HIDE DEF r
      <4> QED BY <3>1, <3>2, <3>3, BucketAssumption
    <3> QED BY <2>1, <3>4 DEF Acquire, Envelope!Grant, Worth
  <2>2. ASSUME Reject \/ UNCHANGED vars
        PROVE  UNCHANGED Envelope!envelope
    BY <2>2 DEF Reject, vars, Envelope!envelope
  <2>3. ASSUME OpenWindow
        PROVE  Envelope!OpenWindow
    BY <2>3 DEF OpenWindow, Envelope!OpenWindow
  <2>4. ASSUME Tick
        PROVE  Envelope!Tick
    BY <2>4 DEF Tick, Envelope!Tick
  <2> QED BY <2>1, <2>2, <2>3, <2>4 DEF Next, Envelope!Next
<1> QED BY <1>1, <1>2, LimiterInvariant, PTL
        DEF Spec, KeepsEnvelope, Envelope!Spec

\* When the full bucket holds a token at all, a window without an admission
\* that is long enough to earn one finds one, however often the bucket was
\* asked in vain.
THEOREM RetryIsServed ==
  ASSUME Capacity >= TokenUnit
  PROVE  Spec => []NoStarvation
PROOF
<1>1. LimiterInv => NoStarvation
  <2> SUFFICES ASSUME LimiterInv, granted = 0, Worth(since, now) >= TokenUnit
               PROVE  Refilled(bucket, now).tokens >= TokenUnit
    BY DEF NoStarvation, HasToken, Worth
  <2>1. Refilled(bucket, now).tokens >= Smaller(Capacity, Worth(since, now))
        /\ Refilled(bucket, now).tokens \in 0 .. Capacity
    BY RefillKeeps
  <2>2. Worth(since, now) \in Nat
    BY WorthNat DEF LimiterInv, TypeOK
  <2> QED BY <2>1, <2>2, BucketAssumption DEF Smaller
<1> QED BY <1>1, LimiterInvariant, PTL
=============================================================================
