-------------------------- MODULE TokenBucketProofs --------------------------
(***************************************************************************)
(* What the operators of the token bucket return, for every rate, capacity *)
(* and moment.                                                             *)
(***************************************************************************)
EXTENDS TokenBucket, TLAPS

\* TokenBucket.acquire leaves a bucket with no more than its capacity and no
\* debt, brought up to the present, whether or not it hands out a token.
LEMMA BucketOperators ==
  ASSUME NEW b \in Bucket, NEW t \in Nat
  PROVE  /\ Refilled(b, t) \in Bucket
         /\ Refilled(b, t).updatedAt = t
         /\ HasToken(b, t) => Taken(b, t) \in Bucket
         /\ Taken(b, t).updatedAt = t
PROOF
<1> DEFINE elapsed == IF t > b.updatedAt THEN t - b.updatedAt ELSE 0
<1>1. elapsed \in Nat
  BY DEF Bucket
<1>2. Rate * elapsed \in Nat
  <2> HIDE DEF elapsed
  <2> QED BY <1>1, BucketAssumption
<1>3. Smaller(Capacity, b.tokens + Rate * elapsed) \in 0 .. Capacity
  <2> HIDE DEF elapsed
  <2> QED BY <1>2, BucketAssumption DEF Smaller, Bucket
<1>4. Refilled(b, t) = [tokens |-> Smaller(Capacity, b.tokens + Rate * elapsed),
                        updatedAt |-> t]
  BY DEF Refilled
<1> HIDE DEF elapsed
<1> QED BY <1>3, <1>4, BucketAssumption DEF Bucket, HasToken, Taken

\* The bucket holds at least one token when full, and earns one in time.
Replenishes(wait) == Rate * wait >= TokenUnit /\ Capacity >= TokenUnit

\* A bucket left alone for as long as a token takes to earn hands one out.
LEMMA BucketReplenishes ==
  ASSUME NEW b \in Bucket, NEW t \in Nat, NEW wait \in Nat,
         Replenishes(wait), b.updatedAt + wait <= t
  PROVE  HasToken(b, t)
PROOF
<1> DEFINE elapsed == t - b.updatedAt
<1>1. elapsed \in Nat /\ elapsed >= wait /\ b.updatedAt \in Nat
  BY DEF Bucket
<1>2. Rate * elapsed >= Rate * wait /\ Rate * elapsed \in Nat /\ Rate * wait \in Nat
  <2> HIDE DEF elapsed
  <2> QED BY <1>1, BucketAssumption
<1>3. Refilled(b, t).tokens = Smaller(Capacity, b.tokens + Rate * elapsed)
  BY <1>1 DEF Refilled
<1>4. b.tokens \in Nat
  BY BucketAssumption DEF Bucket
<1> HIDE DEF elapsed
<1> QED BY <1>2, <1>3, <1>4, BucketAssumption
        DEF HasToken, Smaller, Replenishes

\* A refill is worth the time that has passed at most, and exactly that time
\* unless it fills the bucket.
LEMMA RefillWorth ==
  ASSUME NEW b \in Bucket, NEW t \in Nat, b.updatedAt <= t
  PROVE  LET worth == b.tokens + Rate * (t - b.updatedAt)
         IN  /\ worth \in Nat
             /\ Refilled(b, t).tokens <= worth
             /\ Refilled(b, t).tokens \in {worth, Capacity}
PROOF
<1> DEFINE elapsed == t - b.updatedAt
<1>1. elapsed \in Nat /\ b.tokens \in Nat
  BY BucketAssumption DEF Bucket
<1>2. Rate * elapsed \in Nat
  <2> HIDE DEF elapsed
  <2> QED BY <1>1, BucketAssumption
<1>3. Refilled(b, t).tokens = Smaller(Capacity, b.tokens + Rate * elapsed)
  BY DEF Refilled, Bucket
<1> HIDE DEF elapsed
<1>4. Refilled(b, t).tokens <= b.tokens + Rate * elapsed
      /\ Refilled(b, t).tokens \in {b.tokens + Rate * elapsed, Capacity}
  BY <1>1, <1>2, <1>3, BucketAssumption DEF Smaller
<1> QED BY <1>1, <1>2, <1>4 DEF elapsed

\* What a stretch of time earns.
Worth(s, t) == Rate * (t - s)

LEMMA WorthNat ==
  ASSUME NEW s \in Nat, NEW t \in Nat, s <= t
  PROVE  Worth(s, t) \in Nat /\ (s = t => Worth(s, t) = 0)
PROOF
<1>1. PICK x \in Nat : t - s = x /\ (s = t => x = 0)
  OBVIOUS
<1>2. Rate * x \in Nat /\ Rate * 0 = 0
  BY BucketAssumption
<1> QED BY <1>1, <1>2 DEF Worth

\* The refill of two adjacent stretches of time is that of the whole.
LEMMA WorthAdds ==
  ASSUME NEW s \in Nat, NEW u \in Nat, NEW t \in Nat, s <= u, u <= t
  PROVE  Worth(s, t) = Worth(s, u) + Worth(u, t)
PROOF
<1>1. PICK x \in Nat, y \in Nat : u - s = x /\ t - u = y /\ t - s = x + y
  OBVIOUS
<1>2. Rate * (x + y) = Rate * x + Rate * y
  BY BucketAssumption
<1> QED BY <1>1, <1>2 DEF Worth

\* Handing out a token leaves what was there and earned since, less the token.
LEMMA TakenWorth ==
  ASSUME NEW b \in Bucket, NEW t \in Nat, b.updatedAt <= t
  PROVE  /\ Refilled(b, t).tokens <= b.tokens + Worth(b.updatedAt, t)
         /\ Taken(b, t).tokens = Refilled(b, t).tokens - TokenUnit
         /\ Refilled(b, t).tokens \in 0 .. Capacity
PROOF
<1>1. Refilled(b, t).tokens <= b.tokens + Worth(b.updatedAt, t)
  BY RefillWorth DEF Worth
<1>2. Refilled(b, t) \in Bucket
  BY BucketOperators
<1> QED BY <1>1, <1>2 DEF Taken, Bucket
=============================================================================
