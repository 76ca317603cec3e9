---------------------------- MODULE TokenBucket ----------------------------
(***************************************************************************)
(* The admission rate limiter of a provider (reliability.py, TokenBucket)  *)
(* as operators on a record of its two fields.  The code counts tokens in  *)
(* floats; here a token is worth TokenUnit parts, so that a refill may be  *)
(* worth less than a token, as it is in the code between two close calls.  *)
(***************************************************************************)
EXTENDS Integers

CONSTANTS
  TokenUnit,    \* parts that make one token
  Rate,         \* parts refilled per tick of the clock
  Capacity      \* parts the full bucket holds

ASSUME BucketAssumption ==
  /\ TokenUnit \in Nat \ {0}
  /\ Rate \in Nat \ {0}
  /\ Capacity \in Nat \ {0}

Bucket == [tokens: 0 .. Capacity, updatedAt: Nat]

InitBucket(now) == [tokens |-> Capacity, updatedAt |-> now]

Smaller(x, y) == IF x <= y THEN x ELSE y

\* updated_at is moved on before the elapsed time is taken from it.
RefilledTooLate(b, now) == [b EXCEPT !.updatedAt = now]

\* The part of a token that was earned is rounded away.
RefilledTruncating(b, now) ==
  [tokens    |-> Smaller(Capacity, b.tokens + TokenUnit
                                     * ((Rate * (now - b.updatedAt)) \div TokenUnit)),
   updatedAt |-> now]

\* acquire's first half: the bucket brought up to date, and saved even when
\* the caller is then rejected.
Refilled(b, now) ==
  LET elapsed == IF now > b.updatedAt THEN now - b.updatedAt ELSE 0
  IN  [tokens    |-> Smaller(Capacity, b.tokens + Rate * elapsed),
       updatedAt |-> now]

HasToken(b, now) == Refilled(b, now).tokens >= TokenUnit

\* The time of the last refill is not moved on, so it is counted again.
TakenWithoutTime(b, now) ==
  [Refilled(b, now) EXCEPT !.tokens = @ - TokenUnit, !.updatedAt = b.updatedAt]

Taken(b, now) == [Refilled(b, now) EXCEPT !.tokens = @ - TokenUnit]
=============================================================================
