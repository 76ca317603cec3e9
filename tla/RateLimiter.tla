---------------------------- MODULE RateLimiter ----------------------------
(***************************************************************************)
(* A token bucket in use: requests acquire at any moment, as often as they *)
(* like, and are admitted or rejected (reliability.py, TokenBucket).  An   *)
(* observer, which the code does not have, begins a window of time at any  *)
(* moment and counts what is admitted in it.                               *)
(***************************************************************************)
EXTENDS TokenBucket

CONSTANT MaxTime    \* bound: the last tick

ASSUME TimeAssumption == MaxTime \in Nat

VARIABLES
  now,
  bucket,
  since,      \* history: when the observed window began
  granted     \* history: requests admitted in it

vars == <<now, bucket, since, granted>>

Init ==
  /\ now = 0
  /\ bucket = InitBucket(now)
  /\ since = now
  /\ granted = 0

Acquire ==
  /\ HasToken(bucket, now)
  /\ bucket' = Taken(bucket, now)
  /\ granted' = granted + 1
  /\ UNCHANGED <<now, since>>

Reject ==
  /\ ~HasToken(bucket, now)
  /\ bucket' = Refilled(bucket, now)
  /\ UNCHANGED <<now, since, granted>>

OpenWindow ==
  /\ since' = now
  /\ granted' = 0
  /\ UNCHANGED <<now, bucket>>

Tick ==
  /\ now < MaxTime
  /\ now' = now + 1
  /\ UNCHANGED <<bucket, since, granted>>

Next == Acquire \/ Reject \/ OpenWindow \/ Tick

Spec == Init /\ [][Next]_vars
-----------------------------------------------------------------------------
TypeOK ==
  /\ now \in Nat
  /\ bucket \in Bucket
  /\ since \in Nat
  /\ granted \in Nat

\* A caller that was refused and keeps asking is served once one token's worth
\* of time has passed: being refused moves updated_at on, but the part of a
\* token earned until then is kept, so impatience does not starve anybody.
NoStarvation ==
  granted = 0 /\ Rate * (now - since) >= TokenUnit => HasToken(bucket, now)

\* The bucket keeps the promise of RateEnvelope in every window.
Envelope == INSTANCE RateEnvelope

KeepsEnvelope == Envelope!Spec
=============================================================================
