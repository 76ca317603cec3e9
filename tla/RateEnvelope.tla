---------------------------- MODULE RateEnvelope ----------------------------
(***************************************************************************)
(* What a rate limiter promises, without saying how: in a window of time,  *)
(* wherever it begins, no more requests are admitted than the burst        *)
(* capacity and the refill of that window pay for.  A window may be begun  *)
(* at any moment, so what holds of it holds of every window.               *)
(***************************************************************************)
EXTENDS Integers

CONSTANTS
  TokenUnit, Rate, Capacity,    \* as in TokenBucket
  MaxTime                       \* bound: the last tick

VARIABLES
  now,
  since,      \* when the window began
  granted     \* requests admitted in it

envelope == <<now, since, granted>>

Init ==
  /\ now = 0
  /\ since = now
  /\ granted = 0

Grant ==
  /\ TokenUnit * (granted + 1) <= Capacity + Rate * (now - since)
  /\ granted' = granted + 1
  /\ UNCHANGED <<now, since>>

OpenWindow ==
  /\ since' = now
  /\ granted' = 0
  /\ UNCHANGED now

Tick ==
  /\ now < MaxTime
  /\ now' = now + 1
  /\ UNCHANGED <<since, granted>>

Next == Grant \/ OpenWindow \/ Tick

Spec == Init /\ [][Next]_envelope
=============================================================================
