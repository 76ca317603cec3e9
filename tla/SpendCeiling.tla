---------------------------- MODULE SpendCeiling ----------------------------
(***************************************************************************)
(* What a session budget promises: the exposure, which is what has been    *)
(* spent and what may still be spent on work already let through, is       *)
(* within the limit whenever work is let through; nothing else raises it   *)
(* but work that turns out dearer than what was asked for; and spending is *)
(* drawn from it and not taken back before the session ends.               *)
(***************************************************************************)
EXTENDS Integers

CONSTANTS
  Limit,
  Amounts,   \* the sums that may be asked for
  Overrun    \* how much dearer work may be

VARIABLES spent, exposure

ceiling == <<spent, exposure>>

Init == spent = 0 /\ exposure = 0

LetThrough ==
  \E a \in Amounts :
    /\ exposure + a <= Limit
    /\ exposure' = exposure + a
    /\ UNCHANGED spent

\* Work ended: it drew something from the exposure, and gives back the rest.
Conclude ==
  /\ spent' \in spent .. (exposure + Overrun)
  /\ exposure' \in spent' .. (exposure + Overrun)

NewSession == spent' = 0 /\ exposure' = 0

Next == LetThrough \/ Conclude \/ NewSession

Spec == Init /\ [][Next]_ceiling
=============================================================================
