-------------------------- MODULE BedrockProvider --------------------------
(***************************************************************************)
(* The paid provider and its spending guard (providers/bedrock.py,         *)
(* SessionBudget and BedrockProvider.complete).  A request asks the        *)
(* service to count its tokens, reserves the most it can cost, has the     *)
(* service converse, and settles the reservation against the usage the     *)
(* service reports, or releases it when something is wrong.                *)
(*                                                                         *)
(* Both service calls run in threads.  The event loop gives up the request *)
(* only there, so reserving is atomic, and so is everything from the end   *)
(* of a service call on.  The deadline of ProviderRuntime may cancel the   *)
(* request at either place: the coroutine is gone, the thread is not, and  *)
(* the service may still do the work and bill it.  CancelledError is not   *)
(* an Exception, so the except clause around converse does not see it.     *)
(*                                                                         *)
(* The budget lives in the process: a restart begins a new session, which  *)
(* knows nothing of what was spent or is still being answered.             *)
(*                                                                         *)
(* Money is counted in whole units of the smallest price.                  *)
(***************************************************************************)
EXTENDS Integers, FiniteSets

CONSTANTS
  Requests,
  Limit,      \* limit_usd
  Amounts,    \* what a request may cost at most: its reservation
  Overrun,    \* how far a bill may exceed the reservation: 0 when the service
              \* bills the tokens it counted and respects maxTokens
  MaxRestarts \* bound: how often the process is replaced

ASSUME BudgetAssumption ==
  /\ IsFiniteSet(Requests)
  /\ Limit \in Nat
  /\ Amounts \subseteq Nat \ {0}
  /\ Overrun \in Nat
  /\ MaxRestarts \in Nat

VARIABLES
  spent, reserved,    \* the fields of SessionBudget
  phase,              \* where each request is in complete
  hold,               \* its reservation, while it counts in reserved
  served,             \* external: the requests the service has answered
  charge,             \* what it was billed, until settled or given up
  billed,             \* external: the bill of the account
  unrecorded,         \* history: billed, and given up by releasing
  restarts,           \* how often the process has been replaced
  earlier             \* history: what the sessions before this one had spent

budget == <<spent, reserved>>
service == <<served, charge, billed>>
sessions == <<restarts, earlier>>
vars == <<budget, phase, hold, service, unrecorded, sessions>>

Init ==
  /\ spent = 0 /\ reserved = 0
  /\ phase = [r \in Requests |-> "new"]
  /\ hold = [r \in Requests |-> 0]
  /\ served = {}
  /\ charge = [r \in Requests |-> 0]
  /\ billed = 0
  /\ unrecorded = 0
  /\ restarts = 0 /\ earlier = 0

At(r, here, next) ==
  /\ phase[r] = here
  /\ phase' = [phase EXCEPT ![r] = next]

-----------------------------------------------------------------------------
(* complete, up to the reservation                                         *)

CountTokens(r) ==
  /\ At(r, "new", "counting")
  /\ UNCHANGED <<budget, hold, service, unrecorded, sessions>>

\* CountTokens raised or returned no usable number.
CountFails(r) ==
  /\ At(r, "counting", "failed")
  /\ UNCHANGED <<budget, hold, service, unrecorded, sessions>>

\* The reservations of the others are not looked at.
FitsAlone(a) == spent + a <= Limit

Fits(a) == spent + reserved + a <= Limit

Reserve(r, a) ==
  /\ At(r, "counting", "conversing")
  /\ Fits(a)
  /\ reserved' = reserved + a
  /\ hold' = [hold EXCEPT ![r] = a]
  /\ UNCHANGED <<spent, service, unrecorded, sessions>>

Refuse(r, a) ==
  /\ At(r, "counting", "failed")
  /\ ~Fits(a)
  /\ UNCHANGED <<budget, hold, service, unrecorded, sessions>>

-----------------------------------------------------------------------------
(* The service converses, for a request that is waiting, cancelled or lost.*)

Serve(r, cost) ==
  /\ phase[r] \in {"conversing", "cancelled", "lost"}
  /\ hold[r] > 0
  /\ r \notin served
  /\ cost <= hold[r] + Overrun
  /\ served' = served \cup {r}
  /\ charge' = [charge EXCEPT ![r] = cost]
  /\ billed' = billed + cost
  /\ UNCHANGED <<budget, phase, hold, unrecorded, sessions>>

-----------------------------------------------------------------------------
(* complete, from the end of the converse call                             *)

\* The reservation is kept beside the cost it turned into.
SettleTwice(r) ==
  /\ At(r, "conversing", "done")
  /\ r \in served
  /\ spent' = spent + charge[r]
  /\ hold' = [hold EXCEPT ![r] = 0]
  /\ charge' = [charge EXCEPT ![r] = 0]
  /\ UNCHANGED <<reserved, served, billed, unrecorded, sessions>>

Settle(r) ==
  /\ At(r, "conversing", "done")
  /\ r \in served
  /\ reserved' = reserved - hold[r]
  /\ spent' = spent + charge[r]
  /\ hold' = [hold EXCEPT ![r] = 0]
  /\ charge' = [charge EXCEPT ![r] = 0]
  /\ UNCHANGED <<served, billed, unrecorded, sessions>>

Release(r) ==
  /\ reserved' = reserved - hold[r]
  /\ hold' = [hold EXCEPT ![r] = 0]
  /\ unrecorded' = unrecorded + charge[r]
  /\ charge' = [charge EXCEPT ![r] = 0]
  /\ UNCHANGED <<spent, served, billed, sessions>>

\* converse raised: the service refused, or its answer did not arrive.
ConverseFails(r) ==
  /\ At(r, "conversing", "failed")
  /\ Release(r)

\* The answer lacks usage, output, message, content or text.
Discard(r) ==
  /\ r \in served
  /\ At(r, "conversing", "failed")
  /\ Release(r)

\* The reservation of a cancelled request is given back.
CancelReleasing(r) ==
  \/ /\ At(r, "counting", "cancelled")
     /\ UNCHANGED <<budget, hold, service, unrecorded, sessions>>
  \/ /\ At(r, "conversing", "cancelled")
     /\ reserved' = reserved - hold[r]
     /\ UNCHANGED <<spent, hold, service, unrecorded, sessions>>

\* The deadline cuts the request off.
Cancel(r) ==
  /\ \/ At(r, "counting", "cancelled")
     \/ At(r, "conversing", "cancelled")
  /\ UNCHANGED <<budget, hold, service, unrecorded, sessions>>

Handles(r) ==
  \/ CountTokens(r) \/ CountFails(r)
  \/ \E a \in Amounts : Reserve(r, a) \/ Refuse(r, a)
  \/ Settle(r) \/ ConverseFails(r) \/ Discard(r)
  \/ Cancel(r)

\* The process is replaced. Its requests are lost, not what they asked of the
\* service.
Restart ==
  /\ restarts < MaxRestarts
  /\ restarts' = restarts + 1
  /\ spent' = 0 /\ reserved' = 0
  /\ earlier' = earlier + spent
  /\ phase' = [r \in Requests |->
                 IF phase[r] \in {"counting", "conversing", "cancelled"}
                 THEN "lost" ELSE phase[r]]
  /\ UNCHANGED <<hold, service, unrecorded>>

Next ==
  \/ \E r \in Requests :
       \/ Handles(r)
       \/ \E cost \in 0 .. (Limit + Overrun) : Serve(r, cost)
  \/ Restart

Spec == Init /\ [][Next]_vars
-----------------------------------------------------------------------------
Phases == {"new", "counting", "conversing", "done", "failed", "cancelled",
           "lost"}

TypeOK ==
  /\ spent \in Nat /\ reserved \in Nat
  /\ phase \in [Requests -> Phases]
  /\ hold \in [Requests -> Nat]
  /\ served \subseteq Requests
  /\ charge \in [Requests -> Nat]
  /\ billed \in Nat /\ unrecorded \in Nat
  /\ restarts \in Nat /\ earlier \in Nat

(* Sums of a function over the requests, as the size of the set of its     *)
(* units.                                                                  *)
Units(f) == {u \in Requests \X (1 .. (Limit + Overrun)) : u[2] <= f[u[1]]}

\* What this session's requests hold, and what those of earlier sessions did.
Held == [r \in Requests |-> IF phase[r] = "lost" THEN 0 ELSE hold[r]]
HeldBefore == [r \in Requests |-> IF phase[r] = "lost" THEN hold[r] ELSE 0]

\* reserved_usd is the sum of the reservations of the session's requests that
\* are being answered or were cut off while they were: every other way out of
\* complete has taken its own reservation off again, once.
ReservedIsHeld ==
  /\ reserved = Cardinality(Units(Held))
  /\ \A r \in Requests :
       hold[r] > 0 => phase[r] \in {"conversing", "cancelled", "lost"}

\* The service has answered them, and their reservation has not ended.
Outstanding == {r \in served : hold[r] > 0}

\* What the bills of these requests may have been above their reservations.
Excess(S) == Overrun * Cardinality(S)

\* What has been spent and reserved in a session exceeds the limit by no more
\* than the bills of the requests that are over may have exceeded what was
\* reserved for them, so not at all while the service keeps to that: what is
\* reserved for the others is never forgotten.
WithinLimit == spent + reserved <= Limit + Excess(served \ Outstanding)

\* The guard knows of every bill but those whose reservation was released
\* after the service had done the work: what no session has recorded yet is
\* covered by what is reserved, for requests that were cut off too, or was
\* reserved when a restart lost the request.
BillCovered ==
  billed - unrecorded <=
    earlier + spent + reserved + Cardinality(Units(HeldBefore))
      + Excess(Outstanding)

\* The limit is one of a session: over all restarts the account is billed at
\* most once the limit for each, with what the service still does for the
\* requests that a restart has lost, and what its bills are in excess.
BillBySessions == billed - unrecorded <= (restarts + 1) * Limit + Excess(served)

\* When no request is in progress nothing is reserved.
QuietMeansReleased ==
  (\A r \in Requests : phase[r] \notin {"counting", "conversing"})
    => reserved = 0

\* SessionBudget keeps the promise of SpendCeiling.
Ceiling == INSTANCE SpendCeiling WITH exposure <- spent + reserved

KeepsCeiling == Ceiling!Spec
=============================================================================
