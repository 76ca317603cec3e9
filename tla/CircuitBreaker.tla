--------------------------- MODULE CircuitBreaker ---------------------------
(***************************************************************************)
(* The circuit breaker of a provider (reliability.py, CircuitBreaker) as   *)
(* operators on a record of its four fields.  The runtime that owns a      *)
(* breaker applies them: allow_request before a call, record_success or    *)
(* record_failure when the call returns.  The clock is injected in the     *)
(* code too, so it is the argument now here.                               *)
(***************************************************************************)
EXTENDS Integers

CONSTANTS
  FailureThreshold,    \* consecutive failures that open the circuit
  RecoveryTimeout      \* ticks an open circuit rejects for

ASSUME BreakerAssumption ==
  /\ FailureThreshold \in Nat \ {0}
  /\ RecoveryTimeout \in Nat \ {0}

CircuitState == {"closed", "open", "half_open"}

Breaker ==
  [state: CircuitState, failures: Nat, openedAt: Nat, probeInFlight: BOOLEAN]

InitBreaker ==
  [state |-> "closed", failures |-> 0, openedAt |-> 0, probeInFlight |-> FALSE]

-----------------------------------------------------------------------------
(* allow_request: what the lookup makes of the state, whether the caller   *)
(* may go on, and the breaker it leaves when it may.                       *)

RecoveryElapsed(b, now) == now - b.openedAt >= RecoveryTimeout

Looked(b, now) ==
  IF b.state = "open" /\ RecoveryElapsed(b, now)
  THEN [b EXCEPT !.state = "half_open"]
  ELSE b

\* A second caller is let through while the probe is in flight.
AllowsManyProbes(b, now) == Looked(b, now).state # "open"

Allows(b, now) ==
  \/ b.state = "closed"
  \/ Looked(b, now).state = "half_open" /\ ~b.probeInFlight

Allowed(b, now) ==
  IF b.state = "closed" THEN b
  ELSE [Looked(b, now) EXCEPT !.probeInFlight = TRUE]

-----------------------------------------------------------------------------
(* record_success and record_failure. They do not know which call reports. *)

\* The probe flag is forgotten.
SuccessKeepsProbe(b) == [b EXCEPT !.state = "closed", !.failures = 0]

RecordSuccess(b) ==
  [state         |-> "closed",
   failures      |-> 0,
   openedAt      |-> b.openedAt,
   probeInFlight |-> FALSE]

\* The probe flag is forgotten.
FailureKeepsProbe(b, now) ==
  LET opens == b.state = "half_open" \/ b.failures + 1 >= FailureThreshold
  IN  [b EXCEPT !.state    = IF opens THEN "open" ELSE @,
                !.failures = @ + 1,
                !.openedAt = IF opens THEN now ELSE @]

RecordFailure(b, now) ==
  LET opens == b.state = "half_open" \/ b.failures + 1 >= FailureThreshold
  IN  [state         |-> IF opens THEN "open" ELSE b.state,
       failures      |-> b.failures + 1,
       openedAt      |-> IF opens THEN now ELSE b.openedAt,
       probeInFlight |-> FALSE]
=============================================================================
