-------------------------- MODULE ProviderRuntime --------------------------
(***************************************************************************)
(* The isolation layer around one inference provider (reliability.py,      *)
(* ProviderRuntime): circuit breaker, token bucket, concurrency bulkhead,  *)
(* deadline and counters, used by concurrent requests of one event loop.   *)
(*                                                                         *)
(* A coroutine gives up the loop only where it really suspends.  None of   *)
(* the locks is ever held across a suspension, and the semaphore is tested *)
(* before it is taken, so invoke runs without interruption from its first  *)
(* line to the provider's own await, and again from there to its end.  The *)
(* two stretches are the two steps of a call: Start (or a rejection), and  *)
(* Succeed or Fail.  In between any number of other calls take theirs.     *)
(***************************************************************************)
EXTENDS CircuitBreaker, TokenBucket, FiniteSets

CONSTANTS
  Calls,             \* the requests that may be inside invoke together
  Timeout,           \* ticks a provider call may last (timeout_seconds)
  MaxConcurrency,    \* permits of the bulkhead
  MaxRequests,       \* bound: provider calls in a behaviour
  LastArrival        \* bound: the last tick at which a request arrives

ASSUME RuntimeAssumption ==
  /\ IsFiniteSet(Calls)
  /\ Timeout \in Nat \ {0}
  /\ MaxConcurrency \in Nat \ {0}
  /\ MaxRequests \in Nat
  /\ LastArrival \in Nat

\* Late enough for the last call to time out and its circuit to recover.
MaxTime == LastArrival + Timeout + RecoveryTimeout

VARIABLES
  now,          \* the monotonic clock
  breaker,
  bucket,
  permits,      \* free permits of the bulkhead semaphore
  call,         \* per request: not in invoke yet, running, or its outcome
  startedAt,    \* when a running call was started, which fixes its deadline
  totals,       \* the counters of the health report
  probes,       \* history: the running calls admitted as recovery probes
  openSince     \* history: when the circuit last became open

vars == <<now, breaker, bucket, permits, call, startedAt, totals, probes,
          openSince>>

Rejections == {"circuit_open", "rate_limited", "overloaded"}
Failures == {"timeout", "failed"}
Outcomes == Rejections \cup Failures \cup {"ok"}

Running == {c \in Calls : call[c] = "running"}

Totals == [requests: Nat, successes: Nat, failures: Nat, latency: Nat]

Init ==
  /\ now = 0
  /\ breaker = InitBreaker
  /\ bucket = InitBucket(now)
  /\ permits = MaxConcurrency
  /\ call = [c \in Calls |-> "new"]
  /\ startedAt = [c \in Calls |-> 0]
  /\ totals = [requests |-> 0, successes |-> 0, failures |-> 0, latency |-> 0]
  /\ probes = {}
  /\ openSince = 0

-----------------------------------------------------------------------------
(* The first stretch of invoke: admission, in the order of the code.       *)

Arrives(c) ==
  /\ call[c] # "running"
  /\ now <= LastArrival

Rejected(c, why) ==
  /\ call' = [call EXCEPT ![c] = why]
  /\ UNCHANGED <<now, permits, startedAt, totals, probes, openSince>>

RejectOpen(c) ==
  /\ Arrives(c)
  /\ ~Allows(breaker, now)
  /\ breaker' = Looked(breaker, now)
  /\ Rejected(c, "circuit_open")
  /\ UNCHANGED bucket

RejectRate(c) ==
  /\ Arrives(c)
  /\ Allows(breaker, now)
  /\ breaker' = Allowed(breaker, now)
  /\ ~HasToken(bucket, now)
  /\ bucket' = Refilled(bucket, now)
  /\ Rejected(c, "rate_limited")

RejectOverload(c) ==
  /\ Arrives(c)
  /\ Allows(breaker, now)
  /\ breaker' = Allowed(breaker, now)
  /\ HasToken(bucket, now)
  /\ bucket' = Taken(bucket, now)
  /\ permits = 0
  /\ Rejected(c, "overloaded")

Admitted(c) ==
  /\ Arrives(c)
  /\ totals.requests < MaxRequests
  /\ Allows(breaker, now)
  /\ breaker' = Allowed(breaker, now)
  /\ HasToken(bucket, now)
  /\ bucket' = Taken(bucket, now)
  /\ call' = [call EXCEPT ![c] = "running"]
  /\ startedAt' = [startedAt EXCEPT ![c] = now]
  /\ totals' = [totals EXCEPT !.requests = @ + 1]
  /\ probes' = IF breaker.state = "closed" THEN probes ELSE probes \cup {c}
  /\ UNCHANGED <<now, openSince>>

\* The bulkhead's permit is not looked at before the call is counted.
StartUnbounded(c) ==
  /\ Admitted(c)
  /\ permits' = permits - 1

Start(c) ==
  /\ permits > 0
  /\ Admitted(c)
  /\ permits' = permits - 1

-----------------------------------------------------------------------------
(* The second stretch: the provider returned, raised, or was cut off.      *)

Left(c) ==
  /\ call[c] = "running"
  /\ startedAt' = [startedAt EXCEPT ![c] = 0]
  /\ probes' = probes \ {c}
  /\ UNCHANGED <<now, bucket>>

Succeed(c) ==
  /\ Left(c)
  /\ permits' = permits + 1
  /\ call' = [call EXCEPT ![c] = "ok"]
  /\ totals' = [totals EXCEPT !.successes = @ + 1,
                              !.latency = @ + (now - startedAt[c])]
  /\ breaker' = RecordSuccess(breaker)
  /\ UNCHANGED openSince

\* There is no deadline.
MayOnlyRaise(c, why) == why = "failed"

\* asyncio.timeout cuts the call off at its deadline; every other error of
\* the provider is recorded the same way.
MayFail(c, why) ==
  \/ why = "timeout" /\ now - startedAt[c] >= Timeout
  \/ why = "failed"

Failed(c, why) ==
  /\ Left(c)
  /\ MayFail(c, why)
  /\ call' = [call EXCEPT ![c] = why]
  /\ breaker' = RecordFailure(breaker, now)
  /\ openSince' = IF breaker.state # "open" /\ breaker'.state = "open"
                  THEN now ELSE openSince

CountFailure(c) ==
  totals' = [totals EXCEPT !.failures = @ + 1,
                           !.latency = @ + (now - startedAt[c])]

\* A timed-out call gives no permit back.
FailKeepingPermit(c, why) ==
  /\ Failed(c, why)
  /\ permits' = IF why = "timeout" THEN permits ELSE permits + 1
  /\ CountFailure(c)

\* Only the errors of the provider are counted, not the deadline.
FailUncounted(c, why) ==
  /\ Failed(c, why)
  /\ permits' = permits + 1
  /\ IF why = "timeout" THEN UNCHANGED totals ELSE CountFailure(c)

Fail(c, why) ==
  /\ Failed(c, why)
  /\ permits' = permits + 1
  /\ CountFailure(c)

\* The deadline is not applied to the provider call.
TickPastDeadlines ==
  /\ now < MaxTime
  /\ now' = now + 1
  /\ UNCHANGED <<breaker, bucket, permits, call, startedAt, totals, probes,
                 openSince>>

\* Time goes on. It does not pass the deadline of a running call: Timeout
\* includes what the loop needs to deliver the cancellation.
Tick ==
  /\ now < MaxTime
  /\ \A c \in Running : now - startedAt[c] < Timeout
  /\ now' = now + 1
  /\ UNCHANGED <<breaker, bucket, permits, call, startedAt, totals, probes,
                 openSince>>

Next ==
  \/ Tick
  \/ \E c \in Calls :
       \/ RejectOpen(c)
       \/ RejectRate(c)
       \/ RejectOverload(c)
       \/ Start(c)
       \/ Succeed(c)
       \/ \E why \in Failures : Fail(c, why)

Spec == Init /\ [][Next]_vars

\* The loop's timers are served: time goes on and deadlines are delivered.
\* Nothing is assumed of the provider, nor of requests that have not come.
Fairness ==
  /\ WF_vars(Tick)
  /\ \A c \in Calls : WF_vars(Fail(c, "timeout"))

LiveSpec == Spec /\ Fairness
-----------------------------------------------------------------------------
TypeOK ==
  /\ now \in Nat
  /\ breaker \in Breaker
  /\ bucket \in Bucket
  /\ permits \in 0 .. MaxConcurrency
  /\ call \in [Calls -> Outcomes \cup {"new", "running"}]
  /\ startedAt \in [Calls -> Nat]
  /\ totals \in Totals
  /\ probes \subseteq Calls
  /\ openSince \in Nat

\* Every provider call counted by the health report (ProviderRuntime.invoke,
\* _record_success, _record_failure) is running or has been counted once as
\* a success or a failure, whichever way it ended.
Accounting ==
  totals.requests =
    totals.successes + totals.failures + Cardinality(Running)

\* The bulkhead's free permits and the running calls make up its capacity:
\* no exit of invoke loses a permit and none gives one back twice.
PermitsConserved == permits + Cardinality(Running) = MaxConcurrency

\* The four fields of the breaker agree: it is closed exactly while fewer
\* failures than the threshold have been seen since the last success, the
\* probe flag stands exactly while it is half-open, and an open circuit was
\* not opened in the future.
BreakerCoherent ==
  /\ breaker.state = "closed" <=> breaker.failures < FailureThreshold
  /\ breaker.probeInFlight <=> breaker.state = "half_open"
  /\ breaker.openedAt <= now

\* The latency total of the health report never exceeds what the deadline
\* allows the calls that ended, so the reported average is at most Timeout.
LatencyWithinDeadline ==
  totals.latency <= Timeout * (totals.successes + totals.failures)

\* Late failures of calls admitted before the circuit opened push opened_at
\* on (record_failure sets it while already open), but never by more than
\* one deadline: the outage ends within Timeout + RecoveryTimeout.
OutageBounded ==
  breaker.state = "open" =>
    /\ openSince <= breaker.openedAt
    /\ breaker.openedAt - openSince <= Timeout

\* With a deadline shorter than the recovery interval, as in the defaults
\* (5 and 10 seconds), a half-open circuit has no call in progress but the
\* one probe that allow_request let through.
HalfOpenAlone ==
  breaker.state = "half_open" =>
    /\ Running = probes
    /\ \A c, d \in Running : c = d

\* If besides the bucket earns a token in every recovery interval (1000 in the
\* defaults), the probe is never let through by the breaker only to be
\* rejected by the rate limiter or the bulkhead behind it, which would leave
\* the circuit half-open with nobody to decide it.
ProbeNeverRejected == breaker.state = "half_open" => probes # {}

\* Only the probe's own result decides a half-open circuit: no other call
\* that returns closes it or opens it again.
ProbeDecides ==
  [][breaker.state = "half_open" /\ breaker'.state # "half_open"
       => probes # probes']_vars

\* An open circuit stays open until its recovery interval has passed.
OpenUntilRecovery ==
  [][breaker.state = "open" /\ breaker'.state # "open"
       => RecoveryElapsed(breaker, now)]_vars

\* A half-open circuit is eventually decided: closed or open again.
ProbeResolves == breaker.state = "half_open" ~> breaker.state # "half_open"

\* Every call that reached the provider comes back to its caller, whatever
\* the provider does.
CallsReturn ==
  \A c \in Calls : call[c] = "running" ~> call[c] # "running"

\* An open circuit does not reject for ever: eventually allow_request would
\* let a caller through, or the circuit is not open any more.
OpenEnds ==
  breaker.state = "open" ~> (breaker.state # "open" \/ Allows(breaker, now))
=============================================================================
