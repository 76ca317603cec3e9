----------------------- MODULE ProviderRuntimeProofs -----------------------
(***************************************************************************)
(* Proofs about ProviderRuntime, for every number of calls and every value *)
(* of the limits.                                                          *)
(***************************************************************************)
EXTENDS ProviderRuntime, TokenBucketProofs, FiniteSetTheorems, TLAPS

(***************************************************************************)
(* The helpers: what the breaker operators return.                         *)
(***************************************************************************)

\* allow_request, record_success and record_failure keep the fields of the
\* breaker in agreement.
Coherent(b, t) ==
  /\ b.state = "closed" <=> b.failures < FailureThreshold
  /\ b.probeInFlight <=> b.state = "half_open"
  /\ b.openedAt <= t

LEMMA BreakerOperators ==
  ASSUME NEW b \in Breaker, NEW t \in Nat, Coherent(b, t)
  PROVE  /\ Looked(b, t) \in Breaker
         /\ ~Allows(b, t) => Looked(b, t) = b
         /\ Allowed(b, t) \in Breaker
         /\ Allows(b, t) => Coherent(Allowed(b, t), t)
         /\ RecordSuccess(b) \in Breaker
         /\ Coherent(RecordSuccess(b), t)
         /\ RecordFailure(b, t) \in Breaker
         /\ Coherent(RecordFailure(b, t), t)
PROOF
<1>1. /\ b.state \in CircuitState /\ b.failures \in Nat
      /\ b.openedAt \in Nat /\ b.probeInFlight \in BOOLEAN
  BY DEF Breaker
<1>2. /\ Looked(b, t) \in Breaker
      /\ ~Allows(b, t) => Looked(b, t) = b
  BY <1>1 DEF Breaker, CircuitState, Coherent, Looked, Allows
<1>3. /\ Allowed(b, t) \in Breaker
      /\ Allows(b, t) => Coherent(Allowed(b, t), t)
  BY <1>1 DEF Breaker, CircuitState, Coherent, Looked, Allows, Allowed
<1>4. /\ RecordSuccess(b) \in Breaker
      /\ Coherent(RecordSuccess(b), t)
  BY <1>1, BreakerAssumption
     DEF Breaker, CircuitState, Coherent, RecordSuccess
<1>5. /\ RecordFailure(b, t) \in Breaker
      /\ Coherent(RecordFailure(b, t), t)
  BY <1>1, BreakerAssumption
     DEF Breaker, CircuitState, Coherent, RecordFailure
<1> QED BY <1>2, <1>3, <1>4, <1>5

\* How a step of a call changes the set of running calls.
LEMMA RunningSteps ==
  ASSUME TypeOK, NEW c \in Calls
  PROVE  /\ \A why \in Rejections :
              Arrives(c) /\ Rejected(c, why) => Running' = Running
         /\ Start(c) => c \notin Running /\ Running' = Running \cup {c}
         /\ Left(c) /\ call' = [call EXCEPT ![c] = "ok"]
              => c \in Running /\ Running' = Running \ {c}
         /\ \A why \in Failures :
              Fail(c, why) => c \in Running /\ Running' = Running \ {c}
PROOF
  BY DEF TypeOK, Running, Arrives, Rejected, Rejections, Failures, Start,
         Admitted, Left, Fail, Failed

\* The running calls are finitely many, and adding or removing one changes
\* their number by one.
LEMMA RunningCount ==
  ASSUME NEW c \in Calls
  PROVE  /\ IsFiniteSet(Running)
         /\ Cardinality(Running) \in Nat
         /\ c \notin Running => Cardinality(Running \cup {c}) = Cardinality(Running) + 1
         /\ c \in Running => /\ Cardinality(Running \ {c}) = Cardinality(Running) - 1
                            /\ Cardinality(Running \ {c}) \in Nat
PROOF
<1>1. IsFiniteSet(Running)
  BY RuntimeAssumption, FS_Subset DEF Running
<1>2. c \notin Running => Cardinality(Running \cup {c}) = Cardinality(Running) + 1
  BY <1>1, FS_AddElement
<1>3. c \in Running => /\ IsFiniteSet(Running \ {c})
                       /\ Cardinality(Running \ {c}) = Cardinality(Running) - 1
  BY <1>1, FS_RemoveElement
<1> QED BY <1>1, <1>2, <1>3, FS_CardinalityType

-----------------------------------------------------------------------------
(***************************************************************************)
(* The inductive invariant behind type correctness, the accounting and the *)
(* bulkhead.  Running calls are within their deadline because time does    *)
(* not pass it.                                                            *)
(***************************************************************************)
Clocked ==
  \A c \in Running : startedAt[c] <= now /\ now - startedAt[c] <= Timeout

BaseInv ==
  /\ TypeOK
  /\ PermitsConserved
  /\ Accounting
  /\ BreakerCoherent
  /\ LatencyWithinDeadline
  /\ Clocked
  /\ probes \subseteq Running

\* The invariant holds before the first request.
LEMMA BaseInit == Init => BaseInv
PROOF
<1> SUFFICES ASSUME Init PROVE BaseInv
  OBVIOUS
<1>1. Running = {} /\ Cardinality(Running) = 0
  BY FS_EmptySet DEF Init, Running
<1>2. TypeOK
  BY BucketAssumption, RuntimeAssumption
     DEF Init, TypeOK, InitBreaker, Breaker, CircuitState, InitBucket, Bucket,
         Totals
<1>3. BreakerCoherent
  BY BreakerAssumption DEF Init, InitBreaker, BreakerCoherent
<1>4. PermitsConserved /\ Accounting /\ LatencyWithinDeadline
  BY <1>1, RuntimeAssumption
     DEF Init, PermitsConserved, Accounting, LatencyWithinDeadline
<1> QED BY <1>1, <1>2, <1>3, <1>4 DEF BaseInv, Clocked, Init

\* Every step keeps it.
LEMMA BaseStep == BaseInv /\ [Next]_vars => BaseInv'
PROOF
<1> SUFFICES ASSUME BaseInv, [Next]_vars PROVE BaseInv'
  OBVIOUS
<1> USE DEF BaseInv
<1>1. breaker \in Breaker /\ bucket \in Bucket /\ now \in Nat
      /\ Coherent(breaker, now)
  BY DEF TypeOK, BreakerCoherent, Coherent
<1>2. ASSUME UNCHANGED vars
      PROVE  BaseInv'
  BY <1>2 DEF vars, TypeOK, PermitsConserved, Accounting, BreakerCoherent,
              LatencyWithinDeadline, Clocked, Running
<1>3. ASSUME Tick
      PROVE  BaseInv'
  <2>1. Running' = Running
    BY <1>3 DEF Tick, Running
  <2>2. TypeOK' /\ BreakerCoherent' /\ PermitsConserved' /\ Accounting'
        /\ LatencyWithinDeadline' /\ (probes \subseteq Running)'
    BY <1>3, <2>1 DEF Tick, TypeOK, BreakerCoherent, Breaker,
          PermitsConserved, Accounting, LatencyWithinDeadline
  <2>3. Clocked'
    <3>1. now' = now + 1 /\ startedAt' = startedAt
      BY <1>3 DEF Tick
    <3>2. ASSUME NEW c \in Running
          PROVE  startedAt'[c] <= now' /\ now' - startedAt'[c] <= Timeout
      <4>1. startedAt[c] \in Nat
        BY DEF TypeOK, Running
      <4>2. startedAt[c] <= now /\ now - startedAt[c] < Timeout
        BY <1>3 DEF Tick, Clocked
      <4> QED BY <4>1, <4>2, <3>1, RuntimeAssumption DEF TypeOK
    <3> QED BY <2>1, <3>2 DEF Clocked
  <2> QED BY <2>2, <2>3
<1>4. ASSUME NEW c \in Calls, NEW why \in Rejections,
             Arrives(c), Rejected(c, why),
             breaker' \in Breaker, Coherent(breaker', now), bucket' \in Bucket
      PROVE  BaseInv'
  <2>1. Running' = Running
    BY <1>4, RunningSteps
  <2>2. TypeOK'
    BY <1>4 DEF Rejected, TypeOK, Outcomes
  <2>3. BreakerCoherent'
    BY <1>4 DEF Rejected, BreakerCoherent, Coherent
  <2> QED BY <1>4, <2>1, <2>2, <2>3
          DEF Rejected, PermitsConserved, Accounting, LatencyWithinDeadline,
              Clocked
<1>5. ASSUME NEW c \in Calls, RejectOpen(c)
      PROVE  BaseInv'
  BY <1>1, <1>4, <1>5, BreakerOperators DEF RejectOpen, Rejections
<1>6. ASSUME NEW c \in Calls, RejectRate(c)
      PROVE  BaseInv'
  BY <1>1, <1>4, <1>6, BreakerOperators, BucketOperators
     DEF RejectRate, Rejections
<1>7. ASSUME NEW c \in Calls, RejectOverload(c)
      PROVE  BaseInv'
  BY <1>1, <1>4, <1>7, BreakerOperators, BucketOperators
     DEF RejectOverload, Rejections
<1>8. ASSUME NEW c \in Calls, Start(c)
      PROVE  BaseInv'
  <2> USE DEF Start, Admitted
  <2>1. c \notin Running /\ Running' = Running \cup {c}
    BY <1>8, RunningSteps
  <2>2. Cardinality(Running') = Cardinality(Running) + 1
    BY <2>1, RunningCount
  <2>3. breaker' \in Breaker /\ Coherent(breaker', now) /\ bucket' \in Bucket
    BY <1>1, <1>8, BreakerOperators, BucketOperators
  <2>4. totals' = [requests  |-> totals.requests + 1,
                   successes |-> totals.successes,
                   failures  |-> totals.failures,
                   latency   |-> totals.latency]
    BY <1>8 DEF TypeOK, Totals
  <2>5. TypeOK'
    BY <1>8, <2>3, <2>4, RuntimeAssumption DEF TypeOK, Totals
  <2>6. BreakerCoherent'
    BY <1>8, <2>3 DEF BreakerCoherent, Coherent
  <2>7. PermitsConserved' /\ Accounting' /\ LatencyWithinDeadline'
    <3> Cardinality(Running) \in Nat
      BY RunningCount
    <3>1. PermitsConserved'
      <4>1. permits' = permits - 1 /\ permits \in Int /\ MaxConcurrency \in Int
        BY <1>8, RuntimeAssumption DEF TypeOK
      <4> QED BY <2>2, <4>1 DEF PermitsConserved
    <3>2. Accounting'
      <4>1. totals.requests \in Nat /\ totals.successes \in Nat
            /\ totals.failures \in Nat
        BY DEF TypeOK, Totals
      <4> QED BY <2>2, <2>4, <4>1 DEF Accounting
    <3>3. LatencyWithinDeadline'
      BY <2>4 DEF LatencyWithinDeadline
    <3> QED BY <3>1, <3>2, <3>3
  <2>8. Clocked' /\ (probes \subseteq Running)'
    BY <1>8, <2>1, RuntimeAssumption DEF Clocked, TypeOK, Running
  <2> QED BY <2>5, <2>6, <2>7, <2>8
<1>9. ASSUME NEW c \in Calls, Left(c), permits' = permits + 1,
             NEW out \in Outcomes, call' = [call EXCEPT ![c] = out],
             Running' = Running \ {c}, c \in Running,
             breaker' \in Breaker, Coherent(breaker', now), openSince' \in Nat,
             totals' \in Totals, totals'.requests = totals.requests,
             totals'.successes + totals'.failures
               = totals.successes + totals.failures + 1,
             totals'.latency = totals.latency + (now - startedAt[c])
      PROVE  BaseInv'
  <2> USE DEF Left
  <2>1. Cardinality(Running') = Cardinality(Running) - 1
    BY <1>9, RunningCount
  <2>2. PermitsConserved' /\ Accounting'
    <3>1. PermitsConserved'
      BY <1>9, <2>1, RunningCount DEF PermitsConserved, TypeOK
    <3>2. Accounting'
      BY <1>9, <2>1, RunningCount DEF Accounting, TypeOK, Totals
    <3> QED BY <3>1, <3>2
  <2>3. TypeOK'
    <3>1. permits' \in 0 .. MaxConcurrency
      <4>1. Cardinality(Running') \in Nat
        BY <1>9, RunningCount
      <4>2. permits' + Cardinality(Running') = MaxConcurrency
        BY <2>2 DEF PermitsConserved
      <4>3. permits' \in Nat
        BY <1>9 DEF TypeOK
      <4> QED BY <4>1, <4>2, <4>3, RuntimeAssumption
    <3> QED BY <1>9, <3>1 DEF TypeOK
  <2>4. BreakerCoherent'
    BY <1>9 DEF BreakerCoherent, Coherent
  <2>5. LatencyWithinDeadline'
    <3> DEFINE m == totals.successes + totals.failures
               d == now - startedAt[c]
    <3>1. d <= Timeout /\ d \in Nat /\ m \in Nat /\ totals.latency <= Timeout * m
      BY <1>9 DEF Clocked, TypeOK, Running, Totals, LatencyWithinDeadline
    <3>2. totals.latency + d <= Timeout * (m + 1)
      <4> HIDE DEF m, d
      <4> QED BY <3>1, RuntimeAssumption DEF TypeOK, Totals
    <3> QED BY <1>9, <3>2 DEF LatencyWithinDeadline
  <2>6. Clocked' /\ (probes \subseteq Running)'
    BY <1>9 DEF Clocked, TypeOK, Running
  <2> QED BY <2>2, <2>3, <2>4, <2>5, <2>6
<1>10. ASSUME NEW c \in Calls, Succeed(c)
       PROVE  BaseInv'
  <2>1. c \in Running /\ Running' = Running \ {c}
    BY <1>10, RunningSteps DEF Succeed
  <2>2. totals' = [requests  |-> totals.requests,
                   successes |-> totals.successes + 1,
                   failures  |-> totals.failures,
                   latency   |-> totals.latency + (now - startedAt[c])]
    BY <1>10 DEF Succeed, TypeOK, Totals
  <2>3. now - startedAt[c] \in Nat
    BY <2>1 DEF Clocked, TypeOK
  <2>4. breaker' \in Breaker /\ Coherent(breaker', now)
    BY <1>1, <1>10, BreakerOperators DEF Succeed
  <2>5. /\ totals' \in Totals /\ totals'.requests = totals.requests
        /\ totals'.successes + totals'.failures
             = totals.successes + totals.failures + 1
        /\ totals'.latency = totals.latency + (now - startedAt[c])
    BY <2>2, <2>3 DEF TypeOK, Totals
  <2>6. /\ Left(c) /\ permits' = permits + 1 /\ openSince' \in Nat
        /\ call' = [call EXCEPT ![c] = "ok"] /\ "ok" \in Outcomes
    BY <1>10 DEF Succeed, Outcomes, TypeOK
  <2> QED BY <1>9, <2>1, <2>4, <2>5, <2>6
<1>11. ASSUME NEW c \in Calls, NEW why \in Failures, Fail(c, why)
       PROVE  BaseInv'
  <2>1. c \in Running /\ Running' = Running \ {c}
    BY <1>11, RunningSteps
  <2>2. totals' = [requests  |-> totals.requests,
                   successes |-> totals.successes,
                   failures  |-> totals.failures + 1,
                   latency   |-> totals.latency + (now - startedAt[c])]
    BY <1>11 DEF Fail, CountFailure, TypeOK, Totals
  <2>3. now - startedAt[c] \in Nat
    BY <2>1 DEF Clocked, TypeOK
  <2>4. breaker' \in Breaker /\ Coherent(breaker', now)
    BY <1>1, <1>11, BreakerOperators DEF Fail, Failed
  <2>5. openSince' \in Nat
    BY <1>11 DEF Fail, Failed, TypeOK
  <2>6. /\ totals' \in Totals /\ totals'.requests = totals.requests
        /\ totals'.successes + totals'.failures
             = totals.successes + totals.failures + 1
        /\ totals'.latency = totals.latency + (now - startedAt[c])
    BY <2>2, <2>3 DEF TypeOK, Totals
  <2>7. /\ Left(c) /\ permits' = permits + 1
        /\ call' = [call EXCEPT ![c] = why] /\ why \in Outcomes
    BY <1>11 DEF Fail, Failed, Outcomes
  <2> QED BY <1>9, <2>1, <2>4, <2>5, <2>6, <2>7
<1> QED BY <1>2, <1>3, <1>5, <1>6, <1>7, <1>8, <1>10, <1>11 DEF Next

\* BaseInv holds in every behaviour.
LEMMA BaseInvariant == Spec => []BaseInv
PROOF BY BaseInit, BaseStep, PTL DEF Spec

\* Every reachable state is well typed: the bulkhead's permits never go below
\* zero nor above MaxConcurrency, and the bucket keeps within its capacity.
THEOREM TypeCorrect == Spec => []TypeOK
PROOF BY BaseInvariant, PTL DEF BaseInv

\* The health report accounts for every call: requests are the successes, the
\* failures and the calls in progress.
THEOREM AccountingHolds == Spec => []Accounting
PROOF BY BaseInvariant, PTL DEF BaseInv

\* No way out of invoke loses or duplicates a permit of the bulkhead.
THEOREM PermitsAreConserved == Spec => []PermitsConserved
PROOF BY BaseInvariant, PTL DEF BaseInv

\* The fields of the breaker agree in every reachable state.
THEOREM BreakerIsCoherent == Spec => []BreakerCoherent
PROOF BY BaseInvariant, PTL DEF BaseInv

\* The latency total is within what the deadline allows the finished calls.
THEOREM LatencyIsBounded == Spec => []LatencyWithinDeadline
PROOF BY BaseInvariant, PTL DEF BaseInv

-----------------------------------------------------------------------------
(***************************************************************************)
(* Outages.  No call starts while the circuit is open, so a call that runs *)
(* then started no later than the circuit opened, and its deadline bounds  *)
(* how far a late failure can push opened_at.                              *)
(***************************************************************************)
OutageInv ==
  /\ openSince <= now
  /\ OutageBounded
  /\ breaker.state = "open" => \A c \in Running : startedAt[c] <= openSince

\* A caller is let through either because the circuit is closed, which leaves
\* the breaker as it is, or as the probe of a circuit that has been open for
\* the whole recovery interval.
LEMMA AllowedCases ==
  ASSUME BaseInv, Allows(breaker, now)
  PROVE  \/ breaker.state = "closed" /\ Allowed(breaker, now) = breaker
         \/ /\ breaker.state = "open"
            /\ RecoveryElapsed(breaker, now)
            /\ Allowed(breaker, now).state = "half_open"
PROOF
<1>1. breaker \in Breaker /\ (breaker.probeInFlight <=> breaker.state = "half_open")
  BY DEF BaseInv, TypeOK, BreakerCoherent
<1>2. breaker.state \in {"closed", "open", "half_open"}
  BY <1>1 DEF Breaker, CircuitState
<1> QED BY <1>1, <1>2 DEF Allows, Allowed, Looked, Breaker

\* The same for a caller that is not let through: nothing changes.
LEMMA RejectedLooks ==
  ASSUME BaseInv, ~Allows(breaker, now)
  PROVE  Looked(breaker, now) = breaker
PROOF
<1>1. breaker \in Breaker /\ now \in Nat /\ Coherent(breaker, now)
  BY DEF BaseInv, TypeOK, BreakerCoherent, Coherent
<1> QED BY <1>1, BreakerOperators

\* What a rejection may do to the breaker, the bucket and the calls.
LEMMA RejectionSteps ==
  ASSUME BaseInv, NEW c \in Calls,
         RejectOpen(c) \/ RejectRate(c) \/ RejectOverload(c)
  PROVE  /\ Running' = Running
         /\ UNCHANGED <<now, permits, startedAt, totals, probes, openSince>>
         /\ \/ breaker' = breaker
            \/ /\ breaker.state = "open" /\ breaker'.state = "half_open"
               /\ RecoveryElapsed(breaker, now)
PROOF
<1>1. PICK why \in Rejections : Arrives(c) /\ Rejected(c, why)
  BY DEF RejectOpen, RejectRate, RejectOverload, Rejections
<1>2. Running' = Running
  BY <1>1, RunningSteps DEF BaseInv
<1>3. CASE RejectOpen(c)
  BY <1>1, <1>2, <1>3, RejectedLooks DEF RejectOpen, Rejected
<1>4. CASE RejectRate(c) \/ RejectOverload(c)
  BY <1>1, <1>2, <1>4, AllowedCases DEF RejectRate, RejectOverload, Rejected
<1> QED BY <1>3, <1>4

LEMMA OutageInit == Init => OutageInv
PROOF BY DEF Init, OutageInv, OutageBounded, InitBreaker

LEMMA OutageStep == BaseInv /\ BaseInv' /\ OutageInv /\ [Next]_vars => OutageInv'
PROOF
<1> SUFFICES ASSUME BaseInv, BaseInv', OutageInv, [Next]_vars PROVE OutageInv'
  OBVIOUS
<1>1. now \in Nat /\ openSince \in Nat /\ breaker.openedAt \in Nat
  BY DEF BaseInv, TypeOK, Breaker
<1>2. ASSUME UNCHANGED vars
      PROVE  OutageInv'
  BY <1>2 DEF vars, OutageInv, OutageBounded, Running
<1>3. ASSUME Tick
      PROVE  OutageInv'
  BY <1>1, <1>3 DEF Tick, OutageInv, OutageBounded, Running
<1>4. ASSUME NEW c \in Calls, RejectOpen(c) \/ RejectRate(c) \/ RejectOverload(c)
      PROVE  OutageInv'
  BY <1>4, RejectionSteps DEF OutageInv, OutageBounded
<1>5. ASSUME NEW c \in Calls, Start(c)
      PROVE  OutageInv'
  <2>1. breaker'.state # "open" /\ openSince' = openSince /\ now' = now
    BY <1>5, AllowedCases DEF Start, Admitted
  <2> QED BY <2>1 DEF OutageInv, OutageBounded
<1>6. ASSUME NEW c \in Calls, Succeed(c)
      PROVE  OutageInv'
  <2>1. breaker'.state # "open" /\ openSince' = openSince /\ now' = now
    BY <1>6 DEF Succeed, Left, RecordSuccess
  <2> QED BY <2>1 DEF OutageInv, OutageBounded
<1>7. ASSUME NEW c \in Calls, NEW why \in Failures, Fail(c, why)
      PROVE  OutageInv'
  <2>1. c \in Running /\ Running' = Running \ {c}
    BY <1>7, RunningSteps DEF BaseInv
  <2>2. now' = now /\ startedAt' = [startedAt EXCEPT ![c] = 0]
        /\ breaker' = RecordFailure(breaker, now)
        /\ openSince' = IF breaker.state # "open" /\ breaker'.state = "open"
                        THEN now ELSE openSince
    BY <1>7 DEF Fail, Failed, Left
  <2>3. \A d \in Running' : startedAt'[d] = startedAt[d] /\ startedAt[d] <= now
    BY <2>1, <2>2 DEF BaseInv, Clocked, TypeOK, Running
  <2>4. CASE breaker'.state # "open"
    BY <1>1, <2>2, <2>4 DEF OutageInv, OutageBounded
  <2>5. CASE breaker'.state = "open" /\ breaker.state # "open"
    <3>1. breaker'.openedAt = now /\ openSince' = now
      BY <2>2, <2>5 DEF RecordFailure
    <3> QED BY <1>1, <2>2, <2>3, <3>1, RuntimeAssumption
            DEF OutageInv, OutageBounded
  <2>6. CASE breaker'.state = "open" /\ breaker.state = "open"
    <3>1. openSince' = openSince
      BY <2>2, <2>6
    <3>2. breaker'.openedAt \in {now, breaker.openedAt}
      BY <2>2 DEF RecordFailure
    <3>3. now - openSince <= Timeout
      <4>1. startedAt[c] \in Nat /\ startedAt[c] <= openSince
            /\ now - startedAt[c] <= Timeout
        BY <2>1, <2>6 DEF OutageInv, BaseInv, Clocked, TypeOK
      <4> QED BY <1>1, <4>1, RuntimeAssumption
    <3> QED BY <1>1, <2>1, <2>2, <2>3, <2>6, <3>1, <3>2, <3>3
            DEF OutageInv, OutageBounded
  <2> QED BY <2>4, <2>5, <2>6
<1> QED BY <1>2, <1>3, <1>4, <1>5, <1>6, <1>7 DEF Next

LEMMA OutageInvariant == Spec => []OutageInv
PROOF BY BaseInvariant, OutageInit, OutageStep, PTL DEF Spec

\* Late failures prolong an outage by no more than one deadline.
THEOREM OutageIsBounded == Spec => []OutageBounded
PROOF BY OutageInvariant, PTL DEF OutageInv

-----------------------------------------------------------------------------
(***************************************************************************)
(* Half-open circuits, when the deadline is shorter than the recovery      *)
(* interval: whatever ran when the circuit opened has been cut off before  *)
(* the interval is over, so the probe finds the provider idle.             *)
(***************************************************************************)
Drained == breaker.state = "open" /\ RecoveryElapsed(breaker, now) => Running = {}

LEMMA OpenDrains ==
  ASSUME BaseInv, OutageInv, Timeout < RecoveryTimeout
  PROVE  Drained
PROOF
<1> SUFFICES ASSUME breaker.state = "open", RecoveryElapsed(breaker, now),
                    NEW c \in Running
             PROVE  FALSE
  BY DEF Drained
<1>1. now \in Nat /\ openSince \in Nat /\ breaker.openedAt \in Nat
      /\ startedAt[c] \in Nat
  BY DEF BaseInv, TypeOK, Breaker, Running
<1>2. startedAt[c] <= openSince /\ openSince <= breaker.openedAt
  BY DEF OutageInv, OutageBounded
<1>3. now - startedAt[c] <= Timeout
  BY DEF BaseInv, Clocked
<1> QED BY <1>1, <1>2, <1>3, RuntimeAssumption, BreakerAssumption
        DEF RecoveryElapsed

ProbeInv ==
  /\ HalfOpenAlone
  /\ breaker.state # "half_open" => probes = {}

LEMMA ProbeInit == Init => ProbeInv
PROOF BY DEF Init, ProbeInv, HalfOpenAlone, InitBreaker

LEMMA ProbeStep ==
  ASSUME Timeout < RecoveryTimeout
  PROVE  BaseInv /\ OutageInv /\ ProbeInv /\ [Next]_vars => ProbeInv'
PROOF
<1> SUFFICES ASSUME BaseInv, OutageInv, ProbeInv, [Next]_vars PROVE ProbeInv'
  OBVIOUS
<1>1. Drained
  BY OpenDrains
<1>2. ASSUME UNCHANGED vars \/ Tick
      PROVE  ProbeInv'
  BY <1>2 DEF vars, Tick, ProbeInv, HalfOpenAlone, Running
<1>3. ASSUME NEW c \in Calls, RejectOpen(c) \/ RejectRate(c) \/ RejectOverload(c)
      PROVE  ProbeInv'
  <2>1. CASE breaker' = breaker
    BY <1>3, <2>1, RejectionSteps DEF ProbeInv, HalfOpenAlone
  <2>2. CASE breaker.state = "open" /\ breaker'.state = "half_open"
             /\ RecoveryElapsed(breaker, now)
    BY <1>1, <1>3, <2>2, RejectionSteps DEF ProbeInv, HalfOpenAlone, Drained
  <2> QED BY <1>3, <2>1, <2>2, RejectionSteps
<1>4. ASSUME NEW c \in Calls, Start(c)
      PROVE  ProbeInv'
  <2>1. Running' = Running \cup {c}
    BY <1>4, RunningSteps DEF BaseInv
  <2>2. CASE breaker.state = "closed" /\ Allowed(breaker, now) = breaker
    BY <1>4, <2>2 DEF Start, Admitted, ProbeInv, HalfOpenAlone
  <2>3. CASE breaker.state = "open" /\ RecoveryElapsed(breaker, now)
             /\ Allowed(breaker, now).state = "half_open"
    BY <1>1, <1>4, <2>1, <2>3
       DEF Start, Admitted, ProbeInv, HalfOpenAlone, Drained
  <2> QED BY <1>4, <2>2, <2>3, AllowedCases DEF Start, Admitted
<1>5. ASSUME NEW c \in Calls, Left(c), c \in Running, Running' = Running \ {c},
             breaker'.state = "half_open" => FALSE
      PROVE  ProbeInv'
  <2>1. CASE breaker.state = "half_open"
    BY <1>5, <2>1 DEF Left, ProbeInv, HalfOpenAlone
  <2>2. CASE breaker.state # "half_open"
    BY <1>5, <2>2 DEF Left, ProbeInv, HalfOpenAlone
  <2> QED BY <2>1, <2>2
<1>6. ASSUME NEW c \in Calls, Succeed(c)
      PROVE  ProbeInv'
  BY <1>5, <1>6, RunningSteps DEF Succeed, RecordSuccess, BaseInv
<1>7. ASSUME NEW c \in Calls, NEW why \in Failures, Fail(c, why)
      PROVE  ProbeInv'
  <2>1. Left(c) /\ breaker' = RecordFailure(breaker, now)
    BY <1>7 DEF Fail, Failed
  <2>2. breaker'.state # "half_open"
    BY <2>1 DEF RecordFailure, BaseInv, TypeOK, Breaker
  <2> QED BY <1>5, <1>7, <2>1, <2>2, RunningSteps DEF BaseInv
<1> QED BY <1>2, <1>3, <1>4, <1>6, <1>7 DEF Next

\* With a deadline shorter than the recovery interval a half-open circuit has
\* no call in progress but its probe.
THEOREM HalfOpenIsAlone ==
  ASSUME Timeout < RecoveryTimeout
  PROVE  Spec => []HalfOpenAlone
PROOF
<1>1. BaseInv /\ OutageInv /\ ProbeInv /\ [Next]_vars => ProbeInv'
  BY ProbeStep
<1>2. ProbeInv => HalfOpenAlone
  BY DEF ProbeInv
<1> QED BY <1>1, <1>2, BaseInvariant, OutageInvariant, ProbeInit, PTL DEF Spec

\* Under the same condition only the probe decides a half-open circuit.
THEOREM OnlyProbeDecides ==
  ASSUME Timeout < RecoveryTimeout
  PROVE  Spec => ProbeDecides
PROOF
<1>1. BaseInv /\ OutageInv /\ ProbeInv /\ [Next]_vars => ProbeInv'
  BY ProbeStep
<1>2. BaseInv /\ ProbeInv /\ [Next]_vars
        => [breaker.state = "half_open" /\ breaker'.state # "half_open"
              => probes # probes']_vars
  <2> SUFFICES ASSUME BaseInv, ProbeInv, Next,
                      breaker.state = "half_open", breaker'.state # "half_open"
               PROVE  probes # probes'
    OBVIOUS
  <2>1. PICK c \in Calls : Left(c)
    <3>1. ~Tick
      BY DEF Tick
    <3>2. ASSUME NEW c \in Calls
          PROVE  /\ ~RejectOpen(c) /\ ~RejectRate(c) /\ ~RejectOverload(c)
                 /\ ~Start(c)
      BY <3>2, RejectionSteps, AllowedCases DEF Start, Admitted
    <3> QED BY <3>1, <3>2 DEF Next, Succeed, Fail, Failed
  <2>2. c \in Running
    BY <2>1 DEF Left, Running
  <2> QED BY <2>1, <2>2 DEF Left, ProbeInv, HalfOpenAlone
<1> QED BY <1>1, <1>2, BaseInvariant, OutageInvariant, ProbeInit, PTL
        DEF Spec, ProbeDecides

-----------------------------------------------------------------------------
(***************************************************************************)
(* The probe reaches the provider.  The breaker lets it through before the *)
(* bucket and the bulkhead are asked, and neither rejection is recorded in *)
(* the breaker: a rejected probe would leave the circuit half-open for     *)
(* good.  It cannot happen when an open circuit outlasts both a deadline   *)
(* and the time the bucket needs to earn a token.                          *)
(***************************************************************************)
TokenInv ==
  /\ bucket.updatedAt <= now
  /\ breaker.state = "open" => bucket.updatedAt <= breaker.openedAt
  /\ ProbeNeverRejected

LEMMA TokenInit == Init => TokenInv
PROOF BY DEF Init, TokenInv, ProbeNeverRejected, InitBreaker, InitBucket

LEMMA TokenStep ==
  ASSUME Timeout < RecoveryTimeout, Replenishes(RecoveryTimeout)
  PROVE  BaseInv /\ OutageInv /\ ProbeInv /\ TokenInv /\ [Next]_vars => TokenInv'
PROOF
<1> SUFFICES ASSUME BaseInv, OutageInv, ProbeInv, TokenInv, [Next]_vars
             PROVE  TokenInv'
  OBVIOUS
<1>1. now \in Nat /\ bucket \in Bucket /\ bucket.updatedAt \in Nat
      /\ breaker \in Breaker /\ breaker.openedAt \in Nat
  BY DEF BaseInv, TypeOK, Bucket, Breaker
<1>2. Drained
  BY OpenDrains
<1>3. ASSUME UNCHANGED vars \/ Tick
      PROVE  TokenInv'
  BY <1>1, <1>3 DEF vars, Tick, TokenInv, ProbeNeverRejected
<1>4. ASSUME NEW c \in Calls, RejectOpen(c)
      PROVE  TokenInv'
  BY <1>4, RejectedLooks DEF RejectOpen, Rejected, TokenInv, ProbeNeverRejected
<1>5. ASSUME Allows(breaker, now), breaker.state # "closed"
      PROVE  HasToken(bucket, now) /\ permits # 0
  <2>1. breaker.state = "open" /\ RecoveryElapsed(breaker, now)
    BY <1>5, AllowedCases
  <2>2. HasToken(bucket, now)
    BY <1>1, <2>1, BucketReplenishes, BreakerAssumption
       DEF TokenInv, RecoveryElapsed
  <2>3. Cardinality(Running) = 0
    BY <1>2, <2>1, FS_EmptySet DEF Drained
  <2> QED BY <2>2, <2>3, RuntimeAssumption DEF BaseInv, PermitsConserved, TypeOK
<1>6. ASSUME NEW c \in Calls, RejectRate(c) \/ RejectOverload(c)
      PROVE  TokenInv'
  <2>1. Allows(breaker, now) /\ now' = now /\ bucket'.updatedAt = now
    BY <1>1, <1>6, BucketOperators DEF RejectRate, RejectOverload, Rejected
  <2>2. breaker.state = "closed"
    BY <1>5, <1>6, <2>1 DEF RejectRate, RejectOverload
  <2>3. breaker' = breaker
    BY <1>6, <2>2 DEF RejectRate, RejectOverload, Allowed
  <2> QED BY <1>1, <2>1, <2>2, <2>3 DEF TokenInv, ProbeNeverRejected
<1>7. ASSUME NEW c \in Calls, Start(c)
      PROVE  TokenInv'
  <2>1. now' = now /\ bucket'.updatedAt = now
    BY <1>1, <1>7, BucketOperators DEF Start, Admitted
  <2>2. breaker'.state # "open"
    BY <1>7, AllowedCases DEF Start, Admitted
  <2>3. breaker'.state = "half_open" => c \in probes'
    BY <1>7, AllowedCases DEF Start, Admitted
  <2> QED BY <1>1, <2>1, <2>2, <2>3 DEF TokenInv, ProbeNeverRejected
<1>8. ASSUME NEW c \in Calls, Succeed(c)
      PROVE  TokenInv'
  BY <1>8 DEF Succeed, Left, RecordSuccess, TokenInv, ProbeNeverRejected
<1>9. ASSUME NEW c \in Calls, NEW why \in Failures, Fail(c, why)
      PROVE  TokenInv'
  <2>1. breaker' = RecordFailure(breaker, now) /\ UNCHANGED <<now, bucket>>
    BY <1>9 DEF Fail, Failed, Left
  <2>2. /\ breaker'.state # "half_open"
        /\ breaker'.state = "open" =>
             \/ breaker'.openedAt = now
             \/ breaker.state = "open" /\ breaker'.openedAt = breaker.openedAt
    BY <2>1, <1>1 DEF RecordFailure, Breaker
  <2> QED BY <1>1, <2>1, <2>2 DEF TokenInv, ProbeNeverRejected
<1> QED BY <1>3, <1>4, <1>6, <1>7, <1>8, <1>9 DEF Next

\* With a deadline shorter than the recovery interval, and a bucket that earns
\* a token within it, no probe is rejected behind the breaker's back.
THEOREM ProbeIsNeverRejected ==
  ASSUME Timeout < RecoveryTimeout, Replenishes(RecoveryTimeout)
  PROVE  Spec => []ProbeNeverRejected
PROOF
<1>1. BaseInv /\ OutageInv /\ ProbeInv /\ [Next]_vars => ProbeInv'
  BY ProbeStep
<1>2. BaseInv /\ OutageInv /\ ProbeInv /\ TokenInv /\ [Next]_vars => TokenInv'
  BY TokenStep
<1>3. TokenInv => ProbeNeverRejected
  BY DEF TokenInv
<1> QED BY <1>1, <1>2, <1>3, BaseInvariant, OutageInvariant, ProbeInit,
           TokenInit, PTL DEF Spec

-----------------------------------------------------------------------------
(***************************************************************************)
(* The provider is behind its rate limiter: whenever one begins to count,  *)
(* the calls that reach it from then on are paid for by the burst capacity *)
(* and the refill.  The bucket's tokens are weighed with the calls as in   *)
(* RateLimiterProofs; a token that is taken by a request the bulkhead then *)
(* rejects is lost, which keeps the balance.                               *)
(***************************************************************************)
CallsPaid(n, s) ==
  totals.requests > n =>
    /\ s <= bucket.updatedAt
    /\ TokenUnit * (totals.requests - n) + bucket.tokens
         <= Capacity + Worth(s, bucket.updatedAt)

WindowInv(n, s) ==
  /\ s <= now
  /\ n <= totals.requests
  /\ CallsPaid(n, s)

BucketPresent == bucket.updatedAt <= now

\* What a step does to the clock, the bucket and the calls that were counted.
LEMMA BucketSteps ==
  ASSUME BaseInv, [Next]_vars
  PROVE  \/ /\ now' \in {now, now + 1}
            /\ UNCHANGED <<bucket, totals.requests>>
         \/ /\ bucket' \in {Refilled(bucket, now), Taken(bucket, now)}
            /\ UNCHANGED <<now, totals.requests>>
         \/ /\ bucket' = Taken(bucket, now) /\ HasToken(bucket, now)
            /\ totals'.requests = totals.requests + 1
            /\ UNCHANGED now
PROOF
<1>1. CASE Tick \/ UNCHANGED vars
  BY <1>1 DEF Tick, vars
<1>2. ASSUME NEW c \in Calls, RejectOpen(c) \/ RejectRate(c) \/ RejectOverload(c)
      PROVE  /\ UNCHANGED <<now, totals.requests>>
             /\ \/ bucket' = bucket
                \/ bucket' \in {Refilled(bucket, now), Taken(bucket, now)}
  BY <1>2 DEF RejectOpen, RejectRate, RejectOverload, Rejected
<1>3. ASSUME NEW c \in Calls, Start(c)
      PROVE  /\ bucket' = Taken(bucket, now) /\ HasToken(bucket, now)
             /\ totals'.requests = totals.requests + 1
             /\ UNCHANGED now
  BY <1>3 DEF Start, Admitted, BaseInv, TypeOK, Totals
<1>4. ASSUME NEW c \in Calls, Succeed(c) \/ \E why \in Failures : Fail(c, why)
      PROVE  UNCHANGED <<now, bucket, totals.requests>>
  BY <1>4 DEF Succeed, Fail, Failed, CountFailure, Left, BaseInv, TypeOK, Totals
<1>5. now' \in {now, now + 1} <=> now' = now \/ now' = now + 1
  OBVIOUS
<1>6. /\ bucket' \in {Refilled(bucket, now), Taken(bucket, now)}
        <=> bucket' = Refilled(bucket, now) \/ bucket' = Taken(bucket, now)
  OBVIOUS
<1>7. \/ Tick \/ UNCHANGED vars
      \/ \E c \in Calls : RejectOpen(c) \/ RejectRate(c) \/ RejectOverload(c)
      \/ \E c \in Calls : Start(c)
      \/ \E c \in Calls : Succeed(c) \/ \E why \in Failures : Fail(c, why)
  BY DEF Next
<1>8. CASE \E c \in Calls : RejectOpen(c) \/ RejectRate(c) \/ RejectOverload(c)
  BY <1>2, <1>5, <1>6, <1>8
<1>9. CASE \E c \in Calls : Start(c)
  BY <1>3, <1>9
<1>10. CASE \E c \in Calls : Succeed(c) \/ \E why \in Failures : Fail(c, why)
  BY <1>4, <1>5, <1>10
<1> QED BY <1>1, <1>7, <1>8, <1>9, <1>10

LEMMA PresentStep == BaseInv /\ BucketPresent /\ [Next]_vars => BucketPresent'
PROOF
<1> SUFFICES ASSUME BaseInv, BucketPresent, [Next]_vars PROVE BucketPresent'
  OBVIOUS
<1>1. now \in Nat /\ bucket \in Bucket /\ bucket.updatedAt \in Nat
  BY DEF BaseInv, TypeOK, Bucket
<1>2. Refilled(bucket, now).updatedAt = now /\ Taken(bucket, now).updatedAt = now
  BY <1>1, BucketOperators
<1> QED BY <1>1, <1>2, BucketSteps DEF BucketPresent

LEMMA WindowStep ==
  ASSUME NEW n \in Nat, NEW s \in Nat,
         BaseInv, BucketPresent, WindowInv(n, s), [Next]_vars
  PROVE  WindowInv(n, s)'
PROOF
<1> DEFINE u == bucket.updatedAt
           held == bucket.tokens
           fresh == Refilled(bucket, now).tokens
           q == totals.requests - n
<1>1. /\ now \in Nat /\ bucket \in Bucket /\ u \in Nat /\ held \in Nat
      /\ totals.requests \in Nat /\ u <= now /\ s <= now
      /\ n <= totals.requests /\ q \in Nat
  BY BucketAssumption
     DEF BaseInv, TypeOK, Bucket, Totals, BucketPresent, WindowInv
<1>2. /\ fresh \in Nat /\ fresh <= Capacity /\ fresh <= held + Worth(u, now)
      /\ Refilled(bucket, now).updatedAt = now
      /\ Taken(bucket, now).updatedAt = now
      /\ Taken(bucket, now).tokens = fresh - TokenUnit
  <2>1. fresh \in 0 .. Capacity /\ fresh <= held + Worth(u, now)
        /\ Taken(bucket, now).tokens = fresh - TokenUnit
    BY <1>1, TakenWorth
  <2>2. Refilled(bucket, now).updatedAt = now /\ Taken(bucket, now).updatedAt = now
    BY <1>1, BucketOperators
  <2> HIDE DEF fresh
  <2> QED BY <2>1, <2>2, BucketAssumption
<1>3. /\ TokenUnit * q \in Nat /\ TokenUnit * (q + 1) = TokenUnit * q + TokenUnit
      /\ q = 0 => TokenUnit * q = 0
  <2> HIDE DEF q
  <2> QED BY <1>1, BucketAssumption
<1>4. Worth(s, now) \in Nat
  BY <1>1, WorthNat
\* With the bucket brought up to date, before a token is handed out.
<1>5. TokenUnit * q + fresh <= Capacity + Worth(s, now)
  <2>1. CASE q = 0
    <3> HIDE DEF q, fresh
    <3> QED BY <1>2, <1>3, <1>4, <2>1, BucketAssumption
  <2>2. CASE q > 0
    <3>1. s <= u /\ TokenUnit * q + held <= Capacity + Worth(s, u)
      BY <1>1, <2>2 DEF WindowInv, CallsPaid
    <3> HIDE DEF q, held, fresh, u
    <3>2. Worth(s, now) = Worth(s, u) + Worth(u, now)
      BY <1>1, <3>1, WorthAdds
    <3>3. Worth(s, u) \in Nat /\ Worth(u, now) \in Nat
      BY <1>1, <3>1, WorthNat
    <3> QED BY <1>1, <1>2, <1>3, <3>1, <3>2, <3>3, BucketAssumption
  <2> QED BY <1>1, <2>1, <2>2
<1>6. CASE now' \in {now, now + 1} /\ UNCHANGED <<bucket, totals.requests>>
  BY <1>1, <1>6 DEF WindowInv, CallsPaid
<1>7. CASE /\ bucket' \in {Refilled(bucket, now), Taken(bucket, now)}
           /\ UNCHANGED <<now, totals.requests>>
  <2>1. bucket'.updatedAt = now /\ bucket'.tokens <= fresh /\ bucket'.tokens \in Int
    BY <1>2, <1>7, BucketAssumption
  <2>2. TokenUnit * q + bucket'.tokens <= Capacity + Worth(s, now)
    <3> HIDE DEF q, fresh
    <3> QED BY <1>2, <1>3, <1>4, <1>5, <2>1, BucketAssumption
  <2> QED BY <1>1, <1>7, <2>1, <2>2 DEF WindowInv, CallsPaid
<1>8. CASE /\ bucket' = Taken(bucket, now)
           /\ totals'.requests = totals.requests + 1
           /\ UNCHANGED now
  <2>1. totals'.requests - n = q + 1
    BY <1>1, <1>8
  <2>2. TokenUnit * (q + 1) + bucket'.tokens <= Capacity + Worth(s, now)
    <3> HIDE DEF q, fresh
    <3> QED BY <1>2, <1>3, <1>4, <1>5, <1>8, BucketAssumption
  <2>3. TokenUnit * (totals'.requests - n) + bucket'.tokens
          <= Capacity + Worth(s, now)
    BY <2>1, <2>2
  <2> QED BY <1>1, <1>2, <1>8, <2>3 DEF WindowInv, CallsPaid
<1> QED BY <1>6, <1>7, <1>8, BucketSteps

\* However many requests come and whatever the breaker and the bulkhead do with
\* them: in every stretch of time, from any moment of a provider's life on, the
\* calls that reach it are no more than the burst capacity and the refill of
\* that stretch pay for.
THEOREM CallsWithinRate ==
  ASSUME NEW n \in Nat, NEW s \in Nat
  PROVE  Spec =>
           [](totals.requests = n /\ now = s =>
                [](TokenUnit * (totals.requests - n) <= Capacity + Rate * (now - s)))
PROOF
<1> DEFINE Begins == totals.requests = n /\ now = s
           Paid == TokenUnit * (totals.requests - n) <= Capacity + Rate * (now - s)
           Window == WindowInv(n, s)
<1>1. Init => BucketPresent
  BY DEF Init, InitBucket, BucketPresent
<1>2. BaseInv /\ Begins => Window
  BY DEF BaseInv, TypeOK, Totals, WindowInv, CallsPaid
<1>3. BaseInv /\ BucketPresent /\ Window /\ [Next]_vars => Window'
  BY WindowStep
<1>4. BaseInv /\ BucketPresent /\ Window => Paid
  <2> SUFFICES ASSUME BaseInv, BucketPresent, WindowInv(n, s)
               PROVE  TokenUnit * (totals.requests - n) <= Capacity + Worth(s, now)
    BY DEF Worth
  <2> DEFINE q == totals.requests - n
  <2>1. /\ now \in Nat /\ bucket.updatedAt \in Nat /\ bucket.tokens \in Nat
        /\ q \in Nat /\ s <= now /\ bucket.updatedAt <= now
    BY BucketAssumption
       DEF BaseInv, TypeOK, Bucket, Totals, BucketPresent, WindowInv
  <2>2. TokenUnit * q \in Nat /\ (q = 0 => TokenUnit * q = 0)
    <3> HIDE DEF q
    <3> QED BY <2>1, BucketAssumption
  <2>3. Worth(s, now) \in Nat
    BY <2>1, WorthNat
  <2>4. ASSUME q = 0
        PROVE  TokenUnit * q <= Capacity + Worth(s, now)
    <3> HIDE DEF q
    <3> QED BY <2>2, <2>3, <2>4, BucketAssumption
  <2>5. ASSUME q > 0
        PROVE  TokenUnit * q <= Capacity + Worth(s, now)
    <3>1. /\ s <= bucket.updatedAt
          /\ TokenUnit * q + bucket.tokens <= Capacity + Worth(s, bucket.updatedAt)
      BY <2>1, <2>5 DEF WindowInv, CallsPaid, BaseInv, TypeOK, Totals
    <3> HIDE DEF q
    <3>2. Worth(s, now)
            = Worth(s, bucket.updatedAt) + Worth(bucket.updatedAt, now)
      BY <2>1, <3>1, WorthAdds
    <3>3. /\ Worth(s, bucket.updatedAt) \in Nat
          /\ Worth(bucket.updatedAt, now) \in Nat
      BY <2>1, <3>1, WorthNat
    <3> QED BY <2>1, <2>2, <3>1, <3>2, <3>3, BucketAssumption
  <2>6. q = 0 \/ q > 0
    BY <2>1
  <2> QED BY <2>4, <2>5, <2>6
<1> HIDE DEF Begins, Paid, Window
<1>5. Spec => [](Begins => []Paid)
  BY <1>1, <1>2, <1>3, <1>4, PresentStep, BaseInvariant, PTL DEF Spec
<1> QED BY <1>5 DEF Begins, Paid
=============================================================================
