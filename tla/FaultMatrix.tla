---------------------------- MODULE FaultMatrix ----------------------------
(***************************************************************************)
(* The provider-fault matrix (evaluation/faults.py): six scripted          *)
(* scenarios against a fresh gateway each, with providers whose failures   *)
(* the harness controls.  It is where routing, the fallback loop of the    *)
(* gateway and the circuit breakers of several providers work together in  *)
(* real time, and the time is not the script's: the machine may be held up *)
(* between any two steps.                                                  *)
(*                                                                         *)
(* The harness posts one request at a time, so a scenario is one sequence  *)
(* of steps.  A provider that answers or raises does so without giving up  *)
(* the event loop, and one that hangs sleeps longer than the deadline: the *)
(* loop serves expired timers in their order, so the deadline always wins. *)
(* Two requests exhaust neither the token bucket nor the bulkhead, and the *)
(* scenarios turn the cache off.                                           *)
(***************************************************************************)
EXTENDS Integers, SequencesExt

CONSTANTS
  Repetitions,       \* repetitions
  Deadline,          \* timeout_seconds of the runtime
  SlowAnswer,        \* how long a provider in mode "timeout" sleeps
  Recovery,          \* recovery_timeout_seconds by default
  LongRecovery,      \* the same, for the open circuit's scenario
  Pause,             \* the sleep before the recovery probe
  MaxStall,          \* bound: ticks a scenario is held up for, in all
  AutoModel, None    \* model values: the model "auto", an option left out

ASSUME MatrixAssumption ==
  /\ Repetitions \in Nat \ {0}
  /\ {Deadline, SlowAnswer, Recovery, LongRecovery, Pause} \subseteq Nat \ {0}
  /\ Deadline < SlowAnswer
  /\ Recovery <= Pause
  /\ MaxStall \in Nat /\ MaxStall < LongRecovery

-----------------------------------------------------------------------------
(* The scenarios: who is registered, who fails and how, and what is asked. *)

Pair == <<"primary", "secondary">>
Trio == <<"first", "second", "third">>

Names == Range(Pair) \cup Range(Trio)

ASSUME NameAssumption == AutoModel \notin Names

\* The costs in tenths; every provider serves the model of its name.
Cost == [p \in Names |->
           CASE p \in {"primary", "first"} -> 1
             [] p = "second" -> 2
             [] p = "third" -> 3
             [] p = "secondary" -> 10]

\* The policies of the scenarios look at costs alone or have one candidate, so
\* the nominal latency may be the same for all.
Profile(p) ==
  [models |-> {p}, simulated |-> TRUE, latency |-> 10, input |-> Cost[p],
   output |-> Cost[p], quality |-> 80, utilization |-> 50, trusted |-> FALSE]

\* healed: the harness repairs the primary and sleeps before it asks.
AnyModel == [model |-> AutoModel, policy |-> "lowest_cost", healed |-> FALSE]
Primary == [AnyModel EXCEPT !.model = "primary", !.policy = "adaptive"]
Probe == [Primary EXCEPT !.healed = TRUE]

Scenario(name, registry, failing, mode, recovery, requests) ==
  [name |-> name, registry |-> registry, failing |-> failing, mode |-> mode,
   recovery |-> recovery, requests |-> requests]

Scenarios ==
  <<Scenario("provider_error_failover", Pair, {"primary"}, "error", Recovery,
             <<AnyModel>>),
    Scenario("provider_timeout_failover", Pair, {"primary"}, "timeout",
             Recovery, <<AnyModel>>),
    Scenario("open_circuit_isolation", Pair, {"primary"}, "error",
             LongRecovery, <<AnyModel, AnyModel>>),
    Scenario("half_open_recovery", Pair, {"primary"}, "error", Recovery,
             <<AnyModel, Probe>>),
    Scenario("explicit_model_no_substitution", Pair, {"primary"}, "error",
             Recovery, <<Primary>>),
    Scenario("total_provider_outage", Trio, Range(Trio), "error", Recovery,
             <<AnyModel>>)>>

-----------------------------------------------------------------------------
VARIABLES
  results,       \* the verdicts so far: results
  now, stalled,  \* the clock of the scenario, and how much of it was a stall
  stage, since,  \* what the scenario is doing, and since when if it waits
  provider,      \* of each: mode and calls (ControlledProvider), breaker and
                 \* total_successes (its runtime)
  attempted, excluded,   \* the request being handled: chat_completion
  replies        \* the responses so far

clock == <<now, stalled>>
request == <<attempted, excluded, replies>>
vars == <<results, clock, stage, since, provider, request>>

Finished == Len(results) = Repetitions * Len(Scenarios)

\* The scenario being run, and the request being handled or asked next.
Current == Scenarios[(Len(results) % Len(Scenarios)) + 1]
Asked == Current.requests[Len(replies) + 1]

Router(reg) ==
  INSTANCE Routing WITH
    Registry <- reg,
    Descriptor <- [p \in Range(reg) |-> Profile(p)],
    Models <- Range(reg)

Circuit(t) ==
  INSTANCE CircuitBreaker WITH FailureThreshold <- 1, RecoveryTimeout <- t

\* The providers of a fresh gateway.
Setup(s) ==
  [p \in Range(s.registry) |->
     [mode      |-> IF p \in s.failing THEN s.mode ELSE "healthy",
      calls     |-> 0,
      breaker   |-> Circuit(s.recovery)!InitBreaker,
      successes |-> 0]]

Init ==
  /\ results = <<>>
  /\ now = 0 /\ stalled = 0
  /\ stage = "idle" /\ since = 0
  /\ provider = Setup(Current)
  /\ attempted = <<>> /\ excluded = {}
  /\ replies = <<>>

-----------------------------------------------------------------------------
(* The harness.                                                            *)

Waits(length) == now - since >= length

Pending == ~Finished /\ Len(replies) < Len(Current.requests)

\* Repair the primary, then sleep.
Heal ==
  /\ stage = "idle"
  /\ Pending /\ Asked.healed
  /\ provider' = [provider EXCEPT !["primary"].mode = "healthy"]
  /\ stage' = "pausing" /\ since' = now
  /\ UNCHANGED <<results, clock, request>>

Post ==
  /\ Pending
  /\ IF Asked.healed THEN stage = "pausing" /\ Waits(Pause) ELSE stage = "idle"
  /\ stage' = "routing"
  /\ attempted' = <<>> /\ excluded' = {}
  /\ UNCHANGED <<results, clock, since, provider, replies>>

-----------------------------------------------------------------------------
(* The gateway: the loop of chat_completion around ReliabilityManager.     *)

\* The loop ends after the providers registered, or one for an explicit model.
MaxAttempts == IF Asked.model = AutoModel THEN Len(Current.registry) ELSE 1

Question ==
  [model |-> Asked.model, policy |-> Asked.policy, prompt |-> 1,
   max_tokens |-> 1, preferred |-> None, allowed |-> None, excluded |-> {},
   trusted |-> FALSE, max_latency |-> None, max_cost |-> None,
   min_quality |-> None,
   weights |-> [cost |-> 35, latency |-> 30, utilization |-> 15,
                quality |-> 20]]

\* The provider of the next attempt, as a set: the loop may be over.
Target ==
  IF Len(attempted) < MaxAttempts
  THEN Router(Current.registry)!Route(Question, excluded, 0)
  ELSE {}

Attempt(p) ==
  /\ stage = "routing"
  /\ p \in Target
  /\ attempted' = Append(attempted, p)
  /\ UNCHANGED <<results, clock>>

\* Open circuits do not count.
AllowsAlways(p) == TRUE

Allows(p) == Circuit(Current.recovery)!Allows(provider[p].breaker, now)

RejectOpen(p) ==
  /\ ~Allows(p)
  /\ Attempt(p)
  /\ provider' = [provider EXCEPT ![p].breaker =
                    Circuit(Current.recovery)!Looked(@, now)]
  /\ excluded' = excluded \cup {p}
  /\ UNCHANGED <<stage, since, replies>>

Admitted(p) == Circuit(Current.recovery)!Allowed(provider[p].breaker, now)

\* A call of a provider in this mode, which leaves the breaker at b.
Invoke(p, mode, b) ==
  /\ Allows(p)
  /\ Attempt(p)
  /\ provider[p].mode = mode
  /\ provider' = [provider EXCEPT
       ![p].calls = @ + 1,
       ![p].successes = IF mode = "healthy" THEN @ + 1 ELSE @,
       ![p].breaker = b]

Failed(b) == Circuit(Current.recovery)!RecordFailure(b, now)

Raises(p) ==
  /\ Invoke(p, "error", Failed(Admitted(p)))
  /\ excluded' = excluded \cup {p}
  /\ UNCHANGED <<stage, since, replies>>

Hangs(p) ==
  /\ Invoke(p, "timeout", Admitted(p))
  /\ stage' = "hanging" /\ since' = now
  /\ UNCHANGED <<excluded, replies>>

\* The deadline cuts the sleeping provider off.
CutOff ==
  /\ stage = "hanging" /\ Waits(Deadline)
  /\ stage' = "routing"
  /\ LET p == Last(attempted)
     IN  /\ provider' = [provider EXCEPT ![p].breaker = Failed(@)]
         /\ excluded' = excluded \cup {p}
  /\ UNCHANGED <<results, clock, since, attempted, replies>>

Reply(status, by) ==
  /\ stage' = "idle"
  /\ replies' = Append(replies,
                  [status |-> status, provider |-> by, attempted |-> attempted'])

Returns(p) ==
  /\ Invoke(p, "healthy",
            Circuit(Current.recovery)!RecordSuccess(Admitted(p)))
  /\ Reply(200, p)
  /\ UNCHANGED <<since, excluded>>

\* The loop goes on for as long as a registered provider was not tried.
GiveUpAfterTryingAll ==
  /\ stage = "routing"
  /\ Target = {} /\ Len(attempted) = Len(Current.registry)
  /\ UNCHANGED attempted
  /\ Reply(503, None)
  /\ UNCHANGED <<results, clock, since, provider, excluded>>

\* Nobody is left to try.
GiveUp ==
  /\ stage = "routing"
  /\ Target = {}
  /\ UNCHANGED attempted
  /\ Reply(503, None)
  /\ UNCHANGED <<results, clock, since, provider, excluded>>

-----------------------------------------------------------------------------
(* The verdict of each scenario.                                           *)

FailedOver(r) ==
  r.status = 200 /\ r.provider = "secondary" /\ Len(r.attempted) = 2

Passed ==
  LET first == replies[1]
      response == Last(replies)
  IN  CASE Current.name \in {"provider_error_failover",
                             "provider_timeout_failover"} ->
             FailedOver(response)
        [] Current.name = "open_circuit_isolation" ->
             /\ first.status = 200 /\ response.status = 200
             /\ provider["primary"].calls = 1 /\ provider["primary"].breaker.state = "open"
             /\ response.provider = "secondary"
        [] Current.name = "half_open_recovery" ->
             /\ first.status = 200 /\ response.status = 200
             /\ response.provider = "primary"
             /\ provider["primary"].breaker.state = "closed"
             /\ provider["primary"].successes = 1
        [] Current.name = "explicit_model_no_substitution" ->
             /\ response.status = 503 /\ response.attempted = <<"primary">>
             /\ provider["secondary"].calls = 0
        [] Current.name = "total_provider_outage" ->
             /\ response.status = 503 /\ response.attempted = Trio
             /\ \A p \in Range(Trio) : provider[p].calls = 1

Conclude ==
  /\ stage = "idle"
  /\ ~Finished
  /\ Len(replies) = Len(Current.requests)
  /\ results' = Append(results, [scenario |-> Current.name, passed |-> Passed])
  /\ now' = 0 /\ stalled' = 0
  /\ stage' = "idle" /\ since' = 0
  /\ provider' = Setup(Current')
  /\ attempted' = <<>> /\ excluded' = {}
  /\ replies' = <<>>

-----------------------------------------------------------------------------
\* The scenario sleeps, or waits for its provider.
Sleeping ==
  \/ stage = "pausing" /\ ~Waits(Pause)
  \/ stage = "hanging" /\ ~Waits(Deadline)

\* Time goes on while the scenario waits, and also when it might go on itself.
Tick ==
  /\ ~Finished
  /\ IF Sleeping THEN UNCHANGED stalled
     ELSE stalled < MaxStall /\ stalled' = stalled + 1
  /\ now' = now + 1
  /\ UNCHANGED <<results, stage, since, provider, request>>

\* chat_completion between two requests of the harness.
Handles ==
  \/ \E p \in DOMAIN provider :
       RejectOpen(p) \/ Raises(p) \/ Hangs(p) \/ Returns(p)
  \/ CutOff \/ GiveUp

Next == Heal \/ Post \/ Handles \/ Conclude \/ Tick

\* The harness and the gateway go on, and time passes.
Spec == Init /\ [][Next]_vars /\ WF_vars(Next)
-----------------------------------------------------------------------------
\* Every scenario passes in every repetition, whatever holds the machine up for
\* less than the recovery of the open circuit's scenario: the fixed sleeps of
\* half_open_recovery and the deadline of provider_timeout_failover do not
\* depend on it.
ScenariosPass == \A i \in 1 .. Len(results) : results[i].passed

\* The matrix completes, with every scenario in every repetition.
MatrixCompletes == <>Finished
=============================================================================
