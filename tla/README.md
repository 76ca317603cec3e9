# Verification of the adaptive inference control plane

TLA+ modules for the gateway in `control_plane/`, the TLC configurations that check
them on small instances, and TLAPS proofs of the properties that hold for every
configuration. Paths below are relative to the repository; everything was written from
the source, and every definition names the lines it stands for in `PROJECT.json`.

## The system

The program is one FastAPI process on one asyncio event loop. A completion request goes
through these parts:

| Part | State it keeps | Operations | What makes it correct |
|---|---|---|---|
| Completion endpoint (`main.py`) | per request: attempts, exclusions, result | `chat_completion` | each eligible provider is tried at most once, the request is given up only after all, and the answer is one to its own question under its own constraints |
| Routing engine (`routing.py`) | the round-robin index | `select` | hard constraints and exclusions are never violated; an explicit model is never substituted |
| Stores (`cache.py`) | exact responses, idempotency records, statistics | `get`, `set`, `replay`, `store` | a key that has been answered is not executed again; entries live exactly their time; failures do not stop inference |
| Provider runtime (`reliability.py`) | breaker, token bucket, bulkhead, counters: one set per provider | `invoke`, `snapshot` | an ailing provider is left alone and later probed by one request; capacity, rate and deadline hold; counters add up |
| Bedrock adapter (`providers/bedrock.py`) | what the session has spent and reserved | `complete`, `reserve`, `settle`, `release` | the bill stays within the session's limit |
| Telemetry (`telemetry.py`) | counters, aggregates, the last events | `record_provider_call`, `record_inference` | counters agree with what happened |
| Configuration (`config.py`, `providers/factory.py`, `registry.py`) | the settings, once | `from_env`, `validate`, `build_providers` | no paid provider is called unless it was switched on with a model, a budget and prices |
| Evaluation (`evaluation/`) | the report of a run | `run_load`, `run_fault_matrix`, `validate_free_gateway`, `validate_bedrock` | every request is in the report once; the scenarios do not depend on the machine's pace; the paid experiment ends at its ceiling |

The rest (stateless adapters, dashboard, scripts, deployment) takes no part in the gateway's
state; `PROJECT.json` lists it with the reason it is left out.

**Who interacts with whom.** The endpoint awaits the idempotency store, then in a loop the
router, the response cache and the provider's runtime; the runtime awaits the provider, and
the Bedrock adapter awaits a thread. Nothing is pushed: all communication is by call and
return, and what concurrent requests share is the state in the table.

**What runs together.** There is one thread. A coroutine gives up the loop only where it
really suspends: a socket, a thread, a timer. The locks of `reliability.py`, `bedrock.py`,
`routing.py` and `MemoryKeyValue` are never held across a suspension, so they are never
contended and awaiting them does not suspend. The stretches between two suspensions are
therefore atomic, and they are the actions of the models. What can come between two
stretches of a request is the whole life of other requests.

**What is hard here.** Results that arrive after the state they were asked for has moved on
(a call admitted by a closed circuit that ends in an open one); a check and the use of what
was checked on two sides of an await (the idempotency key); a deadline that cancels a
coroutine but not the thread it waits for (a Bedrock call); several guards in a row of which
a later one rejects what an earlier one has already noted (breaker, rate, bulkhead); stores
that fail, expire or vanish between two steps; and loops bounded by two independent
counters. The `hazards` of `PROJECT.json` name each at its line.

## The modules

```
CircuitBreaker   TokenBucket ------- RateLimiter ==> RateEnvelope
        \          /     \                |
      ProviderRuntime   TokenBucketProofs |
            |            /        \       |
   ProviderRuntimeProofs        RateLimiterProofs

BedrockProvider ==> SpendCeiling    Configuration      MemoryKeyValue ==> KeyValue
                \                     /                     |
                  CloudValidation ==> BedrockProvider  MemoryKeyValueProofs
                          |
                 CloudValidationProofs

Routing   Observability                            CircuitBreaker   Routing
     \     /                                             :             :
     Gateway               LoadGenerator                FaultMatrix
        |                        |                           |
   GatewayProofs         LoadGeneratorProofs         FaultMatrixProofs
```

`==>` is "implements", a dotted line is an INSTANCE with the harness's values, the other lines
are EXTENDS.

`MCBedrockProvider`, `MCGateway`, `MCLoadGenerator` and `MCCloudValidation` only add symmetry
and the values of constants. Operators whose comment describes a fault (`StartUnbounded`, `TickPastDeadlines`,
`FirstEntry` and so on) are wrong variants of the definition next to them; no specification
uses them. They show for each property a bug of the code that it would find.

### CircuitBreaker, TokenBucket, ProviderRuntime

`CircuitBreaker` and `TokenBucket` are the two classes as operators on a record of their
fields; the clock is an argument, as it is injected in the code. `ProviderRuntime` applies
them. `invoke` has two atomic stretches, from its first line to the provider's own await and
from there to its end:

| Action | Code |
|---|---|
| `RejectOpen`, `RejectRate`, `RejectOverload` | the three guards in their order, with what the earlier ones have changed already: the probe flag is set and the token taken when a later guard rejects |
| `Start` | admitted: breaker, bucket, permit, request counter, deadline |
| `Succeed` | permit back, success counted, `record_success` |
| `Fail` with `timeout` or `failed` | permit back, failure counted, `record_failure`, for the deadline and for every other error |
| `Tick` | the clock; it does not pass a deadline that has not been delivered |

`call[c]` is where a request is, so the stack of the coroutine; `permits` is the semaphore.
`probes` and `openSince` are history: which running calls were let through as probes, and
when the circuit became open. Time is discrete and latencies are counted in ticks.

`Timeout` of the model is the deadline of the code plus what the loop needs to deliver it. A
call that returns in the same tick as its deadline may go either way, as in `asyncio.timeout`.

### RateLimiter and RateEnvelope

The bucket alone, with an observer that opens a window at any moment. `RateEnvelope` says what
a limiter promises (in every window at most capacity plus refill), and the bucket implements
it. The code counts tokens in floats; the model counts `TokenUnit` parts of a token, exactly,
so that a refill may be worth a fraction of one. Rounding of floats is not modelled.

### BedrockProvider and SpendCeiling

A request counts its tokens (a thread), reserves, converses (a thread), and settles or
releases. `Cancel` is the deadline of the runtime at either wait: the coroutine ends by
`CancelledError`, which `except Exception` does not catch, so nothing is released, and the
service may still serve and bill (`Serve` stays enabled for a cancelled request). `Restart` is
the process being replaced: the budget starts at zero, the requests in it are lost, and what they
asked of the service goes on. `earlier` is what former processes spent, `sessions` the number of
restarts with it. `billed` is the account, which the program cannot see; `unrecorded` is the part of it that was given up by
a release. Prices and token counts are abstracted to whole amounts.

`SpendCeiling` is the promise: exposure (spent and reserved) is raised only by letting work
through, which is within the limit whenever that happens, spending is drawn from it, and a new
session starts at nothing. The code checks the reservation and books the bill, and nothing bounds the
second by the first (`settle` compares neither with the limit). `Overrun` is how far one bill may
exceed its reservation; the properties say what is left of the limit then: the next request is
refused once it is reached, and the excess is that of the requests that are over.

### Configuration

`Settings.from_env`, `validate`, `build_providers` and the registry's check as operators on an
environment, which gives each variable a word or leaves it out. `Starts` is that `create_app`
succeeds. Of the settings, those that decide who may be called and what it may cost are
modelled. Prices and budgets are whole amounts, `Junk` is a word that is no number.

### CloudValidation

The gateway as it is deployed, with the scripts that validate it and other clients. The module
extends `BedrockProvider` and `Configuration`. The gateway is started from any environment
(`CreateApp`) and the preflight of either validation looks at what it says of itself (`Check`).
The free one posts to a mock. The paid one posts one small prompt several times, each after the
answer to the one before it (`Post`, `Receive`), and stops when what the answers said they cost
reaches the ceiling (`MoreToAsk`). A paid request is answered from the gateway's cache, turned
away by its runtime, or handled by `BedrockProvider` beside the requests of others (`Work`).
`Replace` is a restart of the gateway, in which a post that waits raises and ends the script; the
response cache is lost with the process or stays in Redis.
`price` is history: what each request was settled for.

### FaultMatrix

`run_fault_matrix`: six scenarios in each repetition, each with a fresh gateway. The gateway is
its fallback loop over `Routing`, and a breaker (`CircuitBreaker`) with a failure mode for every
provider. Time is the scenario's: `Tick` lets it go on while a scenario sleeps or a provider
hangs, and also holds the scenario up when it might go on, for at most `MaxStall` ticks. A
provider that hangs sleeps longer than its deadline, and the loop serves expired timers in
order, so that the deadline wins however late the two are served.

### Routing

`RoutingEngine.select` as operators on a catalogue of descriptors: `Satisfies` is
`_satisfies_constraints`, `Eligible` the candidates, `Badness` what a policy
minimises, `Least` the first of the equally best candidates, as `min` and `max` return it,
`Nth` a candidate by its place in the order of registration (the round-robin turn), `Choice`
what the policy takes from the candidates, `Route` the decision, empty when `select` raises.
Costs are whole numbers of a small unit and the adaptive score is multiplied by its
denominators, so that comparisons are exact where the code rounds floats.
`NoWorse` is what a client asks a policy for, stated on the descriptors.

### Observability

`Telemetry` and `CacheStatistics` as records with their methods as operators, the bounded buffer
of recent events among them. `Gateway` applies them at the places where the code does. A replay
enters the buffer under the id of the request that was executed, as in the code.

### Gateway

`chat_completion` for concurrent requests. `phase` is the await a request stands at:
`replaying` (idempotency lookup), `routing` (`select`), `reading` (cache), `calling`
(runtime), `writing` (cache), `storing` (idempotency record), and the ends, one for each
status code. Every await of the handler is a point where others may run, also those that do
not really suspend on one loop. That is more than one process can do and what several
processes on one Redis can, so properties that hold are the stronger for it; the
counterexample of `same_key_twice` uses only awaits that do suspend with Redis.

* A payload is what the fingerprint covers. Its question (`Question`) is what the cache keys
  on besides the provider: two payloads may share a question and differ in their constraints.
  Messages are named by the number of tokens the engine estimates for them.
* The pair of client and key is the key of the record. The code joins the two with a colon
  before it hashes, so pairs that read the same when joined are the same key here.
* A provider call only succeeds or fails here; that it ends is `CallsReturn` of
  `ProviderRuntime`.
* Faults, at most `MaxFaults` in a behaviour: a store call fails (a failed write may have taken
  effect), an entry expires, the process is replaced. A restart loses the requests in the
  handler and, without Redis (`Durable = FALSE`), the stores.
* `settled` and `owed` are history: keys whose answer was delivered and recorded and has not
  been lost since, and requests that came with such a key. `before` are the requests older
  than the last restart, which resets the counters.

### MemoryKeyValue and KeyValue

The process-local store deletes an expired entry only when somebody asks for it. It implements
a store whose entries carry the time they have left. The refinement maps the dictionary to
what in it has not expired.

### LoadGenerator

`run_matrix`: runs of every profile one after the other, in each of which the workers of
`run_load` share a queue. `Respond` is what a worker does after its post: the sample, and taking
the next request, which follows without suspending. `Break` is the answer with status 200 and a
body that is no completion: the exception leaves the worker, `gather` and the program. `GiveUp`
is the same outside the workers: the readiness check fails before the first run, or a cost in an
answer is no number and raises in `summarize_samples`.
`Summarize` and `Aggregate` are the arithmetic: lists are filtered by the set of positions that
pass, `Order` is what `sorted` returns, and `Total` is a sum, written as the number of units its
summands have, so that no recursion stands between the definitions and their proofs. Percentiles
are checked against the definition of the nearest rank, and the report against `answers`, the
history of what the gateway answered.

## What the runs check

| Run | Instance | What it shows |
|---|---|---|
| `runtime` | 3 requests, 2 permits, threshold 2, deadline 1, recovery 2, tokens of half a tick, fair timers | `Accounting`, `PermitsConserved`, `BreakerCoherent`, `LatencyWithinDeadline`, `OutageBounded`; with the deadline shorter than the recovery interval `HalfOpenAlone`, `ProbeNeverRejected`, `ProbeDecides`; `CallsReturn`, `OpenEnds`, `ProbeResolves` |
| `rate_limiter` | 1 token in 3 ticks, capacity 2 1/2 tokens, 10 ticks | `KeepsEnvelope`, `NoStarvation` |
| `cloud_validation` | 2 requests of a validation and 1 of another client, of 1 or 2 each; limit 3, ceiling 2, bills up to 1 above the reservation, 1 restart; every environment that differs in one variable from a complete one | `ReservedIsHeld`, `WithinLimit`, `BillCovered`, `BillBySessions`, `KeepsCeiling`; `BilledOnPurpose`, `CeilingPassedOnce`, `BooksAgree`, `ValidationEnds` |
| `gateway_stores` | 3 requests, 2 providers, 4 payloads (two with one question, one that bypasses the cache, one with another question), 1 key, 1 fault, Redis, a buffer of 2 events | `RightfulAnswer`, `CacheIsGenuine`, `NoReexecution`, `TelemetryAgrees`, `StatisticsAgree` |
| `gateway_routing` | 2 requests, 3 providers, 10 payloads with every policy and kind of constraint, among them one whose candidates change places when one is excluded, 1 fault, memory | `AttemptsAreFair`, `GivesUpAfterAll`, `BestFirst`, `RequestsEnd` |
| `memory_store` | 2 keys, 2 values, times to live 1 and 3, 6 ticks | `KeepsValues` |
| `load_matrix` | 2 profiles, 2 runs each, 3 requests, 2 workers, 3 kinds of answers | `EveryRequestOnce`, `NearestRank`, `ReportIsComplete`, `MatrixEnds` |
| `fault_matrix` | 2 repetitions of all six scenarios, a tick of 5 ms, up to 5 ticks of stalls in each | `ScenariosPass`, `MatrixCompletes` |

The type invariants of the runtime and the gateway are checked with them; those of the bucket,
the budget and the process-local store are proved. Four more runs are expected to fail; each checks
one sentence of the documentation against the code:

| Run | The sentence | What happens |
|---|---|---|
| `probe_leak` | "Exactly one request is then permitted as a half-open recovery probe. Success closes the circuit; failure reopens it." (`README.md:61`) | With `PROVIDER_RATE_PER_SECOND` below one per recovery interval (0.1 per second by default) the breaker sets its probe flag and the bucket rejects the probe. No call decides the circuit and no later call is let through, until the process ends. |
| `stale_success` | "Open circuits reject traffic until their recovery interval passes." (`README.md:61`) | A call admitted before the circuit opened succeeds and closes it. |
| `leaked_reservation` | "settles the reservation against returned usage" (`README.md:168`); a test asserts that a failed call leaves no reservation | A request cut off by its deadline leaves its reservation behind. This is on the safe side for the bill, and it uses the budget up. |
| `same_key_twice` | "Repeating the same client ID, idempotency key, and payload returns the stored response. Reusing the key with a different payload returns HTTP 409." (`README.md:111`) | Two requests in flight together are both executed. |

Seven more observations follow from the same definitions and have no run of their own:

* When the recovery interval is not longer than the deadline, as in `evaluation/faults.py` and
  not in the defaults, a late failure clears the flag of a running probe
  (`reliability.py:78`) and a second probe is admitted beside it. `HalfOpenAlone` therefore
  has `Timeout < RecoveryTimeout` as its premise.
* An answer that was billed and is not of the expected shape, or a call whose answer was lost,
  is released (`bedrock.py:119`, `:147`), and the money is spent again: the bill can pass the
  limit, which `docs/cloud-validation.md:49` calls "the authoritative spending guard".
  `BillCovered` therefore sets what was given up by a release aside (`unrecorded`).
* A replay of a completion adds its stored `fallback_count` to the counter again
  (`telemetry.py:215`); `TelemetryAgrees` says what the counter counts, which is the fallbacks
  of all the answers given.
* A store that is reachable and never answers is awaited without a deadline: `RedisKeyValue`
  sets none and the fail-open wrapper catches errors only (`cache.py:81`), whereas `cache.py:73`
  says "cache outages must not stop inference". `RequestsEnd` has a store that answers or fails
  as an assumption.
* With the cache on, which is the default, the paid validation is answered from it from the
  second request on: one call of Bedrock, and the cost it is told is counted again each time
  (`cloud.py:186`). `BooksAgree` therefore says that the client's count is exact without a cache
  and never too low with one; the successes of such a report are not calls of Bedrock.
* What was billed for a call that was cut off or discarded is 0 for the client and, as above, 0
  for the session's budget. `CeilingPassedOnce` bounds what the client has counted, not the bill.
* The preflight of the paid validation asks for a model named `bedrock-primary` that is not
  simulated: an Ollama with `OLLAMA_MODEL_ALIAS=bedrock-primary` passes it (`cloud.py:159`).
  Nothing is billed then. An alias `auto` passes `validate` as well and can never be asked for,
  since the router takes the word as no model at all; `Routing` assumes that no model is so
  named.

**Why the bounds are enough.** Three requests are the least with which two in progress and a
newcomer, or two late failures and a probe, come together; the breaker's threshold is 2 so that
a failure that does not open it is among them, and 1 where it must open at once. `MaxTime`
leaves every call admitted until `LastArrival` the time to run into its deadline and its circuit
the time to recover. Tokens that take more than a tick make the bucket's fractions matter. The
spending limit pays for some of the requests and not all, in every order. One fault at every
place, with three requests, shows every single failure before, in and after a retry. Three
providers are the least where a fallback has a choice again after one has failed. Where a
property does not need bounds it is proved. With three samples only the median's rank is a
boundary that TLC sees; those of p95 and p99 take twenty and a hundred, and are proved.

A restart lets a request survive its process in the service and be followed by another session,
and with three requests up to three bills can exceed what was reserved for them. A
validation of two requests stops at its ceiling after the first or goes past it with the second.
The stalls of `fault_matrix` are longer than the deadline, the sleep and the short recovery, in
every order, and one tick short of the long recovery, from where on `open_circuit_isolation`
really fails; a stall of ten seconds is what that takes.

Deadlock is not checked where the bounds (last arrival, one-shot requests) let a run end by
itself; `rate_limiter` and `memory_store`, which have no such end, do check it.

**Fairness.** `ProviderRuntime` assumes of the loop that time goes on and that the deadline of a
running call is delivered, and nothing of providers or clients: `asyncio.timeout` arms a timer
before the provider is awaited. `Gateway` assumes that the handler goes on when it can, that
calls of the runtime return (which `CallsReturn` shows) and that a store answers or fails; the
last is an assumption about Redis that the code does not enforce, see above. `LoadGenerator`
assumes that the loop runs its workers and that every post ends. The timeout of an `httpx` client
is for each connect, read and write, not for a whole post: the assumption is that an answer of
the gateway, which is sent as one body, does not arrive in ever smaller pieces.
`CloudValidation` assumes that the script goes on, that the gateway answers what it has decided,
and that the runtime's deadline cuts a request off; nothing is assumed of Bedrock. `FaultMatrix`
is one sequence of steps with a clock, of which some step is always taken.

## What is proved

All theorems hold for every value of the constants under the named assumptions of the modules
(`BreakerAssumption`, `BucketAssumption`, `RuntimeAssumption`, `TimeAssumption`,
`BudgetAssumption`, `StoreAssumption`, `RoutingAssumption`, `GatewayAssumption`,
`RecordAssumption`, `TrialAssumption`, `EnvironmentAssumption`, `MatrixAssumption`,
`NameAssumption`, `LoadAssumption`), which say that sizes are natural numbers, the request sets are finite,
periods and units are positive, that a payload's estimate and weights and a sample's latency,
cost and fallbacks are whole numbers, that the
requests of a validation are distinct and the limit is the budget its environments set, that
the value for "nothing" is no payload, key, record, completion or result, and that `auto` is the
name of no provider of the fault matrix. TLC evaluates them on
every run.

* **Runtime** (`ProviderRuntimeProofs`). The invariants come in three layers, each inductive
  relative to the one before. The base layer is `TypeOK`, `Accounting`, `PermitsConserved`,
  `BreakerCoherent`, that a running call is not past its deadline, and `LatencyWithinDeadline`:
  permits stay in range only because they are what the running calls leave free. On top of it,
  every call still running in an open circuit was admitted no later than `openSince`, when the
  circuit became open, and `opened_at` is at most a deadline past that: a failure that moves
  `opened_at` comes from such a call, which ends by its deadline. This gives `OutageBounded`.
  With `Timeout < RecoveryTimeout` it follows that an open circuit has no call left when its
  interval is over (`OpenDrains`), and that is what `HalfOpenAlone` and `ProbeDecides` need.
  `ProbeNeverRejected` needs besides that the bucket earns a token in a recovery interval: then
  at the end of the interval it has a token and, nothing running, the bulkhead has a permit.
  `CallsWithinRate` carries the promise of the rate limiter to the provider behind it: for any count
  of calls and any moment, when a window begins there, the calls from then on are paid for by the
  capacity and the refill of the window. No history variable marks the window; the theorem is about
  a fixed count and moment, and `WindowInv` holds from the state on in which they meet. A token that
  a request takes before the bulkhead rejects it only makes the balance better. No run checks it.
* **Rate limiter** (`RateLimiterProofs`). The inductive invariant weighs the tokens granted in
  the window against capacity, refill and what is in the bucket; `NoStarvation` needs the
  lemma that a refill in two steps is worth one refill, which truncation would break.
* **Budget** (the first part of `CloudValidationProofs`). Sums over requests are written as sizes of sets of
  units, so that raising or dropping one request's share is a lemma about cardinality
  (`SumUp`, `SumDown`, `SumSplit`). Type correctness and `ReservedIsHeld` hold whatever the service bills;
  so do `WithinLimit`, `BillCovered`, `BillBySessions` and the refinement of `SpendCeiling`, which
  say by how much. The reservation of a request covers its charge up to one `Overrun`, so the guard
  can be wrong about as many overruns as there are requests that are served and over (`Excess`),
  and about none of those still to be settled: `ChargesCovered` compares the units charged with the
  units held and one `Overrun` of units for each request outstanding. With `Overrun = 0` the four are
  the plain limits. A restart moves what is held from the reservations to what former processes may
  still be billed for (`HeldBefore`), which is why the bill is bounded by the sessions.
* **Cloud validation** (the rest of it). `CloudKeepsBudget` shows that the whole
  implements `BedrockProvider`: scripts, cache and configuration leave the budget's variables
  alone or take one of its steps. The budget's theorems hold of it therefore
  (`CloudWithinBudget`). `BillsArePurposeful` follows what started a request back to the
  environment; `ClientStopsInTime` is inductive with what is known of the count while a post
  is on its way. `ClientKeepsBooks` compares what the client has counted with the prices its
  requests were settled for, a sum over them. `PriceInv` adds what the sum needs: a request has no
  price before it is settled, one that has not been posted none at all, nothing is priced behind
  a model that is not Bedrock's, and without a cache nothing is stored.
* **Process-local store** (`MemoryKeyValueProofs`). Type correctness and the refinement of
  `KeyValue`, by the value of the mapping for each key before and after each action.

* **Gateway** (`GatewayProofs`). Five invariants, each inductive with the ones before it.
  `TypeInv` adds to the types what each phase implies of its request: a request that has not
  come owns nothing, one that stores has a key, one that answers has an attempt and a result.
  `AttemptsInv` says that what was tried and is not being tried is exactly what is excluded;
  routing never returns an excluded provider (`RouteSound`), so no attempt repeats one, which
  is `AttemptsAreFair`. `FallbackInv` says that a request that is given up has tried whoever it
  may, and that no attempt was worse for its policy than what was left at its turn. Two facts about
  `Routing` carry it: in every finite, non-empty list of candidates each policy finds one
  (`RouteFinds`), and what it finds is beaten by none (`RouteBest`). They are where an induction
  over the candidates would stand; it is done by taking a least element of a well-founded order,
  for which the library has a first-order theorem. The attempt limit cuts
  nothing short because a request that has failed as many providers as there are has failed all
  (`LimitTriesAll`). `GivesUpAfterAll` and `BestFirst` follow. `ProvenanceInv` follows
  a text from the call through the request that holds it, the cache entry and the record to the
  answer: at each place it is filed under the provider, question, payload and key it was made for,
  and these no longer change once the request has come (`RequestKept`). It gives `CacheIsGenuine`
  and `RightfulAnswer`. `DebtsInv` says that a settled key has its record and that a request owed
  it has not left the lookup; it gives `NoReexecution`.
* **Counters of the gateway** (the second part of `GatewayProofs`). `TelemetryAgrees` and `StatisticsAgree`
  compare counters with sums over requests, which are written as sizes of sets. A step changes the
  place of one request only (`Alone`), so that each of these sets gains or loses at most what is
  that request's (`CountMoves`, `TaggedAdds`), as the counter does; a restart empties both. Where a
  request stands when it is counted, and that it is counted once, is `LifeInv`. The bounded buffer
  of events needs a shift (`PlacesShift`): a new event pushes out at most the last one, so that no
  event is in it more often than it was told.
* **Load run** (`LoadGeneratorProofs`). Types and places together are inductive as they stand; with
  "a worker returns only from an empty queue" they give that the samples of a run are of all its
  requests, one of each (`RunsAreComplete`), which is what the report is computed from.
  Percentiles (`PercentilesAreNearest`): any list can be sorted, since the place of a value is the
  number of those that come no later, equal values in the order they were listed (`OrderExists`);
  the order reaches every value (`OrderSorts`), so that the places up to the rank hold values not
  above the percentile, all that is below it stands before the rank, and `RankBounds` relates the
  rank to the share. The report (`ReportsAreComplete`): every field of it is a weight
  that each answer has, 1 or its cost or its fallbacks. `Balance` says for a field that what the
  runs that are over have recorded of a profile, with what the samples of the present run weigh if
  it is the profile's turn, is what the profile's answers weigh. An answer adds its weight to both
  sides (`BalanceResponds`), and the end of a run moves the weight of its samples into its summary
  (`BalanceFinishes`), which is what `Summarize` computes (`SummaryWeighs`). The lemmas on `Total`
  are about sets of units: one summand grows, zeros are left out, all are equal. That the requests
  of a report are `Repetitions * Count` needs besides that the runs of a profile are those of its
  turn, by `Division`. The matrix's profiles are distinct, answers are finitely many, and
  latencies, costs and fallbacks are whole numbers in some unit.

* **Fault matrix** (`FaultMatrixProofs`). `ScenariosAlwaysPass` holds for any deadline, recovery and
  sleep, any number of repetitions and any stalls of which `MatrixAssumption` holds: the deadline
  is shorter than the hang, the sleep before the probe no shorter than the recovery, and the stalls
  of a scenario shorter than the long recovery. `MatrixInv` lists the points each scenario goes
  through and what is known at each: who has been called and with what outcome, what is excluded,
  and since when the circuit is open. Two points are about time. In `open_circuit_isolation` the clock has gone on
  by stalls only, so that the second request still finds the circuit open; in `half_open_recovery`
  the sleep begins after the failure, so that the probe finds the recovery over. Under it lie what
  `Routing` answers for the harness's providers (the cheapest that is left, and an explicit model's
  own provider or nobody) and what one call leaves of its circuit (`RaisesLeaves`, `ReturnsLeaves`
  and so on), each a lemma for any provider.

Only model-checked: the liveness properties (`CallsReturn`, `OpenEnds`, `ProbeResolves`,
`ValidationEnds`, `RequestsEnd`, `MatrixEnds`, `MatrixCompletes`), which are out of the prover's
reach.

## Not modelled

Float rounding, the contents of prompts and answers, HTTP and its headers with the gauge and the
counters of the middleware, tracing, Redis itself (its store is the model's, with failures),
records of another version of the program in it, and replicas that have no Redis: nothing in the
program makes a promise about these two. Of the settings, those that are the range of one value.
The dashboard, which shows what the endpoints return, and deployment files. Two
runtimes share no state, so one is modelled; a snapshot of the health report only reads. The
cancellation of a handler by its client is not modelled: a client that gives up leaves its
request running, and its retry is another request of the model.

Requests that the handler refuses before it looks at anything it keeps are left out: streaming
(501), an empty or unpaired idempotency header (400). Bedrock serves a request at most once and
none after its reservation was released; that the SDK sends a request again by itself is not
modelled. A mock is answered with cost 0 in `CloudValidation`, where the free validation compares
the cost with nothing.

## Plan

Every invariant, action property and refinement that a run checks is proved, and the rate limit
and the budget are proved beyond what the runs can show.
What is left is to look for promises of the whole that its parts do not make alone.
