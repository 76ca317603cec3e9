------------------------------ MODULE Gateway ------------------------------
(***************************************************************************)
(* The completion endpoint (main.py, chat_completion): concurrent requests *)
(* that look up their idempotency key, are routed, answered from the cache *)
(* or by a provider, fall back to other providers, store what they answer  *)
(* and count what they did.  Routing is the module of that name, the stores*)
(* are those of cache.py over Redis or memory, a provider call is          *)
(* ReliabilityManager's invoke, of which only the outcome matters here.    *)
(*                                                                         *)
(* Every await of the handler is a point where other requests may run.     *)
(* Some of them do not really suspend on one event loop; the model has     *)
(* their interleavings too, as several replicas on one Redis have them.    *)
(* The answer of a store takes effect when the handler goes on with it.    *)
(*                                                                         *)
(* A request's payload is what the fingerprint is taken of: its question   *)
(* (what the exact cache keys on, besides the provider) and its routing    *)
(* options.  A pair of client and idempotency key is the key of its record.*)
(***************************************************************************)
EXTENDS Routing, Observability

CONSTANTS
  Requests,
  Payloads,      \* what clients send: a set of records, see Routing
  Keys,          \* idempotency keys
  Durable,       \* whether the stores outlive the gateway (Redis)
  RecentEvents,  \* telemetry_recent_events_limit
  MaxFaults      \* bound: lost store calls, expiries and restarts

ASSUME GatewayAssumption ==
  /\ IsFiniteSet(Requests)
  /\ \A q \in Payloads :
       DOMAIN q = PayloadFields /\ q.cached \in BOOLEAN /\ Measured(q)
  /\ Durable \in BOOLEAN
  /\ RecentEvents \in Nat \ {0}
  /\ MaxFaults \in Nat
  /\ None \notin Keys \cup Payloads

VARIABLES
  phase,         \* where each request is in the handler
  payload, key,  \* what it sent
  tried,         \* attempted
  excluded,
  result,
  answer,        \* the completion it was given
  cache,         \* exact responses: per provider and question
  records,       \* idempotency records
  rrIndex,       \* the round-robin index
  telemetry,     \* Telemetry
  statistics,    \* CacheStatistics, of both stores
  settled,       \* history: keys with an answer delivered and not lost since
  owed,          \* history: requests that came with a settled key
  faults,        \* how many faults there were
  before         \* history: requests that came before the last restart

request == <<payload, key, tried, excluded, result, answer>>
stores == <<cache, records>>
history == <<settled, owed, faults, before>>
counters == <<telemetry, statistics>>
vars == <<phase, request, stores, rrIndex, counters, history>>

Question(q) ==
  [model |-> q.model, prompt |-> q.prompt, max_tokens |-> q.max_tokens]

Entries == Providers \X {Question(q) : q \in Payloads}
Results == [by: Providers, to: {Question(q) : q \in Payloads}, run: Requests]
Completions ==
  [of: Requests, by: Providers, result: Results, fallbacks: Nat]
Records == [payload: Payloads, completion: Completions]

ASSUME RecordAssumption == None \notin Records \cup Completions \cup Results

Init ==
  /\ phase = [r \in Requests |-> "new"]
  /\ payload = [r \in Requests |-> None]
  /\ key = [r \in Requests |-> None]
  /\ tried = [r \in Requests |-> <<>>]
  /\ excluded = [r \in Requests |-> {}]
  /\ result = [r \in Requests |-> None]
  /\ answer = [r \in Requests |-> None]
  /\ cache = [e \in Entries |-> None]
  /\ records = [k \in Keys |-> None]
  /\ rrIndex = 0
  /\ telemetry = InitTelemetry(Providers)
  /\ statistics = InitStatistics
  /\ settled = {} /\ owed = {}
  /\ faults = 0
  /\ before = {}

\* What telemetry records of a completion.
Event(completion, status) ==
  [request_id |-> completion.of, provider |-> completion.by,
   cache_status |-> status, fallbacks |-> completion.fallbacks]

Tells(completion, status) ==
  telemetry' = RecordInference(telemetry, Event(completion, status), RecentEvents)

Goes(r, here, next) ==
  /\ phase[r] = here
  /\ phase' = [phase EXCEPT ![r] = next]

Fault ==
  /\ faults < MaxFaults
  /\ faults' = faults + 1

Counts(field) == statistics' = Count(statistics, field)

-----------------------------------------------------------------------------
(* Arrival and the idempotency lookup                                      *)

Simulated == {p \in Providers : Descriptor[p].simulated}

Invalid(q) == q.failing \notin Simulated \cup {None}

Arrive(r, q, k) ==
  /\ Goes(r, "new", IF Invalid(q) THEN "invalid"
                    ELSE IF k = None THEN "routing" ELSE "replaying")
  /\ payload' = [payload EXCEPT ![r] = q]
  /\ key' = [key EXCEPT ![r] = k]
  /\ owed' = IF k \in settled THEN owed \cup {r} ELSE owed
  /\ UNCHANGED <<tried, excluded, result, answer, stores, rrIndex, counters,
                 settled, faults, before>>

\* The routing options are left out of the fingerprint.
SameQuestion(q, p) == Question(q) = Question(p)

SameFingerprint(q, p) == q = p

\* A stored completion is returned and counted again, a stored payload that
\* is another one is a conflict.
Replay(r) ==
  LET found == records[key[r]]
  IN  /\ phase[r] = "replaying"
      /\ found # None
      /\ IF SameFingerprint(found.payload, payload[r])
         THEN /\ Goes(r, "replaying", "replayed")
              /\ answer' = [answer EXCEPT ![r] = found.completion]
              /\ Counts("idempotent_replays")
              /\ Tells(found.completion, "REPLAY")
         ELSE /\ Goes(r, "replaying", "conflict")
              /\ Counts("idempotency_conflicts")
              /\ UNCHANGED <<answer, telemetry>>
      /\ UNCHANGED <<payload, key, tried, excluded, result, stores, rrIndex,
                     history>>

NothingToReplay(r) ==
  /\ Goes(r, "replaying", "routing")
  /\ records[key[r]] = None
  /\ UNCHANGED <<request, stores, rrIndex, counters, history>>

\* The store failed, or its answer made no sense: the request goes on.
ReplayFails(r) ==
  /\ Goes(r, "replaying", "routing")
  /\ Fault
  /\ Counts("backend_errors")
  /\ owed' = owed \ {r}
  /\ UNCHANGED <<request, stores, rrIndex, telemetry, settled, before>>

-----------------------------------------------------------------------------
(* The attempts                                                            *)

\* One attempt less than there are providers.
AttemptsShort(q) ==
  IF q.model = AutoModel /\ Len(Registry) > 1 THEN Len(Registry) - 1 ELSE 1

MaxAttempts(q) == IF q.model = AutoModel THEN Len(Registry) ELSE 1

\* Nothing is checked after the loop.
AgainUnchecked(r, attempts) ==
  IF Len(attempts) < MaxAttempts(payload[r]) THEN "routing" ELSE "answering"

\* Where the loop goes when an attempt has failed.
Again(r, attempts) ==
  IF Len(attempts) < MaxAttempts(payload[r]) THEN "routing" ELSE "exhausted"

UnknownModel(r) ==
  /\ Goes(r, "routing", "unknown")
  /\ payload[r].model # AutoModel /\ Offering(payload[r].model) = {}
  /\ UNCHANGED <<request, stores, rrIndex, counters, history>>

\* A request that has lost its last provider waits for one to come back.
NoEligibleAtFirst(r) ==
  /\ Goes(r, "routing", "ineligible")
  /\ tried[r] = <<>>
  /\ payload[r].model = AutoModel \/ Offering(payload[r].model) # {}
  /\ Route(payload[r], excluded[r], rrIndex) = {}
  /\ UNCHANGED <<request, stores, rrIndex, counters, history>>

NoEligible(r) ==
  /\ Goes(r, "routing", IF tried[r] = <<>> THEN "ineligible" ELSE "exhausted")
  /\ payload[r].model = AutoModel \/ Offering(payload[r].model) # {}
  /\ Route(payload[r], excluded[r], rrIndex) = {}
  /\ UNCHANGED <<request, stores, rrIndex, counters, history>>

Selected(r, p) ==
  /\ phase[r] = "routing"
  /\ p \in Route(payload[r], excluded[r], rrIndex)
  /\ tried' = [tried EXCEPT ![r] = Append(@, p)]
  /\ rrIndex' = IF RoundRobin(payload[r]) THEN rrIndex + 1 ELSE rrIndex

Select(r, p) ==
  /\ Selected(r, p)
  /\ p # payload[r].failing
  /\ Goes(r, "routing", IF payload[r].cached THEN "reading" ELSE "calling")
  /\ UNCHANGED <<payload, key, excluded, result, answer, stores, counters,
                 history>>

\* The loop goes on before the failed provider is excluded.
SimulateWithoutExcluding(r, p) ==
  /\ Selected(r, p)
  /\ p = payload[r].failing
  /\ Goes(r, "routing", Again(r, tried'[r]))
  /\ telemetry' = RecordProviderCall(telemetry, p, "failure")
  /\ UNCHANGED <<payload, key, excluded, result, answer, stores, statistics,
                 history>>

SimulateFailure(r, p) ==
  /\ Selected(r, p)
  /\ p = payload[r].failing
  /\ Goes(r, "routing", Again(r, tried'[r]))
  /\ excluded' = [excluded EXCEPT ![r] = @ \cup {p}]
  /\ telemetry' = RecordProviderCall(telemetry, p, "failure")
  /\ UNCHANGED <<payload, key, result, answer, stores, statistics, history>>

-----------------------------------------------------------------------------
(* One attempt: cache, provider, cache                                     *)

Chosen(r) == tried[r][Len(tried[r])]

\* The entry is named after the first provider that was tried.
FirstEntry(r) == <<tried[r][1], Question(payload[r])>>

Entry(r) == <<Chosen(r), Question(payload[r])>>

\* With a key, the completion is stored before it is given.
Finish(r, here) == Goes(r, here, IF key[r] = None THEN "answering" ELSE "storing")

CacheHit(r) ==
  /\ Finish(r, "reading")
  /\ cache[Entry(r)] # None
  /\ result' = [result EXCEPT ![r] = cache[Entry(r)]]
  /\ Counts("hits")
  /\ UNCHANGED <<payload, key, tried, excluded, answer, stores, rrIndex,
                 telemetry, history>>

CacheMiss(r) ==
  /\ Goes(r, "reading", "calling")
  /\ cache[Entry(r)] = None
  /\ Counts("misses")
  /\ UNCHANGED <<request, stores, rrIndex, telemetry, history>>

\* A lookup that failed is counted as an error only.
CacheReadFailsUncounted(r) ==
  /\ Goes(r, "reading", "calling")
  /\ Fault
  /\ Counts("backend_errors")
  /\ UNCHANGED <<request, stores, rrIndex, telemetry, settled, owed, before>>

\* The store failed, or its answer made no sense.
CacheReadFails(r) ==
  /\ Goes(r, "reading", "calling")
  /\ Fault
  /\ statistics' = Count(Count(statistics, "backend_errors"), "misses")
  /\ UNCHANGED <<request, stores, rrIndex, telemetry, settled, owed, before>>

CallSucceeds(r) ==
  /\ phase[r] = "calling"
  /\ result' = [result EXCEPT ![r] =
       [by |-> Chosen(r), to |-> Question(payload[r]), run |-> r]]
  /\ IF payload[r].cached THEN Goes(r, "calling", "writing")
     ELSE Finish(r, "calling")
  /\ telemetry' = RecordProviderCall(telemetry, Chosen(r), "success")
  /\ UNCHANGED <<payload, key, tried, excluded, answer, stores, rrIndex,
                 statistics, history>>

\* Rejected, failed or timed out: every error of the runtime.
CallFails(r) ==
  /\ Goes(r, "calling", Again(r, tried[r]))
  /\ excluded' = [excluded EXCEPT ![r] = @ \cup {Chosen(r)}]
  /\ telemetry' = RecordProviderCall(telemetry, Chosen(r), "failure")
  /\ UNCHANGED <<payload, key, tried, result, answer, stores, rrIndex,
                 statistics, history>>

CacheWrite(r) ==
  /\ Finish(r, "writing")
  /\ cache' = [cache EXCEPT ![Entry(r)] = result[r]]
  /\ Counts("writes")
  /\ UNCHANGED <<request, records, rrIndex, telemetry, history>>

\* Whether a failed write took effect is not known; it is counted as one.
CacheWriteFails(r) ==
  /\ Finish(r, "writing")
  /\ Fault
  /\ cache' \in {cache, [cache EXCEPT ![Entry(r)] = result[r]]}
  /\ statistics' = Count(Count(statistics, "backend_errors"), "writes")
  /\ UNCHANGED <<request, records, rrIndex, telemetry, settled, owed, before>>

-----------------------------------------------------------------------------
(* The completion                                                          *)

Completion(r) ==
  [of |-> r, by |-> Chosen(r), result |-> result[r],
   fallbacks |-> Len(tried[r]) - 1]

Record(r) == [payload |-> payload[r], completion |-> Completion(r)]

\* Whether the result is another request's, from the cache.
Hit(r) == result[r] # None /\ result[r].run # r

CacheStatus(r) == IF ~payload[r].cached THEN "BYPASS"
                  ELSE IF Hit(r) THEN "HIT" ELSE "MISS"

Answer(r, here) ==
  /\ Goes(r, here, "answered")
  /\ answer' = [answer EXCEPT ![r] = Completion(r)]
  /\ Tells(Completion(r), CacheStatus(r))
  /\ UNCHANGED <<payload, key, tried, excluded, result, cache, rrIndex>>

Respond(r) ==
  /\ Answer(r, "answering")
  /\ UNCHANGED <<records, statistics, history>>

\* The answer is given first and stored in the background, if ever.
StoreLater(r) ==
  /\ Answer(r, "storing")
  /\ records' \in {records, [records EXCEPT ![key[r]] = Record(r)]}
  /\ settled' = settled \cup {key[r]}
  /\ UNCHANGED <<statistics, owed, faults, before>>

Store(r) ==
  /\ Answer(r, "storing")
  /\ records' = [records EXCEPT ![key[r]] = Record(r)]
  /\ settled' = settled \cup {key[r]}
  /\ UNCHANGED <<statistics, owed, faults, before>>

StoreFails(r) ==
  /\ Answer(r, "storing")
  /\ Fault
  /\ records' \in {records, [records EXCEPT ![key[r]] = Record(r)]}
  /\ Counts("backend_errors")
  /\ UNCHANGED <<settled, owed, before>>

-----------------------------------------------------------------------------
(* What happens to the stores and to the gateway                           *)

ForgetRecord(k) ==
  /\ records[k] # None
  /\ Fault
  /\ records' = [records EXCEPT ![k] = None]
  /\ settled' = settled \ {k}
  /\ owed' = {r \in owed : key[r] # k}
  /\ UNCHANGED <<phase, request, cache, rrIndex, counters, before>>

ForgetResponse(e) ==
  /\ cache[e] # None
  /\ Fault
  /\ cache' = [cache EXCEPT ![e] = None]
  /\ UNCHANGED <<phase, request, records, rrIndex, counters, settled, owed,
                 before>>

Ended == {"invalid", "replayed", "conflict", "unknown", "ineligible",
          "exhausted", "answered", "lost"}

\* The process is replaced. Requests in the handler are lost, and what lives
\* in its memory; clients may send them again.
Restart ==
  /\ Fault
  /\ phase' = [r \in Requests |->
                 IF phase[r] \in Ended \cup {"new"} THEN phase[r] ELSE "lost"]
  /\ rrIndex' = 0
  /\ telemetry' = InitTelemetry(Providers)
  /\ statistics' = InitStatistics
  /\ before' = {r \in Requests : phase[r] # "new"}
  /\ IF Durable THEN UNCHANGED <<stores, settled, owed>>
     ELSE /\ cache' = [e \in Entries |-> None]
          /\ records' = [k \in Keys |-> None]
          /\ settled' = {} /\ owed' = {}
  /\ UNCHANGED request

Handles(r) ==
  \/ UnknownModel(r) \/ NoEligible(r)
  \/ /\ phase[r] = "routing"
     /\ \E p \in Route(payload[r], excluded[r], rrIndex) :
          Select(r, p) \/ SimulateFailure(r, p)
  \/ Respond(r)

Invokes(r) == CallSucceeds(r) \/ CallFails(r)

StoreAnswers(r) ==
  \/ Replay(r) \/ NothingToReplay(r) \/ ReplayFails(r)
  \/ CacheHit(r) \/ CacheMiss(r) \/ CacheReadFails(r)
  \/ CacheWrite(r) \/ CacheWriteFails(r)
  \/ Store(r) \/ StoreFails(r)

Next ==
  \/ \E r \in Requests :
       \/ \E q \in Payloads, k \in Keys \cup {None} : Arrive(r, q, k)
       \/ Handles(r)
       \/ Invokes(r)
       \/ StoreAnswers(r)
  \/ \E k \in Keys : ForgetRecord(k)
  \/ \E e \in Entries : ForgetResponse(e)
  \/ Restart

Spec == Init /\ [][Next]_vars

\* The event loop runs what is ready, the runtime returns every call (its
\* deadline, see ProviderRuntime), and a store answers or fails. A restart, an
\* expiry or a new request need not happen.
Fairness ==
  \A r \in Requests :
    WF_vars(Handles(r)) /\ WF_vars(Invokes(r)) /\ WF_vars(StoreAnswers(r))

LiveSpec == Spec /\ Fairness

-----------------------------------------------------------------------------
Phases == Ended \cup {"new", "replaying", "routing", "reading", "calling",
                      "writing", "answering", "storing"}

TypeOK ==
  /\ phase \in [Requests -> Phases]
  /\ payload \in [Requests -> Payloads \cup {None}]
  /\ key \in [Requests -> Keys \cup {None}]
  /\ tried \in [Requests -> Seq(Providers)]
  /\ excluded \in [Requests -> SUBSET Providers]
  /\ result \in [Requests -> Results \cup {None}]
  /\ answer \in [Requests -> Completions \cup {None}]
  /\ cache \in [Entries -> Results \cup {None}]
  /\ records \in [Keys -> Records \cup {None}]
  /\ telemetry \in Counted(Requests, Providers)
  /\ statistics \in CacheStatistics
  /\ rrIndex \in Nat /\ faults \in Nat
  /\ settled \subseteq Keys
  /\ owed \subseteq Requests /\ before \subseteq Requests

Tried(r) == Range(tried[r])

\* Over all its fallbacks a request tries no provider twice, none that its
\* constraints rule out, and with an explicit model no other than that one.
AttemptsAreFair ==
  \A r \in Requests :
    /\ Cardinality(Tried(r)) = Len(tried[r])
    /\ tried[r] # <<>> => Tried(r) \subseteq Permitted(payload[r])
    /\ tried[r] # <<>> /\ payload[r].model # AutoModel
         => Tried(r) \subseteq Offering(payload[r].model)

\* A routed request is given up (HTTP 503) only when every provider that
\* satisfies its constraints has been tried and has failed it; the attempt
\* limit of the loop never cuts the fallbacks short.
GivesUpAfterAll ==
  \A r \in Requests :
    phase[r] = "exhausted" =>
      /\ tried[r] # <<>>
      /\ Tried(r) = excluded[r]
      /\ payload[r].model = AutoModel /\ payload[r].policy # "single_provider"
           => Tried(r) = Permitted(payload[r])

\* Over all its fallbacks a request takes, each time, a provider that is not
\* worse for its policy than any permitted one it has not tried yet.
BestFirst ==
  \A r \in Requests :
    \A i \in 1 .. Len(tried[r]) :
      payload[r].model = AutoModel =>
        LET left == Permitted(payload[r]) \ {tried[r][j] : j \in 1 .. i - 1}
        IN  \A o \in left : NoWorse(tried[r][i], o, left, payload[r])

\* Whether it was computed, cached or replayed, the completion a request gets
\* answers its own question, names the provider that produced the text, and
\* that provider satisfies the constraints of this request; a replay is the
\* completion of a request with the same key and the same payload.
RightfulAnswer ==
  \A r \in Requests :
    answer[r] # None =>
      LET c == answer[r]
      IN  /\ c.result.by = c.by
          /\ c.result.to = Question(payload[r])
          /\ c.by \in Permitted(payload[r])
          /\ payload[c.of] = payload[r] /\ key[c.of] = key[r]

\* A cached response was produced by the provider and for the question it is
\* filed under, by a request that uses the cache.
CacheIsGenuine ==
  \A e \in Entries :
    cache[e] # None =>
      /\ cache[e].by = e[1]
      /\ cache[e].to = e[2]
      /\ payload[cache[e].run].cached

\* A request whose key already has an answer, delivered before it came and
\* not lost since, is never executed again: it is answered from the record or
\* told that its payload is another one.
NoReexecution ==
  \A r \in owed : phase[r] \in {"invalid", "replaying", "replayed",
                               "conflict", "lost"}

\* What this process is asked, and what it has answered.
Own == Requests \ before
Given == {r \in Own : answer[r] # None}

Computed(r) == result[r] # None /\ ~Hit(r)

EventOf(r) ==
  Event(answer[r], IF result[r] = None THEN "REPLAY" ELSE CacheStatus(r))

\* The telemetry of this process agrees with what its requests met: completed
\* requests, cache hits, replays, the fallbacks of every answer that was given,
\* and for each provider the attempts that failed (injected failures are among
\* them) and those that succeeded. The recent events are of answers that were
\* given, each once, a replay under the name of the request that was executed;
\* and while there are no more answers than the buffer holds they are all there.
TelemetryAgrees ==
  LET events == telemetry.events
  IN  /\ telemetry.completed = Cardinality(Given)
      /\ telemetry.hits = Cardinality({r \in Given : Hit(r)})
      /\ telemetry.replays = Cardinality({r \in Given : result[r] = None})
      /\ telemetry.fallbacks =
           Cardinality(UNION {{r} \X (1 .. answer[r].fallbacks) : r \in Given})
      /\ \A p \in Providers :
           /\ telemetry.calls[p]["failure"] =
                Cardinality({r \in Own : p \in excluded[r]})
           /\ telemetry.calls[p]["success"] =
                Cardinality({r \in Own : Computed(r) /\ Chosen(r) = p})
      /\ Len(events) = Min({RecentEvents, Cardinality(Given)})
      /\ \A e \in Range(events) :
           Cardinality({i \in DOMAIN events : events[i] = e})
             <= Cardinality({r \in Given : EventOf(r) = e})

\* The lookups of a request that have returned: one for each attempt, but those
\* that were made to fail.
LookedUp(r) ==
  Tried(r) \ ({payload[r].failing} \cup IF phase[r] = "reading" THEN {Chosen(r)}
                                        ELSE {})

\* The cache statistics agree with it too: every lookup that returned is a hit
\* or a miss, also when the store failed, and every computed result of a request
\* that uses the cache is a write, also when the store lost it.
StatisticsAgree ==
  LET using == {r \in Own : payload[r] # None /\ payload[r].cached}
  IN  /\ statistics.hits = Cardinality({r \in using : Hit(r)})
      /\ statistics.hits + statistics.misses =
           Cardinality(UNION {{r} \X LookedUp(r) : r \in using})
      /\ statistics.writes =
           Cardinality({r \in using : Computed(r) /\ phase[r] # "writing"})
      /\ statistics.idempotent_replays = telemetry.replays
      /\ statistics.idempotency_conflicts =
           Cardinality({r \in Own : phase[r] = "conflict"})
      /\ statistics.backend_errors <= faults

\* All the answers given under one key are one answer, to one payload.
KeyNamesOneAnswer ==
  \A r, s \in Requests :
    key[r] # None /\ key[r] = key[s] /\ answer[r] # None /\ answer[s] # None
      => answer[r] = answer[s] /\ payload[r] = payload[s]

\* Every request that came is eventually answered, refused or given up.
RequestsEnd ==
  \A r \in Requests : phase[r] # "new" ~> phase[r] \in Ended
=============================================================================
