--------------------------- MODULE Observability ---------------------------
(***************************************************************************)
(* What the gateway counts: Telemetry (telemetry.py), the aggregates of    *)
(* its summary and of its Prometheus counters with the last few events,    *)
(* and CacheStatistics (cache.py).  Both are records; the operators below  *)
(* are their methods.  Latencies, costs, policies, times and traces are    *)
(* left out.                                                               *)
(***************************************************************************)
EXTENDS Integers, Sequences

Outcomes == {"success", "failure"}

Statuses == {"HIT", "MISS", "BYPASS", "REPLAY"}

\* Of requests in R that providers in P answered.
InferenceEvents(R, P) ==
  [request_id: R, provider: P, cache_status: Statuses, fallbacks: Nat]

Counted(R, P) ==
  [completed: Nat, hits: Nat, replays: Nat, fallbacks: Nat,
   calls: [P -> [Outcomes -> Nat]], events: Seq(InferenceEvents(R, P))]

InitTelemetry(P) ==
  [completed |-> 0, hits |-> 0, replays |-> 0, fallbacks |-> 0,
   calls |-> [p \in P |-> [o \in Outcomes |-> 0]], events |-> <<>>]

RecordProviderCall(t, p, outcome) == [t EXCEPT !.calls[p][outcome] = @ + 1]

\* A deque with maxlen, its newest element first.
AppendLeft(events, e, limit) ==
  <<e>> \o IF Len(events) < limit THEN events ELSE SubSeq(events, 1, limit - 1)

\* The last fallbacks are recorded in place of all.
RecordLastFallback(t, e, limit) ==
  [t EXCEPT !.completed = @ + 1,
            !.hits = IF e.cache_status = "HIT" THEN @ + 1 ELSE @,
            !.replays = IF e.cache_status = "REPLAY" THEN @ + 1 ELSE @,
            !.fallbacks = e.fallbacks,
            !.events = AppendLeft(@, e, limit)]

RecordInference(t, e, limit) ==
  [t EXCEPT !.completed = @ + 1,
            !.hits = IF e.cache_status = "HIT" THEN @ + 1 ELSE @,
            !.replays = IF e.cache_status = "REPLAY" THEN @ + 1 ELSE @,
            !.fallbacks = @ + e.fallbacks,
            !.events = AppendLeft(@, e, limit)]

CacheStatistics ==
  [hits: Nat, misses: Nat, writes: Nat, backend_errors: Nat,
   idempotent_replays: Nat, idempotency_conflicts: Nat]

InitStatistics ==
  [hits |-> 0, misses |-> 0, writes |-> 0, backend_errors |-> 0,
   idempotent_replays |-> 0, idempotency_conflicts |-> 0]

Count(s, field) == [s EXCEPT ![field] = @ + 1]
=============================================================================
