----------------------------- MODULE MCGateway -----------------------------
(* Three providers (cheap, fast and trusted, good and trusted), of which   *)
(* all but the second may be asked to fail, and requests that differ in    *)
(* what the gateway tells apart.                                           *)
EXTENDS Gateway, TLC

CONSTANTS p1, p2, p3

RequestSymmetry == Permutations(Requests)

TwoProviders == <<p1, p2>>
ThreeProviders == <<p1, p2, p3>>
ModelNames == {"m1", "m2", "m3", "m4"}

Profile(p) ==
  CASE p = p1 -> [models |-> {"m1"}, simulated |-> TRUE, latency |-> 4,
                  input |-> 1, output |-> 1, quality |-> 70,
                  utilization |-> 60, trusted |-> FALSE]
    [] p = p2 -> [models |-> {"m2"}, simulated |-> FALSE, latency |-> 1,
                  input |-> 2, output |-> 3, quality |-> 80,
                  utilization |-> 30, trusted |-> TRUE]
    [] p = p3 -> [models |-> {"m3"}, simulated |-> TRUE, latency |-> 6,
                  input |-> 4, output |-> 12, quality |-> 95,
                  utilization |-> 10, trusted |-> TRUE]

Catalogue == [p \in Providers |-> Profile(p)]

Routed(policy) ==
  [model |-> AutoModel, prompt |-> 1, max_tokens |-> 1, policy |-> policy,
   preferred |-> None, allowed |-> None, excluded |-> {}, trusted |-> FALSE,
   max_latency |-> None, max_cost |-> None, min_quality |-> None,
   weights |-> [cost |-> 40, latency |-> 35, utilization |-> 0, quality |-> 25],
   failing |-> None, cached |-> TRUE]

Cheapest == Routed("lowest_cost")
Trusted == [Cheapest EXCEPT !.trusted = TRUE]
Bypassing == [Cheapest EXCEPT !.cached = FALSE, !.failing = p1]
Longer == [Cheapest EXCEPT !.prompt = 2]

Adaptive == Routed("adaptive")
\* p2 is before p1 while p3 is dear, and behind it once p3 has failed.
Reordered == [Adaptive EXCEPT !.failing = p3,
  !.weights = [cost |-> 16, latency |-> 1, utilization |-> 1, quality |-> 82]]
Turns == [Routed("round_robin") EXCEPT !.failing = p1]
Fastest == [Routed("lowest_latency") EXCEPT !.max_cost = 5]
Finest == [Routed("highest_quality") EXCEPT !.failing = p3, !.max_latency = 6]
Single == [Routed("single_provider") EXCEPT !.preferred = p2, !.allowed = {p2, p3}]
Explicit == [Adaptive EXCEPT !.model = "m1"]
Barred == [Explicit EXCEPT !.min_quality = 75]
Unknown == [Explicit EXCEPT !.model = "m4"]
Excluding == [Adaptive EXCEPT !.excluded = {p1, p2, p3}]
BadInjection == [Adaptive EXCEPT !.failing = p2]

\* For the stores: one question with two constraints and without the cache,
\* and another question.
StorePayloads == {Cheapest, Trusted, Bypassing, Longer}
\* For routing and fallback: every way to choose a provider.
RoutingPayloads ==
  {Reordered, Turns, Fastest, Finest, Single, Explicit, Barred, Unknown,
   Excluding, BadInjection}
=============================================================================
