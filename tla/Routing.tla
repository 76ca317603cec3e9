------------------------------ MODULE Routing ------------------------------
(***************************************************************************)
(* RoutingEngine.select (routing.py): hard constraints, then the policy.   *)
(* A request is a record of what routing reads of it (PayloadFields); its  *)
(* prompt is the number of tokens the engine estimates for it.  Costs are  *)
(* in units of a millionth of the descriptors' price unit, quality,        *)
(* utilization and weights in hundredths.  Scores are compared exactly:    *)
(* the rounding of floats is not modelled.                                 *)
(***************************************************************************)
EXTENDS Integers, Sequences, FiniteSets, Functions, FiniteSetsExt

CONSTANTS
  Registry,      \* the registered providers, in order
  Descriptor,    \* the descriptor of each
  Models,        \* model names, registered or not
  AutoModel, None     \* model values: the model "auto", an option left out

Providers == {Registry[i] : i \in 1 .. Len(Registry)}

DescriptorFields ==
  [models: SUBSET Models, simulated: BOOLEAN, latency: Nat, input: Nat,
   output: Nat, quality: 0 .. 100, utilization: 0 .. 100, trusted: BOOLEAN]

\* cached: cache_mode default, and caching enabled.
PayloadFields ==
  {"model", "prompt", "max_tokens", "policy", "preferred", "allowed",
   "excluded", "trusted", "max_latency", "max_cost", "min_quality", "weights",
   "failing", "cached"}

\* RoutingWeights.
Weights == [cost: Nat, latency: Nat, utilization: Nat, quality: Nat]

\* What is calculated with in a request that the gateway accepts.
Measured(q) == {q.prompt, q.max_tokens} \subseteq Nat /\ q.weights \in Weights

ASSUME RoutingAssumption ==
  /\ Registry \in Seq(Providers) /\ Registry # <<>> /\ IsInjective(Registry)
  /\ Descriptor \in [Providers -> DescriptorFields]
  /\ \A p, o \in Providers :
       p # o => Descriptor[p].models \cap Descriptor[o].models = {}
  /\ None \notin Providers /\ AutoModel \notin Models

Offering(model) == {p \in Providers : model \in Descriptor[p].models}

-----------------------------------------------------------------------------
EstimatedCost(p, q) ==
  q.prompt * Descriptor[p].input + q.max_tokens * Descriptor[p].output

Within(bound, value) == bound = None \/ value <= bound

Satisfies(p, q) ==
  /\ q.allowed = None \/ p \in q.allowed
  /\ p \notin q.excluded
  /\ q.trusted => Descriptor[p].trusted
  /\ Within(q.max_latency, Descriptor[p].latency)
  /\ Within(q.max_cost, EstimatedCost(p, q))
  /\ q.min_quality = None \/ Descriptor[p].quality >= q.min_quality

\* The providers a request may be answered by.
Permitted(q) == {p \in Providers : Satisfies(p, q)}

Eligible(q, ex) == Permitted(q) \ ex

\* max(...) or 1: the maxima the score is normalised by.
OrOne(n) == IF n = 0 THEN 1 ELSE n
DearestOf(S, q) == OrOne(Max({EstimatedCost(o, q) : o \in S}))
SlowestOf(S) == OrOne(Max({Descriptor[o].latency : o \in S}))

\* The adaptive score among S, multiplied by both maxima.
AdaptiveScore(p, S, q) ==
  LET c == DearestOf(S, q)
      l == SlowestOf(S)
      d == Descriptor[p]
  IN  100 * q.weights.cost * EstimatedCost(p, q) * l
        + 100 * q.weights.latency * d.latency * c
        + q.weights.utilization * d.utilization * c * l
        + q.weights.quality * (100 - d.quality) * c * l

\* What the policy minimises.
Badness(p, S, q) ==
  CASE q.policy = "lowest_cost" -> EstimatedCost(p, q)
    [] q.policy = "lowest_latency" -> Descriptor[p].latency
    [] q.policy = "highest_quality" -> 0 - Descriptor[p].quality
    [] OTHER -> AdaptiveScore(p, S, q)

\* The lists of the code are in the order of registration.
Position(p) == CHOOSE i \in 1 .. Len(Registry) : Registry[i] = p

\* min() and max() return the first of equals.
Beats(p, o, S, q) ==
  IF Position(p) < Position(o) THEN Badness(p, S, q) <= Badness(o, S, q)
  ELSE Badness(p, S, q) < Badness(o, S, q)

\* The scores of the first attempt are kept.
LeastAtFirst(S, q) ==
  {p \in S : \A o \in S \ {p} : Beats(p, o, Permitted(q), q)}

Least(S, q) == {p \in S : \A o \in S \ {p} : Beats(p, o, S, q)}

\* S[n], from 0.
Nth(S, n) ==
  {p \in S : Cardinality({o \in S : Position(o) < Position(p)}) = n}

RoundRobin(q) == q.model = AutoModel /\ q.policy = "round_robin"

\* What the policy takes from S, the candidates, as a set.
Choice(q, index) ==
  [S \in (SUBSET Providers) \ {{}} |->
     IF RoundRobin(q) THEN Nth(S, index % Cardinality(S))
     ELSE IF q.policy = "single_provider" THEN S \cap {q.preferred}
     ELSE Least(S, q)]

\* The provider that select returns for q, as a set: it is empty when select
\* raises.
Route(q, ex, index) ==
  IF q.model # AutoModel THEN Eligible(q, ex) \cap Offering(q.model)
  ELSE IF Eligible(q, ex) = {} THEN {}
  ELSE Choice(q, index)[Eligible(q, ex)]

-----------------------------------------------------------------------------
\* What a client asks the policies for: o is not better than p among S.
NoWorse(p, o, S, q) ==
  LET d == Descriptor[p]
      e == Descriptor[o]
  IN  CASE q.policy = "lowest_cost" -> EstimatedCost(p, q) <= EstimatedCost(o, q)
        [] q.policy = "lowest_latency" -> d.latency <= e.latency
        [] q.policy = "highest_quality" -> d.quality >= e.quality
        [] q.policy = "adaptive" -> AdaptiveScore(p, S, q) <= AdaptiveScore(o, S, q)
        [] OTHER -> TRUE
=============================================================================
