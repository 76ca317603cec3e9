--------------------------- MODULE GatewayProofs ---------------------------
(***************************************************************************)
(* What the gateway keeps for any number of requests, providers, payloads  *)
(* and keys, whatever the stores and the providers do: the types, the      *)
(* fairness and the order of the attempts, that only the last provider     *)
(* ends them, the provenance of what is answered, cached and recorded, and *)
(* that a settled key is not executed again.  The second part, from the    *)
(* section on counting, proves that what the gateway counts agrees with    *)
(* what it did.                                                            *)
(***************************************************************************)
EXTENDS Gateway, FiniteSetTheorems, TLAPS

-----------------------------------------------------------------------------
(* The operators of the model                                              *)

\* The methods of Telemetry and of CacheStatistics keep their types.
LEMMA CallRecorded ==
  ASSUME NEW R, NEW P, NEW t \in Counted(R, P), NEW p \in P, NEW o \in Outcomes
  PROVE  RecordProviderCall(t, p, o) \in Counted(R, P)
PROOF
<1>1. t.calls \in [P -> [Outcomes -> Nat]] /\ t.calls[p] \in [Outcomes -> Nat]
  BY DEF Counted
<1>2. [t.calls[p] EXCEPT ![o] = @ + 1] \in [Outcomes -> Nat]
  BY <1>1
<1>3. [t.calls EXCEPT ![p][o] = @ + 1] \in [P -> [Outcomes -> Nat]]
  BY <1>1, <1>2
<1> QED BY <1>3 DEF Counted, RecordProviderCall

LEMMA SubSeqTyped ==
  ASSUME NEW E, NEW s \in Seq(E), NEW n \in 0 .. Len(s)
  PROVE  SubSeq(s, 1, n) \in Seq(E) /\ Len(SubSeq(s, 1, n)) = n
OBVIOUS

\* The buffer stays one of at most the limit.
LEMMA BufferBounded ==
  ASSUME NEW E, NEW events \in Seq(E), NEW e \in E, NEW limit \in Nat \ {0}
  PROVE  /\ AppendLeft(events, e, limit) \in Seq(E)
         /\ Len(events) <= limit => Len(AppendLeft(events, e, limit)) <= limit
PROOF
<1>1. CASE Len(events) < limit
  BY <1>1 DEF AppendLeft
<1>2. CASE ~(Len(events) < limit)
  <2>1. limit - 1 \in 0 .. Len(events)
    BY <1>2
  <2>2. /\ SubSeq(events, 1, limit - 1) \in Seq(E)
        /\ Len(SubSeq(events, 1, limit - 1)) = limit - 1
    BY <2>1, SubSeqTyped
  <2> QED BY <1>2, <2>1, <2>2 DEF AppendLeft
<1> QED BY <1>1, <1>2

LEMMA InferenceRecorded ==
  ASSUME NEW R, NEW P, NEW t \in Counted(R, P), NEW e \in InferenceEvents(R, P),
         NEW limit \in Nat \ {0}
  PROVE  RecordInference(t, e, limit) \in Counted(R, P)
PROOF
<1>1. /\ t.completed + 1 \in Nat /\ t.hits \in Nat /\ t.hits + 1 \in Nat
      /\ t.replays \in Nat /\ t.replays + 1 \in Nat
      /\ t.fallbacks + e.fallbacks \in Nat
  BY DEF Counted, InferenceEvents
<1>2. /\ (IF e.cache_status = "HIT" THEN t.hits + 1 ELSE t.hits) \in Nat
      /\ (IF e.cache_status = "REPLAY" THEN t.replays + 1 ELSE t.replays) \in Nat
  BY <1>1
<1>3. AppendLeft(t.events, e, limit) \in Seq(InferenceEvents(R, P))
  BY BufferBounded DEF Counted
<1> QED BY <1>1, <1>2, <1>3 DEF Counted, RecordInference

LEMMA FieldCounted ==
  ASSUME NEW s \in CacheStatistics
  PROVE  /\ Count(s, "hits") \in CacheStatistics
         /\ Count(s, "misses") \in CacheStatistics
         /\ Count(s, "writes") \in CacheStatistics
         /\ Count(s, "backend_errors") \in CacheStatistics
         /\ Count(s, "idempotent_replays") \in CacheStatistics
         /\ Count(s, "idempotency_conflicts") \in CacheStatistics
BY DEF Count, CacheStatistics

\* Whatever the policy, what is routed to is permitted and not excluded.
LEMMA RouteSound ==
  ASSUME NEW q, NEW ex, NEW i, NEW p, p \in Route(q, ex, i)
  PROVE  /\ p \in Permitted(q) /\ p \notin ex
         /\ q.model # AutoModel => p \in Offering(q.model)
PROOF
<1>1. CASE q.model # AutoModel
  BY <1>1 DEF Route, Eligible
<1>2. CASE q.model = AutoModel
  <2>1. Eligible(q, ex) # {} /\ Route(q, ex, i) = Choice(q, i)[Eligible(q, ex)]
    BY <1>2 DEF Route
  <2>2. Eligible(q, ex) \in (SUBSET Providers) \ {{}}
    BY <2>1 DEF Eligible, Permitted
  <2>3. \A S \in (SUBSET Providers) \ {{}} : Choice(q, i)[S] \subseteq S
    BY DEF Choice, Nth, Least
  <2>4. p \in Eligible(q, ex)
    BY <2>1, <2>2, <2>3
  <2> QED BY <1>2, <2>4 DEF Eligible
<1> QED BY <1>1, <1>2

\* What an attempt adds to the list of attempts.
LEMMA AppendTyped ==
  ASSUME NEW S, NEW s \in Seq(S), NEW p \in S
  PROVE  Append(s, p) \in Seq(S) /\ Append(s, p) # <<>>
PROOF
<1>1. Append(s, p) \in Seq(S)
  OBVIOUS
<1>2. Len(Append(s, p)) = Len(s) + 1 /\ Len(s) \in Nat /\ Len(<<>>) = 0
  OBVIOUS
<1>3. Append(s, p) # <<>>
  BY <1>2
<1> QED BY <1>1, <1>3

LEMMA RangeAppend ==
  ASSUME NEW S, NEW s \in Seq(S), NEW p \in S
  PROVE  Range(Append(s, p)) = Range(s) \cup {p}
PROOF
<1> DEFINE t == Append(s, p)
<1>1. /\ DOMAIN s = 1 .. Len(s) /\ Len(s) \in Nat
      /\ DOMAIN t = 1 .. Len(s) + 1
      /\ \A i \in 1 .. Len(s) : t[i] = s[i]
      /\ t[Len(s) + 1] = p
  OBVIOUS
<1>2. Range(t) \subseteq Range(s) \cup {p}
  BY <1>1 DEF Range
<1>3. Range(s) \cup {p} \subseteq Range(t)
  BY <1>1 DEF Range
<1> QED BY <1>2, <1>3

LEMMA NoneIsOther ==
  /\ None \notin Keys /\ None \notin Payloads /\ None \notin Records
  /\ None \notin Completions /\ None \notin Results
BY GatewayAssumption, RecordAssumption

-----------------------------------------------------------------------------
(* Routing finds the best provider there is                                *)

\* A strict order has a first element in a finite set that is not empty.
LEMMA Extremal ==
  ASSUME NEW S, IsFiniteSet(S), S # {}, NEW R,
         \A x \in S : <<x, x>> \notin R,
         \A x, y, z \in S : <<x, y>> \in R /\ <<y, z>> \in R => <<x, z>> \in R
  PROVE  \E x \in S : \A y \in S : <<y, x>> \notin R
PROOF
<1> DEFINE Below(x) == {y \in S : <<y, x>> \in R}
           W == {Below(x) : x \in S}
<1>1. W \subseteq FiniteSubsetsOf(S) /\ W # {}
  <2>0. \A x \in S : Below(x) \in SUBSET S
    OBVIOUS
  <2> HIDE DEF Below
  <2>1. W \subseteq SUBSET S /\ W # {}
    BY <2>0
  <2> HIDE DEF W
  <2> QED BY <2>1, FS_FiniteSubsetsOfFinite
<1>2. PICK U \in W : \A V \in W : <<V, U>> \notin StrictSubsetOrdering(S)
  <2> HIDE DEF W
  <2> QED BY <1>1, WFMin, FS_StrictSubsetOrderingWellFounded
<1>3. PICK x \in S : U = Below(x)
  BY <1>2
<1>4. ASSUME NEW y \in S, <<y, x>> \in R
      PROVE  FALSE
  <2>1. Below(y) \subseteq Below(x) /\ y \in Below(x) /\ y \notin Below(y)
    BY <1>4
  <2>2. Below(y) \in W /\ Below(y) \in SUBSET S /\ Below(x) \in SUBSET S
    OBVIOUS
  <2> HIDE DEF Below, W
  <2>3. <<Below(y), Below(x)>> \in StrictSubsetOrdering(S)
    BY <2>1, <2>2 DEF StrictSubsetOrdering
  <2> QED BY <1>2, <1>3, <2>2, <2>3
<1> QED BY <1>4

\* The largest of finitely many numbers is one of them.
LEMMA MaxOfFinite ==
  ASSUME NEW T \in SUBSET Nat, IsFiniteSet(T), T # {}
  PROVE  Max(T) \in T /\ \A n \in T : n <= Max(T)
PROOF
<1> DEFINE R == {u \in T \X T : u[1] > u[2]}
<1>1. \A x, y \in T : <<x, y>> \in R <=> x > y
  OBVIOUS
<1>2. PICK m \in T : \A n \in T : <<n, m>> \notin R
  <2>1. \A x \in T : <<x, x>> \notin R
    BY <1>1
  <2>2. \A x, y, z \in T : <<x, y>> \in R /\ <<y, z>> \in R => <<x, z>> \in R
    BY <1>1
  <2> HIDE DEF R
  <2> QED BY <2>1, <2>2, Extremal
<1>3. \A n \in T : m >= n
  <2> SUFFICES ASSUME NEW n \in T PROVE m >= n
    OBVIOUS
  <2>1. m \in Nat /\ n \in Nat
    OBVIOUS
  <2>2. ~(n > m)
    <3> HIDE DEF R
    <3> QED BY <1>1, <1>2
  <2> QED BY <2>1, <2>2
<1> QED BY <1>3 DEF Max

\* There are as many providers as the registry is long.
LEMMA ProvidersCounted ==
  IsFiniteSet(Providers) /\ Cardinality(Providers) = Len(Registry)
PROOF
<1> DEFINE n == Len(Registry)
<1>1. n \in Nat /\ Registry \in [1 .. n -> Providers]
  BY RoutingAssumption
<1>2. \A p \in Providers : \E i \in 1 .. n : Registry[i] = p
  BY DEF Providers
<1>3. Registry \in Bijection(1 .. n, Providers)
  BY <1>1, <1>2, RoutingAssumption DEF Bijection, Injection, Surjection
<1>4. IsFiniteSet(1 .. n) /\ Cardinality(1 .. n) = n
  BY <1>1, FS_Interval
<1> QED BY <1>3, <1>4, FS_Bijection DEF ExistsBijection

\* Every provider has its place in the registry.
LEMMA PositionTyped ==
  \A p \in Providers : Position(p) \in Nat /\ Registry[Position(p)] = p
BY RoutingAssumption DEF Position, Providers

\* Finitely many members have finitely many numbers.
LEMMA FiniteImage ==
  ASSUME NEW f, NEW S, IsFiniteSet(S), S \subseteq DOMAIN f
  PROVE  IsFiniteSet({f[x] : x \in S})
PROOF
<1> DEFINE g == [x \in S |-> f[x]]
           T == {f[x] : x \in S}
<1>1. g \in Surjection(S, T)
  BY DEF Surjection
<1> HIDE DEF g, T
<1>2. IsFiniteSet(T)
  BY <1>1, FS_Surjection
<1> QED BY <1>2 DEF T

\* What routing compares is numbers.
LEMMA CostTyped ==
  ASSUME NEW p \in Providers, NEW q, Measured(q)
  PROVE  /\ EstimatedCost(p, q) \in Nat
         /\ Descriptor[p].latency \in Nat
         /\ Descriptor[p].quality \in 0 .. 100
         /\ Descriptor[p].utilization \in 0 .. 100
PROOF
<1>1. /\ Descriptor[p].input \in Nat /\ Descriptor[p].output \in Nat
      /\ Descriptor[p].latency \in Nat /\ Descriptor[p].quality \in 0 .. 100
      /\ Descriptor[p].utilization \in 0 .. 100
  BY RoutingAssumption DEF DescriptorFields
<1>2. \A i, j \in Nat : i * j \in Nat
  OBVIOUS
<1> QED BY <1>1, <1>2 DEF EstimatedCost, Measured

\* The adaptive score divides by nothing that is zero.
LEMMA MaximaTyped ==
  ASSUME NEW S \in SUBSET Providers, S # {}, NEW q, Measured(q)
  PROVE  DearestOf(S, q) \in Nat /\ SlowestOf(S) \in Nat
PROOF
<1>1. IsFiniteSet(S)
  BY ProvidersCounted, FS_Subset
<1> DEFINE cost == [o \in Providers |-> EstimatedCost(o, q)]
           latency == [o \in Providers |-> Descriptor[o].latency]
           C == {EstimatedCost(o, q) : o \in S}
           L == {Descriptor[o].latency : o \in S}
<1>2. C = {cost[o] : o \in S} /\ L = {latency[o] : o \in S}
  OBVIOUS
<1>3. IsFiniteSet(C) /\ IsFiniteSet(L)
  BY <1>1, <1>2, FiniteImage
<1>4. C \in SUBSET Nat /\ C # {} /\ L \in SUBSET Nat /\ L # {}
  BY CostTyped
<1> HIDE DEF C, L
<1>5. Max(C) \in Nat /\ Max(L) \in Nat
  BY <1>3, <1>4, MaxOfFinite
<1> QED BY <1>5 DEF DearestOf, SlowestOf, OrOne, C, L

\* Every policy minimises a number.
LEMMA BadnessTyped ==
  ASSUME NEW S \in SUBSET Providers, NEW p \in S, NEW q, Measured(q)
  PROVE  Badness(p, S, q) \in Int /\ AdaptiveScore(p, S, q) \in Int
PROOF
<1>1. /\ EstimatedCost(p, q) \in Int
      /\ Descriptor[p].latency \in Int
      /\ Descriptor[p].quality \in Int
      /\ Descriptor[p].utilization \in Int
  BY CostTyped
<1>2. DearestOf(S, q) \in Int /\ SlowestOf(S) \in Int
  BY MaximaTyped
<1>3. /\ q.weights.cost \in Int /\ q.weights.latency \in Int
      /\ q.weights.utilization \in Int /\ q.weights.quality \in Int
  BY DEF Measured, Weights
<1>4. \A i, j \in Int : i * j \in Int
  OBVIOUS
<1>5. AdaptiveScore(p, S, q) \in Int
  <2>1. /\ 100 * q.weights.cost * EstimatedCost(p, q) * SlowestOf(S) \in Int
        /\ 100 * q.weights.latency * Descriptor[p].latency * DearestOf(S, q) \in Int
        /\ q.weights.utilization * Descriptor[p].utilization
             * DearestOf(S, q) * SlowestOf(S) \in Int
        /\ q.weights.quality * (100 - Descriptor[p].quality)
             * DearestOf(S, q) * SlowestOf(S) \in Int
    <3>1. 100 * q.weights.cost * EstimatedCost(p, q) * SlowestOf(S) \in Int
      BY <1>1, <1>2, <1>3, <1>4
    <3>2. 100 * q.weights.latency * Descriptor[p].latency * DearestOf(S, q) \in Int
      BY <1>1, <1>2, <1>3, <1>4
    <3>3. q.weights.utilization * Descriptor[p].utilization
            * DearestOf(S, q) * SlowestOf(S) \in Int
      BY <1>1, <1>2, <1>3, <1>4
    <3>4. q.weights.quality * (100 - Descriptor[p].quality)
            * DearestOf(S, q) * SlowestOf(S) \in Int
      BY <1>1, <1>2, <1>3, <1>4
    <3> QED BY <3>1, <3>2, <3>3, <3>4
  <2>2. \A i, j, k, l \in Int : i + j + k + l \in Int
    OBVIOUS
  <2> QED BY <2>1, <2>2, ZenonT(30) DEF AdaptiveScore
<1> QED BY <1>1, <1>5 DEF Badness

\* Beats is a strict order, the earlier of equals first.
LEMMA LeastExists ==
  ASSUME NEW S \in SUBSET Providers, S # {}, NEW q, Measured(q)
  PROVE  Least(S, q) # {}
PROOF
<1> DEFINE R == {u \in S \X S : u[1] # u[2] /\ Beats(u[1], u[2], S, q)}
<1>1. \A o, p \in S : <<o, p>> \in R <=> o # p /\ Beats(o, p, S, q)
  OBVIOUS
<1>2. \A p \in S : Position(p) \in Nat /\ Badness(p, S, q) \in Int
  BY PositionTyped, BadnessTyped
<1>3. \A o, p \in S : o # p => Position(o) # Position(p)
  BY PositionTyped
<1>4. \A x, y, z \in S : <<x, y>> \in R /\ <<y, z>> \in R => <<x, z>> \in R
  <2> HIDE DEF R
  <2> QED BY <1>1, <1>2, <1>3 DEF Beats
<1>5. \A o, p \in S : o # p => <<o, p>> \in R \/ <<p, o>> \in R
  <2> HIDE DEF R
  <2> QED BY <1>1, <1>2, <1>3 DEF Beats
<1>6. IsFiniteSet(S) /\ \A x \in S : <<x, x>> \notin R
  BY ProvidersCounted, FS_Subset
<1> HIDE DEF R
<1>7. PICK p \in S : \A o \in S : <<o, p>> \notin R
  BY <1>4, <1>6, Extremal
<1>8. \A o \in S \ {p} : Beats(p, o, S, q)
  BY <1>1, <1>5, <1>7
<1> QED BY <1>8 DEF Least

\* S[n] exists for every n below the length.
LEMMA NthExists ==
  ASSUME NEW S \in SUBSET Providers, NEW n \in Nat, n < Cardinality(S)
  PROVE  Nth(S, n) # {}
PROOF
<1> DEFINE Before(p) == {o \in S : Position(o) < Position(p)}
           rank == [p \in S |-> Cardinality(Before(p))]
           Forward == {u \in S \X S : Position(u[1]) < Position(u[2])}
           Backward == {u \in S \X S : Position(u[2]) < Position(u[1])}
           U == {p \in S : rank[p] >= n}
<1>1. IsFiniteSet(S) /\ Cardinality(S) \in Nat
  BY ProvidersCounted, FS_Subset, FS_CardinalityType
<1>2. \A p \in S : /\ Before(p) \in SUBSET S /\ IsFiniteSet(Before(p))
                   /\ rank[p] \in Nat /\ rank[p] = Cardinality(Before(p))
  BY <1>1, FS_Subset, FS_CardinalityType
<1>3. /\ \A p \in S : Position(p) \in Nat
      /\ \A o, p \in S : o # p => Position(o) # Position(p)
  BY PositionTyped
<1>4. /\ \A o, p \in S : <<o, p>> \in Forward <=> Position(o) < Position(p)
      /\ \A o, p \in S : <<o, p>> \in Backward <=> Position(p) < Position(o)
  OBVIOUS
<1>5. \A p \in S, o \in S : o \in Before(p) <=> Position(o) < Position(p)
  OBVIOUS
<1>6. U \subseteq S /\ \A p \in S : p \in U <=> rank[p] >= n
  OBVIOUS
<1> HIDE DEF Before, rank, Forward, Backward, U
\* The last of a set of providers, and its first.
<1>7. ASSUME NEW T \in SUBSET S, T # {}
      PROVE  /\ \E p \in T : \A o \in T : Position(p) >= Position(o)
             /\ \E p \in T : \A o \in T : Position(p) <= Position(o)
  <2>1. IsFiniteSet(T) /\ T \subseteq S
    BY <1>1, FS_Subset
  <2>2. /\ \A x \in T : <<x, x>> \notin Forward
        /\ \A x, y, z \in T : <<x, y>> \in Forward /\ <<y, z>> \in Forward
                                => <<x, z>> \in Forward
        /\ \A x \in T : <<x, x>> \notin Backward
        /\ \A x, y, z \in T : <<x, y>> \in Backward /\ <<y, z>> \in Backward
                                => <<x, z>> \in Backward
    BY <1>3, <1>4, <2>1
  <2>3. \E p \in T : \A o \in T : <<o, p>> \notin Forward
    BY <1>7, <2>1, <2>2, Extremal
  <2>4. \E p \in T : \A o \in T : <<o, p>> \notin Backward
    BY <1>7, <2>1, <2>2, Extremal
  <2>5. ASSUME NEW o \in S, NEW p \in S PROVE Position(o) \in Nat /\ Position(p) \in Nat
    BY <1>3
  <2>6. \A o, p \in S : <<o, p>> \notin Forward => Position(p) <= Position(o)
    BY <1>4, <2>5
  <2>7. \A o, p \in S : <<o, p>> \notin Backward => Position(p) >= Position(o)
    BY <1>4, <2>5
  <2> QED BY <2>1, <2>3, <2>4, <2>6, <2>7
<1>8. U # {}
  <2>1. S # {}
    BY <1>1, FS_EmptySet
  <2>2. PICK l \in S : \A o \in S : Position(l) >= Position(o)
    BY <1>7, <2>1
  <2>3. Before(l) = S \ {l}
    BY <1>2, <1>3, <1>5, <2>2
  <2>4. Cardinality(S \ {l}) = Cardinality(S) - 1
    BY <1>1, FS_RemoveElement
  <2>5. rank[l] = Cardinality(S) - 1
    BY <1>2, <2>3, <2>4
  <2> QED BY <1>1, <1>6, <2>5
<1>9. PICK p \in U : \A o \in U : Position(p) <= Position(o)
  BY <1>6, <1>7, <1>8
<1>10. rank[p] = n
  <2> SUFFICES ASSUME rank[p] > n PROVE FALSE
    BY <1>2, <1>6
  <2>1. p \in S /\ Before(p) # {} /\ Before(p) \in SUBSET S
    BY <1>2, <1>6, FS_EmptySet
  <2>2. PICK o \in Before(p) : \A x \in Before(p) : Position(o) >= Position(x)
    BY <1>7, <2>1
  <2>3. o \in S /\ Position(o) < Position(p)
    BY <1>5, <2>1, <2>2
  <2>4. Before(o) = Before(p) \ {o}
    BY <1>2, <1>3, <1>5, <2>1, <2>2, <2>3
  <2>5. Cardinality(Before(p) \ {o}) = Cardinality(Before(p)) - 1
    BY <1>2, <2>1, FS_RemoveElement
  <2>6. rank[o] = rank[p] - 1
    BY <1>2, <2>1, <2>3, <2>4, <2>5
  <2>7. rank[o] >= n /\ o \in U
    BY <1>2, <1>6, <2>1, <2>3, <2>6
  <2> QED BY <1>3, <1>9, <2>1, <2>3, <2>7
<1>11. p \in S /\ Cardinality({o \in S : Position(o) < Position(p)}) = n
  BY <1>2, <1>6, <1>10 DEF Before
<1> QED BY <1>11 DEF Nth

\* A policy other than single_provider always finds somebody.
LEMMA RouteFinds ==
  ASSUME NEW q, Measured(q), NEW ex, NEW i \in Nat,
         q.model = AutoModel, q.policy # "single_provider",
         Eligible(q, ex) # {}
  PROVE  Route(q, ex, i) # {}
PROOF
<1> DEFINE S == Eligible(q, ex)
<1>1. S \in (SUBSET Providers) \ {{}}
  BY DEF Eligible, Permitted
<1>2. Route(q, ex, i) = Choice(q, i)[S]
  BY DEF Route
<1>3. Choice(q, i)[S] = IF RoundRobin(q) THEN Nth(S, i % Cardinality(S))
                        ELSE Least(S, q)
  BY <1>1 DEF Choice
<1> HIDE DEF S
<1>4. Least(S, q) # {}
  BY <1>1, LeastExists
<1>5. Nth(S, i % Cardinality(S)) # {}
  <2>1. IsFiniteSet(S) /\ Cardinality(S) \in Nat /\ Cardinality(S) # 0
    BY <1>1, ProvidersCounted, FS_Subset, FS_CardinalityType, FS_EmptySet
  <2>2. \A c \in Nat : c > 0 => i % c \in 0 .. c - 1
    OBVIOUS
  <2>3. i % Cardinality(S) \in Nat /\ i % Cardinality(S) < Cardinality(S)
    BY <2>1, <2>2
  <2> QED BY <1>1, <2>3, NthExists
<1> QED BY <1>2, <1>3, <1>4, <1>5

\* What a policy takes from the eligible providers is no worse than they are.
LEMMA RouteBest ==
  ASSUME NEW q, Measured(q), NEW ex, NEW i, NEW p \in Route(q, ex, i),
         q.model = AutoModel
  PROVE  \A o \in Eligible(q, ex) : NoWorse(p, o, Eligible(q, ex), q)
PROOF
<1> DEFINE S == Eligible(q, ex)
<1>1. S \in (SUBSET Providers) \ {{}} /\ Route(q, ex, i) = Choice(q, i)[S]
  BY DEF Route, Eligible, Permitted
<1>2. p \in S
  BY <1>1 DEF Choice, Nth, Least
<1>3. CASE q.policy \in {"lowest_cost", "lowest_latency", "highest_quality",
                         "adaptive"}
  <2>1. p \in Least(S, q)
    BY <1>1, <1>3 DEF Choice, RoundRobin
  <2> SUFFICES ASSUME NEW o \in S PROVE NoWorse(p, o, S, q)
    OBVIOUS
  <2>2. /\ Badness(p, S, q) \in Int /\ Badness(o, S, q) \in Int
        /\ AdaptiveScore(p, S, q) \in Int
    BY <1>1, <1>2, BadnessTyped
  <2>3. Badness(p, S, q) <= Badness(o, S, q)
    BY <1>1, <1>2, <2>1, <2>2 DEF Least, Beats
  <2>4. Descriptor[p].quality \in Int /\ Descriptor[o].quality \in Int
    BY <1>1, <1>2, CostTyped
  <2> HIDE DEF S
  <2> QED BY <1>3, <2>3, <2>4 DEF Badness, NoWorse
<1>4. CASE q.policy \notin {"lowest_cost", "lowest_latency", "highest_quality",
                            "adaptive"}
  BY <1>4 DEF NoWorse
<1> QED BY <1>3, <1>4

-----------------------------------------------------------------------------
(* The shape of a request in each phase                                    *)

Shape(r) ==
  /\ phase[r] = "new" =>
       /\ payload[r] = None /\ key[r] = None
       /\ tried[r] = <<>> /\ excluded[r] = {}
       /\ result[r] = None /\ answer[r] = None
  /\ phase[r] # "new" => payload[r] \in Payloads
  /\ phase[r] \in {"replaying", "storing"} => key[r] \in Keys
  /\ phase[r] \in {"reading", "calling", "writing", "answering", "storing"} =>
       tried[r] # <<>>
  /\ phase[r] \in {"writing", "answering", "storing"} => result[r] \in Results

TypeInv == TypeOK /\ \A r \in Requests : Shape(r)

LEMMA ChosenTyped ==
  ASSUME TypeInv, NEW r \in Requests, tried[r] # <<>>
  PROVE  Chosen(r) \in Providers /\ Chosen(r) \in Tried(r)
BY DEF TypeInv, TypeOK, Chosen, Tried, Range

\* What a request answers with is made of an attempt and a result.
LEMMA CompletionTyped ==
  ASSUME TypeInv, NEW r \in Requests, phase[r] \in {"answering", "storing"}
  PROVE  /\ Completion(r) \in Completions /\ Completion(r).fallbacks \in Nat
         /\ key[r] # None => Record(r) \in Records
PROOF
<1>1. /\ tried[r] \in Seq(Providers) /\ tried[r] # <<>>
      /\ result[r] \in Results /\ payload[r] \in Payloads
  BY DEF TypeInv, TypeOK, Shape
<1>2. Chosen(r) \in Providers /\ Len(tried[r]) - 1 \in Nat
  BY <1>1, ChosenTyped
<1> QED BY <1>1, <1>2 DEF Completion, Completions, Record, Records

LEMMA InitCounted == InitTelemetry(Providers) \in Counted(Requests, Providers)
PROOF
<1>1. <<>> \in Seq(InferenceEvents(Requests, Providers))
  OBVIOUS
<1> QED BY <1>1 DEF InitTelemetry, Counted

\* The event of a completion that is given or replayed.
LEMMA Told ==
  ASSUME TypeInv, NEW c \in Completions, NEW status \in Statuses,
         Tells(c, status)
  PROVE  telemetry' \in Counted(Requests, Providers)
PROOF
<1>1. Event(c, status) \in InferenceEvents(Requests, Providers)
  BY DEF Event, InferenceEvents, Completions
<1> QED BY <1>1, InferenceRecorded, GatewayAssumption DEF Tells, TypeInv, TypeOK

LEMMA InitTypes == Init => TypeInv
PROOF
<1> SUFFICES ASSUME Init PROVE TypeInv
  OBVIOUS
<1>1. InitTelemetry(Providers) \in Counted(Requests, Providers)
  BY InitCounted
<1>2. InitStatistics \in CacheStatistics
  BY DEF InitStatistics, CacheStatistics
<1> QED BY <1>1, <1>2 DEF Init, TypeInv, TypeOK, Shape, Phases, Ended

\* One step per action: its counters, its types, the shape of its request.
LEMMA NextTypes == TypeInv /\ [Next]_vars => TypeInv'
PROOF
<1> SUFFICES ASSUME TypeInv, [Next]_vars PROVE TypeInv'
  OBVIOUS
<1> USE NoneIsOther DEF TypeInv, TypeOK, Shape, Phases, Ended, Goes,
                        request, stores, counters, history
<1>1. ASSUME NEW r \in Requests, NEW q \in Payloads,
             NEW k \in Keys \cup {None}, Arrive(r, q, k)
      PROVE  TypeInv'
  <2>1. /\ telemetry' \in Counted(Requests, Providers)
        /\ statistics' \in CacheStatistics
    BY <1>1, FieldCounted DEF Arrive, Invalid
  <2>2. TypeOK'
    BY <1>1, <2>1 DEF Arrive, Invalid
  <2>3. ASSUME NEW s \in Requests PROVE Shape(s)'
    BY <1>1 DEF Arrive, Invalid
  <2> QED BY <2>2, <2>3
<1>2. ASSUME NEW r \in Requests, Replay(r)
      PROVE  TypeInv'
  <2> DEFINE found == records[key[r]]
  <2>0. found \in Records /\ found.completion \in Completions
        /\ found.completion.fallbacks \in Nat
    BY <1>2 DEF Replay, Records, Completions
  <2>1. /\ telemetry' \in Counted(Requests, Providers)
        /\ statistics' \in CacheStatistics
    BY <1>2, <2>0, FieldCounted, Told DEF Replay, Counts, Statuses
  <2>2. TypeOK'
    <3>1. phase' \in [Requests -> Phases]
      <4>1. /\ phase \in [Requests -> Phases]
            /\ \/ phase' = [phase EXCEPT ![r] = "replayed"]
               \/ phase' = [phase EXCEPT ![r] = "conflict"]
        BY <1>2 DEF Replay
      <4> QED BY <4>1
    <3>2. answer' \in [Requests -> Completions \cup {None}]
      <4>1. \/ answer' = [answer EXCEPT ![r] = found.completion]
            \/ answer' = answer
        BY <1>2 DEF Replay
      <4>2. CASE answer' = answer
        BY <4>2
      <4>3. CASE answer' = [answer EXCEPT ![r] = found.completion]
        <5> HIDE DEF found
        <5> QED BY <2>0, <4>3
      <4> QED BY <4>1, <4>2, <4>3
    <3>3. UNCHANGED <<payload, key, tried, excluded, result, stores, rrIndex, history>>
      BY <1>2 DEF Replay
    <3> QED BY <2>1, <3>1, <3>2, <3>3
  <2>3. ASSUME NEW s \in Requests PROVE Shape(s)'
    BY <1>2 DEF Replay, Counts
  <2> QED BY <2>2, <2>3
<1>3. ASSUME NEW r \in Requests, NothingToReplay(r)
      PROVE  TypeInv'
  <2>1. /\ telemetry' \in Counted(Requests, Providers)
        /\ statistics' \in CacheStatistics
    BY <1>3, FieldCounted DEF NothingToReplay
  <2>2. TypeOK'
    BY <1>3, <2>1 DEF NothingToReplay
  <2>3. ASSUME NEW s \in Requests PROVE Shape(s)'
    BY <1>3 DEF NothingToReplay
  <2> QED BY <2>2, <2>3
<1>4. ASSUME NEW r \in Requests, ReplayFails(r)
      PROVE  TypeInv'
  <2>1. /\ telemetry' \in Counted(Requests, Providers)
        /\ statistics' \in CacheStatistics
    BY <1>4, FieldCounted DEF ReplayFails, Counts, Fault
  <2>2. TypeOK'
    BY <1>4, <2>1 DEF ReplayFails, Counts, Fault
  <2>3. ASSUME NEW s \in Requests PROVE Shape(s)'
    BY <1>4 DEF ReplayFails, Counts, Fault
  <2> QED BY <2>2, <2>3
<1>5. ASSUME NEW r \in Requests, UnknownModel(r)
      PROVE  TypeInv'
  <2>1. /\ telemetry' \in Counted(Requests, Providers)
        /\ statistics' \in CacheStatistics
    BY <1>5, FieldCounted DEF UnknownModel
  <2>2. TypeOK'
    BY <1>5, <2>1 DEF UnknownModel
  <2>3. ASSUME NEW s \in Requests PROVE Shape(s)'
    BY <1>5 DEF UnknownModel
  <2> QED BY <2>2, <2>3
<1>6. ASSUME NEW r \in Requests, NoEligible(r)
      PROVE  TypeInv'
  <2>1. /\ telemetry' \in Counted(Requests, Providers)
        /\ statistics' \in CacheStatistics
    BY <1>6, FieldCounted DEF NoEligible
  <2>2. TypeOK'
    BY <1>6, <2>1 DEF NoEligible
  <2>3. ASSUME NEW s \in Requests PROVE Shape(s)'
    BY <1>6 DEF NoEligible
  <2> QED BY <2>2, <2>3
<1>7. ASSUME NEW r \in Requests, NEW p, Select(r, p)
      PROVE  TypeInv'
  <2>0. p \in Providers
    BY <1>7, RouteSound DEF Permitted, Select, Selected
  <2>1. tried'[r] \in Seq(Providers) /\ tried'[r] # <<>>
    <3>1. tried[r] \in Seq(Providers) /\ tried'[r] = Append(tried[r], p)
      BY <1>7 DEF Select, Selected
    <3> QED BY <2>0, <3>1, AppendTyped
  <2>2. TypeOK'
    BY <1>7, <2>1 DEF Select, Selected
  <2>3. ASSUME NEW s \in Requests PROVE Shape(s)'
    BY <1>7, <2>1 DEF Select, Selected
  <2> QED BY <2>2, <2>3
<1>8. ASSUME NEW r \in Requests, NEW p, SimulateFailure(r, p)
      PROVE  TypeInv'
  <2>0. p \in Providers
    BY <1>8, RouteSound DEF Permitted, SimulateFailure, Selected, Again
  <2>1. /\ telemetry' \in Counted(Requests, Providers)
        /\ statistics' \in CacheStatistics
    BY <1>8, <2>0, CallRecorded DEF SimulateFailure, Selected, Again, Outcomes
  <2>2. TypeOK'
    BY <1>8, <2>1, <2>0 DEF SimulateFailure, Selected, Again
  <2>3. ASSUME NEW s \in Requests PROVE Shape(s)'
    BY <1>8 DEF SimulateFailure, Selected, Again
  <2> QED BY <2>2, <2>3
<1>9. ASSUME NEW r \in Requests, CacheHit(r)
      PROVE  TypeInv'
  <2>0. Chosen(r) \in Providers
    BY <1>9, ChosenTyped DEF CacheHit, Finish
  <2>1. /\ telemetry' \in Counted(Requests, Providers)
        /\ statistics' \in CacheStatistics
    BY <1>9, FieldCounted DEF CacheHit, Finish, Counts, Entry, Entries
  <2>2. TypeOK'
    BY <1>9, <2>1, <2>0 DEF CacheHit, Finish, Counts, Entry, Entries
  <2>3. ASSUME NEW s \in Requests PROVE Shape(s)'
    BY <1>9, <2>0 DEF CacheHit, Finish, Counts, Entry, Entries
  <2> QED BY <2>2, <2>3
<1>10. ASSUME NEW r \in Requests, CacheMiss(r)
      PROVE  TypeInv'
  <2>1. /\ telemetry' \in Counted(Requests, Providers)
        /\ statistics' \in CacheStatistics
    BY <1>10, FieldCounted DEF CacheMiss, Counts
  <2>2. TypeOK'
    BY <1>10, <2>1 DEF CacheMiss, Counts
  <2>3. ASSUME NEW s \in Requests PROVE Shape(s)'
    BY <1>10 DEF CacheMiss, Counts
  <2> QED BY <2>2, <2>3
<1>11. ASSUME NEW r \in Requests, CacheReadFails(r)
      PROVE  TypeInv'
  <2>1. /\ telemetry' \in Counted(Requests, Providers)
        /\ statistics' \in CacheStatistics
    BY <1>11, FieldCounted DEF CacheReadFails, Counts, Fault
  <2>2. TypeOK'
    BY <1>11, <2>1 DEF CacheReadFails, Counts, Fault
  <2>3. ASSUME NEW s \in Requests PROVE Shape(s)'
    BY <1>11 DEF CacheReadFails, Counts, Fault
  <2> QED BY <2>2, <2>3
<1>12. ASSUME NEW r \in Requests, CallSucceeds(r)
      PROVE  TypeInv'
  <2>0. Chosen(r) \in Providers
    BY <1>12, ChosenTyped DEF CallSucceeds
  <2>1. /\ telemetry' \in Counted(Requests, Providers)
        /\ statistics' \in CacheStatistics
    BY <1>12, <2>0, CallRecorded DEF CallSucceeds, Finish, Results, Outcomes
  <2>2. TypeOK'
    <3>1. phase' \in [Requests -> Phases]
      <4>1. /\ phase \in [Requests -> Phases]
            /\ \E next \in {"writing", "answering", "storing"} :
                 phase' = [phase EXCEPT ![r] = next]
        BY <1>12 DEF CallSucceeds, Finish, Goes
      <4> QED BY <4>1
    <3>2. result' \in [Requests -> Results \cup {None}]
      <4>1. payload[r] \in Payloads
        BY <1>12 DEF CallSucceeds
      <4>2. [by |-> Chosen(r), to |-> Question(payload[r]), run |-> r] \in Results
        BY <2>0, <4>1 DEF Results
      <4> QED BY <1>12, <4>2 DEF CallSucceeds
    <3> QED BY <1>12, <2>1, <3>1, <3>2 DEF CallSucceeds
  <2>3. ASSUME NEW s \in Requests PROVE Shape(s)'
    BY <1>12, <2>0 DEF CallSucceeds, Finish, Results
  <2> QED BY <2>2, <2>3
<1>13. ASSUME NEW r \in Requests, CallFails(r)
      PROVE  TypeInv'
  <2>0. Chosen(r) \in Providers
    BY <1>13, ChosenTyped DEF CallFails
  <2>1. /\ telemetry' \in Counted(Requests, Providers)
        /\ statistics' \in CacheStatistics
    BY <1>13, <2>0, CallRecorded DEF CallFails, Again, Outcomes
  <2>2. TypeOK'
    BY <1>13, <2>1, <2>0 DEF CallFails, Again
  <2>3. ASSUME NEW s \in Requests PROVE Shape(s)'
    BY <1>13, <2>0 DEF CallFails, Again
  <2> QED BY <2>2, <2>3
<1>14. ASSUME NEW r \in Requests, CacheWrite(r)
      PROVE  TypeInv'
  <2>0. Chosen(r) \in Providers
    BY <1>14, ChosenTyped DEF CacheWrite, Finish
  <2>1. /\ telemetry' \in Counted(Requests, Providers)
        /\ statistics' \in CacheStatistics
    BY <1>14, FieldCounted DEF CacheWrite, Finish, Counts, Entry, Entries
  <2>2. TypeOK'
    BY <1>14, <2>1, <2>0 DEF CacheWrite, Finish, Counts, Entry, Entries
  <2>3. ASSUME NEW s \in Requests PROVE Shape(s)'
    BY <1>14, <2>0 DEF CacheWrite, Finish, Counts, Entry, Entries
  <2> QED BY <2>2, <2>3
<1>15. ASSUME NEW r \in Requests, CacheWriteFails(r)
      PROVE  TypeInv'
  <2>0. Chosen(r) \in Providers
    BY <1>15, ChosenTyped DEF CacheWriteFails, Finish
  <2>1. /\ telemetry' \in Counted(Requests, Providers)
        /\ statistics' \in CacheStatistics
    BY <1>15, FieldCounted
       DEF CacheWriteFails, Finish, Counts, Fault, Entry, Entries
  <2>2. TypeOK'
    <3>1. cache' \in [Entries -> Results \cup {None}]
      BY <1>15, <2>0 DEF CacheWriteFails, Finish, Entry, Entries
    <3>2. phase' \in [Requests -> Phases]
      BY <1>15 DEF CacheWriteFails, Finish
    <3> QED BY <1>15, <2>1, <3>1, <3>2
       DEF CacheWriteFails, Finish, Counts, Fault, Entry, Entries
  <2>3. ASSUME NEW s \in Requests PROVE Shape(s)'
    BY <1>15, <2>0 DEF CacheWriteFails, Finish, Counts, Fault, Entry, Entries
  <2> QED BY <2>2, <2>3
<1>16. ASSUME NEW r \in Requests, Respond(r)
      PROVE  TypeInv'
  <2>1. /\ telemetry' \in Counted(Requests, Providers)
        /\ statistics' \in CacheStatistics
    BY <1>16, FieldCounted, Told, CompletionTyped
       DEF CacheStatus, Statuses, Respond, Answer
  <2>2. TypeOK'
    BY <1>16, <2>1, CompletionTyped DEF Respond, Answer
  <2>3. ASSUME NEW s \in Requests PROVE Shape(s)'
    BY <1>16 DEF Respond, Answer
  <2> QED BY <2>2, <2>3
<1>17. ASSUME NEW r \in Requests, Store(r)
      PROVE  TypeInv'
  <2>1. /\ telemetry' \in Counted(Requests, Providers)
        /\ statistics' \in CacheStatistics
    BY <1>17, FieldCounted, Told, CompletionTyped
       DEF CacheStatus, Statuses, Store, Answer
  <2>2. TypeOK'
    BY <1>17, <2>1, CompletionTyped DEF Store, Answer
  <2>3. ASSUME NEW s \in Requests PROVE Shape(s)'
    BY <1>17 DEF Store, Answer
  <2> QED BY <2>2, <2>3
<1>18. ASSUME NEW r \in Requests, StoreFails(r)
      PROVE  TypeInv'
  <2>1. /\ telemetry' \in Counted(Requests, Providers)
        /\ statistics' \in CacheStatistics
    BY <1>18, FieldCounted, Told, CompletionTyped
       DEF CacheStatus, Statuses, StoreFails, Answer, Counts, Fault
  <2>2. TypeOK'
    <3>1. records' \in [Keys -> Records \cup {None}]
      <4>1. Record(r) \in Records
        BY <1>18, CompletionTyped DEF StoreFails, Answer
      <4>2. /\ records \in [Keys -> Records \cup {None}]
            /\ \/ records' = records
               \/ records' = [records EXCEPT ![key[r]] = Record(r)]
        BY <1>18 DEF StoreFails
      <4> QED BY <4>1, <4>2
    <3>2. answer' \in [Requests -> Completions \cup {None}]
      BY <1>18, CompletionTyped DEF StoreFails, Answer
    <3> QED BY <1>18, <2>1, <3>1, <3>2 DEF StoreFails, Answer, Counts, Fault
  <2>3. ASSUME NEW s \in Requests PROVE Shape(s)'
    BY <1>18 DEF StoreFails, Answer, Counts, Fault
  <2> QED BY <2>2, <2>3
<1>19. ASSUME NEW k \in Keys, ForgetRecord(k)
      PROVE  TypeInv'
  <2>1. /\ telemetry' \in Counted(Requests, Providers)
        /\ statistics' \in CacheStatistics
    BY <1>19, FieldCounted DEF ForgetRecord, Fault
  <2>2. TypeOK'
    BY <1>19, <2>1 DEF ForgetRecord, Fault
  <2>3. ASSUME NEW s \in Requests PROVE Shape(s)'
    BY <1>19 DEF ForgetRecord, Fault
  <2> QED BY <2>2, <2>3
<1>20. ASSUME NEW e \in Entries, ForgetResponse(e)
      PROVE  TypeInv'
  <2>1. /\ telemetry' \in Counted(Requests, Providers)
        /\ statistics' \in CacheStatistics
    BY <1>20, FieldCounted DEF ForgetResponse, Fault
  <2>2. TypeOK'
    BY <1>20, <2>1 DEF ForgetResponse, Fault
  <2>3. ASSUME NEW s \in Requests PROVE Shape(s)'
    BY <1>20 DEF ForgetResponse, Fault
  <2> QED BY <2>2, <2>3
<1>21. ASSUME Restart
      PROVE  TypeInv'
  <2>1. /\ telemetry' \in Counted(Requests, Providers)
        /\ statistics' \in CacheStatistics
    BY <1>21, InitCounted DEF Restart, Fault, InitStatistics, CacheStatistics
  <2>2. TypeOK'
    BY <1>21, <2>1 DEF Restart, Fault
  <2>3. ASSUME NEW s \in Requests PROVE Shape(s)'
    BY <1>21 DEF Restart, Fault
  <2> QED BY <2>2, <2>3
<1>22. ASSUME UNCHANGED vars
      PROVE  TypeInv'
  <2>1. /\ telemetry' \in Counted(Requests, Providers)
        /\ statistics' \in CacheStatistics
    BY <1>22, FieldCounted DEF vars
  <2>2. TypeOK'
    BY <1>22, <2>1 DEF vars
  <2>3. ASSUME NEW s \in Requests PROVE Shape(s)'
    BY <1>22 DEF vars
  <2> QED BY <2>2, <2>3
<1>23. CASE \E r \in Requests : Handles(r)
  BY <1>23, <1>5, <1>6, <1>7, <1>8, <1>16 DEF Handles, UnknownModel, NoEligible
<1>24. CASE \E r \in Requests : Invokes(r)
  BY <1>24, <1>12, <1>13 DEF Invokes
<1>25. CASE \E r \in Requests : StoreAnswers(r)
  BY <1>25, <1>2, <1>3, <1>4, <1>9, <1>10, <1>11, <1>14, <1>15, <1>17, <1>18
     DEF StoreAnswers
<1> QED BY <1>1, <1>19, <1>20, <1>21, <1>22, <1>23, <1>24, <1>25 DEF Next

-----------------------------------------------------------------------------
(* The attempts                                                            *)

\* What has been tried and failed is excluded, and what is tried now is not.
Attempts(r) ==
  /\ IsFiniteSet(Tried(r)) /\ Cardinality(Tried(r)) = Len(tried[r])
  /\ tried[r] # <<>> => Tried(r) \subseteq Permitted(payload[r])
  /\ tried[r] # <<>> /\ payload[r].model # AutoModel
       => Tried(r) \subseteq Offering(payload[r].model)
  /\ phase[r] \in {"new", "replaying", "routing", "exhausted"} =>
       Tried(r) = excluded[r]
  /\ phase[r] \in {"reading", "calling"} =>
       Tried(r) = excluded[r] \cup {Chosen(r)}

AttemptsInv == \A r \in Requests : Attempts(r)

LEMMA UntriedAttempts ==
  ASSUME NEW r, tried[r] = <<>>
  PROVE  Tried(r) = {} /\ Cardinality(Tried(r)) = 0 /\ IsFiniteSet(Tried(r))
PROOF
<1>1. Tried(r) = {}
  BY DEF Tried, Range
<1> QED BY <1>1, FS_EmptySet

LEMMA InitAttempts == Init => AttemptsInv
PROOF
<1> SUFFICES ASSUME Init, NEW r \in Requests PROVE Attempts(r)
  BY DEF AttemptsInv
<1>1. tried[r] = <<>> /\ excluded[r] = {} /\ phase[r] = "new"
  BY DEF Init
<1> QED BY <1>1, UntriedAttempts DEF Attempts

\* One more attempt, at a provider that routing has chosen.
LEMMA SelectedAttempts ==
  ASSUME TypeInv, NEW r \in Requests, Attempts(r), NEW p, Selected(r, p),
         payload'[r] = payload[r]
  PROVE  /\ tried'[r] # <<>>
         /\ IsFiniteSet(Tried(r)') /\ Cardinality(Tried(r)') = Len(tried'[r])
         /\ Tried(r)' \subseteq Permitted(payload[r])
         /\ payload[r].model # AutoModel
              => Tried(r)' \subseteq Offering(payload[r].model)
         /\ Tried(r)' = excluded[r] \cup {p} /\ Chosen(r)' = p
PROOF
<1>1. /\ p \in Permitted(payload[r]) /\ p \notin excluded[r]
      /\ payload[r].model # AutoModel => p \in Offering(payload[r].model)
  BY RouteSound DEF Selected
<1>2. tried[r] \in Seq(Providers) /\ tried'[r] = Append(tried[r], p)
  BY DEF Selected, TypeInv, TypeOK
<1>3. p \in Providers
  BY <1>1 DEF Permitted
<1>4. Tried(r)' = Tried(r) \cup {p} /\ Tried(r) = excluded[r]
  BY <1>2, <1>3, RangeAppend DEF Tried, Attempts, Selected
<1>5. tried'[r] # <<>>
  BY <1>2, <1>3, AppendTyped
<1>6. Len(tried'[r]) = Len(tried[r]) + 1 /\ Chosen(r)' = p
  BY <1>2, <1>3 DEF Chosen
<1>7. IsFiniteSet(Tried(r)') /\ Cardinality(Tried(r)') = Len(tried'[r])
  <2>1. /\ IsFiniteSet(Tried(r)) /\ p \notin Tried(r)
        /\ Cardinality(Tried(r)) = Len(tried[r])
    BY <1>1, <1>4 DEF Attempts
  <2>2. /\ IsFiniteSet(Tried(r) \cup {p})
        /\ Cardinality(Tried(r) \cup {p}) = Cardinality(Tried(r)) + 1
    BY <2>1, FS_AddElement
  <2> QED BY <2>1, <2>2, <1>4, <1>6
<1>8. tried[r] = <<>> => Tried(r) = {}
  BY UntriedAttempts
<1> QED BY <1>1, <1>4, <1>5, <1>6, <1>7, <1>8 DEF Attempts

\* A request stays as it is when only its phase goes on.
LEMMA SameAttempts ==
  ASSUME NEW r, Attempts(r),
         tried'[r] = tried[r], excluded'[r] = excluded[r],
         payload'[r] = payload[r],
         \/ phase'[r] = phase[r]
         \/ phase'[r] \notin {"new", "replaying", "routing", "exhausted",
                              "reading", "calling"}
         \/ {phase[r], phase'[r]} \subseteq
              {"new", "replaying", "routing", "exhausted"}
         \/ {phase[r], phase'[r]} \subseteq {"reading", "calling"}
  PROVE  Attempts(r)'
BY DEF Attempts, Tried, Chosen

\* Three actions change the attempts: a selection that is called, one that is
\* made to fail, and a call that fails.
LEMMA NextAttempts ==
  TypeInv /\ AttemptsInv /\ [Next]_vars => AttemptsInv'
PROOF
<1> SUFFICES ASSUME TypeInv, AttemptsInv, [Next]_vars, NEW s \in Requests
             PROVE  Attempts(s)'
  BY DEF AttemptsInv
<1>0. Attempts(s)
  BY DEF AttemptsInv
<1> USE DEF TypeInv, TypeOK, Goes, request, stores, history
<1>1. ASSUME NEW r \in Requests, NEW q \in Payloads,
             NEW k \in Keys \cup {None}, Arrive(r, q, k)
      PROVE  Attempts(s)'
  <2>1. CASE s = r
    <3>1. tried'[s] = <<>> /\ excluded'[s] = {}
          /\ phase'[s] \in {"invalid", "routing", "replaying"}
      BY <1>1, <2>1 DEF Arrive, Shape
    <3>2. /\ Tried(s)' = {} /\ Cardinality(Tried(s)') = 0
          /\ IsFiniteSet(Tried(s)')
      <4>1. Tried(s)' = {}
        BY <3>1 DEF Tried, Range
      <4> QED BY <4>1, FS_EmptySet
    <3> QED BY <3>1, <3>2 DEF Attempts
  <2>2. CASE s # r
    <3>1. /\ tried'[s] = tried[s] /\ excluded'[s] = excluded[s]
          /\ payload'[s] = payload[s] /\ phase'[s] = phase[s]
      BY <1>1, <2>2 DEF Arrive
    <3> QED BY <1>0, <3>1, SameAttempts
  <2> QED BY <2>1, <2>2
<1>2. ASSUME NEW r \in Requests, NEW p, Select(r, p)
      PROVE  Attempts(s)'
  <2>1. /\ Selected(r, p) /\ excluded' = excluded /\ payload' = payload
        /\ phase'[r] \in {"reading", "calling"}
        /\ s # r => tried'[s] = tried[s] /\ phase'[s] = phase[s]
    BY <1>2 DEF Select, Selected
  <2>2. CASE s = r
    BY <1>0, <2>1, <2>2, SelectedAttempts DEF Attempts
  <2>3. CASE s # r
    BY <1>0, <2>1, <2>3, SameAttempts
  <2> QED BY <2>2, <2>3
<1>3. ASSUME NEW r \in Requests, NEW p, SimulateFailure(r, p)
      PROVE  Attempts(s)'
  <2>1. /\ Selected(r, p) /\ payload' = payload
        /\ excluded'[r] = excluded[r] \cup {p}
        /\ phase'[r] \in {"routing", "exhausted"}
        /\ s # r => /\ tried'[s] = tried[s] /\ phase'[s] = phase[s]
                    /\ excluded'[s] = excluded[s]
    BY <1>3 DEF SimulateFailure, Selected, Again
  <2>2. CASE s = r
    BY <1>0, <2>1, <2>2, SelectedAttempts DEF Attempts
  <2>3. CASE s # r
    BY <1>0, <2>1, <2>3, SameAttempts
  <2> QED BY <2>2, <2>3
<1>4. ASSUME NEW r \in Requests, CallFails(r)
      PROVE  Attempts(s)'
  <2>1. /\ tried' = tried /\ payload' = payload /\ phase[r] = "calling"
        /\ excluded'[r] = excluded[r] \cup {Chosen(r)}
        /\ phase'[r] \in {"routing", "exhausted"}
        /\ s # r => phase'[s] = phase[s] /\ excluded'[s] = excluded[s]
    BY <1>4 DEF CallFails, Again
  <2>2. CASE s = r
    BY <1>0, <2>1, <2>2 DEF Attempts, Tried
  <2>3. CASE s # r
    BY <1>0, <2>1, <2>3, SameAttempts
  <2> QED BY <2>2, <2>3
<1>5. ASSUME NEW r \in Requests, 
             \/ Replay(r) \/ NothingToReplay(r) \/ ReplayFails(r)
             \/ UnknownModel(r) \/ NoEligible(r)
             \/ CacheHit(r) \/ CacheMiss(r) \/ CacheReadFails(r)
             \/ CallSucceeds(r) \/ CacheWrite(r) \/ CacheWriteFails(r)
             \/ Respond(r) \/ Store(r) \/ StoreFails(r)
      PROVE  Attempts(s)'
  <2>1. tried' = tried /\ excluded' = excluded /\ payload' = payload
    BY <1>5 DEF Replay, NothingToReplay, ReplayFails, UnknownModel, NoEligible,
         CacheHit, CacheMiss, CacheReadFails, CallSucceeds, CacheWrite,
         CacheWriteFails, Respond, Store, StoreFails, Answer
  <2>2. \/ phase'[s] = phase[s]
        \/ phase'[s] \notin {"new", "replaying", "routing", "exhausted",
                              "reading", "calling"}
        \/ {phase[s], phase'[s]} \subseteq
              {"new", "replaying", "routing", "exhausted"}
        \/ {phase[s], phase'[s]} \subseteq {"reading", "calling"}
    BY <1>5 DEF Replay, NothingToReplay, ReplayFails, UnknownModel, NoEligible,
         CacheHit, CacheMiss, CacheReadFails, CallSucceeds, CacheWrite,
         CacheWriteFails, Respond, Store, StoreFails, Answer, Finish
  <2> QED BY <1>0, <2>1, <2>2, SameAttempts
<1>6. ASSUME \/ \E k \in Keys : ForgetRecord(k)
             \/ \E e \in Entries : ForgetResponse(e)
             \/ Restart
             \/ UNCHANGED vars
      PROVE  Attempts(s)'
  <2>1. tried' = tried /\ excluded' = excluded /\ payload' = payload
    BY <1>6 DEF ForgetRecord, ForgetResponse, Restart, vars
  <2>2. phase'[s] = phase[s] \/ phase'[s] = "lost"
    BY <1>6 DEF ForgetRecord, ForgetResponse, Restart, vars
  <2> QED BY <1>0, <2>1, <2>2, SameAttempts
<1> QED
  BY <1>1, <1>2, <1>3, <1>4, <1>5, <1>6
     DEF Next, Handles, Invokes, StoreAnswers

-----------------------------------------------------------------------------
(* Giving up, and the order of the attempts                                *)

\* A request that was given up has tried whoever it may.
Exhausted(r) ==
  phase[r] = "exhausted" =>
    /\ tried[r] # <<>>
    /\ payload[r].model = AutoModel /\ payload[r].policy # "single_provider"
         => Tried(r) = Permitted(payload[r])

\* Each attempt was the best of those left at its turn.
Ranked(r) ==
  \A i \in 1 .. Len(tried[r]) :
    payload[r].model = AutoModel =>
      LET left == Permitted(payload[r]) \ {tried[r][j] : j \in 1 .. i - 1}
      IN  \A o \in left : NoWorse(tried[r][i], o, left, payload[r])

FallbackInv == \A r \in Requests : Exhausted(r) /\ Ranked(r)

LEMMA InitFallback == Init => FallbackInv
BY DEF Init, FallbackInv, Exhausted, Ranked

LEMMA PayloadMeasured == \A q \in Payloads : Measured(q)
BY GatewayAssumption

\* The attempt limit is reached only when all providers have been tried.
LEMMA LimitTriesAll ==
  ASSUME NEW q, NEW S, IsFiniteSet(S), S \subseteq Permitted(q),
         Cardinality(S) >= Len(Registry)
  PROVE  S = Permitted(q)
PROOF
<1>1. S \in SUBSET Providers /\ Permitted(q) \subseteq Providers
  BY DEF Permitted
<1>2. Cardinality(S) <= Cardinality(Providers)
      /\ (Cardinality(Providers) = Cardinality(S) => Providers = S)
  BY <1>1, ProvidersCounted, FS_Subset
<1>3. Cardinality(S) \in Nat /\ Len(Registry) \in Nat
  BY FS_CardinalityType, RoutingAssumption
<1>4. Cardinality(Providers) = Cardinality(S)
  BY <1>2, <1>3, ProvidersCounted
<1> QED BY <1>1, <1>2, <1>4

\* The order of the attempts stays as it is when only the phase goes on.
LEMMA SameRanked ==
  ASSUME NEW r, Ranked(r), tried'[r] = tried[r], payload'[r] = payload[r]
  PROVE  Ranked(r)'
BY DEF Ranked

LEMMA SameFallback ==
  ASSUME NEW r, Exhausted(r), Ranked(r),
         tried'[r] = tried[r], payload'[r] = payload[r],
         phase'[r] # "exhausted" \/ phase'[r] = phase[r]
  PROVE  (Exhausted(r) /\ Ranked(r))'
BY DEF Exhausted, Ranked, Tried

\* An attempt is added to the list: the best of those that are left.
LEMMA SelectedRanked ==
  ASSUME TypeInv, NEW r \in Requests, Attempts(r), Ranked(r), NEW p,
         Selected(r, p), payload'[r] = payload[r]
  PROVE  Ranked(r)'
PROOF
<1> DEFINE n == Len(tried[r])
           q == payload[r]
           t == tried'[r]
<1>1. /\ tried[r] \in Seq(Providers) /\ p \in Providers
      /\ t = Append(tried[r], p) /\ rrIndex \in Nat
      /\ p \in Route(q, excluded[r], rrIndex)
      /\ Tried(r) = excluded[r] /\ q \in Payloads
  BY RouteSound DEF Selected, TypeInv, TypeOK, Shape, Permitted, Attempts
<1>2. /\ n \in Nat /\ Len(t) = n + 1 /\ t[n + 1] = p
      /\ \A i \in 1 .. n : t[i] = tried[r][i]
  BY <1>1
<1>3. {t[j] : j \in 1 .. n} = excluded[r]
  <2>1. DOMAIN tried[r] = 1 .. n
    BY <1>1
  <2>2. Tried(r) = {tried[r][j] : j \in 1 .. n}
    BY <2>1 DEF Tried, Range
  <2>3. {t[j] : j \in 1 .. n} = {tried[r][j] : j \in 1 .. n}
    BY <1>2
  <2> QED BY <1>1, <2>2, <2>3
<1> HIDE DEF n, q, t
<1> SUFFICES ASSUME NEW i \in 1 .. n + 1, q.model = AutoModel,
                    NEW left, left = Permitted(q) \ {t[j] : j \in 1 .. i - 1},
                    NEW o \in left
             PROVE  NoWorse(t[i], o, left, q)
  BY <1>2 DEF Ranked, t, q
<1>4. CASE i = n + 1
  <2>1. left = Eligible(q, excluded[r])
    <3>1. i - 1 = n
      BY <1>2, <1>4
    <3> QED BY <1>3, <3>1 DEF Eligible
  <2>2. Measured(q)
    BY <1>1, PayloadMeasured
  <2>3. NoWorse(p, o, left, q)
    BY <1>1, <2>1, <2>2, RouteBest
  <2> QED BY <1>2, <1>4, <2>3
<1>5. CASE i \in 1 .. n
  <2>1. {t[j] : j \in 1 .. i - 1} = {tried[r][j] : j \in 1 .. i - 1}
    <3>1. \A j \in 1 .. i - 1 : t[j] = tried[r][j]
      BY <1>2, <1>5
    <3> QED BY <3>1
  <2>2. left = Permitted(q) \ {tried[r][j] : j \in 1 .. i - 1}
    BY <2>1
  <2>3. NoWorse(tried[r][i], o, left, q)
    BY <1>5, <2>2 DEF Ranked, n, q
  <2> QED BY <1>2, <1>5, <2>3
<1> QED BY <1>2, <1>4, <1>5

\* A failed attempt ends the loop only when nobody is left.
LEMMA AgainExhausted ==
  ASSUME NEW r, NEW t, NEW S, IsFiniteSet(S), Cardinality(S) = Len(t),
         S \subseteq Permitted(payload[r]), Again(r, t) = "exhausted",
         payload[r].model = AutoModel, Len(t) \in Nat
  PROVE  S = Permitted(payload[r])
PROOF
<1>1. Len(t) >= Len(Registry)
  BY RoutingAssumption DEF Again, MaxAttempts
<1> QED BY <1>1, LimitTriesAll

LEMMA NextFallback ==
  TypeInv /\ AttemptsInv /\ FallbackInv /\ [Next]_vars => FallbackInv'
PROOF
<1> SUFFICES ASSUME TypeInv, AttemptsInv, FallbackInv, [Next]_vars,
                    NEW s \in Requests
             PROVE  (Exhausted(s) /\ Ranked(s))'
  BY DEF FallbackInv
<1>0. Exhausted(s) /\ Ranked(s) /\ Attempts(s)
  BY DEF FallbackInv, AttemptsInv
<1> USE DEF TypeInv, TypeOK, Goes, request, stores, history
<1>1. ASSUME NEW r \in Requests, NEW q \in Payloads,
             NEW k \in Keys \cup {None}, Arrive(r, q, k)
      PROVE  (Exhausted(s) /\ Ranked(s))'
  <2>1. CASE s = r
    <3>1. tried'[s] = <<>> /\ phase'[s] # "exhausted"
      BY <1>1, <2>1 DEF Arrive, Shape
    <3> QED BY <3>1 DEF Exhausted, Ranked
  <2>2. CASE s # r
    <3>1. tried'[s] = tried[s] /\ payload'[s] = payload[s] /\ phase'[s] = phase[s]
      BY <1>1, <2>2 DEF Arrive
    <3> QED BY <1>0, <3>1, SameFallback
  <2> QED BY <2>1, <2>2
<1>2. ASSUME NEW r \in Requests, NEW p, Select(r, p) \/ SimulateFailure(r, p)
      PROVE  (Exhausted(s) /\ Ranked(s))'
  <2>1. CASE s = r
    <3>1. /\ Selected(s, p) /\ payload'[s] = payload[s]
          /\ \/ phase'[s] # "exhausted"
             \/ phase'[s] = Again(s, tried'[s])
      BY <1>2, <2>1 DEF Select, SimulateFailure
    <3>2. /\ tried'[s] # <<>>
          /\ IsFiniteSet(Tried(s)') /\ Cardinality(Tried(s)') = Len(tried'[s])
          /\ Tried(s)' \subseteq Permitted(payload[s])
      BY <1>0, <3>1, SelectedAttempts
    <3>3. Len(tried'[s]) \in Nat
      BY <3>2, FS_CardinalityType
    <3>4. Exhausted(s)'
      <4> SUFFICES ASSUME phase'[s] = "exhausted", payload[s].model = AutoModel
                   PROVE  Tried(s)' = Permitted(payload[s])
        BY <3>1, <3>2 DEF Exhausted
      <4> QED BY <3>1, <3>2, <3>3, AgainExhausted
    <3> QED BY <1>0, <3>1, <3>4, SelectedRanked
  <2>2. CASE s # r
    <3>1. tried'[s] = tried[s] /\ payload'[s] = payload[s] /\ phase'[s] = phase[s]
      BY <1>2, <2>2 DEF Select, SimulateFailure, Selected
    <3> QED BY <1>0, <3>1, SameFallback
  <2> QED BY <2>1, <2>2
<1>3. ASSUME NEW r \in Requests, CallFails(r)
      PROVE  (Exhausted(s) /\ Ranked(s))'
  <2>1. /\ tried' = tried /\ payload' = payload
        /\ s # r => phase'[s] = phase[s]
        /\ s = r => phase[s] = "calling" /\ phase'[s] = Again(s, tried[s])
    BY <1>3 DEF CallFails
  <2>2. CASE s = r
    <3>1. /\ tried[s] # <<>> /\ IsFiniteSet(Tried(s))
          /\ Cardinality(Tried(s)) = Len(tried[s])
          /\ Tried(s) \subseteq Permitted(payload[s])
      BY <1>0, <2>1, <2>2 DEF Shape, Attempts
    <3>2. Len(tried[s]) \in Nat
      BY <3>1, FS_CardinalityType
    <3>3. phase'[s] = "exhausted" /\ payload[s].model = AutoModel
            => Tried(s) = Permitted(payload[s])
      BY <2>1, <2>2, <3>1, <3>2, AgainExhausted
    <3>4. Exhausted(s)'
      BY <2>1, <3>1, <3>3 DEF Exhausted, Tried
    <3>5. Ranked(s)'
      BY <1>0, <2>1, SameRanked
    <3> QED BY <3>4, <3>5
  <2>3. CASE s # r
    BY <1>0, <2>1, <2>3, SameFallback
  <2> QED BY <2>2, <2>3
<1>4. ASSUME NEW r \in Requests, NoEligible(r)
      PROVE  (Exhausted(s) /\ Ranked(s))'
  <2>1. /\ tried' = tried /\ payload' = payload
        /\ s # r => phase'[s] = phase[s]
    BY <1>4 DEF NoEligible
  <2>2. CASE s = r /\ tried[s] # <<>>
    <3>1. /\ Tried(s) = excluded[s] /\ Tried(s) \subseteq Permitted(payload[s])
          /\ payload[s] \in Payloads /\ rrIndex \in Nat
          /\ Route(payload[s], excluded[s], rrIndex) = {}
      BY <1>0, <1>4, <2>2 DEF NoEligible, Attempts, Shape
    <3>2. payload[s].model = AutoModel /\ payload[s].policy # "single_provider"
            => Tried(s) = Permitted(payload[s])
      BY <3>1, RouteFinds, PayloadMeasured DEF Eligible
    <3>3. Exhausted(s)'
      BY <2>1, <2>2, <3>2 DEF Exhausted, Tried
    <3>4. Ranked(s)'
      BY <1>0, <2>1, SameRanked
    <3> QED BY <3>3, <3>4
  <2>3. CASE s = r /\ tried[s] = <<>>
    <3>1. phase'[s] = "ineligible"
      BY <1>4, <2>3 DEF NoEligible
    <3> QED BY <1>0, <2>1, <3>1, SameFallback
  <2>4. CASE s # r
    BY <1>0, <2>1, <2>4, SameFallback
  <2> QED BY <2>2, <2>3, <2>4
<1>5. ASSUME NEW r \in Requests,
             \/ Replay(r) \/ NothingToReplay(r) \/ ReplayFails(r)
             \/ UnknownModel(r)
             \/ CacheHit(r) \/ CacheMiss(r) \/ CacheReadFails(r)
             \/ CallSucceeds(r) \/ CacheWrite(r) \/ CacheWriteFails(r)
             \/ Respond(r) \/ Store(r) \/ StoreFails(r)
      PROVE  (Exhausted(s) /\ Ranked(s))'
  <2>1. tried' = tried /\ payload' = payload
    BY <1>5 DEF Replay, NothingToReplay, ReplayFails, UnknownModel,
         CacheHit, CacheMiss, CacheReadFails, CallSucceeds, CacheWrite,
         CacheWriteFails, Respond, Store, StoreFails, Answer
  <2>2. phase'[s] # "exhausted" \/ phase'[s] = phase[s]
    BY <1>5 DEF Replay, NothingToReplay, ReplayFails, UnknownModel,
         CacheHit, CacheMiss, CacheReadFails, CallSucceeds, CacheWrite,
         CacheWriteFails, Respond, Store, StoreFails, Answer, Finish
  <2> QED BY <1>0, <2>1, <2>2, SameFallback
<1>6. ASSUME \/ \E k \in Keys : ForgetRecord(k)
             \/ \E e \in Entries : ForgetResponse(e)
             \/ Restart
             \/ UNCHANGED vars
      PROVE  (Exhausted(s) /\ Ranked(s))'
  <2>1. tried' = tried /\ payload' = payload
    BY <1>6 DEF ForgetRecord, ForgetResponse, Restart, vars
  <2>2. phase'[s] = phase[s] \/ phase'[s] = "lost"
    BY <1>6 DEF ForgetRecord, ForgetResponse, Restart, vars
  <2> QED BY <1>0, <2>1, <2>2, SameFallback
<1> QED
  BY <1>1, <1>2, <1>3, <1>4, <1>5, <1>6
     DEF Next, Handles, Invokes, StoreAnswers

-----------------------------------------------------------------------------
(* The provenance of answers                                               *)

\* c may be given to a request with payload q and key k: it is the completion
\* of a request that came with them.
Rightful(c, q, k) ==
  /\ c.result.by = c.by /\ c.result.to = Question(q)
  /\ c.by \in Permitted(q)
  /\ c.of \in Requests /\ phase[c.of] # "new"
  /\ payload[c.of] = q /\ key[c.of] = k

\* What a request holds between its call or its lookup and its answer.
Holds(r) ==
  /\ phase[r] \in {"writing", "answering", "storing"} =>
       result[r].by = Chosen(r) /\ result[r].to = Question(payload[r])
  /\ phase[r] = "writing" => result[r].run = r /\ payload[r].cached
  /\ answer[r] # None => Rightful(answer[r], payload[r], key[r])

Genuine(e) ==
  cache[e] # None =>
    /\ cache[e].by = e[1] /\ cache[e].to = e[2]
    /\ phase[cache[e].run] # "new" /\ payload[cache[e].run].cached

Recorded(k) ==
  records[k] # None => Rightful(records[k].completion, records[k].payload, k)

ProvenanceInv ==
  /\ \A r \in Requests : Holds(r)
  /\ \A e \in Entries : Genuine(e)
  /\ \A k \in Keys : Recorded(k)

LEMMA InitProvenance == Init => ProvenanceInv
BY DEF Init, ProvenanceInv, Holds, Genuine, Recorded

\* Once it has come, a request keeps its payload and its key.
LEMMA RequestKept ==
  ASSUME TypeInv, [Next]_vars, NEW r \in Requests, phase[r] # "new"
  PROVE  payload'[r] = payload[r] /\ key'[r] = key[r] /\ phase'[r] # "new"
PROOF
<1> USE DEF TypeInv, TypeOK, Goes, request
<1>1. ASSUME NEW s \in Requests, NEW q, NEW k, Arrive(s, q, k)
      PROVE  payload'[r] = payload[r] /\ key'[r] = key[r] /\ phase'[r] # "new"
  BY <1>1 DEF Arrive
<1>2. ASSUME NEW s \in Requests, Handles(s) \/ Invokes(s)
      PROVE  payload'[r] = payload[r] /\ key'[r] = key[r] /\ phase'[r] # "new"
  BY <1>2 DEF Handles, Invokes, UnknownModel, NoEligible, Select,
       SimulateFailure, Again, Respond, Answer, CallSucceeds, Finish, CallFails
<1>3. ASSUME NEW s \in Requests, StoreAnswers(s)
      PROVE  payload'[r] = payload[r] /\ key'[r] = key[r] /\ phase'[r] # "new"
  BY <1>3 DEF StoreAnswers, Replay, NothingToReplay, ReplayFails, CacheHit,
       CacheMiss, CacheReadFails, CacheWrite, CacheWriteFails, Finish, Store,
       StoreFails, Answer
<1>4. ASSUME \/ \E k \in Keys : ForgetRecord(k)
             \/ \E e \in Entries : ForgetResponse(e)
             \/ Restart
             \/ UNCHANGED vars
      PROVE  payload'[r] = payload[r] /\ key'[r] = key[r] /\ phase'[r] # "new"
  BY <1>4 DEF ForgetRecord, ForgetResponse, Restart, vars
<1> QED BY <1>1, <1>2, <1>3, <1>4 DEF Next

LEMMA RightfulKept ==
  ASSUME TypeInv, [Next]_vars, NEW c, NEW q, NEW k, Rightful(c, q, k)
  PROVE  Rightful(c, q, k)'
BY RequestKept DEF Rightful

\* The completion of a request that is about to be answered is its own.
LEMMA CompletionRightful ==
  ASSUME TypeInv, AttemptsInv, NEW r \in Requests, Holds(r),
         phase[r] \in {"answering", "storing"}
  PROVE  Rightful(Completion(r), payload[r], key[r])
PROOF
<1>1. Chosen(r) \in Permitted(payload[r])
  BY ChosenTyped DEF TypeInv, Shape, AttemptsInv, Attempts
<1> QED BY <1>1 DEF Holds, Completion, Rightful

\* What is held stays rightful while its request is not answered.
LEMMA HoldsKept ==
  ASSUME TypeInv, [Next]_vars, NEW s \in Requests, Holds(s),
         answer'[s] = answer[s],
         \/ /\ phase'[s] = phase[s]
            /\ result'[s] = result[s] /\ tried'[s] = tried[s]
         \/ phase'[s] \notin {"writing", "answering", "storing"}
  PROVE  Holds(s)'
PROOF
<1>1. answer'[s] # None => Rightful(answer[s], payload[s], key[s])'
  <2>1. SUFFICES ASSUME answer[s] # None
                 PROVE  Rightful(answer[s], payload[s], key[s])'
    OBVIOUS
  <2>2. phase[s] # "new"
    BY <2>1 DEF TypeInv, Shape
  <2>3. Rightful(answer[s], payload[s], key[s])
    BY <2>1 DEF Holds
  <2>4. payload'[s] = payload[s] /\ key'[s] = key[s]
    BY <2>2, RequestKept
  <2> QED BY <2>3, <2>4, RequestKept DEF Rightful
<1>2. phase'[s] \in {"writing", "answering", "storing"} =>
        payload'[s] = payload[s]
  BY RequestKept
<1> QED BY <1>1, <1>2 DEF Holds, Chosen

\* Only answers that are given now, and the results of a call or a lookup,
\* are new to what requests hold.
LEMMA NextHolds ==
  ASSUME TypeInv, AttemptsInv, ProvenanceInv, [Next]_vars,
         NEW s \in Requests
  PROVE  Holds(s)'
PROOF
<1>0. Holds(s)
  BY DEF ProvenanceInv
<1> USE DEF TypeInv, TypeOK, Goes, request, stores, history
<1>1. CASE answer'[s] = answer[s] /\ phase'[s] = phase[s]
           /\ result'[s] = result[s] /\ tried'[s] = tried[s]
  BY <1>0, <1>1, HoldsKept
<1>2. ASSUME NEW q \in Payloads, NEW k \in Keys \cup {None}, Arrive(s, q, k)
      PROVE  Holds(s)'
  BY <1>0, <1>2, HoldsKept DEF Arrive
<1>3. ASSUME Replay(s) PROVE Holds(s)'
  <2> DEFINE found == records[key[s]]
  <2>1. CASE SameFingerprint(found.payload, payload[s])
    <3>1. /\ found # None /\ key[s] \in Keys /\ found.payload = payload[s]
          /\ answer'[s] = found.completion
          /\ phase[s] # "new" /\ phase'[s] = "replayed"
      BY <1>3, <2>1 DEF Replay, Shape, SameFingerprint
    <3>2. Rightful(found.completion, payload[s], key[s])
      BY <3>1 DEF ProvenanceInv, Recorded
    <3>3. Rightful(answer[s], payload[s], key[s])'
      BY <3>1, <3>2, RequestKept DEF Rightful
    <3> QED BY <3>1, <3>3 DEF Holds
  <2>2. CASE ~SameFingerprint(found.payload, payload[s])
    BY <1>0, <1>3, <2>2, HoldsKept DEF Replay
  <2> QED BY <2>1, <2>2
<1>4. ASSUME \/ NothingToReplay(s) \/ ReplayFails(s)
             \/ UnknownModel(s) \/ NoEligible(s)
             \/ \E p : Select(s, p) \/ SimulateFailure(s, p)
             \/ CacheMiss(s) \/ CacheReadFails(s) \/ CallFails(s)
      PROVE  Holds(s)'
  BY <1>0, <1>4, HoldsKept
     DEF NothingToReplay, ReplayFails, UnknownModel, NoEligible, Select,
         SimulateFailure, CacheMiss, CacheReadFails, CallFails, Again
<1>5. ASSUME CacheHit(s) PROVE Holds(s)'
  <2>1. /\ result'[s] = cache[Entry(s)] /\ cache[Entry(s)] # None
        /\ phase'[s] \in {"answering", "storing"} /\ phase[s] = "reading"
        /\ answer' = answer /\ tried' = tried /\ payload' = payload
        /\ key' = key
    BY <1>5 DEF CacheHit, Finish
  <2>2. Entry(s) \in Entries
    BY <2>1, ChosenTyped DEF Shape, Entry, Entries
  <2>3. result'[s].by = Chosen(s) /\ result'[s].to = Question(payload[s])
    BY <2>1, <2>2 DEF ProvenanceInv, Genuine, Entry
  <2>4. answer[s] # None => Rightful(answer[s], payload[s], key[s])'
    BY <1>0, <2>1, RequestKept DEF Holds, Rightful
  <2> QED BY <2>1, <2>3, <2>4 DEF Holds, Chosen
<1>6. ASSUME CallSucceeds(s) PROVE Holds(s)'
  <2>1. /\ result'[s] =
             [by |-> Chosen(s), to |-> Question(payload[s]), run |-> s]
        /\ payload[s].cached \/ phase'[s] \in {"answering", "storing"}
        /\ answer' = answer /\ tried' = tried /\ payload' = payload
        /\ key' = key
    BY <1>6 DEF CallSucceeds, Finish
  <2>2. answer[s] # None => Rightful(answer[s], payload[s], key[s])'
    BY <1>0, <2>1, RequestKept DEF Holds, Rightful
  <2> QED BY <2>1, <2>2 DEF Holds, Chosen
<1>7. ASSUME CacheWrite(s) \/ CacheWriteFails(s) PROVE Holds(s)'
  <2>1. /\ phase[s] = "writing" /\ phase'[s] \in {"answering", "storing"}
        /\ result' = result /\ answer' = answer /\ tried' = tried
        /\ payload' = payload /\ key' = key
    BY <1>7 DEF CacheWrite, CacheWriteFails, Finish
  <2>2. answer[s] # None => Rightful(answer[s], payload[s], key[s])'
    BY <1>0, <2>1, RequestKept DEF Holds, Rightful
  <2> QED BY <1>0, <2>1, <2>2 DEF Holds, Chosen
<1>8. ASSUME Respond(s) \/ Store(s) \/ StoreFails(s) PROVE Holds(s)'
  <2>1. /\ phase[s] \in {"answering", "storing"} /\ phase'[s] = "answered"
        /\ answer'[s] = Completion(s)
        /\ payload' = payload /\ key' = key
    BY <1>8 DEF Respond, Store, StoreFails, Answer
  <2>2. Rightful(Completion(s), payload[s], key[s])
    BY <1>0, <2>1, CompletionRightful
  <2>3. Rightful(answer[s], payload[s], key[s])'
    BY <2>1, <2>2, RequestKept DEF Rightful
  <2> QED BY <2>1, <2>3 DEF Holds
<1>9. ASSUME \/ \E k \in Keys : ForgetRecord(k)
             \/ \E e \in Entries : ForgetResponse(e)
             \/ Restart
             \/ UNCHANGED vars
      PROVE  Holds(s)'
  <2>1. answer' = answer /\ result' = result /\ tried' = tried
    BY <1>9 DEF ForgetRecord, ForgetResponse, Restart, vars
  <2>2. phase'[s] = phase[s] \/ phase'[s] = "lost"
    BY <1>9 DEF ForgetRecord, ForgetResponse, Restart, vars
  <2> QED BY <1>0, <2>1, <2>2, HoldsKept
<1>10. ASSUME NEW r \in Requests, r # s,
              \/ \E q \in Payloads, k \in Keys \cup {None} : Arrive(r, q, k)
              \/ Handles(r) \/ Invokes(r) \/ StoreAnswers(r)
       PROVE  Holds(s)'
  <2>1. answer'[s] = answer[s] /\ phase'[s] = phase[s]
        /\ result'[s] = result[s] /\ tried'[s] = tried[s]
    BY <1>10 DEF Arrive, Handles, Invokes, StoreAnswers, UnknownModel,
         NoEligible, Select, SimulateFailure, Selected, Respond, Answer,
         CallSucceeds, Finish, CallFails, Replay, NothingToReplay, ReplayFails,
         CacheHit, CacheMiss, CacheReadFails, CacheWrite, CacheWriteFails,
         Store, StoreFails
  <2> QED BY <2>1, <1>1
<1> QED
  BY <1>2, <1>3, <1>4, <1>5, <1>6, <1>7, <1>8, <1>9, <1>10
     DEF Next, Handles, Invokes, StoreAnswers

\* Only a computed result is written to the cache.
LEMMA NextGenuine ==
  ASSUME TypeInv, AttemptsInv, ProvenanceInv, [Next]_vars,
         NEW e \in Entries
  PROVE  Genuine(e)'
PROOF
<1> USE DEF TypeInv, TypeOK, Goes, request, stores, history
<1>1. ASSUME cache'[e] \in {cache[e], None} PROVE Genuine(e)'
  <2>1. SUFFICES ASSUME cache'[e] # None PROVE Genuine(e)'
    BY DEF Genuine
  <2>2. cache'[e] = cache[e] /\ cache[e] \in Results
    BY <1>1, <2>1
  <2>3. cache[e].run \in Requests /\ phase[cache[e].run] # "new"
    BY <2>1, <2>2 DEF ProvenanceInv, Genuine, Results
  <2> QED BY <2>1, <2>2, <2>3, RequestKept DEF ProvenanceInv, Genuine
<1>2. ASSUME NEW r \in Requests, CacheWrite(r) \/ CacheWriteFails(r)
      PROVE  Genuine(e)'
  <2>1. /\ phase[r] = "writing"
        /\ cache' \in {cache, [cache EXCEPT ![Entry(r)] = result[r]]}
        /\ payload' = payload
    BY <1>2 DEF CacheWrite, CacheWriteFails, Finish
  <2>2. CASE cache' = cache
    BY <2>2, <1>1
  <2>3. CASE cache' = [cache EXCEPT ![Entry(r)] = result[r]] /\ e # Entry(r)
    BY <2>3, <1>1
  <2>4. CASE cache' = [cache EXCEPT ![Entry(r)] = result[r]] /\ e = Entry(r)
    <3>1. cache'[e] = result[r]
      BY <2>4
    <3>2. /\ result[r].by = Chosen(r) /\ result[r].to = Question(payload[r])
          /\ result[r].run = r /\ payload[r].cached
      BY <2>1 DEF ProvenanceInv, Holds
    <3>3. phase'[r] # "new"
      BY <2>1, RequestKept
    <3> QED BY <2>1, <2>4, <3>1, <3>2, <3>3 DEF Genuine, Entry
  <2> QED BY <2>1, <2>2, <2>3, <2>4
<1>3. ASSUME NEW r \in Requests,
             \/ \E q \in Payloads, k \in Keys \cup {None} : Arrive(r, q, k)
             \/ Handles(r) \/ Invokes(r)
      PROVE  Genuine(e)'
  BY <1>1, <1>3 DEF Arrive, Handles, Invokes, UnknownModel, NoEligible,
       Select, SimulateFailure, Respond, Answer, CallSucceeds, CallFails
<1>4. ASSUME NEW r \in Requests, StoreAnswers(r) PROVE Genuine(e)'
  BY <1>1, <1>2, <1>4 DEF StoreAnswers, Replay, NothingToReplay, ReplayFails,
       CacheHit, CacheMiss, CacheReadFails, Store, StoreFails, Answer
<1>5. ASSUME \/ \E k \in Keys : ForgetRecord(k)
             \/ \E f \in Entries : ForgetResponse(f)
             \/ Restart
             \/ UNCHANGED vars
      PROVE  Genuine(e)'
  BY <1>1, <1>5 DEF ForgetRecord, ForgetResponse, Restart, vars
<1> QED BY <1>3, <1>4, <1>5 DEF Next

\* A record is the completion and the payload of a request with its key.
LEMMA NextRecorded ==
  ASSUME TypeInv, AttemptsInv, ProvenanceInv, [Next]_vars, NEW k \in Keys
  PROVE  Recorded(k)'
PROOF
<1> USE DEF TypeInv, TypeOK, Goes, request, stores, history
<1>1. ASSUME records'[k] \in {records[k], None} PROVE Recorded(k)'
  <2>1. SUFFICES ASSUME records'[k] # None PROVE Recorded(k)'
    BY DEF Recorded
  <2>2. PICK m : m = records[k] /\ m = records'[k]
    BY <1>1, <2>1
  <2>3. Rightful(m.completion, m.payload, k)
    BY <2>1, <2>2 DEF ProvenanceInv, Recorded
  <2>4. Rightful(m.completion, m.payload, k)'
    BY <2>3, RightfulKept
  <2> QED BY <2>2, <2>4 DEF Recorded
<1>2. ASSUME NEW r \in Requests, Store(r) \/ StoreFails(r)
      PROVE  Recorded(k)'
  <2>1. /\ phase[r] = "storing" /\ key[r] \in Keys
        /\ records' \in {records, [records EXCEPT ![key[r]] = Record(r)]}
    BY <1>2 DEF Store, StoreFails, Answer, Shape
  <2>2. CASE records' = records
    BY <2>2, <1>1
  <2>3. CASE records' = [records EXCEPT ![key[r]] = Record(r)] /\ k # key[r]
    BY <2>3, <1>1
  <2>4. CASE records' = [records EXCEPT ![key[r]] = Record(r)] /\ k = key[r]
    <3>1. records'[k] = Record(r)
      BY <2>4
    <3>2. Rightful(Completion(r), payload[r], key[r])
      BY <2>1, CompletionRightful DEF ProvenanceInv
    <3>3. PICK c, q : c = Completion(r) /\ q = payload[r]
      OBVIOUS
    <3>4. Rightful(c, q, k)'
      BY <2>4, <3>2, <3>3, RightfulKept
    <3> QED BY <3>1, <3>3, <3>4 DEF Recorded, Record
  <2> QED BY <2>1, <2>2, <2>3, <2>4
<1>3. ASSUME NEW r \in Requests,
             \/ \E q \in Payloads, i \in Keys \cup {None} : Arrive(r, q, i)
             \/ Handles(r) \/ Invokes(r)
      PROVE  Recorded(k)'
  BY <1>1, <1>3 DEF Arrive, Handles, Invokes, UnknownModel, NoEligible,
       Select, SimulateFailure, Respond, Answer, CallSucceeds, CallFails
<1>4. ASSUME NEW r \in Requests, StoreAnswers(r) PROVE Recorded(k)'
  BY <1>1, <1>2, <1>4 DEF StoreAnswers, Replay, NothingToReplay, ReplayFails,
       CacheHit, CacheMiss, CacheReadFails, CacheWrite, CacheWriteFails
<1>5. ASSUME \/ \E i \in Keys : ForgetRecord(i)
             \/ \E e \in Entries : ForgetResponse(e)
             \/ Restart
             \/ UNCHANGED vars
      PROVE  Recorded(k)'
  BY <1>1, <1>5 DEF ForgetRecord, ForgetResponse, Restart, vars
<1> QED BY <1>3, <1>4, <1>5 DEF Next

-----------------------------------------------------------------------------
(* Settled keys                                                            *)

Unexecuted == {"invalid", "replaying", "replayed", "conflict", "lost"}

DebtsInv ==
  /\ \A k \in settled : records[k] # None
  /\ \A r \in owed : key[r] \in settled /\ phase[r] \in Unexecuted

LEMMA InitDebts == Init => DebtsInv
BY DEF Init, DebtsInv

\* Only a delivered answer settles its key, and only its loss or a failed
\* lookup lets a request with that key go on to routing.
LEMMA NextDebts == TypeInv /\ DebtsInv /\ [Next]_vars => DebtsInv'
PROOF
<1> SUFFICES ASSUME TypeInv, DebtsInv, [Next]_vars PROVE DebtsInv'
  OBVIOUS
<1> USE NoneIsOther
    DEF TypeInv, TypeOK, Goes, request, stores, history, DebtsInv, Unexecuted
<1>1. ASSUME NEW r \in Requests, NEW q \in Payloads,
             NEW k \in Keys \cup {None}, Arrive(r, q, k)
      PROVE  DebtsInv'
  <2>1. r \notin owed
    BY <1>1 DEF Arrive
  <2>2. phase'[r] = "invalid" \/ phase'[r] = "replaying" \/ k \notin settled
    BY <1>1 DEF Arrive
  <2>3. /\ records' = records /\ settled' = settled
        /\ key' = [key EXCEPT ![r] = k]
        /\ owed' = IF k \in settled THEN owed \cup {r} ELSE owed
        /\ \A s \in Requests : s # r => phase'[s] = phase[s]
    BY <1>1 DEF Arrive
  <2> QED BY <2>1, <2>2, <2>3
<1>2. ASSUME NEW r \in Requests, Replay(r) PROVE DebtsInv'
  <2>1. /\ records' = records /\ settled' = settled /\ owed' = owed
        /\ key' = key /\ phase'[r] \in {"replayed", "conflict"}
        /\ \A s \in Requests : s # r => phase'[s] = phase[s]
    BY <1>2 DEF Replay
  <2> QED BY <2>1
\* The record of an owed request is there.
<1>3. ASSUME NEW r \in Requests, NothingToReplay(r) PROVE DebtsInv'
  <2>1. r \notin owed
    BY <1>3 DEF NothingToReplay
  <2>2. /\ records' = records /\ settled' = settled /\ owed' = owed
        /\ key' = key /\ \A s \in Requests : s # r => phase'[s] = phase[s]
    BY <1>3 DEF NothingToReplay
  <2> QED BY <2>1, <2>2
<1>4. ASSUME NEW r \in Requests, ReplayFails(r) PROVE DebtsInv'
  BY <1>4 DEF ReplayFails
<1>5. ASSUME NEW r \in Requests,
             \/ UnknownModel(r) \/ NoEligible(r)
             \/ \E p : Select(r, p) \/ SimulateFailure(r, p)
             \/ CacheHit(r) \/ CacheMiss(r) \/ CacheReadFails(r)
             \/ CallSucceeds(r) \/ CallFails(r)
             \/ CacheWrite(r) \/ CacheWriteFails(r) \/ Respond(r)
      PROVE  DebtsInv'
  <2>1. /\ records' = records /\ settled' = settled /\ owed' = owed
        /\ key' = key /\ phase[r] \notin Unexecuted
        /\ \A s \in Requests : s # r => phase'[s] = phase[s]
    BY <1>5 DEF UnknownModel, NoEligible, Select, SimulateFailure, CacheHit,
         CacheMiss, CacheReadFails, CallSucceeds, CallFails, CacheWrite,
         CacheWriteFails, Finish, Respond, Answer
  <2> QED BY <2>1
<1>6. ASSUME NEW r \in Requests, Store(r) \/ StoreFails(r) PROVE DebtsInv'
  <2>1. /\ phase[r] = "storing" /\ key[r] \in Keys /\ Record(r) # None
        /\ records' \in {records, [records EXCEPT ![key[r]] = Record(r)]}
    BY <1>6, CompletionTyped DEF Store, StoreFails, Answer, Shape
  <2>2. \A k \in Keys : records[k] # None => records'[k] # None
    BY <2>1
  <2>3. \/ settled' = settled
        \/ settled' = settled \cup {key[r]} /\ records'[key[r]] # None
    BY <1>6, <2>1 DEF Store, StoreFails
  <2>4. /\ owed' = owed /\ key' = key
        /\ \A s \in Requests : s # r => phase'[s] = phase[s]
    BY <1>6 DEF Store, StoreFails, Answer
  <2>5. r \notin owed
    BY <2>1
  <2> QED BY <2>2, <2>3, <2>4, <2>5
<1>7. ASSUME NEW k \in Keys, ForgetRecord(k) PROVE DebtsInv'
  BY <1>7 DEF ForgetRecord
<1>8. ASSUME NEW e \in Entries, ForgetResponse(e) PROVE DebtsInv'
  BY <1>8 DEF ForgetResponse
<1>9. ASSUME Restart PROVE DebtsInv'
  <2>1. \A r \in Requests :
          phase[r] \in Unexecuted => phase'[r] \in Unexecuted
    BY <1>9 DEF Restart
  <2>2. CASE Durable
    BY <1>9, <2>1, <2>2 DEF Restart
  <2>3. CASE ~Durable
    BY <1>9, <2>3 DEF Restart
  <2> QED BY <2>2, <2>3
<1>10. ASSUME UNCHANGED vars PROVE DebtsInv'
  BY <1>10 DEF vars
<1>11. CASE \E r \in Requests : Handles(r) \/ Invokes(r)
  BY <1>11, <1>5 DEF Handles, Invokes
<1>12. CASE \E r \in Requests : StoreAnswers(r)
  BY <1>12, <1>2, <1>3, <1>4, <1>5, <1>6 DEF StoreAnswers
<1> QED BY <1>1, <1>7, <1>8, <1>9, <1>10, <1>11, <1>12 DEF Next

-----------------------------------------------------------------------------
(* The theorems                                                            *)

GatewayInv ==
  TypeInv /\ AttemptsInv /\ FallbackInv /\ ProvenanceInv /\ DebtsInv

LEMMA InitGateway == Init => GatewayInv
BY InitTypes, InitAttempts, InitFallback, InitProvenance, InitDebts
   DEF GatewayInv

LEMMA NextGateway == GatewayInv /\ [Next]_vars => GatewayInv'
BY NextTypes, NextAttempts, NextFallback, NextHolds, NextGenuine, NextRecorded,
   NextDebts
   DEF GatewayInv, ProvenanceInv

\* The strengthening that the theorems below are read off from.
THEOREM GatewayInvariance == Spec => []GatewayInv
PROOF
<1> QED BY InitGateway, NextGateway, PTL DEF Spec

\* The state of the handler and of the stores keeps its types: in particular a
\* completion is made only when there is an attempt and a result to make it of.
THEOREM GatewayTypes == Spec => []TypeOK
PROOF
<1>1. GatewayInv => TypeOK
  BY DEF GatewayInv, TypeInv
<1> QED BY <1>1, GatewayInvariance, PTL

\* Over all its fallbacks no request tries a provider twice, one that its
\* constraints rule out, or, with an explicit model, one that is not its own.
THEOREM FairAttempts == Spec => []AttemptsAreFair
PROOF
<1>1. GatewayInv => AttemptsAreFair
  BY DEF GatewayInv, AttemptsInv, Attempts, AttemptsAreFair
<1> QED BY <1>1, GatewayInvariance, PTL

\* A request is given up only when every provider that its constraints permit
\* has been tried and has failed it: neither the attempt limit nor the policy
\* cuts the fallbacks short.
THEOREM GivingUpIsLast == Spec => []GivesUpAfterAll
PROOF
<1>1. GatewayInv => GivesUpAfterAll
  <2> SUFFICES ASSUME GatewayInv, NEW r \in Requests, phase[r] = "exhausted"
               PROVE  /\ tried[r] # <<>> /\ Tried(r) = excluded[r]
                      /\ payload[r].model = AutoModel
                           /\ payload[r].policy # "single_provider"
                           => Tried(r) = Permitted(payload[r])
    BY DEF GivesUpAfterAll
  <2>1. Exhausted(r) /\ Attempts(r)
    BY DEF GatewayInv, FallbackInv, AttemptsInv
  <2> QED BY <2>1 DEF Exhausted, Attempts
<1> QED BY <1>1, GatewayInvariance, PTL

\* Each attempt takes a provider that no permitted one which is left beats under
\* the policy of the request, however the attempts before it went.
THEOREM AttemptsAreRanked == Spec => []BestFirst
PROOF
<1>1. GatewayInv => BestFirst
  BY DEF GatewayInv, FallbackInv, Ranked, BestFirst
<1> QED BY <1>1, GatewayInvariance, PTL

\* A cached response is filed under the provider and the question that it was
\* produced for, by a request that uses the cache.
THEOREM GenuineCache == Spec => []CacheIsGenuine
PROOF
<1>1. GatewayInv => CacheIsGenuine
  BY DEF GatewayInv, ProvenanceInv, Genuine, CacheIsGenuine
<1> QED BY <1>1, GatewayInvariance, PTL

\* Every completion answers the question of the request that gets it, from a
\* provider that the constraints of that request permit; a replay is that of a
\* request with the same key and payload.
THEOREM RightfulAnswers == Spec => []RightfulAnswer
PROOF
<1>1. GatewayInv => RightfulAnswer
  BY DEF GatewayInv, ProvenanceInv, Holds, Rightful, RightfulAnswer
<1> QED BY <1>1, GatewayInvariance, PTL

\* A request whose key has an answer that was delivered before it came, and
\* not lost since, is never executed.
THEOREM SettledKeys == Spec => []NoReexecution
PROOF
<1>1. GatewayInv => NoReexecution
  BY DEF GatewayInv, DebtsInv, Unexecuted, NoReexecution
<1> QED BY <1>1, GatewayInvariance, PTL

-----------------------------------------------------------------------------
(***************************************************************************)
(* What the gateway counts agrees with what it did, for any number of      *)
(* requests, providers and keys: Telemetry counts the answers, the         *)
(* fallbacks and the attempts of this process, CacheStatistics its         *)
(* lookups, writes and replays.  A step of one request changes what is     *)
(* true of that request only, so each count moves by one at most: the      *)
(* lemmas of the first section say by how much, those of the second where  *)
(* a request must be for each of its steps, and the others go through the  *)
(* counts.                                                                 *)
(***************************************************************************)
(* Counting                                                                *)

\* A set in which at most the place of one element changes.
LEMMA CountMoves ==
  ASSUME NEW S, IsFiniteSet(S), NEW T, NEW r, T \ {r} = S \ {r}
  PROVE  /\ IsFiniteSet(T)
         /\ Cardinality(S) \in Nat
         /\ (r \in T <=> r \in S) => Cardinality(T) = Cardinality(S)
         /\ r \in T /\ r \notin S => Cardinality(T) = Cardinality(S) + 1
PROOF
<1>1. Cardinality(S) \in Nat
  BY FS_CardinalityType
<1>2. CASE r \in T <=> r \in S
  <2>1. T = S
    BY <1>2
  <2> QED BY <1>1, <1>2, <2>1
<1>3. CASE r \in T /\ r \notin S
  <2>1. T = S \cup {r}
    BY <1>3
  <2>2. IsFiniteSet(S \cup {r}) /\ Cardinality(S \cup {r}) = Cardinality(S) + 1
    BY <1>3, FS_AddElement
  <2> QED BY <1>1, <1>3, <2>1, <2>2
<1>4. CASE r \notin T /\ r \in S
  <2>1. T = S \ {r}
    BY <1>4
  <2> QED BY <1>1, <1>4, <2>1, FS_RemoveElement
<1> QED BY <1>2, <1>3, <1>4

\* Pairs of the members of S and of what each of them is worth.
Tagged(S, f) == UNION {{s} \X f[s] : s \in S}

LEMMA TaggedFinite ==
  ASSUME NEW S, IsFiniteSet(S), NEW f, \A s \in S : IsFiniteSet(f[s])
  PROVE  IsFiniteSet(Tagged(S, f))
PROOF
<1> DEFINE g == [s \in S |-> {s} \X f[s]]
           T == {g[s] : s \in S}
<1>1. g \in Surjection(S, T)
  BY DEF Surjection
<1>2. \A U \in T : IsFiniteSet(U)
  <2> SUFFICES ASSUME NEW s \in S PROVE IsFiniteSet({s} \X f[s])
    OBVIOUS
  <2>1. IsFiniteSet({s})
    BY FS_Singleton
  <2> QED BY <2>1, FS_Product
<1>3. Tagged(S, f) = UNION T
  BY DEF Tagged
<1> HIDE DEF g, T
<1>4. IsFiniteSet(T)
  BY <1>1, FS_Surjection
<1> QED BY <1>2, <1>3, <1>4, FS_UNION

\* The pairs of a new member.
LEMMA TaggedAdds ==
  ASSUME NEW S, IsFiniteSet(S), NEW f, \A s \in S : IsFiniteSet(f[s]),
         NEW r, r \notin S, NEW A, IsFiniteSet(A)
  PROVE  /\ Cardinality(Tagged(S, f)) \in Nat /\ Cardinality(A) \in Nat
         /\ Cardinality(Tagged(S, f) \cup ({r} \X A))
              = Cardinality(Tagged(S, f)) + Cardinality(A)
PROOF
<1> DEFINE all == Tagged(S, f)
           own == {r} \X A
<1>1. IsFiniteSet(all)
  BY TaggedFinite
<1>2. IsFiniteSet(own) /\ Cardinality(own) = 1 * Cardinality(A)
  <2>1. IsFiniteSet({r}) /\ Cardinality({r}) = 1
    BY FS_Singleton
  <2> QED BY <2>1, FS_Product
<1>3. all \cap own = {}
  BY DEF Tagged
<1> HIDE DEF all, own
<1>4. Cardinality(all) \in Nat /\ Cardinality(A) \in Nat
  BY <1>1, FS_CardinalityType
<1>5. Cardinality(all \cap own) = 0
  BY <1>3, FS_EmptySet
<1>6. Cardinality(all \cup own) = Cardinality(all) + Cardinality(own) - 0
  BY <1>1, <1>2, <1>5, FS_Union, Zenon
<1> DEFINE x == Cardinality(all)
           y == Cardinality(A)
           z == Cardinality(all \cup own)
           w == Cardinality(own)
<1>7. x \in Nat /\ y \in Nat /\ w = 1 * y /\ z = x + w - 0
  BY <1>2, <1>4, <1>6
<1> HIDE DEF x, y, z, w
<1>8. x \in Nat /\ y \in Nat /\ z = x + y
  BY <1>7
<1> QED BY <1>8 DEF x, y, z, all, own

LEMMA LeastOfTwo ==
  ASSUME NEW a \in Nat, NEW b \in Nat
  PROVE  Min({a, b}) = IF a <= b THEN a ELSE b
BY DEF Min

-----------------------------------------------------------------------------
(* Where a request is when it does what is counted                         *)

Kept == {"answering", "storing", "answered", "lost"}

\* A request has a result from its call or lookup on, and an answer once it is
\* answered or replayed; it looks up and calls what has not failed it yet.
Life(r) ==
  /\ answer[r] # None <=> phase[r] \in {"answered", "replayed"}
  /\ phase[r] = "replayed" => result[r] = None
  /\ phase[r] = "answered" => result[r] # None
  /\ result[r] # None => phase[r] \in Kept \cup {"writing"}
  /\ Hit(r) => payload[r].cached
  /\ phase[r] = "reading" => payload[r].cached /\ Chosen(r) # payload[r].failing
  /\ phase[r] \in {"reading", "calling"} => Chosen(r) \notin excluded[r]
  /\ r \in before => phase[r] \in Ended

\* What the cache serves was computed by a request that is past its write.
Served(e) == cache[e] # None => phase[cache[e].run] \in Kept

LifeInv == (\A r \in Requests : Life(r)) /\ (\A e \in Entries : Served(e))

LEMMA InitLife == Init => LifeInv
BY DEF Init, LifeInv, Life, Served, Hit

\* A step of the request r, and of no other.
Alone(r) ==
  /\ phase[r] \notin Ended
  /\ before' = before
  /\ \A s \in Requests \ {r} :
       /\ phase'[s] = phase[s] /\ payload'[s] = payload[s]
       /\ tried'[s] = tried[s] /\ excluded'[s] = excluded[s]
       /\ result'[s] = result[s] /\ answer'[s] = answer[s]

Steps(r) ==
  \/ \E q \in Payloads, k \in Keys \cup {None} : Arrive(r, q, k)
  \/ Handles(r) \/ Invokes(r) \/ StoreAnswers(r)

LEMMA StepsAlone ==
  ASSUME TypeInv, NEW r \in Requests, Steps(r)
  PROVE  Alone(r)
PROOF
<1> USE DEF TypeInv, TypeOK, Goes, request, stores, history, Ended, Alone
<1>1. ASSUME NEW q \in Payloads, NEW k \in Keys \cup {None}, Arrive(r, q, k)
      PROVE  Alone(r)
  BY <1>1 DEF Arrive
<1>2. CASE UnknownModel(r) \/ NoEligible(r)
  BY <1>2 DEF UnknownModel, NoEligible
<1>3. ASSUME NEW p, Select(r, p) \/ SimulateFailure(r, p)
      PROVE  Alone(r)
  BY <1>3 DEF Select, SimulateFailure, Selected
<1>4. CASE Invokes(r)
  BY <1>4 DEF Invokes, CallSucceeds, CallFails, Finish
<1>5. CASE Replay(r) \/ NothingToReplay(r) \/ ReplayFails(r)
  BY <1>5 DEF Replay, NothingToReplay, ReplayFails, Fault
<1>6. CASE CacheHit(r) \/ CacheMiss(r) \/ CacheReadFails(r)
  BY <1>6 DEF CacheHit, CacheMiss, CacheReadFails, Finish
<1>7. CASE CacheWrite(r) \/ CacheWriteFails(r)
  BY <1>7 DEF CacheWrite, CacheWriteFails, Finish
<1>8. CASE Respond(r) \/ Store(r) \/ StoreFails(r)
  BY <1>8 DEF Respond, Store, StoreFails, Answer
<1> QED BY <1>1, <1>2, <1>3, <1>4, <1>5, <1>6, <1>7, <1>8
           DEF Steps, Handles, StoreAnswers

\* What the others are doing stays as it was.
LEMMA LifeKept ==
  ASSUME NEW s, Life(s),
         /\ phase'[s] = phase[s] /\ payload'[s] = payload[s]
         /\ tried'[s] = tried[s] /\ excluded'[s] = excluded[s]
         /\ result'[s] = result[s] /\ answer'[s] = answer[s]
         /\ s \in before' <=> s \in before
  PROVE  Life(s)'
BY DEF Life, Hit, Chosen

LEMMA StepLife ==
  ASSUME TypeInv, AttemptsInv, ProvenanceInv, LifeInv,
         NEW r \in Requests, Steps(r)
  PROVE  Life(r)'
PROOF
<1>0. /\ Life(r) /\ Alone(r) /\ Holds(r) /\ Attempts(r) /\ r \notin before'
      /\ phase[r] \notin Ended
  BY StepsAlone DEF LifeInv, ProvenanceInv, AttemptsInv, Alone, Life
<1> USE <1>0, NoneIsOther DEF TypeInv, TypeOK, Shape, Goes, request, stores, history
<1>1. ASSUME NEW q \in Payloads, NEW k \in Keys \cup {None}, Arrive(r, q, k)
      PROVE  Life(r)'
  <2>1. /\ phase'[r] \in {"invalid", "routing", "replaying"}
        /\ result'[r] = None /\ answer'[r] = None
    BY <1>1 DEF Arrive
  <2> QED BY <2>1 DEF Life, Hit, Kept
<1>2. CASE \/ UnknownModel(r) \/ NoEligible(r) \/ NothingToReplay(r)
           \/ ReplayFails(r)
  <2>1. /\ phase[r] \in {"routing", "replaying"}
        /\ phase'[r] \in {"unknown", "ineligible", "exhausted", "routing"}
        /\ result'[r] = result[r] /\ answer'[r] = answer[r]
    BY <1>2 DEF UnknownModel, NoEligible, NothingToReplay, ReplayFails
  <2> QED BY <2>1 DEF Life, Hit, Kept
<1>3. CASE Replay(r)
  <2>1. /\ phase[r] = "replaying" /\ result'[r] = result[r]
        /\ \/ phase'[r] = "replayed" /\ answer'[r] # None
           \/ phase'[r] = "conflict" /\ answer'[r] = answer[r]
    <3>1. records[key[r]].completion # None
      BY <1>3 DEF Replay, Records
    <3> QED BY <1>3, <3>1 DEF Replay
  <2> QED BY <2>1 DEF Life, Hit, Kept
<1>4. ASSUME NEW p, Select(r, p)
      PROVE  Life(r)'
  <2>1. /\ phase[r] = "routing"
        /\ phase'[r] = IF payload[r].cached THEN "reading" ELSE "calling"
        /\ result'[r] = result[r] /\ answer'[r] = answer[r]
        /\ payload'[r] = payload[r] /\ excluded'[r] = excluded[r]
        /\ p # payload[r].failing /\ Selected(r, p)
    BY <1>4 DEF Select, Selected
  <2>2. Chosen(r)' = p
    BY <2>1, SelectedAttempts
  <2>3. p \notin excluded[r]
    BY <2>1, RouteSound DEF Selected
  <2> QED BY <2>1, <2>2, <2>3 DEF Life, Hit, Kept
<1>5. ASSUME NEW p, SimulateFailure(r, p)
      PROVE  Life(r)'
  <2>1. /\ phase[r] = "routing" /\ phase'[r] \in {"routing", "exhausted"}
        /\ result'[r] = result[r] /\ answer'[r] = answer[r]
    BY <1>5 DEF SimulateFailure, Selected, Again
  <2> QED BY <2>1 DEF Life, Hit, Kept
<1>6. CASE CacheHit(r)
  <2>1. /\ phase[r] = "reading" /\ phase'[r] \in {"answering", "storing"}
        /\ answer'[r] = answer[r] /\ payload'[r] = payload[r]
        /\ result'[r] = cache[Entry(r)]
    BY <1>6 DEF CacheHit, Finish
  <2> QED BY <2>1 DEF Life, Hit, Kept
<1>7. CASE CacheMiss(r) \/ CacheReadFails(r)
  <2>1. /\ phase[r] = "reading" /\ phase'[r] = "calling"
        /\ answer'[r] = answer[r] /\ result'[r] = result[r]
        /\ tried'[r] = tried[r] /\ excluded'[r] = excluded[r]
    BY <1>7 DEF CacheMiss, CacheReadFails
  <2> QED BY <2>1 DEF Life, Hit, Kept, Chosen
<1>8. CASE CallSucceeds(r)
  <2>1. /\ phase[r] = "calling" /\ phase'[r] \in {"writing", "answering", "storing"}
        /\ answer'[r] = answer[r] /\ result'[r].run = r
    BY <1>8 DEF CallSucceeds, Finish
  <2> QED BY <2>1 DEF Life, Hit, Kept
<1>9. CASE CallFails(r)
  <2>1. /\ phase[r] = "calling" /\ phase'[r] \in {"routing", "exhausted"}
        /\ answer'[r] = answer[r] /\ result'[r] = result[r]
    BY <1>9 DEF CallFails, Again
  <2> QED BY <2>1 DEF Life, Hit, Kept
<1>10. CASE CacheWrite(r) \/ CacheWriteFails(r)
  <2>1. /\ phase[r] = "writing" /\ phase'[r] \in {"answering", "storing"}
        /\ answer'[r] = answer[r] /\ result'[r] = result[r]
        /\ payload'[r] = payload[r]
    BY <1>10 DEF CacheWrite, CacheWriteFails, Finish
  <2> QED BY <2>1 DEF Life, Hit, Kept
<1>11. CASE Respond(r) \/ Store(r) \/ StoreFails(r)
  <2>1. /\ phase[r] \in {"answering", "storing"} /\ phase'[r] = "answered"
        /\ answer'[r] = Completion(r) /\ result'[r] = result[r]
        /\ payload'[r] = payload[r]
    BY <1>11 DEF Respond, Store, StoreFails, Answer
  <2>2. Completion(r) # None /\ result[r] # None
    BY <2>1, CompletionTyped
  <2> QED BY <2>1, <2>2 DEF Life, Hit, Kept
<1> QED BY <1>1, <1>2, <1>3, <1>4, <1>5, <1>6, <1>7, <1>8, <1>9, <1>10, <1>11
           DEF Steps, Handles, Invokes, StoreAnswers

\* Nobody leaves the phases in which its result may be in the cache.
LEMMA StaysKept ==
  ASSUME TypeInv, NEW r \in Requests, Steps(r), phase[r] \in Kept
  PROVE  phase'[r] \in Kept
BY DEF Steps, Handles, Invokes, StoreAnswers, Arrive, UnknownModel, NoEligible,
       Select, SimulateFailure, Selected, Respond, Answer, CallSucceeds, CallFails,
       Replay, NothingToReplay, ReplayFails, CacheHit, CacheMiss, CacheReadFails,
       CacheWrite, CacheWriteFails, Store, StoreFails, Finish, Goes, Kept,
       TypeInv, TypeOK

LEMMA NextLife ==
  TypeInv /\ AttemptsInv /\ ProvenanceInv /\ LifeInv /\ [Next]_vars => LifeInv'
PROOF
<1> SUFFICES ASSUME TypeInv, AttemptsInv, ProvenanceInv, LifeInv, [Next]_vars
             PROVE  LifeInv'
  OBVIOUS
<1>1. ASSUME NEW r \in Requests, Steps(r)
      PROVE  LifeInv'
  <2>1. Alone(r)
    BY <1>1, StepsAlone
  <2>2. ASSUME NEW s \in Requests PROVE Life(s)'
    <3>1. CASE s = r
      BY <1>1, <3>1, StepLife
    <3>2. CASE s # r
      BY <2>1, <3>2, LifeKept DEF LifeInv, Alone
    <3> QED BY <3>1, <3>2
  <2>3. \A s \in Requests : phase[s] \in Kept => phase'[s] \in Kept
    BY <1>1, <2>1, StaysKept DEF Alone
  <2>4. \/ cache' = cache
        \/ /\ phase[r] = "writing" /\ phase'[r] \in Kept
           /\ \A e \in Entries : cache'[e] \in {cache[e], result[r]}
    BY <1>1 DEF Steps, Handles, Invokes, StoreAnswers, Arrive, UnknownModel,
         NoEligible, Select, SimulateFailure, Selected, Respond, Answer,
         CallSucceeds, CallFails, Replay, NothingToReplay, ReplayFails, CacheHit,
         CacheMiss, CacheReadFails, CacheWrite, CacheWriteFails, Store,
         StoreFails, Finish, Goes, Kept, TypeInv, TypeOK, stores
  <2>5. ASSUME NEW e \in Entries PROVE Served(e)'
    <3>1. Served(e) /\ cache[e] \in Results \cup {None}
      BY DEF LifeInv, TypeInv, TypeOK
    <3>2. CASE cache'[e] = cache[e]
      BY <2>3, <3>1, <3>2 DEF Served, Results
    <3>3. CASE phase[r] = "writing" /\ phase'[r] \in Kept /\ cache'[e] = result[r]
      <4>1. result[r].run = r
        BY <3>3 DEF ProvenanceInv, Holds
      <4> QED BY <3>3, <4>1 DEF Served
    <3> QED BY <2>4, <3>2, <3>3
  <2> QED BY <2>2, <2>5 DEF LifeInv
<1>2. ASSUME \/ \E k \in Keys : ForgetRecord(k)
             \/ \E e \in Entries : ForgetResponse(e)
             \/ UNCHANGED vars
      PROVE  LifeInv'
  <2>1. /\ phase' = phase /\ payload' = payload /\ tried' = tried
        /\ excluded' = excluded /\ result' = result /\ answer' = answer
        /\ before' = before
    BY <1>2 DEF ForgetRecord, ForgetResponse, vars, request, history
  <2>2. \A e \in Entries : cache'[e] \in {cache[e], None}
    BY <1>2 DEF ForgetRecord, ForgetResponse, vars, stores, TypeInv, TypeOK
  <2> QED BY <2>1, <2>2, LifeKept DEF LifeInv, Served
<1>3. CASE Restart
  <2>1. \A s \in Requests :
          /\ phase'[s] = IF phase[s] \in Ended \cup {"new"} THEN phase[s] ELSE "lost"
          /\ payload'[s] = payload[s] /\ tried'[s] = tried[s]
          /\ excluded'[s] = excluded[s] /\ result'[s] = result[s]
          /\ answer'[s] = answer[s] /\ (s \in before' <=> phase[s] # "new")
    BY <1>3 DEF Restart, request
  <2>2. ASSUME NEW s \in Requests PROVE Life(s)'
    <3>1. Life(s)
      BY DEF LifeInv
    <3> QED BY <2>1, <3>1 DEF Life, Hit, Kept, Ended
  <2>3. \A e \in Entries : cache'[e] \in {cache[e], None}
    BY <1>3 DEF Restart, stores
  <2>4. \A s \in Requests : phase[s] \in Kept => phase'[s] \in Kept
    BY <2>1 DEF Kept
  <2>5. ASSUME NEW e \in Entries PROVE Served(e)'
    <3>1. Served(e) /\ cache[e] \in Results \cup {None}
      BY DEF LifeInv, TypeInv, TypeOK
    <3> QED BY <2>3, <2>4, <3>1 DEF Served, Results
  <2> QED BY <2>2, <2>5 DEF LifeInv
<1> QED BY <1>1, <1>2, <1>3 DEF Next, Steps

-----------------------------------------------------------------------------
(* The totals of the answers                                               *)

\* A request that is being handled was not answered, and is of this process.
LEMMA Unanswered ==
  ASSUME TypeInv, LifeInv, NEW r \in Requests, Alone(r)
  PROVE  /\ answer[r] = None /\ r \notin Given /\ r \in Own /\ r \in Own'
         /\ Own' = Own /\ IsFiniteSet(Own) /\ IsFiniteSet(Given)
         /\ Given' \ {r} = Given \ {r}
         /\ Given \subseteq Requests
PROOF
<1>1. Life(r) /\ phase[r] \notin Ended
  BY DEF LifeInv, Alone
<1>2. answer[r] = None /\ r \notin before
  BY <1>1 DEF Life, Ended
<1>3. IsFiniteSet(Own) /\ IsFiniteSet(Given)
  BY GatewayAssumption, FS_Subset DEF Own, Given
<1>4. Own' = Own
  BY DEF Own, Alone
<1>5. Given' \ {r} = Given \ {r}
  BY <1>4 DEF Given, Own, Alone
<1> QED BY <1>2, <1>3, <1>4, <1>5 DEF Given, Own

TotalsAgree ==
  /\ telemetry.completed = Cardinality(Given)
  /\ telemetry.hits = Cardinality({r \in Given : Hit(r)})
  /\ telemetry.replays = Cardinality({r \in Given : result[r] = None})
  /\ telemetry.fallbacks =
       Cardinality(UNION {{r} \X (1 .. answer[r].fallbacks) : r \in Given})

\* A step that answers nobody.
LEMMA TotalsKept ==
  ASSUME TypeInv, LifeInv, TotalsAgree, NEW r \in Requests, Alone(r),
         answer'[r] = None, TotalsAgree,
         telemetry'.completed = telemetry.completed,
         telemetry'.hits = telemetry.hits,
         telemetry'.replays = telemetry.replays,
         telemetry'.fallbacks = telemetry.fallbacks
  PROVE  TotalsAgree'
PROOF
<1>1. Given' = Given /\ \A s \in Given : s # r /\ s \in Requests
  BY Unanswered DEF Given
<1>2. \A s \in Given : /\ answer'[s] = answer[s] /\ result'[s] = result[s]
                       /\ Hit(s)' <=> Hit(s)
  BY <1>1 DEF Alone, Hit
<1>3. {s \in Given : Hit(s)}' = {s \in Given : Hit(s)}
  BY <1>1, <1>2
<1>4. {s \in Given : result[s] = None}' = {s \in Given : result[s] = None}
  BY <1>1, <1>2
<1>5. (UNION {{s} \X (1 .. answer[s].fallbacks) : s \in Given})'
        = UNION {{s} \X (1 .. answer[s].fallbacks) : s \in Given}
  BY <1>1, <1>2
<1> QED BY <1>1, <1>3, <1>4, <1>5 DEF TotalsAgree

\* A completion that is given and told as it was obtained.
Gives(r, c, status) ==
  /\ c \in Completions /\ status \in Statuses
  /\ answer'[r] = c /\ result'[r] = result[r] /\ payload'[r] = payload[r]
  /\ status = IF result[r] = None THEN "REPLAY" ELSE CacheStatus(r)
  /\ Tells(c, status)

LEMMA StatusTells ==
  ASSUME LifeInv, NEW r \in Requests, NEW c, NEW status, Gives(r, c, status)
  PROVE  /\ status = "HIT" <=> Hit(r)
         /\ status = "REPLAY" <=> result[r] = None
         /\ EventOf(r)' = Event(c, status)
PROOF
<1>1. Hit(r) => payload[r].cached /\ result[r] # None
  BY DEF LifeInv, Life, Hit
<1>2. status = "HIT" <=> Hit(r)
  BY <1>1 DEF Gives, CacheStatus
<1>3. status = "REPLAY" <=> result[r] = None
  BY DEF Gives, CacheStatus
<1>4. CacheStatus(r)' = CacheStatus(r)
  BY DEF Gives, CacheStatus, Hit
<1> QED BY <1>2, <1>3, <1>4 DEF Gives, EventOf

LEMMA TotalsGiven ==
  ASSUME TypeInv, LifeInv, TotalsAgree, NEW r \in Requests, Alone(r),
         NEW c, NEW status, Gives(r, c, status)
  PROVE  TotalsAgree'
PROOF
<1> DEFINE hits == {s \in Given : Hit(s)}
           replays == {s \in Given : result[s] = None}
           fell == UNION {{s} \X (1 .. answer[s].fallbacks) : s \in Given}
           f == [s \in Given |-> 1 .. answer[s].fallbacks]
<1>1. /\ r \notin Given /\ r \in Given' /\ Given' = Given \cup {r}
      /\ IsFiniteSet(Given) /\ \A s \in Given : s # r /\ s \in Requests
  BY Unanswered, NoneIsOther DEF Gives, Given
<1>2. \A s \in Given : /\ answer'[s] = answer[s] /\ result'[s] = result[s]
                       /\ Hit(s)' <=> Hit(s)
  BY <1>1 DEF Alone, Hit
<1>3. (Hit(r)' <=> Hit(r)) /\ answer'[r] = c /\ result'[r] = result[r]
  BY DEF Hit, Gives
<1>4. IsFiniteSet(hits) /\ IsFiniteSet(replays)
  BY <1>1, FS_Subset
<1>5. /\ hits' \ {r} = hits \ {r} /\ r \notin hits
      /\ r \in hits' <=> status = "HIT"
  BY <1>1, <1>2, <1>3, StatusTells
<1>6. /\ replays' \ {r} = replays \ {r} /\ r \notin replays
      /\ r \in replays' <=> status = "REPLAY"
  BY <1>1, <1>2, <1>3, StatusTells
<1>7. fell = Tagged(Given, f)
  BY DEF Tagged
<1>8. fell' = Tagged(Given, f) \cup ({r} \X (1 .. c.fallbacks))
  BY <1>1, <1>2, <1>3 DEF Tagged
<1>9. c.fallbacks \in Nat
  BY DEF Gives, Completions
<1>10. \A s \in Given : answer[s] \in Completions
  BY <1>1 DEF Given, TypeInv, TypeOK
<1>11. \A s \in Given : IsFiniteSet(f[s])
  <2> SUFFICES ASSUME NEW s \in Given PROVE IsFiniteSet(1 .. answer[s].fallbacks)
    OBVIOUS
  <2>1. answer[s].fallbacks \in Int
    BY <1>10 DEF Completions
  <2> QED BY <2>1, FS_Interval
<1>12. IsFiniteSet(1 .. c.fallbacks) /\ Cardinality(1 .. c.fallbacks) = c.fallbacks
  <2> DEFINE n == c.fallbacks
  <2>1. n \in Nat
    BY <1>9
  <2> HIDE DEF n
  <2>2. IsFiniteSet(1 .. n) /\ Cardinality(1 .. n) = n
    BY <2>1, FS_Interval
  <2> QED BY <2>2 DEF n
<1>13. Cardinality(fell') = Cardinality(fell) + c.fallbacks
  <2> HIDE DEF f, fell
  <2>1. Cardinality(Tagged(Given, f) \cup ({r} \X (1 .. c.fallbacks)))
          = Cardinality(Tagged(Given, f)) + Cardinality(1 .. c.fallbacks)
    <3> DEFINE S == Given
               A == 1 .. c.fallbacks
    <3>1. /\ IsFiniteSet(S) /\ IsFiniteSet(A) /\ r \notin S
          /\ \A s \in S : IsFiniteSet(f[s])
      BY <1>1, <1>11, <1>12
    <3> HIDE DEF S, A
    <3>2. Cardinality(Tagged(S, f) \cup ({r} \X A))
            = Cardinality(Tagged(S, f)) + Cardinality(A)
      BY <3>1, TaggedAdds
    <3> QED BY <3>2 DEF S, A
  <2> QED BY <1>7, <1>8, <1>12, <2>1, Zenon
<1>14. /\ telemetry'.completed = telemetry.completed + 1
       /\ telemetry'.hits
            = IF status = "HIT" THEN telemetry.hits + 1 ELSE telemetry.hits
       /\ telemetry'.replays
            = IF status = "REPLAY" THEN telemetry.replays + 1 ELSE telemetry.replays
       /\ telemetry'.fallbacks = telemetry.fallbacks + c.fallbacks
  BY DEF Gives, Tells, RecordInference, Event, TypeInv, TypeOK, Counted
<1>15. Cardinality(Given') = Cardinality(Given) + 1
  BY <1>1, FS_AddElement
<1>16. Cardinality(hits')
         = IF status = "HIT" THEN Cardinality(hits) + 1 ELSE Cardinality(hits)
  BY <1>4, <1>5, CountMoves
<1>17. Cardinality(replays')
         = IF status = "REPLAY" THEN Cardinality(replays) + 1 ELSE Cardinality(replays)
  BY <1>4, <1>6, CountMoves
<1>18. /\ telemetry.hits = Cardinality(hits) /\ telemetry.replays = Cardinality(replays)
       /\ telemetry.fallbacks = Cardinality(fell)
       /\ telemetry.completed = Cardinality(Given)
  BY DEF TotalsAgree
<1>19. /\ telemetry'.completed = Cardinality(Given')
       /\ telemetry'.hits = Cardinality(hits')
       /\ telemetry'.replays = Cardinality(replays')
       /\ telemetry'.fallbacks = Cardinality(fell')
  BY <1>13, <1>14, <1>15, <1>16, <1>17, <1>18
<1> QED BY <1>19 DEF TotalsAgree

-----------------------------------------------------------------------------
(* The attempts, per provider                                              *)

Failed(p) == {r \in Own : p \in excluded[r]}
Succeeded(p) == {r \in Own : Computed(r) /\ Chosen(r) = p}

CallsAgree ==
  \A p \in Providers :
    /\ telemetry.calls[p]["failure"] = Cardinality(Failed(p))
    /\ telemetry.calls[p]["success"] = Cardinality(Succeeded(p))

LEMMA CallsApart ==
  ASSUME TypeInv, LifeInv, NEW r \in Requests, Alone(r), NEW p
  PROVE  /\ IsFiniteSet(Failed(p)) /\ Failed(p)' \ {r} = Failed(p) \ {r}
         /\ IsFiniteSet(Succeeded(p)) /\ Succeeded(p)' \ {r} = Succeeded(p) \ {r}
         /\ r \in Failed(p) <=> p \in excluded[r]
         /\ r \in Failed(p)' <=> p \in excluded'[r]
         /\ r \in Succeeded(p) <=> Computed(r) /\ Chosen(r) = p
         /\ r \in Succeeded(p)' <=> Computed(r)' /\ Chosen(r)' = p
PROOF
<1>1. r \in Own /\ Own' = Own /\ IsFiniteSet(Own)
  BY Unanswered
<1>2. \A s \in Own : s \in Requests
  BY DEF Own
<1>3. \A s \in Own \ {r} : /\ excluded'[s] = excluded[s]
                           /\ Computed(s)' <=> Computed(s)
                           /\ Chosen(s)' = Chosen(s)
  BY <1>2 DEF Alone, Computed, Hit, Chosen
<1>4. IsFiniteSet(Failed(p)) /\ IsFiniteSet(Succeeded(p))
  BY <1>1, FS_Subset DEF Failed, Succeeded
<1> QED BY <1>1, <1>3, <1>4 DEF Failed, Succeeded

\* No provider was called, or none of its calls returned.
LEMMA CallsKept ==
  ASSUME TypeInv, LifeInv, CallsAgree, NEW r \in Requests, Alone(r),
         telemetry'.calls = telemetry.calls, excluded'[r] = excluded[r],
         \/ ~Computed(r) /\ ~Computed(r)'
         \/ Computed(r) /\ Computed(r)' /\ Chosen(r)' = Chosen(r)
  PROVE  CallsAgree'
PROOF
<1> SUFFICES ASSUME NEW p \in Providers
             PROVE  /\ telemetry'.calls[p]["failure"] = Cardinality(Failed(p)')
                    /\ telemetry'.calls[p]["success"] = Cardinality(Succeeded(p)')
  BY DEF CallsAgree
<1>1. r \in Failed(p)' <=> r \in Failed(p)
  BY CallsApart
<1>2. r \in Succeeded(p)' <=> r \in Succeeded(p)
  BY CallsApart
<1>3. Cardinality(Failed(p)') = Cardinality(Failed(p))
  BY <1>1, CallsApart, CountMoves
<1>4. Cardinality(Succeeded(p)') = Cardinality(Succeeded(p))
  BY <1>2, CallsApart, CountMoves
<1> QED BY <1>3, <1>4 DEF CallsAgree

\* An attempt at a provider that has failed, and that had not failed before.
LEMMA CallsFailed ==
  ASSUME TypeInv, LifeInv, CallsAgree, NEW r \in Requests, Alone(r),
         NEW p \in Providers, p \notin excluded[r],
         telemetry' = RecordProviderCall(telemetry, p, "failure"),
         excluded'[r] = excluded[r] \cup {p}, ~Computed(r), ~Computed(r)'
  PROVE  CallsAgree'
PROOF
<1> SUFFICES ASSUME NEW o \in Providers
             PROVE  /\ telemetry'.calls[o]["failure"] = Cardinality(Failed(o)')
                    /\ telemetry'.calls[o]["success"] = Cardinality(Succeeded(o)')
  BY DEF CallsAgree
<1>1. /\ telemetry.calls \in [Providers -> [Outcomes -> Nat]]
      /\ telemetry'.calls[o]["success"] = telemetry.calls[o]["success"]
      /\ telemetry'.calls[o]["failure"]
           = IF o = p THEN telemetry.calls[o]["failure"] + 1
             ELSE telemetry.calls[o]["failure"]
  BY DEF TypeInv, TypeOK, Counted, RecordProviderCall, Outcomes
<1>2. Cardinality(Succeeded(o)') = Cardinality(Succeeded(o))
  BY CallsApart, CountMoves
<1>3. CASE o = p
  <2>1. Cardinality(Failed(o)') = Cardinality(Failed(o)) + 1
    BY <1>3, CallsApart, CountMoves
  <2> QED BY <1>1, <1>2, <1>3, <2>1 DEF CallsAgree
<1>4. CASE o # p
  <2>1. Cardinality(Failed(o)') = Cardinality(Failed(o))
    BY <1>4, CallsApart, CountMoves
  <2> QED BY <1>1, <1>2, <1>4, <2>1 DEF CallsAgree
<1> QED BY <1>3, <1>4

LEMMA CallsSucceeded ==
  ASSUME TypeInv, LifeInv, CallsAgree, NEW r \in Requests, Alone(r),
         NEW p \in Providers,
         telemetry' = RecordProviderCall(telemetry, p, "success"),
         excluded'[r] = excluded[r], ~Computed(r), Computed(r)', Chosen(r)' = p
  PROVE  CallsAgree'
PROOF
<1> SUFFICES ASSUME NEW o \in Providers
             PROVE  /\ telemetry'.calls[o]["failure"] = Cardinality(Failed(o)')
                    /\ telemetry'.calls[o]["success"] = Cardinality(Succeeded(o)')
  BY DEF CallsAgree
<1>1. /\ telemetry.calls \in [Providers -> [Outcomes -> Nat]]
      /\ telemetry'.calls[o]["failure"] = telemetry.calls[o]["failure"]
      /\ telemetry'.calls[o]["success"]
           = IF o = p THEN telemetry.calls[o]["success"] + 1
             ELSE telemetry.calls[o]["success"]
  BY DEF TypeInv, TypeOK, Counted, RecordProviderCall, Outcomes
<1>2. Cardinality(Failed(o)') = Cardinality(Failed(o))
  BY CallsApart, CountMoves
<1>3. CASE o = p
  <2>1. Cardinality(Succeeded(o)') = Cardinality(Succeeded(o)) + 1
    BY <1>3, CallsApart, CountMoves
  <2> QED BY <1>1, <1>2, <1>3, <2>1 DEF CallsAgree
<1>4. CASE o # p
  <2>1. Cardinality(Succeeded(o)') = Cardinality(Succeeded(o))
    BY <1>4, CallsApart, CountMoves
  <2> QED BY <1>1, <1>2, <1>4, <2>1 DEF CallsAgree
<1> QED BY <1>3, <1>4

-----------------------------------------------------------------------------
(* The recent events                                                       *)

Places(events, e) == {i \in DOMAIN events : events[i] = e}

\* What the buffer is after an event.
Shifted(E, events, new, limit, next) ==
  /\ next \in Seq(E)
  /\ Len(next) = IF Len(events) < limit THEN Len(events) + 1 ELSE limit
  /\ next[1] = new
  /\ \A i \in 2 .. Len(next) : next[i] = events[i - 1]

\* The buffer takes the new event in front and lets at most the last one go.
LEMMA BufferShifts ==
  ASSUME NEW E, NEW events \in Seq(E), NEW new \in E, NEW limit \in Nat \ {0},
         NEW next, next = AppendLeft(events, new, limit)
  PROVE  Shifted(E, events, new, limit, next)
PROOF
<1> USE DEF Shifted
<1>1. CASE Len(events) < limit
  BY <1>1 DEF AppendLeft
<1>2. CASE ~(Len(events) < limit)
  <2> DEFINE rest == SubSeq(events, 1, limit - 1)
  <2>1. limit - 1 \in 0 .. Len(events)
    BY <1>2
  <2>2. rest \in Seq(E) /\ Len(rest) = limit - 1
    BY <2>1, SubSeqTyped
  <2>3. \A i \in 1 .. limit - 1 : rest[i] = events[i]
    BY <2>1
  <2> HIDE DEF rest
  <2>4. AppendLeft(events, new, limit) = <<new>> \o rest
    BY <1>2 DEF AppendLeft, rest
  <2>5. /\ <<new>> \o rest \in Seq(E) /\ Len(<<new>> \o rest) = limit
        /\ (<<new>> \o rest)[1] = new
        /\ \A i \in 2 .. limit : (<<new>> \o rest)[i] = rest[i - 1]
    BY <2>2
  <2>6. \A i \in 2 .. limit : i - 1 \in 1 .. limit - 1
    OBVIOUS
  <2> QED BY <1>2, <2>3, <2>4, <2>5, <2>6
<1> QED BY <1>1, <1>2

\* An event is in the new buffer once more than in the old one at most.
LEMMA PlacesShift ==
  ASSUME NEW E, NEW events \in Seq(E), NEW new \in E, NEW limit \in Nat \ {0},
         NEW next, next = AppendLeft(events, new, limit), NEW e
  PROVE  /\ Cardinality(Places(events, e)) \in Nat
         /\ Cardinality(Places(next, e)) \in Nat
         /\ Cardinality(Places(next, e)) <=
              Cardinality(Places(events, e)) + IF e = new THEN 1 ELSE 0
PROOF
<1> DEFINE old == Places(events, e)
           now == Places(next, e)
           f == [i \in now \ {1} |-> i - 1]
<1> HIDE DEF old, now, f
<1>1. /\ next \in Seq(E) /\ Len(next) \in Nat /\ Len(next) <= Len(events) + 1
      /\ next[1] = new /\ 1 <= Len(next)
      /\ \A i \in 2 .. Len(next) : next[i] = events[i - 1]
  <2>1. /\ next \in Seq(E)
        /\ Len(next) = IF Len(events) < limit THEN Len(events) + 1 ELSE limit
        /\ next[1] = new
        /\ \A i \in 2 .. Len(next) : next[i] = events[i - 1]
    <3>1. Shifted(E, events, new, limit, next)
      BY BufferShifts
    <3> QED BY <3>1 DEF Shifted
  <2>2. Len(events) \in Nat
    OBVIOUS
  <2> QED BY <2>1, <2>2
<1>2. IsFiniteSet(old)
  <2>1. old \subseteq 1 .. Len(events) /\ Len(events) \in Int
    BY DEF Places, old
  <2>2. IsFiniteSet(1 .. Len(events))
    BY <2>1, FS_Interval
  <2> QED BY <2>1, <2>2, FS_Subset
<1>3. IsFiniteSet(now)
  <2>1. now \subseteq 1 .. Len(next) /\ Len(next) \in Int
    BY <1>1 DEF Places, now
  <2>2. IsFiniteSet(1 .. Len(next))
    BY <2>1, FS_Interval
  <2> QED BY <2>1, <2>2, FS_Subset
<1>4. \A i \in now \ {1} : i - 1 \in old
  <2> SUFFICES ASSUME NEW i \in now \ {1} PROVE i - 1 \in old
    OBVIOUS
  <2>1. i \in 2 .. Len(next) /\ next[i] = e
    BY <1>1 DEF Places, now
  <2>2. i - 1 \in 1 .. Len(events) /\ events[i - 1] = e
    BY <1>1, <2>1
  <2> QED BY <2>2 DEF Places, old
<1>5. now \ {1} \subseteq Int
  BY <1>1 DEF Places, now
<1>6. f \in Injection(now \ {1}, old)
  BY <1>4, <1>5 DEF Injection, IsInjective, f
<1>7. Cardinality(now \ {1}) <= Cardinality(old)
  BY <1>2, <1>6, FS_Injection
<1>8. 1 \in now <=> e = new
  BY <1>1 DEF Places, now
<1>9. /\ Cardinality(old) \in Nat /\ Cardinality(now) \in Nat
      /\ Cardinality(now \ {1})
           = IF 1 \in now THEN Cardinality(now) - 1 ELSE Cardinality(now)
  BY <1>2, <1>3, FS_CardinalityType, FS_RemoveElement
<1>10. Cardinality(now) <= Cardinality(old) + IF e = new THEN 1 ELSE 0
  BY <1>7, <1>8, <1>9
<1> QED BY <1>9, <1>10 DEF old, now

Like(e) == {r \in Given : EventOf(r) = e}

EventsAgree ==
  /\ Len(telemetry.events) = Min({RecentEvents, Cardinality(Given)})
  /\ \A e \in Range(telemetry.events) :
       Cardinality(Places(telemetry.events, e)) <= Cardinality(Like(e))

LEMMA EventsKept ==
  ASSUME TypeInv, LifeInv, EventsAgree, NEW r \in Requests, Alone(r),
         answer'[r] = None, telemetry'.events = telemetry.events
  PROVE  EventsAgree'
PROOF
<1>1. Given' = Given /\ \A s \in Given : s # r /\ s \in Requests
  BY Unanswered DEF Given
<1>2. \A s \in Given : EventOf(s)' = EventOf(s)
  BY <1>1 DEF Alone, EventOf, CacheStatus, Hit
<1>3. \A e : Like(e)' = Like(e)
  BY <1>1, <1>2 DEF Like
<1> QED BY <1>1, <1>3 DEF EventsAgree

LEMMA EventsGiven ==
  ASSUME TypeInv, LifeInv, EventsAgree, NEW r \in Requests, Alone(r),
         NEW c, NEW status, Gives(r, c, status)
  PROVE  EventsAgree'
PROOF
<1> DEFINE E == InferenceEvents(Requests, Providers)
           events == telemetry.events
           new == Event(c, status)
<1>1. /\ r \notin Given /\ Given' = Given \cup {r} /\ IsFiniteSet(Given)
      /\ \A s \in Given : s # r /\ s \in Requests
  BY Unanswered, NoneIsOther DEF Gives, Given
<1>2. /\ events \in Seq(E) /\ new \in E /\ RecentEvents \in Nat \ {0}
      /\ telemetry'.events = AppendLeft(events, new, RecentEvents)
  BY GatewayAssumption
     DEF Gives, Tells, RecordInference, TypeInv, TypeOK, Counted, Event,
         InferenceEvents, Completions
<1>3. EventOf(r)' = new /\ \A s \in Given : EventOf(s)' = EventOf(s)
  BY <1>1, StatusTells DEF Alone, EventOf, CacheStatus, Hit
<1>4. Cardinality(Given) \in Nat /\ Cardinality(Given') = Cardinality(Given) + 1
  BY <1>1, FS_AddElement, FS_CardinalityType
<1>5. ASSUME NEW e
      PROVE  /\ Cardinality(Like(e)) \in Nat
             /\ Cardinality(Like(e)')
                  = Cardinality(Like(e)) + IF e = new THEN 1 ELSE 0
  <2>1. IsFiniteSet(Like(e)) /\ r \notin Like(e)
    BY <1>1, FS_Subset DEF Like
  <2>2. Like(e)' = IF e = new THEN Like(e) \cup {r} ELSE Like(e)
    BY <1>1, <1>3 DEF Like
  <2>3. Cardinality(Like(e)) \in Nat
    BY <2>1, FS_CardinalityType
  <2>4. Cardinality(Like(e) \cup {r}) = Cardinality(Like(e)) + 1
    BY <2>1, FS_AddElement
  <2>5. CASE e = new
    BY <2>2, <2>3, <2>4, <2>5
  <2>6. CASE e # new
    BY <2>2, <2>3, <2>6
  <2> QED BY <2>5, <2>6
<1> HIDE DEF E, events, new
<1> DEFINE next == AppendLeft(events, new, RecentEvents)
<1>6. /\ next \in Seq(E)
      /\ Len(next) = IF Len(events) < RecentEvents THEN Len(events) + 1
                     ELSE RecentEvents
      /\ next[1] = new
      /\ \A i \in 2 .. Len(next) : next[i] = events[i - 1]
  <2>1. next = AppendLeft(events, new, RecentEvents)
    OBVIOUS
  <2> HIDE DEF next
  <2>2. Shifted(E, events, new, RecentEvents, next)
    BY <1>2, <2>1, BufferShifts
  <2> QED BY <2>2 DEF Shifted
<1>7. Len(next) = Min({RecentEvents, Cardinality(Given')})
  <2>1. Len(events) = IF RecentEvents <= Cardinality(Given) THEN RecentEvents
                      ELSE Cardinality(Given)
    BY <1>2, <1>4, LeastOfTwo DEF EventsAgree, events
  <2>2. Min({RecentEvents, Cardinality(Given')})
          = IF RecentEvents <= Cardinality(Given') THEN RecentEvents
            ELSE Cardinality(Given')
    BY <1>2, <1>4, LeastOfTwo
  <2> QED BY <1>2, <1>4, <1>6, <2>1, <2>2
<1>8. ASSUME NEW e \in Range(next)
      PROVE  Cardinality(Places(next, e)) <= Cardinality(Like(e)')
  <2> HIDE DEF next
  <2>1. /\ Cardinality(Places(events, e)) \in Nat
        /\ Cardinality(Places(next, e)) \in Nat
        /\ Cardinality(Places(next, e)) <=
             Cardinality(Places(events, e)) + IF e = new THEN 1 ELSE 0
    BY <1>2, PlacesShift DEF next
  <2>2. Cardinality(Places(events, e)) <= Cardinality(Like(e))
    <3>1. CASE e \in Range(events)
      BY <3>1 DEF EventsAgree, events
    <3>2. CASE e \notin Range(events)
      <4>1. Places(events, e) = {}
        BY <3>2 DEF Places, Range
      <4> QED BY <1>5, <4>1, FS_EmptySet
    <3> QED BY <3>1, <3>2
  <2> QED BY <1>5, <2>1, <2>2
<1> QED BY <1>2, <1>7, <1>8 DEF EventsAgree, next

-----------------------------------------------------------------------------
(* Telemetry, step by step                                                 *)

TelemetryInv == TotalsAgree /\ CallsAgree /\ EventsAgree

LEMMA InitTelemetryInv == Init => TelemetryInv
PROOF
<1> SUFFICES ASSUME Init PROVE TelemetryInv
  OBVIOUS
<1>1. Given = {} /\ \A p : Failed(p) = {} /\ Succeeded(p) = {}
  BY DEF Init, Given, Failed, Succeeded, Own, Computed
<1>2. telemetry = InitTelemetry(Providers)
  BY DEF Init
<1>3. UNION {{r} \X (1 .. answer[r].fallbacks) : r \in Given} = {}
  BY <1>1
<1>4. TotalsAgree
  BY <1>1, <1>2, <1>3, FS_EmptySet DEF TotalsAgree, InitTelemetry
<1>5. CallsAgree
  BY <1>1, <1>2, FS_EmptySet DEF CallsAgree, InitTelemetry, Outcomes
<1>6. EventsAgree
  <2>1. Min({RecentEvents, Cardinality(Given)}) = 0
    <3>1. Cardinality(Given) = 0 /\ 0 \in Nat /\ RecentEvents \in Nat \ {0}
      BY <1>1, FS_EmptySet, GatewayAssumption
    <3> QED BY <3>1, LeastOfTwo
  <2>2. telemetry.events = <<>> /\ Range(telemetry.events) = {}
    BY <1>2 DEF InitTelemetry, Range
  <2> QED BY <2>1, <2>2 DEF EventsAgree
<1> QED BY <1>4, <1>5, <1>6 DEF TelemetryInv

\* A step that telemetry is not told of.
LEMMA TelemetryKept ==
  ASSUME TypeInv, LifeInv, TelemetryInv, NEW r \in Requests, Alone(r),
         answer'[r] = None, telemetry' = telemetry, excluded'[r] = excluded[r],
         \/ ~Computed(r) /\ ~Computed(r)'
         \/ Computed(r) /\ Computed(r)' /\ Chosen(r)' = Chosen(r)
  PROVE  TelemetryInv'
BY TotalsKept, CallsKept, EventsKept DEF TelemetryInv

LEMMA TelemetryGiven ==
  ASSUME TypeInv, LifeInv, TelemetryInv, NEW r \in Requests, Alone(r),
         NEW c, NEW status, Gives(r, c, status),
         tried'[r] = tried[r], excluded'[r] = excluded[r]
  PROVE  TelemetryInv'
PROOF
<1>1. telemetry'.calls = telemetry.calls
  BY DEF Gives, Tells, RecordInference, TypeInv, TypeOK, Counted
<1>2. (Computed(r)' <=> Computed(r)) /\ Chosen(r)' = Chosen(r)
  BY DEF Gives, Computed, Hit, Chosen
<1> QED BY <1>1, <1>2, TotalsGiven, CallsKept, EventsGiven DEF TelemetryInv

LEMMA CallTold ==
  ASSUME TypeInv, NEW p \in Providers, NEW o \in Outcomes,
         telemetry' = RecordProviderCall(telemetry, p, o)
  PROVE  /\ telemetry'.completed = telemetry.completed
         /\ telemetry'.hits = telemetry.hits
         /\ telemetry'.replays = telemetry.replays
         /\ telemetry'.fallbacks = telemetry.fallbacks
         /\ telemetry'.events = telemetry.events
BY DEF TypeInv, TypeOK, Counted, RecordProviderCall

\* Before its call has returned a request has no result.
LEMMA NoResult ==
  ASSUME LifeInv, NEW r \in Requests,
         phase[r] \in {"new", "replaying", "routing", "reading", "calling"}
  PROVE  result[r] = None /\ ~Computed(r) /\ ~Hit(r)
BY DEF LifeInv, Life, Kept, Computed, Hit

LEMMA StepTelemetry ==
  ASSUME TypeInv, AttemptsInv, ProvenanceInv, LifeInv, TelemetryInv,
         NEW r \in Requests, Steps(r)
  PROVE  TelemetryInv'
PROOF
<1>0. /\ Alone(r) /\ Life(r) /\ answer[r] = None
  BY StepsAlone, Unanswered DEF LifeInv
<1> USE <1>0 DEF TypeInv, TypeOK, Goes, request, stores, counters
<1>1. ASSUME NEW q \in Payloads, NEW k \in Keys \cup {None}, Arrive(r, q, k)
      PROVE  TelemetryInv'
  <2>1. /\ telemetry' = telemetry /\ answer'[r] = None
        /\ excluded'[r] = excluded[r] /\ phase[r] = "new" /\ result'[r] = result[r]
    BY <1>1 DEF Arrive
  <2> QED BY <2>1, NoResult, TelemetryKept DEF Computed
<1>2. CASE \/ UnknownModel(r) \/ NoEligible(r) \/ NothingToReplay(r)
           \/ ReplayFails(r) \/ CacheMiss(r) \/ CacheReadFails(r)
  <2>1. /\ telemetry' = telemetry /\ answer'[r] = None
        /\ excluded'[r] = excluded[r] /\ result'[r] = result[r]
        /\ phase[r] \in {"routing", "replaying", "reading"}
    BY <1>2 DEF UnknownModel, NoEligible, NothingToReplay, ReplayFails,
         CacheMiss, CacheReadFails
  <2> QED BY <2>1, NoResult, TelemetryKept DEF Computed
<1>3. CASE Replay(r)
  <2> DEFINE c == records[key[r]].completion
  <2>1. /\ phase[r] = "replaying" /\ result'[r] = result[r]
        /\ payload'[r] = payload[r] /\ tried'[r] = tried[r]
        /\ excluded'[r] = excluded[r]
    BY <1>3 DEF Replay
  <2>2. CASE telemetry' = telemetry /\ answer'[r] = None
    BY <2>1, <2>2, NoResult, TelemetryKept DEF Computed
  <2>3. CASE answer'[r] = c /\ Tells(c, "REPLAY")
    <3>1. c \in Completions
      BY <1>3 DEF Replay, Records, Shape
    <3>2. Gives(r, c, "REPLAY")
      BY <2>1, <2>3, <3>1, NoResult DEF Gives, Statuses
    <3> QED BY <2>1, <3>2, TelemetryGiven
  <2> QED BY <1>3, <2>2, <2>3 DEF Replay
<1>4. ASSUME NEW p, Select(r, p)
      PROVE  TelemetryInv'
  <2>1. /\ telemetry' = telemetry /\ answer'[r] = None
        /\ excluded'[r] = excluded[r] /\ result'[r] = result[r]
        /\ phase[r] = "routing"
    BY <1>4 DEF Select, Selected
  <2> QED BY <2>1, NoResult, TelemetryKept DEF Computed
<1>5. ASSUME NEW p, SimulateFailure(r, p)
      PROVE  TelemetryInv'
  <2>1. /\ telemetry' = RecordProviderCall(telemetry, p, "failure")
        /\ answer'[r] = None /\ result'[r] = result[r]
        /\ excluded'[r] = excluded[r] \cup {p} /\ phase[r] = "routing"
    BY <1>5 DEF SimulateFailure, Selected
  <2>2. p \in Providers /\ p \notin excluded[r]
    BY <1>5, RouteSound DEF SimulateFailure, Selected, Permitted
  <2>3. ~Computed(r) /\ ~Computed(r)'
    BY <2>1, NoResult DEF Computed
  <2> QED BY <2>1, <2>2, <2>3, CallTold, TotalsKept, CallsFailed, EventsKept
             DEF TelemetryInv, Outcomes
<1>6. CASE CacheHit(r)
  <2>1. /\ telemetry' = telemetry /\ answer'[r] = None
        /\ excluded'[r] = excluded[r] /\ phase[r] = "reading"
        /\ result'[r] = cache[Entry(r)] /\ cache[Entry(r)] # None
    BY <1>6 DEF CacheHit, Finish
  <2>2. Entry(r) \in Entries
    BY <2>1, ChosenTyped DEF Entry, Entries, Shape
  <2>3. cache[Entry(r)].run # r
    BY <2>1, <2>2 DEF LifeInv, Served, Kept
  <2>4. ~Computed(r)'
    BY <2>1, <2>3 DEF Computed, Hit
  <2> QED BY <2>1, <2>4, NoResult, TelemetryKept
<1>7. CASE CallSucceeds(r)
  <2>1. /\ telemetry' = RecordProviderCall(telemetry, Chosen(r), "success")
        /\ answer'[r] = None /\ phase[r] = "calling"
        /\ excluded'[r] = excluded[r] /\ tried' = tried
        /\ result'[r] = [by |-> Chosen(r), to |-> Question(payload[r]), run |-> r]
    BY <1>7 DEF CallSucceeds
  <2>2. Chosen(r) \in Providers /\ Chosen(r)' = Chosen(r)
    BY <2>1, ChosenTyped DEF Shape, Chosen
  <2>3. result'[r] \in Results
    BY <2>1, <2>2 DEF Results, Shape
  <2>4. Computed(r)' /\ ~Computed(r)
    BY <2>1, <2>3, NoResult, NoneIsOther DEF Computed, Hit
  <2> QED BY <2>1, <2>2, <2>4, CallTold, TotalsKept, CallsSucceeded, EventsKept
             DEF TelemetryInv, Outcomes
<1>8. CASE CallFails(r)
  <2>1. /\ telemetry' = RecordProviderCall(telemetry, Chosen(r), "failure")
        /\ answer'[r] = None /\ phase[r] = "calling" /\ result'[r] = result[r]
        /\ excluded'[r] = excluded[r] \cup {Chosen(r)}
    BY <1>8 DEF CallFails
  <2>2. Chosen(r) \in Providers /\ Chosen(r) \notin excluded[r]
    BY <2>1, ChosenTyped DEF Shape, Life
  <2>3. ~Computed(r) /\ ~Computed(r)'
    BY <2>1, NoResult DEF Computed
  <2> QED BY <2>1, <2>2, <2>3, CallTold, TotalsKept, CallsFailed, EventsKept
             DEF TelemetryInv, Outcomes
<1>9. CASE CacheWrite(r) \/ CacheWriteFails(r)
  <2>1. /\ telemetry' = telemetry /\ answer'[r] = None
        /\ excluded'[r] = excluded[r] /\ result' = result /\ tried' = tried
    BY <1>9 DEF CacheWrite, CacheWriteFails, Finish
  <2>2. (Computed(r)' <=> Computed(r)) /\ Chosen(r)' = Chosen(r)
    BY <2>1 DEF Computed, Hit, Chosen
  <2> QED BY <2>1, <2>2, TelemetryKept
<1>10. CASE Respond(r) \/ Store(r) \/ StoreFails(r)
  <2>1. /\ phase[r] \in {"answering", "storing"} /\ answer'[r] = Completion(r)
        /\ Tells(Completion(r), CacheStatus(r))
        /\ result'[r] = result[r] /\ payload'[r] = payload[r]
        /\ tried'[r] = tried[r] /\ excluded'[r] = excluded[r]
    BY <1>10 DEF Respond, Store, StoreFails, Answer
  <2>2. Completion(r) \in Completions /\ result[r] # None
    BY <2>1, CompletionTyped, NoneIsOther DEF Shape
  <2>3. Gives(r, Completion(r), CacheStatus(r))
    BY <2>1, <2>2 DEF Gives, CacheStatus, Statuses
  <2> QED BY <2>1, <2>3, TelemetryGiven
<1> QED BY <1>1, <1>2, <1>3, <1>4, <1>5, <1>6, <1>7, <1>8, <1>9, <1>10
           DEF Steps, Handles, Invokes, StoreAnswers

LEMMA NextTelemetry ==
  TypeInv /\ AttemptsInv /\ ProvenanceInv /\ LifeInv /\ TelemetryInv
    /\ [Next]_vars => TelemetryInv'
PROOF
<1> SUFFICES ASSUME TypeInv, AttemptsInv, ProvenanceInv, LifeInv, TelemetryInv,
                    [Next]_vars
             PROVE  TelemetryInv'
  OBVIOUS
<1>1. ASSUME NEW r \in Requests, Steps(r)
      PROVE  TelemetryInv'
  BY <1>1, StepTelemetry
<1>2. ASSUME \/ \E k \in Keys : ForgetRecord(k)
             \/ \E e \in Entries : ForgetResponse(e)
             \/ UNCHANGED vars
      PROVE  TelemetryInv'
  <2>1. /\ phase' = phase /\ payload' = payload /\ tried' = tried
        /\ excluded' = excluded /\ result' = result /\ answer' = answer
        /\ before' = before /\ telemetry' = telemetry
    BY <1>2 DEF ForgetRecord, ForgetResponse, vars, request, history, counters
  <2>2. Given' = Given /\ Own' = Own
    BY <2>1 DEF Given, Own
  <2>3. \A s : /\ (Hit(s)' <=> Hit(s)) /\ (Computed(s)' <=> Computed(s))
               /\ Chosen(s)' = Chosen(s) /\ EventOf(s)' = EventOf(s)
    BY <2>1 DEF Hit, Computed, Chosen, EventOf, CacheStatus
  <2>4. \A p : /\ Failed(p)' = Failed(p) /\ Succeeded(p)' = Succeeded(p)
               /\ Like(p)' = Like(p)
    BY <2>1, <2>2, <2>3 DEF Failed, Succeeded, Like
  <2>5. TotalsAgree'
    BY <2>1, <2>2, <2>3 DEF TelemetryInv, TotalsAgree
  <2> QED BY <2>1, <2>2, <2>4, <2>5
             DEF TelemetryInv, CallsAgree, EventsAgree
<1>3. CASE Restart
  <2>1. telemetry' = InitTelemetry(Providers)
    BY <1>3 DEF Restart
  <2>2. \A s \in Own' : answer'[s] = None /\ result'[s] = None /\ excluded'[s] = {}
    <3>1. \A s \in Own' : phase[s] = "new" /\ s \in Requests
      BY <1>3 DEF Restart, Own
    <3> QED BY <1>3, <3>1 DEF Restart, request, TypeInv, Shape
  <2>3. Given' = {} /\ \A p : Failed(p)' = {} /\ Succeeded(p)' = {}
    BY <2>2 DEF Given, Failed, Succeeded, Computed
  <2>4. (UNION {{r} \X (1 .. answer[r].fallbacks) : r \in Given})' = {}
    BY <2>3
  <2>5. TotalsAgree'
    BY <2>1, <2>3, <2>4, FS_EmptySet DEF TotalsAgree, InitTelemetry
  <2>6. CallsAgree'
    BY <2>1, <2>3, FS_EmptySet DEF CallsAgree, InitTelemetry, Outcomes
  <2>7. EventsAgree'
    <3>1. Cardinality(Given') = 0 /\ 0 \in Nat /\ RecentEvents \in Nat \ {0}
      BY <2>3, FS_EmptySet, GatewayAssumption
    <3>2. Min({RecentEvents, Cardinality(Given')}) = 0
      BY <3>1, LeastOfTwo
    <3>3. telemetry'.events = <<>> /\ Range(telemetry'.events) = {}
      BY <2>1 DEF InitTelemetry, Range
    <3> QED BY <3>2, <3>3 DEF EventsAgree
  <2> QED BY <2>5, <2>6, <2>7 DEF TelemetryInv
<1> QED BY <1>1, <1>2, <1>3 DEF Next, Steps

-----------------------------------------------------------------------------
(* The cache statistics                                                    *)

Uses(r) == payload[r] # None /\ payload[r].cached

Using == {r \in Own : Uses(r)}
Hits == {r \in Using : Hit(r)}
Written == {r \in Using : Computed(r) /\ phase[r] # "writing"}
Conflicted == {r \in Own : phase[r] = "conflict"}

\* The lookups that count, and the pairs of requests with theirs.
Looks(r) == IF Uses(r) THEN LookedUp(r) ELSE {}
AllLooks == UNION {{r} \X LookedUp(r) : r \in Using}

StatisticsInv ==
  /\ statistics.hits = Cardinality(Hits)
  /\ statistics.hits + statistics.misses = Cardinality(AllLooks)
  /\ statistics.writes = Cardinality(Written)
  /\ statistics.idempotent_replays = telemetry.replays
  /\ statistics.idempotency_conflicts = Cardinality(Conflicted)
  /\ statistics.backend_errors <= faults

LEMMA InitStatisticsInv == Init => StatisticsInv
PROOF
<1> SUFFICES ASSUME Init PROVE StatisticsInv
  OBVIOUS
<1>1. Using = {} /\ Conflicted = {}
  BY DEF Init, Using, Uses, Conflicted, Own
<1>2. Hits = {} /\ Written = {} /\ AllLooks = {}
  BY <1>1 DEF Hits, Written, AllLooks
<1>3. /\ statistics = InitStatistics /\ telemetry = InitTelemetry(Providers)
      /\ faults = 0
  BY DEF Init
<1> QED BY <1>1, <1>2, <1>3, FS_EmptySet
           DEF StatisticsInv, InitStatistics, InitTelemetry

LEMMA StatisticsApart ==
  ASSUME TypeInv, LifeInv, NEW r \in Requests, Alone(r)
  PROVE  /\ IsFiniteSet(Hits) /\ Hits' \ {r} = Hits \ {r}
         /\ IsFiniteSet(Written) /\ Written' \ {r} = Written \ {r}
         /\ IsFiniteSet(Conflicted) /\ Conflicted' \ {r} = Conflicted \ {r}
         /\ r \in Hits <=> Uses(r) /\ Hit(r)
         /\ r \in Hits' <=> Uses(r)' /\ Hit(r)'
         /\ r \in Written <=> Uses(r) /\ Computed(r) /\ phase[r] # "writing"
         /\ r \in Written' <=> Uses(r)' /\ Computed(r)' /\ phase'[r] # "writing"
         /\ r \in Conflicted <=> phase[r] = "conflict"
         /\ r \in Conflicted' <=> phase'[r] = "conflict"
PROOF
<1>1. r \in Own /\ Own' = Own /\ IsFiniteSet(Own)
  BY Unanswered
<1>2. \A s \in Own : s \in Requests
  BY DEF Own
<1>3. \A s \in Own \ {r} : /\ Uses(s)' <=> Uses(s)
                           /\ Hit(s)' <=> Hit(s)
                           /\ Computed(s)' <=> Computed(s)
                           /\ phase'[s] = phase[s]
  BY <1>2 DEF Alone, Uses, Computed, Hit
<1>4. Using \subseteq Own /\ IsFiniteSet(Using)
  BY <1>1, FS_Subset DEF Using
<1>5. IsFiniteSet(Hits) /\ IsFiniteSet(Written) /\ IsFiniteSet(Conflicted)
  BY <1>1, <1>4, FS_Subset DEF Hits, Written, Conflicted
<1> QED BY <1>1, <1>3, <1>5 DEF Using, Hits, Written, Conflicted

LEMMA LooksApart ==
  ASSUME TypeInv, AttemptsInv, LifeInv, NEW r \in Requests, Alone(r)
  PROVE  /\ IsFiniteSet(AllLooks)
         /\ \A s, p : <<s, p>> \in AllLooks <=> s \in Own /\ p \in Looks(s)
         /\ \A s, p : <<s, p>> \in AllLooks' <=> s \in Own /\ p \in Looks(s)'
         /\ \A s \in Own \ {r} : Looks(s)' = Looks(s)
PROOF
<1>1. r \in Own /\ Own' = Own /\ IsFiniteSet(Own) /\ Own \subseteq Requests
  BY Unanswered DEF Own
<1>2. \A s \in Own \ {r} : Looks(s)' = Looks(s)
  BY <1>1 DEF Alone, Looks, Uses, LookedUp, Tried, Chosen
<1>3. IsFiniteSet(AllLooks)
  <2> DEFINE f == [s \in Own |-> LookedUp(s)]
  <2>1. AllLooks = Tagged(Using, f)
    BY DEF AllLooks, Tagged, Using
  <2>2. Using \subseteq Own /\ IsFiniteSet(Using)
    BY <1>1, FS_Subset DEF Using
  <2>3. \A s \in Using : IsFiniteSet(f[s])
    <3> SUFFICES ASSUME NEW s \in Using PROVE IsFiniteSet(f[s])
      OBVIOUS
    <3>1. IsFiniteSet(Tried(s)) /\ f[s] \subseteq Tried(s)
      BY <1>1, <2>2 DEF AttemptsInv, Attempts, LookedUp
    <3> QED BY <3>1, FS_Subset
  <2> HIDE DEF f
  <2> QED BY <2>1, <2>2, <2>3, TaggedFinite
<1>4. \A s, p : <<s, p>> \in AllLooks <=> s \in Own /\ p \in Looks(s)
  BY DEF AllLooks, Using, Looks
<1>5. \A s, p : <<s, p>> \in AllLooks' <=> s \in Own' /\ p \in Looks(s)'
  BY DEF AllLooks, Using, Looks
<1> QED BY <1>1, <1>2, <1>3, <1>4, <1>5

LEMMA LooksKept ==
  ASSUME TypeInv, AttemptsInv, LifeInv, NEW r \in Requests, Alone(r),
         Looks(r)' = Looks(r)
  PROVE  Cardinality(AllLooks') = Cardinality(AllLooks)
PROOF
<1>1. ASSUME NEW s, NEW p
      PROVE  <<s, p>> \in AllLooks' <=> <<s, p>> \in AllLooks
  <2>1. /\ <<s, p>> \in AllLooks <=> s \in Own /\ p \in Looks(s)
        /\ <<s, p>> \in AllLooks' <=> s \in Own /\ p \in Looks(s)'
        /\ s \in Own /\ s # r => Looks(s)' = Looks(s)
    BY LooksApart
  <2> QED BY <2>1
<1>2. AllLooks' = AllLooks
  <2>1. /\ \A x \in AllLooks : \E s, p : x = <<s, p>>
        /\ \A x \in AllLooks' : \E s, p : x = <<s, p>>
    BY DEF AllLooks
  <2> QED BY <1>1, <2>1
<1> QED BY <1>2

LEMMA LooksAdds ==
  ASSUME TypeInv, AttemptsInv, LifeInv, NEW r \in Requests, Alone(r),
         NEW p, p \notin Looks(r), Looks(r)' = Looks(r) \cup {p}
  PROVE  Cardinality(AllLooks') = Cardinality(AllLooks) + 1
PROOF
<1>1. r \in Own
  BY Unanswered
<1>2. <<r, p>> \notin AllLooks /\ IsFiniteSet(AllLooks)
  BY LooksApart
<1>3. ASSUME NEW s, NEW o
      PROVE  <<s, o>> \in AllLooks' <=> <<s, o>> \in AllLooks \/ (s = r /\ o = p)
  <2>1. /\ <<s, o>> \in AllLooks <=> s \in Own /\ o \in Looks(s)
        /\ <<s, o>> \in AllLooks' <=> s \in Own /\ o \in Looks(s)'
        /\ s \in Own /\ s # r => Looks(s)' = Looks(s)
    BY LooksApart
  <2> QED BY <1>1, <2>1
<1>4. AllLooks' = AllLooks \cup {<<r, p>>}
  <2>1. /\ \A x \in AllLooks : \E s, o : x = <<s, o>>
        /\ \A x \in AllLooks' : \E s, o : x = <<s, o>>
    BY DEF AllLooks
  <2> QED BY <1>3, <2>1
<1> QED BY <1>2, <1>4, FS_AddElement

\* The statistics follow what a step makes of its request.
Counting(r) ==
  /\ \/ (r \in Hits' <=> r \in Hits) /\ statistics'.hits = statistics.hits
     \/ /\ r \in Hits' /\ r \notin Hits
        /\ statistics'.hits = statistics.hits + 1
  /\ \/ /\ Looks(r)' = Looks(r)
        /\ statistics'.hits + statistics'.misses = statistics.hits + statistics.misses
     \/ \E p : /\ p \notin Looks(r) /\ Looks(r)' = Looks(r) \cup {p}
               /\ statistics'.hits + statistics'.misses
                    = statistics.hits + statistics.misses + 1
  /\ \/ (r \in Written' <=> r \in Written) /\ statistics'.writes = statistics.writes
     \/ /\ r \in Written' /\ r \notin Written
        /\ statistics'.writes = statistics.writes + 1
  /\ statistics'.idempotent_replays = telemetry'.replays
  /\ \/ /\ r \in Conflicted' <=> r \in Conflicted
        /\ statistics'.idempotency_conflicts = statistics.idempotency_conflicts
     \/ /\ r \in Conflicted' /\ r \notin Conflicted
        /\ statistics'.idempotency_conflicts = statistics.idempotency_conflicts + 1
  /\ statistics'.backend_errors <= faults'

LEMMA StatisticsFollow ==
  ASSUME TypeInv, AttemptsInv, LifeInv, StatisticsInv,
         NEW r \in Requests, Alone(r), Counting(r)
  PROVE  StatisticsInv'
PROOF
<1>1. statistics'.hits = Cardinality(Hits')
  BY StatisticsApart, CountMoves DEF Counting, StatisticsInv
<1>2. statistics'.hits + statistics'.misses = Cardinality(AllLooks')
  BY LooksKept, LooksAdds DEF Counting, StatisticsInv
<1>3. statistics'.writes = Cardinality(Written')
  BY StatisticsApart, CountMoves DEF Counting, StatisticsInv
<1>4. statistics'.idempotency_conflicts = Cardinality(Conflicted')
  BY StatisticsApart, CountMoves DEF Counting, StatisticsInv
<1> QED BY <1>1, <1>2, <1>3, <1>4 DEF Counting, StatisticsInv

\* A step that looks nothing up, writes nothing and replays nothing.
LEMMA CountingKept ==
  ASSUME TypeInv, LifeInv, StatisticsInv, NEW r \in Requests, Alone(r),
         payload'[r] = payload[r], result'[r] = result[r], Looks(r)' = Looks(r),
         phase[r] # "conflict", phase'[r] # "conflict",
         phase[r] = "writing" <=> phase'[r] = "writing",
         telemetry'.replays = telemetry.replays,
         \/ statistics' = statistics /\ faults' = faults
         \/ statistics' = Count(statistics, "backend_errors") /\ faults' = faults + 1
  PROVE  Counting(r)
PROOF
<1>1. /\ statistics \in CacheStatistics /\ faults \in Nat
      /\ statistics.backend_errors <= faults
      /\ statistics.idempotent_replays = telemetry.replays
  BY DEF TypeInv, TypeOK, StatisticsInv
<1>2. /\ statistics'.hits = statistics.hits /\ statistics'.misses = statistics.misses
      /\ statistics'.writes = statistics.writes
      /\ statistics'.idempotent_replays = statistics.idempotent_replays
      /\ statistics'.idempotency_conflicts = statistics.idempotency_conflicts
      /\ statistics'.backend_errors <= faults'
  BY <1>1 DEF Count, CacheStatistics
<1>3. /\ Uses(r)' <=> Uses(r)
      /\ Hit(r)' <=> Hit(r)
      /\ Computed(r)' <=> Computed(r)
  BY DEF Uses, Hit, Computed
<1>4. /\ r \in Hits' <=> r \in Hits
      /\ r \in Written' <=> r \in Written
      /\ r \in Conflicted' <=> r \in Conflicted
  BY <1>3, StatisticsApart
<1> QED BY <1>1, <1>2, <1>4 DEF Counting

\* Only reading hides the last attempt from the lookups.
LEMMA LooksSame ==
  ASSUME NEW r, payload'[r] = payload[r], tried'[r] = tried[r],
         phase[r] # "reading", phase'[r] # "reading"
  PROVE  Looks(r)' = Looks(r)
BY DEF Looks, Uses, LookedUp, Tried

\* A lookup that returns adds the last attempt.
LEMMA LooksReturn ==
  ASSUME TypeInv, LifeInv, NEW r \in Requests, phase[r] = "reading",
         phase'[r] # "reading", payload'[r] = payload[r], tried'[r] = tried[r]
  PROVE  /\ Chosen(r) \notin Looks(r) /\ Looks(r)' = Looks(r) \cup {Chosen(r)}
         /\ Uses(r)
PROOF
<1>1. /\ payload[r] \in Payloads /\ payload[r].cached
      /\ Chosen(r) # payload[r].failing /\ Chosen(r) \in Tried(r)
  BY ChosenTyped DEF TypeInv, Shape, LifeInv, Life
<1>2. Uses(r) /\ Uses(r)'
  BY <1>1, NoneIsOther DEF Uses
<1>3. LookedUp(r) = Tried(r) \ {payload[r].failing, Chosen(r)}
  BY DEF LookedUp
<1>4. LookedUp(r)' = Tried(r) \ {payload[r].failing}
  BY DEF LookedUp, Tried
<1> QED BY <1>1, <1>2, <1>3, <1>4 DEF Looks

\* An attempt that is made to fail, or whose lookup has not returned.
LEMMA LooksSelected ==
  ASSUME TypeInv, AttemptsInv, NEW r \in Requests, NEW p, Selected(r, p),
         payload'[r] = payload[r],
         \/ p = payload[r].failing /\ phase'[r] # "reading"
         \/ phase'[r] = IF payload[r].cached THEN "reading" ELSE "calling"
  PROVE  Looks(r)' = Looks(r)
PROOF
<1>1. Attempts(r) /\ phase[r] = "routing"
  BY DEF AttemptsInv, Selected
<1>2. Tried(r) = excluded[r] /\ p \notin excluded[r]
  BY <1>1, RouteSound DEF Attempts, Selected
<1>3. Tried(r)' = excluded[r] \cup {p} /\ Chosen(r)' = p
  BY <1>1, SelectedAttempts
<1>4. LookedUp(r) = Tried(r) \ {payload[r].failing}
  BY <1>1 DEF LookedUp
<1>5. phase'[r] = "reading" => LookedUp(r)' = Tried(r)' \ {payload[r].failing, p}
  BY <1>3 DEF LookedUp
<1>6. phase'[r] # "reading" => LookedUp(r)' = Tried(r)' \ {payload[r].failing}
  BY DEF LookedUp
<1> QED BY <1>2, <1>3, <1>4, <1>5, <1>6 DEF Looks, Uses

LEMMA StepCounting ==
  ASSUME TypeInv, AttemptsInv, ProvenanceInv, LifeInv, StatisticsInv,
         NEW r \in Requests, Steps(r)
  PROVE  Counting(r)
PROOF
<1>0. /\ Alone(r) /\ Life(r) /\ phase[r] # "conflict"
      /\ statistics \in CacheStatistics /\ faults \in Nat
      /\ statistics.backend_errors <= faults
      /\ statistics.idempotent_replays = telemetry.replays
  BY StepsAlone DEF LifeInv, Alone, Ended, TypeInv, TypeOK, StatisticsInv
<1> USE <1>0 DEF TypeInv, TypeOK, Goes, Fault, Counts, request, stores,
                 counters, history
<1>1. ASSUME NEW q \in Payloads, NEW k \in Keys \cup {None}, Arrive(r, q, k)
      PROVE  Counting(r)
  <2>1. /\ telemetry' = telemetry /\ statistics' = statistics /\ faults' = faults
        /\ phase[r] = "new" /\ phase'[r] \in {"invalid", "routing", "replaying"}
        /\ tried[r] = <<>> /\ tried'[r] = <<>>
        /\ result[r] = None /\ result'[r] = None
    BY <1>1 DEF Arrive, Shape
  <2>2. /\ ~Hit(r) /\ ~Hit(r)' /\ ~Computed(r) /\ ~Computed(r)'
        /\ phase'[r] # "conflict"
    BY <2>1 DEF Hit, Computed
  <2>3. Looks(r) = {} /\ Looks(r)' = {}
    BY <2>1 DEF Looks, LookedUp, Tried, Range
  <2>4. /\ r \in Hits' <=> r \in Hits
        /\ r \in Written' <=> r \in Written
        /\ r \in Conflicted' <=> r \in Conflicted
    BY <2>2, StatisticsApart
  <2> QED BY <2>1, <2>3, <2>4 DEF Counting
<1>2. CASE UnknownModel(r) \/ NoEligible(r) \/ NothingToReplay(r) \/ ReplayFails(r)
  <2>1. /\ telemetry' = telemetry /\ payload'[r] = payload[r]
        /\ tried'[r] = tried[r] /\ result'[r] = result[r]
        /\ phase[r] \in {"routing", "replaying"}
        /\ phase'[r] \in {"unknown", "ineligible", "exhausted", "routing"}
        /\ \/ statistics' = statistics /\ faults' = faults
           \/ statistics' = Count(statistics, "backend_errors") /\ faults' = faults + 1
    BY <1>2 DEF UnknownModel, NoEligible, NothingToReplay, ReplayFails
  <2>2. Looks(r)' = Looks(r)
    BY <2>1, LooksSame
  <2> QED BY <2>1, <2>2, CountingKept
<1>3. CASE Replay(r)
  <2>1. /\ phase[r] = "replaying" /\ result'[r] = result[r]
        /\ payload'[r] = payload[r] /\ tried'[r] = tried[r] /\ faults' = faults
        /\ phase'[r] \in {"replayed", "conflict"}
    BY <1>3 DEF Replay
  <2>2. Looks(r)' = Looks(r)
    BY <2>1, LooksSame
  <2>3. ~Hit(r) /\ ~Hit(r)' /\ ~Computed(r) /\ ~Computed(r)'
    BY <2>1, NoResult DEF Hit, Computed
  <2>4. (r \in Hits' <=> r \in Hits) /\ (r \in Written' <=> r \in Written)
    BY <2>3, StatisticsApart
  <2>5. CASE /\ phase'[r] = "replayed"
             /\ statistics' = Count(statistics, "idempotent_replays")
             /\ Tells(records[key[r]].completion, "REPLAY")
    <3>1. telemetry'.replays = telemetry.replays + 1
      BY <2>5 DEF Tells, RecordInference, Event, Counted
    <3>2. /\ statistics'.hits = statistics.hits /\ statistics'.misses = statistics.misses
          /\ statistics'.writes = statistics.writes
          /\ statistics'.idempotent_replays = statistics.idempotent_replays + 1
          /\ statistics'.idempotency_conflicts = statistics.idempotency_conflicts
          /\ statistics'.backend_errors = statistics.backend_errors
      BY <2>5 DEF Count, CacheStatistics
    <3>3. r \in Conflicted' <=> r \in Conflicted
      BY <2>5, StatisticsApart
    <3> QED BY <2>1, <2>2, <2>4, <3>1, <3>2, <3>3 DEF Counting
  <2>6. CASE /\ phase'[r] = "conflict" /\ telemetry' = telemetry
             /\ statistics' = Count(statistics, "idempotency_conflicts")
    <3>1. /\ statistics'.hits = statistics.hits /\ statistics'.misses = statistics.misses
          /\ statistics'.writes = statistics.writes
          /\ statistics'.idempotent_replays = statistics.idempotent_replays
          /\ statistics'.idempotency_conflicts = statistics.idempotency_conflicts + 1
          /\ statistics'.backend_errors = statistics.backend_errors
      BY <2>6 DEF Count, CacheStatistics
    <3>2. r \in Conflicted' /\ r \notin Conflicted
      BY <2>6, StatisticsApart
    <3> QED BY <2>1, <2>2, <2>4, <2>6, <3>1, <3>2 DEF Counting
  <2> QED BY <1>3, <2>5, <2>6 DEF Replay
<1>4. ASSUME NEW p, Select(r, p) \/ SimulateFailure(r, p)
      PROVE  Counting(r)
  <2>1. /\ Selected(r, p) /\ payload'[r] = payload[r] /\ result'[r] = result[r]
        /\ \/ p = payload[r].failing /\ phase'[r] # "reading"
           \/ phase'[r] = IF payload[r].cached THEN "reading" ELSE "calling"
        /\ phase'[r] \in {"reading", "calling", "routing", "exhausted"}
        /\ phase[r] = "routing" /\ statistics' = statistics /\ faults' = faults
    BY <1>4 DEF Select, SimulateFailure, Selected, Again
  <2>2. p \in Providers
    BY <2>1, RouteSound DEF Selected, Permitted
  <2>3. telemetry'.replays = telemetry.replays
    BY <1>4, <2>2, CallTold DEF Select, SimulateFailure, Outcomes
  <2>4. Looks(r)' = Looks(r)
    BY <2>1, LooksSelected
  <2> QED BY <2>1, <2>3, <2>4, CountingKept
<1>5. CASE CacheHit(r)
  <2>1. /\ phase[r] = "reading" /\ phase'[r] \in {"answering", "storing"}
        /\ payload'[r] = payload[r] /\ tried'[r] = tried[r]
        /\ result'[r] = cache[Entry(r)] /\ cache[Entry(r)] # None
        /\ telemetry' = telemetry /\ faults' = faults
        /\ statistics' = Count(statistics, "hits")
    BY <1>5 DEF CacheHit, Finish
  <2>2. /\ Chosen(r) \notin Looks(r) /\ Looks(r)' = Looks(r) \cup {Chosen(r)}
        /\ Uses(r)
    BY <2>1, LooksReturn
  <2>3. Entry(r) \in Entries
    BY <2>1, ChosenTyped DEF Entry, Entries, Shape
  <2>4. Hit(r)' /\ ~Computed(r)' /\ Uses(r)'
    BY <2>1, <2>2, <2>3 DEF LifeInv, Served, Kept, Hit, Computed, Uses
  <2>5. ~Hit(r) /\ ~Computed(r)
    BY <2>1, NoResult
  <2>6. /\ r \in Hits' /\ r \notin Hits
        /\ r \in Written' <=> r \in Written
        /\ r \in Conflicted' <=> r \in Conflicted
    BY <2>1, <2>4, <2>5, StatisticsApart
  <2>7. /\ statistics'.hits = statistics.hits + 1
        /\ statistics'.hits + statistics'.misses
             = statistics.hits + statistics.misses + 1
        /\ statistics'.writes = statistics.writes
        /\ statistics'.idempotent_replays = statistics.idempotent_replays
        /\ statistics'.idempotency_conflicts = statistics.idempotency_conflicts
        /\ statistics'.backend_errors = statistics.backend_errors
    BY <2>1 DEF Count, CacheStatistics
  <2> QED BY <2>1, <2>2, <2>6, <2>7 DEF Counting
<1>6. CASE CacheMiss(r) \/ CacheReadFails(r)
  <2>1. /\ phase[r] = "reading" /\ phase'[r] = "calling"
        /\ payload'[r] = payload[r] /\ tried'[r] = tried[r]
        /\ result'[r] = result[r] /\ telemetry' = telemetry
    BY <1>6 DEF CacheMiss, CacheReadFails
  <2>2. /\ Chosen(r) \notin Looks(r) /\ Looks(r)' = Looks(r) \cup {Chosen(r)}
    BY <2>1, LooksReturn
  <2>3. ~Hit(r) /\ ~Computed(r) /\ ~Hit(r)' /\ ~Computed(r)'
    BY <2>1, NoResult DEF Hit, Computed
  <2>4. /\ r \in Hits' <=> r \in Hits
        /\ r \in Written' <=> r \in Written
        /\ r \in Conflicted' <=> r \in Conflicted
    BY <2>1, <2>3, StatisticsApart
  <2>5. \/ statistics' = Count(statistics, "misses") /\ faults' = faults
        \/ /\ statistics' = Count(Count(statistics, "backend_errors"), "misses")
           /\ faults' = faults + 1
    BY <1>6 DEF CacheMiss, CacheReadFails
  <2>6. /\ statistics'.hits = statistics.hits
        /\ statistics'.hits + statistics'.misses
             = statistics.hits + statistics.misses + 1
        /\ statistics'.writes = statistics.writes
        /\ statistics'.idempotent_replays = statistics.idempotent_replays
        /\ statistics'.idempotency_conflicts = statistics.idempotency_conflicts
        /\ statistics'.backend_errors <= faults'
    <3>1. CASE statistics' = Count(statistics, "misses") /\ faults' = faults
      BY <3>1 DEF Count, CacheStatistics
    <3>2. CASE /\ statistics' = Count(Count(statistics, "backend_errors"), "misses")
               /\ faults' = faults + 1
      <4> DEFINE one == Count(statistics, "backend_errors")
      <4>1. one \in CacheStatistics
        BY FieldCounted
      <4>2. /\ one.hits = statistics.hits /\ one.misses = statistics.misses
            /\ one.writes = statistics.writes
            /\ one.idempotent_replays = statistics.idempotent_replays
            /\ one.idempotency_conflicts = statistics.idempotency_conflicts
        BY DEF Count, CacheStatistics
      <4>3. one.backend_errors <= faults'
        <5>1. one.backend_errors = statistics.backend_errors + 1
          BY DEF Count, CacheStatistics
        <5>2. statistics.backend_errors \in Nat
          BY DEF CacheStatistics
        <5> QED BY <3>2, <5>1, <5>2
      <4> HIDE DEF one
      <4>4. statistics' = Count(one, "misses")
        BY <3>2 DEF one
      <4> QED BY <4>1, <4>2, <4>3, <4>4 DEF Count, CacheStatistics
    <3> QED BY <2>5, <3>1, <3>2
  <2> QED BY <2>1, <2>2, <2>4, <2>6 DEF Counting
<1>7. CASE CallSucceeds(r)
  <2>1. /\ phase[r] = "calling" /\ payload'[r] = payload[r]
        /\ phase'[r] \in {"writing", "answering", "storing"}
        /\ payload[r].cached => phase'[r] = "writing"
        /\ tried'[r] = tried[r] /\ result'[r].run = r
        /\ statistics' = statistics /\ faults' = faults
        /\ telemetry' = RecordProviderCall(telemetry, Chosen(r), "success")
    BY <1>7 DEF CallSucceeds, Finish
  <2>2. telemetry'.replays = telemetry.replays
    BY <2>1, ChosenTyped, CallTold DEF Shape, Outcomes
  <2>3. Looks(r)' = Looks(r)
    BY <2>1, LooksSame
  <2>4. ~Hit(r) /\ ~Hit(r)' /\ ~Computed(r)
    BY <2>1, NoResult DEF Hit
  <2>5. Uses(r)' => phase'[r] = "writing"
    BY <2>1 DEF Uses
  <2>6. /\ r \in Hits' <=> r \in Hits
        /\ r \in Written' <=> r \in Written
        /\ r \in Conflicted' <=> r \in Conflicted
    BY <2>1, <2>4, <2>5, StatisticsApart
  <2> QED BY <2>1, <2>2, <2>3, <2>6 DEF Counting
<1>8. CASE CallFails(r)
  <2>1. /\ phase[r] = "calling" /\ phase'[r] \in {"routing", "exhausted"}
        /\ payload'[r] = payload[r] /\ tried'[r] = tried[r]
        /\ result'[r] = result[r] /\ statistics' = statistics /\ faults' = faults
        /\ telemetry' = RecordProviderCall(telemetry, Chosen(r), "failure")
    BY <1>8 DEF CallFails, Again
  <2>2. telemetry'.replays = telemetry.replays
    BY <2>1, ChosenTyped, CallTold DEF Shape, Outcomes
  <2> QED BY <2>1, <2>2, LooksSame, CountingKept
<1>9. CASE CacheWrite(r) \/ CacheWriteFails(r)
  <2>1. /\ phase[r] = "writing" /\ phase'[r] \in {"answering", "storing"}
        /\ payload'[r] = payload[r] /\ tried'[r] = tried[r]
        /\ result'[r] = result[r] /\ telemetry' = telemetry
    BY <1>9 DEF CacheWrite, CacheWriteFails, Finish
  <2>2. Looks(r)' = Looks(r)
    BY <2>1, LooksSame
  <2>3. Uses(r) /\ Uses(r)' /\ Computed(r) /\ Computed(r)' /\ ~Hit(r) /\ ~Hit(r)'
    <3>1. /\ payload[r] # None /\ payload[r].cached
          /\ result[r] # None /\ result[r].run = r
      BY <2>1, NoneIsOther DEF ProvenanceInv, Holds, Shape
    <3> QED BY <2>1, <3>1 DEF Uses, Computed, Hit
  <2>4. /\ r \in Hits' <=> r \in Hits
        /\ r \in Written' /\ r \notin Written
        /\ r \in Conflicted' <=> r \in Conflicted
    BY <2>1, <2>3, StatisticsApart
  <2>5. \/ statistics' = Count(statistics, "writes") /\ faults' = faults
        \/ /\ statistics' = Count(Count(statistics, "backend_errors"), "writes")
           /\ faults' = faults + 1
    BY <1>9 DEF CacheWrite, CacheWriteFails
  <2>6. /\ statistics'.hits = statistics.hits /\ statistics'.misses = statistics.misses
        /\ statistics'.writes = statistics.writes + 1
        /\ statistics'.idempotent_replays = statistics.idempotent_replays
        /\ statistics'.idempotency_conflicts = statistics.idempotency_conflicts
        /\ statistics'.backend_errors <= faults'
    BY <2>5 DEF Count, CacheStatistics
  <2> QED BY <2>1, <2>2, <2>4, <2>6 DEF Counting
<1>10. CASE Respond(r) \/ Store(r) \/ StoreFails(r)
  <2>1. /\ phase[r] \in {"answering", "storing"} /\ phase'[r] = "answered"
        /\ payload'[r] = payload[r] /\ tried'[r] = tried[r]
        /\ result'[r] = result[r]
        /\ Tells(Completion(r), CacheStatus(r))
        /\ \/ statistics' = statistics /\ faults' = faults
           \/ statistics' = Count(statistics, "backend_errors") /\ faults' = faults + 1
    BY <1>10 DEF Respond, Store, StoreFails, Answer
  <2>2. telemetry'.replays = telemetry.replays
    BY <2>1 DEF Tells, RecordInference, Event, CacheStatus, Counted
  <2> QED BY <2>1, <2>2, LooksSame, CountingKept
<1> QED BY <1>1, <1>2, <1>3, <1>4, <1>5, <1>6, <1>7, <1>8, <1>9, <1>10
           DEF Steps, Handles, Invokes, StoreAnswers

LEMMA NextStatistics ==
  TypeInv /\ AttemptsInv /\ ProvenanceInv /\ LifeInv /\ StatisticsInv
    /\ [Next]_vars => StatisticsInv'
PROOF
<1> SUFFICES ASSUME TypeInv, AttemptsInv, ProvenanceInv, LifeInv, StatisticsInv,
                    [Next]_vars
             PROVE  StatisticsInv'
  OBVIOUS
<1>1. ASSUME NEW r \in Requests, Steps(r)
      PROVE  StatisticsInv'
  BY <1>1, StepsAlone, StepCounting, StatisticsFollow
<1>2. ASSUME \/ \E k \in Keys : ForgetRecord(k)
             \/ \E e \in Entries : ForgetResponse(e)
             \/ UNCHANGED vars
      PROVE  StatisticsInv'
  <2>1. /\ phase' = phase /\ payload' = payload /\ tried' = tried
        /\ result' = result /\ before' = before
        /\ telemetry' = telemetry /\ statistics' = statistics
    BY <1>2 DEF ForgetRecord, ForgetResponse, vars, request, history, counters
  <2>2. statistics.backend_errors <= faults'
    <3>1. /\ faults' = faults \/ faults' = faults + 1
          /\ faults \in Nat /\ statistics.backend_errors \in Nat
          /\ statistics.backend_errors <= faults
      BY <1>2 DEF ForgetRecord, ForgetResponse, vars, history, Fault, TypeInv,
           TypeOK, CacheStatistics, StatisticsInv
    <3> QED BY <3>1
  <2>3. \A s : /\ (Hit(s)' <=> Hit(s)) /\ (Computed(s)' <=> Computed(s))
               /\ (Uses(s)' <=> Uses(s)) /\ LookedUp(s)' = LookedUp(s)
    BY <2>1 DEF Hit, Computed, Uses, LookedUp, Tried, Chosen
  <2>4. Own' = Own /\ Using' = Using
    BY <2>1, <2>3 DEF Own, Using
  <2>5. /\ Hits' = Hits /\ Written' = Written /\ Conflicted' = Conflicted
        /\ AllLooks' = AllLooks
    BY <2>1, <2>3, <2>4 DEF Hits, Written, Conflicted, AllLooks
  <2> QED BY <2>1, <2>2, <2>5 DEF StatisticsInv
<1>3. CASE Restart
  <2>1. /\ statistics' = InitStatistics /\ telemetry' = InitTelemetry(Providers)
        /\ faults' = faults + 1 /\ faults \in Nat
    BY <1>3 DEF Restart, Fault, TypeInv, TypeOK
  <2>2. \A s \in Own' : payload'[s] = None /\ phase'[s] = "new"
    <3>1. \A s \in Own' : phase[s] = "new" /\ s \in Requests
      BY <1>3 DEF Restart, Own
    <3> QED BY <1>3, <3>1 DEF Restart, request, TypeInv, Shape
  <2>3. Using' = {} /\ Conflicted' = {}
    BY <2>2 DEF Using, Uses, Conflicted
  <2>4. Hits' = {} /\ Written' = {} /\ AllLooks' = {}
    BY <2>3 DEF Hits, Written, AllLooks
  <2> QED BY <2>1, <2>3, <2>4, FS_EmptySet
             DEF StatisticsInv, InitStatistics, InitTelemetry
<1> QED BY <1>1, <1>2, <1>3 DEF Next, Steps

-----------------------------------------------------------------------------
(* The theorems                                                            *)

CountsInv == LifeInv /\ TelemetryInv /\ StatisticsInv

\* What the two theorems are read off from: where each request is when it is
\* counted, and the counts.
THEOREM CountsInvariance == Spec => []CountsInv
PROOF
<1>1. Init => CountsInv
  BY InitLife, InitTelemetryInv, InitStatisticsInv DEF CountsInv
<1>2. GatewayInv /\ CountsInv /\ [Next]_vars => CountsInv'
  BY NextLife, NextTelemetry, NextStatistics DEF GatewayInv, CountsInv
<1> QED BY <1>1, <1>2, GatewayInvariance, PTL DEF Spec

\* Whatever fails, falls back, is replayed or restarts, the telemetry is that of
\* the answers this process gave and of the attempts it made, and its recent
\* events are of answers that were given, none more often than it was.
THEOREM TelemetryIsTrue == Spec => []TelemetryAgrees
PROOF
<1>1. CountsInv => TelemetryAgrees
  BY DEF CountsInv, TelemetryInv, TotalsAgree, CallsAgree, EventsAgree, Failed,
     Succeeded, Places, Like, TelemetryAgrees
<1> QED BY <1>1, CountsInvariance, PTL

\* Every lookup that returned is a hit or a miss, every computed result of a
\* request that uses the cache a write, every replay and conflict is counted
\* once, and no more errors than there were.
THEOREM StatisticsAreTrue == Spec => []StatisticsAgree
PROOF
<1>1. CountsInv => StatisticsAgree
  BY DEF CountsInv, StatisticsInv, Using, Uses, Hits, AllLooks, Written,
     Conflicted, StatisticsAgree
<1> QED BY <1>1, CountsInvariance, PTL
=============================================================================
