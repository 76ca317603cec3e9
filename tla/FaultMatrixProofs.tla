-------------------------- MODULE FaultMatrixProofs --------------------------
(***************************************************************************)
(* The scenarios of the fault matrix pass at every pace: for any deadline, *)
(* recovery and sleep, any number of repetitions, and whatever holds the   *)
(* machine up for less than the open circuit's recovery.                   *)
(***************************************************************************)
EXTENDS FaultMatrix, TLAPS

-----------------------------------------------------------------------------
(* What the router answers in the matrix                                   *)

\* The registries as sets.
LEMMA Registries ==
  /\ Range(Pair) = {"primary", "secondary"}
  /\ Range(Trio) = {"first", "second", "third"}
  /\ Router(Pair)!Providers = {"primary", "secondary"}
  /\ Router(Trio)!Providers = {"first", "second", "third"}
PROOF
<1>1. DOMAIN Pair = {1, 2} /\ DOMAIN Trio = {1, 2, 3}
  BY DEF Pair, Trio
<1>2. 1 .. Len(Pair) = {1, 2} /\ 1 .. Len(Trio) = {1, 2, 3}
  BY DEF Pair, Trio
<1>3. Pair[1] = "primary" /\ Pair[2] = "secondary"
      /\ Trio[1] = "first" /\ Trio[2] = "second" /\ Trio[3] = "third"
  BY DEF Pair, Trio
<1> QED BY <1>1, <1>2, <1>3 DEF Range, Router!Providers

\* No option of a request of the matrix rules anybody out.
Plain(q) ==
  /\ q.prompt = 1 /\ q.max_tokens = 1
  /\ q.allowed = None /\ q.excluded = {} /\ q.trusted = FALSE
  /\ q.max_latency = None /\ q.max_cost = None /\ q.min_quality = None

Cheapest(q) == Plain(q) /\ q.model = AutoModel /\ q.policy = "lowest_cost"

LEMMA Costs ==
  ASSUME NEW q, Plain(q)
  PROVE  /\ Router(Pair)!EstimatedCost("primary", q) = 2
         /\ Router(Pair)!EstimatedCost("secondary", q) = 20
         /\ Router(Trio)!EstimatedCost("first", q) = 2
         /\ Router(Trio)!EstimatedCost("second", q) = 4
         /\ Router(Trio)!EstimatedCost("third", q) = 6
PROOF
<1>1. /\ Cost["primary"] = 1 /\ Cost["secondary"] = 10
      /\ Cost["first"] = 1 /\ Cost["second"] = 2 /\ Cost["third"] = 3
  BY Registries DEF Cost, Names
<1> QED BY <1>1, Registries DEF Plain, Router!EstimatedCost, Profile

LEMMA AllPermitted ==
  ASSUME NEW q, Plain(q)
  PROVE  /\ Router(Pair)!Permitted(q) = {"primary", "secondary"}
         /\ Router(Trio)!Permitted(q) = {"first", "second", "third"}
PROOF
<1>1. /\ \A p : Router(Pair)!Satisfies(p, q)
      /\ \A p : Router(Trio)!Satisfies(p, q)
  BY DEF Plain, Router!Satisfies, Router!Within
<1> QED BY <1>1, Registries DEF Router!Permitted

\* The cheaper of two is before the other wherever they are registered.
LEMMA CheaperBeats ==
  ASSUME NEW reg, NEW q, Cheapest(q), NEW p, NEW o, NEW S,
         Router(reg)!EstimatedCost(p, q) \in Int,
         Router(reg)!EstimatedCost(o, q) \in Int,
         Router(reg)!EstimatedCost(p, q) < Router(reg)!EstimatedCost(o, q)
  PROVE  Router(reg)!Beats(p, o, S, q) /\ ~Router(reg)!Beats(o, p, S, q)
PROOF
<1>1. /\ Router(reg)!Badness(p, S, q) = Router(reg)!EstimatedCost(p, q)
      /\ Router(reg)!Badness(o, S, q) = Router(reg)!EstimatedCost(o, q)
  BY DEF Router!Badness, Cheapest
<1> QED BY <1>1 DEF Router!Beats

\* With lowest_cost the router takes from what is left of the candidates the
\* least one.
LEMMA LeastIsRouted ==
  ASSUME NEW reg, NEW q, Cheapest(q), NEW ex, NEW p,
         Router(reg)!Eligible(q, ex) \in SUBSET Router(reg)!Providers,
         p \in Router(reg)!Eligible(q, ex),
         \A o \in Router(reg)!Eligible(q, ex) \ {p} :
           /\ Router(reg)!EstimatedCost(p, q) \in Int
           /\ Router(reg)!EstimatedCost(o, q) \in Int
           /\ Router(reg)!EstimatedCost(p, q) < Router(reg)!EstimatedCost(o, q)
  PROVE  Router(reg)!Route(q, ex, 0) = {p}
PROOF
<1> DEFINE S == Router(reg)!Eligible(q, ex)
<1>1. \A o \in S \ {p} : /\ Router(reg)!Beats(p, o, S, q)
                         /\ ~Router(reg)!Beats(o, p, S, q)
  BY CheaperBeats
<1>2. Router(reg)!Least(S, q) = {p}
  <2> HIDE DEF S
  <2>1. p \in S
    BY DEF S
  <2> QED BY <1>1, <2>1 DEF Router!Least
<1>3. S \in (SUBSET Router(reg)!Providers) \ {{}}
  OBVIOUS
<1>4. Router(reg)!Route(q, ex, 0) = Router(reg)!Choice(q, 0)[S]
  BY DEF Router!Route, Cheapest
<1> HIDE DEF S
<1>5. Router(reg)!Choice(q, 0)[S] = Router(reg)!Least(S, q)
  BY <1>3 DEF Router!Choice, Router!RoundRobin, Cheapest
<1> QED BY <1>2, <1>4, <1>5

LEMMA PairRoutes ==
  ASSUME NEW q, Cheapest(q)
  PROVE  /\ Router(Pair)!Route(q, {}, 0) = {"primary"}
         /\ Router(Pair)!Route(q, {"primary"}, 0) = {"secondary"}
PROOF
<1>1. Router(Pair)!Permitted(q) = {"primary", "secondary"}
  BY AllPermitted DEF Cheapest
<1>2. /\ Router(Pair)!Eligible(q, {}) = {"primary", "secondary"}
      /\ Router(Pair)!Eligible(q, {"primary"}) = {"secondary"}
  BY <1>1 DEF Router!Eligible
<1>3. /\ Router(Pair)!EstimatedCost("primary", q) = 2
      /\ Router(Pair)!EstimatedCost("secondary", q) = 20
      /\ Router(Pair)!Providers = {"primary", "secondary"}
  BY Costs, Registries DEF Cheapest
<1>4. Router(Pair)!Route(q, {}, 0) = {"primary"}
  BY <1>2, <1>3, LeastIsRouted
<1>5. Router(Pair)!Route(q, {"primary"}, 0) = {"secondary"}
  BY <1>2, <1>3, LeastIsRouted
<1> QED BY <1>4, <1>5

LEMMA TrioRoutes ==
  ASSUME NEW q, Cheapest(q)
  PROVE  /\ Router(Trio)!Route(q, {}, 0) = {"first"}
         /\ Router(Trio)!Route(q, {"first"}, 0) = {"second"}
         /\ Router(Trio)!Route(q, {"first", "second"}, 0) = {"third"}
PROOF
<1>1. Router(Trio)!Permitted(q) = {"first", "second", "third"}
  BY AllPermitted DEF Cheapest
<1>2. /\ Router(Trio)!Eligible(q, {}) = {"first", "second", "third"}
      /\ Router(Trio)!Eligible(q, {"first"}) = {"second", "third"}
      /\ Router(Trio)!Eligible(q, {"first", "second"}) = {"third"}
  BY <1>1 DEF Router!Eligible
<1>3. /\ Router(Trio)!EstimatedCost("first", q) = 2
      /\ Router(Trio)!EstimatedCost("second", q) = 4
      /\ Router(Trio)!EstimatedCost("third", q) = 6
      /\ Router(Trio)!Providers = {"first", "second", "third"}
  BY Costs, Registries DEF Cheapest
<1>4. Router(Trio)!Route(q, {}, 0) = {"first"}
  BY <1>2, <1>3, LeastIsRouted
<1>5. Router(Trio)!Route(q, {"first"}, 0) = {"second"}
  BY <1>2, <1>3, LeastIsRouted
<1>6. Router(Trio)!Route(q, {"first", "second"}, 0) = {"third"}
  BY <1>2, <1>3, LeastIsRouted
<1> QED BY <1>4, <1>5, <1>6

\* An explicit model is not substituted.
LEMMA ExplicitRoute ==
  ASSUME NEW q, Plain(q), q.model = "primary"
  PROVE  Router(Pair)!Route(q, {}, 0) = {"primary"}
PROOF
<1>1. Router(Pair)!Eligible(q, {}) = {"primary", "secondary"}
  BY AllPermitted DEF Router!Eligible
<1>2. Router(Pair)!Offering("primary") = {"primary"}
  BY Registries DEF Router!Offering, Profile
<1>3. q.model # AutoModel
  BY NameAssumption, Registries DEF Names
<1> QED BY <1>1, <1>2, <1>3 DEF Router!Route

-----------------------------------------------------------------------------
(* The scenarios                                                           *)

Number == (Len(results) % Len(Scenarios)) + 1

BreakerRecord ==
  [state: {"closed", "open", "half_open"}, failures: Nat, openedAt: Nat,
   probeInFlight: BOOLEAN]

Controlled ==
  [mode: {"healthy", "error", "timeout"}, calls: Nat, breaker: BreakerRecord,
   successes: Nat]

Success == [scenario: {Scenarios[n].name : n \in 1 .. 6}, passed: {TRUE}]

\* What is common to all of them; of the results, that they are good.
Types ==
  /\ results \in Seq(Success)
  /\ now \in Nat /\ stalled \in 0 .. MaxStall /\ since \in 0 .. now
  /\ provider \in [Range(Current.registry) -> Controlled]

Unused(p) ==
  /\ provider[p].breaker.state = "closed"
  /\ provider[p].calls = 0 /\ provider[p].successes = 0

\* Its one call failed.
Open(p) ==
  /\ provider[p].breaker.state = "open" /\ ~provider[p].breaker.probeInFlight
  /\ provider[p].breaker.openedAt <= now
  /\ provider[p].calls = 1 /\ provider[p].successes = 0

Sound(p) == provider[p].mode = "healthy" /\ provider[p].breaker.state = "closed"

At(place, tried) == stage = place /\ attempted = tried

Routing(tried, ex) == At("routing", tried) /\ excluded = ex

(***************************************************************************)
(* A scenario is a sequence of points, each with what is known there.      *)
(***************************************************************************)
\* The first request has not failed yet.
Untried(mode) ==
  /\ provider["primary"].mode = mode /\ Unused("primary") /\ replies = <<>>
  /\ stage = "idle" \/ Routing(<<>>, {})

\* The primary has failed, and the request goes on.
Failing(mode) ==
  /\ provider["primary"].mode = mode /\ Open("primary") /\ replies = <<>>
  /\ Routing(<<"primary">>, {"primary"})

\* Its first call has not answered yet.
Hanging ==
  /\ provider["primary"].mode = "timeout" /\ replies = <<>>
  /\ At("hanging", <<"primary">>) /\ excluded = {}
  /\ provider["primary"].breaker.state = "closed"
  /\ provider["primary"].calls = 1 /\ provider["primary"].successes = 0

FailoverPoint(mode) ==
  /\ Sound("secondary")
  /\ \/ Untried(mode)
     \/ Failing(mode)
     \/ mode = "timeout" /\ Hanging
     \/ stage = "idle" /\ \E r : replies = <<r>> /\ FailedOver(r)

\* The clock has gone on by stalls only, so that the circuit is still open.
IsolationPoint ==
  /\ Sound("secondary") /\ provider["primary"].mode = "error"
  /\ now = stalled
  /\ \/ Untried("error")
     \/ Failing("error")
     \/ /\ Open("primary") /\ \E r : replies = <<r>> /\ r.status = 200
        /\ \/ stage = "idle"
           \/ Routing(<<>>, {})
           \/ Routing(<<"primary">>, {"primary"})
     \/ /\ Open("primary") /\ stage = "idle"
        /\ \E r, s : /\ replies = <<r, s>> /\ r.status = 200 /\ s.status = 200
                     /\ s.provider = "secondary"

\* The sleep is as long as the recovery, and begins after the failure.
RecoveryPoint ==
  /\ Sound("secondary")
  /\ \/ Untried("error")
     \/ Failing("error")
     \/ /\ Open("primary") /\ \E r : replies = <<r>> /\ r.status = 200
        /\ \/ stage = "idle" /\ provider["primary"].mode = "error"
           \/ /\ provider["primary"].mode = "healthy"
              /\ \/ /\ stage = "pausing"
                    /\ provider["primary"].breaker.openedAt <= since
                 \/ /\ Routing(<<>>, {})
                    /\ now - provider["primary"].breaker.openedAt >= Recovery
     \/ /\ stage = "idle"
        /\ \E r, s : /\ replies = <<r, s>> /\ r.status = 200 /\ s.status = 200
                     /\ s.provider = "primary"
        /\ provider["primary"].breaker.state = "closed"
        /\ provider["primary"].successes = 1

ExplicitPoint ==
  /\ provider["secondary"].calls = 0
  /\ \/ Untried("error")
     \/ Failing("error")
     \/ /\ stage = "idle"
        /\ \E r : /\ replies = <<r>>
                  /\ r.status = 503 /\ r.attempted = <<"primary">>

OutagePoint ==
  /\ \A p \in Range(Trio) : provider[p].mode = "error"
  /\ \/ /\ replies = <<>> /\ (stage = "idle" \/ Routing(<<>>, {}))
        /\ \A p \in Range(Trio) : Unused(p)
     \/ /\ replies = <<>> /\ Routing(<<"first">>, {"first"})
        /\ provider["first"].calls = 1 /\ Unused("second") /\ Unused("third")
     \/ /\ replies = <<>> /\ Routing(<<"first", "second">>, {"first", "second"})
        /\ provider["first"].calls = 1 /\ provider["second"].calls = 1
        /\ Unused("third")
     \/ /\ \A p \in Range(Trio) : provider[p].calls = 1
        /\ \/ replies = <<>> /\ Routing(Trio, Range(Trio))
           \/ /\ stage = "idle"
              /\ \E r : replies = <<r>> /\ r.status = 503 /\ r.attempted = Trio

Point(n) ==
  CASE n = 1 -> FailoverPoint("error")
    [] n = 2 -> FailoverPoint("timeout")
    [] n = 3 -> IsolationPoint
    [] n = 4 -> RecoveryPoint
    [] n = 5 -> ExplicitPoint
    [] n = 6 -> OutagePoint

MatrixInv == Types /\ Point(Number)

-----------------------------------------------------------------------------
(* What the gateway does next                                              *)

Plays(reg, recovery) == Current.registry = reg /\ Current.recovery = recovery

LEMMA TheScenario ==
  ASSUME Types
  PROVE  /\ Number \in 1 .. 6
         /\ Number \in {1, 2, 4, 5} => Plays(Pair, Recovery)
         /\ Number = 3 => Plays(Pair, LongRecovery)
         /\ Number = 6 => Plays(Trio, Recovery)
         /\ Number \in {1, 2, 6} => Current.requests = <<AnyModel>>
         /\ Number = 3 => Current.requests = <<AnyModel, AnyModel>>
         /\ Number = 4 => Current.requests = <<AnyModel, Probe>>
         /\ Number = 5 => Current.requests = <<Primary>>
PROOF
<1>1. Len(Scenarios) = 6
  BY DEF Scenarios
<1>2. Len(results) \in Nat
  BY DEF Types
<1>3. Number \in 1 .. 6
  BY <1>1, <1>2 DEF Number
<1>4. Current = Scenarios[Number]
  BY DEF Current, Number
<1>5. /\ \A n \in {1, 2, 4, 5} : Scenarios[n].registry = Pair
                                  /\ Scenarios[n].recovery = Recovery
      /\ Scenarios[3].registry = Pair /\ Scenarios[3].recovery = LongRecovery
      /\ Scenarios[6].registry = Trio /\ Scenarios[6].recovery = Recovery
  BY DEF Scenarios, Scenario
<1>6. /\ \A n \in {1, 2, 6} : Scenarios[n].requests = <<AnyModel>>
      /\ Scenarios[3].requests = <<AnyModel, AnyModel>>
      /\ Scenarios[4].requests = <<AnyModel, Probe>>
      /\ Scenarios[5].requests = <<Primary>>
  BY DEF Scenarios, Scenario
<1> QED BY <1>3, <1>4, <1>5, <1>6 DEF Plays

LEMMA Requests ==
  /\ AnyModel.model = AutoModel /\ AnyModel.policy = "lowest_cost"
  /\ AnyModel.healed = FALSE
  /\ Primary.model = "primary" /\ Primary.healed = FALSE
  /\ Probe.model = "primary" /\ Probe.healed = TRUE
PROOF
BY DEF AnyModel, Primary, Probe

\* Whom the loop tries next.
LEMMA Targeted ==
  ASSUME NEW tried, NEW ex, Routing(tried, ex)
  PROVE  Target = IF Len(tried) < MaxAttempts
                  THEN Router(Current.registry)!Route(Question, ex, 0)
                  ELSE {}
PROOF
BY DEF Routing, At, Target

LEMMA PairTargets ==
  ASSUME Current.registry = Pair, Asked = AnyModel
  PROVE  /\ Routing(<<>>, {}) => Target = {"primary"}
         /\ Routing(<<"primary">>, {"primary"}) => Target = {"secondary"}
PROOF
<1>1. Cheapest(Question) /\ MaxAttempts = 2
  BY Requests DEF Cheapest, Plain, Question, MaxAttempts, Pair
<1>2. /\ Router(Current.registry)!Route(Question, {}, 0) = {"primary"}
      /\ Router(Current.registry)!Route(Question, {"primary"}, 0) = {"secondary"}
  BY <1>1, PairRoutes
<1>3. Len(<<>>) = 0 /\ Len(<<"primary">>) = 1
  OBVIOUS
<1>4. ASSUME Routing(<<>>, {}) PROVE Target = {"primary"}
  BY <1>1, <1>2, <1>3, <1>4, Targeted
<1>5. ASSUME Routing(<<"primary">>, {"primary"}) PROVE Target = {"secondary"}
  <2>1. Target = IF Len(<<"primary">>) < MaxAttempts
                 THEN Router(Current.registry)!Route(Question, {"primary"}, 0)
                 ELSE {}
    BY <1>5, Targeted, Zenon
  <2> QED BY <2>1, <1>1, <1>2, <1>3
<1> QED BY <1>4, <1>5

LEMMA TrioTargets ==
  ASSUME Current.registry = Trio, Asked = AnyModel
  PROVE  /\ Routing(<<>>, {}) => Target = {"first"}
         /\ Routing(<<"first">>, {"first"}) => Target = {"second"}
         /\ Routing(<<"first", "second">>, {"first", "second"}) => Target = {"third"}
         /\ Routing(Trio, Range(Trio)) => Target = {}
PROOF
<1>1. Cheapest(Question) /\ MaxAttempts = 3
  BY Requests DEF Cheapest, Plain, Question, MaxAttempts, Trio
<1>2. LET r == Current.registry
      IN  /\ Router(r)!Route(Question, {}, 0) = {"first"}
          /\ Router(r)!Route(Question, {"first"}, 0) = {"second"}
          /\ Router(r)!Route(Question, {"first", "second"}, 0) = {"third"}
  BY <1>1, TrioRoutes
<1>3. /\ Len(<<>>) = 0 /\ Len(<<"first">>) = 1
      /\ Len(<<"first", "second">>) = 2 /\ Len(Trio) = 3
  BY DEF Trio
<1>4. ASSUME Routing(<<>>, {}) PROVE Target = {"first"}
  BY <1>1, <1>2, <1>3, <1>4, Targeted
<1>5. ASSUME Routing(<<"first">>, {"first"}) PROVE Target = {"second"}
  <2>1. Target = IF Len(<<"first">>) < MaxAttempts
                 THEN Router(Current.registry)!Route(Question, {"first"}, 0)
                 ELSE {}
    BY <1>5, Targeted, Zenon
  <2> QED BY <2>1, <1>1, <1>2, <1>3
<1>6. ASSUME Routing(<<"first", "second">>, {"first", "second"})
      PROVE  Target = {"third"}
  <2>1. Target = IF Len(<<"first", "second">>) < MaxAttempts
                 THEN Router(Current.registry)!Route(Question, {"first", "second"}, 0)
                 ELSE {}
    BY <1>6, Targeted, Zenon
  <2> QED BY <2>1, <1>1, <1>2, <1>3
<1>7. ASSUME Routing(Trio, Range(Trio)) PROVE Target = {}
  <2>1. Target = IF Len(Trio) < MaxAttempts
                 THEN Router(Current.registry)!Route(Question, Range(Trio), 0)
                 ELSE {}
    BY <1>7, Targeted, Zenon
  <2> QED BY <2>1, <1>1, <1>2, <1>3
<1> QED BY <1>4, <1>5, <1>6, <1>7

LEMMA ExplicitTargets ==
  ASSUME Current.registry = Pair, Asked.model = "primary"
  PROVE  /\ Routing(<<>>, {}) => Target = {"primary"}
         /\ Routing(<<"primary">>, {"primary"}) => Target = {}
PROOF
<1>1. Plain(Question) /\ Question.model = "primary"
  BY DEF Plain, Question
<1>2. MaxAttempts = 1
  BY NameAssumption, Registries DEF MaxAttempts, Names
<1>3. Router(Current.registry)!Route(Question, {}, 0) = {"primary"}
  BY <1>1, ExplicitRoute
<1>4. Len(<<>>) = 0 /\ Len(<<"primary">>) = 1
  OBVIOUS
<1>5. ASSUME Routing(<<>>, {}) PROVE Target = {"primary"}
  BY <1>2, <1>3, <1>4, <1>5, Targeted
<1>6. ASSUME Routing(<<"primary">>, {"primary"}) PROVE Target = {}
  <2>1. Target = IF Len(<<"primary">>) < MaxAttempts
                 THEN Router(Current.registry)!Route(Question, {"primary"}, 0)
                 ELSE {}
    BY <1>6, Targeted, Zenon
  <2> QED BY <2>1, <1>2, <1>4
<1> QED BY <1>5, <1>6

\* Who does not wait and is not handled does nothing in the gateway.
LEMMA IdleGateway == stage \in {"idle", "pausing"} => ~Handles
PROOF
BY DEF Handles, RejectOpen, Raises, Hangs, Returns, Invoke, Attempt, CutOff, GiveUp

LEMMA TargetTried ==
  ASSUME Handles, stage = "routing", NEW p, Target = {p}
  PROVE  RejectOpen(p) \/ Raises(p) \/ Hangs(p) \/ Returns(p)
PROOF
<1>1. ~CutOff /\ ~GiveUp
  BY DEF CutOff, GiveUp
<1>2. PICK o \in DOMAIN provider :
        RejectOpen(o) \/ Raises(o) \/ Hangs(o) \/ Returns(o)
  BY <1>1 DEF Handles
<1>3. Attempt(o)
  BY <1>2 DEF RejectOpen, Raises, Hangs, Returns, Invoke
<1>4. o = p
  BY <1>3 DEF Attempt
<1> QED BY <1>2, <1>4

LEMMA NobodyLeft ==
  ASSUME Handles, stage = "routing", Target = {}
  PROVE  GiveUp
PROOF
BY DEF Handles, RejectOpen, Raises, Hangs, Returns, Invoke, Attempt, CutOff, GiveUp

LEMMA DeadlineNext ==
  ASSUME Handles, stage = "hanging"
  PROVE  CutOff
PROOF
BY DEF Handles, RejectOpen, Raises, Hangs, Returns, Invoke, Attempt, CutOff, GiveUp

\* The harness posts from its own places.
LEMMA HarnessPlaces ==
  /\ Heal => stage = "idle"
  /\ Post => stage \in {"idle", "pausing"}
PROOF
BY DEF Heal, Post

-----------------------------------------------------------------------------
(* What a call leaves behind                                               *)

\* A closed circuit lets everyone through, and one failure opens it.
LEMMA ClosedCircuit ==
  ASSUME NEW t \in Nat, NEW n \in Nat, NEW b \in BreakerRecord, b.state = "closed"
  PROVE  /\ Circuit(t)!Allows(b, n) /\ Circuit(t)!Allowed(b, n) = b
         /\ Circuit(t)!RecordFailure(b, n) \in BreakerRecord
         /\ Circuit(t)!RecordFailure(b, n).state = "open"
         /\ Circuit(t)!RecordFailure(b, n).openedAt = n
         /\ ~Circuit(t)!RecordFailure(b, n).probeInFlight
         /\ Circuit(t)!RecordSuccess(b) \in BreakerRecord
         /\ Circuit(t)!RecordSuccess(b).state = "closed"
PROOF
BY DEF Circuit!Allows, Circuit!Allowed, Circuit!RecordFailure,
       Circuit!RecordSuccess, BreakerRecord

\* An open one turns callers away until the recovery is over; the call that
\* comes then is let through, and closes it when it succeeds.
LEMMA OpenCircuit ==
  ASSUME NEW t \in Nat, NEW n \in Nat, NEW b \in BreakerRecord,
         b.state = "open", ~b.probeInFlight
  PROVE  /\ n - b.openedAt < t =>
              ~Circuit(t)!Allows(b, n) /\ Circuit(t)!Looked(b, n) = b
         /\ n - b.openedAt >= t =>
              /\ Circuit(t)!Allows(b, n)
              /\ LET closed == Circuit(t)!RecordSuccess(Circuit(t)!Allowed(b, n))
                 IN  closed \in BreakerRecord /\ closed.state = "closed"
PROOF
<1>1. b.openedAt \in Nat
  BY DEF BreakerRecord
<1>2. Circuit(t)!RecoveryElapsed(b, n) <=> n - b.openedAt >= t
  BY DEF Circuit!RecoveryElapsed
<1>3. ASSUME n - b.openedAt < t
      PROVE  ~Circuit(t)!Allows(b, n) /\ Circuit(t)!Looked(b, n) = b
  BY <1>1, <1>2, <1>3 DEF Circuit!Allows, Circuit!Looked
<1>4. ASSUME n - b.openedAt >= t
      PROVE  /\ Circuit(t)!Allows(b, n)
             /\ Circuit(t)!RecordSuccess(Circuit(t)!Allowed(b, n)) \in BreakerRecord
             /\ Circuit(t)!RecordSuccess(Circuit(t)!Allowed(b, n)).state = "closed"
  <2>1. Circuit(t)!Looked(b, n) = [b EXCEPT !.state = "half_open"]
    BY <1>2, <1>4 DEF Circuit!Looked
  <2>2. Circuit(t)!Allowed(b, n).openedAt = b.openedAt
    BY <2>1 DEF Circuit!Allowed, BreakerRecord
  <2> QED BY <1>1, <2>1, <2>2
          DEF Circuit!Allows, Circuit!RecordSuccess, BreakerRecord
<1> QED BY <1>3, <1>4

Reg == Range(Current.registry)

\* Nobody but p is touched, and p keeps its mode.
Touched(p) ==
  /\ provider' \in [Reg -> Controlled]
  /\ \A o \in Reg \ {p} : provider'[o] = provider[o]
  /\ provider'[p].mode = provider[p].mode

LEMMA Steady ==
  ASSUME Types, NEW p \in Reg, Current.recovery \in Nat
  PROVE  /\ provider \in [Reg -> Controlled] /\ now \in Nat
         /\ provider[p] \in Controlled /\ provider[p].breaker \in BreakerRecord
         /\ provider[p].calls \in Nat /\ provider[p].successes \in Nat
PROOF
BY DEF Types, Reg, Controlled

LEMMA InvokeLeaves ==
  ASSUME Types, NEW p \in Reg, Current.recovery \in Nat,
         NEW mode, NEW b \in BreakerRecord, Invoke(p, mode, b)
  PROVE  /\ Touched(p)
         /\ provider'[p].calls = provider[p].calls + 1
         /\ provider'[p].successes =
              provider[p].successes + IF mode = "healthy" THEN 1 ELSE 0
         /\ provider'[p].breaker = b
         /\ provider[p].mode = mode
         /\ attempted' = Append(attempted, p)
         /\ UNCHANGED <<results, now, stalled>>
PROOF
<1>1. /\ provider \in [Reg -> Controlled] /\ now \in Nat
      /\ provider[p] \in Controlled /\ provider[p].breaker \in BreakerRecord
      /\ provider[p].calls \in Nat /\ provider[p].successes \in Nat
  BY Steady
<1> DEFINE n == provider[p].successes + IF mode = "healthy" THEN 1 ELSE 0
           q == provider[p]
           after == [mode |-> q.mode, calls |-> q.calls + 1,
                     breaker |-> b, successes |-> n]
<1>2. n \in Nat /\ after \in Controlled
  BY <1>1 DEF Controlled
<1>3. provider' = [provider EXCEPT ![p].calls = @ + 1,
                     ![p].successes = IF mode = "healthy" THEN @ + 1 ELSE @,
                     ![p].breaker = b]
  BY DEF Invoke
<1>4. /\ DOMAIN provider' = Reg
      /\ \A o \in Reg \ {p} : provider'[o] = provider[o]
  BY <1>1, <1>3
<1>5. provider'[p] = after
  <2> DEFINE one == [provider EXCEPT ![p].calls = @ + 1]
             two == [one EXCEPT ![p].successes =
                       IF mode = "healthy" THEN @ + 1 ELSE @]
  <2>1. /\ one = [provider EXCEPT ![p] = [q EXCEPT !.calls = @ + 1]]
        /\ two = [one EXCEPT ![p] = [one[p] EXCEPT !.successes =
                     IF mode = "healthy" THEN @ + 1 ELSE @]]
        /\ provider' = [two EXCEPT ![p] = [two[p] EXCEPT !.breaker = b]]
    BY <1>1, <1>3
  <2>2. one[p] = [mode |-> q.mode, calls |-> q.calls + 1,
                  breaker |-> q.breaker, successes |-> q.successes]
    BY <1>1, <2>1 DEF Controlled
  <2>3. two[p] = [mode |-> q.mode, calls |-> q.calls + 1,
                  breaker |-> q.breaker, successes |-> n]
    <3>1. n = IF mode = "healthy" THEN q.successes + 1 ELSE q.successes
      BY <1>1
    <3>2. one[p].successes = q.successes /\ DOMAIN one = Reg
      BY <1>1, <2>1, <2>2
    <3> HIDE DEF n
    <3>3. two[p] = [one[p] EXCEPT !.successes = n]
      BY <2>1, <3>1, <3>2
    <3> QED BY <2>2, <3>3
  <2> QED BY <1>1, <2>1, <2>3
<1>6. provider' \in [Reg -> Controlled]
  <2>1. \A o \in Reg : provider'[o] \in Controlled
    BY <1>1, <1>2, <1>4, <1>5
  <2>2. provider' = [o \in Reg |-> provider'[o]]
    BY <1>3, <1>4
  <2> QED BY <2>1, <2>2
<1>7. /\ provider'[p].mode = q.mode /\ provider'[p].calls = q.calls + 1
      /\ provider'[p].successes = n /\ provider'[p].breaker = b
  BY <1>5
<1>8. /\ provider[p].mode = mode /\ attempted' = Append(attempted, p)
      /\ UNCHANGED <<results, now, stalled>>
  BY DEF Invoke, Attempt, clock
<1> QED BY <1>4, <1>6, <1>7, <1>8 DEF Touched

LEMMA RaisesLeaves ==
  ASSUME Types, NEW p \in Reg, Current.recovery \in Nat, Raises(p),
         provider[p].breaker.state = "closed"
  PROVE  /\ Touched(p)
         /\ provider'[p].calls = provider[p].calls + 1
         /\ provider'[p].successes = provider[p].successes
         /\ provider'[p].breaker.state = "open"
         /\ provider'[p].breaker.openedAt = now
         /\ ~provider'[p].breaker.probeInFlight
         /\ attempted' = Append(attempted, p) /\ excluded' = excluded \cup {p}
         /\ UNCHANGED <<results, now, stalled, stage, since, replies>>
PROOF
<1>1. /\ now \in Nat /\ provider[p].breaker \in BreakerRecord
      /\ provider[p].successes \in Nat
  BY Steady
<1> DEFINE b == Failed(Admitted(p))
<1>2. /\ b \in BreakerRecord /\ b.state = "open" /\ b.openedAt = now
      /\ ~b.probeInFlight
  BY <1>1, ClosedCircuit DEF Failed, Admitted
<1>3. Invoke(p, "error", b)
  BY DEF Raises
<1> HIDE DEF b
<1>4. /\ Touched(p)
      /\ provider'[p].calls = provider[p].calls + 1
      /\ provider'[p].successes = provider[p].successes + 0
      /\ provider'[p].breaker = b
      /\ attempted' = Append(attempted, p)
      /\ UNCHANGED <<results, now, stalled>>
  BY <1>2, <1>3, InvokeLeaves
<1> QED BY <1>1, <1>2, <1>4 DEF Raises

LEMMA HangsLeaves ==
  ASSUME Types, NEW p \in Reg, Current.recovery \in Nat, Hangs(p),
         provider[p].breaker.state = "closed"
  PROVE  /\ Touched(p)
         /\ provider'[p].calls = provider[p].calls + 1
         /\ provider'[p].successes = provider[p].successes
         /\ provider'[p].breaker = provider[p].breaker
         /\ attempted' = Append(attempted, p) /\ stage' = "hanging" /\ since' = now
         /\ UNCHANGED <<results, now, stalled, excluded, replies>>
PROOF
<1>1. /\ now \in Nat /\ provider[p].breaker \in BreakerRecord
      /\ provider[p].successes \in Nat
  BY Steady
<1>2. Admitted(p) = provider[p].breaker
  BY <1>1, ClosedCircuit DEF Admitted
<1>3. Invoke(p, "timeout", provider[p].breaker)
  BY <1>2 DEF Hangs
<1>4. /\ Touched(p)
      /\ provider'[p].calls = provider[p].calls + 1
      /\ provider'[p].successes = provider[p].successes + 0
      /\ provider'[p].breaker = provider[p].breaker
      /\ attempted' = Append(attempted, p)
      /\ UNCHANGED <<results, now, stalled>>
  BY <1>1, <1>3, InvokeLeaves
<1> QED BY <1>1, <1>4 DEF Hangs

\* The breaker closes, whether the call was let through by a closed circuit or
\* as a probe.
LEMMA ReturnsLeaves ==
  ASSUME Types, NEW p \in Reg, Current.recovery \in Nat, Returns(p),
         \/ provider[p].breaker.state = "closed"
         \/ /\ provider[p].breaker.state = "open"
            /\ ~provider[p].breaker.probeInFlight
            /\ now - provider[p].breaker.openedAt >= Current.recovery
  PROVE  /\ Touched(p)
         /\ provider'[p].successes = provider[p].successes + 1
         /\ provider'[p].breaker.state = "closed"
         /\ stage' = "idle"
         /\ \E r : /\ replies' = Append(replies, r)
                   /\ r.status = 200 /\ r.provider = p
                   /\ r.attempted = Append(attempted, p)
         /\ UNCHANGED <<results, now, stalled, since>>
PROOF
<1>1. /\ now \in Nat /\ provider[p].breaker \in BreakerRecord
      /\ provider[p].successes \in Nat
  BY Steady
<1> DEFINE b == Circuit(Current.recovery)!RecordSuccess(Admitted(p))
<1>2. b \in BreakerRecord /\ b.state = "closed"
  <2>1. CASE provider[p].breaker.state = "closed"
    BY <1>1, <2>1, ClosedCircuit DEF Admitted
  <2>2. CASE provider[p].breaker.state # "closed"
    BY <1>1, <2>2, OpenCircuit DEF Admitted
  <2> QED BY <2>1, <2>2
<1>3. Invoke(p, "healthy", b)
  BY DEF Returns
<1> HIDE DEF b
<1>4. /\ Touched(p)
      /\ provider'[p].successes = provider[p].successes + 1
      /\ provider'[p].breaker = b
      /\ attempted' = Append(attempted, p)
      /\ UNCHANGED <<results, now, stalled>>
  BY <1>2, <1>3, InvokeLeaves
<1>5. Reply(200, p) /\ since' = since
  BY DEF Returns
<1> QED BY <1>2, <1>4, <1>5 DEF Reply

\* A rejection changes the request only.
LEMMA RejectLeaves ==
  ASSUME Types, NEW p \in Reg, Current.recovery \in Nat, RejectOpen(p),
         provider[p].breaker.state = "open", ~provider[p].breaker.probeInFlight,
         now - provider[p].breaker.openedAt < Current.recovery
  PROVE  /\ provider' = provider
         /\ attempted' = Append(attempted, p) /\ excluded' = excluded \cup {p}
         /\ UNCHANGED <<results, now, stalled, stage, since, replies>>
PROOF
<1>1. /\ now \in Nat /\ provider[p].breaker \in BreakerRecord
      /\ provider \in [Reg -> Controlled] /\ provider[p] \in Controlled
  BY Steady
<1>2. Circuit(Current.recovery)!Looked(provider[p].breaker, now) = provider[p].breaker
  BY <1>1, OpenCircuit
<1>3. provider' = [provider EXCEPT ![p] =
                     [provider[p] EXCEPT !.breaker = provider[p].breaker]]
  BY <1>1, <1>2 DEF RejectOpen
<1>4. [provider[p] EXCEPT !.breaker = provider[p].breaker] = provider[p]
  BY <1>1 DEF Controlled
<1>5. provider' = provider
  BY <1>1, <1>3, <1>4
<1> QED BY <1>5 DEF RejectOpen, Attempt, clock

LEMMA CutOffLeaves ==
  ASSUME Types, NEW p \in Reg, Current.recovery \in Nat, CutOff,
         attempted = <<p>>, provider[p].breaker.state = "closed"
  PROVE  /\ Touched(p)
         /\ provider'[p].calls = provider[p].calls
         /\ provider'[p].successes = provider[p].successes
         /\ provider'[p].breaker.state = "open"
         /\ provider'[p].breaker.openedAt = now
         /\ ~provider'[p].breaker.probeInFlight
         /\ excluded' = excluded \cup {p} /\ stage' = "routing"
         /\ UNCHANGED <<results, now, stalled, since, attempted, replies>>
PROOF
<1>1. /\ now \in Nat /\ provider[p].breaker \in BreakerRecord
      /\ provider \in [Reg -> Controlled] /\ provider[p] \in Controlled
  BY Steady
<1>2. Last(attempted) = p
  BY DEF Last
<1> DEFINE b == Failed(provider[p].breaker)
           q == provider[p]
<1>3. /\ b \in BreakerRecord /\ b.state = "open" /\ b.openedAt = now
      /\ ~b.probeInFlight
  BY <1>1, ClosedCircuit DEF Failed
<1>4. provider' = [provider EXCEPT ![p] = [q EXCEPT !.breaker = b]]
  BY <1>1, <1>2 DEF CutOff
<1> HIDE DEF b
<1>5. [q EXCEPT !.breaker = b]
        = [mode |-> q.mode, calls |-> q.calls, breaker |-> b, successes |-> q.successes]
  BY <1>1 DEF Controlled
<1>6. [q EXCEPT !.breaker = b] \in Controlled
  BY <1>1, <1>3, <1>5 DEF Controlled
<1>7. Touched(p)
  BY <1>1, <1>4, <1>5, <1>6 DEF Touched
<1>8. /\ provider'[p].calls = q.calls /\ provider'[p].successes = q.successes
      /\ provider'[p].breaker = b
  BY <1>1, <1>4, <1>5
<1>9. /\ excluded' = excluded \cup {p} /\ stage' = "routing"
      /\ UNCHANGED <<results, now, stalled, since, attempted, replies>>
  BY <1>2 DEF CutOff, clock
<1> QED BY <1>3, <1>7, <1>8, <1>9

LEMMA GiveUpLeaves ==
  ASSUME GiveUp
  PROVE  /\ stage' = "idle"
         /\ \E r : /\ replies' = Append(replies, r)
                   /\ r.status = 503 /\ r.attempted = attempted
         /\ UNCHANGED <<results, now, stalled, since, provider>>
PROOF
BY DEF GiveUp, Reply, clock

LEMMA PostLeaves ==
  ASSUME Post
  PROVE  /\ Routing(<<>>, {})'
         /\ UNCHANGED <<results, now, stalled, since, provider, replies>>
PROOF
BY DEF Post, Routing, At, clock

\* What the steps of a scenario keep of what is common to all.
LEMMA TypesKept ==
  ASSUME Types, UNCHANGED <<results, now, stalled>>,
         since' = since \/ since' = now,
         provider' = provider \/ provider' \in [Reg -> Controlled]
  PROVE  Types'
PROOF
<1>1. Current' = Current
  BY DEF Current
<1> QED BY <1>1 DEF Types, Reg

-----------------------------------------------------------------------------
(* The scenarios, point by point                                           *)

Acts == Heal \/ Post \/ Handles

\* The first request, until its first attempt has failed.
LEMMA UntriedSteps ==
  ASSUME Types, Current.registry = Pair, Current.recovery \in Nat,
         ~Asked.healed, Routing(<<>>, {}) => Target = {"primary"},
         Untried("error"), Acts
  PROVE  /\ Types' /\ UNCHANGED <<results, now, stalled>>
         /\ Untried("error")' \/ Failing("error")'
         /\ provider'["secondary"] = provider["secondary"]
PROOF
<1>1. "primary" \in Reg /\ "secondary" \in Reg \ {"primary"}
  BY Registries DEF Reg
<1>2. /\ provider["primary"].mode = "error" /\ Unused("primary") /\ replies = <<>>
  BY DEF Untried
<1>3. CASE stage = "idle"
  <2>1. Post
    BY <1>3, IdleGateway DEF Acts, Heal
  <2>2. /\ Routing(<<>>, {})'
        /\ UNCHANGED <<results, now, stalled, since, provider, replies>>
    BY <2>1, PostLeaves
  <2>3. Types'
    BY <2>2, TypesKept
  <2>4. Untried("error")'
    BY <1>2, <2>2 DEF Untried, Unused
  <2> QED BY <2>2, <2>3, <2>4
<1>4. CASE Routing(<<>>, {})
  <2>1. Target = {"primary"} /\ stage = "routing" /\ attempted = <<>> /\ excluded = {}
    BY <1>4 DEF Routing, At
  <2>2. Handles
    BY <2>1, HarnessPlaces DEF Acts
  <2>3. RejectOpen("primary") \/ Raises("primary") \/ Hangs("primary") \/ Returns("primary")
    BY <2>1, <2>2, TargetTried
  <2>4. Allows("primary")
    BY <1>1, <1>2, Steady, ClosedCircuit DEF Unused, Allows
  <2>5. Raises("primary")
    BY <1>2, <2>3, <2>4 DEF RejectOpen, Hangs, Returns, Invoke
  <2>6. /\ Touched("primary")
        /\ provider'["primary"].calls = provider["primary"].calls + 1
        /\ provider'["primary"].successes = provider["primary"].successes
        /\ provider'["primary"].breaker.state = "open"
        /\ provider'["primary"].breaker.openedAt = now
        /\ ~provider'["primary"].breaker.probeInFlight
        /\ attempted' = Append(attempted, "primary")
        /\ excluded' = excluded \cup {"primary"}
        /\ UNCHANGED <<results, now, stalled, stage, since, replies>>
    BY <1>1, <1>2, <2>5, RaisesLeaves DEF Unused
  <2>7. Types'
    BY <2>6, TypesKept DEF Touched
  <2>8. now \in Nat
    BY DEF Types
  <2>9. Failing("error")'
    BY <1>2, <2>1, <2>6, <2>8 DEF Failing, Open, Unused, Touched, Routing, At
  <2> QED BY <1>1, <2>6, <2>7, <2>9 DEF Touched
<1> QED BY <1>3, <1>4 DEF Untried

\* What the harness asks, and when it has asked everything.
LEMMA AsksFirst ==
  ASSUME replies = <<>>, NEW a, NEW b,
         Current.requests = <<a>> \/ Current.requests = <<a, b>>
  PROVE  Asked = a
PROOF
BY DEF Asked

LEMMA AsksSecond ==
  ASSUME NEW r, replies = <<r>>, NEW a, NEW b, Current.requests = <<a, b>>
  PROVE  Asked = b
PROOF
BY DEF Asked

LEMMA NothingLeft ==
  ASSUME stage = "idle", Len(replies) = Len(Current.requests),
         Len(Current.requests) \in Nat
  PROVE  ~Acts
PROOF
BY IdleGateway DEF Acts, Heal, Post, Pending

LEMMA SameSequence ==
  ASSUME NEW n \in Nat, NEW f, NEW g, f = [i \in 1 .. n |-> f[i]],
         g = [i \in 1 .. n |-> g[i]], \A i \in 1 .. n : f[i] = g[i]
  PROVE  f = g
PROOF
<1>1. [i \in 1 .. n |-> f[i]] = [i \in 1 .. n |-> g[i]]
  OBVIOUS
<1> QED BY <1>1, Zenon

LEMMA Appending ==
  ASSUME NEW a, NEW b, NEW c
  PROVE  /\ Append(<<a>>, b) = <<a, b>>
         /\ Append(<<a, b>>, c) = <<a, b, c>>
PROOF
<1> DEFINE two == Append(<<a>>, b)
           three == Append(<<a, b>>, c)
<1>1. /\ two[1] = a /\ two[2] = b
      /\ two = [i \in 1 .. 2 |-> two[i]]
      /\ <<a, b>> = [i \in 1 .. 2 |-> <<a, b>>[i]]
  OBVIOUS
<1>2. /\ three[1] = a /\ three[2] = b /\ three[3] = c
      /\ three = [i \in 1 .. 3 |-> three[i]]
      /\ <<a, b, c>> = [i \in 1 .. 3 |-> <<a, b, c>>[i]]
  OBVIOUS
<1>3. two = <<a, b>>
  <2>1. \A i \in 1 .. 2 : two[i] = <<a, b>>[i]
    BY <1>1
  <2> QED BY <1>1, <2>1, SameSequence
<1>4. three = <<a, b, c>>
  <2>1. \A i \in 1 .. 3 : three[i] = <<a, b, c>>[i]
    BY <1>2
  <2> QED BY <1>2, <2>1, SameSequence
<1> QED BY <1>3, <1>4

LEMMA IdlePosts ==
  ASSUME Types, stage = "idle", ~Asked.healed, Acts
  PROVE  /\ Types' /\ Routing(<<>>, {})'
         /\ UNCHANGED <<results, now, stalled, since, provider, replies>>
PROOF
<1>1. Post
  BY IdleGateway DEF Acts, Heal
<1>2. /\ Routing(<<>>, {})'
      /\ UNCHANGED <<results, now, stalled, since, provider, replies>>
  BY <1>1, PostLeaves
<1> QED BY <1>2, TypesKept

\* A request that did not get its answer from the primary gets it from the
\* secondary.
LEMMA SecondaryAnswers ==
  ASSUME Types, Current.registry = Pair, Current.recovery \in Nat,
         Asked = AnyModel, Routing(<<"primary">>, {"primary"}),
         Sound("secondary"), Acts
  PROVE  /\ Types' /\ UNCHANGED <<results, now, stalled>> /\ stage' = "idle"
         /\ \E r : replies' = Append(replies, r) /\ FailedOver(r)
         /\ provider'["primary"] = provider["primary"]
         /\ Sound("secondary")'
PROOF
<1>1. "secondary" \in Reg /\ "primary" \in Reg \ {"secondary"}
  BY Registries DEF Reg
<1>2. Target = {"secondary"} /\ stage = "routing" /\ attempted = <<"primary">>
  BY PairTargets DEF Routing, At
<1>3. Handles
  BY <1>2, HarnessPlaces DEF Acts
<1>4. \/ RejectOpen("secondary") \/ Raises("secondary")
      \/ Hangs("secondary") \/ Returns("secondary")
  BY <1>2, <1>3, TargetTried
<1>5. Allows("secondary")
  BY <1>1, Steady, ClosedCircuit DEF Sound, Allows
<1>6. Returns("secondary")
  BY <1>4, <1>5 DEF RejectOpen, Hangs, Raises, Invoke, Sound
<1>7. /\ Touched("secondary")
      /\ provider'["secondary"].breaker.state = "closed"
      /\ stage' = "idle"
      /\ \E r : /\ replies' = Append(replies, r)
                /\ r.status = 200 /\ r.provider = "secondary"
                /\ r.attempted = Append(attempted, "secondary")
      /\ UNCHANGED <<results, now, stalled, since>>
  BY <1>1, <1>6, ReturnsLeaves DEF Sound
<1>8. Types'
  BY <1>7, TypesKept DEF Touched
<1>9. Sound("secondary")'
  BY <1>7 DEF Sound, Touched
<1>10. Len(Append(attempted, "secondary")) = 2
  BY <1>2
<1>11. \E r : replies' = Append(replies, r) /\ FailedOver(r)
  <2>1. PICK r : /\ replies' = Append(replies, r)
                 /\ r.status = 200 /\ r.provider = "secondary"
                 /\ r.attempted = Append(attempted, "secondary")
    BY <1>7
  <2>2. FailedOver(r)
    BY <1>10, <2>1 DEF FailedOver
  <2> QED BY <2>1, <2>2
<1> QED BY <1>1, <1>7, <1>8, <1>9, <1>11 DEF Touched

\* The same for a primary that hangs: its first request until the deadline.
LEMMA UntriedHangs ==
  ASSUME Types, Current.registry = Pair, Current.recovery \in Nat,
         ~Asked.healed, Routing(<<>>, {}) => Target = {"primary"},
         Untried("timeout"), Acts
  PROVE  /\ Types' /\ UNCHANGED <<results, now, stalled>>
         /\ Untried("timeout")' \/ Hanging'
         /\ provider'["secondary"] = provider["secondary"]
PROOF
<1>1. "primary" \in Reg /\ "secondary" \in Reg \ {"primary"}
  BY Registries DEF Reg
<1>2. /\ provider["primary"].mode = "timeout" /\ Unused("primary") /\ replies = <<>>
  BY DEF Untried
<1>3. CASE stage = "idle"
  <2>1. /\ Types' /\ Routing(<<>>, {})'
        /\ UNCHANGED <<results, now, stalled, since, provider, replies>>
    BY <1>3, IdlePosts
  <2> QED BY <1>2, <2>1 DEF Untried, Unused
<1>4. CASE Routing(<<>>, {})
  <2>1. Target = {"primary"} /\ stage = "routing" /\ attempted = <<>> /\ excluded = {}
    BY <1>4 DEF Routing, At
  <2>2. Handles
    BY <2>1, HarnessPlaces DEF Acts
  <2>3. RejectOpen("primary") \/ Raises("primary") \/ Hangs("primary") \/ Returns("primary")
    BY <2>1, <2>2, TargetTried
  <2>4. Allows("primary")
    BY <1>1, <1>2, Steady, ClosedCircuit DEF Unused, Allows
  <2>5. Hangs("primary")
    BY <1>2, <2>3, <2>4 DEF RejectOpen, Raises, Returns, Invoke
  <2>6. /\ Touched("primary")
        /\ provider'["primary"].calls = provider["primary"].calls + 1
        /\ provider'["primary"].successes = provider["primary"].successes
        /\ provider'["primary"].breaker = provider["primary"].breaker
        /\ attempted' = Append(attempted, "primary")
        /\ stage' = "hanging" /\ since' = now
        /\ UNCHANGED <<results, now, stalled, excluded, replies>>
    BY <1>1, <1>2, <2>5, HangsLeaves DEF Unused
  <2>7. Types'
    BY <2>6, TypesKept DEF Touched
  <2>8. Hanging'
    BY <1>2, <2>1, <2>6 DEF Hanging, Unused, Touched, At
  <2> QED BY <1>1, <2>6, <2>7, <2>8 DEF Touched
<1> QED BY <1>3, <1>4 DEF Untried

LEMMA HangingSteps ==
  ASSUME Types, Current.registry = Pair, Current.recovery \in Nat, Hanging, Acts
  PROVE  /\ Types' /\ UNCHANGED <<results, now, stalled>>
         /\ Failing("timeout")'
         /\ provider'["secondary"] = provider["secondary"]
PROOF
<1>1. "primary" \in Reg /\ "secondary" \in Reg \ {"primary"}
  BY Registries DEF Reg
<1>2. stage = "hanging" /\ attempted = <<"primary">> /\ excluded = {}
  BY DEF Hanging, At
<1>3. CutOff
  BY <1>2, HarnessPlaces, DeadlineNext DEF Acts
<1>4. /\ Touched("primary")
      /\ provider'["primary"].calls = provider["primary"].calls
      /\ provider'["primary"].successes = provider["primary"].successes
      /\ provider'["primary"].breaker.state = "open"
      /\ provider'["primary"].breaker.openedAt = now
      /\ ~provider'["primary"].breaker.probeInFlight
      /\ excluded' = excluded \cup {"primary"} /\ stage' = "routing"
      /\ UNCHANGED <<results, now, stalled, since, attempted, replies>>
  BY <1>1, <1>2, <1>3, CutOffLeaves DEF Hanging
<1>5. Types'
  BY <1>4, TypesKept DEF Touched
<1>6. now \in Nat
  BY DEF Types
<1>7. Failing("timeout")'
  BY <1>2, <1>4, <1>6 DEF Failing, Open, Hanging, Touched, Routing, At
<1> QED BY <1>1, <1>4, <1>5, <1>7 DEF Touched

-----------------------------------------------------------------------------
(* Each scenario under the steps of the harness and the gateway            *)

LEMMA FailoverActs ==
  ASSUME Types, Plays(Pair, Recovery), Current.requests = <<AnyModel>>,
         NEW mode \in {"error", "timeout"}, FailoverPoint(mode), Acts
  PROVE  Types' /\ FailoverPoint(mode)' /\ UNCHANGED <<results, now, stalled>>
PROOF
<1>1. Current.registry = Pair /\ Current.recovery \in Nat
  BY MatrixAssumption DEF Plays
<1>2. ASSUME replies = <<>>
      PROVE  /\ Asked = AnyModel /\ ~Asked.healed
             /\ Routing(<<>>, {}) => Target = {"primary"}
  BY <1>1, <1>2, AsksFirst, Requests, PairTargets
<1>3. CASE Untried(mode)
  <2>1. /\ Types' /\ UNCHANGED <<results, now, stalled>>
        /\ Untried(mode)' \/ Failing(mode)' \/ (mode = "timeout" /\ Hanging')
        /\ provider'["secondary"] = provider["secondary"]
    <3>1. replies = <<>>
      BY <1>3 DEF Untried
    <3>2. CASE mode = "error"
      BY <1>1, <1>2, <1>3, <3>1, <3>2, UntriedSteps
    <3>3. CASE mode = "timeout"
      BY <1>1, <1>2, <1>3, <3>1, <3>3, UntriedHangs
    <3> QED BY <3>2, <3>3
  <2>2. Sound("secondary")'
    BY <2>1 DEF FailoverPoint, Sound
  <2> QED BY <2>1, <2>2 DEF FailoverPoint
<1>4. CASE Failing(mode)
  <2>1. replies = <<>> /\ Routing(<<"primary">>, {"primary"}) /\ Sound("secondary")
    BY <1>4 DEF Failing, FailoverPoint
  <2>2. /\ Types' /\ UNCHANGED <<results, now, stalled>> /\ stage' = "idle"
        /\ \E r : replies' = Append(replies, r) /\ FailedOver(r)
        /\ Sound("secondary")'
    BY <1>1, <1>2, <2>1, SecondaryAnswers
  <2>3. \A r : Append(replies, r) = <<r>>
    BY <2>1
  <2>4. (\E r : replies = <<r>> /\ FailedOver(r))'
    BY <2>2, <2>3 DEF FailedOver
  <2> QED BY <2>2, <2>4 DEF FailoverPoint
<1>5. CASE mode = "timeout" /\ Hanging
  <2>1. /\ Types' /\ UNCHANGED <<results, now, stalled>>
        /\ Failing("timeout")'
        /\ provider'["secondary"] = provider["secondary"]
    BY <1>1, <1>5, HangingSteps
  <2>2. Sound("secondary")'
    BY <2>1 DEF FailoverPoint, Sound
  <2> QED BY <1>5, <2>1, <2>2 DEF FailoverPoint
<1>6. CASE stage = "idle" /\ \E r : replies = <<r>> /\ FailedOver(r)
  BY <1>6, NothingLeft
<1> QED BY <1>3, <1>4, <1>5, <1>6 DEF FailoverPoint

\* The second request finds the circuit still open, and goes round it.
LEMMA OpenCircuitRejects ==
  ASSUME Types, Current.registry = Pair, Current.recovery \in Nat,
         Asked = AnyModel, Routing(<<>>, {}), Open("primary"),
         now - provider["primary"].breaker.openedAt < Current.recovery, Acts
  PROVE  /\ Types' /\ Routing(<<"primary">>, {"primary"})'
         /\ UNCHANGED <<results, now, stalled, replies, provider>>
PROOF
<1>1. "primary" \in Reg
  BY Registries DEF Reg
<1>2. Target = {"primary"} /\ stage = "routing" /\ attempted = <<>> /\ excluded = {}
  BY PairTargets DEF Routing, At
<1>3. Handles
  BY <1>2, HarnessPlaces DEF Acts
<1>4. RejectOpen("primary") \/ Raises("primary") \/ Hangs("primary") \/ Returns("primary")
  BY <1>2, <1>3, TargetTried
<1>5. ~Allows("primary")
  BY <1>1, Steady, OpenCircuit DEF Open, Allows
<1>6. RejectOpen("primary")
  BY <1>4, <1>5 DEF Raises, Hangs, Returns, Invoke
<1>7. /\ provider' = provider
      /\ attempted' = Append(attempted, "primary")
      /\ excluded' = excluded \cup {"primary"}
      /\ UNCHANGED <<results, now, stalled, stage, since, replies>>
  BY <1>1, <1>6, RejectLeaves DEF Open
<1>8. Types'
  BY <1>7, TypesKept
<1>9. Routing(<<"primary">>, {"primary"})'
  BY <1>2, <1>7 DEF Routing, At
<1> QED BY <1>7, <1>8, <1>9

LEMMA IsolationActs ==
  ASSUME Types, Plays(Pair, LongRecovery),
         Current.requests = <<AnyModel, AnyModel>>, IsolationPoint, Acts
  PROVE  Types' /\ IsolationPoint' /\ UNCHANGED <<results, now, stalled>>
PROOF
<1>1. Current.registry = Pair /\ Current.recovery \in Nat
  BY MatrixAssumption DEF Plays
<1>2. /\ Sound("secondary") /\ provider["primary"].mode = "error" /\ now = stalled
  BY DEF IsolationPoint
<1>3. ASSUME replies = <<>>
      PROVE  /\ Asked = AnyModel /\ ~Asked.healed
             /\ Routing(<<>>, {}) => Target = {"primary"}
  BY <1>1, <1>3, AsksFirst, Requests, PairTargets
<1>4. CASE Untried("error")
  <2>1. /\ Types' /\ UNCHANGED <<results, now, stalled>>
        /\ Untried("error")' \/ Failing("error")'
        /\ provider'["secondary"] = provider["secondary"]
    BY <1>1, <1>3, <1>4, UntriedSteps DEF Untried
  <2>2. Sound("secondary")'
    BY <1>2, <2>1 DEF Sound
  <2>3. provider'["primary"].mode = "error"
    BY <2>1 DEF Untried, Failing
  <2> QED BY <1>2, <2>1, <2>2, <2>3 DEF IsolationPoint
<1>5. CASE Failing("error")
  <2>1. replies = <<>> /\ Routing(<<"primary">>, {"primary"}) /\ Open("primary")
    BY <1>5 DEF Failing
  <2>2. /\ Types' /\ UNCHANGED <<results, now, stalled>> /\ stage' = "idle"
        /\ \E r : replies' = Append(replies, r) /\ FailedOver(r)
        /\ provider'["primary"] = provider["primary"]
        /\ Sound("secondary")'
    BY <1>1, <1>2, <1>3, <2>1, SecondaryAnswers
  <2>3. \A r : Append(replies, r) = <<r>>
    BY <2>1
  <2>4. (\E r : replies = <<r>> /\ r.status = 200)'
    BY <2>2, <2>3 DEF FailedOver
  <2>5. Open("primary")' /\ provider'["primary"].mode = "error"
    BY <1>2, <2>1, <2>2 DEF Open
  <2> QED BY <1>2, <2>2, <2>4, <2>5 DEF IsolationPoint
<1>6. ASSUME NEW r, replies = <<r>>, r.status = 200, Open("primary"),
             \/ stage = "idle"
             \/ Routing(<<>>, {})
             \/ Routing(<<"primary">>, {"primary"})
      PROVE  Types' /\ IsolationPoint' /\ UNCHANGED <<results, now, stalled>>
  <2>1. Asked = AnyModel /\ ~Asked.healed
    BY <1>6, AsksSecond, Requests
  <2>2. CASE stage = "idle"
    <3>1. /\ Types' /\ Routing(<<>>, {})'
          /\ UNCHANGED <<results, now, stalled, since, provider, replies>>
      BY <2>1, <2>2, IdlePosts
    <3>2. Sound("secondary")' /\ Open("primary")'
      BY <1>2, <1>6, <3>1 DEF Sound, Open
    <3> QED BY <1>2, <1>6, <3>1, <3>2 DEF IsolationPoint
  <2>3. CASE Routing(<<>>, {})
    <3>1. now - provider["primary"].breaker.openedAt < Current.recovery
      <4>1. /\ now \in Nat /\ now <= MaxStall
            /\ provider["primary"].breaker.openedAt \in Nat
        <5>1. "primary" \in Reg
          BY <1>1, Registries DEF Reg
        <5>2. provider["primary"].breaker \in BreakerRecord
          BY <1>1, <5>1, Steady
        <5> QED BY <1>2, <5>2 DEF BreakerRecord, Types
      <4>2. Current.recovery = LongRecovery
        BY DEF Plays
      <4> QED BY <4>1, <4>2, MatrixAssumption
    <3>2. /\ Types' /\ Routing(<<"primary">>, {"primary"})'
          /\ UNCHANGED <<results, now, stalled, replies, provider>>
      BY <1>1, <1>6, <2>1, <2>3, <3>1, OpenCircuitRejects
    <3>3. Sound("secondary")' /\ Open("primary")'
      BY <1>2, <1>6, <3>2 DEF Sound, Open
    <3> QED BY <1>2, <1>6, <3>2, <3>3 DEF IsolationPoint
  <2>4. CASE Routing(<<"primary">>, {"primary"})
    <3>1. /\ Types' /\ UNCHANGED <<results, now, stalled>> /\ stage' = "idle"
          /\ \E s : replies' = Append(replies, s) /\ FailedOver(s)
          /\ provider'["primary"] = provider["primary"]
          /\ Sound("secondary")'
      BY <1>1, <1>2, <2>1, <2>4, SecondaryAnswers
    <3>2. \A s : Append(replies, s) = <<r, s>>
      BY <1>6, Appending
    <3>3. \E s : /\ replies' = <<r, s>> /\ r.status = 200 /\ s.status = 200
                 /\ s.provider = "secondary"
      BY <1>6, <3>1, <3>2 DEF FailedOver
    <3>4. Open("primary")' /\ provider'["primary"].mode = "error"
      BY <1>2, <1>6, <3>1 DEF Open
    <3> QED BY <1>2, <3>1, <3>3, <3>4 DEF IsolationPoint
  <2> QED BY <1>6, <2>2, <2>3, <2>4
<1>7. CASE stage = "idle" /\ \E r, s : replies = <<r, s>>
  BY <1>7, NothingLeft
<1> QED BY <1>4, <1>5, <1>6, <1>7 DEF IsolationPoint

\* The harness repairs the primary and sleeps.
LEMMA HealSteps ==
  ASSUME Types, Current.registry = Pair, Current.recovery \in Nat,
         stage = "idle", Asked.healed, Open("primary"), Sound("secondary"), Acts
  PROVE  /\ Types' /\ UNCHANGED <<results, now, stalled, replies>>
         /\ stage' = "pausing" /\ since' = now
         /\ Open("primary")' /\ provider'["primary"].mode = "healthy"
         /\ provider'["primary"].breaker.openedAt <= since'
         /\ Sound("secondary")'
PROOF
<1>1. "primary" \in Reg /\ "secondary" \in Reg \ {"primary"}
  BY Registries DEF Reg
<1>2. Heal
  BY IdleGateway DEF Acts, Post
<1>3. /\ UNCHANGED <<results, now, stalled, replies>>
      /\ stage' = "pausing" /\ since' = now
      /\ provider' = [provider EXCEPT !["primary"] =
                        [provider["primary"] EXCEPT !.mode = "healthy"]]
  BY <1>2 DEF Heal, clock, request
<1>4. /\ provider \in [Reg -> Controlled] /\ provider["primary"] \in Controlled
  BY <1>1, Steady
<1> DEFINE q == provider["primary"]
<1>5. [q EXCEPT !.mode = "healthy"]
        = [mode |-> "healthy", calls |-> q.calls, breaker |-> q.breaker,
           successes |-> q.successes]
  BY <1>4 DEF Controlled
<1>6. [q EXCEPT !.mode = "healthy"] \in Controlled
  BY <1>4, <1>5 DEF Controlled
<1>7. Types'
  BY <1>1, <1>3, <1>4, <1>6, TypesKept
<1>8. /\ provider'["primary"].mode = "healthy" /\ provider'["primary"].calls = q.calls
      /\ provider'["primary"].breaker = q.breaker
      /\ provider'["primary"].successes = q.successes
      /\ provider'["secondary"] = provider["secondary"]
  BY <1>1, <1>3, <1>4, <1>5
<1> HIDE DEF q
<1>9. Open("primary")' /\ Sound("secondary")'
  BY <1>3, <1>8 DEF Open, Sound, q
<1> QED BY <1>3, <1>7, <1>8, <1>9 DEF Open

\* The probe is posted when the sleep is over, and so is the recovery.
LEMMA PausePosts ==
  ASSUME Types, Current.registry = Pair, Current.recovery = Recovery,
         stage = "pausing", Open("primary"), Sound("secondary"),
         provider["primary"].breaker.openedAt <= since, Asked.healed, Acts
  PROVE  /\ Types' /\ Routing(<<>>, {})'
         /\ UNCHANGED <<results, now, stalled, replies, provider>>
         /\ now - provider["primary"].breaker.openedAt >= Recovery
PROOF
<1>1. Post
  BY IdleGateway DEF Acts, Heal
<1>2. /\ Routing(<<>>, {})'
      /\ UNCHANGED <<results, now, stalled, since, provider, replies>>
  BY <1>1, PostLeaves
<1>3. Types'
  BY <1>2, TypesKept
<1>4. now - since >= Pause
  BY <1>1 DEF Post, Waits
<1>5. "primary" \in Reg
  BY Registries DEF Reg
<1>6. provider["primary"].breaker \in BreakerRecord
  BY <1>5, Steady, MatrixAssumption
<1>7. /\ now \in Nat /\ since \in Nat /\ since <= now
      /\ provider["primary"].breaker.openedAt \in Nat
  BY <1>6 DEF BreakerRecord, Types
<1>8. now - provider["primary"].breaker.openedAt >= Recovery
  BY <1>4, <1>7, MatrixAssumption
<1> QED BY <1>2, <1>3, <1>8

LEMMA ProbeAnswers ==
  ASSUME Types, Current.registry = Pair, Current.recovery = Recovery,
         Asked.model = "primary", Routing(<<>>, {}), Open("primary"),
         Sound("secondary"), provider["primary"].mode = "healthy",
         now - provider["primary"].breaker.openedAt >= Recovery, Acts
  PROVE  /\ Types' /\ UNCHANGED <<results, now, stalled>> /\ stage' = "idle"
         /\ \E r : /\ replies' = Append(replies, r)
                   /\ r.status = 200 /\ r.provider = "primary"
         /\ provider'["primary"].breaker.state = "closed"
         /\ provider'["primary"].successes = 1
         /\ Sound("secondary")'
PROOF
<1>1. /\ "primary" \in Reg /\ "secondary" \in Reg \ {"primary"}
      /\ Current.recovery \in Nat
  BY Registries, MatrixAssumption DEF Reg
<1>2. Target = {"primary"} /\ stage = "routing"
  BY ExplicitTargets DEF Routing, At
<1>3. Handles
  BY <1>2, HarnessPlaces DEF Acts
<1>4. RejectOpen("primary") \/ Raises("primary") \/ Hangs("primary") \/ Returns("primary")
  BY <1>2, <1>3, TargetTried
<1>5. Allows("primary")
  BY <1>1, Steady, OpenCircuit DEF Open, Allows
<1>6. Returns("primary")
  BY <1>4, <1>5 DEF RejectOpen, Raises, Hangs, Invoke
<1>7. /\ Touched("primary")
      /\ provider'["primary"].successes = provider["primary"].successes + 1
      /\ provider'["primary"].breaker.state = "closed"
      /\ stage' = "idle"
      /\ \E r : /\ replies' = Append(replies, r)
                /\ r.status = 200 /\ r.provider = "primary"
                /\ r.attempted = Append(attempted, "primary")
      /\ UNCHANGED <<results, now, stalled, since>>
  BY <1>1, <1>6, ReturnsLeaves DEF Open
<1>8. Types'
  BY <1>7, TypesKept DEF Touched
<1>9. Sound("secondary")' /\ provider'["primary"].successes = 1
  BY <1>1, <1>7 DEF Sound, Touched, Open
<1> QED BY <1>7, <1>8, <1>9

LEMMA RecoveryActs ==
  ASSUME Types, Plays(Pair, Recovery), Current.requests = <<AnyModel, Probe>>,
         RecoveryPoint, Acts
  PROVE  Types' /\ RecoveryPoint' /\ UNCHANGED <<results, now, stalled>>
PROOF
<1>1. /\ Current.registry = Pair /\ Current.recovery = Recovery
      /\ Current.recovery \in Nat
  BY MatrixAssumption DEF Plays
<1>2. Sound("secondary")
  BY DEF RecoveryPoint
<1>3. ASSUME replies = <<>>
      PROVE  /\ Asked = AnyModel /\ ~Asked.healed
             /\ Routing(<<>>, {}) => Target = {"primary"}
  BY <1>1, <1>3, AsksFirst, Requests, PairTargets
<1>4. CASE Untried("error")
  <2>1. /\ Types' /\ UNCHANGED <<results, now, stalled>>
        /\ Untried("error")' \/ Failing("error")'
        /\ provider'["secondary"] = provider["secondary"]
    BY <1>1, <1>3, <1>4, UntriedSteps DEF Untried
  <2>2. Sound("secondary")'
    BY <1>2, <2>1 DEF Sound
  <2> QED BY <2>1, <2>2 DEF RecoveryPoint
<1>5. CASE Failing("error")
  <2>1. /\ replies = <<>> /\ Routing(<<"primary">>, {"primary"}) /\ Open("primary")
        /\ provider["primary"].mode = "error"
    BY <1>5 DEF Failing
  <2>2. /\ Types' /\ UNCHANGED <<results, now, stalled>> /\ stage' = "idle"
        /\ \E r : replies' = Append(replies, r) /\ FailedOver(r)
        /\ provider'["primary"] = provider["primary"]
        /\ Sound("secondary")'
    BY <1>1, <1>2, <1>3, <2>1, SecondaryAnswers
  <2>3. \A r : Append(replies, r) = <<r>>
    BY <2>1
  <2>4. (\E r : replies = <<r>> /\ r.status = 200)'
    BY <2>2, <2>3 DEF FailedOver
  <2>5. Open("primary")' /\ provider'["primary"].mode = "error"
    BY <2>1, <2>2 DEF Open
  <2> QED BY <2>2, <2>4, <2>5 DEF RecoveryPoint
<1>6. ASSUME NEW r, replies = <<r>>, r.status = 200, Open("primary"),
             \/ stage = "idle" /\ provider["primary"].mode = "error"
             \/ /\ provider["primary"].mode = "healthy"
                /\ \/ /\ stage = "pausing"
                      /\ provider["primary"].breaker.openedAt <= since
                   \/ /\ Routing(<<>>, {})
                      /\ now - provider["primary"].breaker.openedAt >= Recovery
      PROVE  Types' /\ RecoveryPoint' /\ UNCHANGED <<results, now, stalled>>
  <2>1. Asked = Probe /\ Asked.healed /\ Asked.model = "primary"
    BY <1>6, AsksSecond, Requests
  <2>2. CASE stage = "idle"
    <3>1. /\ Types' /\ UNCHANGED <<results, now, stalled, replies>>
          /\ stage' = "pausing" /\ since' = now
          /\ Open("primary")' /\ provider'["primary"].mode = "healthy"
          /\ provider'["primary"].breaker.openedAt <= since'
          /\ Sound("secondary")'
      BY <1>1, <1>2, <1>6, <2>1, <2>2, HealSteps
    <3> QED BY <1>6, <3>1 DEF RecoveryPoint
  <2>3. CASE /\ provider["primary"].mode = "healthy"
             /\ stage = "pausing" /\ provider["primary"].breaker.openedAt <= since
    <3>1. /\ Types' /\ Routing(<<>>, {})'
          /\ UNCHANGED <<results, now, stalled, replies, provider>>
          /\ now - provider["primary"].breaker.openedAt >= Recovery
      BY <1>1, <1>2, <1>6, <2>1, <2>3, PausePosts
    <3>2. Sound("secondary")' /\ Open("primary")'
      BY <1>2, <1>6, <3>1 DEF Sound, Open
    <3> QED BY <1>6, <2>3, <3>1, <3>2 DEF RecoveryPoint
  <2>4. CASE /\ provider["primary"].mode = "healthy"
             /\ Routing(<<>>, {})
             /\ now - provider["primary"].breaker.openedAt >= Recovery
    <3>1. /\ Types' /\ UNCHANGED <<results, now, stalled>> /\ stage' = "idle"
          /\ \E s : /\ replies' = Append(replies, s)
                    /\ s.status = 200 /\ s.provider = "primary"
          /\ provider'["primary"].breaker.state = "closed"
          /\ provider'["primary"].successes = 1
          /\ Sound("secondary")'
      BY <1>1, <1>2, <1>6, <2>1, <2>4, ProbeAnswers
    <3>2. \A s : Append(replies, s) = <<r, s>>
      BY <1>6, Appending
    <3>3. \E s : /\ replies' = <<r, s>> /\ r.status = 200 /\ s.status = 200
                 /\ s.provider = "primary"
      BY <1>6, <3>1, <3>2
    <3> QED BY <3>1, <3>3 DEF RecoveryPoint
  <2> QED BY <1>6, <2>2, <2>3, <2>4
<1>7. CASE stage = "idle" /\ \E r, s : replies = <<r, s>>
  BY <1>7, NothingLeft
<1> QED BY <1>4, <1>5, <1>6, <1>7 DEF RecoveryPoint

\* An explicit model is asked of its own provider, and of nobody else.
LEMMA ExplicitActs ==
  ASSUME Types, Plays(Pair, Recovery), Current.requests = <<Primary>>,
         ExplicitPoint, Acts
  PROVE  Types' /\ ExplicitPoint' /\ UNCHANGED <<results, now, stalled>>
PROOF
<1>1. Current.registry = Pair /\ Current.recovery \in Nat
  BY MatrixAssumption DEF Plays
<1>2. ASSUME replies = <<>>
      PROVE  /\ ~Asked.healed
             /\ Routing(<<>>, {}) => Target = {"primary"}
             /\ Routing(<<"primary">>, {"primary"}) => Target = {}
  BY <1>1, <1>2, AsksFirst, Requests, ExplicitTargets
<1>3. CASE Untried("error")
  <2>1. /\ Types' /\ UNCHANGED <<results, now, stalled>>
        /\ Untried("error")' \/ Failing("error")'
        /\ provider'["secondary"] = provider["secondary"]
    BY <1>1, <1>2, <1>3, UntriedSteps DEF Untried
  <2> QED BY <2>1 DEF ExplicitPoint
<1>4. CASE Failing("error")
  <2>1. replies = <<>> /\ Target = {} /\ stage = "routing" /\ attempted = <<"primary">>
    BY <1>2, <1>4 DEF Failing, Routing, At
  <2>2. GiveUp
    BY <2>1, HarnessPlaces, NobodyLeft DEF Acts
  <2>3. /\ stage' = "idle"
        /\ \E r : /\ replies' = Append(replies, r)
                  /\ r.status = 503 /\ r.attempted = attempted
        /\ UNCHANGED <<results, now, stalled, since, provider>>
    BY <2>2, GiveUpLeaves
  <2>4. \A r : Append(replies, r) = <<r>>
    BY <2>1
  <2>5. (\E r : replies = <<r>> /\ r.status = 503 /\ r.attempted = <<"primary">>)'
    BY <2>1, <2>3, <2>4
  <2>6. Types'
    BY <2>3, TypesKept
  <2> QED BY <2>3, <2>5, <2>6 DEF ExplicitPoint
<1>5. CASE stage = "idle" /\ \E r : replies = <<r>>
  BY <1>5, NothingLeft
<1> QED BY <1>3, <1>4, <1>5 DEF ExplicitPoint

\* Each of the three fails in its turn.
LEMMA OutageRaises ==
  ASSUME Types, Current.registry = Trio, Current.recovery \in Nat,
         NEW p \in Range(Trio), stage = "routing", Target = {p},
         provider[p].mode = "error", Unused(p), Acts
  PROVE  /\ Types' /\ UNCHANGED <<results, now, stalled, stage, replies>>
         /\ attempted' = Append(attempted, p) /\ excluded' = excluded \cup {p}
         /\ provider'[p].mode = "error" /\ provider'[p].calls = 1
         /\ \A o \in Range(Trio) \ {p} : provider'[o] = provider[o]
PROOF
<1>1. p \in Reg /\ Reg = Range(Trio)
  BY DEF Reg
<1>2. Handles
  BY HarnessPlaces DEF Acts
<1>3. RejectOpen(p) \/ Raises(p) \/ Hangs(p) \/ Returns(p)
  BY <1>2, TargetTried
<1>4. Allows(p)
  BY <1>1, Steady, ClosedCircuit DEF Unused, Allows
<1>5. Raises(p)
  BY <1>3, <1>4 DEF RejectOpen, Hangs, Returns, Invoke
<1>6. /\ Touched(p) /\ provider'[p].calls = provider[p].calls + 1
      /\ attempted' = Append(attempted, p) /\ excluded' = excluded \cup {p}
      /\ UNCHANGED <<results, now, stalled, stage, since, replies>>
  BY <1>1, <1>5, RaisesLeaves DEF Unused
<1>7. Types'
  BY <1>6, TypesKept DEF Touched
<1>8. provider'[p].calls = 1
  BY <1>6 DEF Unused
<1> QED BY <1>1, <1>6, <1>7, <1>8 DEF Touched

LEMMA OutageActs ==
  ASSUME Types, Plays(Trio, Recovery), Current.requests = <<AnyModel>>,
         OutagePoint, Acts
  PROVE  Types' /\ OutagePoint' /\ UNCHANGED <<results, now, stalled>>
PROOF
<1>1. Current.registry = Trio /\ Current.recovery \in Nat
  BY MatrixAssumption DEF Plays
<1>2. Range(Trio) = {"first", "second", "third"}
  BY Registries
<1>3. \A p \in Range(Trio) : provider[p].mode = "error"
  BY DEF OutagePoint
<1>4. ASSUME replies = <<>>
      PROVE  /\ Asked = AnyModel /\ ~Asked.healed
             /\ Routing(<<>>, {}) => Target = {"first"}
             /\ Routing(<<"first">>, {"first"}) => Target = {"second"}
             /\ Routing(<<"first", "second">>, {"first", "second"}) =>
                  Target = {"third"}
             /\ Routing(Trio, Range(Trio)) => Target = {}
  BY <1>1, <1>4, AsksFirst, Requests, TrioTargets
<1>5. CASE replies = <<>> /\ stage = "idle" /\ \A p \in Range(Trio) : Unused(p)
  <2>1. /\ Types' /\ Routing(<<>>, {})'
        /\ UNCHANGED <<results, now, stalled, since, provider, replies>>
    BY <1>4, <1>5, IdlePosts
  <2> QED BY <1>3, <1>5, <2>1 DEF OutagePoint, Unused
<1>6. CASE /\ replies = <<>> /\ Routing(<<>>, {})
           /\ \A p \in Range(Trio) : Unused(p)
  <2>1. stage = "routing" /\ attempted = <<>> /\ excluded = {} /\ Target = {"first"}
    BY <1>4, <1>6 DEF Routing, At
  <2>2. /\ Types' /\ UNCHANGED <<results, now, stalled, stage, replies>>
        /\ attempted' = Append(attempted, "first")
        /\ excluded' = excluded \cup {"first"}
        /\ provider'["first"].mode = "error" /\ provider'["first"].calls = 1
        /\ \A o \in Range(Trio) \ {"first"} : provider'[o] = provider[o]
    BY <1>1, <1>2, <1>3, <1>6, <2>1, OutageRaises
  <2>3. Routing(<<"first">>, {"first"})'
    BY <2>1, <2>2 DEF Routing, At
  <2>4. Unused("second")' /\ Unused("third")'
    BY <1>2, <1>6, <2>2 DEF Unused
  <2>5. \A p \in Range(Trio) : provider'[p].mode = "error"
    BY <1>3, <2>2
  <2> QED BY <1>6, <2>2, <2>3, <2>4, <2>5 DEF OutagePoint
<1>7. CASE /\ replies = <<>> /\ Routing(<<"first">>, {"first"})
           /\ provider["first"].calls = 1 /\ Unused("second") /\ Unused("third")
  <2>1. /\ stage = "routing" /\ attempted = <<"first">> /\ excluded = {"first"}
        /\ Target = {"second"}
    BY <1>4, <1>7 DEF Routing, At
  <2>2. /\ Types' /\ UNCHANGED <<results, now, stalled, stage, replies>>
        /\ attempted' = Append(attempted, "second")
        /\ excluded' = excluded \cup {"second"}
        /\ provider'["second"].mode = "error" /\ provider'["second"].calls = 1
        /\ \A o \in Range(Trio) \ {"second"} : provider'[o] = provider[o]
    BY <1>1, <1>2, <1>3, <1>7, <2>1, OutageRaises
  <2>3. Routing(<<"first", "second">>, {"first", "second"})'
    <3>1. attempted' = <<"first", "second">>
      BY <2>1, <2>2, Appending
    <3> QED BY <2>1, <2>2, <3>1 DEF Routing, At
  <2>4. Unused("third")' /\ provider'["first"].calls = 1
    BY <1>2, <1>7, <2>2 DEF Unused
  <2>5. \A p \in Range(Trio) : provider'[p].mode = "error"
    BY <1>3, <2>2
  <2> QED BY <1>7, <2>2, <2>3, <2>4, <2>5 DEF OutagePoint
<1>8. CASE /\ replies = <<>>
           /\ Routing(<<"first", "second">>, {"first", "second"})
           /\ provider["first"].calls = 1 /\ provider["second"].calls = 1
           /\ Unused("third")
  <2>1. /\ stage = "routing" /\ attempted = <<"first", "second">>
        /\ excluded = {"first", "second"} /\ Target = {"third"}
    BY <1>4, <1>8 DEF Routing, At
  <2>2. /\ Types' /\ UNCHANGED <<results, now, stalled, stage, replies>>
        /\ attempted' = Append(attempted, "third")
        /\ excluded' = excluded \cup {"third"}
        /\ provider'["third"].mode = "error" /\ provider'["third"].calls = 1
        /\ \A o \in Range(Trio) \ {"third"} : provider'[o] = provider[o]
    BY <1>1, <1>2, <1>3, <1>8, <2>1, OutageRaises
  <2>3. Routing(Trio, Range(Trio))'
    <3>1. attempted' = Trio
      BY <2>1, <2>2, Appending DEF Trio
    <3> QED BY <1>2, <2>1, <2>2, <3>1 DEF Routing, At
  <2>4. \A p \in Range(Trio) : provider'[p].calls = 1
    BY <1>2, <1>8, <2>2
  <2>5. \A p \in Range(Trio) : provider'[p].mode = "error"
    BY <1>3, <2>2
  <2> QED BY <1>8, <2>2, <2>3, <2>4, <2>5 DEF OutagePoint
<1>9. CASE /\ replies = <<>> /\ Routing(Trio, Range(Trio))
           /\ \A p \in Range(Trio) : provider[p].calls = 1
  <2>1. Target = {} /\ stage = "routing" /\ attempted = Trio
    BY <1>4, <1>9 DEF Routing, At
  <2>2. GiveUp
    BY <2>1, HarnessPlaces, NobodyLeft DEF Acts
  <2>3. /\ stage' = "idle"
        /\ \E r : /\ replies' = Append(replies, r)
                  /\ r.status = 503 /\ r.attempted = attempted
        /\ UNCHANGED <<results, now, stalled, since, provider>>
    BY <2>2, GiveUpLeaves
  <2>4. \A r : Append(replies, r) = <<r>>
    BY <1>9
  <2>5. (\E r : replies = <<r>> /\ r.status = 503 /\ r.attempted = Trio)'
    BY <2>1, <2>3, <2>4 DEF Trio
  <2>6. Types'
    BY <2>3, TypesKept
  <2> QED BY <1>3, <1>9, <2>3, <2>5, <2>6 DEF OutagePoint
<1>10. CASE stage = "idle" /\ \E r : replies = <<r>>
  BY <1>10, NothingLeft
<1> QED BY <1>5, <1>6, <1>7, <1>8, <1>9, <1>10 DEF OutagePoint

-----------------------------------------------------------------------------
(* The clock, and the turn from one scenario to the next                   *)

LEMMA OpenLater ==
  ASSUME Types, "primary" \in Reg, Current.recovery \in Nat,
         UNCHANGED provider, now' = now + 1, Open("primary")
  PROVE  Open("primary")'
PROOF
<1>1. now \in Nat /\ provider["primary"].breaker.openedAt \in Nat
  BY Steady DEF BreakerRecord
<1> QED BY <1>1 DEF Open

LEMMA PointKept ==
  ASSUME MatrixInv, Types', Number' = Number,
         Number \in 1 .. 5 => \A m : FailoverPoint(m) => FailoverPoint(m)',
         Number = 3 /\ IsolationPoint => IsolationPoint',
         Number = 4 /\ RecoveryPoint => RecoveryPoint',
         Number = 5 /\ ExplicitPoint => ExplicitPoint',
         OutagePoint => OutagePoint'
  PROVE  MatrixInv'
PROOF
<1>1. Number \in 1 .. 6 /\ Point(Number)
  BY TheScenario DEF MatrixInv
<1>2. Number = 1 => Point(Number)'
  BY <1>1 DEF Point
<1>3. Number = 2 => Point(Number)'
  BY <1>1 DEF Point
<1>4. Number = 3 => Point(Number)'
  BY <1>1 DEF Point
<1>5. Number = 4 => Point(Number)'
  BY <1>1 DEF Point
<1>6. Number = 5 => Point(Number)'
  BY <1>1 DEF Point
<1>7. Number = 6 => Point(Number)'
  BY <1>1 DEF Point
<1> QED BY <1>1, <1>2, <1>3, <1>4, <1>5, <1>6, <1>7 DEF MatrixInv

\* No scenario depends on when its next step is taken.
LEMMA TickKeeps ==
  ASSUME MatrixInv, Tick
  PROVE  MatrixInv'
PROOF
<1>1. Types /\ Number \in 1 .. 6
  BY TheScenario DEF MatrixInv
<1>2. /\ UNCHANGED <<results, stage, since, provider, attempted, excluded, replies>>
      /\ now' = now + 1
  BY DEF Tick, request
<1>3. Number' = Number /\ Current' = Current
  BY <1>2 DEF Number, Current
<1>4. stalled' \in 0 .. MaxStall /\ now' \in Nat /\ since' \in 0 .. now'
  <2>1. stalled' = stalled \/ (stalled < MaxStall /\ stalled' = stalled + 1)
    BY DEF Tick
  <2>2. stalled \in 0 .. MaxStall /\ now \in Nat /\ since \in 0 .. now
    BY <1>1 DEF Types
  <2> QED BY <1>2, <2>1, <2>2, MatrixAssumption
<1>5. Types'
  BY <1>1, <1>2, <1>3, <1>4 DEF Types
<1>6. ASSUME Number \in 1 .. 5, Open("primary") PROVE Open("primary")'
  <2>1. Current.registry = Pair /\ Current.recovery \in Nat
    BY <1>1, <1>6, TheScenario, MatrixAssumption DEF Plays
  <2> QED BY <1>1, <1>2, <1>6, <2>1, OpenLater, Registries DEF Reg
<1>7. \A m : Number \in 1 .. 5 =>
        /\ Untried(m) => Untried(m)'
        /\ Failing(m) => Failing(m)'
        /\ Hanging => Hanging'
  BY <1>2, <1>6 DEF Untried, Failing, Hanging, Unused, Routing, At
<1>8. ASSUME NEW m, Number \in 1 .. 5, FailoverPoint(m) PROVE FailoverPoint(m)'
  BY <1>2, <1>7, <1>8 DEF FailoverPoint, Sound, FailedOver
<1>9. ASSUME Number = 3, IsolationPoint PROVE IsolationPoint'
  <2>1. stage \in {"idle", "routing"} /\ now = stalled
    BY <1>9 DEF IsolationPoint, Untried, Failing, Routing, At
  <2>2. stalled' = stalled + 1
    BY <2>1 DEF Tick, Sleeping
  <2> QED BY <1>2, <1>6, <1>7, <1>9, <2>1, <2>2
          DEF IsolationPoint, Sound, Routing, At
<1>10. ASSUME Number = 4, RecoveryPoint PROVE RecoveryPoint'
  <2>1. ASSUME now - provider["primary"].breaker.openedAt >= Recovery
        PROVE  now' - provider'["primary"].breaker.openedAt >= Recovery
    <3>1. "primary" \in Reg /\ Current.recovery \in Nat
      BY <1>1, <1>10, TheScenario, Registries, MatrixAssumption DEF Plays, Reg
    <3>2. now \in Nat /\ provider["primary"].breaker.openedAt \in Nat
      BY <1>1, <3>1, Steady DEF BreakerRecord
    <3> QED BY <1>2, <2>1, <3>2, MatrixAssumption
  <2> QED BY <1>2, <1>6, <1>7, <1>10, <2>1 DEF RecoveryPoint, Sound, Routing, At
<1>11. ASSUME Number = 5, ExplicitPoint PROVE ExplicitPoint'
  BY <1>2, <1>7, <1>11 DEF ExplicitPoint
<1>12. ASSUME OutagePoint PROVE OutagePoint'
  BY <1>2, <1>12 DEF OutagePoint, Unused, Routing, At
<1> QED BY <1>1, <1>3, <1>5, <1>8, <1>9, <1>10, <1>11, <1>12, PointKept

LEMMA TheScript ==
  Len(results) \in Nat => Number \in 1 .. 6 /\ Current = Scenarios[Number]
PROOF
<1>1. Len(Scenarios) = 6
  BY DEF Scenarios
<1> QED BY <1>1 DEF Number, Current

\* The verdict is positive.
LEMMA EveryVerdict ==
  ASSUME MatrixInv, stage = "idle", Len(replies) = Len(Current.requests)
  PROVE  Passed
PROOF
<1>1. Types /\ Number \in 1 .. 6 /\ Current = Scenarios[Number]
  BY TheScript DEF MatrixInv, Types
<1>2. /\ Number \in {1, 2, 5, 6} => Len(Current.requests) = 1
      /\ Number \in {3, 4} => Len(Current.requests) = 2
  BY <1>1, TheScenario
<1>3. replies # <<>>
  BY <1>1, <1>2
<1>4. CASE Number \in {1, 2}
  <2>1. Current.name \in {"provider_error_failover", "provider_timeout_failover"}
    BY <1>1, <1>4 DEF Scenarios, Scenario
  <2>2. FailoverPoint("error") \/ FailoverPoint("timeout")
    <3>1. Point(1) \/ Point(2)
      BY <1>4 DEF MatrixInv
    <3> QED BY <3>1 DEF Point
  <2>3. PICK r : replies = <<r>> /\ FailedOver(r)
    BY <1>3, <2>2 DEF FailoverPoint, Untried, Failing, Hanging
  <2>4. Last(replies) = r
    BY <2>3 DEF Last
  <2> QED BY <2>1, <2>3, <2>4 DEF Passed
<1>5. CASE Number = 3
  <2>1. Current.name = "open_circuit_isolation"
    BY <1>1, <1>5 DEF Scenarios, Scenario
  <2>2. IsolationPoint
    BY <1>5 DEF MatrixInv, Point
  <2>3. \A r : replies # <<r>>
    <3>1. Len(replies) = 2 /\ \A r : Len(<<r>>) = 1
      BY <1>2, <1>5
    <3> QED BY <3>1
  <2>4. PICK r, s : /\ replies = <<r, s>> /\ r.status = 200 /\ s.status = 200
                    /\ s.provider = "secondary" /\ Open("primary")
    BY <1>3, <2>2, <2>3 DEF IsolationPoint, Untried, Failing
  <2>5. Last(replies) = s /\ replies[1] = r
    BY <2>4 DEF Last
  <2> QED BY <2>1, <2>4, <2>5 DEF Passed, Open
<1>6. CASE Number = 4
  <2>1. Current.name = "half_open_recovery"
    BY <1>1, <1>6 DEF Scenarios, Scenario
  <2>2. RecoveryPoint
    BY <1>6 DEF MatrixInv, Point
  <2>3. \A r : replies # <<r>>
    <3>1. Len(replies) = 2 /\ \A r : Len(<<r>>) = 1
      BY <1>2, <1>6
    <3> QED BY <3>1
  <2>4. PICK r, s : /\ replies = <<r, s>> /\ r.status = 200 /\ s.status = 200
                    /\ s.provider = "primary"
                    /\ provider["primary"].breaker.state = "closed"
                    /\ provider["primary"].successes = 1
    BY <1>3, <2>2, <2>3 DEF RecoveryPoint, Untried, Failing
  <2>5. Last(replies) = s /\ replies[1] = r
    BY <2>4 DEF Last
  <2> QED BY <2>1, <2>4, <2>5 DEF Passed
<1>7. CASE Number = 5
  <2>1. Current.name = "explicit_model_no_substitution"
    BY <1>1, <1>7 DEF Scenarios, Scenario
  <2>2. ExplicitPoint
    BY <1>7 DEF MatrixInv, Point
  <2>3. PICK r : replies = <<r>> /\ r.status = 503 /\ r.attempted = <<"primary">>
    BY <1>3, <2>2 DEF ExplicitPoint, Untried, Failing
  <2>4. Last(replies) = r
    BY <2>3 DEF Last
  <2>5. provider["secondary"].calls = 0
    BY <2>2 DEF ExplicitPoint
  <2> QED BY <2>1, <2>3, <2>4, <2>5 DEF Passed
<1>8. CASE Number = 6
  <2>1. Current.name = "total_provider_outage"
    BY <1>1, <1>8 DEF Scenarios, Scenario
  <2>2. OutagePoint
    BY <1>8 DEF MatrixInv, Point
  <2>3. PICK r : /\ replies = <<r>> /\ r.status = 503 /\ r.attempted = Trio
                 /\ \A p \in Range(Trio) : provider[p].calls = 1
    BY <1>3, <2>2 DEF OutagePoint
  <2>4. Last(replies) = r
    BY <2>3 DEF Last
  <2> QED BY <2>1, <2>3, <2>4 DEF Passed
<1> QED BY <1>1, <1>4, <1>5, <1>6, <1>7, <1>8

\* A fresh gateway is where every scenario starts.
Fresh ==
  /\ results \in Seq(Success)
  /\ now = 0 /\ stalled = 0 /\ since = 0 /\ stage = "idle"
  /\ provider = Setup(Current) /\ replies = <<>>

LEMMA FreshProviders ==
  ASSUME NEW s, s.recovery \in Nat, s.mode \in {"error", "timeout"}
  PROVE  /\ Setup(s) \in [Range(s.registry) -> Controlled]
         /\ \A p \in Range(s.registry) :
              /\ Setup(s)[p].mode = IF p \in s.failing THEN s.mode ELSE "healthy"
              /\ Setup(s)[p].breaker.state = "closed"
              /\ Setup(s)[p].calls = 0 /\ Setup(s)[p].successes = 0
PROOF
<1>1. /\ Circuit(s.recovery)!InitBreaker \in BreakerRecord
      /\ Circuit(s.recovery)!InitBreaker.state = "closed"
  BY DEF Circuit!InitBreaker, BreakerRecord
<1> QED BY <1>1 DEF Setup, Controlled

LEMMA FreshPoint == Fresh => MatrixInv
PROOF
<1> SUFFICES ASSUME Fresh PROVE MatrixInv
  OBVIOUS
<1>1. Number \in 1 .. 6 /\ Current = Scenarios[Number]
  BY TheScript DEF Fresh
<1>2. Current.recovery \in Nat /\ Current.mode \in {"error", "timeout"}
  BY <1>1, MatrixAssumption DEF Scenarios, Scenario
<1>3. /\ provider \in [Range(Current.registry) -> Controlled]
      /\ \A p \in Range(Current.registry) :
           /\ provider[p].mode = IF p \in Current.failing THEN Current.mode
                                 ELSE "healthy"
           /\ Unused(p)
  BY <1>2, FreshProviders DEF Fresh, Unused
<1>4. Types
  BY <1>3, MatrixAssumption DEF Types, Fresh
<1>5. /\ Number \in {1, 3, 4, 5} =>
           /\ Current.registry = Pair /\ Current.failing = {"primary"}
           /\ Current.mode = "error"
      /\ Number = 2 =>
           /\ Current.registry = Pair /\ Current.failing = {"primary"}
           /\ Current.mode = "timeout"
      /\ Number = 6 =>
           /\ Current.registry = Trio /\ Current.failing = Range(Trio)
           /\ Current.mode = "error"
  BY <1>1 DEF Scenarios, Scenario
<1>6. ASSUME Number # 6
      PROVE  /\ provider["primary"].mode = Current.mode /\ Unused("primary")
             /\ Sound("secondary") /\ Unused("secondary")
  <2>1. Current.registry = Pair /\ Current.failing = {"primary"}
    BY <1>1, <1>5, <1>6
  <2> QED BY <1>3, <2>1, Registries DEF Sound, Unused
<1>7. replies = <<>> /\ stage = "idle" /\ now = stalled
  BY DEF Fresh
<1>8. ASSUME Number # 6 PROVE Untried(Current.mode)
  BY <1>6, <1>7, <1>8 DEF Untried
<1>9. CASE Number = 1
  BY <1>4, <1>5, <1>6, <1>8, <1>9 DEF MatrixInv, Point, FailoverPoint
<1>10. CASE Number = 2
  BY <1>4, <1>5, <1>6, <1>8, <1>10 DEF MatrixInv, Point, FailoverPoint
<1>11. CASE Number = 3
  BY <1>4, <1>5, <1>6, <1>7, <1>8, <1>11 DEF MatrixInv, Point, IsolationPoint
<1>12. CASE Number = 4
  BY <1>4, <1>5, <1>6, <1>8, <1>12 DEF MatrixInv, Point, RecoveryPoint
<1>13. CASE Number = 5
  BY <1>4, <1>5, <1>6, <1>8, <1>13 DEF MatrixInv, Point, ExplicitPoint, Unused
<1>14. CASE Number = 6
  <2>1. \A p \in Range(Trio) : provider[p].mode = "error" /\ Unused(p)
    BY <1>3, <1>5, <1>14
  <2> QED BY <1>4, <1>7, <1>14, <2>1 DEF MatrixInv, Point, OutagePoint
<1> QED BY <1>1, <1>9, <1>10, <1>11, <1>12, <1>13, <1>14

LEMMA ConcludeKeeps ==
  ASSUME MatrixInv, Conclude
  PROVE  MatrixInv'
PROOF
<1>1. results \in Seq(Success) /\ Number \in 1 .. 6 /\ Current = Scenarios[Number]
  BY TheScript DEF MatrixInv, Types
<1>2. Passed
  BY EveryVerdict DEF Conclude
<1>3. [scenario |-> Current.name, passed |-> Passed] \in Success
  BY <1>1, <1>2 DEF Success
<1>4. results' \in Seq(Success)
  BY <1>1, <1>3 DEF Conclude
<1>5. Fresh'
  BY <1>4 DEF Fresh, Conclude
<1>6. Fresh' => MatrixInv'
  BY FreshPoint, PTL
<1> QED BY <1>5, <1>6

LEMMA ActsKeep ==
  ASSUME MatrixInv, Acts
  PROVE  MatrixInv'
PROOF
<1>1. Types /\ Number \in 1 .. 6
  BY TheScenario DEF MatrixInv
<1> DEFINE Still == UNCHANGED <<results, now, stalled>>
<1>2. Still => Number' = Number
  BY DEF Number
<1>3. CASE Number = 1
  <2>1. Types' /\ FailoverPoint("error")' /\ Still
    BY <1>1, <1>3, TheScenario, FailoverActs DEF MatrixInv, Point
  <2> QED BY <1>2, <1>3, <2>1 DEF MatrixInv, Point
<1>4. CASE Number = 2
  <2>1. Types' /\ FailoverPoint("timeout")' /\ Still
    BY <1>1, <1>4, TheScenario, FailoverActs DEF MatrixInv, Point
  <2> QED BY <1>2, <1>4, <2>1 DEF MatrixInv, Point
<1>5. CASE Number = 3
  <2>1. Types' /\ IsolationPoint' /\ Still
    BY <1>1, <1>5, TheScenario, IsolationActs DEF MatrixInv, Point
  <2> QED BY <1>2, <1>5, <2>1 DEF MatrixInv, Point
<1>6. CASE Number = 4
  <2>1. Types' /\ RecoveryPoint' /\ Still
    BY <1>1, <1>6, TheScenario, RecoveryActs DEF MatrixInv, Point
  <2> QED BY <1>2, <1>6, <2>1 DEF MatrixInv, Point
<1>7. CASE Number = 5
  <2>1. Types' /\ ExplicitPoint' /\ Still
    BY <1>1, <1>7, TheScenario, ExplicitActs DEF MatrixInv, Point
  <2> QED BY <1>2, <1>7, <2>1 DEF MatrixInv, Point
<1>8. CASE Number = 6
  <2>1. Types' /\ OutagePoint' /\ Still
    BY <1>1, <1>8, TheScenario, OutageActs DEF MatrixInv, Point
  <2> QED BY <1>2, <1>8, <2>1 DEF MatrixInv, Point
<1> QED BY <1>1, <1>3, <1>4, <1>5, <1>6, <1>7, <1>8

LEMMA MatrixInvariance == Spec => []MatrixInv
PROOF
<1>1. Init => MatrixInv
  <2> SUFFICES ASSUME Init PROVE Fresh
    BY FreshPoint
  <2>1. results \in Seq(Success)
    BY DEF Init
  <2> QED BY <2>1 DEF Init, Fresh
<1>2. MatrixInv /\ [Next]_vars => MatrixInv'
  <2> SUFFICES ASSUME MatrixInv, [Next]_vars PROVE MatrixInv'
    OBVIOUS
  <2>1. CASE Acts
    BY <2>1, ActsKeep
  <2>2. CASE Conclude
    BY <2>2, ConcludeKeeps
  <2>3. CASE Tick
    BY <2>3, TickKeeps
  <2>4. CASE UNCHANGED vars
    <3>1. UNCHANGED <<results, now, stalled, stage, since, provider,
                      attempted, excluded, replies>>
      BY <2>4 DEF vars, clock, request
    <3>2. Number' = Number /\ Current' = Current
      BY <3>1 DEF Number, Current
    <3>3. Types'
      BY <3>1, <3>2 DEF MatrixInv, Types
    <3>4. /\ \A m : FailoverPoint(m) => FailoverPoint(m)'
          /\ IsolationPoint => IsolationPoint'
          /\ RecoveryPoint => RecoveryPoint'
          /\ ExplicitPoint => ExplicitPoint'
          /\ OutagePoint => OutagePoint'
      BY <3>1 DEF FailoverPoint, IsolationPoint, RecoveryPoint, ExplicitPoint,
                  OutagePoint, Untried, Failing, Hanging, Unused, Open, Sound,
                  Routing, At, FailedOver
    <3> QED BY <3>2, <3>3, <3>4, PointKept
  <2> QED BY <2>1, <2>2, <2>3, <2>4 DEF Next, Acts
<1> QED BY <1>1, <1>2, PTL DEF Spec

\* Every scenario of the fault matrix passes in every repetition (run_scenario),
\* for all deadlines, recoveries and sleeps of which the sleep before the probe
\* is at least the recovery, and whatever holds the machine up for less than the
\* long recovery: the verdicts do not depend on the pace of the machine.
THEOREM ScenariosAlwaysPass == Spec => []ScenariosPass
PROOF
<1>1. MatrixInv => ScenariosPass
  <2>1. ASSUME results \in Seq(Success), NEW i \in 1 .. Len(results)
        PROVE  results[i].passed
    <3>1. results[i] \in Success
      BY <2>1
    <3>2. results[i].passed = TRUE
      BY <3>1 DEF Success
    <3> QED BY <3>2
  <2> QED BY <2>1 DEF MatrixInv, Types, ScenariosPass
<1> QED BY <1>1, MatrixInvariance, PTL
=============================================================================
