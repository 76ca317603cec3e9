------------------------ MODULE LoadGeneratorProofs ------------------------
(***************************************************************************)
(* The workers of a load run share its queue without losing or repeating   *)
(* a request, its percentiles are nearest ranks and its report accounts    *)
(* for every answer, for any number of requests, workers, profiles and     *)
(* answers.                                                                *)
(***************************************************************************)
EXTENDS LoadGenerator, FiniteSetTheorems, TLAPS

(***************************************************************************)
(* What holds at every await, broken runs included: every number is        *)
(* queued, being sent or sampled, as many in all as there are requests,    *)
(* and a worker returns only from an empty queue.                          *)
(***************************************************************************)
Sent == {w \in Workers : Busy(w)}

LoadTypes ==
  /\ queue \in Seq(1 .. Count)
  /\ worker \in [Workers -> 0 .. Count + 1]
  /\ samples \in Seq(Responses)
  /\ sampled \in Seq(1 .. Count)

Placed ==
  /\ Range(queue) \cup {worker[w] : w \in Sent} \cup Range(sampled) = 1 .. Count
  /\ Len(queue) + Cardinality(Sent) + Len(sampled) = Count
  /\ Len(samples) = Len(sampled)

ReturnsLast == \A w \in Workers : worker[w] = Returned => queue = <<>>

LoadInv == LoadTypes /\ Placed /\ ReturnsLast

-----------------------------------------------------------------------------
(* Facts about the operators                                               *)

\* There are finitely many workers and there is one.
LEMMA WorkersFinite ==
  Count \in Nat \ {0} /\ IsFiniteSet(Workers) /\ Workers # {}
PROOF
<1>1. Count \in Nat \ {0} /\ Concurrency \in Nat \ {0}
  BY LoadAssumption
<1>2. Min({Concurrency, Count}) \in {Concurrency, Count}
  <2>1. \E m \in {Concurrency, Count} : \A n \in {Concurrency, Count} : m <= n
    BY <1>1
  <2> QED BY <2>1 DEF Min
<1>3. 1 \in Workers
  BY <1>1, <1>2 DEF Workers
<1>4. IsFiniteSet(Workers)
  BY <1>1, <1>2, FS_Interval DEF Workers
<1> QED BY <1>1, <1>3, <1>4

\* What a list holds after its head is taken or an element is added.
LEMMA RangeOfTail ==
  ASSUME NEW S, NEW q \in Seq(S), q # <<>>
  PROVE  /\ Range(q) = {Head(q)} \cup Range(Tail(q))
         /\ Head(q) \in S /\ Tail(q) \in Seq(S)
         /\ Len(Tail(q)) = Len(q) - 1
PROOF
<1>1. /\ Head(q) \in S /\ Tail(q) \in Seq(S) /\ Len(q) \in Nat \ {0}
      /\ Len(Tail(q)) = Len(q) - 1 /\ Head(q) = q[1]
      /\ \A i \in 1 .. Len(q) - 1 : Tail(q)[i] = q[i + 1]
      /\ DOMAIN q = 1 .. Len(q)
  OBVIOUS
<1>2. DOMAIN Tail(q) = 1 .. Len(q) - 1
  BY <1>1
<1>3. ASSUME NEW i \in 1 .. Len(q)
      PROVE  q[i] \in {Head(q)} \cup Range(Tail(q))
  <2>1. CASE i = 1
    BY <2>1, <1>1
  <2>2. CASE i # 1
    <3>1. i - 1 \in 1 .. Len(q) - 1 /\ (i - 1) + 1 = i
      BY <2>2, <1>1
    <3> QED BY <3>1, <1>1, <1>2 DEF Range
  <2> QED BY <2>1, <2>2
<1>4. ASSUME NEW i \in 1 .. Len(q) - 1
      PROVE  Tail(q)[i] \in Range(q)
  <2>1. i + 1 \in 1 .. Len(q)
    BY <1>1
  <2> QED BY <2>1, <1>1 DEF Range
<1>5. Head(q) \in Range(q)
  BY <1>1 DEF Range
<1> QED BY <1>1, <1>2, <1>3, <1>4, <1>5 DEF Range

LEMMA RangeOfAppend ==
  ASSUME NEW S, NEW q \in Seq(S), NEW e \in S
  PROVE  /\ Range(Append(q, e)) = Range(q) \cup {e}
         /\ Append(q, e) \in Seq(S)
         /\ Len(Append(q, e)) = Len(q) + 1
PROOF
<1> DEFINE a == Append(q, e)
<1>1. /\ a \in Seq(S) /\ Len(q) \in Nat /\ Len(a) = Len(q) + 1
      /\ DOMAIN a = 1 .. Len(q) + 1 /\ DOMAIN q = 1 .. Len(q)
      /\ \A i \in 1 .. Len(q) : a[i] = q[i]
      /\ a[Len(q) + 1] = e
  OBVIOUS
<1> HIDE DEF a
<1>2. Range(a) \subseteq Range(q) \cup {e}
  <2>1. ASSUME NEW i \in 1 .. Len(q) + 1
        PROVE  a[i] \in Range(q) \cup {e}
    <3>1. i \in 1 .. Len(q) \/ i = Len(q) + 1
      BY <1>1
    <3> QED BY <3>1, <1>1 DEF Range
  <2> QED BY <2>1, <1>1 DEF Range
<1>3. Range(q) \cup {e} \subseteq Range(a)
  <2>1. ASSUME NEW i \in 1 .. Len(q)
        PROVE  q[i] \in Range(a)
    <3>1. i \in 1 .. Len(q) + 1
      BY <1>1
    <3> QED BY <3>1, <1>1 DEF Range
  <2>2. e \in Range(a)
    <3>1. Len(q) + 1 \in 1 .. Len(q) + 1
      BY <1>1
    <3> QED BY <3>1, <1>1 DEF Range
  <2> QED BY <2>1, <2>2, <1>1 DEF Range
<1> QED BY <1>1, <1>2, <1>3 DEF a

-----------------------------------------------------------------------------
(* A new run                                                               *)

\* A run begins with all requests queued and no worker busy.
Fresh ==
  /\ queue = Numbers
  /\ worker = [w \in Workers |-> New]
  /\ samples = <<>> /\ sampled = <<>>

LEMMA FreshRun == Fresh => LoadInv
PROOF
<1> SUFFICES ASSUME Fresh PROVE LoadInv
  OBVIOUS
<1> USE DEF Fresh
<1>1. Count \in Nat \ {0}
  BY WorkersFinite
<1>2. queue \in Seq(1 .. Count) /\ Len(queue) = Count
  BY <1>1 DEF Numbers
<1>3. Range(queue) = 1 .. Count
  BY <1>1 DEF Numbers, Range
<1>4. Range(sampled) = {} /\ Len(sampled) = 0 /\ Len(samples) = 0
  BY DEF Range
<1>5. Sent = {}
  BY DEF Sent, Busy, New
<1>6. Cardinality(Sent) = 0
  BY <1>5, FS_EmptySet
<1>7. LoadTypes
  BY <1>1, <1>2 DEF LoadTypes, New
<1>8. Placed
  BY <1>1, <1>2, <1>3, <1>4, <1>5, <1>6 DEF Placed
<1>9. ReturnsLast
  BY <1>1 DEF ReturnsLast, New, Returned
<1> QED BY <1>7, <1>8, <1>9 DEF LoadInv

-----------------------------------------------------------------------------
(* A worker takes its next request                                         *)

\* Whatever the worker was doing before, afterwards the queue and the
\* workers hold together what the queue and the other workers held.
LEMMA TakesOne ==
  ASSUME LoadTypes, NEW w \in Workers, TakeFrom(queue, w)
  PROVE  /\ queue' \in Seq(1 .. Count)
         /\ worker' \in [Workers -> 0 .. Count + 1]
         /\ Range(queue)' \cup {worker[v] : v \in Sent}'
              = Range(queue) \cup {worker[v] : v \in Sent \ {w}}
         /\ Len(queue)' + Cardinality(Sent)' = Len(queue) + Cardinality(Sent \ {w})
         /\ (ReturnsLast => ReturnsLast')
PROOF
<1> DEFINE others == Sent \ {w}
<1>1. Count \in Nat \ {0} /\ IsFiniteSet(Workers)
  BY WorkersFinite
<1>2. /\ queue \in Seq(1 .. Count) /\ worker \in [Workers -> 0 .. Count + 1]
  BY DEF LoadTypes
<1>3. IsFiniteSet(others) /\ Cardinality(others) \in Nat /\ w \notin others
  BY <1>1, FS_Subset, FS_CardinalityType DEF Sent
<1>4. CASE queue = <<>>
  <2>1. worker' = [worker EXCEPT ![w] = Returned] /\ queue' = queue
    BY <1>4 DEF TakeFrom
  <2>2. worker' \in [Workers -> 0 .. Count + 1] /\ worker'[w] = Count + 1
    BY <2>1, <1>1, <1>2 DEF Returned
  <2>3. \A v \in Workers : v # w => worker'[v] = worker[v]
    BY <2>1, <1>2
  <2>4. ~Busy(w)'
    BY <2>2, <1>1 DEF Busy
  <2>5. Sent' = others
    BY <2>3, <2>4 DEF Sent, Busy
  <2>6. {worker[v] : v \in Sent}' = {worker[v] : v \in others}
    BY <2>3, <2>5 DEF Sent
  <2>7. ReturnsLast'
    BY <2>1, <1>4 DEF ReturnsLast
  <2> QED BY <2>1, <2>2, <2>5, <2>6, <2>7, <1>2
<1>5. CASE queue # <<>>
  <2>1. worker' = [worker EXCEPT ![w] = Head(queue)] /\ queue' = Tail(queue)
    BY <1>5 DEF TakeFrom
  <2>2. /\ Range(queue) = {Head(queue)} \cup Range(Tail(queue))
        /\ Head(queue) \in 1 .. Count /\ Tail(queue) \in Seq(1 .. Count)
        /\ Len(Tail(queue)) = Len(queue) - 1
    BY <1>2, <1>5, RangeOfTail
  <2>3. worker' \in [Workers -> 0 .. Count + 1] /\ worker'[w] = Head(queue)
    BY <2>1, <2>2, <1>1, <1>2
  <2>4. \A v \in Workers : v # w => worker'[v] = worker[v]
    BY <2>1, <1>2
  <2>5. Busy(w)'
    BY <2>2, <2>3 DEF Busy
  <2>6. Sent' = others \cup {w}
    BY <2>4, <2>5 DEF Sent, Busy
  <2>7. Cardinality(Sent)' = Cardinality(others) + 1
    BY <2>6, <1>3, FS_AddElement
  <2>8. {worker[v] : v \in Sent}' = {worker[v] : v \in others} \cup {Head(queue)}
    BY <2>3, <2>4, <2>6 DEF Sent
  <2>9. Len(queue)' + Cardinality(Sent)' = Len(queue) + Cardinality(others)
    <3>1. Len(queue) \in Nat
      BY <1>2
    <3> QED BY <2>1, <2>2, <2>7, <1>3, <3>1
  <2>10. Range(queue)' = Range(Tail(queue))
    BY <2>1
  <2>11. ASSUME ReturnsLast
         PROVE  ReturnsLast'
    <3>1. \A v \in Workers : worker'[v] # Returned
      BY <2>2, <2>3, <2>4, <2>11, <1>1, <1>5 DEF ReturnsLast, Returned
    <3> QED BY <3>1 DEF ReturnsLast, Returned
  <2> QED BY <2>1, <2>2, <2>3, <2>8, <2>9, <2>10, <2>11
<1> QED BY <1>4, <1>5

-----------------------------------------------------------------------------
(* The invariant                                                           *)

LEMMA BeginPlaces ==
  ASSUME LoadInv, NEW w \in Workers, Begin(w)
  PROVE  LoadInv'
PROOF
<1>1. worker[w] = New /\ TakeFrom(queue, w) /\ UNCHANGED <<samples, sampled>>
  BY DEF Begin
<1>2. Sent \ {w} = Sent
  BY <1>1 DEF Sent, Busy, New
<1>3. LoadTypes /\ Placed /\ ReturnsLast
  BY DEF LoadInv
<1>4. /\ queue' \in Seq(1 .. Count)
      /\ worker' \in [Workers -> 0 .. Count + 1]
      /\ Range(queue)' \cup {worker[v] : v \in Sent}'
           = Range(queue) \cup {worker[v] : v \in Sent}
      /\ Len(queue)' + Cardinality(Sent)' = Len(queue) + Cardinality(Sent)
      /\ ReturnsLast'
  <2>1. /\ queue' \in Seq(1 .. Count)
        /\ worker' \in [Workers -> 0 .. Count + 1]
        /\ Range(queue)' \cup {worker[v] : v \in Sent}'
             = Range(queue) \cup {worker[v] : v \in Sent \ {w}}
        /\ Len(queue)' + Cardinality(Sent)' = Len(queue) + Cardinality(Sent \ {w})
        /\ (ReturnsLast => ReturnsLast')
    <3>1. TakeFrom(queue, w) /\ LoadTypes
      BY <1>1, <1>3
    <3> QED BY <3>1, TakesOne
  <2> QED BY <2>1, <1>2, <1>3
<1>5. LoadTypes'
  BY <1>1, <1>3, <1>4 DEF LoadTypes
<1>6. Placed'
  <2>1. sampled' = sampled /\ samples' = samples
    BY <1>1
  <2>2. Range(sampled)' = Range(sampled)
    BY <2>1
  <2> QED BY <1>3, <1>4, <2>1, <2>2 DEF Placed
<1> QED BY <1>4, <1>5, <1>6 DEF LoadInv

LEMMA RespondPlaces ==
  ASSUME LoadInv, NEW w \in Workers, NEW s \in Responses, Respond(w, s)
  PROVE  LoadInv'
PROOF
<1> DEFINE others == Sent \ {w}
<1>1. /\ worker[w] \in 1 .. Count /\ TakeFrom(queue, w)
      /\ samples' = Append(samples, s) /\ sampled' = Append(sampled, worker[w])
  BY DEF Respond, Busy, Sample
<1>2. LoadTypes /\ Placed /\ ReturnsLast
  BY DEF LoadInv
<1>0. /\ sampled \in Seq(1 .. Count) /\ samples \in Seq(Responses)
      /\ Len(sampled) \in Nat /\ Len(queue) \in Nat
  BY <1>2 DEF LoadTypes
<1>3. /\ queue' \in Seq(1 .. Count)
      /\ worker' \in [Workers -> 0 .. Count + 1]
      /\ Range(queue)' \cup {worker[v] : v \in Sent}'
           = Range(queue) \cup {worker[v] : v \in others}
      /\ Len(queue)' + Cardinality(Sent)' = Len(queue) + Cardinality(others)
      /\ ReturnsLast'
  <2>1. TakeFrom(queue, w)
    BY <1>1
  <2> QED BY <2>1, <1>2, TakesOne
<1>4. /\ Range(sampled)' = Range(sampled) \cup {worker[w]}
      /\ sampled' \in Seq(1 .. Count) /\ Len(sampled)' = Len(sampled) + 1
  <2>1. /\ Range(Append(sampled, worker[w])) = Range(sampled) \cup {worker[w]}
        /\ Append(sampled, worker[w]) \in Seq(1 .. Count)
        /\ Len(Append(sampled, worker[w])) = Len(sampled) + 1
    BY <1>0, <1>1, RangeOfAppend
  <2> QED BY <2>1, <1>1
<1>5. samples' \in Seq(Responses) /\ Len(samples)' = Len(samples) + 1
  BY <1>1, <1>2 DEF LoadTypes
<1>6. LoadTypes'
  BY <1>3, <1>4, <1>5 DEF LoadTypes
<1>7. w \in Sent /\ Sent = others \cup {w} /\ w \notin others
  BY <1>1 DEF Sent, Busy
<1>8. /\ Cardinality(Sent) = Cardinality(others) + 1
      /\ Cardinality(others) \in Nat
  <2>1. IsFiniteSet(others)
    BY WorkersFinite, FS_Subset DEF Sent
  <2> QED BY <2>1, <1>7, FS_AddElement, FS_CardinalityType
<1>9. {worker[v] : v \in Sent} = {worker[v] : v \in others} \cup {worker[w]}
  BY <1>7
<1>10. Placed'
  <2>1. Range(queue)' \cup {worker[v] : v \in Sent}' \cup Range(sampled)' = 1 .. Count
    BY <1>2, <1>3, <1>4, <1>9 DEF Placed
  <2>2. Len(queue)' + Cardinality(Sent)' + Len(sampled)' = Count
    <3>1. Len(queue) + Cardinality(Sent) + Len(sampled) = Count
      BY <1>2 DEF Placed
    <3> DEFINE left == Len(queue)' + Cardinality(Sent)'
               done == Len(sampled)'
    <3>2. left = Len(queue) + Cardinality(others) /\ done = Len(sampled) + 1
      BY <1>3, <1>4
    <3> HIDE DEF left, done
    <3>3. left + done = Count
      BY <3>1, <3>2, <1>0, <1>8
    <3> QED BY <3>3 DEF left, done
  <2>3. Len(samples)' = Len(sampled)'
    BY <1>2, <1>4, <1>5 DEF Placed
  <2>4. Count' = Count
    OBVIOUS
  <2> QED BY <2>1, <2>2, <2>3 DEF Placed
<1> QED BY <1>3, <1>6, <1>10 DEF LoadInv

\* The places of the requests, inductive by itself: also a run that breaks
\* leaves every request where it was.
THEOREM LoadInvariance == Spec => []LoadInv
PROOF
<1>1. Init => LoadInv
  BY FreshRun DEF Init, Fresh
<1>2. LoadInv /\ [Next]_vars => LoadInv'
  <2> SUFFICES ASSUME LoadInv, [Next]_vars PROVE LoadInv'
    OBVIOUS
  <2>1. ASSUME UNCHANGED <<queue, worker, samples, sampled>>
        PROVE  LoadInv'
    BY <2>1 DEF LoadInv, LoadTypes, Placed, ReturnsLast, Sent, Busy
  <2>2. ASSUME FinishRun
        PROVE  LoadInv'
    <3>1. UNCHANGED <<queue, worker, samples, sampled>> \/ Fresh'
      BY <2>2 DEF FinishRun, Fresh, Numbers, Workers, New
    <3>2. Fresh' => LoadInv'
      BY FreshRun, PTL
    <3> QED BY <2>1, <3>1, <3>2
  <2>3. ASSUME NEW w \in Workers, Works(w)
        PROVE  LoadInv'
    <3>1. CASE Begin(w)
      BY <3>1, BeginPlaces
    <3>2. CASE Break(w)
      BY <3>2, <2>1 DEF Break
    <3>3. ASSUME NEW s \in Responses, Respond(w, s)
          PROVE  LoadInv'
      BY <3>3, RespondPlaces
    <3> QED BY <2>3, <3>1, <3>2, <3>3 DEF Works
  <2>4. CASE GiveUp \/ UNCHANGED vars
    BY <2>1, <2>4 DEF GiveUp, vars
  <2> QED BY <2>2, <2>3, <2>4 DEF Next
<1> QED BY <1>1, <1>2, PTL DEF Spec

\* EveryRequestOnce (run_load): no interleaving of the workers loses a
\* request or sends it twice.
THEOREM RequestsAreSentOnce == Spec => []EveryRequestOnce
PROOF
<1>1. LoadInv => EveryRequestOnce
  <2> SUFFICES ASSUME LoadInv PROVE EveryRequestOnce
    OBVIOUS
  <2>1. Range(Numbers) = 1 .. Count
    BY WorkersFinite DEF Numbers, Range
  <2> QED BY <2>1 DEF LoadInv, Placed, EveryRequestOnce, Sent
<1> QED BY <1>1, LoadInvariance, PTL

\* When gather returns, the samples of the run are of all its requests, and
\* no two are of the same one: what Summarize is given is complete.
RunComplete ==
  (\A w \in Workers : worker[w] = Returned) =>
    /\ Len(samples) = Count
    /\ Range(sampled) = 1 .. Count
    /\ \A i, j \in 1 .. Count : sampled[i] = sampled[j] => i = j

\* It follows from the places alone.
LEMMA CompleteRuns == LoadInv => RunComplete
PROOF
<1> SUFFICES ASSUME LoadInv, \A w \in Workers : worker[w] = Returned
             PROVE  /\ Len(samples) = Count
                    /\ Range(sampled) = 1 .. Count
                    /\ \A i, j \in 1 .. Count : sampled[i] = sampled[j] => i = j
  BY DEF RunComplete
<1>1. Count \in Nat \ {0}
  BY WorkersFinite
<1>2. Sent = {} /\ Cardinality(Sent) = 0
  <2>1. \A w \in Workers : ~Busy(w)
    BY <1>1 DEF Busy, Returned
  <2>2. Sent = {}
    BY <2>1 DEF Sent
  <2> QED BY <2>2, FS_EmptySet
<1>3. Workers # {}
  BY WorkersFinite
<1>4. queue = <<>>
  BY <1>3 DEF LoadInv, ReturnsLast
<1>5. Range(queue) = {} /\ Len(queue) = 0
  BY <1>4 DEF Range
<1>6. Len(sampled) = Count /\ Len(samples) = Count /\ Range(sampled) = 1 .. Count
  <2>1. Len(sampled) \in Nat
    BY DEF LoadInv, LoadTypes
  <2>2. /\ Range(queue) \cup {worker[w] : w \in Sent} \cup Range(sampled) = 1 .. Count
        /\ Len(queue) + Cardinality(Sent) + Len(sampled) = Count
        /\ Len(samples) = Len(sampled)
    BY DEF LoadInv, Placed
  <2>3. {worker[w] : w \in Sent} = {}
    BY <1>2
  <2>4. Range(sampled) = 1 .. Count
    BY <1>5, <2>2, <2>3
  <2> QED BY <1>1, <1>2, <1>5, <2>1, <2>2, <2>4
<1>7. \A i, j \in 1 .. Count : sampled[i] = sampled[j] => i = j
  <2>1. sampled \in [1 .. Count -> 1 .. Count]
    BY <1>6 DEF LoadInv, LoadTypes
  <2>2. IsFiniteSet(1 .. Count)
    BY <1>1, FS_Interval
  <2>3. sampled \in Surjection(1 .. Count, 1 .. Count)
    BY <1>6, <2>1 DEF Range, Surjection
  <2>4. sampled \in Injection(1 .. Count, 1 .. Count)
    <3> DEFINE S == 1 .. Count
    <3>1. IsFiniteSet(S) /\ sampled \in Surjection(S, S) /\ Cardinality(S) = Cardinality(S)
      BY <2>2, <2>3
    <3> HIDE DEF S
    <3>2. sampled \in Injection(S, S)
      BY <3>1, FS_SurjSameCardinalityImpliesInj
    <3> QED BY <3>2 DEF S
  <2> QED BY <2>1, <2>4 DEF Injection, IsInjective
<1> QED BY <1>6, <1>7

\* RunComplete (run_load) holds of every run, however its workers interleave.
THEOREM RunsAreComplete == Spec => []RunComplete
PROOF
<1> QED BY CompleteRuns, LoadInvariance, PTL
-----------------------------------------------------------------------------
(***************************************************************************)
(* Percentiles.  sorted() finds an order: the place of a value in it is    *)
(* how many come no later, where equal values come as they were listed.    *)
(***************************************************************************)
Quantiles == {50, 95, 99}

\* The rank is rounded up, and is the rank of some value.
LEMMA RankBounds ==
  ASSUME NEW n \in Nat \ {0}, NEW quantile \in Quantiles
  PROVE  /\ Rank(n, quantile) \in 1 .. n
         /\ 100 * Rank(n, quantile) >= quantile * n
         /\ 100 * (Rank(n, quantile) - 1) < quantile * n
PROOF
<1> DEFINE r == (quantile * n + 99) \div 100
<1>1. r \in 1 .. n /\ 100 * r >= quantile * n /\ 100 * (r - 1) < quantile * n
  <2>1. CASE quantile = 50
    BY <2>1
  <2>2. CASE quantile = 95
    BY <2>2
  <2>3. CASE quantile = 99
    BY <2>3
  <2> QED BY <2>1, <2>2, <2>3 DEF Quantiles
<1>2. Rank(n, quantile) = r
  <2>1. Rank(n, quantile) = Max({1, r})
    BY DEF Rank
  <2> HIDE DEF r
  <2>2. r \in Nat /\ r >= 1
    BY <1>1
  <2>3. Max({1, r}) = r
    BY <2>2 DEF Max
  <2> QED BY <2>1, <2>3
<1> HIDE DEF r
<1> QED BY <1>1, <1>2

\* A list of numbers, at positions that are numbers.
Listed(D, v) == D \subseteq Nat /\ IsFiniteSet(D) /\ v \in [D -> Nat]

Sorts(o, D, v) ==
  \A i, j \in 1 .. Cardinality(D) :
    i < j => o[i] # o[j] /\ v[o[i]] <= v[o[j]]

\* v[i] comes no later than v[j].
Ahead(v, i, j) == v[i] < v[j] \/ (v[i] = v[j] /\ i <= j)

LEMMA OrderExists ==
  ASSUME NEW D, NEW v, Listed(D, v)
  PROVE  \E o \in [1 .. Cardinality(D) -> D] : Sorts(o, D, v)
PROOF
<1> DEFINE n == Cardinality(D)
           upto(j) == {i \in D : Ahead(v, i, j)}
           place == [j \in D |-> Cardinality(upto(j))]
           o == [k \in 1 .. n |-> CHOOSE i \in D : place[i] = k]
<1>1. n \in Nat /\ D \subseteq Nat /\ \A i \in D : v[i] \in Nat
  BY FS_CardinalityType DEF Listed
<1>2. ASSUME NEW j \in D
      PROVE  /\ IsFiniteSet(upto(j)) /\ Cardinality(upto(j)) \in 1 .. n
  <2>1. upto(j) \in SUBSET D /\ j \in upto(j)
    BY <1>1 DEF Ahead
  <2>2. IsFiniteSet(D)
    BY DEF Listed
  <2> HIDE DEF upto
  <2>3. IsFiniteSet(upto(j)) /\ Cardinality(upto(j)) <= n
    BY <2>1, <2>2, FS_Subset
  <2>4. Cardinality(upto(j)) \in Nat /\ Cardinality(upto(j)) # 0
    BY <2>1, <2>3, FS_CardinalityType, FS_EmptySet
  <2> QED BY <1>1, <2>3, <2>4
<1>3. ASSUME NEW i \in D, NEW j \in D, i # j, Ahead(v, i, j)
      PROVE  Cardinality(upto(i)) < Cardinality(upto(j))
  <2>1. upto(i) \subseteq upto(j) /\ j \in upto(j) /\ j \notin upto(i)
    <3>1. \A x \in D : Ahead(v, x, i) => Ahead(v, x, j)
      BY <1>1, <1>3 DEF Ahead
    <3>2. Ahead(v, j, j) /\ ~Ahead(v, j, i)
      BY <1>1, <1>3 DEF Ahead
    <3> QED BY <3>1, <3>2
  <2>2. IsFiniteSet(upto(j)) /\ Cardinality(upto(j)) \in Nat
        /\ Cardinality(upto(i)) \in Nat
    BY <1>2
  <2> HIDE DEF upto
  <2>3. upto(i) \in SUBSET upto(j) /\ upto(i) # upto(j)
    BY <2>1
  <2>4. /\ Cardinality(upto(i)) <= Cardinality(upto(j))
        /\ Cardinality(upto(j)) = Cardinality(upto(i)) => upto(j) = upto(i)
    BY <2>2, <2>3, FS_Subset
  <2> QED BY <2>2, <2>3, <2>4
<1> HIDE DEF upto
<1>4. place \in [D -> 1 .. n] /\ \A i \in D : place[i] \in Nat
  BY <1>2
<1>5. \A i, j \in D : i # j /\ Ahead(v, i, j) => place[i] < place[j]
  BY <1>3
<1> HIDE DEF place
<1>6. \A i, j \in D : Ahead(v, i, j) \/ Ahead(v, j, i)
  BY <1>1 DEF Ahead
<1>7. place \in Injection(D, 1 .. n)
  <2>1. \A i, j \in D : place[i] = place[j] => i = j
    BY <1>4, <1>5, <1>6
  <2> QED BY <1>4, <2>1 DEF Injection, IsInjective
<1>8. place \in Surjection(D, 1 .. n)
  <2>1. IsFiniteSet(1 .. n) /\ Cardinality(1 .. n) = n
    BY <1>1, FS_Interval
  <2> QED BY <1>7, <2>1, FS_Injection
<1>9. \A k \in 1 .. n : o[k] \in D /\ place[o[k]] = k
  BY <1>8 DEF Surjection
<1>10. o \in [1 .. n -> D]
  BY <1>9
<1> HIDE DEF o
<1>11. ASSUME NEW i \in 1 .. n, NEW j \in 1 .. n, i < j
       PROVE  o[i] # o[j] /\ v[o[i]] <= v[o[j]]
  <2>1. /\ o[i] \in D /\ o[j] \in D /\ place[o[i]] = i /\ place[o[j]] = j
    BY <1>9
  <2>2. o[i] # o[j]
    BY <1>1, <1>11, <2>1
  <2>3. ~Ahead(v, o[j], o[i])
    <3>1. ~(place[o[j]] < place[o[i]])
      <4>1. i \in Int /\ j \in Int
        BY <1>1
      <4> QED BY <1>11, <2>1, <4>1
    <3> QED BY <1>5, <2>1, <2>2, <3>1
  <2>4. v[o[i]] \in Nat /\ v[o[j]] \in Nat /\ Ahead(v, o[i], o[j])
    BY <1>1, <1>6, <2>1, <2>3
  <2> QED BY <2>2, <2>4 DEF Ahead
<1>12. Sorts(o, D, v)
  BY <1>11 DEF Sorts
<1> QED BY <1>10, <1>12

\* The order that Percentile uses puts every value somewhere.
LEMMA OrderSorts ==
  ASSUME NEW D, NEW v, Listed(D, v)
  PROVE  /\ Order(v) \in [1 .. Cardinality(D) -> D]
         /\ Sorts(Order(v), D, v)
         /\ \A x \in D : \E i \in 1 .. Cardinality(D) : Order(v)[i] = x
PROOF
<1> DEFINE n == Cardinality(D)
<1>1. DOMAIN v = D /\ n \in Nat /\ IsFiniteSet(D)
  BY FS_CardinalityType DEF Listed
<1>2. Order(v) = CHOOSE o \in [1 .. n -> D] : Sorts(o, D, v)
  <2>1. Order(v) = CHOOSE o \in [1 .. n -> D] :
                     \A i, j \in DOMAIN o :
                       i < j => o[i] # o[j] /\ v[o[i]] <= v[o[j]]
    BY <1>1 DEF Order
  <2>2. \A o \in [1 .. n -> D] :
          (\A i, j \in DOMAIN o : i < j => o[i] # o[j] /\ v[o[i]] <= v[o[j]])
            <=> Sorts(o, D, v)
    BY DEF Sorts
  <2> QED BY <2>1, <2>2
<1>3. Order(v) \in [1 .. n -> D] /\ Sorts(Order(v), D, v)
  BY <1>2, OrderExists
<1>4. Order(v) \in Injection(1 .. n, D)
  <2> DEFINE o == Order(v)
  <2>1. o \in [1 .. n -> D] /\ Sorts(o, D, v)
    BY <1>3
  <2> HIDE DEF o
  <2>2. \A i, j \in 1 .. n : o[i] = o[j] => i = j
    <3> SUFFICES ASSUME NEW i \in 1 .. n, NEW j \in 1 .. n, o[i] = o[j], i # j
                 PROVE  FALSE
      OBVIOUS
    <3>1. i < j \/ j < i
      BY <1>1
    <3> QED BY <2>1, <3>1 DEF Sorts
  <2>3. o \in Injection(1 .. n, D)
    BY <2>1, <2>2 DEF Injection, IsInjective
  <2> QED BY <2>3 DEF o
<1>5. IsFiniteSet(1 .. n) /\ Cardinality(1 .. n) = n
  BY <1>1, FS_Interval
<1>6. Order(v) \in Surjection(1 .. n, D)
  BY <1>1, <1>4, <1>5, FS_Injection
<1> QED BY <1>3, <1>6 DEF Surjection

\* A percentile is one of the values; that share of them is not above it, and
\* less is below.
LEMMA PercentileIsNearest ==
  ASSUME NEW D, NEW v, Listed(D, v), D # {}, NEW quantile \in Quantiles,
         NEW value, value = Percentile(v, quantile)
  PROVE  /\ value \in Range(v)
         /\ 100 * Cardinality({i \in D : v[i] <= value}) >= quantile * Cardinality(D)
         /\ 100 * Cardinality({i \in D : v[i] < value}) < quantile * Cardinality(D)
PROOF
<1> DEFINE n == Cardinality(D)
           k == Rank(n, quantile)
           o == Order(v)
           A == {i \in D : v[i] <= value}
           B == {i \in D : v[i] < value}
<1>1. /\ n \in Nat \ {0} /\ IsFiniteSet(D) /\ DOMAIN v = D
      /\ \A i \in D : v[i] \in Nat
  BY FS_CardinalityType, FS_EmptySet DEF Listed
<1>2. k \in 1 .. n /\ 100 * k >= quantile * n /\ 100 * (k - 1) < quantile * n
  <2> HIDE DEF n
  <2>1. n \in Nat \ {0}
    BY <1>1
  <2> QED BY <2>1, RankBounds, Zenon
<1>3. /\ o \in [1 .. n -> D] /\ Sorts(o, D, v)
      /\ \A x \in D : \E i \in 1 .. n : o[i] = x
  BY OrderSorts
<1>4. value = v[o[k]]
  BY <1>1 DEF Percentile
<1> HIDE DEF k, o
<1>5. o[k] \in D /\ value \in Nat /\ value \in Range(v)
  BY <1>1, <1>2, <1>3, <1>4 DEF Range
<1>6. /\ IsFiniteSet(A) /\ Cardinality(A) \in Nat
      /\ IsFiniteSet(B) /\ Cardinality(B) \in Nat
  <2>1. A \in SUBSET D /\ B \in SUBSET D
    OBVIOUS
  <2> QED BY <1>1, <2>1, FS_Subset, FS_CardinalityType
<1>7. k <= Cardinality(A)
  <2> DEFINE g == [i \in 1 .. k |-> o[i]]
  <2>1. ASSUME NEW i \in 1 .. k
        PROVE  o[i] \in A /\ i \in 1 .. n
    <3>1. i \in 1 .. n /\ (i = k \/ i < k)
      BY <1>1, <1>2
    <3>2. o[i] \in D /\ v[o[i]] <= v[o[k]]
      BY <1>1, <1>2, <1>3, <1>5, <3>1 DEF Sorts
    <3> QED BY <1>4, <3>1, <3>2
  <2> HIDE DEF A
  <2>2. \A i, j \in 1 .. k : o[i] = o[j] => i = j
    <3> SUFFICES ASSUME NEW i \in 1 .. k, NEW j \in 1 .. k, o[i] = o[j], i # j
                 PROVE  FALSE
      OBVIOUS
    <3>1. i \in 1 .. n /\ j \in 1 .. n /\ (i < j \/ j < i)
      BY <2>1
    <3> QED BY <1>3, <3>1 DEF Sorts
  <2>3. g \in Injection(1 .. k, A)
    BY <2>1, <2>2 DEF Injection, IsInjective
  <2>4. Cardinality(1 .. k) = k
    BY <1>2, FS_Interval
  <2> HIDE DEF g
  <2> QED BY <1>6, <2>3, <2>4, FS_Injection
<1>8. Cardinality(B) <= k - 1
  <2> DEFINE h == [x \in B |-> CHOOSE m \in 1 .. n : o[m] = x]
  <2>1. ASSUME NEW x \in B
        PROVE  h[x] \in 1 .. k - 1 /\ o[h[x]] = x
    <3>1. h[x] \in 1 .. n /\ o[h[x]] = x
      BY <1>3
    <3>2. v[x] < v[o[k]] /\ v[x] \in Nat /\ v[o[k]] \in Nat
      BY <1>1, <1>4, <1>5
    <3> HIDE DEF h
    <3>3. h[x] < k
      <4>1. h[x] # k
        BY <1>1, <3>1, <3>2
      <4>2. ~(k < h[x])
        BY <1>2, <1>3, <3>1, <3>2 DEF Sorts
      <4> QED BY <1>2, <3>1, <4>1, <4>2
    <3> QED BY <1>2, <3>1, <3>3
  <2>2. h \in [B -> 1 .. k - 1]
    BY <2>1
  <2> HIDE DEF h, B
  <2>3. h \in Injection(B, 1 .. k - 1)
    BY <2>1, <2>2 DEF Injection, IsInjective
  <2>4. IsFiniteSet(1 .. k - 1) /\ Cardinality(1 .. k - 1) = k - 1
    <3>1. k - 1 \in Int /\ 1 \in Int /\ k \in Nat /\ k >= 1
      BY <1>2
    <3>2. IsFiniteSet(1 .. k - 1)
          /\ Cardinality(1 .. k - 1) = IF 1 > k - 1 THEN 0 ELSE (k - 1) - 1 + 1
      BY <3>1, FS_Interval
    <3> QED BY <3>1, <3>2
  <2> QED BY <2>3, <2>4, FS_Injection
<1> DEFINE a == Cardinality(A)
           b == Cardinality(B)
<1>9. a \in Nat /\ b \in Nat /\ k <= a /\ b <= k - 1 /\ k \in Nat /\ n \in Nat
  BY <1>1, <1>2, <1>6, <1>7, <1>8
<1> HIDE DEF a, b, n
<1>10. 100 * a >= quantile * n /\ 100 * b < quantile * n
  <2>1. quantile * n \in Nat
    BY <1>9 DEF Quantiles
  <2> DEFINE share == quantile * n
  <2> HIDE DEF share
  <2>2. share \in Nat /\ 100 * k >= share /\ 100 * (k - 1) < share
    BY <1>2, <2>1 DEF share
  <2>3. 100 * a >= share /\ 100 * b < share
    BY <1>9, <2>2
  <2> QED BY <2>3 DEF share
<1> QED BY <1>5, <1>10 DEF a, b, n

\* NearestRank (percentile): for every list of samples and not only short ones,
\* p50, p95 and p99 are nearest ranks.
THEOREM PercentilesAreNearest == Spec => []NearestRank
PROOF
<1>1. LoadInv => NearestRank
  <2> SUFFICES ASSUME LoadInv PROVE NearestRank
    OBVIOUS
  <2> DEFINE ok == Successes(samples)
             values == Latencies(samples)
  <2>1. Listed(ok, values)
    <3>1. samples \in Seq(Responses)
      BY DEF LoadInv, LoadTypes
    <3>2. ok \in SUBSET (1 .. Len(samples)) /\ Len(samples) \in Nat
      BY <3>1 DEF Successes
    <3>3. IsFiniteSet(1 .. Len(samples))
      BY <3>2, FS_Interval
    <3>4. IsFiniteSet(ok)
      BY <3>2, <3>3, FS_Subset
    <3>5. \A i \in ok : samples[i] \in Responses
      BY <3>1, <3>2
    <3>6. values \in [ok -> Nat]
      BY <3>5, LoadAssumption DEF Latencies
    <3> QED BY <3>2, <3>4, <3>6 DEF Listed
  <2> HIDE DEF ok, values
  <2>2. ASSUME ok # {}, NEW quantile \in Quantiles, NEW value,
               value = Percentile(values, quantile)
        PROVE  /\ value \in Range(values)
               /\ 100 * Cardinality({i \in ok : values[i] <= value})
                    >= quantile * Cardinality(ok)
               /\ 100 * Cardinality({i \in ok : values[i] < value})
                    < quantile * Cardinality(ok)
    BY <2>1, <2>2, PercentileIsNearest
  <2> QED BY <2>2 DEF NearestRank, Quantiles, ok, values
<1> QED BY <1>1, LoadInvariance, PTL
-----------------------------------------------------------------------------
(***************************************************************************)
(* Sums.  Total counts the units of a function, so that what it adds up to *)
(* changes as the size of a set does.                                      *)
(***************************************************************************)
Units(f) == UNION {{x} \X (1 .. f[x]) : x \in DOMAIN f}

LEMMA TotalTyped ==
  ASSUME NEW S, IsFiniteSet(S), NEW f \in [S -> Nat]
  PROVE  /\ IsFiniteSet(Units(f)) /\ Total(f) \in Nat
         /\ Total(f) = Cardinality(Units(f))
         /\ Units(f) = UNION {{x} \X (1 .. f[x]) : x \in S}
         /\ \A u : u \in Units(f) <=> \E x \in S : u \in {x} \X (1 .. f[x])
PROOF
<1> DEFINE g == [x \in S |-> {x} \X (1 .. f[x])]
           T == {g[x] : x \in S}
<1>1. g \in Surjection(S, T)
  BY DEF Surjection
<1>2. \A U \in T : IsFiniteSet(U)
  <2> SUFFICES ASSUME NEW x \in S PROVE IsFiniteSet({x} \X (1 .. f[x]))
    OBVIOUS
  <2>1. IsFiniteSet({x})
    BY FS_Singleton
  <2>2. IsFiniteSet(1 .. f[x])
    <3>1. f[x] \in Int /\ 1 \in Int
      OBVIOUS
    <3> QED BY <3>1, FS_Interval
  <2> QED BY <2>1, <2>2, FS_Product
<1>3. Units(f) = UNION T /\ Units(f) = UNION {{x} \X (1 .. f[x]) : x \in S}
  BY DEF Units
<1> HIDE DEF g, T
<1>4. IsFiniteSet(T)
  BY <1>1, FS_Surjection
<1>5. IsFiniteSet(Units(f))
  BY <1>2, <1>3, <1>4, FS_UNION
<1>6. Total(f) = Cardinality(Units(f))
  BY DEF Total, Units
<1>7. \A u : u \in Units(f) <=> \E x \in S : u \in {x} \X (1 .. f[x])
  BY <1>3
<1> QED BY <1>3, <1>5, <1>6, <1>7, FS_CardinalityType

\* One value is raised, or added.
Grown(S, f, x, g, d) ==
  /\ IsFiniteSet(S) /\ f \in [S -> Nat] /\ g \in [S \cup {x} -> Nat] /\ d \in Nat
  /\ g[x] = (IF x \in S THEN f[x] ELSE 0) + d
  /\ \A y \in S \ {x} : g[y] = f[y]

LEMMA TotalGrows ==
  ASSUME NEW S, NEW f, NEW x, NEW g, NEW d, Grown(S, f, x, g, d)
  PROVE  Total(g) = Total(f) + d
PROOF
<1> DEFINE a == IF x \in S THEN f[x] ELSE 0
<1>0. /\ IsFiniteSet(S) /\ f \in [S -> Nat] /\ g \in [S \cup {x} -> Nat]
      /\ a \in Nat /\ d \in Nat /\ g[x] = a + d
      /\ (x \in S => a = f[x]) /\ (x \notin S => a = 0)
      /\ \A y \in S \ {x} : g[y] = f[y]
  BY DEF Grown
<1> HIDE DEF a
<1> USE <1>0
<1> DEFINE T == S \cup {x}
           old == Units(f)
           new == {x} \X (a + 1 .. a + d)
<1>1. IsFiniteSet(T)
  BY FS_AddElement
<1>2. /\ IsFiniteSet(old) /\ Cardinality(old) \in Nat /\ Total(f) = Cardinality(old)
      /\ Total(g) = Cardinality(Units(g))
  BY <1>1, TotalTyped
<1>3. IsFiniteSet(new) /\ Cardinality(new) = d
  <2>1. IsFiniteSet({x}) /\ Cardinality({x}) = 1
    BY FS_Singleton
  <2>2. IsFiniteSet(a + 1 .. a + d) /\ Cardinality(a + 1 .. a + d) = d
    <3>1. a + 1 \in Int /\ a + d \in Int
      OBVIOUS
    <3>2. /\ IsFiniteSet(a + 1 .. a + d)
          /\ Cardinality(a + 1 .. a + d)
               = IF a + 1 > a + d THEN 0 ELSE (a + d) - (a + 1) + 1
      BY <3>1, FS_Interval
    <3> QED BY <3>2
  <2> DEFINE I == a + 1 .. a + d
             J == {x}
  <2> HIDE DEF I, J
  <2>3. IsFiniteSet(J \X I) /\ Cardinality(J \X I) = Cardinality(J) * Cardinality(I)
    BY <2>1, <2>2, FS_Product DEF I, J
  <2>4. Cardinality(J) = 1 /\ Cardinality(I) = d
    BY <2>1, <2>2 DEF I, J
  <2>5. IsFiniteSet(J \X I) /\ Cardinality(J \X I) = d
    BY <2>3, <2>4
  <2> QED BY <2>5 DEF I, J
<1>4. Units(g) = old \cup new
  <2>1. /\ \A u : u \in Units(g) <=> \E y \in T : u \in {y} \X (1 .. g[y])
        /\ \A u : u \in old <=> \E y \in S : u \in {y} \X (1 .. f[y])
    BY <1>1, TotalTyped
  <2>2. \A u : u \in {x} \X (1 .. g[x]) <=> u \in {x} \X (1 .. a) \/ u \in new
    <3>1. \A k : k \in 1 .. a + d <=> k \in 1 .. a \/ k \in a + 1 .. a + d
      OBVIOUS
    <3> QED BY <3>1
  <2>3. \A u : u \in {x} \X (1 .. a) => u \in old
    <3>1. CASE x \in S
      BY <2>1, <3>1
    <3>2. CASE x \notin S
      BY <3>2
    <3> QED BY <3>1, <3>2
  <2> HIDE DEF old, new
  <2>4. ASSUME NEW u \in Units(g)
        PROVE  u \in old \cup new
    <3>1. PICK y \in T : u \in {y} \X (1 .. g[y])
      BY <2>1
    <3>2. CASE y = x
      BY <2>2, <2>3, <3>1, <3>2
    <3>3. CASE y # x
      BY <2>1, <3>1, <3>3
    <3> QED BY <3>2, <3>3
  <2>5. ASSUME NEW u \in old \cup new
        PROVE  u \in Units(g)
    <3>1. CASE u \in new
      BY <2>1, <2>2, <3>1
    <3>2. CASE u \in old
      <4>1. PICK y \in S : u \in {y} \X (1 .. f[y])
        BY <2>1, <3>2
      <4>2. CASE y = x
        BY <2>1, <2>2, <4>1, <4>2
      <4>3. CASE y # x
        BY <2>1, <4>1, <4>3
      <4> QED BY <4>2, <4>3
    <3> QED BY <3>1, <3>2
  <2> QED BY <2>4, <2>5
<1>5. old \cap new = {}
  <2> SUFFICES ASSUME NEW u \in old, u \in new PROVE FALSE
    OBVIOUS
  <2>1. PICK y \in S : u \in {y} \X (1 .. f[y])
    BY TotalTyped
  <2>2. u = <<u[1], u[2]>> /\ u[1] = y /\ u[2] \in 1 .. f[y]
        /\ u[1] = x /\ u[2] \in a + 1 .. a + d
    BY <2>1
  <2>3. f[y] = a
    BY <2>2
  <2> QED BY <2>2, <2>3
<1> HIDE DEF old, new
<1>6. Cardinality(old \cap new) = 0
  BY <1>5, FS_EmptySet
<1>7. Cardinality(old \cup new) = Cardinality(old) + Cardinality(new) - 0
  BY <1>2, <1>3, <1>6, FS_Union, Zenon
<1> DEFINE u == Cardinality(old \cup new)
           v == Cardinality(old)
           w == Cardinality(new)
<1>8. u = v + w - 0 /\ v \in Nat /\ w = d /\ Total(g) = u /\ Total(f) = v
  BY <1>2, <1>3, <1>4, <1>7
<1> HIDE DEF u, v, w
<1> QED BY <1>8

\* Zeros do not count.
Without(S, f, T, g) ==
  /\ IsFiniteSet(S) /\ f \in [S -> Nat] /\ T \subseteq S /\ g \in [T -> Nat]
  /\ \A y \in T : g[y] = f[y]
  /\ \A y \in S \ T : f[y] = 0

LEMMA TotalWithin ==
  ASSUME NEW S, NEW f, NEW T, NEW g, Without(S, f, T, g)
  PROVE  Total(g) = Total(f)
PROOF
<1> USE DEF Without
<1>1. IsFiniteSet(S) /\ IsFiniteSet(T) /\ f \in [S -> Nat] /\ g \in [T -> Nat]
  BY FS_Subset
<1>2. /\ Units(f) = UNION {{x} \X (1 .. f[x]) : x \in S}
      /\ Units(g) = UNION {{x} \X (1 .. g[x]) : x \in T}
      /\ Total(f) = Cardinality(Units(f)) /\ Total(g) = Cardinality(Units(g))
  BY <1>1, TotalTyped
<1>3. \A y \in S \ T : {y} \X (1 .. f[y]) = {}
  OBVIOUS
<1>4. \A y \in T : {y} \X (1 .. f[y]) = {y} \X (1 .. g[y])
  OBVIOUS
<1>5. Units(g) = Units(f)
  <2>1. Units(g) \subseteq Units(f)
    BY <1>2, <1>4
  <2>2. Units(f) \subseteq Units(g)
    <3> SUFFICES ASSUME NEW u \in Units(f) PROVE u \in Units(g)
      OBVIOUS
    <3>1. PICK y \in S : u \in {y} \X (1 .. f[y])
      BY <1>2
    <3>2. y \in T
      BY <1>3, <3>1
    <3> QED BY <1>2, <1>4, <3>1, <3>2
  <2> QED BY <2>1, <2>2
<1> QED BY <1>2, <1>5

\* The same value everywhere.
LEMMA TotalConstant ==
  ASSUME NEW S, IsFiniteSet(S), NEW c \in Nat
  PROVE  /\ Total([x \in S |-> c]) = Cardinality(S) * c
         /\ Cardinality(S) \in Nat
PROOF
<1> DEFINE f == [x \in S |-> c]
<1>1. IsFiniteSet(1 .. c) /\ Cardinality(1 .. c) = c
  <2>1. c \in Int /\ 1 \in Int
    OBVIOUS
  <2>2. IsFiniteSet(1 .. c) /\ Cardinality(1 .. c) = IF 1 > c THEN 0 ELSE c - 1 + 1
    BY <2>1, FS_Interval
  <2> QED BY <2>2
<1>2. Units(f) = S \X (1 .. c)
  <2>1. f \in [S -> Nat] /\ \A x \in S : f[x] = c
    OBVIOUS
  <2> HIDE DEF f
  <2>2. Units(f) = UNION {{x} \X (1 .. f[x]) : x \in S}
    BY <2>1, TotalTyped
  <2> QED BY <2>1, <2>2
<1>3. Total(f) = Cardinality(S \X (1 .. c))
  <2>1. f \in [S -> Nat]
    OBVIOUS
  <2> HIDE DEF f
  <2>2. Total(f) = Cardinality(Units(f))
    BY <2>1, TotalTyped
  <2> QED BY <1>2, <2>2
<1>4. Cardinality(S \X (1 .. c)) = Cardinality(S) * c
  BY <1>1, FS_Product
<1> QED BY <1>3, <1>4, FS_CardinalityType
-----------------------------------------------------------------------------
(***************************************************************************)
(* The report.  Each field of it is a sum over the runs and so a weight of *)
(* every answer: what the runs that are over have recorded of a profile,   *)
(* with what the samples of the present run weigh if it is one of the      *)
(* profile's, is what the answers to the profile weigh.                    *)
(***************************************************************************)
Summaries ==
  [profile: Range(Profiles), requests: Nat, successful: Nat, p50: Nat, p95: Nat,
   cost: Nat, distribution: [Named -> Nat], fallbacks: Nat]

\* The profile whose turn the i-th run is.
Turn(i) == Profiles[((i - 1) \div Repetitions) + 1]

ReportTypes ==
  /\ outcome \in {"running", "reported", "aborted"}
  /\ runs \in Seq(Summaries)
  /\ answers \in [Range(Profiles) -> [Responses -> Nat]]
  /\ \A i \in 1 .. Len(runs) : runs[i].profile = Turn(i) /\ runs[i].requests = Count
  /\ IF outcome = "reported" THEN Len(runs) = Len(Profiles) * Repetitions
     ELSE Len(runs) < Len(Profiles) * Repetitions

\* The weight of a list of samples, and of all answers to a profile.
Weigh(w, ss) == Total([i \in 1 .. Len(ss) |-> w[ss[i]]])
Given(w, p) == Total([s \in Responses |-> answers[p][s] * w[s]])

\* What the runs of a profile have recorded in a field.
Recorded(field, p) == Total([i \in RunsOf(p) |-> field[runs[i]]])

Pending(w, p) ==
  IF outcome # "reported" /\ p = Profile THEN Weigh(w, samples) ELSE 0

Balance(w, field) ==
  \A p \in Range(Profiles) : Recorded(field, p) + Pending(w, p) = Given(w, p)

Weights == [Responses -> Nat]
Fields == [Summaries -> Nat]

OfAll == [s \in Responses |-> 1]
OfSuccess == [s \in Responses |-> IF s \in Served THEN 1 ELSE 0]
OfCost == [s \in Responses |-> IF s \in Served THEN s.cost ELSE 0]
OfFallbacks == [s \in Responses |-> IF s \in Served THEN s.fallbacks ELSE 0]
OfProvider(n) ==
  [s \in Responses |-> IF s \in Served /\ s.provider = n THEN 1 ELSE 0]

Requested == [run \in Summaries |-> run.requests]
Succeeded == [run \in Summaries |-> run.successful]
Cost == [run \in Summaries |-> run.cost]
Fallbacks == [run \in Summaries |-> run.fallbacks]
Distributed(n) == [run \in Summaries |-> run.distribution[n]]

BooksInv ==
  /\ Balance(OfAll, Requested)
  /\ Balance(OfSuccess, Succeeded)
  /\ Balance(OfCost, Cost)
  /\ Balance(OfFallbacks, Fallbacks)
  /\ \A n \in Named : Balance(OfProvider(n), Distributed(n))

LEMMA WeightsTyped ==
  /\ OfAll \in Weights /\ OfSuccess \in Weights /\ OfCost \in Weights
  /\ OfFallbacks \in Weights /\ \A n : OfProvider(n) \in Weights
  /\ Requested \in Fields /\ Succeeded \in Fields /\ Cost \in Fields
  /\ Fallbacks \in Fields /\ \A n \in Named : Distributed(n) \in Fields
PROOF
<1>1. \A s \in Responses : s.cost \in Nat /\ s.fallbacks \in Nat
  BY LoadAssumption
<1>2. /\ OfAll \in Weights /\ OfSuccess \in Weights
      /\ \A n : OfProvider(n) \in Weights
  BY DEF OfAll, OfSuccess, OfProvider, Weights
<1>3. OfCost \in Weights /\ OfFallbacks \in Weights
  BY <1>1 DEF OfCost, OfFallbacks, Weights
<1>4. /\ Requested \in Fields /\ Succeeded \in Fields /\ Cost \in Fields
      /\ Fallbacks \in Fields
  BY DEF Requested, Succeeded, Cost, Fallbacks, Fields, Summaries
<1>5. \A n \in Named : Distributed(n) \in Fields
  BY DEF Distributed, Fields, Summaries
<1> QED BY <1>2, <1>3, <1>4, <1>5

\* Division by the repetitions finds the profile.
LEMMA Division ==
  ASSUME NEW a \in Nat, NEW r \in Nat \ {0}
  PROVE  /\ a \div r \in Nat
         /\ \A q \in Nat : a < q * r => a \div r < q
         /\ \A q \in Nat : q * r <= a /\ a < (q + 1) * r <=> a \div r = q
PROOF
<1>1. a \div r \in Nat /\ (a \div r) * r <= a /\ a < ((a \div r) + 1) * r
  BY SMT
<1>2. \A q \in Nat : q * r <= a /\ a < (q + 1) * r => a \div r = q
  BY SMT
<1>3. \A q \in Nat : a < q * r => a \div r < q
  <2> SUFFICES ASSUME NEW q \in Nat, q <= a \div r PROVE q * r <= a
    BY <1>1
  <2> DEFINE d == a \div r
  <2>1. d \in Nat /\ d * r <= a /\ q <= d
    BY <1>1
  <2> HIDE DEF d
  <2>2. q * r <= d * r
    BY <2>1
  <2>3. q * r \in Nat /\ d * r \in Nat
    BY <2>1
  <2> QED BY <2>1, <2>2, <2>3
<1> QED BY <1>1, <1>2, <1>3

LEMMA Dimensions ==
  /\ Count \in Nat \ {0} /\ Repetitions \in Nat \ {0} /\ Len(Profiles) \in Nat \ {0}
  /\ DOMAIN Profiles = 1 .. Len(Profiles)
  /\ \A k \in 1 .. Len(Profiles) : Profiles[k] \in Range(Profiles)
PROOF
<1>1. Count \in Nat \ {0} /\ Repetitions \in Nat \ {0}
  BY LoadAssumption
<1>2. Profiles \in Seq(Range(Profiles)) /\ Profiles # <<>>
  BY LoadAssumption
<1> QED BY <1>1, <1>2

\* Until the report is made there is a profile whose turn it is.
LEMMA ProfileTyped ==
  ASSUME ReportTypes
  PROVE  /\ Len(runs) \in Nat
         /\ Profile = Turn(Len(runs) + 1)
         /\ outcome # "reported" => Profile \in Range(Profiles)
PROOF
<1>1. Len(runs) \in Nat
  BY DEF ReportTypes
<1>2. Profile = Turn(Len(runs) + 1)
  <2>1. (Len(runs) + 1) - 1 = Len(runs)
    BY <1>1
  <2> QED BY <2>1 DEF Profile, Turn
<1>3. ASSUME outcome # "reported"
      PROVE  Profile \in Range(Profiles)
  <2> DEFINE q == Len(runs) \div Repetitions
  <2>1. Len(runs) < Len(Profiles) * Repetitions
    BY <1>3 DEF ReportTypes
  <2>2. q \in Nat /\ q < Len(Profiles)
    BY <1>1, <2>1, Dimensions, Division
  <2>3. Profile = Profiles[q + 1]
    BY DEF Profile
  <2> HIDE DEF q
  <2>4. q + 1 \in 1 .. Len(Profiles)
    BY <2>2, Dimensions
  <2> QED BY <2>3, <2>4, Dimensions
<1> QED BY <1>1, <1>2, <1>3

LEMMA SumsTyped ==
  ASSUME ReportTypes, NEW w \in Weights, NEW field \in Fields
  PROVE  /\ \A ss \in Seq(Responses) : Weigh(w, ss) \in Nat
         /\ \A p \in Range(Profiles) :
              /\ Recorded(field, p) \in Nat /\ Given(w, p) \in Nat
              /\ IsFiniteSet(RunsOf(p)) /\ RunsOf(p) \subseteq 1 .. Len(runs)
              /\ [i \in RunsOf(p) |-> field[runs[i]]] \in [RunsOf(p) -> Nat]
              /\ [s \in Responses |-> answers[p][s] * w[s]] \in [Responses -> Nat]
PROOF
<1>1. ASSUME NEW ss \in Seq(Responses)
      PROVE  Weigh(w, ss) \in Nat
  <2>1. [i \in 1 .. Len(ss) |-> w[ss[i]]] \in [1 .. Len(ss) -> Nat]
    BY DEF Weights
  <2>2. IsFiniteSet(1 .. Len(ss))
    <3>1. Len(ss) \in Int /\ 1 \in Int
      OBVIOUS
    <3> QED BY <3>1, FS_Interval
  <2> QED BY <2>1, <2>2, TotalTyped DEF Weigh
<1>2. ASSUME NEW p \in Range(Profiles)
      PROVE  /\ Recorded(field, p) \in Nat
             /\ IsFiniteSet(RunsOf(p)) /\ RunsOf(p) \subseteq 1 .. Len(runs)
             /\ [i \in RunsOf(p) |-> field[runs[i]]] \in [RunsOf(p) -> Nat]
  <2>1. runs \in Seq(Summaries) /\ Len(runs) \in Nat
    BY DEF ReportTypes
  <2>2. RunsOf(p) \in SUBSET (1 .. Len(runs))
    BY <2>1 DEF RunsOf
  <2>3. IsFiniteSet(1 .. Len(runs))
    BY <2>1, FS_Interval
  <2>4. IsFiniteSet(RunsOf(p))
    BY <2>2, <2>3, FS_Subset
  <2>5. \A i \in RunsOf(p) : runs[i] \in Summaries
    BY <2>1, <2>2
  <2>6. [i \in RunsOf(p) |-> field[runs[i]]] \in [RunsOf(p) -> Nat]
    BY <2>5 DEF Fields
  <2> QED BY <2>2, <2>4, <2>6, TotalTyped DEF Recorded
<1>3. ASSUME NEW p \in Range(Profiles)
      PROVE  /\ [s \in Responses |-> answers[p][s] * w[s]] \in [Responses -> Nat]
             /\ Given(w, p) \in Nat
  <2>1. \A s \in Responses : answers[p][s] \in Nat /\ w[s] \in Nat
    BY DEF ReportTypes, Weights
  <2>2. \A s \in Responses : answers[p][s] * w[s] \in Nat
    BY <2>1
  <2>3. [s \in Responses |-> answers[p][s] * w[s]] \in [Responses -> Nat]
    BY <2>2
  <2> QED BY <2>3, LoadAssumption, TotalTyped DEF Given
<1> QED BY <1>1, <1>2, <1>3

-----------------------------------------------------------------------------
(* What Summarize records of the samples is their weight.                  *)

\* A sum over the successes.
LEMMA OverSuccesses ==
  ASSUME NEW ss \in Seq(Responses), NEW w \in Weights,
         NEW T \in SUBSET (1 .. Len(ss)), NEW g \in [T -> Nat],
         \A i \in T : g[i] = w[ss[i]],
         \A i \in (1 .. Len(ss)) \ T : w[ss[i]] = 0
  PROVE  Total(g) = Weigh(w, ss)
PROOF
<1> DEFINE f == [i \in 1 .. Len(ss) |-> w[ss[i]]]
           S == 1 .. Len(ss)
<1>1. f \in [S -> Nat]
  BY DEF Weights
<1>2. IsFiniteSet(S)
  <2>1. Len(ss) \in Int /\ 1 \in Int
    OBVIOUS
  <2> QED BY <2>1, FS_Interval
<1>3. T \in SUBSET S /\ \A i \in T : g[i] = f[i]
  OBVIOUS
<1>4. \A i \in S \ T : f[i] = 0
  OBVIOUS
<1>5. Weigh(w, ss) = Total(f)
  BY DEF Weigh
<1>6. Without(S, f, T, g)
  <2> HIDE DEF f, S
  <2> QED BY <1>1, <1>2, <1>3, <1>4 DEF Without
<1> HIDE DEF f, S
<1> QED BY <1>5, <1>6, TotalWithin

LEMMA Counting ==
  ASSUME NEW ss \in Seq(Responses), NEW w \in Weights,
         NEW T \in SUBSET (1 .. Len(ss)),
         \A i \in T : w[ss[i]] = 1,
         \A i \in (1 .. Len(ss)) \ T : w[ss[i]] = 0
  PROVE  Cardinality(T) = Weigh(w, ss)
PROOF
<1> DEFINE g == [i \in T |-> 1]
<1>1. g \in [T -> Nat] /\ \A i \in T : g[i] = w[ss[i]]
  OBVIOUS
<1>2. IsFiniteSet(T)
  <2>1. IsFiniteSet(1 .. Len(ss))
    <3>1. Len(ss) \in Int /\ 1 \in Int
      OBVIOUS
    <3> QED BY <3>1, FS_Interval
  <2> QED BY <2>1, FS_Subset
<1>3. Total(g) = Cardinality(T) * 1 /\ Cardinality(T) \in Nat
  BY <1>2, TotalConstant
<1> HIDE DEF g
<1>4. Total(g) = Weigh(w, ss)
  BY <1>1, OverSuccesses
<1> QED BY <1>3, <1>4

LEMMA SummaryWeighs ==
  ASSUME NEW ss \in Seq(Responses), Profile \in Range(Profiles)
  PROVE  /\ Summarize(ss) \in Summaries
         /\ Summarize(ss).profile = Profile
         /\ Summarize(ss).requests = Len(ss)
         /\ Requested[Summarize(ss)] = Weigh(OfAll, ss)
         /\ Succeeded[Summarize(ss)] = Weigh(OfSuccess, ss)
         /\ Cost[Summarize(ss)] = Weigh(OfCost, ss)
         /\ Fallbacks[Summarize(ss)] = Weigh(OfFallbacks, ss)
         /\ \A n \in Named : Distributed(n)[Summarize(ss)] = Weigh(OfProvider(n), ss)
PROOF
<1> DEFINE N == 1 .. Len(ss)
           ok == Successes(ss)
           from(n) == {i \in ok : ss[i].provider = n}
           cost == [i \in ok |-> ss[i].cost]
           fallbacks == [i \in ok |-> ss[i].fallbacks]
           sum == Summarize(ss)
<1>1. /\ Len(ss) \in Nat /\ DOMAIN ss = N
      /\ \A i \in N : ss[i] \in Responses
  OBVIOUS
<1>2. ok \in SUBSET N /\ \A i \in N : i \in ok <=> ss[i] \in Served
  BY <1>1 DEF Successes, Served
<1>3. \A i \in N : /\ ss[i].cost \in Nat /\ ss[i].fallbacks \in Nat
                   /\ ss[i].latency \in Nat
  BY <1>1, LoadAssumption
<1>4. IsFiniteSet(N) /\ Cardinality(N) = Len(ss)
  <2>1. Len(ss) \in Int /\ 1 \in Int
    BY <1>1
  <2>2. IsFiniteSet(N) /\ Cardinality(N) = IF 1 > Len(ss) THEN 0 ELSE Len(ss) - 1 + 1
    BY <2>1, FS_Interval
  <2> QED BY <1>1, <2>2
<1>5. IsFiniteSet(ok) /\ Cardinality(ok) \in Nat
  BY <1>2, <1>4, FS_Subset, FS_CardinalityType
<1>6. ASSUME NEW quantile \in Quantiles
      PROVE  Percentile(Latencies(ss), quantile) \in Nat
  <2> DEFINE v == Latencies(ss)
             value == Percentile(v, quantile)
  <2>1. Listed(ok, v) /\ DOMAIN v = ok /\ \A i \in ok : v[i] \in Nat
    BY <1>2, <1>3, <1>5 DEF Listed, Latencies
  <2> HIDE DEF v, ok
  <2>2. ASSUME ok = {}
        PROVE  value \in Nat
    BY <2>1, <2>2 DEF Percentile
  <2>3. ASSUME ok # {}
        PROVE  value \in Nat
    <3> HIDE DEF value
    <3>1. value = Percentile(v, quantile)
      BY DEF value
    <3>2. value \in Range(v)
      BY <2>1, <2>3, <3>1, PercentileIsNearest
    <3> QED BY <2>1, <3>2 DEF Range
  <2>4. value \in Nat
    BY <2>2, <2>3
  <2> QED BY <2>4 DEF v
<1>7. sum = [profile |-> Profile, requests |-> Len(ss), successful |-> Cardinality(ok),
             p50 |-> Percentile(Latencies(ss), 50),
             p95 |-> Percentile(Latencies(ss), 95),
             cost |-> Total(cost),
             distribution |-> [n \in Named |-> Cardinality(from(n))],
             fallbacks |-> Total(fallbacks)]
  BY DEF Summarize
<1>8. cost \in [ok -> Nat] /\ fallbacks \in [ok -> Nat]
  BY <1>2, <1>3
<1>9. \A n : from(n) \in SUBSET N
  BY <1>2
<1>10. \A n : Cardinality(from(n)) \in Nat
  <2> TAKE n
  <2>1. IsFiniteSet(from(n))
    BY <1>4, <1>9, FS_Subset
  <2> QED BY <2>1, FS_CardinalityType
<1>11. Len(ss) = Weigh(OfAll, ss)
  <2>1. \A i \in N : OfAll[ss[i]] = 1
    BY <1>1 DEF OfAll
  <2>2. Cardinality(N) = Weigh(OfAll, ss)
    BY <2>1, WeightsTyped, Counting
  <2> QED BY <1>4, <2>2
<1>12. Cardinality(ok) = Weigh(OfSuccess, ss)
  <2>1. /\ \A i \in ok : OfSuccess[ss[i]] = 1
        /\ \A i \in N \ ok : OfSuccess[ss[i]] = 0
    BY <1>1, <1>2 DEF OfSuccess
  <2> HIDE DEF ok
  <2> QED BY <1>2, <2>1, WeightsTyped, Counting
<1>13. Total(cost) = Weigh(OfCost, ss)
  <2>1. /\ \A i \in ok : cost[i] = OfCost[ss[i]]
        /\ \A i \in N \ ok : OfCost[ss[i]] = 0
    BY <1>1, <1>2 DEF OfCost
  <2> HIDE DEF cost, ok
  <2> QED BY <1>2, <1>8, <2>1, WeightsTyped, OverSuccesses
<1>14. Total(fallbacks) = Weigh(OfFallbacks, ss)
  <2>1. /\ \A i \in ok : fallbacks[i] = OfFallbacks[ss[i]]
        /\ \A i \in N \ ok : OfFallbacks[ss[i]] = 0
    BY <1>1, <1>2 DEF OfFallbacks
  <2> HIDE DEF fallbacks, ok
  <2> QED BY <1>2, <1>8, <2>1, WeightsTyped, OverSuccesses
<1>15. ASSUME NEW n \in Named
       PROVE  Cardinality(from(n)) = Weigh(OfProvider(n), ss)
  <2>1. /\ \A i \in from(n) : OfProvider(n)[ss[i]] = 1
        /\ \A i \in N \ from(n) : OfProvider(n)[ss[i]] = 0
    BY <1>1, <1>2 DEF OfProvider
  <2> HIDE DEF from
  <2> QED BY <1>9, <2>1, WeightsTyped, Counting
<1>16. Total(cost) \in Nat /\ Total(fallbacks) \in Nat
  <2> HIDE DEF cost, fallbacks, ok
  <2> QED BY <1>5, <1>8, TotalTyped
<1>17. 50 \in Quantiles /\ 95 \in Quantiles
  BY DEF Quantiles
<1> HIDE DEF cost, fallbacks, from, ok
<1>18. /\ sum \in Summaries /\ sum.profile = Profile /\ sum.requests = Len(ss)
       /\ sum.successful = Cardinality(ok) /\ sum.cost = Total(cost)
       /\ sum.fallbacks = Total(fallbacks)
       /\ \A n \in Named : sum.distribution[n] = Cardinality(from(n))
  <2>1. [n \in Named |-> Cardinality(from(n))] \in [Named -> Nat]
    BY <1>10
  <2> HIDE DEF sum
  <2> QED BY <1>1, <1>5, <1>6, <1>7, <1>16, <1>17, <2>1 DEF Summaries
<1> HIDE DEF sum
<1>19. /\ Requested[sum] = Weigh(OfAll, ss)
       /\ Succeeded[sum] = Weigh(OfSuccess, ss)
       /\ Cost[sum] = Weigh(OfCost, ss)
       /\ Fallbacks[sum] = Weigh(OfFallbacks, ss)
  BY <1>11, <1>12, <1>13, <1>14, <1>18
     DEF Requested, Succeeded, Cost, Fallbacks
<1>20. \A n \in Named : Distributed(n)[sum] = Weigh(OfProvider(n), ss)
  BY <1>15, <1>18 DEF Distributed
<1> QED BY <1>18, <1>19, <1>20 DEF sum
-----------------------------------------------------------------------------
(* How the sides of a balance move                                         *)

LEMMA TotalZero ==
  ASSUME NEW S, IsFiniteSet(S), NEW f \in [S -> Nat], \A x \in S : f[x] = 0
  PROVE  Total(f) = 0
PROOF
<1>1. f = [x \in S |-> 0]
  OBVIOUS
<1>2. Total([x \in S |-> 0]) = Cardinality(S) * 0 /\ Cardinality(S) \in Nat
  BY TotalConstant
<1> QED BY <1>1, <1>2

LEMMA WeighEmpty ==
  ASSUME NEW w \in Weights
  PROVE  Weigh(w, <<>>) = 0
PROOF
<1> DEFINE S == 1 .. Len(<<>>)
           f == [i \in S |-> w[<<>>[i]]]
<1>1. S = {}
  OBVIOUS
<1>2. f \in [S -> Nat] /\ \A i \in S : f[i] = 0
  BY <1>1
<1>3. IsFiniteSet(S)
  BY <1>1, FS_EmptySet
<1>4. Weigh(w, <<>>) = Total(f)
  BY DEF Weigh
<1> HIDE DEF S, f
<1> QED BY <1>2, <1>3, <1>4, TotalZero

LEMMA WeighAppend ==
  ASSUME NEW w \in Weights, NEW ss \in Seq(Responses), NEW s \in Responses
  PROVE  Weigh(w, Append(ss, s)) = Weigh(w, ss) + w[s]
PROOF
<1> DEFINE n == Len(ss)
           S == 1 .. n
           more == Append(ss, s)
           f == [i \in S |-> w[ss[i]]]
           g == [i \in 1 .. Len(more) |-> w[more[i]]]
<1>1. /\ n \in Nat /\ Len(more) = n + 1 /\ more[n + 1] = s
      /\ \A i \in S : more[i] = ss[i] /\ ss[i] \in Responses
  OBVIOUS
<1>2. 1 .. Len(more) = S \cup {n + 1} /\ n + 1 \notin S
  BY <1>1
<1>3. \A i \in S \cup {n + 1} : more[i] \in Responses
  BY <1>1
<1>4. Weigh(w, more) = Total(g) /\ Weigh(w, ss) = Total(f)
  BY DEF Weigh
<1>5. IsFiniteSet(S)
  <2>1. n \in Int /\ 1 \in Int
    BY <1>1
  <2> QED BY <2>1, FS_Interval
<1> HIDE DEF n, more
<1>6. f \in [S -> Nat] /\ w[s] \in Nat
  BY <1>1 DEF Weights
<1> HIDE DEF S
<1>7. g \in [S \cup {n + 1} -> Nat]
  BY <1>2, <1>3 DEF Weights
<1>8. g[n + 1] = w[s] /\ \A i \in S : g[i] = f[i]
  BY <1>1, <1>2
<1> HIDE DEF f, g
<1>9. Grown(S, f, n + 1, g, w[s])
  BY <1>2, <1>5, <1>6, <1>7, <1>8 DEF Grown
<1>10. Total(g) = Total(f) + w[s]
  BY <1>9, TotalGrows
<1> QED BY <1>4, <1>10 DEF more

\* One more answer to a profile.
LEMMA GivenGrows ==
  ASSUME ReportTypes, NEW w \in Weights,
         NEW p, p \in Range(Profiles), NEW s \in Responses,
         answers' = [answers EXCEPT ![p][s] = @ + 1]
  PROVE  /\ Given(w, p)' = Given(w, p) + w[s]
         /\ \A q \in Range(Profiles) \ {p} : Given(w, q)' = Given(w, q)
PROOF
<1> DEFINE a == answers[p]
           b == answers'[p]
           f == [r \in Responses |-> a[r] * w[r]]
           g == [r \in Responses |-> b[r] * w[r]]
<1>1. answers \in [Range(Profiles) -> [Responses -> Nat]]
  BY DEF ReportTypes
<1>2. /\ a \in [Responses -> Nat] /\ b = [a EXCEPT ![s] = @ + 1]
      /\ \A q \in Range(Profiles) \ {p} : answers'[q] = answers[q]
  BY <1>1
<1>3. Given(w, p) = Total(f) /\ Given(w, p)' = Total(g)
  BY DEF Given
<1>4. \A q \in Range(Profiles) \ {p} : Given(w, q)' = Given(w, q)
  BY <1>2 DEF Given
<1> HIDE DEF a, b
<1>5. b[s] = a[s] + 1 /\ \A r \in Responses \ {s} : b[r] = a[r]
  BY <1>2
<1>6. \A r \in Responses : a[r] \in Nat /\ b[r] \in Nat /\ w[r] \in Nat
  BY <1>2 DEF Weights
<1>7. f \in [Responses -> Nat] /\ g \in [Responses -> Nat]
  <2>1. \A r \in Responses : a[r] * w[r] \in Nat /\ b[r] * w[r] \in Nat
    BY <1>6
  <2> QED BY <2>1
<1>8. g[s] = f[s] + w[s]
  <2> DEFINE x == a[s]
             y == w[s]
  <2>1. x \in Nat /\ y \in Nat /\ g[s] = (x + 1) * y /\ f[s] = x * y
    BY <1>5, <1>6
  <2> HIDE DEF x, y
  <2>2. (x + 1) * y = x * y + y
    BY <2>1
  <2> QED BY <2>1, <2>2 DEF y
<1>9. \A r \in Responses \ {s} : g[r] = f[r]
  BY <1>5
<1>10. Responses \cup {s} = Responses /\ IsFiniteSet(Responses)
  BY LoadAssumption
<1> HIDE DEF f, g
<1>11. Grown(Responses, f, s, g, w[s])
  BY <1>6, <1>7, <1>8, <1>9, <1>10 DEF Grown
<1>12. Total(g) = Total(f) + w[s]
  BY <1>11, TotalGrows
<1> QED BY <1>3, <1>4, <1>12

\* One more run of a profile.
LEMMA RecordedGrows ==
  ASSUME ReportTypes, NEW field \in Fields,
         NEW p, p \in Range(Profiles), NEW run, run \in Summaries,
         run.profile = p, runs' = Append(runs, run)
  PROVE  /\ Recorded(field, p)' = Recorded(field, p) + field[run]
         /\ \A q \in Range(Profiles) \ {p} : Recorded(field, q)' = Recorded(field, q)
PROOF
<1> DEFINE n == Len(runs)
           more == Append(runs, run)
<1>1. /\ n \in Nat /\ DOMAIN runs = 1 .. n /\ DOMAIN more = 1 .. n + 1
      /\ more[n + 1] = run /\ \A i \in 1 .. n : more[i] = runs[i]
  BY DEF ReportTypes
<1>2. runs' = more
  OBVIOUS
<1> HIDE DEF n, more
<1>3. /\ RunsOf(p)' = RunsOf(p) \cup {n + 1} /\ n + 1 \notin RunsOf(p)
      /\ \A q \in Range(Profiles) \ {p} : RunsOf(q)' = RunsOf(q)
  <2>1. \A q : RunsOf(q)' = {i \in 1 .. n + 1 : more[i].profile = q}
    BY <1>1, <1>2 DEF RunsOf
  <2>2. \A q : RunsOf(q) = {i \in 1 .. n : runs[i].profile = q}
    BY <1>1 DEF RunsOf
  <2>3. \A i : i \in 1 .. n + 1 <=> i \in 1 .. n \/ i = n + 1
    BY <1>1
  <2>4. n + 1 \notin 1 .. n
    BY <1>1
  <2> QED BY <1>1, <2>1, <2>2, <2>3, <2>4
<1>4. \A q : \A i \in RunsOf(q) : runs'[i] = runs[i]
  BY <1>1, <1>2 DEF RunsOf
<1>5. \A q \in Range(Profiles) \ {p} : Recorded(field, q)' = Recorded(field, q)
  <2> TAKE q \in Range(Profiles) \ {p}
  <2>1. RunsOf(q)' = RunsOf(q)
    BY <1>3
  <2>2. Recorded(field, q)' = Total([i \in RunsOf(q) |-> field[runs'[i]]])
    BY <2>1 DEF Recorded
  <2>3. [i \in RunsOf(q) |-> field[runs'[i]]] = [i \in RunsOf(q) |-> field[runs[i]]]
    BY <1>4
  <2> QED BY <2>2, <2>3 DEF Recorded
<1> DEFINE S == RunsOf(p)
           f == [i \in S |-> field[runs[i]]]
           g == [i \in S \cup {n + 1} |-> field[runs'[i]]]
<1>6. Recorded(field, p) = Total(f) /\ Recorded(field, p)' = Total(g)
  BY <1>3 DEF Recorded
<1>7. IsFiniteSet(S) /\ f \in [S -> Nat]
  <2>1. OfAll \in Weights
    BY WeightsTyped
  <2> QED BY <2>1, SumsTyped
<1>8. field[run] \in Nat
  BY DEF Fields
<1>9. g[n + 1] = field[run] /\ \A i \in S : g[i] = f[i]
  BY <1>1, <1>2, <1>4
<1>10. g \in [S \cup {n + 1} -> Nat]
  <2> HIDE DEF S
  <2>1. \A i \in S : field[runs'[i]] = f[i] /\ f[i] \in Nat
    BY <1>7, <1>9
  <2>2. field[runs'[n + 1]] \in Nat
    BY <1>8, <1>9
  <2> HIDE DEF f
  <2> QED BY <2>1, <2>2
<1>11. n + 1 \notin S
  BY <1>3
<1> HIDE DEF S, f, g
<1>12. Grown(S, f, n + 1, g, field[run])
  BY <1>7, <1>8, <1>9, <1>10, <1>11 DEF Grown
<1>13. Total(g) = Total(f) + field[run]
  BY <1>12, TotalGrows
<1> QED BY <1>5, <1>6, <1>13
-----------------------------------------------------------------------------
(* A balance is kept                                                       *)

LEMMA BalanceInit ==
  ASSUME Init, NEW w \in Weights, NEW field \in Fields
  PROVE  Balance(w, field)
PROOF
<1> SUFFICES ASSUME NEW p \in Range(Profiles)
             PROVE  Recorded(field, p) + Pending(w, p) = Given(w, p)
  BY DEF Balance
<1>1. runs = <<>> /\ samples = <<>> /\ \A s \in Responses : answers[p][s] = 0
  BY DEF Init
<1>2. Recorded(field, p) = 0
  <2> DEFINE S == RunsOf(p)
             f == [i \in S |-> field[runs[i]]]
  <2>1. S = {}
    BY <1>1 DEF RunsOf
  <2>2. f \in [S -> Nat] /\ \A i \in S : f[i] = 0
    BY <2>1
  <2>3. IsFiniteSet(S)
    BY <2>1, FS_EmptySet
  <2>4. Recorded(field, p) = Total(f)
    BY DEF Recorded
  <2> HIDE DEF S, f
  <2> QED BY <2>2, <2>3, <2>4, TotalZero
<1>3. Pending(w, p) = 0
  BY <1>1, WeighEmpty DEF Pending
<1>4. Given(w, p) = 0
  <2> DEFINE f == [s \in Responses |-> answers[p][s] * w[s]]
  <2>1. \A s \in Responses : w[s] \in Nat /\ answers[p][s] * w[s] = 0
    <3>1. \A s \in Responses : w[s] \in Nat
      BY DEF Weights
    <3> QED BY <1>1, <3>1
  <2>2. f \in [Responses -> Nat] /\ \A s \in Responses : f[s] = 0
    BY <2>1
  <2>3. Given(w, p) = Total(f)
    BY DEF Given
  <2> HIDE DEF f
  <2> QED BY <2>2, <2>3, LoadAssumption, TotalZero
<1> QED BY <1>2, <1>3, <1>4

\* A step that takes no answer and ends no run.
LEMMA BalanceStays ==
  ASSUME NEW w \in Weights, NEW field \in Fields, Balance(w, field),
         UNCHANGED <<samples, runs, answers>>,
         outcome' = "reported" <=> outcome = "reported"
  PROVE  Balance(w, field)'
BY DEF Balance, Recorded, RunsOf, Pending, Profile, Given

\* An answer weighs the same in the samples and in what is given.
LEMMA BalanceResponds ==
  ASSUME LoadInv, ReportTypes, NEW w \in Weights, NEW field \in Fields,
         Balance(w, field),
         NEW v \in Workers, NEW s \in Responses, Respond(v, s)
  PROVE  Balance(w, field)'
PROOF
<1>1. /\ outcome = "running" /\ outcome' = outcome /\ runs' = runs
      /\ samples' = Append(samples, s)
      /\ answers' = [answers EXCEPT ![Profile][s] = @ + 1]
  BY DEF Respond, Sample
<1>2. PICK p : p \in Range(Profiles) /\ p = Profile
  BY <1>1, ProfileTyped
<1>3. Profile' = p
  BY <1>1, <1>2 DEF Profile
<1>4. answers' = [answers EXCEPT ![p][s] = @ + 1]
  BY <1>1, <1>2
<1>5. /\ Given(w, p)' = Given(w, p) + w[s]
      /\ \A q \in Range(Profiles) \ {p} : Given(w, q)' = Given(w, q)
  BY <1>2, <1>4, GivenGrows
<1>6. /\ Pending(w, p)' = Pending(w, p) + w[s]
      /\ \A q \in Range(Profiles) \ {p} : Pending(w, q)' = Pending(w, q)
  <2>1. samples \in Seq(Responses)
    BY DEF LoadInv, LoadTypes
  <2>2. Weigh(w, samples') = Weigh(w, samples) + w[s]
    BY <2>1, <1>1, WeighAppend
  <2>3. Weigh(w, samples)' = Weigh(w, samples')
    BY DEF Weigh
  <2> QED BY <2>2, <2>3, <1>1, <1>2, <1>3 DEF Pending
<1>7. \A q \in Range(Profiles) :
        /\ Recorded(field, q)' = Recorded(field, q)
        /\ Recorded(field, q) + Pending(w, q) = Given(w, q)
  BY <1>1 DEF Recorded, RunsOf, Balance
<1>8. /\ Recorded(field, p) \in Nat /\ Pending(w, p) \in Nat /\ w[s] \in Nat
  <2>1. samples \in Seq(Responses)
    BY DEF LoadInv, LoadTypes
  <2>2. Weigh(w, samples) \in Nat /\ Recorded(field, p) \in Nat
    BY <2>1, <1>2, SumsTyped
  <2> QED BY <2>2 DEF Pending, Weights
<1>9. Recorded(field, p)' + Pending(w, p)' = Given(w, p)'
  BY <1>2, <1>5, <1>6, <1>7, <1>8
<1>10. \A q \in Range(Profiles) \ {p} :
         Recorded(field, q)' + Pending(w, q)' = Given(w, q)'
  BY <1>5, <1>6, <1>7
<1> QED BY <1>9, <1>10 DEF Balance

\* What a run records is what its samples weigh, and none is pending then:
\* the next run has no samples yet, or there is none.
LEMMA BalanceFinishes ==
  ASSUME LoadInv, ReportTypes, NEW w \in Weights, NEW field \in Fields,
         Balance(w, field), field[Summarize(samples)] = Weigh(w, samples),
         FinishRun
  PROVE  Balance(w, field)'
PROOF
<1>1. /\ outcome = "running" /\ answers' = answers
      /\ runs' = Append(runs, Summarize(samples))
      /\ outcome' = "reported" \/ samples' = <<>>
  BY DEF FinishRun
<1>2. samples \in Seq(Responses)
  BY DEF LoadInv, LoadTypes
<1>3. PICK p : p \in Range(Profiles) /\ p = Profile
  BY <1>1, ProfileTyped
<1>4. PICK run : run = Summarize(samples)
  OBVIOUS
<1>5. run \in Summaries /\ run.profile = p
  BY <1>2, <1>3, <1>4, SummaryWeighs
<1>6. runs' = Append(runs, run)
  BY <1>1, <1>4
<1>7. /\ Recorded(field, p)' = Recorded(field, p) + field[run]
      /\ \A q \in Range(Profiles) \ {p} : Recorded(field, q)' = Recorded(field, q)
  BY <1>3, <1>5, <1>6, RecordedGrows
<1>8. \A q \in Range(Profiles) : Pending(w, q)' = 0
  <2>1. CASE outcome' = "reported"
    BY <2>1 DEF Pending
  <2>2. CASE samples' = <<>>
    <3>1. Weigh(w, samples)' = 0
      BY <2>2, WeighEmpty DEF Weigh
    <3> QED BY <3>1 DEF Pending
  <2> QED BY <1>1, <2>1, <2>2
<1>9. \A q \in Range(Profiles) : Given(w, q)' = Given(w, q)
  BY <1>1 DEF Given
<1>10. /\ Pending(w, p) = field[run]
       /\ \A q \in Range(Profiles) \ {p} : Pending(w, q) = 0
  BY <1>1, <1>3, <1>4 DEF Pending
<1>11. \A q \in Range(Profiles) : Recorded(field, q) + Pending(w, q) = Given(w, q)
  BY DEF Balance
<1>12. field[run] \in Nat /\ \A q \in Range(Profiles) : Recorded(field, q) \in Nat
  BY <1>5, SumsTyped DEF Fields
<1>13. Recorded(field, p)' + Pending(w, p)' = Given(w, p)'
  BY <1>3, <1>7, <1>8, <1>9, <1>10, <1>11, <1>12
<1>14. \A q \in Range(Profiles) \ {p} :
         Recorded(field, q)' + Pending(w, q)' = Given(w, q)'
  BY <1>7, <1>8, <1>9, <1>10, <1>11, <1>12
<1> QED BY <1>13, <1>14 DEF Balance

LEMMA BalanceStep ==
  ASSUME LoadInv, ReportTypes, NEW w \in Weights, NEW field \in Fields,
         Balance(w, field), field[Summarize(samples)] = Weigh(w, samples) \/ ~FinishRun,
         [Next]_vars
  PROVE  Balance(w, field)'
PROOF
<1>1. CASE FinishRun
  BY <1>1, BalanceFinishes
<1>2. ASSUME NEW v \in Workers, Works(v)
      PROVE  Balance(w, field)'
  <2>1. CASE Begin(v) \/ Break(v)
    <3>1. /\ UNCHANGED <<samples, runs, answers>>
          /\ outcome' = "reported" <=> outcome = "reported"
      BY <2>1 DEF Begin, Break
    <3> QED BY <3>1, BalanceStays
  <2>2. ASSUME NEW s \in Responses, Respond(v, s)
        PROVE  Balance(w, field)'
    BY <2>2, BalanceResponds
  <2> QED BY <1>2, <2>1, <2>2 DEF Works
<1>3. CASE GiveUp \/ UNCHANGED vars
  <2>1. /\ UNCHANGED <<samples, runs, answers>>
        /\ outcome' = "reported" <=> outcome = "reported"
    BY <1>3 DEF GiveUp, vars
  <2> QED BY <2>1, BalanceStays
<1> QED BY <1>1, <1>2, <1>3 DEF Next
-----------------------------------------------------------------------------
(* The invariant of the report                                             *)

LEMMA ReportTypesInit == Init => ReportTypes
PROOF
<1> SUFFICES ASSUME Init PROVE ReportTypes
  OBVIOUS
<1>1. /\ outcome = "running" /\ runs = <<>>
      /\ answers = [p \in Range(Profiles) |-> [s \in Responses |-> 0]]
  BY DEF Init
<1>2. runs \in Seq(Summaries) /\ Len(runs) = 0
  BY <1>1
<1>3. Len(runs) < Len(Profiles) * Repetitions
  <2> DEFINE l == Len(Profiles)
             r == Repetitions
  <2>1. l \in Nat \ {0} /\ r \in Nat \ {0}
    BY Dimensions
  <2> HIDE DEF l, r
  <2>2. 0 < l * r
    BY <2>1
  <2> QED BY <1>2, <2>2 DEF l, r
<1> QED BY <1>1, <1>2, <1>3 DEF ReportTypes

\* A run that ends is of the profile whose turn it is and has a sample for
\* every request; the report is made with the last one.
LEMMA ReportTypesFinish ==
  ASSUME LoadInv, ReportTypes, FinishRun
  PROVE  ReportTypes'
PROOF
<1> DEFINE n == Len(runs)
           all == Len(Profiles) * Repetitions
<1>1. /\ outcome = "running" /\ answers' = answers
      /\ runs' = Append(runs, Summarize(samples))
      /\ IF Len(runs') = all THEN outcome' = "reported" ELSE outcome' = outcome
  BY DEF FinishRun
<1>2. runs \in Seq(Summaries) /\ n \in Nat /\ n < all
  BY <1>1 DEF ReportTypes
<1>3. all \in Nat
  BY Dimensions
<1>4. PICK run : run = Summarize(samples)
  OBVIOUS
<1>5. samples \in Seq(Responses) /\ Len(samples) = Count
  BY CompleteRuns DEF LoadInv, LoadTypes, RunComplete, FinishRun
<1>6. run \in Summaries /\ run.profile = Turn(n + 1) /\ run.requests = Count
  BY <1>1, <1>4, <1>5, ProfileTyped, SummaryWeighs
<1>7. /\ runs' \in Seq(Summaries) /\ Len(runs') = n + 1 /\ runs'[n + 1] = run
      /\ \A i \in 1 .. n : runs'[i] = runs[i]
  BY <1>1, <1>2, <1>4, <1>6
<1>8. \A i \in 1 .. n : runs[i].profile = Turn(i) /\ runs[i].requests = Count
  BY DEF ReportTypes
<1>9. \A i \in 1 .. n + 1 : i \in 1 .. n \/ i = n + 1
  BY <1>2
<1>10. \A i \in 1 .. n + 1 : runs'[i].profile = Turn(i) /\ runs'[i].requests = Count
  BY <1>6, <1>7, <1>8, <1>9
<1>11. IF outcome' = "reported" THEN Len(runs') = all ELSE Len(runs') < all
  BY <1>1, <1>2, <1>3, <1>7
<1>12. answers' \in [Range(Profiles) -> [Responses -> Nat]]
  BY <1>1 DEF ReportTypes
<1>13. outcome' \in {"running", "reported", "aborted"}
  BY <1>1
<1> HIDE DEF all
<1>14. \A i \in 1 .. Len(runs') : runs'[i].profile = Turn(i) /\ runs'[i].requests = Count
  BY <1>7, <1>10
<1> QED BY <1>7, <1>11, <1>12, <1>13, <1>14 DEF ReportTypes, all, Turn

LEMMA ReportTypesStep ==
  ASSUME LoadInv, ReportTypes, [Next]_vars
  PROVE  ReportTypes'
PROOF
<1>1. ASSUME UNCHANGED <<runs, answers>>,
             outcome' = outcome \/ (outcome = "running" /\ outcome' = "aborted")
      PROVE  ReportTypes'
  BY <1>1 DEF ReportTypes, Turn
<1>2. ASSUME NEW v \in Workers, Works(v)
      PROVE  ReportTypes'
  <2>1. CASE Begin(v) \/ Break(v)
    BY <2>1, <1>1 DEF Begin, Break
  <2>2. ASSUME NEW s \in Responses, Respond(v, s)
        PROVE  ReportTypes'
    <3>1. /\ runs' = runs /\ outcome' = outcome
          /\ answers' = [answers EXCEPT ![Profile][s] = @ + 1]
      BY <2>2 DEF Respond
    <3>2. answers' \in [Range(Profiles) -> [Responses -> Nat]]
      <4>1. answers \in [Range(Profiles) -> [Responses -> Nat]]
        BY DEF ReportTypes
      <4>2. PICK p : p = Profile
        OBVIOUS
      <4>3. answers' = [answers EXCEPT ![p] = [answers[p] EXCEPT ![s] = @ + 1]]
        BY <3>1, <4>2
      <4>4. \A q \in Range(Profiles) :
              [answers[q] EXCEPT ![s] = @ + 1] \in [Responses -> Nat]
        BY <4>1
      <4> QED BY <4>1, <4>3, <4>4
    <3> QED BY <3>1, <3>2 DEF ReportTypes, Turn
  <2> QED BY <1>2, <2>1, <2>2 DEF Works
<1>3. CASE GiveUp \/ UNCHANGED vars
  BY <1>1, <1>3 DEF GiveUp, vars
<1> QED BY <1>2, <1>3, ReportTypesFinish DEF Next

LEMMA BooksStep ==
  ASSUME LoadInv, ReportTypes, BooksInv, [Next]_vars
  PROVE  BooksInv'
PROOF
<1>1. ASSUME FinishRun
      PROVE  /\ Requested[Summarize(samples)] = Weigh(OfAll, samples)
             /\ Succeeded[Summarize(samples)] = Weigh(OfSuccess, samples)
             /\ Cost[Summarize(samples)] = Weigh(OfCost, samples)
             /\ Fallbacks[Summarize(samples)] = Weigh(OfFallbacks, samples)
             /\ \A n \in Named :
                  Distributed(n)[Summarize(samples)] = Weigh(OfProvider(n), samples)
  <2>1. samples \in Seq(Responses) /\ outcome # "reported"
    BY <1>1 DEF LoadInv, LoadTypes, FinishRun
  <2> QED BY <2>1, ProfileTyped, SummaryWeighs
<1>2. Balance(OfAll, Requested)'
  BY <1>1, WeightsTyped, BalanceStep DEF BooksInv
<1>3. Balance(OfSuccess, Succeeded)'
  BY <1>1, WeightsTyped, BalanceStep DEF BooksInv
<1>4. Balance(OfCost, Cost)'
  BY <1>1, WeightsTyped, BalanceStep DEF BooksInv
<1>5. Balance(OfFallbacks, Fallbacks)'
  BY <1>1, WeightsTyped, BalanceStep DEF BooksInv
<1>6. ASSUME NEW n \in Named
      PROVE  Balance(OfProvider(n), Distributed(n))'
  BY <1>1, WeightsTyped, BalanceStep DEF BooksInv
<1> QED BY <1>2, <1>3, <1>4, <1>5, <1>6 DEF BooksInv

LEMMA BooksInvariance == Spec => [](ReportTypes /\ BooksInv)
PROOF
<1>1. Init => ReportTypes /\ BooksInv
  <2> SUFFICES ASSUME Init PROVE BooksInv
    BY ReportTypesInit
  <2> QED BY WeightsTyped, BalanceInit DEF BooksInv
<1>2. LoadInv /\ ReportTypes /\ BooksInv /\ [Next]_vars => (ReportTypes /\ BooksInv)'
  BY ReportTypesStep, BooksStep
<1> QED BY <1>1, <1>2, LoadInvariance, PTL DEF Spec

-----------------------------------------------------------------------------
(* The report                                                              *)

\* The runs of a profile are those of its turn.
LEMMA RunsOfEach ==
  ASSUME ReportTypes, outcome = "reported", NEW p \in Range(Profiles)
  PROVE  Cardinality(RunsOf(p)) = Repetitions
PROOF
<1> DEFINE l == Len(Profiles)
           r == Repetitions
           n == Len(runs)
<1>1. /\ l \in Nat \ {0} /\ r \in Nat \ {0} /\ DOMAIN Profiles = 1 .. l
  BY Dimensions
<1>2. n \in Nat /\ n = l * r /\ DOMAIN runs = 1 .. n
  BY DEF ReportTypes
<1>3. \A i \in 1 .. n : runs[i].profile = Profiles[((i - 1) \div r) + 1]
  BY DEF ReportTypes, Turn
<1>4. PICK k \in 1 .. l : Profiles[k] = p
  BY <1>1 DEF Range
<1>5. \A i, j \in 1 .. l : Profiles[i] = Profiles[j] => i = j
  BY <1>1, LoadAssumption DEF IsInjective
<1> HIDE DEF l, r, n
<1> DEFINE low == (k - 1) * r
<1>6. low \in Nat /\ k * r = low + r /\ low + r <= n
  <2>1. k - 1 \in Nat /\ k \in Nat /\ k <= l
    BY <1>1
  <2>2. low \in Nat /\ k * r \in Nat
    BY <1>1, <2>1
  <2>3. k * r = low + r
    BY <1>1, <2>1
  <2>4. k * r <= l * r
    BY <1>1, <2>1
  <2> QED BY <1>2, <2>2, <2>3, <2>4
<1>7. ASSUME NEW i \in 1 .. n
      PROVE  runs[i].profile = p <=> low <= i - 1 /\ i - 1 < low + r
  <2> DEFINE a == i - 1
             q == a \div r
  <2>1. a \in Nat /\ a < l * r
    BY <1>2
  <2>2. q \in Nat /\ q < l
    BY <1>1, <2>1, Division
  <2>3. k - 1 \in Nat /\ (k - 1) + 1 = k
    BY <1>1
  <2>4. low <= a /\ a < k * r <=> q = k - 1
    <3> HIDE DEF a
    <3> QED BY <1>1, <2>1, <2>3, Division
  <2>5. runs[i].profile = Profiles[q + 1]
    BY <1>3
  <2> HIDE DEF q, a, low
  <2>6. q + 1 \in 1 .. l
    BY <1>1, <2>2
  <2>7. Profiles[q + 1] = p <=> q + 1 = k
    BY <1>4, <1>5, <2>6
  <2>8. q + 1 = k <=> q = k - 1
    BY <2>2, <2>3
  <2> QED BY <1>6, <2>4, <2>5, <2>7, <2>8 DEF a
<1> HIDE DEF low
<1>8. RunsOf(p) = low + 1 .. low + r
  <2>1. RunsOf(p) = {i \in 1 .. n : runs[i].profile = p}
    BY <1>2 DEF RunsOf
  <2>2. \A i \in low + 1 .. low + r : i \in 1 .. n /\ low <= i - 1 /\ i - 1 < low + r
    BY <1>1, <1>2, <1>6
  <2>3. \A i \in 1 .. n : low <= i - 1 /\ i - 1 < low + r => i \in low + 1 .. low + r
    BY <1>1, <1>2, <1>6
  <2> QED BY <1>7, <2>1, <2>2, <2>3
<1>9. Cardinality(low + 1 .. low + r) = r
  <2>1. low + 1 \in Int /\ low + r \in Int
    BY <1>1, <1>6
  <2>2. Cardinality(low + 1 .. low + r)
          = IF low + 1 > low + r THEN 0 ELSE (low + r) - (low + 1) + 1
    BY <2>1, FS_Interval
  <2> QED BY <1>1, <1>6, <2>2
<1> QED BY <1>8, <1>9 DEF r

\* Answers that weigh nothing may be left out of a sum over them.
LEMMA GivenWithin ==
  ASSUME ReportTypes, NEW w \in Weights, NEW p \in Range(Profiles),
         NEW T, T \subseteq Responses, NEW g,
         g \in [T -> Nat], \A s \in T : g[s] = answers[p][s] * w[s],
         \A s \in Responses \ T : w[s] = 0
  PROVE  Total(g) = Given(w, p)
PROOF
<1> DEFINE f == [s \in Responses |-> answers[p][s] * w[s]]
<1>1. \A s \in Responses : answers[p][s] \in Nat /\ w[s] \in Nat
  BY DEF ReportTypes, Weights
<1>2. f \in [Responses -> Nat]
  <2>1. \A s \in Responses : answers[p][s] * w[s] \in Nat
    BY <1>1
  <2> QED BY <2>1
<1>3. \A s \in T : g[s] = f[s]
  OBVIOUS
<1>4. \A s \in Responses \ T : f[s] = 0
  BY <1>1
<1>5. Given(w, p) = Total(f)
  BY DEF Given
<1> HIDE DEF f
<1>6. Without(Responses, f, T, g)
  BY <1>2, <1>3, <1>4, LoadAssumption DEF Without
<1> QED BY <1>5, <1>6, TotalWithin

\* ReportIsComplete (run_matrix, aggregate_runs): what the report says of a
\* profile is all that the gateway answered to it, over all its runs, for
\* any number of profiles, runs, requests and workers and any answers.
THEOREM ReportsAreComplete == Spec => []ReportIsComplete
PROOF
<1>1. ReportTypes /\ BooksInv => ReportIsComplete
  <2> SUFFICES ASSUME ReportTypes, BooksInv, outcome = "reported",
                      NEW p \in Range(Profiles)
               PROVE  LET a == Aggregate(p)
                          given == answers[p]
                      IN  /\ a.requests = Repetitions * Count
                          /\ a.requests = Total(given)
                          /\ a.successful = Total([s \in Served |-> given[s]])
                          /\ a.cost = Total([s \in Served |-> given[s] * s.cost])
                          /\ a.fallbacks = Total([s \in Served |-> given[s] * s.fallbacks])
                          /\ \A n \in Named :
                               a.distribution[n]
                                 = Total([s \in {t \in Served : t.provider = n} |-> given[s]])
    BY DEF ReportIsComplete
  <2> DEFINE a == Aggregate(p)
             mine == RunsOf(p)
             given == answers[p]
             of(n) == {t \in Served : t.provider = n}
  <2>1. ASSUME NEW w \in Weights, NEW field \in Fields, Balance(w, field)
        PROVE  Recorded(field, p) = Given(w, p)
    <3>1. Recorded(field, p) \in Nat /\ Given(w, p) \in Nat
      BY SumsTyped
    <3>2. Recorded(field, p) + 0 = Given(w, p)
      BY <2>1 DEF Balance, Pending
    <3> QED BY <3>1, <3>2
  <2>2. \A i \in mine : runs[i] \in Summaries /\ runs[i].requests = Count
    <3>1. runs \in Seq(Summaries) /\ mine \subseteq 1 .. Len(runs)
      BY WeightsTyped, SumsTyped DEF ReportTypes
    <3> QED BY <3>1 DEF ReportTypes
  <2>3. /\ a.requests = Recorded(Requested, p)
        /\ a.successful = Recorded(Succeeded, p)
        /\ a.cost = Recorded(Cost, p)
        /\ a.fallbacks = Recorded(Fallbacks, p)
        /\ \A n \in Named : a.distribution[n] = Recorded(Distributed(n), p)
    <3>1. /\ a.requests = Total([i \in mine |-> runs[i].requests])
          /\ a.successful = Total([i \in mine |-> runs[i].successful])
          /\ a.cost = Total([i \in mine |-> runs[i].cost])
          /\ a.fallbacks = Total([i \in mine |-> runs[i].fallbacks])
          /\ \A n \in Named :
               a.distribution[n] = Total([i \in mine |-> runs[i].distribution[n]])
      BY DEF Aggregate, Added
    <3>2. /\ [i \in mine |-> runs[i].requests] = [i \in mine |-> Requested[runs[i]]]
          /\ [i \in mine |-> runs[i].successful] = [i \in mine |-> Succeeded[runs[i]]]
          /\ [i \in mine |-> runs[i].cost] = [i \in mine |-> Cost[runs[i]]]
          /\ [i \in mine |-> runs[i].fallbacks] = [i \in mine |-> Fallbacks[runs[i]]]
      BY <2>2 DEF Requested, Succeeded, Cost, Fallbacks
    <3>3. \A n \in Named : [i \in mine |-> runs[i].distribution[n]]
                             = [i \in mine |-> Distributed(n)[runs[i]]]
      BY <2>2 DEF Distributed
    <3> HIDE DEF a
    <3> QED BY <3>1, <3>2, <3>3 DEF Recorded
  <2>4. /\ \A s \in Responses : /\ given[s] \in Nat
                                /\ s.cost \in Nat /\ s.fallbacks \in Nat
        /\ given \in [Responses -> Nat]
        /\ Served \subseteq Responses
    BY LoadAssumption DEF ReportTypes, Served
  <2>5. \A s \in Responses : /\ given[s] * 1 = given[s]
                             /\ given[s] * s.cost \in Nat
                             /\ given[s] * s.fallbacks \in Nat
    BY <2>4
  <2>6. Recorded(Requested, p) = Repetitions * Count
    <3>1. [i \in mine |-> Requested[runs[i]]] = [i \in mine |-> Count]
      BY <2>2 DEF Requested
    <3>2. IsFiniteSet(mine)
      BY WeightsTyped, SumsTyped
    <3>3. Cardinality(mine) = Repetitions
      BY RunsOfEach
    <3>4. Count \in Nat
      BY Dimensions
    <3> HIDE DEF mine
    <3>5. Total([i \in mine |-> Count]) = Cardinality(mine) * Count
      BY <3>2, <3>4, TotalConstant
    <3> QED BY <3>1, <3>3, <3>5 DEF Recorded, mine
  <2>7. Total(given) = Given(OfAll, p)
    <3>1. \A s \in Responses : given[s] = given[s] * OfAll[s]
      BY <2>5 DEF OfAll
    <3> HIDE DEF given
    <3> QED BY <2>4, <3>1, WeightsTyped, GivenWithin DEF given
  <2>8. Total([s \in Served |-> given[s]]) = Given(OfSuccess, p)
    <3> DEFINE g == [s \in Served |-> given[s]]
    <3>1. /\ g \in [Served -> Nat]
          /\ \A s \in Served : g[s] = given[s] * OfSuccess[s]
          /\ \A s \in Responses \ Served : OfSuccess[s] = 0
      BY <2>4, <2>5 DEF OfSuccess
    <3> HIDE DEF g
    <3>2. Total(g) = Given(OfSuccess, p)
      BY <2>4, <3>1, WeightsTyped, GivenWithin
    <3> QED BY <3>2 DEF g
  <2>9. Total([s \in Served |-> given[s] * s.cost]) = Given(OfCost, p)
    <3> DEFINE g == [s \in Served |-> given[s] * s.cost]
    <3>1. /\ g \in [Served -> Nat]
          /\ \A s \in Served : g[s] = given[s] * OfCost[s]
          /\ \A s \in Responses \ Served : OfCost[s] = 0
      BY <2>4, <2>5 DEF OfCost
    <3> HIDE DEF g
    <3>2. Total(g) = Given(OfCost, p)
      BY <2>4, <3>1, WeightsTyped, GivenWithin
    <3> QED BY <3>2 DEF g
  <2>10. Total([s \in Served |-> given[s] * s.fallbacks]) = Given(OfFallbacks, p)
    <3> DEFINE g == [s \in Served |-> given[s] * s.fallbacks]
    <3>1. /\ g \in [Served -> Nat]
          /\ \A s \in Served : g[s] = given[s] * OfFallbacks[s]
          /\ \A s \in Responses \ Served : OfFallbacks[s] = 0
      BY <2>4, <2>5 DEF OfFallbacks
    <3> HIDE DEF g
    <3>2. Total(g) = Given(OfFallbacks, p)
      BY <2>4, <3>1, WeightsTyped, GivenWithin
    <3> QED BY <3>2 DEF g
  <2>11. ASSUME NEW n \in Named
         PROVE  Total([s \in of(n) |-> given[s]]) = Given(OfProvider(n), p)
    <3> DEFINE T == of(n)
               g == [s \in T |-> given[s]]
    <3>1. /\ T \subseteq Responses /\ g \in [T -> Nat]
          /\ \A s \in T : g[s] = given[s] * OfProvider(n)[s]
          /\ \A s \in Responses \ T : OfProvider(n)[s] = 0
      BY <2>4, <2>5 DEF OfProvider
    <3> HIDE DEF T, g
    <3>2. Total(g) = Given(OfProvider(n), p)
      BY <3>1, WeightsTyped, GivenWithin
    <3> QED BY <3>2 DEF T, g
  <2>12. /\ Recorded(Requested, p) = Given(OfAll, p)
         /\ Recorded(Succeeded, p) = Given(OfSuccess, p)
         /\ Recorded(Cost, p) = Given(OfCost, p)
         /\ Recorded(Fallbacks, p) = Given(OfFallbacks, p)
         /\ \A n \in Named : Recorded(Distributed(n), p) = Given(OfProvider(n), p)
    BY <2>1, WeightsTyped DEF BooksInv
  <2> HIDE DEF a, of, given
  <2>13. \A n \in Named : a.distribution[n] = Total([s \in of(n) |-> given[s]])
    BY <2>3, <2>11, <2>12
  <2>14. /\ a.requests = Repetitions * Count /\ a.requests = Total(given)
         /\ a.successful = Total([s \in Served |-> given[s]])
         /\ a.cost = Total([s \in Served |-> given[s] * s.cost])
         /\ a.fallbacks = Total([s \in Served |-> given[s] * s.fallbacks])
    BY <2>3, <2>6, <2>7, <2>8, <2>9, <2>10, <2>12
  <2> QED BY <2>13, <2>14 DEF a, of, given
<1> QED BY <1>1, BooksInvariance, PTL
=============================================================================
