--------------------------- MODULE LoadGenerator ---------------------------
(***************************************************************************)
(* The load benchmark (evaluation/load.py): run_matrix runs every profile  *)
(* several times; in a run, run_load's workers share a queue of requests   *)
(* and add a sample for each to a list; the lists are summarised and the   *)
(* summaries aggregated per profile.                                       *)
(*                                                                         *)
(* A worker suspends only in client.post, so that taking the next request  *)
(* belongs to the step that adds the sample before.  An answer with status *)
(* 200 whose body is not a completion raises in its worker, gather passes  *)
(* that on, and the program ends without a report, as it does when the     *)
(* gateway is not ready or a cost in an answer is not a number.  Means,    *)
(* rates and times of whole runs are left out; percentiles are computed    *)
(* exactly.                                                                *)
(***************************************************************************)
EXTENDS Integers, Sequences, SequencesExt

CONSTANTS
  Profiles,      \* the profiles of the matrix, in order
  Repetitions,   \* runs of each
  Count,         \* requests of a run
  Concurrency,
  Responses      \* answers and HTTP errors, as the samples they become

ASSUME LoadAssumption ==
  /\ Profiles \in Seq(Range(Profiles)) /\ Profiles # <<>> /\ IsInjective(Profiles)
  /\ {Repetitions, Count, Concurrency} \subseteq Nat \ {0}
  /\ IsFiniteSet(Responses)
  /\ \A s \in Responses : {s.latency, s.cost, s.fallbacks} \subseteq Nat

VARIABLES
  queue,         \* numbers of the requests that nobody has taken
  worker,        \* the request being sent, or New, or Returned
  samples,
  runs,          \* summaries of the runs that are over
  outcome,       \* "running", "reported" or "aborted"
  sampled,       \* history: the requests the samples are of
  answers        \* history: how many of each response each profile was given

vars == <<queue, worker, samples, runs, outcome, sampled, answers>>

New == 0
Returned == Count + 1

Workers == 1 .. Min({Concurrency, Count})
Numbers == [i \in 1 .. Count |-> i]
Profile == Profiles[(Len(runs) \div Repetitions) + 1]

-----------------------------------------------------------------------------
(* The arithmetic of the report                                            *)

\* Rounded down instead of up.
RankBelow(n, quantile) == Max({1, (quantile * n) \div 100})

Rank(n, quantile) == Max({1, (quantile * n + 99) \div 100})

\* sorted(): where the values are found, from the least to the greatest.
Order(values) ==
  CHOOSE o \in [1 .. Cardinality(DOMAIN values) -> DOMAIN values] :
    \A i, j \in DOMAIN o : i < j => o[i] # o[j] /\ values[o[i]] <= values[o[j]]

\* The nearest-rank percentile, quantile in hundredths.
Percentile(values, quantile) ==
  IF DOMAIN values = {} THEN 0
  ELSE values[Order(values)[Rank(Cardinality(DOMAIN values), quantile)]]

\* The sum of a function's values, as the number of their units.
Total(f) == Cardinality(UNION {{x} \X (1 .. f[x]) : x \in DOMAIN f})

Successes(ss) == {i \in DOMAIN ss : ss[i].status = 200}
Latencies(ss) == [i \in Successes(ss) |-> ss[i].latency]
Served == {s \in Responses : s.status = 200}
Named == {s.provider : s \in Served}

Summarize(ss) ==
  LET ok == Successes(ss)
  IN  [profile |-> Profile, requests |-> Len(ss), successful |-> Cardinality(ok),
       p50 |-> Percentile(Latencies(ss), 50), p95 |-> Percentile(Latencies(ss), 95),
       cost |-> Total([i \in ok |-> ss[i].cost]),
       distribution |-> [p \in Named |-> Cardinality({i \in ok : ss[i].provider = p})],
       fallbacks |-> Total([i \in ok |-> ss[i].fallbacks])]

RunsOf(profile) == {i \in DOMAIN runs : runs[i].profile = profile}

\* What a list of runs adds up to.
Added(mine) ==
  [requests |-> Total([i \in mine |-> runs[i].requests]),
   successful |-> Total([i \in mine |-> runs[i].successful]),
   cost |-> Total([i \in mine |-> runs[i].cost]),
   fallbacks |-> Total([i \in mine |-> runs[i].fallbacks]),
   distribution |-> [p \in Named |-> Total([i \in mine |-> runs[i].distribution[p]])]]

\* Only the last run of the profile is kept.
AggregateLast(profile) == Added({Max(RunsOf(profile))})

Aggregate(profile) == Added(RunsOf(profile))

-----------------------------------------------------------------------------
(* The runs                                                                *)

Init ==
  /\ queue = Numbers
  /\ worker = [w \in Workers |-> New]
  /\ samples = <<>> /\ sampled = <<>>
  /\ runs = <<>>
  /\ outcome = "running"
  /\ answers = [p \in Range(Profiles) |-> [s \in Responses |-> 0]]

Busy(w) == worker[w] \in 1 .. Count

\* get_nowait: the next request, or the end of the worker.
TakeFrom(q, w) ==
  IF q = <<>> THEN /\ worker' = [worker EXCEPT ![w] = Returned]
                   /\ queue' = q
  ELSE /\ worker' = [worker EXCEPT ![w] = Head(q)]
       /\ queue' = Tail(q)

Begin(w) ==
  /\ outcome = "running" /\ worker[w] = New
  /\ TakeFrom(queue, w)
  /\ UNCHANGED <<samples, runs, outcome, sampled, answers>>

Sample(w, s) ==
  /\ samples' = Append(samples, s)
  /\ sampled' = Append(sampled, worker[w])

\* A request that was not answered leaves no sample.
RespondDropping(w, s) ==
  /\ outcome = "running" /\ Busy(w)
  /\ answers' = [answers EXCEPT ![Profile][s] = @ + 1]
  /\ IF s.status = 0 THEN UNCHANGED <<samples, sampled>> ELSE Sample(w, s)
  /\ TakeFrom(queue, w)
  /\ UNCHANGED <<runs, outcome>>

\* A request that was not answered is sent again.
RespondRetrying(w, s) ==
  /\ outcome = "running" /\ Busy(w)
  /\ IF s.status = 0
     THEN /\ TakeFrom(Append(queue, worker[w]), w)
          /\ UNCHANGED <<samples, sampled, answers>>
     ELSE /\ answers' = [answers EXCEPT ![Profile][s] = @ + 1]
          /\ Sample(w, s)
          /\ TakeFrom(queue, w)
  /\ UNCHANGED <<runs, outcome>>

\* Every answer becomes a sample, and so does a request without one.
Respond(w, s) ==
  /\ outcome = "running" /\ Busy(w)
  /\ answers' = [answers EXCEPT ![Profile][s] = @ + 1]
  /\ Sample(w, s)
  /\ TakeFrom(queue, w)
  /\ UNCHANGED <<runs, outcome>>

\* The body of an answer is not what was expected.
Break(w) ==
  /\ outcome = "running" /\ Busy(w)
  /\ outcome' = "aborted"
  /\ UNCHANGED <<queue, worker, samples, runs, sampled, answers>>

\* The gateway is not ready when the matrix begins, or a cost among the samples
\* is not a number.
GiveUp ==
  /\ outcome = "running"
  /\ \/ runs = <<>> /\ \A w \in Workers : worker[w] = New
     \/ Successes(samples) # {} /\ \A w \in Workers : worker[w] = Returned
  /\ outcome' = "aborted"
  /\ UNCHANGED <<queue, worker, samples, runs, sampled, answers>>

\* gather returns; the next run begins, or the report is made.
FinishRun ==
  /\ outcome = "running"
  /\ \A w \in Workers : worker[w] = Returned
  /\ runs' = Append(runs, Summarize(samples))
  /\ IF Len(runs') = Len(Profiles) * Repetitions
     THEN /\ outcome' = "reported"
          /\ UNCHANGED <<queue, worker, samples, sampled>>
     ELSE /\ queue' = Numbers
          /\ worker' = [w \in Workers |-> New]
          /\ samples' = <<>> /\ sampled' = <<>>
          /\ UNCHANGED outcome
  /\ UNCHANGED answers

Works(w) == Begin(w) \/ Break(w) \/ \E s \in Responses : Respond(w, s)

Next == FinishRun \/ GiveUp \/ \E w \in Workers : Works(w)

\* The loop runs what is ready, and every post ends: its client's timeout is for
\* each read, and an answer of the gateway arrives whole or not at all.
Fairness == WF_vars(FinishRun) /\ \A w \in Workers : WF_vars(Works(w))

Spec == Init /\ [][Next]_vars /\ Fairness
-----------------------------------------------------------------------------
\* While nothing has broken, every request of a run is in exactly one place:
\* still queued, being sent by one worker, or in the samples.
EveryRequestOnce ==
  outcome # "aborted" =>
    LET sent == {w \in Workers : Busy(w)}
    IN  /\ Range(queue) \cup {worker[w] : w \in sent} \cup Range(sampled)
             = Range(Numbers)
        /\ Len(queue) + Cardinality(sent) + Len(sampled) = Count
        /\ Len(samples) = Len(sampled)

\* Whatever samples there are, a percentile is one of their latencies; at
\* least that share of them is not above it, and less than that share below.
NearestRank ==
  LET ok == Successes(samples)
      values == Latencies(samples)
  IN  ok # {} =>
        \A quantile \in {50, 95, 99} :
          LET value == Percentile(values, quantile)
          IN  /\ value \in Range(values)
              /\ 100 * Cardinality({i \in ok : values[i] <= value})
                   >= quantile * Cardinality(ok)
              /\ 100 * Cardinality({i \in ok : values[i] < value})
                   < quantile * Cardinality(ok)

\* The report accounts for everything the gateway answered: for each profile,
\* over all its runs, the requests, successes, costs, providers and fallbacks.
ReportIsComplete ==
  outcome = "reported" =>
    \A profile \in Range(Profiles) :
      LET a == Aggregate(profile)
          given == answers[profile]
      IN  /\ a.requests = Repetitions * Count
          /\ a.requests = Total(given)
          /\ a.successful = Total([s \in Served |-> given[s]])
          /\ a.cost = Total([s \in Served |-> given[s] * s.cost])
          /\ a.fallbacks = Total([s \in Served |-> given[s] * s.fallbacks])
          /\ \A p \in Named :
               a.distribution[p]
                 = Total([s \in {t \in Served : t.provider = p} |-> given[s]])

\* The matrix ends, with its report or with the error of a worker.
MatrixEnds == <>(outcome # "running")
=============================================================================
