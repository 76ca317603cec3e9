-------------------------- MODULE CloudValidation --------------------------
(***************************************************************************)
(* A deployed gateway and the scripts that validate it                     *)
(* (evaluation/cloud.py, scripts/validate_bedrock.py and                   *)
(* validate_cloud_gateway.py), beside the gateway's other clients.  The    *)
(* free validation makes sure of the configuration and posts to a mock;    *)
(* the paid one posts the same small prompt to Bedrock, one request after  *)
(* the other, and keeps books of its own from what the responses say,      *)
(* which it stops by.  The spending guard is BedrockProvider; who is       *)
(* registered at all is Configuration; the gateway is what it makes of     *)
(* these two and its response cache, which is asked before the provider.   *)
(***************************************************************************)
EXTENDS BedrockProvider, Configuration, SequencesExt

CONSTANTS
  Trial,           \* the requests of a validation, in order
  CostCeiling,     \* maximum_total_estimated_cost_usd
  Environments     \* what the gateway may be started with

ASSUME TrialAssumption ==
  /\ Trial \in Seq(Requests) /\ Trial # <<>> /\ IsInjective(Trial)
  /\ CostCeiling \in Nat \ {0}

\* Limit is the budget that an environment with Bedrock sets.
ASSUME EnvironmentAssumption ==
  \A e \in Environments :
    Starts(e) /\ Settings(e).bedrock => Settings(e).budget = Limit

VARIABLES
  env,        \* the environment of the gateway's process
  gateway,    \* what the gateway is after reading it
  kind,       \* which validation is run
  client,     \* where it is
  asked,      \* how many requests it has posted
  counted,    \* spent: the costs it was told
  samples,    \* status and cost of every answer
  stored,     \* the cost in the cached response to the prompt, if there is one
  price       \* history: what each request was settled for

books == <<asked, counted, samples>>
deployment == <<env, gateway, kind>>
validation == <<deployment, client, books, stored, price>>
all == <<vars, validation>>

NoCost == -1    \* nothing is cached

Ended == {"reported", "refused", "broken"}

\* create_app: what is switched on, and who serves the two models asked for.
CreateApp(e) ==
  LET s == Settings(e)
  IN  [serves |-> Starts(e), mock |-> s.mock, ollama |-> s.ollama,
       bedrock |-> s.bedrock, budget |-> s.budget, cache |-> s.cache,
       models |-> [m \in {"mock-fast", "bedrock-primary"} |-> Resolve(e, m)]]

CloudInit ==
  /\ Init
  /\ env \in Environments
  /\ gateway = CreateApp(env)
  /\ kind \in {"free", "paid"}
  /\ client = "idle"
  /\ asked = 0 /\ counted = 0 /\ samples = <<>>
  /\ stored = NoCost
  /\ price = [r \in Requests |-> 0]

-----------------------------------------------------------------------------
(* The scripts.                                                            *)

\* What makes a validation go on to its requests.
Accepts ==
  /\ gateway.serves
  /\ IF kind = "free"
     THEN /\ gateway.mock /\ ~gateway.ollama /\ ~gateway.bedrock
          /\ gateway.budget = 0
     ELSE gateway.models["bedrock-primary"] \in {"ollama-local", "aws-bedrock"}

Check ==
  /\ client = "idle"
  /\ client' = IF Accepts THEN "asking" ELSE "refused"
  /\ UNCHANGED <<vars, deployment, books, stored, price>>

\* The ceiling is not looked at before the last request.
MoreToAskOfTrial == asked < Len(Trial)

MoreToAsk == asked < Len(Trial) /\ (kind = "paid" => counted < CostCeiling)

Post ==
  /\ client = "asking" /\ MoreToAsk
  /\ client' = "waiting"
  /\ asked' = asked + 1
  /\ UNCHANGED <<vars, deployment, counted, samples, stored, price>>

Report ==
  /\ client = "asking" /\ ~MoreToAsk
  /\ client' = "reported"
  /\ UNCHANGED <<vars, deployment, books, stored, price>>

\* Only the last cost is kept.
ReceiveLast(status, cost) ==
  /\ client' = "asking"
  /\ counted' = cost
  /\ samples' = Append(samples, [status |-> status, cost |-> cost])
  /\ UNCHANGED <<vars, deployment, asked, price>>

Receive(status, cost) ==
  /\ client' = "asking"
  /\ counted' = counted + cost
  /\ samples' = Append(samples, [status |-> status, cost |-> cost])
  /\ UNCHANGED <<vars, deployment, asked, price>>

-----------------------------------------------------------------------------
(* The gateway.                                                            *)

Model == IF kind = "free" THEN "mock-fast" ELSE "bedrock-primary"

Waiting == client = "waiting"
Current == Trial[asked]
Paying == Waiting /\ gateway.models[Model] = "aws-bedrock"

\* A mock or Ollama answers or fails: nothing is paid. What a mock says it
\* costs is left out, since the free validation compares it with nothing.
AnswerFree ==
  /\ Waiting /\ gateway.models[Model] # "aws-bedrock"
  /\ \E status \in {200, 503} : Receive(status, 0)
  /\ UNCHANGED stored

\* Every request but the first has a prompt that was asked before.
AnswerFromCache ==
  /\ Paying /\ phase[Current] = "new"
  /\ stored # NoCost
  /\ Receive(200, stored)
  /\ UNCHANGED stored

\* The runtime's circuit breaker, rate limiter or bulkhead rejects the call.
TurnAway ==
  /\ Paying /\ phase[Current] = "new" /\ stored = NoCost
  /\ Receive(503, 0)
  /\ UNCHANGED stored

AnswerServed ==
  /\ Paying /\ phase[Current] = "done"
  /\ Receive(200, price[Current])
  /\ stored' = IF gateway.cache THEN price[Current] ELSE NoCost

\* A request that was cut off gets no answer.
AnswerRaised ==
  /\ Paying /\ phase[Current] = "failed"
  /\ Receive(503, 0)
  /\ UNCHANGED stored

AnswerFailed ==
  /\ Paying /\ phase[Current] \in {"failed", "cancelled"}
  /\ Receive(503, 0)
  /\ UNCHANGED stored

Expire ==
  /\ stored # NoCost
  /\ stored' = NoCost
  /\ UNCHANGED <<vars, deployment, client, books, price>>

\* Whose turn it is: the validation's request, when the cache does not know the
\* answer, or one of another client.
Turn(r) ==
  IF r \in Range(Trial)
  THEN Paying /\ r = Current /\ (phase[r] = "new" => stored = NoCost)
  ELSE gateway.serves /\ gateway.bedrock

Work(r) ==
  /\ Turn(r)
  /\ Handles(r)
  /\ price' = IF phase'[r] = "done" THEN [price EXCEPT ![r] = charge[r]]
              ELSE price
  /\ UNCHANGED <<deployment, client, books, stored>>

\* The service, for its part.
Converse ==
  /\ \E r \in Requests, cost \in 0 .. (Limit + Overrun) : Serve(r, cost)
  /\ UNCHANGED validation

\* The process is replaced, and its memory with it, but a cache in Redis stays;
\* a post in progress raises.
Replace ==
  /\ Restart
  /\ client' = IF Waiting THEN "broken" ELSE client
  /\ stored' \in {stored, NoCost}
  /\ UNCHANGED <<deployment, books, price>>

Answer == AnswerFree \/ AnswerFromCache \/ TurnAway \/ AnswerServed \/ AnswerFailed

CloudNext ==
  \/ Check \/ Post \/ Report \/ Answer \/ Expire
  \/ \E r \in Requests : Work(r)
  \/ Converse \/ Replace

\* The script goes on, the gateway takes requests and answers, and the
\* deadlines of its runtime are served. Nothing is assumed of Bedrock.
Fairness ==
  /\ WF_all(Check \/ Post \/ Report)
  /\ WF_all(Answer)
  /\ WF_all(\E r \in Range(Trial) : Turn(r) /\ Cancel(r) /\ UNCHANGED validation)

CloudSpec == CloudInit /\ [][CloudNext]_all /\ Fairness
-----------------------------------------------------------------------------
\* The units that the requests in S were settled for.
TotalPrice(S) == Cardinality(UNION {{r} \X (1 .. price[r]) : r \in S})

\* Nothing is billed but on purpose: the environment has switched Bedrock on
\* and named a model, a budget and both prices, and no free validation has
\* found the gateway fit for its requests.
BilledOnPurpose ==
  billed > 0 =>
    /\ env["AWS_BEDROCK_ENABLED"] \in Yes
    /\ env["AWS_BEDROCK_MODEL_ID"] # Unset
    /\ \A name \in {"INPUT_COST", "OUTPUT_COST", "AWS_SESSION_BUDGET_USD"} :
         env[name] \notin {Unset, Junk, 0}
    /\ kind = "free" => client \in {"idle", "refused"}

\* The client's ceiling is passed by no more than the cost of the last answer.
CeilingPassedOnce ==
  kind = "paid" /\ samples # <<>> =>
    counted - Last(samples).cost < CostCeiling

\* The client's books never fall behind the gateway's: whatever was settled
\* for a request of the validation has been counted, but for the one whose
\* answer is still on its way or was lost in a restart; without a cache
\* nothing else has been.
BooksAgree ==
  LET open == IF client \in {"waiting", "broken"} THEN {Current} ELSE {}
      answered == TotalPrice(Range(Trial) \ open)
  IN  kind = "paid" =>
        /\ answered <= counted
        /\ ~gateway.cache => counted = answered

\* Every validation ends, with its report or without, whatever the service
\* does.
ValidationEnds == <>(client \in Ended)
=============================================================================
