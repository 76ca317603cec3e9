--------------------------- MODULE Configuration ---------------------------
(***************************************************************************)
(* From the environment to the providers of a gateway: Settings.from_env   *)
(* and validate (config.py), build_providers (providers/factory.py) and    *)
(* the uniqueness of model names (providers/registry.py).  An environment  *)
(* gives each variable a word, or leaves it out.  Of the settings, those   *)
(* that decide who may be called and what it may cost are modelled.        *)
(***************************************************************************)
EXTENDS Integers, Sequences

CONSTANTS Unset, Junk    \* model values: a variable left out, no number

Yes == {"1", "true", "yes", "on"}
No == {"0", "false", "no", "off"}

Variables ==
  {"MOCK_PROVIDERS_ENABLED", "OLLAMA_ENABLED", "OLLAMA_MODEL_ALIAS",
   "AWS_BEDROCK_ENABLED", "AWS_BEDROCK_MODEL_ID", "AWS_BEDROCK_MODEL_ALIAS",
   "INPUT_COST", "OUTPUT_COST", "AWS_SESSION_BUDGET_USD", "CACHE_ENABLED"}

Default ==
  [MOCK_PROVIDERS_ENABLED |-> "true", OLLAMA_ENABLED |-> "false",
   OLLAMA_MODEL_ALIAS |-> "ollama-local", AWS_BEDROCK_ENABLED |-> "false",
   AWS_BEDROCK_MODEL_ID |-> "", AWS_BEDROCK_MODEL_ALIAS |-> "bedrock-primary",
   INPUT_COST |-> 0, OUTPUT_COST |-> 0, AWS_SESSION_BUDGET_USD |-> 0,
   CACHE_ENABLED |-> "true"]

Word(env, name) == IF env[name] = Unset THEN Default[name] ELSE env[name]

\* parse_bool and parse_decimal raise on everything else.
ParsesBool(w) == w \in Yes \cup No
ParsesDecimal(w) == w # Junk /\ w >= 0

Parses(env) ==
  /\ \A name \in {"MOCK_PROVIDERS_ENABLED", "OLLAMA_ENABLED",
                  "AWS_BEDROCK_ENABLED", "CACHE_ENABLED"} :
       ParsesBool(Word(env, name))
  /\ \A name \in {"INPUT_COST", "OUTPUT_COST", "AWS_SESSION_BUDGET_USD"} :
       ParsesDecimal(Word(env, name))

Settings(env) ==
  [mock         |-> Word(env, "MOCK_PROVIDERS_ENABLED") \in Yes,
   ollama       |-> Word(env, "OLLAMA_ENABLED") \in Yes,
   ollamaAlias  |-> Word(env, "OLLAMA_MODEL_ALIAS"),
   bedrock      |-> Word(env, "AWS_BEDROCK_ENABLED") \in Yes,
   bedrockModel |-> Word(env, "AWS_BEDROCK_MODEL_ID"),
   bedrockAlias |-> Word(env, "AWS_BEDROCK_MODEL_ALIAS"),
   input        |-> Word(env, "INPUT_COST"),
   output       |-> Word(env, "OUTPUT_COST"),
   budget       |-> Word(env, "AWS_SESSION_BUDGET_USD"),
   cache        |-> Word(env, "CACHE_ENABLED") \in Yes]

\* The prices of the paid provider may be left at nothing.
ValidUnpriced(s) ==
  /\ s.mock \/ s.ollama \/ s.bedrock
  /\ s.ollama => s.ollamaAlias # ""
  /\ s.bedrock => /\ s.budget > 0
                  /\ s.bedrockModel # "" /\ s.bedrockAlias # ""

Valid(s) ==
  /\ s.mock \/ s.ollama \/ s.bedrock
  /\ s.ollama => s.ollamaAlias # ""
  /\ s.bedrock => /\ s.budget > 0
                  /\ s.bedrockModel # "" /\ s.bedrockAlias # ""
                  /\ s.input > 0 /\ s.output > 0

-----------------------------------------------------------------------------
Mock(model) == [provider |-> model, model |-> model]

\* The registered providers with their model, in the order of build_providers.
BuildProviders(s) ==
  (IF s.mock
   THEN <<Mock("mock-economy"), Mock("mock-fast"), Mock("mock-quality")>>
   ELSE <<>>)
  \o (IF s.ollama
      THEN <<[provider |-> "ollama-local", model |-> s.ollamaAlias]>>
      ELSE <<>>)
  \o (IF s.bedrock
      THEN <<[provider |-> "aws-bedrock", model |-> s.bedrockAlias]>>
      ELSE <<>>)

\* ProviderRegistry raises otherwise.
UniqueModels(ps) ==
  \A i, j \in 1 .. Len(ps) : i # j => ps[i].model # ps[j].model

\* create_app succeeds, and the gateway serves.
Starts(env) ==
  /\ Parses(env)
  /\ Valid(Settings(env))
  /\ UniqueModels(BuildProviders(Settings(env)))

\* resolve: the provider that serves a model.
Resolve(env, model) ==
  LET ps == BuildProviders(Settings(env))
      serving == {i \in 1 .. Len(ps) : ps[i].model = model}
  IN  IF serving = {} THEN "unknown"
      ELSE ps[CHOOSE i \in serving : TRUE].provider
=============================================================================
