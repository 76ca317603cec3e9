------------------------- MODULE MCCloudValidation -------------------------
(* Instances of CloudValidation for TLC: environments that configure the    *)
(* paid provider completely, and all that differ from one of them in one    *)
(* variable.                                                                *)
EXTENDS CloudValidation

CONSTANTS t1, t2, o1

TheRequests == {t1, t2, o1}
TheTrial == <<t1, t2>>

Nothing == [v \in Variables |-> Unset]

Paid ==
  [Nothing EXCEPT !["AWS_BEDROCK_ENABLED"] = "yes",
                  !["AWS_BEDROCK_MODEL_ID"] = "model",
                  !["INPUT_COST"] = 1,
                  !["OUTPUT_COST"] = 2,
                  !["AWS_SESSION_BUDGET_USD"] = Limit]

\* What else may be written into a variable: mistakes, and other choices.
Words(v) ==
  CASE v \in {"INPUT_COST", "OUTPUT_COST", "AWS_SESSION_BUDGET_USD"} ->
         {Unset, Junk, -1, 0}
    [] v = "AWS_BEDROCK_MODEL_ALIAS" -> {"", "mock-fast", "other"}
    [] v = "AWS_BEDROCK_MODEL_ID" -> {Unset, ""}
    [] v = "OLLAMA_MODEL_ALIAS" -> {}
    [] OTHER -> {"off", "maybe"}

Local ==
  [Nothing EXCEPT !["OLLAMA_ENABLED"] = "on",
                  !["OLLAMA_MODEL_ALIAS"] = "bedrock-primary"]

TheEnvironments ==
  {Nothing, Paid, Local}
    \cup UNION {{[Paid EXCEPT ![v] = w] : w \in Words(v)} : v \in Variables}
=============================================================================
