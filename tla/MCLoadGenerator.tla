-------------------------- MODULE MCLoadGenerator --------------------------
(* Two profiles and answers of every kind: with and without a fallback,    *)
(* refused by the gateway, and not answered.                               *)
EXTENDS LoadGenerator

TwoProfiles == <<"adaptive", "round_robin">>

Answer(status, latency, provider, cost, fallbacks) ==
  [status |-> status, latency |-> latency, provider |-> provider,
   cost |-> cost, fallbacks |-> fallbacks]

SomeResponses ==
  {Answer(200, 1, "cheap", 1, 0), Answer(200, 3, "good", 4, 1),
   Answer(0, 2, "none", 0, 0)}
=============================================================================
