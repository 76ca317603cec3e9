------------------------- MODULE MCBedrockProvider -------------------------
(* Instances of BedrockProvider for TLC.                                    *)
EXTENDS BedrockProvider, TLC

RequestSymmetry == Permutations(Requests)
=============================================================================
