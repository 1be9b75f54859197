------------------------- MODULE MCPredictedClient -------------------------
(* Instances of PredictedClient small enough for TLC. *)
EXTENDS PredictedClient
=============================================================================
