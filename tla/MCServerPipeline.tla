-------------------------- MODULE MCServerPipeline --------------------------
(* Instances of ServerPipeline for TLC: the constants are numbers, so the   *)
(* cfg gives them directly.                                                *)
EXTENDS ServerPipeline
=============================================================================
