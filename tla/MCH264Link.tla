----------------------------- MODULE MCH264Link -----------------------------
(* Instances of H264Link for TLC: the constants are numbers, so the cfg    *)
(* gives them directly.                                                    *)
EXTENDS H264Link
=============================================================================
