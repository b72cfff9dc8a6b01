---------------------------- MODULE MCMppEncoder ----------------------------
(* Instance of MppEncoder for TLC: the constants are numbers, so the cfg    *)
(* gives them directly.                                                    *)
EXTENDS MppEncoder
=============================================================================
