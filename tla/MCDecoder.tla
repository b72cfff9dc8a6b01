------------------------------ MODULE MCDecoder ------------------------------
(* Instance of Decoder for TLC: the constants are numbers, so the cfg gives *)
(* them directly.                                                          *)
EXTENDS Decoder
=============================================================================
