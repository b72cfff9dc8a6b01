--------------------------- MODULE MCServerStartup ---------------------------
(* ServerStartup for TLC: it has no constants, the ladder is the program's. *)
EXTENDS ServerStartup
=============================================================================
