--------------------------- MODULE MCPacketQueue ---------------------------
(* Instance of PacketQueue for TLC.                                        *)
EXTENDS PacketQueue

CONSTANTS p1, p2, c1, c2, main

TwoProducers == {p1, p2}
TwoConsumers == {c1, c2}
=============================================================================
