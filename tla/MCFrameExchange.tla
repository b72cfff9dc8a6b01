-------------------------- MODULE MCFrameExchange --------------------------
(* Instances of FrameExchange for TLC.                                     *)
EXTENDS FrameExchange

CONSTANTS imx415, lcd, mpp, b1, b2, b3

BothWorkers  == {lcd, mpp}
ThreeBuffers == {b1, b2, b3}
=============================================================================
