---------------------------- MODULE MCFrameQueue ----------------------------
(* Instances of FrameQueue for TLC.                                        *)
EXTENDS FrameQueue

CONSTANTS y1, y2, y3, y4, y5

FivePictures == {y1, y2, y3, y4, y5}
=============================================================================
