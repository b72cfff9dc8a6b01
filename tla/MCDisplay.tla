------------------------------ MODULE MCDisplay ------------------------------
(* Instance of Display for TLC. *)
EXTENDS Display

MCSides       == 1 .. 3
MCWindowSides == 0 .. 4

\* Two formats with the same planes, one with others, one SDL does not know.
MCFormats == {"YUV420P", "YUVJ420P", "NV12", "YUV444P"}
=============================================================================
