------------------------- MODULE MCClientFirstFrame -------------------------
(* Instance of ClientFirstFrame for TLC. *)
EXTENDS ClientFirstFrame

\* Rows with and without padding, more and fewer lines than columns; an odd height
\* and width, and a driver that describes its rows wrongly.
MCFormats ==
    {[width |-> 2, height |-> 4, bytesperline |-> b] : b \in {2, 4}}
        \cup {[width |-> 4, height |-> h, bytesperline |-> b] : h \in {2, 4}, b \in {4, 6}}
        \cup {[width |-> 4, height |-> 2, bytesperline |-> 2],
              [width |-> 4, height |-> 3, bytesperline |-> 4],
              [width |-> 3, height |-> 2, bytesperline |-> 4]}

\* The LCD as large as the largest picture, with and without padding; narrower, so that
\* rows run into one another; lower, so that the last rows are past the mapping.
MCScreens == {[width |-> 4, height |-> 4, pitch |-> 16], [width |-> 4, height |-> 4, pitch |-> 20],
              [width |-> 3, height |-> 4, pitch |-> 12], [width |-> 5, height |-> 2, pitch |-> 20]}
=============================================================================
