------------------------------ MODULE MCFbdev ------------------------------
(* The display of the X server for TLC. *)
EXTENDS Fbdev

\* The first is two spans; with the second it is three, more than MaxBands, and the bounding
\* box is shipped.
MCShapes == {{<<0, 0>>, <<1, 2>>}, {<<1, 4>>}}
\* The second alone, once it has been drawn.
MCLoops == {{<<1, 4>>}}
MCSprites == {<<1, 2>>}
\* On the second span with its lower row only, and off the screen.
MCOrigins == {<<1, 1>>, <<1, 5>>}
=============================================================================
