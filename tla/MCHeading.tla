------------------------------ MODULE MCHeading ------------------------------
(* Values for TLC.  The alignment targets of the red alliance, 0, -90, 414 *)
(* and 306, and one of the blue alliance, -234, on a grid of 30 degrees.   *)
EXTENDS Heading

MCTargets == {0, -90, 420, 300, -240}
MCStarts  == {180, -90}
=============================================================================
