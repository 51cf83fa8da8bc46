-------------------------- MODULE MCSwerveSteering --------------------------
(* Values for TLC: negative numbers cannot be written in a configuration.  *)
EXTENDS SwerveSteering

(* Ahead, oblique, sideways and backward targets; encoder values ahead,    *)
(* aside, at the half turn and beyond the quarter turn.                    *)
MCDirections     == {0, 60, 90, 150, -120}
MCCancoderValues == {0, 30, 180, -150}
=============================================================================
