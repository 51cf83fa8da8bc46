------------------------------ MODULE MCDrive ------------------------------
(* A field of sixteen units, a robot that needs eight of them to stop from *)
(* its full speed of four, an odometry that is right or one unit off, two  *)
(* pieces of which the camera sees both, one or none, and a lock gain that *)
(* is the registered one, a half, or its opposite.                         *)
EXTENDS Drive

MCLockGains == {-1, 1}
MCDrifts == {0, 1}
MCPoints == {[point |-> 4, velocity |-> 0], [point |-> 13, velocity |-> 2]}
MCSightings == {<<>>, <<10>>, <<5>>, <<10, 5>>}
=============================================================================
