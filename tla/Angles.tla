------------------------------- MODULE Angles -------------------------------
(***************************************************************************)
(* The angle arithmetic of the swerve drive, in whole degrees.             *)
(***************************************************************************)
EXTENDS Integers

Magnitude(a) == IF a < 0 THEN -a ELSE a

(* Two angles that point the same way, and along the same line.            *)
SameDirection(a, b) == (a - b) % 360 = 0
SameLine(a, b)      == (a - b) % 180 = 0

(* The remainder has the sign of the dividend.                             *)
fmod(a, b) == IF a < 0 THEN -((-a) % b) ELSE a % b

CoterminalDifference(angle, other_angle) ==
  LET difference == fmod(angle, 360) - fmod(other_angle, 360)
  IN  IF difference > 180 THEN difference - 360
      ELSE IF difference < -180 THEN difference + 360
      ELSE difference

(***************************************************************************)
(* calculateSteerPosition: the target is turned by half a turn, with the   *)
(* drive inverted, as often as it takes to be within a quarter turn of     *)
(* where the wheel is.                                                     *)
(***************************************************************************)
(* How many times the loops run, counted up or down.                       *)
HalfTurns(target_norm, current) ==
  LET ahead == target_norm - current
  IN  IF ahead > 90 THEN (ahead + 89) \div 180
      ELSE IF ahead < -90 THEN -((89 - ahead) \div 180)
      ELSE 0

SteerPosition(target_norm, current) == target_norm - 180 * HalfTurns(target_norm, current)
InvertDrive(target_norm, current)   == HalfTurns(target_norm, current) % 2 = 1

(* The sign of the cosine.                                                 *)
CosineSign(a) ==
  LET turned == a % 360
  IN  IF turned < 90 \/ turned > 270 THEN 1
      ELSE IF turned \in {90, 270} THEN 0
      ELSE -1
=============================================================================
