-------------------------- MODULE SwerveKinematics --------------------------
(***************************************************************************)
(* SwerveOpenLoopCalculator, from the motion the robot shall make to the   *)
(* velocity of each wheel, and SwerveOdometryCalculator, from the way each *)
(* wheel has made to the robot's position.                                 *)
(***************************************************************************)
EXTENDS Vectors, FiniteSetsExt

CONSTANTS
  Horizontal, Forward,  (* the wheelbase                                   *)
  RotationIterDec       (* the rotation that is cut at a time              *)

ASSUME KinematicsAssumption ==
  /\ {Horizontal, Forward} \subseteq Nat
  /\ RotationIterDec \in Nat \ {0}

(* FR, FL, BL, BR; twice the way from the centre.                          *)
Modules == 1 .. 4
Location == << <<Horizontal, Forward>>, <<-Horizontal, Forward>>,
               <<-Horizontal, -Forward>>, <<Horizontal, -Forward>> >>

(* What the calculator is asked: the translation over the field, the       *)
(* rotation, the bearing, the speed no wheel may exceed, and whether       *)
(* rotation is given up for it.                                            *)
Asked(translation, rotation, bearing, max_speed, cut) ==
  [translation |-> translation, rotation |-> rotation, bearing |-> bearing,
   max_speed |-> max_speed, cut |-> cut]

(* In the robot's frame, in fifths.  A wheel turns about the centre at the *)
(* end of the whole diagonal, a quarter turn clockwise of where it is.     *)
ModuleTargets(asked, rotation) ==
  LET moved == Rotate(asked.translation, Opposite(asked.bearing))
  IN  [i \in Modules |->
         Plus(moved, <<5 * rotation * Location[i][2], -5 * rotation * Location[i][1]>>)]

(* The square of the greatest speed, in twenty-fifths.                     *)
MaxMagnitude(targets) == Max({Square(targets[i]) : i \in Modules})

TooFast(targets, max_speed) == MaxMagnitude(targets) > 25 * max_speed * max_speed

CopySign(a, b) == IF b < 0 THEN -a ELSE a

(* Slip: what is left turns one way always.                                *)
CutForgetsSign(asked) ==
  LET left == {r \in 0 .. Absolute(asked.rotation) :
                 /\ (Absolute(asked.rotation) - r) % RotationIterDec = 0
                 /\ ~ TooFast(ModuleTargets(asked, r), asked.max_speed)}
  IN  IF left = {} THEN 0 ELSE Max(left)

(* The loop takes a step off the rotation as long as a wheel is too fast,  *)
(* and takes all of it when the next step would turn it round.             *)
CutRotation(asked) ==
  LET size == Absolute(asked.rotation)
      left == {r \in 0 .. size :
                 /\ (size - r) % RotationIterDec = 0
                 /\ ~ TooFast(ModuleTargets(asked, CopySign(r, asked.rotation)),
                              asked.max_speed)}
  IN  IF left = {} THEN 0 ELSE CopySign(Max(left), asked.rotation)

(* The wheels' targets, all in their ratio to the fastest if it is too     *)
(* fast: then every one is multiplied by max_speed and divided by the root *)
(* of "fastest".                                                           *)
calculate(asked) ==
  LET targets == ModuleTargets(asked,
                   IF asked.cut THEN CutRotation(asked) ELSE asked.rotation)
  IN  [targets |-> targets,
       rescaled |-> TooFast(targets, asked.max_speed),
       fastest |-> MaxMagnitude(targets)]
-----------------------------------------------------------------------------
(* Every wheel went ways[i], a vector in the robot's frame of what its     *)
(* drive's position has grown by and the angle it steers at: their sum     *)
(* over the field, in twenty-fifths of what the ways are in.               *)
SumOfWays(ways, bearing) ==
  LET way(i) == Rotate(ways[i], bearing)
  IN  Plus(Plus(way(1), way(2)), Plus(way(3), way(4)))

(* The way of the robot is their mean times odom_ff, the fudge factor that *)
(* is a preference of the drivetrain, here in thousandths.  Positions are  *)
(* in thousandths of quarters of SumOfWays.                                *)
Displacement(ways, bearing, odom_ff) == Times(SumOfWays(ways, bearing), odom_ff)

(* last_position_ and position_offset_ of the calculator.                  *)
Moved(odometry, ways, bearing, odom_ff) ==
  [odometry EXCEPT !.last = Plus(@, Displacement(ways, bearing, odom_ff))]

(* Slip: the way so far is forgotten.                                      *)
SetPositionForgetsWay(odometry, position) ==
  [odometry EXCEPT !.offset = position]

SetPosition(odometry, position) ==
  [odometry EXCEPT !.offset = Minus(position, odometry.last)]

OdometryPosition(odometry) == Plus(odometry.last, odometry.offset)
=============================================================================
