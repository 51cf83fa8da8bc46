------------------------------- MODULE Drive -------------------------------
(***************************************************************************)
(* The commands that move the robot by themselves: DriveToPointCommand of  *)
(* the autos, DriveToReefCommand and LockToReefCommand of an alignment,    *)
(* LockGPDCommand, and the drivetrain that reads the robot's position and  *)
(* writes the velocity they ask for.                                       *)
(*                                                                         *)
(* The field is the line through the robot and its target.  One unit of    *)
(* speed is one unit of length a pass, and accelerations change the speed  *)
(* by as much in a pass.                                                   *)
(*                                                                         *)
(* A step is a pass of the loop: the drivetrain reads, the command         *)
(* executes and asks whether it is finished, the drivetrain writes, and    *)
(* the robot moves until the next reading.  How commands come to be        *)
(* scheduled is module RobotLoop's.                                        *)
(***************************************************************************)
EXTENDS Angles, Sequences

CONSTANTS
  Length,           (* walls stop the robot at 0 and at Length             *)
  Grip,             (* the greatest change of speed in a pass              *)
  Noise,            (* the pose estimate is off by this much at most       *)
  Drifts,           (* what the odometry may be off by                     *)
  SpeedLimit,       (* the preference max_speed                            *)
  MaxSpeed, MaxAcceleration, MaxDeceleration,  (* of the drives            *)
  Points,           (* where the autos drive to, and how fast they arrive  *)
  DriveToSubtract, VelStoppedThresh, StoppedNumLoops,
  ReefLocation, ReefDriveEarly, ReefDriveFvel,
  LockGains,        (* what lock_gains/_kP may be set to, times LockDivisor *)
  LockDivisor,
  LockDeadband, LockMaxSpeed,
  MaxAdjust,        (* bounds the driver's adjustment of the lock          *)
  Sightings,        (* the lists of game pieces the camera may show        *)
  MaxGPDiff, UseDiffThresh, GPFast,
  ThreeInches, SixInches

Field == 0 .. Length

ASSUME DriveAssumption ==
  /\ {Length, Noise, DriveToSubtract, StoppedNumLoops, ReefDriveEarly,
      ReefDriveFvel, MaxAdjust, MaxGPDiff, UseDiffThresh, GPFast,
      ThreeInches, SixInches, MaxAcceleration, LockMaxSpeed} \subseteq Nat
  /\ {Grip, SpeedLimit, MaxSpeed, MaxDeceleration, VelStoppedThresh,
      LockDivisor, LockDeadband} \subseteq Nat \ {0}
  /\ Drifts \subseteq Int
  /\ Points \subseteq [point : Int, velocity : Nat]
  /\ ReefLocation \in Int /\ LockGains \subseteq Int
  /\ Sightings \subseteq Seq(Int)

VARIABLES
  pass,                (* of the loop, counted modulo two                  *)
  autonomous,          (* the period                                       *)
  position, velocity,  (* the robot's, in truth                            *)
  slips,               (* it may fail to follow                            *)
  drift,               (* of the odometry                                  *)
  lock_gain,           (* the preference lock_gains/_kP, times LockDivisor *)
  command,             (* the one that requires the drivetrain, or "none"  *)
  start_point, target, num_stalled_loops,  (* of a drive                   *)
  base_adj,            (* of LockToReefCommand                             *)
  piece, first_loop    (* target_ and first_loop_ of LockGPDCommand        *)

robot == <<position, velocity>>
world == <<autonomous, slips, drift, lock_gain>>
drive == <<start_point, target, num_stalled_loops>>
lock  == <<base_adj, piece, first_loop>>
vars  == <<pass, robot, world, command, drive, lock>>

Drives == {"point", "reef"}

(* Of a drive that is over nothing is kept.                                *)
NoDrive == /\ start_point' = 0 /\ target' = [point |-> 0, velocity |-> 0]
           /\ num_stalled_loops' = 0

Init ==
  /\ pass = 0
  /\ autonomous \in BOOLEAN /\ slips \in BOOLEAN /\ drift \in Drifts
  /\ lock_gain \in LockGains
  /\ position \in Field /\ velocity = 0
  /\ command = "none"
  /\ start_point = 0 /\ target = [point |-> 0, velocity |-> 0]
  /\ num_stalled_loops = 0
  /\ base_adj = 0 /\ piece = 0 /\ first_loop = TRUE

Least(a, b) == IF a <= b THEN a ELSE b
Most(a, b)  == IF a >= b THEN a ELSE b
Within(bound, a) == Most(-bound, Least(bound, a))
(* The bearing of a vector on the line; that of no vector is 0 degrees.    *)
Dir(a) == IF a < 0 THEN -1 ELSE 1
-----------------------------------------------------------------------------
(* What the drivetrain reads.  In autonomous the pose of the odometry is   *)
(* taken for the estimate; otherwise the estimate is what filter and tags  *)
(* make of it.  The speed the gyro makes of its accelerations may seem     *)
(* slow at any time.                                                       *)
Readings ==
  {[pose |-> position + drift,
    estimate |-> IF autonomous THEN position + drift ELSE position + error,
    velocity |-> velocity,
    slow |-> accel_slow \/ Magnitude(velocity) < VelStoppedThresh] :
     error \in -Noise .. Noise, accel_slow \in BOOLEAN}

(* The speeds the robot may have a pass after it was given a velocity.     *)
Follows(demanded) ==
  LET change == Within(Grip, demanded - velocity)
  IN  IF slips
      THEN {v \in -SpeedLimit .. SpeedLimit :
              Least(0, change) <= v - velocity /\ v - velocity <= Most(0, change)}
      ELSE {velocity + change}

NextPass == pass' = 1 - pass

Move(demanded) ==
  /\ NextPass
  /\ \E v \in Follows(demanded) :
       IF position + v \in Field
       THEN position' = position + v /\ velocity' = v
       ELSE position' = (IF v > 0 THEN Length ELSE 0) /\ velocity' = 0

(* WriteToHardware, of a velocity or an acceleration; either is cut to     *)
(* the speed limit.                                                        *)
WriteVelocity(v)     == Move(Within(SpeedLimit, v))
WriteAcceleration(a) == Move(Within(SpeedLimit, velocity + a))
-----------------------------------------------------------------------------
InitializeDrive(c, goal, r) ==
  /\ command' = c
  /\ start_point' = r.estimate
  /\ target' = goal
  /\ num_stalled_loops' = 0
  /\ UNCHANGED <<world, lock>>

InitializeLock(c) ==
  /\ command' = c
  /\ first_loop' = TRUE
  /\ UNCHANGED <<world, drive, base_adj, piece>>

(* A drive of an auto is initialised when the one before it has ended, and *)
(* executes from the next pass on.                                         *)
ScheduleAuto ==
  /\ command = "none" /\ autonomous
  /\ \E goal \in Points, r \in Readings : InitializeDrive("point", goal, r)
  /\ WriteVelocity(0)

(* A trigger's command executes in the same pass.                          *)
ScheduleTriggered ==
  /\ command = "none" /\ ~autonomous
  /\ \/ \E r \in Readings :
          InitializeDrive("reef", [point |-> ReefLocation, velocity |-> 0], r)
     \/ \E seen \in Sightings : seen # <<>> /\ InitializeLock("piece")
  /\ UNCHANGED <<pass, robot>>

(* Nothing drives, and the target is zero.                                 *)
Idle ==
  /\ command = "none"
  /\ WriteVelocity(0)
  /\ UNCHANGED <<world, command, drive, lock>>
-----------------------------------------------------------------------------
(* GetTargetPoint: a point early on the way to the reef's location, found  *)
(* anew in every pass; the autos keep theirs.                              *)
GetTargetPoint(r) ==
  IF command = "point" THEN target
  ELSE LET way == ReefLocation - r.estimate
       IN  [point |-> r.estimate + Dir(way) * (Magnitude(way) - ReefDriveEarly),
            velocity |-> ReefDriveFvel]

(* Twice the deceleration times the distance, which keeps it whole.        *)
StoppingDistance(speed, final) ==
  2 * Magnitude(speed * (speed - final)) - (speed - final) * (speed - final)

DistToTarget(point, r) ==
  2 * MaxDeceleration * (Magnitude(point - r.estimate) - DriveToSubtract)

Decelerates(goal, r) ==
  DistToTarget(goal.point, r) <= StoppingDistance(Magnitude(r.velocity), goal.velocity)

(* It brakes harder by as much as it is late.                              *)
Braking(goal, r) ==
  LET dist == DistToTarget(goal.point, r)
      stop == Magnitude(StoppingDistance(Magnitude(r.velocity), goal.velocity))
  IN  IF dist > 2 * MaxDeceleration * ThreeInches
      THEN (MaxDeceleration * stop) \div dist
      ELSE MaxDeceleration

Acceleration(goal, r) ==
  IF Decelerates(goal, r) THEN -Dir(r.velocity) * Braking(goal, r)
  ELSE IF Magnitude(r.velocity) < MaxSpeed
       THEN MaxAcceleration * Dir(goal.point - r.estimate)
       ELSE 0

Stalled(r) == IF r.slow THEN num_stalled_loops + 1 ELSE 0

(* The robot has come as far as the target was, in whatever direction.     *)
CameFarEnough(goal, r) ==
  Magnitude(r.estimate - start_point) >= Magnitude(goal.point - start_point)

(* Slip: stalling does not end a drive.                                    *)
IgnoresStalling(goal, r) ==
  \/ CameFarEnough(goal, r)
  \/ Decelerates(goal, r) /\ Magnitude(r.velocity) < VelStoppedThresh

(* Slip: a slow robot has arrived, braking or not.                         *)
EndsWhenSlow(goal, r) ==
  \/ CameFarEnough(goal, r)
  \/ Magnitude(r.velocity) < VelStoppedThresh
  \/ Stalled(r) > StoppedNumLoops

IsFinished(goal, r) ==
  \/ CameFarEnough(goal, r)
  \/ Decelerates(goal, r) /\ Magnitude(r.velocity) < VelStoppedThresh
  \/ Stalled(r) > StoppedNumLoops

(* Execute, IsFinished and, if so, End of a drive; an alignment goes on to *)
(* its lock.  Slow passes are counted no further than they are compared.   *)
ExecuteDrive ==
  /\ command \in Drives
  /\ \E r \in Readings :
       LET goal == GetTargetPoint(r)
       IN  IF IsFinished(goal, r)
           THEN /\ command' = IF command = "reef" THEN "lock" ELSE "none"
                /\ NoDrive
                /\ WriteVelocity(0)
           ELSE /\ target' = goal
                /\ num_stalled_loops' = Least(StoppedNumLoops + 1, Stalled(r))
                /\ WriteAcceleration(Acceleration(goal, r))
                /\ UNCHANGED <<command, start_point>>
  /\ UNCHANGED <<world, lock>>
-----------------------------------------------------------------------------
(* lock_gains.calculate of the distance; kI and kD are registered as 0, and *)
(* rounding is toward zero.  LockMaxSpeed is a bound from below only.      *)
SpeedTarget(way) ==
  LET output == lock_gain * Magnitude(way)
  IN  Most(Dir(output) * (Magnitude(output) \div LockDivisor), -LockMaxSpeed)

(* Slip: the speed is given along the way, without the half turn.          *)
LockVelocityNotTurned(goal) ==
  LET way == goal - (position + drift)
  IN  IF Magnitude(way) < LockDeadband THEN 0 ELSE Dir(way) * SpeedTarget(way)

(* The speed half a turn from the target, which brings the robot there if  *)
(* the gain is negative and away from it if it is positive, as registered. *)
(* By the odometry, whatever the drive before it went by.                  *)
LockVelocity(goal) ==
  LET way == goal - (position + drift)
  IN  IF Magnitude(way) < LockDeadband THEN 0 ELSE -Dir(way) * SpeedTarget(way)

(* The driver moves the target about while holding it.                     *)
ExecuteReefLock ==
  /\ command = "lock"
  /\ base_adj' \in {base_adj - 1, base_adj, base_adj + 1} \cap (-MaxAdjust .. MaxAdjust)
  /\ WriteVelocity(LockVelocity(ReefLocation + base_adj'))
  /\ UNCHANGED <<world, command, drive, piece, first_loop>>

(* getBestGP: the nearest.  A robot that moves takes the one with the      *)
(* smallest angle to its velocity, which on the line may be any of them,   *)
(* or the origin when no angle is below half a turn.                       *)
BestGP(gamepieces) ==
  LET seen == {gamepieces[i] : i \in DOMAIN gamepieces}
      Away(p) == Magnitude(p - (position + drift))
  IN  IF Magnitude(velocity) >= GPFast THEN seen \cup {0}
      ELSE {p \in seen : \A q \in seen : Away(p) <= Away(q)}

(* Slip: every piece is followed, however far from the last.               *)
FollowsAny(gp) == Magnitude(gp - (position + drift)) > SixInches

(* A piece far from the one that is being approached is not followed, and  *)
(* none is from very near.                                                 *)
Follow(gp) ==
  /\ \/ first_loop
     \/ Magnitude(gp - piece) <= MaxGPDiff
     \/ Magnitude(piece - (position + drift)) >= UseDiffThresh
  /\ Magnitude(gp - (position + drift)) > SixInches

UpdatePiece(gp) ==
  IF Follow(gp) THEN piece' = gp /\ first_loop' = FALSE
  ELSE UNCHANGED <<piece, first_loop>>

ExecutePieceLock ==
  /\ command = "piece"
  /\ \/ \E seen \in Sightings : \E gp \in BestGP(seen) : UpdatePiece(gp)
     \/ <<>> \in Sightings /\ UNCHANGED <<piece, first_loop>>
  /\ WriteVelocity(LockVelocity(piece'))
  /\ UNCHANGED <<world, command, drive, base_adj>>

(* The button is let go of, or the period ends: End, whichever it is.      *)
Interrupt ==
  /\ command # "none"
  /\ command' = "none"
  /\ NoDrive
  /\ WriteVelocity(0)
  /\ UNCHANGED <<world, lock>>

Next ==
  \/ ScheduleAuto \/ ScheduleTriggered \/ Idle
  \/ ExecuteDrive \/ ExecuteReefLock \/ ExecutePieceLock
  \/ Interrupt

Spec == Init /\ [][Next]_vars
(* The loop is one thread that never blocks for good.                      *)
LiveSpec == Spec /\ WF_pass(NextPass)
-----------------------------------------------------------------------------
TypeOK ==
  /\ pass \in {0, 1}
  /\ autonomous \in BOOLEAN /\ slips \in BOOLEAN /\ drift \in Drifts
  /\ lock_gain \in LockGains
  /\ position \in Field /\ velocity \in -SpeedLimit .. SpeedLimit
  /\ command \in Drives \cup {"none", "lock", "piece"}
  /\ start_point \in Int /\ target \in [point : Int, velocity : Nat]
  /\ num_stalled_loops \in 0 .. StoppedNumLoops
  /\ base_adj \in -MaxAdjust .. MaxAdjust
  /\ piece \in Int /\ first_loop \in BOOLEAN

(* How far the robot thinks it is from where an auto drives it.            *)
Remaining == Magnitude(target.point - (position + drift))

(* It moves away: it was still fast from the drive before.                 *)
Strayed == Remaining > Magnitude(target.point - start_point)

(* The drive of an auto ends, and not because the robot stalled.           *)
Arrives ==
  /\ autonomous /\ num_stalled_loops < StoppedNumLoops
  /\ ExecuteDrive /\ command' = "none"

(* An auto goes on to its next action only near the point it was driving   *)
(* to: nearer than the robot moves in a pass, or than drive_to_subtract    *)
(* and the way on which it brakes from vel_stopped_thresh, whatever the    *)
(* wheels lost until then, unless it could not be turned round             *)
(* (IsFinished).                                                           *)
EndsNear ==
  [][Arrives =>
       \/ Strayed
       \/ Remaining < SpeedLimit
       \/ 2 * MaxDeceleration * (Remaining - DriveToSubtract)
            < VelStoppedThresh * VelStoppedThresh]_vars

(* A drive comes to an end, even of a robot that slips, stands against a   *)
(* wall or never gets near its target: an auto does not hang in it         *)
(* (IsFinished).                                                           *)
DriveEnds == (command \in Drives) ~> (command \notin Drives)

(* Pushed away from its target a robot ends up standing at a wall.         *)
AtWall == position \in {0, Length} /\ velocity = 0

(* A driver who holds the alignment with a negative gain gets the robot to *)
(* the reef and keeps it there, within the deadband and one more           *)
(* adjustment of his, without swinging about it.  With the positive gain   *)
(* that is registered and deployed it either is there already and stays,   *)
(* or drives away until a wall stops it (LockToPointCommand).              *)
LockSettles ==
  <>[](command = "lock" /\ ~slips)
    => \/ <>[](Magnitude(ReefLocation + base_adj - (position + drift)) <= LockDeadband)
       \/ lock_gain > 0 /\ <>[]AtWall

(* A driver who holds the button gets one game piece: with a negative gain *)
(* the robot does not turn from piece to piece as the camera loses one and *)
(* finds another.  With the registered gain it may do so for ever, driven  *)
(* as far from each as where any other is followed (LockGPDCommand).       *)
PieceSettles ==
  <>[](command = "piece" /\ ~slips)
    => \/ \E p \in {0} \cup UNION {{seen[i] : i \in DOMAIN seen} : seen \in Sightings} :
            <>[](piece = p)
       \/ lock_gain > 0 /\ []<>(Magnitude(piece - (position + drift)) >= UseDiffThresh)
=============================================================================
