---------------------------- MODULE Localization ----------------------------
(***************************************************************************)
(* AprilTagCalculator, which finds the robot's position by the tags its    *)
(* cameras see, and the reading of GPDSubsystem, which finds the pieces on *)
(* the field by where its camera sees them.                                *)
(*                                                                         *)
(* A pose is [position, bearing, velocity].  The bearing of a sighting is  *)
(* turned back by what the robot has turned since, here a number of        *)
(* quarter turns.  Positions that come out are in twenty-fifths.           *)
(***************************************************************************)
EXTENDS Vectors, Sequences, SequencesExt, FiniteSets, FiniteSetsExt

CONSTANTS
  CameraOffset,  (* of each camera from the robot's centre                 *)
  Freshness,     (* 3.5 periods of the loop                                *)
  IntakeToCam    (* the same for the camera of GPDSubsystem                *)

ASSUME LocalizationAssumption ==
  /\ CameraOffset \in Seq(Int \X Int)
  /\ Freshness \in Nat
  /\ IntakeToCam \in Int \X Int

(* A tag weighs 48 inches by its distance; here in twenty-fifths.          *)
WeightDistance == 48 * 25

QuarterTurned(a, turns) ==
  CASE turns % 4 = 0 -> a
    [] turns % 4 = 1 -> QuarterMore(a)
    [] turns % 4 = 2 -> <<-Cos(a), -Sin(a)>>
    [] turns % 4 = 3 -> <<Sin(a), -Cos(a)>>

(* Slip: turned on, not back.                                              *)
BearingTurnedOn(pose, angular_velocity, tl) ==
  QuarterTurned(pose.bearing, angular_velocity * tl)

(* angular_velocity is in quarter turns; tl counts from the capture.       *)
BearingAtCapture(pose, angular_velocity, tl) ==
  QuarterTurned(pose.bearing, -(angular_velocity * tl))

(* Where the robot is that has this bearing and sees a tag of this         *)
(* position at this angle and distance.                                    *)
getPos(bearing, theta, distance, tag_position, camera) ==
  LET cam_to_tag == AtBearing(distance, theta)
      local_tag_pos == Plus(Times(CameraOffset[camera], 5), cam_to_tag)
  IN  Minus(Times(tag_position, 25), Rotate(local_tag_pos, bearing))

(* What a camera has written: how old its last frame is, the latency it    *)
(* tells, and three lists, which may have been written at different times. *)
Usable(frame) ==
  /\ frame.delay <= Freshness
  /\ Len(frame.distances) = Len(frame.tx) /\ Len(frame.tx) = Len(frame.tags)

(* The tags in the frames that the robot knows the position of.            *)
Seen(frames, tag_locations) ==
  {s \in (1 .. Len(frames)) \X (1 .. 8) :
     LET frame == frames[s[1]]
     IN  /\ Usable(frame)
         /\ s[2] <= Len(frame.tags)
         /\ frame.tags[s[2]] \in DOMAIN tag_locations}

Weight(frame, j) == WeightDistance \div frame.distances[j]

(* The position by one of them, brought forward to now.                    *)
ByTag(pose, angular_velocity, frame, camera, j, tag_locations) ==
  LET tl == frame.tl + frame.delay
  IN  Plus(getPos(BearingAtCapture(pose, angular_velocity, tl), frame.tx[j],
                  frame.distances[j], tag_locations[frame.tags[j]], camera),
           Times(Times(pose.velocity, tl), 25))

(* The mean of all of them by their weights.  The correction that it makes *)
(* to the pose is remembered for a reading without tags.                   *)
TagPosition(pose, angular_velocity, frames, tag_locations, correction) ==
  LET seen == Seen(frames, tag_locations)
      total == MapThenSumSet(LAMBDA s : Weight(frames[s[1]], s[2]), seen)
      part(k) == MapThenSumSet(
                   LAMBDA s : Weight(frames[s[1]], s[2])
                              * ByTag(pose, angular_velocity, frames[s[1]], s[1],
                                      s[2], tag_locations)[k], seen)
      pos == << part(1) \div total, part(2) \div total >>
  IN  IF seen = {}
      THEN [pos |-> Plus(Times(pose.position, 25), correction),
            found |-> FALSE, correction |-> correction]
      ELSE [pos |-> pos, found |-> TRUE,
            correction |-> Minus(pos, Times(pose.position, 25))]
-----------------------------------------------------------------------------
(* The sum of two angles, in twenty-fifths.                                *)
Sum25(a, b) == << Cos(a) * Cos(b) - Sin(a) * Sin(b), Sin(a) * Cos(b) + Cos(a) * Sin(b) >>

(* The pieces of a frame; the camera's offset is turned by the bearing the *)
(* robot has now.                                                          *)
GamePieces(pose, yaw_rate, latency, distances, theta_x) ==
  [i \in 1 .. Min({Len(distances), Len(theta_x)}) |->
     LET bearing == BearingAtCapture(pose, yaw_rate, latency)
     IN  Plus(Plus(AtBearing(distances[i], Sum25(bearing, theta_x[i])),
                   Times(Minus(pose.position, Times(pose.velocity, latency)), 25)),
              Times(Rotate(IntakeToCam, pose.bearing), 5))]
=============================================================================
