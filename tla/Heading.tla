------------------------------- MODULE Heading -------------------------------
(***************************************************************************)
(* The bearing of the drivetrain: the gyro and its offset, the reading of  *)
(* a pass, the commands that zero or set the bearing or turn the robot to  *)
(* one, and the rotation they ask for.  The gyro counts whole turns: it is *)
(* never wrapped.  Names that a drive has as well carry a prefix: the      *)
(* proofs about both are in one module.                                    *)
(***************************************************************************)
EXTENDS Angles

CONSTANTS
  Targets,         (* bearings that commands turn the robot to             *)
  Starts,          (* bearings SetBearing is given                         *)
  Driver,          (* the driver's stick turns the robot                   *)
  None,
  Deadband,        (* degrees of error that ask for no rotation            *)
  Step,            (* degrees the robot turns between a reading and the    *)
                   (* write of its pass, or between passes, at most        *)
  MaxTurn          (* bound of the model on yaw, offset and bearing when   *)
                   (* somebody turns, zeroes or retargets the robot        *)

ASSUME HeadingAssumption ==
  /\ Targets \subseteq Int /\ Starts \subseteq Int /\ Driver \notin Int /\ None \notin Int
  /\ Step \in Nat \ {0} /\ Deadband \in Nat /\ MaxTurn \in Nat

VARIABLES
  pc,              (* what comes next in the pass: the reading, the        *)
                   (* commands and the write, the rest of the period       *)
  yaw,             (* navX_.GetAngle()                                     *)
  bearing_offset,
  bearing,         (* GetReadings().pose.bearing                           *)
  turn_target,     (* what the running command turns to, or Driver         *)
  omega,           (* the sign of the angular velocity in force            *)
  moved,           (* the robot turned since the reading or the write      *)
  demanded         (* history: the bearing asked for in this pass          *)

heading_vars == <<pc, yaw, bearing_offset, bearing, turn_target, omega, moved, demanded>>

InBounds ==
  /\ Magnitude(yaw) <= MaxTurn /\ Magnitude(bearing_offset) <= MaxTurn
  /\ Magnitude(bearing) <= MaxTurn

HeadingInit ==
  /\ pc = "read" /\ yaw = 0 /\ bearing_offset \in {0, 180} /\ bearing = 0
  /\ turn_target = Driver /\ omega = 0 /\ moved = FALSE
  /\ demanded = None

ReadFromHardware ==
  /\ pc = "read"
  /\ pc' = "command"
  /\ bearing' = yaw + bearing_offset
  /\ moved' = FALSE /\ demanded' = None
  /\ UNCHANGED <<yaw, bearing_offset, turn_target, omega>>

(* The offset depends on the alliance, unless the match is in its          *)
(* autonomous period.  A gyro that stays away or calibrates for five       *)
(* attempts is zeroed all the same, which it may ignore.  A button of the  *)
(* driver does it among the commands, one of the dashboard after the write.*)
ZeroBearing(autonomous, blue, calibrated) ==
  /\ pc # "read" /\ InBounds
  /\ bearing_offset' = IF autonomous THEN bearing_offset ELSE IF blue THEN 180 ELSE 0
  /\ yaw' \in IF calibrated THEN {0} ELSE {0, yaw}
  /\ demanded' = IF calibrated THEN bearing_offset' ELSE None
  /\ UNCHANGED <<pc, bearing, turn_target, omega, moved>>

(* The reading differs from the bearing by what the robot turned since:    *)
(* nobody changed the offset or zeroed the gyro in this pass.              *)
HonestReading ==
  Magnitude(yaw + bearing_offset - bearing) <= IF moved THEN Step ELSE 0

(* What the gyro showed when the bearing was read, unless the offset was   *)
(* changed since.  Slip: the old offset stays in.                          *)
SlippedOffset(start) == start - bearing
OffsetFor(start)     == start - (bearing - bearing_offset)

SetBearing(start) ==
  /\ pc = "command" /\ InBounds
  /\ bearing_offset' = OffsetFor(start)
  /\ demanded' = IF HonestReading THEN start ELSE None
  /\ UNCHANGED <<pc, yaw, bearing, turn_target, omega, moved>>

(* Another command, or other inputs of the same one.                       *)
Retarget(to) ==
  /\ pc = "command" /\ InBounds
  /\ turn_target' = to
  /\ UNCHANGED <<pc, yaw, bearing_offset, bearing, omega, moved, demanded>>

Sign(a) == IF a > 0 THEN 1 ELSE IF a < 0 THEN -1 ELSE 0

(* Slip: the difference is taken the other way round.                      *)
SwappedPID(target_bearing) ==
  LET error == CoterminalDifference(bearing, target_bearing)
  IN  IF Magnitude(error) <= Deadband THEN 0 ELSE Sign(error)

ApplyBearingPID(target_bearing) ==
  LET error == CoterminalDifference(target_bearing, bearing)
  IN  IF Magnitude(error) <= Deadband THEN 0 ELSE Sign(error)

WriteToHardware ==
  /\ pc = "command"
  /\ pc' = "idle" /\ moved' = FALSE
  /\ IF turn_target = Driver THEN omega' \in {-1, 0, 1} ELSE omega' = ApplyBearingPID(turn_target)
  /\ UNCHANGED <<yaw, bearing_offset, bearing, turn_target, demanded>>

NextReading ==
  /\ pc = "idle"
  /\ pc' = "read"
  /\ UNCHANGED <<yaw, bearing_offset, bearing, turn_target, omega, moved, demanded>>

Turn ==
  /\ pc # "read" /\ ~moved /\ omega # 0
  /\ turn_target = Driver => Magnitude(yaw + omega * Step) <= MaxTurn
  /\ yaw' = yaw + omega * Step
  /\ moved' = TRUE
  /\ UNCHANGED <<pc, bearing_offset, bearing, turn_target, omega, demanded>>

HeadingNext ==
  \/ ReadFromHardware
  \/ \E autonomous, blue, calibrated \in BOOLEAN : ZeroBearing(autonomous, blue, calibrated)
  \/ \E start \in Starts : SetBearing(start)
  \/ \E to \in Targets \cup {Driver} : Retarget(to)
  \/ WriteToHardware
  \/ NextReading
  \/ Turn

HeadingSpec == HeadingInit /\ [][HeadingNext]_heading_vars

(* The main loop goes on, and a robot that is asked to turn does so        *)
(* between two passes.                                                     *)
HeadingFairness ==
  /\ WF_heading_vars(ReadFromHardware) /\ WF_heading_vars(WriteToHardware)
  /\ WF_heading_vars(NextReading)
  /\ SF_heading_vars(Turn /\ pc = "idle")
HeadingLiveSpec == HeadingSpec /\ HeadingFairness

-----------------------------------------------------------------------------
(* Every variable holds a value of its kind.                               *)
HeadingTypeOK ==
  /\ pc \in {"read", "command", "idle"}
  /\ yaw \in Int /\ bearing_offset \in Int /\ bearing \in Int
  /\ turn_target \in Targets \cup {Driver} /\ omega \in {-1, 0, 1}
  /\ moved \in BOOLEAN /\ demanded \in Int \cup {None}

(* A bearing that is set or zeroed is what the next reading shows, but for *)
(* what the robot turned in between, although SetBearing computes the      *)
(* offset from an older reading.  A bearing set in a pass that had already *)
(* changed it is not covered: it would use a reading no longer honest.     *)
BearingAsDemanded ==
  [][ReadFromHardware /\ demanded # None
       => Magnitude(bearing' - demanded) <= 2 * Step]_heading_vars

(* Why: while a demand is pending, the bearing is off by the moves since.  *)
PendingDemand ==
  demanded # None =>
    Magnitude(yaw + bearing_offset - demanded)
      <= CASE pc = "command" -> IF moved THEN Step ELSE 0
           [] pc = "idle"    -> IF moved THEN 2 * Step ELSE Step
           [] OTHER          -> 2 * Step

(* A robot that keeps its target, and is not zeroed any more, ends up      *)
(* pointing there for good.                                                *)
Undisturbed ==
  [][/\ turn_target' = turn_target /\ bearing_offset' = bearing_offset
     /\ yaw' # yaw => Turn]_heading_vars
OnTarget ==
  /\ turn_target # Driver
  /\ \E error \in -Deadband..Deadband :
       SameDirection(yaw + bearing_offset, turn_target + error)
HeadingSettles == <>Undisturbed /\ <>[](turn_target # Driver) => <>[]OnTarget
=============================================================================
