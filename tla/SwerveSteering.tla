--------------------------- MODULE SwerveSteering ---------------------------
(***************************************************************************)
(* One module of the swerve drive.  In every pass of the main loop the     *)
(* module reads its steering encoder, the commands set a target, and the   *)
(* module writes a drive duty cycle and a steering setpoint computed from  *)
(* that target and from the reading.  The controller turns the wheel to    *)
(* the setpoint all the time.  ZeroWithCANcoder gives the encoder a new    *)
(* value, among the commands, after the reading was taken, or from the     *)
(* dashboard, after the write.  Names that other components have as well   *)
(* carry a prefix: the proofs about two of them are in one module.         *)
(***************************************************************************)
EXTENDS Angles

CONSTANTS
  Directions,      (* what the open-loop calculator asks of a wheel        *)
  CancoderValues,  (* what ZeroWithCANcoder finds                          *)
  Step,            (* degrees a wheel turns between a reading and its      *)
                   (* write at most, and between a write and a reading     *)
  RezeroLoops,     (* 50: how often the setpoint is written after zeroing  *)
  NoSetpoint,      (* nothing was sent to the controller yet               *)
  MaxWind          (* bound of the model on how far a wheel winds up       *)

ASSUME SteeringAssumption ==
  /\ Directions \subseteq Int /\ CancoderValues \subseteq Int
  /\ Step \in Nat \ {0} /\ MaxWind \in Nat
  /\ RezeroLoops \in Nat /\ RezeroLoops >= 2
  /\ NoSetpoint \notin Int

VARIABLES
  pc,              (* "read", "command" or "idle": what the pass did last  *)
                   (* is the write, the reading, and the write again       *)
  steer,           (* what the steering encoder would read now             *)
  steer_pos,       (* GetReadings().steer_pos                              *)
  setpoint,        (* the controller's last command                        *)
  last_rezero,
  target,          (* [drive, steer]; drive: the duty cycle is not tiny    *)
  drive_sign,      (* the sign of the duty cycle written                   *)
  moved,           (* the wheel turned since the reading or the write      *)
  writes           (* history: passes with a write since zeroing, up to 2  *)

wheel_vars == <<pc, steer, steer_pos, setpoint, last_rezero, target, drive_sign, moved, writes>>

(* ZeroTarget.                                                             *)
ZeroTarget == [drive |-> FALSE, steer |-> 0]

WheelInit ==
  /\ pc = "read"
  /\ steer \in CancoderValues /\ steer_pos = 0
  /\ setpoint = NoSetpoint
  /\ last_rezero = 0
  /\ target = ZeroTarget
  /\ drive_sign = 0 /\ moved = FALSE /\ writes = 0

ReadFromHardware ==
  /\ pc = "read"
  /\ pc' = "command"
  /\ steer_pos' = steer /\ moved' = FALSE
  /\ UNCHANGED <<steer, setpoint, last_rezero, target, drive_sign, writes>>

SetTarget(drive, direction) ==
  /\ pc = "command"
  /\ Magnitude(steer) <= MaxWind
  /\ target' = [drive |-> drive, steer |-> direction]
  /\ UNCHANGED <<pc, steer, steer_pos, setpoint, last_rezero, drive_sign, moved, writes>>

(* Slip: the setpoint is not forced again.                                 *)
ZeroKeepsCount ==
  /\ pc # "read"
  /\ steer' \in CancoderValues
  /\ writes' = 0
  /\ UNCHANGED <<pc, steer_pos, setpoint, last_rezero, target, drive_sign, moved>>

(* A reading that is not good is used all the same after five attempts.    *)
ZeroWithCANcoder ==
  /\ pc # "read"
  /\ steer' \in CancoderValues
  /\ last_rezero' = 0 /\ writes' = 0
  /\ UNCHANGED <<pc, steer_pos, setpoint, target, drive_sign, moved>>

(* Slip: a wheel that drives is steered only after zeroing.                *)
SteersAfterZeroing == last_rezero < RezeroLoops
Steers     == target.drive \/ last_rezero < RezeroLoops

(* The cosine of the angle between the wheel and its target brakes a wheel *)
(* that points elsewhere and reverses one that points the other way.       *)
(* Slip: the inversion is applied as well.                                 *)
TwiceInverted ==
  IF InvertDrive(target.steer, steer_pos) THEN -CosineSign(target.steer - steer_pos)
                                          ELSE CosineSign(target.steer - steer_pos)
Drives == CosineSign(target.steer - steer_pos)

WriteToHardware ==
  /\ pc = "command"
  /\ pc' = "idle"
  /\ drive_sign' = IF target.drive THEN Drives ELSE 0
  /\ IF Steers
       THEN /\ setpoint' = SteerPosition(target.steer, steer_pos)
            /\ last_rezero' = IF last_rezero < RezeroLoops THEN last_rezero + 1
                                                           ELSE last_rezero
       ELSE UNCHANGED <<setpoint, last_rezero>>
  /\ writes' = IF writes < 2 THEN writes + 1 ELSE writes
  /\ moved' = FALSE
  /\ UNCHANGED <<steer, steer_pos, target>>

NextPass ==
  /\ pc = "idle"
  /\ pc' = "read"
  /\ UNCHANGED <<steer, steer_pos, setpoint, last_rezero, target, drive_sign, moved, writes>>

(* The controller turns the wheel toward its setpoint.                     *)
Toward(from, to) ==
  IF Magnitude(to - from) <= Step THEN to ELSE IF to > from THEN from + Step ELSE from - Step

Turn ==
  /\ setpoint # NoSetpoint /\ steer # setpoint
  /\ pc # "read" /\ ~moved
  /\ steer' = Toward(steer, setpoint)
  /\ moved' = TRUE
  /\ UNCHANGED <<pc, steer_pos, setpoint, last_rezero, target, drive_sign, writes>>

WheelNext ==
  \/ ReadFromHardware
  \/ \E drive \in BOOLEAN, direction \in Directions : SetTarget(drive, direction)
  \/ ZeroWithCANcoder
  \/ WriteToHardware
  \/ NextPass
  \/ Turn

WheelSpec == WheelInit /\ [][WheelNext]_wheel_vars

(* The main loop goes on; the controller keeps turning its wheel between   *)
(* two passes, which is most of the time.  Nobody has to set a target or   *)
(* to zero anything.                                                       *)
Fairness ==
  /\ WF_wheel_vars(ReadFromHardware) /\ WF_wheel_vars(WriteToHardware)
  /\ WF_wheel_vars(NextPass)
  /\ SF_wheel_vars(Turn /\ pc = "idle")
WheelLiveSpec == WheelSpec /\ Fairness

-----------------------------------------------------------------------------
(* Every variable holds a value of its kind.                               *)
WheelTypeOK ==
  /\ pc \in {"read", "command", "idle"}
  /\ steer \in Int /\ steer_pos \in Int
  /\ setpoint \in Int \cup {NoSetpoint}
  /\ last_rezero \in 0..RezeroLoops
  /\ target \in [drive : BOOLEAN, steer : Directions \cup {0}]
  /\ drive_sign \in {-1, 0, 1}
  /\ moved \in BOOLEAN /\ writes \in 0..2

(* Two passes after the encoder was zeroed, whether the robot drives or    *)
(* stands, a wheel is never sent further than a quarter turn, and what it  *)
(* turned while the pass ran: the setpoint computed from a reading that    *)
(* was older than the zeroing does not stay in force.                      *)
SteersTheShortWay ==
  writes = 2 /\ setpoint # NoSetpoint => Magnitude(setpoint - steer) <= 90 + Step

(* What makes it so: the first two writes after a zeroing are forced, and  *)
(* from the second on the reading is at most one move old.                 *)
ForcedAfterZeroing ==
  /\ writes = 0 => last_rezero = 0
  /\ writes = 1 => last_rezero <= 1
FreshReading ==
  pc = "command" /\ writes > 0 =>
    /\ Magnitude(steer - steer_pos) <= Step
    /\ ~moved => steer = steer_pos
SteeringInv == WheelTypeOK /\ ForcedAfterZeroing /\ FreshReading /\ SteersTheShortWay

(* The inversion calculateSteerPosition returns, which WriteToHardware     *)
(* only graphs, is the one the cosine gives the duty cycle.                *)
DriveFollowsWheel ==
  pc = "idle" /\ drive_sign # 0 => (drive_sign < 0 <=> InvertDrive(target.steer, steer_pos))

(* If the target stays and nothing is zeroed any more, a driving module    *)
(* ends up on its target's line for good and pushes along the target.      *)
Settled == [][target' = target /\ last_rezero' >= last_rezero]_<<target, last_rezero>>
PushesAlong ==
  \/ drive_sign = 1 /\ SameDirection(steer, target.steer)
  \/ drive_sign = -1 /\ SameDirection(steer, target.steer + 180)
WheelAligns == <>Settled /\ <>[](target.drive) => <>[]PushesAlong
=============================================================================
