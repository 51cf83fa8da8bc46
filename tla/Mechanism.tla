------------------------------ MODULE Mechanism ------------------------------
(***************************************************************************)
(* One mechanism moved by one motor: LinearSubsystem (telescope, elevator),*)
(* which homes on a limit switch, WristSubsystem with an absolute encoder  *)
(* (coral and algal wrist), and WristSubsystem without one (climber).      *)
(*                                                                         *)
(* A subsystem is read and written in every second pass and the motor runs *)
(* in all of them, so a cycle is Read, Write and two passes of motion.     *)
(* What the program sees of the motor is the last status frame, at most    *)
(* FrameAge passes old.  The motor's own encoder reports the position plus *)
(* origin, which is 0 once the program knows where the mechanism is.       *)
(***************************************************************************)
EXTENDS HigherMotor

CONSTANTS
  Top,           (* the upper hard stop; the lower one is 0                *)
  Switch,        (* hall_effect_loc_: the switch is seen from here up      *)
  Limits,        (* soft limits of a wrist                                 *)
  HomingDuty,    (* what an unhomed mechanism is driven with               *)
  SlowSpeed,     (* use_sensor_threshold: at or above it no sensor is used *)
  Targets,       (* what superstructures and commands ask for              *)
  FrameAge,      (* bound: how old a status frame may be, in passes        *)
  Overshoot      (* how far a wrist may travel past the end of its range   *)

ASSUME MechanismAssumption ==
  /\ Top \in Nat /\ Switch \in 0 .. Top
  /\ Limits \in SoftLimits /\ Ordered(Limits)
  /\ 0 <= Limits.reverse /\ Limits.forward <= Top
  /\ HomingDuty \in 1 .. FullDuty
  /\ SlowSpeed \in Nat /\ Targets \subseteq Int /\ FrameAge \in Nat \ {0}
  /\ Overshoot \in Nat

(* What a mechanism travels from just short of its end, at full speed, when*)
(* it loses no more than one unit of speed in every pass.                  *)
ASSUME OvershootAssumption == FullDuty * (FullDuty + 1) <= 2 * (Overshoot + 1)

Kinds == {"linear", "wrist", "climber"}
Places == 0 .. Top
Speeds == -FullDuty .. FullDuty

VARIABLES
  kind,          (* which subsystem this is                                *)
  phase,         (* "read", "write", or the pass of motion that is next    *)
  enabled,       (* the robot is enabled                                   *)
  place, speed,  (* of the mechanism itself                                *)
  origin,        (* its encoder reports place + origin                     *)
  frame,         (* the last status frame: position, velocity and switch   *)
  age,           (* its age                                                *)
  sensed,        (* the last value of the absolute encoder                 *)
  slow,          (* readings_.velocity is below the threshold              *)
  is_homed,
  command,       (* the duty cycle in force                                *)
  lost           (* history: every retry of a zeroing failed once          *)

body == <<place, speed, origin>>
seen == <<frame, age, sensed>>
memory == <<slow, is_homed>>
vars == <<kind, phase, enabled, body, seen, memory, command, lost>>

Frame == [position |-> place + origin, velocity |-> speed,
          switch |-> place >= Switch]

(* Setup.  A wrist's sensor is valid then, its readings being zero; a      *)
(* climber is powered while stowed; a linear mechanism is anywhere.        *)
Init ==
  /\ kind \in Kinds
  /\ phase = "read" /\ enabled = FALSE
  /\ speed = 0
  /\ \/ kind = "linear" /\ place \in Places /\ origin = -place
     \/ kind = "wrist" /\ place \in Limits.reverse .. Limits.forward /\ origin = 0
     \/ kind = "climber" /\ place = Limits.reverse /\ origin = 0
  /\ frame = Frame /\ age = 0 /\ sensed = place
  /\ slow = TRUE /\ is_homed = FALSE
  /\ command = 0
  /\ lost = FALSE
-----------------------------------------------------------------------------
(* SetPosition: the device takes the value, or refuses it on every retry.  *)
SetPosition(value) ==
  \/ origin' = value - place /\ UNCHANGED lost
  \/ ~lost /\ lost' = TRUE /\ UNCHANGED origin

(* Slip: the switch counts whether or not the mechanism is homed.          *)
SeesSwitchAlways == frame.switch
SeesSwitch == frame.switch /\ ~is_homed

(* ReadFromHardware of LinearSubsystem.  is_homed_ is set whether or not   *)
(* the zeroing arrives.                                                    *)
ReadLinear ==
  /\ kind = "linear"
  /\ IF SeesSwitch THEN is_homed' = TRUE /\ SetPosition(Switch)
                   ELSE UNCHANGED <<is_homed, origin, lost>>
  /\ UNCHANGED slow

(* Slip: the test the other way round.                                     *)
ValidWhenFast == kind = "wrist" /\ ~slow
(* GetSensorPos: judged by the readings of the cycle before.               *)
SensorValid == kind = "wrist" /\ slow

(* ReadFromHardware of WristSubsystem.                                     *)
ReadWrist ==
  /\ kind # "linear"
  /\ IF SensorValid THEN SetPosition(sensed) ELSE UNCHANGED <<origin, lost>>
  /\ slow' = (Magnitude(frame.velocity) < SlowSpeed)
  /\ UNCHANGED is_homed

Read ==
  /\ phase = "read"
  /\ phase' = "write"
  /\ ReadLinear \/ ReadWrist
  /\ UNCHANGED <<kind, enabled, place, speed, seen, command>>

LimitsOf(k) == IF k = "linear" THEN NoLimits ELSE Limits

(* Slip: position control whether or not homed.                            *)
NeverHomes(target) ==
  WritePosition(LimitsOf(kind), target, frame.position, frame.velocity)

(* WriteToHardware of both.                                                *)
DutyFor(target) ==
  IF kind = "linear" /\ ~is_homed
  THEN WriteDC(NoLimits, HomingDuty, frame.position, frame.velocity)
  ELSE WritePosition(LimitsOf(kind), target, frame.position, frame.velocity)

Write(target) ==
  /\ phase = "write"
  /\ phase' = "first"
  /\ command' = DutyFor(target)
  /\ UNCHANGED <<kind, enabled, body, seen, memory, lost>>
-----------------------------------------------------------------------------
(* What the controller itself does not let through: it stops at the        *)
(* forward limit switch, or at the soft limits it was given.               *)
(* Slip: no limits on the controller.                                      *)
Unstopped == FALSE
Stopped ==
  \/ kind = "linear" /\ command > 0 /\ place >= Switch
  \/ kind # "linear" /\ Outward(Limits, command, place + origin)

Output == IF ~enabled \/ Stopped THEN 0 ELSE Clamp(command, -FullDuty, FullDuty)

(* The speed follows the output by one step at least, and a stop is a stop.*)
Moved(v) ==
  LET next == Clamp(place + v, 0, Top)
  IN  place' = next /\ speed' = IF next = place + v THEN v ELSE 0

Chased ==
  IF speed < Output THEN speed + 1 .. Output
  ELSE IF speed > Output THEN Output .. speed - 1
  ELSE {speed}

Move ==
  /\ phase \in {"first", "second"}
  /\ age < FrameAge
  /\ phase' = IF phase = "first" THEN "second" ELSE "read"
  /\ \E v \in Chased : Moved(v)
  /\ age' = age + 1
  /\ UNCHANGED <<kind, enabled, origin, frame, sensed, memory, command, lost>>

(* A status frame and the absolute encoder's value arrive.                 *)
Report ==
  /\ age > 0 \/ frame # Frame
  /\ frame' = Frame /\ age' = 0
  /\ sensed' = place
  /\ UNCHANGED <<kind, phase, enabled, body, memory, command, lost>>

(* The driver station enables or disables the robot between two cycles.    *)
Toggle ==
  /\ phase = "read"
  /\ enabled' = ~enabled
  /\ UNCHANGED <<kind, phase, body, seen, memory, command, lost>>

Next ==
  \/ Read
  \/ \E target \in Targets : Write(target)
  \/ Move
  \/ Report
  \/ Toggle

Spec == Init /\ [][Next]_vars

(* The loop goes on and frames keep coming.  Nothing is assumed of the     *)
(* driver station.                                                         *)
LiveSpec ==
  /\ Spec
  /\ WF_vars(Read) /\ WF_vars(\E target \in Targets : Write(target))
  /\ WF_vars(Move) /\ WF_vars(Report)
-----------------------------------------------------------------------------
(* Every variable holds a value of its kind.                               *)
TypeOK ==
  /\ kind \in Kinds
  /\ phase \in {"read", "write", "first", "second"}
  /\ enabled \in BOOLEAN /\ slow \in BOOLEAN /\ is_homed \in BOOLEAN
  /\ lost \in BOOLEAN
  /\ place \in Places /\ sensed \in Places /\ speed \in Speeds
  /\ origin \in -Top .. Top
  /\ frame \in [position : Int, velocity : Speeds, switch : BOOLEAN]
  /\ age \in 0 .. FrameAge
  /\ command \in Int

(* Whatever is asked of a wrist that has been at or past the end of its    *)
(* range when last seen, the motor is never driven further out faster than *)
(* the wrist already moved: it stands or brakes.  The soft limit is        *)
(* applied before the current limit, which may turn its zero into an       *)
(* outward duty cycle again.                                               *)
BrakesAtLimit ==
  [][(phase = "write" /\ phase' = "first" /\ kind # "linear" /\ Limits.using) =>
       /\ frame.position >= Limits.forward => command' <= Clamp(frame.velocity, 0, FullDuty)
       /\ frame.position <= Limits.reverse => command' >= Clamp(frame.velocity, -FullDuty, 0)]_vars

(* However old the frames the duty cycles were computed from, no target    *)
(* takes a mechanism whose encoder is right further past its range than    *)
(* Overshoot, short of its hard stops.                                     *)
StaysInside ==
  kind = "climber" =>
    place \in Limits.reverse - Overshoot .. Limits.forward + Overshoot

(* A homed mechanism is where its encoder says, up to what it travels past *)
(* the switch, unless the one zeroing that counts was lost.                *)
HomedIsTrue ==
  (kind = "linear" /\ is_homed /\ ~lost) => Magnitude(origin) <= Top - Switch

(* An unhomed mechanism is homed once the robot has been enabled for long  *)
(* enough, in however many parts, wherever it was left.                    *)
HomingEnds ==
  (kind = "linear" /\ []<><<Move /\ enabled>>_vars) => <>is_homed

(* A wrist that comes to rest is positioned by its sensor, even when it    *)
(* was zeroed while moving.                                                *)
RestFindsTruth ==
  (kind = "wrist" /\ <>[](speed = 0)) => <>[](origin = 0)
=============================================================================
