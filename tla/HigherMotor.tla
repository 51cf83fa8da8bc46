----------------------------- MODULE HigherMotor -----------------------------
(***************************************************************************)
(* frc846::control::HigherMotorController: how a requested position or     *)
(* duty cycle becomes the duty cycle handed to MotorMonkey.  Duty cycles   *)
(* and speeds are integers on the grid of module CurrentTorque; positions  *)
(* are integers in the mechanism's unit (HMCHelper converts by a positive  *)
(* factor, which keeps every comparison made here).                        *)
(***************************************************************************)
EXTENDS CurrentTorque

CONSTANTS
  FullDuty,      (* a duty cycle of 1.0                                    *)
  AllowedSlip,   (* |duty - speed| at which smart_current_limit is reached *)
  LimitedSlip,   (* the slip current_control adds for that current         *)
  Gain, Damping  (* kP and -kD on the grid; kI and kFF are registered as 0 *)

(* stall_current is larger than stall_current - free_current, so the slip  *)
(* handed out is at most the slip that was tolerated.                      *)
ASSUME MotorAssumption ==
  /\ FullDuty \in Nat \ {0} /\ AllowedSlip \in Nat /\ LimitedSlip \in Nat
  /\ LimitedSlip <= AllowedSlip /\ AllowedSlip <= FullDuty
  /\ Gain \in Nat /\ Damping \in Nat

Clamp(x, lo, hi) == IF x < lo THEN lo ELSE IF x > hi THEN hi ELSE x

-----------------------------------------------------------------------------
(* config::SoftLimits                                                      *)

SoftLimits == [using : BOOLEAN, forward : Int, reverse : Int,
               forward_reduce : Int, reverse_reduce : Int, reduce_max : Int]

(* The assertions of the constructor.                                      *)
Ordered(l) ==
  /\ l.forward >= l.reverse
  /\ l.forward_reduce <= l.forward
  /\ l.reverse_reduce >= l.reverse
  /\ l.forward_reduce >= l.reverse_reduce
  /\ l.reduce_max > 0

(* A motor whose soft_limits_ is empty.                                    *)
NoLimits == [using |-> FALSE, forward |-> 0, reverse |-> 0,
             forward_reduce |-> 0, reverse_reduce |-> 0, reduce_max |-> 1]

LimitPosition(l, p) ==
  IF ~l.using THEN p ELSE Clamp(p, l.reverse, l.forward)

(* At or past an end, and told to go on.                                   *)
Outward(l, d, p) ==
  \/ d < 0 /\ p <= l.reverse
  \/ d > 0 /\ p >= l.forward

LimitDC(l, d, p) ==
  IF ~l.using THEN d
  ELSE IF Outward(l, d, p) THEN 0
  ELSE IF p > l.forward_reduce /\ d > l.reduce_max THEN l.reduce_max
  ELSE IF p < l.reverse_reduce /\ d < -l.reduce_max THEN -l.reduce_max
  ELSE d

-----------------------------------------------------------------------------
(* limit_current_draw and current_control: beyond the tolerated slip the   *)
(* duty cycle is put near the speed, whatever it was.                      *)
LimitDraw(d, speed) ==
  IF Magnitude(d - speed) <= AllowedSlip THEN d
  ELSE Clamp(speed + (IF d > speed THEN LimitedSlip ELSE -LimitedSlip),
             -FullDuty, FullDuty)

(* WriteDC, with the position and the speed last reported.                 *)
WriteDC(l, d, pos, speed) == LimitDraw(LimitDC(l, d, pos), speed)

(* WritePosition.                                                          *)
WritePosition(l, target, pos, speed) ==
  WriteDC(l, Gain * (LimitPosition(l, target) - pos) - Damping * speed,
          pos, speed)
=============================================================================
