---------------------------- MODULE TeleopDrive ----------------------------
(***************************************************************************)
(* DriveCommand: what the driver's sticks and buttons become on their way  *)
(* to the drivetrain, with the acceleration AntiTippingCalculator permits  *)
(* and the rate limiters that keep to it.                                  *)
(*                                                                         *)
(* A velocity is counted in twentieths of a foot per second; what comes    *)
(* out is in fifths of that.  Times are in passes of the loop.             *)
(***************************************************************************)
EXTENDS Vectors, Sequences, Functions

CONSTANTS
  StickFull, Deadband, Exponent,  (* of a stick                            *)
  SpeedPerStick,   (* max_speed, by what is left of a stick pushed full    *)
  RcSpeed,         (* rc_control_speed                                     *)
  Gravity          (* what a pass adds to a velocity at it                 *)

ASSUME TeleopAssumption ==
  /\ {StickFull, Deadband, Exponent} \subseteq Nat /\ Deadband < StickFull
  /\ {SpeedPerStick, RcSpeed, Gravity} \subseteq Nat

(* In parts of (StickFull - Deadband) ^ Exponent.                          *)
HorizontalDeadband(input) ==
  LET beyond == Absolute(input) - Deadband
  IN  IF beyond <= 0 THEN 0
      ELSE IF input < 0 THEN -(beyond ^ Exponent) ELSE beyond ^ Exponent
-----------------------------------------------------------------------------
(* The robot's parts, in inches and pounds.                                *)
Wheelbase == 28
MinHeightOffBase == 38
ElevatorWeight == 20
EndEffectorWeight == 10
TelescopeWeight == 20
BaseWeight == 75
BaseHeight == 6
TotalWeight == BaseWeight + ElevatorWeight + EndEffectorWeight + TelescopeWeight

(* The height of the elevator's centre of gravity times its weight: half   *)
(* the height of the end effector above the least height, the mean of both *)
(* parts' below it.                                                        *)
ElevatorMoment(height) ==
  IF height > MinHeightOffBase
  THEN ((ElevatorWeight + EndEffectorWeight) * height) \div 2
  ELSE (ElevatorWeight * MinHeightOffBase) \div 2 + EndEffectorWeight * height

TelescopeMoment(height) == (TelescopeWeight * height) \div 2

(* Times TotalWeight.  The elevator is at <<-5, -7>> and the telescope at  *)
(* <<5, -7>>.                                                              *)
CalculateRobotCG(elevator_height, telescope_height) ==
  [plane |-> Plus(Times(<<-5, -7>>, ElevatorWeight + EndEffectorWeight),
                  Times(<<5, -7>>, TelescopeWeight)),
   height |-> ElevatorMoment(elevator_height) + TelescopeMoment(telescope_height)
              + BaseHeight * BaseWeight]

Wheels == 1 .. 4
WheelVecs(bearing) ==
  [i \in Wheels |->
     Rotate(<< <<1, 1>>, <<-1, 1>>, <<-1, -1>>, <<1, -1>> >>[i], bearing)]

(* No component of a change is taken for less than 0.05 feet per second.   *)
AtLeastOne(v) == [k \in 1 .. 2 |-> IF v[k] = 0 THEN 1 ELSE v[k]]

(* Slip: of the change, not its opposite.                                  *)
WheelAhead(change, bearing) ==
  CHOOSE i \in Wheels :
    \A j \in Wheels : ~ NearerInAngle(AtLeastOne(change), WheelVecs(bearing)[j],
                                      WheelVecs(bearing)[i])

(* The first of the wheels whose angle differs least from the direction    *)
(* opposite to the change.                                                 *)
ClosestWheel(change, bearing) ==
  LET wheels == WheelVecs(bearing)
      back == Times(AtLeastOne(change), -1)
  IN  CHOOSE i \in Wheels :
        \A j \in Wheels \ {i} :
          \/ NearerInAngle(back, wheels[i], wheels[j])
          \/ i < j /\ ~ NearerInAngle(back, wheels[j], wheels[i])

(* The change of each component that a pass may make: the part of the way  *)
(* from the wheel to the centre of gravity that lies in the direction of   *)
(* the change, by the height.  Bearing turns the wheels, and not where the *)
(* centre of gravity is.                                                   *)
LimitAcceleration(change, bearing, cg) ==
  LET v == AtLeastOne(change)
      back == Times(v, -1)
      wheel == Times(WheelVecs(bearing)[ClosestWheel(change, bearing)], Wheelbase \div 2)
      effective == ProjectOnto(back, wheel)
      lever(k) == cg.plane[k] - (TotalWeight * effective[k]) \div (5 * Square(v))
  IN  [k \in 1 .. 2 |-> (Absolute(lever(k)) * Gravity) \div cg.height]
-----------------------------------------------------------------------------
(* RampRateLimiter: a value follows at the rate for as long as it was not  *)
(* asked.                                                                  *)
Limit(last, value, rate, elapsed) ==
  LET most == rate * elapsed
  IN  IF value - last > most THEN last + most
      ELSE IF value - last < -most THEN last - most
      ELSE value

(* The buttons of rc_control, the first of them that is pressed.           *)
Buttons == {"none", "p_x", "n_x", "p_y", "n_y"}
RcVelocity(button) ==
  CASE button = "p_x" -> <<RcSpeed, 0>>
    [] button = "n_x" -> <<-RcSpeed, 0>>
    [] button = "p_y" -> <<0, RcSpeed>>
    [] button = "n_y" -> <<0, -RcSpeed>>
    [] OTHER          -> <<0, 0>>

(* The bearing auto_align turns to; x < 158.5 inches is the left half.     *)
AlignBearing(position_algal, algal_state, has_coral, left_half, blue) ==
  LET red == IF position_algal /\ algal_state = "processor" THEN -90
             ELSE IF position_algal /\ algal_state = "net" THEN 0
             ELSE IF has_coral THEN 0
             ELSE IF left_half THEN 234 + 180 ELSE 126 + 180
  IN  IF blue THEN 180 - red ELSE red

(* The velocity the sticks ask for, and the one the limiters let through.  *)
StickVelocity(sticks) ==
  [k \in 1 .. 2 |-> HorizontalDeadband(sticks[k]) * SpeedPerStick]

Ramped(ramp, in) ==
  LET wanted == StickVelocity(in.sticks)
      rates == LimitAcceleration(Minus(wanted, in.velocity), in.bearing, in.cg)
  IN  [k \in 1 .. 2 |-> Limit(ramp[k], wanted[k], rates[k], in.elapsed)]

(* Slip: rc_control turns counter-clockwise.                               *)
TargetTurnedBack(ramp, in) ==
  LET asked == IF in.rc_control THEN Rotate(RcVelocity(in.button), Opposite(in.bearing))
               ELSE Times(Ramped(ramp, in), 5)
  IN  [velocity |-> IF in.blue THEN Times(asked, -1) ELSE asked,
       turn |-> [by |-> HorizontalDeadband(in.rotation)]]

(* The limiters go on while rc_control is held, which asks in the robot's  *)
(* frame; a blue driver stands at the other end of the field.              *)
Target(ramp, in) ==
  LET asked == IF in.rc_control THEN Rotate(RcVelocity(in.button), in.bearing)
               ELSE Times(Ramped(ramp, in), 5)
  IN  [velocity |-> IF in.blue THEN Times(asked, -1) ELSE asked,
       turn |-> IF in.auto_align
                THEN [to |-> AlignBearing(in.position_algal, in.algal_state,
                                          in.has_coral, in.left_half, in.blue)]
                ELSE [by |-> HorizontalDeadband(in.rotation)]]
=============================================================================
