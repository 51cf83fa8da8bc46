--------------------------- MODULE MotorSimulator ---------------------------
(***************************************************************************)
(* frc846::control::simulation::MCSimulator, what stands in for a motor    *)
(* controller off the robot, and what MotorMonkey::Tick does with it.      *)
(*                                                                         *)
(* A simulator is a record of its fields: the friction torque, which is    *)
(* computed and not applied, and the flags of the status frames, which are *)
(* not read, are left out.  Speeds and duty cycles are on one grid with    *)
(* free_speed at FullDuty, positions in half steps of it per pass.         *)
(***************************************************************************)
EXTENDS CurrentTorque

CONSTANTS FullDuty, SimConductance, TorquePerAmpere, Inertia

ASSUME SimulatorAssumption ==
  /\ {FullDuty, SimConductance, TorquePerAmpere} \subseteq Nat
  /\ Inertia \in Nat \ {0}

NewSimulator(gains) ==
  [inverted |-> FALSE, position |-> 0, velocity |-> 0, current |-> 0,
   message |-> [type |-> "DC", value |-> 0], gains |-> gains, load |-> 0, battery |-> 0]

(* What a request, a load or a reading is on the motor's own side.         *)
Turn(sim, x) == IF sim.inverted THEN -x ELSE x

(* The position turns with the direction, each time it is set.             *)
SetInverted(sim, inverted) ==
  [sim EXCEPT !.inverted = inverted, !.position = -@]

Requested(sim, type, value) == [type |-> type, value |-> Turn(sim, value)]

(* WriteDC and WriteVelocity.                                              *)
Write(sim, type, value) == [sim EXCEPT !.message = Requested(sim, type, value)]

(* Where the others turn the request this turns the motor.                 *)
WritePosition(sim, value) ==
  [sim EXCEPT !.position = Turn(sim, @), !.message = [type |-> "Position", value |-> value]]

IsDuplicateControlMessage(sim, type, value) == sim.message = Requested(sim, type, value)

ZeroEncoder(sim, position) == [sim EXCEPT !.position = Turn(sim, position)]

(* Slip: the load is taken as it is.                                       *)
LoadNotTurned(sim, load) == [sim EXCEPT !.load = load]
SetLoad(sim, load) == [sim EXCEPT !.load = Turn(sim, load)]
SetBatteryVoltage(sim, voltage) == [sim EXCEPT !.battery = voltage]

Readings(sim) ==
  [position |-> Turn(sim, sim.position), velocity |-> Turn(sim, sim.velocity),
   current |-> Magnitude(sim.current)]
-----------------------------------------------------------------------------
AtMost(x, limit) ==
  IF x > limit THEN limit ELSE IF x < -limit THEN -limit ELSE x

(* MotorGains::calculate.                                                  *)
Output(gains, error, integral, derivative, feedforward) ==
  gains.kP * error + gains.kI * integral + gains.kD * derivative + gains.kFF * feedforward

(* The request is itself taken for the error: no reading is subtracted.    *)
Duty(sim) ==
  LET m == sim.message
  IN  AtMost(CASE m.type = "DC"       -> m.value
               [] m.type = "Velocity" -> Output(sim.gains, m.value, 0, 0, sim.load)
               [] m.type = "Position" -> Output(sim.gains, m.value, 0, sim.velocity, sim.load),
             FullDuty)

current_to_torque(current) == current * TorquePerAmpere

(* Acceleration is rounded toward zero.                                    *)
predict_velocity(velocity, torque, dt) ==
  velocity + TowardZero(torque * dt, [num |-> 1, den |-> Inertia])

predict_position(twice_avg, position, dt) == position + twice_avg * dt

Torque(sim) ==
  current_to_torque(PredictDraw(Duty(sim), sim.velocity, sim.battery, SimConductance))
    - sim.load

TickAfter(sim, dt) ==
  LET new == AtMost(predict_velocity(sim.velocity, Torque(sim), dt), FullDuty)
  IN  [sim EXCEPT
         !.current = PredictDraw(Duty(sim), sim.velocity, sim.battery, SimConductance),
         !.position = predict_position(sim.velocity + new, @, dt),
         !.velocity = new]

(* MotorMonkey ticks it as every controller and, when that is done, once   *)
(* more with the battery and the load of now.                              *)
MonkeyTick(sim, voltage, load, dt) ==
  TickAfter(SetLoad(SetBatteryVoltage(TickAfter(sim, dt), voltage), load), 0)
=============================================================================
