---------------------------- MODULE CurrentTorque ----------------------------
(***************************************************************************)
(* frc846::control::calculators::CurrentTorqueCalculator: the linear motor *)
(* model.  A duty cycle and a speed are integers on one grid (the speed is *)
(* pct_speed, so equal values mean no current); a supply is an integer     *)
(* number of volts and a conductance the inverse of total_resistance.      *)
(***************************************************************************)
EXTENDS Integers

Magnitude(x) == IF x < 0 THEN -x ELSE x

(* predict_current_draw: (duty * v_supply - back_emf) / total_resistance.  *)
PredictDraw(duty, pct, supply, conductance) ==
  (duty * supply - pct * supply) * conductance

(* A scale factor is the quotient num / den of two positive integers.      *)
NoScaling == [num |-> 1, den |-> 1]

(* x * num / den, rounded toward zero onto the grid.                       *)
TowardZero(x, scale) ==
  IF x >= 0 THEN (x * scale.num) \div scale.den
            ELSE -(((-x) * scale.num) \div scale.den)

(* Slip: the factor upside down.                                           *)
GrowDuty(scale, duty, pct) ==
  pct + TowardZero(duty - pct, [num |-> scale.den, den |-> scale.num])

(* scale_current_draw: shrinks the distance of the duty cycle to the back  *)
(* EMF, so zero scaling leaves the motor coasting, not braking.            *)
ScaleDuty(scale, duty, pct) == pct + TowardZero(duty - pct, scale)
=============================================================================
