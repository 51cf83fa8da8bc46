---------------------------- MODULE MCMotorMonkey ----------------------------
(***************************************************************************)
(* Instances of MotorMonkey for TLC.                                       *)
(***************************************************************************)
EXTENDS MotorMonkey, TLC

UnitConductance == [s \in Slots |-> 1]

(* The motors are interchangeable when their circuits are equal.           *)
Symmetry == Permutations(Slots)
=============================================================================
