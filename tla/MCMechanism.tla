---------------------------- MODULE MCMechanism ----------------------------
(***************************************************************************)
(* An instance of Mechanism for TLC: a wrist's range of 4 .. 9 between     *)
(* hard stops at 0 and 13, reduced from 5 down and from 8 up.              *)
(***************************************************************************)
EXTENDS Mechanism

WristLimits == [using |-> TRUE, forward |-> 9, reverse |-> 4,
                forward_reduce |-> 8, reverse_reduce |-> 5, reduce_max |-> 1]
=============================================================================
