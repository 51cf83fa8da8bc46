--------------------------- MODULE CommandMailbox ---------------------------
(***************************************************************************)
(* What MotorMonkey promises the subsystems: one mailbox per motor that    *)
(* keeps the newest request, and a device that is only ever given a        *)
(* realization of the request standing at that moment.                     *)
(***************************************************************************)
CONSTANTS
  Slots,           (* the motors                                           *)
  Requests,        (* what may be requested of one                         *)
  Start,           (* the request every motor starts with                  *)
  Nothing,         (* a device nothing was given to yet                    *)
  Realizes(_, _)   (* may the first be given to a device for the second?   *)

VARIABLES goal, applied

Init ==
  /\ goal = [s \in Slots |-> Start]
  /\ applied = [s \in Slots |-> Nothing]

(* A subsystem replaces the standing request of a motor.                   *)
Request(s, c) ==
  /\ goal' = [goal EXCEPT ![s] = c]
  /\ UNCHANGED applied

(* Some devices are given realizations of their requests, together.        *)
Deliver ==
  /\ \A s \in Slots : \/ applied'[s] = applied[s]
                      \/ Realizes(applied'[s], goal[s])
  /\ DOMAIN applied' = Slots
  /\ UNCHANGED goal

Next == Deliver \/ \E s \in Slots, c \in Requests : Request(s, c)

Spec == Init /\ [][Next]_<<goal, applied>>
=============================================================================
