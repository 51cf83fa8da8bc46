----------------------------- MODULE SyncBuffer -----------------------------
(***************************************************************************)
(* frc846::math::DoubleSyncBuffer (math/DoubleSyncBuffer.cc): two vectors  *)
(* of equal length, filled in step, whose best relative shift is found by  *)
(* correlation and whose common trough is then read.                       *)
(*                                                                         *)
(* A buffer is a record of the two vectors, m1 and m2, held as sequences:  *)
(* the C++ index i is the TLA+ index i + 1.  Samples are integers.         *)
(***************************************************************************)
EXTENDS Integers, Sequences

CONSTANTS
  DefSize,      (* def_size: the number of samples of a valid buffer      *)
  MaxSyncDiff,  (* max_sync_diff_: shifts 0 .. MaxSyncDiff - 1 are tried  *)
  Huge          (* the 100000000.0 that GetTrough's minima start from     *)

(* MotorMonkey uses {100U, 35}: every shift leaves samples to compare.     *)
ASSUME BufferAssumption ==
  /\ DefSize \in Nat \ {0}
  /\ MaxSyncDiff \in Nat \ {0}
  /\ MaxSyncDiff <= DefSize
  /\ Huge \in Nat

EmptyBuffer == [m1 |-> <<>>, m2 |-> <<>>]

(* Add pushes on both vectors, then drops both heads when over size.       *)
Add(buf, val1, val2) ==
  LET pushed == [m1 |-> Append(buf.m1, val1), m2 |-> Append(buf.m2, val2)]
  IN  IF Len(pushed.m1) > DefSize
      THEN [m1 |-> Tail(pushed.m1), m2 |-> Tail(pushed.m2)]
      ELSE pushed

(* IsValid throws when the sizes differ: SameSize is what it relies on.    *)
SameSize(buf) == Len(buf.m1) = Len(buf.m2)
IsValid(buf)  == Len(buf.m1) = DefSize

(* The sum Sync forms for one shift, before it divides by the number sz of *)
(* terms: sz = Pairs(buf, shift).                                          *)
Pairs(buf, shift) == Len(buf.m2) - shift
Correlation(buf, shift) ==
  LET upTo[i \in 0 .. Pairs(buf, shift)] ==
        IF i = 0 THEN 0 ELSE upTo[i - 1] + buf.m1[i] * buf.m2[i + shift]
  IN  upTo[Pairs(buf, shift)]

(* Is the mean product of shift a at least that of shift b?                *)
AtLeastAsGood(buf, a, b) ==
  Correlation(buf, a) * Pairs(buf, b) >= Correlation(buf, b) * Pairs(buf, a)

(* Sync keeps the first shift that beats every earlier one and -1.         *)
SyncDiff(buf) ==
  LET shifts == 0 .. MaxSyncDiff - 1
      best   == {a \in shifts : /\ \A b \in shifts : AtLeastAsGood(buf, a, b)
                                /\ Correlation(buf, a) > -Pairs(buf, a)}
  IN  IF best = {} THEN 0 ELSE CHOOSE a \in best : \A b \in best : a <= b

(* GetTrough: the minima over i = 1 .. size - diff - 1; i = 0 is skipped.  *)
MinOf(S) == CHOOSE x \in S : \A y \in S : x <= y
Trough(buf, diff) ==
  LET window == 2 .. Pairs(buf, diff)
  IN  << MinOf({Huge} \cup {buf.m1[i] : i \in window}),
         MinOf({Huge} \cup {buf.m2[i + diff] : i \in window}) >>
=============================================================================
