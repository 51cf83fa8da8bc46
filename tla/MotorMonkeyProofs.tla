-------------------------- MODULE MotorMonkeyProofs --------------------------
(***************************************************************************)
(* Theorems about MotorMonkey, for every set of motors, every command and  *)
(* voltage, and every setting of the preferences that MotorAssumption      *)
(* allows.                                                                 *)
(***************************************************************************)
EXTENDS MotorMonkey, FiniteSets, FiniteSetTheorems, FunctionTheorems,
        SequenceTheorems, WellFoundedInduction, NaturalsInduction, TLAPS

-----------------------------------------------------------------------------
(***************************************************************************)
(* Lemmas about the operators.                                             *)
(***************************************************************************)

(* A non-empty finite set of integers has a least element, so MinOf is     *)
(* what GetTrough's loop computes.                                         *)
LEMMA FiniteMin ==
  ASSUME NEW S, S \subseteq Int, IsFiniteSet(S), S # {}
  PROVE  \E x \in S : \A y \in S : x <= y
<1> DEFINE NoMin(T) == T # {} /\ T \subseteq Int /\ IsFiniteSet(T)
                       /\ \A x \in T : \E y \in T : ~(x <= y)
           Sizes == {n \in Nat : \E T \in SUBSET Int : NoMin(T) /\ Cardinality(T) = n}
<1> SUFFICES ASSUME NoMin(S) PROVE FALSE
  OBVIOUS
<1>1. Sizes # {}
  BY FS_CardinalityType
<1>2. PICK n \in Sizes : \A m \in Sizes : ~(<<m, n>> \in OpToRel(<, Nat))
  <2>1. IsWellFoundedOn(OpToRel(<, Nat), Nat)
    BY NatLessThanWellFounded
  <2> QED
    BY <1>1, <2>1, WFMin, Zenon
<1>3. PICK T \in SUBSET Int : NoMin(T) /\ Cardinality(T) = n
  BY <1>2
<1>4. PICK x \in T : TRUE
  BY <1>3
<1> DEFINE U == T \ {x}
<1>5. IsFiniteSet(U) /\ Cardinality(U) = n - 1 /\ n - 1 \in Nat
  <2>1. IsFiniteSet(U) /\ Cardinality(U) = Cardinality(T) - 1
    BY <1>3, <1>4, FS_RemoveElement
  <2>2. Cardinality(U) \in Nat
    BY <2>1, FS_CardinalityType
  <2> QED
    BY <2>1, <2>2, <1>3
<1>6. U # {}
  BY <1>3, <1>4
<1>7. \A z \in U : \E y \in U : ~(z <= y)
  <2> SUFFICES ASSUME NEW z \in U, \A y \in U : z <= y PROVE FALSE
    OBVIOUS
  <2>1. z \in Int /\ x \in Int /\ \A y \in T : y = x \/ y \in U
    BY <1>3, <1>4
  <2>2. CASE z <= x
    <3>1. \A y \in T : z <= y
      BY <2>1, <2>2
    <3> QED
      BY <1>3, <3>1, <2>1
  <2>3. CASE ~(z <= x)
    <3>1. \A y \in T : y \in Int /\ x <= y
      BY <2>1, <2>3, <1>3
    <3> QED
      BY <1>3, <1>4, <3>1
  <2> QED
    BY <2>2, <2>3
<1>8. NoMin(U)
  BY <1>3, <1>5, <1>6, <1>7
<1>9. n - 1 \in Sizes /\ <<n - 1, n>> \in OpToRel(<, Nat)
  <2>1. n - 1 \in Sizes
    BY <1>3, <1>5, <1>8
  <2>2. n \in Nat /\ n - 1 \in Nat /\ n - 1 < n
    BY <1>5
  <2> QED
    BY <2>1, <2>2 DEF OpToRel
<1> QED
  BY <1>2, <1>9

LEMMA MinOfInt ==
  ASSUME NEW S, S \subseteq Int, IsFiniteSet(S), S # {}
  PROVE  MinOf(S) \in S /\ \A y \in S : MinOf(S) <= y
BY FiniteMin DEF MinOf

(* The values of a sequence over finitely many positions are finitely many. *)
LEMMA FiniteImage ==
  ASSUME NEW f, NEW S, IsFiniteSet(S)
  PROVE  IsFiniteSet({f[i] : i \in S})
<1> DEFINE T == {f[i] : i \in S}
           g == [i \in S |-> f[i]]
<1>1. g \in Surjection(S, T)
  BY Fun_IsSurj
<1> QED
  BY <1>1, FS_Surjection

Buffers == {buf \in [m1 : Seq(Int), m2 : Seq(Int)] : SameSize(buf)}

(* Add keeps the two vectors of one size, and a full buffer stays full.    *)
LEMMA AddKeepsSize ==
  ASSUME NEW buf \in Buffers, NEW x \in Int, NEW y \in Int
  PROVE  /\ Add(buf, x, y) \in Buffers
         /\ IsValid(buf) => IsValid(Add(buf, x, y))
<1> USE BufferAssumption DEF Buffers, SameSize, IsValid
<1>1. ASSUME NEW q \in Seq(Int), NEW z \in Int
      PROVE  /\ Append(q, z) \in Seq(Int) /\ Len(Append(q, z)) = Len(q) + 1
             /\ Tail(Append(q, z)) \in Seq(Int)
             /\ Len(Tail(Append(q, z))) = Len(q)
  <2>1. /\ Append(q, z) \in Seq(Int) /\ Append(q, z) # <<>>
        /\ Len(Append(q, z)) = Len(q) + 1
    <3>1. Append(q, z) \in Seq(Int) /\ Len(Append(q, z)) = Len(q) + 1
      OBVIOUS
    <3>2. Append(q, z) # <<>>
      BY <3>1
    <3> QED
      BY <3>1, <3>2
  <2>2. /\ Tail(Append(q, z)) \in Seq(Int)
        /\ Len(Tail(Append(q, z))) = Len(Append(q, z)) - 1
    BY <2>1, HeadTailProperties
  <2>3. Len(q) \in Nat
    BY LenProperties
  <2> QED
    BY <2>1, <2>2, <2>3
<1>2. buf.m1 \in Seq(Int) /\ buf.m2 \in Seq(Int) /\ Len(buf.m1) \in Nat
  OBVIOUS
<1> QED
  BY <1>1, <1>2 DEF Add

LEMMA SyncDiffInRange ==
  ASSUME NEW buf
  PROVE  SyncDiff(buf) \in 0 .. MaxSyncDiff - 1
<1> DEFINE shifts == 0 .. MaxSyncDiff - 1
           best == {a \in shifts : /\ \A b \in shifts : AtLeastAsGood(buf, a, b)
                                   /\ Correlation(buf, a) > -Pairs(buf, a)}
<1>1. best # {} => (CHOOSE a \in best : \A b \in best : a <= b) \in best
  <2> SUFFICES ASSUME best # {} PROVE MinOf(best) \in best
    BY DEF MinOf
  <2>1. IsFiniteSet(best)
    <3>1. IsFiniteSet(shifts)
      BY FS_Interval, BufferAssumption
    <3> HIDE DEF shifts
    <3> QED
      BY <3>1, FS_Subset
  <2>2. best \subseteq Int
    BY BufferAssumption
  <2> QED
    BY <2>1, <2>2, MinOfInt
<1>2. SyncDiff(buf) = IF best = {} THEN 0
                      ELSE CHOOSE a \in best : \A b \in best : a <= b
  BY DEF SyncDiff
<1> QED
  BY <1>1, <1>2, BufferAssumption

(* The trough of a valid buffer is a pair of integers.                     *)
LEMMA TroughInt ==
  ASSUME NEW buf \in Buffers, NEW diff \in Nat
  PROVE  Trough(buf, diff)[1] \in Int /\ Trough(buf, diff)[2] \in Int
<1> DEFINE window == 2 .. Pairs(buf, diff)
           lows1 == {buf.m1[i] : i \in window}
           lows2 == {buf.m2[i + diff] : i \in window}
<1>1. Pairs(buf, diff) \in Int /\ IsFiniteSet(window)
  BY FS_Interval DEF Pairs, Buffers
<1>2. \A i \in window : i \in DOMAIN buf.m1 /\ i + diff \in DOMAIN buf.m2
  BY <1>1 DEF Pairs, Buffers, SameSize
<1>3. lows1 \subseteq Int /\ lows2 \subseteq Int
  <2>1. buf.m1 \in Seq(Int) /\ buf.m2 \in Seq(Int)
    BY DEF Buffers
  <2>2. ASSUME NEW i \in window
        PROVE  buf.m1[i] \in Int /\ buf.m2[i + diff] \in Int
    <3> HIDE DEF window
    <3> QED
      BY <1>2, <2>1
  <2> QED
    BY <2>2
<1>4. IsFiniteSet(lows1) /\ IsFiniteSet(lows2)
  <2> DEFINE h == [i \in window |-> buf.m2[i + diff]]
  <2>1. IsFiniteSet(lows1)
    BY <1>1, FiniteImage
  <2>2. IsFiniteSet({h[i] : i \in window})
    BY <1>1, FiniteImage
  <2>3. {h[i] : i \in window} = lows2
    OBVIOUS
  <2> QED
    BY <2>1, <2>2, <2>3
<1>5. /\ IsFiniteSet({Huge} \cup lows1) /\ IsFiniteSet({Huge} \cup lows2)
      /\ {Huge} \cup lows1 \subseteq Int /\ {Huge} \cup lows2 \subseteq Int
  <2> HIDE DEF lows1, lows2
  <2>1. IsFiniteSet({Huge})
    BY FS_Singleton
  <2>2. IsFiniteSet({Huge} \cup lows1) /\ IsFiniteSet({Huge} \cup lows2)
    BY <1>4, <2>1, FS_Union
  <2> QED
    BY <1>3, <2>2, BufferAssumption
<1>6. MinOf({Huge} \cup lows1) \in Int /\ MinOf({Huge} \cup lows2) \in Int
  BY <1>5, MinOfInt
<1>7. Trough(buf, diff) = <<MinOf({Huge} \cup lows1), MinOf({Huge} \cup lows2)>>
  BY DEF Trough
<1> QED
  BY <1>6, <1>7

(* The floor of a quotient: what \div is used for here.                    *)
LEMMA FloorBounds ==
  ASSUME NEW a \in Int, NEW b \in Nat \ {0}
  PROVE  a \div b \in Int /\ (a \div b) * b <= a /\ a < (a \div b) * b + b
OBVIOUS

(* Scaling by a fraction of at most one shrinks toward zero, keeps the sign *)
(* and stays an integer.                                                    *)
LEMMA ShrinksTowardZero ==
  ASSUME NEW x \in Int, NEW scale \in [num : Nat \ {0}, den : Nat \ {0}],
         scale.num <= scale.den
  PROVE  /\ TowardZero(x, scale) \in Int
         /\ x >= 0 => 0 <= TowardZero(x, scale) /\ TowardZero(x, scale) <= x
         /\ x <= 0 => x <= TowardZero(x, scale) /\ TowardZero(x, scale) <= 0
<1>1. ASSUME NEW y \in Nat
      PROVE  /\ (y * scale.num) \div scale.den \in Nat
             /\ (y * scale.num) \div scale.den <= y
  <2> DEFINE n == scale.num
             d == scale.den
             q == (y * n) \div d
  <2>1. n \in Nat /\ d \in Nat \ {0} /\ n <= d
    OBVIOUS
  <2>2. y * n \in Nat /\ y * n <= y * d
    BY <2>1
  <2>3. q \in Int /\ q * d <= y * n /\ y * n < q * d + d
    <3> HIDE DEF n, d
    <3> QED
      BY <2>1, <2>2, FloorBounds
  <2>4. q * d <= y * d
    <3> HIDE DEF n, d, q
    <3> QED
      BY <2>1, <2>2, <2>3
  <2>5. q <= y
    <3> HIDE DEF n, d, q
    <3>1. ASSUME q >= y + 1 PROVE FALSE
      <4>1. q * d >= (y + 1) * d
        BY <3>1, <2>1, <2>3
      <4> QED
        BY <4>1, <2>4, <2>1, <2>3
    <3> QED
      BY <3>1, <2>3
  <2>6. q >= 0
    <3> HIDE DEF n, d, q
    <3>1. ASSUME q <= -1 PROVE FALSE
      <4>1. q * d <= -d
        BY <3>1, <2>1, <2>3
      <4> QED
        BY <4>1, <2>1, <2>2, <2>3
    <3> QED
      BY <3>1, <2>3
  <2> QED
    BY <2>3, <2>5, <2>6
<1>2. CASE x >= 0
  BY <1>1, <1>2 DEF TowardZero
<1>3. CASE x < 0
  <2>1. -x \in Nat
    BY <1>3
  <2>2. /\ ((-x) * scale.num) \div scale.den \in Nat
        /\ ((-x) * scale.num) \div scale.den <= -x
    BY <2>1, <1>1
  <2> QED
    BY <1>3, <2>2 DEF TowardZero
<1> QED
  BY <1>2, <1>3

(* What is sent for a duty cycle lies between it and the speed read.       *)
LEMMA ScaleDutyBetween ==
  ASSUME NEW duty \in Int, NEW pct \in Int,
         NEW scale \in [num : Nat \ {0}, den : Nat \ {0}],
         scale.num <= scale.den
  PROVE  /\ ScaleDuty(scale, duty, pct) \in Int
         /\ Between(ScaleDuty(scale, duty, pct), duty, pct)
<1> DEFINE t == TowardZero(duty - pct, scale)
<1>1. /\ t \in Int
      /\ duty - pct >= 0 => 0 <= t /\ t <= duty - pct
      /\ duty - pct <= 0 => duty - pct <= t /\ t <= 0
  BY ShrinksTowardZero
<1>2. ScaleDuty(scale, duty, pct) = pct + t
  BY DEF ScaleDuty
<1> HIDE DEF t
<1> QED
  BY <1>1, <1>2 DEF Between
-----------------------------------------------------------------------------
(***************************************************************************)
(* Type correctness, with the two facts it needs: scaling only shrinks,    *)
(* and the limit is in range or not a number.                              *)
(***************************************************************************)

ScalingShrinks == scale_factor.num <= scale_factor.den

TypeInv == TypeOK /\ ScalingShrinks /\ LimitInRange

(* MotorAssumption, one constant at a time.                                *)
LEMMA ConstantTypes ==
  /\ BatteryCC \in Nat /\ VoltageMin \in Nat /\ RecalThresh \in Nat
  /\ MinMaxDraw \in Nat \ {0} /\ MaxMaxDraw \in Nat \ {0}
  /\ DefaultMaxDraw \in MinMaxDraw .. MaxMaxDraw
  /\ \A s \in Slots : Conductance[s] \in Nat
BY MotorAssumption

LEMMA MagnitudeNat ==
  ASSUME NEW x \in Int
  PROVE  Magnitude(x) \in Nat
BY DEF Magnitude

LEMMA CommandParts ==
  ASSUME NEW c \in Commands
  PROVE  /\ c \in OutCommands
         /\ PredictedDuty(c) \in Int
         /\ c.type = "DC" => c.value \in Int
BY MotorAssumption DEF Commands, OutCommands, PredictedDuty

LEMMA DrawIsInteger ==
  ASSUME TypeOK, NEW s \in Slots, NEW duty \in Int
  PROVE  DrawOf(s, duty) \in Int /\ Magnitude(DrawOf(s, duty)) \in Nat
<1>1. velocity[s] \in Int /\ battery_voltage \in Int /\ Conductance[s] \in Int
  <2>1. velocity \in [Slots -> Speeds] /\ battery_voltage \in Nat
    BY DEF TypeOK
  <2>2. Speeds \subseteq Int
    BY MotorAssumption
  <2>3. velocity[s] \in Int
    BY <2>1, <2>2
  <2>4. Conductance[s] \in Int
    BY ConstantTypes
  <2>5. battery_voltage \in Int
    BY <2>1
  <2> QED
    BY <2>3, <2>4, <2>5
<1>2. (duty * battery_voltage - velocity[s] * battery_voltage) \in Int
  BY <1>1
<1>3. DrawOf(s, duty) \in Int
  BY <1>1, <1>2 DEF DrawOf, PredictDraw
<1> QED
  BY <1>3, MagnitudeNat

(* What pass 2 makes of a message realizes the message's command.          *)
LEMMA OutgoingRealizes ==
  ASSUME TypeOK, ScalingShrinks, NEW msg \in Messages
  PROVE  Outgoing(msg) \in OutCommands /\ Realizes(Outgoing(msg), msg.command)
<1>1. msg.slot \in Slots /\ msg.command \in Commands
  BY DEF Messages
<1>2. CASE msg.command.type = "DC"
  <2> DEFINE v == velocity[msg.slot]
             d == ScaleDuty(scale_factor, msg.command.value, v)
  <2>1. msg.command.value \in Int
    BY <1>1, <1>2, CommandParts
  <2>2. v \in Speeds /\ v \in Int
    BY <1>1, MotorAssumption DEF TypeOK
  <2>3. d \in Int /\ Between(d, msg.command.value, v)
    BY <2>1, <2>2, ScaleDutyBetween DEF TypeOK, ScalingShrinks
  <2>4. Outgoing(msg) = [type |-> "DC", value |-> d]
    BY <1>2 DEF Outgoing
  <2> HIDE DEF d, v
  <2> QED
    BY <1>2, <2>2, <2>3, <2>4 DEF OutCommands, Realizes
<1>3. CASE msg.command.type # "DC"
  BY <1>1, <1>3, CommandParts DEF Outgoing, Realizes
<1> QED
  BY <1>2, <1>3

(* Whatever the buffer holds, a recalculated limit passes the range tests  *)
(* or is not a number.                                                     *)
LEMMA DrawFromTroughInRange ==
  ASSUME TypeOK, LimitInRange, NEW buf \in Buffers
  PROVE  DrawFromTrough(buf) \in MinMaxDraw .. MaxMaxDraw \cup {NaN}
<1> DEFINE trough   == Trough(buf, SyncDiff(buf))
           draw     == BatteryCC - trough[1]
           volts    == trough[2]
           headroom == draw * (last_disabled_voltage - VoltageMin)
           sag      == last_disabled_voltage - volts
           num      == IF sag < 0 THEN -headroom ELSE headroom
           den      == Magnitude(sag)
<1>1. trough[1] \in Int /\ trough[2] \in Int
  BY TroughInt, SyncDiffInRange, BufferAssumption
<1>2. draw \in Int /\ sag \in Int /\ last_disabled_voltage - VoltageMin \in Int
  <2>1. last_disabled_voltage \in Nat
    BY DEF TypeOK
  <2> HIDE DEF trough
  <2> QED
    BY <1>1, <2>1, ConstantTypes
<1>3. num \in Int /\ den \in Nat
  BY <1>2, MagnitudeNat
<1>4. MinMaxDraw \in Nat /\ MaxMaxDraw \in Nat
  BY ConstantTypes
<1>5. ASSUME den # 0, MinMaxDraw * den <= num, num <= MaxMaxDraw * den
      PROVE  num \div den \in MinMaxDraw .. MaxMaxDraw
  <2> DEFINE q == num \div den
  <2> HIDE DEF num, den
  <2>1. q \in Int /\ q * den <= num /\ num < q * den + den
    BY <1>3, <1>5, FloorBounds
  <2> HIDE DEF q
  <2>2. q <= MaxMaxDraw
    <3>1. ASSUME q >= MaxMaxDraw + 1 PROVE FALSE
      <4>1. q * den >= (MaxMaxDraw + 1) * den
        BY <1>3, <1>4, <2>1, <3>1
      <4> QED
        BY <1>3, <1>4, <1>5, <2>1, <4>1
    <3> QED
      BY <1>4, <2>1, <3>1
  <2>3. q >= MinMaxDraw
    <3>1. ASSUME q <= MinMaxDraw - 1 PROVE FALSE
      <4>1. q * den <= (MinMaxDraw - 1) * den
        BY <1>3, <1>4, <2>1, <3>1
      <4> QED
        BY <1>3, <1>4, <1>5, <2>1, <4>1
    <3> QED
      BY <1>4, <2>1, <3>1
  <2> QED
    BY <1>4, <2>1, <2>2, <2>3 DEF q
<1>6. DrawFromTrough(buf) =
        CASE volts > RecalThresh -> max_draw
          [] volts <= RecalThresh /\ den = 0 ->
               IF num = 0 THEN NaN ELSE max_draw
          [] OTHER ->
               IF MinMaxDraw * den <= num /\ num <= MaxMaxDraw * den
               THEN num \div den ELSE max_draw
  BY DEF DrawFromTrough, WithinRange
<1>7. volts \in Int /\ RecalThresh \in Int
  BY <1>1, ConstantTypes
<1> HIDE DEF num, den, volts
<1> QED
  BY <1>3, <1>5, <1>6, <1>7 DEF LimitInRange

LEMMA InitTypeInv == Init => TypeInv
<1> SUFFICES ASSUME Init PROVE TypeInv
  OBVIOUS
<1>1. DefaultCommand \in Commands /\ DefaultCommand \in OutCommands
  BY MotorAssumption DEF DefaultCommand, Commands, OutCommands
<1>2. EmptyBuffer \in Buffers
  BY DEF EmptyBuffer, Buffers, SameSize
<1>3. 0 \in Speeds /\ InitialLoops \in Nat
  BY MotorAssumption
<1>4. DefaultMaxDraw \in Int /\ DefaultMaxDraw \in MinMaxDraw .. MaxMaxDraw
  BY ConstantTypes
<1>5. NoScaling \in [num : Nat \ {0}, den : Nat \ {0}] /\ NoScaling.num <= NoScaling.den
  BY DEF NoScaling
<1>6. TypeOK
  BY <1>1, <1>2, <1>3, <1>4, <1>5 DEF Init, TypeOK, Buffers
<1> QED
  BY <1>4, <1>5, <1>6 DEF Init, TypeInv, ScalingShrinks, LimitInRange

LEMMA PushTypeInv ==
  ASSUME TypeInv, NEW s \in Slots, NEW c \in Commands, Push(s, c)
  PROVE  TypeInv'
<1>1. [slot |-> s, command |-> c] \in Messages
  BY DEF Messages
<1>2. control_messages' \in Seq(Messages)
  BY <1>1 DEF TypeInv, TypeOK, Push
<1>3. requested' \in [Slots -> Commands]
  BY DEF TypeInv, TypeOK, Push
<1> QED
  BY <1>2, <1>3 DEF TypeInv, TypeOK, ScalingShrinks, LimitInRange, Push,
     pass, drives, battery, power

LEMMA PredictTypeInv ==
  ASSUME TypeInv, Predict
  PROVE  TypeInv'
<1> DEFINE msg  == Head(temp_messages)
           draw == DrawOf(msg.slot, PredictedDuty(msg.command))
<1>1. msg \in Messages /\ Tail(temp_messages) \in Seq(Messages)
  BY DEF TypeInv, TypeOK, Predict
<1>2. msg.slot \in Slots /\ PredictedDuty(msg.command) \in Int
  BY <1>1, CommandParts DEF Messages
<1>3. Magnitude(draw) \in Nat
  BY <1>2, DrawIsInteger DEF TypeInv
<1>4. total_current' \in Nat /\ second_total_current' \in Nat
  <2>1. total_current \in Nat /\ second_total_current \in Nat
    BY DEF TypeInv, TypeOK
  <2>2. /\ total_current' = total_current + Magnitude(draw)
        /\ \/ second_total_current' = second_total_current
           \/ second_total_current' = second_total_current + Magnitude(draw)
    BY DEF Predict, Accumulate
  <2> HIDE DEF draw
  <2> QED
    BY <1>3, <2>1, <2>2
<1>5. /\ temp_messages' = Tail(temp_messages)
      /\ UNCHANGED <<pc, control_messages, scale_factor, drives, velocity,
                     battery, power, history>>
  BY DEF Predict
<1> QED
  BY <1>1, <1>4, <1>5 DEF TypeInv, TypeOK, ScalingShrinks, LimitInRange,
     drives, battery, power, history

LEMMA RescaleTypeInv ==
  ASSUME TypeInv, Rescale
  PROVE  TypeInv'
<1>1. total_current \in Nat /\ max_draw \in Int \cup {NaN}
  BY DEF TypeInv, TypeOK
<1>2. scale_factor' \in [num : Nat \ {0}, den : Nat \ {0}]
      /\ scale_factor'.num <= scale_factor'.den
  <2>1. CASE OverBudget
    <3>1. max_draw \in Nat \ {0} /\ total_current \in Nat \ {0} /\ max_draw <= total_current
      BY <1>1, <2>1 DEF OverBudget
    <3>2. scale_factor' = [num |-> max_draw, den |-> total_current]
      BY <2>1 DEF Rescale
    <3> QED
      BY <3>1, <3>2
  <2>2. CASE ~OverBudget
    BY <2>2 DEF Rescale, NoScaling
  <2> QED
    BY <2>1, <2>2
<1> QED
  BY <1>2 DEF Rescale, TypeInv, TypeOK, ScalingShrinks, LimitInRange,
     messages, drives, battery, power, history

LEMMA WriteTypeInv ==
  ASSUME TypeInv, Write
  PROVE  TypeInv'
<1> DEFINE msg == Head(control_messages)
           out == Outgoing(msg)
<1>1. msg \in Messages /\ Tail(control_messages) \in Seq(Messages)
  BY DEF TypeInv, TypeOK, Write
<1>2. msg.slot \in Slots /\ out \in OutCommands
  BY <1>1, OutgoingRealizes DEF TypeInv, Messages
<1>3. last_command' \in [Slots -> OutCommands] /\ last_error' \in [Slots -> BOOLEAN]
  <2>1. last_command \in [Slots -> OutCommands] /\ last_error \in [Slots -> BOOLEAN]
    BY DEF TypeInv, TypeOK
  <2>2. \/ last_command' = [last_command EXCEPT ![msg.slot] = out]
        \/ last_command' = last_command
    BY DEF Write
  <2>3. last_error' = [last_error EXCEPT ![msg.slot] = FALSE]
    BY DEF Write
  <2> HIDE DEF out, msg
  <2> QED
    BY <1>2, <2>1, <2>2, <2>3
<1>4. written_draw' \in Nat
  <2>1. written_draw \in Nat
    BY DEF TypeInv, TypeOK
  <2>2. out.value \in Int
    BY <1>2 DEF OutCommands
  <2>3. Magnitude(DrawOf(msg.slot, out.value)) \in Nat
    BY <1>2, <2>2, DrawIsInteger DEF TypeInv
  <2>4. \/ written_draw' = written_draw + Magnitude(DrawOf(msg.slot, out.value))
        \/ written_draw' = written_draw
    BY DEF Write
  <2> HIDE DEF out, msg
  <2> QED
    BY <2>1, <2>3, <2>4
<1>5. /\ control_messages' = Tail(control_messages)
      /\ UNCHANGED <<pc, temp_messages, pass, device, velocity, battery, power,
                     requested, steady>>
  BY DEF Write
<1> QED
  BY <1>1, <1>3, <1>4, <1>5 DEF TypeInv, TypeOK, ScalingShrinks, LimitInRange,
     pass, battery, power

(* The end of a Tick: a new sample, a new limit, every controller sends.   *)
LEMMA FinishTickTypeInv ==
  ASSUME TypeInv, NEW reachable \in SUBSET Slots, NEW brownedOut \in BOOLEAN,
         FinishTick(reachable, brownedOut)
  PROVE  TypeInv'
<1>1. sync_buffer' \in Buffers
  <2>1. /\ sync_buffer \in Buffers /\ battery_voltage \in Int
        /\ second_total_current \in Int
    BY DEF TypeInv, TypeOK, Buffers
  <2>2. BatteryCC - second_total_current \in Int
    BY <2>1, ConstantTypes
  <2>3. sync_buffer' = Add(sync_buffer, BatteryCC - second_total_current,
                           battery_voltage)
    BY DEF FinishTick
  <2> QED
    BY <2>1, <2>2, <2>3, AddKeepsSize
<1>2. RecalculateMaxDraw(sync_buffer', brownedOut)
  BY DEF FinishTick
<1>3. max_draw' \in MinMaxDraw .. MaxMaxDraw \cup {NaN}
  <2>1. DrawFromTrough(sync_buffer') \in MinMaxDraw .. MaxMaxDraw \cup {NaN}
    BY <1>1, DrawFromTroughInRange DEF TypeInv
  <2>2. max_draw' \in {max_draw, MinMaxDraw, DrawFromTrough(sync_buffer')}
    BY <1>2 DEF RecalculateMaxDraw
  <2>3. MinMaxDraw \in MinMaxDraw .. MaxMaxDraw
    BY ConstantTypes
  <2> QED
    BY <2>1, <2>2, <2>3 DEF TypeInv, LimitInRange
<1>4. num_loops_last_brown' \in Nat
  BY <1>2 DEF RecalculateMaxDraw, TypeInv, TypeOK
<1>5. device' \in [Slots -> OutCommands \cup {NoCommand}] /\ last_error' \in [Slots -> BOOLEAN]
  BY DEF FinishTick, TypeInv, TypeOK
<1>6. NoScaling \in [num : Nat \ {0}, den : Nat \ {0}] /\ NoScaling.num <= NoScaling.den
  BY DEF NoScaling
<1>7. /\ pc' = "loop" /\ total_current' = 0 /\ second_total_current' = 0
      /\ scale_factor' = NoScaling /\ written_draw' = 0 /\ steady' = TRUE
      /\ UNCHANGED <<messages, last_command, velocity, battery, requested>>
  BY DEF FinishTick
<1>8. max_draw' \in Int \cup {NaN}
  BY <1>3, ConstantTypes
<1> QED
  BY <1>1, <1>3, <1>4, <1>5, <1>6, <1>7, <1>8 DEF TypeInv, TypeOK,
     ScalingShrinks, LimitInRange, Buffers, messages, battery

LEMMA NextTypeInv == TypeInv /\ [Next]_vars => TypeInv'
<1> SUFFICES ASSUME TypeInv, [Next]_vars PROVE TypeInv'
  OBVIOUS
<1>1. ASSUME NEW s \in Slots, NEW c \in Commands, Push(s, c) PROVE TypeInv'
  BY <1>1, PushTypeInv
<1>2. ASSUME NEW s \in Slots, ConfigCall(s) PROVE TypeInv'
  BY <1>2 DEF ConfigCall, TypeInv, TypeOK, ScalingShrinks, LimitInRange,
     messages, pass, battery, power, history
<1>3. ASSUME NEW s \in Slots, NEW v \in Speeds, ReportVelocity(s, v)
      PROVE TypeInv'
  BY <1>3 DEF ReportVelocity, TypeInv, TypeOK, ScalingShrinks, LimitInRange,
     messages, pass, drives, battery, power
<1>4. ASSUME NEW volts \in Voltages, TickDisabled(volts) PROVE TypeInv'
  <2>1. volts \in Nat
    BY MotorAssumption
  <2> QED
    BY <1>4, <2>1 DEF TickDisabled, TypeInv, TypeOK, ScalingShrinks,
       LimitInRange, messages, pass, drives, power, history
<1>5. ASSUME NEW volts \in Voltages, TickEnabled(volts) PROVE TypeInv'
  <2>1. volts \in Nat
    BY MotorAssumption
  <2> QED
    BY <1>5, <2>1 DEF TickEnabled, TypeInv, TypeOK, ScalingShrinks,
       LimitInRange, pass, drives, power, history
<1>6. CASE Predict
  BY <1>6, PredictTypeInv
<1>7. CASE Rescale
  BY <1>7, RescaleTypeInv
<1>8. CASE Write
  BY <1>8, WriteTypeInv
<1>9. ASSUME NEW reachable \in SUBSET Slots, NEW brownedOut \in BOOLEAN,
             FinishTick(reachable, brownedOut)
      PROVE  TypeInv'
  BY <1>9, FinishTickTypeInv
<1>10. CASE UNCHANGED vars
  BY <1>10 DEF vars, TypeInv, TypeOK, ScalingShrinks, LimitInRange,
     messages, pass, drives, battery, power, history
<1> QED
  BY <1>1, <1>2, <1>3, <1>4, <1>5, <1>6, <1>7, <1>8, <1>9, <1>10 DEF Next

(* Every variable keeps its type (MotorMonkey.cc), and IsValid never finds *)
(* its two vectors of different sizes (DoubleSyncBuffer.cc:23).            *)
THEOREM TypeCorrect == Spec => []TypeOK
<1>1. TypeInv => TypeOK
  BY DEF TypeInv
<1> QED
  BY <1>1, InitTypeInv, NextTypeInv, PTL DEF Spec

(* RecalculateMaxDraw leaves the limit within the configured range, or not *)
(* a number, for every battery and every history of samples.               *)
THEOREM LimitStaysInRange == Spec => []LimitInRange
<1>1. TypeInv => LimitInRange
  BY DEF TypeInv
<1> QED
  BY <1>1, InitTypeInv, NextTypeInv, PTL DEF Spec
-----------------------------------------------------------------------------
(***************************************************************************)
(* The newest command of a motor is never lost.                            *)
(***************************************************************************)

(* Appending to or dropping the head of the queue.                         *)
LEMMA AppendParts ==
  ASSUME NEW q \in Seq(Messages), NEW m \in Messages
  PROVE  /\ Append(q, m) \in Seq(Messages)
         /\ DOMAIN Append(q, m) = 1 .. Len(q) + 1
         /\ DOMAIN q = 1 .. Len(q) /\ Len(q) \in Nat
         /\ \A i \in DOMAIN q : Append(q, m)[i] = q[i]
         /\ Append(q, m)[Len(q) + 1] = m
OBVIOUS

LEMMA TailParts ==
  ASSUME NEW q \in Seq(Messages), q # <<>>
  PROVE  /\ DOMAIN Tail(q) = 1 .. Len(q) - 1
         /\ DOMAIN q = 1 .. Len(q) /\ Len(q) \in Nat \ {0}
         /\ \A i \in 1 .. Len(q) - 1 : Tail(q)[i] = q[i + 1]
         /\ Head(q) = q[1]
OBVIOUS

LEMMA PushKeepsLatest ==
  ASSUME TypeInv, LatestCommandWins, NEW s \in Slots, NEW c \in Commands,
         Push(s, c)
  PROVE  LatestCommandWins'
<1> DEFINE q == control_messages
           m == [slot |-> s, command |-> c]
<1>1. q \in Seq(Messages) /\ m \in Messages /\ requested \in [Slots -> Commands]
  BY DEF TypeInv, TypeOK, Messages
<1>2. control_messages' = Append(q, m) /\ requested' = [requested EXCEPT ![s] = c]
      /\ last_command' = last_command
  BY DEF Push, drives
<1>3. /\ DOMAIN control_messages' = 1 .. Len(q) + 1
      /\ DOMAIN q = 1 .. Len(q) /\ Len(q) \in Nat
      /\ \A i \in DOMAIN q : control_messages'[i] = q[i]
      /\ control_messages'[Len(q) + 1] = m
  BY <1>1, <1>2, AppendParts
<1> SUFFICES ASSUME NEW t \in Slots
             PROVE  /\ \A i \in DOMAIN control_messages' :
                         LastFor(control_messages', t, i) =>
                           control_messages'[i].command = requested'[t]
                    /\ (\A i \in DOMAIN control_messages' :
                          control_messages'[i].slot # t) =>
                         Realizes(last_command'[t], requested'[t])
  BY DEF LatestCommandWins
<1>4. CASE t = s
  <2>1. requested'[t] = c
    BY <1>1, <1>2, <1>4
  <2>2. ASSUME NEW i \in DOMAIN control_messages', LastFor(control_messages', t, i)
        PROVE  control_messages'[i].command = c
    <3>1. Len(q) + 1 <= i
      BY <1>3, <1>4, <2>2 DEF LastFor
    <3> QED
      BY <1>3, <2>2, <3>1
  <2> QED
    BY <1>3, <1>4, <2>1, <2>2
<1>5. CASE t # s
  <2>1. requested'[t] = requested[t]
    BY <1>1, <1>2, <1>5
  <2>2. ASSUME NEW i \in DOMAIN control_messages', LastFor(control_messages', t, i)
        PROVE  control_messages'[i].command = requested[t]
    <3>1. i \in DOMAIN q
      BY <1>3, <1>5, <2>2 DEF LastFor
    <3>2. LastFor(q, t, i)
      BY <1>3, <2>2, <3>1 DEF LastFor
    <3> QED
      BY <1>3, <3>1, <3>2 DEF LatestCommandWins
  <2>3. (\A i \in DOMAIN control_messages' : control_messages'[i].slot # t)
          => Realizes(last_command[t], requested[t])
    BY <1>3 DEF LatestCommandWins
  <2> QED
    BY <1>2, <2>1, <2>2, <2>3
<1> QED
  BY <1>4, <1>5

LEMMA WriteKeepsLatest ==
  ASSUME TypeInv, LatestCommandWins, Write
  PROVE  LatestCommandWins'
<1> DEFINE q   == control_messages
           msg == Head(q)
           out == Outgoing(msg)
<1>1. /\ q \in Seq(Messages) /\ q # <<>> /\ msg \in Messages
      /\ last_command \in [Slots -> OutCommands]
  BY DEF TypeInv, TypeOK, Write
<1>2. /\ control_messages' = Tail(q) /\ requested' = requested
      /\ last_command' = IF last_command[msg.slot] # out \/ last_error[msg.slot]
                         THEN [last_command EXCEPT ![msg.slot] = out]
                         ELSE last_command
  BY DEF Write, MustSend
<1>3. /\ DOMAIN control_messages' = 1 .. Len(q) - 1
      /\ DOMAIN q = 1 .. Len(q) /\ Len(q) \in Nat \ {0}
      /\ \A i \in 1 .. Len(q) - 1 : control_messages'[i] = q[i + 1]
      /\ msg = q[1]
  BY <1>1, <1>2, TailParts
<1>4. msg.slot \in Slots /\ Realizes(out, msg.command)
  BY <1>1, OutgoingRealizes DEF TypeInv, Messages
<1> SUFFICES ASSUME NEW t \in Slots
             PROVE  /\ \A i \in DOMAIN control_messages' :
                         LastFor(control_messages', t, i) =>
                           control_messages'[i].command = requested[t]
                    /\ (\A i \in DOMAIN control_messages' :
                          control_messages'[i].slot # t) =>
                         Realizes(last_command'[t], requested[t])
  BY <1>2 DEF LatestCommandWins
<1> HIDE DEF q, msg, out
<1>5. ASSUME NEW i \in DOMAIN control_messages', LastFor(control_messages', t, i)
      PROVE  control_messages'[i].command = requested[t]
  <2>1. i + 1 \in DOMAIN q /\ control_messages'[i] = q[i + 1]
    BY <1>3, <1>5
  <2>2. LastFor(q, t, i + 1)
    <3>1. q[i + 1].slot = t
      BY <1>5, <2>1 DEF LastFor
    <3>2. ASSUME NEW j \in DOMAIN q, q[j].slot = t PROVE j <= i + 1
      <4>1. CASE j = 1
        BY <1>3, <1>5, <4>1
      <4>2. CASE j # 1
        <5>1. j - 1 \in DOMAIN control_messages' /\ control_messages'[j - 1] = q[j]
          BY <1>3, <4>2
        <5>2. j - 1 <= i
          BY <1>5, <3>2, <5>1 DEF LastFor
        <5> QED
          BY <1>3, <1>5, <5>2
      <4> QED
        BY <4>1, <4>2
    <3> QED
      BY <3>1, <3>2 DEF LastFor
  <2> QED
    BY <2>1, <2>2 DEF LatestCommandWins, q
<1>6. ASSUME \A i \in DOMAIN control_messages' : control_messages'[i].slot # t
      PROVE  Realizes(last_command'[t], requested[t])
  <2>1. \A j \in DOMAIN q : j # 1 => q[j].slot # t
    <3> TAKE j \in DOMAIN q
    <3> HAVE j # 1
    <3>1. j - 1 \in DOMAIN control_messages' /\ control_messages'[j - 1] = q[j]
      BY <1>3
    <3> QED
      BY <1>6, <3>1
  <2>2. CASE msg.slot = t
    <3>1. 1 \in DOMAIN q /\ LastFor(q, t, 1)
      BY <1>3, <2>1, <2>2 DEF LastFor
    <3>2. msg.command = requested[t]
      BY <1>3, <3>1 DEF LatestCommandWins, q
    <3>3. last_command'[t] = out
      BY <1>1, <1>2, <2>2
    <3> QED
      BY <1>4, <3>2, <3>3
  <2>3. CASE msg.slot # t
    <3>1. \A j \in DOMAIN q : q[j].slot # t
      BY <1>3, <2>1, <2>3
    <3>2. last_command'[t] = last_command[t]
      BY <1>1, <1>2, <1>4, <2>3
    <3> QED
      BY <3>1, <3>2 DEF LatestCommandWins, q
  <2> QED
    BY <2>2, <2>3
<1> QED
  BY <1>5, <1>6

LatestInv == TypeInv /\ LatestCommandWins

LEMMA InitLatest == Init => LatestInv
<1> SUFFICES ASSUME Init PROVE LatestCommandWins
  BY InitTypeInv DEF LatestInv
<1>1. \A s \in Slots : Realizes(last_command[s], requested[s])
  BY DEF Init, Realizes, DefaultCommand
<1>2. DOMAIN control_messages = {}
  BY DEF Init
<1> QED
  BY <1>1, <1>2 DEF LatestCommandWins

LEMMA NextLatest == LatestInv /\ [Next]_vars => LatestInv'
<1> SUFFICES ASSUME TypeInv, LatestCommandWins, [Next]_vars
             PROVE  LatestCommandWins'
  BY NextTypeInv DEF LatestInv
<1>1. ASSUME NEW s \in Slots, NEW c \in Commands, Push(s, c)
      PROVE  LatestCommandWins'
  BY <1>1, PushKeepsLatest
<1>2. CASE Write
  BY <1>2, WriteKeepsLatest
<1>3. CASE UNCHANGED <<control_messages, last_command, requested>>
  BY <1>3 DEF LatestCommandWins
<1>4. \/ \E s \in Slots, c \in Commands : Push(s, c)
      \/ Write
      \/ UNCHANGED <<control_messages, last_command, requested>>
  BY DEF Next, vars, ConfigCall, ReportVelocity, TickDisabled, TickEnabled,
     Predict, Rescale, FinishTick, messages, pass, drives, battery, power, history
<1> QED
  BY <1>1, <1>2, <1>3, <1>4

(* WriteMessages keeps the newest command of every motor, for any number of *)
(* motors and any backlog, duplicates and failed sends included.            *)
THEOREM NewestCommandIsKept == Spec => []LatestCommandWins
<1>1. LatestInv => LatestCommandWins
  BY DEF LatestInv
<1> QED
  BY <1>1, InitLatest, NextLatest, PTL DEF Spec
-----------------------------------------------------------------------------
(***************************************************************************)
(* Brownouts.  That the buffer is full once a brownout was noticed is what *)
(* keeps RecalculateMaxDraw from returning early ever after.               *)
(***************************************************************************)

BrownInv ==
  /\ TypeInv
  /\ num_loops_last_brown \in {0, InitialLoops}
  /\ num_loops_last_brown = 0 => IsValid(sync_buffer)
  /\ BrownoutPinsLimit

LEMMA LoopsMeaning ==
  /\ InitialLoops \in Nat /\ BrownoutPermLoops \in Nat \ {0}
  /\ ~(InitialLoops < BrownoutPermLoops) /\ 0 < BrownoutPermLoops
BY MotorAssumption

LEMMA InitBrown == Init => BrownInv
BY InitTypeInv, LoopsMeaning DEF Init, BrownInv, BrownoutPinsLimit

LEMMA NextBrown == BrownInv /\ [Next]_vars => BrownInv'
<1> SUFFICES ASSUME BrownInv, [Next]_vars PROVE BrownInv'
  OBVIOUS
<1>1. TypeInv'
  BY NextTypeInv DEF BrownInv
<1>2. ASSUME NEW reachable \in SUBSET Slots, NEW brownedOut \in BOOLEAN,
             FinishTick(reachable, brownedOut)
      PROVE  BrownInv'
  <2>1. RecalculateMaxDraw(sync_buffer', brownedOut)
    BY <1>2 DEF FinishTick
  <2>2. IsValid(sync_buffer) => IsValid(sync_buffer')
    <3>1. /\ sync_buffer \in Buffers /\ battery_voltage \in Int
          /\ second_total_current \in Int
      BY DEF BrownInv, TypeInv, TypeOK, Buffers
    <3>2. BatteryCC - second_total_current \in Int
      BY <3>1, ConstantTypes
    <3> QED
      BY <1>2, <3>1, <3>2, AddKeepsSize DEF FinishTick
  <2>3. num_loops_last_brown' \in {0, InitialLoops}
    BY <2>1 DEF RecalculateMaxDraw, BrownInv
  <2>4. num_loops_last_brown' = 0 => IsValid(sync_buffer')
    BY <2>1, <2>2, LoopsMeaning DEF RecalculateMaxDraw, BrownInv
  <2>5. BrownoutPinsLimit'
    BY <2>1, <2>3, <2>4, LoopsMeaning DEF RecalculateMaxDraw, BrownoutPinsLimit
  <2> QED
    BY <1>1, <2>3, <2>4, <2>5 DEF BrownInv
<1>3. CASE UNCHANGED power
  BY <1>1, <1>3 DEF BrownInv, BrownoutPinsLimit, power
<1>4. \/ \E r \in SUBSET Slots, b \in BOOLEAN : FinishTick(r, b)
      \/ UNCHANGED power
  BY DEF Next, vars, Push, ConfigCall, ReportVelocity, TickDisabled, TickEnabled,
     Predict, Rescale, Write
<1> QED
  BY <1>2, <1>3, <1>4

(* Once RecalculateMaxDraw has noticed a brownout the limit is the minimum. *)
THEOREM BrownoutHoldsMinimum == Spec => []BrownoutPinsLimit
<1>1. BrownInv => BrownoutPinsLimit
  BY DEF BrownInv
<1> QED
  BY <1>1, InitBrown, NextBrown, PTL DEF Spec

(* Nothing increments num_loops_last_brown: no later step forgets a brownout. *)
THEOREM BrownoutNeverForgotten == Spec => BrownoutIsPermanent
<1>1. [Next]_vars => (num_loops_last_brown = 0 => num_loops_last_brown' = 0)
  <2>1. ASSUME NEW r \in SUBSET Slots, NEW b \in BOOLEAN, FinishTick(r, b),
               num_loops_last_brown = 0
        PROVE  num_loops_last_brown' = 0
    BY <2>1 DEF FinishTick, RecalculateMaxDraw
  <2> QED
    BY <2>1 DEF Next, vars, Push, ConfigCall, ReportVelocity, TickDisabled,
       TickEnabled, Predict, Rescale, Write, power
<1> QED
  BY <1>1, PTL DEF Spec, BrownoutIsPermanent
-----------------------------------------------------------------------------
(***************************************************************************)
(* Refinement: MotorMonkey implements CommandMailbox.                      *)
(***************************************************************************)

LEMMA MailboxStep ==
  LatestInv /\ [Next]_vars => [Mailbox!Next]_<<requested, device>>
<1> SUFFICES ASSUME LatestInv, [Next]_vars
             PROVE  Mailbox!Next \/ UNCHANGED <<requested, device>>
  OBVIOUS
<1>1. ASSUME NEW s \in Slots, NEW c \in Commands, Push(s, c)
      PROVE  Mailbox!Next
  <2>1. Mailbox!Request(s, c)
    BY <1>1 DEF Push, drives, Mailbox!Request
  <2> QED
    BY <2>1 DEF Mailbox!Next
<1>2. ASSUME NEW r \in SUBSET Slots, NEW b \in BOOLEAN, FinishTick(r, b)
      PROVE  Mailbox!Next
  <2>1. /\ device' = [s \in Slots |-> IF s \in r THEN last_command[s] ELSE device[s]]
        /\ requested' = requested /\ control_messages = <<>>
    BY <1>2 DEF FinishTick
  <2>2. \A s \in Slots : Realizes(last_command[s], requested[s])
    BY <2>1 DEF LatestInv, LatestCommandWins
  <2>3. Mailbox!Deliver
    BY <2>1, <2>2 DEF Mailbox!Deliver
  <2> QED
    BY <2>3 DEF Mailbox!Next
<1>3. \/ \E s \in Slots, c \in Commands : Push(s, c)
      \/ \E r \in SUBSET Slots, b \in BOOLEAN : FinishTick(r, b)
      \/ UNCHANGED <<requested, device>>
  BY DEF Next, vars, ConfigCall, ReportVelocity, TickDisabled, TickEnabled,
     Predict, Rescale, Write, drives, history
<1> QED
  BY <1>1, <1>2, <1>3

(* The queue, the scaling, the duplicate test and the resending of every   *)
(* Tick together refine one mailbox per motor: a device is only ever given *)
(* a realization of the request that stands at that moment.                *)
THEOREM RefinesMailbox == Spec => ImplementsMailbox
<1>1. Init => Mailbox!Init
  BY DEF Init, Mailbox!Init
<1> QED
  BY <1>1, InitLatest, NextLatest, MailboxStep, PTL
     DEF Spec, ImplementsMailbox, Mailbox!Spec
-----------------------------------------------------------------------------
(***************************************************************************)
(* The budget of a Tick.  A sum over the queue is stated by the function   *)
(* of its partial sums, which one more prediction extends by one value.    *)
(***************************************************************************)

(* What the first loop predicts for a message.                             *)
Cost(m) == Magnitude(DrawOf(m.slot, PredictedDuty(m.command)))

(* What it predicts for the queue.                                         *)
Costs == [i \in DOMAIN control_messages |-> Cost(control_messages[i])]

(* g holds the sums of the first k costs, from g[0].                       *)
PartialSums(g, c, k) ==
  /\ g \in [0 .. k -> Nat]
  /\ \A i \in 1 .. k : g[i] = g[i - 1] + c[i]
  /\ \A i, j \in 0 .. k : i <= j => g[i] <= g[j]

(* While predicting: the copy is what is left of the queue, the total is   *)
(* the sum of what is gone.                                                *)
Predicted ==
  LET k == Len(control_messages) - Len(temp_messages)
  IN  /\ k \in Nat
      /\ \A j \in 1 .. Len(temp_messages) : temp_messages[j] = control_messages[j + k]
      /\ steady => \E g : /\ PartialSums(g, Costs, k)
                          /\ g[0] = 0 /\ g[k] = total_current

(* While writing: what is written and what the rest will cost once it is   *)
(* scaled fit the limit.                                                   *)
Affordable ==
  LET n == Len(control_messages)
  IN  \E g : /\ PartialSums(g, Costs, n)
             /\ written_draw * scale_factor.den + (g[n] - g[0]) * scale_factor.num
                  <= max_draw * scale_factor.den

BudgetInv ==
  /\ pc = "loop" => total_current = 0 /\ steady = TRUE
  /\ pc # "write" => written_draw = 0
  /\ pc = "predict" => Predicted
  /\ (pc = "write" /\ steady /\ max_draw # NaN) => Affordable

LEMMA CostNat ==
  ASSUME TypeOK, NEW m \in Messages
  PROVE  Cost(m) \in Nat
BY CommandParts, DrawIsInteger DEF Cost, Messages

(* One more message makes one more partial sum.                            *)
LEMMA SumsGrow ==
  ASSUME NEW c, NEW k \in Nat, NEW g, PartialSums(g, c, k), c[k + 1] \in Nat
  PROVE  \E h : /\ PartialSums(h, c, k + 1)
                /\ h[0] = g[0] /\ h[k + 1] = g[k] + c[k + 1]
<1> DEFINE h == [i \in 0 .. k + 1 |-> IF i <= k THEN g[i] ELSE g[k] + c[k + 1]]
<1>1. g \in [0 .. k -> Nat] /\ (\A i, j \in 0 .. k : i <= j => g[i] <= g[j])
  BY DEF PartialSums
<1>2. \A i \in 0 .. k : h[i] = g[i]
  OBVIOUS
<1>3. h[k + 1] = g[k] + c[k + 1]
  OBVIOUS
<1>4. h \in [0 .. k + 1 -> Nat]
  BY <1>1
<1> HIDE DEF h
<1>5. \A i \in 1 .. k + 1 : h[i] = h[i - 1] + c[i]
  <2> SUFFICES ASSUME NEW i \in 1 .. k + 1 PROVE h[i] = h[i - 1] + c[i]
    OBVIOUS
  <2>1. CASE i = k + 1
    BY <1>2, <1>3, <2>1
  <2>2. CASE i \in 1 .. k
    <3>1. g[i] = g[i - 1] + c[i]
      BY <2>2 DEF PartialSums
    <3> QED
      BY <1>2, <2>2, <3>1
  <2> QED
    BY <2>1, <2>2
<1>6. \A i, j \in 0 .. k + 1 : i <= j => h[i] <= h[j]
  <2> SUFFICES ASSUME NEW i \in 0 .. k + 1, NEW j \in 0 .. k + 1, i <= j
               PROVE  h[i] <= h[j]
    OBVIOUS
  <2>1. CASE j \in 0 .. k
    BY <1>1, <1>2, <2>1
  <2>2. CASE j = k + 1 /\ i \in 0 .. k
    <3>1. g[i] <= g[k] /\ g[i] \in Nat /\ g[k] \in Nat
      BY <1>1, <2>2
    <3> QED
      BY <1>2, <1>3, <2>2, <3>1
  <2>3. CASE j = k + 1 /\ i = k + 1
    BY <1>4, <2>3
  <2> QED
    BY <2>1, <2>2, <2>3
<1>7. PartialSums(h, c, k + 1)
  BY <1>4, <1>5, <1>6 DEF PartialSums
<1>8. h[0] = g[0]
  BY <1>2
<1> QED
  BY <1>3, <1>7, <1>8

(* Without the first cost every other sum is one place further on.         *)
LEMMA SumsShift ==
  ASSUME NEW c, NEW n \in Nat \ {0}, NEW g, PartialSums(g, c, n),
         NEW e, \A i \in 1 .. n - 1 : e[i] = c[i + 1]
  PROVE  \E h : /\ PartialSums(h, e, n - 1)
                /\ h[0] = g[0] + c[1] /\ h[n - 1] = g[n]
<1> DEFINE h == [i \in 0 .. n - 1 |-> g[i + 1]]
<1>1. /\ g \in [0 .. n -> Nat]
      /\ \A i \in 1 .. n : g[i] = g[i - 1] + c[i]
      /\ \A i, j \in 0 .. n : i <= j => g[i] <= g[j]
  BY DEF PartialSums
<1>2. h \in [0 .. n - 1 -> Nat]
  BY <1>1
<1>3. \A i \in 0 .. n - 1 : h[i] = g[i + 1]
  OBVIOUS
<1> HIDE DEF h
<1>4. \A i \in 1 .. n - 1 : h[i] = h[i - 1] + e[i]
  <2> SUFFICES ASSUME NEW i \in 1 .. n - 1 PROVE h[i] = h[i - 1] + e[i]
    OBVIOUS
  <2>1. i + 1 \in 1 .. n /\ i - 1 \in 0 .. n - 1 /\ i \in 0 .. n - 1
    OBVIOUS
  <2>2. g[i + 1] = g[i + 1 - 1] + c[i + 1]
    BY <1>1, <2>1
  <2>3. i + 1 - 1 = i /\ i - 1 + 1 = i
    OBVIOUS
  <2> QED
    BY <1>3, <2>1, <2>2, <2>3
<1>5. \A i, j \in 0 .. n - 1 : i <= j => h[i] <= h[j]
  BY <1>1, <1>3
<1>6. h[0] = g[0] + c[1] /\ h[n - 1] = g[n]
  <2>1. 0 \in 0 .. n - 1 /\ n - 1 \in 0 .. n - 1 /\ 1 \in 1 .. n
    OBVIOUS
  <2>2. h[0] = g[0 + 1] /\ h[n - 1] = g[n - 1 + 1] /\ n - 1 + 1 = n
    BY <1>3, <2>1
  <2>3. g[1] = g[1 - 1] + c[1]
    BY <1>1, <2>1
  <2> QED
    BY <2>2, <2>3
<1>7. PartialSums(h, e, n - 1)
  BY <1>2, <1>4, <1>5 DEF PartialSums
<1> QED
  BY <1>6, <1>7

(* A scaled distance times the denominator is at most the distance times   *)
(* the numerator.                                                          *)
LEMMA ScaledDistance ==
  ASSUME NEW x \in Int, NEW scale \in [num : Nat \ {0}, den : Nat \ {0}]
  PROVE  /\ TowardZero(x, scale) \in Int
         /\ Magnitude(TowardZero(x, scale)) * scale.den <= Magnitude(x) * scale.num
<1> DEFINE n == scale.num
           d == scale.den
<1>1. n \in Nat /\ d \in Nat \ {0}
  OBVIOUS
<1>2. ASSUME NEW y \in Nat
      PROVE  (y * n) \div d \in Nat /\ ((y * n) \div d) * d <= y * n
  <2> DEFINE p == y * n
  <2> HIDE DEF n, d
  <2>1. p \in Nat
    BY <1>1
  <2> HIDE DEF p
  <2>2. p \div d \in Int /\ (p \div d) * d <= p /\ p < (p \div d) * d + d
    BY <1>1, <2>1, FloorBounds
  <2>3. p \div d >= 0
    <3> DEFINE r == p \div d
    <3>1. r \in Int /\ p < r * d + d /\ p >= 0
      BY <2>1, <2>2
    <3> HIDE DEF r
    <3>2. ASSUME r <= -1 PROVE FALSE
      <4>1. r * d <= -d
        BY <3>1, <3>2, <1>1
      <4>2. r * d \in Int
        BY <3>1, <1>1
      <4> DEFINE s == r * d
      <4> HIDE DEF s
      <4>3. s \in Int /\ s <= -d /\ p < s + d
        BY <4>1, <4>2, <3>1 DEF s
      <4> QED
        BY <4>3, <3>1, <1>1, <2>1
    <3> QED
      BY <3>1, <3>2 DEF r
  <2> QED
    BY <2>2, <2>3 DEF p
<1>3. CASE x >= 0
  <2>1. TowardZero(x, scale) = (x * n) \div d /\ Magnitude(x) = x
    BY <1>3 DEF TowardZero, Magnitude
  <2>2. x \in Nat
    BY <1>3
  <2>3. Magnitude(TowardZero(x, scale)) = TowardZero(x, scale)
    <3>1. TowardZero(x, scale) \in Nat
      BY <1>2, <2>1, <2>2
    <3> QED
      BY <3>1 DEF Magnitude
  <2> QED
    BY <1>2, <2>1, <2>2, <2>3
<1>4. CASE x < 0
  <2> DEFINE y == -x
  <2>1. TowardZero(x, scale) = -((y * n) \div d) /\ Magnitude(x) = y /\ y \in Nat
    BY <1>4 DEF TowardZero, Magnitude
  <2>2. (y * n) \div d \in Nat /\ ((y * n) \div d) * d <= y * n
    BY <1>2, <2>1
  <2>3. Magnitude(TowardZero(x, scale)) = (y * n) \div d
    <3> DEFINE r == (y * n) \div d
    <3>1. TowardZero(x, scale) = -r /\ r \in Nat
      BY <2>1, <2>2
    <3> HIDE DEF r
    <3>2. Magnitude(-r) = r
      BY <3>1 DEF Magnitude
    <3> QED
      BY <3>1, <3>2 DEF r
  <2> QED
    BY <2>1, <2>2, <2>3
<1> QED
  BY <1>3, <1>4

LEMMA MagnitudeTimes ==
  ASSUME NEW x \in Int, NEW k \in Nat
  PROVE  Magnitude(x * k) = Magnitude(x) * k
<1>1. CASE x >= 0
  <2>1. x * k >= 0
    BY <1>1
  <2> QED
    BY <1>1, <2>1 DEF Magnitude
<1>2. CASE x < 0
  <2>1. x * k <= 0 /\ x * k \in Int /\ (-x) * k = -(x * k)
    BY <1>2
  <2> QED
    BY <1>2, <2>1 DEF Magnitude
<1> QED
  BY <1>1, <1>2

(* What a message is sent with draws no more than its cost, scaled.        *)
LEMMA ScaledCost ==
  ASSUME TypeOK, NEW msg \in Messages, msg.command.type = "DC"
  PROVE  /\ Outgoing(msg).type = "DC" /\ Outgoing(msg).value \in Int
         /\ Magnitude(DrawOf(msg.slot, Outgoing(msg).value)) * scale_factor.den
              <= Cost(msg) * scale_factor.num
<1> DEFINE s == msg.slot
           c == msg.command.value
           v == velocity[s]
           k == battery_voltage * Conductance[s]
           t == TowardZero(c - v, scale_factor)
           n == scale_factor.num
           d == scale_factor.den
<1>1. /\ s \in Slots /\ c \in Int /\ v \in Int
      /\ battery_voltage \in Nat /\ Conductance[s] \in Nat
      /\ scale_factor \in [num : Nat \ {0}, den : Nat \ {0}]
  <2>1. s \in Slots /\ msg.command \in Commands
    BY DEF Messages
  <2>2. c \in Int
    BY <2>1, CommandParts
  <2>3. velocity \in [Slots -> Speeds] /\ Speeds \subseteq Int
    BY MotorAssumption DEF TypeOK
  <2>4. v \in Int
    BY <2>1, <2>3
  <2>5. Conductance[s] \in Nat
    BY <2>1, ConstantTypes
  <2> QED
    BY <2>1, <2>2, <2>4, <2>5 DEF TypeOK
<1>2. Outgoing(msg).type = "DC" /\ Outgoing(msg).value = v + t
  BY DEF Outgoing, ScaleDuty
<1>3. PredictedDuty(msg.command) = c
  BY DEF PredictedDuty
<1>4. n \in Nat /\ d \in Nat /\ k \in Nat
  BY <1>1
<1>5. t \in Int /\ Magnitude(t) * d <= Magnitude(c - v) * n
  <2>1. c - v \in Int
    BY <1>1
  <2> QED
    BY <1>1, <2>1, ScaledDistance
<1>6. ASSUME NEW x \in Int
      PROVE  DrawOf(s, x) = (x - v) * k
  <2> DEFINE b == battery_voltage
             g == Conductance[s]
  <2>1. b \in Nat /\ g \in Nat
    BY <1>1
  <2>2. DrawOf(s, x) = (x * b - v * b) * g
    BY DEF DrawOf, PredictDraw
  <2> HIDE DEF b, g, v
  <2>3. x * b - v * b = (x - v) * b
    BY <1>1, <2>1 DEF v
  <2>4. ((x - v) * b) * g = (x - v) * (b * g)
    <3>1. x - v \in Int
      BY <1>1 DEF v
    <3> DEFINE y == x - v
    <3> HIDE DEF y
    <3>2. (y * b) * g = y * (b * g)
      BY <2>1, <3>1 DEF y
    <3> QED
      BY <3>2 DEF y
  <2> QED
    BY <2>2, <2>3, <2>4 DEF b, g
<1>7. DrawOf(s, c) = (c - v) * k /\ DrawOf(s, v + t) = t * k
  <2>1. v + t \in Int /\ (v + t) - v = t
    BY <1>1, <1>5
  <2> QED
    BY <1>1, <1>6, <2>1
<1>8. Cost(msg) = Magnitude(c - v) * k /\ Magnitude(DrawOf(s, v + t)) = Magnitude(t) * k
  <2>1. c - v \in Int
    BY <1>1
  <2> QED
    BY <1>3, <1>4, <1>5, <1>7, <2>1, MagnitudeTimes DEF Cost
<1>9. (Magnitude(t) * k) * d <= (Magnitude(c - v) * k) * n
  <2> DEFINE mt == Magnitude(t)
             mc == Magnitude(c - v)
  <2>1. mt \in Nat /\ mc \in Nat
    <3>1. c - v \in Int
      BY <1>1
    <3> QED
      BY <1>5, <3>1, MagnitudeNat
  <2>2. mt * d <= mc * n
    BY <1>5
  <2> HIDE DEF mt, mc, k, n, d
  <2>3. (mt * k) * d = (mt * d) * k /\ (mc * k) * n = (mc * n) * k
    BY <1>4, <2>1
  <2>4. (mt * d) * k <= (mc * n) * k
    <3>1. mt * d \in Nat /\ mc * n \in Nat
      BY <1>4, <2>1
    <3> QED
      BY <1>4, <2>2, <3>1
  <2> QED
    BY <2>3, <2>4 DEF mt, mc
<1>10. Outgoing(msg).value \in Int
  BY <1>1, <1>2, <1>5
<1> QED
  BY <1>2, <1>8, <1>9, <1>10

LEMMA CostsStand ==
  ASSUME velocity' = velocity, battery_voltage' = battery_voltage,
         control_messages' = control_messages
  PROVE  Costs' = Costs
BY DEF Costs, Cost, DrawOf

LEMMA InitBudget == Init => BudgetInv
BY DEF Init, BudgetInv

LEMMA TickEnabledBudget ==
  ASSUME TypeInv, BudgetInv, NEW volts \in Voltages, TickEnabled(volts)
  PROVE  BudgetInv'
<1>1. /\ pc' = "predict" /\ temp_messages' = control_messages
      /\ control_messages' = control_messages
      /\ total_current' = 0 /\ written_draw' = 0
  BY DEF TickEnabled, pass, history, BudgetInv
<1>2. control_messages \in Seq(Messages) /\ Len(control_messages) \in Nat
  BY DEF TypeInv, TypeOK
<1>3. Predicted'
  <2> DEFINE g == [i \in 0 .. 0 |-> 0]
  <2>1. Len(control_messages') - Len(temp_messages') = 0
    BY <1>1, <1>2
  <2>2. \A j \in 1 .. Len(temp_messages') : temp_messages'[j] = control_messages'[j + 0]
    BY <1>1, <1>2
  <2>3. g \in [0 .. 0 -> Nat] /\ g[0] = 0 /\ \A i \in 0 .. 0 : i = 0
    OBVIOUS
  <2> HIDE DEF g
  <2>4. PartialSums(g, Costs', 0)
    <3>1. (1 .. 0) = {}
      OBVIOUS
    <3> QED
      BY <2>3, <3>1 DEF PartialSums
  <2> QED
    BY <1>1, <2>1, <2>2, <2>3, <2>4 DEF Predicted
<1> QED
  BY <1>1, <1>3 DEF BudgetInv

LEMMA PredictBudget ==
  ASSUME TypeInv, BudgetInv, Predict
  PROVE  BudgetInv'
<1> DEFINE q == control_messages
           k == Len(q) - Len(temp_messages)
           msg == Head(temp_messages)
<1>1. /\ pc = "predict" /\ pc' = "predict" /\ temp_messages # <<>>
      /\ temp_messages' = Tail(temp_messages) /\ control_messages' = q
      /\ total_current' = total_current + Cost(msg)
      /\ written_draw' = written_draw /\ steady' = steady
      /\ velocity' = velocity /\ battery_voltage' = battery_voltage
  BY DEF Predict, history, battery, Accumulate, Cost
<1>2. /\ q \in Seq(Messages) /\ temp_messages \in Seq(Messages)
      /\ Len(q) \in Nat /\ Len(temp_messages) \in Nat \ {0}
      /\ msg \in Messages /\ msg = temp_messages[1]
      /\ Len(Tail(temp_messages)) = Len(temp_messages) - 1
      /\ \A j \in 1 .. Len(temp_messages) - 1 : Tail(temp_messages)[j] = temp_messages[j + 1]
  BY <1>1 DEF TypeInv, TypeOK
<1>3. /\ k \in Nat
      /\ \A j \in 1 .. Len(temp_messages) : temp_messages[j] = q[j + k]
      /\ steady => \E g : PartialSums(g, Costs, k) /\ g[0] = 0 /\ g[k] = total_current
  BY <1>1 DEF BudgetInv, Predicted
<1> DEFINE left == Len(temp_messages)
<1>4. Len(control_messages') - Len(temp_messages') = k + 1
  BY <1>1, <1>2
<1>5. msg = q[k + 1]
  <2>1. 1 \in 1 .. Len(temp_messages) /\ 1 + k = k + 1
    BY <1>2, <1>3
  <2> QED
    BY <1>2, <1>3, <2>1
<1>6. \A j \in 1 .. Len(temp_messages') : temp_messages'[j] = q[j + (k + 1)]
  <2> HIDE DEF k, q
  <2> SUFFICES ASSUME NEW j \in 1 .. Len(temp_messages')
               PROVE  temp_messages'[j] = q[j + (k + 1)]
    OBVIOUS
  <2>1. j \in 1 .. Len(temp_messages) - 1 /\ j + 1 \in 1 .. Len(temp_messages)
    BY <1>1, <1>2
  <2>2. temp_messages'[j] = q[(j + 1) + k]
    BY <1>1, <1>2, <1>3, <2>1
  <2>3. (j + 1) + k = j + (k + 1)
    BY <1>3, <2>1
  <2> QED
    BY <2>2, <2>3
<1>7. ASSUME steady
      PROVE  \E h : PartialSums(h, Costs, k + 1) /\ h[0] = 0 /\ h[k + 1] = total_current'
  <2>1. PICK g : PartialSums(g, Costs, k) /\ g[0] = 0 /\ g[k] = total_current
    BY <1>3, <1>7
  <2>2. Costs[k + 1] = Cost(msg)
    <3>1. k + 1 \in DOMAIN q
      BY <1>2, <1>3
    <3> QED
      BY <1>5, <3>1 DEF Costs
  <2>3. Costs[k + 1] \in Nat
    BY <1>2, <2>2, CostNat DEF TypeInv
  <2> HIDE DEF k, q, msg
  <2>4. PICK h : PartialSums(h, Costs, k + 1) /\ h[0] = g[0]
                 /\ h[k + 1] = g[k] + Costs[k + 1]
    BY <1>3, <2>1, <2>3, SumsGrow
  <2>5. h[0] = 0 /\ h[k + 1] = total_current'
    BY <1>1, <2>1, <2>2, <2>4
  <2> QED
    BY <2>4, <2>5
<1>8. Predicted'
  <2>1. Costs' = Costs
    BY <1>1, CostsStand
  <2>2. steady' => \E h : PartialSums(h, Costs', k + 1) /\ h[0] = 0 /\ h[k + 1] = total_current'
    BY <1>1, <1>7, <2>1
  <2>3. k + 1 \in Nat
    BY <1>3
  <2>4. control_messages' = q /\ Len(control_messages') - Len(temp_messages') = k + 1
    BY <1>1, <1>4
  <2> DEFINE K == k + 1
  <2> HIDE DEF k, q, K
  <2> QED
    BY <1>6, <2>2, <2>3, <2>4 DEF Predicted, K
<1> QED
  BY <1>1, <1>8 DEF BudgetInv

LEMMA RescaleBudget ==
  ASSUME TypeInv, BudgetInv, Rescale
  PROVE  BudgetInv'
<1>1. /\ pc = "predict" /\ pc' = "write" /\ temp_messages = <<>>
      /\ control_messages' = control_messages
      /\ written_draw' = written_draw /\ steady' = steady /\ max_draw' = max_draw
      /\ velocity' = velocity /\ battery_voltage' = battery_voltage
      /\ scale_factor' = IF OverBudget THEN [num |-> max_draw, den |-> total_current]
                         ELSE NoScaling
  BY DEF Rescale, history, battery, messages, power
<1> DEFINE n == Len(control_messages)
<1>2. /\ n \in Nat /\ n - Len(temp_messages) = n
      /\ written_draw = 0 /\ total_current \in Nat
  BY <1>1 DEF TypeInv, TypeOK, BudgetInv
<1>3. ASSUME steady, max_draw # NaN
      PROVE  \E g : /\ PartialSums(g, Costs, n)
                    /\ written_draw * scale_factor'.den + (g[n] - g[0]) * scale_factor'.num
                         <= max_draw * scale_factor'.den
  <2>1. PICK g : PartialSums(g, Costs, n) /\ g[0] = 0 /\ g[n] = total_current
    BY <1>1, <1>2, <1>3 DEF BudgetInv, Predicted
  <2>2. max_draw \in Nat \ {0}
    BY <1>3, ConstantTypes DEF TypeInv, LimitInRange
  <2>3. written_draw * scale_factor'.den + (g[n] - g[0]) * scale_factor'.num
          <= max_draw * scale_factor'.den
    <3>1. CASE OverBudget
      <4>1. scale_factor'.num = max_draw /\ scale_factor'.den = total_current
        BY <1>1, <3>1
      <4> QED
        BY <1>2, <2>1, <2>2, <4>1
    <3>2. CASE ~OverBudget
      <4>1. scale_factor'.num = 1 /\ scale_factor'.den = 1
        BY <1>1, <3>2 DEF NoScaling
      <4>2. total_current <= max_draw
        BY <1>2, <1>3, <2>2, <3>2 DEF OverBudget
      <4> QED
        BY <1>2, <2>1, <2>2, <4>1, <4>2
    <3> QED
      BY <3>1, <3>2
  <2> QED
    BY <2>1, <2>3
<1>4. Costs' = Costs /\ Len(control_messages') = n
  BY <1>1, CostsStand
<1> HIDE DEF n
<1>5. (steady' /\ max_draw' # NaN) => Affordable'
  BY <1>1, <1>3, <1>4 DEF Affordable
<1> QED
  BY <1>1, <1>5 DEF BudgetInv

(* What is written next is paid for by its own cost, the others stand.     *)
LEMMA WriteBudget ==
  ASSUME TypeInv, BudgetInv, Write
  PROVE  BudgetInv'
<1> DEFINE q == control_messages
           n == Len(q)
           msg == Head(q)
           paid == Cost(msg)
           sent == Outgoing(msg)
<1>1. /\ pc = "write" /\ pc' = "write" /\ q # <<>>
      /\ control_messages' = Tail(q)
      /\ steady' = steady /\ max_draw' = max_draw /\ scale_factor' = scale_factor
      /\ velocity' = velocity /\ battery_voltage' = battery_voltage
      /\ written_draw' = IF sent.type = "DC"
                         THEN written_draw + Magnitude(DrawOf(msg.slot, sent.value))
                         ELSE written_draw
  BY DEF Write, pass, battery, power
<1>2. /\ q \in Seq(Messages) /\ n \in Nat \ {0}
      /\ msg \in Messages /\ msg = q[1]
      /\ Len(Tail(q)) = n - 1 /\ DOMAIN Tail(q) = 1 .. n - 1 /\ DOMAIN q = 1 .. n
      /\ \A i \in 1 .. n - 1 : Tail(q)[i] = q[i + 1]
  BY <1>1 DEF TypeInv, TypeOK
<1>3. /\ paid \in Nat /\ written_draw \in Nat
      /\ scale_factor.num \in Nat \ {0} /\ scale_factor.den \in Nat \ {0}
  BY <1>2, CostNat DEF TypeInv, TypeOK
<1>4. ASSUME steady, max_draw # NaN
      PROVE  Affordable'
  <2>1. PICK g : /\ PartialSums(g, Costs, n)
                 /\ written_draw * scale_factor.den + (g[n] - g[0]) * scale_factor.num
                      <= max_draw * scale_factor.den
    BY <1>1, <1>4 DEF BudgetInv, Affordable
  <2>2. Costs[1] = paid /\ \A i \in 1 .. n - 1 : Costs'[i] = Costs[i + 1]
    <3>1. Costs[1] = paid
      BY <1>2 DEF Costs
    <3>2. ASSUME NEW i \in 1 .. n - 1 PROVE Costs'[i] = Costs[i + 1]
      <4>1. i + 1 \in DOMAIN q /\ i \in DOMAIN control_messages'
            /\ control_messages'[i] = q[i + 1]
        BY <1>1, <1>2
      <4>2. Costs[i + 1] = Cost(q[i + 1])
        BY <4>1 DEF Costs
      <4>3. Costs'[i] = Cost(control_messages[i + 1])
        BY <1>1, <4>1 DEF Costs, Cost, DrawOf
      <4> QED
        BY <4>2, <4>3
    <3> QED
      BY <3>1, <3>2
  <2>3. PICK h : /\ PartialSums(h, Costs', n - 1)
                 /\ h[0] = g[0] + Costs[1] /\ h[n - 1] = g[n]
    <3> HIDE DEF n, paid, q
    <3> QED
      BY <1>2, <2>1, <2>2, SumsShift
  <2>4. /\ g[0] \in Nat /\ g[n] \in Nat
        /\ max_draw \in Nat
    <3>1. g[0] \in Nat /\ g[n] \in Nat
      BY <1>2, <2>1 DEF PartialSums
    <3>2. max_draw \in Nat
      BY <1>4, ConstantTypes DEF TypeInv, LimitInRange
    <3> QED
      BY <3>1, <3>2
  <2>5. written_draw' \in Nat
        /\ written_draw' * scale_factor.den
             <= written_draw * scale_factor.den + paid * scale_factor.num
    <3>1. CASE sent.type = "DC"
      <4> DEFINE drawn == Magnitude(DrawOf(msg.slot, sent.value))
      <4>1. msg.command.type = "DC"
        BY <3>1 DEF Outgoing
      <4>2. drawn * scale_factor.den <= paid * scale_factor.num /\ sent.value \in Int
        BY <1>2, <4>1, ScaledCost DEF TypeInv
      <4>3. drawn \in Nat
        BY <1>2, <4>2, DrawIsInteger DEF TypeInv, Messages
      <4>4. written_draw' = written_draw + drawn
        BY <1>1, <3>1
      <4> HIDE DEF drawn, paid, sent, msg
      <4> QED
        BY <1>3, <4>2, <4>3, <4>4
    <3>2. CASE sent.type # "DC"
      <4>1. written_draw' = written_draw
        BY <1>1, <3>2
      <4>2. paid * scale_factor.num \in Nat
        BY <1>3
      <4> HIDE DEF paid, sent, msg
      <4> QED
        BY <1>3, <4>1, <4>2
    <3> QED
      BY <3>1, <3>2
  <2>6. written_draw' * scale_factor.den + (h[n - 1] - h[0]) * scale_factor.num
          <= max_draw * scale_factor.den
    <3> DEFINE num == scale_factor.num
               den == scale_factor.den
               total == g[n] - g[0]
    <3>1. h[n - 1] - h[0] = total - paid /\ total \in Int /\ paid \in Int
      BY <1>3, <2>2, <2>3, <2>4
    <3>2. num \in Nat /\ den \in Nat
      BY <1>3
    <3>3. (total - paid) * num = total * num - paid * num
      <4> HIDE DEF total, paid, num
      <4> QED
        BY <3>1, <3>2
    <3>4. /\ written_draw' * den <= written_draw * den + paid * num
          /\ written_draw * den + total * num <= max_draw * den
      BY <2>1, <2>5
    <3>5. /\ written_draw' * den \in Int /\ written_draw * den \in Int
          /\ paid * num \in Int /\ total * num \in Int /\ max_draw * den \in Int
      <4> HIDE DEF total, paid, num, den
      <4> QED
        BY <1>3, <2>4, <2>5, <3>1, <3>2
    <3> HIDE DEF total, paid, num, den
    <3>6. written_draw' * den + (total - paid) * num <= max_draw * den
      BY <3>3, <3>4, <3>5
    <3> QED
      BY <3>1, <3>6 DEF num, den
  <2>7. Len(control_messages') = n - 1
    BY <1>1, <1>2
  <2> HIDE DEF n
  <2> QED
    BY <1>1, <2>3, <2>6, <2>7 DEF Affordable
<1> QED
  BY <1>1, <1>4 DEF BudgetInv

LEMMA NextBudget ==
  ASSUME TypeInv, BudgetInv, [Next]_vars
  PROVE  BudgetInv'
<1>1. ASSUME NEW s \in Slots, NEW c \in Commands, Push(s, c) PROVE BudgetInv'
  BY <1>1 DEF Push, BudgetInv, pass
<1>2. ASSUME NEW s \in Slots, ConfigCall(s) PROVE BudgetInv'
  BY <1>2 DEF ConfigCall, BudgetInv, pass, history
<1>3. ASSUME NEW s \in Slots, NEW v \in Speeds, ReportVelocity(s, v) PROVE BudgetInv'
  <2>1. /\ pc' = pc /\ total_current' = total_current /\ written_draw' = written_draw
        /\ control_messages' = control_messages /\ temp_messages' = temp_messages
        /\ steady' = (pc = "loop")
    BY <1>3 DEF ReportVelocity, messages, pass
  <2>2. CASE pc = "loop"
    BY <2>1, <2>2 DEF BudgetInv
  <2>3. CASE pc # "loop"
    <3>1. ~steady'
      BY <2>1, <2>3
    <3>2. pc = "predict" => Predicted'
      BY <2>1, <3>1 DEF BudgetInv, Predicted
    <3> QED
      BY <2>1, <2>3, <3>1, <3>2 DEF BudgetInv
  <2> QED
    BY <2>2, <2>3
<1>4. ASSUME NEW volts \in Voltages, TickDisabled(volts) PROVE BudgetInv'
  BY <1>4 DEF TickDisabled, BudgetInv, pass, history
<1>5. ASSUME NEW reachable \in SUBSET Slots, NEW brownedOut \in BOOLEAN,
             FinishTick(reachable, brownedOut)
      PROVE  BudgetInv'
  BY <1>5 DEF FinishTick, BudgetInv
<1>6. CASE UNCHANGED vars
  <2>1. /\ pc' = pc /\ total_current' = total_current /\ written_draw' = written_draw
        /\ control_messages' = control_messages /\ temp_messages' = temp_messages
        /\ steady' = steady /\ velocity' = velocity /\ battery_voltage' = battery_voltage
        /\ scale_factor' = scale_factor /\ max_draw' = max_draw
    BY <1>6 DEF vars, messages, pass, battery, power, history
  <2>2. Costs' = Costs
    BY <2>1, CostsStand
  <2>3. (Predicted => Predicted') /\ (Affordable => Affordable')
    BY <2>1, <2>2 DEF Predicted, Affordable
  <2> QED
    BY <2>1, <2>3 DEF BudgetInv
<1> QED
  BY <1>1, <1>2, <1>3, <1>4, <1>5, <1>6, TickEnabledBudget, PredictBudget,
     RescaleBudget, WriteBudget DEF Next

(* In one Tick the commands written draw no more than the limit, by the    *)
(* calculator's own prediction, however many messages the queue held.      *)
THEOREM BudgetHolds == Spec => []BatchWithinBudget
<1>1. TypeInv /\ BudgetInv => BatchWithinBudget
  <2> SUFFICES ASSUME TypeInv, BudgetInv, pc = "write", steady, max_draw # NaN
               PROVE  written_draw <= max_draw
    BY DEF BatchWithinBudget
  <2> DEFINE n == Len(control_messages)
             num == scale_factor.num
             den == scale_factor.den
  <2>1. PICK g : /\ PartialSums(g, Costs, n)
                 /\ written_draw * den + (g[n] - g[0]) * num <= max_draw * den
    BY DEF BudgetInv, Affordable
  <2>2. /\ n \in Nat /\ num \in Nat /\ den \in Nat \ {0} /\ written_draw \in Nat
        /\ max_draw \in Nat
    BY ConstantTypes DEF TypeInv, TypeOK, LimitInRange
  <2>3. g[n] - g[0] \in Nat
    <3>1. 0 \in 0 .. n /\ n \in 0 .. n
      BY <2>2
    <3>2. g[n] \in Nat /\ g[0] \in Nat /\ g[0] <= g[n]
      BY <2>1, <2>2, <3>1 DEF PartialSums
    <3> QED
      BY <3>2
  <2>4. written_draw * den <= max_draw * den
    <3> DEFINE rest == g[n] - g[0]
    <3>1. rest * num \in Nat
      <4> HIDE DEF rest, num
      <4> QED
        BY <2>2, <2>3 DEF rest
    <3>2. written_draw * den \in Int /\ max_draw * den \in Int
      BY <2>2
    <3> HIDE DEF rest, den, num
    <3> QED
      BY <2>1, <3>1, <3>2 DEF rest
  <2>5. ASSUME written_draw >= max_draw + 1 PROVE FALSE
    <3> HIDE DEF den
    <3>1. written_draw * den >= (max_draw + 1) * den
      BY <2>2, <2>5
    <3>2. (max_draw + 1) * den = max_draw * den + den
      BY <2>2
    <3> QED
      BY <2>2, <2>4, <3>1, <3>2
  <2> QED
    BY <2>2, <2>5
<1>2. Init => TypeInv /\ BudgetInv
  BY InitTypeInv, InitBudget
<1>3. TypeInv /\ BudgetInv /\ [Next]_vars => (TypeInv /\ BudgetInv)'
  BY NextTypeInv, NextBudget
<1> QED
  BY <1>1, <1>2, <1>3, PTL DEF Spec
=============================================================================
