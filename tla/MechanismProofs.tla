--------------------------- MODULE MechanismProofs ---------------------------
(***************************************************************************)
(* Theorems about Mechanism, for every range, every gain, every target and *)
(* every age of the status frames.                                         *)
(***************************************************************************)
EXTENDS Mechanism, TLAPS

USE MotorAssumption, MechanismAssumption

(* A clamped integer lies between the ends.                                *)
LEMMA ClampType ==
  ASSUME NEW x \in Int, NEW lo \in Int, NEW hi \in Int, lo <= hi
  PROVE  Clamp(x, lo, hi) \in lo .. hi
BY DEF Clamp

(* What the current limit makes of a duty cycle is an integer.             *)
LEMMA LimitDrawType ==
  ASSUME NEW d \in Int, NEW v \in Int
  PROVE  LimitDraw(d, v) \in Int
BY DEF LimitDraw, Clamp

(* The current limit keeps a duty cycle on the side of zero it came from,  *)
(* or else between zero and the speed.                                     *)
LEMMA LimitDrawBrakes ==
  ASSUME NEW d \in Int, NEW v \in Speeds
  PROVE  /\ d <= 0 => LimitDraw(d, v) <= Clamp(v, 0, FullDuty)
         /\ d >= 0 => LimitDraw(d, v) >= Clamp(v, -FullDuty, 0)
BY DEF LimitDraw, Clamp, Speeds, Magnitude

(* The soft limits return an integer, never an outward one past an end.    *)
LEMMA LimitDCStops ==
  ASSUME NEW d \in Int, NEW p \in Int, NEW l \in SoftLimits, Ordered(l)
  PROVE  /\ LimitDC(l, d, p) \in Int
         /\ l.using /\ p >= l.forward => LimitDC(l, d, p) <= 0
         /\ l.using /\ p <= l.reverse => LimitDC(l, d, p) >= 0
BY DEF LimitDC, Outward, Ordered, SoftLimits

(* A duty cycle asked for is an integer, and brakes past an end.           *)
LEMMA WriteDCType ==
  ASSUME NEW d \in Int, NEW p \in Int, NEW v \in Speeds,
         NEW l \in SoftLimits, Ordered(l)
  PROVE  /\ WriteDC(l, d, p, v) \in Int
         /\ l.using /\ p >= l.forward => WriteDC(l, d, p, v) <= Clamp(v, 0, FullDuty)
         /\ l.using /\ p <= l.reverse => WriteDC(l, d, p, v) >= Clamp(v, -FullDuty, 0)
<1>1. v \in Int
  BY DEF Speeds
<1> QED
  BY <1>1, LimitDCStops, LimitDrawType, LimitDrawBrakes DEF WriteDC

LEMMA NoLimitsType == NoLimits \in SoftLimits /\ Ordered(NoLimits)
BY DEF NoLimits, SoftLimits, Ordered

(* A cut target is an integer.                                             *)
LEMMA LimitPositionType ==
  ASSUME NEW l \in SoftLimits, NEW p \in Int
  PROVE  LimitPosition(l, p) \in Int
BY DEF LimitPosition, SoftLimits, Clamp

(* The same for a position asked for.                                      *)
LEMMA WritePositionType ==
  ASSUME NEW target \in Int, NEW p \in Int, NEW v \in Speeds,
         NEW l \in SoftLimits, Ordered(l)
  PROVE  /\ WritePosition(l, target, p, v) \in Int
         /\ l.using /\ p >= l.forward =>
              WritePosition(l, target, p, v) <= Clamp(v, 0, FullDuty)
         /\ l.using /\ p <= l.reverse =>
              WritePosition(l, target, p, v) >= Clamp(v, -FullDuty, 0)
<1> DEFINE d == Gain * (LimitPosition(l, target) - p) - Damping * v
<1>1. d \in Int
  BY LimitPositionType DEF Speeds
<1> HIDE DEF d
<1>2. WritePosition(l, target, p, v) = WriteDC(l, d, p, v)
  BY DEF WritePosition, d
<1> QED
  BY <1>1, <1>2, WriteDCType
-----------------------------------------------------------------------------
(* What is written for a target.                                           *)
LEMMA DutyForType ==
  ASSUME TypeOK, NEW target \in Targets
  PROVE  /\ DutyFor(target) \in Int
         /\ kind # "linear" /\ Limits.using =>
              /\ frame.position >= Limits.forward =>
                   DutyFor(target) <= Clamp(frame.velocity, 0, FullDuty)
              /\ frame.position <= Limits.reverse =>
                   DutyFor(target) >= Clamp(frame.velocity, -FullDuty, 0)
<1>1. /\ frame.position \in Int /\ frame.velocity \in Speeds
      /\ target \in Int /\ HomingDuty \in Int
      /\ Limits \in SoftLimits /\ Ordered(Limits)
  BY DEF TypeOK
<1>2. CASE kind = "linear" /\ ~is_homed
  BY <1>1, <1>2, NoLimitsType, WriteDCType DEF DutyFor
<1>3. CASE kind = "linear" /\ is_homed
  BY <1>1, <1>3, NoLimitsType, WritePositionType DEF DutyFor, LimitsOf
<1>4. CASE kind # "linear"
  BY <1>1, <1>4, WritePositionType DEF DutyFor, LimitsOf
<1> QED
  BY <1>2, <1>3, <1>4

(* The speed a step of motion may end with, and where it leads.            *)
LEMMA MotionType ==
  ASSUME TypeOK, NEW v \in Chased, Moved(v)
  PROVE  /\ v \in Speeds /\ place' \in Places /\ speed' \in Speeds
         /\ speed >= 0 /\ command >= 0 => speed' >= 0 /\ place' >= place
<1>1. /\ place \in Places /\ speed \in Speeds /\ command \in Int
  BY DEF TypeOK
<1>2. Output \in Speeds /\ (command >= 0 => Output >= 0)
  BY <1>1, ClampType DEF Output, Speeds, Clamp
<1>3. v \in Speeds /\ (speed >= 0 /\ command >= 0 => v >= 0)
  BY <1>1, <1>2 DEF Chased, Speeds
<1> QED
  BY <1>1, <1>3, ClampType DEF Moved, Speeds, Places, Clamp
-----------------------------------------------------------------------------
(* What makes HomedIsTrue inductive: until it is homed a mechanism only    *)
(* moves forward, so it is still beyond the switch when the program hears  *)
(* of it, however late.                                                    *)
Forward ==
  (kind = "linear" /\ ~is_homed) =>
    /\ speed >= 0 /\ command >= 0 /\ frame.velocity >= 0
    /\ frame.switch => place >= Switch

Inv == TypeOK /\ Forward /\ HomedIsTrue

LEMMA FrameType ==
  ASSUME TypeOK
  PROVE  Frame \in [position : Int, velocity : Speeds, switch : BOOLEAN]
<1>1. place \in Int /\ origin \in Int /\ speed \in Speeds /\ Switch \in Int
  BY DEF TypeOK, Places
<1>2. (place >= Switch) \in BOOLEAN
  BY <1>1
<1> QED
  BY <1>1, <1>2 DEF Frame

LEMMA InitInv == Init => Inv
<1> SUFFICES ASSUME Init PROVE Inv
  OBVIOUS
<1>0. /\ Top \in Nat /\ Switch \in Int
      /\ Limits.reverse \in Int /\ Limits.forward \in Int
  BY DEF SoftLimits
<1>1. place \in Places /\ origin \in -Top .. Top
  <2>1. CASE kind = "linear"
    BY <1>0, <2>1 DEF Init, Places
  <2>2. CASE kind = "wrist"
    BY <1>0, <2>2 DEF Init, Places
  <2>3. CASE kind = "climber"
    BY <1>0, <2>3 DEF Init, Places, Ordered
  <2> QED
    BY <2>1, <2>2, <2>3 DEF Init, Kinds
<1>2. /\ kind \in Kinds /\ phase = "read" /\ enabled = FALSE /\ speed = 0
      /\ frame = Frame /\ age = 0 /\ sensed = place /\ slow = TRUE
      /\ is_homed = FALSE /\ command = 0 /\ lost = FALSE
  BY DEF Init
<1>3. 0 \in Speeds
  BY DEF Speeds
<1>4. frame \in [position : Int, velocity : Speeds, switch : BOOLEAN]
  <2>1. (place >= Switch) \in BOOLEAN /\ place + origin \in Int
    BY <1>0, <1>1 DEF Places
  <2> QED
    BY <1>2, <1>3, <2>1 DEF Frame
<1>5. TypeOK
  <2>1. age \in 0 .. FrameAge /\ command \in Int
    BY <1>2
  <2>2. phase \in {"read", "write", "first", "second"}
    BY <1>2
  <2>3. enabled \in BOOLEAN /\ slow \in BOOLEAN /\ is_homed \in BOOLEAN
        /\ lost \in BOOLEAN
    BY <1>2, Zenon
  <2> QED
    BY <1>1, <1>2, <1>3, <1>4, <2>1, <2>2, <2>3, Zenon DEF TypeOK
<1>6. Forward
  <2>1. Frame.velocity = speed /\ Frame.switch = (place >= Switch)
    BY DEF Frame
  <2>2. frame.velocity = 0 /\ frame.switch = (place >= Switch)
    BY <1>2, <2>1
  <2>3. 0 >= 0
    OBVIOUS
  <2>4. speed >= 0 /\ command >= 0 /\ frame.velocity >= 0
    BY <1>2, <2>2, <2>3
  <2> QED
    BY <2>2, <2>4, Zenon DEF Forward
<1> QED
  BY <1>2, <1>5, <1>6 DEF Inv, HomedIsTrue

(* Reading keeps the invariant: the zeroing a linear mechanism gets is     *)
(* wrong by what it has travelled past the switch.                         *)
LEMMA ReadInv == Inv /\ Read => Inv'
<1> SUFFICES ASSUME Inv, Read PROVE Inv'
  OBVIOUS
<1>1. TypeOK /\ Forward /\ HomedIsTrue
  BY DEF Inv
<1>2. UNCHANGED <<kind, enabled, place, speed, frame, age, sensed, command>>
  BY DEF Read, seen
<1>3. CASE ReadLinear
  <2>1. CASE SeesSwitch
    <3>1. place \in Switch .. Top /\ Top \in Nat /\ Switch \in Int /\ Switch >= 0
      BY <1>1, <1>3, <2>1 DEF ReadLinear, SeesSwitch, Forward, TypeOK, Places
    <3>2. /\ origin' \in -Top .. Top /\ lost' \in BOOLEAN
          /\ ~lost' => Magnitude(origin') <= Top - Switch
      <4>1. CASE origin' = Switch - place /\ lost' = lost
        BY <1>1, <3>1, <4>1 DEF TypeOK, Magnitude
      <4>2. CASE lost' = TRUE /\ origin' = origin
        BY <1>1, <4>2 DEF TypeOK
      <4> QED
        BY <1>3, <2>1, <4>1, <4>2 DEF ReadLinear, SetPosition
    <3>3. is_homed' = TRUE /\ slow' = slow /\ phase' = "write"
      BY <1>3, <2>1 DEF ReadLinear, Read
    <3> QED
      BY <1>1, <1>2, <3>2, <3>3 DEF Inv, TypeOK, Forward, HomedIsTrue
  <2>2. CASE ~SeesSwitch
    <3>1. UNCHANGED <<is_homed, origin, lost, slow>> /\ phase' = "write"
      BY <1>3, <2>2 DEF ReadLinear, Read
    <3> QED
      BY <1>1, <1>2, <3>1 DEF Inv, TypeOK, Forward, HomedIsTrue, Magnitude
  <2> QED
    BY <2>1, <2>2
<1>4. CASE ReadWrist
  <2>0. /\ sensed - place \in -Top .. Top /\ origin \in -Top .. Top
        /\ lost \in BOOLEAN
    BY <1>1 DEF TypeOK, Places
  <2>1. origin' \in -Top .. Top /\ lost' \in BOOLEAN
    <3>1. \/ origin' = sensed - place /\ lost' = lost
          \/ lost' = TRUE /\ origin' = origin
          \/ origin' = origin /\ lost' = lost
      BY <1>4 DEF ReadWrist, SetPosition
    <3> QED
      BY <2>0, <3>1
  <2>2. slow' \in BOOLEAN /\ is_homed' = is_homed /\ phase' = "write"
    BY <1>4 DEF ReadWrist, Read
  <2>3. kind' # "linear"
    BY <1>2, <1>4 DEF ReadWrist
  <2>4. TypeOK'
    BY <1>1, <1>2, <2>1, <2>2 DEF TypeOK
  <2> QED
    BY <2>3, <2>4 DEF Inv, Forward, HomedIsTrue
<1> QED
  BY <1>3, <1>4 DEF Read

(* Writing keeps it: an unhomed mechanism that does not fall back is never *)
(* told to.                                                                *)
LEMMA WriteInv == ASSUME Inv, NEW target \in Targets, Write(target) PROVE Inv'
<1>1. TypeOK /\ Forward /\ HomedIsTrue
  BY DEF Inv
<1>2. /\ UNCHANGED <<kind, enabled, place, speed, origin, frame, age, sensed,
                     slow, is_homed, lost>>
      /\ phase' = "first" /\ command' = DutyFor(target)
  BY DEF Write, body, seen, memory
<1>3. TypeOK'
  BY <1>1, <1>2, DutyForType DEF TypeOK
<1>4. ASSUME kind = "linear", ~is_homed
      PROVE  command' >= 0
  <2>1. /\ frame.velocity \in Speeds /\ frame.velocity >= 0
        /\ frame.position \in Int
    BY <1>1, <1>4 DEF TypeOK, Forward
  <2>2. LimitDC(NoLimits, HomingDuty, frame.position) = HomingDuty
    BY DEF LimitDC, NoLimits
  <2>3. HomingDuty \in Int /\ HomingDuty >= 0
    OBVIOUS
  <2>4. LimitDraw(HomingDuty, frame.velocity) >= Clamp(frame.velocity, -FullDuty, 0)
    BY <2>1, <2>3, LimitDrawBrakes
  <2>5. Clamp(frame.velocity, -FullDuty, 0) = 0
    BY <2>1 DEF Clamp, Speeds
  <2> QED
    BY <1>2, <1>4, <2>1, <2>2, <2>3, <2>4, <2>5, LimitDrawType
       DEF DutyFor, WriteDC, Speeds
<1>5. Forward'
  BY <1>1, <1>2, <1>4 DEF Forward
<1>6. HomedIsTrue'
  BY <1>1, <1>2 DEF HomedIsTrue
<1> QED
  BY <1>3, <1>5, <1>6 DEF Inv

LEMMA MoveInv == Inv /\ Move => Inv'
<1> SUFFICES ASSUME Inv, Move PROVE Inv'
  OBVIOUS
<1>1. TypeOK /\ Forward /\ HomedIsTrue
  BY DEF Inv
<1>2. /\ UNCHANGED <<kind, enabled, origin, frame, sensed, slow, is_homed,
                     command, lost>>
      /\ phase' \in {"second", "read"}
      /\ age < FrameAge /\ age' = age + 1
  BY DEF Move, memory
<1>3. PICK v \in Chased : Moved(v)
  BY DEF Move
<1>4. /\ place' \in Places /\ speed' \in Speeds
      /\ speed >= 0 /\ command >= 0 => speed' >= 0 /\ place' >= place
  BY <1>1, <1>3, MotionType
<1>5. TypeOK'
  BY <1>1, <1>2, <1>4 DEF TypeOK
<1>6. Forward'
  BY <1>1, <1>2, <1>4 DEF Forward, TypeOK, Places
<1>7. HomedIsTrue'
  BY <1>1, <1>2 DEF HomedIsTrue
<1> QED
  BY <1>5, <1>6, <1>7 DEF Inv

LEMMA ReportInv == Inv /\ Report => Inv'
<1> SUFFICES ASSUME Inv, Report PROVE Inv'
  OBVIOUS
<1>1. TypeOK /\ Forward /\ HomedIsTrue
  BY DEF Inv
<1>2. /\ UNCHANGED <<kind, phase, enabled, place, speed, origin, slow, is_homed,
                     command, lost>>
      /\ frame' = Frame /\ age' = 0 /\ sensed' = place
  BY DEF Report, body, memory
<1>3. TypeOK'
  BY <1>1, <1>2, FrameType DEF TypeOK
<1>4. Frame.velocity = speed /\ Frame.switch = (place >= Switch)
  BY DEF Frame
<1>5. Forward'
  BY <1>1, <1>2, <1>4 DEF Forward
<1>6. HomedIsTrue'
  BY <1>1, <1>2 DEF HomedIsTrue
<1> QED
  BY <1>3, <1>5, <1>6 DEF Inv

(* Every step keeps the invariant.                                         *)
LEMMA NextInv == Inv /\ [Next]_vars => Inv'
<1> SUFFICES ASSUME Inv, [Next]_vars PROVE Inv'
  OBVIOUS
<1>1. CASE Toggle
  BY <1>1 DEF Toggle, Inv, TypeOK, Forward, HomedIsTrue, body, seen, memory
<1>2. CASE UNCHANGED vars
  BY <1>2 DEF vars, Inv, TypeOK, Forward, HomedIsTrue, body, seen, memory
<1> QED
  BY <1>1, <1>2, ReadInv, WriteInv, MoveInv, ReportInv DEF Next

LEMMA Invariant == Spec => []Inv
BY InitInv, NextInv, PTL DEF Spec

(* Every variable of Mechanism always holds a value of its kind.           *)
THEOREM TypeCorrect == Spec => []TypeOK
<1>1. Inv => TypeOK
  BY DEF Inv
<1> QED
  BY <1>1, Invariant, PTL

(* A homed mechanism is where its encoder says, up to what lies beyond the *)
(* switch, unless its zeroing was lost.                                    *)
THEOREM HomingIsTrue == Spec => []HomedIsTrue
<1>1. Inv => HomedIsTrue
  BY DEF Inv
<1> QED
  BY <1>1, Invariant, PTL

(* No target makes a wrist past its end go faster outward.                 *)
THEOREM LimitsBrake == Spec => BrakesAtLimit
<1> DEFINE Brake ==
      (phase = "write" /\ phase' = "first" /\ kind # "linear" /\ Limits.using) =>
        /\ frame.position >= Limits.forward => command' <= Clamp(frame.velocity, 0, FullDuty)
        /\ frame.position <= Limits.reverse => command' >= Clamp(frame.velocity, -FullDuty, 0)
<1>1. ASSUME Inv, Next PROVE Brake
  <2>1. ASSUME NEW target \in Targets, Write(target) PROVE Brake
    <3>1. TypeOK /\ command' = DutyFor(target)
      BY <1>1, <2>1 DEF Inv, Write
    <3> QED
      BY <3>1, DutyForType
  <2>2. CASE Read
    BY <2>2 DEF Read
  <2>3. CASE Move
    BY <2>3 DEF Move
  <2>4. CASE Report
    BY <2>4 DEF Report
  <2>5. CASE Toggle
    BY <2>5 DEF Toggle
  <2> HIDE DEF Brake
  <2> QED
    BY <1>1, <2>1, <2>2, <2>3, <2>4, <2>5 DEF Next
<1>2. ASSUME UNCHANGED vars PROVE Brake
  BY <1>2 DEF vars
<1>3. Inv /\ [Next]_vars => [Brake]_vars
  BY <1>1, <1>2
<1> QED
  BY <1>3, Invariant, PTL DEF Spec, BrakesAtLimit
-----------------------------------------------------------------------------
(* What makes StaysInside inductive: a mechanism at p, moving towards end  *)
(* with speed s, can still be stopped within Overshoot of it.              *)
Stoppable(p, s, end) ==
  /\ p <= end + Overshoot
  /\ s > 0 => 2 * p + s * (s - 1) <= 2 * (end + Overshoot)

(* A climber is stoppable at both its ends, and its encoder is never reset.*)
InReach ==
  kind = "climber" =>
    /\ origin = 0
    /\ Stoppable(place, speed, Limits.forward)
    /\ Stoppable(-place, -speed, -Limits.reverse)

(* Twice the way of a mechanism that brakes from s grows with s.           *)
LEMMA BrakingGrows ==
  ASSUME NEW v \in Nat, NEW s \in Nat, v <= s
  PROVE  v * (v + 1) <= s * (s + 1)
<1>1. PICK d \in Nat : s = v + d
  BY s - v \in Nat, s = v + (s - v)
<1> DEFINE a == v * v  b == v * d  c == d * d
<1>2. a \in Nat /\ b \in Nat /\ c \in Nat
  OBVIOUS
<1>3. v * (v + 1) = a + v
  OBVIOUS
<1>4. s * (s + 1) = a + b + b + c + v + d
  BY <1>1
<1> HIDE DEF a, b, c
<1> QED
  BY <1>1, <1>2, <1>3, <1>4

(* A pass of motion towards end keeps a mechanism stoppable, if it starts  *)
(* before end or loses speed.                                              *)
LEMMA StaysStoppable ==
  ASSUME NEW p \in Int, NEW s \in Int, NEW end \in Int,
         NEW v \in Int, v <= FullDuty,
         Stoppable(p, s, end), p < end \/ v <= 0 \/ v < s
  PROVE  Stoppable(p + v, v, end)
<1>0. FullDuty \in Nat /\ Overshoot \in Nat
  OBVIOUS
<1>1. CASE v <= 0
  BY <1>0, <1>1 DEF Stoppable
<1>2. CASE v > 0
  <2> DEFINE w == v * (v + 1)
  <2>1. w \in Int /\ v * (v - 1) = w - 2 * v /\ w >= 2 * v
    <3>1. v * v \in Int /\ v * v >= v
      BY <1>2
    <3>2. w = v * v + v /\ v * (v - 1) = v * v - v
      OBVIOUS
    <3> QED
      BY <3>1, <3>2
  <2>2. 2 * p + w <= 2 * (end + Overshoot)
    <3>1. CASE p < end
      <4> DEFINE f == FullDuty * (FullDuty + 1)
      <4>1. w <= f
        BY <1>0, <1>2, BrakingGrows
      <4>2. f \in Int /\ f <= 2 * (Overshoot + 1)
        BY <1>0, OvershootAssumption
      <4> HIDE DEF w, f
      <4> QED
        BY <1>0, <2>1, <3>1, <4>1, <4>2
    <3>2. CASE v < s
      <4> DEFINE t == s * (s - 1)
      <4>1. (s - 1) * (s - 1 + 1) = t /\ t \in Int
        OBVIOUS
      <4>2. w <= t
        BY <1>2, <3>2, <4>1, BrakingGrows, s - 1 \in Nat, v \in Nat, v <= s - 1
      <4>3. 2 * p + t <= 2 * (end + Overshoot)
        BY <1>2, <3>2 DEF Stoppable
      <4> HIDE DEF w, t
      <4> QED
        BY <1>0, <2>1, <4>1, <4>2, <4>3
    <3> QED
      BY <1>2, <3>1, <3>2
  <2> HIDE DEF w
  <2>3. 2 * (p + v) + v * (v - 1) <= 2 * (end + Overshoot)
    <3> DEFINE u == v * (v - 1)
    <3>1. u = w - 2 * v
      BY <2>1
    <3> HIDE DEF u
    <3>2. 2 * (p + v) + u <= 2 * (end + Overshoot)
      BY <1>0, <2>1, <2>2, <3>1
    <3> QED
      BY <3>2 DEF u
  <2>4. p + v <= end + Overshoot
    BY <1>0, <2>1, <2>2
  <2> QED
    BY <2>3, <2>4 DEF Stoppable
<1> QED
  BY <1>1, <1>2

(* A hard stop within reach keeps it stoppable too.                        *)
LEMMA AtRest ==
  ASSUME NEW p \in Int, NEW s \in Int, s <= 0, NEW end \in Int, p <= end + Overshoot
  PROVE  Stoppable(p, s, end)
BY DEF Stoppable

(* Past an end the controller's own soft limits stop the motor, so what is *)
(* left is braking.                                                        *)
LEMMA PastEndBrakes ==
  ASSUME TypeOK, kind = "climber", origin = 0, NEW v \in Chased
  PROVE  /\ v \in Speeds
         /\ place >= Limits.forward => v <= 0 \/ v < speed
         /\ place <= Limits.reverse => v >= 0 \/ v > speed
<1>1. /\ place \in Int /\ speed \in Speeds /\ command \in Int
      /\ place + origin = place
      /\ Limits.forward \in Int /\ Limits.reverse \in Int
  BY DEF TypeOK, Places, SoftLimits
<1>2. Output \in Speeds
  BY <1>1, ClampType DEF Output, Speeds, Clamp
<1>3. place >= Limits.forward => Output <= 0
  BY <1>1 DEF Output, Stopped, Outward, Clamp
<1>4. place <= Limits.reverse => Output >= 0
  BY <1>1 DEF Output, Stopped, Outward, Clamp
<1> QED
  BY <1>1, <1>2, <1>3, <1>4 DEF Chased, Speeds

LEMMA InitInReach == Init => InReach
<1> SUFFICES ASSUME Init, kind = "climber"
             PROVE  /\ origin = 0
                    /\ Stoppable(place, speed, Limits.forward)
                    /\ Stoppable(-place, -speed, -Limits.reverse)
  BY DEF InReach
<1>1. /\ Limits.forward \in Int /\ Limits.reverse \in Int
      /\ Limits.forward >= Limits.reverse /\ Overshoot \in Nat
  BY DEF SoftLimits, Ordered
<1>2. origin = 0 /\ place = Limits.reverse /\ speed = 0
  BY DEF Init
<1> QED
  BY <1>1, <1>2 DEF Stoppable

LEMMA MoveInReach == TypeOK /\ InReach /\ Move => InReach'
<1> SUFFICES ASSUME TypeOK, InReach, Move, kind = "climber"
             PROVE  /\ origin' = 0
                    /\ Stoppable(place', speed', Limits.forward)
                    /\ Stoppable(-place', -speed', -Limits.reverse)
  BY DEF InReach, Move, Stoppable
<1>1. /\ origin = 0 /\ origin' = 0
      /\ Stoppable(place, speed, Limits.forward)
      /\ Stoppable(-place, -speed, -Limits.reverse)
  BY DEF InReach, Move
<1>2. PICK v \in Chased : Moved(v)
  BY DEF Move
<1>3. /\ place \in Int /\ place >= 0 /\ place <= Top /\ speed \in Int
      /\ Top \in Nat /\ Limits.forward \in Int /\ Limits.reverse \in Int
      /\ 0 <= Limits.reverse /\ Limits.forward <= Top
      /\ Limits.forward >= Limits.reverse
      /\ Overshoot \in Nat /\ FullDuty \in Nat
  BY DEF TypeOK, Places, Speeds, SoftLimits, Ordered
<1>4. /\ v \in Int /\ v <= FullDuty /\ -v <= FullDuty
      /\ place >= Limits.forward => v <= 0 \/ v < speed
      /\ place <= Limits.reverse => v >= 0 \/ v > speed
  BY <1>1, PastEndBrakes DEF Speeds
<1>5. Stoppable(place + v, v, Limits.forward)
  <2>1. place < Limits.forward \/ v <= 0 \/ v < speed
    BY <1>3, <1>4
  <2> QED
    BY <1>1, <1>3, <1>4, <2>1, StaysStoppable
<1>6. Stoppable(-place + -v, -v, -Limits.reverse)
  <2>1. /\ -place \in Int /\ -speed \in Int /\ -v \in Int /\ -Limits.reverse \in Int
        /\ -place < -Limits.reverse \/ -v <= 0 \/ -v < -speed
    BY <1>3, <1>4
  <2> QED
    BY <1>1, <1>4, <2>1, StaysStoppable
<1>7. CASE place' = place + v
  <2>1. speed' = v /\ -place' = -place + -v
    BY <1>2, <1>3, <1>4, <1>7 DEF Moved
  <2> QED
    BY <1>1, <1>5, <1>6, <1>7, <2>1
<1>8. CASE place' # place + v
  <2>1. /\ speed' = 0
        /\ \/ place' = 0 /\ place + v < 0
           \/ place' = Top /\ place + v > Top
    <3> DEFINE next == Clamp(place + v, 0, Top)
    <3>1. place' = next /\ speed' = IF next = place + v THEN v ELSE 0
      BY <1>2 DEF Moved
    <3>2. \/ next = 0 /\ place + v < 0
          \/ next = Top /\ place + v > Top
          \/ next = place + v
      BY <1>3, <1>4 DEF Clamp
    <3> HIDE DEF next
    <3> QED
      BY <1>8, <3>1, <3>2
  <2>2. place' \in Int /\ place' <= Limits.forward + Overshoot
    BY <1>3, <1>4, <1>5, <2>1 DEF Stoppable
  <2>3. -place' \in Int /\ -place' <= -Limits.reverse + Overshoot
    BY <1>3, <1>4, <1>6, <2>1 DEF Stoppable
  <2>4. -Limits.reverse \in Int
    BY <1>3
  <2>5. speed' \in Int /\ -speed' \in Int /\ speed' <= 0 /\ -speed' <= 0
    BY <2>1
  <2> QED
    BY <1>1, <1>3, <2>1, <2>2, <2>3, <2>4, <2>5, AtRest
<1> QED
  BY <1>7, <1>8

(* Every step keeps a climber in reach: no other step moves it, and only a *)
(* valid sensor would reset its encoder.                                   *)
LEMMA NextInReach == TypeOK /\ InReach /\ [Next]_vars => InReach'
<1> SUFFICES ASSUME TypeOK, InReach, [Next]_vars PROVE InReach'
  OBVIOUS
<1>1. ASSUME UNCHANGED <<kind, place, speed>>,
             kind = "climber" => origin' = origin
      PROVE  InReach'
  BY <1>1 DEF InReach, Stoppable
<1>2. CASE Read
  <2>1. UNCHANGED <<kind, place, speed>>
    BY <1>2 DEF Read
  <2>2. ASSUME kind = "climber" PROVE origin' = origin
    BY <1>2, <2>2 DEF Read, ReadLinear, ReadWrist, SensorValid
  <2> QED
    BY <1>1, <2>1, <2>2
<1>3. CASE \E target \in Targets : Write(target)
  BY <1>1, <1>3 DEF Write, body
<1>4. CASE Report
  BY <1>1, <1>4 DEF Report, body
<1>5. CASE Toggle
  BY <1>1, <1>5 DEF Toggle, body
<1>6. CASE UNCHANGED vars
  BY <1>1, <1>6 DEF vars, body
<1> QED
  BY <1>2, <1>3, <1>4, <1>5, <1>6, MoveInReach DEF Next

(* However old the frames its duty cycles are computed from, no target     *)
(* takes a climber further past its range than Overshoot.                  *)
THEOREM ReachIsKept == Spec => []StaysInside
<1>1. TypeOK /\ InReach => StaysInside
  <2> SUFFICES ASSUME TypeOK, InReach, kind = "climber"
               PROVE  place \in Limits.reverse - Overshoot .. Limits.forward + Overshoot
    BY DEF StaysInside
  <2>1. /\ place \in Int /\ Limits.forward \in Int /\ Limits.reverse \in Int
        /\ Overshoot \in Nat
    BY DEF TypeOK, Places, SoftLimits
  <2>2. place <= Limits.forward + Overshoot /\ -place <= -Limits.reverse + Overshoot
    BY DEF InReach, Stoppable
  <2> QED
    BY <2>1, <2>2
<1> QED
  BY <1>1, InitInReach, NextInReach, TypeCorrect, PTL DEF Spec
=============================================================================
