-------------------------- MODULE DrivetrainProofs --------------------------
(***************************************************************************)
(* Proofs about the drivetrain: a robot that drives by itself (module      *)
(* Drive) and its bearing (Heading).  The two are separate specifications; *)
(* no step of one is a step of the other.                                  *)
(***************************************************************************)
EXTENDS Drive, Heading, TLAPS

(* What DriveAssumption says of every constant the proofs need.            *)
LEMMA DriveConstants ==
  /\ Length \in Nat /\ Noise \in Nat /\ DriveToSubtract \in Nat
  /\ StoppedNumLoops \in Nat /\ ReefDriveEarly \in Nat /\ ReefDriveFvel \in Nat
  /\ MaxAdjust \in Nat /\ LockMaxSpeed \in Nat /\ MaxAcceleration \in Nat
  /\ ThreeInches \in Nat
  /\ Grip \in Nat /\ Grip > 0 /\ SpeedLimit \in Nat /\ SpeedLimit > 0
  /\ MaxSpeed \in Nat /\ MaxDeceleration \in Nat /\ MaxDeceleration > 0
  /\ VelStoppedThresh \in Nat /\ VelStoppedThresh > 0
  /\ LockDivisor \in Nat /\ LockDivisor > 0 /\ LockDeadband \in Nat
  /\ Drifts \subseteq Int /\ Points \subseteq [point : Int, velocity : Nat]
  /\ ReefLocation \in Int /\ LockGains \subseteq Int
<1>1. /\ Length \in Nat /\ Noise \in Nat /\ DriveToSubtract \in Nat
      /\ StoppedNumLoops \in Nat /\ ReefDriveEarly \in Nat /\ ReefDriveFvel \in Nat
      /\ MaxAdjust \in Nat /\ LockMaxSpeed \in Nat /\ MaxAcceleration \in Nat
      /\ ThreeInches \in Nat
  BY DriveAssumption, Zenon
<1>2. /\ Grip \in Nat \ {0} /\ SpeedLimit \in Nat \ {0} /\ MaxSpeed \in Nat \ {0}
      /\ MaxDeceleration \in Nat \ {0} /\ VelStoppedThresh \in Nat \ {0}
      /\ LockDivisor \in Nat \ {0} /\ LockDeadband \in Nat \ {0}
  BY DriveAssumption, Zenon
<1>3. /\ Drifts \subseteq Int /\ Points \subseteq [point : Int, velocity : Nat]
      /\ ReefLocation \in Int /\ LockGains \subseteq Int
  BY DriveAssumption
<1> QED
  BY <1>1, <1>2, <1>3

(* A number put within a bound is an integer within it.                    *)
LEMMA WithinType ==
  ASSUME NEW bound \in Nat, NEW a \in Int
  PROVE  Within(bound, a) \in -bound .. bound
BY DEF Within, Most, Least

(* A robot that follows a demand within the speed limit keeps to it.       *)
LEMMA FollowsType ==
  ASSUME TypeOK, NEW asked \in -SpeedLimit .. SpeedLimit
  PROVE  Follows(asked) \subseteq -SpeedLimit .. SpeedLimit
<1> DEFINE change == Within(Grip, asked - velocity)
<1>1. velocity \in -SpeedLimit .. SpeedLimit /\ velocity \in Int /\ asked \in Int
      /\ SpeedLimit \in Nat /\ Grip \in Nat
  BY DriveConstants DEF TypeOK
<1>2. velocity + change \in -SpeedLimit .. SpeedLimit
  BY <1>1 DEF Within, Most, Least
<1> HIDE DEF change
<1>3. Follows(asked) = IF slips
        THEN {v \in -SpeedLimit .. SpeedLimit :
                Least(0, change) <= v - velocity /\ v - velocity <= Most(0, change)}
        ELSE {velocity + change}
  BY DEF Follows, change
<1> QED
  BY <1>2, <1>3

(* A pass of motion keeps the robot on the field and within the speed      *)
(* limit, and moves it by no more than that.                               *)
LEMMA MoveType ==
  ASSUME TypeOK, NEW asked \in -SpeedLimit .. SpeedLimit, Move(asked)
  PROVE  /\ pass' \in {0, 1} /\ position' \in Field
         /\ velocity' \in -SpeedLimit .. SpeedLimit
         /\ Magnitude(position' - position) <= SpeedLimit
<1>1. PICK v \in Follows(asked) :
        IF position + v \in Field
        THEN position' = position + v /\ velocity' = v
        ELSE position' = (IF v > 0 THEN Length ELSE 0) /\ velocity' = 0
  BY DEF Move
<1>2. /\ v \in Int /\ v <= SpeedLimit /\ -SpeedLimit <= v /\ SpeedLimit \in Nat
      /\ Length \in Nat /\ position \in Int /\ 0 <= position /\ position <= Length
  BY FollowsType, DriveConstants DEF TypeOK, Field
<1>3. pass' \in {0, 1}
  BY DEF Move, NextPass, TypeOK
<1>4. CASE position + v \in Field
  BY <1>1, <1>2, <1>3, <1>4 DEF Field, Magnitude
<1>5. CASE position + v \notin Field
  <2>1. velocity' = 0 /\ position' = IF v > 0 THEN Length ELSE 0
    BY <1>1, <1>5
  <2>2. IF v > 0 THEN position + v > Length ELSE position + v < 0
    BY <1>2, <1>5 DEF Field
  <2> QED
    BY <1>2, <1>3, <2>1, <2>2 DEF Field, Magnitude
<1> QED
  BY <1>4, <1>5

(* The same of a velocity and of an acceleration that is written.          *)
LEMMA WriteType ==
  ASSUME TypeOK, NEW a \in Int, WriteVelocity(a) \/ WriteAcceleration(a)
  PROVE  /\ pass' \in {0, 1} /\ position' \in Field
         /\ velocity' \in -SpeedLimit .. SpeedLimit
         /\ Magnitude(position' - position) <= SpeedLimit
<1>1. velocity + a \in Int /\ SpeedLimit \in Nat
  BY DriveConstants DEF TypeOK
<1>2. /\ Within(SpeedLimit, a) \in -SpeedLimit .. SpeedLimit
      /\ Within(SpeedLimit, velocity + a) \in -SpeedLimit .. SpeedLimit
  BY <1>1, WithinType
<1> QED
  BY <1>2, MoveType DEF WriteVelocity, WriteAcceleration

(* What is read is what there is, the estimate an integer; in autonomous   *)
(* it is the odometry's.                                                   *)
LEMMA ReadingsType ==
  ASSUME TypeOK, NEW r \in Readings
  PROVE  /\ r.estimate \in Int /\ r.velocity = velocity /\ velocity \in Int
         /\ position + drift \in Int
         /\ autonomous => r.estimate = position + drift
<1>1. position \in Int /\ drift \in Int /\ velocity \in Int /\ Noise \in Nat
  BY DriveConstants DEF TypeOK, Field
<1> QED
  BY <1>1 DEF Readings

LEMMA MagnitudeType ==
  ASSUME NEW a \in Int
  PROVE  Magnitude(a) \in Nat /\ (Magnitude(a) = a \/ Magnitude(a) = -a)
BY DEF Magnitude

(* The numbers a drive computes are integers.                              *)
LEMMA StoppingType ==
  ASSUME NEW speed \in Int, NEW final \in Int
  PROVE  StoppingDistance(speed, final) \in Int
<1>1. speed * (speed - final) \in Int /\ (speed - final) * (speed - final) \in Int
  OBVIOUS
<1>2. Magnitude(speed * (speed - final)) \in Int
  BY <1>1, MagnitudeType
<1> QED
  BY <1>1, <1>2 DEF StoppingDistance

LEMMA AccelerationType ==
  ASSUME TypeOK, NEW r \in Readings, NEW goal \in [point : Int, velocity : Nat]
  PROVE  Acceleration(goal, r) \in Int
<1> DEFINE dist == DistToTarget(goal.point, r)
           stop == Magnitude(StoppingDistance(Magnitude(r.velocity), goal.velocity))
<1>1. /\ r.estimate \in Int /\ r.velocity \in Int
      /\ goal.point \in Int /\ goal.velocity \in Int
  BY ReadingsType
<1>2. stop \in Int
  <2>1. Magnitude(r.velocity) \in Int
    BY <1>1, MagnitudeType
  <2>2. StoppingDistance(Magnitude(r.velocity), goal.velocity) \in Int
    BY <1>1, <2>1, StoppingType
  <2> QED
    BY <2>2, MagnitudeType
<1>3. dist \in Int
  BY <1>1, MagnitudeType, DriveConstants DEF DistToTarget
<1> HIDE DEF dist, stop
<1>4. /\ MaxDeceleration * stop \in Int
      /\ dist > 2 * MaxDeceleration * ThreeInches => dist > 0
  <2>1. 2 * MaxDeceleration * ThreeInches \in Nat
    BY DriveConstants
  <2> QED
    BY <1>2, <1>3, <2>1, DriveConstants
<1>5. Braking(goal, r) \in Int
  <2>1. Braking(goal, r) = IF dist > 2 * MaxDeceleration * ThreeInches
                           THEN (MaxDeceleration * stop) \div dist
                           ELSE MaxDeceleration
    BY DEF Braking, dist, stop
  <2> DEFINE s == MaxDeceleration * stop
  <2>2. s \in Int
    BY <1>4
  <2> HIDE DEF s
  <2>3. dist > 0 => s \div dist \in Int
    BY <1>3, <2>2
  <2> QED
    BY <1>4, <2>1, <2>3, DriveConstants DEF s
<1>6. Dir(r.velocity) \in {-1, 1} /\ Dir(goal.point - r.estimate) \in {-1, 1}
  BY DEF Dir
<1>7. /\ -Dir(r.velocity) * Braking(goal, r) \in Int
      /\ MaxAcceleration * Dir(goal.point - r.estimate) \in Int
  BY <1>5, <1>6, DriveConstants
<1> QED
  BY <1>7 DEF Acceleration

LEMMA TargetPointType ==
  ASSUME TypeOK, NEW r \in Readings
  PROVE  GetTargetPoint(r) \in [point : Int, velocity : Nat]
<1>1. CASE command = "point"
  BY <1>1 DEF GetTargetPoint, TypeOK
<1>2. CASE command # "point"
  <2> DEFINE way == ReefLocation - r.estimate
  <2>1. r.estimate \in Int /\ way \in Int
    BY ReadingsType, DriveConstants
  <2>2. Magnitude(way) \in Int /\ Dir(way) \in {-1, 1}
    BY <2>1, MagnitudeType DEF Dir
  <2> HIDE DEF way
  <2>3. r.estimate + Dir(way) * (Magnitude(way) - ReefDriveEarly) \in Int
    BY <2>1, <2>2, DriveConstants
  <2> QED
    BY <1>2, <2>3, DriveConstants DEF GetTargetPoint, way
<1> QED
  BY <1>1, <1>2

LEMMA LockVelocityType ==
  ASSUME TypeOK, NEW goal \in Int
  PROVE  LockVelocity(goal) \in Int
<1> DEFINE way == goal - (position + drift)
           output == lock_gain * Magnitude(way)
<1>1. way \in Int /\ lock_gain \in Int
  BY DriveConstants DEF TypeOK, Field
<1>2. Magnitude(way) \in Int
  BY <1>1, MagnitudeType
<1> HIDE DEF way
<1>3. output \in Int
  BY <1>1, <1>2
<1>4. Dir(way) \in {-1, 1} /\ Dir(output) \in {-1, 1}
  BY DEF Dir
<1>5. Magnitude(output) \in Int
  BY <1>3, MagnitudeType
<1>6. SpeedTarget(way) = Most(Dir(output) * (Magnitude(output) \div LockDivisor), -LockMaxSpeed)
  BY DEF SpeedTarget
<1> HIDE DEF output
<1>7. Magnitude(output) \div LockDivisor \in Int
  BY <1>5, DriveConstants
<1>8. Dir(output) * (Magnitude(output) \div LockDivisor) \in Int
  BY <1>4, <1>7
<1>9. SpeedTarget(way) \in Int
  BY <1>6, <1>8, DriveConstants DEF Most
<1>10. -Dir(way) * SpeedTarget(way) \in Int
  BY <1>4, <1>9
<1> QED
  BY <1>10 DEF LockVelocity, way
-----------------------------------------------------------------------------
(* What makes EndsNear inductive: an auto's robot that has come past its   *)
(* target has done so in the last pass.                                    *)
OnTheWay ==
  command = "point" /\ autonomous =>
    \/ target.point = start_point
    \/ Magnitude((position + drift) - start_point)
         < Magnitude(target.point - start_point) + SpeedLimit

DriveInv == TypeOK /\ OnTheWay

LEMMA InitDrive == Init => DriveInv
<1> SUFFICES ASSUME Init PROVE DriveInv
  OBVIOUS
<1>1. /\ pass \in {0, 1} /\ drift \in Drifts /\ lock_gain \in LockGains
      /\ position \in Field /\ velocity \in -SpeedLimit .. SpeedLimit
      /\ num_stalled_loops \in 0 .. StoppedNumLoops
      /\ base_adj \in -MaxAdjust .. MaxAdjust
      /\ command = "none" /\ start_point \in Int /\ piece \in Int
      /\ target \in [point : Int, velocity : Nat]
  BY DriveConstants DEF Init
<1>2. autonomous \in BOOLEAN /\ slips \in BOOLEAN /\ first_loop \in BOOLEAN
  BY Zenon DEF Init
<1> QED
  BY <1>1, <1>2 DEF DriveInv, TypeOK, OnTheWay, Drives

(* Every drive starts from where the robot is.                             *)
LEMMA ScheduleAutoInv == DriveInv /\ ScheduleAuto => DriveInv'
<1> SUFFICES ASSUME DriveInv, ScheduleAuto PROVE DriveInv'
  OBVIOUS
<1>1. TypeOK
  BY DEF DriveInv
<1>2. PICK goal \in Points, r \in Readings : InitializeDrive("point", goal, r)
  BY DEF ScheduleAuto
<1>3. /\ command' = "point" /\ start_point' = r.estimate /\ target' = goal
      /\ num_stalled_loops' = 0
      /\ UNCHANGED <<autonomous, slips, drift, lock_gain, base_adj, piece, first_loop>>
      /\ autonomous
  BY <1>2 DEF InitializeDrive, world, lock, ScheduleAuto
<1>4. /\ goal \in [point : Int, velocity : Nat] /\ r.estimate = position + drift
      /\ r.estimate \in Int
  BY <1>1, <1>3, ReadingsType, DriveConstants
<1>5. /\ pass' \in {0, 1} /\ position' \in Field
      /\ velocity' \in -SpeedLimit .. SpeedLimit
      /\ Magnitude(position' - position) <= SpeedLimit
  BY <1>1, WriteType DEF ScheduleAuto
<1>6. TypeOK'
  BY <1>1, <1>3, <1>4, <1>5, DriveConstants DEF TypeOK, Drives
<1>7. ASSUME goal.point # r.estimate
      PROVE  Magnitude((position' + drift) - r.estimate)
               < Magnitude(goal.point - r.estimate) + SpeedLimit
  <2>1. /\ position \in Int /\ position' \in Int /\ drift \in Int /\ goal.point \in Int
        /\ SpeedLimit \in Nat
    BY <1>1, <1>4, <1>5, DriveConstants DEF TypeOK, Field
  <2>2. Magnitude(goal.point - r.estimate) > 0
    BY <1>4, <1>7, <2>1 DEF Magnitude
  <2>3. (position' + drift) - r.estimate = position' - position
    BY <1>4, <2>1
  <2>4. Magnitude(goal.point - r.estimate) \in Int /\ Magnitude(position' - position) \in Int
    BY <1>4, <2>1, MagnitudeType
  <2> QED
    BY <1>5, <2>1, <2>2, <2>3, <2>4
<1>8. OnTheWay'
  BY <1>3, <1>7 DEF OnTheWay
<1> QED
  BY <1>6, <1>8 DEF DriveInv

LEMMA ScheduleTriggeredInv == DriveInv /\ ScheduleTriggered => DriveInv'
<1> SUFFICES ASSUME DriveInv, ScheduleTriggered PROVE DriveInv'
  OBVIOUS
<1>1. TypeOK
  BY DEF DriveInv
<1>2. UNCHANGED <<pass, position, velocity, autonomous, slips, drift, lock_gain>> /\ ~autonomous
  BY DEF ScheduleTriggered, robot, InitializeDrive, InitializeLock, world
<1>3. CASE \E r \in Readings :
             InitializeDrive("reef", [point |-> ReefLocation, velocity |-> 0], r)
  <2>1. PICK r \in Readings :
          InitializeDrive("reef", [point |-> ReefLocation, velocity |-> 0], r)
    BY <1>3
  <2>2. /\ command' = "reef" /\ start_point' = r.estimate
        /\ target' = [point |-> ReefLocation, velocity |-> 0]
        /\ num_stalled_loops' = 0
        /\ UNCHANGED <<base_adj, piece, first_loop>>
    BY <2>1 DEF InitializeDrive, lock
  <2>3. r.estimate \in Int
    BY <1>1, ReadingsType
  <2> QED
    BY <1>1, <1>2, <2>2, <2>3, DriveConstants DEF DriveInv, TypeOK, OnTheWay, Drives
<1>4. CASE \E seen \in Sightings : seen # <<>> /\ InitializeLock("piece")
  BY <1>1, <1>2, <1>4 DEF InitializeLock, drive, DriveInv, TypeOK, OnTheWay
<1> QED
  BY <1>3, <1>4 DEF ScheduleTriggered

(* A step that ends with no drive of an auto need only keep the types.     *)
LEMMA OtherInv ==
  ASSUME DriveInv, command' # "point",
         command' \in Drives \cup {"none", "lock", "piece"},
         UNCHANGED <<autonomous, slips, drift, lock_gain>>,
         start_point' \in Int, target' \in [point : Int, velocity : Nat],
         num_stalled_loops' \in 0 .. StoppedNumLoops,
         base_adj' \in -MaxAdjust .. MaxAdjust,
         piece' \in Int, first_loop' \in BOOLEAN,
         NEW a \in Int, WriteVelocity(a) \/ WriteAcceleration(a)
  PROVE  DriveInv'
<1>1. TypeOK
  BY DEF DriveInv
<1>2. /\ pass' \in {0, 1} /\ position' \in Field
      /\ velocity' \in -SpeedLimit .. SpeedLimit
  BY <1>1, WriteType
<1>3. TypeOK'
  BY <1>1, <1>2 DEF TypeOK
<1> QED
  BY <1>3 DEF DriveInv, OnTheWay

(* A drive goes on only while the robot has not come as far as its target. *)
LEMMA ExecuteDriveInv == DriveInv /\ ExecuteDrive => DriveInv'
<1> SUFFICES ASSUME DriveInv, ExecuteDrive PROVE DriveInv'
  OBVIOUS
<1>1. TypeOK
  BY DEF DriveInv
<1>2. PICK r \in Readings :
        LET goal == GetTargetPoint(r)
        IN  IF IsFinished(goal, r)
            THEN /\ command' = IF command = "reef" THEN "lock" ELSE "none"
                 /\ NoDrive
                 /\ WriteVelocity(0)
            ELSE /\ target' = goal
                 /\ num_stalled_loops' = Least(StoppedNumLoops + 1, Stalled(r))
                 /\ WriteAcceleration(Acceleration(goal, r))
                 /\ UNCHANGED <<command, start_point>>
  BY DEF ExecuteDrive
<1>3. /\ UNCHANGED <<autonomous, slips, drift, lock_gain, base_adj, piece, first_loop>>
      /\ command \in Drives
  BY DEF ExecuteDrive, world, lock
<1> DEFINE goal == GetTargetPoint(r)
<1>4. goal \in [point : Int, velocity : Nat]
  BY <1>1, TargetPointType
<1>5. CASE IsFinished(goal, r)
  <2>1. /\ command' = IF command = "reef" THEN "lock" ELSE "none"
        /\ NoDrive /\ WriteVelocity(0)
    BY <1>2, <1>5
  <2>2. /\ start_point' = 0 /\ target' = [point |-> 0, velocity |-> 0]
        /\ num_stalled_loops' = 0
    BY <2>1 DEF NoDrive
  <2>3. /\ base_adj' \in -MaxAdjust .. MaxAdjust /\ piece' \in Int /\ first_loop' \in BOOLEAN
    BY <1>1, <1>3 DEF TypeOK
  <2> QED
    BY <1>3, <2>1, <2>2, <2>3, OtherInv, DriveConstants
<1>6. CASE ~IsFinished(goal, r)
  <2>1. /\ target' = goal /\ num_stalled_loops' = Least(StoppedNumLoops + 1, Stalled(r))
        /\ WriteAcceleration(Acceleration(goal, r))
        /\ UNCHANGED <<command, start_point>>
    BY <1>2, <1>6
  <2>2. Acceleration(goal, r) \in Int
    BY <1>1, <1>4, AccelerationType
  <2>3. /\ pass' \in {0, 1} /\ position' \in Field
        /\ velocity' \in -SpeedLimit .. SpeedLimit
        /\ Magnitude(position' - position) <= SpeedLimit
    BY <1>1, <2>1, <2>2, WriteType
  <2>4. ~CameFarEnough(goal, r) /\ Stalled(r) <= StoppedNumLoops
        /\ num_stalled_loops' \in 0 .. StoppedNumLoops
    <3>1. ~CameFarEnough(goal, r) /\ ~(Stalled(r) > StoppedNumLoops)
      BY <1>6 DEF IsFinished
    <3>2. Stalled(r) \in Nat
      BY <1>1 DEF Stalled, TypeOK
    <3> QED
      BY <2>1, <3>1, <3>2, DriveConstants DEF Least
  <2>5. TypeOK'
    BY <1>1, <1>3, <1>4, <2>1, <2>3, <2>4 DEF TypeOK
  <2>6. ASSUME command = "point", autonomous
        PROVE  Magnitude((position' + drift) - start_point)
                 < Magnitude(target.point - start_point) + SpeedLimit
    <3>1. goal = target /\ r.estimate = position + drift
      BY <1>1, <2>6, ReadingsType DEF GetTargetPoint
    <3>2. ~(Magnitude((position + drift) - start_point)
              >= Magnitude(target.point - start_point))
      BY <2>4, <3>1 DEF CameFarEnough
    <3>3. /\ position \in Int /\ position' \in Int /\ drift \in Int
          /\ target.point \in Int /\ start_point \in Int /\ SpeedLimit \in Nat
      BY <1>1, <2>3, DriveConstants DEF TypeOK, Field
    <3>4. Magnitude((position' + drift) - start_point)
            <= Magnitude((position + drift) - start_point) + Magnitude(position' - position)
      <4> DEFINE a == (position + drift) - start_point
                 b == position' - position
                 c == (position' + drift) - start_point
      <4>1. a \in Int /\ b \in Int /\ c = a + b
        BY <3>3
      <4> HIDE DEF a, b, c
      <4>2. Magnitude(c) <= Magnitude(a) + Magnitude(b)
        BY <4>1 DEF Magnitude
      <4> QED
        BY <4>2 DEF a, b, c
    <3>5. /\ Magnitude((position' + drift) - start_point) \in Int
          /\ Magnitude((position + drift) - start_point) \in Int
          /\ Magnitude(target.point - start_point) \in Int
          /\ Magnitude(position' - position) \in Int
      BY <3>3, MagnitudeType
    <3> QED
      BY <2>3, <3>2, <3>3, <3>4, <3>5
  <2>7. OnTheWay'
    <3>1. command = "point" => target' = target
      BY <2>1 DEF GetTargetPoint
    <3> QED
      BY <1>3, <2>1, <2>6, <3>1 DEF OnTheWay
  <2> QED
    BY <2>5, <2>7 DEF DriveInv
<1> QED
  BY <1>5, <1>6

(* A piece that is followed is one that was seen, or the origin.           *)
LEMMA PieceType ==
  ASSUME TypeOK, NEW seen \in Sightings, NEW gp \in BestGP(seen)
  PROVE  gp \in Int
<1>1. seen \in Seq(Int)
  BY DriveAssumption
<1>2. {seen[i] : i \in DOMAIN seen} \subseteq Int
  BY <1>1
<1> QED
  BY <1>2 DEF BestGP

LEMMA ExecutePieceLockInv == DriveInv /\ ExecutePieceLock => DriveInv'
<1> SUFFICES ASSUME DriveInv, ExecutePieceLock PROVE DriveInv'
  OBVIOUS
<1>1. TypeOK
  BY DEF DriveInv
<1>2. piece' \in Int /\ first_loop' \in BOOLEAN
  <2>1. CASE \E seen \in Sightings : \E gp \in BestGP(seen) : UpdatePiece(gp)
    <3>0. PICK seen \in Sightings : \E gp \in BestGP(seen) : UpdatePiece(gp)
      BY <2>1
    <3>1. PICK gp \in BestGP(seen) : UpdatePiece(gp)
      BY <3>0
    <3>2. gp \in Int
      BY <1>1, PieceType
    <3> QED
      BY <1>1, <3>1, <3>2 DEF UpdatePiece, TypeOK
  <2>2. CASE UNCHANGED <<piece, first_loop>>
    BY <1>1, <2>2 DEF TypeOK
  <2> QED
    BY <2>1, <2>2 DEF ExecutePieceLock
<1>3. /\ UNCHANGED <<autonomous, slips, drift, lock_gain, start_point, target, num_stalled_loops,
                     base_adj, command>>
      /\ command = "piece" /\ WriteVelocity(LockVelocity(piece'))
  BY DEF ExecutePieceLock, world, drive
<1>4. LockVelocity(piece') \in Int
  BY <1>1, <1>2, LockVelocityType
<1> QED
  BY <1>1, <1>2, <1>3, <1>4, OtherInv DEF TypeOK

LEMMA ExecuteReefLockInv == DriveInv /\ ExecuteReefLock => DriveInv'
<1> SUFFICES ASSUME DriveInv, ExecuteReefLock PROVE DriveInv'
  OBVIOUS
<1>1. TypeOK
  BY DEF DriveInv
<1>2. /\ UNCHANGED <<autonomous, slips, drift, lock_gain, start_point, target, num_stalled_loops,
                     piece, first_loop, command>>
      /\ command = "lock" /\ base_adj' \in -MaxAdjust .. MaxAdjust
      /\ WriteVelocity(LockVelocity(ReefLocation + base_adj'))
  BY DEF ExecuteReefLock, world, drive
<1>3. LockVelocity(ReefLocation + base_adj') \in Int
  <2>1. ReefLocation + base_adj' \in Int
    BY <1>2, DriveConstants
  <2> QED
    BY <1>1, <2>1, LockVelocityType
<1> QED
  BY <1>1, <1>2, <1>3, OtherInv DEF TypeOK

(* Every step keeps the invariant.                                         *)
LEMMA NextDrive == DriveInv /\ [Next]_vars => DriveInv'
<1> SUFFICES ASSUME DriveInv, [Next]_vars PROVE DriveInv'
  OBVIOUS
<1>1. TypeOK
  BY DEF DriveInv
<1>2. CASE Idle
  BY <1>1, <1>2, OtherInv DEF Idle, world, drive, lock, TypeOK
<1>3. CASE Interrupt
  <2>1. /\ UNCHANGED <<autonomous, slips, drift, lock_gain, base_adj, piece, first_loop>>
        /\ command' = "none" /\ start_point' = 0 /\ num_stalled_loops' = 0
        /\ target' = [point |-> 0, velocity |-> 0] /\ WriteVelocity(0)
    BY <1>3 DEF Interrupt, NoDrive, world, lock
  <2> QED
    BY <1>1, <2>1, OtherInv, DriveConstants DEF TypeOK
<1>4. CASE UNCHANGED vars
  BY <1>4 DEF vars, robot, world, drive, lock, DriveInv, TypeOK, OnTheWay
<1> QED
  BY <1>2, <1>3, <1>4, ScheduleAutoInv, ScheduleTriggeredInv, ExecuteDriveInv,
     ExecuteReefLockInv, ExecutePieceLockInv DEF Next

LEMMA DriveInvariant == Spec => []DriveInv
BY InitDrive, NextDrive, PTL DEF Spec

(* The robot stays on the field and within the speed limit, whatever the   *)
(* drives, locks and triggers make of the readings.                        *)
THEOREM DriveTypes == Spec => []TypeOK
<1>1. DriveInv => TypeOK
  BY DEF DriveInv
<1> QED
  BY <1>1, DriveInvariant, PTL
-----------------------------------------------------------------------------
(* Twice the way on which a robot brakes by one unit in a pass, to any     *)
(* final speed, is no longer than the way on which it stops.               *)
LEMMA StoppingBound ==
  ASSUME NEW u \in Nat, NEW f \in Nat
  PROVE  StoppingDistance(u, f) <= u * u
<1> DEFINE a == u * u  b == u * f  c == f * f
<1>1. a \in Nat /\ b \in Nat /\ c \in Nat
  OBVIOUS
<1>2. u * (u - f) = a - b /\ (u - f) * (u - f) = a - 2 * b + c
  OBVIOUS
<1>3. (2 * u - f) * (2 * u - f) = 4 * a - 4 * b + c /\ 4 * a - 4 * b + c >= 0
  <2>1. (2 * u - f) * (2 * u - f) = 4 * a - 4 * b + c
    OBVIOUS
  <2>2. \A x \in Int : x * x >= 0
    OBVIOUS
  <2> QED
    BY <2>1, <2>2
<1> HIDE DEF a, b, c
<1>4. Magnitude(a - b) \in Int /\ (Magnitude(a - b) = a - b \/ Magnitude(a - b) = b - a)
  BY <1>1 DEF Magnitude
<1>5. 2 * Magnitude(a - b) - (a - 2 * b + c) <= a
  BY <1>1, <1>3, <1>4
<1> QED
  BY <1>2, <1>5 DEF StoppingDistance, a

(* An auto's drive ends near the point it was given, unless the robot      *)
(* stalled or could not be turned round (drive_to_point_command.cc:90-102).*)
THEOREM DrivesEndNear == Spec => EndsNear
<1> DEFINE Near ==
      Arrives =>
        \/ Strayed
        \/ Remaining < SpeedLimit
        \/ 2 * MaxDeceleration * (Remaining - DriveToSubtract)
             < VelStoppedThresh * VelStoppedThresh
<1>1. ASSUME DriveInv PROVE Near
  <2> SUFFICES ASSUME Arrives, ~Strayed
               PROVE  \/ Remaining < SpeedLimit
                      \/ 2 * MaxDeceleration * (Remaining - DriveToSubtract)
                           < VelStoppedThresh * VelStoppedThresh
    OBVIOUS
  <2>1. TypeOK /\ OnTheWay /\ autonomous /\ num_stalled_loops < StoppedNumLoops
    BY <1>1 DEF DriveInv, Arrives
  <2>2. PICK r \in Readings :
          LET goal == GetTargetPoint(r)
          IN  IF IsFinished(goal, r)
              THEN /\ command' = IF command = "reef" THEN "lock" ELSE "none"
                   /\ NoDrive
                   /\ WriteVelocity(0)
              ELSE /\ target' = goal
                   /\ num_stalled_loops' = Least(StoppedNumLoops + 1, Stalled(r))
                   /\ WriteAcceleration(Acceleration(goal, r))
                   /\ UNCHANGED <<command, start_point>>
    BY DEF Arrives, ExecuteDrive
  <2>3. command = "point" /\ IsFinished(target, r)
    <3>1. command \in Drives /\ command' = "none"
      BY DEF Arrives, ExecuteDrive
    <3> QED
      BY <2>2, <3>1 DEF Drives, GetTargetPoint
  <2>4. /\ r.estimate = position + drift /\ r.velocity = velocity
        /\ position + drift \in Int /\ velocity \in Int
        /\ target.point \in Int /\ target.velocity \in Nat /\ start_point \in Int
    BY <2>1, ReadingsType DEF TypeOK
  <2>5. ~(Stalled(r) > StoppedNumLoops)
    BY <2>1, DriveConstants DEF Stalled, TypeOK
  <2>6. CASE CameFarEnough(target, r)
    <3> DEFINE x == position + drift
    <3>1. Magnitude(x - start_point) >= Magnitude(target.point - start_point)
      BY <2>4, <2>6 DEF CameFarEnough
    <3>2. ~(Magnitude(target.point - x) > Magnitude(target.point - start_point))
      BY DEF Strayed, Remaining
    <3>3. \/ target.point = start_point
          \/ Magnitude(x - start_point) < Magnitude(target.point - start_point) + SpeedLimit
      BY <2>1, <2>3 DEF OnTheWay
    <3>4. x \in Int /\ SpeedLimit \in Nat /\ SpeedLimit > 0
      BY <2>4, DriveConstants
    <3> HIDE DEF x
    <3>5. Magnitude(target.point - x) < SpeedLimit
      BY <2>4, <3>1, <3>2, <3>3, <3>4 DEF Magnitude
    <3> QED
      BY <3>5 DEF x, Remaining
  <2>7. CASE Decelerates(target, r) /\ Magnitude(r.velocity) < VelStoppedThresh
    <3> DEFINE u == Magnitude(velocity)
               stop == StoppingDistance(u, target.velocity)
               dist == 2 * MaxDeceleration * (Remaining - DriveToSubtract)
    <3>1. u \in Nat /\ u < VelStoppedThresh /\ VelStoppedThresh \in Nat
      BY <2>4, <2>7, MagnitudeType, DriveConstants
    <3>2. dist <= stop
      BY <2>4, <2>7 DEF Decelerates, DistToTarget, Remaining
    <3>3. dist \in Int /\ stop \in Int
      <4>1. Remaining \in Int
        BY <2>4, MagnitudeType DEF Remaining
      <4>2. dist \in Int
        BY <4>1, DriveConstants
      <4>3. stop \in Int
        <5>1. u \in Int /\ target.velocity \in Int
          BY <2>4, <3>1
        <5> HIDE DEF u
        <5> QED
          BY <5>1, StoppingType
      <4> QED
        BY <4>2, <4>3
    <3>4. stop <= u * u
      BY <2>4, <3>1, StoppingBound
    <3>5. u * u < VelStoppedThresh * VelStoppedThresh /\ u * u \in Int
      <4>1. PICK d \in Nat : VelStoppedThresh = u + d /\ d > 0
        BY <3>1, VelStoppedThresh - u \in Nat, VelStoppedThresh = u + (VelStoppedThresh - u)
      <4> HIDE DEF u
      <4>2. u * d \in Nat /\ d * d \in Nat /\ d * d > 0 /\ u * u \in Nat
        BY <3>1, <4>1
      <4>3. (u + d) * (u + d) = u * u + 2 * (u * d) + d * d
        BY <3>1, <4>1
      <4> QED
        BY <4>1, <4>2, <4>3
    <3>6. VelStoppedThresh * VelStoppedThresh \in Int
      BY <3>1
    <3> DEFINE uu == u * u  tt == VelStoppedThresh * VelStoppedThresh
    <3>7. dist <= stop /\ stop <= uu /\ uu < tt /\ uu \in Int /\ tt \in Int
      BY <3>2, <3>4, <3>5, <3>6
    <3> HIDE DEF dist, stop, uu, tt
    <3>8. dist < tt
      BY <3>3, <3>7
    <3> QED
      BY <3>8 DEF dist, tt
  <2> QED
    BY <2>3, <2>5, <2>6, <2>7 DEF IsFinished
<1> HIDE DEF Near
<1>2. DriveInv /\ [Next]_vars => [Near]_vars
  BY <1>1
<1> QED
  BY <1>2, DriveInvariant, PTL DEF Spec, EndsNear, Near
-----------------------------------------------------------------------------
(* The error CoterminalDifference gives is coterminal with the difference  *)
(* and less than a whole turn.  Nothing smaller can be said: two signed    *)
(* remainders may be two turns apart, and one correction is made.          *)
LEMMA RemainderOfTurn ==
  ASSUME NEW a \in Int
  PROVE  /\ fmod(a, 360) \in Int
         /\ -360 < fmod(a, 360) /\ fmod(a, 360) < 360
         /\ \E turns \in Int : a = fmod(a, 360) + 360 * turns
<1>1. CASE a < 0
  <2>1. fmod(a, 360) = -((-a) % 360)
    BY <1>1 DEF fmod
  <2>2. a = -((-a) % 360) + 360 * (-((-a) \div 360)) /\ -((-a) \div 360) \in Int
    OBVIOUS
  <2>3. (-a) % 360 \in 0..359 /\ -((-a) \div 360) \in Int
    BY <2>2
  <2> DEFINE r == (-a) % 360
             t == -((-a) \div 360)
  <2>4. a = -r + 360 * t /\ r \in 0..359 /\ t \in Int /\ fmod(a, 360) = -r
    BY <2>1, <2>2, <2>3
  <2> HIDE DEF r, t
  <2> QED BY <2>4
<1>2. CASE a >= 0
  <2>1. fmod(a, 360) = a % 360
    BY <1>2 DEF fmod
  <2>2. a = (a % 360) + 360 * (a \div 360) /\ a \div 360 \in Int
    OBVIOUS
  <2> QED BY <2>1, <2>2
<1> QED BY <1>1, <1>2

(* The arithmetic of CoterminalDifference, on the two remainders.          *)
LEMMA WithinATurn ==
  ASSUME NEW f \in Int, NEW g \in Int, NEW j \in Int, NEW k \in Int, NEW d \in Int,
         -360 < f, f < 360, -360 < g, g < 360,
         d = IF f - g > 180 THEN f - g - 360 ELSE IF f - g < -180 THEN f - g + 360 ELSE f - g
  PROVE  /\ -360 < d /\ d < 360
         /\ (d - ((f + 360 * j) - (g + 360 * k))) % 360 = 0
OBVIOUS

LEMMA CoterminalError ==
  ASSUME NEW angle \in Int, NEW other_angle \in Int
  PROVE  /\ CoterminalDifference(angle, other_angle) \in Int
         /\ -360 < CoterminalDifference(angle, other_angle)
         /\ CoterminalDifference(angle, other_angle) < 360
         /\ SameDirection(CoterminalDifference(angle, other_angle), angle - other_angle)
<1> DEFINE f == fmod(angle, 360)
           g == fmod(other_angle, 360)
           d == CoterminalDifference(angle, other_angle)
<1>1. f \in Int /\ -360 < f /\ f < 360 /\ g \in Int /\ -360 < g /\ g < 360
  BY RemainderOfTurn
<1>2. PICK j \in Int : angle = f + 360 * j
  BY RemainderOfTurn
<1>3. PICK k \in Int : other_angle = g + 360 * k
  BY RemainderOfTurn
<1>4. d = IF f - g > 180 THEN f - g - 360 ELSE IF f - g < -180 THEN f - g + 360 ELSE f - g
  BY DEF CoterminalDifference
<1> HIDE DEF f, g, d
<1>5. d \in Int
  BY <1>1, <1>4
<1>6. /\ -360 < d /\ d < 360
      /\ (d - (angle - other_angle)) % 360 = 0
  BY <1>1, <1>2, <1>3, <1>4, <1>5, WithinATurn
<1> QED BY <1>5, <1>6 DEF SameDirection, d

-----------------------------------------------------------------------------
DemandInv == HeadingTypeOK /\ PendingDemand

LEMMA DemandInit == HeadingInit => DemandInv
<1> SUFFICES ASSUME HeadingInit PROVE DemandInv
  OBVIOUS
<1>1. bearing_offset \in Int
  BY DEF HeadingInit
<1>2. HeadingTypeOK
  <2>1. /\ pc \in {"read", "command", "idle"} /\ yaw \in Int /\ bearing \in Int
        /\ omega \in {-1, 0, 1}
    BY DEF HeadingInit
  <2>3. moved \in BOOLEAN
    BY Zenon DEF HeadingInit
  <2>2. turn_target \in Targets \cup {Driver} /\ demanded \in Int \cup {None}
    BY DEF HeadingInit
  <2> QED BY <1>1, <2>1, <2>2, <2>3 DEF HeadingTypeOK
<1>3. PendingDemand
  BY DEF HeadingInit, PendingDemand
<1> QED BY <1>2, <1>3 DEF DemandInv

LEMMA DemandNext == DemandInv /\ [HeadingNext]_heading_vars => DemandInv'
<1> SUFFICES ASSUME DemandInv, [HeadingNext]_heading_vars PROVE DemandInv'
  OBVIOUS
<1> USE HeadingAssumption
<1>0. HeadingTypeOK /\ PendingDemand
  BY DEF DemandInv
<1>1. CASE ReadFromHardware
  <2>1. bearing' \in Int /\ demanded' = None
    BY <1>0, <1>1 DEF ReadFromHardware, HeadingTypeOK
  <2>2. HeadingTypeOK' /\ PendingDemand'
    BY <1>0, <1>1, <2>1 DEF ReadFromHardware, HeadingTypeOK, PendingDemand
  <2> QED BY <2>2 DEF DemandInv
<1>2. ASSUME NEW auto \in BOOLEAN, NEW blue \in BOOLEAN, NEW calibrated \in BOOLEAN,
             ZeroBearing(auto, blue, calibrated)
      PROVE  DemandInv'
  <2>1. /\ bearing_offset' \in Int /\ yaw' \in Int
        /\ demanded' # None => yaw' = 0 /\ demanded' = bearing_offset'
        /\ demanded' \in Int \cup {None}
        /\ pc # "read" /\ UNCHANGED <<pc, bearing, turn_target, omega, moved>>
    BY <1>0, <1>2 DEF ZeroBearing, HeadingTypeOK
  <2>2. HeadingTypeOK'
    BY <1>0, <2>1 DEF HeadingTypeOK
  <2>3. PendingDemand'
    BY <1>0, <2>1 DEF PendingDemand, HeadingTypeOK, Magnitude
  <2> QED BY <2>2, <2>3 DEF DemandInv
<1>3. ASSUME NEW start \in Starts, SetBearing(start)
      PROVE  DemandInv'
  <2>1. start \in Int
    OBVIOUS
  <2>2. /\ bearing_offset' = start - (bearing - bearing_offset) /\ yaw' = yaw
        /\ demanded' = IF HonestReading THEN start ELSE None
        /\ pc = "command" /\ UNCHANGED <<pc, bearing, turn_target, omega, moved>>
    BY <1>3 DEF SetBearing, OffsetFor
  <2>3. HeadingTypeOK'
    BY <1>0, <2>1, <2>2 DEF HeadingTypeOK
  <2>4. PendingDemand'
    <3>1. CASE HonestReading
      BY <1>0, <2>1, <2>2, <3>1 DEF PendingDemand, HeadingTypeOK, HonestReading,
                                    Magnitude
    <3>2. CASE ~HonestReading
      BY <2>2, <3>2 DEF PendingDemand
    <3> QED BY <3>1, <3>2
  <2> QED BY <2>3, <2>4 DEF DemandInv
<1>4. ASSUME NEW to \in Targets \cup {Driver}, Retarget(to)
      PROVE  DemandInv'
  BY <1>0, <1>4 DEF Retarget, DemandInv, HeadingTypeOK, PendingDemand
<1>5. CASE WriteToHardware
  <2>1. omega' \in {-1, 0, 1}
    BY <1>5 DEF WriteToHardware, ApplyBearingPID, Sign
  <2>2. HeadingTypeOK'
    BY <1>0, <1>5, <2>1 DEF WriteToHardware, HeadingTypeOK
  <2>3. PendingDemand'
    BY <1>0, <1>5 DEF WriteToHardware, HeadingTypeOK, PendingDemand, Magnitude
  <2> QED BY <2>2, <2>3 DEF DemandInv
<1>6. CASE NextReading
  <2>1. HeadingTypeOK'
    BY <1>0, <1>6 DEF NextReading, HeadingTypeOK
  <2>2. PendingDemand'
    BY <1>0, <1>6 DEF NextReading, HeadingTypeOK, PendingDemand, Magnitude
  <2> QED BY <2>1, <2>2 DEF DemandInv
<1>7. CASE Turn
  <2>1. yaw' \in Int /\ (yaw' = yaw + Step \/ yaw' = yaw - Step)
    BY <1>0, <1>7 DEF Turn, HeadingTypeOK
  <2>2. HeadingTypeOK'
    BY <1>0, <1>7, <2>1 DEF Turn, HeadingTypeOK
  <2>3. PendingDemand'
    BY <1>0, <1>7, <2>1 DEF Turn, HeadingTypeOK, PendingDemand, Magnitude
  <2> QED BY <2>2, <2>3 DEF DemandInv
<1>8. CASE UNCHANGED heading_vars
  BY <1>0, <1>8 DEF heading_vars, DemandInv, HeadingTypeOK, PendingDemand
<1> QED BY <1>1, <1>2, <1>3, <1>4, <1>5, <1>6, <1>7, <1>8 DEF HeadingNext

(* A bearing that is set or zeroed is what the next reading shows, within  *)
(* the two moves a robot makes between two readings (drivetrain.cc:113-156 *)
(* and 211-212).                                                           *)
THEOREM DemandShown == HeadingSpec => BearingAsDemanded
<1>1. DemandInv /\ [HeadingNext]_heading_vars
        => [ReadFromHardware /\ demanded # None
              => Magnitude(bearing' - demanded) <= 2 * Step]_heading_vars
  <2> SUFFICES ASSUME DemandInv, ReadFromHardware, demanded # None
               PROVE  Magnitude(bearing' - demanded) <= 2 * Step
    OBVIOUS
  <2>1. Magnitude(yaw + bearing_offset - demanded) <= 2 * Step
    BY DEF DemandInv, PendingDemand, ReadFromHardware
  <2>2. bearing' = yaw + bearing_offset
    BY DEF ReadFromHardware
  <2>3. yaw \in Int /\ bearing_offset \in Int /\ demanded \in Int
    BY DEF DemandInv, HeadingTypeOK
  <2> QED BY <2>1, <2>2, <2>3, HeadingAssumption DEF Magnitude
<1> QED BY <1>1, DemandInit, DemandNext, PTL DEF HeadingSpec, BearingAsDemanded
=============================================================================
