# Verification of monkey_menace

TLA+ models, TLC runs and TLAPS proofs for the robot code of FRC team 846's 2025
robot: the reusable library `src/src/frc846` and the robot program `src/src/y2025`.
Paths below are relative to these two directories.

## The system

The robot runs one 10 ms loop (`GenericRobot::StartCompetition`). Every pass reads
the mode, runs the subsystems (each turns its *target* into motor commands), polls
the controllers' triggers, runs the command scheduler (commands set the targets) and
ends with `MotorMonkey::Tick`, the only place where motor commands leave the program.
Subsystems are read and written in two groups, in alternate passes. Two more threads
bundle the log and send it to clients; vendor libraries refresh what motor controllers
report from threads of their own.

| Component | State | Operations | Hard because |
| --- | --- | --- | --- |
| **MotorMonkey** (`control/MotorMonkey`) | command queue, registries, battery voltages, sample buffer, power limit | `WriteDC/Velocity/Position`, `Tick`, `WriteMessages`, `RecalculateMaxDraw`, `ConstructController`, setters with retries | commands outlive mode changes; a velocity is read twice per pass; failed transfers; quotients of measured values |
| **Intermediate controllers** (`control/hardware`) | last command, last error, gains, a Spark's configuration object | resend the last command on every Tick; read-and-clear of the last error; simulation | errors belong to whichever call reads them next; the variants differ |
| **Higher motor control** (`HigherMotorController`, `HMCHelper`, `SoftLimits`) | gains, limits, load, conversions | position to duty cycle, soft limits, current limit | order of limiting; readings as old as the last frame |
| **Logging** (`base/FunkyLogSystem`, `fserver`, `compression`, `logsclient/recv.py`) | message queue, counter of characters, bundles, clients | `AddMessage`, `LogThread`, sender and receiver threads, six-bit text | three threads, rate limit, client timeouts, an unlocked read |
| **Main loop and scheduling** (`GenericRobot`, `GenericSubsystem`, `GenericCommand`, `control_triggers`) | mode, scheduled commands, triggers, targets, parity | mode changes, `CancelAll`, groups A and B | order of subsystems, commands and Tick; targets that persist |
| **Operator input** (`control_input`, `xbox`, teleop commands) | previous reading, toggles, climb stage | edges to toggles, an else-if chain per side | a reading in one pass, its use in two |
| **Mechanisms** (`linear_subsystem`, `wrist_subsystem`, `climber`, end effectors, `coral`, `algal`) | homed flags, origins, targets | homing on a switch, absolute encoders, states to setpoints | homing must end; stale sensors; lost zeroings |
| **Swerve** (`robot/swerve`) | module directions, offset of the gyro, odometry, pose estimate | open-loop control, steering, zeroing | angles modulo a turn; blocking zeroing |
| **Driving by itself** (`drive_to_point`, `lock_to_point`, `lock_gpd`, `drive_to_reef`, `autos`) | start point, stall counter, target | motion to a point, locks, termination | slip, drift, walls, interruption at any pass |
| **Driver** (`drive_command`, `AntiTippingCalculator`, `RampRateLimiter`) | limiters' values | sticks to a velocity the robot does not tip at | limits in two frames, changing with the arms |
| **Vision and field** (`AprilTagCalculator`, `gpd`, `reef`, `field`, `math`) | remembered correction, lists of places | tags to positions, sides of the reef, mirrored points, scripts | latency, boundary angles, files |

### What makes each part correct

* *MotorMonkey*: the newest command of a motor wins and none is lost; a batch of
  commands keeps the power limit; a brownout pins it; a standing request arrives.
* *Configuration*: what was asked is in force, or the log says otherwise.
* *Higher motor control, mechanisms*: homing ends at the right place; no mechanism is
  driven past its soft limits; a wrist at rest knows where it is.
* *Logging*: messages reach a client once, in order, as they were written.
* *Main loop*: no motion outlives its command; the driver gets control back.
* *Operator input*: one press, one change, for both sides alike; scoring ends.
* *Driving*: drives end, and end near; locks settle; the stick is obeyed.
* *Swerve and geometry*: a module never turns further than it must; inverse
  calculations are inverse; the nearest side is the nearest.

`PROJECT.json` lists the parts with their status, and the hazards, each at its line.

## Modules

| Module | Models | Extends |
| --- | --- | --- |
| `SyncBuffer` | `DoubleSyncBuffer`: two rolling vectors, correlation shift, trough | |
| `CurrentTorque` | the linear motor model on an integer grid | |
| `MotorMonkey` | queue, two-pass write, limit, resend, last-error protocol | both above |
| `CommandMailbox` | abstract: per motor, the standing request and what its device was given | |
| `ControllerConfig` | construction and configuration, retries, failed transfers, restarts | |
| `FifoChannel` | abstract: what is logged leaves once, in order | |
| `LogPipeline` | `FunkyLogSystem` and `LoggingServer`: four threads, one step per lock | |
| `RobotLoop` | modes, readings, triggers, command scheduling, writes | |
| `Angles` | `CoterminalDifference`, `calculateSteerPosition`, the sign of a cosine | |
| `SwerveSteering` | one `SwerveModuleSubsystem` and a wheel that turns meanwhile | `Angles` |
| `Heading` | the drivetrain's bearing: gyro, offset, zeroing, setting, alignment | `Angles` |
| `HigherMotor` | `HigherMotorController`, soft limits, current limit | `CurrentTorque` |
| `Mechanism` | linear and wrist subsystems, climber, the motor between two passes | `HigherMotor` |
| `OperatorPath` | buttons, readings, commands, superstructures, what each child is told | |
| `Drive` | drives, locks and the drivetrain they move, on a line | `Angles` |
| `Vectors` | two-dimensional vectors and twelve exact angles | |
| `SwerveKinematics` | open-loop calculator and wheel odometry | `Vectors` |
| `Localization` | tags to positions, camera to pieces | `Vectors` |
| `FieldGeometry` | mirrored points, sides of the reef | `Vectors` |
| `TeleopDrive` | `DriveCommand`, anti-tipping, rate limiters | `Vectors` |
| `LogText` | compression and the client's decompression | |
| `FieldFile` | points, paths and scripts read from files | |
| `MotorSimulator` | `MCSimulator` and what `MotorMonkey` does with it | `CurrentTorque` |
| `MCMotorMonkey`, `MCControllerConfig`, `MCSwerveSteering`, `MCHeading`, `MCMechanism`, `MCOperatorPath`, `MCDrive` | values for TLC | the module named |
| `MCCalculators` | the calls, inputs and expectations of the calculators | the seven before it that have no state |
| `MotorMonkeyProofs`, `LogPipelineProofs`, `RobotLoopProofs`, `MechanismProofs`, `OperatorPathProofs` | the theorems | the module named |
| `ControllerProofs` | the theorems about `ControllerConfig` and `SwerveSteering` | both |
| `DrivetrainProofs` | the theorems about `Drive` and `Heading` | both |
| `CalculatorProofs` | the theorems about the calculators | `MCCalculators` |

Definitions marked *Slip* in a module are one-step mistakes (a missing test, `=` for
`+=`, a swapped operator). No specification uses them. Each is exchanged for the
definition after it to confirm that the property named in `PROJECT.json` notices.

### How MotorMonkey corresponds to the code

`control_messages`, `temp_messages`, `max_draw`, `sync_buffer`, `battery_voltage`,
`last_disabled_voltage` and `num_loops_last_brown` are the static members and locals of
those names; `last_command` and `last_error` are the members of the controllers;
`device` is the last command each physical device accepted. `Push` is
`WriteDC/Velocity/Position`; `TickDisabled` is `Tick(true)`; `Tick(false)` is the
sequence `TickEnabled`, `Predict`*, `Rescale`, `Write`*, `FinishTick`, one step per loop
iteration, because the speed a controller reports (`ReportVelocity`) may change between
any two of them. `ConfigCall` is what a call wrapped in `SMART_RETRY` does to the last
error. Physical quantities are integers: a speed is `rpm / free_speed` on the grid of
the duty cycles, a limit is rounded down, and a scaled duty cycle is rounded toward the
speed. Three history variables (`requested`, `written_draw`, `steady`) only serve the
properties.

The first commands `MotorMonkey` sees come after `Setup`, so the limit starts at
`default_max_draw`. A controller's last command starts at position 0, the
value-initialised first alternative of its variant. The last error of a Talon is not
initialised by its constructor; every configuration reads and clears it before the loop
starts, so it starts clear.

### How LogPipeline corresponds to the code

`messages` is `FunkyLogSystem::messages`, `log_bundle` the bundle between `mtx.unlock()`
and `server.AddMessage`, `bundles` and `clients` the two guarded members of
`LoggingServer`. `Bundle` and `HandOver` are `LogThread`; `SenderCheck`, `SenderPop` and
`SenderSend` the sender thread, whose first test holds no lock; `Receive`,
`ReceiveNothing` and `Prune` the receiver thread, whose clock is read *before*
`recvfrom` blocks (`t_age`, `prune_due`). Times are held as ages that stop growing where
no comparison tells them apart, so that the clock needs no bound. `Kept` is the erasing
loop with its shifted index, over the indices `Erased` marks. A message is its number and
its `char_count`; what its text goes through is `LogText`. Two history variables follow
the messages out: `taken` has what the sender popped and is done with, `handed` what it
then sent to at least one client. They differ by the bundles whose clients were all pruned
between the check and the send; what the network does to a datagram is not modelled.

### How RobotLoop corresponds to the code

A pass is `Sample`, one of the five reactions to the mode, `Read`, `Poll`* (one step per
registered trigger, in registration order), `PollingDone`, the execution of the scheduled
commands (`NobodyDrives` or one of `Drive`, `Arrive`, `Wait`, `Release`),
`ScheduleDefaults` and `Write`. A command is its name and the `InitTeleop` that
registered it, because `InitTeleop` runs again at every entry into teleop and nothing
removes what the last one registered. `drive_target` is the name of the command that set
the drivetrain's target; `StopsAtEnd` names the commands whose `End` sets a zero target.
The frc2 scheduler is external and modelled from its use: edges schedule and cancel,
requirements interrupt, nothing is scheduled while disabled.

### How ControllerConfig corresponds to the code

`Construct` is `ConstructController` (whose further settings are the tail of `calls`),
`Set` and `SetGains` the setters of `MotorMonkey`, `Attempt` one round of `SMART_RETRY`.
A Spark's setter changes `configs` and transfers all of it; a Talon's transfers its part.
`Sent` is what each kind of controller makes of a setting. A transfer succeeds, fails
before or after the device took it, or, for the status frames of a Talon, after a part.
`Tick` records the result of resending the last command. `Restart` is a Spark that lost
power: nothing is ever persisted on one, while a Talon stores what it is given.

### How SwerveSteering and Heading correspond to the code

Both follow one pass: `ReadFromHardware`, the commands (`SetTarget`, `Retarget`,
`SetBearing`, zeroing), `WriteToHardware`, the rest of the period. What the write
computes comes from the reading, while the wheel or the robot goes on turning (`Turn`, at
most once between a reading and its write and once between a write and the next
reading). Zeroing happens among the commands (the driver's button) or after the write
(a dashboard button, whose callback runs in `SmartDashboard::UpdateValues`), never
between two passes' reading and commands. `SwerveSteering` keeps the sign of the cosine
and drops its size; `last_rezero` counts the forced writes. `Heading` keeps the sign of
the rotation. The gyro and the encoders count whole turns and are never wrapped.
`SetBearing` uses a reading that zeroing or an earlier `SetBearing` in the same pass has
made stale: `HonestReading` says when a demand counts. Both modules work in whole
degrees. The names that other modules have as well carry a prefix (`WheelInit`,
`HeadingSpec`), since a module of proofs extends two components.

### How HigherMotor and Mechanism correspond to the code

`WritePosition` is proportional gain and damping, then `WriteDC`: the soft limits, then
the current limit at the velocity last received. A `Mechanism` is one of three kinds
(`kind`), chosen once: a linear subsystem, which homes on a limit switch, a wrist with an
absolute encoder, or the climber, which has neither. A subsystem is read and written in
every second pass, so a cycle is `Read`, `Write` and two `Move`s; `Report` is a status
frame, without which the program sees the last one, at most `FrameAge` passes old.
`origin` is by how much the motor's encoder is off; it is unknown until homing calls
`SetPosition`, which may fail on every retry (`lost`). The motor follows its duty cycle
within the slip that its load and the limited current permit. Lengths are units of a few
degrees or inches; conversions by a positive factor keep every comparison.

### How OperatorPath corresponds to the code

`Mode`, `ReadA`, `ReadB`, `Command`, `WriteA` and `WriteB` are the steps of two passes:
`control_input` is read and the coral side written in group A, the algal side and the
climber in group B, and the commands run in both. `UpdateWithInput` is the function of
that name; `previous_driver` and `previous_operator` are the inputs whose edges it looks
for. `coral` and `algal` are the state whose setpoints the children were told and what
the roller was told; a setpoint is its state's name, since the numbers are preferences.
`Children` are the mechanisms whose `init_...` preference is set; the others are not
written. When commands are scheduled is `RobotLoop`'s; here they are from the pass after
an `InitTeleop` until the robot is disabled.

### How Drive corresponds to the code

The field is the line through the robot and its target: distance, direction and
braking are about that line, and the bearing is `Heading`'s. A step is a pass: the
drivetrain reads (estimate within `Noise` of the truth in teleop, odometry with its
`drift` in autonomous), the command's `Execute` and `IsFinished` run, the drivetrain
writes, and the robot's speed changes by at most `Grip`, less where it slips, or stops at
a wall. A command may be interrupted, and another begin, in any pass. Lengths are about
half a foot, speeds lengths per pass. `lock_gain` is the preference `lock_gains/_kP`:
`drivetrain.cc:31` registers and `networktables.json` deploys +0.5, with which
`LockToPointCommand` drives away from its target, bounded by nothing of its own; only a
negative value drives toward it, and that is where `lock_max_speed` bounds the speed.
Both signs are initial values, so every behaviour of the run has one or the other, and
`LockSettles` and `PieceSettles` say what holds for each: with the negative gain the robot
comes to its target; with the registered one it is within the deadband already or ends at
a wall, and a piece lock either keeps its piece or is driven as far from it as where any
other is followed. `kI` and `kD` are registered as 0.

### How the calculators correspond to the code

`MCCalculators` calls them one at a time: its state is the last call, with inputs and
result. They are compared with each other (odometry finds the motion that the wheels were
asked for, times `odom_fudge_factor`, 0.875 as registered and 0.96 as deployed and here in
thousandths; the client undoes the compression, an inverted motor is like one that is
not), or with what a reader expects (`NearestSide`, `ScriptRunsAsWritten`). An angle is `<<cos, sin>>` in fifths, one of the
twelve for which both are whole, so that rotations are exact; a rotated vector is in
fifths of what it was in, a twice rotated one in twenty-fifths. Lengths of the field are
in eighths of an inch, velocities of the driver in 0.05 ft/s, rates rounded down. Weights
of tags are parts of a common multiple of the distances. The text of a log is characters
with their place in the code table; a file is lines of tokens. A simulated motor's
positions are half steps of its speed, its acceleration is rounded toward zero.

## Runs

| Run | Instance | Shows |
| --- | --- | --- |
| `mm_commands` | 2 interchangeable motors, duty cycle and position commands, 2 speeds, backlog of 2; 4.0 M states | `LatestCommandWins`; `BatchWithinBudget`; `ImplementsMailbox`, the refinement of `CommandMailbox` |
| `mm_power` | 1 motor, 2 voltages on both sides of the threshold, a buffer of 3 samples and 2 shifts; 5.1 M | `BrownoutPinsLimit`: a brownout that was noticed pins the limit, whatever is measured later |
| `mm_live` | 1 motor, all three command types, backlog of 3, fair environment; 132 k | `RequestsArrive`: a standing request is realized on its device |
| `log_pipeline` | 2 clients, 3 messages of 1 or 2 characters, a limit of 2, periods of one unit; 187 k | the pipeline is one queue (`ImplementsFifo`), the unlocked test is harmless (`PopFindsBundle`), bundles are lost to pruning only (`LostOnlyToPrune`); `EverythingSent` |
| `loop_control` | 4 buttons, 4 modes, 2 entries into teleop; 1.15 M | a motion ends with its command, autos stay in their period, every target is of this pass or the one before, `DriverRegainsControl` |
| `config` | one Talon and one Spark, five settings, one of the two constructed, one restart; 508 k | what was asked is in force, logged as failed, or lost to a restart; one transfer repairs a Spark |
| `swerve_steering` | 5 directions, 4 CANcoder values, 30 degrees per move, 2 forced writes; 111 k | the short way, the right inversion, a wheel that aligns |
| `heading` | 5 alignment targets from -240 to 420, 2 start bearings, 30 degrees per move and dead band; 1.05 M | readings show what was demanded; alignment settles |
| `mechanism` | one mechanism of each kind, 5 duty cycles, 3 targets, frames up to 2 passes old; 288 k | `StaysInside`: a climber overshoots its range by its braking way at most; `HomedIsTrue`, `HomingEnds`, `RestFindsTruth`: a wrist at rest knows where it is |
| `operator` | 4 sets of buttons of the driver, 5 of the operator, 2 of the switches, every mode at any pass; 490 k | `ActsOnReading`: each side acts on the current reading from its write to the next reading; `ScoringEnds` when the button is let go of and the switches part |
| `drive` | a line of 16 units, 2 points, 2 pieces, both signs of the lock gain, slip, drift, walls, interruptions; 309 k | `EndsNear`, `DriveEnds`; `LockSettles` at the reef and `PieceSettles` on one piece, or what the registered gain does instead |
| `calculators` | 48 k calls: 1.7 k motions of the wheels, 360 directions on two reefs, texts of up to 5 characters, files of up to 3 points, ... | the calculators against what they are for, see above |

*Bounds.* `MaxBacklog` bounds the queue in the guard of `Push`, so that liveness is
checked on the real transition relation. Two messages are enough for a message to
supersede, duplicate or compete with another; three in `mm_live` add a message between
them. A buffer of three samples fills, rolls and has two shifts to choose from. One
duty cycle, one position and two speeds give scaled, unscaled, driving and
regenerating commands. Motors are symmetric where their circuits are equal.

`MaxLogged` = 3 makes a bundle of several messages, a message left behind by the limit and
one more behind that; two clients are what the shifted index of the erasing loop needs to
skip one, and ages of one unit put every comparison on both of its sides. `MaxTeleops` = 2
is the first number at which triggers are registered twice. `MaxRestarts` and
`MaxControllers` = 1: nothing relates two controllers, and five attempts of each call are
kept as they are. In `swerve_steering` the directions are a quarter, less and more than
a quarter turn away from each other, the tie at a quarter turn included; `MaxWind` = 270
guards new targets only, so that a turn that began can end. `RezeroLoops` = 2 stands for
50: two forced writes are the least that the property needs, and the proof is for every
number from 2. In `heading` the targets and the bearings lie beyond a whole turn on both
sides, because that is where the difference of remainders leaves its range.

`mechanism` has duty cycles -2 to 2, so that one is reduced and one is not, targets
inside, at the end of and far outside the range, and frames up to two passes old, which
is a whole cycle. `operator` has, of each else-if chain, a button alone and a pair that
competes, both kinds of edge and all modes at any pass. The field of `drive` is 16 units
long: a robot needs eight to stop from its full speed, so that it can start too late, in
time and backwards; `Drifts` and `Noise` are one unit, as much as the tolerance of the
end tests; the two pieces are farther apart than `MaxGPDiff`, and `UseDiffThresh` leaves
room for both on either side of it; the lock gain is registered (+) or turned (-). `calculators` covers every degree for the sides of the reef, all texts of up to
five characters of seven kinds (four fill three bytes, five leave bits over), all lists
of up to three lines of points, and up to three requests to a simulated motor.

*Fairness.* `TickFairness`: the body of `Tick` is straight-line code of one thread, so
a Tick that began goes on. `MatchFairness`, only for `RequestsArrive`: the robot is
enabled again and again and no device is unreachable for ever; both are about the field,
not the code, and without them a request obviously need not arrive. `ThreadFairness`:
each thread of the logging loops for ever and every wait has an end; datagrams of any
kind keep arriving, since `recvfrom` is what paces the receiver. `ListenerFairness`, for
`EverythingSent`: a registration outlasts the sender's 50 ms, and some client keeps
coming back; without clients nothing leaves, by design. That every message is then handed
to a client, and not lost to a prune, is promised only of behaviours in which no client is
ever silent for longer than `KeepAlive`. `RobotLoop` and `OperatorPath`: weak
fairness of the one thread. `SwerveSteering` and `Heading`: weak fairness of the phases of
a pass, and strong fairness of `Turn` between two passes, because a motor that is
commanded turns and most of a period lies there. `Mechanism`: weak fairness of reading,
writing, the motor's motion and the status frames, all of which are periodic. `Drive`:
weak fairness of the next pass. Nobody's buttons, modes, clients or interruptions are
fair unless named here.

## Proofs

`MotorMonkeyProofs` holds, for every set of motors, every command value and voltage, any
backlog and any preference values allowed by `MotorAssumption` and `BufferAssumption`
(minimum limit <= default <= maximum, all positive; no more shifts than samples; the
brownout window shorter than the initial loop count):

* `TypeCorrect`, `LimitStaysInRange`. The invariant is `TypeInv`: types, *scaling only
  shrinks* (`scale_factor` is at most one; without it a written duty cycle could leave
  the interval between request and speed) and the limit's range. The range needs that
  the trough of any buffer is a pair of integers, which needs that non-empty finite sets
  of integers have a minimum (`FiniteMin`) and that a shift never runs past a vector
  (`SyncDiffInRange`).
* `NewestCommandIsKept`. `LatestCommandWins` is inductive with `TypeInv`: the two
  conjuncts describe a slot with and without queued messages, and `Write` moves a slot
  from the first to the second exactly when it consumes its last message.
* `BrownoutHoldsMinimum`, `BrownoutNeverForgotten`. The strengthening `BrownInv` adds
  that the loop count is 0 or its initial value and that the buffer is full once it is
  0; else `RecalculateMaxDraw` could return before it pins the limit.
* `RefinesMailbox`: `Push` is the abstract `Request`, `FinishTick` the abstract
  `Deliver` (by `LatestCommandWins` on an empty queue), every other step a stutter.
* `BudgetHolds`. A sum over the queue is spoken of by the function of its partial sums
  (`PartialSums`), which one more message extends by one value. `BudgetInv` says what is
  predicted while predicting (the total is the sum of what is gone) and what is affordable
  while writing: what is written, and what the rest costs once scaled, fit the limit. The
  step in between is that rounding each duty cycle toward its speed costs no more than
  its share.

`LogPipelineProofs`, for any clients, messages, limits and periods. The invariant is the
types and `EmptiedByPrune`: from the check to the end of the send an empty list of clients
was emptied by pruning; without it `LostOnlyToPrune`, which speaks of the send only, is
not preserved by the pop:

* `TypeCorrect`, `PopIsSafe`, `LossNeedsPrune`.
* `RefinesFifo`: `AddMessage` is the abstract `Put`, `SenderSend` the abstract `Emit`,
  every other step a stutter. What is in flight is the log's queue, the bundle under way,
  the bundles waiting and the one being sent, one after the other; `Bundle`, `HandOver`
  and `SenderPop` move messages from one to the next without changing the whole. The
  contents of the bundles are joined by a recursive function, whose existence and
  equations come from the fact that a set of natural numbers has a least one
  (`LeastNat`, `Induction`, `RecursionExists`).

`RobotLoopProofs`, for any number of entries into teleop:

* `MotionEndsWithItsCommand`. The invariant `DriveInv` adds that two scheduled commands
  never require the drivetrain at once, that only known commands are scheduled, and that
  the command whose target is in force is at a stage where its `End` stops the robot: else
  an interrupted group could leave its target behind.
* `NoAutoOutsideItsPeriod`. `AutoInv` adds that as long as the auto is scheduled the
  last mode seen is autonomous and `auto_command_` still points to it: the cancellation at
  the next mode change needs both.
* `TargetsFollowInTeleop`, `TypeCorrect`. `LoopInv` adds to both of the above what a pass
  of teleop leaves behind: a default command for every mechanism, somebody for the
  drivetrain (`Commanded`), an alignment that waits only in the pass that scheduled it
  (`FreshOnly`), and a drivetrain whose target is new or will be renewed by the next
  execution or end of its command (`Renewed`). It is the last that says why the age is one
  pass and not two: a command may only go by driving once more or by stopping.

`ControllerProofs`, about `ControllerConfig`, for any controllers, settings, construction
order and number of restarts. `ConfigInv` is `TypeInv` (`TypeOK` and where each call came
from), *the Spark's object holds what was asked*, *the gains registry is what was asked
last*, *what was sent was asked*, and `AskedIsInForceOrLogged` itself:

* `TypesHold`, `AskedInForceOrLogged`, `OneTransferRepairs`.

and about `SwerveSteering`, for all integer directions, encoder values, rates and numbers of
forced writes from 2:

* `ShortWay`. `SteeringInv` adds that the first two writes after zeroing are forced and
  that, from the second on, a reading is at most one move old.
* `InversionAgrees`. That the cosine is negative exactly when the setpoint was found by an
  odd number of half turns (`CosineInverts`), for all angles.

`DrivetrainProofs`, about `Drive`, for all fields, speeds, grips, thresholds and noise
allowed by `DriveAssumption`:

* `DriveTypes`, `DrivesEndNear`. `OnTheWay` adds that the robot of an auto that is past its
  point has come past it in the last pass; `StoppingBound` turns the comparison with the
  stopping distance, which is divided and rounded, into one of products. `EndsNear` states
  the distance exactly, as these two give it.

and about `Heading`, for all bearings, targets and rates of turning:

* `DemandShown`. `DemandInv` adds by how much the bearing may be off at each phase.
* `CoterminalError`. What `CoterminalDifference` does promise: coterminal with the
  difference, and less than a whole turn. It is not the smallest one.

These two modules prove about two components each, which are specifications of their own:
no step of one is a step of the other.

`MechanismProofs`, for all limits in order, gains, targets and frame ages:

* `TypeCorrect`, `HomingIsTrue`. The invariant adds `Forward`: a linear mechanism that is
  not homed only moves toward its switch, so a switch state that is old was seen where
  the mechanism still is or has already passed.
* `LimitsBrake`: the order of soft limit and current limit never drives a wrist that is
  past its end outward faster than it moves already (`BrakesAtLimit`).
* `ReachIsKept`. `InReach` is about speed and place together: wherever the climber is, it
  can still be stopped within `Overshoot` of either end (`Stoppable`), because toward an
  end that it has reached it only loses speed, whatever frame the duty cycle came from.
  `OvershootAssumption` is the way it takes to stop from full speed by one unit of speed
  a pass; a smaller `Overshoot` would be exceeded.

`OperatorPathProofs`, for all sets of buttons, switches and initialised children. The
invariant is `Edges` (what the previous inputs and the counters say of the held buttons),
`Scheduling` (which passes the commands ran in) and `Agreement` (what was told against
the readings it came from, phase by phase):

* `EachSideActs`, `OneStagePerHold`, `PositionIsMomentary`.

`CalculatorProofs`, for every input and not only those the run tries, every wheelbase,
step of rotation and limit:

* `MirrorsAgreeEverywhere`, `ChosenWheelLiesBehind`, `WheelsObey`, `OdometryFollows` each
  assume that the last call was made with some input and answered with what the
  calculator computes, and conclude the property of the run. A mirror and its inverse are
  followed through the components of a point. That a nearest wheel exists is that the
  order by which wheels are compared is total and transitive, and that it is behind, that
  one of the four always is within a quarter turn the short way (`OneIsNear`). That
  rotation is cut as far as it must and no further needs a greatest element of the set of
  what may be left, and that a rotation past a fitting one with the same sense is faster
  (`FasterIsTooFast`). The odometry's sum of four turned ways is four times the
  translation, because what the rotation adds cancels (`RotationCancels`) and the circle
  of a bearing gives the factor; `odom_ff_` multiplies the result, whatever it is.
* `CalculatorsAgree` concludes these four for the specification: `Faithful` says that the
  last call is one of the above, and answered so; it is the invariant of all that follows.
* `ReefSideIsNearest`, from `NoSideIsNearer`: the chosen side is within 30 degrees of the
  direction, and two sides are 60 apart. Both leave out what `NearestSide` leaves out, a
  blue robot in the last 30 degrees before 0, where the chosen side is the furthest.
* `TextSurvives`, from `TextIsRead` for a text of any length. Packing is followed sextet by
  sextet (`PackedSoFar`: which bits have left as bytes and which are in the buffer), so that
  every bit of the text is a bit of the output at the same place (`BitOfText`), and the
  groups of six read there are the sextets again (`NumbersAre`); what fills up the last
  byte is at most one sextet, and 0. Then the client's loop is followed character by
  character (`CodesAreRead`).
* `ScriptIsAlwaysRun`, from `FirstNameIsMeant` for any file: the points read so far answer
  for a name with what its first line says (`PointsAre`), also when that line is written
  with other names, and a last line read twice names nothing anew (`ReadTwice`). It
  assumes that the token of the number 0, which the code supplies for a velocity that is
  not written, is `"0"`, as it is in the files of the run.
* `SightingsShowPlaces`, from `TagShowsPosition` (each tag, by any camera),
  `MeanIsWhereAllAre` (the mean over any number of tags, with any weights) and
  `PieceShowsPlace`, for any limit of freshness. It assumes `CamerasInFives`: offsets of
  the cameras are whole fives, because the views' lengths then come out whole; the run's
  are. Which frames count, and that the later call remembers the correction, is
  `FirstReading` and `LaterReading`.
* `InversionIsUnseen` (inverted and plain simulated motors are mirror images at the start
  and after any request or pass) and from it `InversionStaysUnseen`, the half of
  `SimulationObeys` about inversion, for any list of requests.
* `ButtonsMoveAlongAxes`, the half of `TeleopAsDriven` about `rc_control`.

What is folded over a list or a set is reasoned about by a function of its own: the
library defines a fold by a recursive function on the subsets of the domain, and that such
a function exists is proved by induction on the size of the subset (`ListRecursionExists`,
from the well-foundedness of `<`). Over the beginnings of a list it gives a sequence of
intermediate results (`ResultsAlong`), one instance per folded operator (`PackedSoFar`,
`ReadSoFar`, `PointsSoFar`, `ServedSoFar`, ...), and a property of the result is a property
of each of them, by `InductionUpTo`. For sums over a set,
which take one fixed element off at a time, the induction is `SubsetInduction`.

*Only proved.* `LimitInRange`, `BrownoutIsPermanent`, `BrakesAtLimit`,
`HoldAdvancesOnce` and `PositionLastsOneReading`, like the type invariants, are in no
configuration: the theorem says more. `INVARIANT TypeOK` can be added to any
configuration of a module with state.

*Only model-checked.* Everything under fairness (`RequestsArrive`, `EverythingSent`,
`DriverRegainsControl`, `WheelAligns`, `HeadingSettles`, `HomingEnds`, `RestFindsTruth`,
`ScoringEnds`, `DriveEnds`, `LockSettles`, `PieceSettles`), which is out of the prover's
reach. Of the calculators, the halves about how far something gets in the passes that the
runs allow: that a held stick comes to what it asks for (`TeleopAsDriven`), and that a
simulated motor settles within twelve passes (`SimulationObeys`). Both are about the
numbers of the run: with other steps and inertias they take longer.

## Observed while modelling

*Motors.* With a flat battery and no predicted draw `RecalculateMaxDraw` divides 0 by 0:
both range tests are false for NaN, and so is every later `total_current > max_draw`, so
scaling is off until the buffer holds a different trough (`LimitInRange` says "in range,
or NaN"). The limit holds for the commands of one Tick: every controller resends its last
command on every Tick, and those are not counted (`MotorMonkey.cc:170`), while a backlog
counts superseded commands too. A brownout pins the limit for the rest of the match,
since nothing increments `num_loops_last_brown`. `LOG_IF_ERROR` after `SMART_RETRY` reads
an error that reading has already cleared. A first request for zero gains is never sent.
A Talon takes a normally-off switch for normally closed and never stops at it; its
position frame falls through to the velocity frame; nobody looks at the result of its
neutral mode, or of a Spark's reset.

*Log.* The rate limit of the log is used per 500 ms, not per second. `used_preferences_`
of `Loggable` holds views of strings that are gone (`Loggable.cc:39`), so pruning may
remove preferences that are in use.

*Loop.* The event loop that is cleared on disabling is a new one (`GenericRobot.cc:127`):
triggers and default commands of teleop remain, and every further teleop adds another
set. `DriveCommand` ends without a zero target. `LockToReefCommand`'s target is a lambda
that captures `this` of a temporary; `ReefAutoAlignCommand` passes `true` for both sides,
so that the right alignment locks on the left (`reef_auto_align.cc:15`).

*Mechanisms and operator.* The setpoints `pre_climb` (270) and `climb` (100) both lie
beyond the climber's soft limits (0 to 90). A wrist that has just started moves is zeroed
by its old sensor. The coral side is positioned by `position_algal`, and positioning
lasts one reading, because the toggle inverts a value that is fresh each time;
`position_coral` is computed and read by nobody. `ActsOnReading` holds of the code as it is
and would hold with the coral side on its own toggle. The
driver's Y edge drops the operator's choice. The climb stage counts while disabled. The
operator's controller rumbles on the driver's flag. `isHomed` of the superstructures is
never set, so the LEDs never leave their first state.

*Odometry.* Wheels that do exactly what the open-loop calculator told them are found to have
moved by `odom_fudge_factor` of it.

*Driving.* `CoterminalDifference` subtracts two signed remainders, up to 720 degrees
apart, and corrects by one turn: alignment may turn the long way. `accl.rotate` in
`drivetrain.cc` discards its result. The adjustment of `LockToReefCommand` is never reset
between two locks. `lock_gains/_kP` is registered (`drivetrain.cc:31`) and deployed
(`networktables.json:149`) as +0.5; the speed is given half a turn from the target
(`lock_to_point_command.cc:69`), so that a lock drives the robot away from its target
until a wall stops it: the exceptions for `lock_gain > 0` in `LockSettles` and
`PieceSettles` are what the code does as shipped, and without them both are violated.
Drives to the reef use the estimate, locks the odometry. `CameFarEnough` counts motion in
any direction. `getBestGP` may return the origin as a valid piece. A jump of `SetPosition` enters the estimate as a velocity. The
first reading sets the pose estimate to the position of a tag that may not be there.

*Driver.* On the blue side `rc_control` moves the robot against the button pressed
(`drive_command.cc:95`), and the anti-tipping limit compares the driver's frame with the
field's, so that a held stick need not be obeyed: `TeleopAsDriven` is about red for
sticks, and says the opposite for blue buttons. The nearest wheel is found by an angle
difference that is not normalised, and the centre of gravity is not turned with the
robot; in some directions about a fifth of the acceleration is permitted. The
elevator's centre of gravity drops when it passes its least height.

*Field.* A blue robot in the last 30 degrees is sent to the far side of its reef
(`reef.cc:65` returns 0, where the mirrored side is 3): `NearestSide` leaves those out. A
newline at the end of a file makes the last line count twice (`field.cc:46`), as
`ScriptRunsAsWritten` says. The offset of the piece camera is turned by the bearing of
now, not of the capture, so `SightingsAgree` is about pieces seen by a robot that does
not turn. A last byte that is filled in part may decode as an extra newline.

*Simulation.* `WritePosition` of an inverted motor turns the motor's position instead of
the setpoint, never counts as a duplicate, and so turns it again every loop: the part of
`SimulationObeys` about inversion leaves position requests out. Requests are used as the
error itself, without a reading; the friction torque is computed and not applied; the
flags of the status frames are never read; the first tick after a disabled period covers
all of it.

## Plan

Done: the motors with their abstract mailbox; the logging pipeline refining a queue; the
loop, its modes and commands; configuration; steering and bearing; mechanisms; the
operator's path; driving; the calculators and the simulator. Proved: as above.

Next, most important first:

1. `TeleopAsDriven` for a held stick, in the directions in which the permitted rate does
   not vanish: a bound from below on `LimitAcceleration`, then `Limit` by one pass.
2. The mean of `TagPosition`: equal terms have their own value as mean, by partial sums as
   in `BudgetHolds`.
3. `LogTextSurvives` for one group of three bytes and four characters.

## Not modelled

Vendor and WPILib code (`rev`, `ctre`, `frc2`) appears only as what it may return.
Preferences are constants: a registry whose pruning depends on strings that are gone may
give any of them any value, and no property holds of that. The pose estimator is a
Kalman filter over real matrices with exponentials of variances, out of TLC's reach; what
it may return is an estimate within `Noise`. The LEDs are a constant. Dashboards, graphs,
log wording, sockets and directories are inputs or outputs without state of their own.
Points of the autos, ports and masses are data; the masses that enter a limit are in
`TeleopDrive`. `GenericAuto` is commented out, `ActionMaker` returns null, and
`OverrideStatusFramePeriod`, `WriteVelocity`, `WriteTorque`, `predict_torque` and
`getAllAutoData` (which is modelled) have no caller.
