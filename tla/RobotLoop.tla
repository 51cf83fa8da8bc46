------------------------------ MODULE RobotLoop ------------------------------
(***************************************************************************)
(* GenericRobot::StartCompetition: one pass samples the mode, reacts to a  *)
(* change of mode, updates the readings of half the subsystems, lets the   *)
(* command scheduler poll the triggers, execute the scheduled commands and *)
(* schedule default commands, and writes the targets of half the           *)
(* subsystems.  A phase of a pass is a step; what the driver holds when    *)
(* the controllers are read, and the mode, are free.                       *)
(*                                                                         *)
(* A command is <<name, n>>: n is the InitTeleop that registered its       *)
(* trigger, 0 for autos and default commands.  The drivetrain's target is  *)
(* the name of the command that computed it, or "zero".  What a write and  *)
(* the Tick after it lead to is module MotorMonkey's.                      *)
(***************************************************************************)
EXTENDS Integers, Sequences, FiniteSets

CONSTANT MaxTeleops  (* bound of the model on entries into teleop          *)

ASSUME LoopAssumption == MaxTeleops \in Nat \ {0}

Modes == {"disabled", "auto", "teleop", "test"}
GroupA == {"control_input", "leds", "drivetrain", "GPD", "coral_ss"}
GroupB == {"drivetrain", "GPD", "algal_ss", "climber"}
Due(counter) == IF counter = 0 THEN GroupA ELSE GroupB

Default == [drivetrain |-> <<"drive", 0>>, coral_ss |-> <<"coral", 0>>,
            algal_ss |-> <<"algal", 0>>, climber |-> <<"climb", 0>>]
Driven   == DOMAIN Default
Defaults == {Default[s] : s \in Driven}
AutoCommand == <<"auto", 0>>

(* InitTeleopTriggers, in the order of registration.  The first runs       *)
(* ZeroBearing once and requires no subsystem.                             *)
Triggers == <<"zero_bearing", "lock_left", "lock_right", "lock_gpd">>
Buttons  == {"back", "left_bumper", "right_bumper", "left_trigger"}
(* Command groups; the reef alignment is ReefAutoAlignCommand.             *)
Aligning == {"lock_left", "lock_right"}
Groups   == {"auto"} \cup Aligning
Assists  == Groups \cup {"lock_gpd"}

VARIABLES
  phase,         (* what the pass does next                                *)
  mode, last_mode,
  read_counter, write_counter,  (* % 2                                     *)
  reading,       (* control_input's readings: the buttons held             *)
  sees_piece,    (* GPD's readings hold a game piece                       *)
  auto_command,  (* auto_command_ is not null                              *)
  defaults,      (* subsystems that have a default command                 *)
  bindings,      (* per InitTeleop: the triggers that held when last polled*)
  polled,        (* triggers polled in this pass                           *)
  running,       (* scheduled commands                                     *)
  stage,         (* what the scheduled command group is at                 *)
  drive_target,  (* target_ of the drivetrain                              *)
  age,           (* per driven subsystem, passes since its target was set  *)
  teleop_passes  (* history: whole passes of teleop before this one, to 2  *)

counters == <<read_counter, write_counter>>
inputs   == <<reading, sees_piece>>
setup    == <<auto_command, defaults, bindings>>
commands == <<running, stage, drive_target, age>>
vars == <<phase, mode, last_mode, counters, inputs, setup, polled, commands,
          teleop_passes>>

(* Setup, ZeroTargets, OnInitialize.                                       *)
Init ==
  /\ phase = "sample" /\ mode = "none" /\ last_mode = "none"
  /\ read_counter = 0 /\ write_counter = 0
  /\ reading = {} /\ sees_piece = FALSE
  /\ auto_command = FALSE /\ defaults = {} /\ bindings = <<>> /\ polled = 0
  /\ running = {} /\ stage = "wait"
  /\ drive_target = "zero" /\ age = [s \in Driven |-> 2]
  /\ teleop_passes = 0
-----------------------------------------------------------------------------
Requires(c) ==
  IF c \in Defaults THEN {s \in Driven : Default[s] = c}
  ELSE IF c[1] = "zero_bearing" THEN {} ELSE {"drivetrain"}

(* Slip: the lock command's End leaves the drivetrain its target.          *)
GroupsStop(c) == c[1] \in Groups /\ stage # "wait"

(* Commands whose End sets the drivetrain's zero target.  A group ends the *)
(* command it is at: in "wait" that is an instant command or a wait.       *)
StopsAtEnd(c) == c[1] = "lock_gpd" \/ (c[1] \in Groups /\ stage # "wait")

(* End of every command in the set.                                        *)
EndAll(ended) ==
  IF \E c \in ended : StopsAtEnd(c)
  THEN drive_target' = "zero" /\ age' = [age EXCEPT !["drivetrain"] = 0]
  ELSE UNCHANGED <<drive_target, age>>

Cancel(cancelled) ==
  /\ running' = running \ cancelled
  /\ EndAll(running \cap cancelled)
  /\ UNCHANGED stage

(* CommandScheduler::Schedule: refused while disabled; interrupts whatever *)
(* requires the same subsystem.                                            *)
Schedule(c) ==
  IF mode = "disabled" \/ c \in running THEN UNCHANGED commands
  ELSE LET interrupted == {r \in running : Requires(r) \cap Requires(c) # {}}
       IN  /\ running' = (running \ interrupted) \cup {c}
           /\ EndAll(interrupted)
           /\ stage' = IF c[1] \in Groups THEN "wait" ELSE stage

Holds(trigger) ==
  CASE trigger = "zero_bearing" -> "back" \in reading
    [] trigger = "lock_left"    -> "left_bumper" \in reading
    [] trigger = "lock_right"   -> "right_bumper" \in reading
    [] trigger = "lock_gpd"     -> "left_trigger" \in reading /\ sees_piece
-----------------------------------------------------------------------------
(* The mode is whatever the driver station says.                           *)
Sample(m) ==
  /\ phase = "sample"
  /\ m = "teleop" /\ last_mode # "teleop" => Len(bindings) < MaxTeleops
  /\ phase' = "mode"
  /\ mode' = m
  /\ age' = [s \in Driven |-> IF age[s] = 2 THEN 2 ELSE age[s] + 1]
  /\ teleop_passes' = IF m # "teleop" \/ last_mode # "teleop" THEN 0
                      ELSE IF teleop_passes = 2 THEN 2 ELSE teleop_passes + 1
  /\ UNCHANGED <<last_mode, counters, inputs, setup, polled, running, stage,
                 drive_target>>

SameMode ==
  /\ phase = "mode"
  /\ mode = last_mode
  /\ phase' = "read"
  /\ UNCHANGED <<mode, last_mode, counters, inputs, setup, polled, commands,
                 teleop_passes>>

AfterModeChange ==
  /\ phase = "mode"
  /\ mode # last_mode
  /\ phase' = "read"
  /\ last_mode' = mode
  /\ UNCHANGED <<mode, counters, inputs, polled, teleop_passes>>

(* CancelAll.  The EventLoop that is cleared is a new one, not the         *)
(* scheduler's: triggers and default commands stay.                        *)
ToDisabled ==
  /\ AfterModeChange
  /\ mode = "disabled"
  /\ Cancel(running)
  /\ UNCHANGED setup

(* The chooser's option may be unknown: then auto_command_ is null.        *)
ToAuto(known) ==
  /\ AfterModeChange
  /\ mode = "auto"
  /\ auto_command' = known
  /\ IF known THEN Schedule(AutoCommand) ELSE UNCHANGED commands
  /\ UNCHANGED <<defaults, bindings>>

(* Slip: auto_command_ is nulled before it is cancelled.                   *)
NothingToCancel == {}
AutoToCancel == IF auto_command THEN {AutoCommand} ELSE {}

(* Slip: the climber is given no default command.                          *)
InitTeleopNoClimb ==
  /\ defaults' = Driven \ {"climber"}
  /\ bindings' = Append(bindings, {Triggers[i] : i \in {j \in 1 .. 4 : Holds(Triggers[j])}})

InitTeleop ==
  /\ defaults' = Driven
  /\ bindings' = Append(bindings, {Triggers[i] : i \in {j \in 1 .. 4 : Holds(Triggers[j])}})

(* A default command that is replaced while scheduled is destroyed, which  *)
(* unschedules it; to end it does nothing.                                 *)
ToTeleop ==
  /\ AfterModeChange
  /\ mode = "teleop"
  /\ auto_command' = FALSE
  /\ Cancel(AutoToCancel \cup Defaults)
  /\ InitTeleop

(* InitTest is empty: what else is scheduled goes on.                      *)
ToTest ==
  /\ AfterModeChange
  /\ mode = "test"
  /\ auto_command' = FALSE
  /\ Cancel(AutoToCancel)
  /\ UNCHANGED <<defaults, bindings>>
-----------------------------------------------------------------------------
(* UpdateReadings: this pass's group; GPD is in both.                      *)
Read(held, piece) ==
  /\ phase = "read"
  /\ phase' = "poll"
  /\ read_counter' = 1 - read_counter
  /\ sees_piece' = piece
  /\ IF "control_input" \in Due(read_counter)
     THEN reading' = held
     ELSE held = {} /\ UNCHANGED reading
  /\ polled' = 0
  /\ UNCHANGED <<mode, last_mode, write_counter, setup, commands, teleop_passes>>

(* One trigger: a rising edge schedules its command, a falling edge        *)
(* cancels it unless it was registered with OnTrue.                        *)
Poll ==
  LET n       == (polled \div 4) + 1
      trigger == Triggers[(polled % 4) + 1]
      before  == trigger \in bindings[n]
      now     == Holds(trigger)
  IN  /\ phase = "poll"
      /\ polled < 4 * Len(bindings)
      /\ polled' = polled + 1
      /\ bindings' = [bindings EXCEPT ![n] =
                        IF now THEN @ \cup {trigger} ELSE @ \ {trigger}]
      /\ IF now /\ ~before THEN Schedule(<<trigger, n>>)
         ELSE IF before /\ ~now /\ trigger # "lock_gpd" THEN Cancel({<<trigger, n>>})
         ELSE UNCHANGED commands
      /\ UNCHANGED <<phase, mode, last_mode, counters, inputs, auto_command,
                     defaults, teleop_passes>>

PollingDone ==
  /\ phase = "poll"
  /\ polled = 4 * Len(bindings)
  /\ phase' = "execute"
  /\ UNCHANGED <<mode, last_mode, counters, inputs, setup, polled, commands, teleop_passes>>
-----------------------------------------------------------------------------
(* Slip: the lock on a game piece has no Until.                            *)
NeverReleased(c) == FALSE
(* Until: the lock on a game piece ends once its button is released.       *)
Released(c) == c[1] = "lock_gpd" /\ "left_trigger" \notin reading

Waiting(c) == c[1] \in Groups /\ stage = "wait"
DriveCommands == {c \in running : "drivetrain" \in Requires(c)}

(* Every scheduled command executes once.  Each mechanism's default        *)
(* command sets its target, an instant command is finished; the rest is    *)
(* about the drivetrain's command, of which there is one at most.          *)
Executed(set, finished) ==
  /\ phase = "execute"
  /\ phase' = "defaults"
  /\ running' = {c \in running \ finished : c[1] # "zero_bearing"}
  /\ age' = [s \in Driven |->
               IF s \in set \/ (s # "drivetrain" /\ Default[s] \in running)
               THEN 0 ELSE age[s]]
  /\ UNCHANGED <<mode, last_mode, counters, inputs, setup, polled, teleop_passes>>

NobodyDrives ==
  /\ DriveCommands = {}
  /\ Executed({}, {})
  /\ UNCHANGED <<drive_target, stage>>

(* DriveCommand, LockToPoint, DriveToPoint under way.                      *)
Drive(c) ==
  /\ ~Waiting(c) /\ ~Released(c)
  /\ drive_target' = c[1]
  /\ Executed({"drivetrain"}, {})
  /\ UNCHANGED stage

(* DriveToPoint arrives: its End stops the robot, and the group goes on to *)
(* its lock, or the auto to a wait or the next drive.                      *)
Arrive(c) ==
  /\ c[1] \in Groups /\ stage = "drive"
  /\ drive_target' = "zero"
  /\ stage' \in IF c = AutoCommand THEN {"wait", "drive"} ELSE {"lock"}
  /\ Executed({"drivetrain"}, {})

(* An instant command every group starts with, or a wait: no target is     *)
(* set.  An auto may wait longer, or be at its end.                        *)
Wait(c) ==
  /\ Waiting(c)
  /\ \/ /\ stage' \in IF c = AutoCommand THEN {"wait", "drive"} ELSE {"drive"}
        /\ Executed({}, {})
     \/ /\ c = AutoCommand
        /\ Executed({}, {c})
        /\ UNCHANGED stage
  /\ UNCHANGED drive_target

Release(c) ==
  /\ Released(c)
  /\ drive_target' = "zero"
  /\ Executed({"drivetrain"}, {c})
  /\ UNCHANGED stage

(* The default commands of the subsystems nobody requires are scheduled.   *)
ScheduleDefaults ==
  /\ phase = "defaults"
  /\ phase' = "write"
  /\ running' = IF mode = "disabled" THEN running
                ELSE running \cup {Default[s] : s \in {t \in defaults :
                                     \A c \in running : t \notin Requires(c)}}
  /\ UNCHANGED <<mode, last_mode, counters, inputs, setup, polled, stage,
                 drive_target, age, teleop_passes>>

(* UpdateHardware: this pass's group.                                      *)
Write ==
  /\ phase = "write"
  /\ phase' = "sample"
  /\ write_counter' = 1 - write_counter
  /\ UNCHANGED <<mode, last_mode, read_counter, inputs, setup, polled, commands,
                 teleop_passes>>

Next ==
  \/ \E m \in Modes : Sample(m)
  \/ SameMode
  \/ ToDisabled
  \/ \E known \in BOOLEAN : ToAuto(known)
  \/ ToTeleop
  \/ ToTest
  \/ \E held \in SUBSET Buttons, piece \in BOOLEAN : Read(held, piece)
  \/ Poll
  \/ PollingDone
  \/ NobodyDrives
  \/ \E c \in DriveCommands : Drive(c) \/ Arrive(c) \/ Wait(c) \/ Release(c)
  \/ ScheduleDefaults
  \/ Write

Spec == Init /\ [][Next]_vars
(* The loop is one thread that never blocks for good.                      *)
LiveSpec == Spec /\ WF_vars(Next)
-----------------------------------------------------------------------------
(* Every variable holds a value of its kind, and no two scheduled commands *)
(* require the same subsystem.                                             *)
AllCommands == Defaults \cup {AutoCommand} \cup ({Triggers[i] : i \in 1 .. 4} \X (1 .. MaxTeleops))
TypeOK ==
  /\ phase \in {"sample", "mode", "read", "poll", "execute", "defaults", "write"}
  /\ {mode, last_mode} \subseteq Modes \cup {"none"}
  /\ read_counter \in {0, 1} /\ write_counter \in {0, 1}
  /\ reading \subseteq Buttons /\ sees_piece \in BOOLEAN
  /\ auto_command \in BOOLEAN /\ defaults \subseteq Driven
  /\ polled \in 0 .. 4 * Len(bindings) /\ Len(bindings) <= MaxTeleops
  /\ running \subseteq AllCommands
  /\ \A c, d \in running : Requires(c) \cap Requires(d) # {} => c = d
  /\ stage \in {"wait", "drive", "lock"}
  /\ drive_target \in {"zero", "drive"} \cup Assists
  /\ age \in [Driven -> 0 .. 2]

(* The robot never goes on moving for an alignment or an auto that is no   *)
(* longer scheduled: whichever way it ended, by its button, by another     *)
(* command, by itself or by a change of mode, its target went with it.     *)
AssistEndsWithCommand ==
  drive_target \in Assists => \E c \in running : c[1] = drive_target

(* An auto runs in the autonomous period only, although auto_command_ is   *)
(* kept while disabled and the modes may follow each other in any order.   *)
AutoOnlyInAutonomous == (AutoCommand \in running /\ phase # "mode") => mode = "auto"

(* Once teleop has settled no subsystem is left without a command: every   *)
(* target was set in this pass or the one before, whatever interrupts what.*)
TargetsFollow ==
  (phase = "sample" /\ teleop_passes = 2) => \A s \in Driven : age[s] <= 1

(* When the driver lets go in teleop, the drive command drives again.      *)
DriverRegainsControl ==
  <>[](mode = "teleop" /\ reading = {}) => <>[](drive_target = "drive")
=============================================================================
