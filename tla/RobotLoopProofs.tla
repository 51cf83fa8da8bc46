--------------------------- MODULE RobotLoopProofs ---------------------------
(***************************************************************************)
(* Theorems about RobotLoop, for any number of entries into teleop.        *)
(***************************************************************************)
EXTENDS RobotLoop, TLAPS

(* The strengthening of AssistEndsWithCommand: commands have the names the *)
(* model gives them, one command of the drivetrain is scheduled at a time, *)
(* and the one the target came from will stop the robot when it ends.      *)
TriggerNames == {"zero_bearing", "lock_left", "lock_right", "lock_gpd"}
Possible  == Defaults \cup {AutoCommand} \cup (TriggerNames \X Nat)
Scheduled == running \subseteq Possible
OneDrives == \A c, d \in running :
               "drivetrain" \in Requires(c) /\ "drivetrain" \in Requires(d) => c = d
Stoppable == drive_target \in Assists =>
               \E c \in running : c[1] = drive_target /\ StopsAtEnd(c)
DriveInv  == Scheduled /\ OneDrives /\ Stoppable
SetupOK   == polled \in Nat /\ defaults \subseteq Driven

(* The default commands, spelled out.                                      *)
LEMMA DefaultFacts ==
  /\ Driven = {"drivetrain", "coral_ss", "algal_ss", "climber"}
  /\ Defaults = {<<"drive", 0>>, <<"coral", 0>>, <<"algal", 0>>, <<"climb", 0>>}
  /\ Default["drivetrain"] = <<"drive", 0>>
  /\ Default["coral_ss"] = <<"coral", 0>>
  /\ Default["algal_ss"] = <<"algal", 0>>
  /\ Default["climber"] = <<"climb", 0>>
BY DEF Driven, Defaults, Default

(* Who requires the drivetrain is known from the command's name.           *)
LEMMA WhoDrives ==
  ASSUME NEW c \in Possible
  PROVE  /\ "drivetrain" \in Requires(c) <=> c[1] \in {"drive"} \cup Assists
         /\ c[1] \in Assists <=> (c = AutoCommand \/ c \in (TriggerNames \ {"zero_bearing"}) \X Nat)
         /\ c[1] \in Assists => Requires(c) = {"drivetrain"}
<1>1. CASE c \in Defaults
  <2>1. c # AutoCommand /\ c \notin TriggerNames \X Nat
    BY <1>1, DefaultFacts DEF AutoCommand, TriggerNames
  <2>2. c[1] \notin Assists
    BY <1>1, DefaultFacts DEF Assists, Groups, Aligning
  <2>3. Requires(c) = {s \in Driven : Default[s] = c}
    BY <1>1 DEF Requires
  <2>4. "drivetrain" \in Requires(c) <=> c = <<"drive", 0>>
    BY <2>3, DefaultFacts
  <2>5. c = <<"drive", 0>> <=> c[1] = "drive"
    BY <1>1, DefaultFacts
  <2>6. QED BY <2>1, <2>2, <2>4, <2>5
<1>2. CASE c = AutoCommand
  <2>1. c[1] = "auto" /\ c \notin Defaults
    BY <1>2, DefaultFacts DEF AutoCommand
  <2>2. Requires(c) = {"drivetrain"}
    BY <2>1 DEF Requires
  <2>3. QED BY <1>2, <2>1, <2>2 DEF Assists, Groups
<1>3. CASE c \in TriggerNames \X Nat
  <2>1. c[1] \in TriggerNames /\ c \notin Defaults /\ c # AutoCommand
    BY <1>3, DefaultFacts DEF AutoCommand, TriggerNames
  <2>2. c[1] \in Assists <=> c[1] # "zero_bearing"
    BY <2>1 DEF Assists, Groups, Aligning, TriggerNames
  <2>3. Requires(c) = IF c[1] = "zero_bearing" THEN {} ELSE {"drivetrain"}
    BY <2>1 DEF Requires
  <2>4. c[1] # "drive"
    BY <2>1 DEF TriggerNames
  <2>5. c \in (TriggerNames \ {"zero_bearing"}) \X Nat <=> c[1] # "zero_bearing"
    BY <1>3
  <2>6. QED BY <2>1, <2>2, <2>3, <2>4, <2>5
<1>4. QED BY <1>1, <1>2, <1>3 DEF Possible

(* To cancel commands keeps the invariant: if the target's command is      *)
(* among them its End zeroes the target.                                   *)
LEMMA CancelKeeps ==
  ASSUME DriveInv, NEW S, Cancel(S)
  PROVE  DriveInv'
<1>1. Scheduled' /\ OneDrives'
  BY DEF DriveInv, Scheduled, OneDrives, Cancel
<1>2. CASE \E c \in running \cap S : StopsAtEnd(c)
  BY <1>1, <1>2 DEF DriveInv, Cancel, EndAll, Stoppable, Assists, Groups, Aligning
<1>3. CASE ~ \E c \in running \cap S : StopsAtEnd(c)
  BY <1>1, <1>3 DEF DriveInv, Cancel, EndAll, Stoppable, StopsAtEnd
<1>4. QED BY <1>2, <1>3

(* To schedule a command keeps it: it interrupts the drivetrain's command  *)
(* if it requires the drivetrain itself.                                   *)
LEMMA ScheduleKeeps ==
  ASSUME DriveInv, NEW c \in Possible, c[1] \in Assists \cup {"zero_bearing"}, Schedule(c)
  PROVE  DriveInv'
<1>1. CASE mode = "disabled" \/ c \in running
  BY <1>1 DEF Schedule, commands, DriveInv, Scheduled, OneDrives, Stoppable, StopsAtEnd
<1>2. CASE ~(mode = "disabled" \/ c \in running)
  <2> DEFINE gone == {r \in running : Requires(r) \cap Requires(c) # {}}
  <2>1. running' = (running \ gone) \cup {c} /\ EndAll(gone)
    BY <1>2 DEF Schedule
  <2>2. Scheduled'
    BY <2>1 DEF DriveInv, Scheduled
  <2>3. CASE c[1] = "zero_bearing"
    <3>1. Requires(c) = {} /\ gone = {}
      BY <2>3, DefaultFacts DEF Requires
    <3>2. stage' = stage /\ drive_target' = drive_target
      BY <1>2, <2>1, <2>3, <3>1 DEF Schedule, EndAll, Groups, Aligning
    <3>3. OneDrives'
      BY <2>1, <3>1 DEF OneDrives, DriveInv
    <3>4. Stoppable'
      BY <2>1, <3>1, <3>2 DEF Stoppable, DriveInv, StopsAtEnd
    <3>5. QED BY <2>2, <3>3, <3>4 DEF DriveInv
  <2>4. CASE c[1] \in Assists
    <3>1. Requires(c) = {"drivetrain"}
      BY <2>4, WhoDrives
    <3>2. \A r \in running \ gone : "drivetrain" \notin Requires(r)
      BY <3>1
    <3>3. OneDrives'
      BY <2>1, <3>2 DEF OneDrives
    <3>4. Stoppable'
      <4>1. CASE \E r \in gone : StopsAtEnd(r)
        BY <4>1, <2>1 DEF EndAll, Stoppable, Assists, Groups, Aligning
      <4>2. CASE ~ \E r \in gone : StopsAtEnd(r)
        <5>1. drive_target \notin Assists
          <6>1. SUFFICES ASSUME drive_target \in Assists PROVE FALSE
            OBVIOUS
          <6>2. PICK r \in running : r[1] = drive_target /\ StopsAtEnd(r)
            BY <6>1 DEF DriveInv, Stoppable
          <6>3. "drivetrain" \in Requires(r)
            BY <6>1, <6>2, WhoDrives DEF DriveInv, Scheduled
          <6>4. QED BY <6>2, <6>3, <3>2, <4>2
        <5>2. drive_target' = drive_target
          BY <4>2, <2>1 DEF EndAll
        <5>3. QED BY <5>1, <5>2 DEF Stoppable
      <4>3. QED BY <4>1, <4>2
    <3>5. QED BY <2>2, <3>3, <3>4 DEF DriveInv
  <2>5. QED BY <2>3, <2>4
<1>3. QED BY <1>1, <1>2

LEMMA SameCommandsKeep ==
  ASSUME DriveInv, running' = running, stage' = stage, drive_target' = drive_target
  PROVE  DriveInv'
BY DEF DriveInv, Scheduled, OneDrives, Stoppable, StopsAtEnd

LEMMA SmallFacts ==
  /\ AutoCommand \in Possible /\ AutoCommand[1] \in Assists
  /\ Defaults \subseteq Possible
  /\ \A t \in TriggerNames, n \in Nat :
       <<t, n>> \in Possible /\ <<t, n>> # AutoCommand
         /\ <<t, n>>[1] \in Assists \cup {"zero_bearing"}
  /\ \A c \in Defaults : c[1] \notin Assists \cup {"zero_bearing"} /\ c # AutoCommand
<1>1. AutoCommand \in Possible /\ AutoCommand[1] \in Assists /\ Defaults \subseteq Possible
  BY DEF Possible, AutoCommand, Assists, Groups
<1>2. ASSUME NEW t \in TriggerNames, NEW n \in Nat
      PROVE  <<t, n>> \in Possible /\ <<t, n>> # AutoCommand
               /\ <<t, n>>[1] \in Assists \cup {"zero_bearing"}
  BY DEF Possible, AutoCommand, Assists, Groups, Aligning, TriggerNames
<1>3. ASSUME NEW c \in Defaults
      PROVE  c[1] \notin Assists \cup {"zero_bearing"} /\ c # AutoCommand
  BY DefaultFacts DEF AutoCommand, Assists, Groups, Aligning
<1>4. QED BY <1>1, <1>2, <1>3

(* The trigger a Poll looks at, and the InitTeleop that registered it.     *)
LEMMA PolledTrigger ==
  ASSUME SetupOK
  PROVE  Triggers[(polled % 4) + 1] \in TriggerNames /\ (polled \div 4) + 1 \in Nat
<1>1. (polled % 4) + 1 \in 1 .. 4 /\ (polled \div 4) + 1 \in Nat
  BY DEF SetupOK
<1>2. QED BY <1>1 DEF Triggers, TriggerNames

(* One pass of the executing scheduler: the command that executes is the   *)
(* drivetrain's only one.                                                  *)
LEMMA ExecuteKeeps ==
  ASSUME DriveInv,
         NobodyDrives \/ \E c \in DriveCommands :
                           Drive(c) \/ Arrive(c) \/ Wait(c) \/ Release(c)
  PROVE  DriveInv'
<1>1. Scheduled' /\ OneDrives'
  BY DEF DriveInv, Scheduled, OneDrives, NobodyDrives, Drive, Arrive, Wait, Release, Executed
<1>2. CASE NobodyDrives
  <2>1. drive_target \notin Assists
    <3>1. SUFFICES ASSUME drive_target \in Assists PROVE FALSE
      OBVIOUS
    <3>2. PICK r \in running : r[1] = drive_target
      BY <3>1 DEF DriveInv, Stoppable
    <3>3. "drivetrain" \in Requires(r)
      BY <3>1, <3>2, WhoDrives DEF DriveInv, Scheduled
    <3>4. QED BY <1>2, <3>3 DEF NobodyDrives, DriveCommands
  <2>2. QED BY <1>1, <1>2, <2>1 DEF NobodyDrives, DriveInv, Stoppable
<1>3. ASSUME NEW c \in DriveCommands, Drive(c)
      PROVE  DriveInv'
  <2>1. c \in running /\ c \in Possible /\ c[1] # "zero_bearing"
    BY <1>3, WhoDrives DEF DriveCommands, DriveInv, Scheduled, Assists, Groups, Aligning
  <2>2. c \in running' /\ drive_target' = c[1] /\ stage' = stage
    BY <1>3, <2>1 DEF Drive, Executed
  <2>3. c[1] \in Assists => StopsAtEnd(c)'
    BY <1>3, <2>2 DEF Drive, Waiting, StopsAtEnd, Assists
  <2>4. QED BY <1>1, <2>2, <2>3 DEF DriveInv, Stoppable
<1>4. ASSUME NEW c \in DriveCommands, Arrive(c) \/ Release(c)
      PROVE  DriveInv'
  BY <1>1, <1>4 DEF Arrive, Release, DriveInv, Stoppable, Assists, Groups, Aligning
<1>5. ASSUME NEW c \in DriveCommands, Wait(c)
      PROVE  DriveInv'
  <2>1. drive_target \notin Assists
    <3>1. SUFFICES ASSUME drive_target \in Assists PROVE FALSE
      OBVIOUS
    <3>2. PICK r \in running : r[1] = drive_target /\ StopsAtEnd(r)
      BY <3>1 DEF DriveInv, Stoppable
    <3>3. "drivetrain" \in Requires(r)
      BY <3>1, <3>2, WhoDrives DEF DriveInv, Scheduled
    <3>4. r = c
      BY <3>3, <1>5 DEF DriveInv, OneDrives, DriveCommands
    <3>5. QED BY <3>2, <3>4, <1>5 DEF Wait, Waiting, StopsAtEnd, Groups, Aligning
  <2>2. QED BY <1>1, <1>5, <2>1 DEF Wait, DriveInv, Stoppable
<1>6. QED BY <1>2, <1>3, <1>4, <1>5

(* A default command is scheduled only where nobody requires its subsystem.*)
LEMMA DefaultsKeep ==
  ASSUME DriveInv, SetupOK, ScheduleDefaults
  PROVE  DriveInv'
<1> DEFINE idle == {t \in defaults : \A c \in running : t \notin Requires(c)}
<1>1. /\ running' \subseteq running \cup {Default[s] : s \in idle}
      /\ running \subseteq running'
      /\ stage' = stage /\ drive_target' = drive_target
  BY DEF ScheduleDefaults
<1>2. {Default[s] : s \in idle} \subseteq Defaults
  BY DEF SetupOK, Defaults
<1>3. Scheduled'
  BY <1>1, <1>2, SmallFacts DEF DriveInv, Scheduled
<1>4. Stoppable'
  BY <1>1 DEF DriveInv, Stoppable, StopsAtEnd
<1>5. OneDrives'
  <2>1. ASSUME NEW c \in running', c \notin running, "drivetrain" \in Requires(c)
        PROVE  c = <<"drive", 0>> /\ \A d \in running : "drivetrain" \notin Requires(d)
    <3>1. PICK s \in idle : c = Default[s]
      BY <1>1, <2>1
    <3>2. s \in Driven /\ c \in Defaults
      BY <3>1, <1>2 DEF SetupOK
    <3>3. Default["drivetrain"] = Default[s]
      BY <3>1, <3>2, <2>1 DEF Requires
    <3>4. s = "drivetrain"
      <4>1. Default[s][1] = "drive"
        BY <3>3, DefaultFacts
      <4>2. s \in {"drivetrain", "coral_ss", "algal_ss", "climber"}
        BY <3>2, DefaultFacts
      <4>3. \A x \in {"coral_ss", "algal_ss", "climber"} : Default[x][1] # "drive"
        BY DefaultFacts
      <4>4. QED BY <4>1, <4>2, <4>3
    <3>5. QED BY <3>1, <3>4, DefaultFacts
  <2>2. QED BY <1>1, <2>1 DEF DriveInv, OneDrives
<1>6. QED BY <1>3, <1>4, <1>5 DEF DriveInv
-----------------------------------------------------------------------------
(* The settings of the loop that every action keeps in range.              *)
LEMMA SetupKept ==
  ASSUME SetupOK, [Next]_vars
  PROVE  SetupOK'
<1>1. CASE Poll
  BY <1>1 DEF SetupOK, Poll
<1>2. CASE ToTeleop
  BY <1>2 DEF SetupOK, ToTeleop, AfterModeChange, InitTeleop
<1>3. CASE UNCHANGED vars
  BY <1>3 DEF SetupOK, vars, setup
<1>4. CASE \E m \in Modes : Sample(m)
  BY <1>4 DEF SetupOK, Sample, setup
<1>5. CASE SameMode \/ ToDisabled \/ ToTest \/ \E known \in BOOLEAN : ToAuto(known)
  BY <1>5 DEF SetupOK, SameMode, AfterModeChange, ToDisabled, ToTest, ToAuto, setup
<1>6. CASE \E held \in SUBSET Buttons, piece \in BOOLEAN : Read(held, piece)
  BY <1>6 DEF SetupOK, Read, setup
<1>7. CASE PollingDone \/ ScheduleDefaults \/ Write
  BY <1>7 DEF SetupOK, PollingDone, ScheduleDefaults, Write, setup
<1>8. CASE NobodyDrives \/ \E c \in DriveCommands : Drive(c) \/ Arrive(c) \/ Wait(c) \/ Release(c)
  BY <1>8 DEF SetupOK, NobodyDrives, Drive, Arrive, Wait, Release, Executed, setup
<1>9. QED BY <1>1, <1>2, <1>3, <1>4, <1>5, <1>6, <1>7, <1>8 DEF Next

LEMMA DriveInvKept ==
  ASSUME DriveInv, SetupOK, [Next]_vars
  PROVE  DriveInv'
<1>1. CASE Poll
  <2> DEFINE c == <<Triggers[(polled % 4) + 1], (polled \div 4) + 1>>
  <2>1. c \in Possible /\ c[1] \in Assists \cup {"zero_bearing"}
    BY PolledTrigger, SmallFacts
  <2>2. Schedule(c) \/ Cancel({c}) \/ UNCHANGED commands
    BY <1>1 DEF Poll
  <2>3. CASE Schedule(c)
    BY <2>1, <2>3, ScheduleKeeps
  <2>4. CASE Cancel({c})
    BY <2>4, CancelKeeps
  <2>5. CASE UNCHANGED commands
    BY <2>5, SameCommandsKeep DEF commands
  <2>6. QED BY <2>2, <2>3, <2>4, <2>5
<1>2. CASE ToTeleop
  BY <1>2, CancelKeeps DEF ToTeleop
<1>3. CASE ToTest
  BY <1>3, CancelKeeps DEF ToTest
<1>4. CASE ToDisabled
  BY <1>4, CancelKeeps DEF ToDisabled
<1>5. ASSUME NEW known \in BOOLEAN, ToAuto(known)
      PROVE  DriveInv'
  <2>1. CASE known
    BY <1>5, <2>1, ScheduleKeeps, SmallFacts DEF ToAuto
  <2>2. CASE ~known
    BY <1>5, <2>2, SameCommandsKeep DEF ToAuto, commands
  <2>3. QED BY <2>1, <2>2
<1>6. CASE \E m \in Modes : Sample(m)
  BY <1>6, SameCommandsKeep DEF Sample
<1>7. CASE SameMode \/ PollingDone \/ Write \/ UNCHANGED vars
  BY <1>7, SameCommandsKeep DEF SameMode, PollingDone, Write, vars, commands
<1>8. CASE \E held \in SUBSET Buttons, piece \in BOOLEAN : Read(held, piece)
  BY <1>8, SameCommandsKeep DEF Read, commands
<1>9. CASE ScheduleDefaults
  BY <1>9, DefaultsKeep
<1>10. CASE NobodyDrives \/ \E c \in DriveCommands : Drive(c) \/ Arrive(c) \/ Wait(c) \/ Release(c)
  BY <1>10, ExecuteKeeps
<1>11. QED
  BY <1>1, <1>2, <1>3, <1>4, <1>5, <1>6, <1>7, <1>8, <1>9, <1>10 DEF Next

(* Whichever way an alignment, a lock or an auto ends, in whatever mode    *)
(* and whatever else is held, the drivetrain does not keep its target.     *)
THEOREM MotionEndsWithItsCommand == Spec => []AssistEndsWithCommand
<1>1. Init => DriveInv /\ SetupOK
  BY DEF Init, DriveInv, SetupOK, Scheduled, OneDrives, Stoppable, Assists, Groups, Aligning
<1>2. DriveInv /\ SetupOK /\ [Next]_vars => (DriveInv /\ SetupOK)'
  BY DriveInvKept, SetupKept
<1>3. DriveInv => AssistEndsWithCommand
  BY DEF DriveInv, Stoppable, AssistEndsWithCommand
<1>4. QED BY <1>1, <1>2, <1>3, PTL DEF Spec
-----------------------------------------------------------------------------
(* The strengthening of AutoOnlyInAutonomous: as long as the auto is       *)
(* scheduled auto_command_ still points to it, so that the next mode can   *)
(* cancel it.                                                              *)
AutoInv ==
  /\ AutoCommand \in running => last_mode = "auto" /\ auto_command = TRUE
  /\ phase # "mode" => last_mode = mode

LEMMA AutoInvKept ==
  ASSUME AutoInv, SetupOK, [Next]_vars
  PROVE  AutoInv'
<1>1. CASE Poll
  <2> DEFINE c == <<Triggers[(polled % 4) + 1], (polled \div 4) + 1>>
  <2>1. c # AutoCommand
    BY PolledTrigger, SmallFacts
  <2>2. Schedule(c) \/ Cancel({c}) \/ UNCHANGED commands
    BY <1>1 DEF Poll
  <2>3. AutoCommand \in running' => AutoCommand \in running
    BY <2>1, <2>2 DEF Schedule, Cancel, commands
  <2>4. QED BY <1>1, <2>3 DEF AutoInv, Poll
<1>2. CASE ToTeleop
  <2>1. AutoCommand \notin running'
    BY <1>2 DEF ToTeleop, Cancel, AutoToCancel, AutoInv
  <2>2. QED BY <1>2, <2>1 DEF ToTeleop, AfterModeChange, AutoInv
<1>3. CASE ToTest
  <2>1. AutoCommand \notin running'
    BY <1>3 DEF ToTest, Cancel, AutoToCancel, AutoInv
  <2>2. QED BY <1>3, <2>1 DEF ToTest, AfterModeChange, AutoInv
<1>4. CASE ToDisabled
  BY <1>4 DEF ToDisabled, AfterModeChange, Cancel, AutoInv
<1>5. ASSUME NEW known \in BOOLEAN, ToAuto(known)
      PROVE  AutoInv'
  <2>1. AutoCommand \notin running
    BY <1>5 DEF ToAuto, AfterModeChange, AutoInv
  <2>2. AutoCommand \in running' => known = TRUE
    BY <1>5, <2>1 DEF ToAuto, commands
  <2>3. QED BY <1>5, <2>2 DEF ToAuto, AfterModeChange, AutoInv
<1>6. CASE \E m \in Modes : Sample(m)
  BY <1>6 DEF Sample, AutoInv, setup
<1>7. CASE SameMode \/ PollingDone \/ Write \/ UNCHANGED vars
  BY <1>7 DEF SameMode, PollingDone, Write, vars, commands, setup, AutoInv
<1>8. CASE \E held \in SUBSET Buttons, piece \in BOOLEAN : Read(held, piece)
  BY <1>8 DEF Read, commands, setup, AutoInv
<1>9. CASE ScheduleDefaults
  <2>1. AutoCommand \in running' => AutoCommand \in running
    <3>1. {Default[s] : s \in defaults} \subseteq Defaults
      BY DEF SetupOK, Defaults
    <3>2. QED BY <1>9, <3>1, SmallFacts DEF ScheduleDefaults
  <2>2. QED BY <1>9, <2>1 DEF ScheduleDefaults, AutoInv, setup
<1>10. CASE NobodyDrives \/ \E c \in DriveCommands : Drive(c) \/ Arrive(c) \/ Wait(c) \/ Release(c)
  BY <1>10 DEF NobodyDrives, Drive, Arrive, Wait, Release, Executed, AutoInv, setup
<1>11. QED
  BY <1>1, <1>2, <1>3, <1>4, <1>5, <1>6, <1>7, <1>8, <1>9, <1>10 DEF Next

(* An auto that was started is gone once another mode has begun, although  *)
(* a disabled period keeps auto_command_ and the robot may be disabled,    *)
(* enabled and switched between modes in any order.                        *)
THEOREM NoAutoOutsideItsPeriod == Spec => []AutoOnlyInAutonomous
<1>1. Init => AutoInv /\ SetupOK
  BY DEF Init, AutoInv, SetupOK
<1>2. AutoInv /\ SetupOK /\ [Next]_vars => (AutoInv /\ SetupOK)'
  BY AutoInvKept, SetupKept
<1>3. AutoInv => AutoOnlyInAutonomous
  BY DEF AutoInv, AutoOnlyInAutonomous
<1>4. QED BY <1>1, <1>2, <1>3, PTL DEF Spec
-----------------------------------------------------------------------------
(***************************************************************************)
(* Once teleop has settled every target is at most a pass old.             *)
(***************************************************************************)
Mechanisms == Driven \ {"drivetrain"}
DriveAge   == age["drivetrain"]
Stopping   == \E c \in DriveCommands : StopsAtEnd(c)
Executing  == phase \in {"defaults", "write", "sample"}
AsPolled(p) == <<Triggers[(p % 4) + 1], (p \div 4) + 1>>

(* What teleop passes count, and what InitTeleop left behind.              *)
PassesOK ==
  /\ teleop_passes \in 0 .. 2
  /\ teleop_passes # 0 => mode = "teleop" /\ last_mode = "teleop"
  /\ last_mode = "teleop" => defaults = Driven
  /\ age \in [Driven -> 0 .. 2]

(* An alignment that has not started to drive was scheduled in this very   *)
(* pass, by a trigger that is not polled again before it drives.           *)
FreshOnly ==
  \A c \in running : (c[1] \in Aligning /\ stage = "wait") =>
     phase \in {"poll", "execute"} /\ \E p \in 0 .. polled - 1 : c = AsPolled(p)

(* A pass of teleop leaves every subsystem a command, and in the next the  *)
(* mechanisms keep theirs.                                                 *)
Commanded ==
  /\ (teleop_passes # 0 \/ (phase \in {"write", "sample"} /\ last_mode = "teleop"))
       => \A s \in Mechanisms : Default[s] \in running
  /\ (phase \in {"write", "sample"} /\ last_mode = "teleop") => DriveCommands # {}

(* The drivetrain's target is new unless its command will renew it, by     *)
(* driving or by ending; its command may only go by renewing it.           *)
Renewed ==
  /\ (teleop_passes # 0 /\ ~Executing) => (DriveCommands # {} \/ DriveAge = 0)
  /\ (teleop_passes = 2 /\ ~Executing) => (DriveAge <= 1 \/ Stopping)
  /\ (teleop_passes # 0 /\ Executing) => (DriveAge = 0 \/ Stopping)
  /\ (teleop_passes = 2 /\ Executing) => DriveAge <= 1
  /\ (teleop_passes # 0 /\ Executing) => \A s \in Mechanisms : age[s] = 0

TeleopInv == PassesOK /\ FreshOnly /\ Commanded /\ Renewed
LoopInv   == DriveInv /\ SetupOK /\ AutoInv /\ TeleopInv

LEMMA MechanismFacts ==
  ASSUME NEW s \in Mechanisms
  PROVE  /\ s \in Driven /\ s # "drivetrain" /\ Default[s] \in Defaults
         /\ Default[s][1] \in {"coral", "algal", "climb"}
<1>1. s \in {"coral_ss", "algal_ss", "climber"}
  BY DefaultFacts DEF Mechanisms
<1>2. CASE s = "coral_ss"
  BY <1>2, DefaultFacts
<1>3. CASE s = "algal_ss"
  BY <1>3, DefaultFacts
<1>4. CASE s = "climber"
  BY <1>4, DefaultFacts
<1> QED
  BY <1>1, <1>2, <1>3, <1>4

(* Only its default command requires a mechanism.                          *)
LEMMA WhoMoves ==
  ASSUME NEW c \in Possible, NEW s \in Mechanisms
  PROVE  s \in Requires(c) <=> c = Default[s]
<1>1. s \in {"coral_ss", "algal_ss", "climber"}
  BY DefaultFacts DEF Mechanisms
<1>2. CASE c \in Defaults
  <2>1. Requires(c) = {t \in Driven : Default[t] = c}
    BY <1>2 DEF Requires
  <2> QED
    BY <1>1, <2>1, DefaultFacts
<1>3. CASE c \notin Defaults
  <2>1. Requires(c) \subseteq {"drivetrain"}
    BY <1>3 DEF Requires
  <2> QED
    BY <1>1, <1>3, <2>1, DefaultFacts
<1> QED
  BY <1>2, <1>3

(* A trigger is polled once in a pass.                                     *)
LEMMA PolledOnce ==
  ASSUME NEW p \in Nat, NEW q \in Nat, p < q
  PROVE  AsPolled(p) # AsPolled(q)
<1> SUFFICES ASSUME AsPolled(p) = AsPolled(q) PROVE FALSE
  OBVIOUS
<1>1. p \div 4 = q \div 4
  <2>1. p \div 4 \in Nat /\ q \div 4 \in Nat
    OBVIOUS
  <2>2. (p \div 4) + 1 = (q \div 4) + 1
    BY DEF AsPolled
  <2> QED
    BY <2>1, <2>2
<1>2. p % 4 = q % 4
  <2>1. p % 4 \in 0 .. 3 /\ q % 4 \in 0 .. 3
    OBVIOUS
  <2>2. Triggers[(p % 4) + 1] = Triggers[(q % 4) + 1]
    BY DEF AsPolled
  <2>3. \A i, j \in 1 .. 4 : Triggers[i] = Triggers[j] => i = j
    BY DEF Triggers
  <2>4. (p % 4) + 1 \in 1 .. 4 /\ (q % 4) + 1 \in 1 .. 4
    BY <2>1
  <2>5. (p % 4) + 1 = (q % 4) + 1
    BY <2>2, <2>3, <2>4
  <2> QED
    BY <2>1, <2>5
<1> QED
  BY <1>1, <1>2

(* What a change to the commands must not do to teleop.                    *)
Keeps ==
  /\ age' \in [Driven -> 0 .. 2]
  /\ \A s \in Mechanisms : Default[s] \in running => Default[s] \in running'
  /\ (DriveCommands # {} \/ DriveAge = 0) => (DriveCommands' # {} \/ DriveAge' = 0)
  /\ (DriveAge <= 1 \/ Stopping) => (DriveAge' <= 1 \/ Stopping')

(* The age of the drivetrain's target is reset by an End, or kept.         *)
LEMMA EndAllAges ==
  ASSUME age \in [Driven -> 0 .. 2], NEW S, EndAll(S)
  PROVE  /\ age' \in [Driven -> 0 .. 2]
         /\ (\E c \in S : StopsAtEnd(c)) => DriveAge' = 0
         /\ ~(\E c \in S : StopsAtEnd(c)) => age' = age
<1>1. "drivetrain" \in Driven
  BY DefaultFacts
<1> QED
  BY <1>1 DEF EndAll, DriveAge

(* To cancel the drivetrain's command is harmless if it stops the robot.   *)
LEMMA CancelAges ==
  ASSUME DriveInv, age \in [Driven -> 0 .. 2],
         NEW c \in Possible, c \notin Defaults, Cancel({c}),
         (c \in running /\ "drivetrain" \in Requires(c)) => StopsAtEnd(c)
  PROVE  Keeps
<1>1. /\ running' = running \ {c} /\ stage' = stage
      /\ EndAll(running \cap {c})
  BY DEF Cancel
<1>2. \A s \in Mechanisms : Default[s] \in running => Default[s] \in running'
  BY <1>1 DEF Defaults, Mechanisms
<1>3. age' \in [Driven -> 0 .. 2]
  BY <1>1, EndAllAges
<1>4. CASE c \in running /\ StopsAtEnd(c)
  <2>1. DriveAge' = 0
    BY <1>1, <1>4, EndAllAges
  <2> QED
    BY <1>2, <1>3, <2>1 DEF Keeps
<1>5. CASE ~(c \in running /\ StopsAtEnd(c))
  <2>1. age' = age
    BY <1>1, <1>5, EndAllAges
  <2>2. DriveCommands' = DriveCommands
    BY <1>1, <1>5 DEF DriveCommands
  <2>3. Stopping' <=> Stopping
    BY <1>1, <2>2 DEF Stopping, StopsAtEnd
  <2> QED
    BY <1>2, <1>3, <2>1, <2>2, <2>3 DEF Keeps, DriveAge
<1> QED
  BY <1>4, <1>5

(* To schedule a command interrupts the drivetrain's command only to take  *)
(* its place.                                                              *)
LEMMA ScheduleAges ==
  ASSUME DriveInv, age \in [Driven -> 0 .. 2],
         NEW c \in Possible, c[1] \in Assists \cup {"zero_bearing"}, Schedule(c)
  PROVE  Keeps
<1>1. CASE mode = "disabled" \/ c \in running
  <2>1. UNCHANGED <<running, stage, age>>
    BY <1>1 DEF Schedule, commands
  <2> QED
    BY <2>1 DEF Keeps, DriveAge, Stopping, DriveCommands, StopsAtEnd
<1>2. CASE ~(mode = "disabled" \/ c \in running)
  <2> DEFINE gone == {r \in running : Requires(r) \cap Requires(c) # {}}
  <2>1. /\ running' = (running \ gone) \cup {c} /\ EndAll(gone)
        /\ stage' = IF c[1] \in Groups THEN "wait" ELSE stage
    BY <1>2 DEF Schedule
  <2>2. age' \in [Driven -> 0 .. 2]
    BY <2>1, EndAllAges
  <2>3. Requires(c) \subseteq {"drivetrain"}
    <3>1. c \notin Defaults
      BY SmallFacts
    <3> QED
      BY <3>1 DEF Requires
  <2>4. \A s \in Mechanisms : Default[s] \in running => Default[s] \in running'
    <3> SUFFICES ASSUME NEW s \in Mechanisms, Default[s] \in running, Default[s] \in gone
                 PROVE  FALSE
      BY <2>1
    <3>1. "drivetrain" \in Requires(Default[s])
      BY <2>3
    <3>2. Default[s] \in Defaults /\ s # "drivetrain"
      BY DEF Mechanisms, Defaults
    <3>3. Default["drivetrain"] = Default[s]
      BY <3>1, <3>2 DEF Requires
    <3>4. Default["drivetrain"][1] = "drive"
      BY DefaultFacts
    <3>5. Default[s][1] # "drive"
      BY MechanismFacts
    <3> QED
      BY <3>3, <3>4, <3>5
  <2>5. CASE c[1] = "zero_bearing"
    <3>1. Requires(c) = {}
      BY <2>5, SmallFacts DEF Requires
    <3>2. gone = {}
      BY <3>1
    <3>3. age' = age /\ stage' = stage /\ running' = running \cup {c}
      BY <2>1, <2>5, <3>2, EndAllAges DEF Groups, Aligning
    <3>4. DriveCommands' = DriveCommands
      BY <3>1, <3>3 DEF DriveCommands
    <3>5. Stopping' <=> Stopping
      BY <3>3, <3>4 DEF Stopping, StopsAtEnd
    <3> QED
      BY <2>2, <2>4, <3>3, <3>4, <3>5 DEF Keeps, DriveAge
  <2>6. CASE c[1] \in Assists
    <3>1. Requires(c) = {"drivetrain"}
      BY <2>6, WhoDrives
    <3>2. DriveCommands' # {}
      BY <2>1, <3>1 DEF DriveCommands
    <3>3. DriveCommands = gone
      BY <3>1 DEF DriveCommands
    <3>4. (DriveAge <= 1 \/ Stopping) => DriveAge' <= 1
      <4>1. CASE \E r \in gone : StopsAtEnd(r)
        <5>1. DriveAge' = 0
          BY <2>1, <4>1, EndAllAges
        <5> QED
          BY <5>1
      <4>2. CASE ~\E r \in gone : StopsAtEnd(r)
        <5>1. age' = age
          BY <2>1, <4>2, EndAllAges
        <5> QED
          BY <3>3, <4>2, <5>1 DEF DriveAge, Stopping
      <4> QED
        BY <4>1, <4>2
    <3> QED
      BY <2>2, <2>4, <3>2, <3>4 DEF Keeps
  <2> QED
    BY <2>5, <2>6
<1> QED
  BY <1>1, <1>2
-----------------------------------------------------------------------------
(* A new pass: the ages grow, and teleop passes count.                     *)
LEMMA TeleopSample ==
  ASSUME LoopInv, NEW m \in Modes, Sample(m)
  PROVE  TeleopInv'
<1>1. PassesOK /\ FreshOnly /\ Commanded /\ Renewed
  BY DEF LoopInv, TeleopInv
<1>2. /\ phase = "sample" /\ phase' = "mode" /\ mode' = m /\ last_mode' = last_mode
      /\ running' = running /\ stage' = stage /\ defaults' = defaults
      /\ teleop_passes' = IF m # "teleop" \/ last_mode # "teleop" THEN 0
                          ELSE IF teleop_passes = 2 THEN 2 ELSE teleop_passes + 1
      /\ age' = [s \in Driven |-> IF age[s] = 2 THEN 2 ELSE age[s] + 1]
  BY DEF Sample, setup
<1>3. /\ teleop_passes' \in 0 .. 2
      /\ teleop_passes' # 0 => m = "teleop" /\ last_mode = "teleop"
      /\ teleop_passes' = 2 => teleop_passes # 0
  BY <1>1, <1>2 DEF PassesOK
<1>4. age' \in [Driven -> 0 .. 2]
  BY <1>1, <1>2 DEF PassesOK
<1>5. PassesOK'
  BY <1>1, <1>2, <1>3, <1>4 DEF PassesOK
<1>6. FreshOnly'
  BY <1>1, <1>2 DEF FreshOnly
<1>7. Commanded'
  BY <1>1, <1>2, <1>3 DEF Commanded
<1>8. DriveCommands' = DriveCommands /\ (Stopping' <=> Stopping)
  BY <1>2 DEF DriveCommands, Stopping, StopsAtEnd
<1>9. DriveAge = 0 => DriveAge' <= 1
  <2>1. "drivetrain" \in Driven
    BY DefaultFacts
  <2> QED
    BY <1>2, <2>1 DEF DriveAge
<1>10. Renewed'
  BY <1>1, <1>2, <1>3, <1>8, <1>9 DEF Renewed, Executing, Commanded
<1> QED
  BY <1>5, <1>6, <1>7, <1>10 DEF TeleopInv

(* The steps that change neither commands nor targets.                     *)
LEMMA TeleopSame ==
  ASSUME LoopInv, SameMode \/ PollingDone \/ Write \/ UNCHANGED vars
         \/ \E held \in SUBSET Buttons, piece \in BOOLEAN : Read(held, piece)
  PROVE  TeleopInv'
<1>1. PassesOK /\ FreshOnly /\ Commanded /\ Renewed
  BY DEF LoopInv, TeleopInv
<1>2. UNCHANGED <<running, stage, age, defaults, teleop_passes, mode, last_mode>>
  BY DEF SameMode, PollingDone, Write, Read, vars, commands, setup
<1>3. \/ phase = "mode" /\ phase' = "read"
      \/ phase = "poll" /\ phase' = "execute" /\ polled' = polled
      \/ phase = "write" /\ phase' = "sample"
      \/ phase' = phase /\ polled' = polled
      \/ phase = "read" /\ phase' = "poll"
  BY DEF SameMode, PollingDone, Write, Read, vars
<1>4. FreshOnly'
  BY <1>1, <1>2, <1>3 DEF FreshOnly
<1>5. DriveCommands' = DriveCommands /\ (Stopping' <=> Stopping) /\ DriveAge' = DriveAge
  BY <1>2 DEF DriveCommands, Stopping, StopsAtEnd, DriveAge
<1>6. PassesOK' /\ Commanded'
  BY <1>1, <1>2, <1>3, <1>5 DEF PassesOK, Commanded
<1>7. Renewed'
  BY <1>1, <1>2, <1>3, <1>5 DEF Renewed, Executing
<1> QED
  BY <1>4, <1>6, <1>7 DEF TeleopInv

(* A change of mode is no pass of teleop; InitTeleop gives every subsystem *)
(* its default command.                                                    *)
LEMMA TeleopModeChange ==
  ASSUME LoopInv, DriveInv',
         ToDisabled \/ ToTeleop \/ ToTest \/ \E known \in BOOLEAN : ToAuto(known)
  PROVE  TeleopInv'
<1>1. PassesOK /\ FreshOnly /\ Commanded /\ Renewed
  BY DEF LoopInv, TeleopInv
<1>2. /\ phase = "mode" /\ mode # last_mode /\ phase' = "read" /\ last_mode' = mode
      /\ mode' = mode /\ teleop_passes' = teleop_passes /\ polled' = polled
  BY DEF ToDisabled, ToTeleop, ToTest, ToAuto, AfterModeChange
<1>3. teleop_passes' = 0
  BY <1>1, <1>2 DEF PassesOK
<1>4. mode = "teleop" => defaults' = Driven
  BY DEF ToDisabled, ToTeleop, ToTest, ToAuto, InitTeleop
<1>5. \/ \E S : Cancel(S)
      \/ Schedule(AutoCommand)
      \/ UNCHANGED commands
  BY DEF ToDisabled, ToTeleop, ToTest, ToAuto
<1>6. age' \in [Driven -> 0 .. 2]
  <2>1. age \in [Driven -> 0 .. 2]
    BY <1>1 DEF PassesOK
  <2>2. CASE \E S : Cancel(S)
    BY <2>1, <2>2, EndAllAges DEF Cancel
  <2>3. CASE Schedule(AutoCommand)
    BY <2>1, <2>3, EndAllAges DEF Schedule, commands
  <2>4. CASE UNCHANGED commands
    BY <2>1, <2>4 DEF commands
  <2> QED
    BY <1>5, <2>2, <2>3, <2>4
<1>7. FreshOnly'
  <2>1. \A c \in running : c[1] \in Aligning => stage # "wait"
    BY <1>1, <1>2 DEF FreshOnly
  <2>2. ASSUME NEW c \in running', c[1] \in Aligning, stage' = "wait" PROVE FALSE
    <3>1. CASE \E S : Cancel(S)
      BY <2>1, <2>2, <3>1 DEF Cancel
    <3>2. CASE UNCHANGED commands
      BY <2>1, <2>2, <3>2 DEF commands
    <3>3. CASE Schedule(AutoCommand) /\ ~UNCHANGED commands
      <4>1. AutoCommand \in running'
        BY <3>3 DEF Schedule
      <4>2. "drivetrain" \in Requires(AutoCommand)
        BY SmallFacts, WhoDrives
      <4>3. "drivetrain" \in Requires(c)
        BY <2>2, WhoDrives DEF DriveInv, Scheduled, Assists, Groups
      <4>4. c = AutoCommand
        BY <2>2, <4>1, <4>2, <4>3 DEF DriveInv, OneDrives, Requires
      <4> QED
        BY <2>2, <4>4 DEF AutoCommand, Aligning
    <3> QED
      BY <1>5, <3>1, <3>2, <3>3
  <2> QED
    BY <2>2 DEF FreshOnly
<1>8. PassesOK'
  BY <1>2, <1>3, <1>4, <1>6 DEF PassesOK
<1>9. Commanded' /\ Renewed'
  BY <1>2, <1>3 DEF Commanded, Renewed
<1> QED
  BY <1>7, <1>8, <1>9 DEF TeleopInv

(* A trigger that starts or ends a command.                                *)
LEMMA TeleopPoll ==
  ASSUME LoopInv, DriveInv', Poll
  PROVE  TeleopInv'
<1>1. PassesOK /\ FreshOnly /\ Commanded /\ Renewed /\ DriveInv /\ SetupOK
  BY DEF LoopInv, TeleopInv
<1> DEFINE c == AsPolled(polled)
<1>2. c \in Possible /\ c[1] \in Assists \cup {"zero_bearing"} /\ c[1] \in TriggerNames
  BY <1>1, PolledTrigger, SmallFacts DEF AsPolled
<1>3. /\ phase = "poll" /\ phase' = "poll" /\ polled \in Nat /\ polled' = polled + 1
      /\ UNCHANGED <<mode, last_mode, defaults, teleop_passes>>
  BY <1>1 DEF Poll, SetupOK
<1>4. \/ Schedule(c)
      \/ c[1] # "lock_gpd" /\ Cancel({c})
      \/ UNCHANGED commands
  BY DEF Poll, AsPolled
<1> HIDE DEF c
<1>5. (c \in running /\ c[1] \in Aligning) => stage # "wait"
  <2> SUFFICES ASSUME c \in running, c[1] \in Aligning, stage = "wait" PROVE FALSE
    OBVIOUS
  <2>1. PICK p \in 0 .. polled - 1 : c = AsPolled(p)
    BY <1>1 DEF FreshOnly
  <2>2. p \in Nat /\ p < polled
    BY <1>3
  <2> QED
    BY <1>3, <2>1, <2>2, PolledOnce DEF c
<1>6. Keeps
  <2>1. age \in [Driven -> 0 .. 2]
    BY <1>1 DEF PassesOK
  <2>2. CASE Schedule(c)
    BY <1>1, <1>2, <2>1, <2>2, ScheduleAges
  <2>3. CASE c[1] # "lock_gpd" /\ Cancel({c})
    <3>1. c \notin Defaults
      BY <1>2, SmallFacts
    <3>2. (c \in running /\ "drivetrain" \in Requires(c)) => StopsAtEnd(c)
      <4> SUFFICES ASSUME c \in running, "drivetrain" \in Requires(c) PROVE StopsAtEnd(c)
        OBVIOUS
      <4>1. c[1] \in {"drive"} \cup Assists
        BY <1>2, WhoDrives
      <4>2. c[1] \in Aligning
        BY <1>2, <2>3, <4>1 DEF Assists, Groups, Aligning, TriggerNames
      <4> QED
        BY <1>5, <4>2 DEF StopsAtEnd, Groups
    <3> QED
      BY <1>1, <1>2, <2>1, <2>3, <3>1, <3>2, CancelAges
  <2>4. CASE UNCHANGED commands
    BY <2>1, <2>4 DEF commands, Keeps, DriveCommands, Stopping, StopsAtEnd, DriveAge
  <2> QED
    BY <1>4, <2>2, <2>3, <2>4
<1>7. FreshOnly'
  <2> SUFFICES ASSUME NEW d \in running', d[1] \in Aligning, stage' = "wait"
               PROVE  \E p \in 0 .. polled' - 1 : d = AsPolled(p)
    BY <1>3 DEF FreshOnly
  <2>1. CASE d \in running /\ stage = "wait"
    <3>1. PICK p \in 0 .. polled - 1 : d = AsPolled(p)
      BY <1>1, <2>1 DEF FreshOnly
    <3> QED
      BY <1>3, <3>1
  <2>2. CASE d = c
    BY <1>3, <2>2 DEF c
  <2>3. CASE ~(d \in running /\ stage = "wait") /\ d # c
    <3>1. Schedule(c) /\ ~UNCHANGED commands
      BY <1>4, <2>3 DEF Cancel, commands
    <3>2. c \in running' /\ d \in running /\ stage # "wait" /\ c[1] \in Groups
      BY <2>3, <3>1 DEF Schedule
    <3>3. "drivetrain" \in Requires(c) /\ "drivetrain" \in Requires(d)
      BY <1>1, <1>2, <3>2, WhoDrives DEF DriveInv, Scheduled, Assists, Groups
    <3> QED
      BY <2>3, <3>2, <3>3 DEF DriveInv, OneDrives, Requires
  <2> QED
    BY <2>1, <2>2, <2>3
<1>8. PassesOK'
  BY <1>1, <1>3, <1>6 DEF PassesOK, Keeps
<1>9. Commanded'
  BY <1>1, <1>3, <1>6 DEF Commanded, Keeps
<1>10. Renewed'
  BY <1>1, <1>3, <1>6 DEF Renewed, Executing, Keeps
<1> QED
  BY <1>7, <1>8, <1>9, <1>10 DEF TeleopInv

(* The commands execute: what the drivetrain's command does.               *)
LEMMA TeleopExecute ==
  ASSUME LoopInv, DriveInv',
         NobodyDrives \/ \E c \in DriveCommands :
                           Drive(c) \/ Arrive(c) \/ Wait(c) \/ Release(c)
  PROVE  TeleopInv'
<1>1. PassesOK /\ FreshOnly /\ Commanded /\ Renewed /\ DriveInv /\ AutoInv
  BY DEF LoopInv, TeleopInv
<1>2. PICK set \in {{}, {"drivetrain"}}, finished \in SUBSET DriveCommands :
        Executed(set, finished)
  <2>1. CASE NobodyDrives
    BY <2>1 DEF NobodyDrives
  <2>2. ASSUME NEW c \in DriveCommands, Drive(c) \/ Arrive(c) \/ Wait(c) \/ Release(c)
        PROVE  \E set \in {{}, {"drivetrain"}}, finished \in SUBSET DriveCommands :
                 Executed(set, finished)
    BY <2>2 DEF Drive, Arrive, Wait, Release
  <2> QED
    BY <2>1, <2>2
<1>3. /\ phase = "execute" /\ phase' = "defaults"
      /\ running' = {c \in running \ finished : c[1] # "zero_bearing"}
      /\ age' = [s \in Driven |->
                   IF s \in set \/ (s # "drivetrain" /\ Default[s] \in running)
                   THEN 0 ELSE age[s]]
      /\ UNCHANGED <<mode, last_mode, defaults, teleop_passes>>
  BY <1>2 DEF Executed, setup
<1>4. PassesOK'
  <2>1. age' \in [Driven -> 0 .. 2]
    BY <1>1, <1>3 DEF PassesOK
  <2> QED
    BY <1>1, <1>3, <2>1 DEF PassesOK
<1>5. teleop_passes # 0 => AutoCommand \notin running
  BY <1>1, <1>3 DEF PassesOK, AutoInv
<1>6. \A d \in running : d[1] \in Aligning => d \in DriveCommands /\ d # AutoCommand
  BY <1>1, WhoDrives DEF DriveInv, Scheduled, DriveCommands, Assists, Groups, Aligning,
     AutoCommand
<1>7. \A c, d \in DriveCommands : c = d
  BY <1>1 DEF DriveInv, OneDrives, DriveCommands
<1>8. ASSUME NEW s \in Mechanisms, Default[s] \in running
      PROVE  Default[s] \in running' /\ age'[s] = 0
  <2>1. s \in Driven /\ s # "drivetrain"
    BY MechanismFacts
  <2>2. Default[s][1] \notin {"drive", "zero_bearing"} /\ Default[s] \in Defaults
    BY MechanismFacts
  <2>3. Default[s][1] \notin Assists /\ Default[s] \in Possible
    BY <2>2, SmallFacts
  <2>4. Default[s] \notin DriveCommands
    BY <2>2, <2>3, WhoDrives DEF DriveCommands
  <2> QED
    BY <1>2, <1>3, <1>8, <2>1, <2>2, <2>4
<1>9. Commanded'
  BY <1>1, <1>3, <1>8 DEF Commanded
<1>10. teleop_passes # 0 => \A s \in Mechanisms : age'[s] = 0
  BY <1>1, <1>8 DEF Commanded
<1>11. "drivetrain" \in Driven
  BY DefaultFacts
<1>12. FreshOnly' /\ (teleop_passes # 0 => DriveAge' = 0 \/ Stopping')
       /\ (teleop_passes = 2 => DriveAge' <= 1)
  <2>1. CASE NobodyDrives
    <3>1. DriveCommands = {} /\ stage' = stage
      BY <2>1 DEF NobodyDrives
    <3>2. FreshOnly'
      BY <1>3, <1>6, <3>1 DEF FreshOnly
    <3>3. DriveAge' \in {0, DriveAge}
      BY <1>3, <1>11 DEF DriveAge
    <3>4. teleop_passes # 0 => DriveAge = 0
      BY <1>1, <1>3, <3>1 DEF Renewed, Executing
    <3> QED
      BY <3>2, <3>3, <3>4
  <2>2. ASSUME NEW c \in DriveCommands, Drive(c) \/ Arrive(c) \/ Release(c)
        PROVE  FreshOnly' /\ DriveAge' = 0
    <3>1. \E e \in SUBSET DriveCommands : Executed({"drivetrain"}, e)
      BY <2>2 DEF Drive, Arrive, Release
    <3>2. DriveAge' = 0
      BY <1>11, <3>1 DEF Executed, DriveAge
    <3>3. ASSUME NEW d \in running', d[1] \in Aligning, stage' = "wait" PROVE FALSE
      <4>1. d = c /\ c # AutoCommand /\ c[1] \in Groups /\ c[1] # "lock_gpd"
        BY <1>3, <1>6, <1>7, <3>3 DEF Groups, Aligning
      <4>2. CASE Drive(c)
        BY <3>3, <4>1, <4>2 DEF Drive, Waiting
      <4>3. CASE Arrive(c)
        BY <3>3, <4>1, <4>3 DEF Arrive
      <4>4. CASE Release(c)
        BY <4>1, <4>4 DEF Release, Released
      <4> QED
        BY <2>2, <4>2, <4>3, <4>4
    <3> QED
      BY <3>2, <3>3 DEF FreshOnly
  <2>3. ASSUME NEW c \in DriveCommands, Wait(c)
        PROVE  FreshOnly' /\ (teleop_passes # 0 => DriveAge' = 0 \/ Stopping')
               /\ (teleop_passes = 2 => DriveAge' <= 1)
    <3>1. c \in running /\ c \in Possible /\ c[1] \in Groups /\ stage = "wait"
          /\ "drivetrain" \in Requires(c)
      BY <1>1, <2>3 DEF Wait, Waiting, DriveCommands, DriveInv, Scheduled
    <3>2. c # AutoCommand => stage' = "drive" /\ Executed({}, {})
      BY <2>3 DEF Wait
    <3>3. FreshOnly'
      <4>1. ASSUME NEW d \in running', d[1] \in Aligning, stage' = "wait" PROVE FALSE
        <5>1. d = c /\ c # AutoCommand
          BY <1>3, <1>6, <1>7, <4>1
        <5> QED
          BY <3>2, <4>1, <5>1
      <4> QED
        BY <4>1 DEF FreshOnly
    <3>4. ASSUME teleop_passes # 0 PROVE Stopping' /\ DriveAge' = DriveAge
      <4>1. c # AutoCommand
        BY <1>5, <3>1, <3>4
      <4>2. stage' = "drive" /\ running' = {d \in running : d[1] # "zero_bearing"}
        BY <3>2, <4>1 DEF Executed
      <4>3. c \in running'
        BY <3>1, <4>2 DEF Groups, Aligning
      <4>4. DriveAge' = DriveAge
        BY <1>11, <3>2, <4>1 DEF Executed, DriveAge
      <4>5. StopsAtEnd(c)' /\ c \in DriveCommands'
        BY <3>1, <4>2, <4>3 DEF StopsAtEnd, DriveCommands, Requires
      <4> QED
        BY <4>4, <4>5 DEF Stopping
    <3>5. ASSUME teleop_passes = 2 PROVE DriveAge <= 1
      <4>1. ~StopsAtEnd(c)
        BY <3>1 DEF StopsAtEnd, Groups, Aligning
      <4>2. ~Stopping
        BY <1>7, <4>1, <2>3 DEF Stopping
      <4> QED
        BY <1>1, <1>3, <3>5, <4>2 DEF Renewed, Executing
    <3> QED
      BY <3>3, <3>4, <3>5
  <2> QED
    BY <2>1, <2>2, <2>3
<1>13. Renewed'
  BY <1>3, <1>10, <1>12 DEF Renewed, Executing
<1> QED
  BY <1>4, <1>9, <1>12, <1>13 DEF TeleopInv

(* The subsystems nobody requires are given their default commands.        *)
LEMMA TeleopDefaults ==
  ASSUME LoopInv, ScheduleDefaults
  PROVE  TeleopInv'
<1>1. PassesOK /\ FreshOnly /\ Commanded /\ Renewed /\ DriveInv /\ AutoInv
  BY DEF LoopInv, TeleopInv
<1> DEFINE idle == {t \in defaults : \A c \in running : t \notin Requires(c)}
<1>2. /\ phase = "defaults" /\ phase' = "write"
      /\ running' = IF mode = "disabled" THEN running
                    ELSE running \cup {Default[s] : s \in idle}
      /\ UNCHANGED <<mode, last_mode, defaults, teleop_passes, stage, age>>
  BY DEF ScheduleDefaults, setup
<1>3. PassesOK'
  BY <1>1, <1>2 DEF PassesOK
<1>4. FreshOnly'
  <2>1. \A d \in Defaults : d[1] \notin Aligning
    BY SmallFacts DEF Assists, Groups
  <2>2. ASSUME NEW d \in running', d \notin running PROVE d \in Defaults
    <3>1. PICK s \in idle : d = Default[s]
      BY <1>2, <2>2
    <3>2. s \in Driven
      BY <1>1, <3>1 DEF LoopInv, SetupOK
    <3> QED
      BY <3>1, <3>2 DEF Defaults
  <2>3. \A d \in running : d[1] \in Aligning => stage # "wait"
    BY <1>1, <1>2 DEF FreshOnly
  <2> QED
    BY <1>2, <2>1, <2>2, <2>3 DEF FreshOnly
<1>5. ASSUME last_mode = "teleop"
      PROVE  /\ \A s \in Mechanisms : Default[s] \in running'
             /\ DriveCommands' # {}
  <2>1. mode = "teleop" /\ defaults = Driven
    BY <1>1, <1>2, <1>5 DEF AutoInv, PassesOK
  <2>2. running' = running \cup {Default[s] : s \in idle}
    BY <1>2, <2>1
  <2>3. ASSUME NEW s \in Mechanisms PROVE Default[s] \in running'
    <3>1. CASE s \in idle
      BY <2>2, <3>1
    <3>2. CASE s \notin idle
      <4>1. PICK c \in running : s \in Requires(c)
        BY <2>1, <3>2 DEF Mechanisms
      <4>2. c = Default[s]
        BY <1>1, <4>1, WhoMoves DEF DriveInv, Scheduled
      <4> QED
        BY <2>2, <4>1, <4>2
    <3> QED
      BY <3>1, <3>2
  <2>4. DriveCommands' # {}
    <3>1. CASE "drivetrain" \in idle
      <4>1. Default["drivetrain"] \in running'
        BY <2>2, <3>1
      <4>2. "drivetrain" \in Driven /\ Default["drivetrain"] \in Defaults
        BY DefaultFacts
      <4>3. "drivetrain" \in Requires(Default["drivetrain"])
        BY <4>2 DEF Requires
      <4> QED
        BY <4>1, <4>3 DEF DriveCommands
    <3>2. CASE "drivetrain" \notin idle
      <4>1. PICK c \in running : "drivetrain" \in Requires(c)
        BY <2>1, <3>2, DefaultFacts
      <4> QED
        BY <2>2, <4>1 DEF DriveCommands
    <3> QED
      BY <3>1, <3>2
  <2> QED
    BY <2>3, <2>4
<1>6. Commanded'
  BY <1>1, <1>2, <1>5 DEF Commanded, PassesOK
<1>7. Stopping => Stopping'
  BY <1>2 DEF Stopping, DriveCommands, StopsAtEnd
<1>8. Renewed'
  BY <1>1, <1>2, <1>7 DEF Renewed, Executing, DriveAge
<1> QED
  BY <1>3, <1>4, <1>6, <1>8 DEF TeleopInv

LEMMA LoopInvInit == Init => LoopInv
<1> SUFFICES ASSUME Init PROVE LoopInv
  OBVIOUS
<1>1. DriveInv /\ SetupOK /\ AutoInv
  BY DEF Init, DriveInv, SetupOK, AutoInv, Scheduled, OneDrives, Stoppable, Assists,
         Groups, Aligning
<1>2. PassesOK
  BY DEF Init, PassesOK
<1>3. FreshOnly
  BY DEF Init, FreshOnly
<1>4. Commanded /\ Renewed
  BY DEF Init, Commanded, Renewed
<1> QED
  BY <1>1, <1>2, <1>3, <1>4 DEF LoopInv, TeleopInv

LEMMA LoopInvKept ==
  ASSUME LoopInv, [Next]_vars
  PROVE  LoopInv'
<1>1. DriveInv' /\ SetupOK' /\ AutoInv'
  BY DriveInvKept, SetupKept, AutoInvKept DEF LoopInv
<1>2. TeleopInv'
  BY <1>1, TeleopSample, TeleopSame, TeleopModeChange, TeleopPoll, TeleopExecute,
     TeleopDefaults DEF Next
<1> QED
  BY <1>1, <1>2 DEF LoopInv

(* In teleop every pass finds a command for every subsystem, whichever     *)
(* buttons interrupt, cancel or release which alignment in which pass: no  *)
(* target ever stands for more than one pass.                              *)
THEOREM TargetsFollowInTeleop == Spec => []TargetsFollow
<1>1. LoopInv => TargetsFollow
  <2> SUFFICES ASSUME LoopInv, phase = "sample", teleop_passes = 2, NEW s \in Driven
               PROVE  age[s] <= 1
    BY DEF TargetsFollow
  <2>1. Renewed
    BY DEF LoopInv, TeleopInv
  <2>2. CASE s = "drivetrain"
    BY <2>1, <2>2 DEF Renewed, Executing, DriveAge
  <2>3. CASE s # "drivetrain"
    BY <2>1, <2>3 DEF Renewed, Executing, Mechanisms
  <2> QED
    BY <2>2, <2>3
<1> QED
  BY <1>1, LoopInvInit, LoopInvKept, PTL DEF Spec
-----------------------------------------------------------------------------
(***************************************************************************)
(* The types.                                                              *)
(***************************************************************************)
KindsOK ==
  /\ phase \in {"sample", "mode", "read", "poll", "execute", "defaults", "write"}
  /\ mode \in Modes \cup {"none"} /\ last_mode \in Modes \cup {"none"}
  /\ read_counter \in {0, 1} /\ write_counter \in {0, 1}
  /\ reading \subseteq Buttons /\ sees_piece \in BOOLEAN /\ auto_command \in BOOLEAN
  /\ stage \in {"wait", "drive", "lock"}
  /\ drive_target \in {"zero", "drive"} \cup Assists

(* Every entry into teleop registers its triggers once more.               *)
TriggersOK ==
  /\ bindings \in Seq(SUBSET TriggerNames) /\ Len(bindings) <= MaxTeleops
  /\ polled \in 0 .. 4 * Len(bindings)
  /\ (phase = "mode" /\ mode = "teleop" /\ last_mode # "teleop")
       => Len(bindings) < MaxTeleops
  /\ running \subseteq AllCommands

LEMMA TriggerFacts ==
  /\ \A i \in 1 .. 4 : Triggers[i] \in TriggerNames
  /\ {Triggers[i] : i \in 1 .. 4} = TriggerNames
  /\ Defaults \cup {AutoCommand} \subseteq AllCommands
BY DEF Triggers, TriggerNames, AllCommands

LEMMA KindsKept ==
  ASSUME LoopInv, KindsOK, [Next]_vars
  PROVE  KindsOK'
<1>1. CASE Poll
  <2>1. stage' \in {"wait", stage} /\ drive_target' \in {"zero", drive_target}
    BY <1>1 DEF Poll, Schedule, Cancel, EndAll, commands
  <2> QED
    BY <1>1, <2>1 DEF KindsOK, Poll, counters, inputs
<1>2. CASE ToDisabled \/ ToTeleop \/ ToTest \/ \E known \in BOOLEAN : ToAuto(known)
  <2>1. stage' \in {"wait", stage} /\ drive_target' \in {"zero", drive_target}
    BY <1>2 DEF ToDisabled, ToTeleop, ToTest, ToAuto, Schedule, Cancel, EndAll, commands
  <2>2. auto_command' \in BOOLEAN
    BY <1>2 DEF KindsOK, ToDisabled, ToTeleop, ToTest, ToAuto, setup
  <2>3. phase' = "read" /\ last_mode' = mode
        /\ UNCHANGED <<mode, read_counter, write_counter, reading, sees_piece>>
    BY <1>2 DEF ToDisabled, ToTeleop, ToTest, ToAuto, AfterModeChange, counters, inputs
  <2> QED
    BY <2>1, <2>2, <2>3 DEF KindsOK
<1>3. CASE \E m \in Modes : Sample(m)
  BY <1>3 DEF KindsOK, Sample, counters, inputs, setup
<1>4. CASE \E held \in SUBSET Buttons, piece \in BOOLEAN : Read(held, piece)
  <2>1. reading' \subseteq Buttons /\ sees_piece' \in BOOLEAN
    BY <1>4 DEF KindsOK, Read
  <2> QED
    BY <1>4, <2>1 DEF KindsOK, Read, setup, commands
<1>5. CASE SameMode \/ PollingDone \/ ScheduleDefaults \/ UNCHANGED vars
  BY <1>5 DEF KindsOK, SameMode, PollingDone, ScheduleDefaults, vars, counters, inputs,
     setup, commands
<1>6. CASE Write
  BY <1>6 DEF KindsOK, Write, inputs, setup, commands
<1>7. CASE NobodyDrives \/ \E c \in DriveCommands : Drive(c) \/ Arrive(c) \/ Wait(c) \/ Release(c)
  <2>1. \A c \in DriveCommands : c[1] \in {"drive"} \cup Assists
    BY WhoDrives DEF LoopInv, DriveInv, Scheduled, DriveCommands
  <2>2. drive_target' \in {"zero", "drive"} \cup Assists
    BY <1>7, <2>1 DEF KindsOK, NobodyDrives, Drive, Arrive, Wait, Release
  <2>3. stage' \in {"wait", "drive", "lock"}
    BY <1>7 DEF KindsOK, NobodyDrives, Drive, Arrive, Wait, Release
  <2>4. phase' = "defaults"
        /\ UNCHANGED <<mode, last_mode, read_counter, write_counter, reading, sees_piece,
                       auto_command>>
    BY <1>7 DEF NobodyDrives, Drive, Arrive, Wait, Release, Executed, counters, inputs, setup
  <2> QED
    BY <2>2, <2>3, <2>4 DEF KindsOK
<1> QED
  BY <1>1, <1>2, <1>3, <1>4, <1>5, <1>6, <1>7 DEF Next

LEMMA TriggersKept ==
  ASSUME LoopInv, TriggersOK, [Next]_vars
  PROVE  TriggersOK'
<1>1. CASE Poll
  <2> DEFINE t == Triggers[(polled % 4) + 1]
             n == (polled \div 4) + 1
  <2>1. polled \in Nat /\ Len(bindings) \in Nat /\ polled < 4 * Len(bindings)
    BY <1>1 DEF TriggersOK, Poll
  <2>2. t \in TriggerNames /\ n \in 1 .. Len(bindings)
    <3>1. (polled % 4) + 1 \in 1 .. 4
      BY <2>1
    <3>2. n \in 1 .. Len(bindings)
      BY <2>1
    <3> QED
      BY <3>1, <3>2, TriggerFacts
  <2>3. <<t, n>> \in AllCommands
    <3>1. n \in 1 .. MaxTeleops
      BY <2>1, <2>2, LoopAssumption DEF TriggersOK
    <3> HIDE DEF t, n
    <3> QED
      BY <2>2, <3>1, TriggerFacts DEF AllCommands
  <2>4. running' \subseteq running \cup {<<t, n>>}
    BY <1>1 DEF Poll, Schedule, Cancel, commands
  <2>5. /\ bindings' \in Seq(SUBSET TriggerNames) /\ Len(bindings') = Len(bindings)
    <3> DEFINE b == IF Holds(t) THEN bindings[n] \cup {t} ELSE bindings[n] \ {t}
    <3>1. bindings' = [bindings EXCEPT ![n] = b]
      BY <1>1 DEF Poll
    <3>2. b \in SUBSET TriggerNames
      BY <2>2 DEF TriggersOK
    <3> HIDE DEF b, n, t
    <3> QED
      BY <2>2, <3>1, <3>2 DEF TriggersOK
  <2>6. phase' = "poll" /\ polled' = polled + 1
    BY <1>1 DEF Poll
  <2> HIDE DEF t, n
  <2> QED
    BY <2>1, <2>3, <2>4, <2>5, <2>6 DEF TriggersOK
<1>2. CASE ToTeleop
  <2> DEFINE held == {Triggers[i] : i \in {j \in 1 .. 4 : Holds(Triggers[j])}}
  <2>1. bindings' = Append(bindings, held) /\ held \in SUBSET TriggerNames
    BY <1>2, TriggerFacts DEF ToTeleop, InitTeleop
  <2>2. running' \subseteq running /\ phase' = "read" /\ polled' = polled
    BY <1>2 DEF ToTeleop, Cancel, AfterModeChange
  <2>3. Len(bindings) < MaxTeleops
    BY <1>2 DEF TriggersOK, ToTeleop, AfterModeChange
  <2> HIDE DEF held
  <2>4. bindings' \in Seq(SUBSET TriggerNames) /\ Len(bindings') = Len(bindings) + 1
    BY <2>1 DEF TriggersOK
  <2> QED
    BY <2>2, <2>3, <2>4, LoopAssumption DEF TriggersOK
<1>3. CASE ToDisabled \/ ToTest \/ \E known \in BOOLEAN : ToAuto(known)
  <2>1. running' \subseteq running \cup {AutoCommand}
    BY <1>3 DEF ToDisabled, ToTest, ToAuto, Cancel, Schedule, commands
  <2>2. phase' = "read" /\ polled' = polled /\ bindings' = bindings
    BY <1>3 DEF ToDisabled, ToTest, ToAuto, AfterModeChange, setup
  <2> QED
    BY <2>1, <2>2, TriggerFacts DEF TriggersOK
<1>4. CASE \E m \in Modes : Sample(m)
  BY <1>4 DEF TriggersOK, Sample, setup
<1>5. CASE \E held \in SUBSET Buttons, piece \in BOOLEAN : Read(held, piece)
  <2>1. phase' = "poll" /\ polled' = 0 /\ bindings' = bindings /\ running' = running
    BY <1>5 DEF Read, setup, commands
  <2> QED
    BY <2>1 DEF TriggersOK
<1>6. CASE SameMode \/ PollingDone \/ Write \/ UNCHANGED vars
  <2>1. UNCHANGED <<polled, bindings, running, mode, last_mode>>
        /\ phase' \in {phase, "read", "execute", "sample"}
    BY <1>6 DEF SameMode, PollingDone, Write, vars, setup, commands
  <2> QED
    BY <2>1 DEF TriggersOK
<1>7. CASE ScheduleDefaults
  <2>1. {Default[s] : s \in {t \in defaults : \A c \in running : t \notin Requires(c)}}
          \subseteq Defaults
    BY DEF LoopInv, SetupOK, Defaults
  <2>2. running' \subseteq running \cup Defaults
    BY <1>7, <2>1 DEF ScheduleDefaults
  <2>3. phase' = "write" /\ polled' = polled /\ bindings' = bindings
    BY <1>7 DEF ScheduleDefaults, setup
  <2> QED
    BY <2>2, <2>3, TriggerFacts DEF TriggersOK
<1>8. CASE NobodyDrives \/ \E c \in DriveCommands : Drive(c) \/ Arrive(c) \/ Wait(c) \/ Release(c)
  <2>1. running' \subseteq running /\ phase' = "defaults" /\ polled' = polled
        /\ bindings' = bindings
    BY <1>8 DEF NobodyDrives, Drive, Arrive, Wait, Release, Executed, setup
  <2> QED
    BY <2>1 DEF TriggersOK
<1> QED
  BY <1>1, <1>2, <1>3, <1>4, <1>5, <1>6, <1>7, <1>8 DEF Next

(* Every variable keeps its type, and whatever is scheduled, interrupted   *)
(* or cancelled in whatever mode, no two scheduled commands require the    *)
(* same subsystem.                                                         *)
THEOREM TypeCorrect == Spec => []TypeOK
<1> DEFINE TypeInv == LoopInv /\ KindsOK /\ TriggersOK
<1>1. Init => TypeInv
  <2>1. Init => KindsOK
    BY DEF Init, KindsOK
  <2>2. Init => TriggersOK
    BY LoopAssumption DEF Init, TriggersOK
  <2> QED
    BY <2>1, <2>2, LoopInvInit
<1>2. TypeInv /\ [Next]_vars => TypeInv'
  BY LoopInvKept, KindsKept, TriggersKept
<1>3. TypeInv => TypeOK
  <2> SUFFICES ASSUME TypeInv PROVE TypeOK
    OBVIOUS
  <2>1. ASSUME NEW c \in running, NEW d \in running, Requires(c) \cap Requires(d) # {}
        PROVE  c = d
    <3>1. c \in Possible /\ d \in Possible
      BY DEF LoopInv, DriveInv, Scheduled
    <3>2. PICK s : s \in Requires(c) /\ s \in Requires(d)
      BY <2>1
    <3>3. CASE s = "drivetrain"
      BY <3>2, <3>3 DEF LoopInv, DriveInv, OneDrives
    <3>4. CASE s # "drivetrain"
      <4>1. s \in Mechanisms
        BY <3>2, <3>4 DEF Requires, Mechanisms
      <4> QED
        BY <3>1, <3>2, <4>1, WhoMoves
    <3> QED
      BY <3>3, <3>4
  <2>2. age \in [Driven -> 0 .. 2] /\ defaults \subseteq Driven
    BY DEF LoopInv, SetupOK, TeleopInv, PassesOK
  <2> QED
    BY <2>1, <2>2 DEF TypeOK, KindsOK, TriggersOK
<1> HIDE DEF TypeInv
<1> QED
  BY <1>1, <1>2, <1>3, PTL DEF Spec
=============================================================================
