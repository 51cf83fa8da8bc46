----------------------------- MODULE MotorMonkey -----------------------------
(***************************************************************************)
(* frc846::control::MotorMonkey: the single point through which every      *)
(* motor command of the robot passes.  Subsystems push commands on one     *)
(* queue; once per loop Tick predicts the current they would draw, scales  *)
(* them to the power limit, hands the survivors to the per-motor           *)
(* intermediate controllers, recomputes the limit from the battery sag and *)
(* lets every controller send its last command.                            *)
(*                                                                         *)
(* One thread runs all of it, so pc only follows the loops of              *)
(* WriteMessages; what changes between two of its iterations is the        *)
(* velocity a controller reports, which the vendor libraries refresh from  *)
(* their own threads.                                                      *)
(***************************************************************************)
EXTENDS SyncBuffer, CurrentTorque

CONSTANTS
  Slots,             (* slot ids ConstructController has handed out        *)
  DutyCycles,        (* values subsystems pass to WriteDC                  *)
  Positions,         (* ... to WritePosition; 0 is among them              *)
  Velocities,        (* ... to WriteVelocity                               *)
  Speeds,            (* speeds GetVelocity may report, as pct_speed        *)
  Conductance,       (* slot -> 1 / (winding + circuit resistance)         *)
  Voltages,          (* battery voltages                                   *)
  BatteryCC,         (* preference battery_cc                              *)
  VoltageMin,        (* preference voltage_min                             *)
  RecalThresh,       (* preference recal_voltage_thresh                    *)
  DefaultMaxDraw, MinMaxDraw, MaxMaxDraw,  (* the ..._max_draw preferences *)
  BrownoutPermLoops, (* preference brownout_perm_loops                     *)
  InitialLoops,      (* num_loops_last_brown before the first brownout     *)
  NaN,               (* the double 0.0 / 0.0                               *)
  NoCommand,         (* a device nothing has been sent to yet              *)
  MaxBacklog         (* bound of the model on the queue, not of the code   *)

ASSUME MotorAssumption ==
  /\ DutyCycles \subseteq Int /\ Velocities \subseteq Int /\ Speeds \subseteq Int
  /\ Positions \subseteq Int /\ 0 \in Positions /\ 0 \in Speeds
  /\ Conductance \in [Slots -> Nat \ {0}]
  /\ Voltages \subseteq Nat \ {0}
  /\ {BatteryCC, VoltageMin, RecalThresh} \subseteq Nat
  /\ {DefaultMaxDraw, MinMaxDraw, MaxMaxDraw} \subseteq Nat \ {0}
  /\ MinMaxDraw <= DefaultMaxDraw /\ DefaultMaxDraw <= MaxMaxDraw
  /\ BrownoutPermLoops \in Nat \ {0}
  /\ InitialLoops \in Nat /\ InitialLoops >= BrownoutPermLoops
  /\ NaN \notin Int
  /\ MaxBacklog \in Nat

VARIABLES
  pc,                    (* where the loop thread is inside Tick           *)
  control_messages,      (* the queue of MotorMessages                     *)
  temp_messages,         (* WriteMessages' copy of it, consumed by pass 1  *)
  total_current,         (* sum of the predicted draws                     *)
  second_total_current,  (* ... without regenerative braking               *)
  scale_factor,          (* what pass 2 scales duty cycles by              *)
  last_command,          (* last_command_ of each intermediate controller  *)
  last_error,            (* last_error_ # kAllOK, likewise                 *)
  device,                (* last command each device accepted              *)
  velocity,              (* what GetVelocity would return for each slot    *)
  battery_voltage, last_disabled_voltage, sync_buffer,
  max_draw,              (* max_draw_                                      *)
  num_loops_last_brown,
  requested,             (* history: the last command pushed for each slot *)
  written_draw,          (* history: draw of the duty cycles pass 2 wrote  *)
  steady                 (* history: no speed changed since Tick began     *)

messages == <<control_messages, temp_messages>>
pass     == <<total_current, second_total_current, scale_factor>>
drives   == <<last_command, last_error, device>>
battery  == <<battery_voltage, last_disabled_voltage>>
power    == <<sync_buffer, max_draw, num_loops_last_brown>>
history  == <<requested, written_draw, steady>>
vars == <<pc, messages, pass, drives, velocity, battery, power, history>>

Commands ==
  [type : {"DC"}, value : DutyCycles] \cup
  [type : {"Position"}, value : Positions] \cup
  [type : {"Velocity"}, value : Velocities]

(* The first alternative of the variant, value-initialised: radian 0.      *)
DefaultCommand == [type |-> "Position", value |-> 0]

Messages == [slot : Slots, command : Commands]

Init ==
  /\ pc = "loop"
  /\ control_messages = <<>> /\ temp_messages = <<>>
  /\ total_current = 0 /\ second_total_current = 0 /\ scale_factor = NoScaling
  /\ last_command = [s \in Slots |-> DefaultCommand]
  /\ last_error = [s \in Slots |-> FALSE]
  /\ device = [s \in Slots |-> NoCommand]
  /\ velocity = [s \in Slots |-> 0]
  /\ battery_voltage = 0 /\ last_disabled_voltage = 0
  /\ sync_buffer = EmptyBuffer
  /\ max_draw = DefaultMaxDraw
  /\ num_loops_last_brown = InitialLoops
  /\ requested = [s \in Slots |-> DefaultCommand]
  /\ written_draw = 0 /\ steady = TRUE
-----------------------------------------------------------------------------
(***************************************************************************)
(* Between two Ticks the subsystems run.                                   *)
(***************************************************************************)

(* WriteDC, WriteVelocity and WritePosition push one message.              *)
Push(s, c) ==
  /\ pc = "loop"
  /\ Len(control_messages) < MaxBacklog
  /\ control_messages' = Append(control_messages, [slot |-> s, command |-> c])
  /\ requested' = [requested EXCEPT ![s] = c]
  /\ UNCHANGED <<pc, temp_messages, pass, drives, velocity, battery, power,
                 written_draw, steady>>

(* Any call wrapped in SMART_RETRY leaves last_error_ read and cleared,    *)
(* whether it succeeded or not.                                            *)
ConfigCall(s) ==
  /\ pc = "loop"
  /\ last_error[s]
  /\ last_error' = [last_error EXCEPT ![s] = FALSE]
  /\ UNCHANGED <<pc, messages, pass, last_command, device, velocity, battery,
                 power, history>>

(* A status frame changes what the controller reports.                     *)
ReportVelocity(s, v) ==
  /\ velocity[s] # v
  /\ velocity' = [velocity EXCEPT ![s] = v]
  /\ steady' = (pc = "loop")
  /\ UNCHANGED <<pc, messages, pass, drives, battery, power, requested,
                 written_draw>>
-----------------------------------------------------------------------------
(***************************************************************************)
(* Tick and WriteMessages.                                                 *)
(***************************************************************************)

(* Slip: stale commands dropped while disabled.                            *)
TickDisabledDropping(volts) ==
  /\ pc = "loop"
  /\ battery_voltage' = volts
  /\ last_disabled_voltage' = volts
  /\ control_messages' = <<>>
  /\ UNCHANGED <<pc, temp_messages, pass, drives, velocity, power, history>>

(* Tick(true) samples the battery and returns: the queue is not drained.   *)
TickDisabled(volts) ==
  /\ pc = "loop"
  /\ battery_voltage' = volts
  /\ last_disabled_voltage' = volts
  /\ UNCHANGED <<pc, messages, pass, drives, velocity, power, history>>

(* Tick(false) up to the first loop of WriteMessages.                      *)
TickEnabled(volts) ==
  /\ pc = "loop"
  /\ pc' = "predict"
  /\ battery_voltage' = volts
  /\ temp_messages' = control_messages
  /\ UNCHANGED <<control_messages, pass, drives, velocity,
                 last_disabled_voltage, power, history>>

(* Position and velocity commands are predicted as if they were DC 0.      *)
PredictedDuty(c) == IF c.type = "DC" THEN c.value ELSE 0

DrawOf(s, duty) ==
  PredictDraw(duty, velocity[s], battery_voltage, Conductance[s])

Regenerates(s, draw) ==
  \/ velocity[s] > 0 /\ draw < 0
  \/ velocity[s] < 0 /\ draw > 0

(* Slip: = for +=.                                                         *)
OnlyThis(total, draw) == Magnitude(draw)

Accumulate(total, draw) == total + Magnitude(draw)

(* One iteration of the first loop of WriteMessages.                       *)
Predict ==
  /\ pc = "predict"
  /\ temp_messages # <<>>
  /\ LET msg  == Head(temp_messages)
         draw == DrawOf(msg.slot, PredictedDuty(msg.command))
     IN  /\ total_current' = Accumulate(total_current, draw)
         /\ second_total_current' =
              IF Regenerates(msg.slot, draw)
              THEN second_total_current
              ELSE Accumulate(second_total_current, draw)
  /\ temp_messages' = Tail(temp_messages)
  /\ UNCHANGED <<pc, control_messages, scale_factor, drives, velocity, battery,
                 power, history>>

(* Comparing with a NaN limit is false: nothing is scaled.                 *)
OverBudget == max_draw # NaN /\ max_draw > 0 /\ total_current > max_draw

Rescale ==
  /\ pc = "predict"
  /\ temp_messages = <<>>
  /\ pc' = "write"
  /\ scale_factor' =
       IF OverBudget THEN [num |-> max_draw, den |-> total_current] ELSE NoScaling
  /\ UNCHANGED <<messages, total_current, second_total_current, drives,
                 velocity, battery, power, history>>

(* Only duty cycles are scaled, with the speed read a second time.         *)
Outgoing(msg) ==
  IF msg.command.type = "DC"
  THEN [type  |-> "DC",
        value |-> ScaleDuty(scale_factor, msg.command.value, velocity[msg.slot])]
  ELSE msg.command

(* IsDuplicateControlMessage compares with last_command_.                  *)
(* Slip: && for ||.                                                        *)
NewAndFailed(s, out) == last_command[s] # out /\ last_error[s]
MustSend(s, out) == last_command[s] # out \/ last_error[s]

(* One iteration of the second loop.  GetLastErrorCode reads and clears    *)
(* last_error_, and runs in both branches: in the condition or inside      *)
(* LOG_IF_ERROR.                                                           *)
Write ==
  /\ pc = "write"
  /\ control_messages # <<>>
  /\ LET msg == Head(control_messages)
         s   == msg.slot
         out == Outgoing(msg)
     IN  /\ last_command' = IF MustSend(s, out)
                            THEN [last_command EXCEPT ![s] = out]
                            ELSE last_command
         /\ last_error' = [last_error EXCEPT ![s] = FALSE]
         /\ written_draw' = IF out.type = "DC"
                            THEN written_draw + Magnitude(DrawOf(s, out.value))
                            ELSE written_draw
  /\ control_messages' = Tail(control_messages)
  /\ UNCHANGED <<pc, temp_messages, pass, device, velocity, battery, power,
                 requested, steady>>
-----------------------------------------------------------------------------
(***************************************************************************)
(* The rest of Tick(false): the limit, then every controller's Tick.       *)
(***************************************************************************)

(* The quotient num / den passes both range tests.                         *)
WithinRange(num, den) == MinMaxDraw * den <= num /\ num <= MaxMaxDraw * den

(* The limit the deepest recorded sag suggests.  0.0 / 0.0 passes both     *)
(* range tests, since every comparison with it is false; x / 0.0 does not. *)
DrawFromTrough(buf) ==
  LET trough    == Trough(buf, SyncDiff(buf))
      draw      == BatteryCC - trough[1]
      volts     == trough[2]
      headroom  == draw * (last_disabled_voltage - VoltageMin)
      sag       == last_disabled_voltage - volts
      num       == IF sag < 0 THEN -headroom ELSE headroom
      den       == Magnitude(sag)
  IN  CASE volts > RecalThresh -> max_draw
        [] volts <= RecalThresh /\ den = 0 ->
             IF num = 0 THEN NaN ELSE max_draw
        [] OTHER -> IF WithinRange(num, den) THEN num \div den ELSE max_draw

(* Slip: the count is tested before the brownout resets it.                *)
RecalculateLate(buf, brownedOut) ==
  /\ num_loops_last_brown' =
       IF IsValid(buf) /\ brownedOut THEN 0 ELSE num_loops_last_brown
  /\ max_draw' =
       IF ~IsValid(buf) THEN max_draw
       ELSE IF num_loops_last_brown < BrownoutPermLoops THEN MinMaxDraw
       ELSE DrawFromTrough(buf)

(* A brownout is only noticed once the buffer is full, and since nothing   *)
(* increments num_loops_last_brown it then holds the limit for good.       *)
RecalculateMaxDraw(buf, brownedOut) ==
  /\ num_loops_last_brown' =
       IF IsValid(buf) /\ brownedOut THEN 0 ELSE num_loops_last_brown
  /\ max_draw' =
       IF ~IsValid(buf) THEN max_draw
       ELSE IF num_loops_last_brown' < BrownoutPermLoops THEN MinMaxDraw
       ELSE DrawFromTrough(buf)

(* The end of Tick: reachable is the set of devices whose bus transfer     *)
(* succeeds.  Every controller sends last_command_ again on every Tick.    *)
(* The locals of WriteMessages go out of scope.                            *)
FinishTick(reachable, brownedOut) ==
  /\ pc = "write"
  /\ control_messages = <<>>
  /\ pc' = "loop"
  /\ sync_buffer' = Add(sync_buffer, BatteryCC - second_total_current,
                        battery_voltage)
  /\ RecalculateMaxDraw(sync_buffer', brownedOut)
  /\ device' = [s \in Slots |->
                  IF s \in reachable THEN last_command[s] ELSE device[s]]
  /\ last_error' = [s \in Slots |-> s \notin reachable]
  /\ total_current' = 0 /\ second_total_current' = 0 /\ scale_factor' = NoScaling
  /\ written_draw' = 0 /\ steady' = TRUE
  /\ UNCHANGED <<messages, last_command, velocity, battery, requested>>
-----------------------------------------------------------------------------
Next ==
  \/ \E s \in Slots, c \in Commands : Push(s, c)
  \/ \E s \in Slots : ConfigCall(s)
  \/ \E s \in Slots, v \in Speeds : ReportVelocity(s, v)
  \/ \E volts \in Voltages : TickDisabled(volts) \/ TickEnabled(volts)
  \/ Predict
  \/ Rescale
  \/ Write
  \/ \E reachable \in SUBSET Slots, brownedOut \in BOOLEAN :
       FinishTick(reachable, brownedOut)

Spec == Init /\ [][Next]_vars
-----------------------------------------------------------------------------
(***************************************************************************)
(* Properties.                                                             *)
(***************************************************************************)

(* A scaled duty cycle lies between the requested one and a speed.         *)
Between(x, a, b) == (a <= x /\ x <= b) \/ (b <= x /\ x <= a)
Realizes(out, c) ==
  IF c.type = "DC"
  THEN out.type = "DC" /\ \E v \in Speeds : Between(out.value, c.value, v)
  ELSE out = c

OutCommands == [type : {"DC", "Position", "Velocity"}, value : Int]

(* Every variable holds a value of its kind; the buffer's two vectors never *)
(* differ in size, so IsValid (DoubleSyncBuffer.cc:23) never throws.        *)
TypeOK ==
  /\ pc \in {"loop", "predict", "write"}
  /\ control_messages \in Seq(Messages) /\ temp_messages \in Seq(Messages)
  /\ total_current \in Nat /\ second_total_current \in Nat
  /\ scale_factor \in [num : Nat \ {0}, den : Nat \ {0}]
  /\ last_command \in [Slots -> OutCommands]
  /\ last_error \in [Slots -> BOOLEAN]
  /\ device \in [Slots -> OutCommands \cup {NoCommand}]
  /\ velocity \in [Slots -> Speeds]
  /\ battery_voltage \in Nat /\ last_disabled_voltage \in Nat
  /\ sync_buffer \in [m1 : Seq(Int), m2 : Seq(Int)] /\ SameSize(sync_buffer)
  /\ max_draw \in Int \cup {NaN}
  /\ num_loops_last_brown \in Nat
  /\ requested \in [Slots -> Commands]
  /\ written_draw \in Nat /\ steady \in BOOLEAN

(* The last message queued for a slot is the last command requested of it. *)
LastFor(q, s, i) == q[i].slot = s /\ \A j \in DOMAIN q : q[j].slot = s => j <= i

(* Nothing overtakes and nothing is lost between a subsystem's write and   *)
(* the controller: the newest command of a slot is the last of its         *)
(* messages still queued, or, when none is left, what the controller will  *)
(* send, even where WriteMessages dropped it as a duplicate.               *)
LatestCommandWins ==
  \A s \in Slots :
    /\ \A i \in DOMAIN control_messages :
         LastFor(control_messages, s, i) =>
           control_messages[i].command = requested[s]
    /\ (\A i \in DOMAIN control_messages : control_messages[i].slot # s) =>
         Realizes(last_command[s], requested[s])

(* The draw predicted for the duty cycles WriteMessages has written in one *)
(* Tick stays within the limit it was given, however long the backlog, as  *)
(* long as no speed changed between its two passes.                        *)
BatchWithinBudget ==
  (pc = "write" /\ steady /\ max_draw # NaN) => written_draw <= max_draw

(* Once a brownout has been noticed the limit is the minimum one, for good. *)
BrownoutPinsLimit ==
  num_loops_last_brown < BrownoutPermLoops => max_draw = MinMaxDraw
BrownoutIsPermanent ==
  [][num_loops_last_brown = 0 => num_loops_last_brown' = 0]_vars

(* Whatever was recorded, the limit is in the configured range, or not a   *)
(* number at all, which a flat, idle battery can make it.                  *)
LimitInRange == max_draw \in MinMaxDraw .. MaxMaxDraw \/ max_draw = NaN

(* A Tick that has begun runs on: the loops are straight-line code of one  *)
(* thread.  Nothing obliges the field to enable the robot.                 *)
TickFairness ==
  WF_vars(Predict \/ Rescale \/ Write
          \/ \E r \in SUBSET Slots, b \in BOOLEAN : FinishTick(r, b))

(* ... and the environment in which commands must arrive: the robot keeps  *)
(* being enabled, and no device is unreachable for ever.                   *)
MatchFairness ==
  /\ SF_vars(\E volts \in Voltages : TickEnabled(volts))
  /\ \A s \in Slots :
       SF_vars(\E r \in SUBSET Slots, b \in BOOLEAN : s \in r /\ FinishTick(r, b))

FairSpec == Spec /\ TickFairness
LiveSpec == Spec /\ TickFairness /\ MatchFairness
-----------------------------------------------------------------------------
(* Queue, scaling and resending together behave as one mailbox per motor.  *)
Mailbox == INSTANCE CommandMailbox WITH
  Requests <- Commands, Start <- DefaultCommand, Nothing <- NoCommand,
  goal <- requested, applied <- device
ImplementsMailbox == Mailbox!Spec

(* A request that stands is realized on its device, whatever the backlog,  *)
(* the duplicates dropped and the transfers that failed before.            *)
Arrived(s, c) == device[s] # NoCommand /\ Realizes(device[s], c)
RequestsArrive ==
  \A s \in Slots : \A c \in Commands :
    (requested[s] = c) ~> (requested[s] # c \/ Arrived(s, c))
=============================================================================
