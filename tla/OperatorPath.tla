---------------------------- MODULE OperatorPath ----------------------------
(***************************************************************************)
(* From the controllers to the mechanisms: ControlInputSubsystem turns     *)
(* buttons into readings, CoralCommand, AlgalCommand and ClimberCommand    *)
(* turn readings into targets, the superstructures turn targets into what  *)
(* their telescope, elevator, wrists and end effectors are told.           *)
(*                                                                         *)
(* Buttons are read and the coral side is written in one pass (group A),   *)
(* the algal side and the climber in the next (group B); the commands run  *)
(* in both.  How the scheduler comes to run them is module RobotLoop's;    *)
(* here they run from the pass after the robot has been enabled with       *)
(* default commands until it is disabled or enters teleop once more.       *)
(***************************************************************************)
EXTENDS Integers, Sequences

CONSTANTS
  DriverInputs,    (* sets of buttons the driver may hold together         *)
  OperatorInputs,  (* sets of buttons the operator may hold together       *)
  Sightings,       (* sets of switches one status frame may show           *)
  Children,        (* the mechanisms whose init_... preference is set      *)
  override_distance_sensor

ASSUME OperatorAssumption ==
  /\ DriverInputs \subseteq SUBSET STRING /\ OperatorInputs \subseteq SUBSET STRING
  /\ Children \subseteq {"telescope", "coral_wrist", "coral_ee",
                         "elevator", "algal_wrist", "algal_ee"}
  /\ Sightings \subseteq SUBSET {"has_piece", "see_reef"}
  /\ override_distance_sensor \in BOOLEAN

(* The if-else chains, first button first.                                 *)
CoralChain == <<<<"a_button", "ScoreL2">>, <<"b_button", "ScoreL3">>,
                <<"x_button", "ScoreL4">>>>
AlgalChain == <<<<"pov_up", "Net">>, <<"pov_right", "L3Pick">>,
                <<"pov_down", "Processor">>, <<"pov_left", "L2Pick">>,
                <<"right_trigger", "GroundIntake">>,
                <<"right_bumper", "OnTopIntake">>>>

CoralStates == {"StowNoPiece", "StowWithPiece", "ScoreL2", "ScoreL3", "ScoreL4"}
AlgalStates == {"Stow", "Processor", "GroundIntake", "OnTopIntake", "Net",
                "L2Pick", "L3Pick"}
ClimbSetpoints == {"stow", "pre_climb", "climb"}
Switches == {"has_piece", "see_reef"}
Told == [position : CoralStates \cup AlgalStates \cup {"nothing"},
         roller : {"hold", "score", "nothing"}]

VARIABLES
  phase,           (* what the pass does next                              *)
  group,           (* of this pass                                         *)
  mode,            (* "disabled", "teleop" or any other                    *)
  has_defaults,    (* InitTeleop has run                                   *)
  scheduled,       (* the default commands are scheduled                   *)
  readings,        (* control_input's                                      *)
  previous_driver, previous_operator,  (* the buttons whose edges count    *)
  climb_state,
  ee_readings,     (* the switches coral_end_effector saw                  *)
  coral_target, algal_target, climber_target,
  coral, algal,    (* what each side's mechanisms were told last           *)
  climber,         (* the setpoint the climber was told last               *)
  runs,            (* history: passes the commands ran without a gap, to 3 *)
  advances         (* history: climb stages advanced in one hold, to 2     *)

input   == <<readings, previous_driver, previous_operator, climb_state, ee_readings>>
targets == <<coral_target, algal_target, climber_target>>
told    == <<coral, algal, climber>>
vars == <<phase, group, mode, has_defaults, scheduled, input, targets, told,
          runs, advances>>

(* Value-initialised readings and zero targets.                            *)
NoReadings ==
  [position_coral |-> FALSE, position_algal |-> FALSE,
   coral_state |-> "StowNoPiece", algal_state |-> "Stow",
   score_coral |-> FALSE, score_algae |-> FALSE, climb_state |-> 0]

Init ==
  /\ phase = "mode" /\ group = "A"
  /\ mode = "disabled" /\ has_defaults = FALSE /\ scheduled = FALSE
  /\ readings = NoReadings
  /\ previous_driver = {} /\ previous_operator = {}
  /\ climb_state = 0 /\ ee_readings = {}
  /\ coral_target = [state |-> "StowNoPiece", score |-> FALSE]
  /\ algal_target = [state |-> "Stow", score |-> FALSE]
  /\ climber_target = "stow"
  /\ coral = [position |-> "nothing", roller |-> "nothing"] /\ algal = coral
  /\ climber = "stow"
  /\ runs = 0 /\ advances = 0
-----------------------------------------------------------------------------
(* The mode changes, or does not.  Default commands that are replaced are  *)
(* unscheduled.                                                            *)
Mode(m) ==
  /\ phase = "mode"
  /\ phase' = "read"
  /\ mode' = m
  /\ has_defaults' = (has_defaults \/ m = "teleop")
  /\ scheduled' = (scheduled /\ (m = mode \/ m = "other"))
  /\ runs' = IF scheduled' THEN runs ELSE 0
  /\ UNCHANGED <<group, input, targets, told, advances>>

FirstHeld(chain, held, otherwise) ==
  LET pressed == {i \in DOMAIN chain : chain[i][1] \in held}
  IN  IF pressed = {} THEN otherwise
      ELSE chain[CHOOSE i \in pressed : \A j \in pressed : i <= j][2]

(* A toggle of a fresh structure: it is set for the reading of the edge.   *)
Toggled(button, driver) == button \in driver /\ button \notin previous_driver

(* One press of the trigger is one stage; the third is the first again.    *)
Climbed(operator) ==
  IF "left_trigger" \in operator \ previous_operator
  THEN (climb_state + 1) % 3 ELSE climb_state

(* The chain of the coral states hangs on the driver's Y edge: with it the *)
(* state falls to the default and the operator is not asked.               *)
UpdateWithInput(driver, operator) ==
  [position_algal |-> Toggled("b_button", driver),
   position_coral |-> Toggled("y_button", driver),
   coral_state |-> IF Toggled("y_button", driver) THEN NoReadings.coral_state
                   ELSE FirstHeld(CoralChain, operator, readings.coral_state),
   algal_state |-> FirstHeld(AlgalChain, operator, readings.algal_state),
   score_coral |-> "left_bumper" \in operator,
   score_algae |-> "right_trigger" \in driver,
   climb_state |-> Climbed(operator)]

ReadControls(driver, operator) ==
  /\ readings' = UpdateWithInput(driver, operator)
  /\ previous_driver' = driver \cap {"b_button", "y_button"}
  /\ previous_operator' = operator \cap {"left_trigger"}
  /\ climb_state' = readings'.climb_state
  /\ advances' = IF "left_trigger" \notin operator THEN 0
                 ELSE IF climb_state' # climb_state /\ advances < 2
                      THEN advances + 1 ELSE advances

(* Group A: control_input and the coral side.  Both switches come from one *)
(* status frame, of whatever age.                                          *)
ReadA(driver, operator, switches) ==
  /\ phase = "read" /\ group = "A"
  /\ phase' = "command"
  /\ ReadControls(driver, operator)
  /\ ee_readings' = IF "coral_ee" \in Children THEN switches ELSE {}
  /\ UNCHANGED <<group, mode, has_defaults, scheduled, targets, told, runs>>

(* Group B: the algal end effector has no sensor.                          *)
ReadB ==
  /\ phase = "read" /\ group = "B"
  /\ phase' = "command"
  /\ UNCHANGED <<group, mode, has_defaults, scheduled, input, targets, told,
                 runs, advances>>
-----------------------------------------------------------------------------
(* The coral side, too, is positioned by position_algal; position_coral is *)
(* read by nobody.                                                         *)
CoralCommand ==
  [state |-> IF readings.position_algal THEN readings.coral_state ELSE "StowNoPiece",
   score |-> readings.score_coral]

(* Slip: the target's score is set and never reset.                        *)
AlgalCommandSticky ==
  [state |-> IF readings.position_algal THEN readings.algal_state ELSE "Stow",
   score |-> algal_target.score \/ readings.score_algae]

AlgalCommand ==
  [state |-> IF readings.position_algal THEN readings.algal_state ELSE "Stow",
   score |-> readings.score_algae]

ClimberCommand ==
  IF readings.climb_state = 1 THEN "pre_climb"
  ELSE IF readings.climb_state = 2 THEN "climb" ELSE "stow"

(* Slip: the commands run once for a reading, when both groups have read.  *)
ExecutesOncePerReading == scheduled /\ group = "B"
Executes == scheduled

(* The scheduler executes, then schedules the default commands.            *)
Command ==
  /\ phase = "command"
  /\ phase' = "write"
  /\ IF Executes
     THEN /\ coral_target' = CoralCommand
          /\ algal_target' = AlgalCommand
          /\ climber_target' = ClimberCommand
     ELSE UNCHANGED targets
  /\ runs' = IF scheduled /\ runs < 3 THEN runs + 1 ELSE runs
  /\ scheduled' = (has_defaults /\ mode # "disabled")
  /\ UNCHANGED <<group, mode, has_defaults, input, told, advances>>
-----------------------------------------------------------------------------
(* A coral with the reef in sight is scored without being asked.           *)
SeesTheReef == ~override_distance_sensor /\ ee_readings = Switches

(* Slip: either switch is enough.                                          *)
CoralRollerEager(target) ==
  IF target.score \/ (~override_distance_sensor /\ ee_readings # {})
  THEN "score" ELSE "hold"
CoralRoller(target) == IF target.score \/ SeesTheReef THEN "score" ELSE "hold"

(* What a side's mechanisms are told: a child that is not initialised is   *)
(* told nothing.                                                           *)
Tell(movers, ee, position, roller) ==
  [position |-> IF movers \cap Children # {} THEN position ELSE "nothing",
   roller |-> IF ee \in Children THEN roller ELSE "nothing"]

WriteCoral ==
  coral' = Tell({"telescope", "coral_wrist"}, "coral_ee",
                coral_target.state, CoralRoller(coral_target))

WriteAlgal ==
  algal' = Tell({"elevator", "algal_wrist"}, "algal_ee", algal_target.state,
                IF algal_target.score THEN "score" ELSE "hold")

WriteA ==
  /\ phase = "write" /\ group = "A"
  /\ WriteCoral
  /\ phase' = "mode" /\ group' = "B"
  /\ UNCHANGED <<mode, has_defaults, scheduled, input, targets, algal, climber,
                 runs, advances>>

WriteB ==
  /\ phase = "write" /\ group = "B"
  /\ WriteAlgal
  /\ climber' = climber_target
  /\ phase' = "mode" /\ group' = "A"
  /\ UNCHANGED <<mode, has_defaults, scheduled, input, targets, coral, runs,
                 advances>>

Next ==
  \/ \E m \in {"disabled", "teleop", "other"} : Mode(m)
  \/ \E d \in DriverInputs, o \in OperatorInputs, s \in Sightings : ReadA(d, o, s)
  \/ ReadB
  \/ Command
  \/ WriteA
  \/ WriteB

Spec == Init /\ [][Next]_vars
(* The loop is one thread that never blocks for good.                      *)
LiveSpec == Spec /\ WF_vars(Next)
-----------------------------------------------------------------------------
(* Every variable holds a value of its kind.                               *)
TypeOK ==
  /\ phase \in {"mode", "read", "command", "write"} /\ group \in {"A", "B"}
  /\ mode \in {"disabled", "teleop", "other"}
  /\ has_defaults \in BOOLEAN /\ scheduled \in BOOLEAN
  /\ readings \in [position_coral : BOOLEAN, position_algal : BOOLEAN,
                   coral_state : CoralStates, algal_state : AlgalStates,
                   score_coral : BOOLEAN, score_algae : BOOLEAN,
                   climb_state : 0 .. 2]
  /\ previous_driver \subseteq {"b_button", "y_button"}
  /\ previous_operator \subseteq {"left_trigger"}
  /\ climb_state \in 0 .. 2 /\ ee_readings \subseteq Switches
  /\ coral_target \in [state : CoralStates, score : BOOLEAN]
  /\ algal_target \in [state : AlgalStates, score : BOOLEAN]
  /\ climber_target \in ClimbSetpoints /\ climber \in ClimbSetpoints
  /\ coral \in Told /\ algal \in Told
  /\ runs \in 0 .. 3 /\ advances \in 0 .. 2

(* From its write until the next reading each side shows what the reading  *)
(* asks for, and nothing of a reading before it, of a button let go of or  *)
(* of a target kept from before the robot was disabled: the coral side all *)
(* through the pass in which the algal side still shows the last reading,  *)
(* then the algal side and the climber too.  The coral side is in position *)
(* only for a toggle of this reading (which of the two is left open), the  *)
(* algal side exactly for its toggle; a roller scores when its button is   *)
(* held, and the coral's else only with both switches.                     *)
CoralActs ==
  /\ coral.position \in {"nothing", "StowNoPiece", readings.coral_state}
  /\ coral.position \in {"nothing", "StowNoPiece"}
       \/ readings.position_algal \/ readings.position_coral
  /\ coral.roller = "score" => readings.score_coral \/ ee_readings = Switches
  /\ coral.roller = "hold" => ~readings.score_coral

AlgalActs ==
  /\ algal.position \in {"nothing", IF readings.position_algal
                           THEN readings.algal_state ELSE "Stow"}
  /\ algal.roller \in {"nothing", IF readings.score_algae THEN "score" ELSE "hold"}
  /\ climber = IF readings.climb_state = 0 THEN "stow"
               ELSE IF readings.climb_state = 1 THEN "pre_climb" ELSE "climb"

ActsOnReading ==
  runs >= 2 =>
    /\ (group = "B" \/ phase \in {"mode", "read"}) => CoralActs
    /\ (group = "A" /\ phase \in {"mode", "read"}) => AlgalActs

(* position_algal never holds in two readings running: control_input.cc:81 *)
(* inverts a value that is fresh each time, so the mechanisms are told to  *)
(* stow again with the next reading, however long the button is held.      *)
PositionLastsOneReading ==
  [][(phase = "read" /\ group = "A" /\ readings.position_algal)
       => ~readings'.position_algal]_vars

(* A trigger that is held advances the climb once, over any number of      *)
(* readings and changes of mode.                                           *)
HoldAdvancesOnce == advances <= 1

(* Both end effectors come to rest when nobody asks and no reef is seen:   *)
(* a target's score does not outlive its button.                           *)
ScoringEnds ==
  <>[](/\ mode = "teleop" /\ ~readings.score_coral /\ ~readings.score_algae
       /\ ee_readings # Switches)
    => <>[](coral.roller # "score" /\ algal.roller # "score")
=============================================================================
