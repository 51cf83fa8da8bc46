------------------------- MODULE OperatorPathProofs -------------------------
(***************************************************************************)
(* Proofs about OperatorPath, for any buttons held together, any mechanisms*)
(* initialised and both settings of the distance sensor.                   *)
(***************************************************************************)
EXTENDS OperatorPath, TLAPS

(* A chain gives one of its states, or what it is given to fall back on.   *)
LEMMA CoralChainGives ==
  ASSUME NEW held, NEW otherwise \in CoralStates
  PROVE  FirstHeld(CoralChain, held, otherwise) \in CoralStates
<1> DEFINE pressed == {i \in DOMAIN CoralChain : CoralChain[i][1] \in held}
<1>1. DOMAIN CoralChain = {1, 2, 3}
  BY DEF CoralChain
<1>2. \A i \in {1, 2, 3} : CoralChain[i][2] \in CoralStates
  BY DEF CoralChain, CoralStates
<1>3. pressed = {} \/ \E i \in pressed : \A j \in pressed : i <= j
  <2>1. pressed \subseteq {1, 2, 3}
    BY <1>1
  <2> HIDE DEF pressed
  <2> QED
    BY <2>1
<1>4. pressed # {} => (CHOOSE i \in pressed : \A j \in pressed : i <= j) \in {1, 2, 3}
  BY <1>1, <1>3
<1> QED
  BY <1>2, <1>4 DEF FirstHeld

LEMMA AlgalChainGives ==
  ASSUME NEW held, NEW otherwise \in AlgalStates
  PROVE  FirstHeld(AlgalChain, held, otherwise) \in AlgalStates
<1> DEFINE pressed == {i \in DOMAIN AlgalChain : AlgalChain[i][1] \in held}
<1>1. DOMAIN AlgalChain = {1, 2, 3, 4, 5, 6}
  BY DEF AlgalChain
<1>2. \A i \in {1, 2, 3, 4, 5, 6} : AlgalChain[i][2] \in AlgalStates
  BY DEF AlgalChain, AlgalStates
<1>3. pressed = {} \/ \E i \in pressed : \A j \in pressed : i <= j
  <2>1. pressed \subseteq {1, 2, 3, 4, 5, 6}
    BY <1>1
  <2> HIDE DEF pressed
  <2> QED
    BY <2>1
<1>4. pressed # {} => (CHOOSE i \in pressed : \A j \in pressed : i <= j) \in {1, 2, 3, 4, 5, 6}
  BY <1>1, <1>3
<1> QED
  BY <1>2, <1>4 DEF FirstHeld

(* The readings computed in a pass are readings.                           *)
Readings == [position_coral : BOOLEAN, position_algal : BOOLEAN,
             coral_state : CoralStates, algal_state : AlgalStates,
             score_coral : BOOLEAN, score_algae : BOOLEAN, climb_state : 0 .. 2]

LEMMA UpdateGives ==
  ASSUME readings \in Readings, climb_state \in 0 .. 2, NEW driver, NEW operator
  PROVE  UpdateWithInput(driver, operator) \in Readings
<1>1. NoReadings.coral_state \in CoralStates
  BY DEF NoReadings, CoralStates
<1>2. /\ readings.coral_state \in CoralStates
      /\ readings.algal_state \in AlgalStates
  BY DEF Readings
<1>3. FirstHeld(CoralChain, operator, readings.coral_state) \in CoralStates
  BY <1>2, CoralChainGives
<1>4. FirstHeld(AlgalChain, operator, readings.algal_state) \in AlgalStates
  BY <1>2, AlgalChainGives
<1>5. Climbed(operator) \in 0 .. 2
  BY DEF Climbed
<1>6. \A button : Toggled(button, driver) \in BOOLEAN
  BY DEF Toggled
<1> QED
  BY <1>1, <1>3, <1>4, <1>5, <1>6 DEF UpdateWithInput, Readings
-----------------------------------------------------------------------------
THEOREM TypeCorrect == Spec => []TypeOK
<1>1. Init => TypeOK
  <2> SUFFICES ASSUME Init PROVE TypeOK
    OBVIOUS
  <2>1. readings \in Readings
    BY DEF Init, NoReadings, Readings, CoralStates, AlgalStates
  <2>2. coral \in Told /\ algal \in Told
    BY DEF Init, Told
  <2>3. /\ coral_target \in [state : CoralStates, score : BOOLEAN]
        /\ algal_target \in [state : AlgalStates, score : BOOLEAN]
    BY DEF Init, CoralStates, AlgalStates
  <2>4. /\ has_defaults \in BOOLEAN /\ scheduled \in BOOLEAN
        /\ climber_target \in ClimbSetpoints /\ climber \in ClimbSetpoints
    BY DEF Init, ClimbSetpoints
  <2>5. /\ previous_driver \subseteq {"b_button", "y_button"}
        /\ previous_operator \subseteq {"left_trigger"}
        /\ ee_readings \subseteq Switches
    BY DEF Init
  <2>6. /\ phase \in {"mode", "read", "command", "write"} /\ group \in {"A", "B"}
        /\ mode \in {"disabled", "teleop", "other"}
        /\ climb_state \in 0 .. 2 /\ runs \in 0 .. 3 /\ advances \in 0 .. 2
    BY DEF Init
  <2> QED
    BY <2>1, <2>2, <2>3, <2>4, <2>5, <2>6 DEF TypeOK, Readings
<1>2. TypeOK /\ [Next]_vars => TypeOK'
  <2> SUFFICES ASSUME TypeOK, [Next]_vars PROVE TypeOK'
    OBVIOUS
  <2>1. ASSUME NEW m \in {"disabled", "teleop", "other"}, Mode(m) PROVE TypeOK'
    <3>1. has_defaults' \in BOOLEAN /\ scheduled' \in BOOLEAN
      BY <2>1, Zenon DEF Mode, TypeOK
    <3> QED
      BY <2>1, <3>1 DEF Mode, TypeOK, input, targets, told
  <2>2. ASSUME NEW d \in DriverInputs, NEW o \in OperatorInputs, NEW s \in Sightings,
               ReadA(d, o, s)
        PROVE  TypeOK'
    <3>1. readings' \in Readings
      BY <2>2, UpdateGives DEF ReadA, ReadControls, TypeOK, Readings
    <3>2. climb_state' \in 0 .. 2
      BY <2>2, <3>1 DEF ReadA, ReadControls, Readings
    <3>3. ee_readings' \subseteq Switches
      BY <2>2, OperatorAssumption DEF ReadA, Switches
    <3>4. advances' \in 0 .. 2
      BY <2>2 DEF ReadA, ReadControls, TypeOK
    <3> QED
      BY <2>2, <3>1, <3>2, <3>3, <3>4
      DEF ReadA, ReadControls, TypeOK, Readings, targets, told
  <2>3. ASSUME ReadB PROVE TypeOK'
    BY <2>3 DEF ReadB, TypeOK, input, targets, told
  <2>4. ASSUME Command PROVE TypeOK'
    <3>1. /\ coral_target' \in [state : CoralStates, score : BOOLEAN]
          /\ algal_target' \in [state : AlgalStates, score : BOOLEAN]
          /\ climber_target' \in ClimbSetpoints
      BY <2>4 DEF Command, Executes, TypeOK, CoralCommand, AlgalCommand, ClimberCommand,
                  ClimbSetpoints, CoralStates, AlgalStates, targets
    <3>2. scheduled' \in BOOLEAN
      BY <2>4, Zenon DEF Command
    <3>3. runs' \in 0 .. 3
      BY <2>4 DEF Command, TypeOK
    <3> QED
      BY <2>4, <3>1, <3>2, <3>3 DEF Command, TypeOK, input, told
  <2>5. ASSUME WriteA PROVE TypeOK'
    <3>1. coral' \in Told
      BY <2>5 DEF WriteA, WriteCoral, Tell, Told, CoralRoller, TypeOK
    <3> QED
      BY <2>5, <3>1 DEF WriteA, TypeOK, input, targets
  <2>6. ASSUME WriteB PROVE TypeOK'
    <3>1. algal' \in Told
      BY <2>6 DEF WriteB, WriteAlgal, Tell, Told, TypeOK
    <3> QED
      BY <2>6, <3>1 DEF WriteB, TypeOK, input, targets
  <2>7. ASSUME UNCHANGED vars PROVE TypeOK'
    BY <2>7 DEF vars, input, targets, told, TypeOK
  <2> QED
    BY <2>1, <2>2, <2>3, <2>4, <2>5, <2>6, <2>7 DEF Next
<1> QED
  BY <1>1, <1>2, PTL DEF Spec
-----------------------------------------------------------------------------
(***************************************************************************)
(* What the steps keep besides the types.  Edges: a reading in which a     *)
(* toggle or a climb was seen remembers the button.  Scheduling: commands  *)
(* that ran are still scheduled.  Agreement: the targets come from the     *)
(* current reading when they are written, the coral side acts on it once   *)
(* group A has written, the algal side and the climber once group B has.   *)
(***************************************************************************)
Edges ==
  /\ advances \in {0, 1}
  /\ readings.climb_state \in 0 .. 2 /\ climb_state \in 0 .. 2
  /\ readings.position_algal => "b_button" \in previous_driver
  /\ advances = 1 => "left_trigger" \in previous_operator

Scheduling ==
  /\ runs \in 0 .. 3 /\ group \in {"A", "B"}
  /\ scheduled => mode # "disabled" /\ has_defaults
  /\ (phase \in {"read", "command"} /\ runs > 0) => scheduled

Agreement ==
  /\ (phase = "write" /\ runs > 0) =>
       /\ coral_target = CoralCommand /\ algal_target = AlgalCommand
       /\ climber_target = ClimberCommand
  /\ (group = "B" /\ phase # "write" /\ runs > 0) => CoralActs
  /\ (group = "B" /\ phase = "write" /\ runs > 1) => CoralActs
  /\ (group = "A" /\ phase \in {"mode", "read"} /\ runs > 1) => CoralActs /\ AlgalActs

Inv == Edges /\ Scheduling /\ Agreement

LEMMA InvInit == Init => Inv
  BY DEF Init, Inv, Edges, Scheduling, Agreement, NoReadings

LEMMA InvMode ==
  ASSUME Inv, NEW m \in {"disabled", "teleop", "other"}, Mode(m)
  PROVE  Inv'
<1>1. Edges'
  BY DEF Inv, Mode, Edges, input
<1>2. Scheduling'
  <2>1. scheduled' => scheduled /\ (m = mode \/ m = "other")
    BY Zenon DEF Mode
  <2>2. scheduled => mode # "disabled" /\ has_defaults
    BY DEF Inv, Scheduling
  <2>3. has_defaults => has_defaults'
    BY Zenon DEF Mode
  <2>4. mode' = m /\ runs' = IF scheduled' THEN runs ELSE 0
    BY DEF Mode
  <2>5. runs \in 0 .. 3
    BY DEF Inv, Scheduling
  <2>6. scheduled' => mode' # "disabled" /\ has_defaults'
    BY <2>1, <2>2, <2>3, <2>4
  <2>7. group' \in {"A", "B"}
    BY DEF Inv, Scheduling, Mode
  <2> QED
    BY <2>4, <2>5, <2>6, <2>7 DEF Scheduling
<1>3. Agreement'
  BY DEF Inv, Mode, Agreement, CoralActs, AlgalActs, Scheduling, input, told
<1> QED
  BY <1>1, <1>2, <1>3 DEF Inv

LEMMA InvReadA ==
  ASSUME Inv, NEW d, NEW o, NEW s, ReadA(d, o, s)
  PROVE  Inv' /\ (readings.position_algal => ~readings'.position_algal)
<1>1. readings'.position_algal <=> ("b_button" \in d /\ "b_button" \notin previous_driver)
  BY Zenon DEF ReadA, ReadControls, UpdateWithInput, Toggled
<1>2. /\ previous_driver' = d \cap {"b_button", "y_button"}
      /\ previous_operator' = o \cap {"left_trigger"}
  BY DEF ReadA, ReadControls
<1>3. climb_state' # climb_state => "left_trigger" \in o \ previous_operator
  BY DEF ReadA, ReadControls, UpdateWithInput, Climbed
<1>4. advances' \in {0, 1} /\ (advances' = 1 => "left_trigger" \in o)
  BY <1>3 DEF Inv, Edges, ReadA, ReadControls
<1>5. Edges'
  <2>1. readings'.climb_state \in 0 .. 2 /\ climb_state' = readings'.climb_state
    BY DEF Inv, Edges, ReadA, ReadControls, UpdateWithInput, Climbed
  <2> QED
    BY <2>1, <1>1, <1>2, <1>4 DEF Edges
<1>6. Scheduling'
  BY DEF Inv, Scheduling, ReadA
<1>7. Agreement'
  BY DEF Agreement, ReadA
<1> QED
  BY <1>1, <1>5, <1>6, <1>7 DEF Inv, Edges

LEMMA InvReadB ==
  ASSUME Inv, ReadB
  PROVE  Inv'
<1>1. Edges'
  BY DEF Inv, ReadB, Edges, input
<1>2. Scheduling'
  BY DEF Inv, ReadB, Scheduling
<1>3. Agreement'
  BY DEF Inv, ReadB, Agreement, CoralActs, input, told
<1> QED
  BY <1>1, <1>2, <1>3 DEF Inv

LEMMA InvCommand ==
  ASSUME Inv, Command
  PROVE  Inv'
<1>1. Edges'
  BY DEF Inv, Command, Edges, input
<1>2. Scheduling'
  <2>1. scheduled' => mode' # "disabled" /\ has_defaults'
    <3>1. scheduled' => has_defaults /\ mode # "disabled"
      BY Zenon DEF Command
    <3> QED
      BY <3>1 DEF Command
  <2>2. runs' \in 0 .. 3 /\ phase' = "write" /\ group' \in {"A", "B"}
    BY DEF Inv, Scheduling, Command
  <2> QED
    BY <2>1, <2>2 DEF Scheduling
<1>3. runs' > 0 => scheduled
  BY DEF Inv, Scheduling, Command
<1>4. runs' > 1 => runs > 0
  BY DEF Inv, Scheduling, Command
<1>5. readings' = readings /\ coral' = coral /\ ee_readings' = ee_readings
  BY DEF Command, input, told
<1>6. scheduled => /\ coral_target' = CoralCommand' /\ algal_target' = AlgalCommand'
                   /\ climber_target' = ClimberCommand'
  BY <1>5 DEF Command, Executes, CoralCommand, AlgalCommand, ClimberCommand
<1>7. CoralActs => CoralActs'
  BY <1>5 DEF CoralActs
<1> QED
  BY <1>1, <1>2, <1>3, <1>4, <1>6, <1>7 DEF Inv, Agreement, Command

LEMMA InvWriteA ==
  ASSUME Inv, WriteA
  PROVE  Inv'
<1>1. Edges'
  BY DEF Inv, WriteA, Edges, input
<1>2. Scheduling'
  BY DEF Inv, WriteA, Scheduling
<1>3. ee_readings' = ee_readings /\ readings' = readings
  BY DEF WriteA, input
<1>4. runs > 0 => CoralActs'
  <2> SUFFICES ASSUME runs > 0 PROVE CoralActs'
    OBVIOUS
  <2>1. coral_target = CoralCommand
    BY DEF Inv, Agreement, WriteA
  <2>2. coral'.position \in {"nothing", coral_target.state}
    BY DEF WriteA, WriteCoral, Tell
  <2>3. coral'.roller = "score" => coral_target.score \/ ee_readings = Switches
    BY DEF WriteA, WriteCoral, Tell, CoralRoller, SeesTheReef
  <2>4. coral'.roller = "hold" => ~coral_target.score
    BY DEF WriteA, WriteCoral, Tell, CoralRoller
  <2>5. /\ CoralCommand.score = readings.score_coral
        /\ CoralCommand.state = IF readings.position_algal THEN readings.coral_state
                                ELSE "StowNoPiece"
    BY DEF CoralCommand
  <2> QED
    BY <2>1, <2>2, <2>3, <2>4, <2>5, <1>3 DEF CoralActs
<1>5. runs' = runs /\ group' = "B" /\ phase' = "mode"
  BY DEF WriteA
<1> QED
  BY <1>1, <1>2, <1>4, <1>5 DEF Inv, Agreement

LEMMA InvWriteB ==
  ASSUME Inv, WriteB
  PROVE  Inv'
<1>1. Edges'
  BY DEF Inv, WriteB, Edges, input
<1>2. Scheduling'
  BY DEF Inv, WriteB, Scheduling
<1>3. /\ ee_readings' = ee_readings /\ readings' = readings /\ coral' = coral
  BY DEF WriteB, input
<1>4. runs > 1 => CoralActs'
  <2>1. runs > 1 => CoralActs
    BY DEF Inv, Agreement, WriteB
  <2> QED
    BY <2>1, <1>3 DEF CoralActs
<1>5. runs > 1 => AlgalActs'
  <2> SUFFICES ASSUME runs > 1 PROVE AlgalActs'
    OBVIOUS
  <2>1. algal_target = AlgalCommand /\ climber_target = ClimberCommand
    BY DEF Inv, Agreement, WriteB, Scheduling
  <2>2. algal'.position \in {"nothing", algal_target.state}
    BY DEF WriteB, WriteAlgal, Tell
  <2>3. algal'.roller \in {"nothing", IF algal_target.score THEN "score" ELSE "hold"}
    BY DEF WriteB, WriteAlgal, Tell
  <2>4. /\ AlgalCommand.score = readings.score_algae
        /\ AlgalCommand.state = IF readings.position_algal THEN readings.algal_state
                                ELSE "Stow"
    BY DEF AlgalCommand
  <2>5. climber' = ClimberCommand
    BY <2>1 DEF WriteB
  <2>6. climber' = IF readings.climb_state = 0 THEN "stow"
                   ELSE IF readings.climb_state = 1 THEN "pre_climb" ELSE "climb"
    BY <2>5 DEF ClimberCommand, Inv, Edges
  <2> QED
    BY <2>1, <2>2, <2>3, <2>4, <2>6, <1>3 DEF AlgalActs
<1>6. runs' = runs /\ group' = "A" /\ phase' = "mode"
  BY DEF WriteB
<1> QED
  BY <1>1, <1>2, <1>4, <1>5, <1>6 DEF Inv, Agreement

LEMMA InvStep == Inv /\ [Next]_vars => Inv'
<1>1. ASSUME Inv, UNCHANGED vars PROVE Inv'
  BY <1>1 DEF vars, input, targets, told, Inv, Edges, Scheduling, Agreement,
              CoralActs, AlgalActs, CoralCommand, AlgalCommand, ClimberCommand
<1> QED
  BY <1>1, InvMode, InvReadA, InvReadB, InvCommand, InvWriteA, InvWriteB DEF Next

(* From its write to the next reading each side, and the climber, acts on  *)
(* the current reading: also while the other side still shows the last.    *)
THEOREM EachSideActs == Spec => []ActsOnReading
<1>1. Inv => ActsOnReading
  BY DEF Inv, Scheduling, Agreement, ActsOnReading
<1> QED
  BY InvInit, InvStep, <1>1, PTL DEF Spec

(* One press of the trigger, however long, is one stage of the climb.      *)
THEOREM OneStagePerHold == Spec => []HoldAdvancesOnce
<1>1. Inv => HoldAdvancesOnce
  BY DEF Inv, Edges, HoldAdvancesOnce
<1> QED
  BY InvInit, InvStep, <1>1, PTL DEF Spec

(* The driver's toggle never holds in two readings running.                *)
THEOREM PositionIsMomentary == Spec => PositionLastsOneReading
<1> DEFINE Falls == (phase = "read" /\ group = "A" /\ readings.position_algal)
                      => ~readings'.position_algal
<1>1. ASSUME Inv, [Next]_vars PROVE [Falls]_vars
  <2>1. ASSUME phase = "read", group = "A", Next PROVE \E d, o, s : ReadA(d, o, s)
    BY <2>1 DEF Next, Mode, ReadB, Command, WriteA, WriteB
  <2>2. ASSUME NEW d, NEW o, NEW s, ReadA(d, o, s) PROVE Falls
    BY <1>1, <2>2, InvReadA
  <2> QED
    BY <1>1, <2>1, <2>2
<1> QED
  BY InvInit, InvStep, <1>1, PTL DEF Spec, PositionLastsOneReading
=============================================================================
