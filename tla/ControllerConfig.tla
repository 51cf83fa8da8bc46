-------------------------- MODULE ControllerConfig --------------------------
(***************************************************************************)
(* How MotorMonkey configures motor controllers: ConstructController, the  *)
(* setters wrapped in SMART_RETRY, and the two kinds of controller behind  *)
(* them.  A Spark keeps one configuration object, every setter changes a   *)
(* part of it and transfers all of it; a Talon transfers the part that is  *)
(* set.  A transfer may fail after the device took all or a part of it,    *)
(* and a device may lose what it was given, because nothing is persisted.  *)
(*                                                                         *)
(* An attempt is a step: between two of them the thread sleeps and a       *)
(* device may restart.  Calls are made by one thread, one after the other. *)
(***************************************************************************)
EXTENDS Integers, SequencesExt

CONSTANTS
  Talons, Sparks,    (* slots by the kind of their controller              *)
  ValuesOf,          (* per setting, the values callers give it            *)
  Construction,      (* what ConstructController sets, in its order:       *)
                     (* inverted, neutral, current_limit, voltage          *)
  Params,            (* per slot, its MotorConstructionParameters          *)
  Stored,            (* what a device holds that the program did not send, *)
                     (* and what is not in a Spark's configuration object  *)
  MaxControllers,    (* bounds of the model: controllers that are          *)
  MaxRestarts        (* constructed, and restarts of a device              *)

Slots    == Talons \cup Sparks
Settings == DOMAIN ValuesOf
NUM_RETRIES == 5

(* gains_registry is value-initialised.                                    *)
ZeroGains == [p |-> 0, d |-> 0]

ASSUME ConfigAssumption ==
  /\ Talons \cap Sparks = {}
  /\ Construction \in Seq(Settings \ {"gains"}) /\ "gains" \in Settings
  /\ ZeroGains \in ValuesOf["gains"]
  /\ \A m \in Slots : \A s \in ToSet(Construction) : Params[m][s] \in ValuesOf[s]
  /\ MaxControllers \in Nat /\ MaxRestarts \in Nat

VARIABLES
  constructed,     (* slots with an entry in controller_registry           *)
  calls,           (* the call under way, then those ConstructController   *)
                   (* makes after it: [slot, setting, value, tries]        *)
  configs,         (* a Spark's configuration object                       *)
  device,          (* what each device holds                               *)
  last_error,      (* last_error_ is not kAllOK                            *)
  gains_registry,
  restarts,        (* bounds the model                                     *)
  asked,           (* history: the value last asked of each setting        *)
  sent,            (* history: <<slot, setting>> with at least one attempt *)
  reported,        (* history: <<slot, setting>> whose last call was logged*)
                   (* as failed                                            *)
  restarted        (* history: slots that restarted after their last       *)
                   (* transfer that succeeded                              *)

vars == <<constructed, calls, configs, device, last_error, gains_registry,
          restarts, asked, sent, reported, restarted>>

Blank == [s \in Settings |-> Stored]

Init ==
  /\ constructed = {}
  /\ calls = << >>
  /\ configs = [m \in Sparks |-> Blank]
  /\ device = [m \in Slots |-> Blank]
  /\ last_error = [m \in Slots |-> FALSE]
  /\ gains_registry = [m \in Slots |-> ZeroGains]
  /\ restarts = 0
  /\ asked = [m \in Slots |-> Blank]
  /\ sent = {} /\ reported = {} /\ restarted = {}

(***************************************************************************)
(* What a setter asks the device for.                                      *)
(***************************************************************************)
Abs(n) == IF n < 0 THEN -n ELSE n

(* A frame period serves every frame of its group.                         *)
SparkFrames(frames) ==
  (IF frames \cap {"fault", "leader"} # {} THEN {"fault", "leader"} ELSE {})
    \cup (IF frames \cap {"velocity", "current"} # {} THEN {"velocity"} ELSE {})
    \cup (frames \cap {"position", "sensor"})
(* The position frame falls through to the velocity frame.                 *)
TalonFrames(frames) ==
  (frames \cap {"current", "position", "velocity"})
    \cup (IF "position" \in frames THEN {"velocity"} ELSE {})

(* A switch is configured by what it is when nothing touches it; a Talon   *)
(* takes off for closed and never stops at it.                             *)
SparkSwitch(v) ==
  [stop |-> v.stop, normally |-> IF v.normally = "on" THEN "closed" ELSE "open"]
TalonSwitch(v) ==
  [stop |-> FALSE, normally |-> IF v.normally = "off" THEN "closed" ELSE "open"]

Sent(m, s, v) ==
  CASE s = "frames" /\ m \in Talons         -> TalonFrames(v)
    [] s = "frames" /\ m \in Sparks         -> SparkFrames(v)
    [] s = "forward_switch" /\ m \in Talons -> TalonSwitch(v)
    [] s = "forward_switch" /\ m \in Sparks -> SparkSwitch(v)
    [] s = "gains" /\ m \in Sparks          -> [v EXCEPT !.d = Abs(v.d)]
    [] OTHER                                -> v

ASSUME StoredAssumption ==
  \A m \in Slots, s \in Settings : \A v \in ValuesOf[s] : Stored \notin {v, Sent(m, s, v)}

(* What a device holds after taking the settings in taken from a Spark's   *)
(* configuration object.                                                   *)
Overlay(old, object, taken) ==
  [s \in Settings |-> IF s \in taken /\ object[s] # Stored THEN object[s] ELSE old[s]]

(***************************************************************************)
(* The calls.                                                              *)
(***************************************************************************)
Call(m, s, v) == [slot |-> m, setting |-> s, value |-> v, tries |-> 1]

Construct(m) ==
  /\ calls = << >> /\ m \notin constructed
  /\ Cardinality(constructed) < MaxControllers
  /\ constructed' = constructed \cup {m}
  /\ calls' = [i \in 1..Len(Construction) |->
                 Call(m, Construction[i], Params[m][Construction[i]])]
  /\ asked' = [asked EXCEPT ![m] =
                 [s \in Settings |-> IF s \in ToSet(Construction) THEN Params[m][s]
                                                                  ELSE @[s]]]
  /\ UNCHANGED <<configs, device, last_error, gains_registry, restarts, sent,
                 reported, restarted>>

(* A setter of MotorMonkey other than SetGains.                            *)
Set(m, s, v) ==
  /\ calls = << >> /\ m \in constructed
  /\ s \notin ToSet(Construction) \cup {"gains"}
  /\ v \in ValuesOf[s]
  /\ calls' = <<Call(m, s, v)>>
  /\ asked' = [asked EXCEPT ![m][s] = v]
  /\ UNCHANGED <<constructed, configs, device, last_error, gains_registry, restarts,
                 sent, reported, restarted>>

(* Slip: the comparison stops after kP.                                    *)
SameGainP(m, g) == gains_registry[m].p = g.p
SameGains(m, g) == gains_registry[m] = g

SetGains(m, g) ==
  /\ calls = << >> /\ m \in constructed
  /\ g \in ValuesOf["gains"]
  /\ asked' = [asked EXCEPT ![m]["gains"] = g]
  /\ IF SameGains(m, g)
       THEN UNCHANGED <<calls, gains_registry>>
       ELSE /\ gains_registry' = [gains_registry EXCEPT ![m] = g]
            /\ calls' = <<Call(m, "gains", g)>>
  /\ UNCHANGED <<constructed, configs, device, last_error, restarts, sent, reported,
                 restarted>>

(***************************************************************************)
(* One attempt of SMART_RETRY.                                             *)
(***************************************************************************)
(* configs.Inverted(...) and the like: the object keeps what was set.      *)
(* Slip: a configuration object per call.                                  *)
FreshObject(m, s, v) == [Blank EXCEPT ![s] = Sent(m, s, v)]
Object(m, s, v) == [configs[m] EXCEPT ![s] = Sent(m, s, v)]

SparkTransfer(m, s, v, ok) ==
  /\ configs' = [configs EXCEPT ![m] = Object(m, s, v)]
  /\ \E taken \in SUBSET Settings :
       /\ ok => taken = Settings
       /\ device' = [device EXCEPT ![m] = Overlay(@, Object(m, s, v), taken)]

(* A failed transfer changed nothing or was not acknowledged.  The frames  *)
(* are switched off together and on one by one.                            *)
TalonTransfer(m, s, v, ok) ==
  /\ \E held \in {device[m][s], Sent(m, s, v)}
                   \cup (IF s = "frames" THEN SUBSET Sent(m, s, v) ELSE {}) :
       /\ ok => held = Sent(m, s, v)
       /\ device' = [device EXCEPT ![m][s] = held]
  /\ UNCHANGED configs

Transfer(m, s, v, ok) ==
  \/ m \in Sparks /\ SparkTransfer(m, s, v, ok)
  \/ m \in Talons /\ TalonTransfer(m, s, v, ok)

(* Every setter but one records the result of its transfer as the last     *)
(* error; a Talon's SetNeutralMode leaves the last error alone.            *)
Ignores(m, s) == m \in Talons /\ s = "neutral"
ErrorRead(m, s, ok) == IF Ignores(m, s) THEN last_error[m] ELSE ~ok

(* Slip: the result of the last attempt is not looked at.                  *)
GiveUpSilently(c, err) == {}
GivenUp(c, err) == IF err /\ c.tries = NUM_RETRIES THEN {<<c.slot, c.setting>>} ELSE {}

Again(c, err) == err /\ c.tries < NUM_RETRIES

Attempt(ok) ==
  /\ calls # << >>
  /\ LET c   == Head(calls)
         m   == c.slot
         s   == c.setting
         err == ErrorRead(m, s, ok)
     IN /\ Transfer(m, s, c.value, ok)
        /\ calls' = IF Again(c, err)
                      THEN [calls EXCEPT ![1].tries = @ + 1]
                      ELSE Tail(calls)
        /\ sent' = sent \cup {<<m, s>>}
        /\ reported' = (reported \ {<<m, s>>}) \cup GivenUp(c, err)
        /\ restarted' = IF ok THEN restarted \ {m} ELSE restarted
        /\ last_error' = [last_error EXCEPT ![m] = FALSE]
  /\ UNCHANGED <<constructed, gains_registry, restarts, asked>>

(***************************************************************************)
(* The world: Tick sends the last command and records its result; a Spark  *)
(* that loses power forgets what is not persisted, a Talon stores it.      *)
(***************************************************************************)
Tick ==
  /\ calls = << >>
  /\ \E failing \in SUBSET constructed :
       last_error' = [m \in Slots |-> IF m \in constructed THEN m \in failing
                                                           ELSE last_error[m]]
  /\ UNCHANGED <<constructed, calls, configs, device, gains_registry, restarts, asked,
                 sent, reported, restarted>>

Restart(m) ==
  /\ m \in Sparks \cap constructed /\ restarts < MaxRestarts
  /\ restarts' = restarts + 1
  /\ device' = [device EXCEPT ![m] = Blank]
  /\ restarted' = restarted \cup {m}
  /\ UNCHANGED <<constructed, calls, configs, last_error, gains_registry, asked, sent,
                 reported>>

Next ==
  \/ \E m \in Slots : Construct(m) \/ Restart(m)
  \/ \E m \in Slots, s \in Settings : \E v \in ValuesOf[s] : Set(m, s, v)
  \/ \E m \in Slots : \E g \in ValuesOf["gains"] : SetGains(m, g)
  \/ \E ok \in BOOLEAN : Attempt(ok)
  \/ Tick

Spec == Init /\ [][Next]_vars

(***************************************************************************)
(* Properties.                                                             *)
(***************************************************************************)
Images(s) == {Sent(m, s, v) : m \in Slots, v \in ValuesOf[s]}
Partial(s) == IF s = "frames"
                THEN UNION {SUBSET Sent(m, s, v) : m \in Talons, v \in ValuesOf[s]}
                ELSE {}
Held(s) == {Stored} \cup Images(s) \cup Partial(s)

(* Types; the calls under way are for one controller that was constructed, *)
(* and only the first of them has been attempted.                          *)
TypeOK ==
  /\ constructed \subseteq Slots
  /\ \A i \in 1..Len(calls) :
       /\ calls[i].slot \in constructed /\ calls[i].slot = calls[1].slot
       /\ calls[i].setting \in Settings
       /\ calls[i].value \in ValuesOf[calls[i].setting]
       /\ calls[i].value = asked[calls[i].slot][calls[i].setting]
       /\ calls[i].tries \in 1..(IF i = 1 THEN NUM_RETRIES ELSE 1)
  /\ \A m \in Slots, s \in Settings :
       /\ asked[m][s] \in {Stored} \cup ValuesOf[s]
       /\ device[m][s] \in Held(s)
       /\ m \in Sparks => configs[m][s] \in Held(s)
  /\ gains_registry \in [Slots -> ValuesOf["gains"]]
  /\ last_error \in [Slots -> BOOLEAN]
  /\ sent \cup reported \subseteq Slots \X Settings
  /\ restarted \subseteq Sparks /\ restarts \in 0..MaxRestarts

UnderWay == {<<calls[i].slot, calls[i].setting>> : i \in 1..Len(calls)}
InForce(m, s) == device[m][s] = Sent(m, s, asked[m][s])

(* A setting the program transferred is in force as last asked, or the log *)
(* says that its last call failed, or the device restarted since.  For the *)
(* gains this is the promise behind skipping SetGains when gains_registry  *)
(* has them already.  The neutral mode of a Talon is the exception: nobody *)
(* looks at the result of its transfer.                                    *)
AskedIsInForceOrLogged ==
  \A m \in Slots, s \in Settings :
    <<m, s>> \in sent \ UnderWay =>
      InForce(m, s) \/ <<m, s>> \in reported \/ m \in restarted \/ Ignores(m, s)

(* The first transfer a Spark acknowledges after it lost its settings      *)
(* restores everything that was ever set, whatever the call was for: the   *)
(* configuration object accumulates.                                       *)
OneTransferRepairsASpark ==
  [][\A m \in restarted \ restarted' : \A s \in Settings :
        <<m, s>> \in sent' => InForce(m, s)']_vars
=============================================================================
