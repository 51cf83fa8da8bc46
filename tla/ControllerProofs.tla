-------------------------- MODULE ControllerProofs --------------------------
(***************************************************************************)
(* Proofs about motor controllers: how they are configured, and the wheel  *)
(* that one of them steers (SwerveSteering, the second part), for every    *)
(* set of directions, every encoder value and every speed of the wheel.    *)
(* The two are separate specifications.                                    *)
(*                                                                         *)
(* What ControllerConfig promises, for any controllers, settings, values   *)
(* and construction order.  AskedIsInForceOrLogged is not inductive: a     *)
(* Spark transfers its whole object, so the object must hold what was      *)
(* asked of every setting; and a dropped SetGains must not change what was *)
(* asked, so gains_registry must agree with it.                            *)
(***************************************************************************)
EXTENDS ControllerConfig, SwerveSteering, SequenceTheorems, TLAPS

AnyHeld  == UNION {Held(s) : s \in Settings}
AnyValue == UNION {ValuesOf[s] : s \in Settings}
Requests == [slot : Slots, setting : Settings, value : AnyValue, tries : Nat]

TypeInv ==
  /\ calls \in Seq(Requests)
  /\ device \in [Slots -> [Settings -> AnyHeld]]
  /\ configs \in [Sparks -> [Settings -> AnyHeld]]
  /\ asked \in [Slots -> [Settings -> {Stored} \cup AnyValue]]
  /\ TypeOK

(* The configuration object of a Spark holds what was asked, unless the    *)
(* setting is the one whose transfer is under way.                         *)
ObjectsAgree ==
  \A m \in Sparks, s \in Settings :
    <<m, s>> \in sent =>
      \/ configs[m][s] = Sent(m, s, asked[m][s])
      \/ calls # << >> /\ calls[1].slot = m /\ calls[1].setting = s

RegistryAgrees ==
  \A m \in Slots :
    <<m, "gains">> \in sent \cup UnderWay => asked[m]["gains"] = gains_registry[m]

SentWasAsked ==
  \A m \in Slots, s \in Settings :
    <<m, s>> \in sent => m \in constructed /\ asked[m][s] \in ValuesOf[s]

ConfigInv ==
  TypeInv /\ ObjectsAgree /\ RegistryAgrees /\ SentWasAsked /\ AskedIsInForceOrLogged

(***************************************************************************)
(* Sequences of calls.                                                     *)
(***************************************************************************)
(* One more attempt changes the count of the first call only.              *)
LEMMA RetryKeepsTheRest ==
  ASSUME NEW q \in Seq(Requests), q # << >>
  PROVE  LET r == [q EXCEPT ![1].tries = @ + 1]
         IN /\ r \in Seq(Requests) /\ Len(r) = Len(q)
            /\ r[1] = [q[1] EXCEPT !.tries = @ + 1]
            /\ \A i \in 2..Len(q) : r[i] = q[i]
<1> DEFINE r == [q EXCEPT ![1].tries = @ + 1]
<1>1. Len(q) \in Nat /\ 1 \in 1..Len(q) /\ DOMAIN q = 1..Len(q)
  BY SMT
<1>2. q[1] \in Requests
  BY <1>1
<1>3. [q[1] EXCEPT !.tries = @ + 1] \in Requests
  BY <1>2 DEF Requests
<1>4. r \in [1..Len(q) -> Requests]
  BY <1>1, <1>3
<1>5. r \in Seq(Requests) /\ Len(r) = Len(q)
  BY <1>1, <1>4, SMT
<1> QED
  BY <1>1, <1>5

LEMMA TailKeepsTheRest ==
  ASSUME NEW q \in Seq(Requests), q # << >>
  PROVE  /\ Tail(q) \in Seq(Requests) /\ Len(Tail(q)) = Len(q) - 1
         /\ Head(q) = q[1] /\ q[1] \in Requests /\ Len(q) \in Nat /\ Len(q) >= 1
         /\ \A i \in 1..Len(Tail(q)) : Tail(q)[i] = q[i + 1]
  BY SMT

(* What a transfer carries, and what may be left of it, can be held.       *)
LEMMA TransferredIsHeld ==
  ASSUME NEW m \in Slots, NEW s \in Settings, NEW v \in ValuesOf[s]
  PROVE  /\ Sent(m, s, v) \in Held(s) /\ Sent(m, s, v) # Stored
         /\ m \in Talons /\ s = "frames" => SUBSET Sent(m, s, v) \subseteq Held(s)
         /\ Stored \in Held(s) /\ Held(s) \subseteq AnyHeld
<1>1. Sent(m, s, v) \in Images(s)
  BY DEF Images
<1>2. ASSUME m \in Talons, s = "frames", NEW part \in SUBSET Sent(m, s, v)
      PROVE  part \in Partial(s)
  <2> DEFINE All == {SUBSET Sent(t, s, w) : t \in Talons, w \in ValuesOf[s]}
  <2>1. SUBSET Sent(m, s, v) \in All
    BY <1>2
  <2>2. Partial(s) = UNION All
    BY <1>2 DEF Partial
  <2> HIDE DEF All
  <2>3. part \in UNION All
    BY <2>1
  <2> QED
    BY <2>2, <2>3
<1>3. Sent(m, s, v) # Stored
  BY StoredAssumption
<1> QED
  BY <1>1, <1>2, <1>3 DEF Held, AnyHeld

(* The calls ConstructController makes are well formed.                    *)
LEMMA ConstructionCalls ==
  ASSUME NEW m \in Slots
  PROVE  LET q == [i \in 1..Len(Construction) |->
                     Call(m, Construction[i], Params[m][Construction[i]])]
         IN /\ q \in Seq(Requests) /\ Len(q) = Len(Construction)
            /\ \A i \in 1..Len(q) :
                 /\ q[i].slot = m /\ q[i].setting \in ToSet(Construction)
                 /\ q[i].setting \in Settings \ {"gains"} /\ q[i].tries = 1
                 /\ q[i].value = Params[m][q[i].setting]
                 /\ q[i].value \in ValuesOf[q[i].setting]
<1> DEFINE q == [i \in 1..Len(Construction) |->
                   Call(m, Construction[i], Params[m][Construction[i]])]
<1>1. Construction \in Seq(Settings \ {"gains"}) /\ Len(Construction) \in Nat
  BY ConfigAssumption
<1>2. ASSUME NEW i \in 1..Len(Construction)
      PROVE  /\ Construction[i] \in Settings \ {"gains"}
             /\ Construction[i] \in ToSet(Construction)
             /\ Params[m][Construction[i]] \in ValuesOf[Construction[i]]
  <2>1. Construction[i] \in Settings \ {"gains"}
    BY <1>1
  <2>2. Construction[i] \in ToSet(Construction)
    BY <1>1 DEF ToSet
  <2> QED
    BY <2>1, <2>2, ConfigAssumption
<1>3. q \in [1..Len(Construction) -> Requests]
  BY <1>2 DEF Call, Requests, AnyValue
<1>4. q \in Seq(Requests) /\ Len(q) = Len(Construction)
  BY <1>1, <1>3
<1> QED
  BY <1>2, <1>4 DEF Call

(***************************************************************************)
(* The invariant holds at the start and under every step.                  *)
(***************************************************************************)
LEMMA InitConfig == Init => ConfigInv
<1> SUFFICES ASSUME Init PROVE ConfigInv
  OBVIOUS
<1> USE DEF Init
<1>1. \A s \in Settings : Stored \in Held(s) /\ Stored \in AnyHeld
  BY DEF Held, AnyHeld
<1>2. calls \in Seq(Requests) /\ Len(calls) = 0 /\ UnderWay = {}
  BY DEF UnderWay
<1>3. TypeInv
  BY <1>1, <1>2, ConfigAssumption DEF TypeInv, TypeOK, Blank
<1> QED
  BY <1>2, <1>3 DEF ConfigInv, ObjectsAgree, RegistryAgrees, SentWasAsked,
                    AskedIsInForceOrLogged

LEMMA ConstructKeeps ==
  ASSUME ConfigInv, NEW m \in Slots, Construct(m)
  PROVE  ConfigInv'
<1> USE DEF ConfigInv
<1>0. TypeInv /\ TypeOK /\ calls = << >> /\ m \notin constructed /\ Len(calls) = 0
  BY DEF TypeInv, Construct
<1>1. /\ calls' \in Seq(Requests)
      /\ \A i \in 1..Len(calls') :
           /\ calls'[i].slot = m /\ calls'[i].setting \in ToSet(Construction)
           /\ calls'[i].setting \in Settings \ {"gains"} /\ calls'[i].tries = 1
           /\ calls'[i].value = Params[m][calls'[i].setting]
           /\ calls'[i].value \in ValuesOf[calls'[i].setting]
  <2> DEFINE q == [i \in 1..Len(Construction) |->
                     Call(m, Construction[i], Params[m][Construction[i]])]
  <2>1. calls' = q
    BY DEF Construct
  <2>2. /\ q \in Seq(Requests)
        /\ \A i \in 1..Len(q) :
             /\ q[i].slot = m /\ q[i].setting \in ToSet(Construction)
             /\ q[i].setting \in Settings \ {"gains"} /\ q[i].tries = 1
             /\ q[i].value = Params[m][q[i].setting]
             /\ q[i].value \in ValuesOf[q[i].setting]
    BY ConstructionCalls
  <2> HIDE DEF q
  <2> QED
    BY <2>1, <2>2
<1>2. asked' \in [Slots -> [Settings -> {Stored} \cup AnyValue]]
  BY <1>0, ConfigAssumption DEF TypeInv, Construct, AnyValue
<1>3. /\ \A s \in Settings : asked'[m][s] = IF s \in ToSet(Construction) THEN Params[m][s]
                                                                     ELSE asked[m][s]
      /\ \A t \in Slots \ {m} : asked'[t] = asked[t]
  BY <1>0 DEF TypeInv, Construct
<1>4. \A t \in Slots, s \in Settings : asked'[t][s] \in {Stored} \cup ValuesOf[s]
  BY <1>0, <1>3, ConfigAssumption DEF TypeOK
<1>5. TypeInv'
  <2>1. \A i \in 1..Len(calls') :
          /\ calls'[i].value = asked'[calls'[i].slot][calls'[i].setting]
          /\ calls'[i].tries \in 1..(IF i = 1 THEN NUM_RETRIES ELSE 1)
          /\ calls'[i].slot \in constructed' /\ calls'[i].slot = calls'[1].slot
    <3> SUFFICES ASSUME NEW i \in 1..Len(calls')
                 PROVE  /\ calls'[i].value = asked'[calls'[i].slot][calls'[i].setting]
                        /\ calls'[i].tries \in 1..(IF i = 1 THEN NUM_RETRIES ELSE 1)
                        /\ calls'[i].slot \in constructed' /\ calls'[i].slot = calls'[1].slot
      OBVIOUS
    <3>1. Len(calls') \in Nat /\ 1 \in 1..Len(calls')
      BY <1>1
    <3>2. /\ calls'[i].slot = m /\ calls'[1].slot = m /\ calls'[i].tries = 1
          /\ calls'[i].setting \in ToSet(Construction) /\ calls'[i].setting \in Settings
          /\ calls'[i].value = Params[m][calls'[i].setting]
      BY <1>1, <3>1
    <3>3. asked'[m][calls'[i].setting] = Params[m][calls'[i].setting]
      BY <1>3, <3>2
    <3>4. calls'[i].tries \in 1..(IF i = 1 THEN NUM_RETRIES ELSE 1)
      BY <3>2 DEF NUM_RETRIES
    <3> QED
      <4>1. m \in constructed'
        BY DEF Construct
      <4> QED
        BY <3>2, <3>3, <3>4, <4>1
  <2> QED
    BY <1>0, <1>1, <1>2, <1>4, <2>1 DEF TypeInv, TypeOK, Construct
<1>6. \A s \in Settings : <<m, s>> \notin sent
  BY <1>0 DEF SentWasAsked
<1>7. UnderWay = {} /\ \A t \in Slots : <<t, "gains">> \notin UnderWay'
  BY <1>0, <1>1 DEF UnderWay
<1>8. ObjectsAgree' /\ SentWasAsked'
  BY <1>0, <1>3, <1>6 DEF ObjectsAgree, SentWasAsked, Construct
<1>9. RegistryAgrees'
  <2> SUFFICES ASSUME NEW t \in Slots, <<t, "gains">> \in sent
               PROVE  asked'[t]["gains"] = gains_registry[t]
    BY <1>7 DEF RegistryAgrees, Construct
  <2>1. t # m
    BY <1>6, ConfigAssumption
  <2> QED
    BY <1>3, <2>1 DEF RegistryAgrees
<1>10. AskedIsInForceOrLogged'
  BY <1>0, <1>3, <1>6, <1>7 DEF AskedIsInForceOrLogged, InForce, Construct
<1> QED
  BY <1>5, <1>8, <1>9, <1>10

(* The common part of Set and SetGains.                                    *)
Makes(m, s, v) ==
  /\ calls = << >> /\ calls' = <<Call(m, s, v)>>
  /\ asked' = [asked EXCEPT ![m][s] = v]

(* A call that was just made is the only one under way.                    *)
LEMMA MadeCall ==
  ASSUME TypeInv, NEW m \in constructed, NEW s \in Settings,
         NEW v \in ValuesOf[s], Makes(m, s, v)
  PROVE  /\ UnderWay = {} /\ UnderWay' = {<<m, s>>}
         /\ calls' \in Seq(Requests) /\ Len(calls') = 1 /\ calls' # << >>
         /\ calls'[1].slot = m /\ calls'[1].setting = s /\ calls'[1].value = v
         /\ calls'[1].tries = 1
         /\ asked' \in [Slots -> [Settings -> {Stored} \cup AnyValue]]
         /\ asked'[m][s] = v
         /\ \A t \in Slots, u \in Settings : <<t, u>> # <<m, s>> => asked'[t][u] = asked[t][u]
         /\ m \in Slots
<1> USE DEF Makes
<1>1. m \in Slots /\ asked \in [Slots -> [Settings -> {Stored} \cup AnyValue]]
  BY DEF TypeInv, TypeOK
<1>2. Call(m, s, v) \in Requests
  BY <1>1 DEF Call, Requests, AnyValue
<1>3. calls' \in Seq(Requests) /\ Len(calls') = 1 /\ calls'[1] = Call(m, s, v)
  BY <1>2
<1>4. UnderWay = {} /\ UnderWay' = {<<m, s>>}
  BY <1>3 DEF UnderWay, Call
<1>5. asked' \in [Slots -> [Settings -> {Stored} \cup AnyValue]]
  BY <1>1 DEF AnyValue
<1> QED
  BY <1>1, <1>3, <1>4, <1>5 DEF Call

(* The parts of the invariant that Set and SetGains share.                 *)
LEMMA MadeCallKeeps ==
  ASSUME ConfigInv, NEW m \in constructed, NEW s \in Settings,
         NEW v \in ValuesOf[s], Makes(m, s, v),
         gains_registry' \in [Slots -> ValuesOf["gains"]],
         UNCHANGED <<constructed, configs, device, last_error, restarts, sent, reported,
                     restarted>>
  PROVE  TypeInv' /\ ObjectsAgree' /\ SentWasAsked' /\ AskedIsInForceOrLogged'
<1> USE DEF ConfigInv
<1>0. TypeInv /\ TypeOK /\ 1 \in 1..NUM_RETRIES /\ calls = << >>
  BY DEF TypeInv, NUM_RETRIES, Makes
<1>1. /\ UnderWay = {} /\ UnderWay' = {<<m, s>>}
      /\ calls' \in Seq(Requests) /\ Len(calls') = 1 /\ calls' # << >>
      /\ calls'[1].slot = m /\ calls'[1].setting = s /\ calls'[1].value = v
      /\ calls'[1].tries = 1
      /\ asked' \in [Slots -> [Settings -> {Stored} \cup AnyValue]]
      /\ asked'[m][s] = v
      /\ \A t \in Slots, u \in Settings : <<t, u>> # <<m, s>> => asked'[t][u] = asked[t][u]
      /\ m \in Slots
  BY <1>0, MadeCall
<1>2. \A t \in Slots, u \in Settings : asked'[t][u] \in {Stored} \cup ValuesOf[u]
  BY <1>0, <1>1 DEF TypeOK
<1>3. TypeInv'
  BY <1>0, <1>1, <1>2 DEF TypeInv, TypeOK
<1>4. ObjectsAgree' /\ SentWasAsked'
  <2>1. ASSUME NEW t \in Sparks, NEW u \in Settings, <<t, u>> \in sent
        PROVE  configs[t][u] = Sent(t, u, asked'[t][u]) \/ (t = m /\ u = s)
    <3>1. configs[t][u] = Sent(t, u, asked[t][u])
      BY <1>0, <2>1 DEF ObjectsAgree
    <3> QED
      BY <1>1, <3>1 DEF Slots
  <2> QED
    BY <1>1, <2>1 DEF ObjectsAgree, SentWasAsked
<1>5. AskedIsInForceOrLogged'
  BY <1>1 DEF AskedIsInForceOrLogged, InForce, Ignores
<1> QED
  BY <1>3, <1>4, <1>5

LEMMA SetKeeps ==
  ASSUME ConfigInv, NEW m \in Slots, NEW s \in Settings, NEW v \in ValuesOf[s], Set(m, s, v)
  PROVE  ConfigInv'
<1>0. m \in constructed /\ s # "gains" /\ Makes(m, s, v)
  BY DEF Set, Makes
<1>1. UNCHANGED <<constructed, configs, device, last_error, gains_registry, restarts,
                  sent, reported, restarted>>
  BY DEF Set
<1>2. TypeInv /\ gains_registry' \in [Slots -> ValuesOf["gains"]]
  BY <1>1 DEF ConfigInv, TypeInv, TypeOK
<1>3. TypeInv' /\ ObjectsAgree' /\ SentWasAsked' /\ AskedIsInForceOrLogged'
  BY <1>0, <1>1, <1>2, MadeCallKeeps
<1>4. RegistryAgrees'
  <2>1. /\ UnderWay = {} /\ UnderWay' = {<<m, s>>}
        /\ \A t \in Slots, u \in Settings : <<t, u>> # <<m, s>> => asked'[t][u] = asked[t][u]
    BY <1>0, <1>2, MadeCall
  <2>2. "gains" \in Settings /\ \A t \in Slots : <<t, "gains">> # <<m, s>>
    BY <1>0, ConfigAssumption
  <2>3. \A t \in Slots : asked'[t]["gains"] = asked[t]["gains"]
    BY <2>1, <2>2
  <2> QED
    BY <1>1, <2>1, <2>2, <2>3 DEF ConfigInv, RegistryAgrees
<1> QED
  BY <1>3, <1>4 DEF ConfigInv

LEMMA SetGainsKeeps ==
  ASSUME ConfigInv, NEW m \in Slots, NEW g \in ValuesOf["gains"], SetGains(m, g)
  PROVE  ConfigInv'
<1>0. /\ calls = << >> /\ m \in constructed /\ "gains" \in Settings
      /\ asked' = [asked EXCEPT ![m]["gains"] = g]
  BY ConfigAssumption DEF SetGains
<1>1. UNCHANGED <<constructed, configs, device, last_error, restarts, sent, reported,
                  restarted>>
  BY DEF SetGains
<1>2. TypeInv /\ RegistryAgrees
  BY DEF ConfigInv
<1>3. /\ asked' \in [Slots -> [Settings -> {Stored} \cup AnyValue]]
      /\ asked'[m]["gains"] = g
      /\ \A t \in Slots, u \in Settings :
            t # m \/ u # "gains" => asked'[t][u] = asked[t][u]
  BY <1>0, <1>2 DEF TypeInv, AnyValue
<1>4. gains_registry \in [Slots -> ValuesOf["gains"]]
  BY <1>2 DEF TypeInv, TypeOK
<1>5. CASE SameGains(m, g)
  <2>1. calls' = calls /\ gains_registry' = gains_registry /\ gains_registry[m] = g
    BY <1>5 DEF SetGains, SameGains
  <2>2. \A t \in Slots, u \in Settings :
          <<t, u>> \in sent => asked'[t][u] = asked[t][u]
    BY <1>2, <1>3, <2>1 DEF RegistryAgrees
  <2>3. UnderWay = {} /\ UnderWay' = {} /\ Len(calls) = 0 /\ calls' = << >>
    BY <1>0, <2>1 DEF UnderWay
  <2>4. TypeInv'
    <3>1. \A t \in Slots, u \in Settings : asked'[t][u] \in {Stored} \cup ValuesOf[u]
      BY <1>2, <1>3 DEF TypeInv, TypeOK
    <3> QED
      BY <1>1, <1>2, <1>3, <2>1, <2>3, <3>1 DEF TypeInv, TypeOK
  <2>5. ObjectsAgree'
    BY <1>0, <1>1, <2>2 DEF ConfigInv, ObjectsAgree
  <2>6. RegistryAgrees' /\ SentWasAsked'
    BY <1>0, <1>1, <2>1, <2>2, <2>3 DEF ConfigInv, RegistryAgrees, SentWasAsked
  <2>7. AskedIsInForceOrLogged'
    BY <1>1, <2>2, <2>3 DEF ConfigInv, AskedIsInForceOrLogged, InForce, Ignores
  <2> QED
    BY <2>4, <2>5, <2>6, <2>7 DEF ConfigInv
<1>6. CASE ~SameGains(m, g)
  <2>1. /\ calls' = <<Call(m, "gains", g)>>
        /\ gains_registry' = [gains_registry EXCEPT ![m] = g]
    BY <1>6 DEF SetGains
  <2>2. gains_registry' \in [Slots -> ValuesOf["gains"]]
    BY <1>4, <2>1
  <2> Makes(m, "gains", g)
    BY <1>0, <2>1 DEF Makes
  <2>3. TypeInv' /\ ObjectsAgree' /\ SentWasAsked' /\ AskedIsInForceOrLogged'
    BY <1>0, <1>1, <2>2, MadeCallKeeps
  <2>4. UnderWay = {} /\ UnderWay' = {<<m, "gains">>}
    BY <1>0, <1>2, MadeCall
  <2>5. RegistryAgrees'
    BY <1>0, <1>1, <1>2, <1>3, <1>4, <2>1, <2>4 DEF RegistryAgrees
  <2> QED
    BY <2>3, <2>5 DEF ConfigInv
<1> QED
  BY <1>5, <1>6

LEMMA TickKeeps == ConfigInv /\ Tick => ConfigInv'
<1> SUFFICES ASSUME ConfigInv, Tick PROVE ConfigInv'
  OBVIOUS
<1>1. /\ UNCHANGED <<constructed, calls, configs, device, gains_registry, restarts, asked,
                    sent, reported, restarted>>
      /\ UnderWay' = UnderWay
  BY DEF Tick, UnderWay
<1>2. last_error' \in [Slots -> BOOLEAN]
  <2>1. PICK failing \in SUBSET constructed :
          last_error' = [m \in Slots |-> IF m \in constructed THEN m \in failing
                                                              ELSE last_error[m]]
    BY DEF Tick
  <2>2. \A m \in Slots : last_error[m] \in BOOLEAN
    BY DEF ConfigInv, TypeInv, TypeOK
  <2> DEFINE E(m) == IF m \in constructed THEN m \in failing ELSE last_error[m]
  <2>3. ASSUME NEW m \in Slots PROVE E(m) \in BOOLEAN
    <3>1. CASE m \in constructed
      <4>1. E(m) = (m \in failing)
        BY <3>1
      <4>2. (m \in failing) \in BOOLEAN
        OBVIOUS
      <4> QED
        BY <4>1, <4>2, Zenon
    <3>2. CASE m \notin constructed
      BY <2>2, <3>2
    <3> QED
      BY <3>1, <3>2
  <2>4. last_error' = [m \in Slots |-> E(m)]
    BY <2>1, Zenon
  <2> HIDE DEF E
  <2>5. [m \in Slots |-> E(m)] \in [Slots -> BOOLEAN]
    BY <2>3, Zenon
  <2> QED
    BY <2>4, <2>5, Zenon
<1>3. TypeInv'
  BY <1>1, <1>2 DEF ConfigInv, TypeInv, TypeOK
<1> QED
  BY <1>1, <1>3 DEF ConfigInv, ObjectsAgree, RegistryAgrees, SentWasAsked,
                    AskedIsInForceOrLogged, InForce

LEMMA RestartKeeps ==
  ASSUME ConfigInv, NEW m \in Slots, Restart(m)
  PROVE  ConfigInv'
<1>1. /\ UNCHANGED <<constructed, calls, configs, last_error, gains_registry, asked, sent,
                    reported>>
      /\ UnderWay' = UnderWay
  BY DEF Restart, UnderWay
<1>2. /\ m \in Sparks /\ restarted' = restarted \cup {m}
      /\ device' = [device EXCEPT ![m] = Blank]
  BY DEF Restart
<1>3. Blank \in [Settings -> AnyHeld] /\ \A s \in Settings : Blank[s] \in Held(s)
  BY DEF Blank, AnyHeld, Held
<1>4. TypeInv
  BY DEF ConfigInv
<1>5. /\ device' \in [Slots -> [Settings -> AnyHeld]]
      /\ device'[m] = Blank /\ \A t \in Slots \ {m} : device'[t] = device[t]
  BY <1>2, <1>3, <1>4 DEF TypeInv
<1>6. restarts' \in 0..MaxRestarts
  BY <1>4, ConfigAssumption DEF Restart, TypeInv, TypeOK
<1>7. TypeInv'
  BY <1>1, <1>2, <1>3, <1>4, <1>5, <1>6 DEF TypeInv, TypeOK
<1>8. AskedIsInForceOrLogged'
  BY <1>1, <1>2, <1>5 DEF ConfigInv, AskedIsInForceOrLogged, InForce
<1> QED
  BY <1>1, <1>7, <1>8 DEF ConfigInv, ObjectsAgree, RegistryAgrees, SentWasAsked

(***************************************************************************)
(* One attempt.                                                            *)
(***************************************************************************)
(* The call under way, and what is left of the calls after an attempt.     *)
LEMMA CallsAfterAttempt ==
  ASSUME TypeInv, NEW ok \in BOOLEAN, Attempt(ok)
  PROVE  LET c == calls[1]
             err == ErrorRead(c.slot, c.setting, ok)
         IN /\ c \in Requests /\ c.slot \in constructed /\ c.slot \in Slots
            /\ c.setting \in Settings /\ c.value \in ValuesOf[c.setting]
            /\ c.value = asked[c.slot][c.setting]
            /\ <<c.slot, c.setting>> \in UnderWay
            /\ \A p \in UnderWay : p[1] = c.slot
            /\ UnderWay' \subseteq UnderWay
            /\ \A p \in UnderWay : p # <<c.slot, c.setting>> => p \in UnderWay'
            /\ err /\ c.tries # NUM_RETRIES => <<c.slot, c.setting>> \in UnderWay'
            /\ calls' \in Seq(Requests)
            /\ \A i \in 1..Len(calls') :
                 /\ calls'[i].slot = c.slot
                 /\ calls'[i].setting \in Settings
                 /\ calls'[i].value \in ValuesOf[calls'[i].setting]
                 /\ calls'[i].value = asked[c.slot][calls'[i].setting]
                 /\ calls'[i].tries \in 1..(IF i = 1 THEN NUM_RETRIES ELSE 1)
<1> DEFINE c == calls[1]
           err == ErrorRead(c.slot, c.setting, ok)
<1>1. /\ calls \in Seq(Requests) /\ calls # << >> /\ TypeOK
      /\ Len(calls) \in Nat /\ Len(calls) >= 1 /\ Head(calls) = c /\ c \in Requests
  BY TailKeepsTheRest DEF TypeInv, Attempt
<1>2. \A i \in 1..Len(calls) :
        /\ calls[i].slot = c.slot /\ calls[i].slot \in constructed
        /\ calls[i].setting \in Settings
        /\ calls[i].value \in ValuesOf[calls[i].setting]
        /\ calls[i].value = asked[c.slot][calls[i].setting]
        /\ calls[i].tries \in 1..(IF i = 1 THEN NUM_RETRIES ELSE 1)
  <2>1. \A i \in 1..Len(calls) :
          /\ calls[i].slot \in constructed /\ calls[i].slot = calls[1].slot
          /\ calls[i].setting \in Settings
          /\ calls[i].value \in ValuesOf[calls[i].setting]
          /\ calls[i].value = asked[calls[i].slot][calls[i].setting]
          /\ calls[i].tries \in 1..(IF i = 1 THEN NUM_RETRIES ELSE 1)
    BY <1>1 DEF TypeOK
  <2> QED
    BY <2>1
<1>3. /\ c.slot \in constructed /\ c.slot \in Slots /\ c.setting \in Settings
      /\ c.value \in ValuesOf[c.setting] /\ c.value = asked[c.slot][c.setting]
      /\ c.tries \in 1..NUM_RETRIES
  <2>1. 1 \in 1..Len(calls)
    BY <1>1
  <2>2. constructed \subseteq Slots
    BY <1>1 DEF TypeOK
  <2> QED
    BY <1>2, <2>1, <2>2
<1>4. /\ \A p \in UnderWay : p[1] = c.slot
      /\ <<c.slot, c.setting>> \in UnderWay
  BY <1>1, <1>2 DEF UnderWay
<1>5. calls' = IF Again(c, err) THEN [calls EXCEPT ![1].tries = @ + 1] ELSE Tail(calls)
  BY <1>1 DEF Attempt
<1>6. CASE Again(c, err)
  <2> DEFINE r == [calls EXCEPT ![1].tries = @ + 1]
  <2>1. /\ r \in Seq(Requests) /\ Len(r) = Len(calls)
        /\ r[1] = [calls[1] EXCEPT !.tries = @ + 1]
        /\ \A i \in 2..Len(calls) : r[i] = calls[i]
    BY <1>1, RetryKeepsTheRest
  <2>2. calls' = r
    BY <1>5, <1>6
  <2> HIDE DEF r
  <2>3. /\ calls' \in Seq(Requests) /\ Len(calls') = Len(calls)
        /\ calls'[1].slot = c.slot /\ calls'[1].setting = c.setting
        /\ calls'[1].value = c.value /\ calls'[1].tries = c.tries + 1
        /\ \A i \in 2..Len(calls) : calls'[i] = calls[i]
    BY <1>1, <2>1, <2>2 DEF Requests
  <2>4. c.tries + 1 \in 1..NUM_RETRIES
    BY <1>3, <1>6 DEF Again, NUM_RETRIES
  <2>5. \A i \in 1..Len(calls') :
          /\ calls'[i].slot = c.slot
          /\ calls'[i].setting \in Settings
          /\ calls'[i].value \in ValuesOf[calls'[i].setting]
          /\ calls'[i].value = asked[c.slot][calls'[i].setting]
          /\ calls'[i].tries \in 1..(IF i = 1 THEN NUM_RETRIES ELSE 1)
    <3> SUFFICES ASSUME NEW i \in 1..Len(calls')
                 PROVE  /\ calls'[i].slot = c.slot
                        /\ calls'[i].setting \in Settings
                        /\ calls'[i].value \in ValuesOf[calls'[i].setting]
                        /\ calls'[i].value = asked[c.slot][calls'[i].setting]
                        /\ calls'[i].tries \in 1..(IF i = 1 THEN NUM_RETRIES ELSE 1)
      OBVIOUS
    <3>1. CASE i = 1
      BY <1>3, <2>3, <2>4, <3>1
    <3>2. CASE i # 1
      <4>1. i \in 1..Len(calls) /\ calls'[i] = calls[i]
        BY <1>1, <2>3, <3>2
      <4> QED
        BY <1>2, <3>2, <4>1
    <3> QED
      BY <3>1, <3>2
  <2>6. UnderWay' = UnderWay
    <3>1. \A i \in 1..Len(calls) :
            <<calls'[i].slot, calls'[i].setting>> = <<calls[i].slot, calls[i].setting>>
      BY <1>1, <2>3
    <3> QED
      BY <2>3, <3>1 DEF UnderWay
  <2> QED
    BY <1>1, <1>3, <1>4, <2>3, <2>5, <2>6
<1>7. CASE ~Again(c, err)
  <2>1. calls' = Tail(calls)
    BY <1>5, <1>7
  <2>2. /\ calls' \in Seq(Requests) /\ Len(calls') = Len(calls) - 1
        /\ \A i \in 1..Len(calls') : calls'[i] = calls[i + 1]
    BY <1>1, <2>1, TailKeepsTheRest
  <2>3. \A i \in 1..Len(calls') :
          i + 1 \in 1..Len(calls) /\ i + 1 # 1 /\ calls'[i] = calls[i + 1]
    BY <1>1, <2>2
  <2>4. \A i \in 1..Len(calls') :
          /\ calls'[i].slot = c.slot
          /\ calls'[i].setting \in Settings
          /\ calls'[i].value \in ValuesOf[calls'[i].setting]
          /\ calls'[i].value = asked[c.slot][calls'[i].setting]
          /\ calls'[i].tries \in 1..(IF i = 1 THEN NUM_RETRIES ELSE 1)
    <3> SUFFICES ASSUME NEW i \in 1..Len(calls')
                 PROVE  /\ calls'[i].slot = c.slot
                        /\ calls'[i].setting \in Settings
                        /\ calls'[i].value \in ValuesOf[calls'[i].setting]
                        /\ calls'[i].value = asked[c.slot][calls'[i].setting]
                        /\ calls'[i].tries \in 1..(IF i = 1 THEN NUM_RETRIES ELSE 1)
      OBVIOUS
    <3>1. calls'[i].tries \in 1..1
      BY <1>2, <2>3
    <3>2. calls'[i].tries \in 1..(IF i = 1 THEN NUM_RETRIES ELSE 1)
      BY <3>1 DEF NUM_RETRIES
    <3> QED
      BY <1>2, <2>3, <3>2
  <2>5. UnderWay' \subseteq UnderWay
    BY <2>3 DEF UnderWay
  <2>6. \A p \in UnderWay : p # <<c.slot, c.setting>> => p \in UnderWay'
    <3> SUFFICES ASSUME NEW i \in 1..Len(calls),
                        <<calls[i].slot, calls[i].setting>> # <<c.slot, c.setting>>
                 PROVE  <<calls[i].slot, calls[i].setting>> \in UnderWay'
      BY DEF UnderWay
    <3>1. i - 1 \in 1..Len(calls') /\ (i - 1) + 1 = i
      BY <1>1, <2>2
    <3>2. calls'[i - 1] = calls[i]
      BY <2>2, <3>1
    <3> QED
      BY <3>1, <3>2 DEF UnderWay
  <2>7. err => c.tries = NUM_RETRIES
    BY <1>3, <1>7 DEF Again, NUM_RETRIES
  <2> QED
    BY <1>1, <1>3, <1>4, <2>2, <2>4, <2>5, <2>6, <2>7
<1> QED
  BY <1>6, <1>7

(* What an attempt does to the device and to the configuration object.     *)
LEMMA AfterTransfer ==
  ASSUME TypeInv, NEW m \in Slots, NEW s \in Settings, NEW v \in ValuesOf[s],
         NEW ok \in BOOLEAN, Transfer(m, s, v, ok)
  PROVE  /\ device' \in [Slots -> [Settings -> AnyHeld]]
         /\ configs' \in [Sparks -> [Settings -> AnyHeld]]
         /\ \A t \in Slots, u \in Settings : device'[t][u] \in Held(u)
         /\ \A t \in Sparks, u \in Settings : configs'[t][u] \in Held(u)
         /\ \A t \in Slots \ {m} : device'[t] = device[t]
         /\ \A t \in Sparks, u \in Settings :
              <<t, u>> # <<m, s>> => configs'[t][u] = configs[t][u]
         /\ m \in Sparks => configs'[m][s] = Sent(m, s, v)
         /\ m \in Sparks =>
              \A u \in Settings :
                \/ ~ok /\ device'[m][u] = device[m][u]
                \/ device'[m][u] = IF configs'[m][u] # Stored THEN configs'[m][u]
                                                              ELSE device[m][u]
         /\ m \in Talons => \A u \in Settings \ {s} : device'[m][u] = device[m][u]
         /\ m \in Talons /\ ok => device'[m][s] = Sent(m, s, v)
<1>1. /\ device \in [Slots -> [Settings -> AnyHeld]]
      /\ configs \in [Sparks -> [Settings -> AnyHeld]]
      /\ \A t \in Slots, u \in Settings : device[t][u] \in Held(u)
      /\ \A t \in Sparks, u \in Settings : configs[t][u] \in Held(u)
  BY DEF TypeInv, TypeOK, Slots
<1>2. /\ Sent(m, s, v) \in Held(s)
      /\ m \in Talons /\ s = "frames" => SUBSET Sent(m, s, v) \subseteq Held(s)
  BY TransferredIsHeld
<1>3. \A u \in Settings : Held(u) \subseteq AnyHeld
  BY DEF AnyHeld
<1>4. m \in Slots /\ ~(m \in Sparks /\ m \in Talons)
  BY ConfigAssumption
<1>5. CASE m \in Sparks
  <2> DEFINE o == Object(m, s, v)
  <2>1. /\ configs' = [configs EXCEPT ![m] = o]
        /\ \E taken \in SUBSET Settings :
             /\ ok => taken = Settings
             /\ device' = [device EXCEPT ![m] = Overlay(@, o, taken)]
    BY <1>4, <1>5 DEF Transfer, SparkTransfer
  <2>2. PICK taken \in SUBSET Settings :
          /\ ok => taken = Settings
          /\ device' = [device EXCEPT ![m] = Overlay(device[m], o, taken)]
    BY <2>1
  <2>3. /\ o \in [Settings -> AnyHeld] /\ o[s] = Sent(m, s, v)
        /\ \A u \in Settings : o[u] \in Held(u)
        /\ \A u \in Settings \ {s} : o[u] = configs[m][u]
    BY <1>1, <1>2, <1>3, <1>5 DEF Object
  <2> HIDE DEF o
  <2>4. /\ configs' \in [Sparks -> [Settings -> AnyHeld]] /\ configs'[m] = o
        /\ \A t \in Sparks \ {m} : configs'[t] = configs[t]
    BY <1>1, <1>5, <2>1, <2>3
  <2>5. /\ Overlay(device[m], o, taken) \in [Settings -> AnyHeld]
        /\ \A u \in Settings :
             /\ Overlay(device[m], o, taken)[u] \in Held(u)
             /\ Overlay(device[m], o, taken)[u] =
                  IF u \in taken /\ o[u] # Stored THEN o[u] ELSE device[m][u]
    BY <1>1, <2>3 DEF Overlay
  <2>6. /\ device' \in [Slots -> [Settings -> AnyHeld]]
        /\ device'[m] = Overlay(device[m], o, taken)
        /\ \A t \in Slots \ {m} : device'[t] = device[t]
    BY <1>1, <2>2, <2>5
  <2>7. \A t \in Slots, u \in Settings : device'[t][u] \in Held(u)
    BY <1>1, <2>5, <2>6
  <2>8. \A t \in Sparks, u \in Settings :
          /\ configs'[t][u] \in Held(u)
          /\ <<t, u>> # <<m, s>> => configs'[t][u] = configs[t][u]
    BY <1>1, <2>3, <2>4
  <2>9. \A u \in Settings :
          \/ ~ok /\ device'[m][u] = device[m][u]
          \/ device'[m][u] = IF configs'[m][u] # Stored THEN configs'[m][u]
                                                        ELSE device[m][u]
    BY <2>2, <2>4, <2>5, <2>6
  <2> QED
    BY <1>4, <1>5, <2>3, <2>4, <2>6, <2>7, <2>8, <2>9
<1>6. CASE m \in Talons
  <2>1. UNCHANGED configs
    BY <1>4, <1>6 DEF Transfer, TalonTransfer
  <2>2. PICK held \in {device[m][s], Sent(m, s, v)}
                        \cup (IF s = "frames" THEN SUBSET Sent(m, s, v) ELSE {}) :
          /\ ok => held = Sent(m, s, v)
          /\ device' = [device EXCEPT ![m][s] = held]
    BY <1>4, <1>6 DEF Transfer, TalonTransfer
  <2>3. held \in Held(s)
    BY <1>1, <1>2, <1>6, <2>2
  <2>4. /\ device' \in [Slots -> [Settings -> AnyHeld]]
        /\ device'[m][s] = held
        /\ \A t \in Slots \ {m} : device'[t] = device[t]
        /\ \A u \in Settings \ {s} : device'[m][u] = device[m][u]
    BY <1>1, <1>3, <2>2, <2>3
  <2>5. \A t \in Slots, u \in Settings : device'[t][u] \in Held(u)
    BY <1>1, <2>3, <2>4
  <2> QED
    BY <1>1, <1>4, <1>6, <2>1, <2>2, <2>4, <2>5
<1> QED
  BY <1>5, <1>6 DEF Slots

LEMMA AttemptKeeps ==
  ASSUME ConfigInv, NEW ok \in BOOLEAN, Attempt(ok)
  PROVE  ConfigInv' /\ \A m \in restarted \ restarted' : \A s \in Settings :
                         <<m, s>> \in sent' => InForce(m, s)'
<1> DEFINE c == calls[1]
           m == c.slot
           s == c.setting
           v == c.value
           err == ErrorRead(m, s, ok)
<1>1. /\ TypeInv /\ TypeOK /\ ObjectsAgree /\ RegistryAgrees /\ SentWasAsked
      /\ AskedIsInForceOrLogged
  BY DEF ConfigInv, TypeInv
<1>2. /\ c \in Requests /\ m \in constructed /\ m \in Slots
      /\ s \in Settings /\ v \in ValuesOf[s]
      /\ v = asked[m][s]
      /\ <<m, s>> \in UnderWay
      /\ \A p \in UnderWay : p[1] = m
      /\ UnderWay' \subseteq UnderWay
      /\ \A p \in UnderWay : p # <<m, s>> => p \in UnderWay'
      /\ err /\ c.tries # NUM_RETRIES => <<m, s>> \in UnderWay'
      /\ calls' \in Seq(Requests)
      /\ \A i \in 1..Len(calls') :
           /\ calls'[i].slot = m
           /\ calls'[i].setting \in Settings
           /\ calls'[i].value \in ValuesOf[calls'[i].setting]
           /\ calls'[i].value = asked[m][calls'[i].setting]
           /\ calls'[i].tries \in 1..(IF i = 1 THEN NUM_RETRIES ELSE 1)
  BY <1>1, CallsAfterAttempt
<1>3. /\ Transfer(m, s, v, ok)
      /\ sent' = sent \cup {<<m, s>>}
      /\ reported' = (reported \ {<<m, s>>}) \cup GivenUp(c, err)
      /\ restarted' = IF ok THEN restarted \ {m} ELSE restarted
      /\ last_error' = [last_error EXCEPT ![m] = FALSE]
      /\ UNCHANGED <<constructed, gains_registry, restarts, asked>>
  <2>1. Head(calls) = c
    BY <1>1, TailKeepsTheRest DEF TypeInv, Attempt
  <2> QED
    BY <2>1 DEF Attempt
<1>4. /\ device' \in [Slots -> [Settings -> AnyHeld]]
      /\ configs' \in [Sparks -> [Settings -> AnyHeld]]
      /\ \A t \in Slots, u \in Settings : device'[t][u] \in Held(u)
      /\ \A t \in Sparks, u \in Settings : configs'[t][u] \in Held(u)
      /\ \A t \in Slots \ {m} : device'[t] = device[t]
      /\ \A t \in Sparks, u \in Settings :
           <<t, u>> # <<m, s>> => configs'[t][u] = configs[t][u]
      /\ m \in Sparks => configs'[m][s] = Sent(m, s, v)
      /\ m \in Sparks =>
           \A u \in Settings :
             \/ ~ok /\ device'[m][u] = device[m][u]
             \/ device'[m][u] = IF configs'[m][u] # Stored THEN configs'[m][u]
                                                           ELSE device[m][u]
      /\ m \in Talons => \A u \in Settings \ {s} : device'[m][u] = device[m][u]
      /\ m \in Talons /\ ok => device'[m][s] = Sent(m, s, v)
  BY <1>1, <1>2, <1>3, AfterTransfer
<1> HIDE DEF err
<1>5. GivenUp(c, err) \subseteq {<<m, s>>}
  BY DEF GivenUp
<1> HIDE DEF c
<1>6. TypeInv'
  <2>1. \A i \in 1..Len(calls') :
          /\ calls'[i].slot \in constructed' /\ calls'[i].slot = calls'[1].slot
          /\ calls'[i].setting \in Settings
          /\ calls'[i].value \in ValuesOf[calls'[i].setting]
          /\ calls'[i].value = asked'[calls'[i].slot][calls'[i].setting]
          /\ calls'[i].tries \in 1..(IF i = 1 THEN NUM_RETRIES ELSE 1)
    <3>1. Len(calls') \in Nat
      BY <1>2
    <3>2. \A i \in 1..Len(calls') : 1 \in 1..Len(calls')
      BY <3>1
    <3>3. asked' = asked /\ constructed' = constructed
      BY <1>3
    <3> QED
      BY <1>2, <3>2, <3>3
  <2>2. sent' \cup reported' \subseteq Slots \X Settings
    BY <1>1, <1>2, <1>3, <1>5 DEF TypeOK
  <2>3. last_error' \in [Slots -> BOOLEAN]
    BY <1>1, <1>3 DEF TypeOK
  <2>4. /\ constructed' \subseteq Slots /\ gains_registry' \in [Slots -> ValuesOf["gains"]]
        /\ restarted' \subseteq Sparks /\ restarts' \in 0..MaxRestarts
        /\ asked' \in [Slots -> [Settings -> {Stored} \cup AnyValue]]
        /\ \A t \in Slots, u \in Settings : asked'[t][u] \in {Stored} \cup ValuesOf[u]
    BY <1>1, <1>3 DEF TypeInv, TypeOK
  <2> QED
    BY <1>2, <1>4, <2>1, <2>2, <2>3, <2>4 DEF TypeInv, TypeOK
(* Whatever was sent to a Spark is in its object now.                      *)
<1>7. \A t \in Sparks, u \in Settings :
        <<t, u>> \in sent' => configs'[t][u] = Sent(t, u, asked'[t][u])
  <2> SUFFICES ASSUME NEW t \in Sparks, NEW u \in Settings, <<t, u>> \in sent'
               PROVE  configs'[t][u] = Sent(t, u, asked[t][u])
    BY <1>3
  <2>1. CASE <<t, u>> = <<m, s>>
    BY <1>2, <1>4, <2>1
  <2>2. CASE <<t, u>> # <<m, s>>
    <3>1. <<t, u>> \in sent /\ configs'[t][u] = configs[t][u]
      BY <1>3, <1>4, <2>2
    <3>2. ~(calls # << >> /\ calls[1].slot = t /\ calls[1].setting = u)
      BY <2>2 DEF c
    <3> QED
      BY <1>1, <3>1, <3>2 DEF ObjectsAgree
  <2> QED
    BY <2>1, <2>2
<1>8. ObjectsAgree'
  BY <1>7 DEF ObjectsAgree
<1>9. RegistryAgrees'
  BY <1>1, <1>2, <1>3 DEF RegistryAgrees
<1>10. SentWasAsked'
  BY <1>1, <1>2, <1>3 DEF SentWasAsked
(* A Spark that took all of its object has everything in force.            *)
<1>11. ASSUME ok, m \in Sparks, NEW u \in Settings, <<m, u>> \in sent'
       PROVE  device'[m][u] = Sent(m, u, asked'[m][u])
  <2>1. configs'[m][u] = Sent(m, u, asked'[m][u])
    BY <1>7, <1>11
  <2>2. asked'[m][u] \in ValuesOf[u]
    <3>1. <<m, u>> \in sent \/ u = s
      BY <1>3, <1>11
    <3> QED
      BY <1>1, <1>2, <1>3, <3>1 DEF SentWasAsked
  <2>3. configs'[m][u] # Stored
    BY <1>2, <2>1, <2>2, TransferredIsHeld
  <2> QED
    BY <1>4, <1>11, <2>1, <2>3
<1>12. AskedIsInForceOrLogged'
  <2> SUFFICES ASSUME NEW t \in Slots, NEW u \in Settings, <<t, u>> \in sent',
                      <<t, u>> \notin UnderWay'
               PROVE  \/ InForce(t, u)' \/ <<t, u>> \in reported' \/ t \in restarted'
                      \/ Ignores(t, u)
    BY DEF AskedIsInForceOrLogged, Ignores
  <2>1. CASE <<t, u>> # <<m, s>>
    <3>1. <<t, u>> \in sent /\ <<t, u>> \notin UnderWay
      BY <1>2, <1>3, <2>1
    <3>2. InForce(t, u) \/ <<t, u>> \in reported \/ t \in restarted \/ Ignores(t, u)
      BY <1>1, <3>1 DEF AskedIsInForceOrLogged
    <3>3. <<t, u>> \in reported => <<t, u>> \in reported'
      BY <1>3, <2>1
    <3>4. CASE t # m
      BY <1>3, <1>4, <3>2, <3>3, <3>4 DEF InForce
    <3>5. CASE t = m /\ m \in Sparks
      <4>1. CASE ok
        BY <1>11, <3>5, <4>1 DEF InForce
      <4>2. CASE ~ok
        <5>1. restarted' = restarted
          BY <1>3, <4>2
        <5>2. configs'[m][u] = Sent(m, u, asked'[m][u])
          BY <1>7, <3>5
        <5>3. InForce(t, u) => InForce(t, u)'
          BY <1>3, <1>4, <3>5, <5>2 DEF InForce
        <5> QED
          BY <3>2, <3>3, <3>5, <5>1, <5>3
      <4> QED
        BY <4>1, <4>2
    <3>6. CASE t = m /\ m \in Talons
      <4>1. t \notin restarted
        BY <1>1, <3>6, ConfigAssumption DEF TypeOK
      <4>2. device'[m][u] = device[m][u]
        BY <1>4, <2>1, <3>6
      <4> QED
        BY <1>3, <3>2, <3>3, <3>6, <4>1, <4>2 DEF InForce
    <3> QED
      BY <3>4, <3>5, <3>6 DEF Slots
  <2>2. CASE <<t, u>> = <<m, s>>
    <3>0. t = m /\ u = s
      BY <2>2
    <3>1. CASE ok /\ m \in Sparks
      BY <1>11, <3>0, <3>1 DEF InForce
    <3>2. CASE ok /\ m \in Talons
      BY <1>2, <1>3, <1>4, <3>0, <3>2 DEF InForce
    <3>3. CASE ~ok /\ ~Ignores(m, s)
      <4>1. err
        BY <3>3 DEF err, ErrorRead
      <4>2. c.tries = NUM_RETRIES
        BY <1>2, <2>2, <4>1
      <4>3. <<m, s>> \in GivenUp(c, err)
        BY <4>1, <4>2 DEF GivenUp
      <4> QED
        BY <1>3, <2>2, <4>3
    <3> QED
      BY <1>2, <3>0, <3>1, <3>2, <3>3 DEF Slots
  <2> QED
    BY <2>1, <2>2
<1>13. \A t \in restarted \ restarted' : \A u \in Settings :
          <<t, u>> \in sent' => InForce(t, u)'
  <2> SUFFICES ASSUME NEW t \in restarted \ restarted', NEW u \in Settings,
                      <<t, u>> \in sent'
               PROVE  InForce(t, u)'
    OBVIOUS
  <2>1. ok /\ t = m
    BY <1>3
  <2>2. m \in Sparks
    BY <1>1, <2>1 DEF TypeOK
  <2> QED
    BY <1>11, <2>1, <2>2 DEF InForce
<1> QED
  BY <1>6, <1>8, <1>9, <1>10, <1>12, <1>13 DEF ConfigInv

(***************************************************************************)
(* Every step, and the theorems.                                           *)
(***************************************************************************)
LEMMA NextKeeps ==
  ASSUME ConfigInv, [Next]_vars
  PROVE  ConfigInv' /\ \A m \in restarted \ restarted' : \A s \in Settings :
                         <<m, s>> \in sent' => InForce(m, s)'
<1>1. ASSUME NEW m \in Slots, Construct(m)
      PROVE  ConfigInv' /\ restarted' = restarted
  BY <1>1, ConstructKeeps DEF Construct
<1>2. ASSUME NEW m \in Slots, Restart(m)
      PROVE  ConfigInv' /\ restarted \subseteq restarted'
  BY <1>2, RestartKeeps DEF Restart
<1>3. ASSUME NEW m \in Slots, NEW s \in Settings, NEW v \in ValuesOf[s], Set(m, s, v)
      PROVE  ConfigInv' /\ restarted' = restarted
  BY <1>3, SetKeeps DEF Set
<1>4. ASSUME NEW m \in Slots, NEW g \in ValuesOf["gains"], SetGains(m, g)
      PROVE  ConfigInv' /\ restarted' = restarted
  BY <1>4, SetGainsKeeps DEF SetGains
<1>5. ASSUME Tick
      PROVE  ConfigInv' /\ restarted' = restarted
  BY <1>5, TickKeeps DEF Tick
<1>6. ASSUME UNCHANGED vars
      PROVE  ConfigInv' /\ restarted' = restarted
  BY <1>6 DEF vars, ConfigInv, TypeInv, TypeOK, ObjectsAgree, RegistryAgrees,
              SentWasAsked, AskedIsInForceOrLogged, InForce, UnderWay
<1> QED
  BY <1>1, <1>2, <1>3, <1>4, <1>5, <1>6, AttemptKeeps DEF Next

LEMMA ConfigInvariant == Spec => []ConfigInv
<1>1. ConfigInv /\ [Next]_vars => ConfigInv'
  BY NextKeeps
<1> QED
  BY <1>1, InitConfig, PTL DEF Spec

(* The calls under way, the objects and the devices stay well formed.      *)
THEOREM TypesHold == Spec => []TypeOK
<1>1. ConfigInv => TypeOK
  BY DEF ConfigInv, TypeInv
<1> QED
  BY <1>1, ConfigInvariant, PTL

(* What was transferred is in force as last asked, or its failure is in    *)
(* the log, or the device restarted: dropping a SetGains whose gains are   *)
(* already registered never leaves other gains in force, and a failed      *)
(* transfer of a Spark's whole object never changes a setting it is not    *)
(* about.                                                                  *)
THEOREM AskedInForceOrLogged == Spec => []AskedIsInForceOrLogged
<1>1. ConfigInv => AskedIsInForceOrLogged
  BY DEF ConfigInv
<1> QED
  BY <1>1, ConfigInvariant, PTL

(* One acknowledged transfer, of any setting, gives a Spark that lost its  *)
(* settings all of them back.                                              *)
THEOREM OneTransferRepairs == Spec => OneTransferRepairsASpark
<1>1. ConfigInv /\ [Next]_vars =>
        [\A m \in restarted \ restarted' : \A s \in Settings :
           <<m, s>> \in sent' => InForce(m, s)']_vars
  BY NextKeeps
<1> QED
  BY <1>1, ConfigInvariant, PTL DEF Spec, OneTransferRepairsASpark
-----------------------------------------------------------------------------
(* calculateSteerPosition stays within a quarter turn of where the wheel   *)
(* is, on the line of the target.                                          *)
LEMMA QuarterTurn ==
  ASSUME NEW target_norm \in Int, NEW current \in Int
  PROVE  /\ HalfTurns(target_norm, current) \in Int
         /\ SteerPosition(target_norm, current) \in Int
         /\ Magnitude(SteerPosition(target_norm, current) - current) <= 90
<1>1. CASE target_norm - current > 90
  BY <1>1 DEF HalfTurns, SteerPosition, Magnitude
<1>2. CASE target_norm - current < -90
  BY <1>2 DEF HalfTurns, SteerPosition, Magnitude
<1>3. CASE target_norm - current <= 90 /\ target_norm - current >= -90
  BY <1>3 DEF HalfTurns, SteerPosition, Magnitude
<1> QED BY <1>1, <1>2, <1>3

(* An odd number of half turns is what makes the cosine negative.          *)
LEMMA CosineAfterHalfTurns ==
  ASSUME NEW ahead \in Int, NEW n \in Int,
         ahead - 180 * n <= 90, ahead - 180 * n >= -90,
         CosineSign(ahead) # 0
  PROVE  CosineSign(ahead) < 0 <=> n % 2 = 1
<1>1. CASE n % 2 = 1
  <2>1. PICK k \in Int : n = 2 * k + 1
    BY <1>1
  <2>2. ahead - 360 * k >= 90 /\ ahead - 360 * k <= 270
    BY <2>1
  <2>3. ahead % 360 >= 90 /\ ahead % 360 <= 270
    BY <2>2
  <2>4. ahead % 360 \in Int
    OBVIOUS
  <2> QED BY <1>1, <2>3, <2>4 DEF CosineSign
<1>2. CASE n % 2 = 0
  <2>1. PICK k \in Int : n = 2 * k
    BY <1>2
  <2>2. ahead - 360 * k >= -90 /\ ahead - 360 * k <= 90
    BY <2>1
  <2>3. ahead % 360 >= 270 \/ ahead % 360 <= 90
    BY <2>2
  <2>4. ahead % 360 \in Int
    OBVIOUS
  <2> QED BY <1>2, <2>3, <2>4 DEF CosineSign
<1>3. n % 2 = 1 \/ n % 2 = 0
  OBVIOUS
<1> QED BY <1>1, <1>2, <1>3

LEMMA CosineInverts ==
  ASSUME NEW target_norm \in Int, NEW current \in Int,
         CosineSign(target_norm - current) # 0
  PROVE  CosineSign(target_norm - current) < 0 <=> InvertDrive(target_norm, current)
<1>1. target_norm - current \in Int /\ HalfTurns(target_norm, current) \in Int
  BY QuarterTurn
<1>2. /\ (target_norm - current) - 180 * HalfTurns(target_norm, current) <= 90
      /\ (target_norm - current) - 180 * HalfTurns(target_norm, current) >= -90
  <2>1. Magnitude(SteerPosition(target_norm, current) - current) <= 90
    BY QuarterTurn
  <2> QED BY <1>1, <2>1 DEF SteerPosition, Magnitude
<1> QED BY <1>1, <1>2, CosineAfterHalfTurns DEF InvertDrive

LEMMA MagnitudeType == ASSUME NEW a \in Int PROVE Magnitude(a) \in Int
BY DEF Magnitude

LEMMA TargetType ==
  ASSUME target \in [drive : BOOLEAN, steer : Directions \cup {0}]
  PROVE  target.steer \in Int
<1>1. target.steer \in Directions \cup {0}
  OBVIOUS
<1>2. \A d \in Directions \cup {0} : d \in Int
  BY SteeringAssumption
<1> QED BY <1>1, <1>2, Zenon

(* A turn of the wheel moves it by a step at most, and closer to where it  *)
(* is sent.                                                                *)
LEMMA TurnsCloser ==
  ASSUME NEW from \in Int, NEW to \in Int
  PROVE  /\ Toward(from, to) \in Int
         /\ Magnitude(Toward(from, to) - from) <= Step
         /\ Magnitude(to - Toward(from, to)) <= Magnitude(to - from)
BY SteeringAssumption DEF Toward, Magnitude

LEMMA InvInit == WheelInit => SteeringInv
<1> SUFFICES ASSUME WheelInit PROVE SteeringInv
  OBVIOUS
<1>1. WheelTypeOK
  <2>1. target \in [drive : BOOLEAN, steer : Directions \cup {0}]
    BY DEF WheelInit, ZeroTarget
  <2>2. steer \in Int
    BY SteeringAssumption DEF WheelInit
  <2>3. last_rezero \in 0..RezeroLoops /\ writes \in 0..2 /\ steer_pos \in Int
    BY SteeringAssumption DEF WheelInit
  <2>4. /\ pc \in {"read", "command", "idle"} /\ moved \in BOOLEAN
        /\ drive_sign \in {-1, 0, 1} /\ setpoint \in Int \cup {NoSetpoint}
    BY DEF WheelInit
  <2> QED BY <2>1, <2>2, <2>3, <2>4 DEF WheelTypeOK
<1>2. ForcedAfterZeroing /\ FreshReading /\ SteersTheShortWay
  BY DEF WheelInit, ForcedAfterZeroing, FreshReading, SteersTheShortWay
<1> QED BY <1>1, <1>2 DEF SteeringInv

LEMMA InvNext == SteeringInv /\ [WheelNext]_wheel_vars => SteeringInv'
<1> SUFFICES ASSUME SteeringInv, [WheelNext]_wheel_vars PROVE SteeringInv'
  OBVIOUS
<1> USE SteeringAssumption
<1>0. WheelTypeOK /\ ForcedAfterZeroing /\ FreshReading /\ SteersTheShortWay
  BY DEF SteeringInv
<1>1. CASE ReadFromHardware
  <2>1. WheelTypeOK'
    BY <1>0, <1>1 DEF ReadFromHardware, WheelTypeOK
  <2>2. ForcedAfterZeroing' /\ FreshReading' /\ SteersTheShortWay'
    BY <1>0, <1>1 DEF ReadFromHardware, WheelTypeOK, ForcedAfterZeroing, FreshReading,
                      SteersTheShortWay, Magnitude
  <2> QED BY <2>1, <2>2 DEF SteeringInv
<1>2. ASSUME NEW drive \in BOOLEAN, NEW direction \in Directions, SetTarget(drive, direction)
      PROVE  SteeringInv'
  <2>1. WheelTypeOK'
    BY <1>0, <1>2 DEF SetTarget, WheelTypeOK
  <2>2. ForcedAfterZeroing' /\ FreshReading' /\ SteersTheShortWay'
    BY <1>0, <1>2 DEF SetTarget, ForcedAfterZeroing, FreshReading, SteersTheShortWay
  <2> QED BY <2>1, <2>2 DEF SteeringInv
<1>3. CASE ZeroWithCANcoder
  <2>1. WheelTypeOK'
    BY <1>0, <1>3 DEF ZeroWithCANcoder, WheelTypeOK
  <2>2. ForcedAfterZeroing' /\ FreshReading' /\ SteersTheShortWay'
    BY <1>0, <1>3 DEF ZeroWithCANcoder, ForcedAfterZeroing, FreshReading, SteersTheShortWay
  <2> QED BY <2>1, <2>2 DEF SteeringInv
<1>4. CASE WriteToHardware
  <2> DEFINE ordered == SteerPosition(target.steer, steer_pos)
  <2>0. target.steer \in Int /\ steer \in Int /\ steer_pos \in Int
    BY <1>0, TargetType DEF WheelTypeOK
  <2>1. ordered \in Int /\ Magnitude(ordered - steer_pos) <= 90
    BY <2>0, QuarterTurn
  <2>2. Drives \in {-1, 0, 1}
    BY DEF Drives, CosineSign
  <2> HIDE DEF ordered
  <2>3. WheelTypeOK'
    <3>1. setpoint' \in Int \cup {NoSetpoint}
      BY <1>0, <1>4, <2>1 DEF WriteToHardware, WheelTypeOK, ordered
    <3>2. drive_sign' \in {-1, 0, 1}
      BY <1>4, <2>2 DEF WriteToHardware
    <3>3. last_rezero' \in 0..RezeroLoops /\ writes' \in 0..2
      BY <1>0, <1>4 DEF WriteToHardware, WheelTypeOK
    <3> QED BY <1>0, <1>4, <3>1, <3>2, <3>3 DEF WriteToHardware, WheelTypeOK
  <2>4. ForcedAfterZeroing' /\ FreshReading'
    BY <1>0, <1>4 DEF WriteToHardware, WheelTypeOK, Steers, ForcedAfterZeroing, FreshReading
  <2>5. ASSUME writes > 0, Steers PROVE SteersTheShortWay'
    <3>1. setpoint' = ordered /\ steer' = steer
      BY <1>4, <2>5 DEF WriteToHardware, ordered
    <3>2. Magnitude(steer - steer_pos) <= Step
      BY <1>0, <1>4, <2>5 DEF WriteToHardware, FreshReading
    <3> QED BY <2>0, <2>1, <3>1, <3>2 DEF SteersTheShortWay, Magnitude
  <2>6. ASSUME ~Steers PROVE SteersTheShortWay'
    <3>1. writes = 2 /\ writes' = 2
      BY <1>0, <1>4, <2>6 DEF WriteToHardware, WheelTypeOK, Steers, ForcedAfterZeroing
    <3> QED BY <1>0, <1>4, <2>6, <3>1 DEF WriteToHardware, SteersTheShortWay
  <2>7. ASSUME writes = 0 PROVE SteersTheShortWay'
    BY <1>4, <2>7 DEF WriteToHardware, SteersTheShortWay
  <2> QED
    <3>1. writes > 0 \/ writes = 0
      BY <1>0 DEF WheelTypeOK
    <3>2. SteersTheShortWay'
      BY <3>1, <2>5, <2>6, <2>7
    <3> QED BY <2>3, <2>4, <3>2 DEF SteeringInv
<1>5. CASE NextPass
  <2>1. WheelTypeOK'
    BY <1>0, <1>5 DEF NextPass, WheelTypeOK
  <2>2. ForcedAfterZeroing' /\ FreshReading' /\ SteersTheShortWay'
    BY <1>0, <1>5 DEF NextPass, ForcedAfterZeroing, FreshReading, SteersTheShortWay
  <2> QED BY <2>1, <2>2 DEF SteeringInv
<1>6. CASE Turn
  <2>0. steer \in Int /\ setpoint \in Int /\ steer_pos \in Int
    BY <1>0, <1>6 DEF WheelTypeOK, Turn
  <2>1. /\ steer' \in Int /\ Magnitude(steer' - steer) <= Step
        /\ Magnitude(setpoint - steer') <= Magnitude(setpoint - steer)
    BY <1>6, <2>0, TurnsCloser DEF Turn
  <2>2. WheelTypeOK'
    BY <1>0, <1>6, <2>1 DEF Turn, WheelTypeOK
  <2>3. ForcedAfterZeroing'
    BY <1>0, <1>6 DEF Turn, ForcedAfterZeroing
  <2>4. FreshReading'
    BY <1>0, <1>6, <2>1 DEF Turn, FreshReading
  <2>5. SteersTheShortWay'
    <3>1. Magnitude(setpoint - steer') \in Int /\ Magnitude(setpoint - steer) \in Int
      BY <2>0, <2>1, MagnitudeType
    <3> QED BY <1>0, <1>6, <2>1, <3>1 DEF Turn, SteersTheShortWay
  <2> QED BY <2>2, <2>3, <2>4, <2>5 DEF SteeringInv
<1>7. CASE UNCHANGED wheel_vars
  <2>1. WheelTypeOK'
    BY <1>0, <1>7 DEF wheel_vars, WheelTypeOK
  <2>2. ForcedAfterZeroing' /\ FreshReading' /\ SteersTheShortWay'
    BY <1>0, <1>7 DEF wheel_vars, ForcedAfterZeroing, FreshReading, SteersTheShortWay
  <2> QED BY <2>1, <2>2 DEF SteeringInv
<1> QED BY <1>1, <1>2, <1>3, <1>4, <1>5, <1>6, <1>7 DEF WheelNext

(* Two passes after the encoder was zeroed no wheel is sent further than a *)
(* quarter turn and what it turned meanwhile (swerve_module.cc:140-181).   *)
THEOREM ShortWay == WheelSpec => []SteersTheShortWay
<1>1. SteeringInv => SteersTheShortWay
  BY DEF SteeringInv
<1> QED BY <1>1, InvInit, InvNext, PTL DEF WheelSpec

-----------------------------------------------------------------------------
LEMMA FollowsInit == WheelInit => DriveFollowsWheel
BY DEF WheelInit, DriveFollowsWheel

LEMMA FollowsNext ==
  SteeringInv /\ DriveFollowsWheel /\ [WheelNext]_wheel_vars => DriveFollowsWheel'
<1> SUFFICES ASSUME SteeringInv, DriveFollowsWheel, [WheelNext]_wheel_vars PROVE DriveFollowsWheel'
  OBVIOUS
<1>1. CASE WriteToHardware
  <2>1. target.steer \in Int /\ steer_pos \in Int
    BY TargetType DEF SteeringInv, WheelTypeOK
  <2>2. /\ steer_pos' = steer_pos /\ target' = target
        /\ drive_sign' = 0 \/ drive_sign' = CosineSign(target.steer - steer_pos)
    BY <1>1 DEF WriteToHardware, Drives
  <2> QED BY <2>1, <2>2, CosineInverts DEF DriveFollowsWheel
<1>2. CASE pc' # "idle"
  BY <1>2 DEF DriveFollowsWheel
<1>3. CASE Turn \/ ZeroWithCANcoder \/ UNCHANGED wheel_vars
  BY <1>3 DEF Turn, ZeroWithCANcoder, wheel_vars, DriveFollowsWheel
<1> QED
  BY <1>1, <1>2, <1>3 DEF WheelNext, ReadFromHardware, SetTarget, NextPass

(* The drive is inverted exactly when calculateSteerPosition says so, in   *)
(* every reachable state (swerve_module.cc:144-157, 165-181).              *)
THEOREM InversionAgrees == WheelSpec => []DriveFollowsWheel
BY InvInit, InvNext, FollowsInit, FollowsNext, PTL DEF WheelSpec
=============================================================================
