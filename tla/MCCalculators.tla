--------------------------- MODULE MCCalculators ---------------------------
(***************************************************************************)
(* The calculators, each asked about a set of inputs and compared with     *)
(* what its result is for: where two of them are each other's inverse, or  *)
(* what a camera would see, a driver expects or a file says.               *)
(*                                                                         *)
(* A state is the last call: what was called, with what, and the result.   *)
(***************************************************************************)
EXTENDS SwerveKinematics, Localization, TeleopDrive, FieldGeometry, FieldFile, LogText,
        MotorSimulator

VARIABLE call

Idle == [of |-> "nothing"]
Called(of, in, out) == call' = [of |-> of, in |-> in, out |-> out]
Return == call # Idle /\ call' = Idle

(* The axes of a robot with this bearing, in fifths: what is right of it   *)
(* and what is before it, and where something in its frame is.             *)
RightOf(b)  == <<Cos(b), -Sin(b)>>
AheadOf(b)  == <<Sin(b), Cos(b)>>
World(v, b) == Plus(Times(RightOf(b), v[1]), Times(AheadOf(b), v[2]))
InFrame(v, b) == <<Dot(v, RightOf(b)), Dot(v, AheadOf(b))>>
-----------------------------------------------------------------------------
(* The wheels, asked for a motion.                                         *)
Motions ==
  {Asked(<<x, y>>, r, b, s, cut) :
     x \in {-4, 0, 3}, y \in {0, 5}, r \in {-5, 0, 2, 7}, b \in Angles5,
     s \in {4, 6, 12}, cut \in BOOLEAN}

CallWheels ==
  /\ call = Idle
  /\ \E asked \in Motions : Called("wheels", asked, calculate(asked))

(* The rotation the wheels make together.                                  *)
Turning(targets, mean, most) ==
  {r \in -most .. most : \A i \in Modules :
     Minus(targets[i], mean) = <<5 * r * Location[i][2], -5 * r * Location[i][1]>>}

(* No wheel is told to be faster than the calculator was asked for, and    *)
(* together they move the robot as it was asked to, in its own frame, and  *)
(* turn it the way it was asked to: as fast, or, when rotation may be cut, *)
(* as fast as its steps allow.                                             *)
WheelsAsAsked ==
  call.of = "wheels" =>
    LET asked == call.in
        out == call.out
        mean == InFrame(asked.translation, asked.bearing)
        most == Absolute(asked.rotation)
        fits(r) == ~ TooFast(ModuleTargets(asked, r), asked.max_speed)
    IN  /\ \A i \in Modules :
             Square(out.targets[i]) <= IF out.rescaled THEN out.fastest
                                       ELSE 25 * asked.max_speed * asked.max_speed
        /\ \E r \in Turning(out.targets, mean, most) :
             /\ r * asked.rotation >= 0
             /\ ~ asked.cut => r = asked.rotation
             /\ asked.cut /\ out.rescaled => r = 0 /\ ~ fits(0)
             /\ r # asked.rotation => ~ fits(r + CopySign(RotationIterDec, asked.rotation))
                                      \/ most - Absolute(r) < RotationIterDec
-----------------------------------------------------------------------------
(* A robot is put at a position and makes two motions, in a pass each; the *)
(* fudge factor is the registered one or the one that is deployed.         *)
Firsts == {Asked(<<3, 5>>, 1, b, 99, cut) : b \in Angles5, cut \in BOOLEAN}
Seconds == {Asked(<<0, -2>>, r, b, 99, FALSE) : r \in {0, 3}, b \in Angles5}
FudgeFactors == {875, 960}

Journeys ==
  {[last |-> l, start |-> p, odom_ff |-> f, moves |-> <<m, n>>] :
     l \in {<<0, 0>>, <<30, -7>>}, p \in {<<0, 0>>, <<200, 400>>}, f \in FudgeFactors,
     m \in Firsts, n \in Seconds}

Travel(journey) ==
  LET put == SetPosition([last |-> journey.last, offset |-> <<0, 0>>], journey.start)
      after(odometry, m) == Moved(odometry, calculate(m).targets, m.bearing, journey.odom_ff)
  IN  OdometryPosition(after(after(put, journey.moves[1]), journey.moves[2]))

CallOdometry ==
  /\ call = Idle
  /\ \E j \in Journeys : Called("odometry", j, Travel(j))

(* When the wheels do what the open-loop calculator told them, the         *)
(* odometry finds the robot moved along the translation that was asked     *)
(* for, whatever its bearing and rotation, from where it was put: by the   *)
(* fudge factor's share of it, and so never by the whole.                  *)
OdometrySeesMotion ==
  call.of = "odometry" =>
    LET asked == Plus(call.in.moves[1].translation, call.in.moves[2].translation)
    IN  call.out = Plus(call.in.start, Times(Times(asked, 100), call.in.odom_ff))
-----------------------------------------------------------------------------
(* A robot with a bearing sees, at the capture, tags and pieces at angles  *)
(* and distances from its cameras; it has moved and turned since.          *)
Views ==
  {[position |-> p, bearing |-> b, velocity |-> v, turns |-> w, age |-> a,
    error |-> e, at |-> <<d1, d2>>, theta |-> <<t, <<4, 3>> >>] :
     p \in {<<30, 200>>}, b \in Angles5, v \in {<<0, 0>>, <<2, -3>>},
     w \in {-1, 0, 1}, a \in {1, 2}, e \in {<<0, 0>>, <<4, -6>>},
     d1 \in {25, 100}, d2 \in {50}, t \in {<<3, 4>>, <<0, -5>>}}

(* Where what is seen is; lengths are such that this is whole.             *)
Place(view, k, offset) ==
  LET seen == Plus(Times(offset, 5), AtBearing(view.at[k], view.theta[k]))
      place == World(seen, view.bearing)
  IN  Plus(view.position, <<place[1] \div 25, place[2] \div 25>>)

Now(view) ==
  [position |-> Plus(view.position, Times(view.velocity, view.age)),
   bearing |-> QuarterTurned(view.bearing, view.turns * view.age),
   velocity |-> view.velocity]

Estimated(view) == [Now(view) EXCEPT !.position = Plus(@, view.error)]

Frame(delay, tl, distances, tx, tags) ==
  [delay |-> delay, tl |-> tl, distances |-> distances, tx |-> tx, tags |-> tags]

(* What the cameras write: one is too old, one does not know its tag, one  *)
(* has written but two of its lists, two show all there is.                *)
Frames(view) ==
  LET d == view.at
      t == view.theta
  IN  { << Frame(0, view.age, <<d[1]>>, <<t[1]>>, <<1>>),
           Frame(1, view.age - 1, <<d[2]>>, <<t[2]>>, <<2>>) >>,
        << Frame(0, view.age, d, t, <<1, 3>>),
           Frame(Freshness + 1, 0, <<d[2]>>, <<t[1]>>, <<2>>) >>,
        << Frame(0, view.age, d, t, <<9, 3>>),
           Frame(0, view.age, <<d[2]>>, <<t[1], t[2]>>, <<2>>) >>,
        << Frame(Freshness + 1, view.age, d, t, <<1, 3>>),
           Frame(Freshness + 1, 0, <<>>, <<>>, <<>>) >> }

TagLocations(view) ==
  [k \in 1 .. 3 |->
     CASE k = 1 -> Place(view, 1, CameraOffset[1])
       [] k = 2 -> Place(view, 2, CameraOffset[2])
       [] k = 3 -> Place(view, 2, CameraOffset[1])]

(* Two readings: one with the frames, the next without any, after the      *)
(* robot moved on and its estimate with it.                                *)
Localize(view, frames) ==
  LET first == TagPosition(Estimated(view), view.turns, frames, TagLocations(view), <<0, 0>>)
      moved == [Estimated(view) EXCEPT !.position = Plus(@, <<7, 1>>)]
  IN  <<first, TagPosition(moved, view.turns, <<>>, TagLocations(view), first.correction)>>

CallTags ==
  /\ call = Idle
  /\ \E view \in Views : \E frames \in Frames(view) :
       Called("tags", view, Localize(view, frames))

CallPieces ==
  /\ call = Idle
  /\ \E view \in Views :
       Called("pieces", view,
              GamePieces(Now(view), view.turns, view.age, view.at, view.theta))

(* Tags that are seen put the robot where it is now, whatever the estimate *)
(* was, with any of the cameras and while it moves and turns; without tags *)
(* it is taken to be off by as much as when it last saw one.  A piece that *)
(* is seen is where it is unless the robot turns.                          *)
SightingsAgree ==
  /\ call.of = "tags" =>
       LET truth == Now(call.in).position
           seen == call.out[1]
           later == call.out[2]
       IN  /\ seen.pos = Times(IF seen.found THEN truth ELSE Estimated(call.in).position, 25)
           /\ later.pos = Plus(seen.pos, Times(<<7, 1>>, 25)) /\ ~ later.found
  /\ call.of = "pieces" /\ call.in.turns = 0 =>
       \A k \in DOMAIN call.out : call.out[k] = Times(Place(call.in, k, IntakeToCam), 25)
-----------------------------------------------------------------------------
CallReef ==
  /\ call = Idle
  /\ \E direction \in -179 .. 180, mirrored \in BOOLEAN :
       Called("reef", [direction |-> direction, mirrored |-> mirrored],
              ClosestReefSide(direction, mirrored))

(* The angle between two directions.                                       *)
Apart(a, b) == LET d == (a - b) % 360 IN IF d > 180 THEN 360 - d ELSE d

(* The side an alignment goes to is none that is further from the robot    *)
(* than another, on either alliance's reef, and both of its locations are  *)
(* on that reef.  Left out is where the code falls through: a robot of the *)
(* blue alliance in the last 30 degrees, which it sends to the far side.   *)
NearestSide ==
  (call.of = "reef" /\ ~ (call.in.mirrored /\ call.in.direction \in -30 .. -1)) =>
    \A k \in Locations, left \in 0 .. 1 :
      LET chosen == ScoringLocation(2 * call.out + 1 - left, call.in.mirrored)
          other == ScoringLocation(k, call.in.mirrored)
      IN  /\ Apart(call.in.direction, chosen.towards) <= Apart(call.in.direction, other.towards)
          /\ chosen.left = (left = 1)
          /\ chosen.center = ReefCenter(call.in.mirrored)

Mirrors == {"mirror", "mirrorOnlyY", "mirrorOnlyX"}
Mirrored(how, p) ==
  CASE how = "mirror" -> mirror(p)
    [] how = "mirrorOnlyY" -> mirrorOnlyY(p)
    [] how = "mirrorOnlyX" -> mirrorOnlyX(p)

(* Five units further in the direction of the point's bearing.             *)
Ahead(p) == FieldPoint(Plus(p.point, AtBearing(1, p.bearing)), p.bearing)

CallMirror ==
  /\ call = Idle
  /\ \E how \in Mirrors, x \in {0, 600, 2536}, y \in {0, 1414, 5527}, b \in Angles5 :
       LET p == FieldPoint(<<x, y>>, b)
       IN  Called("mirror", [how |-> how, p |-> p], Mirrored(how, p))

(* A path that is mirrored is driven the mirrored way: from the mirrored   *)
(* point, its mirrored bearing leads to the mirrored next point.  Mirrored *)
(* twice a point is what it was, and backwards it leads back.              *)
MirrorsAgree ==
  call.of = "mirror" =>
    /\ Ahead(call.out) = Mirrored(call.in.how, Ahead(call.in.p))
    /\ Mirrored(call.in.how, call.out) = call.in.p
    /\ Ahead(flipDirection(Ahead(call.out))).point = call.out.point
-----------------------------------------------------------------------------
CallTip ==
  /\ call = Idle
  /\ \E change \in {-60, -7, 0, 1, 20} \X {-33, 0, 2, 50}, b \in Angles5 :
       Called("tip", [change |-> change, bearing |-> b], ClosestWheel(change, b))

(* The wheel the permitted acceleration is taken from is one the robot     *)
(* would tip over: it lies on the side away from the change of velocity.   *)
TipsOverChosenWheel ==
  call.of = "tip" =>
    Dot(WheelVecs(call.in.bearing)[call.out], AtLeastOne(call.in.change)) <= 0

(* A driver holds the stick, the robot does what it is told.               *)
Enough == 60
(* Rates are rounded down, so it may stay this short of what it was told:  *)
(* 0.15 feet per second.                                                   *)
Slack == 3

Holds ==
  {[sticks |-> <<x, y>>, rotation |-> 0, bearing |-> b, blue |-> FALSE, elapsed |-> 1,
    cg |-> CalculateRobotCG(h, 20), rc_control |-> FALSE, auto_align |-> FALSE, from |-> v] :
     x \in {-3, 0, 2, 3}, y \in {-3, 0, 2}, b \in Angles5,
     h \in {15, 80}, v \in {<<0, 0>>, <<-40, 20>>}}

Side(blue) == IF blue THEN -1 ELSE 1

Ramps(hold) ==
  FoldLeft(LAMBDA ramp, k :
             Ramped(ramp, hold @@ [velocity |-> ramp]),
           hold.from, [k \in 1 .. Enough |-> k])

CallHold ==
  /\ call = Idle
  /\ \E hold \in Holds :
       LET ramp == Ramps(hold)
       IN  Called("hold", hold,
                  Target(ramp, hold @@ [velocity |-> ramp]).velocity)

(* The buttons of rc_control.                                              *)
CallRc ==
  /\ call = Idle
  /\ \E button \in Buttons, b \in Angles5, blue \in BOOLEAN, align \in BOOLEAN,
        half \in BOOLEAN :
       LET in == [sticks |-> <<2, 1>>, rotation |-> 1, bearing |-> b, blue |-> blue,
                  elapsed |-> 1, cg |-> CalculateRobotCG(15, 20), rc_control |-> TRUE,
                  button |-> button, auto_align |-> align, position_algal |-> half,
                  algal_state |-> "net", has_coral |-> half, left_half |-> half,
                  velocity |-> <<0, 0>>]
       IN  Called("rc", in, Target(<<0, 0>>, in))

(* A stick that a driver of the red alliance holds is obeyed in time,      *)
(* wherever it is pushed and the robot faces, whatever it did before and   *)
(* however high its arms are; a button of rc_control moves the robot along *)
(* its own axes, on the red side as pressed and on the blue side the other *)
(* way.                                                                    *)
TeleopAsDriven ==
  /\ call.of = "hold" =>
       \A k \in 1 .. 2 :
         Absolute(call.out[k] - 5 * StickVelocity(call.in.sticks)[k]) <= 5 * Slack
  /\ call.of = "rc" =>
       InFrame(call.out.velocity, call.in.bearing)
         = Times(RcVelocity(call.in.button), 25 * Side(call.in.blue))
-----------------------------------------------------------------------------
Characters ==
  {Char(v, FALSE) : v \in {Newline, 1, 26, 30, Space, Unknown}} \cup {Char(26, TRUE)}

CallLog ==
  /\ call = Idle
  /\ \E n \in 0 .. 5 : \E text \in [1 .. n -> Characters] :
       Called("log", text, decompress(compress(text)))

(* The client reads the text that was logged, capital letters and all,     *)
(* with a space for every character that has no code; bits that fill up    *)
(* the last byte may add one empty line.                                   *)
LogTextSurvives ==
  call.of = "log" =>
    LET text == [i \in DOMAIN call.in |->
                   IF call.in[i].value = Unknown THEN Char(Space, FALSE) ELSE call.in[i]]
    IN  call.out \in {text, Append(text, Char(Newline, FALSE))}
-----------------------------------------------------------------------------
Place1 == [x |-> "a", y |-> "b", bearing |-> "c", velocity |-> "0"]
Place2 == [x |-> "b", y |-> "a", bearing |-> "0", velocity |-> "c"]

PointLines ==
  {<<"N", "home", "a", "b", "c">>, <<"N", "home", "b", "a", "0", "c">>,
   <<"F", "home">>, <<>>, <<"N", "reef", "b", "a", "0", "c">>}

(* The name of a line that defines a place, and what it says, to a reader. *)
Says(line) == CASE Len(line) = 5 -> Place1 [] Len(line) = 6 -> Place2

Lasts == {<<"PATH", "way">>, <<"ACT", "score">>, <<"WAIT", "2">>, <<"ACT">>}

Files ==
  {[points |-> [lines |-> ps, newline |-> pn],
    path |-> [lines |-> << <<"F", "home">>, <<"P", "a", "b", "c">> >>, newline |-> FALSE],
    script |-> [lines |-> << <<"1", "2">>, <<"F", "reef">>, l1, l2>>, newline |-> n]] :
     ps \in SeqOf(PointLines, 3), pn \in BOOLEAN, l1 \in Lasts, l2 \in Lasts, n \in BOOLEAN}

Start(files) ==
  LET points == readPointsFile(files.points)
  IN  AutoData(files.script, points, readAllPaths([way |-> files.path], points))

CallFiles ==
  /\ call = Idle
  /\ \E files \in Files : Called("files", files, Start(files))

(* Where a name is, to a reader of the list of points.                     *)
NamedPlace(lines, name) ==
  LET named == {i \in DOMAIN lines : Len(lines[i]) >= 2 /\ lines[i][2] = name}
  IN  IF named = {} \/ lines[Min(named)][1] = "F" THEN Origin ELSE Says(lines[Min(named)])

(* An auto starts where its script names and does what the script's lines  *)
(* say, in their order, with the paths through the points as they are      *)
(* named; only when a newline ends the script is the last action done      *)
(* twice.                                                                  *)
ScriptRunsAsWritten ==
  call.of = "files" =>
    LET lines == call.in.points.lines
        script == call.in.script
        way == <<NamedPlace(lines, "home"), Place1>>
        says(line) == CASE line = <<"PATH", "way">>  -> <<[path |-> way]>>
                        [] line = <<"ACT", "score">> -> <<[act |-> "score"]>>
                        [] OTHER -> <<>>
    IN  call.out =
          {[red |-> "1", blue |-> "2", start |-> NamedPlace(lines, "reef"),
            actions |-> says(script.lines[3]) \o says(script.lines[4])
                        \o (IF script.newline THEN says(script.lines[4]) ELSE <<>>)]}
-----------------------------------------------------------------------------
(* What a loop asks of a simulated motor; a pass may come late, after the  *)
(* robot was disabled.                                                     *)
Requests ==
  {[do |-> "DC", value |-> 8], [do |-> "DC", value |-> -3],
   [do |-> "Velocity", value |-> 5], [do |-> "Position", value |-> 4],
   [do |-> "zero", value |-> 20]} \cup
  {[do |-> "pass", load |-> l, dt |-> dt] : l \in {0, -6, 15}, dt \in {1, 40}}

Served(sim, r) ==
  CASE r.do = "pass" -> MonkeyTick(sim, 12, r.load, r.dt)
    [] r.do = "zero" -> ZeroEncoder(sim, r.value)
    [] r.do = "Position" -> WritePosition(sim, r.value)
    [] OTHER         -> Write(sim, r.do, r.value)

(* After the requests, passes that only carry the last of the loads.       *)
Settled(sim, load) ==
  FoldLeft(LAMBDA s, k : MonkeyTick(s, 12, load, 1), sim, [k \in 1 .. 12 |-> k])

CallSimulation ==
  /\ call = Idle
  /\ \E requests \in SeqOf(Requests, 3), load \in {0, 15}, kFF \in {0, 1} :
       LET new == NewSimulator([kP |-> 1, kI |-> 0, kD |-> -1, kFF |-> kFF])
           run(sim) == LET served == FoldLeft(Served, sim, requests)
                       IN  [served |-> served, settled |-> Settled(served, load)]
       IN  Called("simulation", requests,
                  [plain |-> run(new), inverted |-> run(SetInverted(new, TRUE))])

(* Nobody who asks a simulated motor for a duty cycle or a velocity sees   *)
(* whether it is inverted: it reads the same, and knows the same requests  *)
(* for ones it has.  Whatever was asked of it, and however late a pass     *)
(* was, it comes to the speed at which it carries its load, or to the      *)
(* speed that no motor exceeds.                                            *)
SimulationObeys ==
  call.of = "simulation" =>
    LET p == call.out.plain
        i == call.out.inverted
        asks == {r \in Requests : r.do \in {"DC", "Velocity"}}
    IN  /\ (\A k \in DOMAIN call.in : call.in[k].do # "Position") =>
             /\ Readings(p.served) = Readings(i.served)
             /\ Readings(p.settled) = Readings(i.settled)
             /\ \A r \in asks :
                  IsDuplicateControlMessage(p.served, r.do, r.value)
                    = IsDuplicateControlMessage(i.served, r.do, r.value)
        /\ \A s \in {p.settled, i.settled} :
             Magnitude(Torque(s)) < Inertia \/ Magnitude(s.velocity) = FullDuty
-----------------------------------------------------------------------------
Init == call = Idle

Next ==
  \/ CallWheels \/ CallOdometry \/ CallTags \/ CallPieces
  \/ CallReef \/ CallMirror \/ CallTip \/ CallHold \/ CallRc
  \/ CallLog \/ CallFiles \/ CallSimulation
  \/ Return

Spec == Init /\ [][Next]_call

MCCameraOffset == << <<5, 10>>, <<-15, 0>> >>
MCIntakeToCam == <<-5, 15>>
MCTokens == {"N", "P", "F", "PATH", "ACT", "WAIT", "home", "reef", "way", "score",
             "0", "1", "2", "a", "b", "c"}
=============================================================================
