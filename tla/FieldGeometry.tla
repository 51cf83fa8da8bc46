--------------------------- MODULE FieldGeometry ---------------------------
(***************************************************************************)
(* FieldPoint, and ReefProvider.  Lengths are in eighths of an inch.       *)
(***************************************************************************)
EXTENDS Vectors

field_size_x == 2536
field_size_y == 5527

(* The alliances' ends are turned about the middle of the field, and so    *)
(* are points and bearings.                                                *)
FieldPoint(point, bearing) == [point |-> point, bearing |-> bearing]

HalfTurned(a) == <<-Cos(a), -Sin(a)>>

mirror(p) ==
  FieldPoint(<<field_size_x - p.point[1], field_size_y - p.point[2]>>, HalfTurned(p.bearing))

(* Slip: the bearing of mirror().                                          *)
MirrorKeepsSide(p) ==
  FieldPoint(<<p.point[1], field_size_y - p.point[2]>>, HalfTurned(p.bearing))

mirrorOnlyY(p) ==
  FieldPoint(<<p.point[1], field_size_y - p.point[2]>>, HalfTurned(Opposite(p.bearing)))

mirrorOnlyX(p) ==
  FieldPoint(<<field_size_x - p.point[1], p.point[2]>>, Opposite(p.bearing))

flipDirection(p) == FieldPoint(p.point, HalfTurned(p.bearing))
-----------------------------------------------------------------------------
reefPoint == <<1268, 1414>>

(* The sides of the reef from the one furthest from the alliance's wall,   *)
(* clockwise; on each a left and a right location.  A location lies from   *)
(* the centre of the alliance's reef in this direction, in degrees.        *)
Locations == 0 .. 11
ScoringLocation(k, mirrored) ==
  [center |-> IF mirrored
              THEN <<field_size_x - reefPoint[1], field_size_y - reefPoint[2]>>
              ELSE reefPoint,
   towards |-> (60 * (k \div 2) + (IF mirrored THEN 180 ELSE 0)) % 360,
   left |-> k % 2 = 0]

ReefCenter(mirrored) ==
  IF mirrored THEN <<reefPoint[1], field_size_y - reefPoint[2]>> ELSE reefPoint

(* Slip: blue is not told from red.                                        *)
SideNotMirrored(direction, mirrored) ==
  (((IF direction < 0 THEN direction + 360 ELSE direction) + 30) \div 60) % 6

(* Of a robot in this direction, above -180 and at most 180 degrees.       *)
ClosestReefSide(direction, mirrored) ==
  LET angle == IF direction < 0 THEN direction + 360 ELSE direction
      addition == IF mirrored THEN 3 ELSE 0
  IN  IF angle < 330 THEN ((angle + 30) \div 60 + addition) % 6 ELSE 0
=============================================================================
