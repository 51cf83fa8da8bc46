------------------------------ MODULE Vectors ------------------------------
(***************************************************************************)
(* VectorND<UT, 2>, over the integers: a vector is a pair <<x, y>>.        *)
(*                                                                         *)
(* An angle is the pair of its cosine and its sine, in fifths.  The twelve *)
(* angles for which both are whole (the right angles and those of the      *)
(* triangle with sides 3, 4 and 5) turn vectors exactly, and a vector that *)
(* was turned is in fifths of what it was in.                              *)
(***************************************************************************)
EXTENDS Integers

Angles5 == {a \in (-5 .. 5) \X (-5 .. 5) : a[1] * a[1] + a[2] * a[2] = 25}

Absolute(a) == IF a < 0 THEN -a ELSE a

Cos(a) == a[1]
Sin(a) == a[2]
Opposite(a) == <<Cos(a), -Sin(a)>>
QuarterMore(a) == <<-Sin(a), Cos(a)>>

Plus(v, w)  == <<v[1] + w[1], v[2] + w[2]>>
Minus(v, w) == <<v[1] - w[1], v[2] - w[2]>>
Times(v, k) == <<v[1] * k, v[2] * k>>

Dot(v, w) == v[1] * w[1] + v[2] * w[2]

(* Clockwise, as rotate() turns unless it is told otherwise.               *)
Rotate(v, a) ==
  <<v[1] * Cos(a) + v[2] * Sin(a), v[2] * Cos(a) - v[1] * Sin(a)>>

(* The square of magnitude().                                              *)
Square(v) == Dot(v, v)

(* The vector of a magnitude and a bearing.                                *)
AtBearing(magnitude, bearing) ==
  <<magnitude * Sin(bearing), magnitude * Cos(bearing)>>

(***************************************************************************)
(* angle() is above -180 and at most 180 degrees, and angleTo() subtracts  *)
(* one from the other: when the short way from v to w leads through 180    *)
(* degrees, the difference is that of the long way.                        *)
(***************************************************************************)
Cross(v, w) == v[1] * w[2] - v[2] * w[1]
Above(v) == v[2] > 0 \/ (v[2] = 0 /\ v[1] < 0)

LongWay(v, w) ==
  \/ Above(v) /\ ~ Above(w) /\ Cross(v, w) > 0
  \/ ~ Above(v) /\ Above(w) /\ Cross(v, w) < 0

(* Whether angleTo() takes w, as large as u, for nearer to v than u.       *)
NearerInAngle(v, w, u) ==
  \/ ~ LongWay(v, w) /\ LongWay(v, u)
  \/ LongWay(v, w) /\ LongWay(v, u) /\ Dot(v, w) < Dot(v, u)
  \/ ~ LongWay(v, w) /\ ~ LongWay(v, u) /\ Dot(v, w) > Dot(v, u)

(* Projects a vector onto a direction, in parts of the direction's square. *)
ProjectOnto(direction, v) == Times(direction, Dot(direction, v))
=============================================================================
