------------------------------ MODULE Geometry ------------------------------
(***************************************************************************)
(* The queries of the Geometry interface (geometry.go) on points,          *)
(* rectangles, lines and polygons (point.go, rect.go, line.go, poly.go).   *)
(* Each kind of geometry answers them in its own way, most often by        *)
(* passing the question on to a ring or to the other geometry.             *)
(*                                                                         *)
(* A geometry is a record of its kind and its parts.  A polygon has a ring *)
(* for an exterior, a series or a Rect, and a sequence of rings for holes. *)
(* A nil line is a line without points, a nil polygon or exterior a        *)
(* polygon whose exterior has no points: every query answers the same.     *)
(***************************************************************************)
EXTENDS RingQueries

NewLine(points) == [kind |-> "line", line |-> NewSeries(points, FALSE)]

NewPoly(exterior, holes) ==
    [kind |-> "poly", exterior |-> NewSeries(exterior, TRUE),
     holes |-> [k \in DOMAIN holes |-> NewSeries(holes[k], TRUE)]]

(* &Poly{Exterior: rect} *)
RectPoly(rect) == [kind |-> "poly", exterior |-> RectRing(rect), holes |-> <<>>]

EmptyGeometry(g) ==
    CASE g.kind = "line" -> Empty(g.line)
      [] g.kind = "poly" -> Empty(g.exterior)
      [] OTHER -> FALSE

RectOf(g) ==
    CASE g.kind = "point" -> PointRect(g.point)
      [] g.kind = "rect" -> g.rect
      [] g.kind = "line" -> g.line.rect
      [] g.kind = "poly" -> g.exterior.rect

-----------------------------------------------------------------------------
(* poly.go *)

HolesOf(poly) == {poly.holes[k] : k \in DOMAIN poly.holes}

(* A slip: the edge of a hole is taken for a part of the hole. *)
PolyContainsPointExClosed(poly, p) ==
    LET in == {k \in DOMAIN poly.holes : RingContainsPoint(poly.holes[k], p, TRUE).hit}
    IN  IF ~ RingContainsPoint(poly.exterior, p, TRUE).hit
        THEN [contains |-> FALSE, holeIndex |-> -1]
        ELSE [contains |-> in = {}, holeIndex |-> IF in = {} THEN -1 ELSE Min(in) - 1]

(* Whether the polygon contains p, and the first hole p is in, or -1. *)
PolyContainsPointEx(poly, p) ==
    LET in == {k \in DOMAIN poly.holes : RingContainsPoint(poly.holes[k], p, FALSE).hit}
    IN  IF ~ RingContainsPoint(poly.exterior, p, TRUE).hit
        THEN [contains |-> FALSE, holeIndex |-> -1]
        ELSE [contains |-> in = {}, holeIndex |-> IF in = {} THEN -1 ELSE Min(in) - 1]

PolyContainsPoint(poly, p) == PolyContainsPointEx(poly, p).contains

PolyContainsLine(poly, line) ==
    /\ RingContainsLine(poly.exterior, line, TRUE)
    /\ \A hole \in HolesOf(poly) : ~ RingIntersectsLine(hole, line, FALSE)

PolyIntersectsLine(poly, line) ==
    /\ RingIntersectsLine(poly.exterior, line, TRUE)
    /\ \A hole \in HolesOf(poly) : ~ RingContainsLine(hole, line, FALSE)

(* A slip: a hole of poly must not meet other, whatever holes other has. *)
PolyContainsPolyNoHoles(poly, other) ==
    /\ RingContainsRing(poly.exterior, other.exterior, TRUE)
    /\ \A hole \in HolesOf(poly) : ~ RingIntersectsRing(hole, other.exterior, FALSE)

(* A hole of poly may meet other only within one of the holes of other. *)
PolyContainsPoly(poly, other) ==
    /\ RingContainsRing(poly.exterior, other.exterior, TRUE)
    /\ \A hole \in HolesOf(poly) :
          RingIntersectsRing(hole, other.exterior, FALSE) =>
              \E otherHole \in HolesOf(other) : RingContainsRing(otherHole, hole, TRUE)

(* A slip: the holes of other are forgotten. *)
PolyIntersectsPolyOneSided(poly, other) ==
    /\ RingIntersectsRing(other.exterior, poly.exterior, TRUE)
    /\ \A hole \in HolesOf(poly) : ~ RingContainsRing(hole, other.exterior, FALSE)

(* Neither polygon lies in a hole of the other one. *)
PolyIntersectsPoly(poly, other) ==
    /\ RingIntersectsRing(other.exterior, poly.exterior, TRUE)
    /\ \A hole \in HolesOf(poly) : ~ RingContainsRing(hole, other.exterior, FALSE)
    /\ \A hole \in HolesOf(other) : ~ RingContainsRing(hole, poly.exterior, FALSE)

-----------------------------------------------------------------------------
(* line.go, without ContainsLine of two lines: that is LineContains. *)

LineContainsPoint(line, p) ==
    \E k \in Found(line, PointRect(p)) : Raycast(SegmentAt(line, k), p).on

(* A level or upright polygon is looked for as the line from one corner of *)
(* its rectangle to the other; ContainsLine of a line with one segment     *)
(* asks for one segment that contains it.                                  *)
LineContainsPoly(line, poly) ==
    LET rect == poly.exterior.rect IN
    /\ ~ Empty(line) /\ ~ Empty(poly.exterior)
    /\ rect.min.x = rect.max.x \/ rect.min.y = rect.max.y
    /\ \E s \in SegmentsOf(line) : ContainsSegment(s, [a |-> rect.min, b |-> rect.max])

(* The segments of the line with fewer points, of the first one if they    *)
(* have as many, are looked for in the other line.                         *)
LineIntersectsLine(line, other) ==
    LET swap == Len(line.points) > Len(other.points)
        few == IF swap THEN other ELSE line
        many == IF swap THEN line ELSE other
    IN  /\ ~ Empty(line) /\ ~ Empty(other)
        /\ RectIntersectsRect(line.rect, other.rect)
        /\ \E s \in SegmentsOf(few) : \E k \in Found(many, SegmentRect(s)) :
              IntersectsSegment(s, SegmentAt(many, k))

-----------------------------------------------------------------------------
(* The interface, asked of each kind.  Point and Rect compare rectangles.  *)

PointContains(p, h) == ~ EmptyGeometry(h) /\ RectOf(h) = PointRect(p)

PointIntersects(p, h) ==
    CASE h.kind = "point" -> h.point = p
      [] h.kind = "rect" -> RectContainsPoint(h.rect, p)
      [] h.kind = "line" -> LineContainsPoint(h.line, p)
      [] h.kind = "poly" -> PolyContainsPoint(h, p)

RectContains(rect, h) == ~ EmptyGeometry(h) /\ RectContainsRect(rect, RectOf(h))

RectIntersects(rect, h) ==
    CASE h.kind = "point" -> RectContainsPoint(rect, h.point)
      [] h.kind = "rect" -> RectIntersectsRect(rect, h.rect)
      [] h.kind = "line" -> RingIntersectsLine(RectRing(rect), h.line, TRUE)
      [] h.kind = "poly" -> PolyIntersectsPoly(h, RectPoly(rect))

LineContains(line, h) ==
    CASE h.kind = "point" -> LineContainsPoint(line, h.point)
      [] h.kind = "rect" -> LineContainsPoly(line, RectPoly(h.rect))
      [] h.kind = "poly" -> LineContainsPoly(line, h)

LineIntersects(line, h) ==
    CASE h.kind = "point" -> LineContainsPoint(line, h.point)
      [] h.kind = "rect" -> RingIntersectsLine(RectRing(h.rect), line, TRUE)
      [] h.kind = "line" -> LineIntersectsLine(line, h.line)
      [] h.kind = "poly" -> PolyIntersectsLine(h, line)

PolyContains(poly, h) ==
    CASE h.kind = "point" -> PolyContainsPoint(poly, h.point)
      [] h.kind = "rect" -> PolyContainsPoly(poly, RectPoly(h.rect))
      [] h.kind = "line" -> PolyContainsLine(poly, h.line)
      [] h.kind = "poly" -> PolyContainsPoly(poly, h)

PolyIntersects(poly, h) ==
    CASE h.kind = "point" -> PolyContainsPoint(poly, h.point)
      [] h.kind = "rect" -> PolyIntersectsPoly(poly, RectPoly(h.rect))
      [] h.kind = "line" -> PolyIntersectsLine(poly, h.line)
      [] h.kind = "poly" -> PolyIntersectsPoly(poly, h)

Contains(g, h) ==
    CASE g.kind = "point" -> PointContains(g.point, h)
      [] g.kind = "rect" -> RectContains(g.rect, h)
      [] g.kind = "line" -> LineContains(g.line, h)
      [] g.kind = "poly" -> PolyContains(g, h)

Intersects(g, h) ==
    CASE g.kind = "point" -> PointIntersects(g.point, h)
      [] g.kind = "rect" -> RectIntersects(g.rect, h)
      [] g.kind = "line" -> LineIntersects(g.line, h)
      [] g.kind = "poly" -> PolyIntersects(g, h)

-----------------------------------------------------------------------------
(* Move.  A ring that is a Rect becomes a series of its five corners.      *)

MovePoint(p, delta) == [x |-> p.x + delta.x, y |-> p.y + delta.y]

MoveSeries(series, delta) ==
    NewSeries([k \in DOMAIN series.points |-> MovePoint(series.points[k], delta)],
              series.closed)

(* A slip: the holes stay where they were. *)
MovePolyWithoutHoles(poly, delta) ==
    [poly EXCEPT !.exterior = MoveSeries(@, delta)]

MovePoly(poly, delta) ==
    [poly EXCEPT !.exterior = MoveSeries(@, delta),
                 !.holes = [k \in DOMAIN @ |-> MoveSeries(@[k], delta)]]

MoveRect(rect, delta) ==
    [min |-> MovePoint(rect.min, delta), max |-> MovePoint(rect.max, delta)]

MoveGeometry(g, delta) ==
    CASE g.kind = "point" -> [g EXCEPT !.point = MovePoint(@, delta)]
      [] g.kind = "rect" -> [g EXCEPT !.rect = MoveRect(@, delta)]
      [] g.kind = "line" -> [g EXCEPT !.line = MoveSeries(@, delta)]
      [] g.kind = "poly" -> MovePoly(g, delta)
=============================================================================
