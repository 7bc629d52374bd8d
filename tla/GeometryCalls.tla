--------------------------- MODULE GeometryCalls ---------------------------
(***************************************************************************)
(* The queries of the Geometry interface and of single segments, as calls  *)
(* a client makes.  The client makes two geometries, may move the first    *)
(* one, and asks whether it contains or intersects the second one.         *)
(*                                                                         *)
(* The answers are compared with sets of points.  The sides of all         *)
(* geometries are level, upright or slanted by 45 degrees and their        *)
(* corners have integer coordinates, so the lines they lie on cut the      *)
(* plane into triangles, triangle sides and corners each of which has a    *)
(* point whose coordinates are multiples of 1/4.  Two geometries meet iff  *)
(* they have such a point in common, and one covers the other iff it       *)
(* covers all such points of it.                                           *)
(***************************************************************************)
EXTENDS SegmentCalls, Geometry

CONSTANTS
    Geometries,       \* The geometries a client makes.
    Width,            \* Their coordinates are at most this.
    Deltas,           \* The distances it moves one of them by.
    MaxOffset         \* Bound on how far it moves it; the code has none.

RingsOf(g) ==
    CASE g.kind = "point" -> {RectRing(PointRect(g.point))}
      [] g.kind = "rect" -> {RectRing(g.rect)}
      [] g.kind = "line" -> {g.line}
      [] g.kind = "poly" -> {g.exterior} \cup HolesOf(g)

(* Geometries as NewLine, NewPoly and composite literals make them. *)
ASSUME KindsAssumption ==
    LET series(closed) == [points : Seq(Point), closed : {closed}, convex : BOOLEAN,
                           clockwise : BOOLEAN, rect : Rect]
    IN  Geometries \subseteq [kind : {"point"}, point : Point]
                     \cup [kind : {"rect"}, rect : Rect]
                     \cup [kind : {"line"}, line : series(FALSE)]
                     \cup [kind : {"poly"}, exterior : series(TRUE), holes : Seq(series(TRUE))]

(* Their corners are on the grid. *)
ASSUME WidthAssumption ==
    /\ Width \in Nat /\ MaxOffset \in Nat /\ Deltas \subseteq Point
    /\ \A g \in Geometries : \A ring \in RingsOf(g) : \A s \in SegmentsOf(ring) :
          {s.a.x, s.a.y, s.b.x, s.b.y} \subseteq 0 .. Width

(* A series has found out about its points, the only other ring is a Rect, *)
(* rectangles are the right way round.                                     *)
ASSUME MadeAssumption ==
    \A g \in Geometries : \A ring \in RingsOf(g) :
        /\ ring = NewSeries(ring.points, ring.closed) \/ ring = RectRing(ring.rect)
        /\ ring.rect.min.x <= ring.rect.max.x /\ ring.rect.min.y <= ring.rect.max.y

(* Sides in the four directions. *)
ASSUME GeometriesAssumption ==
    \A g \in Geometries : \A ring \in RingsOf(g) : \A s \in SegmentsOf(ring) :
        \/ s.a.x = s.b.x \/ s.a.y = s.b.y
        \/ s.b.x - s.a.x \in {s.b.y - s.a.y, s.a.y - s.b.y}

-----------------------------------------------------------------------------
Origin == [x |-> 0, y |-> 0]

(* call.of is the first geometry as it was made, call.by the distance it   *)
(* has been moved since.                                                   *)
Make(g, h) ==
    call' = [op |-> "Make", g |-> g, h |-> h, of |-> g, by |-> Origin]

Move(delta) ==
    LET by == MovePoint(call.by, delta) IN
    /\ call.op = "Make"
    /\ {by.x, by.y} \subseteq -MaxOffset .. MaxOffset
    /\ call' = [call EXCEPT !.g = MoveGeometry(@, delta), !.by = by]

Answer(op, res) ==
    call' = [op |-> op, g |-> call.g, h |-> call.h, of |-> call.of, by |-> call.by,
             res |-> res]

(* Of two lines LineContains tells. *)
CallContains ==
    /\ call.op = "Make" /\ ~ (call.g.kind = "line" /\ call.h.kind = "line")
    /\ Answer("Contains", Contains(call.g, call.h))

CallIntersects ==
    call.op = "Make" /\ Answer("Intersects", Intersects(call.g, call.h))

CallContainsPointEx ==
    /\ call.op = "Make" /\ call.g.kind = "poly" /\ call.h.kind = "point"
    /\ Answer("ContainsPointEx", PolyContainsPointEx(call.g, call.h.point))

Next ==
    \/ call = Idle /\ SegmentCall
    \/ call = Idle /\ \E g, h \in Geometries : Make(g, h)
    \/ \E delta \in Deltas : Move(delta)
    \/ CallContains
    \/ CallIntersects
    \/ CallContainsPointEx
    \/ Return

Spec == Init /\ [][Next]_call

-----------------------------------------------------------------------------
(* Where the geometries are, in quarters. *)

Quarters(seg) == [a |-> Times(4, seg.a), b |-> Times(4, seg.b)]

OnRing(ring, p) == \E s \in SegmentsOf(ring) : OnSegment(Quarters(s), p)

InRing(ring, p) ==
    /\ ~ OnRing(ring, p)
    /\ Cardinality({k \in EdgesOf(ring) : Above(Quarters(SegmentAt(ring, k)), p)}) % 2 = 1

Covers(g, p) ==
    IF g.kind = "poly"
    THEN /\ OnRing(g.exterior, p) \/ InRing(g.exterior, p)
         /\ \A hole \in HolesOf(g) : ~ InRing(hole, p)
    ELSE \E ring \in RingsOf(g) : OnRing(ring, p) \/ (g.kind = "rect" /\ InRing(ring, p))

Grid == {[x |-> x, y |-> y] : x, y \in 0 .. 4 * Width}

Cover == [g \in Geometries |-> {p \in Grid : Covers(g, p)}]

OtherCover == Cover[call.h]

(* The first geometry covers p where it has been moved to. *)
ThisCovers(p) == MovePoint(p, Times(-4, call.by)) \in Cover[call.of]

(* No corner of one series is on the other one. *)
Clear(series, other) ==
    /\ \A p \in PointsOf(series), s \in SegmentsOf(other) : ~ OnSegment(s, p)
    /\ \A p \in PointsOf(other), s \in SegmentsOf(series) : ~ OnSegment(s, p)

(* The rings of h that a polygon looks at: of a ring with many points also *)
(* the rectangle.                                                          *)
LookedAt(h) ==
    LET many == {ring \in RingsOf(h) : Len(ring.points) >= ComplexRingMinPoints}
    IN  RingsOf(h) \cup {RectRing(ring.rect) : ring \in many}

ClearOfHoles(poly, h) ==
    \A hole \in HolesOf(poly), ring \in LookedAt(h) : Clear(hole, ring)

ClearOfExterior(poly, h) ==
    poly.exterior.convex \/ \A ring \in LookedAt(h) : Clear(poly.exterior, ring)

(* The ring is taken for convex though it is not: it repeats its first     *)
(* point, and only the corner there turns the other way.                   *)
WronglyMarked(ring) == ring.convex /\ ~ OneSided(SegmentsOf(ring))

WronglyMarkedHoles(g) ==
    IF g.kind = "poly" THEN {hole \in HolesOf(g) : WronglyMarked(hole)} ELSE {}

(* Such a hole of g has all corners of a ring of h, though perhaps not the *)
(* ring.                                                                   *)
SeemsInHole(g, h) ==
    \E hole \in WronglyMarkedHoles(g), ring \in LookedAt(h) :
        \A p \in PointsOf(ring) : InRing(hole, Times(4, p))

(* Contains answers true iff the second geometry has a point and the first *)
(* one covers all of it.  A polygon that is not convex or has holes is     *)
(* sure of the answer only when no corner of one is on the other.  If its  *)
(* exterior or a hole of the other is wrongly marked convex it may say     *)
(* that it contains what it does not.  A line finds a polygon or a         *)
(* rectangle only if it is level or upright and lies on one segment.       *)
ContainsExactly ==
    call.op = "Contains" =>
        LET within == OtherCover # {} /\ \A p \in OtherCover : ThisCovers(p)
            rect == RectOf(call.h)
        IN  CASE call.g.kind \in {"point", "rect"} \/ call.h.kind = "point" ->
                    call.res = within
              [] call.g.kind = "line" /\ call.h.kind # "point" ->
                    call.res = /\ within
                               /\ rect.min.x = rect.max.x \/ rect.min.y = rect.max.y
                               /\ \E s \in SegmentsOf(call.g.line) :
                                     \A p \in OtherCover : OnSegment(Quarters(s), p)
              [] call.g.kind = "poly" /\ call.h.kind # "point" ->
                    (ClearOfHoles(call.g, call.h) /\ ClearOfExterior(call.g, call.h))
                        => \/ call.res = within
                           \/ /\ call.res
                              /\ \/ WronglyMarked(call.g.exterior)
                                 \/ SeemsInHole(call.h, call.g)

(* The rectangle of a ring of many points is taken to be contained though  *)
(* it is not: a side of it has both ends on the exterior and one of them   *)
(* at a corner, or the exterior is wrongly marked convex.                  *)
MisledByRect(g, ring) ==
    /\ Len(ring.points) >= ComplexRingMinPoints /\ g.kind = "poly"
    /\ \/ WronglyMarked(g.exterior)
       \/ /\ ~ g.exterior.convex
          /\ \E s \in SegmentsOf(RectRing(ring.rect)) :
                /\ {s.a, s.b} \cap PointsOf(g.exterior) # {}
                /\ \A p \in {s.a, s.b} : OnRing(g.exterior, Times(4, p))

(* Whatever touches whatever, a geometry contains no point, rectangle,     *)
(* line or exterior with a corner outside of it: the vertex shortcut of    *)
(* ringContainsSegment errs about sides only.  A ring of many points has   *)
(* corners outside only if that shortcut, or a wrong mark of the exterior, *)
(* errs about its rectangle, no corner of which is outside.                *)
CornersCovered ==
    (call.op = "Contains" /\ call.res) =>
        \A ring \in IF call.h.kind = "poly" THEN {call.h.exterior} ELSE RingsOf(call.h) :
            \/ \A p \in PointsOf(ring) : ThisCovers(Times(4, p))
            \/ /\ MisledByRect(call.g, ring)
               /\ \A p \in PointsOf(RectRing(ring.rect)) : ThisCovers(Times(4, p))

(* Intersects answers true iff the two geometries have a point in common,  *)
(* touching or not, with holes or not, and whichever of the two is asked.  *)
(* It misses only lines that meet where a segment of the one with fewer    *)
(* points lies inside a segment of the other, and what has all its corners *)
(* in a hole that is wrongly marked convex.                                *)
MeetsExactly ==
    call.op = "Intersects" =>
        LET meet == \E p \in OtherCover : ThisCovers(p) IN
        /\ call.res => meet
        /\ (meet /\ ~ call.res) =>
              \/ SeemsInHole(call.g, call.h) \/ SeemsInHole(call.h, call.g)
              \/ /\ call.g.kind = "line" /\ call.h.kind = "line"
                 /\ \A s \in SegmentsOf(call.g.line), t \in SegmentsOf(call.h.line) :
                       SharePoint(s, t) => Swallowed(s, t) \/ Swallowed(t, s)

(* To move the first geometry and to move the second one back is the same: *)
(* Move loses nothing that an answer depends on, also where it makes a     *)
(* Rect into a series and finds out anew about its convexity and winding.  *)
MoveIsRelative ==
    call.op \in {"Contains", "Intersects"} =>
        \A h \in {MoveGeometry(call.h, Times(-1, call.by))} :
            call.res = IF call.op = "Contains" THEN Contains(call.of, h)
                                               ELSE Intersects(call.of, h)

(* ContainsPointEx: the polygon contains the point iff it covers it; a     *)
(* hole index names a hole with the point strictly inside, and -1 with     *)
(* false says that the point is outside of the exterior.                   *)
HoleExact ==
    call.op = "ContainsPointEx" =>
        LET poly == call.of
            p == Times(4, MovePoint(call.h.point, Times(-1, call.by)))
            k == call.res.holeIndex + 1
        IN  /\ call.res.contains = (p \in Cover[poly])
            /\ k # 0 => InRing(poly.holes[k], p)
            /\ (k = 0 /\ ~ call.res.contains) =>
                  ~ InRing(poly.exterior, p) /\ ~ OnRing(poly.exterior, p)
=============================================================================
