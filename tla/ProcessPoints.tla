---------------------------- MODULE ProcessPoints ----------------------------
(***************************************************************************)
(* processPoints (series.go): the one pass over the points of a series     *)
(* that finds its bounding rectangle, its winding order and whether it is  *)
(* convex.  A step is one turn of the loop.                                *)
(***************************************************************************)
EXTENDS Series, PlanarReference

CONSTANT Inputs       \* The series that may be processed.

ASSUME InputsAssumption == Inputs \subseteq [points : Seq(Point), closed : BOOLEAN]

VARIABLES
    series,           \* The series being processed.
    pc,               \* "start", "loop" or "done".
    i,                \* The loop's index.
    rect,             \* The rectangle found so far.
    dir,              \* The direction of the first turn: -1, 1, or 0 for none.
    concave,          \* Two turns differ in direction.
    cwc,              \* Twice the area enclosed clockwise, so far.
    result            \* What processPoints returns.

vars == <<series, pc, i, rect, dir, concave, cwc, result>>

Origin == [x |-> 0, y |-> 0]
ZeroResult == [convex |-> FALSE, rect |-> PointRect(Origin), clockwise |-> FALSE]

(* A slip: one chain of else-if for both axes. *)
InflateOneSide(r, p) ==
    IF p.x < r.min.x THEN [r EXCEPT !.min.x = p.x]
    ELSE IF p.x > r.max.x THEN [r EXCEPT !.max.x = p.x]
    ELSE IF p.y < r.min.y THEN [r EXCEPT !.min.y = p.y]
    ELSE IF p.y > r.max.y THEN [r EXCEPT !.max.y = p.y]
    ELSE r

(* The rectangle inflation.  A coordinate below the minimum is not also    *)
(* compared with the maximum.                                              *)
Inflate(r, p) ==
    [min |-> [x |-> Lesser(p.x, r.min.x), y |-> Lesser(p.y, r.min.y)],
     max |-> [x |-> IF ~(p.x < r.min.x) /\ p.x > r.max.x THEN p.x ELSE r.max.x,
              y |-> IF ~(p.y < r.min.y) /\ p.y > r.max.y THEN p.y ELSE r.max.y]]

(* The point k places after index, wrapping around to points[0] and        *)
(* points[1].                                                              *)
After(s, index, k) ==
    LET n == Len(s.points) IN
    PointAt(s, IF index + k < n THEN index + k ELSE index + k - n)

(* A slip: the last two corners, which wrap around, are left out. *)
TurnUnwrapped(s, index) ==
    LET a == PointAt(s, index)
        b == After(s, index, 1)
        c == After(s, index, 2)
        z == (b.x - a.x) * (c.y - b.y) - (b.y - a.y) * (c.x - b.x)
    IN  IF index + 2 >= Len(s.points) \/ z = 0 THEN 0
        ELSE IF z < 0 THEN -1 ELSE 1

Turn(s, index) ==
    LET a == PointAt(s, index)
        b == After(s, index, 1)
        c == After(s, index, 2)
        z == (b.x - a.x) * (c.y - b.y) - (b.y - a.y) * (c.x - b.x)
    IN  IF z < 0 THEN -1 ELSE IF z > 0 THEN 1 ELSE 0

(* A slip: the height of the trapezoid is a difference. *)
ClockwiseTermOff(a, b) == (b.x - a.x) * (b.y - a.y)

ClockwiseTerm(a, b) == (b.x - a.x) * (b.y + a.y)

-----------------------------------------------------------------------------
Init ==
    /\ series \in Inputs
    /\ pc = "start"
    /\ i = 0
    /\ rect = PointRect(Origin)
    /\ dir = 0 /\ concave = FALSE /\ cwc = 0
    /\ result = ZeroResult

(* The early return for a series with too few points. *)
TooFewPoints ==
    /\ pc = "start" /\ Empty(series)
    /\ pc' = "done"
    /\ UNCHANGED <<series, i, rect, dir, concave, cwc, result>>

EnterLoop ==
    /\ pc = "start" /\ ~ Empty(series)
    /\ pc' = "loop"
    /\ UNCHANGED <<series, i, rect, dir, concave, cwc, result>>

(* A slip: the rectangle starts at the origin, not at the first point. *)
ProcessPointFromOrigin ==
    LET p == PointAt(series, i)
        turn == Turn(series, i)
    IN  /\ pc = "loop" /\ i < Len(series.points)
        /\ rect' = Inflate(rect, p)
        /\ cwc' = cwc + ClockwiseTerm(p, After(series, i, 1))
        /\ dir' = IF ~ concave /\ dir = 0 THEN turn ELSE dir
        /\ concave' = (concave \/ (dir # 0 /\ turn = -dir))
        /\ i' = i + 1
        /\ UNCHANGED <<series, pc, result>>

ProcessPoint ==
    LET p == PointAt(series, i)
        turn == Turn(series, i)
    IN  /\ pc = "loop" /\ i < Len(series.points)
        /\ rect' = IF i = 0 THEN PointRect(p) ELSE Inflate(rect, p)
        /\ cwc' = cwc + ClockwiseTerm(p, After(series, i, 1))
        /\ dir' = IF ~ concave /\ dir = 0 THEN turn ELSE dir
        /\ concave' = (concave \/ (dir # 0 /\ turn = -dir))
        /\ i' = i + 1
        /\ UNCHANGED <<series, pc, result>>

(* A slip: the last point is not looked at. *)
LeaveLoopEarly ==
    /\ pc = "loop" /\ i = Len(series.points) - 1
    /\ result' = [convex |-> ~ concave, rect |-> rect, clockwise |-> cwc > 0]
    /\ pc' = "done"
    /\ UNCHANGED <<series, i, rect, dir, concave, cwc>>

LeaveLoop ==
    /\ pc = "loop" /\ i = Len(series.points)
    /\ result' = [convex |-> ~ concave, rect |-> rect, clockwise |-> cwc > 0]
    /\ pc' = "done"
    /\ UNCHANGED <<series, i, rect, dir, concave, cwc>>

Next == TooFewPoints \/ EnterLoop \/ ProcessPoint \/ LeaveLoop

Spec == Init /\ [][Next]_vars

-----------------------------------------------------------------------------
TypeOK ==
    /\ series \in Inputs
    /\ pc \in {"start", "loop", "done"}
    /\ i \in 0 .. Len(series.points)
    /\ rect \in Rect
    /\ dir \in {-1, 0, 1}
    /\ concave \in BOOLEAN
    /\ cwc \in Int
    /\ result \in [convex : BOOLEAN, rect : Rect, clockwise : BOOLEAN]

(* Half way through the loop the rectangle holds every point passed.       *)
LoopCovers ==
    (pc = "loop" /\ i > 0) =>
        /\ rect.min.x <= rect.max.x /\ rect.min.y <= rect.max.y
        /\ \A k \in 0 .. i - 1 : RectContainsPoint(rect, PointAt(series, k))

(* The series' rectangle holds the rectangle of every one of its segments, *)
(* the closing one included: the quadtree is built on it and both searches *)
(* prune by it, so a segment outside would never be found again.           *)
RectCovers ==
    pc = "done" =>
        \A k \in 0 .. NumSegments(series) - 1 :
            RectContainsRect(result.rect, SegmentRectAt(series, k))

(* The rectangle is no larger than it must be: each side goes through a    *)
(* point of the series.                                                    *)
RectTight ==
    (pc = "done" /\ ~ Empty(series)) =>
        LET Sides == {"west", "east", "south", "north"}
            On(side, p) == CASE side = "west" -> p.x = result.rect.min.x
                             [] side = "east" -> p.x = result.rect.max.x
                             [] side = "south" -> p.y = result.rect.min.y
                             [] side = "north" -> p.y = result.rect.max.y
        IN  \A side \in Sides :
                \E k \in DOMAIN series.points : On(side, series.points[k])

-----------------------------------------------------------------------------
(* Twice the signed area, as a fan of triangles from point 0: the area of  *)
(* the first triangles, those up to point k.                               *)
FanSums(s) ==
    LET sum[k \in 1 .. Len(s.points) - 1] ==
            IF k = 1 THEN 0
            ELSE sum[k - 1]
                 + Cross(PointAt(s, 0), PointAt(s, k - 1), PointAt(s, k))
    IN  sum

FanArea(s) == FanSums(s)[Len(s.points) - 1]

(* Clockwise is the sign of the enclosed area, whatever the order in which *)
(* the trapezoids under the edges are summed and wherever the axes are:    *)
(* the winding ringContainsSegment compares with.                          *)
ClockwiseIsArea ==
    (pc = "done" /\ ~ Empty(series)) =>
        (result.clockwise <=> FanArea(series) > 0)

(* The ring's points are distinct, and no edge touches or crosses another  *)
(* except where neighbours meet.                                           *)
Simple(s) ==
    LET n == NumSegments(s)
        seg(k) == SegmentAt(s, k % n)
    IN  \A j, k \in 0 .. n - 1 : j # k =>
          /\ ~ IntersectsSegment(seg(j), seg(k)) \/ k = (j + 1) % n
                                                 \/ j = (k + 1) % n
          /\ seg(j).a # seg(k).a
          /\ ~ OnSegment(seg(j), seg(k).b) \/ j = (k + 1) % n

RingEdges(s) == {SegmentAt(s, k) : k \in 0 .. NumSegments(s) - 1}

ExplicitlyClosed(s) == PointAt(s, Len(s.points) - 1) = PointAt(s, 0)

(* For a simple ring whose points are given once each, comparing the turns *)
(* at the corners finds exactly the convex ones: "ring is convex so the    *)
(* segment must be contained" (ring.go) is then right.                     *)
ConvexExact ==
    (/\ pc = "done" /\ series.closed /\ ~ Empty(series)
     /\ ~ ExplicitlyClosed(series) /\ Simple(series))
    => (result.convex <=> OneSided(RingEdges(series)))

(* "Convex returns true if the points create a convex loop or linestring"  *)
(* (series.go), for a simple ring that repeats its first point at the end, *)
(* as NumSegments allows.                                                  *)
ConvexWhenClosed ==
    (/\ pc = "done" /\ series.closed /\ Len(series.points) > 3
     /\ ExplicitlyClosed(series) /\ Simple(series))
    => (result.convex <=> OneSided(RingEdges(series)))
=============================================================================
