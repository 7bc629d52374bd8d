------------------------------- MODULE Planar -------------------------------
(***************************************************************************)
(* Points, rectangles and segments of the plane: the arithmetic that every *)
(* other part of the library rests on (point.go, rect.go, segment.go,      *)
(* raycast.go).                                                            *)
(*                                                                         *)
(* Coordinates are integers.  On a grid of small integers every comparison *)
(* the float64 code makes has the outcome exact arithmetic gives it: sums, *)
(* differences and products are exact, two quotients of small integers are *)
(* equal as floats iff they are equal as fractions, and x * (1/x) rounds   *)
(* to at most 1.  Quotients are therefore compared by cross                *)
(* multiplication.  Rounding, NaN and infinities are outside the model.    *)
(***************************************************************************)
EXTENDS Integers

Point == [x : Int, y : Int]
Rect == [min : Point, max : Point]
Segment == [a : Point, b : Point]

Lesser(m, n) == IF m < n THEN m ELSE n
Greater(m, n) == IF m > n THEN m ELSE n
Between(v, m, n) == Lesser(m, n) <= v /\ v <= Greater(m, n)

-----------------------------------------------------------------------------
(* rect.go *)

PointRect(p) == [min |-> p, max |-> p]

RectContainsPoint(rect, p) ==
    /\ p.x >= rect.min.x /\ p.x <= rect.max.x
    /\ p.y >= rect.min.y /\ p.y <= rect.max.y

RectContainsRect(rect, other) ==
    /\ ~ (other.min.x < rect.min.x \/ other.max.x > rect.max.x)
    /\ ~ (other.min.y < rect.min.y \/ other.max.y > rect.max.y)

RectIntersectsRect(rect, other) ==
    /\ ~ (rect.min.y > other.max.y \/ rect.max.y < other.min.y)
    /\ ~ (rect.min.x > other.max.x \/ rect.max.x < other.min.x)

-----------------------------------------------------------------------------
(* segment.go and raycast.go *)

SegmentRect(seg) ==
    [min |-> [x |-> Lesser(seg.a.x, seg.b.x), y |-> Lesser(seg.a.y, seg.b.y)],
     max |-> [x |-> Greater(seg.a.x, seg.b.x), y |-> Greater(seg.a.y, seg.b.y)]]

(* The z component of (b - a) x (p - a) with the sign of the code's cmpxr. *)
Cross(a, b, p) == (p.x - a.x) * (b.y - a.y) - (p.y - a.y) * (b.x - a.x)

CollinearPoint(seg, p) == Cross(seg.a, seg.b, p) = 0

(* Raycast's tests for a point lying on the segment.  The last one is the  *)
(* comparison of two quotients; with a zero divisor one side is infinite   *)
(* or NaN and the comparison is false.                                     *)
RaycastOn(seg, p) ==
    LET a == seg.a
        b == seg.b
    IN  \/ a = b /\ p = a
        \/ a # b /\ a.y = b.y /\ p.y = b.y /\ Between(p.x, a.x, b.x)
        \/ a # b /\ a.x = b.x /\ p.x = b.x /\ Between(p.y, a.y, b.y)
        \/ /\ a.x # b.x /\ a.y # b.y
           /\ Between(p.y, a.y, b.y)
           /\ CollinearPoint(seg, p)

(* A slip: the y range is closed, so both edges at a vertex count. *)
RaycastInClosed(seg, p) ==
    LET lower == IF seg.a.y < seg.b.y THEN seg.a ELSE seg.b
        upper == IF seg.a.y < seg.b.y THEN seg.b ELSE seg.a
    IN  /\ lower.y <= p.y /\ p.y <= upper.y
        /\ p.x < Greater(seg.a.x, seg.b.x)
        /\ \/ p.x <= Lesser(seg.a.x, seg.b.x)
           \/ (p.y - lower.y) * (upper.x - lower.x)
                >= (upper.y - lower.y) * (p.x - lower.x)

(* The rightward ray from p crosses the segment.  math.Nextafter lifts a   *)
(* point level with an endpoint by an infinitesimal, which makes the       *)
(* segment's y range half open: its lower end counts, its upper does not.  *)
(* A point in the segment's x range is compared by slope with the segment, *)
(* measured from the lower endpoint.                                       *)
RaycastIn(seg, p) ==
    LET a == seg.a
        b == seg.b
        lower == IF a.y < b.y THEN a ELSE b
        upper == IF a.y < b.y THEN b ELSE a
    IN  /\ lower.y <= p.y /\ p.y < upper.y
        /\ p.x < Greater(a.x, b.x)
        /\ \/ p.x <= Lesser(a.x, b.x)
           \/ (p.y - lower.y) * (upper.x - lower.x)
                >= (upper.y - lower.y) * (p.x - lower.x)

Raycast(seg, p) ==
    IF RaycastOn(seg, p) THEN [in |-> FALSE, on |-> TRUE]
                         ELSE [in |-> RaycastIn(seg, p), on |-> FALSE]

SegmentContainsPoint(seg, p) == Raycast(seg, p).on

(* A slip: one end on the segment is taken for enough. *)
ContainsEitherEnd(seg, other) ==
    Raycast(seg, other.a).on \/ Raycast(seg, other.b).on

ContainsSegment(seg, other) ==
    Raycast(seg, other.a).on /\ Raycast(seg, other.b).on

(* A slip: the ends are left out. *)
OpenUnitFraction(n, d) ==
    IF d > 0 THEN 0 < n /\ n < d ELSE d < n /\ n < 0

(* 0 <= n/d <= 1 for a nonzero d. *)
UnitFraction(n, d) ==
    IF d > 0 THEN 0 <= n /\ n <= d ELSE d <= n /\ n <= 0

(* The collinear branch of IntersectsSegment, reached when c lies on the   *)
(* line through a and b: c is strictly past one end of seg and not past    *)
(* the other in some axis, or an endpoint of other lies on seg.            *)
CollinearOverlap(seg, other) ==
    LET a == seg.a
        b == seg.b
        c == other.a
    IN  \/ (c.x - a.x <= 0) # (c.x - b.x <= 0)
        \/ (c.y - a.y <= 0) # (c.y - b.y <= 0)
        \/ Raycast(seg, other.a).on
        \/ Raycast(seg, other.b).on

IntersectsSegment(seg, other) ==
    LET a == seg.a
        b == seg.b
        c == other.a
        d == other.b
        cmpxr == Cross(a, b, c)
        cmpxs == (c.x - a.x) * (d.y - c.y) - (c.y - a.y) * (d.x - c.x)
        rxs == (b.x - a.x) * (d.y - c.y) - (b.y - a.y) * (d.x - c.x)
    IN  /\ RectIntersectsRect(SegmentRect(seg), SegmentRect(other))
        /\ \/ a = c \/ a = d \/ b = c \/ b = d
           \/ cmpxr = 0 /\ CollinearOverlap(seg, other)
           \/ /\ cmpxr # 0 /\ rxs # 0
              /\ UnitFraction(cmpxs, rxs) /\ UnitFraction(cmpxr, rxs)
=============================================================================
