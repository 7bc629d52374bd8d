---------------------------- MODULE RingQueries ----------------------------
(***************************************************************************)
(* What the queries on rings answer (ring.go), for every ring: a closed    *)
(* baseSeries or a Rect.  A query searches the ring for the edges near a   *)
(* rectangle and decides from what it finds.  Here a search is a scan, in  *)
(* the order of the edges; the module Ring has searches in any order and   *)
(* compares the answers.                                                   *)
(*                                                                         *)
(* A series is a record of its points and of what makeSeries finds out     *)
(* about them.  A nil ring, line or series is one without points.          *)
(***************************************************************************)
EXTENDS Series, FiniteSets, FiniteSetsExt

CONSTANT ComplexRingMinPoints    \* complexRingMinPoints, 16 in the code.

(* A Rect has five points as a ring: ringContainsRing calls itself with    *)
(* the other ring's rectangle once and not again.                          *)
ASSUME ComplexAssumption == ComplexRingMinPoints \in Nat /\ ComplexRingMinPoints > 5

-----------------------------------------------------------------------------
(* makeSeries, with what processPoints says of the points: the smallest    *)
(* rectangle, convex if no two corners turn in opposite directions, the    *)
(* first and the last point being neighbours, clockwise by the sign of the *)
(* sum over all sides (ProcessPoints: RectTight, ConvexExact,              *)
(* ClockwiseIsArea).  Of too few points it says nothing.                   *)
NewSeries(points, closed) ==
    LET n == Len(points)
        at(k) == points[(k % n) + 1]
        turn(k) == Cross(at(k), at(k + 1), at(k + 2))
        xs == {points[k].x : k \in 1 .. n}
        ys == {points[k].y : k \in 1 .. n}
        cwc[k \in 0 .. n] ==
            IF k = 0 THEN 0
            ELSE cwc[k - 1] + (at(k).x - at(k - 1).x) * (at(k).y + at(k - 1).y)
        none == Empty([points |-> points, closed |-> closed])
    IN  [points |-> points, closed |-> closed,
         convex |-> ~ none /\ ~ \E j, k \in 0 .. n - 1 : turn(j) < 0 /\ turn(k) > 0,
         clockwise |-> ~ none /\ cwc[n] > 0,
         rect |-> IF none THEN PointRect([x |-> 0, y |-> 0])
                  ELSE [min |-> [x |-> Min(xs), y |-> Min(ys)],
                        max |-> [x |-> Max(xs), y |-> Max(ys)]]]

(* A Rect as a ring: its corners from the lower left one back to it, which *)
(* are the four sides South, East, North and West.                         *)
RectRing(rect) ==
    [points |-> <<rect.min, [x |-> rect.max.x, y |-> rect.min.y],
                  rect.max, [x |-> rect.min.x, y |-> rect.max.y], rect.min>>,
     closed |-> TRUE, convex |-> TRUE, clockwise |-> FALSE, rect |-> rect]

Area(rect) == (rect.max.x - rect.min.x) * (rect.max.y - rect.min.y)

EdgesOf(ring) == 0 .. NumSegments(ring) - 1

(* The edges a search for target calls back for. *)
Found(ring, target) ==
    {k \in EdgesOf(ring) : RectIntersectsRect(SegmentRectAt(ring, k), target)}

-----------------------------------------------------------------------------
(* ringContainsPoint *)

(* The edges a search for the row of p, from x = -Inf to +Inf, finds. *)
InRow(ring, p) ==
    {k \in EdgesOf(ring) : LET e == SegmentAt(ring, k) IN Between(p.y, e.a.y, e.b.y)}

(* hit, and the edge the point is on, the first one found, or -1. *)
RingContainsPoint(ring, p, allowOnEdge) ==
    LET row == InRow(ring, p)
        on == {k \in row : Raycast(SegmentAt(ring, k), p).on}
        crossed == {k \in row : Raycast(SegmentAt(ring, k), p).in}
    IN  IF on # {} THEN [hit |-> allowOnEdge, idx |-> Min(on)]
                   ELSE [hit |-> Cardinality(crossed) % 2 = 1, idx |-> -1]

-----------------------------------------------------------------------------
(* ringContainsSegment *)

IsEnd(edge, p) == edge.a = p \/ edge.b = p

(* A slip: only one end of seg is compared. *)
AtVertexOfA(ring, seg, j, k) ==
    \E edge \in {SegmentAt(ring, j), SegmentAt(ring, k)} : IsEnd(edge, seg.a)

(* An end of seg is an end of one of the two edges j and k. *)
AtVertex(ring, seg, j, k) ==
    \E edge \in {SegmentAt(ring, j), SegmentAt(ring, k)} :
        IsEnd(edge, seg.a) \/ IsEnd(edge, seg.b)

(* A slip: the space is always taken for the inside. *)
WindingIgnored(ring, j, k) == ring.clockwise

(* Whether the ring made of two edges, the one with the smaller number     *)
(* first, is clockwise.                                                    *)
Winding(ring, j, k) ==
    LET rSegA == SegmentAt(ring, Lesser(j, k))
        rSegB == SegmentAt(ring, Greater(j, k))
        pts == <<rSegA.a, rSegA.b, rSegB.a, rSegB.b, rSegA.a>>
        cwc(m) == (pts[m+1].x - pts[m].x) * (pts[m+1].y + pts[m].y)
    IN  cwc(1) + cwc(2) + cwc(3) + cwc(4) > 0

(* A slip: the rule for ends off the ring, whether edges are allowed or not. *)
CrossedOffEnds(ring, seg, allowOnEdge, j, k, edge) ==
    LET seg2 == SegmentAt(ring, edge) IN
    /\ IntersectsSegment(seg, seg2)
    /\ ~ Raycast(seg, seg2.a).on /\ ~ Raycast(seg, seg2.b).on

(* The edge counts as one that seg crosses: none does that the ends of seg *)
(* on the ring are on (j and k are the edges they are on, or -1); if       *)
(* neither is, none that has an end on seg; if the edges are not part of   *)
(* the ring, all do.                                                       *)
Crossed(ring, seg, allowOnEdge, j, k, edge) ==
    LET seg2 == SegmentAt(ring, edge) IN
    /\ IntersectsSegment(seg, seg2)
    /\ \/ ~ allowOnEdge
       \/ /\ j # -1 \/ k # -1
          /\ j # -1 => ~ Raycast(seg2, seg.a).on
          /\ k # -1 => ~ Raycast(seg2, seg.b).on
       \/ /\ j = -1 /\ k = -1
          /\ ~ Raycast(seg, seg2.a).on /\ ~ Raycast(seg, seg2.b).on

Uncrossed(ring, seg, allowOnEdge, j, k) ==
    \A edge \in Found(ring, SegmentRect(seg)) :
        ~ Crossed(ring, seg, allowOnEdge, j, k, edge)

(* The ring, which contains both ends of seg, contains all of it. *)
ContainsBetween(ring, seg, allowOnEdge, j, k) ==
    LET onEdges == allowOnEdge /\ j # -1 /\ k # -1 IN
    \/ ring.convex
    \/ onEdges /\ (j = k \/ AtVertex(ring, seg, j, k))
    \/ /\ onEdges => Winding(ring, j, k) = ring.clockwise
       /\ Uncrossed(ring, seg, allowOnEdge, j, k)

RingContainsSegment(ring, seg, allowOnEdge) ==
    LET resA == RingContainsPoint(ring, seg.a, allowOnEdge)
        resB == RingContainsPoint(ring, seg.b, allowOnEdge)
    IN  /\ resA.hit
        /\ \/ seg.b = seg.a
           \/ resB.hit /\ ContainsBetween(ring, seg, allowOnEdge, resA.idx, resB.idx)

-----------------------------------------------------------------------------
(* ringIntersectsSegment *)

(* A slip: an edge with one end in line with seg is taken for one along it. *)
AlongOrAtEnd(seg, edge) ==
    CollinearPoint(seg, edge.a) \/ CollinearPoint(seg, edge.b)

(* The edge lies in the line of seg. *)
AlongEdge(seg, edge) == CollinearPoint(seg, edge.a) /\ CollinearPoint(seg, edge.b)

(* The edges of the ring that seg passes over. *)
PassedOver(ring, seg, allowOnEdge) ==
    {k \in Found(ring, SegmentRect(seg)) :
        /\ IntersectsSegment(seg, SegmentAt(ring, k))
        /\ allowOnEdge \/ ~ AlongEdge(seg, SegmentAt(ring, k))}

(* At least two count: all of them if edges are part of the ring, and      *)
(* otherwise all but the first one that ends at seg.a and the first of the *)
(* others that ends at seg.b.                                              *)
CountReachesTwo(ring, seg, allowOnEdge) ==
    LET passed == PassedOver(ring, seg, allowOnEdge)
        ending(S, p) == {k \in S : IsEnd(SegmentAt(ring, k), p)}
        first(S) == IF allowOnEdge \/ S = {} THEN {} ELSE {Min(S)}
        atA == first(ending(passed, seg.a))
        atB == first(ending(passed \ atA, seg.b))
    IN  Cardinality(passed \ (atA \cup atB)) >= 2

RingIntersectsSegment(ring, seg, allowOnEdge) ==
    \/ RingContainsPoint(ring, seg.a, allowOnEdge).hit
    \/ RingContainsPoint(ring, seg.b, allowOnEdge).hit
    \/ CountReachesTwo(ring, seg, allowOnEdge)

-----------------------------------------------------------------------------
(* Rings and lines *)

SegmentsOf(series) == {SegmentAt(series, k) : k \in EdgesOf(series)}
PointsOf(series) == {series.points[k] : k \in DOMAIN series.points}

(* A slip: the last point is not asked about. *)
ContainsSeriesButLast(ring, other, allowOnEdge) ==
    /\ RectContainsRect(ring.rect, other.rect)
    /\ IF ring.convex
       THEN \A k \in 1 .. Len(other.points) - 1 :
               RingContainsPoint(ring, other.points[k], allowOnEdge).hit
       ELSE \A s \in SegmentsOf(other) : RingContainsSegment(ring, s, allowOnEdge)

(* ringContainsRing without its shortcut for rings of many points. *)
ContainsSeries(ring, other, allowOnEdge) ==
    /\ RectContainsRect(ring.rect, other.rect)
    /\ IF ring.convex
       THEN \A p \in PointsOf(other) : RingContainsPoint(ring, p, allowOnEdge).hit
       ELSE \A s \in SegmentsOf(other) : RingContainsSegment(ring, s, allowOnEdge)

RingContainsRing(ring, other, allowOnEdge) ==
    /\ ~ Empty(ring) /\ ~ Empty(other)
    /\ \/ /\ Len(other.points) >= ComplexRingMinPoints
          /\ ContainsSeries(ring, RectRing(other.rect), allowOnEdge)
       \/ ContainsSeries(ring, other, allowOnEdge)

(* A slip: the rings are not swapped. *)
RingIntersectsSmaller(ring, other, allowOnEdge) ==
    /\ ~ Empty(ring) /\ ~ Empty(other)
    /\ RectIntersectsRect(ring.rect, other.rect)
    /\ \E s \in SegmentsOf(other) : RingIntersectsSegment(ring, s, allowOnEdge)

(* The edges of the ring with the smaller rectangle, of the second one if  *)
(* they are the same, are compared with the other ring.                    *)
RingIntersectsRing(ring, other, allowOnEdge) ==
    LET swap == Area(other.rect) > Area(ring.rect)
        outer == IF swap THEN other ELSE ring
        inner == IF swap THEN ring ELSE other
    IN  /\ ~ Empty(ring) /\ ~ Empty(other)
        /\ RectIntersectsRect(ring.rect, other.rect)
        /\ \E s \in SegmentsOf(inner) : RingIntersectsSegment(outer, s, allowOnEdge)

RingContainsLine(ring, line, allowOnEdge) == RingContainsRing(ring, line, allowOnEdge)

RingIntersectsLine(ring, line, allowOnEdge) ==
    /\ ~ Empty(ring) /\ ~ Empty(line)
    /\ RectIntersectsRect(ring.rect, line.rect)
    /\ \/ \E p \in PointsOf(line) : RingContainsPoint(ring, p, allowOnEdge).hit
       \/ \E s \in SegmentsOf(line) : RingIntersectsSegment(ring, s, allowOnEdge)
=============================================================================
