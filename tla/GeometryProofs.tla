---------------------------- MODULE GeometryProofs ---------------------------
(***************************************************************************)
(* The answers of Segment.Raycast and Segment.IntersectsSegment are the    *)
(* ones the reference definitions give, whatever integer coordinates the   *)
(* client uses, and those of Poly.ContainsPointEx are right for every      *)
(* polygon, moved or not.  The answers of Contains and Intersects do not   *)
(* depend on where the geometries are: moving one is moving the other one  *)
(* back.                                                                   *)
(***************************************************************************)
EXTENDS GeometryCalls, PlanarProofs

LEMMA SegmentsTyped == Points \subseteq Point /\ Segments \subseteq Segment
    BY CoordsAssumption DEF Points, Segments, Point, Segment

(* A call always has an op: what Move updates keeps its own. *)
Exact == RaycastExact /\ IntersectsExactly /\ "op" \in DOMAIN call

LEMMA RaycastCallExact ==
    ASSUME NEW seg \in Segments, NEW p \in Points, CallRaycast(seg, p)
    PROVE  Exact'
<1>1. seg \in Segment /\ p \in Point
    BY SegmentsTyped
<1>2. /\ call'.op = "Raycast" /\ call'.seg = seg /\ call'.p = p
      /\ call'.res = Raycast(seg, p) /\ "op" \in DOMAIN call'
    BY DEF CallRaycast
<1>3. Upward(seg) = IF seg.a.y < seg.b.y THEN seg ELSE Reverse(seg)
    BY DEF Upward, Reverse
<1>4. Raycast(seg, p).on <=> OnSegment(seg, p)
    BY <1>1, RaycastOnIs, RaycastOnExact
<1>5. Raycast(seg, p).in <=>
          /\ Upward(seg).a.y <= p.y /\ p.y < Upward(seg).b.y
          /\ Cross(Upward(seg).a, Upward(seg).b, p) < 0
    <2>1. CASE RaycastOn(seg, p)
        <3>1. OnSegment(seg, p) /\ OnSegment(Upward(seg), p)
            BY <1>1, <2>1, RaycastOnExact, OnReversed DEF Upward
        <3>2. Cross(Upward(seg).a, Upward(seg).b, p) = 0
            BY <3>1, Zenon DEF OnSegment, CollinearPoint
        <3>3. ~ (Cross(Upward(seg).a, Upward(seg).b, p) < 0)
            BY <3>2
        <3>4. QED
            BY <2>1, <3>3, RaycastOnIs, Zenon
    <2>2. CASE ~ RaycastOn(seg, p)
        BY <1>1, <2>2, RaycastOnIs, RaycastInExact
    <2>3. QED
        BY <2>1, <2>2
<1>6. RaycastExact'
    BY <1>2, <1>3, <1>4, <1>5, Zenon DEF RaycastExact
<1>7. IntersectsExactly'
    BY <1>2 DEF IntersectsExactly
<1>8. QED
    BY <1>2, <1>6, <1>7 DEF Exact

LEMMA IntersectsCallExact ==
    ASSUME NEW seg \in Segments, NEW other \in Segments,
           CallIntersectsSegment(seg, other)
    PROVE  Exact'
<1>1. seg \in Segment /\ other \in Segment
    BY SegmentsTyped
<1>2. /\ call'.op = "IntersectsSegment" /\ call'.seg = seg /\ call'.other = other
      /\ call'.res = IntersectsSegment(seg, other) /\ "op" \in DOMAIN call'
    BY DEF CallIntersectsSegment
<1>3. RaycastExact'
    BY <1>2 DEF RaycastExact
<1>4. IntersectsExactly'
    BY <1>1, <1>2, IntersectsSegmentExact, Zenon DEF IntersectsExactly
<1>5. QED
    BY <1>2, <1>3, <1>4 DEF Exact

LEMMA ExactAlways == Spec => []Exact
<1>1. Init => Exact
    BY DEF Init, Idle, Exact, RaycastExact, IntersectsExactly
<1>2. Exact /\ [Next]_call => Exact'
    <2> SUFFICES ASSUME Exact, [Next]_call PROVE Exact'
        OBVIOUS
    <2>1. CASE SegmentCall
        BY <2>1, RaycastCallExact, IntersectsCallExact, Zenon DEF SegmentCall
    <2>2. ASSUME NEW g, NEW h, Make(g, h) PROVE Exact'
        BY <2>2 DEF Make, Exact, RaycastExact, IntersectsExactly
    <2>3. ASSUME NEW delta, Move(delta) PROVE Exact'
        <3>1. call'.op = "Make" /\ DOMAIN call' = DOMAIN call
            BY <2>3, Zenon DEF Move, Exact
        <3>2. QED
            BY <3>1 DEF Exact, RaycastExact, IntersectsExactly
    <2>4. CASE CallContains \/ CallIntersects \/ CallContainsPointEx
        <3>1. /\ call'.op \in {"Contains", "Intersects", "ContainsPointEx"}
              /\ "op" \in DOMAIN call'
            BY <2>4 DEF CallContains, CallIntersects, CallContainsPointEx, Answer
        <3>2. QED
            BY <3>1 DEF Exact, RaycastExact, IntersectsExactly
    <2>5. CASE Return
        BY <2>5 DEF Return, Idle, Exact, RaycastExact, IntersectsExactly
    <2>6. CASE call' = call
        BY <2>6, Zenon DEF Exact, RaycastExact, IntersectsExactly
    <2>7. QED
        BY <2>1, <2>2, <2>3, <2>4, <2>5, <2>6, Zenon DEF Next
<1>3. QED
    BY <1>1, <1>2, PTL DEF Spec

(* Segment.Raycast says "on" exactly for the points of the segment and     *)
(* "in" exactly for the points strictly left of it at a height in its      *)
(* half-open range, for all integer coordinates: the five tests of the     *)
(* code, its swap of the ends and its two shortcuts add up to one rule.    *)
THEOREM RaycastIsExact == Spec => []RaycastExact
    BY ExactAlways, PTL DEF Exact

(* Segment.IntersectsSegment never reports a meeting that is none, and the *)
(* one it misses is a receiver that lies inside the other segment, for all *)
(* integer coordinates.                                                    *)
THEOREM IntersectsIsExact == Spec => []IntersectsExactly
    BY ExactAlways, PTL DEF Exact

-----------------------------------------------------------------------------
(* Moving a ring and a point together, and the scale of the reference,     *)
(* change nothing.                                                         *)

MoveSegment(e, d) == [a |-> MovePoint(e.a, d), b |-> MovePoint(e.b, d)]

LEMMA MovedPoint ==
    ASSUME NEW p \in Point, NEW d \in Point
    PROVE  MovePoint(p, d) \in Point
    BY DEF MovePoint, Point

LEMMA MovedCross ==
    ASSUME NEW a \in Point, NEW b \in Point, NEW p \in Point, NEW d \in Point
    PROVE  Cross(MovePoint(a, d), MovePoint(b, d), MovePoint(p, d)) = Cross(a, b, p)
<1>1. \A m, n, k \in Int : (m + k) - (n + k) = m - n
    OBVIOUS
<1>2. /\ a.x \in Int /\ a.y \in Int /\ b.x \in Int /\ b.y \in Int
      /\ p.x \in Int /\ p.y \in Int /\ d.x \in Int /\ d.y \in Int
    BY DEF Point
<1>3. \A q : MovePoint(q, d).x = q.x + d.x /\ MovePoint(q, d).y = q.y + d.y
    BY DEF MovePoint
<1>4. /\ MovePoint(p, d).x - MovePoint(a, d).x = p.x - a.x
      /\ MovePoint(p, d).y - MovePoint(a, d).y = p.y - a.y
      /\ MovePoint(b, d).x - MovePoint(a, d).x = b.x - a.x
      /\ MovePoint(b, d).y - MovePoint(a, d).y = b.y - a.y
    BY <1>1, <1>2, <1>3
<1>5. QED
    BY <1>4, Zenon DEF Cross

LEMMA MovedSegment ==
    ASSUME NEW e \in Segment, NEW p \in Point, NEW d \in Point
    PROVE  /\ OnSegment(MoveSegment(e, d), MovePoint(p, d)) <=> OnSegment(e, p)
           /\ Above(MoveSegment(e, d), MovePoint(p, d)) <=> Above(e, p)
<1>1. /\ e.a \in Point /\ e.b \in Point
      /\ e.a.x \in Int /\ e.a.y \in Int /\ e.b.x \in Int /\ e.b.y \in Int
      /\ p.x \in Int /\ p.y \in Int /\ d.x \in Int /\ d.y \in Int
    BY DEF Segment, Point
<1>2. /\ MoveSegment(e, d).a = MovePoint(e.a, d) /\ MoveSegment(e, d).b = MovePoint(e.b, d)
    BY DEF MoveSegment
<1>3. \A q : MovePoint(q, d).x = q.x + d.x /\ MovePoint(q, d).y = q.y + d.y
    BY DEF MovePoint
<1>4. /\ Cross(MoveSegment(e, d).a, MoveSegment(e, d).b, MovePoint(p, d)) = Cross(e.a, e.b, p)
      /\ Cross(MoveSegment(e, d).b, MoveSegment(e, d).a, MovePoint(p, d)) = Cross(e.b, e.a, p)
    BY <1>1, <1>2, MovedCross
<1>5. RectContainsPoint(SegmentRect(MoveSegment(e, d)), MovePoint(p, d))
         <=> RectContainsPoint(SegmentRect(e), p)
    BY <1>1, <1>2, <1>3 DEF RectContainsPoint, SegmentRect, Lesser, Greater
<1>6. Above(MoveSegment(e, d), MovePoint(p, d)) <=> Above(e, p)
    <2>1. /\ MoveSegment(e, d).a.x <= MovePoint(p, d).x <=> e.a.x <= p.x
          /\ MoveSegment(e, d).b.x <= MovePoint(p, d).x <=> e.b.x <= p.x
          /\ MovePoint(p, d).x < MoveSegment(e, d).a.x <=> p.x < e.a.x
          /\ MovePoint(p, d).x < MoveSegment(e, d).b.x <=> p.x < e.b.x
        BY <1>1, <1>2, <1>3
    <2>2. QED
        BY <1>4, <2>1, Zenon DEF Above
<1>7. QED
    BY <1>4, <1>5, <1>6, Zenon DEF OnSegment, CollinearPoint

LEMMA QuartersSegment ==
    ASSUME NEW e \in Segment, NEW p \in Point
    PROVE  /\ OnSegment(Quarters(e), Times(4, p)) <=> OnSegment(e, p)
           /\ Above(Quarters(e), Times(4, p)) <=> Above(e, p)
<1>1. /\ e.a \in Point /\ e.b \in Point
      /\ e.a.x \in Int /\ e.a.y \in Int /\ e.b.x \in Int /\ e.b.y \in Int
      /\ p.x \in Int /\ p.y \in Int
    BY DEF Segment, Point
<1>2. Quarters(e).a = Times(4, e.a) /\ Quarters(e).b = Times(4, e.b)
    BY DEF Quarters
<1>3. \A q : Times(4, q).x = 4 * q.x /\ Times(4, q).y = 4 * q.y
    BY DEF Times
<1>4. ASSUME NEW a \in Point, NEW b \in Point
      PROVE  /\ Cross(a, b, p) \in Int
             /\ Cross(Times(4, a), Times(4, b), Times(4, p)) = 16 * Cross(a, b, p)
    <2>1. \A ax, ay, bx, by, px, py \in Int :
             (4 * px - 4 * ax) * (4 * by - 4 * ay) - (4 * py - 4 * ay) * (4 * bx - 4 * ax)
                = 16 * ((px - ax) * (by - ay) - (py - ay) * (bx - ax))
        OBVIOUS
    <2>2. a.x \in Int /\ a.y \in Int /\ b.x \in Int /\ b.y \in Int
        BY DEF Point
    <2>3. Cross(a, b, p) \in Int
        BY <1>1, <2>2 DEF Cross
    <2>4. QED
        BY <1>1, <1>3, <2>1, <2>2, <2>3 DEF Cross
<1>5. PICK c \in Int, c2 \in Int :
         /\ c = Cross(e.a, e.b, p) /\ c2 = Cross(e.b, e.a, p)
         /\ Cross(Quarters(e).a, Quarters(e).b, Times(4, p)) = 16 * c
         /\ Cross(Quarters(e).b, Quarters(e).a, Times(4, p)) = 16 * c2
    BY <1>1, <1>2, <1>4
<1>6. RectContainsPoint(SegmentRect(Quarters(e)), Times(4, p))
         <=> RectContainsPoint(SegmentRect(e), p)
    BY <1>1, <1>2, <1>3 DEF RectContainsPoint, SegmentRect, Lesser, Greater
<1>7. Above(Quarters(e), Times(4, p)) <=> Above(e, p)
    BY <1>1, <1>2, <1>3, <1>5 DEF Above
<1>8. CollinearPoint(Quarters(e), Times(4, p)) <=> CollinearPoint(e, p)
    BY <1>5 DEF CollinearPoint
<1>9. QED
    BY <1>6, <1>7, <1>8, Zenon DEF OnSegment

(* r is the ring s, moved by d.                                            *)
Shifted(r, s, d) ==
    /\ IsRing(r) /\ IsRing(s) /\ Len(r.points) = Len(s.points)
    /\ \A k \in 1 .. Len(s.points) : r.points[k] = MovePoint(s.points[k], d)

LEMMA NewSeriesHas ==
    ASSUME NEW points, NEW closed
    PROVE  NewSeries(points, closed).points = points /\ NewSeries(points, closed).closed = closed
    BY DEF NewSeries

LEMMA ShiftedMove ==
    ASSUME NEW r, NEW s, NEW d \in Point, Shifted(r, s, d), NEW e \in Point
    PROVE  Shifted(MoveSeries(r, e), s, MovePoint(d, e))
<1> DEFINE points == [k \in DOMAIN r.points |-> MovePoint(r.points[k], e)]
<1>1. r.points \in Seq(Point) /\ s.points \in Seq(Point) /\ r.closed = TRUE
      /\ Len(r.points) = Len(s.points)
    BY DEF Shifted, IsRing
<1>2. MoveSeries(r, e).points = points /\ MoveSeries(r, e).closed = TRUE
    BY <1>1, NewSeriesHas, Zenon DEF MoveSeries
<1>3. points \in Seq(Point) /\ Len(points) = Len(s.points)
    <2>1. DOMAIN r.points = 1 .. Len(r.points) /\ Len(r.points) \in Nat
        BY <1>1
    <2>2. \A k \in 1 .. Len(r.points) : r.points[k] \in Point
        BY <1>1
    <2>3. \A k \in 1 .. Len(r.points) : MovePoint(r.points[k], e) \in Point
        BY <2>2, MovedPoint
    <2>4. points \in [1 .. Len(r.points) -> Point]
        BY <2>1, <2>3
    <2> HIDE DEF points
    <2>5. QED
        BY <1>1, <2>1, <2>4
<1>4. ASSUME NEW k \in 1 .. Len(s.points)
      PROVE  points[k] = MovePoint(s.points[k], MovePoint(d, e))
    <2>1. points[k] = MovePoint(r.points[k], e) /\ s.points[k] \in Point
        BY <1>1
    <2>2. r.points[k] = MovePoint(s.points[k], d)
        BY DEF Shifted
    <2>3. \A p \in Point : MovePoint(MovePoint(p, d), e) = MovePoint(p, MovePoint(d, e))
        BY DEF MovePoint, Point
    <2> HIDE DEF points
    <2>4. QED
        BY <2>1, <2>2, <2>3, Zenon
<1> HIDE DEF points
<1>5. QED
    BY <1>1, <1>2, <1>3, <1>4 DEF Shifted, IsRing

(* A ring's segments, moved with it.                                       *)
LEMMA ShiftedEdges ==
    ASSUME NEW r, NEW s, NEW d \in Point, Shifted(r, s, d)
    PROVE  /\ EdgesOf(r) = EdgesOf(s)
           /\ \A k \in EdgesOf(s) : SegmentAt(r, k) = MoveSegment(SegmentAt(s, k), d)
<1>1. /\ r.points \in Seq(Point) /\ s.points \in Seq(Point)
      /\ r.closed = TRUE /\ s.closed = TRUE
    BY DEF Shifted, IsRing
<1>2. PICK n \in Nat : n = Len(r.points) /\ n = Len(s.points)
    BY <1>1 DEF Shifted
<1>3. \A k \in 1 .. n : s.points[k] \in Point /\ r.points[k] = MovePoint(s.points[k], d)
    BY <1>1, <1>2 DEF Shifted
<1>4. \A p, q \in Point : MovePoint(p, d) = MovePoint(q, d) <=> p = q
    BY DEF MovePoint, Point
<1>5. NumSegments(r) = NumSegments(s) /\ NumSegments(s) <= n
    <2>1. CASE n < 3
        BY <1>1, <1>2, <2>1 DEF NumSegments, Empty
    <2>2. CASE n >= 3
        <3>1. (n - 1) + 1 = n /\ 0 + 1 = 1 /\ n \in 1 .. n /\ 1 \in 1 .. n /\ ~ (n < 3) /\ ~ (n < 2)
            BY <2>2
        <3>2. r.points[n] # r.points[1] <=> s.points[n] # s.points[1]
            BY <1>3, <1>4, <3>1
        <3>3. NumSegments(s) = IF s.points[n] # s.points[1] THEN n ELSE n - 1
            BY <1>1, <1>2, <3>1 DEF NumSegments, Empty, PointAt
        <3>4. NumSegments(r) = IF r.points[n] # r.points[1] THEN n ELSE n - 1
            BY <1>1, <1>2, <3>1 DEF NumSegments, Empty, PointAt
        <3>5. QED
            BY <3>2, <3>3, <3>4
    <2>3. QED
        BY <2>1, <2>2
<1>6. ASSUME NEW k \in EdgesOf(s)
      PROVE  SegmentAt(r, k) = MoveSegment(SegmentAt(s, k), d)
    <2>1. k \in Int /\ k + 1 \in 1 .. n /\ 1 \in 1 .. n /\ 0 + 1 = 1
        BY <1>2, <1>5, EdgesJoin DEF EdgesOf, Shifted
    <2>2. CASE k = n - 1
        BY <1>2, <1>3, <2>1, <2>2 DEF SegmentAt, PointAt, MoveSegment
    <2>3. CASE k # n - 1
        <3>1. (k + 1) + 1 \in 1 .. n
            BY <2>1, <2>3
        <3>2. QED
            BY <1>2, <1>3, <2>1, <2>3, <3>1 DEF SegmentAt, PointAt, MoveSegment
    <2>4. QED
        BY <2>2, <2>3
<1>7. QED
    BY <1>5, <1>6 DEF EdgesOf

(* A ring moved with a point has it in the same place. *)
LEMMA ShiftedPlace ==
    ASSUME NEW r, NEW s, NEW d \in Point, Shifted(r, s, d), NEW q \in Point
    PROVE  Place(r, MovePoint(q, d)) = Place(s, q)
<1>1. \A k \in EdgesOf(s) : SegmentAt(s, k) \in Segment
    BY EdgesJoin DEF Shifted
<1>2. \A k \in EdgesOf(s) :
         /\ OnSegment(SegmentAt(r, k), MovePoint(q, d)) <=> OnSegment(SegmentAt(s, k), q)
         /\ Above(SegmentAt(r, k), MovePoint(q, d)) <=> Above(SegmentAt(s, k), q)
    BY <1>1, ShiftedEdges, MovedSegment
<1>3. EdgesOf(r) = EdgesOf(s)
    BY ShiftedEdges
<1>4. {k \in EdgesOf(r) : Above(SegmentAt(r, k), MovePoint(q, d))}
         = {k \in EdgesOf(s) : Above(SegmentAt(s, k), q)}
    BY <1>2, <1>3
<1>5. (\E k \in EdgesOf(r) : OnSegment(SegmentAt(r, k), MovePoint(q, d)))
         <=> \E k \in EdgesOf(s) : OnSegment(SegmentAt(s, k), q)
    BY <1>2, <1>3
<1>6. QED
    BY <1>4, <1>5, Zenon DEF Place

(* OnRing and InRing say where a point is. *)
LEMMA QuartersPlace ==
    ASSUME NEW s, IsRing(s), NEW q \in Point
    PROVE  /\ OnRing(s, Times(4, q)) <=> Place(s, q) = "edge"
           /\ InRing(s, Times(4, q)) <=> Place(s, q) = "inside"
<1>1. \A k \in EdgesOf(s) :
         /\ OnSegment(Quarters(SegmentAt(s, k)), Times(4, q)) <=> OnSegment(SegmentAt(s, k), q)
         /\ Above(Quarters(SegmentAt(s, k)), Times(4, q)) <=> Above(SegmentAt(s, k), q)
    BY EdgesJoin, QuartersSegment
<1>2. OnRing(s, Times(4, q)) <=> \E k \in EdgesOf(s) : OnSegment(SegmentAt(s, k), q)
    BY <1>1 DEF OnRing, SegmentsOf
<1>3. {k \in EdgesOf(s) : Above(Quarters(SegmentAt(s, k)), Times(4, q))}
         = {k \in EdgesOf(s) : Above(SegmentAt(s, k), q)}
    BY <1>1
<1>4. InRing(s, Times(4, q)) <=> /\ ~ OnRing(s, Times(4, q))
                                /\ Odd({k \in EdgesOf(s) : Above(SegmentAt(s, k), q)})
    BY <1>3, Zenon DEF InRing, Odd
<1>5. QED
    BY <1>2, <1>4 DEF Place

(* What is on or in a ring is where its corners are. *)
LEMMA PlaceInGrid ==
    ASSUME NEW s, IsRing(s), NEW q \in Point, Place(s, q) # "outside",
           \A e \in SegmentsOf(s) : {e.a.x, e.a.y, e.b.x, e.b.y} \subseteq 0 .. Width
    PROVE  Times(4, q) \in Grid
<1>1. Width \in Nat /\ q.x \in Int /\ q.y \in Int
    BY WidthAssumption DEF Point
<1>2. ASSUME NEW k \in EdgesOf(s)
      PROVE  LET e == SegmentAt(s, k) IN
             /\ e \in Segment
             /\ e.a.x \in 0 .. Width /\ e.a.y \in 0 .. Width
             /\ e.b.x \in 0 .. Width /\ e.b.y \in 0 .. Width
    BY EdgesJoin DEF SegmentsOf
<1>3. q.x \in 0 .. Width /\ q.y \in 0 .. Width
    <2>1. CASE \E k \in EdgesOf(s) : OnSegment(SegmentAt(s, k), q)
        <3>1. PICK k \in EdgesOf(s) : OnSegment(SegmentAt(s, k), q)
            BY <2>1
        <3>2. PICK e \in Segment :
                 /\ OnSegment(e, q)
                 /\ e.a.x \in 0 .. Width /\ e.a.y \in 0 .. Width
                 /\ e.b.x \in 0 .. Width /\ e.b.y \in 0 .. Width
            BY <1>2, <3>1
        <3>3. QED
            BY <1>1, <3>2 DEF OnSegment, RectContainsPoint, SegmentRect, Lesser, Greater
    <2>2. CASE ~ \E k \in EdgesOf(s) : OnSegment(SegmentAt(s, k), q)
        <3> DEFINE up == {k \in EdgesOf(s) : Above(SegmentAt(s, k), q)}
                   right == {k \in InRow(s, q) : Raycast(SegmentAt(s, k), q).in}
        <3>1. Odd(up)
            BY <2>2, Zenon DEF Place
        <3>2. Odd(right)
            BY <2>2, <3>1, RowIsEnough
        <3>3. up # {} /\ right # {}
            <4> HIDE DEF up, right
            <4>1. QED
                BY <3>1, <3>2, OddEmpty
        <3>4. q.x \in 0 .. Width
            <4>1. PICK k \in EdgesOf(s) : Above(SegmentAt(s, k), q)
                BY <3>3
            <4>2. PICK e \in Segment : /\ Above(e, q)
                                       /\ e.a.x \in 0 .. Width /\ e.b.x \in 0 .. Width
                BY <1>2, <4>1
            <4>3. \/ e.a.x <= q.x /\ q.x < e.b.x
                  \/ e.b.x <= q.x /\ q.x < e.a.x
                BY <4>2 DEF Above
            <4>4. QED
                BY <1>1, <4>2, <4>3
        <3>5. q.y \in 0 .. Width
            <4>1. PICK k \in EdgesOf(s) :
                     Between(q.y, SegmentAt(s, k).a.y, SegmentAt(s, k).b.y)
                BY <3>3 DEF InRow
            <4>2. PICK e \in Segment : /\ Between(q.y, e.a.y, e.b.y)
                                       /\ e.a.y \in 0 .. Width /\ e.b.y \in 0 .. Width
                BY <1>2, <4>1
            <4>3. QED
                BY <1>1, <4>2 DEF Between, Lesser, Greater
        <3>6. QED
            BY <3>4, <3>5
    <2>3. QED
        BY <2>1, <2>2
<1>4. 4 * q.x \in 0 .. 4 * Width /\ 4 * q.y \in 0 .. 4 * Width
    BY <1>1, <1>3
<1>5. QED
    BY <1>4 DEF Times, Grid

-----------------------------------------------------------------------------
(* Poly.ContainsPointEx.                                                   *)

(* g is the polygon poly, moved by d. *)
Follows(g, poly, d) ==
    /\ g.kind = "poly" /\ {"kind", "exterior", "holes"} \subseteq DOMAIN g
    /\ Shifted(g.exterior, poly.exterior, d)
    /\ DOMAIN g.holes = DOMAIN poly.holes
    /\ \A k \in DOMAIN poly.holes : Shifted(g.holes[k], poly.holes[k], d)

(* What KindsAssumption says of a polygon. *)
LEMMA PolyKind ==
    ASSUME NEW g \in Geometries, g.kind = "poly"
    PROVE  /\ {"kind", "exterior", "holes"} \subseteq DOMAIN g
           /\ IsRing(g.exterior)
           /\ \A k \in DOMAIN g.holes : IsRing(g.holes[k])
           /\ DOMAIN g.holes \subseteq Nat \ {0}
<1> DEFINE series == [points : Seq(Point), closed : {TRUE}, convex : BOOLEAN,
                      clockwise : BOOLEAN, rect : Rect]
<1>1. g \in [kind : {"poly"}, exterior : series, holes : Seq(series)]
    BY KindsAssumption
<1>2. \A r \in series : IsRing(r)
    BY DEF IsRing
<1> HIDE DEF series
<1>3. QED
    BY <1>1, <1>2

LEMMA PointKind ==
    ASSUME NEW g \in Geometries, g.kind = "point"
    PROVE  g.point \in Point
    BY KindsAssumption

LEMMA FourKinds ==
    ASSUME NEW g \in Geometries
    PROVE  "kind" \in DOMAIN g /\ g.kind \in {"point", "rect", "line", "poly"}
    BY KindsAssumption

(* A polygon that is made, and that is moved on. *)
LEMMA FollowsItself ==
    ASSUME NEW g \in Geometries, g.kind = "poly"
    PROVE  Follows(g, g, Origin)
<1>1. ASSUME NEW r, IsRing(r) PROVE Shifted(r, r, Origin)
    <2>1. \A k \in 1 .. Len(r.points) : r.points[k] \in Point
        BY <1>1 DEF IsRing
    <2>2. \A p \in Point : MovePoint(p, Origin) = p
        BY DEF MovePoint, Origin, Point
    <2>3. QED
        BY <1>1, <2>1, <2>2 DEF Shifted
<1>2. QED
    BY <1>1, PolyKind, Zenon DEF Follows

LEMMA FollowsMove ==
    ASSUME NEW g, NEW poly, NEW d \in Point, Follows(g, poly, d), NEW e \in Point
    PROVE  Follows(MoveGeometry(g, e), poly, MovePoint(d, e))
<1>1. g.kind = "poly" /\ DOMAIN g.holes = DOMAIN poly.holes
    BY DEF Follows
<1>2. MoveGeometry(g, e) = MovePoly(g, e)
    BY <1>1 DEF MoveGeometry
<1> DEFINE exterior == MoveSeries(g.exterior, e)
           holes == [k \in DOMAIN g.holes |-> MoveSeries(g.holes[k], e)]
<1>3. /\ DOMAIN MovePoly(g, e) = DOMAIN g /\ MovePoly(g, e).kind = "poly"
      /\ MovePoly(g, e).exterior = exterior /\ MovePoly(g, e).holes = holes
    <2>1. {"kind", "exterior", "holes"} \subseteq DOMAIN g
        BY DEF Follows
    <2>2. MovePoly(g, e) = [g EXCEPT !.exterior = exterior, !.holes = holes]
        BY DEF MovePoly
    <2> HIDE DEF exterior, holes
    <2>3. QED
        BY <1>1, <2>1, <2>2
<1>4. Shifted(exterior, poly.exterior, MovePoint(d, e))
    BY ShiftedMove DEF Follows
<1>5. DOMAIN holes = DOMAIN poly.holes
    BY <1>1
<1>6. ASSUME NEW k \in DOMAIN poly.holes
      PROVE  Shifted(holes[k], poly.holes[k], MovePoint(d, e))
    <2>1. holes[k] = MoveSeries(g.holes[k], e) /\ Shifted(g.holes[k], poly.holes[k], d)
        BY <1>1 DEF Follows
    <2> HIDE DEF holes
    <2>2. QED
        BY <2>1, ShiftedMove
<1> HIDE DEF exterior, holes
<1>7. QED
    BY <1>2, <1>3, <1>4, <1>5, <1>6 DEF Follows

(* What the polygon that was made says of p, where it was made. *)
LEMMA PointExIsExact ==
    ASSUME NEW g, NEW poly \in Geometries, poly.kind = "poly", NEW d \in Point,
           Follows(g, poly, d), NEW p \in Point
    PROVE  LET q == Times(4, MovePoint(p, Times(-1, d)))
               res == PolyContainsPointEx(g, p)
           IN  /\ res.contains = (q \in Cover[poly])
               /\ res.holeIndex + 1 # 0 => InRing(poly.holes[res.holeIndex + 1], q)
               /\ (res.holeIndex + 1 = 0 /\ ~ res.contains) =>
                     ~ InRing(poly.exterior, q) /\ ~ OnRing(poly.exterior, q)
<1>1. PICK o \in Point : o = MovePoint(p, Times(-1, d)) /\ MovePoint(o, d) = p
    <2>1. Times(-1, d) \in Point
        BY DEF Times, Point
    <2>2. MovePoint(p, Times(-1, d)) \in Point
        BY <2>1, MovedPoint
    <2>3. MovePoint(MovePoint(p, Times(-1, d)), d) = p
        BY DEF MovePoint, Times, Point
    <2>4. QED
        BY <2>2, <2>3
<1> DEFINE q == Times(4, o)
           in == {k \in DOMAIN g.holes : RingContainsPoint(g.holes[k], p, FALSE).hit}
           out == ~ RingContainsPoint(g.exterior, p, TRUE).hit
<1>2. out <=> ~ (OnRing(poly.exterior, q) \/ InRing(poly.exterior, q))
    <2>1. Place(g.exterior, p) = Place(poly.exterior, o)
        BY <1>1, ShiftedPlace DEF Follows
    <2>2. IsRing(g.exterior) /\ IsRing(poly.exterior)
        BY DEF Follows, Shifted
    <2>3. RingContainsPoint(g.exterior, p, TRUE).hit
             <=> Place(g.exterior, p) = "edge" \/ Place(g.exterior, p) = "inside"
        BY <2>2, ScanIsRight
    <2>4. QED
        BY <2>1, <2>2, <2>3, QuartersPlace
<1>3. \A k \in DOMAIN poly.holes : k \in in <=> InRing(poly.holes[k], q)
    <2> TAKE k \in DOMAIN poly.holes
    <2>1. k \in DOMAIN g.holes /\ Shifted(g.holes[k], poly.holes[k], d)
        BY DEF Follows
    <2>2. Place(g.holes[k], p) = Place(poly.holes[k], o)
        BY <1>1, <2>1, ShiftedPlace
    <2>3. IsRing(g.holes[k]) /\ IsRing(poly.holes[k])
        BY <2>1 DEF Shifted
    <2>4. RingContainsPoint(g.holes[k], p, FALSE).hit <=> Place(g.holes[k], p) = "inside"
        BY <2>3, ScanIsRight
    <2>5. QED
        BY <2>1, <2>2, <2>3, <2>4, QuartersPlace
<1>4. in \subseteq DOMAIN poly.holes /\ in \in SUBSET Nat /\ 0 \notin in
    BY PolyKind DEF Follows
<1>5. q \in Cover[poly] <=> ~ out /\ in = {}
    <2>1. Cover[poly] = {c \in Grid : Covers(poly, c)}
        BY DEF Cover
    <2>2. HolesOf(poly) = {poly.holes[k] : k \in DOMAIN poly.holes}
        BY DEF HolesOf
    <2>3. Covers(poly, q) <=> /\ OnRing(poly.exterior, q) \/ InRing(poly.exterior, q)
                             /\ \A hole \in HolesOf(poly) : ~ InRing(hole, q)
        BY Zenon DEF Covers
    <2>4. Covers(poly, q) <=> ~ out /\ in = {}
        <3> HIDE DEF q, in, out
        <3>1. QED
            BY <1>2, <1>3, <1>4, <2>2, <2>3
    <2>5. ~ out => q \in Grid
        <3>1. poly.exterior \in RingsOf(poly)
            BY DEF RingsOf
        <3>2. \A e \in SegmentsOf(poly.exterior) :
                 {e.a.x, e.a.y, e.b.x, e.b.y} \subseteq 0 .. Width
            BY <3>1, WidthAssumption, Zenon
        <3>3. IsRing(poly.exterior)
            BY PolyKind
        <3>4. ~ out => Place(poly.exterior, o) # "outside"
            BY <1>2, <3>3, QuartersPlace
        <3> HIDE DEF out
        <3>5. QED
            BY <3>2, <3>3, <3>4, PlaceInGrid
    <2> HIDE DEF q, in, out
    <2>6. QED
        BY <2>1, <2>4, <2>5
<1>6. PolyContainsPointEx(g, p) =
         IF out THEN [contains |-> FALSE, holeIndex |-> -1]
         ELSE [contains |-> in = {}, holeIndex |-> IF in = {} THEN -1 ELSE Min(in) - 1]
    BY Zenon DEF PolyContainsPointEx
<1>7. in # {} => Min(in) \in in
    <2> HIDE DEF in
    <2>1. QED
        BY <1>4, LeastOf
<1> DEFINE res == PolyContainsPointEx(g, p)
<1>8. /\ res.contains = (q \in Cover[poly])
      /\ res.holeIndex + 1 # 0 => InRing(poly.holes[res.holeIndex + 1], q)
      /\ (res.holeIndex + 1 = 0 /\ ~ res.contains) =>
            ~ InRing(poly.exterior, q) /\ ~ OnRing(poly.exterior, q)
    <2>1. CASE out
        <3>1. res = [contains |-> FALSE, holeIndex |-> -1]
            BY <1>6, <2>1, Zenon
        <3> HIDE DEF q, in, out, res
        <3>2. res.contains = FALSE /\ res.holeIndex + 1 = 0
            BY <3>1
        <3>3. (q \in Cover[poly]) = FALSE
            BY <1>5, <2>1
        <3>4. QED
            BY <1>2, <2>1, <3>2, <3>3, Zenon
    <2>2. CASE ~ out /\ in = {}
        <3>1. res = [contains |-> in = {}, holeIndex |-> -1]
            BY <1>6, <2>2, Zenon
        <3> HIDE DEF q, in, out, res
        <3>2. res.contains = (in = {}) /\ res.holeIndex = -1
            BY <3>1, Zenon
        <3>3. res.holeIndex + 1 = 0
            BY <3>2
        <3>4. (in = {}) = TRUE /\ (q \in Cover[poly]) = TRUE
            BY <1>5, <2>2
        <3>5. QED
            BY <3>2, <3>3, <3>4, Zenon
    <2>3. CASE ~ out /\ in # {}
        <3>1. PICK m \in Nat : m = Min(in) /\ m # 0 /\ m \in DOMAIN poly.holes /\ m \in in
            <4> HIDE DEF in
            <4>1. QED
                BY <1>4, <1>7, <2>3
        <3>2. res = [contains |-> FALSE, holeIndex |-> m - 1]
            <4>1. (in = {}) = FALSE
                <5> HIDE DEF in
                <5>1. QED
                    BY <2>3
            <4>2. res = [contains |-> in = {}, holeIndex |-> m - 1]
                BY <1>6, <2>3, <3>1, Zenon
            <4> HIDE DEF in, res
            <4>3. QED
                BY <4>1, <4>2, Zenon
        <3> HIDE DEF q, in, out, res
        <3>3. res.contains = FALSE /\ res.holeIndex + 1 = m
            BY <3>1, <3>2
        <3>4. InRing(poly.holes[m], q) /\ ~ (q \in Cover[poly])
            BY <1>3, <1>5, <2>3, <3>1
        <3>5. (q \in Cover[poly]) = FALSE
            BY <3>4
        <3>6. QED
            BY <3>1, <3>3, <3>4, <3>5, Zenon
    <2>4. QED
        BY <2>1, <2>2, <2>3
<1>9. QED
    BY <1>1, <1>8, Zenon

Asked == {"Make", "Contains", "Intersects", "ContainsPointEx"}

(* The first geometry is the one that was made, moved by call.by, and the  *)
(* answer is about it.                                                     *)
Tracked ==
    /\ "op" \in DOMAIN call
    /\ call.op \in Asked =>
          /\ {"g", "h", "of", "by"} \subseteq DOMAIN call
          /\ call.of \in Geometries /\ call.h \in Geometries /\ call.by \in Point
          /\ "kind" \in DOMAIN call.g /\ call.g.kind = call.of.kind
          /\ call.of.kind = "poly" => Follows(call.g, call.of, call.by)
    /\ call.op = "ContainsPointEx" =>
          /\ call.of.kind = "poly" /\ call.h.kind = "point"
          /\ call.res = PolyContainsPointEx(call.g, call.h.point)

LEMMA MakeTracked ==
    ASSUME NEW g \in Geometries, NEW h \in Geometries, Make(g, h)
    PROVE  Tracked'
<1>1. call' = [op |-> "Make", g |-> g, h |-> h, of |-> g, by |-> Origin]
    BY DEF Make
<1>2. Origin \in Point
    BY DEF Origin, Point
<1>3. "kind" \in DOMAIN g
    BY FourKinds
<1>4. g.kind = "poly" => Follows(g, g, Origin)
    BY FollowsItself
<1>5. /\ {"op", "g", "h", "of", "by"} \subseteq DOMAIN call' /\ call'.op = "Make"
      /\ call'.g = g /\ call'.h = h /\ call'.of = g /\ call'.by = Origin
    BY <1>1
<1>6. QED
    BY <1>2, <1>3, <1>4, <1>5 DEF Tracked

LEMMA MoveTracked ==
    ASSUME Tracked, NEW delta \in Deltas, Move(delta)
    PROVE  Tracked'
<1>1. call.op = "Make" /\ delta \in Point
    BY WidthAssumption DEF Move
<1>2. /\ {"op", "g", "h", "of", "by"} \subseteq DOMAIN call
      /\ call.of \in Geometries /\ call.h \in Geometries /\ call.by \in Point
      /\ "kind" \in DOMAIN call.g /\ call.g.kind = call.of.kind
      /\ call.of.kind = "poly" => Follows(call.g, call.of, call.by)
    BY <1>1 DEF Tracked, Asked
<1> DEFINE g == MoveGeometry(call.g, delta)
           by == MovePoint(call.by, delta)
<1>3. call' = [call EXCEPT !.g = g, !.by = by]
    BY DEF Move
<1>4. by \in Point
    BY <1>1, <1>2, MovedPoint
<1>5. call.of.kind = "poly" => Follows(g, call.of, by)
    BY <1>1, <1>2, FollowsMove
<1>6. "kind" \in DOMAIN g /\ g.kind = call.of.kind
    <2>1. CASE call.of.kind = "poly"
        <3> HIDE DEF g
        <3>1. QED
            BY <1>5, <2>1 DEF Follows
    <2>2. CASE call.of.kind = "point"
        <3>1. g = [call.g EXCEPT !.point = MovePoint(@, delta)]
            BY <1>2, <2>2 DEF MoveGeometry
        <3> HIDE DEF g
        <3>2. QED
            BY <1>2, <3>1
    <2>3. CASE call.of.kind = "rect"
        <3>1. g = [call.g EXCEPT !.rect = MoveRect(@, delta)]
            BY <1>2, <2>3 DEF MoveGeometry
        <3> HIDE DEF g
        <3>2. QED
            BY <1>2, <3>1
    <2>4. CASE call.of.kind = "line"
        <3>1. g = [call.g EXCEPT !.line = MoveSeries(@, delta)]
            BY <1>2, <2>4 DEF MoveGeometry
        <3> HIDE DEF g
        <3>2. QED
            BY <1>2, <3>1
    <2>5. QED
        BY <1>2, <2>1, <2>2, <2>3, <2>4, FourKinds
<1> HIDE DEF g, by
<1>7. /\ DOMAIN call' = DOMAIN call /\ call'.op = "Make"
      /\ call'.g = g /\ call'.h = call.h /\ call'.of = call.of /\ call'.by = by
    BY <1>1, <1>2, <1>3
<1>8. QED
    BY <1>2, <1>4, <1>5, <1>6, <1>7 DEF Tracked

LEMMA AnswerTracked ==
    ASSUME Tracked, call.op = "Make", NEW op \in Asked \ {"Make"}, NEW res, Answer(op, res),
           op = "ContainsPointEx" =>
              /\ call.g.kind = "poly" /\ call.h.kind = "point"
              /\ res = PolyContainsPointEx(call.g, call.h.point)
    PROVE  Tracked'
<1>1. /\ {"op", "g", "h", "of", "by"} \subseteq DOMAIN call
      /\ call.of \in Geometries /\ call.h \in Geometries /\ call.by \in Point
      /\ "kind" \in DOMAIN call.g /\ call.g.kind = call.of.kind
      /\ call.of.kind = "poly" => Follows(call.g, call.of, call.by)
    BY DEF Tracked, Asked
<1>2. /\ {"op", "g", "h", "of", "by"} \subseteq DOMAIN call' /\ call'.op = op
      /\ call'.g = call.g /\ call'.h = call.h /\ call'.of = call.of /\ call'.by = call.by
      /\ call'.res = res
    BY DEF Answer
<1>3. QED
    BY <1>1, <1>2 DEF Tracked

LEMMA StepTracked == Tracked /\ [Next]_call => Tracked'
<1> SUFFICES ASSUME Tracked, [Next]_call PROVE Tracked'
    OBVIOUS
<1>1. CASE SegmentCall
    <2>1. "op" \in DOMAIN call' /\ call'.op \notin Asked
        BY <1>1 DEF SegmentCall, CallRaycast, CallIntersectsSegment, Asked
    <2>2. QED
        BY <2>1 DEF Tracked, Asked
<1>2. CASE \E g, h \in Geometries : Make(g, h)
    BY <1>2, MakeTracked
<1>3. CASE \E delta \in Deltas : Move(delta)
    BY <1>3, MoveTracked
<1>4. CASE CallContains
    BY <1>4, AnswerTracked DEF CallContains, Asked
<1>5. CASE CallIntersects
    BY <1>5, AnswerTracked DEF CallIntersects, Asked
<1>6. CASE CallContainsPointEx
    BY <1>6, AnswerTracked DEF CallContainsPointEx, Asked
<1>7. CASE Return
    BY <1>7 DEF Return, Idle, Tracked, Asked
<1>8. CASE call' = call
    BY <1>8, Zenon DEF Tracked
<1>9. QED
    BY <1>1, <1>2, <1>3, <1>4, <1>5, <1>6, <1>7, <1>8, Zenon DEF Next

LEMMA TrackedExact == Tracked => HoleExact
<1> SUFFICES ASSUME Tracked, call.op = "ContainsPointEx" PROVE HoleExact
    BY DEF HoleExact
<1>1. /\ call.of \in Geometries /\ call.h \in Geometries /\ call.by \in Point
      /\ call.of.kind = "poly" /\ call.h.kind = "point"
      /\ Follows(call.g, call.of, call.by)
      /\ call.res = PolyContainsPointEx(call.g, call.h.point)
    BY DEF Tracked, Asked
<1>2. call.h.point \in Point
    BY <1>1, PointKind
<1> DEFINE q == Times(4, MovePoint(call.h.point, Times(-1, call.by)))
           res == PolyContainsPointEx(call.g, call.h.point)
<1>3. /\ res.contains = (q \in Cover[call.of])
      /\ res.holeIndex + 1 # 0 => InRing(call.of.holes[res.holeIndex + 1], q)
      /\ (res.holeIndex + 1 = 0 /\ ~ res.contains) =>
            ~ InRing(call.of.exterior, q) /\ ~ OnRing(call.of.exterior, q)
    BY <1>1, <1>2, PointExIsExact
<1>4. QED
    BY <1>1, <1>3, Zenon DEF HoleExact

(* Poly.ContainsPointEx says that a polygon contains a point iff the point *)
(* is in or on the exterior and strictly inside no hole; a hole it names   *)
(* has the point strictly inside, and with false it names none only for a  *)
(* point outside of the exterior.  So it does after any number of moves.   *)
(* Nothing is used of the rings but that they have integer coordinates:    *)
(* they may cross themselves and each other, and holes may lie anywhere.   *)
THEOREM HolesAreExact == Spec => []HoleExact
<1>1. Init => Tracked
    BY DEF Init, Idle, Tracked, Asked
<1>2. QED
    BY <1>1, StepTracked, TrackedExact, PTL DEF Spec

-----------------------------------------------------------------------------
(* Move changes no answer.                                                 *)
(*                                                                         *)
(* No predicate depends on where the axes are: moving all that it is asked *)
(* about by the same distance changes nothing.                             *)

(* The difference of two coordinates. *)
LEMMA MovedApart ==
    ASSUME NEW d \in Point, NEW p \in Point, NEW q \in Point
    PROVE  /\ MovePoint(p, d) = MovePoint(q, d) <=> p = q
           /\ MovePoint(p, d).x - MovePoint(q, d).x = p.x - q.x
           /\ MovePoint(p, d).y - MovePoint(q, d).y = p.y - q.y
    BY DEF MovePoint, Point

(* A segment that is moved has its ends moved. *)
LEMMA MovedSegmentIs ==
    ASSUME NEW d \in Point, NEW e \in Segment
    PROVE  /\ MoveSegment(e, d) \in Segment /\ e.a \in Point /\ e.b \in Point
           /\ MoveSegment(e, d).a = MovePoint(e.a, d)
           /\ MoveSegment(e, d).b = MovePoint(e.b, d)
    BY MovedPoint DEF MoveSegment, Segment

(* Segment.Raycast. *)
LEMMA MovedRaycast ==
    ASSUME NEW d \in Point, NEW e \in Segment, NEW p \in Point
    PROVE  /\ Raycast(MoveSegment(e, d), MovePoint(p, d)).on <=> Raycast(e, p).on
           /\ Raycast(MoveSegment(e, d), MovePoint(p, d)).in <=> Raycast(e, p).in
<1> DEFINE f == MoveSegment(e, d)
           q == MovePoint(p, d)
<1>1. f \in Segment /\ q \in Point
    BY MovedSegmentIs, MovedPoint
<1>2. RaycastOn(f, q) <=> RaycastOn(e, p)
    BY <1>1, MovedSegment, RaycastOnExact
<1>3. /\ e.a.y < e.b.y <=> f.a.y < f.b.y
      /\ e.a.y <= p.y <=> f.a.y <= q.y
      /\ e.b.y <= p.y <=> f.b.y <= q.y
      /\ p.y < e.a.y <=> q.y < f.a.y
      /\ p.y < e.b.y <=> q.y < f.b.y
    BY DEF MoveSegment, MovePoint, Segment, Point
<1>4. Cross(f.a, f.b, q) = Cross(e.a, e.b, p) /\ Cross(f.b, f.a, q) = Cross(e.b, e.a, p)
    BY MovedSegmentIs, MovedCross
<1>5. CASE RaycastOn(e, p)
    BY <1>2, <1>5, RaycastOnIs
<1>6. CASE ~ RaycastOn(e, p)
    <2>1. RaycastIn(e, p) <=> /\ Upward(e).a.y <= p.y /\ p.y < Upward(e).b.y
                             /\ Cross(Upward(e).a, Upward(e).b, p) < 0
        BY <1>6, RaycastInExact
    <2>2. RaycastIn(f, q) <=> /\ Upward(f).a.y <= q.y /\ q.y < Upward(f).b.y
                             /\ Cross(Upward(f).a, Upward(f).b, q) < 0
        BY <1>1, <1>2, <1>6, RaycastInExact
    <2>3. /\ Upward(e).a = (IF e.a.y < e.b.y THEN e.a ELSE e.b)
          /\ Upward(e).b = (IF e.a.y < e.b.y THEN e.b ELSE e.a)
          /\ Upward(f).a = (IF f.a.y < f.b.y THEN f.a ELSE f.b)
          /\ Upward(f).b = (IF f.a.y < f.b.y THEN f.b ELSE f.a)
        BY DEF Upward
    <2> HIDE DEF f, q
    <2>4. RaycastIn(f, q) <=> RaycastIn(e, p)
        <3>1. CASE e.a.y < e.b.y
            <4>1. /\ Upward(e).a = e.a /\ Upward(e).b = e.b
                  /\ Upward(f).a = f.a /\ Upward(f).b = f.b
                BY <1>3, <2>3, <3>1, Zenon
            <4>2. QED
                BY <1>3, <1>4, <2>1, <2>2, <4>1, Zenon
        <3>2. CASE ~ (e.a.y < e.b.y)
            <4>1. /\ Upward(e).a = e.b /\ Upward(e).b = e.a
                  /\ Upward(f).a = f.b /\ Upward(f).b = f.a
                BY <1>3, <2>3, <3>2, Zenon
            <4>2. QED
                BY <1>3, <1>4, <2>1, <2>2, <4>1, Zenon
        <3>3. QED
            BY <3>1, <3>2
    <2>5. /\ Raycast(f, q).on <=> Raycast(e, p).on
          /\ Raycast(f, q).in <=> Raycast(e, p).in
        BY <1>2, <2>4, RaycastOnIs
    <2>6. QED
        BY <2>5 DEF f, q
<1>7. QED
    BY <1>5, <1>6

(* Segment.IntersectsSegment. *)
LEMMA MovedIntersects ==
    ASSUME NEW d \in Point, NEW e \in Segment, NEW f \in Segment
    PROVE  IntersectsSegment(MoveSegment(e, d), MoveSegment(f, d)) <=> IntersectsSegment(e, f)
<1> DEFINE g == MoveSegment(e, d)
           h == MoveSegment(f, d)
<1>1. /\ g \in Segment /\ h \in Segment
      /\ e.a \in Point /\ e.b \in Point /\ f.a \in Point /\ f.b \in Point
      /\ g.a = MovePoint(e.a, d) /\ g.b = MovePoint(e.b, d)
      /\ h.a = MovePoint(f.a, d) /\ h.b = MovePoint(f.b, d)
    BY MovedSegmentIs
<1> HIDE DEF g, h
<1>2. /\ g.b.x - g.a.x = e.b.x - e.a.x /\ g.b.y - g.a.y = e.b.y - e.a.y
      /\ h.b.x - h.a.x = f.b.x - f.a.x /\ h.b.y - h.a.y = f.b.y - f.a.y
      /\ h.a.x - g.a.x = f.a.x - e.a.x /\ h.a.y - g.a.y = f.a.y - e.a.y
    BY <1>1, MovedApart
<1>3. IntersectsSegment(g, h) <=> IntersectsSegment(e, f)
    BY <1>1, <1>2, IntersectsVector
<1>4. QED
    BY <1>3 DEF g, h

(* Segment.CollinearPoint. *)
LEMMA MovedCollinear ==
    ASSUME NEW d \in Point, NEW e \in Segment, NEW p \in Point
    PROVE  /\ CollinearPoint(MoveSegment(e, d), MovePoint(p, d)) <=> CollinearPoint(e, p)
           /\ IsEnd(MoveSegment(e, d), MovePoint(p, d)) <=> IsEnd(e, p)
    BY MovedSegmentIs, MovedCross, MovedApart DEF CollinearPoint, IsEnd

(* The queries of Rect. *)
LEMMA MovedRects ==
    ASSUME NEW d \in Point, NEW r \in Rect, NEW q \in Rect
    PROVE  /\ MoveRect(r, d) \in Rect
           /\ RectIntersectsRect(MoveRect(r, d), MoveRect(q, d)) <=> RectIntersectsRect(r, q)
           /\ RectContainsRect(MoveRect(r, d), MoveRect(q, d)) <=> RectContainsRect(r, q)
           /\ MoveRect(r, d) = MoveRect(q, d) <=> r = q
           /\ Area(MoveRect(r, d)) = Area(r) /\ Area(r) \in Int
<1>1. /\ r.min \in Point /\ r.max \in Point /\ q.min \in Point /\ q.max \in Point
      /\ r = [min |-> r.min, max |-> r.max] /\ q = [min |-> q.min, max |-> q.max]
    BY DEF Rect
<1>2. \A p \in Rect : MoveRect(p, d).min = MovePoint(p.min, d)
                      /\ MoveRect(p, d).max = MovePoint(p.max, d)
    BY DEF MoveRect
<1>3. MoveRect(r, d) \in Rect
    BY <1>1, MovedPoint DEF MoveRect, Rect
<1>4. RectIntersectsRect(MoveRect(r, d), MoveRect(q, d)) <=> RectIntersectsRect(r, q)
    BY DEF MoveRect, MovePoint, Rect, Point, RectIntersectsRect
<1>5. RectContainsRect(MoveRect(r, d), MoveRect(q, d)) <=> RectContainsRect(r, q)
    BY DEF MoveRect, MovePoint, Rect, Point, RectContainsRect
<1>6. MoveRect(r, d) = MoveRect(q, d) <=> r = q
    <2>1. MoveRect(r, d) = MoveRect(q, d) => r.min = q.min /\ r.max = q.max
        BY <1>1, <1>2, MovedApart
    <2>2. QED
        BY <1>1, <2>1
<1>7. Area(MoveRect(r, d)) = Area(r) /\ Area(r) \in Int
    <2>1. /\ MoveRect(r, d).max.x - MoveRect(r, d).min.x = r.max.x - r.min.x
          /\ MoveRect(r, d).max.y - MoveRect(r, d).min.y = r.max.y - r.min.y
        BY <1>1, <1>2, MovedApart
    <2>2. QED
        BY <1>1, <2>1 DEF Area, Point
<1>8. QED
    BY <1>3, <1>4, <1>5, <1>6, <1>7

(* The rectangle of a point, and Rect.ContainsPoint. *)
LEMMA MovedPointRect ==
    ASSUME NEW d \in Point, NEW p \in Point
    PROVE  /\ PointRect(p) \in Rect /\ MoveRect(PointRect(p), d) = PointRect(MovePoint(p, d))
           /\ \A r \in Rect : RectContainsPoint(MoveRect(r, d), MovePoint(p, d))
                                 <=> RectContainsPoint(r, p)
<1>1. PointRect(p) \in Rect /\ MoveRect(PointRect(p), d) = PointRect(MovePoint(p, d))
    BY DEF PointRect, Rect, MoveRect
<1>2. \A r \in Rect : RectContainsPoint(MoveRect(r, d), MovePoint(p, d)) <=> RectContainsPoint(r, p)
    BY DEF MoveRect, MovePoint, Rect, Point, RectContainsPoint
<1>3. QED
    BY <1>1, <1>2

(* The rectangle of a segment. *)
LEMMA MovedSegmentRect ==
    ASSUME NEW d \in Point, NEW e \in Segment
    PROVE  SegmentRect(e) \in Rect /\ SegmentRect(MoveSegment(e, d)) = MoveRect(SegmentRect(e), d)
<1>1. /\ e.a.x \in Int /\ e.a.y \in Int /\ e.b.x \in Int /\ e.b.y \in Int
      /\ d.x \in Int /\ d.y \in Int
    BY DEF Segment, Point
<1>2. \A m, n \in Int : Lesser(m, n) \in Int /\ Greater(m, n) \in Int
    BY DEF Lesser, Greater
<1>3. SegmentRect(e) \in Rect
    BY <1>1, <1>2 DEF SegmentRect, Rect, Point
<1>4. /\ MoveSegment(e, d).a.x = e.a.x + d.x /\ MoveSegment(e, d).a.y = e.a.y + d.y
      /\ MoveSegment(e, d).b.x = e.b.x + d.x /\ MoveSegment(e, d).b.y = e.b.y + d.y
    BY DEF MoveSegment, MovePoint
<1>5. /\ Lesser(e.a.x + d.x, e.b.x + d.x) = Lesser(e.a.x, e.b.x) + d.x
      /\ Lesser(e.a.y + d.y, e.b.y + d.y) = Lesser(e.a.y, e.b.y) + d.y
      /\ Greater(e.a.x + d.x, e.b.x + d.x) = Greater(e.a.x, e.b.x) + d.x
      /\ Greater(e.a.y + d.y, e.b.y + d.y) = Greater(e.a.y, e.b.y) + d.y
    BY <1>1 DEF Lesser, Greater
<1>6. QED
    BY <1>3, <1>4, <1>5 DEF SegmentRect, MoveRect, MovePoint

-----------------------------------------------------------------------------
(* r is the series s, moved by d, with all it has found out about itself.  *)
(* The rectangle of a series with too few points is not looked at.         *)
Alike(r, s, d) ==
    /\ r.points \in Seq(Point) /\ s.points \in Seq(Point) /\ Len(r.points) = Len(s.points)
    /\ \A k \in 1 .. Len(s.points) : r.points[k] = MovePoint(s.points[k], d)
    /\ s.closed \in BOOLEAN /\ r.closed = s.closed
    /\ r.convex = s.convex /\ r.clockwise = s.clockwise
    /\ ~ Empty(s) => s.rect \in Rect /\ r.rect = MoveRect(s.rect, d)

(* Their segments, one by one. *)
LEMMA AlikeEdges ==
    ASSUME NEW r, NEW s, NEW d \in Point, Alike(r, s, d)
    PROVE  /\ Empty(r) <=> Empty(s)
           /\ EdgesOf(r) = EdgesOf(s) /\ EdgesOf(s) \subseteq Nat
           /\ \A k \in EdgesOf(s) : /\ SegmentAt(s, k) \in Segment
                                    /\ SegmentAt(r, k) = MoveSegment(SegmentAt(s, k), d)
<1>1. /\ r.points \in Seq(Point) /\ s.points \in Seq(Point)
      /\ s.closed \in BOOLEAN /\ r.closed = s.closed
    BY DEF Alike
<1>2. PICK n \in Nat : n = Len(r.points) /\ n = Len(s.points)
    BY <1>1 DEF Alike
<1>3. \A k \in 1 .. n : s.points[k] \in Point /\ r.points[k] = MovePoint(s.points[k], d)
    BY <1>1, <1>2 DEF Alike
<1>4. Empty(r) <=> Empty(s)
    BY <1>1, <1>2 DEF Empty
<1>5. NumSegments(r) = NumSegments(s) /\ NumSegments(s) \in 0 .. n
    <2>1. CASE Empty(s)
        BY <1>2, <1>4, <2>1 DEF NumSegments
    <2>2. CASE ~ Empty(s)
        <3>1. n >= 2
            BY <1>1, <1>2, <2>2 DEF Empty
        <3>2. (n - 1) + 1 = n /\ 0 + 1 = 1 /\ n \in 1 .. n /\ 1 \in 1 .. n
            BY <3>1
        <3>3. r.points[n] # r.points[1] <=> s.points[n] # s.points[1]
            BY <1>3, <3>2, MovedApart
        <3>4. NumSegments(s) = IF s.closed /\ s.points[n] # s.points[1] THEN n ELSE n - 1
            BY <1>2, <2>2, <3>2 DEF NumSegments, PointAt
        <3>5. NumSegments(r) = IF r.closed /\ r.points[n] # r.points[1] THEN n ELSE n - 1
            BY <1>2, <1>4, <2>2, <3>2 DEF NumSegments, PointAt
        <3>6. QED
            BY <1>1, <3>1, <3>3, <3>4, <3>5
    <2>3. QED
        BY <2>1, <2>2
<1>6. EdgesOf(r) = EdgesOf(s) /\ EdgesOf(s) \subseteq Nat
    BY <1>5 DEF EdgesOf
<1>7. ASSUME NEW k \in EdgesOf(s)
      PROVE  /\ SegmentAt(s, k) \in Segment
             /\ SegmentAt(r, k) = MoveSegment(SegmentAt(s, k), d)
    <2>1. k \in Int /\ k + 1 \in 1 .. n /\ 1 \in 1 .. n /\ 0 + 1 = 1
        BY <1>2, <1>5 DEF EdgesOf
    <2>2. CASE k = n - 1
        <3>1. SegmentAt(s, k) = [a |-> s.points[k + 1], b |-> s.points[1]]
            BY <1>2, <2>1, <2>2 DEF SegmentAt, PointAt
        <3>2. SegmentAt(r, k) = [a |-> r.points[k + 1], b |-> r.points[1]]
            BY <1>2, <2>1, <2>2 DEF SegmentAt, PointAt
        <3>3. QED
            BY <1>3, <2>1, <3>1, <3>2 DEF Segment, MoveSegment
    <2>3. CASE k # n - 1
        <3>1. (k + 1) + 1 \in 1 .. n
            BY <2>1, <2>3
        <3>2. SegmentAt(s, k) = [a |-> s.points[k + 1], b |-> s.points[(k + 1) + 1]]
            BY <1>2, <2>3 DEF SegmentAt, PointAt
        <3>3. SegmentAt(r, k) = [a |-> r.points[k + 1], b |-> r.points[(k + 1) + 1]]
            BY <1>2, <2>3 DEF SegmentAt, PointAt
        <3>4. QED
            BY <1>3, <2>1, <3>1, <3>2, <3>3 DEF Segment, MoveSegment
    <2>4. QED
        BY <2>2, <2>3
<1>8. QED
    BY <1>4, <1>6, <1>7

(* Their segments and points as sets. *)
LEMMA AlikeParts ==
    ASSUME NEW r, NEW s, NEW d \in Point, Alike(r, s, d)
    PROVE  /\ SegmentsOf(s) \subseteq Segment
           /\ SegmentsOf(r) = {MoveSegment(e, d) : e \in SegmentsOf(s)}
           /\ PointsOf(s) \subseteq Point
           /\ PointsOf(r) = {MovePoint(p, d) : p \in PointsOf(s)}
<1>1. SegmentsOf(s) \subseteq Segment /\ SegmentsOf(r) = {MoveSegment(e, d) : e \in SegmentsOf(s)}
    BY AlikeEdges DEF SegmentsOf
<1>2. DOMAIN s.points = 1 .. Len(s.points) /\ DOMAIN r.points = 1 .. Len(s.points)
    BY DEF Alike
<1>3. \A k \in 1 .. Len(s.points) : s.points[k] \in Point /\ r.points[k] = MovePoint(s.points[k], d)
    BY DEF Alike
<1>4. PointsOf(s) \subseteq Point /\ PointsOf(r) = {MovePoint(p, d) : p \in PointsOf(s)}
    BY <1>2, <1>3 DEF PointsOf
<1>5. QED
    BY <1>1, <1>4

(* Search visits the same segments of both. *)
LEMMA AlikeFound ==
    ASSUME NEW r, NEW s, NEW d \in Point, Alike(r, s, d), NEW t \in Rect
    PROVE  Found(r, MoveRect(t, d)) = Found(s, t)
<1>1. ASSUME NEW k \in EdgesOf(s)
      PROVE  RectIntersectsRect(SegmentRectAt(r, k), MoveRect(t, d))
                <=> RectIntersectsRect(SegmentRectAt(s, k), t)
    <2>1. SegmentAt(s, k) \in Segment /\ SegmentAt(r, k) = MoveSegment(SegmentAt(s, k), d)
        BY AlikeEdges
    <2>2. /\ SegmentRectAt(s, k) \in Rect
          /\ SegmentRectAt(r, k) = MoveRect(SegmentRectAt(s, k), d)
        BY <2>1, MovedSegmentRect DEF SegmentRectAt
    <2>3. QED
        BY <2>2, MovedRects
<1>2. EdgesOf(r) = EdgesOf(s)
    BY AlikeEdges
<1>3. QED
    BY <1>1, <1>2 DEF Found

(* ringContainsPoint. *)
LEMMA AlikeContainsPoint ==
    ASSUME NEW r, NEW s, NEW d \in Point, Alike(r, s, d), NEW p \in Point,
           NEW allow \in BOOLEAN
    PROVE  RingContainsPoint(r, MovePoint(p, d), allow) = RingContainsPoint(s, p, allow)
<1> DEFINE q == MovePoint(p, d)
<1>1. EdgesOf(r) = EdgesOf(s)
    BY AlikeEdges
<1>2. InRow(r, q) = InRow(s, p)
    <2>1. ASSUME NEW k \in EdgesOf(s)
          PROVE  Between(q.y, SegmentAt(r, k).a.y, SegmentAt(r, k).b.y)
                    <=> Between(p.y, SegmentAt(s, k).a.y, SegmentAt(s, k).b.y)
        <3>1. SegmentAt(s, k) \in Segment /\ SegmentAt(r, k) = MoveSegment(SegmentAt(s, k), d)
            BY AlikeEdges
        <3>2. \A e \in Segment : Between(q.y, MoveSegment(e, d).a.y, MoveSegment(e, d).b.y)
                                    <=> Between(p.y, e.a.y, e.b.y)
            BY DEF MoveSegment, MovePoint, Segment, Point, Between, Lesser, Greater
        <3> HIDE DEF q
        <3>3. QED
            BY <3>1, <3>2
    <2> HIDE DEF q
    <2>2. QED
        BY <1>1, <2>1 DEF InRow
<1>3. \A k \in InRow(s, p) :
         /\ Raycast(SegmentAt(r, k), q).on <=> Raycast(SegmentAt(s, k), p).on
         /\ Raycast(SegmentAt(r, k), q).in <=> Raycast(SegmentAt(s, k), p).in
    BY AlikeEdges, MovedRaycast DEF InRow
<1> HIDE DEF q
<1>4. /\ {k \in InRow(r, q) : Raycast(SegmentAt(r, k), q).on}
            = {k \in InRow(s, p) : Raycast(SegmentAt(s, k), p).on}
      /\ {k \in InRow(r, q) : Raycast(SegmentAt(r, k), q).in}
            = {k \in InRow(s, p) : Raycast(SegmentAt(s, k), p).in}
    BY <1>2, <1>3
<1>5. RingContainsPoint(r, q, allow) = RingContainsPoint(s, p, allow)
    BY <1>4, Zenon DEF RingContainsPoint
<1>6. QED
    BY <1>5 DEF q

(* The number of an edge that a point is on is that of an edge. *)
LEMMA HitIsEdge ==
    ASSUME NEW s, IsRing(s), NEW p \in Point, NEW allow \in BOOLEAN
    PROVE  /\ RingContainsPoint(s, p, allow).idx \in EdgesOf(s) \cup {-1}
           /\ RingContainsPoint(s, p, allow).hit \in BOOLEAN
<1>1. RingContainsPoint(s, p, allow).idx \in EdgesOf(s) \cup {-1}
    BY ScanIsRight
<1>2. RingContainsPoint(s, p, allow).hit \in BOOLEAN
    BY DEF RingContainsPoint
<1>3. QED
    BY <1>1, <1>2

(* The way four points of them go round. *)
LEMMA AlikeWinding ==
    ASSUME NEW r, NEW s, NEW d \in Point, Alike(r, s, d),
           NEW j \in EdgesOf(s), NEW k \in EdgesOf(s)
    PROVE  Winding(r, j, k) <=> Winding(s, j, k)
<1>1. PICK l, m : l = Lesser(j, k) /\ m = Greater(j, k) /\ l \in EdgesOf(s) /\ m \in EdgesOf(s)
    BY DEF Lesser, Greater
<1>2. PICK e \in Segment, f \in Segment :
         /\ e = SegmentAt(s, l) /\ f = SegmentAt(s, m)
         /\ SegmentAt(r, l) = MoveSegment(e, d) /\ SegmentAt(r, m) = MoveSegment(f, d)
    BY <1>1, AlikeEdges
<1> DEFINE sum(ax, ay, bx, by, cx, cy, dx, dy) ==
        (bx - ax) * (by + ay) + (cx - bx) * (cy + by)
          + (dx - cx) * (dy + cy) + (ax - dx) * (ay + dy)
<1>3. ASSUME NEW t, NEW g, NEW h, SegmentAt(t, l) = g, SegmentAt(t, m) = h
      PROVE  Winding(t, j, k) <=> sum(g.a.x, g.a.y, g.b.x, g.b.y, h.a.x, h.a.y, h.b.x, h.b.y) > 0
    BY <1>1, <1>3 DEF Winding
<1>4. /\ e.a.x \in Int /\ e.a.y \in Int /\ e.b.x \in Int /\ e.b.y \in Int
      /\ f.a.x \in Int /\ f.a.y \in Int /\ f.b.x \in Int /\ f.b.y \in Int
      /\ d.x \in Int /\ d.y \in Int
    BY DEF Segment, Point
<1>5. /\ MoveSegment(e, d).a.x = e.a.x + d.x /\ MoveSegment(e, d).a.y = e.a.y + d.y
      /\ MoveSegment(e, d).b.x = e.b.x + d.x /\ MoveSegment(e, d).b.y = e.b.y + d.y
      /\ MoveSegment(f, d).a.x = f.a.x + d.x /\ MoveSegment(f, d).a.y = f.a.y + d.y
      /\ MoveSegment(f, d).b.x = f.b.x + d.x /\ MoveSegment(f, d).b.y = f.b.y + d.y
    BY DEF MoveSegment, MovePoint
<1>6. sum(e.a.x + d.x, e.a.y + d.y, e.b.x + d.x, e.b.y + d.y,
          f.a.x + d.x, f.a.y + d.y, f.b.x + d.x, f.b.y + d.y)
         = sum(e.a.x, e.a.y, e.b.x, e.b.y, f.a.x, f.a.y, f.b.x, f.b.y)
    BY <1>4
<1>7. Winding(r, j, k) <=> sum(e.a.x + d.x, e.a.y + d.y, e.b.x + d.x, e.b.y + d.y,
                               f.a.x + d.x, f.a.y + d.y, f.b.x + d.x, f.b.y + d.y) > 0
    <2> HIDE DEF sum
    <2>1. QED
        BY <1>2, <1>3, <1>5
<1>8. Winding(s, j, k) <=> sum(e.a.x, e.a.y, e.b.x, e.b.y, f.a.x, f.a.y, f.b.x, f.b.y) > 0
    <2> HIDE DEF sum
    <2>1. QED
        BY <1>2, <1>3
<1> HIDE DEF sum
<1>9. QED
    BY <1>6, <1>7, <1>8

-----------------------------------------------------------------------------
(* The queries of a ring s and a segment e. *)

(* A series that is like a closed one is a ring. *)
LEMMA AlikeRing ==
    ASSUME NEW r, NEW s, NEW d \in Point, Alike(r, s, d), s.closed
    PROVE  IsRing(r) /\ IsRing(s)
    BY DEF Alike, IsRing

(* The segments of the ring that e crosses. *)
LEMMA AlikeCrossed ==
    ASSUME NEW r, NEW s, NEW d \in Point, Alike(r, s, d), NEW e \in Segment,
           NEW allow \in BOOLEAN, NEW j, NEW k
    PROVE  Uncrossed(r, MoveSegment(e, d), allow, j, k) <=> Uncrossed(s, e, allow, j, k)
<1> DEFINE f == MoveSegment(e, d)
<1>1. f.a = MovePoint(e.a, d) /\ f.b = MovePoint(e.b, d) /\ e.a \in Point /\ e.b \in Point
    BY MovedSegmentIs
<1>2. Found(r, SegmentRect(f)) = Found(s, SegmentRect(e))
    BY MovedSegmentRect, AlikeFound
<1>3. ASSUME NEW m \in Found(s, SegmentRect(e))
      PROVE  Crossed(r, f, allow, j, k, m) <=> Crossed(s, e, allow, j, k, m)
    <2>1. PICK e2 \in Segment, f2 \in Segment :
             e2 = SegmentAt(s, m) /\ f2 = SegmentAt(r, m) /\ f2 = MoveSegment(e2, d)
        BY AlikeEdges, MovedSegmentIs DEF Found
    <2>2. IntersectsSegment(f, f2) <=> IntersectsSegment(e, e2)
        BY <2>1, MovedIntersects
    <2>3. /\ f2.a = MovePoint(e2.a, d) /\ f2.b = MovePoint(e2.b, d)
          /\ e2.a \in Point /\ e2.b \in Point
        BY <2>1, MovedSegmentIs
    <2>4. /\ Raycast(f2, f.a).on <=> Raycast(e2, e.a).on
          /\ Raycast(f2, f.b).on <=> Raycast(e2, e.b).on
        BY <1>1, <2>1, MovedRaycast
    <2>5. /\ Raycast(f, f2.a).on <=> Raycast(e, e2.a).on
          /\ Raycast(f, f2.b).on <=> Raycast(e, e2.b).on
        BY <2>3, MovedRaycast
    <2> HIDE DEF f
    <2>6. QED
        BY <2>1, <2>2, <2>4, <2>5, Zenon DEF Crossed
<1> HIDE DEF f
<1>4. Uncrossed(r, f, allow, j, k) <=> Uncrossed(s, e, allow, j, k)
    BY <1>2, <1>3, Zenon DEF Uncrossed
<1>5. QED
    BY <1>4 DEF f

(* The walk from the edge of e.a to the edge of e.b. *)
LEMMA AlikeBetween ==
    ASSUME NEW r, NEW s, NEW d \in Point, Alike(r, s, d), NEW e \in Segment,
           NEW allow \in BOOLEAN, NEW j \in EdgesOf(s) \cup {-1}, NEW k \in EdgesOf(s) \cup {-1}
    PROVE  ContainsBetween(r, MoveSegment(e, d), allow, j, k)
              <=> ContainsBetween(s, e, allow, j, k)
<1> DEFINE f == MoveSegment(e, d)
           on == allow /\ j # -1 /\ k # -1
<1>1. f.a = MovePoint(e.a, d) /\ f.b = MovePoint(e.b, d) /\ e.a \in Point /\ e.b \in Point
    BY MovedSegmentIs
<1>2. Uncrossed(r, f, allow, j, k) <=> Uncrossed(s, e, allow, j, k)
    BY AlikeCrossed
<1>3. r.convex = s.convex /\ r.clockwise = s.clockwise
    BY DEF Alike
<1>4. on => (AtVertex(r, f, j, k) <=> AtVertex(s, e, j, k))
    <2> SUFFICES ASSUME on PROVE AtVertex(r, f, j, k) <=> AtVertex(s, e, j, k)
        OBVIOUS
    <2>1. \A m \in {j, k} : /\ SegmentAt(s, m) \in Segment
                           /\ SegmentAt(r, m) = MoveSegment(SegmentAt(s, m), d)
        BY AlikeEdges
    <2>2. \A m \in {j, k} : /\ IsEnd(SegmentAt(r, m), f.a) <=> IsEnd(SegmentAt(s, m), e.a)
                            /\ IsEnd(SegmentAt(r, m), f.b) <=> IsEnd(SegmentAt(s, m), e.b)
        BY <1>1, <2>1, MovedCollinear
    <2> HIDE DEF f
    <2>3. QED
        BY <2>2 DEF AtVertex
<1>5. on => (Winding(r, j, k) <=> Winding(s, j, k))
    BY AlikeWinding
<1>6. Winding(r, j, k) \in BOOLEAN /\ Winding(s, j, k) \in BOOLEAN
    BY DEF Winding
<1>7. on => (Winding(r, j, k) = r.clockwise <=> Winding(s, j, k) = s.clockwise)
    BY <1>3, <1>5, <1>6
<1>8. ContainsBetween(r, f, allow, j, k) <=>
         \/ r.convex
         \/ on /\ (j = k \/ AtVertex(r, f, j, k))
         \/ (on => Winding(r, j, k) = r.clockwise) /\ Uncrossed(r, f, allow, j, k)
    BY Zenon DEF ContainsBetween
<1>9. ContainsBetween(s, e, allow, j, k) <=>
         \/ s.convex
         \/ on /\ (j = k \/ AtVertex(s, e, j, k))
         \/ (on => Winding(s, j, k) = s.clockwise) /\ Uncrossed(s, e, allow, j, k)
    BY Zenon DEF ContainsBetween
<1> HIDE DEF f, on
<1>10. ContainsBetween(r, f, allow, j, k) <=> ContainsBetween(s, e, allow, j, k)
    BY <1>2, <1>3, <1>4, <1>7, <1>8, <1>9, Zenon
<1>11. QED
    BY <1>10 DEF f

(* ringContainsSegment. *)
LEMMA AlikeContainsSegment ==
    ASSUME NEW r, NEW s, NEW d \in Point, Alike(r, s, d), s.closed, NEW e \in Segment,
           NEW allow \in BOOLEAN
    PROVE  RingContainsSegment(r, MoveSegment(e, d), allow) <=> RingContainsSegment(s, e, allow)
<1> DEFINE f == MoveSegment(e, d)
           A == RingContainsPoint(s, e.a, allow)
           B == RingContainsPoint(s, e.b, allow)
<1>1. f.a = MovePoint(e.a, d) /\ f.b = MovePoint(e.b, d) /\ e.a \in Point /\ e.b \in Point
    BY MovedSegmentIs
<1>2. RingContainsPoint(r, f.a, allow) = A /\ RingContainsPoint(r, f.b, allow) = B
    BY <1>1, AlikeContainsPoint
<1>3. A.idx \in EdgesOf(s) \cup {-1} /\ B.idx \in EdgesOf(s) \cup {-1}
    BY <1>1, AlikeRing, HitIsEdge
<1>4. ContainsBetween(r, f, allow, A.idx, B.idx) <=> ContainsBetween(s, e, allow, A.idx, B.idx)
    <2> HIDE DEF A, B
    <2>1. QED
        BY <1>3, AlikeBetween
<1>5. f.b = f.a <=> e.b = e.a
    BY <1>1, MovedApart
<1>6. RingContainsSegment(s, e, allow) <=>
         A.hit /\ (e.b = e.a \/ (B.hit /\ ContainsBetween(s, e, allow, A.idx, B.idx)))
    BY Zenon DEF RingContainsSegment
<1> HIDE DEF f, A, B
<1>7. RingContainsSegment(r, f, allow) <=>
         A.hit /\ (f.b = f.a \/ (B.hit /\ ContainsBetween(r, f, allow, A.idx, B.idx)))
    BY <1>2, Zenon DEF RingContainsSegment
<1>8. RingContainsSegment(r, f, allow) <=> RingContainsSegment(s, e, allow)
    BY <1>4, <1>5, <1>6, <1>7, Zenon
<1>9. QED
    BY <1>8 DEF f

(* The segments ringIntersectsSegment counts. *)
LEMMA AlikePassed ==
    ASSUME NEW r, NEW s, NEW d \in Point, Alike(r, s, d), NEW e \in Segment,
           NEW allow \in BOOLEAN
    PROVE  CountReachesTwo(r, MoveSegment(e, d), allow) <=> CountReachesTwo(s, e, allow)
<1> DEFINE f == MoveSegment(e, d)
           P == PassedOver(s, e, allow)
<1>1. f.a = MovePoint(e.a, d) /\ f.b = MovePoint(e.b, d) /\ e.a \in Point /\ e.b \in Point
    BY MovedSegmentIs
<1>2. Found(r, SegmentRect(f)) = Found(s, SegmentRect(e))
    BY MovedSegmentRect, AlikeFound
<1>3. ASSUME NEW m \in Found(s, SegmentRect(e))
      PROVE  /\ IntersectsSegment(f, SegmentAt(r, m)) <=> IntersectsSegment(e, SegmentAt(s, m))
             /\ AlongEdge(f, SegmentAt(r, m)) <=> AlongEdge(e, SegmentAt(s, m))
             /\ IsEnd(SegmentAt(r, m), f.a) <=> IsEnd(SegmentAt(s, m), e.a)
             /\ IsEnd(SegmentAt(r, m), f.b) <=> IsEnd(SegmentAt(s, m), e.b)
    <2>1. PICK e2 \in Segment, f2 \in Segment :
             e2 = SegmentAt(s, m) /\ f2 = SegmentAt(r, m) /\ f2 = MoveSegment(e2, d)
        BY AlikeEdges, MovedSegmentIs DEF Found
    <2>2. /\ f2.a = MovePoint(e2.a, d) /\ f2.b = MovePoint(e2.b, d)
          /\ e2.a \in Point /\ e2.b \in Point
        BY <2>1, MovedSegmentIs
    <2>3. IntersectsSegment(f, f2) <=> IntersectsSegment(e, e2)
        BY <2>1, MovedIntersects
    <2>4. AlongEdge(f, f2) <=> AlongEdge(e, e2)
        BY <2>2, MovedCollinear DEF AlongEdge
    <2>5. /\ IsEnd(f2, f.a) <=> IsEnd(e2, e.a)
          /\ IsEnd(f2, f.b) <=> IsEnd(e2, e.b)
        BY <1>1, <2>1, MovedCollinear
    <2>6. QED
        BY <2>1, <2>3, <2>4, <2>5
<1> HIDE DEF f
<1>4. PassedOver(r, f, allow) = P /\ P \subseteq Found(s, SegmentRect(e))
    BY <1>2, <1>3 DEF PassedOver
<1> HIDE DEF P
<1>5. \A S \in SUBSET P :
         /\ {k \in S : IsEnd(SegmentAt(r, k), f.a)} = {k \in S : IsEnd(SegmentAt(s, k), e.a)}
         /\ {k \in S : IsEnd(SegmentAt(r, k), f.b)} = {k \in S : IsEnd(SegmentAt(s, k), e.b)}
    BY <1>3, <1>4
<1> DEFINE first(S) == IF allow \/ S = {} THEN {} ELSE {Min(S)}
           atA == first({k \in P : IsEnd(SegmentAt(s, k), e.a)})
           atB == first({k \in P \ atA : IsEnd(SegmentAt(s, k), e.b)})
<1>6. CountReachesTwo(s, e, allow) <=> Cardinality(P \ (atA \cup atB)) >= 2
    BY Zenon DEF CountReachesTwo, P
<1>7. CountReachesTwo(r, f, allow) <=>
         LET a == first({k \in P : IsEnd(SegmentAt(r, k), f.a)})
             b == first({k \in P \ a : IsEnd(SegmentAt(r, k), f.b)})
         IN  Cardinality(P \ (a \cup b)) >= 2
    BY <1>4, Zenon DEF CountReachesTwo
<1>8. {k \in P : IsEnd(SegmentAt(r, k), f.a)} = {k \in P : IsEnd(SegmentAt(s, k), e.a)}
    BY <1>5
<1>9. {k \in P \ atA : IsEnd(SegmentAt(r, k), f.b)} = {k \in P \ atA : IsEnd(SegmentAt(s, k), e.b)}
    <2>1. P \ atA \in SUBSET P
        BY Zenon
    <2> HIDE DEF atA
    <2>2. QED
        BY <1>5, <2>1, Zenon
<1>10. CountReachesTwo(r, f, allow) <=> Cardinality(P \ (atA \cup atB)) >= 2
    BY <1>7, <1>8, <1>9, Zenon
<1>11. CountReachesTwo(r, f, allow) <=> CountReachesTwo(s, e, allow)
    BY <1>6, <1>10, Zenon
<1>12. QED
    BY <1>11 DEF f

(* ringIntersectsSegment. *)
LEMMA AlikeIntersectsSegment ==
    ASSUME NEW r, NEW s, NEW d \in Point, Alike(r, s, d), NEW e \in Segment,
           NEW allow \in BOOLEAN
    PROVE  RingIntersectsSegment(r, MoveSegment(e, d), allow)
              <=> RingIntersectsSegment(s, e, allow)
<1> DEFINE f == MoveSegment(e, d)
<1>1. f.a = MovePoint(e.a, d) /\ f.b = MovePoint(e.b, d) /\ e.a \in Point /\ e.b \in Point
    BY MovedSegmentIs
<1>2. /\ RingContainsPoint(r, f.a, allow) = RingContainsPoint(s, e.a, allow)
      /\ RingContainsPoint(r, f.b, allow) = RingContainsPoint(s, e.b, allow)
    BY <1>1, AlikeContainsPoint
<1>3. CountReachesTwo(r, f, allow) <=> CountReachesTwo(s, e, allow)
    BY AlikePassed
<1> HIDE DEF f
<1>4. RingIntersectsSegment(r, f, allow) <=> RingIntersectsSegment(s, e, allow)
    BY <1>2, <1>3, Zenon DEF RingIntersectsSegment
<1>5. QED
    BY <1>4 DEF f

-----------------------------------------------------------------------------
(* The queries of a ring s and a series t. *)

(* A Rect as a ring. *)
LEMMA AlikeRectRing ==
    ASSUME NEW rect \in Rect, NEW d \in Point
    PROVE  /\ Alike(RectRing(MoveRect(rect, d)), RectRing(rect), d)
           /\ RectRing(rect).closed /\ ~ Empty(RectRing(rect)) /\ IsRing(RectRing(rect))
           /\ RectRing(rect).rect = rect
<1> DEFINE s == RectRing(rect)
           r == RectRing(MoveRect(rect, d))
<1>1. /\ rect.min \in Point /\ rect.max \in Point
      /\ MoveRect(rect, d).min = MovePoint(rect.min, d)
      /\ MoveRect(rect, d).max = MovePoint(rect.max, d)
    BY DEF Rect, MoveRect
<1>2. ASSUME NEW q \in Rect
      PROVE  /\ RectRing(q).points \in Seq(Point) /\ Len(RectRing(q).points) = 5
             /\ RectRing(q).points[1] = q.min
             /\ RectRing(q).points[2] = [x |-> q.max.x, y |-> q.min.y]
             /\ RectRing(q).points[3] = q.max
             /\ RectRing(q).points[4] = [x |-> q.min.x, y |-> q.max.y]
             /\ RectRing(q).points[5] = q.min
             /\ RectRing(q).closed = TRUE /\ RectRing(q).convex = TRUE
             /\ RectRing(q).clockwise = FALSE /\ RectRing(q).rect = q
    BY DEF RectRing, Rect, Point
<1>3. MoveRect(rect, d) \in Rect
    BY MovedRects
<1>4. ~ Empty(s)
    <2>1. Len(s.points) = 5
        BY <1>2, Zenon
    <2> HIDE DEF s
    <2>2. QED
        BY <2>1 DEF Empty
<1>5. \A k \in 1 .. 5 : r.points[k] = MovePoint(s.points[k], d)
    <2>1. \A p, q \in Point : MovePoint([x |-> p.x, y |-> q.y], d)
                                = [x |-> MovePoint(p, d).x, y |-> MovePoint(q, d).y]
        BY DEF MovePoint
    <2>2. /\ s.points[1] = rect.min /\ s.points[3] = rect.max /\ s.points[5] = rect.min
          /\ s.points[2] = [x |-> rect.max.x, y |-> rect.min.y]
          /\ s.points[4] = [x |-> rect.min.x, y |-> rect.max.y]
        BY <1>2, Zenon
    <2> DEFINE q == MoveRect(rect, d)
    <2>3. /\ r.points[1] = q.min /\ r.points[3] = q.max /\ r.points[5] = q.min
          /\ r.points[2] = [x |-> q.max.x, y |-> q.min.y]
          /\ r.points[4] = [x |-> q.min.x, y |-> q.max.y]
        BY <1>2, <1>3, Zenon
    <2> HIDE DEF r, s
    <2>4. /\ r.points[1] = MovePoint(s.points[1], d) /\ r.points[3] = MovePoint(s.points[3], d)
          /\ r.points[5] = MovePoint(s.points[5], d)
        BY <1>1, <2>2, <2>3
    <2>5. r.points[2] = MovePoint(s.points[2], d) /\ r.points[4] = MovePoint(s.points[4], d)
        BY <1>1, <2>1, <2>2, <2>3
    <2>6. QED
        BY <2>4, <2>5
<1>6. Alike(r, s, d)
    <2>1. Len(s.points) = 5 /\ s.rect = rect
        BY <1>2
    <2>2. QED
        BY <1>2, <1>3, <1>5, <2>1 DEF Alike
<1>7. QED
    BY <1>2, <1>4, <1>6 DEF IsRing

(* Every point, or every segment, of t is in the ring. *)
LEMMA AlikeContainsSeries ==
    ASSUME NEW d \in Point, NEW r, NEW s, Alike(r, s, d), s.closed, ~ Empty(s),
           NEW u, NEW t, Alike(u, t, d), ~ Empty(t), NEW allow \in BOOLEAN
    PROVE  ContainsSeries(r, u, allow) <=> ContainsSeries(s, t, allow)
<1>1. RectContainsRect(r.rect, u.rect) <=> RectContainsRect(s.rect, t.rect)
    BY MovedRects DEF Alike
<1>2. r.convex = s.convex
    BY DEF Alike
<1>3. (\A p \in PointsOf(u) : RingContainsPoint(r, p, allow).hit)
         <=> \A p \in PointsOf(t) : RingContainsPoint(s, p, allow).hit
    <2>1. \A p \in PointsOf(t) :
             RingContainsPoint(r, MovePoint(p, d), allow) = RingContainsPoint(s, p, allow)
        BY AlikeParts, AlikeContainsPoint
    <2>2. PointsOf(u) = {MovePoint(p, d) : p \in PointsOf(t)}
        BY AlikeParts
    <2>3. QED
        BY <2>1, <2>2
<1>4. (\A e \in SegmentsOf(u) : RingContainsSegment(r, e, allow))
         <=> \A e \in SegmentsOf(t) : RingContainsSegment(s, e, allow)
    <2>1. \A e \in SegmentsOf(t) :
             RingContainsSegment(r, MoveSegment(e, d), allow) <=> RingContainsSegment(s, e, allow)
        BY AlikeParts, AlikeContainsSegment
    <2>2. SegmentsOf(u) = {MoveSegment(e, d) : e \in SegmentsOf(t)}
        BY AlikeParts
    <2>3. QED
        BY <2>1, <2>2
<1>5. QED
    BY <1>1, <1>2, <1>3, <1>4, Zenon DEF ContainsSeries

(* ringContainsRing and ringContainsLine. *)
LEMMA AlikeContainsRing ==
    ASSUME NEW d \in Point, NEW r, NEW s, Alike(r, s, d), s.closed,
           NEW u, NEW t, Alike(u, t, d), NEW allow \in BOOLEAN
    PROVE  /\ RingContainsRing(r, u, allow) <=> RingContainsRing(s, t, allow)
           /\ RingContainsLine(r, u, allow) <=> RingContainsLine(s, t, allow)
<1>1. /\ Empty(r) <=> Empty(s)
      /\ Empty(u) <=> Empty(t)
    BY AlikeEdges
<1>2. CASE Empty(s) \/ Empty(t)
    BY <1>1, <1>2 DEF RingContainsRing, RingContainsLine
<1>3. CASE ~ Empty(s) /\ ~ Empty(t)
    <2>1. ContainsSeries(r, u, allow) <=> ContainsSeries(s, t, allow)
        BY <1>3, AlikeContainsSeries
    <2>2. t.rect \in Rect /\ u.rect = MoveRect(t.rect, d) /\ Len(u.points) = Len(t.points)
        BY <1>3 DEF Alike
    <2>3. ContainsSeries(r, RectRing(u.rect), allow) <=> ContainsSeries(s, RectRing(t.rect), allow)
        BY <1>3, <2>2, AlikeRectRing, AlikeContainsSeries
    <2>4. RingContainsRing(r, u, allow) <=> RingContainsRing(s, t, allow)
        BY <1>1, <1>3, <2>1, <2>2, <2>3, Zenon DEF RingContainsRing
    <2>5. QED
        BY <2>4 DEF RingContainsLine
<1>4. QED
    BY <1>2, <1>3

(* A segment of t meets the ring. *)
LEMMA AlikeSomeSegment ==
    ASSUME NEW d \in Point, NEW r, NEW s, Alike(r, s, d),
           NEW u, NEW t, Alike(u, t, d), NEW allow \in BOOLEAN
    PROVE  (\E e \in SegmentsOf(u) : RingIntersectsSegment(r, e, allow))
              <=> \E e \in SegmentsOf(t) : RingIntersectsSegment(s, e, allow)
<1>1. \A e \in SegmentsOf(t) :
         RingIntersectsSegment(r, MoveSegment(e, d), allow) <=> RingIntersectsSegment(s, e, allow)
    BY AlikeParts, AlikeIntersectsSegment
<1>2. SegmentsOf(u) = {MoveSegment(e, d) : e \in SegmentsOf(t)}
    BY AlikeParts
<1>3. QED
    BY <1>1, <1>2

(* ringIntersectsRing. *)
LEMMA AlikeIntersectsRing ==
    ASSUME NEW d \in Point, NEW r, NEW s, Alike(r, s, d),
           NEW u, NEW t, Alike(u, t, d), NEW allow \in BOOLEAN
    PROVE  RingIntersectsRing(r, u, allow) <=> RingIntersectsRing(s, t, allow)
<1>1. /\ Empty(r) <=> Empty(s)
      /\ Empty(u) <=> Empty(t)
    BY AlikeEdges
<1>2. CASE Empty(s) \/ Empty(t)
    BY <1>1, <1>2 DEF RingIntersectsRing
<1>3. CASE ~ Empty(s) /\ ~ Empty(t)
    <2>1. RectIntersectsRect(r.rect, u.rect) <=> RectIntersectsRect(s.rect, t.rect)
        BY <1>3, MovedRects DEF Alike
    <2>2. Area(u.rect) = Area(t.rect) /\ Area(r.rect) = Area(s.rect)
        BY <1>3, MovedRects DEF Alike
    <2>3. CASE Area(t.rect) > Area(s.rect)
        <3>1. (\E e \in SegmentsOf(r) : RingIntersectsSegment(u, e, allow))
                 <=> \E e \in SegmentsOf(s) : RingIntersectsSegment(t, e, allow)
            BY AlikeSomeSegment
        <3>2. RingIntersectsRing(s, t, allow) <=>
                 /\ RectIntersectsRect(s.rect, t.rect)
                 /\ \E e \in SegmentsOf(s) : RingIntersectsSegment(t, e, allow)
            BY <1>3, <2>3, Zenon DEF RingIntersectsRing
        <3>3. RingIntersectsRing(r, u, allow) <=>
                 /\ RectIntersectsRect(r.rect, u.rect)
                 /\ \E e \in SegmentsOf(r) : RingIntersectsSegment(u, e, allow)
            BY <1>1, <1>3, <2>2, <2>3, Zenon DEF RingIntersectsRing
        <3>4. QED
            BY <2>1, <3>1, <3>2, <3>3, Zenon
    <2>4. CASE ~ (Area(t.rect) > Area(s.rect))
        <3>1. (\E e \in SegmentsOf(u) : RingIntersectsSegment(r, e, allow))
                 <=> \E e \in SegmentsOf(t) : RingIntersectsSegment(s, e, allow)
            BY AlikeSomeSegment
        <3>2. RingIntersectsRing(s, t, allow) <=>
                 /\ RectIntersectsRect(s.rect, t.rect)
                 /\ \E e \in SegmentsOf(t) : RingIntersectsSegment(s, e, allow)
            BY <1>3, <2>4, Zenon DEF RingIntersectsRing
        <3>3. RingIntersectsRing(r, u, allow) <=>
                 /\ RectIntersectsRect(r.rect, u.rect)
                 /\ \E e \in SegmentsOf(u) : RingIntersectsSegment(r, e, allow)
            BY <1>1, <1>3, <2>2, <2>4, Zenon DEF RingIntersectsRing
        <3>4. QED
            BY <2>1, <3>1, <3>2, <3>3, Zenon
    <2>5. QED
        BY <2>3, <2>4
<1>4. QED
    BY <1>2, <1>3

(* ringIntersectsLine. *)
LEMMA AlikeIntersectsLine ==
    ASSUME NEW d \in Point, NEW r, NEW s, Alike(r, s, d),
           NEW u, NEW t, Alike(u, t, d), NEW allow \in BOOLEAN
    PROVE  RingIntersectsLine(r, u, allow) <=> RingIntersectsLine(s, t, allow)
<1>1. /\ Empty(r) <=> Empty(s)
      /\ Empty(u) <=> Empty(t)
    BY AlikeEdges
<1>2. CASE Empty(s) \/ Empty(t)
    BY <1>1, <1>2 DEF RingIntersectsLine
<1>3. CASE ~ Empty(s) /\ ~ Empty(t)
    <2>1. RectIntersectsRect(r.rect, u.rect) <=> RectIntersectsRect(s.rect, t.rect)
        BY <1>3, MovedRects DEF Alike
    <2>2. (\E p \in PointsOf(u) : RingContainsPoint(r, p, allow).hit)
             <=> \E p \in PointsOf(t) : RingContainsPoint(s, p, allow).hit
        <3>1. \A p \in PointsOf(t) :
                 RingContainsPoint(r, MovePoint(p, d), allow) = RingContainsPoint(s, p, allow)
            BY AlikeParts, AlikeContainsPoint
        <3>2. PointsOf(u) = {MovePoint(p, d) : p \in PointsOf(t)}
            BY AlikeParts
        <3>3. QED
            BY <3>1, <3>2
    <2>3. (\E e \in SegmentsOf(u) : RingIntersectsSegment(r, e, allow))
             <=> \E e \in SegmentsOf(t) : RingIntersectsSegment(s, e, allow)
        BY AlikeSomeSegment
    <2>4. QED
        BY <1>1, <2>1, <2>2, <2>3, Zenon DEF RingIntersectsLine
<1>4. QED
    BY <1>2, <1>3

-----------------------------------------------------------------------------
(* The queries of the Geometry interface. *)

(* g is the geometry of, moved by d. *)
Same(g, of, d) ==
    /\ g.kind = of.kind /\ of.kind \in {"point", "rect", "line", "poly"}
    /\ of.kind = "point" => of.point \in Point /\ g.point = MovePoint(of.point, d)
    /\ of.kind = "rect" => of.rect \in Rect /\ g.rect = MoveRect(of.rect, d)
    /\ of.kind = "line" => Alike(g.line, of.line, d)
    /\ of.kind = "poly" => /\ Alike(g.exterior, of.exterior, d) /\ of.exterior.closed
                           /\ DOMAIN g.holes = DOMAIN of.holes
                           /\ \A k \in DOMAIN of.holes : /\ Alike(g.holes[k], of.holes[k], d)
                                                         /\ of.holes[k].closed

(* A Rect as a polygon. *)
LEMMA SameRectPoly ==
    ASSUME NEW rect \in Rect, NEW d \in Point
    PROVE  Same(RectPoly(MoveRect(rect, d)), RectPoly(rect), d) /\ RectPoly(rect).kind = "poly"
<1>1. \A q : /\ RectPoly(q).kind = "poly" /\ RectPoly(q).exterior = RectRing(q)
             /\ RectPoly(q).holes = << >>
    BY DEF RectPoly
<1>2. QED
    BY <1>1, AlikeRectRing DEF Same

(* A geometry of kind rect, taken for a polygon. *)
LEMMA SameAsPoly ==
    ASSUME NEW d \in Point, NEW h, NEW was, Same(h, was, d), was.kind = "rect"
    PROVE  /\ Same(RectPoly(h.rect), RectPoly(was.rect), d)
           /\ RectPoly(was.rect).kind = "poly"
<1>1. was.rect \in Rect /\ h.rect = MoveRect(was.rect, d)
    BY DEF Same
<1>2. QED
    BY <1>1, SameRectPoly

(* Geometries that are alike are empty together and have the same          *)
(* rectangle, moved.                                                       *)
LEMMA SameRect ==
    ASSUME NEW d \in Point, NEW g, NEW of, Same(g, of, d)
    PROVE  /\ EmptyGeometry(g) <=> EmptyGeometry(of)
           /\ ~ EmptyGeometry(of) => RectOf(of) \in Rect /\ RectOf(g) = MoveRect(RectOf(of), d)
<1>1. g.kind = of.kind /\ of.kind \in {"point", "rect", "line", "poly"}
    BY DEF Same
<1>2. CASE of.kind = "point"
    <2>1. ~ EmptyGeometry(g) /\ ~ EmptyGeometry(of)
        BY <1>1, <1>2 DEF EmptyGeometry
    <2>2. RectOf(g) = PointRect(g.point) /\ RectOf(of) = PointRect(of.point)
        BY <1>1, <1>2 DEF RectOf
    <2>3. QED
        BY <1>2, <2>1, <2>2, MovedPointRect DEF Same
<1>3. CASE of.kind = "rect"
    <2>1. ~ EmptyGeometry(g) /\ ~ EmptyGeometry(of)
        BY <1>1, <1>3 DEF EmptyGeometry
    <2>2. RectOf(g) = g.rect /\ RectOf(of) = of.rect
        BY <1>1, <1>3 DEF RectOf
    <2>3. QED
        BY <1>3, <2>1, <2>2 DEF Same
<1>4. CASE of.kind = "line"
    <2>1. (EmptyGeometry(g) <=> Empty(g.line)) /\ (EmptyGeometry(of) <=> Empty(of.line))
        BY <1>1, <1>4 DEF EmptyGeometry
    <2>2. RectOf(g) = g.line.rect /\ RectOf(of) = of.line.rect
        BY <1>1, <1>4 DEF RectOf
    <2>3. Alike(g.line, of.line, d)
        BY <1>4 DEF Same
    <2>4. Empty(g.line) <=> Empty(of.line)
        BY <2>3, AlikeEdges
    <2>5. QED
        BY <2>1, <2>2, <2>3, <2>4 DEF Alike
<1>5. CASE of.kind = "poly"
    <2>1. (EmptyGeometry(g) <=> Empty(g.exterior)) /\ (EmptyGeometry(of) <=> Empty(of.exterior))
        BY <1>1, <1>5 DEF EmptyGeometry
    <2>2. RectOf(g) = g.exterior.rect /\ RectOf(of) = of.exterior.rect
        BY <1>1, <1>5 DEF RectOf
    <2>3. Alike(g.exterior, of.exterior, d)
        BY <1>5 DEF Same
    <2>4. Empty(g.exterior) <=> Empty(of.exterior)
        BY <2>3, AlikeEdges
    <2>5. QED
        BY <2>1, <2>2, <2>3, <2>4 DEF Alike
<1>6. QED
    BY <1>1, <1>2, <1>3, <1>4, <1>5

(* What all holes, or some hole, of two polygons that are alike say. *)
LEMMA SameHoles ==
    ASSUME NEW d \in Point, NEW g, NEW of, Same(g, of, d), of.kind = "poly"
    PROVE  /\ \A hole \in HolesOf(g) : \E was \in HolesOf(of) : Alike(hole, was, d) /\ was.closed
           /\ \A was \in HolesOf(of) : \E hole \in HolesOf(g) : Alike(hole, was, d) /\ was.closed
    BY DEF Same, HolesOf

(* Poly.ContainsPoint. *)
LEMMA SamePolyPoint ==
    ASSUME NEW d \in Point, NEW g, NEW of, Same(g, of, d), of.kind = "poly", NEW p \in Point
    PROVE  PolyContainsPoint(g, MovePoint(p, d)) <=> PolyContainsPoint(of, p)
<1> DEFINE q == MovePoint(p, d)
           in == {k \in DOMAIN of.holes : RingContainsPoint(of.holes[k], p, FALSE).hit}
<1>0. \A r, s : \A allow \in BOOLEAN :
         Alike(r, s, d) => RingContainsPoint(r, q, allow) = RingContainsPoint(s, p, allow)
    BY AlikeContainsPoint
<1>1. RingContainsPoint(g.exterior, q, TRUE) = RingContainsPoint(of.exterior, p, TRUE)
    <2>1. Alike(g.exterior, of.exterior, d) /\ TRUE \in BOOLEAN
        BY DEF Same
    <2>2. QED
        BY <1>0, <2>1, Zenon
<1>2. \A k \in DOMAIN of.holes :
         RingContainsPoint(g.holes[k], q, FALSE) = RingContainsPoint(of.holes[k], p, FALSE)
    <2>1. (\A k \in DOMAIN of.holes : Alike(g.holes[k], of.holes[k], d)) /\ FALSE \in BOOLEAN
        BY DEF Same
    <2>2. QED
        BY <1>0, <2>1, Zenon
<1>3. DOMAIN g.holes = DOMAIN of.holes
    BY DEF Same
<1> HIDE DEF q
<1>4. {k \in DOMAIN g.holes : RingContainsPoint(g.holes[k], q, FALSE).hit} = in
    BY <1>2, <1>3
<1>5. PolyContainsPointEx(g, q) = PolyContainsPointEx(of, p)
    BY <1>1, <1>4, Zenon DEF PolyContainsPointEx
<1>6. QED
    BY <1>5 DEF PolyContainsPoint, q

(* Poly.ContainsLine and Poly.IntersectsLine. *)
LEMMA SamePolyLine ==
    ASSUME NEW d \in Point, NEW g, NEW of, Same(g, of, d), of.kind = "poly",
           NEW u, NEW t, Alike(u, t, d)
    PROVE  /\ PolyContainsLine(g, u) <=> PolyContainsLine(of, t)
           /\ PolyIntersectsLine(g, u) <=> PolyIntersectsLine(of, t)
<1>0. /\ \A hole \in HolesOf(g) : \E old \in HolesOf(of) : Alike(hole, old, d) /\ old.closed
      /\ \A old \in HolesOf(of) : \E hole \in HolesOf(g) : Alike(hole, old, d) /\ old.closed
    BY SameHoles, Zenon
<1>1. /\ RingContainsLine(g.exterior, u, TRUE) <=> RingContainsLine(of.exterior, t, TRUE)
      /\ RingIntersectsLine(g.exterior, u, TRUE) <=> RingIntersectsLine(of.exterior, t, TRUE)
    <2>1. Alike(g.exterior, of.exterior, d) /\ of.exterior.closed
        BY DEF Same
    <2>2. RingContainsLine(g.exterior, u, TRUE) <=> RingContainsLine(of.exterior, t, TRUE)
        BY <2>1, AlikeContainsRing
    <2>3. RingIntersectsLine(g.exterior, u, TRUE) <=> RingIntersectsLine(of.exterior, t, TRUE)
        BY <2>1, AlikeIntersectsLine
    <2>4. QED
        BY <2>2, <2>3
<1>2. ASSUME NEW hole, NEW was, Alike(hole, was, d), was.closed
      PROVE  /\ RingContainsLine(hole, u, FALSE) <=> RingContainsLine(was, t, FALSE)
             /\ RingIntersectsLine(hole, u, FALSE) <=> RingIntersectsLine(was, t, FALSE)
    BY <1>2, AlikeContainsRing, AlikeIntersectsLine
<1>3. (\A hole \in HolesOf(g) : ~ RingContainsLine(hole, u, FALSE))
         <=> \A hole \in HolesOf(of) : ~ RingContainsLine(hole, t, FALSE)
    BY <1>0, <1>2, Zenon
<1>4. (\A hole \in HolesOf(g) : ~ RingIntersectsLine(hole, u, FALSE))
         <=> \A hole \in HolesOf(of) : ~ RingIntersectsLine(hole, t, FALSE)
    BY <1>0, <1>2, Zenon
<1>5. QED
    BY <1>1, <1>3, <1>4, Zenon DEF PolyContainsLine, PolyIntersectsLine

(* Poly.ContainsPoly and Poly.IntersectsPoly. *)
LEMMA SamePolyPoly ==
    ASSUME NEW d \in Point, NEW g, NEW of, Same(g, of, d), of.kind = "poly",
           NEW h, NEW was, Same(h, was, d), was.kind = "poly"
    PROVE  /\ PolyContainsPoly(g, h) <=> PolyContainsPoly(of, was)
           /\ PolyIntersectsPoly(g, h) <=> PolyIntersectsPoly(of, was)
<1>0. /\ \A hole \in HolesOf(g) : \E old \in HolesOf(of) : Alike(hole, old, d) /\ old.closed
      /\ \A old \in HolesOf(of) : \E hole \in HolesOf(g) : Alike(hole, old, d) /\ old.closed
      /\ \A hole \in HolesOf(h) : \E old \in HolesOf(was) : Alike(hole, old, d) /\ old.closed
      /\ \A old \in HolesOf(was) : \E hole \in HolesOf(h) : Alike(hole, old, d) /\ old.closed
    BY SameHoles, Zenon
<1>1. /\ Alike(g.exterior, of.exterior, d) /\ of.exterior.closed
      /\ Alike(h.exterior, was.exterior, d) /\ was.exterior.closed
    BY DEF Same
<1>2. /\ RingContainsRing(g.exterior, h.exterior, TRUE)
            <=> RingContainsRing(of.exterior, was.exterior, TRUE)
      /\ RingIntersectsRing(h.exterior, g.exterior, TRUE)
            <=> RingIntersectsRing(was.exterior, of.exterior, TRUE)
    <2>1. RingContainsRing(g.exterior, h.exterior, TRUE)
             <=> RingContainsRing(of.exterior, was.exterior, TRUE)
        BY <1>1, AlikeContainsRing
    <2>2. RingIntersectsRing(h.exterior, g.exterior, TRUE)
             <=> RingIntersectsRing(was.exterior, of.exterior, TRUE)
        BY <1>1, AlikeIntersectsRing
    <2>3. QED
        BY <2>1, <2>2
<1>3. ASSUME NEW hole, NEW old, Alike(hole, old, d), old.closed
      PROVE  /\ RingIntersectsRing(hole, h.exterior, FALSE)
                   <=> RingIntersectsRing(old, was.exterior, FALSE)
             /\ RingContainsRing(hole, h.exterior, FALSE)
                   <=> RingContainsRing(old, was.exterior, FALSE)
             /\ RingContainsRing(hole, g.exterior, FALSE)
                   <=> RingContainsRing(old, of.exterior, FALSE)
             /\ (\E other \in HolesOf(h) : RingContainsRing(other, hole, TRUE))
                   <=> \E other \in HolesOf(was) : RingContainsRing(other, old, TRUE)
    <2>1. /\ RingIntersectsRing(hole, h.exterior, FALSE)
                <=> RingIntersectsRing(old, was.exterior, FALSE)
          /\ RingContainsRing(hole, h.exterior, FALSE)
                <=> RingContainsRing(old, was.exterior, FALSE)
          /\ RingContainsRing(hole, g.exterior, FALSE)
                <=> RingContainsRing(old, of.exterior, FALSE)
        BY <1>1, <1>3, AlikeContainsRing, AlikeIntersectsRing
    <2>2. ASSUME NEW other, NEW its, Alike(other, its, d), its.closed
          PROVE  RingContainsRing(other, hole, TRUE) <=> RingContainsRing(its, old, TRUE)
        BY <1>3, <2>2, AlikeContainsRing
    <2>3. (\E other \in HolesOf(h) : RingContainsRing(other, hole, TRUE))
             <=> \E other \in HolesOf(was) : RingContainsRing(other, old, TRUE)
        BY <1>0, <2>2, Zenon
    <2>4. QED
        BY <2>1, <2>3
<1>4. (\A hole \in HolesOf(g) :
          RingIntersectsRing(hole, h.exterior, FALSE) =>
              \E other \in HolesOf(h) : RingContainsRing(other, hole, TRUE))
      <=> \A hole \in HolesOf(of) :
             RingIntersectsRing(hole, was.exterior, FALSE) =>
                 \E other \in HolesOf(was) : RingContainsRing(other, hole, TRUE)
    BY <1>0, <1>3, Zenon
<1>5. (\A hole \in HolesOf(g) : ~ RingContainsRing(hole, h.exterior, FALSE))
         <=> \A hole \in HolesOf(of) : ~ RingContainsRing(hole, was.exterior, FALSE)
    <2>1. \A hole, old : Alike(hole, old, d) /\ old.closed =>
             (RingContainsRing(hole, h.exterior, FALSE)
                 <=> RingContainsRing(old, was.exterior, FALSE))
        BY <1>3
    <2>2. /\ \A hole \in HolesOf(g) : \E old \in HolesOf(of) : Alike(hole, old, d) /\ old.closed
          /\ \A old \in HolesOf(of) : \E hole \in HolesOf(g) : Alike(hole, old, d) /\ old.closed
        BY <1>0, Zenon
    <2>3. QED
        BY <2>1, <2>2, Zenon
<1>6. (\A hole \in HolesOf(h) : ~ RingContainsRing(hole, g.exterior, FALSE))
         <=> \A hole \in HolesOf(was) : ~ RingContainsRing(hole, of.exterior, FALSE)
    <2>1. \A hole, old : Alike(hole, old, d) /\ old.closed =>
             (RingContainsRing(hole, g.exterior, FALSE)
                 <=> RingContainsRing(old, of.exterior, FALSE))
        BY <1>3
    <2>2. /\ \A hole \in HolesOf(h) : \E old \in HolesOf(was) : Alike(hole, old, d) /\ old.closed
          /\ \A old \in HolesOf(was) : \E hole \in HolesOf(h) : Alike(hole, old, d) /\ old.closed
        BY <1>0, Zenon
    <2>3. QED
        BY <2>1, <2>2, Zenon
<1>7. PolyContainsPoly(g, h) <=> PolyContainsPoly(of, was)
    BY <1>2, <1>4, Zenon DEF PolyContainsPoly
<1>8. PolyIntersectsPoly(g, h) <=> PolyIntersectsPoly(of, was)
    BY <1>2, <1>5, <1>6, Zenon DEF PolyIntersectsPoly
<1>9. QED
    BY <1>7, <1>8

(* Line.ContainsPoint. *)
LEMMA SameLinePoint ==
    ASSUME NEW d \in Point, NEW u, NEW t, Alike(u, t, d), NEW p \in Point
    PROVE  LineContainsPoint(u, MovePoint(p, d)) <=> LineContainsPoint(t, p)
<1> DEFINE q == MovePoint(p, d)
<1>1. Found(u, PointRect(q)) = Found(t, PointRect(p))
    <2>1. PointRect(p) \in Rect /\ PointRect(q) = MoveRect(PointRect(p), d)
        BY MovedPointRect
    <2> HIDE DEF q
    <2>2. QED
        BY <2>1, AlikeFound
<1>2. \A k \in Found(t, PointRect(p)) :
         Raycast(SegmentAt(u, k), q).on <=> Raycast(SegmentAt(t, k), p).on
    BY AlikeEdges, MovedRaycast DEF Found
<1> HIDE DEF q
<1>3. LineContainsPoint(u, q) <=> LineContainsPoint(t, p)
    BY <1>1, <1>2, Zenon DEF LineContainsPoint
<1>4. QED
    BY <1>3 DEF q

(* Line.ContainsPoly. *)
LEMMA SameLinePoly ==
    ASSUME NEW d \in Point, NEW u, NEW t, Alike(u, t, d),
           NEW h, NEW was, Same(h, was, d), was.kind = "poly"
    PROVE  LineContainsPoly(u, h) <=> LineContainsPoly(t, was)
<1>1. Alike(h.exterior, was.exterior, d)
    BY DEF Same
<1>2. /\ Empty(u) <=> Empty(t)
      /\ Empty(h.exterior) <=> Empty(was.exterior)
    BY <1>1, AlikeEdges
<1>3. CASE Empty(was.exterior)
    BY <1>2, <1>3, Zenon DEF LineContainsPoly
<1>4. CASE ~ Empty(was.exterior)
    <2>1. PICK rect \in Rect : rect = was.exterior.rect /\ h.exterior.rect = MoveRect(rect, d)
        BY <1>1, <1>4 DEF Alike
    <2> DEFINE q == MoveRect(rect, d)
               e == [a |-> rect.min, b |-> rect.max]
               f == [a |-> q.min, b |-> q.max]
    <2>2. /\ rect.min \in Point /\ rect.max \in Point /\ e \in Segment
          /\ q.min = MovePoint(rect.min, d) /\ q.max = MovePoint(rect.max, d)
        BY DEF Rect, Segment, MoveRect
    <2>3. /\ q.min.x = q.max.x <=> rect.min.x = rect.max.x
          /\ q.min.y = q.max.y <=> rect.min.y = rect.max.y
        BY DEF Rect, Point, MoveRect, MovePoint
    <2>4. /\ e.a = rect.min /\ e.b = rect.max
          /\ f.a = MovePoint(e.a, d) /\ f.b = MovePoint(e.b, d)
        BY <2>2
    <2> HIDE DEF e, f, q
    <2>5. \A s \in Segment : ContainsSegment(MoveSegment(s, d), f) <=> ContainsSegment(s, e)
        BY <2>2, <2>4, MovedRaycast DEF ContainsSegment
    <2>6. (\E s \in SegmentsOf(u) : ContainsSegment(s, f))
             <=> \E s \in SegmentsOf(t) : ContainsSegment(s, e)
        <3>1. /\ SegmentsOf(t) \subseteq Segment
              /\ SegmentsOf(u) = {MoveSegment(s, d) : s \in SegmentsOf(t)}
            BY AlikeParts
        <3>2. QED
            BY <2>5, <3>1
    <2>7. LineContainsPoly(t, was) <=>
             /\ ~ Empty(t) /\ ~ Empty(was.exterior)
             /\ rect.min.x = rect.max.x \/ rect.min.y = rect.max.y
             /\ \E s \in SegmentsOf(t) : ContainsSegment(s, e)
        BY <2>1, Zenon DEF LineContainsPoly, e
    <2>8. LineContainsPoly(u, h) <=>
             /\ ~ Empty(u) /\ ~ Empty(h.exterior)
             /\ q.min.x = q.max.x \/ q.min.y = q.max.y
             /\ \E s \in SegmentsOf(u) : ContainsSegment(s, f)
        BY <2>1, Zenon DEF LineContainsPoly, f, q
    <2>9. QED
        BY <1>2, <2>3, <2>6, <2>7, <2>8, Zenon
<1>5. QED
    BY <1>3, <1>4

(* The segments of one line that are looked for in the other one. *)
LEMMA SameSomeSegment ==
    ASSUME NEW d \in Point, NEW u, NEW t, Alike(u, t, d), NEW v, NEW w, Alike(v, w, d)
    PROVE  (\E s \in SegmentsOf(u) : \E k \in Found(v, SegmentRect(s)) :
               IntersectsSegment(s, SegmentAt(v, k)))
           <=> \E s \in SegmentsOf(t) : \E k \in Found(w, SegmentRect(s)) :
                  IntersectsSegment(s, SegmentAt(w, k))
<1> DEFINE hits(x, s) == \E k \in Found(x, SegmentRect(s)) : IntersectsSegment(s, SegmentAt(x, k))
<1>1. ASSUME NEW s \in Segment
      PROVE  hits(v, MoveSegment(s, d)) <=> hits(w, s)
    <2>1. Found(v, SegmentRect(MoveSegment(s, d))) = Found(w, SegmentRect(s))
        BY MovedSegmentRect, AlikeFound
    <2>2. \A k \in Found(w, SegmentRect(s)) :
             IntersectsSegment(MoveSegment(s, d), SegmentAt(v, k))
                <=> IntersectsSegment(s, SegmentAt(w, k))
        BY AlikeEdges, MovedIntersects DEF Found
    <2>3. QED
        BY <2>1, <2>2, Zenon
<1>2. SegmentsOf(t) \subseteq Segment /\ SegmentsOf(u) = {MoveSegment(s, d) : s \in SegmentsOf(t)}
    BY AlikeParts
<1> HIDE DEF hits
<1>3. (\E s \in SegmentsOf(u) : hits(v, s)) <=> \E s \in SegmentsOf(t) : hits(w, s)
    BY <1>1, <1>2
<1>4. QED
    BY <1>3, Zenon DEF hits

(* Line.IntersectsLine. *)
LEMMA SameLineLine ==
    ASSUME NEW d \in Point, NEW u, NEW t, Alike(u, t, d), NEW v, NEW w, Alike(v, w, d)
    PROVE  LineIntersectsLine(u, v) <=> LineIntersectsLine(t, w)
<1>1. /\ Empty(u) <=> Empty(t)
      /\ Empty(v) <=> Empty(w)
    BY AlikeEdges
<1>2. CASE Empty(t) \/ Empty(w)
    BY <1>1, <1>2, Zenon DEF LineIntersectsLine
<1>3. CASE ~ Empty(t) /\ ~ Empty(w)
    <2>1. RectIntersectsRect(u.rect, v.rect) <=> RectIntersectsRect(t.rect, w.rect)
        BY <1>3, MovedRects DEF Alike
    <2>2. Len(u.points) = Len(t.points) /\ Len(v.points) = Len(w.points)
        BY DEF Alike
    <2> DEFINE hits(x, y) == \E s \in SegmentsOf(x) : \E k \in Found(y, SegmentRect(s)) :
                                IntersectsSegment(s, SegmentAt(y, k))
    <2>3. /\ hits(u, v) <=> hits(t, w)
          /\ hits(v, u) <=> hits(w, t)
        BY SameSomeSegment
    <2>4. CASE Len(t.points) > Len(w.points)
        <3>1. LineIntersectsLine(t, w) <=> RectIntersectsRect(t.rect, w.rect) /\ hits(w, t)
            BY <1>3, <2>4, Zenon DEF LineIntersectsLine
        <3>2. LineIntersectsLine(u, v) <=> RectIntersectsRect(u.rect, v.rect) /\ hits(v, u)
            BY <1>1, <1>3, <2>2, <2>4, Zenon DEF LineIntersectsLine
        <3> HIDE DEF hits
        <3>3. QED
            BY <2>1, <2>3, <3>1, <3>2, Zenon
    <2>5. CASE ~ (Len(t.points) > Len(w.points))
        <3>1. LineIntersectsLine(t, w) <=> RectIntersectsRect(t.rect, w.rect) /\ hits(t, w)
            BY <1>3, <2>5, Zenon DEF LineIntersectsLine
        <3>2. LineIntersectsLine(u, v) <=> RectIntersectsRect(u.rect, v.rect) /\ hits(u, v)
            BY <1>1, <1>3, <2>2, <2>5, Zenon DEF LineIntersectsLine
        <3> HIDE DEF hits
        <3>3. QED
            BY <2>1, <2>3, <3>1, <3>2, Zenon
    <2>6. QED
        BY <2>4, <2>5
<1>4. QED
    BY <1>2, <1>3

(* What a point answers of any geometry, a rectangle, a line, a polygon. *)
LEMMA SamePointQueries ==
    ASSUME NEW d \in Point, NEW p \in Point, NEW h, NEW was, Same(h, was, d)
    PROVE  /\ PointContains(MovePoint(p, d), h) <=> PointContains(p, was)
           /\ PointIntersects(MovePoint(p, d), h) <=> PointIntersects(p, was)
<1> DEFINE q == MovePoint(p, d)
<1>0. h.kind = was.kind /\ was.kind \in {"point", "rect", "line", "poly"}
    BY DEF Same
<1>1. PointContains(q, h) <=> PointContains(p, was)
    <2>1. PointRect(p) \in Rect /\ PointRect(q) = MoveRect(PointRect(p), d)
        BY MovedPointRect
    <2>2. /\ EmptyGeometry(h) <=> EmptyGeometry(was)
          /\ ~ EmptyGeometry(was) => (RectOf(h) = PointRect(q) <=> RectOf(was) = PointRect(p))
        BY <2>1, SameRect, MovedRects
    <2> HIDE DEF q
    <2>3. QED
        BY <2>2, Zenon DEF PointContains
<1>2. PointIntersects(q, h) <=> PointIntersects(p, was)
    <2>1. CASE was.kind = "point"
        <3>1. h.point = q <=> was.point = p
            BY <2>1, MovedApart DEF Same
        <3> HIDE DEF q
        <3>2. (PointIntersects(q, h) <=> h.point = q) /\ (PointIntersects(p, was) <=> was.point = p)
            BY <1>0, <2>1 DEF PointIntersects
        <3>3. QED
            BY <3>1, <3>2
    <2>2. CASE was.kind = "rect"
        <3>1. RectContainsPoint(h.rect, q) <=> RectContainsPoint(was.rect, p)
            BY <2>2, MovedPointRect DEF Same
        <3> HIDE DEF q
        <3>2. /\ PointIntersects(q, h) <=> RectContainsPoint(h.rect, q)
              /\ PointIntersects(p, was) <=> RectContainsPoint(was.rect, p)
            BY <1>0, <2>2 DEF PointIntersects
        <3>3. QED
            BY <3>1, <3>2
    <2>3. CASE was.kind = "line"
        <3>1. LineContainsPoint(h.line, q) <=> LineContainsPoint(was.line, p)
            BY <2>3, SameLinePoint DEF Same
        <3> HIDE DEF q
        <3>2. /\ PointIntersects(q, h) <=> LineContainsPoint(h.line, q)
              /\ PointIntersects(p, was) <=> LineContainsPoint(was.line, p)
            BY <1>0, <2>3 DEF PointIntersects
        <3>3. QED
            BY <3>1, <3>2
    <2>4. CASE was.kind = "poly"
        <3>1. PolyContainsPoint(h, q) <=> PolyContainsPoint(was, p)
            BY <2>4, SamePolyPoint
        <3> HIDE DEF q
        <3>2. /\ PointIntersects(q, h) <=> PolyContainsPoint(h, q)
              /\ PointIntersects(p, was) <=> PolyContainsPoint(was, p)
            BY <1>0, <2>4 DEF PointIntersects
        <3>3. QED
            BY <3>1, <3>2
    <2>5. QED
        BY <1>0, <2>1, <2>2, <2>3, <2>4
<1>3. QED
    BY <1>1, <1>2

(* A rectangle. *)
LEMMA SameRectQueries ==
    ASSUME NEW d \in Point, NEW rect \in Rect, NEW h, NEW was, Same(h, was, d)
    PROVE  /\ RectContains(MoveRect(rect, d), h) <=> RectContains(rect, was)
           /\ RectIntersects(MoveRect(rect, d), h) <=> RectIntersects(rect, was)
<1>0. PICK moved : moved = MoveRect(rect, d)
    OBVIOUS
<1>1. h.kind = was.kind /\ was.kind \in {"point", "rect", "line", "poly"}
    BY DEF Same
<1>2. RectContains(moved, h) <=> RectContains(rect, was)
    <2>1. /\ EmptyGeometry(h) <=> EmptyGeometry(was)
          /\ ~ EmptyGeometry(was) => (RectContainsRect(moved, RectOf(h))
                                         <=> RectContainsRect(rect, RectOf(was)))
        BY <1>0, SameRect, MovedRects
    <2>2. QED
        BY <2>1, Zenon DEF RectContains
<1>3. RectIntersects(moved, h) <=> RectIntersects(rect, was)
    <2>1. CASE was.kind = "point"
        <3>1. RectContainsPoint(moved, h.point) <=> RectContainsPoint(rect, was.point)
            BY <1>0, <2>1, MovedPointRect DEF Same
        <3>2. /\ RectIntersects(moved, h) <=> RectContainsPoint(moved, h.point)
              /\ RectIntersects(rect, was) <=> RectContainsPoint(rect, was.point)
            BY <1>1, <2>1 DEF RectIntersects
        <3>3. QED
            BY <3>1, <3>2
    <2>2. CASE was.kind = "rect"
        <3>1. RectIntersectsRect(moved, h.rect) <=> RectIntersectsRect(rect, was.rect)
            BY <1>0, <2>2, MovedRects DEF Same
        <3>2. /\ RectIntersects(moved, h) <=> RectIntersectsRect(moved, h.rect)
              /\ RectIntersects(rect, was) <=> RectIntersectsRect(rect, was.rect)
            BY <1>1, <2>2 DEF RectIntersects
        <3>3. QED
            BY <3>1, <3>2
    <2>3. CASE was.kind = "line"
        <3>1. RingIntersectsLine(RectRing(moved), h.line, TRUE)
                 <=> RingIntersectsLine(RectRing(rect), was.line, TRUE)
            BY <1>0, <2>3, AlikeRectRing, AlikeIntersectsLine DEF Same
        <3>2. /\ RectIntersects(moved, h) <=> RingIntersectsLine(RectRing(moved), h.line, TRUE)
              /\ RectIntersects(rect, was) <=> RingIntersectsLine(RectRing(rect), was.line, TRUE)
            BY <1>1, <2>3 DEF RectIntersects
        <3>3. QED
            BY <3>1, <3>2
    <2>4. CASE was.kind = "poly"
        <3>1. PolyIntersectsPoly(h, RectPoly(moved))
                 <=> PolyIntersectsPoly(was, RectPoly(rect))
            BY <1>0, <2>4, SameRectPoly, SamePolyPoly
        <3>2. /\ RectIntersects(moved, h) <=> PolyIntersectsPoly(h, RectPoly(moved))
              /\ RectIntersects(rect, was) <=> PolyIntersectsPoly(was, RectPoly(rect))
            BY <1>1, <2>4 DEF RectIntersects
        <3>3. QED
            BY <3>1, <3>2
    <2>5. QED
        BY <1>1, <2>1, <2>2, <2>3, <2>4
<1>4. QED
    BY <1>0, <1>2, <1>3

(* A line. *)
LEMMA SameLineQueries ==
    ASSUME NEW d \in Point, NEW u, NEW t, Alike(u, t, d), NEW h, NEW was, Same(h, was, d)
    PROVE  /\ was.kind # "line" => (LineContains(u, h) <=> LineContains(t, was))
           /\ LineIntersects(u, h) <=> LineIntersects(t, was)
<1>1. h.kind = was.kind /\ was.kind \in {"point", "rect", "line", "poly"}
    BY DEF Same
<1>2. was.kind # "line" => (LineContains(u, h) <=> LineContains(t, was))
    <2>1. CASE was.kind = "point"
        <3>1. LineContainsPoint(u, h.point) <=> LineContainsPoint(t, was.point)
            BY <2>1, SameLinePoint DEF Same
        <3>2. /\ LineContains(u, h) <=> LineContainsPoint(u, h.point)
              /\ LineContains(t, was) <=> LineContainsPoint(t, was.point)
            BY <1>1, <2>1 DEF LineContains
        <3>3. QED
            BY <3>1, <3>2
    <2>2. CASE was.kind = "rect"
        <3>1. LineContainsPoly(u, RectPoly(h.rect))
                 <=> LineContainsPoly(t, RectPoly(was.rect))
            BY <2>2, SameAsPoly, SameLinePoly
        <3>2. /\ LineContains(u, h) <=> LineContainsPoly(u, RectPoly(h.rect))
              /\ LineContains(t, was) <=> LineContainsPoly(t, RectPoly(was.rect))
            BY <1>1, <2>2 DEF LineContains
        <3>3. QED
            BY <3>1, <3>2
    <2>3. CASE was.kind = "poly"
        <3>1. LineContainsPoly(u, h) <=> LineContainsPoly(t, was)
            BY <2>3, SameLinePoly
        <3>2. /\ LineContains(u, h) <=> LineContainsPoly(u, h)
              /\ LineContains(t, was) <=> LineContainsPoly(t, was)
            BY <1>1, <2>3 DEF LineContains
        <3>3. QED
            BY <3>1, <3>2
    <2>4. QED
        BY <1>1, <2>1, <2>2, <2>3
<1>3. LineIntersects(u, h) <=> LineIntersects(t, was)
    <2>1. CASE was.kind = "point"
        <3>1. LineContainsPoint(u, h.point) <=> LineContainsPoint(t, was.point)
            BY <2>1, SameLinePoint DEF Same
        <3>2. /\ LineIntersects(u, h) <=> LineContainsPoint(u, h.point)
              /\ LineIntersects(t, was) <=> LineContainsPoint(t, was.point)
            BY <1>1, <2>1 DEF LineIntersects
        <3>3. QED
            BY <3>1, <3>2
    <2>2. CASE was.kind = "rect"
        <3>1. RingIntersectsLine(RectRing(h.rect), u, TRUE)
                 <=> RingIntersectsLine(RectRing(was.rect), t, TRUE)
            BY <2>2, AlikeRectRing, AlikeIntersectsLine DEF Same
        <3>2. /\ LineIntersects(u, h) <=> RingIntersectsLine(RectRing(h.rect), u, TRUE)
              /\ LineIntersects(t, was) <=> RingIntersectsLine(RectRing(was.rect), t, TRUE)
            BY <1>1, <2>2 DEF LineIntersects
        <3>3. QED
            BY <3>1, <3>2
    <2>3. CASE was.kind = "line"
        <3>1. LineIntersectsLine(u, h.line) <=> LineIntersectsLine(t, was.line)
            BY <2>3, SameLineLine DEF Same
        <3>2. /\ LineIntersects(u, h) <=> LineIntersectsLine(u, h.line)
              /\ LineIntersects(t, was) <=> LineIntersectsLine(t, was.line)
            BY <1>1, <2>3 DEF LineIntersects
        <3>3. QED
            BY <3>1, <3>2
    <2>4. CASE was.kind = "poly"
        <3>1. PolyIntersectsLine(h, u) <=> PolyIntersectsLine(was, t)
            BY <2>4, SamePolyLine
        <3>2. /\ LineIntersects(u, h) <=> PolyIntersectsLine(h, u)
              /\ LineIntersects(t, was) <=> PolyIntersectsLine(was, t)
            BY <1>1, <2>4 DEF LineIntersects
        <3>3. QED
            BY <3>1, <3>2
    <2>5. QED
        BY <1>1, <2>1, <2>2, <2>3, <2>4
<1>4. QED
    BY <1>2, <1>3

(* A polygon. *)
LEMMA SamePolyQueries ==
    ASSUME NEW d \in Point, NEW g, NEW of, Same(g, of, d), of.kind = "poly",
           NEW h, NEW was, Same(h, was, d)
    PROVE  /\ PolyContains(g, h) <=> PolyContains(of, was)
           /\ PolyIntersects(g, h) <=> PolyIntersects(of, was)
<1>1. h.kind = was.kind /\ was.kind \in {"point", "rect", "line", "poly"}
    BY DEF Same
<1>2. PolyContains(g, h) <=> PolyContains(of, was)
    <2>1. CASE was.kind = "point"
        <3>1. PolyContainsPoint(g, h.point) <=> PolyContainsPoint(of, was.point)
            BY <2>1, SamePolyPoint DEF Same
        <3>2. /\ PolyContains(g, h) <=> PolyContainsPoint(g, h.point)
              /\ PolyContains(of, was) <=> PolyContainsPoint(of, was.point)
            BY <1>1, <2>1 DEF PolyContains
        <3>3. QED
            BY <3>1, <3>2
    <2>2. CASE was.kind = "rect"
        <3>1. PolyContainsPoly(g, RectPoly(h.rect))
                 <=> PolyContainsPoly(of, RectPoly(was.rect))
            BY <2>2, SameAsPoly, SamePolyPoly
        <3>2. /\ PolyContains(g, h) <=> PolyContainsPoly(g, RectPoly(h.rect))
              /\ PolyContains(of, was) <=> PolyContainsPoly(of, RectPoly(was.rect))
            BY <1>1, <2>2 DEF PolyContains
        <3>3. QED
            BY <3>1, <3>2
    <2>3. CASE was.kind = "line"
        <3>0. Alike(h.line, was.line, d)
            BY <2>3 DEF Same
        <3>1. PolyContainsLine(g, h.line) <=> PolyContainsLine(of, was.line)
            BY <3>0, SamePolyLine
        <3>2. /\ PolyContains(g, h) <=> PolyContainsLine(g, h.line)
              /\ PolyContains(of, was) <=> PolyContainsLine(of, was.line)
            BY <1>1, <2>3 DEF PolyContains
        <3>3. QED
            BY <3>1, <3>2
    <2>4. CASE was.kind = "poly"
        <3>1. PolyContainsPoly(g, h) <=> PolyContainsPoly(of, was)
            BY <2>4, SamePolyPoly
        <3>2. /\ PolyContains(g, h) <=> PolyContainsPoly(g, h)
              /\ PolyContains(of, was) <=> PolyContainsPoly(of, was)
            BY <1>1, <2>4 DEF PolyContains
        <3>3. QED
            BY <3>1, <3>2
    <2>5. QED
        BY <1>1, <2>1, <2>2, <2>3, <2>4
<1>3. PolyIntersects(g, h) <=> PolyIntersects(of, was)
    <2>1. CASE was.kind = "point"
        <3>1. PolyContainsPoint(g, h.point) <=> PolyContainsPoint(of, was.point)
            BY <2>1, SamePolyPoint DEF Same
        <3>2. /\ PolyIntersects(g, h) <=> PolyContainsPoint(g, h.point)
              /\ PolyIntersects(of, was) <=> PolyContainsPoint(of, was.point)
            BY <1>1, <2>1 DEF PolyIntersects
        <3>3. QED
            BY <3>1, <3>2
    <2>2. CASE was.kind = "rect"
        <3>1. PolyIntersectsPoly(g, RectPoly(h.rect))
                 <=> PolyIntersectsPoly(of, RectPoly(was.rect))
            BY <2>2, SameAsPoly, SamePolyPoly
        <3>2. /\ PolyIntersects(g, h) <=> PolyIntersectsPoly(g, RectPoly(h.rect))
              /\ PolyIntersects(of, was) <=> PolyIntersectsPoly(of, RectPoly(was.rect))
            BY <1>1, <2>2 DEF PolyIntersects
        <3>3. QED
            BY <3>1, <3>2
    <2>3. CASE was.kind = "line"
        <3>1. PolyIntersectsLine(g, h.line) <=> PolyIntersectsLine(of, was.line)
            BY <2>3, SamePolyLine DEF Same
        <3>2. /\ PolyIntersects(g, h) <=> PolyIntersectsLine(g, h.line)
              /\ PolyIntersects(of, was) <=> PolyIntersectsLine(of, was.line)
            BY <1>1, <2>3 DEF PolyIntersects
        <3>3. QED
            BY <3>1, <3>2
    <2>4. CASE was.kind = "poly"
        <3>1. PolyIntersectsPoly(g, h) <=> PolyIntersectsPoly(of, was)
            BY <2>4, SamePolyPoly
        <3>2. /\ PolyIntersects(g, h) <=> PolyIntersectsPoly(g, h)
              /\ PolyIntersects(of, was) <=> PolyIntersectsPoly(of, was)
            BY <1>1, <2>4 DEF PolyIntersects
        <3>3. QED
            BY <3>1, <3>2
    <2>5. QED
        BY <1>1, <2>1, <2>2, <2>3, <2>4
<1>4. QED
    BY <1>2, <1>3

(* A geometry answers the same of another one when both have been moved. *)
LEMMA SameAnswers ==
    ASSUME NEW d \in Point, NEW g, NEW of, Same(g, of, d), NEW h, NEW was, Same(h, was, d)
    PROVE  /\ ~ (of.kind = "line" /\ was.kind = "line") => (Contains(g, h) <=> Contains(of, was))
           /\ Intersects(g, h) <=> Intersects(of, was)
<1>1. g.kind = of.kind /\ of.kind \in {"point", "rect", "line", "poly"}
    BY DEF Same
<1>2. CASE of.kind = "point"
    <2>1. PointContains(g.point, h) <=> PointContains(of.point, was)
        BY <1>2, SamePointQueries DEF Same
    <2>2. PointIntersects(g.point, h) <=> PointIntersects(of.point, was)
        BY <1>2, SamePointQueries DEF Same
    <2>3. /\ Contains(g, h) <=> PointContains(g.point, h)
          /\ Contains(of, was) <=> PointContains(of.point, was)
        BY <1>1, <1>2 DEF Contains
    <2>4. /\ Intersects(g, h) <=> PointIntersects(g.point, h)
          /\ Intersects(of, was) <=> PointIntersects(of.point, was)
        BY <1>1, <1>2 DEF Intersects
    <2>5. QED
        BY <1>2, <2>1, <2>2, <2>3, <2>4
<1>3. CASE of.kind = "rect"
    <2>1. RectContains(g.rect, h) <=> RectContains(of.rect, was)
        BY <1>3, SameRectQueries DEF Same
    <2>2. RectIntersects(g.rect, h) <=> RectIntersects(of.rect, was)
        BY <1>3, SameRectQueries DEF Same
    <2>3. /\ Contains(g, h) <=> RectContains(g.rect, h)
          /\ Contains(of, was) <=> RectContains(of.rect, was)
        BY <1>1, <1>3 DEF Contains
    <2>4. /\ Intersects(g, h) <=> RectIntersects(g.rect, h)
          /\ Intersects(of, was) <=> RectIntersects(of.rect, was)
        BY <1>1, <1>3 DEF Intersects
    <2>5. QED
        BY <1>3, <2>1, <2>2, <2>3, <2>4
<1>4. CASE of.kind = "line"
    <2>1. was.kind # "line" => (LineContains(g.line, h) <=> LineContains(of.line, was))
        BY <1>4, SameLineQueries DEF Same
    <2>2. LineIntersects(g.line, h) <=> LineIntersects(of.line, was)
        BY <1>4, SameLineQueries DEF Same
    <2>3. /\ Contains(g, h) <=> LineContains(g.line, h)
          /\ Contains(of, was) <=> LineContains(of.line, was)
        BY <1>1, <1>4 DEF Contains
    <2>4. /\ Intersects(g, h) <=> LineIntersects(g.line, h)
          /\ Intersects(of, was) <=> LineIntersects(of.line, was)
        BY <1>1, <1>4 DEF Intersects
    <2>5. QED
        BY <1>4, <2>1, <2>2, <2>3, <2>4
<1>5. CASE of.kind = "poly"
    <2>1. PolyContains(g, h) <=> PolyContains(of, was)
        BY <1>5, SamePolyQueries
    <2>2. PolyIntersects(g, h) <=> PolyIntersects(of, was)
        BY <1>5, SamePolyQueries
    <2>3. /\ Contains(g, h) <=> PolyContains(g, h)
          /\ Contains(of, was) <=> PolyContains(of, was)
        BY <1>1, <1>5 DEF Contains
    <2>4. /\ Intersects(g, h) <=> PolyIntersects(g, h)
          /\ Intersects(of, was) <=> PolyIntersects(of, was)
        BY <1>1, <1>5 DEF Intersects
    <2>5. QED
        BY <1>5, <2>1, <2>2, <2>3, <2>4
<1>6. QED
    BY <1>1, <1>2, <1>3, <1>4, <1>5

-----------------------------------------------------------------------------
(* What makeSeries finds out about points that have been moved is what it  *)
(* found out about them before.                                            *)

(* Of finitely many numbers there is a least and a greatest one. *)
LEMMA LeastIn ==
    ASSUME NEW n \in Nat, NEW f, \A k \in 1 .. n + 1 : f[k] \in Int
    PROVE  /\ \E j \in 1 .. n + 1 : \A k \in 1 .. n + 1 : f[j] <= f[k]
           /\ \E j \in 1 .. n + 1 : \A k \in 1 .. n + 1 : f[j] >= f[k]
<1> DEFINE ends(m) == /\ \E j \in 1 .. m + 1 : \A k \in 1 .. m + 1 : f[j] <= f[k]
                      /\ \E j \in 1 .. m + 1 : \A k \in 1 .. m + 1 : f[j] >= f[k]
           T == {m \in 0 .. n : ~ ends(m)}
<1> SUFFICES ASSUME T # {} PROVE FALSE
    <2>1. n \notin T
        OBVIOUS
    <2>2. QED
        BY <2>1
<1>1. PICK m \in T : \A l \in T : m <= l
    <2>1. T \in SUBSET Nat
        OBVIOUS
    <2> HIDE DEF T
    <2>2. QED
        BY <2>1, LeastNatural, Zenon
<1>2. m \in 0 .. n /\ ~ ends(m)
    OBVIOUS
<1> HIDE DEF T, ends
<1>3. CASE m = 0
    <2>1. 1 \in 1 .. m + 1 /\ \A k \in 1 .. m + 1 : k = 1
        BY <1>3
    <2>2. f[1] \in Int
        OBVIOUS
    <2>3. \A k \in 1 .. m + 1 : f[1] <= f[k] /\ f[1] >= f[k]
        BY <2>1, <2>2
    <2>4. QED
        BY <1>2, <2>1, <2>3 DEF ends
<1>4. CASE m # 0
    <2>1. m - 1 \in 0 .. n /\ (m - 1) + 1 = m
        BY <1>2, <1>4
    <2>2. ends(m - 1)
        <3>1. m - 1 \notin T
            BY <1>1, <1>2
        <3>2. QED
            BY <2>1, <3>1 DEF T
    <2>3. PICK i, j \in 1 .. m : \A k \in 1 .. m : f[i] <= f[k] /\ f[j] >= f[k]
        BY <2>1, <2>2 DEF ends
    <2>4. \A k \in 1 .. m + 1 : k \in 1 .. m \/ k = m + 1
        BY <1>2
    <2>5. \A k \in 1 .. m + 1 : f[k] \in Int
        BY <1>2
    <2>6. i \in 1 .. m + 1 /\ j \in 1 .. m + 1 /\ m + 1 \in 1 .. m + 1
        BY <1>2
    <2>7. \E l \in 1 .. m + 1 : \A k \in 1 .. m + 1 : f[l] <= f[k]
        <3>1. CASE f[m + 1] <= f[i]
            <4>1. ASSUME NEW k \in 1 .. m + 1 PROVE f[m + 1] <= f[k]
                <5>1. f[i] \in Int /\ f[m + 1] \in Int /\ f[k] \in Int
                    BY <2>5, <2>6
                <5>2. k = m + 1 \/ f[i] <= f[k]
                    BY <2>3, <2>4
                <5>3. QED
                    BY <3>1, <5>1, <5>2
            <4>2. QED
                BY <2>6, <4>1
        <3>2. CASE ~ (f[m + 1] <= f[i])
            <4>1. ASSUME NEW k \in 1 .. m + 1 PROVE f[i] <= f[k]
                <5>1. f[i] \in Int /\ f[m + 1] \in Int /\ f[k] \in Int
                    BY <2>5, <2>6
                <5>2. k = m + 1 \/ f[i] <= f[k]
                    BY <2>3, <2>4
                <5>3. QED
                    BY <3>2, <5>1, <5>2
            <4>2. QED
                BY <2>6, <4>1
        <3>3. QED
            BY <3>1, <3>2
    <2>8. \E l \in 1 .. m + 1 : \A k \in 1 .. m + 1 : f[l] >= f[k]
        <3>1. CASE f[m + 1] >= f[j]
            <4>1. ASSUME NEW k \in 1 .. m + 1 PROVE f[m + 1] >= f[k]
                <5>1. f[j] \in Int /\ f[m + 1] \in Int /\ f[k] \in Int
                    BY <2>5, <2>6
                <5>2. k = m + 1 \/ f[j] >= f[k]
                    BY <2>3, <2>4
                <5>3. QED
                    BY <3>1, <5>1, <5>2
            <4>2. QED
                BY <2>6, <4>1
        <3>2. CASE ~ (f[m + 1] >= f[j])
            <4>1. ASSUME NEW k \in 1 .. m + 1 PROVE f[j] >= f[k]
                <5>1. f[j] \in Int /\ f[m + 1] \in Int /\ f[k] \in Int
                    BY <2>5, <2>6
                <5>2. k = m + 1 \/ f[j] >= f[k]
                    BY <2>3, <2>4
                <5>3. QED
                    BY <3>2, <5>1, <5>2
            <4>2. QED
                BY <2>6, <4>1
        <3>3. QED
            BY <3>1, <3>2
    <2>9. QED
        BY <1>2, <2>7, <2>8 DEF ends
<1>5. QED
    BY <1>3, <1>4

(* What Min and Max of a set of numbers choose. *)
LEMMA MinMaxIs ==
    ASSUME NEW S \in SUBSET Int, NEW s \in S
    PROVE  /\ (\A k \in S : s <= k) => Min(S) = s
           /\ (\A k \in S : s >= k) => Max(S) = s
<1>1. ASSUME \A k \in S : s <= k PROVE Min(S) = s
    <2>1. Min(S) \in S /\ \A k \in S : Min(S) <= k
        BY <1>1 DEF Min
    <2>2. s \in Int /\ Min(S) \in Int /\ Min(S) <= s /\ s <= Min(S)
        BY <1>1, <2>1
    <2>3. \A a, b \in Int : a <= b /\ b <= a => a = b
        OBVIOUS
    <2>4. QED
        BY <2>2, <2>3, Zenon
<1>2. ASSUME \A k \in S : s >= k PROVE Max(S) = s
    <2>1. Max(S) \in S /\ \A k \in S : Max(S) >= k
        BY <1>2 DEF Max
    <2>2. s \in Int /\ Max(S) \in Int /\ Max(S) >= s /\ s >= Max(S)
        BY <1>2, <2>1
    <2>3. \A a, b \in Int : a >= b /\ b >= a => a = b
        OBVIOUS
    <2>4. QED
        BY <2>2, <2>3, Zenon
<1>3. QED
    BY <1>1, <1>2

(* The first n values of f. *)
Values(f, n) == {f[k] : k \in 1 .. n}

(* The least and the greatest of finitely many numbers, to which v is      *)
(* added.                                                                  *)
LEMMA MovedEnds ==
    ASSUME NEW n \in Nat \ {0}, NEW f, NEW g, NEW v \in Int,
           \A k \in 1 .. n : f[k] \in Int /\ g[k] = f[k] + v
    PROVE  /\ Min(Values(f, n)) \in Int /\ Max(Values(f, n)) \in Int
           /\ Min(Values(g, n)) = Min(Values(f, n)) + v
           /\ Max(Values(g, n)) = Max(Values(f, n)) + v
<1> DEFINE F == Values(f, n)
           G == Values(g, n)
<1>1. PICK m \in Nat : n = m + 1
    <2>1. n - 1 \in Nat /\ n = (n - 1) + 1
        OBVIOUS
    <2>2. QED
        BY <2>1, Zenon
<1>2. \A k \in 1 .. m + 1 : f[k] \in Int
    BY <1>1
<1>3. /\ \E j \in 1 .. n : \A k \in 1 .. n : f[j] <= f[k]
      /\ \E j \in 1 .. n : \A k \in 1 .. n : f[j] >= f[k]
    BY <1>1, <1>2, LeastIn
<1>4. PICK i, j \in 1 .. n : \A k \in 1 .. n : f[i] <= f[k] /\ f[j] >= f[k]
    BY <1>3
<1>5. F \in SUBSET Int /\ G \in SUBSET Int /\ f[i] \in F /\ f[j] \in F /\ g[i] \in G /\ g[j] \in G
    BY DEF Values
<1>6. \A k \in F : f[i] <= k /\ f[j] >= k
    BY <1>4 DEF Values
<1>7. \A k \in G : g[i] <= k /\ g[j] >= k
    BY <1>4 DEF Values
<1>8. g[i] = f[i] + v /\ g[j] = f[j] + v /\ f[i] \in Int /\ f[j] \in Int
    OBVIOUS
<1> HIDE DEF F, G
<1>9. Min(F) = f[i] /\ Min(G) = g[i]
    BY <1>5, <1>6, <1>7, MinMaxIs
<1>10. Max(F) = f[j] /\ Max(G) = g[j]
    BY <1>5, <1>6, <1>7, MinMaxIs
<1>11. QED
    BY <1>8, <1>9, <1>10 DEF F, G

(* The points of a series, round and round. *)
Cyclic(points, k) == points[(k % Len(points)) + 1]

Turning(points, k) == Cross(Cyclic(points, k), Cyclic(points, k + 1), Cyclic(points, k + 2))

Trapezoid(points, k) ==
    (Cyclic(points, k).x - Cyclic(points, k - 1).x)
      * (Cyclic(points, k).y + Cyclic(points, k - 1).y)

(* The sums of trapezoids of NewSeries. *)
CwcSums(points) ==
    LET cwc[k \in 0 .. Len(points)] ==
            IF k = 0 THEN 0
            ELSE cwc[k - 1]
                 + (Cyclic(points, k).x - Cyclic(points, k - 1).x)
                   * (Cyclic(points, k).y + Cyclic(points, k - 1).y)
    IN  cwc

(* What processPoints finds out, with the sums by name. *)
LEMMA NewSeriesIs ==
    ASSUME NEW points, NEW closed
    PROVE  LET n == Len(points)
               none == Empty([points |-> points, closed |-> closed])
               xs == {points[k].x : k \in 1 .. n}
               ys == {points[k].y : k \in 1 .. n}
           IN  NewSeries(points, closed) =
                 [points |-> points, closed |-> closed,
                  convex |-> ~ none /\ ~ \E j, k \in 0 .. n - 1 :
                                            Turning(points, j) < 0 /\ Turning(points, k) > 0,
                  clockwise |-> ~ none /\ CwcSums(points)[n] > 0,
                  rect |-> IF none THEN PointRect([x |-> 0, y |-> 0])
                           ELSE [min |-> [x |-> Min(xs), y |-> Min(ys)],
                                 max |-> [x |-> Max(xs), y |-> Max(ys)]]]
    BY Zenon DEF NewSeries, Turning, CwcSums, Cyclic

(* f holds the sums of the first trapezoids up to n. *)
IsCwc(points, n, f) ==
    f = [k \in 0 .. n |-> IF k = 0 THEN 0 ELSE f[k - 1] + Trapezoid(points, k)]

(* If there are such sums, CwcSums are. *)
LEMMA CwcIs ==
    ASSUME NEW points, NEW f, IsCwc(points, Len(points), f)
    PROVE  IsCwc(points, Len(points), CwcSums(points))
    BY Zenon DEF CwcSums, IsCwc, Trapezoid

(* There are such sums: the shortest without would be one longer than ones with. *)
LEMMA CwcExists ==
    ASSUME NEW s, NEW n \in Nat
    PROVE  \E f : IsCwc(s, n, f)
<1> DEFINE T == {m \in Nat : ~ \E f : IsCwc(s, m, f)}
<1> SUFFICES ASSUME T # {} PROVE FALSE
    OBVIOUS
<1>1. PICK m \in T : \A l \in T : m <= l
    <2>1. T \in SUBSET Nat
        OBVIOUS
    <2> HIDE DEF T
    <2>2. QED
        BY <2>1, LeastNatural, Zenon
<1>2. m \in Nat /\ ~ \E f : IsCwc(s, m, f)
    OBVIOUS
<1>3. m # 0
    <2>1. IsCwc(s, 0, [k \in 0 .. 0 |-> 0])
        BY DEF IsCwc
    <2>2. QED
        BY <1>2, <2>1
<1>4. PICK l \in Nat : m = l + 1
    <2>1. m - 1 \in Nat /\ m = (m - 1) + 1
        BY <1>2, <1>3
    <2>2. QED
        BY <2>1, Zenon
<1>5. PICK f : IsCwc(s, l, f)
    <2>1. l \notin T
        BY <1>1, <1>4
    <2>2. QED
        BY <2>1
<1> DEFINE g == [k \in 0 .. m |-> IF k = 0 THEN 0
                                   ELSE IF k = m THEN f[l] + Trapezoid(s, m) ELSE f[k]]
<1>6. \A k \in 0 .. l : g[k] = f[k]
    BY <1>2, <1>4, <1>5 DEF IsCwc
<1>7. ASSUME NEW k \in 0 .. m
      PROVE  g[k] = IF k = 0 THEN 0 ELSE g[k - 1] + Trapezoid(s, k)
    <2>1. CASE k = 0
        BY <2>1
    <2>2. CASE k # 0 /\ k = m
        <3>1. l \in 0 .. l /\ k - 1 = l
            BY <1>2, <1>4, <2>2
        <3>2. QED
            BY <1>6, <2>2, <3>1
    <2>3. CASE k # 0 /\ k # m
        <3>1. k \in 0 .. l /\ k - 1 \in 0 .. l
            BY <1>2, <1>4, <2>3
        <3>2. f[k] = f[k - 1] + Trapezoid(s, k)
            BY <1>5, <2>3, <3>1 DEF IsCwc
        <3> HIDE DEF g
        <3>3. QED
            BY <1>6, <2>3, <3>1, <3>2
    <2>4. QED
        BY <2>1, <2>2, <2>3
<1>8. g = [k \in 0 .. m |-> g[k]]
    OBVIOUS
<1> HIDE DEF g
<1>9. IsCwc(s, m, g)
    BY <1>7, <1>8 DEF IsCwc
<1>10. QED
    BY <1>2, <1>9

(* Each sum is the one before and a trapezoid. *)
LEMMA CwcSteps ==
    ASSUME NEW points \in Seq(Point)
    PROVE  /\ CwcSums(points)[0] = 0
           /\ \A k \in 1 .. Len(points) :
                 CwcSums(points)[k] = CwcSums(points)[k - 1] + Trapezoid(points, k)
<1>1. Len(points) \in Nat
    OBVIOUS
<1>2. IsCwc(points, Len(points), CwcSums(points))
    BY <1>1, CwcExists, CwcIs, Zenon
<1>3. QED
    BY <1>1, <1>2 DEF IsCwc

(* Moved points, round and round. *)
LEMMA CyclicMoved ==
    ASSUME NEW d \in Point, NEW p \in Seq(Point), NEW q \in Seq(Point), Len(p) # 0,
           Len(q) = Len(p), \A k \in 1 .. Len(p) : q[k] = MovePoint(p[k], d), NEW k \in Nat
    PROVE  /\ Cyclic(p, k) \in Point /\ Cyclic(q, k) = MovePoint(Cyclic(p, k), d)
           /\ Cyclic(p, Len(p)) = Cyclic(p, 0)
<1>1. (k % Len(p)) + 1 \in 1 .. Len(p)
    OBVIOUS
<1>2. (Len(p) % Len(p)) + 1 = 1 /\ (0 % Len(p)) + 1 = 1
    OBVIOUS
<1>3. QED
    BY <1>1, <1>2 DEF Cyclic

(* The sum of trapezoids of moved points is the same once it has come      *)
(* round.                                                                  *)
LEMMA CwcMoved ==
    ASSUME NEW d \in Point, NEW p \in Seq(Point), NEW q \in Seq(Point), Len(p) # 0,
           Len(q) = Len(p), \A k \in 1 .. Len(p) : q[k] = MovePoint(p[k], d)
    PROVE  CwcSums(q)[Len(p)] = CwcSums(p)[Len(p)]
<1>0. PICK n \in Nat : n = Len(p) /\ n = Len(q) /\ n # 0
    OBVIOUS
<1> DEFINE c(k) == CwcSums(p)[k]
           e(k) == CwcSums(q)[k]
           good(k) == /\ c(k) \in Int
                      /\ e(k) = c(k) + 2 * d.y * (Cyclic(p, k).x - Cyclic(p, 0).x)
           T == {k \in 0 .. n : ~ good(k)}
<1>1. d.x \in Int /\ d.y \in Int
    BY DEF Point
<1>2. \A k \in Nat : /\ Cyclic(p, k).x \in Int /\ Cyclic(p, k).y \in Int
                     /\ Cyclic(q, k).x = Cyclic(p, k).x + d.x
                     /\ Cyclic(q, k).y = Cyclic(p, k).y + d.y
    <2>1. \A k \in Nat : Cyclic(p, k) \in Point /\ Cyclic(q, k) = MovePoint(Cyclic(p, k), d)
        BY CyclicMoved, Zenon
    <2>2. \A r \in Point : /\ r.x \in Int /\ r.y \in Int
                            /\ MovePoint(r, d).x = r.x + d.x /\ MovePoint(r, d).y = r.y + d.y
        BY DEF Point, MovePoint
    <2>3. QED
        BY <2>1, <2>2, Zenon
<1>3. good(0)
    BY <1>1, <1>2, CwcSteps
<1>4. ASSUME NEW k \in 1 .. n, good(k - 1) PROVE good(k)
    <2>1. PICK l \in Nat : l = k - 1
        BY <1>4
    <2>2. c(k) = c(l) + Trapezoid(p, k) /\ e(k) = e(l) + Trapezoid(q, k)
        BY <1>0, <2>1, CwcSteps
    <2>3. /\ Cyclic(p, l).x \in Int /\ Cyclic(p, l).y \in Int
          /\ Cyclic(p, k).x \in Int /\ Cyclic(p, k).y \in Int /\ Cyclic(p, 0).x \in Int
          /\ Cyclic(q, l).x = Cyclic(p, l).x + d.x /\ Cyclic(q, l).y = Cyclic(p, l).y + d.y
          /\ Cyclic(q, k).x = Cyclic(p, k).x + d.x /\ Cyclic(q, k).y = Cyclic(p, k).y + d.y
        <3>1. l \in Nat /\ k \in Nat /\ 0 \in Nat
            OBVIOUS
        <3>2. QED
            BY <1>2, <3>1, Zenon
    <2>4. c(l) \in Int /\ e(l) = c(l) + 2 * d.y * (Cyclic(p, l).x - Cyclic(p, 0).x)
        BY <1>4, <2>1, Zenon
    <2> HIDE DEF c, e
    <2>5. PICK x, y, u, v, o \in Int :
             /\ x = Cyclic(p, l).x /\ y = Cyclic(p, l).y
             /\ u = Cyclic(p, k).x /\ v = Cyclic(p, k).y /\ o = Cyclic(p, 0).x
        BY <2>3, Zenon
    <2>6. PICK a, w, z \in Int : a = c(l) /\ w = d.x /\ z = d.y
        BY <1>1, <2>4, Zenon
    <2>7. c(k) = a + (u - x) * (v + y)
        BY <2>1, <2>2, <2>5, <2>6 DEF Trapezoid
    <2>8. e(k) = (a + 2 * z * (x - o)) + ((u + w) - (x + w)) * ((v + z) + (y + z))
        BY <2>1, <2>2, <2>3, <2>4, <2>5, <2>6 DEF Trapezoid
    <2>9. (a + 2 * z * (x - o)) + ((u + w) - (x + w)) * ((v + z) + (y + z))
             = (a + (u - x) * (v + y)) + 2 * z * (u - o)
        OBVIOUS
    <2>10. a + (u - x) * (v + y) \in Int
        OBVIOUS
    <2>11. e(k) = c(k) + 2 * d.y * (Cyclic(p, k).x - Cyclic(p, 0).x)
        BY <2>5, <2>6, <2>7, <2>8, <2>9
    <2>12. QED
        BY <2>7, <2>10, <2>11
<1> HIDE DEF c, e, good
<1>5. T = {}
    <2> SUFFICES ASSUME T # {} PROVE FALSE
        OBVIOUS
    <2>1. PICK m \in T : \A l \in T : m <= l
        <3>1. T \in SUBSET Nat
            OBVIOUS
        <3> HIDE DEF T
        <3>2. QED
            BY <3>1, LeastNatural, Zenon
    <2>2. m \in 0 .. n /\ ~ good(m)
        OBVIOUS
    <2>3. m # 0
        BY <1>3, <2>2
    <2>4. m \in 1 .. n /\ m - 1 \in 0 .. n /\ ~ (m <= m - 1)
        BY <2>2, <2>3
    <2>5. good(m - 1)
        BY <2>1, <2>4
    <2>6. QED
        BY <1>4, <2>2, <2>4, <2>5
<1>6. good(n)
    <2>1. n \in 0 .. n /\ n \notin T
        BY <1>0, <1>5
    <2>2. QED
        BY <2>1
<1>7. Cyclic(p, n) = Cyclic(p, 0) /\ Cyclic(p, 0).x \in Int
    BY <1>0, <1>2, CyclicMoved
<1>8. e(n) = c(n)
    BY <1>1, <1>6, <1>7 DEF good
<1>9. QED
    BY <1>0, <1>8 DEF e, c

(* processPoints finds the same convexity and winding of moved points, and *)
(* the same rectangle, moved.                                              *)
LEMMA NewSeriesMoved ==
    ASSUME NEW d \in Point, NEW p \in Seq(Point), NEW q \in Seq(Point),
           Len(q) = Len(p), \A k \in 1 .. Len(p) : q[k] = MovePoint(p[k], d),
           NEW closed \in BOOLEAN
    PROVE  Alike(NewSeries(q, closed), NewSeries(p, closed), d)
<1> DEFINE r == NewSeries(q, closed)
           s == NewSeries(p, closed)
           none == Empty([points |-> p, closed |-> closed])
<1>0. PICK n \in Nat : n = Len(p) /\ n = Len(q)
    OBVIOUS
<1>1. Empty([points |-> q, closed |-> closed]) <=> none
    BY <1>0 DEF Empty
<1>2. /\ r.points = q /\ r.closed = closed /\ s.points = p /\ s.closed = closed
    BY NewSeriesHas
<1>3. Empty(s) <=> none
    BY <1>2 DEF Empty
<1>4. /\ s.convex = (~ none /\ ~ \E j, k \in 0 .. n - 1 : Turning(p, j) < 0 /\ Turning(p, k) > 0)
      /\ s.clockwise = (~ none /\ CwcSums(p)[n] > 0)
      /\ ~ none =>
            s.rect = [min |-> [x |-> Min({p[k].x : k \in 1 .. n}), y |-> Min({p[k].y : k \in 1 .. n})],
                      max |-> [x |-> Max({p[k].x : k \in 1 .. n}), y |-> Max({p[k].y : k \in 1 .. n})]]
    BY <1>0, NewSeriesIs, Zenon
<1>5. /\ r.convex = (~ none /\ ~ \E j, k \in 0 .. n - 1 : Turning(q, j) < 0 /\ Turning(q, k) > 0)
      /\ r.clockwise = (~ none /\ CwcSums(q)[n] > 0)
      /\ ~ none =>
            r.rect = [min |-> [x |-> Min({q[k].x : k \in 1 .. n}), y |-> Min({q[k].y : k \in 1 .. n})],
                      max |-> [x |-> Max({q[k].x : k \in 1 .. n}), y |-> Max({q[k].y : k \in 1 .. n})]]
    BY <1>0, <1>1, NewSeriesIs, Zenon
<1>6. CASE none
    <2>1. r.convex = s.convex /\ r.clockwise = s.clockwise
        BY <1>4, <1>5, <1>6
    <2> HIDE DEF r, s, none
    <2>2. QED
        BY <1>2, <1>3, <1>6, <2>1 DEF Alike, r, s
<1>7. CASE ~ none
    <2>1. n # 0
        BY <1>0, <1>7 DEF Empty
    <2>2. ASSUME NEW k \in 0 .. n - 1 PROVE Turning(q, k) = Turning(p, k)
        <3>1. \A m \in Nat : Cyclic(p, m) \in Point /\ Cyclic(q, m) = MovePoint(Cyclic(p, m), d)
            BY <1>0, <2>1, CyclicMoved
        <3>2. k \in Nat /\ k + 1 \in Nat /\ k + 2 \in Nat
            OBVIOUS
        <3>3. QED
            BY <3>1, <3>2, MovedCross DEF Turning
    <2>3. r.convex = s.convex
        BY <1>4, <1>5, <2>2
    <2>4. r.clockwise = s.clockwise
        BY <1>0, <1>4, <1>5, <2>1, CwcMoved
    <2>5. \A k \in 1 .. n : p[k] \in Point /\ q[k] = MovePoint(p[k], d)
        BY <1>0
    <2>6. d.x \in Int /\ d.y \in Int /\ n \in Nat \ {0}
        BY <2>1 DEF Point
    <2> DEFINE px == [k \in 1 .. n |-> p[k].x]
               py == [k \in 1 .. n |-> p[k].y]
               qx == [k \in 1 .. n |-> q[k].x]
               qy == [k \in 1 .. n |-> q[k].y]
    <2>7. /\ {p[k].x : k \in 1 .. n} = {px[k] : k \in 1 .. n}
          /\ {p[k].y : k \in 1 .. n} = {py[k] : k \in 1 .. n}
          /\ {q[k].x : k \in 1 .. n} = {qx[k] : k \in 1 .. n}
          /\ {q[k].y : k \in 1 .. n} = {qy[k] : k \in 1 .. n}
        OBVIOUS
    <2>8. \A k \in 1 .. n : /\ px[k] \in Int /\ qx[k] = px[k] + d.x
                            /\ py[k] \in Int /\ qy[k] = py[k] + d.y
        <3>1. \A o \in Point : /\ o.x \in Int /\ o.y \in Int
                                /\ MovePoint(o, d).x = o.x + d.x /\ MovePoint(o, d).y = o.y + d.y
            BY DEF Point, MovePoint
        <3>2. \A k \in 1 .. n : /\ p[k].x \in Int /\ q[k].x = p[k].x + d.x
                                 /\ p[k].y \in Int /\ q[k].y = p[k].y + d.y
            BY <2>5, <3>1, Zenon
        <3>3. QED
            BY <3>2, Zenon
    <2> HIDE DEF px, py, qx, qy
    <2> DEFINE X == {p[k].x : k \in 1 .. n}
               Y == {p[k].y : k \in 1 .. n}
               U == {q[k].x : k \in 1 .. n}
               V == {q[k].y : k \in 1 .. n}
    <2>9. Min(X) \in Int /\ Max(X) \in Int /\ Min(U) = Min(X) + d.x /\ Max(U) = Max(X) + d.x
        <3>1. \A k \in 1 .. n : px[k] \in Int /\ qx[k] = px[k] + d.x
            BY <2>8
        <3>2. X = Values(px, n) /\ U = Values(qx, n)
            BY <2>7 DEF Values
        <3>3. PICK v \in Int : v = d.x
            BY <2>6
        <3>4. \A k \in 1 .. n : px[k] \in Int /\ qx[k] = px[k] + v
            BY <3>1, <3>3
        <3>5. n \in Nat \ {0}
            BY <2>6
        <3>6. /\ Min(Values(px, n)) \in Int /\ Max(Values(px, n)) \in Int
              /\ Min(Values(qx, n)) = Min(Values(px, n)) + v
              /\ Max(Values(qx, n)) = Max(Values(px, n)) + v
            BY <3>4, <3>5, MovedEnds
        <3> HIDE DEF X, U
        <3>7. QED
            BY <3>2, <3>3, <3>6
    <2>10. Min(Y) \in Int /\ Max(Y) \in Int /\ Min(V) = Min(Y) + d.y /\ Max(V) = Max(Y) + d.y
        <3>1. \A k \in 1 .. n : py[k] \in Int /\ qy[k] = py[k] + d.y
            BY <2>8
        <3>2. Y = Values(py, n) /\ V = Values(qy, n)
            BY <2>7 DEF Values
        <3>3. PICK v \in Int : v = d.y
            BY <2>6
        <3>4. \A k \in 1 .. n : py[k] \in Int /\ qy[k] = py[k] + v
            BY <3>1, <3>3
        <3>5. n \in Nat \ {0}
            BY <2>6
        <3>6. /\ Min(Values(py, n)) \in Int /\ Max(Values(py, n)) \in Int
              /\ Min(Values(qy, n)) = Min(Values(py, n)) + v
              /\ Max(Values(qy, n)) = Max(Values(py, n)) + v
            BY <3>4, <3>5, MovedEnds
        <3> HIDE DEF Y, V
        <3>7. QED
            BY <3>2, <3>3, <3>6
    <2>11. /\ s.rect = [min |-> [x |-> Min(X), y |-> Min(Y)], max |-> [x |-> Max(X), y |-> Max(Y)]]
           /\ r.rect = [min |-> [x |-> Min(U), y |-> Min(V)], max |-> [x |-> Max(U), y |-> Max(V)]]
        BY <1>4, <1>5, <1>7, Zenon
    <2> HIDE DEF r, s, none, X, Y, U, V
    <2>12. s.rect \in Rect /\ r.rect = MoveRect(s.rect, d)
        BY <2>9, <2>10, <2>11 DEF Rect, Point, MoveRect, MovePoint
    <2>13. QED
        BY <1>2, <2>3, <2>4, <2>12 DEF Alike, r, s
<1>8. QED
    BY <1>6, <1>7

(* A Rect as a ring is the series of its corners. *)
LEMMA RectRingMade ==
    ASSUME NEW rect \in Rect, rect.min.x <= rect.max.x, rect.min.y <= rect.max.y
    PROVE  RectRing(rect) = NewSeries(RectRing(rect).points, TRUE)
<1> DEFINE p == RectRing(rect).points
<1>1. PICK x0, y0, x1, y1 \in Int :
         /\ rect = [min |-> [x |-> x0, y |-> y0], max |-> [x |-> x1, y |-> y1]]
         /\ x0 <= x1 /\ y0 <= y1
    <2>1. /\ rect.min.x \in Int /\ rect.min.y \in Int /\ rect.max.x \in Int /\ rect.max.y \in Int
          /\ rect = [min |-> [x |-> rect.min.x, y |-> rect.min.y],
                     max |-> [x |-> rect.max.x, y |-> rect.max.y]]
        BY DEF Rect, Point
    <2>2. QED
        BY <2>1, Zenon
<1>2. p = <<[x |-> x0, y |-> y0], [x |-> x1, y |-> y0], [x |-> x1, y |-> y1],
            [x |-> x0, y |-> y1], [x |-> x0, y |-> y0]>>
    BY <1>1 DEF RectRing
<1>3. RectRing(rect) = [points |-> p, closed |-> TRUE, convex |-> TRUE, clockwise |-> FALSE,
                        rect |-> rect]
    BY DEF RectRing
<1> HIDE DEF p
<1>4. /\ p \in Seq(Point) /\ Len(p) = 5
      /\ p[1] = [x |-> x0, y |-> y0] /\ p[2] = [x |-> x1, y |-> y0] /\ p[3] = [x |-> x1, y |-> y1]
      /\ p[4] = [x |-> x0, y |-> y1] /\ p[5] = [x |-> x0, y |-> y0]
    BY <1>2 DEF Point
<1>5. ~ Empty([points |-> p, closed |-> TRUE])
    <2> DEFINE e == [points |-> p, closed |-> TRUE]
    <2>1. e.points = p /\ e.closed = TRUE
        OBVIOUS
    <2> HIDE DEF e
    <2>2. Len(p) = 5 /\ ~ (5 < 3) /\ ~ (5 < 2)
        BY <1>4
    <2>3. ~ Empty(e)
        BY <2>1, <2>2, Zenon DEF Empty
    <2>4. QED
        BY <2>3 DEF e
<1>6. /\ Cyclic(p, 0) = p[1] /\ Cyclic(p, 1) = p[2] /\ Cyclic(p, 2) = p[3] /\ Cyclic(p, 3) = p[4]
      /\ Cyclic(p, 4) = p[5] /\ Cyclic(p, 5) = p[1] /\ Cyclic(p, 6) = p[2]
    <2>1. /\ (0 % 5) + 1 = 1 /\ (1 % 5) + 1 = 2 /\ (2 % 5) + 1 = 3 /\ (3 % 5) + 1 = 4
          /\ (4 % 5) + 1 = 5 /\ (5 % 5) + 1 = 1 /\ (6 % 5) + 1 = 2
        OBVIOUS
    <2>2. QED
        BY <1>4, <2>1, Zenon DEF Cyclic
<1>7. (x1 - x0) * (y1 - y0) \in Int /\ (x1 - x0) * (y1 - y0) >= 0
    <2>1. x1 - x0 \in Nat /\ y1 - y0 \in Nat
        BY <1>1
    <2>2. \A a, b \in Nat : a * b \in Int /\ a * b >= 0
        OBVIOUS
    <2>3. QED
        BY <2>1, <2>2, Zenon
<1>8. /\ Turning(p, 0) = - ((x1 - x0) * (y1 - y0)) /\ Turning(p, 1) = - ((x1 - x0) * (y1 - y0))
      /\ Turning(p, 2) = - ((x1 - x0) * (y1 - y0)) /\ Turning(p, 3) = 0 /\ Turning(p, 4) = 0
    <2>1. /\ Turning(p, 0) = Cross(p[1], p[2], p[3]) /\ Turning(p, 1) = Cross(p[2], p[3], p[4])
          /\ Turning(p, 2) = Cross(p[3], p[4], p[5]) /\ Turning(p, 3) = Cross(p[4], p[5], p[1])
          /\ Turning(p, 4) = Cross(p[5], p[1], p[2])
        <3>1. /\ 0 + 1 = 1 /\ 0 + 2 = 2 /\ 1 + 1 = 2 /\ 1 + 2 = 3 /\ 2 + 1 = 3 /\ 2 + 2 = 4
              /\ 3 + 1 = 4 /\ 3 + 2 = 5 /\ 4 + 1 = 5 /\ 4 + 2 = 6
            OBVIOUS
        <3>2. QED
            BY <1>6, <3>1, Zenon DEF Turning
    <2>2. QED
        BY <1>4, <2>1 DEF Cross
<1>9. ~ \E j, k \in 0 .. 5 - 1 : Turning(p, j) < 0 /\ Turning(p, k) > 0
    <2>1. \A k \in 0 .. 5 - 1 : k \in {0, 1, 2, 3, 4}
        OBVIOUS
    <2>2. \A k \in 0 .. 5 - 1 : ~ (Turning(p, k) > 0)
        BY <1>7, <1>8, <2>1
    <2>3. QED
        BY <2>2
<1>10. ~ (CwcSums(p)[5] > 0)
    <2>1. /\ CwcSums(p)[0] = 0 /\ CwcSums(p)[1] = CwcSums(p)[0] + Trapezoid(p, 1)
          /\ CwcSums(p)[2] = CwcSums(p)[1] + Trapezoid(p, 2)
          /\ CwcSums(p)[3] = CwcSums(p)[2] + Trapezoid(p, 3)
          /\ CwcSums(p)[4] = CwcSums(p)[3] + Trapezoid(p, 4)
          /\ CwcSums(p)[5] = CwcSums(p)[4] + Trapezoid(p, 5)
        <3>1. /\ CwcSums(p)[0] = 0
              /\ \A k \in 1 .. 5 : CwcSums(p)[k] = CwcSums(p)[k - 1] + Trapezoid(p, k)
            BY <1>4, CwcSteps
        <3>2. QED
            BY <3>1
    <2>2. /\ Trapezoid(p, 1) = (x1 - x0) * (y0 + y0) /\ Trapezoid(p, 2) = 0
          /\ Trapezoid(p, 3) = (x0 - x1) * (y1 + y1) /\ Trapezoid(p, 4) = 0
          /\ Trapezoid(p, 5) = 0
        <3>1. 1 - 1 = 0 /\ 2 - 1 = 1 /\ 3 - 1 = 2 /\ 4 - 1 = 3 /\ 5 - 1 = 4
            OBVIOUS
        <3>2. /\ Trapezoid(p, 1) = (p[2].x - p[1].x) * (p[2].y + p[1].y)
              /\ Trapezoid(p, 2) = (p[3].x - p[2].x) * (p[3].y + p[2].y)
              /\ Trapezoid(p, 3) = (p[4].x - p[3].x) * (p[4].y + p[3].y)
              /\ Trapezoid(p, 4) = (p[5].x - p[4].x) * (p[5].y + p[4].y)
              /\ Trapezoid(p, 5) = (p[1].x - p[5].x) * (p[1].y + p[5].y)
            BY <1>6, <3>1, Zenon DEF Trapezoid
        <3>3. /\ p[1].x = x0 /\ p[1].y = y0 /\ p[2].x = x1 /\ p[2].y = y0
              /\ p[3].x = x1 /\ p[3].y = y1 /\ p[4].x = x0 /\ p[4].y = y1
              /\ p[5].x = x0 /\ p[5].y = y0
            BY <1>4
        <3>4. \A a, b, c \in Int : (a - a) * (b + c) = 0
            OBVIOUS
        <3>5. QED
            BY <3>2, <3>3, <3>4
    <2>3. CwcSums(p)[5] = - 2 * ((x1 - x0) * (y1 - y0))
        <3>1. PICK a, b \in Int : a = (x1 - x0) * (y0 + y0) /\ b = (x0 - x1) * (y1 + y1)
            OBVIOUS
        <3>2. CwcSums(p)[5] = a + b
            BY <2>1, <2>2, <3>1
        <3>3. (x1 - x0) * (y0 + y0) + (x0 - x1) * (y1 + y1) = - 2 * ((x1 - x0) * (y1 - y0))
            OBVIOUS
        <3>4. QED
            BY <3>1, <3>2, <3>3
    <2>4. QED
        BY <1>7, <2>3
<1>11. /\ Min({p[k].x : k \in 1 .. 5}) = x0 /\ Max({p[k].x : k \in 1 .. 5}) = x1
       /\ Min({p[k].y : k \in 1 .. 5}) = y0 /\ Max({p[k].y : k \in 1 .. 5}) = y1
    <2>1. {p[k].x : k \in 1 .. 5} = {x0, x1} /\ {p[k].y : k \in 1 .. 5} = {y0, y1}
        <3>1. \A k \in 1 .. 5 : k \in {1, 2, 3, 4, 5}
            OBVIOUS
        <3>2. 1 \in 1 .. 5 /\ 2 \in 1 .. 5 /\ 3 \in 1 .. 5
            OBVIOUS
        <3>3. QED
            BY <1>4, <3>1, <3>2
    <2>2. ASSUME NEW a \in Int, NEW b \in Int, a <= b
          PROVE  Min({a, b}) = a /\ Max({a, b}) = b
        <3>1. /\ {a, b} \in SUBSET Int /\ a \in {a, b} /\ b \in {a, b}
              /\ (\A k \in {a, b} : a <= k) /\ \A k \in {a, b} : b >= k
            BY <2>2
        <3>2. QED
            BY <3>1, MinMaxIs, Zenon
    <2>3. QED
        BY <1>1, <2>1, <2>2, Zenon
<1>12. NewSeries(p, TRUE).convex = TRUE /\ NewSeries(p, TRUE).clockwise = FALSE
    <2>1. /\ NewSeries(p, TRUE).convex
               = (/\ ~ Empty([points |-> p, closed |-> TRUE])
                  /\ ~ \E j, k \in 0 .. 5 - 1 : Turning(p, j) < 0 /\ Turning(p, k) > 0)
          /\ NewSeries(p, TRUE).clockwise
               = (~ Empty([points |-> p, closed |-> TRUE]) /\ CwcSums(p)[5] > 0)
        BY <1>4, NewSeriesIs, Zenon
    <2>2. QED
        BY <1>5, <1>9, <1>10, <2>1
<1>13. NewSeries(p, TRUE).rect = rect
    <2>1. NewSeries(p, TRUE).rect
             = [min |-> [x |-> Min({p[k].x : k \in 1 .. 5}), y |-> Min({p[k].y : k \in 1 .. 5})],
                max |-> [x |-> Max({p[k].x : k \in 1 .. 5}), y |-> Max({p[k].y : k \in 1 .. 5})]]
        BY <1>4, <1>5, NewSeriesIs, Zenon
    <2>2. QED
        BY <1>1, <1>11, <2>1, Zenon
<1>14. NewSeries(p, TRUE) = [points |-> p, closed |-> TRUE, convex |-> NewSeries(p, TRUE).convex,
                             clockwise |-> NewSeries(p, TRUE).clockwise,
                             rect |-> NewSeries(p, TRUE).rect]
    BY DEF NewSeries
<1>15. NewSeries(p, TRUE) = RectRing(rect)
    BY <1>3, <1>12, <1>13, <1>14, Zenon
<1>16. QED
    BY <1>15 DEF p

(* Every query answers yes or no. *)
LEMMA YesOrNo ==
    ASSUME NEW g, NEW h, g.kind \in {"point", "rect", "line", "poly"},
           h.kind \in {"point", "rect", "line", "poly"}
    PROVE  /\ ~ (g.kind = "line" /\ h.kind = "line") => Contains(g, h) \in BOOLEAN
           /\ Intersects(g, h) \in BOOLEAN
<1>1. \A poly, p : PolyContainsPoint(poly, p) \in BOOLEAN
    <2> SUFFICES ASSUME NEW poly, NEW p PROVE PolyContainsPoint(poly, p) \in BOOLEAN
        OBVIOUS
    <2>1. PICK in : in = {k \in DOMAIN poly.holes : RingContainsPoint(poly.holes[k], p, FALSE).hit}
        OBVIOUS
    <2>2. \/ PolyContainsPointEx(poly, p) = [contains |-> FALSE, holeIndex |-> -1]
          \/ PolyContainsPointEx(poly, p)
                = [contains |-> in = {}, holeIndex |-> IF in = {} THEN -1 ELSE Min(in) - 1]
        BY <2>1, Zenon DEF PolyContainsPointEx
    <2>3. PICK c \in BOOLEAN :
             \E k : PolyContainsPointEx(poly, p) = [contains |-> c, holeIndex |-> k]
        <3>1. FALSE \in BOOLEAN /\ (in = {}) \in BOOLEAN
            OBVIOUS
        <3>2. QED
            BY <2>2, <3>1, Zenon
    <2>4. PolyContainsPointEx(poly, p).contains = c
        BY <2>3
    <2>5. QED
        BY <2>4 DEF PolyContainsPoint
<1>2. \A s, p : LineContainsPoint(s, p) \in BOOLEAN
    BY Zenon DEF LineContainsPoint
<1>3. \A s, poly : LineContainsPoly(s, poly) \in BOOLEAN
    BY Zenon DEF LineContainsPoly
<1>4. \A s, t : LineIntersectsLine(s, t) \in BOOLEAN
    BY Zenon DEF LineIntersectsLine
<1>5. \A poly, s : PolyContainsLine(poly, s) \in BOOLEAN /\ PolyIntersectsLine(poly, s) \in BOOLEAN
    BY Zenon DEF PolyContainsLine, PolyIntersectsLine
<1>6. \A p, q : PolyContainsPoly(p, q) \in BOOLEAN /\ PolyIntersectsPoly(p, q) \in BOOLEAN
    BY Zenon DEF PolyContainsPoly, PolyIntersectsPoly
<1>7. \A rect, s : RingIntersectsLine(RectRing(rect), s, TRUE) \in BOOLEAN
    BY Zenon DEF RingIntersectsLine
<1>8. /\ \A rect, p : RectContainsPoint(rect, p) \in BOOLEAN
      /\ \A rect, q : RectIntersectsRect(rect, q) \in BOOLEAN
    BY Zenon DEF RectContainsPoint, RectIntersectsRect
<1>9. \A p : PointContains(p, h) \in BOOLEAN /\ RectContains(p, h) \in BOOLEAN
    BY Zenon DEF PointContains, RectContains
<1>10. \A p : PointIntersects(p, h) \in BOOLEAN
    BY <1>1, <1>2, <1>8 DEF PointIntersects
<1>11. \A p : RectIntersects(p, h) \in BOOLEAN
    BY <1>6, <1>7, <1>8 DEF RectIntersects
<1>12. \A s : /\ LineIntersects(s, h) \in BOOLEAN
              /\ h.kind # "line" => LineContains(s, h) \in BOOLEAN
    BY <1>2, <1>3, <1>4, <1>5, <1>7 DEF LineIntersects, LineContains
<1>13. PolyContains(g, h) \in BOOLEAN /\ PolyIntersects(g, h) \in BOOLEAN
    BY <1>1, <1>5, <1>6 DEF PolyContains, PolyIntersects
<1>14. Intersects(g, h) \in BOOLEAN
    BY <1>10, <1>11, <1>12, <1>13 DEF Intersects
<1>15. QED
    BY <1>9, <1>12, <1>13, <1>14 DEF Contains

-----------------------------------------------------------------------------
(* Geometries that are made, moved on and moved back. *)

(* s is a series that has found out about its points. *)
Made(s) ==
    /\ s.points \in Seq(Point) /\ s.closed \in BOOLEAN /\ s.rect \in Rect
    /\ s = NewSeries(s.points, s.closed)

(* A series is like itself. *)
LEMMA AlikeItself ==
    ASSUME NEW s, Made(s)
    PROVE  Alike(s, s, Origin)
<1>1. \A k \in 1 .. Len(s.points) : s.points[k] \in Point
    BY DEF Made
<1>2. \A p \in Point : MovePoint(p, Origin) = p
    BY DEF MovePoint, Origin, Point
<1>3. s.rect = MoveRect(s.rect, Origin)
    <2>1. s.rect.min \in Point /\ s.rect.max \in Point
          /\ s.rect = [min |-> s.rect.min, max |-> s.rect.max]
        BY DEF Made, Rect
    <2>2. QED
        BY <1>2, <2>1 DEF MoveRect
<1>4. QED
    BY <1>1, <1>2, <1>3 DEF Alike, Made

(* A series like s that is moved on, and has found out anew, is like s. *)
LEMMA AlikeMove ==
    ASSUME NEW r, NEW s, NEW d \in Point, Alike(r, s, d), Made(s), NEW e \in Point
    PROVE  Alike(MoveSeries(r, e), s, MovePoint(d, e))
<1> DEFINE points == [k \in DOMAIN r.points |-> MovePoint(r.points[k], e)]
<1>1. /\ r.points \in Seq(Point) /\ s.points \in Seq(Point) /\ Len(r.points) = Len(s.points)
      /\ r.closed = s.closed /\ s.closed \in BOOLEAN
      /\ s = NewSeries(s.points, s.closed)
    BY DEF Alike, Made
<1>2. MoveSeries(r, e) = NewSeries(points, s.closed)
    BY <1>1, Zenon DEF MoveSeries
<1>3. points \in Seq(Point) /\ Len(points) = Len(s.points)
    <2>1. DOMAIN r.points = 1 .. Len(r.points) /\ Len(r.points) \in Nat
        BY <1>1
    <2>2. \A k \in 1 .. Len(r.points) : r.points[k] \in Point
        BY <1>1
    <2>3. \A k \in 1 .. Len(r.points) : MovePoint(r.points[k], e) \in Point
        BY <2>2, MovedPoint
    <2>4. points \in [1 .. Len(r.points) -> Point]
        BY <2>1, <2>3
    <2> HIDE DEF points
    <2>5. QED
        BY <1>1, <2>1, <2>4
<1>4. ASSUME NEW k \in 1 .. Len(s.points)
      PROVE  points[k] = MovePoint(s.points[k], MovePoint(d, e))
    <2>1. points[k] = MovePoint(r.points[k], e) /\ s.points[k] \in Point
        BY <1>1
    <2>2. r.points[k] = MovePoint(s.points[k], d)
        BY DEF Alike
    <2>3. \A p \in Point : MovePoint(MovePoint(p, d), e) = MovePoint(p, MovePoint(d, e))
        BY DEF MovePoint, Point
    <2> HIDE DEF points
    <2>4. QED
        BY <2>1, <2>2, <2>3, Zenon
<1>5. MovePoint(d, e) \in Point
    BY MovedPoint
<1> HIDE DEF points
<1>6. Alike(NewSeries(points, s.closed), NewSeries(s.points, s.closed), MovePoint(d, e))
    BY <1>1, <1>3, <1>4, <1>5, NewSeriesMoved
<1>7. QED
    BY <1>1, <1>2, <1>6, Zenon

(* A series is like one that is moved away from it, moved back. *)
LEMMA AlikeBack ==
    ASSUME NEW r, NEW s, NEW d \in Point, Alike(r, s, d)
    PROVE  Alike(s, r, Times(-1, d))
<1> DEFINE e == Times(-1, d)
<1>1. \A p \in Point : MovePoint(p, d) \in Point /\ p = MovePoint(MovePoint(p, d), e)
    BY DEF MovePoint, Times, Point
<1>2. \A q \in Rect : MoveRect(q, d) \in Rect /\ q = MoveRect(MoveRect(q, d), e)
    <2>1. \A q \in Rect : /\ q.min \in Point /\ q.max \in Point
                          /\ q = [min |-> q.min, max |-> q.max]
        BY DEF Rect
    <2> HIDE DEF e
    <2>2. QED
        BY <1>1, <2>1 DEF MoveRect, Rect
<1> HIDE DEF e
<1>3. \A k \in 1 .. Len(s.points) : s.points[k] = MovePoint(r.points[k], e)
    <2>1. \A k \in 1 .. Len(s.points) :
             s.points[k] \in Point /\ r.points[k] = MovePoint(s.points[k], d)
        BY DEF Alike
    <2>2. QED
        BY <1>1, <2>1
<1>4. Empty(r) <=> Empty(s)
    BY AlikeEdges
<1>5. Alike(s, r, e)
    BY <1>2, <1>3, <1>4 DEF Alike
<1>6. QED
    BY <1>5 DEF e

(* What is assumed of the geometries a client makes. *)
LEMMA MadeKinds ==
    ASSUME NEW g \in Geometries
    PROVE  /\ g.kind \in {"point", "rect", "line", "poly"}
           /\ g.kind = "point" => DOMAIN g = {"kind", "point"} /\ g.point \in Point
           /\ g.kind = "rect" => DOMAIN g = {"kind", "rect"} /\ g.rect \in Rect
           /\ g.kind = "line" => DOMAIN g = {"kind", "line"} /\ Made(g.line)
           /\ g.kind = "poly" => /\ DOMAIN g = {"kind", "exterior", "holes"}
                                 /\ Made(g.exterior) /\ g.exterior.closed
                                 /\ \A k \in DOMAIN g.holes : Made(g.holes[k]) /\ g.holes[k].closed
<1> DEFINE series(closed) == [points : Seq(Point), closed : {closed}, convex : BOOLEAN,
                              clockwise : BOOLEAN, rect : Rect]
<1>1. /\ g.kind \in {"point", "rect", "line", "poly"}
      /\ g.kind = "point" => DOMAIN g = {"kind", "point"} /\ g.point \in Point
      /\ g.kind = "rect" => DOMAIN g = {"kind", "rect"} /\ g.rect \in Rect
      /\ g.kind = "line" => DOMAIN g = {"kind", "line"} /\ g.line \in series(FALSE)
      /\ g.kind = "poly" => /\ DOMAIN g = {"kind", "exterior", "holes"}
                            /\ g.exterior \in series(TRUE)
                            /\ g.holes \in Seq(series(TRUE))
    <2>1. Geometries \subseteq [kind : {"point"}, point : Point]
                       \cup [kind : {"rect"}, rect : Rect]
                       \cup [kind : {"line"}, line : series(FALSE)]
                       \cup [kind : {"poly"}, exterior : series(TRUE), holes : Seq(series(TRUE))]
        BY KindsAssumption
    <2> HIDE DEF series
    <2>2. QED
        BY <2>1
<1>2. ASSUME NEW closed \in BOOLEAN, NEW s \in series(closed), s \in RingsOf(g) PROVE Made(s)
    <2>1. s.points \in Seq(Point) /\ s.closed \in BOOLEAN /\ s.rect \in Rect
        BY <1>2
    <2>2. /\ s = NewSeries(s.points, s.closed) \/ s = RectRing(s.rect)
          /\ s.rect.min.x <= s.rect.max.x /\ s.rect.min.y <= s.rect.max.y
        BY <1>2, MadeAssumption, Zenon
    <2>3. s = RectRing(s.rect) => s = NewSeries(s.points, s.closed)
        <3>1. RectRing(s.rect) = NewSeries(RectRing(s.rect).points, TRUE)
            BY <2>1, <2>2, RectRingMade, Zenon
        <3>2. RectRing(s.rect).closed = TRUE
            BY DEF RectRing
        <3>3. QED
            BY <3>1, <3>2, Zenon
    <2>4. QED
        BY <2>1, <2>2, <2>3, Zenon DEF Made
<1>3. \A closed \in BOOLEAN : \A s \in series(closed) : s.closed = closed
    OBVIOUS
<1> HIDE DEF series
<1>4. CASE g.kind = "line"
    <2>1. g.line \in RingsOf(g)
        BY <1>4 DEF RingsOf
    <2>2. QED
        BY <1>1, <1>2, <1>4, <2>1
<1>5. CASE g.kind = "poly"
    <2>1. RingsOf(g) = {g.exterior} \cup HolesOf(g)
        BY <1>5 DEF RingsOf
    <2>2. g.exterior \in RingsOf(g) /\ \A k \in DOMAIN g.holes : g.holes[k] \in RingsOf(g)
        BY <2>1 DEF HolesOf
    <2>3. /\ DOMAIN g = {"kind", "exterior", "holes"} /\ g.exterior \in series(TRUE)
          /\ \A k \in DOMAIN g.holes : g.holes[k] \in series(TRUE)
        <3>1. \A S : \A q \in Seq(S) : \A k \in DOMAIN q : q[k] \in S
            OBVIOUS
        <3>2. QED
            BY <1>1, <1>5, <3>1, Zenon
    <2>4. QED
        BY <1>2, <1>3, <1>5, <2>2, <2>3
<1>6. QED
    BY <1>1, <1>4, <1>5

(* A geometry that is made is itself, not moved. *)
LEMMA SameItself ==
    ASSUME NEW g \in Geometries
    PROVE  Same(g, g, Origin)
<1>1. \A p \in Point : MovePoint(p, Origin) = p
    BY DEF MovePoint, Origin, Point
<1>2. \A q \in Rect : MoveRect(q, Origin) = q
    <2>1. \A q \in Rect : /\ q.min \in Point /\ q.max \in Point
                          /\ q = [min |-> q.min, max |-> q.max]
        BY DEF Rect
    <2>2. QED
        BY <1>1, <2>1 DEF MoveRect
<1>3. QED
    BY <1>1, <1>2, MadeKinds, AlikeItself, Zenon DEF Same

(* Moved on. *)
LEMMA SameMove ==
    ASSUME NEW of \in Geometries, NEW g, NEW d \in Point, Same(g, of, d), DOMAIN g = DOMAIN of,
           NEW e \in Point
    PROVE  /\ Same(MoveGeometry(g, e), of, MovePoint(d, e))
           /\ DOMAIN MoveGeometry(g, e) = DOMAIN of
<1> DEFINE h == MoveGeometry(g, e)
           f == MovePoint(d, e)
<1>1. g.kind = of.kind /\ of.kind \in {"point", "rect", "line", "poly"}
    BY DEF Same
<1>2. \A p \in Point : MovePoint(MovePoint(p, d), e) = MovePoint(p, f)
    BY DEF MovePoint, Point
<1>3. CASE of.kind = "point"
    <2>1. DOMAIN g = {"kind", "point"} /\ of.point \in Point /\ g.point = MovePoint(of.point, d)
        BY <1>3, MadeKinds DEF Same
    <2>2. h = [g EXCEPT !.point = MovePoint(g.point, e)]
        BY <1>1, <1>3 DEF MoveGeometry
    <2> HIDE DEF h, f
    <2>3. DOMAIN h = DOMAIN g /\ h.kind = "point" /\ h.point = MovePoint(g.point, e)
        BY <1>1, <1>3, <2>1, <2>2
    <2>4. Same(h, of, f)
        BY <1>2, <1>3, <2>1, <2>3 DEF Same
    <2>5. QED
        BY <2>3, <2>4 DEF h, f
<1>4. CASE of.kind = "rect"
    <2>1. DOMAIN g = {"kind", "rect"} /\ of.rect \in Rect /\ g.rect = MoveRect(of.rect, d)
        BY <1>4, MadeKinds DEF Same
    <2>2. h = [g EXCEPT !.rect = MoveRect(g.rect, e)]
        BY <1>1, <1>4 DEF MoveGeometry
    <2> HIDE DEF h, f
    <2>3. DOMAIN h = DOMAIN g /\ h.kind = "rect" /\ h.rect = MoveRect(g.rect, e)
        BY <1>1, <1>4, <2>1, <2>2
    <2>4. MoveRect(MoveRect(of.rect, d), e) = MoveRect(of.rect, f)
        <3>1. of.rect.min \in Point /\ of.rect.max \in Point
            BY <2>1 DEF Rect
        <3>2. QED
            BY <1>2, <3>1 DEF MoveRect
    <2>5. Same(h, of, f)
        BY <1>4, <2>1, <2>3, <2>4 DEF Same
    <2>6. QED
        BY <2>3, <2>5 DEF h, f
<1>5. CASE of.kind = "line"
    <2>1. DOMAIN g = {"kind", "line"} /\ Made(of.line) /\ Alike(g.line, of.line, d)
        BY <1>5, MadeKinds DEF Same
    <2>2. h = [g EXCEPT !.line = MoveSeries(g.line, e)]
        BY <1>1, <1>5 DEF MoveGeometry
    <2>3. Alike(MoveSeries(g.line, e), of.line, f)
        BY <2>1, AlikeMove
    <2> HIDE DEF h, f
    <2>4. DOMAIN h = DOMAIN g /\ h.kind = "line" /\ h.line = MoveSeries(g.line, e)
        BY <1>1, <1>5, <2>1, <2>2
    <2>5. Same(h, of, f)
        BY <1>5, <2>3, <2>4 DEF Same
    <2>6. QED
        BY <2>4, <2>5 DEF h, f
<1>6. CASE of.kind = "poly"
    <2> DEFINE exterior == MoveSeries(g.exterior, e)
               holes == [k \in DOMAIN g.holes |-> MoveSeries(g.holes[k], e)]
    <2>1. /\ DOMAIN g = {"kind", "exterior", "holes"} /\ Made(of.exterior) /\ of.exterior.closed
          /\ \A k \in DOMAIN of.holes : Made(of.holes[k]) /\ of.holes[k].closed
        BY <1>6, MadeKinds
    <2>2. /\ Alike(g.exterior, of.exterior, d) /\ DOMAIN g.holes = DOMAIN of.holes
          /\ \A k \in DOMAIN of.holes : Alike(g.holes[k], of.holes[k], d)
        BY <1>6 DEF Same
    <2>3. h = [g EXCEPT !.exterior = exterior, !.holes = holes]
        BY <1>1, <1>6 DEF MoveGeometry, MovePoly
    <2>4. Alike(exterior, of.exterior, f)
        BY <2>1, <2>2, AlikeMove
    <2>5. DOMAIN holes = DOMAIN of.holes
        BY <2>2
    <2>6. ASSUME NEW k \in DOMAIN of.holes PROVE Alike(holes[k], of.holes[k], f)
        <3>1. holes[k] = MoveSeries(g.holes[k], e)
            BY <2>2
        <3> HIDE DEF holes
        <3>2. QED
            BY <2>1, <2>2, <3>1, AlikeMove
    <2> HIDE DEF h, f, exterior, holes
    <2>7. DOMAIN h = DOMAIN g /\ h.kind = "poly" /\ h.exterior = exterior /\ h.holes = holes
        BY <1>1, <1>6, <2>1, <2>3
    <2>8. Same(h, of, f)
        BY <1>6, <2>1, <2>4, <2>5, <2>6, <2>7 DEF Same
    <2>9. QED
        BY <2>7, <2>8 DEF h, f
<1>7. QED
    BY <1>1, <1>3, <1>4, <1>5, <1>6

(* Moved back. *)
LEMMA SameBack ==
    ASSUME NEW g, NEW of, NEW d \in Point, Same(g, of, d)
    PROVE  Same(of, g, Times(-1, d))
<1> DEFINE e == Times(-1, d)
<1>1. \A p \in Point : MovePoint(p, d) \in Point /\ p = MovePoint(MovePoint(p, d), e)
    BY DEF MovePoint, Times, Point
<1>2. \A q \in Rect : MoveRect(q, d) \in Rect /\ q = MoveRect(MoveRect(q, d), e)
    <2>1. \A q \in Rect : /\ q.min \in Point /\ q.max \in Point
                          /\ q = [min |-> q.min, max |-> q.max]
        BY DEF Rect
    <2> HIDE DEF e
    <2>2. QED
        BY <1>1, <2>1 DEF MoveRect, Rect
<1> HIDE DEF e
<1>3. \A r, s : Alike(r, s, d) => Alike(s, r, e) /\ r.closed = s.closed
    BY AlikeBack DEF e, Alike
<1>4. Same(of, g, e)
    BY <1>1, <1>2, <1>3 DEF Same
<1>5. QED
    BY <1>4 DEF e

(* The first geometry is like the one that was made, where it has been     *)
(* moved to, and the answer is about it.                                   *)
Carried ==
    /\ Tracked
    /\ call.op \in Asked =>
          Same(call.g, call.of, call.by) /\ DOMAIN call.g = DOMAIN call.of
    /\ call.op = "Contains" => /\ ~ (call.g.kind = "line" /\ call.h.kind = "line")
                               /\ call.res = Contains(call.g, call.h)
    /\ call.op = "Intersects" => call.res = Intersects(call.g, call.h)

(* The geometries are made. *)
LEMMA MakeCarried ==
    ASSUME NEW g \in Geometries, NEW h \in Geometries, Make(g, h)
    PROVE  Carried'
<1>1. Tracked'
    BY MakeTracked
<1>2. call'.op = "Make" /\ call'.g = g /\ call'.of = g /\ call'.by = Origin
    BY DEF Make
<1>3. Same(g, g, Origin)
    BY SameItself
<1>4. QED
    BY <1>1, <1>2, <1>3 DEF Carried

(* The first one is moved. *)
LEMMA MoveCarried ==
    ASSUME Carried, NEW delta \in Deltas, Move(delta)
    PROVE  Carried'
<1>1. Tracked'
    BY MoveTracked DEF Carried
<1>2. call.op = "Make" /\ delta \in Point
    BY WidthAssumption DEF Move
<1>3. /\ {"op", "g", "h", "of", "by"} \subseteq DOMAIN call
      /\ call.of \in Geometries /\ call.by \in Point
      /\ Same(call.g, call.of, call.by) /\ DOMAIN call.g = DOMAIN call.of
    BY <1>2 DEF Carried, Tracked, Asked
<1> DEFINE g == MoveGeometry(call.g, delta)
           by == MovePoint(call.by, delta)
<1>4. Same(g, call.of, by) /\ DOMAIN g = DOMAIN call.of
    BY <1>2, <1>3, SameMove
<1>5. call' = [call EXCEPT !.g = g, !.by = by]
    BY DEF Move
<1> HIDE DEF g, by
<1>6. call'.op = "Make" /\ call'.g = g /\ call'.of = call.of /\ call'.by = by
    BY <1>2, <1>3, <1>5
<1>7. QED
    BY <1>1, <1>4, <1>6 DEF Carried

(* It is asked. *)
LEMMA AnswerCarried ==
    ASSUME Carried, Tracked', call.op = "Make", NEW op \in Asked \ {"Make"}, NEW res,
           Answer(op, res),
           op = "Contains" => /\ ~ (call.g.kind = "line" /\ call.h.kind = "line")
                              /\ res = Contains(call.g, call.h),
           op = "Intersects" => res = Intersects(call.g, call.h)
    PROVE  Carried'
<1>1. Same(call.g, call.of, call.by) /\ DOMAIN call.g = DOMAIN call.of
    BY DEF Carried, Asked
<1>2. /\ call'.op = op /\ call'.g = call.g /\ call'.h = call.h
      /\ call'.of = call.of /\ call'.by = call.by /\ call'.res = res
    BY DEF Answer
<1>3. QED
    BY <1>1, <1>2 DEF Carried

LEMMA StepCarried == Carried /\ [Next]_call => Carried'
<1> SUFFICES ASSUME Carried, [Next]_call PROVE Carried'
    OBVIOUS
<1>0. Tracked'
    BY StepTracked DEF Carried
<1>1. CASE SegmentCall
    <2>1. call'.op \notin Asked
        BY <1>1 DEF SegmentCall, CallRaycast, CallIntersectsSegment, Asked
    <2>2. QED
        BY <1>0, <2>1 DEF Carried, Asked
<1>2. CASE \E g, h \in Geometries : Make(g, h)
    BY <1>2, MakeCarried
<1>3. CASE \E delta \in Deltas : Move(delta)
    BY <1>3, MoveCarried
<1>4. CASE CallContains
    BY <1>0, <1>4, AnswerCarried DEF CallContains, Asked
<1>5. CASE CallIntersects
    BY <1>0, <1>5, AnswerCarried DEF CallIntersects, Asked
<1>6. CASE CallContainsPointEx
    BY <1>0, <1>6, AnswerCarried DEF CallContainsPointEx, Asked
<1>7. CASE Return
    BY <1>0, <1>7 DEF Return, Idle, Carried, Asked
<1>8. CASE call' = call
    BY <1>8, Zenon DEF Carried, Tracked
<1>9. QED
    BY <1>1, <1>2, <1>3, <1>4, <1>5, <1>6, <1>7, <1>8, Zenon DEF Next

LEMMA CarriedRelative == Carried => MoveIsRelative
<1> SUFFICES ASSUME Carried, call.op \in {"Contains", "Intersects"} PROVE MoveIsRelative
    BY DEF MoveIsRelative
<1> DEFINE back == Times(-1, call.by)
           h == MoveGeometry(call.h, back)
<1>1. /\ call.of \in Geometries /\ call.h \in Geometries /\ call.by \in Point
      /\ Same(call.g, call.of, call.by)
    BY DEF Carried, Tracked, Asked
<1>2. /\ back \in Point /\ Times(-1, back) = call.by
      /\ Origin \in Point /\ MovePoint(Origin, back) = back
    BY <1>1 DEF Times, Point, Origin, MovePoint
<1>3. Same(h, call.h, back)
    <2>1. Same(call.h, call.h, Origin)
        BY <1>1, SameItself
    <2> HIDE DEF back
    <2>2. QED
        BY <1>1, <1>2, <2>1, SameMove
<1>4. Same(call.h, h, call.by)
    <2> HIDE DEF h, back
    <2>1. QED
        BY <1>2, <1>3, SameBack
<1>5. /\ call.g.kind = call.of.kind /\ call.of.kind \in {"point", "rect", "line", "poly"}
      /\ call.h.kind = h.kind /\ h.kind \in {"point", "rect", "line", "poly"}
    BY <1>1, <1>4, Zenon DEF Same
<1> HIDE DEF h
<1>6. CASE call.op = "Contains"
    <2>1. ~ (call.g.kind = "line" /\ call.h.kind = "line") /\ call.res = Contains(call.g, call.h)
        BY <1>6 DEF Carried
    <2>2. Contains(call.g, call.h) <=> Contains(call.of, h)
        BY <1>1, <1>4, <1>5, <2>1, SameAnswers
    <2>3. Contains(call.g, call.h) \in BOOLEAN /\ Contains(call.of, h) \in BOOLEAN
        BY <1>5, <2>1, YesOrNo
    <2>4. call.res = Contains(call.of, h)
        BY <2>1, <2>2, <2>3
    <2>5. QED
        BY <1>6, <2>4, Zenon DEF MoveIsRelative, h
<1>7. CASE call.op = "Intersects"
    <2>1. call.res = Intersects(call.g, call.h)
        BY <1>7 DEF Carried
    <2>2. Intersects(call.g, call.h) <=> Intersects(call.of, h)
        BY <1>1, <1>4, SameAnswers
    <2>3. Intersects(call.g, call.h) \in BOOLEAN /\ Intersects(call.of, h) \in BOOLEAN
        BY <1>5, YesOrNo
    <2>4. call.res = Intersects(call.of, h)
        BY <2>1, <2>2, <2>3
    <2>5. QED
        BY <1>7, <2>4 DEF MoveIsRelative, h
<1>8. QED
    BY <1>6, <1>7

(* Contains and Intersects answer of a geometry that was moved, any number *)
(* of times, what it answered where it was made of the other one moved     *)
(* back: no answer depends on where the two are, only on where they are to *)
(* each other.  Move finds out anew about convexity and winding, and finds *)
(* what was known; a Rect that it makes into a series is still a rectangle *)
(* to every query.  Of the geometries only their kinds and MadeAssumption  *)
(* are used.                                                               *)
THEOREM MovesAreRelative == Spec => []MoveIsRelative
<1>1. Init => Carried
    BY DEF Init, Idle, Carried, Tracked, Asked
<1>2. QED
    BY <1>1, StepCarried, CarriedRelative, PTL DEF Spec
=============================================================================
