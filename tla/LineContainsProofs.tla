------------------------- MODULE LineContainsProofs -------------------------
(***************************************************************************)
(* What an answer of ContainsLine says, for lines of any length and any    *)
(* coordinates, as long as line does not touch itself: after true, the     *)
(* first segment of other that is not covered can only have left a segment *)
(* of line between its ends; and if only the last one is in doubt, true    *)
(* says that it is covered or leaves like that, false that it does not.    *)
(*                                                                         *)
(* While other is covered, the point of other that is to be followed lies  *)
(* on the current segment of line.  If it is no end of it, it lies on no   *)
(* other segment of line, so what is passed over there is not covered.  If *)
(* it is an end of line, only the current segment can cover what comes.    *)
(***************************************************************************)
EXTENDS LineContains, PlanarProofs

Line == [points : Seq(Point), closed : {FALSE}]

(* The segments of an open line join its points in turn.                   *)
LEMMA OpenSegments ==
    ASSUME NEW s \in Line, ~ Empty(s)
    PROVE  /\ Len(s.points) \in Nat /\ Len(s.points) >= 2
           /\ NumSegments(s) = Len(s.points) - 1
           /\ \A k \in 0 .. Len(s.points) - 1 : PointAt(s, k) \in Point
           /\ \A k \in 0 .. NumSegments(s) - 1 :
                 /\ SegmentAt(s, k) \in Segment
                 /\ SegmentAt(s, k).a = PointAt(s, k)
                 /\ SegmentAt(s, k).b = PointAt(s, k + 1)
<1>1. s.points \in Seq(Point) /\ ~ s.closed
    BY DEF Line
<1>2. /\ Len(s.points) \in Nat /\ Len(s.points) >= 2
      /\ NumSegments(s) = Len(s.points) - 1
    BY <1>1 DEF Empty, NumSegments
<1>3. \A k \in 0 .. Len(s.points) - 1 : PointAt(s, k) \in Point
    BY <1>1 DEF PointAt
<1>4. ASSUME NEW k \in 0 .. NumSegments(s) - 1
      PROVE  /\ SegmentAt(s, k) \in Segment
             /\ SegmentAt(s, k).a = PointAt(s, k)
             /\ SegmentAt(s, k).b = PointAt(s, k + 1)
    <2>1. k # Len(s.points) - 1 /\ k \in 0 .. Len(s.points) - 1
             /\ k + 1 \in 0 .. Len(s.points) - 1
        BY <1>2
    <2>2. SegmentAt(s, k) = [a |-> PointAt(s, k), b |-> PointAt(s, k + 1)]
        BY <2>1 DEF SegmentAt
    <2>3. QED
        BY <1>3, <2>1, <2>2 DEF Segment
<1>5. QED
    BY <1>2, <1>3, <1>4

(* The ends of a segment lie on it.                                        *)
LEMMA EndsOnSegment ==
    ASSUME NEW seg \in Segment
    PROVE  OnSegment(seg, seg.a) /\ OnSegment(seg, seg.b)
<1>1. /\ seg.a.x \in Int /\ seg.a.y \in Int /\ seg.b.x \in Int /\ seg.b.y \in Int
    BY DEF Segment, Point
<1>2. CollinearPoint(seg, seg.a) /\ CollinearPoint(seg, seg.b)
    BY <1>1 DEF CollinearPoint, Cross
<1>3. /\ RectContainsPoint(SegmentRect(seg), seg.a)
      /\ RectContainsPoint(SegmentRect(seg), seg.b)
    BY <1>1 DEF RectContainsPoint, SegmentRect, Lesser, Greater
<1>4. QED
    BY <1>2, <1>3 DEF OnSegment

(* ContainsPoint and ContainsSegment say what they should.                 *)
LEMMA ContainsIsOn ==
    ASSUME NEW seg \in Segment, NEW p \in Point
    PROVE  SegmentContainsPoint(seg, p) <=> OnSegment(seg, p)
    BY RaycastOnIs, RaycastOnExact DEF SegmentContainsPoint

LEMMA ContainsSegmentIsOn ==
    ASSUME NEW seg \in Segment, NEW t \in Segment
    PROVE  ContainsSegment(seg, t) <=> OnSegment(seg, t.a) /\ OnSegment(seg, t.b)
<1>1. t.a \in Point /\ t.b \in Point
    BY DEF Segment
<1>2. QED
    BY <1>1, RaycastOnIs, RaycastOnExact DEF ContainsSegment

(* A segment with an end on another one meets it.                          *)
LEMMA EndMeets ==
    ASSUME NEW s \in Segment, NEW t \in Segment,
           OnSegment(s, t.a) \/ OnSegment(s, t.b)
    PROVE  IntersectsSegment(s, t)
    BY IntersectsSegmentExact DEF SharePoint, Swallowed

(* A segment from (ax, ay) to (bx, by) passes through 0.                   *)
ZeroIn(m, n) == (m <= 0 /\ 0 <= n) \/ (n <= 0 /\ 0 <= m)
Through(ax, ay, bx, by) == ay * bx = ax * by /\ ZeroIn(ax, bx) /\ ZeroIn(ay, by)

LEMMA OnIsThrough ==
    ASSUME NEW seg \in Segment, NEW p \in Point
    PROVE  OnSegment(seg, p) <=> Through(seg.a.x - p.x, seg.a.y - p.y,
                                         seg.b.x - p.x, seg.b.y - p.y)
<1>1. /\ seg.a \in Point /\ seg.b \in Point
      /\ seg.a.x \in Int /\ seg.a.y \in Int /\ seg.b.x \in Int /\ seg.b.y \in Int
      /\ p.x \in Int /\ p.y \in Int
    BY DEF Segment, Point
<1>2. PICK u \in Int, v \in Int :
         /\ u = (seg.a.y - p.y) * (seg.b.x - p.x)
         /\ v = (seg.a.x - p.x) * (seg.b.y - p.y)
    BY <1>1
<1>3. CollinearPoint(seg, p) <=> u = v
    <2>1. Cross(seg.a, seg.b, p) = (seg.a.y - p.y) * (seg.b.x - p.x)
                                      - (seg.a.x - p.x) * (seg.b.y - p.y)
        BY <1>1, CrossFrom, Zenon
    <2>2. Cross(seg.a, seg.b, p) = u - v
        BY <1>2, <2>1, Zenon
    <2>3. QED
        BY <2>2 DEF CollinearPoint
<1>4. RectContainsPoint(SegmentRect(seg), p) <=>
          ZeroIn(seg.a.x - p.x, seg.b.x - p.x) /\ ZeroIn(seg.a.y - p.y, seg.b.y - p.y)
    BY <1>1 DEF RectContainsPoint, SegmentRect, Lesser, Greater, ZeroIn
<1>5. QED
    BY <1>2, <1>3, <1>4 DEF OnSegment, Through

(* Its ends are not on the same side of a line through 0, and only an end  *)
(* at 0 is on that line alone.                                             *)
LEMMA Opposite ==
    ASSUME NEW ax \in Int, NEW ay \in Int, NEW bx \in Int, NEW by \in Int,
           Through(ax, ay, bx, by),
           NEW wx \in Int, NEW wy \in Int, NEW f \in Int, NEW g \in Int,
           f = Cr(ax, ay, wx, wy), g = Cr(bx, by, wx, wy)
    PROVE  /\ f = 0 \/ g = 0 \/ (f < 0 /\ g > 0) \/ (f > 0 /\ g < 0)
           /\ f = 0 /\ g # 0 => ax = 0 /\ ay = 0
           /\ f # 0 /\ g = 0 => bx = 0 /\ by = 0
<1>1. bx * f = ax * g /\ by * f = ay * g
    <2>1. /\ bx * f = bx * (ax * wy) - (ay * bx) * wx
          /\ ax * g = bx * (ax * wy) - (ax * by) * wx
          /\ by * f = (ax * by) * wy - by * (ay * wx)
          /\ ay * g = (ay * bx) * wy - by * (ay * wx)
        BY DEF Cr
    <2>2. ay * bx = ax * by
        BY DEF Through
    <2>3. QED
        BY <2>1, <2>2
<1>2. \A a, b, m, n \in Int :
         (ZeroIn(a, b) /\ b * m = a * n /\ ((m > 0 /\ n > 0) \/ (m < 0 /\ n < 0)))
            => a = 0 /\ b = 0
    BY SMTT(30) DEF ZeroIn
<1>3. \A a, b, m, n \in Int : b * m = a * n =>
         (m = 0 /\ n # 0 => a = 0) /\ (m # 0 /\ n = 0 => b = 0)
    OBVIOUS
<1>4. ZeroIn(ax, bx) /\ ZeroIn(ay, by)
    BY DEF Through
<1>5. CASE (f > 0 /\ g > 0) \/ (f < 0 /\ g < 0)
    <2>1. ax = 0 /\ bx = 0 /\ ay = 0 /\ by = 0
        BY <1>1, <1>2, <1>4, <1>5
    <2>2. QED
        BY <1>5, <2>1 DEF Cr
<1>6. CASE ~ ((f > 0 /\ g > 0) \/ (f < 0 /\ g < 0))
    <2>1. /\ (f = 0 /\ g # 0 => ax = 0) /\ (f # 0 /\ g = 0 => bx = 0)
          /\ (f = 0 /\ g # 0 => ay = 0) /\ (f # 0 /\ g = 0 => by = 0)
        BY <1>1, <1>3, SMTT(30)
    <2>2. f = 0 \/ g = 0 \/ (f < 0 /\ g > 0) \/ (f > 0 /\ g < 0)
        BY <1>6
    <2>3. QED
        BY <2>1, <2>2
<1>7. QED
    BY <1>5, <1>6

(* A point of the line through a segment that is in its range in an axis   *)
(* along which the segment has a length lies on it.                        *)
LEMMA OnByAxis ==
    ASSUME NEW seg \in Segment, NEW q \in Point, Cross(seg.a, seg.b, q) = 0
    PROVE  /\ seg.a.x # seg.b.x /\ Between(q.x, seg.a.x, seg.b.x) => OnSegment(seg, q)
           /\ seg.a.y # seg.b.y /\ Between(q.y, seg.a.y, seg.b.y) => OnSegment(seg, q)
<1>1. /\ seg.a.x \in Int /\ seg.a.y \in Int /\ seg.b.x \in Int /\ seg.b.y \in Int
      /\ q.x \in Int /\ q.y \in Int
    BY DEF Segment, Point
<1>2. PICK rx \in Int, ry \in Int, ex \in Int, ey \in Int :
         /\ rx = seg.b.x - seg.a.x /\ ry = seg.b.y - seg.a.y
         /\ ex = q.x - seg.a.x /\ ey = q.y - seg.a.y
    <2>1. /\ seg.b.x - seg.a.x \in Int /\ seg.b.y - seg.a.y \in Int
          /\ q.x - seg.a.x \in Int /\ q.y - seg.a.y \in Int
        BY <1>1
    <2>2. QED
        BY <2>1, Zenon
<1>3. Cr(ex, ey, rx, ry) = 0
    BY <1>2 DEF Cr, Cross
<1>4. /\ (rx # 0 /\ Btw(ex, rx)) => OnSegment(seg, q)
      /\ (ry # 0 /\ Btw(ey, ry)) => OnSegment(seg, q)
    BY <1>2, <1>3, OneAxis, OnSegmentVector
<1>5. /\ seg.a.x # seg.b.x /\ Between(q.x, seg.a.x, seg.b.x) => rx # 0 /\ Btw(ex, rx)
      /\ seg.a.y # seg.b.y /\ Between(q.y, seg.a.y, seg.b.y) => ry # 0 /\ Btw(ey, ry)
    BY <1>1, <1>2 DEF Between, Btw, Lesser, Greater
<1>6. QED
    BY <1>4, <1>5

(* Two segments that have a point in common share one in the sense of the  *)
(* reference: an end of one lies on the other or they cross.               *)
LEMMA CommonPoint ==
    ASSUME NEW s \in Segment, NEW t \in Segment, NEW p \in Point,
           OnSegment(s, p), OnSegment(t, p)
    PROVE  SharePoint(s, t)
<1>1. /\ s.a \in Point /\ s.b \in Point /\ t.a \in Point /\ t.b \in Point
      /\ s.a.x \in Int /\ s.a.y \in Int /\ s.b.x \in Int /\ s.b.y \in Int
      /\ t.a.x \in Int /\ t.a.y \in Int /\ t.b.x \in Int /\ t.b.y \in Int
      /\ p.x \in Int /\ p.y \in Int
    BY DEF Segment, Point
<1>2. PICK ax \in Int, ay \in Int, bx \in Int, by \in Int,
           cx \in Int, cy \in Int, dx \in Int, dy \in Int :
         /\ ax = s.a.x - p.x /\ ay = s.a.y - p.y /\ bx = s.b.x - p.x /\ by = s.b.y - p.y
         /\ cx = t.a.x - p.x /\ cy = t.a.y - p.y /\ dx = t.b.x - p.x /\ dy = t.b.y - p.y
    <2>1. /\ s.a.x - p.x \in Int /\ s.a.y - p.y \in Int /\ s.b.x - p.x \in Int
          /\ s.b.y - p.y \in Int /\ t.a.x - p.x \in Int /\ t.a.y - p.y \in Int
          /\ t.b.x - p.x \in Int /\ t.b.y - p.y \in Int
        BY <1>1
    <2>2. QED
        BY <2>1, Zenon
<1>3. Through(ax, ay, bx, by) /\ Through(cx, cy, dx, dy)
    BY <1>2, OnIsThrough
<1>4. PICK fa \in Int, fb \in Int, gc \in Int, gd \in Int :
         /\ fa = Cr(ax, ay, dx - cx, dy - cy) /\ fb = Cr(bx, by, dx - cx, dy - cy)
         /\ gc = Cr(cx, cy, bx - ax, by - ay) /\ gd = Cr(dx, dy, bx - ax, by - ay)
    BY DEF Cr
<1>5. /\ Cross(t.a, t.b, s.a) = fa /\ Cross(t.a, t.b, s.b) = fb
      /\ Cross(s.a, s.b, t.a) = gc /\ Cross(s.a, s.b, t.b) = gd
    <2>1. /\ s.a.x - t.a.x = ax - cx /\ s.a.y - t.a.y = ay - cy
          /\ s.b.x - t.a.x = bx - cx /\ s.b.y - t.a.y = by - cy
          /\ t.b.x - t.a.x = dx - cx /\ t.b.y - t.a.y = dy - cy
          /\ t.a.x - s.a.x = cx - ax /\ t.a.y - s.a.y = cy - ay
          /\ t.b.x - s.a.x = dx - ax /\ t.b.y - s.a.y = dy - ay
          /\ s.b.x - s.a.x = bx - ax /\ s.b.y - s.a.y = by - ay
        BY <1>1, <1>2
    <2>2. \A ex, ey, ux, uy, vx, vy \in Int : uy * vx = ux * vy =>
             (ex - ux) * (vy - uy) - (ey - uy) * (vx - ux)
                = ex * (vy - uy) - ey * (vx - ux)
        BY SMTT(30)
    <2>3. cy * dx = cx * dy /\ ay * bx = ax * by
        BY <1>3 DEF Through
    <2>4. /\ Cross(t.a, t.b, s.a) = (ax - cx) * (dy - cy) - (ay - cy) * (dx - cx)
          /\ Cross(t.a, t.b, s.b) = (bx - cx) * (dy - cy) - (by - cy) * (dx - cx)
          /\ Cross(s.a, s.b, t.a) = (cx - ax) * (by - ay) - (cy - ay) * (bx - ax)
          /\ Cross(s.a, s.b, t.b) = (dx - ax) * (by - ay) - (dy - ay) * (bx - ax)
        BY <2>1, Zenon DEF Cross
    <2>5. QED
        BY <1>4, <2>2, <2>3, <2>4 DEF Cr
<1>6. /\ fa = 0 \/ fb = 0 \/ (fa < 0 /\ fb > 0) \/ (fa > 0 /\ fb < 0)
      /\ fa = 0 /\ fb # 0 => ax = 0 /\ ay = 0
      /\ fa # 0 /\ fb = 0 => bx = 0 /\ by = 0
    <2>1. dx - cx \in Int /\ dy - cy \in Int
        OBVIOUS
    <2>2. PICK wx \in Int, wy \in Int : wx = dx - cx /\ wy = dy - cy
        BY <2>1, Zenon
    <2>3. fa = Cr(ax, ay, wx, wy) /\ fb = Cr(bx, by, wx, wy)
        BY <1>4, <2>2, Zenon
    <2>4. QED
        BY <1>3, <2>3, Opposite
<1>7. /\ gc = 0 \/ gd = 0 \/ (gc < 0 /\ gd > 0) \/ (gc > 0 /\ gd < 0)
      /\ gc = 0 /\ gd # 0 => cx = 0 /\ cy = 0
      /\ gc # 0 /\ gd = 0 => dx = 0 /\ dy = 0
    <2>1. bx - ax \in Int /\ by - ay \in Int
        OBVIOUS
    <2>2. PICK wx \in Int, wy \in Int : wx = bx - ax /\ wy = by - ay
        BY <2>1, Zenon
    <2>3. gc = Cr(cx, cy, wx, wy) /\ gd = Cr(dx, dy, wx, wy)
        BY <1>4, <2>2, Zenon
    <2>4. QED
        BY <1>3, <2>3, Opposite
<1>8. /\ ax = 0 /\ ay = 0 => OnSegment(t, s.a)
      /\ bx = 0 /\ by = 0 => OnSegment(t, s.b)
      /\ cx = 0 /\ cy = 0 => OnSegment(s, t.a)
      /\ dx = 0 /\ dy = 0 => OnSegment(s, t.b)
    <2>1. \A q \in Point : q.x - p.x = 0 /\ q.y - p.y = 0 => q = p
        BY DEF Point
    <2>2. QED
        BY <1>1, <1>2, <2>1
<1>9. CASE fa # 0 /\ fb # 0 /\ gc # 0 /\ gd # 0
    BY <1>5, <1>6, <1>7, <1>9 DEF SharePoint, Separated
<1>10. CASE (fa = 0) # (fb = 0) \/ (gc = 0) # (gd = 0)
    BY <1>6, <1>7, <1>8, <1>10 DEF SharePoint
<1>11. fb - fa = - (gd - gc)
    BY <1>4 DEF Cr
<1>12. CASE fa = 0 /\ fb = 0 /\ gc = 0 /\ gd = 0
    <2>0. ZeroIn(ax, bx) /\ ZeroIn(ay, by) /\ ZeroIn(cx, dx) /\ ZeroIn(cy, dy)
        BY <1>3 DEF Through
    <2>1. CASE ax # bx
        <3>1. \/ Between(t.a.x, s.a.x, s.b.x) \/ Between(t.b.x, s.a.x, s.b.x)
              \/ t.a.x # t.b.x /\ Between(s.a.x, t.a.x, t.b.x)
            BY <1>1, <1>2, <2>0 DEF Between, Lesser, Greater, ZeroIn
        <3>2. QED
            BY <1>1, <1>2, <1>5, <1>12, <2>1, <3>1, OnByAxis DEF SharePoint
    <2>2. CASE ay # by
        <3>1. \/ Between(t.a.y, s.a.y, s.b.y) \/ Between(t.b.y, s.a.y, s.b.y)
              \/ t.a.y # t.b.y /\ Between(s.a.y, t.a.y, t.b.y)
            BY <1>1, <1>2, <2>0 DEF Between, Lesser, Greater, ZeroIn
        <3>2. QED
            BY <1>1, <1>2, <1>5, <1>12, <2>2, <3>1, OnByAxis DEF SharePoint
    <2>3. CASE ax = bx /\ ay = by
        <3>1. ax = 0 /\ ay = 0
            BY <2>0, <2>3 DEF ZeroIn
        <3>2. QED
            BY <1>8, <3>1 DEF SharePoint
    <2>4. QED
        BY <2>1, <2>2, <2>3
<1>13. QED
    BY <1>6, <1>7, <1>9, <1>10, <1>11, <1>12

(* Of two segments that follow each other and have another point in common *)
(* one ends on the other.                                                  *)
LEMMA FoldedBack ==
    ASSUME NEW s \in Segment, NEW t \in Segment, s.b = t.a, NEW p \in Point, p # s.b,
           OnSegment(s, p), OnSegment(t, p)
    PROVE  OnSegment(s, t.b) \/ OnSegment(t, s.a)
<1>1. /\ s.a \in Point /\ s.b \in Point /\ t.b \in Point
      /\ s.a.x \in Int /\ s.a.y \in Int /\ s.b.x \in Int /\ s.b.y \in Int
      /\ t.b.x \in Int /\ t.b.y \in Int /\ p.x \in Int /\ p.y \in Int
    BY DEF Segment, Point
<1>2. PICK ax \in Int, ay \in Int, bx \in Int, by \in Int, dx \in Int, dy \in Int :
         /\ ax = s.a.x - p.x /\ ay = s.a.y - p.y /\ bx = s.b.x - p.x /\ by = s.b.y - p.y
         /\ dx = t.b.x - p.x /\ dy = t.b.y - p.y
    <2>1. /\ s.a.x - p.x \in Int /\ s.a.y - p.y \in Int /\ s.b.x - p.x \in Int
          /\ s.b.y - p.y \in Int /\ t.b.x - p.x \in Int /\ t.b.y - p.y \in Int
        BY <1>1
    <2>2. QED
        BY <2>1, Zenon
<1>3. Through(ax, ay, bx, by) /\ Through(bx, by, dx, dy)
    BY <1>2, OnIsThrough
<1>4. bx # 0 \/ by # 0
    <2>1. p.x # s.b.x \/ p.y # s.b.y
        BY <1>1 DEF Point
    <2>2. QED
        BY <1>1, <1>2, <2>1
<1>5. ax * dy = ay * dx
    <2>1. ay * bx = ax * by /\ by * dx = bx * dy
        BY <1>3 DEF Through
    <2>2. /\ bx * (ax * dy) = ax * (bx * dy) /\ bx * (ay * dx) = (ay * bx) * dx
          /\ ax * (by * dx) = (ax * by) * dx
          /\ by * (ax * dy) = (ax * by) * dy /\ by * (ay * dx) = ay * (by * dx)
          /\ ay * (bx * dy) = (ay * bx) * dy
        OBVIOUS
    <2>3. bx * (ax * dy) = bx * (ay * dx) /\ by * (ax * dy) = by * (ay * dx)
        BY <2>1, <2>2
    <2>4. \A c, m, n \in Int : c # 0 /\ c * m = c * n => m = n
        OBVIOUS
    <2>5. ax * dy \in Int /\ ay * dx \in Int
        OBVIOUS
    <2>6. QED
        BY <1>4, <2>3, <2>4, <2>5
<1>6. Cross(s.a, s.b, t.b) = 0 /\ Cross(t.a, t.b, s.a) = 0
    <2>1. /\ t.b.x - s.a.x = dx - ax /\ t.b.y - s.a.y = dy - ay
          /\ s.b.x - s.a.x = bx - ax /\ s.b.y - s.a.y = by - ay
          /\ s.a.x - t.a.x = ax - bx /\ s.a.y - t.a.y = ay - by
          /\ t.b.x - t.a.x = dx - bx /\ t.b.y - t.a.y = dy - by
        BY <1>1, <1>2
    <2>2. /\ Cross(s.a, s.b, t.b) = (dx - ax) * (by - ay) - (dy - ay) * (bx - ax)
          /\ Cross(t.a, t.b, s.a) = (ax - bx) * (dy - by) - (ay - by) * (dx - bx)
        BY <2>1, Zenon DEF Cross
    <2>3. ay * bx = ax * by /\ by * dx = bx * dy
        BY <1>3 DEF Through
    <2>4. /\ (dx - ax) * (by - ay) - (dy - ay) * (bx - ax)
                = (by * dx - bx * dy) + (ax * dy - ay * dx) + (ay * bx - ax * by)
          /\ (ax - bx) * (dy - by) - (ay - by) * (dx - bx)
                = (ax * dy - ay * dx) + (by * dx - bx * dy) + (ay * bx - ax * by)
        OBVIOUS
    <2>5. QED
        BY <1>5, <2>2, <2>3, <2>4
<1>7. ZeroIn(ax, bx) /\ ZeroIn(ay, by) /\ ZeroIn(bx, dx) /\ ZeroIn(by, dy)
    BY <1>3 DEF Through
<1>8. CASE bx # 0
    <2>1. \/ s.a.x # s.b.x /\ Between(t.b.x, s.a.x, s.b.x)
          \/ t.a.x # t.b.x /\ Between(s.a.x, t.a.x, t.b.x)
        BY <1>1, <1>2, <1>7, <1>8 DEF Between, Lesser, Greater, ZeroIn
    <2>2. QED
        BY <1>1, <1>6, <2>1, OnByAxis
<1>9. CASE by # 0
    <2>1. \/ s.a.y # s.b.y /\ Between(t.b.y, s.a.y, s.b.y)
          \/ t.a.y # t.b.y /\ Between(s.a.y, t.a.y, t.b.y)
        BY <1>1, <1>2, <1>7, <1>9 DEF Between, Lesser, Greater, ZeroIn
    <2>2. QED
        BY <1>1, <1>6, <2>1, OnByAxis
<1>10. QED
    BY <1>4, <1>8, <1>9

(* What Simple says of two segments, the first one l.                      *)
LEMMA SimpleSays ==
    ASSUME NEW s \in Line, ~ Empty(s), Simple(s),
           NEW l \in 0 .. NumSegments(s) - 1, NEW m \in 0 .. NumSegments(s) - 1, l < m
    PROVE  /\ m = l + 1 =>
                /\ ~ OnSegment(SegmentAt(s, l), SegmentAt(s, m).b)
                /\ ~ OnSegment(SegmentAt(s, m), SegmentAt(s, l).a)
           /\ m # l + 1 => ~ Meet(SegmentAt(s, l), SegmentAt(s, m))
<1>1. IF m = l + 1
      THEN /\ ~ SegmentContainsPoint(SegmentAt(s, l), SegmentAt(s, m).b)
           /\ ~ SegmentContainsPoint(SegmentAt(s, m), SegmentAt(s, l).a)
      ELSE ~ Meet(SegmentAt(s, l), SegmentAt(s, m))
    BY Zenon DEF Simple
<1>2. /\ SegmentAt(s, m) \in Segment /\ SegmentAt(s, l) \in Segment
      /\ SegmentAt(s, m).b \in Point /\ SegmentAt(s, l).a \in Point
    BY OpenSegments DEF Segment
<1>3. QED
    BY <1>1, <1>2, ContainsIsOn

(* Two segments of a simple line have no point in common but the one where *)
(* the first ends and the next begins.                                     *)
LEMMA SimplePair ==
    ASSUME NEW s \in Line, ~ Empty(s), Simple(s),
           NEW l \in 0 .. NumSegments(s) - 1, NEW m \in 0 .. NumSegments(s) - 1, l < m,
           NEW p \in Point, OnSegment(SegmentAt(s, l), p), OnSegment(SegmentAt(s, m), p)
    PROVE  p = SegmentAt(s, l).b /\ p = SegmentAt(s, m).a
<1>1. PICK e \in Segment, f \in Segment : e = SegmentAt(s, l) /\ f = SegmentAt(s, m)
    BY OpenSegments
<1>2. m = l + 1
    <2>1. SharePoint(e, f) /\ SharePoint(f, e)
        BY <1>1, CommonPoint
    <2>2. IntersectsSegment(e, f) \/ IntersectsSegment(f, e)
        BY <2>1, IntersectsSegmentExact DEF Swallowed
    <2>3. QED
        BY <1>1, <2>2, SimpleSays DEF Meet
<1>3. e.b = f.a
    BY <1>1, <1>2, OpenSegments
<1>4. ~ OnSegment(e, f.b) /\ ~ OnSegment(f, e.a)
    BY <1>1, <1>2, SimpleSays
<1>5. p = e.b
    BY <1>1, <1>3, <1>4, FoldedBack
<1>6. QED
    BY <1>1, <1>3, <1>5

(* A point between the ends of a segment is on no other one.               *)
LEMMA SimpleOnce ==
    ASSUME NEW s \in Line, ~ Empty(s), Simple(s),
           NEW k \in 0 .. NumSegments(s) - 1, NEW m \in 0 .. NumSegments(s) - 1,
           NEW p \in Point, OnSegment(SegmentAt(s, k), p), OnSegment(SegmentAt(s, m), p),
           p # SegmentAt(s, k).a, p # SegmentAt(s, k).b
    PROVE  m = k
<1>1. ~ (k < m) /\ ~ (m < k)
    BY SimplePair
<1>2. QED
    BY <1>1

(* No point of a simple line lies on a segment that it is not an end of.   *)
LEMMA SimpleApart ==
    ASSUME NEW s \in Line, ~ Empty(s), Simple(s),
           NEW k \in 0 .. NumSegments(s) - 1, NEW v \in 0 .. Len(s.points) - 1,
           OnSegment(SegmentAt(s, k), PointAt(s, v))
    PROVE  v = k \/ v = k + 1
<1>0. /\ Len(s.points) \in Nat /\ NumSegments(s) = Len(s.points) - 1
      /\ PointAt(s, v) \in Point
      /\ \A m \in 0 .. NumSegments(s) - 1 :
            /\ SegmentAt(s, m) \in Segment
            /\ SegmentAt(s, m).a = PointAt(s, m)
            /\ SegmentAt(s, m).b = PointAt(s, m + 1)
    BY OpenSegments
<1>2. CASE v > k + 1
    <2>1. PICK m \in 0 .. NumSegments(s) - 1 : m + 1 = v /\ k < m
        <3>1. v - 1 \in 0 .. NumSegments(s) - 1 /\ (v - 1) + 1 = v /\ k < v - 1
            BY <1>0, <1>2
        <3>2. QED
            BY <3>1, Zenon
    <2>2. OnSegment(SegmentAt(s, k), SegmentAt(s, m).b)
        BY <1>0, <2>1
    <2>3. IntersectsSegment(SegmentAt(s, k), SegmentAt(s, m))
        BY <1>0, <2>2, EndMeets
    <2>4. QED
        BY <1>2, <2>1, <2>2, <2>3, SimpleSays DEF Meet
<1>3. CASE v < k
    <2>1. v \in 0 .. NumSegments(s) - 1
        BY <1>0, <1>3
    <2>2. OnSegment(SegmentAt(s, k), SegmentAt(s, v).a)
        BY <1>0, <2>1
    <2>3. IntersectsSegment(SegmentAt(s, k), SegmentAt(s, v))
        BY <1>0, <2>1, <2>2, EndMeets
    <2>4. QED
        BY <1>3, <2>1, <2>2, <2>3, SimpleSays DEF Meet
<1>4. QED
    BY <1>2, <1>3

-----------------------------------------------------------------------------
(* Segment i of other is to be followed.  Other has been accepted up to    *)
(* there; as long as it is covered, the segment starts on the current      *)
(* segment of line.                                                        *)
Followed ==
    /\ segIdx \in 0 .. NumSegments(line) - 1
    /\ i \in 1 .. NumSegments(other)
    /\ Simple(line) =>
          /\ CoveredTo(i) => OnSegment(SegmentAt(line, segIdx), PointAt(other, i))
          /\ \A k \in 0 .. i - 1 : CoveredTo(k) => Accepted(k)

IInv ==
    /\ line \in Line /\ other \in Line
    /\ i \in Nat /\ j \in Nat
    /\ pc \in {"start", "find", "follow", "done"}
    /\ pc \in {"find", "follow"} => ~ Empty(line) /\ ~ Empty(other)
    /\ pc = "start" => i = 1 /\ j = 0
    /\ pc = "find" =>
          /\ i = 1 /\ j <= NumSegments(line)
          /\ \A m \in 0 .. j - 1 : ~ ContainsSegment(SegmentAt(line, m), SegmentAt(other, 0))
    /\ pc = "follow" => Followed
    /\ CoveredUnlessLeaving

(* What is said of the two lines is not changed by a step.                 *)
LEMMA Unmoved ==
    ASSUME UNCHANGED <<line, other>>
    PROVE  /\ \A k : OnLine(k)' <=> OnLine(k)
           /\ \A k : CoveredTo(k)' <=> CoveredTo(k)
           /\ \A k : Accepted(k)' <=> Accepted(k)
<1>1. \A k : OnLine(k)' <=> OnLine(k)
    BY DEF OnLine
<1>2. \A k : Leaves(k)' <=> Leaves(k)
    BY DEF Leaves
<1>3. QED
    BY <1>1, <1>2 DEF CoveredTo, Accepted

LEMMA InitIInv == Init => IInv
<1> SUFFICES ASSUME Init PROVE IInv
    OBVIOUS
<1>1. line \in Line /\ other \in Line
    BY LinesAssumption DEF Init, Line
<1>2. QED
    BY <1>1 DEF Init, IInv, CoveredUnlessLeaving

LEMMA FindFollowed ==
    ASSUME IInv, Find
    PROVE  Followed'
<1>1. /\ line \in Line /\ other \in Line /\ ~ Empty(line) /\ ~ Empty(other)
      /\ i = 1 /\ j \in 0 .. NumSegments(line) - 1
      /\ ContainsSegment(SegmentAt(line, j), SegmentAt(other, 0))
      /\ segIdx' = j /\ i' = i /\ line' = line /\ other' = other
    <2>1. NumSegments(line) \in Nat
        BY OpenSegments DEF IInv, Find
    <2>2. QED
        BY <2>1 DEF IInv, Find, FirstFits
<1>2. /\ NumSegments(other) \in Nat /\ NumSegments(other) >= 1
      /\ SegmentAt(line, j) \in Segment /\ SegmentAt(other, 0) \in Segment
      /\ SegmentAt(other, 0).b = PointAt(other, 1)
    <2>1. 0 \in 0 .. NumSegments(other) - 1 /\ 0 + 1 = 1
        BY <1>1, OpenSegments
    <2>2. QED
        BY <1>1, <2>1, OpenSegments
<1>3. OnSegment(SegmentAt(line, j), PointAt(other, 1))
    BY <1>1, <1>2, ContainsSegmentIsOn
<1>4. OnLine(0)
    BY <1>1, Zenon DEF OnLine
<1>5. \A k \in 0 .. i - 1 : k = 0
    BY <1>1
<1>6. QED
    BY <1>1, <1>2, <1>3, <1>4, <1>5, Unmoved DEF Followed, Accepted

(* The segment that is being followed. *)
LEMMA FollowingFacts ==
    ASSUME IInv, Following
    PROVE  /\ line \in Line /\ other \in Line /\ ~ Empty(line) /\ ~ Empty(other)
           /\ i \in 1 .. NumSegments(other) - 1 /\ i + 1 \in 1 .. NumSegments(other)
           /\ NumSegments(other) = Len(other.points) - 1
           /\ NumSegments(line) = Len(line.points) - 1
           /\ Len(line.points) \in Nat /\ Len(other.points) \in Nat
           /\ lineSeg \in Segment /\ otherSeg \in Segment
           /\ otherSeg.a = PointAt(other, i) /\ otherSeg.b = PointAt(other, i + 1)
           /\ PointAt(other, i) \in Point
           /\ lineSeg.a = PointAt(line, segIdx) /\ lineSeg.b = PointAt(line, segIdx + 1)
           /\ Followed
<1>1. /\ line \in Line /\ other \in Line /\ ~ Empty(line) /\ ~ Empty(other)
      /\ Followed /\ i < NumSegments(other)
    BY DEF IInv, Following
<1>2. /\ NumSegments(other) = Len(other.points) - 1
      /\ NumSegments(line) = Len(line.points) - 1
      /\ Len(line.points) \in Nat /\ Len(other.points) \in Nat
    BY <1>1, OpenSegments
<1>3. i \in 1 .. NumSegments(other) - 1 /\ i + 1 \in 1 .. NumSegments(other)
         /\ i \in 0 .. NumSegments(other) - 1 /\ i \in 0 .. Len(other.points) - 1
    BY <1>1, <1>2 DEF Followed
<1>4. segIdx \in 0 .. NumSegments(line) - 1
    BY <1>1 DEF Followed
<1>5. /\ SegmentAt(other, i) \in Segment
      /\ SegmentAt(other, i).a = PointAt(other, i)
      /\ SegmentAt(other, i).b = PointAt(other, i + 1)
      /\ PointAt(other, i) \in Point
    BY <1>1, <1>3, OpenSegments
<1>6. /\ SegmentAt(line, segIdx) \in Segment
      /\ SegmentAt(line, segIdx).a = PointAt(line, segIdx)
      /\ SegmentAt(line, segIdx).b = PointAt(line, segIdx + 1)
    BY <1>1, <1>4, OpenSegments
<1>7. QED
    BY <1>1, <1>2, <1>3, <1>5, <1>6 DEF lineSeg, otherSeg

LEMMA ContinueFollowed ==
    ASSUME IInv, Following, Fits, i' = i + 1,
           UNCHANGED <<line, other, segIdx>>
    PROVE  Followed'
<1>1. SUFFICES ASSUME Simple(line)
               PROVE  /\ OnSegment(SegmentAt(line, segIdx), PointAt(other, i + 1))
                      /\ \A k \in 0 .. (i + 1) - 1 : CoveredTo(k) => Accepted(k)
    BY FollowingFacts, Unmoved DEF Followed
<1>2. ContainsSegment(SegmentAt(line, segIdx), SegmentAt(other, i))
    BY DEF Fits, lineSeg, otherSeg
<1>3. OnSegment(SegmentAt(line, segIdx), PointAt(other, i + 1))
    BY <1>2, FollowingFacts, ContainsSegmentIsOn DEF lineSeg, otherSeg
<1>4. Accepted(i)
    BY <1>2, FollowingFacts DEF Accepted, OnLine, Followed
<1>5. \A k \in 0 .. i - 1 : CoveredTo(k) => Accepted(k)
    BY <1>1, FollowingFacts DEF Followed
<1>6. \A k \in 0 .. (i + 1) - 1 : k = i \/ k \in 0 .. i - 1
    BY FollowingFacts
<1>7. QED
    BY <1>3, <1>4, <1>5, <1>6

(* The segment to which the loop moves has the point of other as an end.   *)
LEMMA MoveFollowed ==
    ASSUME IInv, Following, segIdx' \in 0 .. NumSegments(line) - 1,
           PointAt(other, i) \in {PointAt(line, segIdx'), PointAt(line, segIdx' + 1)},
           UNCHANGED <<line, other, i>>
    PROVE  Followed'
<1>0. PICK k : k = segIdx'
    BY Zenon
<1>1. OnSegment(SegmentAt(line, k), PointAt(other, i))
    <2>1. /\ SegmentAt(line, k) \in Segment
          /\ SegmentAt(line, k).a = PointAt(line, k)
          /\ SegmentAt(line, k).b = PointAt(line, k + 1)
        BY <1>0, FollowingFacts, OpenSegments
    <2>2. QED
        BY <1>0, <2>1, EndsOnSegment
<1>2. QED
    BY <1>0, <1>1, FollowingFacts, Unmoved DEF Followed

(* A segment that is passed over while other is covered starts between the *)
(* ends of the current segment, which is the only one that could cover it. *)
LEMMA PassOverFollowed ==
    ASSUME IInv, PassOver
    PROVE  Followed'
<1>0. Following /\ ~ Fits /\ ~ AtA /\ ~ AtB /\ i' = i + 1 /\ UNCHANGED <<line, other, segIdx>>
    BY DEF PassOver
<1>1. SUFFICES ASSUME Simple(line)
               PROVE  /\ ~ CoveredTo(i + 1)
                      /\ \A k \in 0 .. (i + 1) - 1 : CoveredTo(k) => Accepted(k)
    BY <1>0, FollowingFacts, Unmoved DEF Followed
<1>2. /\ segIdx \in 0 .. NumSegments(line) - 1 /\ i \in Nat /\ i # 0
      /\ CoveredTo(i) => OnSegment(lineSeg, PointAt(other, i))
      /\ PointAt(other, i) # lineSeg.a /\ PointAt(other, i) # lineSeg.b
      /\ ~ ContainsSegment(lineSeg, otherSeg)
    BY <1>0, <1>1, FollowingFacts DEF Followed, lineSeg, AtA, AtB, Fits
<1>3. CoveredTo(i) => Leaves(i) /\ ~ OnLine(i)
    <2>1. SUFFICES ASSUME CoveredTo(i) PROVE Leaves(i) /\ ~ OnLine(i)
        OBVIOUS
    <2>2. SegmentContainsPoint(lineSeg, PointAt(other, i))
        BY <1>0, <1>2, <2>1, FollowingFacts, ContainsIsOn
    <2>3. Leaves(i)
        BY <1>2, <2>2 DEF Leaves, lineSeg, otherSeg
    <2>4. ASSUME NEW m \in 0 .. NumSegments(line) - 1,
                 ContainsSegment(SegmentAt(line, m), SegmentAt(other, i))
          PROVE  FALSE
        <3>1. SegmentAt(line, m) \in Segment
            BY <1>0, FollowingFacts, OpenSegments
        <3>2. OnSegment(SegmentAt(line, m), PointAt(other, i))
            BY <1>0, <2>4, <3>1, FollowingFacts, ContainsSegmentIsOn DEF otherSeg
        <3>3. m = segIdx
            BY <1>0, <1>1, <1>2, <2>1, <3>2, FollowingFacts, SimpleOnce DEF lineSeg
        <3>4. QED
            BY <1>2, <2>4, <3>3 DEF lineSeg, otherSeg
    <2>5. QED
        BY <2>3, <2>4 DEF OnLine
<1>4. CoveredTo(i + 1) => CoveredTo(i) /\ OnLine(i)
    <2>1. \A n \in 0 .. i - 1 : n \in 0 .. (i + 1) - 1
        BY <1>2
    <2>2. i \in 0 .. (i + 1) - 1
        BY <1>2
    <2>3. QED
        BY <2>1, <2>2, Zenon DEF CoveredTo
<1>5. \A k \in 0 .. i - 1 : CoveredTo(k) => Accepted(k)
    BY <1>0, <1>1, FollowingFacts DEF Followed
<1>6. \A k \in 0 .. (i + 1) - 1 : k = i \/ k \in 0 .. i - 1
    BY <1>2
<1>7. CoveredTo(i) => Accepted(i)
    BY <1>2, <1>3 DEF Accepted
<1>8. QED
    BY <1>3, <1>4, <1>5, <1>6, <1>7

(* At the end every segment has been accepted. *)
LEMMA ReturnCovered ==
    ASSUME IInv, ReturnContained
    PROVE  CoveredUnlessLeaving'
<1>1. /\ Followed /\ i = NumSegments(other) /\ line' = line /\ other' = other /\ res'
    BY DEF IInv, ReturnContained, Return
<1>2. Simple(line) => \A k \in 0 .. NumSegments(other) - 1 : CoveredTo(k) => Accepted(k)
    BY <1>1 DEF Followed
<1>3. NumSegments(other) - 1 \in 0 .. NumSegments(other) - 1
    BY <1>1 DEF Followed
<1>4. res' = TRUE
    BY DEF ReturnContained, Return
<1>5. QED
    BY <1>1, <1>2, <1>3, <1>4, Unmoved DEF CoveredUnlessLeaving

(* No segment of line covers the first one of other. *)
LEMMA ReturnNotCovered ==
    ASSUME IInv, ReturnNotFound
    PROVE  CoveredUnlessLeaving'
<1>1. /\ ~ Empty(other) /\ other \in Line /\ line' = line /\ other' = other /\ res' = FALSE
      /\ ~ OnLine(0)
    BY DEF IInv, ReturnNotFound, Return, OnLine
<1>2. NumSegments(other) \in Nat /\ NumSegments(other) >= 1
    BY <1>1, OpenSegments
<1>3. CoveredTo(NumSegments(other) - 1) => ~ Accepted(NumSegments(other) - 1)
    <2>1. CASE NumSegments(other) - 1 = 0
        BY <1>1, <2>1 DEF Accepted
    <2>2. CASE NumSegments(other) - 1 # 0
        <3>1. 0 \in 0 .. (NumSegments(other) - 1) - 1
            BY <1>2, <2>2
        <3>2. QED
            BY <1>1, <3>1, Zenon DEF CoveredTo
    <2>3. QED
        BY <2>1, <2>2
<1>4. QED
    BY <1>1, <1>3, Unmoved DEF CoveredUnlessLeaving

(* Past an end of line only its first or last segment could cover other,   *)
(* and that is the current one.                                            *)
LEMMA ReturnLeft ==
    ASSUME IInv, ReturnPastEnd
    PROVE  CoveredUnlessLeaving'
<1>0. /\ Following /\ ~ Fits /\ line' = line /\ other' = other /\ res' = FALSE
      /\ (AtA /\ segIdx = 0) \/ (AtB /\ segIdx = NumSegments(line) - 1)
    BY DEF ReturnPastEnd, Return
<1>1. SUFFICES ASSUME Simple(line) PROVE CoveredUnlessLeaving'
    BY <1>0 DEF CoveredUnlessLeaving
<1>2. PICK v \in 0 .. Len(line.points) - 1 :
         /\ PointAt(other, i) = PointAt(line, v)
         /\ \/ v = 0 /\ segIdx = 0
            \/ v = NumSegments(line) /\ segIdx = NumSegments(line) - 1
    <2>1. CASE AtA /\ segIdx = 0
        BY <1>0, <2>1, FollowingFacts DEF AtA, Followed
    <2>2. CASE AtB /\ segIdx = NumSegments(line) - 1
        <3>1. PointAt(other, i) = PointAt(line, NumSegments(line))
            BY <1>0, <2>2, FollowingFacts DEF AtB, Followed
        <3>2. NumSegments(line) \in 0 .. Len(line.points) - 1
            BY <1>0, FollowingFacts DEF Followed
        <3>3. QED
            BY <2>2, <3>1, <3>2, Zenon
    <2>3. QED
        BY <1>0, <2>1, <2>2
<1>3. ASSUME NEW m \in 0 .. NumSegments(line) - 1,
             OnSegment(SegmentAt(line, m), PointAt(other, i))
      PROVE  /\ m = segIdx
             /\ PointAt(other, i) \in {SegmentAt(line, m).a, SegmentAt(line, m).b}
    <2>1. v = m \/ v = m + 1
        BY <1>0, <1>1, <1>2, <1>3, FollowingFacts, SimpleApart
    <2>2. /\ SegmentAt(line, m).a = PointAt(line, m)
          /\ SegmentAt(line, m).b = PointAt(line, m + 1)
        BY <1>0, FollowingFacts, OpenSegments
    <2>3. m = segIdx
        BY <1>0, <1>2, <2>1, FollowingFacts
    <2>4. QED
        BY <1>2, <2>1, <2>2, <2>3
<1>4. ~ OnLine(i)
    <2>1. ASSUME NEW m \in 0 .. NumSegments(line) - 1,
                 ContainsSegment(SegmentAt(line, m), SegmentAt(other, i))
          PROVE  FALSE
        <3>1. SegmentAt(line, m) \in Segment
            BY <1>0, FollowingFacts, OpenSegments
        <3>2. OnSegment(SegmentAt(line, m), PointAt(other, i))
            BY <1>0, <2>1, <3>1, FollowingFacts, ContainsSegmentIsOn DEF otherSeg
        <3>3. QED
            BY <1>0, <1>3, <2>1, <3>2 DEF Fits, lineSeg, otherSeg
    <2>2. QED
        BY <2>1 DEF OnLine
<1>5. ~ Leaves(i)
    <2>1. ASSUME NEW m \in 0 .. NumSegments(line) - 1,
                 SegmentContainsPoint(SegmentAt(line, m), PointAt(other, i)),
                 PointAt(other, i) \notin {SegmentAt(line, m).a, SegmentAt(line, m).b}
          PROVE  FALSE
        <3>1. SegmentAt(line, m) \in Segment
            BY <1>0, FollowingFacts, OpenSegments
        <3>2. OnSegment(SegmentAt(line, m), PointAt(other, i))
            BY <1>0, <2>1, <3>1, FollowingFacts, ContainsIsOn
        <3>3. QED
            BY <1>3, <2>1, <3>2
    <2>2. QED
        BY <2>1 DEF Leaves
<1>6. CoveredTo(NumSegments(other) - 1) => ~ Accepted(NumSegments(other) - 1)
    <2>1. i \in 1 .. NumSegments(other) - 1 /\ NumSegments(other) \in Nat
        BY <1>0, FollowingFacts
    <2>2. CASE i = NumSegments(other) - 1
        BY <1>4, <1>5, <2>2 DEF Accepted
    <2>3. CASE i # NumSegments(other) - 1
        <3>1. i \in 0 .. (NumSegments(other) - 1) - 1
            BY <2>1, <2>3
        <3>2. QED
            BY <1>4, <3>1, Zenon DEF CoveredTo
    <2>4. QED
        BY <2>2, <2>3
<1>7. QED
    BY <1>0, <1>6, Unmoved DEF CoveredUnlessLeaving

LEMMA StepIInv == IInv /\ [Next]_vars => IInv'
<1> SUFFICES ASSUME IInv, [Next]_vars PROVE IInv'
    OBVIOUS
<1>1. CASE ReturnEmpty
    BY <1>1 DEF ReturnEmpty, Return, IInv, CoveredUnlessLeaving
<1>0. CASE ReturnNotFound \/ ReturnPastEnd
    <2>1. CoveredUnlessLeaving'
        BY <1>0, ReturnNotCovered, ReturnLeft
    <2>2. QED
        BY <1>0, <2>1 DEF ReturnNotFound, ReturnPastEnd, Return, IInv
<1>2. CASE Start
    <2>1. NumSegments(line) \in Nat /\ j = 0
        BY <1>2, OpenSegments DEF Start, IInv
    <2>2. QED
        BY <1>2, <2>1 DEF Start, IInv, CoveredUnlessLeaving
<1>3. CASE Find
    BY <1>3, FindFollowed DEF Find, IInv, CoveredUnlessLeaving
<1>4. CASE TryNext
    <2>1. NumSegments(line) \in Nat
        BY <1>4, OpenSegments DEF TryNext, IInv
    <2>2. /\ j' \in Nat /\ j' <= NumSegments(line)
          /\ \A m \in 0 .. j' - 1 : m = j \/ m \in 0 .. j - 1
        BY <1>4, <2>1 DEF TryNext, IInv
    <2>3. \A m \in 0 .. j' - 1 : ~ ContainsSegment(SegmentAt(line, m), SegmentAt(other, 0))
        BY <1>4, <2>2 DEF TryNext, FirstFits, IInv
    <2>4. QED
        BY <1>4, <2>2, <2>3 DEF TryNext, IInv, CoveredUnlessLeaving
<1>5. CASE Continue
    <2>1. Followed'
        BY <1>5, ContinueFollowed DEF Continue
    <2>2. QED
        BY <1>5, <2>1 DEF Continue, Following, IInv, CoveredUnlessLeaving
<1>6. CASE ReverseIt
    <2>1. Following /\ segIdx' = segIdx - 1 /\ PointAt(other, i) = PointAt(line, segIdx)
        BY <1>6, FollowingFacts DEF ReverseIt, AtA
    <2>2. segIdx' \in 0 .. NumSegments(line) - 1 /\ segIdx' + 1 = segIdx
        BY <1>6, <2>1, FollowingFacts DEF ReverseIt, Followed
    <2>3. Followed'
        BY <1>6, <2>1, <2>2, MoveFollowed DEF ReverseIt
    <2>4. QED
        BY <1>6, <2>3 DEF ReverseIt, Following, IInv, CoveredUnlessLeaving
<1>7. CASE ForwardIt
    <2>1. Following /\ segIdx' = segIdx + 1 /\ PointAt(other, i) = PointAt(line, segIdx')
        BY <1>7, FollowingFacts DEF ForwardIt, AtB
    <2>2. segIdx' \in 0 .. NumSegments(line) - 1
        BY <1>7, <2>1, FollowingFacts DEF ForwardIt, Followed
    <2>3. Followed'
        BY <1>7, <2>1, <2>2, MoveFollowed DEF ForwardIt
    <2>4. QED
        BY <1>7, <2>3 DEF ForwardIt, Following, IInv, CoveredUnlessLeaving
<1>8. CASE PassOver
    BY <1>8, PassOverFollowed DEF PassOver, Following, IInv, CoveredUnlessLeaving
<1>9. CASE ReturnContained
    BY <1>9, ReturnCovered DEF ReturnContained, Return, IInv
<1>10. CASE UNCHANGED vars
    <2>1. UNCHANGED <<line, other>>
        BY <1>10 DEF vars
    <2>2. Followed => Followed'
        BY <1>10, <2>1, Unmoved DEF vars, Followed
    <2>3. CoveredUnlessLeaving'
        BY <1>10, <2>1, Unmoved DEF vars, IInv, CoveredUnlessLeaving
    <2>4. QED
        BY <1>10, <2>2, <2>3 DEF vars, IInv
<1>11. QED
    BY <1>0, <1>1, <1>2, <1>3, <1>4, <1>5, <1>6, <1>7, <1>8, <1>9, <1>10 DEF Next

(* ContainsLine along a line that does not touch itself, for lines of      *)
(* whatever length: with an answer true, the first segment of other that   *)
(* is not covered can only be one that leaves a segment of line between    *)
(* its ends, where PassOver skips it; and if all segments but the last are *)
(* covered, the answer is true exactly if the last one is covered or       *)
(* leaves like that.                                                       *)
THEOREM AnswerIsKnown == FairSpec => []CoveredUnlessLeaving
<1>1. IInv => CoveredUnlessLeaving
    BY DEF IInv
<1>2. QED
    BY <1>1, InitIInv, StepIInv, PTL DEF FairSpec
=============================================================================
