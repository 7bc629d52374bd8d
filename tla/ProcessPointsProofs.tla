------------------------- MODULE ProcessPointsProofs -------------------------
(***************************************************************************)
(* The rectangle processPoints computes holds every segment of the series  *)
(* and is the smallest that does, and its winding order is the sign of the *)
(* enclosed area, for series of any length and any coordinates.            *)
(***************************************************************************)
EXTENDS ProcessPoints, PlanarProofs

(* Inflating a rectangle takes in the new point and gives up nothing.      *)
LEMMA InflateCovers ==
    ASSUME NEW r \in Rect, NEW p \in Point,
           r.min.x <= r.max.x, r.min.y <= r.max.y
    PROVE  LET s == Inflate(r, p) IN
           /\ s \in Rect
           /\ s.min.x <= s.max.x /\ s.min.y <= s.max.y
           /\ RectContainsPoint(s, p)
           /\ \A q \in Point :
                 RectContainsPoint(r, q) => RectContainsPoint(s, q)
    BY DEF Inflate, Lesser, RectContainsPoint, Rect, Point

(* A rectangle that holds the ends of a segment holds its rectangle.       *)
LEMMA EndsCoverSegment ==
    ASSUME NEW r \in Rect, NEW seg \in Segment,
           RectContainsPoint(r, seg.a), RectContainsPoint(r, seg.b)
    PROVE  RectContainsRect(r, SegmentRect(seg))
    BY DEF RectContainsPoint, RectContainsRect, SegmentRect, Lesser, Greater,
           Rect, Segment, Point

(* The points the loop looks at exist.                                     *)
LEMMA PointsExist ==
    ASSUME NEW s \in [points : Seq(Point), closed : BOOLEAN], ~ Empty(s),
           NEW k \in 0 .. Len(s.points) - 1
    PROVE  PointAt(s, k) \in Point /\ After(s, k, 1) \in Point /\ After(s, k, 2) \in Point
    BY DEF Empty, PointAt, After

(* The ends of every segment are points of the series.                     *)
LEMMA SegmentEnds ==
    ASSUME NEW s \in [points : Seq(Point), closed : BOOLEAN],
           NEW k \in 0 .. NumSegments(s) - 1
    PROVE  /\ ~ Empty(s)
           /\ \E j \in 0 .. Len(s.points) - 1 : SegmentAt(s, k).a = PointAt(s, j)
           /\ \E j \in 0 .. Len(s.points) - 1 : SegmentAt(s, k).b = PointAt(s, j)
<1>1. ~ Empty(s)
    BY DEF NumSegments
<1>2. Len(s.points) \in Nat /\ Len(s.points) >= 2 /\ k \in 0 .. Len(s.points) - 1
    BY <1>1 DEF NumSegments, Empty
<1>3. QED
    BY <1>1, <1>2 DEF SegmentAt

-----------------------------------------------------------------------------
(* RectCovers speaks of the end; on the way the rectangle holds the points *)
(* passed, and at the end all of them.                                     *)
DoneCovers ==
    (pc = "done" /\ ~ Empty(series)) =>
        \A k \in 0 .. Len(series.points) - 1 :
            RectContainsPoint(result.rect, PointAt(series, k))

IInv ==
    /\ TypeOK
    /\ LoopCovers
    /\ DoneCovers
    /\ pc = "start" => i = 0
    /\ pc = "loop" => ~ Empty(series)

LEMMA InitIInv == Init => IInv
<1> SUFFICES ASSUME Init PROVE IInv
    OBVIOUS
<1>1. PointRect(Origin) \in Rect
    BY DEF PointRect, Origin, Rect, Point
<1>2. series \in [points : Seq(Point), closed : BOOLEAN]
    BY InputsAssumption DEF Init
<1>3. Len(series.points) \in Nat
    BY <1>2
<1>4. ZeroResult \in [convex : BOOLEAN, rect : Rect, clockwise : BOOLEAN]
    BY <1>1 DEF ZeroResult
<1>5. TypeOK
    <2>1. i \in 0 .. Len(series.points) /\ dir \in {-1, 0, 1} /\ cwc \in Int
        BY <1>3 DEF Init
    <2>2. concave \in BOOLEAN /\ rect \in Rect /\ pc \in {"start", "loop", "done"}
        BY <1>1, Zenon DEF Init
    <2>3. QED
        BY <1>4, <2>1, <2>2, Zenon DEF Init, TypeOK
<1>6. QED
    BY <1>5 DEF Init, IInv, LoopCovers, DoneCovers

LEMMA ProcessPointIInv ==
    ASSUME IInv, ProcessPoint
    PROVE  IInv'
<1> DEFINE p == PointAt(series, i)
<1>1. series \in [points : Seq(Point), closed : BOOLEAN]
    BY InputsAssumption DEF IInv, TypeOK
<1>2. /\ i \in 0 .. Len(series.points) - 1 /\ Len(series.points) \in Nat
      /\ pc = "loop" /\ pc' = "loop" /\ ~ Empty(series)
      /\ series' = series /\ i' = i + 1 /\ result' = result
    BY <1>1 DEF IInv, TypeOK, ProcessPoint
<1>3. p \in Point /\ After(series, i, 1) \in Point /\ After(series, i, 2) \in Point
    BY <1>1, <1>2, PointsExist
<1>4. /\ rect' \in Rect
      /\ rect'.min.x <= rect'.max.x /\ rect'.min.y <= rect'.max.y
      /\ RectContainsPoint(rect', p)
      /\ i # 0 => \A q \in Point :
                     RectContainsPoint(rect, q) => RectContainsPoint(rect', q)
    <2>1. CASE i = 0
        BY <1>3, <2>1 DEF ProcessPoint, PointRect, RectContainsPoint, Rect, Point
    <2>2. CASE i # 0
        <3>1. /\ rect \in Rect
              /\ rect.min.x <= rect.max.x /\ rect.min.y <= rect.max.y
            BY <1>2, <2>2 DEF IInv, TypeOK, LoopCovers
        <3>2. rect' = Inflate(rect, p)
            BY <2>2 DEF ProcessPoint
        <3>3. QED
            BY <1>3, <3>1, <3>2, InflateCovers
    <2>3. QED
        BY <2>1, <2>2
<1>5. \A k \in 0 .. i' - 1 : RectContainsPoint(rect', PointAt(series, k))
    <2> SUFFICES ASSUME NEW k \in 0 .. i, k # i
                 PROVE  RectContainsPoint(rect', PointAt(series, k))
        BY <1>2, <1>4
    <2>1. PointAt(series, k) \in Point
        BY <1>1, <1>2, PointsExist
    <2>2. RectContainsPoint(rect, PointAt(series, k)) /\ i # 0
        BY <1>2 DEF IInv, LoopCovers
    <2>3. QED
        BY <1>4, <2>1, <2>2
<1>6. LoopCovers'
    BY <1>2, <1>4, <1>5 DEF LoopCovers
<1>7. cwc' \in Int
    <2>1. ClockwiseTerm(p, After(series, i, 1)) \in Int
        BY <1>3 DEF ClockwiseTerm, Point
    <2>2. QED
        BY <2>1 DEF IInv, TypeOK, ProcessPoint
<1>8. dir' \in {-1, 0, 1} /\ concave' \in BOOLEAN
    <2>1. Turn(series, i) \in {-1, 0, 1}
        BY DEF Turn
    <2>2. QED
        BY <2>1 DEF IInv, TypeOK, ProcessPoint
<1>9. TypeOK'
    BY <1>1, <1>2, <1>4, <1>7, <1>8 DEF IInv, TypeOK
<1>10. QED
    BY <1>2, <1>6, <1>9 DEF IInv, DoneCovers

LEMMA LeaveLoopIInv ==
    ASSUME IInv, LeaveLoop
    PROVE  IInv'
<1>1. series \in [points : Seq(Point), closed : BOOLEAN]
    BY InputsAssumption DEF IInv, TypeOK
<1>2. /\ pc = "loop" /\ pc' = "done" /\ i = Len(series.points) /\ ~ Empty(series)
      /\ series' = series /\ i' = i /\ rect' = rect /\ result'.rect = rect
    BY DEF IInv, LeaveLoop
<1>3. i > 0
    BY <1>1, <1>2 DEF Empty
<1>4. DoneCovers'
    BY <1>2, <1>3 DEF IInv, LoopCovers, DoneCovers
<1>5. result' \in [convex : BOOLEAN, rect : Rect, clockwise : BOOLEAN]
    BY DEF IInv, TypeOK, LeaveLoop
<1>6. TypeOK'
    BY <1>2, <1>5 DEF IInv, TypeOK, LeaveLoop
<1>7. QED
    BY <1>2, <1>4, <1>6 DEF IInv, LoopCovers

LEMMA StepIInv == IInv /\ [Next]_vars => IInv'
<1> SUFFICES ASSUME IInv, [Next]_vars PROVE IInv'
    OBVIOUS
<1>1. CASE TooFewPoints
    BY <1>1 DEF TooFewPoints, IInv, TypeOK, LoopCovers, DoneCovers
<1>2. CASE EnterLoop
    BY <1>2 DEF EnterLoop, IInv, TypeOK, LoopCovers, DoneCovers
<1>3. CASE ProcessPoint
    BY <1>3, ProcessPointIInv
<1>4. CASE LeaveLoop
    BY <1>4, LeaveLoopIInv
<1>5. CASE UNCHANGED vars
    BY <1>5 DEF vars, IInv, TypeOK, LoopCovers, DoneCovers
<1>6. QED
    BY <1>1, <1>2, <1>3, <1>4, <1>5 DEF Next

LEMMA IInvRectCovers == IInv => RectCovers
<1> SUFFICES ASSUME IInv, pc = "done",
                    NEW k \in 0 .. NumSegments(series) - 1
             PROVE  RectContainsRect(result.rect, SegmentRectAt(series, k))
    BY DEF RectCovers
<1>1. series \in [points : Seq(Point), closed : BOOLEAN]
    BY InputsAssumption DEF IInv, TypeOK
<1>2. /\ ~ Empty(series)
      /\ \E j \in 0 .. Len(series.points) - 1 :
            SegmentAt(series, k).a = PointAt(series, j)
      /\ \E j \in 0 .. Len(series.points) - 1 :
            SegmentAt(series, k).b = PointAt(series, j)
    BY <1>1, SegmentEnds
<1>3. \A j \in 0 .. Len(series.points) - 1 :
          /\ PointAt(series, j) \in Point
          /\ RectContainsPoint(result.rect, PointAt(series, j))
    BY <1>1, <1>2, PointsExist DEF IInv, DoneCovers
<1>4. SegmentAt(series, k) \in Segment
    BY <1>2, <1>3 DEF SegmentAt, Segment
<1>5. result.rect \in Rect
    BY DEF IInv, TypeOK
<1>6. QED
    BY <1>2, <1>3, <1>4, <1>5, EndsCoverSegment DEF SegmentRectAt

LEMMA IInvAlways == Spec => []IInv
    BY InitIInv, StepIInv, PTL DEF Spec

(* At every turn of the loop the rectangle is not inverted and holds every *)
(* point passed so far: the one coordinate that Inflate skips, the maximum *)
(* of a point below the minimum, never needed to move.                     *)
THEOREM LoopHoldsPoints == Spec => []LoopCovers
<1>1. IInv => LoopCovers
    BY DEF IInv
<1>2. QED
    BY <1>1, IInvAlways, PTL

(* processPoints returns a rectangle that holds every segment of the       *)
(* series, whatever its points, their number and whether it is closed.     *)
THEOREM RectHoldsSegments == Spec => []RectCovers
    BY IInvAlways, IInvRectCovers, PTL

-----------------------------------------------------------------------------
(* Twice the area of triangle k of the fan.                                *)
Triangle(s, k) == Cross(PointAt(s, 0), PointAt(s, k - 1), PointAt(s, k))

(* f holds the sums of the first triangles up to n. *)
IsFan(s, n, f) ==
    f = [k \in 1 .. n |-> IF k = 1 THEN 0 ELSE f[k - 1] + Triangle(s, k)]

(* FanSums chooses sums of that kind if there are any.                     *)
LEMMA FanIs ==
    ASSUME NEW s, NEW f, IsFan(s, Len(s.points) - 1, f)
    PROVE  IsFan(s, Len(s.points) - 1, FanSums(s))
    BY Zenon DEF FanSums, IsFan, Triangle

(* There are: the shortest fan without would be one longer than one with.  *)
LEMMA FanExists ==
    ASSUME NEW s, NEW n \in Nat
    PROVE  \E f : IsFan(s, n, f)
<1> DEFINE T == {m \in Nat : ~ \E f : IsFan(s, m, f)}
<1> SUFFICES ASSUME T # {} PROVE FALSE
    OBVIOUS
<1>1. PICK m \in T : \A l \in T : m <= l
    <2>1. T \in SUBSET Nat
        OBVIOUS
    <2> HIDE DEF T
    <2>2. QED
        BY <2>1, LeastNatural, Zenon
<1>2. m \in Nat /\ ~ \E f : IsFan(s, m, f)
    OBVIOUS
<1>3. m # 0
    <2>1. IsFan(s, 0, [k \in 1 .. 0 |-> 0])
        BY DEF IsFan
    <2>2. QED
        BY <1>2, <2>1
<1>4. PICK l \in Nat : m = l + 1
    <2>1. m - 1 \in Nat /\ m = (m - 1) + 1
        BY <1>2, <1>3
    <2>2. QED
        BY <2>1, Zenon
<1>5. PICK f : IsFan(s, l, f)
    <2>1. l \notin T
        BY <1>1, <1>4
    <2>2. QED
        BY <2>1
<1> DEFINE g == [k \in 1 .. m |-> IF k = 1 THEN 0
                                   ELSE IF k = m THEN f[l] + Triangle(s, m) ELSE f[k]]
<1>6. \A k \in 1 .. l : g[k] = f[k]
    BY <1>2, <1>4, <1>5 DEF IsFan
<1>7. ASSUME NEW k \in 1 .. m
      PROVE  g[k] = IF k = 1 THEN 0 ELSE g[k - 1] + Triangle(s, k)
    <2>1. CASE k = 1
        BY <2>1
    <2>2. CASE k # 1 /\ k = m
        <3>1. l \in 1 .. l /\ k - 1 = l
            BY <1>2, <1>4, <2>2
        <3>2. QED
            BY <1>6, <2>2, <3>1
    <2>3. CASE k # 1 /\ k # m
        <3>1. k \in 1 .. l /\ k - 1 \in 1 .. l
            BY <1>2, <1>4, <2>3
        <3>2. f[k] = f[k - 1] + Triangle(s, k)
            BY <1>5, <2>3, <3>1 DEF IsFan
        <3> HIDE DEF g
        <3>3. QED
            BY <1>6, <2>3, <3>1, <3>2
    <2>4. QED
        BY <2>1, <2>2, <2>3
<1>8. g = [k \in 1 .. m |-> g[k]]
    OBVIOUS
<1> HIDE DEF g
<1>9. IsFan(s, m, g)
    BY <1>7, <1>8 DEF IsFan
<1>10. QED
    BY <1>2, <1>9

(* The sums begin with nothing and go on a triangle at a time. *)
LEMMA FanSteps ==
    ASSUME NEW s \in [points : Seq(Point), closed : BOOLEAN], ~ Empty(s)
    PROVE  /\ Len(s.points) \in Nat /\ Len(s.points) >= 2
           /\ FanSums(s)[1] = 0
           /\ \A k \in 2 .. Len(s.points) - 1 :
                 FanSums(s)[k] = FanSums(s)[k - 1] + Triangle(s, k)
<1>1. Len(s.points) \in Nat /\ Len(s.points) >= 2
    BY DEF Empty
<1>2. Len(s.points) - 1 \in Nat
    BY <1>1
<1>3. IsFan(s, Len(s.points) - 1, FanSums(s))
    BY <1>2, FanExists, FanIs, Zenon
<1>4. QED
    BY <1>1, <1>3 DEF IsFan

(* One more trapezoid and another closing one make one more triangle.      *)
LEMMA Trapezoids ==
    ASSUME NEW o \in Point, NEW a \in Point, NEW b \in Point
    PROVE  /\ ClockwiseTerm(a, b) + ClockwiseTerm(b, o)
                = ClockwiseTerm(a, o) + Cross(o, a, b)
           /\ ClockwiseTerm(a, o) + ClockwiseTerm(o, a) = 0
           /\ ClockwiseTerm(a, b) \in Int /\ Cross(o, a, b) \in Int
    BY DEF ClockwiseTerm, Cross, Point

-----------------------------------------------------------------------------
(* Each side of the rectangle goes through one of the first n points.      *)
Tight(r, n) ==
    /\ \E k \in 0 .. n - 1 : PointAt(series, k).x = r.min.x
    /\ \E k \in 0 .. n - 1 : PointAt(series, k).x = r.max.x
    /\ \E k \in 0 .. n - 1 : PointAt(series, k).y = r.min.y
    /\ \E k \in 0 .. n - 1 : PointAt(series, k).y = r.max.y

(* The loop closes the part of the ring it has passed with the trapezoid   *)
(* from the current point back to the first, until it comes to the end.    *)
LoopArea ==
    /\ i = 0 => cwc = 0
    /\ i \in 1 .. Len(series.points) - 1 =>
          cwc + ClockwiseTerm(PointAt(series, i), PointAt(series, 0))
             = FanSums(series)[i]
    /\ i = Len(series.points) => cwc = FanArea(series)

(* The inductive invariant for the shape of the result.                    *)
Shape ==
    /\ IInv
    /\ pc = "start" => cwc = 0
    /\ pc = "loop" => LoopArea
    /\ (pc = "loop" /\ i > 0) => Tight(rect, i)
    /\ (pc = "done" /\ ~ Empty(series)) =>
          Tight(result.rect, Len(series.points)) /\ ClockwiseIsArea

LEMMA InitShape == Init => Shape
<1> SUFFICES ASSUME Init PROVE Shape
    OBVIOUS
<1>1. pc = "start" /\ cwc = 0
    BY DEF Init
<1>2. QED
    BY <1>1, InitIInv DEF Shape

(* Inflating moves a side only to the new point.                           *)
LEMMA InflateTight ==
    ASSUME NEW r \in Rect, NEW p \in Point
    PROVE  /\ Inflate(r, p).min.x \in {r.min.x, p.x}
           /\ Inflate(r, p).max.x \in {r.max.x, p.x}
           /\ Inflate(r, p).min.y \in {r.min.y, p.y}
           /\ Inflate(r, p).max.y \in {r.max.y, p.y}
    BY DEF Inflate, Lesser, Rect, Point

LEMMA ProcessPointShape ==
    ASSUME Shape, ProcessPoint
    PROVE  Shape'
<1>0. PICK s, n, j, p, q, o :
         /\ s = series /\ n = Len(s.points) /\ j = i
         /\ p = PointAt(s, j) /\ q = After(s, j, 1) /\ o = PointAt(s, 0)
    BY Zenon
<1>1. s \in [points : Seq(Point), closed : BOOLEAN]
    BY <1>0, InputsAssumption DEF Shape, IInv, TypeOK
<1>2. /\ j \in 0 .. n - 1 /\ n \in Nat /\ n >= 2
      /\ pc = "loop" /\ pc' = "loop" /\ ~ Empty(s)
      /\ series' = s /\ i' = j + 1 /\ cwc \in Int /\ rect \in Rect
      /\ cwc' = cwc + ClockwiseTerm(p, q)
      /\ rect' = IF j = 0 THEN PointRect(p) ELSE Inflate(rect, p)
    BY <1>0, <1>1, FanSteps DEF Shape, IInv, TypeOK, ProcessPoint
<1>3. p \in Point /\ q \in Point /\ o \in Point
    BY <1>0, <1>1, <1>2, PointsExist
<1>4. q = IF j = n - 1 THEN o ELSE PointAt(s, j + 1)
    <2>1. q = PointAt(s, IF j + 1 < n THEN j + 1 ELSE j + 1 - n)
        BY <1>0, Zenon DEF After
    <2>2. CASE j = n - 1
        <3>1. ~ (j + 1 < n) /\ j + 1 - n = 0
            BY <1>2, <2>2
        <3>2. QED
            BY <1>0, <2>1, <2>2, <3>1, Zenon
    <2>3. CASE j # n - 1
        <3>1. j + 1 < n
            BY <1>2, <2>3
        <3>2. QED
            BY <2>1, <2>3, <3>1, Zenon
    <2>4. QED
        BY <2>2, <2>3
<1>5. LoopArea'
    <2>1. ClockwiseTerm(o, o) = 0
        BY <1>3 DEF ClockwiseTerm, Point
    <2>2. FanSums(s)[1] = 0
        BY <1>1, <1>2, FanSteps
    <2>3. cwc + ClockwiseTerm(p, o) = IF j = 0 THEN 0 ELSE FanSums(s)[j]
        <3>1. CASE j = 0
            BY <1>0, <1>2, <2>1, <3>1 DEF Shape, LoopArea
        <3>2. CASE j # 0
            BY <1>0, <1>2, <3>2 DEF Shape, LoopArea
        <3>3. QED
            BY <3>1, <3>2
    <2>4. CASE j = n - 1
        <3>1. cwc' = FanSums(s)[n - 1]
            BY <1>2, <1>4, <2>3, <2>4
        <3>2. /\ ~ (i' = 0) /\ ~ (i' \in 1 .. n - 1)
              /\ Len(series'.points) = n /\ FanArea(series') = FanSums(s)[n - 1]
            BY <1>0, <1>2, <2>4 DEF FanArea
        <3>3. QED
            BY <3>1, <3>2, Zenon DEF LoopArea
    <2>5. CASE j # n - 1
        <3>1. cwc' + ClockwiseTerm(q, o) = FanSums(s)[j + 1]
            <4>1. ClockwiseTerm(p, q) + ClockwiseTerm(q, o)
                     = ClockwiseTerm(p, o) + Cross(o, p, q)
                BY <1>3, Trapezoids
            <4>2. /\ ClockwiseTerm(p, q) \in Int /\ ClockwiseTerm(q, o) \in Int
                  /\ ClockwiseTerm(p, o) \in Int /\ Cross(o, p, q) \in Int
                BY <1>3, Trapezoids
            <4>3. CASE j = 0
                <5>1. p = o /\ Cross(o, o, q) = 0
                    BY <1>0, <1>3, <4>3 DEF Cross, Point
                <5>2. j + 1 = 1
                    BY <4>3
                <5>3. FanSums(s)[j + 1] = 0
                    BY <2>2, <5>2, Zenon
                <5>4. cwc + ClockwiseTerm(p, o) = 0 /\ Cross(o, p, q) = 0
                    BY <2>3, <4>3, <5>1
                <5>5. QED
                    BY <1>2, <4>1, <4>2, <5>3, <5>4
            <4>4. CASE j # 0
                <5>1. j + 1 \in 2 .. n - 1 /\ (j + 1) - 1 = j
                    BY <1>2, <2>5, <4>4
                <5>2. Triangle(s, j + 1) = Cross(o, p, q)
                    BY <1>0, <1>4, <2>5, <5>1, Zenon DEF Triangle
                <5>3. FanSums(s)[j + 1] = FanSums(s)[j] + Cross(o, p, q)
                    BY <1>0, <1>1, <1>2, <5>1, <5>2, FanSteps
                <5>4. QED
                    BY <1>2, <2>3, <4>1, <4>2, <4>4, <5>3
            <4>5. QED
                BY <4>3, <4>4
        <3>2. /\ i' # 0 /\ i' # n /\ Len(series'.points) = n
              /\ PointAt(series', i') = q /\ PointAt(series', 0) = o
            BY <1>0, <1>2, <1>4, <2>5
        <3>3. QED
            BY <1>2, <3>1, <3>2, Zenon DEF LoopArea
    <2>6. QED
        BY <2>4, <2>5
<1>6. Tight(rect, i)'
    <2>1. CASE j = 0
        BY <1>0, <1>2, <2>1 DEF Tight, PointRect
    <2>2. CASE j # 0
        <3>1. Tight(rect, j)
            BY <1>0, <1>2, <2>2 DEF Shape
        <3>2. /\ rect'.min.x \in {rect.min.x, p.x}
              /\ rect'.max.x \in {rect.max.x, p.x}
              /\ rect'.min.y \in {rect.min.y, p.y}
              /\ rect'.max.y \in {rect.max.y, p.y}
            BY <1>2, <1>3, <2>2, InflateTight
        <3>3. j \in 0 .. i' - 1 /\ \A k \in 0 .. j - 1 : k \in 0 .. i' - 1
            BY <1>2
        <3>4. QED
            BY <1>0, <1>2, <3>1, <3>2, <3>3 DEF Tight
    <2>3. QED
        BY <2>1, <2>2
<1>7. QED
    BY <1>2, <1>5, <1>6, ProcessPointIInv DEF Shape

LEMMA LeaveLoopShape ==
    ASSUME Shape, LeaveLoop
    PROVE  Shape'
<1>1. series \in [points : Seq(Point), closed : BOOLEAN]
    BY InputsAssumption DEF Shape, IInv, TypeOK
<1>2. /\ pc = "loop" /\ pc' = "done" /\ i = Len(series.points) /\ ~ Empty(series)
      /\ series' = series /\ result'.rect = rect /\ result'.clockwise = (cwc > 0)
    BY DEF Shape, IInv, LeaveLoop
<1>3. i > 0
    BY <1>1, <1>2 DEF Empty
<1>4. Tight(result.rect, Len(series.points))'
    BY <1>2, <1>3 DEF Shape, Tight
<1>5. cwc = FanArea(series)
    BY <1>2 DEF Shape, LoopArea
<1>6. ClockwiseIsArea'
    BY <1>2, <1>5, Zenon DEF ClockwiseIsArea
<1>7. QED
    BY <1>2, <1>4, <1>6, LeaveLoopIInv DEF Shape

LEMMA StepShape == Shape /\ [Next]_vars => Shape'
<1> SUFFICES ASSUME Shape, [Next]_vars PROVE Shape'
    OBVIOUS
<1>0. IInv'
    BY StepIInv DEF Shape
<1>1. CASE TooFewPoints
    BY <1>0, <1>1 DEF TooFewPoints, Shape
<1>2. CASE EnterLoop
    <2>1. /\ pc' = "loop" /\ i' = 0 /\ cwc' = 0 /\ series' = series
          /\ ~ Empty(series)
        BY <1>2 DEF EnterLoop, Shape, IInv
    <2>2. Len(series.points) \in Nat /\ Len(series.points) >= 2
        <3>1. series \in [points : Seq(Point), closed : BOOLEAN]
            BY InputsAssumption DEF Shape, IInv, TypeOK
        <3>2. QED
            BY <2>1, <3>1, FanSteps
    <2>3. LoopArea'
        BY <2>1, <2>2 DEF LoopArea
    <2>4. QED
        BY <1>0, <2>1, <2>3 DEF Shape
<1>3. CASE ProcessPoint
    BY <1>3, ProcessPointShape
<1>4. CASE LeaveLoop
    BY <1>4, LeaveLoopShape
<1>5. CASE UNCHANGED vars
    BY <1>0, <1>5 DEF vars, Shape, LoopArea, Tight, ClockwiseIsArea
<1>6. QED
    BY <1>1, <1>2, <1>3, <1>4, <1>5 DEF Next

LEMMA ShapeAlways == Spec => []Shape
    BY InitShape, StepShape, PTL DEF Spec

LEMMA ShapeTight == Shape => RectTight
<1> SUFFICES ASSUME Shape, pc = "done", ~ Empty(series) PROVE RectTight
    BY DEF RectTight
<1>1. series \in [points : Seq(Point), closed : BOOLEAN]
    BY InputsAssumption DEF Shape, IInv, TypeOK
<1>2. \A k \in 0 .. Len(series.points) - 1 :
         k + 1 \in DOMAIN series.points /\ PointAt(series, k) = series.points[k + 1]
    BY <1>1 DEF PointAt
<1>3. Tight(result.rect, Len(series.points))
    BY DEF Shape
<1>4. /\ \E k \in DOMAIN series.points : series.points[k].x = result.rect.min.x
      /\ \E k \in DOMAIN series.points : series.points[k].x = result.rect.max.x
      /\ \E k \in DOMAIN series.points : series.points[k].y = result.rect.min.y
      /\ \E k \in DOMAIN series.points : series.points[k].y = result.rect.max.y
    BY <1>2, <1>3, Zenon DEF Tight
<1>5. QED
    BY <1>4, Zenon DEF RectTight

(* The rectangle is the smallest that holds the points: each of its sides  *)
(* goes through one of them, whatever their number and order.              *)
THEOREM RectIsTight == Spec => []RectTight
    BY ShapeAlways, ShapeTight, PTL

(* The sum of trapezoids that processPoints takes the sign of is twice the *)
(* signed area of the polygon, for any number of points, simple or not.    *)
THEOREM ClockwiseIsTheArea == Spec => []ClockwiseIsArea
<1>1. Shape => ClockwiseIsArea
    BY DEF Shape, ClockwiseIsArea
<1>2. QED
    BY ShapeAlways, <1>1, PTL
=============================================================================
