---------------------------- MODULE PlanarProofs ----------------------------
(***************************************************************************)
(* The predicates of single segments (segment.go, raycast.go) say what the *)
(* definitions of PlanarReference say, for all integer coordinates.  A     *)
(* segment is taken as the vector from its first end: whether something    *)
(* lies on it is a cross product and two ranges, and the parameters that   *)
(* IntersectsSegment compares with 0 and 1 are Cramer's quotients.  From   *)
(* them follows what ringContainsPoint (ring.go) says of any ring.         *)
(***************************************************************************)
EXTENDS PlanarReference, RingQueries, FiniteSetTheorems, WellFoundedInduction, TLAPS

(* Every nonempty set of naturals has a least member: the form in which    *)
(* the proofs about sums and counts along a series use induction.          *)
LEMMA LeastNatural ==
    ASSUME NEW T \in SUBSET Nat, T # {}
    PROVE  \E m \in T : \A n \in T : m <= n
<1> DEFINE R == {ss \in Nat \X Nat : ss[1] < ss[2]}
<1>1. OpToRel(<, Nat) = R
    BY Zenon DEF OpToRel
<1>2. IsWellFoundedOn(R, Nat)
    BY <1>1, NatLessThanWellFounded, Zenon
<1>3. \A m, n \in Nat : m < n => <<m, n>> \in R
    OBVIOUS
<1> HIDE DEF R
<1>4. PICK m \in T : \A n \in T : ~ (<<n, m>> \in R)
    BY <1>2, WFMin
<1>5. ASSUME NEW n \in T PROVE m <= n
    <2>1. m \in Nat /\ n \in Nat
        OBVIOUS
    <2>2. ~ (n < m)
        BY <1>3, <1>4, <2>1, Zenon
    <2>3. QED
        BY <2>1, <2>2, SMT
<1>6. QED
    BY <1>5, Zenon

(* v lies between 0 and m, on whichever side of 0 m is. *)
Btw(v, m) == (0 <= v /\ v <= m) \/ (m <= v /\ v <= 0)
(* The cross product of two vectors, and a vector that ends on another. *)
Cr(ux, uy, vx, vy) == ux * vy - uy * vx
On(rx, ry, ex, ey) == Cr(ex, ey, rx, ry) = 0 /\ Btw(ex, rx) /\ Btw(ey, ry)

(* What is between 0 and n stays so when both are scaled. *)
LEMMA Scale ==
    ASSUME NEW u \in Int, NEW m \in Int, NEW v \in Int, NEW n \in Int,
           n # 0, u * n = v * m, Btw(v, n)
    PROVE  Btw(u, m)
<1>1. CASE n > 0 /\ m >= 0
    BY <1>1 DEF Btw
<1>2. CASE n > 0 /\ m < 0
    BY <1>2 DEF Btw
<1>3. CASE n < 0 /\ m >= 0
    BY <1>3 DEF Btw
<1>4. CASE n < 0 /\ m < 0
    BY <1>4 DEF Btw
<1>5. QED
    BY <1>1, <1>2, <1>3, <1>4

(* The ranges [0, r] and [e, e + s] of one axis, whichever way they run,   *)
(* have a number in common.                                                *)
RangesTouch(r, e, s) ==
    /\ ~ (Lesser(0, r) > Greater(e, e + s))
    /\ ~ (Greater(0, r) < Lesser(e, e + s))

(* If both parameters are in their ranges, the rectangles meet. *)
LEMMA RangesMeet ==
    ASSUME NEW X \in Int, NEW K \in Int, NEW C \in Int,
           NEW r \in Int, NEW s \in Int, NEW e \in Int,
           X # 0, Btw(K, X), Btw(C, X), e * X = K * r - C * s
    PROVE  RangesTouch(r, e, s)
<1>1. CASE X > 0
    BY <1>1 DEF Btw, Greater, Lesser, RangesTouch
<1>2. CASE X < 0
    BY <1>2 DEF Btw, Greater, Lesser, RangesTouch
<1>3. QED
    BY <1>1, <1>2

-----------------------------------------------------------------------------
(* Segment.Raycast. *)

LEMMA BtwBetween ==
    ASSUME NEW m \in Int, NEW n \in Int, NEW v \in Int
    PROVE  Between(v, m, n) <=> Btw(v - m, n - m)
    BY DEF Between, Btw, Lesser, Greater

LEMMA OnSegmentVector ==
    ASSUME NEW seg \in Segment, NEW p \in Point
    PROVE  OnSegment(seg, p) <=> On(seg.b.x - seg.a.x, seg.b.y - seg.a.y,
                                    p.x - seg.a.x, p.y - seg.a.y)
    BY DEF OnSegment, CollinearPoint, Cross, RectContainsPoint, SegmentRect,
           On, Cr, Btw, Lesser, Greater, Segment, Point

(* A point of the line through a sloped segment is as far along it in one  *)
(* axis as in the other.                                                   *)
LEMMA OneAxis ==
    ASSUME NEW rx \in Int, NEW ry \in Int, NEW ex \in Int, NEW ey \in Int,
           Cr(ex, ey, rx, ry) = 0
    PROVE  /\ rx # 0 /\ Btw(ex, rx) => On(rx, ry, ex, ey)
           /\ ry # 0 /\ Btw(ey, ry) => On(rx, ry, ex, ey)
<1>1. ey * rx = ex * ry /\ ex * ry = ey * rx
    BY DEF Cr
<1>2. rx # 0 /\ Btw(ex, rx) => Btw(ey, ry)
    BY <1>1, Scale
<1>3. ry # 0 /\ Btw(ey, ry) => Btw(ex, rx)
    BY <1>1, Scale
<1>4. QED
    BY <1>2, <1>3 DEF On

LEMMA RaycastOnExact ==
    ASSUME NEW seg \in Segment, NEW p \in Point
    PROVE  RaycastOn(seg, p) <=> OnSegment(seg, p)
<1> DEFINE rx == seg.b.x - seg.a.x
           ry == seg.b.y - seg.a.y
           ex == p.x - seg.a.x
           ey == p.y - seg.a.y
<1>1. /\ seg.a \in Point /\ seg.b \in Point
      /\ seg.a.x \in Int /\ seg.a.y \in Int /\ seg.b.x \in Int /\ seg.b.y \in Int
      /\ p.x \in Int /\ p.y \in Int
    BY DEF Segment, Point
<1>2. /\ rx \in Int /\ ry \in Int /\ ex \in Int /\ ey \in Int
      /\ seg.a.x = seg.b.x <=> rx = 0
      /\ seg.a.y = seg.b.y <=> ry = 0
      /\ p.y = seg.b.y <=> ey = ry
      /\ p.x = seg.b.x <=> ex = rx
      /\ seg.a = seg.b <=> rx = 0 /\ ry = 0
      /\ p = seg.a <=> ex = 0 /\ ey = 0
    BY <1>1 DEF Point
<1>3. /\ Between(p.x, seg.a.x, seg.b.x) <=> Btw(ex, rx)
      /\ Between(p.y, seg.a.y, seg.b.y) <=> Btw(ey, ry)
    BY <1>1, BtwBetween
<1>4. CollinearPoint(seg, p) <=> Cr(ex, ey, rx, ry) = 0
    BY <1>1 DEF CollinearPoint, Cross, Cr
<1>5. OnSegment(seg, p) <=> On(rx, ry, ex, ey)
    BY OnSegmentVector
<1>6. RaycastOn(seg, p) <=>
          \/ rx = 0 /\ ry = 0 /\ ex = 0 /\ ey = 0
          \/ rx # 0 /\ ry = 0 /\ ey = ry /\ Btw(ex, rx)
          \/ rx = 0 /\ ry # 0 /\ ex = rx /\ Btw(ey, ry)
          \/ rx # 0 /\ ry # 0 /\ Btw(ey, ry) /\ Cr(ex, ey, rx, ry) = 0
    BY <1>2, <1>3, <1>4, Zenon DEF RaycastOn
<1> HIDE DEF rx, ry, ex, ey
<1>7. CASE rx = 0
    BY <1>2, <1>5, <1>6, <1>7 DEF On, Cr, Btw
<1>8. CASE rx # 0 /\ ry = 0
    BY <1>2, <1>5, <1>6, <1>8 DEF On, Cr, Btw
<1>9. CASE rx # 0 /\ ry # 0
    BY <1>2, <1>5, <1>6, <1>9, OneAxis DEF On
<1>10. QED
    BY <1>7, <1>8, <1>9

(* The two halves of Raycast's slope comparison, for a segment that rises  *)
(* by ry from its lower end and a point in its half-open range of heights. *)
LEMMA LeftOf ==
    ASSUME NEW rx \in Int, NEW ry \in Int, NEW ex \in Int, NEW ey \in Int,
           0 <= ey, ey < ry, ~ On(rx, ry, ex, ey)
    PROVE  Cr(ex, ey, rx, ry) < 0 <=>
              /\ ex < Greater(0, rx)
              /\ ex <= Lesser(0, rx) \/ ey * rx >= ry * ex
<1>1. Cr(ex, ey, rx, ry) # 0 /\ Cr(ex, ey, rx, ry) = ex * ry - ey * rx
    BY OneAxis DEF Btw, Cr
<1>2. ex * ry = ry * ex /\ ex * ry \in Int /\ ey * rx \in Int
    OBVIOUS
<1>3. CASE rx >= 0
    <2>1. 0 <= ey * rx /\ ey * rx <= ry * rx
        BY <1>3
    <2>2. ex <= 0 => ry * ex <= 0
        OBVIOUS
    <2>3. ry * ex < ry * rx => ex < rx
        BY <1>3
    <2>4. QED
        BY <1>1, <1>2, <1>3, <2>1, <2>2, <2>3 DEF Greater, Lesser
<1>4. CASE rx < 0
    <2>1. ey * rx <= 0 /\ ry * rx <= ey * rx
        BY <1>4
    <2>2. ex <= rx => ry * ex <= ry * rx
        BY <1>4
    <2>3. ry * ex < 0 => ex < 0
        OBVIOUS
    <2>4. QED
        BY <1>1, <1>2, <1>4, <2>1, <2>2, <2>3 DEF Greater, Lesser
<1>5. QED
    BY <1>3, <1>4

(* Which way a segment runs turns the orientation round and makes no       *)
(* difference to the points that lie on it.                                *)
LEMMA CrossReversed ==
    ASSUME NEW a \in Point, NEW b \in Point, NEW p \in Point
    PROVE  /\ Cross(b, a, p) = - Cross(a, b, p)
           /\ Cross(a, b, p) \in Int
<1>1. \A ax, ay, bx, by, px, py \in Int :
          (px - bx) * (ay - by) - (py - by) * (ax - bx)
             = - ((px - ax) * (by - ay) - (py - ay) * (bx - ax))
    OBVIOUS
<1>2. a.x \in Int /\ a.y \in Int /\ b.x \in Int /\ b.y \in Int /\ p.x \in Int /\ p.y \in Int
    BY DEF Point
<1>3. QED
    BY <1>1, <1>2 DEF Cross

LEMMA OnReversed ==
    ASSUME NEW seg \in Segment, NEW p \in Point
    PROVE  OnSegment([a |-> seg.b, b |-> seg.a], p) <=> OnSegment(seg, p)
<1> DEFINE rev == [a |-> seg.b, b |-> seg.a]
<1>1. seg.a \in Point /\ seg.b \in Point /\ rev.a = seg.b /\ rev.b = seg.a
    BY DEF Segment
<1>2. CollinearPoint(rev, p) <=> CollinearPoint(seg, p)
    BY <1>1, CrossReversed DEF CollinearPoint
<1>3. SegmentRect(rev) = SegmentRect(seg)
    BY <1>1 DEF SegmentRect, Lesser, Greater, Point
<1>4. QED
    BY <1>2, <1>3 DEF OnSegment

(* The segment with the same points whose end b is its upper end. *)
Upward(seg) == IF seg.a.y < seg.b.y THEN seg ELSE [a |-> seg.b, b |-> seg.a]

LEMMA RaycastInExact ==
    ASSUME NEW seg \in Segment, NEW p \in Point, ~ RaycastOn(seg, p)
    PROVE  RaycastIn(seg, p) <=>
              /\ Upward(seg).a.y <= p.y /\ p.y < Upward(seg).b.y
              /\ Cross(Upward(seg).a, Upward(seg).b, p) < 0
<1> DEFINE up == Upward(seg)
           rx == up.b.x - up.a.x
           ry == up.b.y - up.a.y
           ex == p.x - up.a.x
           ey == p.y - up.a.y
<1>1. /\ up.a.x \in Int /\ up.a.y \in Int /\ up.b.x \in Int /\ up.b.y \in Int
      /\ p.x \in Int /\ p.y \in Int /\ up \in Segment
    BY DEF Upward, Segment, Point
<1>2. ~ On(rx, ry, ex, ey)
    <2>1. OnSegment(up, p) <=> OnSegment(seg, p)
        BY OnReversed DEF Upward
    <2>2. QED
        BY <1>1, <2>1, RaycastOnExact, OnSegmentVector
<1>3. RaycastIn(seg, p) <=>
          /\ 0 <= ey /\ ey < ry
          /\ ex < Greater(0, rx)
          /\ ex <= Lesser(0, rx) \/ ey * rx >= ry * ex
    BY DEF RaycastIn, Upward, Segment, Point, Lesser, Greater
<1>4. Cross(up.a, up.b, p) = Cr(ex, ey, rx, ry)
    BY DEF Cross, Cr
<1>5. (up.a.y <= p.y <=> 0 <= ey) /\ (p.y < up.b.y <=> ey < ry)
    BY <1>1
<1>6. rx \in Int /\ ry \in Int /\ ex \in Int /\ ey \in Int
    BY <1>1
<1> HIDE DEF up, rx, ry, ex, ey
<1>7. QED
    BY <1>2, <1>3, <1>4, <1>5, <1>6, LeftOf DEF up

-----------------------------------------------------------------------------
(* Segment.IntersectsSegment, in vectors: r along seg, s along other and e *)
(* from the start of seg to the start of other.                            *)

LEMMA UnitFractionBtw ==
    ASSUME NEW n \in Int, NEW d \in Int, d # 0
    PROVE  UnitFraction(n, d) <=> Btw(n, d)
    BY DEF UnitFraction, Btw

(* What IntersectsSegment answers. *)
Reported(rx, ry, sx, sy, ex, ey) ==
    LET C == Cr(ex, ey, rx, ry)
        K == Cr(ex, ey, sx, sy)
        X == Cr(rx, ry, sx, sy)
    IN  /\ RangesTouch(rx, ex, sx) /\ RangesTouch(ry, ey, sy)
        /\ \/ ex = 0 /\ ey = 0
           \/ ex + sx = 0 /\ ey + sy = 0
           \/ ex = rx /\ ey = ry
           \/ ex + sx = rx /\ ey + sy = ry
           \/ /\ C = 0
              /\ \/ (ex <= 0) # (ex - rx <= 0)
                 \/ (ey <= 0) # (ey - ry <= 0)
                 \/ On(rx, ry, ex, ey)
                 \/ On(rx, ry, ex + sx, ey + sy)
           \/ C # 0 /\ X # 0 /\ Btw(K, X) /\ Btw(C, X)

(* The segments meet, at one of the four ends or by a proper crossing, and *)
(* seg does not lie inside other.                                          *)
Touch(rx, ry, sx, sy, ex, ey) ==
    LET C == Cr(ex, ey, rx, ry)
        K == Cr(ex, ey, sx, sy)
        X == Cr(rx, ry, sx, sy)
    IN  \/ On(rx, ry, ex, ey) \/ On(rx, ry, ex + sx, ey + sy)
        \/ ~ (On(sx, sy, - ex, - ey) <=> On(sx, sy, rx - ex, ry - ey))
        \/ /\ (C < 0 /\ C - X > 0) \/ (C > 0 /\ C - X < 0)
           /\ (- K < 0 /\ X - K > 0) \/ (- K > 0 /\ X - K < 0)

(* The same three products give the sides of all four ends. *)
Products(rx, ry, sx, sy, ex, ey, C, K, X) ==
    /\ C = Cr(ex, ey, rx, ry) /\ K = Cr(ex, ey, sx, sy) /\ X = Cr(rx, ry, sx, sy)
    /\ Cr(ex + sx, ey + sy, rx, ry) = C - X
    /\ Cr(- ex, - ey, sx, sy) = - K /\ Cr(rx - ex, ry - ey, sx, sy) = X - K
    /\ ex * X = K * rx - C * sx /\ ey * X = K * ry - C * sy
    /\ (ex + sx) * X = K * rx - (C - X) * sx
    /\ (ey + sy) * X = K * ry - (C - X) * sy
    /\ (rx - ex) * X = (X - K) * rx + C * sx
    /\ (ry - ey) * X = (X - K) * ry + C * sy

LEMMA Sides ==
    ASSUME NEW rx \in Int, NEW ry \in Int, NEW sx \in Int, NEW sy \in Int,
           NEW ex \in Int, NEW ey \in Int
    PROVE  \E C, K, X \in Int : Products(rx, ry, sx, sy, ex, ey, C, K, X)
<1> DEFINE C == Cr(ex, ey, rx, ry)
           K == Cr(ex, ey, sx, sy)
           X == Cr(rx, ry, sx, sy)
<1>1. C \in Int /\ K \in Int /\ X \in Int
    BY DEF Cr
<1>2. Products(rx, ry, sx, sy, ex, ey, C, K, X)
    BY DEF Products, Cr
<1>3. QED
    BY <1>1, <1>2, Zenon

LEMMA ReportedTouch ==
    ASSUME NEW rx \in Int, NEW ry \in Int, NEW sx \in Int, NEW sy \in Int,
           NEW ex \in Int, NEW ey \in Int, Reported(rx, ry, sx, sy, ex, ey)
    PROVE  Touch(rx, ry, sx, sy, ex, ey)
<1>0. PICK C \in Int, K \in Int, X \in Int :
          Products(rx, ry, sx, sy, ex, ey, C, K, X)
    BY Sides, Zenon
<1>1. /\ C = Cr(ex, ey, rx, ry) /\ K = Cr(ex, ey, sx, sy) /\ X = Cr(rx, ry, sx, sy)
      /\ Cr(ex + sx, ey + sy, rx, ry) = C - X
      /\ Cr(- ex, - ey, sx, sy) = - K /\ Cr(rx - ex, ry - ey, sx, sy) = X - K
      /\ ex * X = K * rx - C * sx /\ ey * X = K * ry - C * sy
      /\ (ex + sx) * X = K * rx - (C - X) * sx /\ (ey + sy) * X = K * ry - (C - X) * sy
      /\ (rx - ex) * X = (X - K) * rx + C * sx /\ (ry - ey) * X = (X - K) * ry + C * sy
    BY <1>0, Zenon DEF Products
<1>2. CASE \/ ex = 0 /\ ey = 0
           \/ ex + sx = 0 /\ ey + sy = 0
           \/ ex = rx /\ ey = ry
           \/ ex + sx = rx /\ ey + sy = ry
    BY <1>2 DEF Touch, On, Cr, Btw
<1>3. CASE C = 0 /\ (ex <= 0) # (ex - rx <= 0)
    <2>1. rx # 0 /\ Btw(ex, rx)
        BY <1>3 DEF Btw
    <2>2. On(rx, ry, ex, ey)
        BY <1>1, <1>3, <2>1, OneAxis, Zenon
    <2>3. QED
        BY <2>2, Zenon DEF Touch
<1>4. CASE C = 0 /\ (ey <= 0) # (ey - ry <= 0)
    <2>1. ry # 0 /\ Btw(ey, ry)
        BY <1>4 DEF Btw
    <2>2. On(rx, ry, ex, ey)
        BY <1>1, <1>4, <2>1, OneAxis, Zenon
    <2>3. QED
        BY <2>2, Zenon DEF Touch
<1>5. CASE On(rx, ry, ex, ey) \/ On(rx, ry, ex + sx, ey + sy)
    BY <1>5 DEF Touch
<1>6. CASE C # 0 /\ X # 0 /\ Btw(K, X) /\ Btw(C, X)
    <2>1. CASE C = X
        <3>1. (ex + sx) * X = K * rx /\ (ey + sy) * X = K * ry
            BY <1>1, <2>1
        <3>2. Btw(ex + sx, rx) /\ Btw(ey + sy, ry)
            BY <1>6, <3>1, Scale
        <3>3. QED
            BY <1>1, <2>1, <3>2 DEF Touch, On
    <2>2. CASE K = 0
        <3>1. (- ex) * X = C * sx /\ (- ey) * X = C * sy
            <4>1. (- ex) * X = - (ex * X) /\ (- ey) * X = - (ey * X)
                OBVIOUS
            <4>2. QED
                BY <1>1, <2>2, <4>1
        <3>2. Btw(- ex, sx) /\ Btw(- ey, sy)
            BY <1>6, <3>1, Scale
        <3>3. On(sx, sy, - ex, - ey) /\ ~ On(sx, sy, rx - ex, ry - ey)
            BY <1>1, <1>6, <2>2, <3>2 DEF On
        <3>4. QED
            BY <3>3 DEF Touch
    <2>3. CASE K = X
        <3>1. (rx - ex) * X = C * sx /\ (ry - ey) * X = C * sy
            BY <1>1, <2>3
        <3>2. Btw(rx - ex, sx) /\ Btw(ry - ey, sy)
            BY <1>6, <3>1, Scale
        <3>3. ~ On(sx, sy, - ex, - ey) /\ On(sx, sy, rx - ex, ry - ey)
            <4>1. - K # 0 /\ X - K = 0
                BY <1>6, <2>3
            <4>2. QED
                BY <1>1, <3>2, <4>1, Zenon DEF On
        <3>4. QED
            BY <3>3 DEF Touch
    <2>4. CASE C # X /\ K # 0 /\ K # X
        <3>1. /\ (C < 0 /\ C - X > 0) \/ (C > 0 /\ C - X < 0)
              /\ (- K < 0 /\ X - K > 0) \/ (- K > 0 /\ X - K < 0)
            BY <1>6, <2>4 DEF Btw
        <3>2. QED
            BY <1>1, <3>1, Zenon DEF Touch
    <2>5. QED
        BY <2>1, <2>2, <2>3, <2>4
<1>7. QED
    BY <1>1, <1>2, <1>3, <1>4, <1>5, <1>6, Zenon DEF Reported

(* The rectangles of two segments of which one has an end on the other.    *)
LEMMA EndsTouch ==
    ASSUME NEW r \in Int, NEW s \in Int, NEW e \in Int,
           Btw(e, r) \/ Btw(e + s, r) \/ Btw(- e, s) \/ Btw(r - e, s)
    PROVE  RangesTouch(r, e, s)
    BY DEF RangesTouch, Btw, Lesser, Greater

LEMMA NonZero == \A m, n \in Int : m * n = 0 <=> m = 0 \/ n = 0
    OBVIOUS

LEMMA TouchReported ==
    ASSUME NEW rx \in Int, NEW ry \in Int, NEW sx \in Int, NEW sy \in Int,
           NEW ex \in Int, NEW ey \in Int, Touch(rx, ry, sx, sy, ex, ey)
    PROVE  Reported(rx, ry, sx, sy, ex, ey)
<1>0. PICK C \in Int, K \in Int, X \in Int :
          Products(rx, ry, sx, sy, ex, ey, C, K, X)
    BY Sides, Zenon
<1>1. /\ C = Cr(ex, ey, rx, ry) /\ K = Cr(ex, ey, sx, sy) /\ X = Cr(rx, ry, sx, sy)
      /\ Cr(ex + sx, ey + sy, rx, ry) = C - X
      /\ Cr(- ex, - ey, sx, sy) = - K /\ Cr(rx - ex, ry - ey, sx, sy) = X - K
      /\ ex * X = K * rx - C * sx /\ ey * X = K * ry - C * sy
      /\ (ex + sx) * X = K * rx - (C - X) * sx /\ (ey + sy) * X = K * ry - (C - X) * sy
      /\ (rx - ex) * X = (X - K) * rx + C * sx /\ (ry - ey) * X = (X - K) * ry + C * sy
    BY <1>0, Zenon DEF Products
<1>2. ASSUME C # 0, X # 0, Btw(K, X), Btw(C, X)
      PROVE  Reported(rx, ry, sx, sy, ex, ey)
    <2>1. RangesTouch(rx, ex, sx) /\ RangesTouch(ry, ey, sy)
        BY <1>1, <1>2, RangesMeet
    <2>2. QED
        BY <1>1, <1>2, <2>1, Zenon DEF Reported
<1>3. CASE On(rx, ry, ex, ey)
    <2>1. C = 0 /\ RangesTouch(rx, ex, sx) /\ RangesTouch(ry, ey, sy)
        BY <1>1, <1>3, EndsTouch DEF On
    <2>2. QED
        BY <1>1, <1>3, <2>1, Zenon DEF Reported
<1>4. CASE On(rx, ry, ex + sx, ey + sy)
    <2>1. C = X /\ RangesTouch(rx, ex, sx) /\ RangesTouch(ry, ey, sy)
          /\ Btw(ex + sx, rx) /\ Btw(ey + sy, ry)
        <3>1. C - X = 0 /\ Btw(ex + sx, rx) /\ Btw(ey + sy, ry)
            BY <1>1, <1>4, Zenon DEF On
        <3>2. QED
            BY <3>1, EndsTouch
    <2>2. CASE C = 0
        BY <1>1, <1>4, <2>1, <2>2, Zenon DEF Reported
    <2>3. CASE C # 0
        <3>1. K * rx = (ex + sx) * X /\ K * ry = (ey + sy) * X
            BY <1>1, <2>1
        <3>2. rx # 0 \/ ry # 0
            BY <1>1, <2>3 DEF Cr
        <3>3. Btw(K, X)
            BY <2>1, <3>1, <3>2, Scale
        <3>4. Btw(C, X)
            BY <2>1 DEF Btw
        <3>5. QED
            BY <1>2, <2>1, <2>3, <3>3, <3>4
    <2>4. QED
        BY <2>2, <2>3
<1>5. CASE /\ ~ (On(sx, sy, - ex, - ey) <=> On(sx, sy, rx - ex, ry - ey))
           /\ ~ On(rx, ry, ex, ey) /\ ~ On(rx, ry, ex + sx, ey + sy)
    <2>0. PICK gx \in Int, gy \in Int, hx \in Int, hy \in Int, fx \in Int, fy \in Int :
             /\ gx = - ex /\ gy = - ey /\ hx = rx - ex /\ hy = ry - ey
             /\ fx = ex + sx /\ fy = ey + sy
        OBVIOUS
    <2>1. /\ C = Cr(ex, ey, rx, ry) /\ C - X = Cr(fx, fy, rx, ry)
          /\ - K = Cr(gx, gy, sx, sy) /\ X - K = Cr(hx, hy, sx, sy)
          /\ ~ (On(sx, sy, gx, gy) <=> On(sx, sy, hx, hy))
          /\ ~ On(rx, ry, ex, ey) /\ ~ On(rx, ry, fx, fy)
        BY <1>1, <1>5, <2>0, Zenon
    <2>2. ~ (gx = 0 /\ gy = 0) /\ ~ (hx = 0 /\ hy = 0)
        BY <2>0, <2>1 DEF On, Cr, Btw
    <2>3. gx * X = - K * rx + C * sx /\ gy * X = - K * ry + C * sy
        BY <1>1, <2>0
    <2>4. hx * X = (X - K) * rx + C * sx /\ hy * X = (X - K) * ry + C * sy
        BY <1>1, <2>0, Zenon
    <2>5. - K = 0 \/ X - K = 0
        BY <2>1 DEF On
    <2>6. CASE X = 0
        <3>1. K = 0 /\ C * sx = 0 /\ C * sy = 0
            BY <2>3, <2>5, <2>6
        <3>2. sx # 0 \/ sy # 0
            BY <2>1, <2>2 DEF On, Btw
        <3>3. C = 0 /\ - K = 0 /\ X - K = 0 /\ C - X = 0
            <4>1. C = 0
                BY <3>1, <3>2, NonZero, Zenon
            <4>2. \A m \in Int : (- m = 0 <=> m = 0) /\ (m = 0 => 0 - m = 0)
                OBVIOUS
            <4>3. QED
                BY <2>6, <3>1, <4>1, <4>2, Zenon
        <3>4. CASE sx # 0
            <4>1. On(sx, sy, gx, gy) <=> Btw(gx, sx)
                BY <2>1, <3>3, <3>4, OneAxis DEF On
            <4>2. On(sx, sy, hx, hy) <=> Btw(hx, sx)
                BY <2>1, <3>3, <3>4, OneAxis DEF On
            <4>3. rx # 0 /\ (Btw(ex, rx) \/ Btw(fx, rx))
                BY <2>0, <2>1, <4>1, <4>2 DEF Btw
            <4>4. QED
                BY <2>1, <3>3, <4>3, OneAxis
        <3>5. CASE sy # 0
            <4>1. On(sx, sy, gx, gy) <=> Btw(gy, sy)
                BY <2>1, <3>3, <3>5, OneAxis DEF On
            <4>2. On(sx, sy, hx, hy) <=> Btw(hy, sy)
                BY <2>1, <3>3, <3>5, OneAxis DEF On
            <4>3. ry # 0 /\ (Btw(ey, ry) \/ Btw(fy, ry))
                BY <2>0, <2>1, <4>1, <4>2 DEF Btw
            <4>4. QED
                BY <2>1, <3>3, <4>3, OneAxis
        <3>6. QED
            BY <3>2, <3>4, <3>5
    <2>7. CASE X # 0 /\ On(sx, sy, gx, gy)
        <3>1. K = 0 /\ Btw(gx, sx) /\ Btw(gy, sy)
            BY <2>1, <2>7 DEF On
        <3>2. C * sx = gx * X /\ C * sy = gy * X
            BY <2>3, <3>1
        <3>3. Btw(K, X) /\ (sx # 0 \/ sy # 0)
            BY <2>2, <3>1 DEF Btw
        <3>4. C # 0
            BY <2>2, <2>7, <3>2, NonZero
        <3>5. Btw(C, X)
            BY <3>1, <3>2, <3>3, Scale
        <3>6. QED
            BY <1>2, <2>7, <3>3, <3>4, <3>5, Zenon
    <2>8. CASE X # 0 /\ On(sx, sy, hx, hy)
        <3>1. K = X /\ Btw(hx, sx) /\ Btw(hy, sy)
            BY <2>1, <2>8 DEF On
        <3>2. C * sx = hx * X /\ C * sy = hy * X
            BY <2>4, <3>1
        <3>3. Btw(K, X) /\ (sx # 0 \/ sy # 0)
            BY <2>2, <3>1 DEF Btw
        <3>4. C # 0
            BY <2>2, <2>8, <3>2, NonZero
        <3>5. Btw(C, X)
            BY <3>1, <3>2, <3>3, Scale
        <3>6. QED
            BY <1>2, <2>8, <3>3, <3>4, <3>5, Zenon
    <2>9. QED
        BY <2>1, <2>6, <2>7, <2>8, Zenon
<1>6. CASE /\ (C < 0 /\ C - X > 0) \/ (C > 0 /\ C - X < 0)
           /\ (- K < 0 /\ X - K > 0) \/ (- K > 0 /\ X - K < 0)
    BY <1>2, <1>6 DEF Btw
<1>7. QED
    BY <1>1, <1>3, <1>4, <1>5, <1>6, Zenon DEF Touch

-----------------------------------------------------------------------------
LEMMA RaycastOnIs ==
    ASSUME NEW seg, NEW p
    PROVE  /\ Raycast(seg, p).on = RaycastOn(seg, p)
           /\ Raycast(seg, p).in = (~ RaycastOn(seg, p) /\ RaycastIn(seg, p))
    BY DEF Raycast, RaycastOn, RaycastIn

(* The vectors of IntersectsSegment. *)
LEMMA IntersectsVector ==
    ASSUME NEW seg \in Segment, NEW other \in Segment
    PROVE  IntersectsSegment(seg, other) <=>
             Reported(seg.b.x - seg.a.x, seg.b.y - seg.a.y,
                    other.b.x - other.a.x, other.b.y - other.a.y,
                    other.a.x - seg.a.x, other.a.y - seg.a.y)
<1> DEFINE rx == seg.b.x - seg.a.x
           ry == seg.b.y - seg.a.y
           sx == other.b.x - other.a.x
           sy == other.b.y - other.a.y
           ex == other.a.x - seg.a.x
           ey == other.a.y - seg.a.y
           C == Cr(ex, ey, rx, ry)
           K == Cr(ex, ey, sx, sy)
           X == Cr(rx, ry, sx, sy)
<1>1. /\ seg.a \in Point /\ seg.b \in Point /\ other.a \in Point /\ other.b \in Point
      /\ seg.a.x \in Int /\ seg.a.y \in Int /\ seg.b.x \in Int /\ seg.b.y \in Int
      /\ other.a.x \in Int /\ other.a.y \in Int /\ other.b.x \in Int /\ other.b.y \in Int
    BY DEF Segment, Point
<1>2. RectIntersectsRect(SegmentRect(seg), SegmentRect(other)) <=>
          RangesTouch(rx, ex, sx) /\ RangesTouch(ry, ey, sy)
    BY <1>1 DEF RectIntersectsRect, SegmentRect, RangesTouch, Lesser, Greater
<1>3. /\ seg.a = other.a <=> ex = 0 /\ ey = 0
      /\ seg.a = other.b <=> ex + sx = 0 /\ ey + sy = 0
      /\ seg.b = other.a <=> ex = rx /\ ey = ry
      /\ seg.b = other.b <=> ex + sx = rx /\ ey + sy = ry
    <2>1. \A p, q \in Point : p = q <=> p.x = q.x /\ p.y = q.y
        BY DEF Point
    <2>2. /\ seg.a = other.a <=> seg.a.x = other.a.x /\ seg.a.y = other.a.y
          /\ seg.a = other.b <=> seg.a.x = other.b.x /\ seg.a.y = other.b.y
          /\ seg.b = other.a <=> seg.b.x = other.a.x /\ seg.b.y = other.a.y
          /\ seg.b = other.b <=> seg.b.x = other.b.x /\ seg.b.y = other.b.y
        BY <1>1, <2>1, Zenon
    <2>3. \A a, b, c, d \in Int :
             /\ (a = c <=> c - a = 0) /\ (b = c <=> c - a = b - a)
             /\ (a = d <=> (c - a) + (d - c) = 0)
             /\ (b = d <=> (c - a) + (d - c) = b - a)
        OBVIOUS
    <2>4. /\ (seg.a.x = other.a.x <=> ex = 0) /\ (seg.b.x = other.a.x <=> ex = rx)
          /\ (seg.a.x = other.b.x <=> ex + sx = 0)
          /\ (seg.b.x = other.b.x <=> ex + sx = rx)
        BY <1>1, <2>3
    <2>5. /\ (seg.a.y = other.a.y <=> ey = 0) /\ (seg.b.y = other.a.y <=> ey = ry)
          /\ (seg.a.y = other.b.y <=> ey + sy = 0)
          /\ (seg.b.y = other.b.y <=> ey + sy = ry)
        BY <1>1, <2>3
    <2> HIDE DEF rx, ry, sx, sy, ex, ey
    <2>6. QED
        BY <2>2, <2>4, <2>5, Zenon
<1>4. Cross(seg.a, seg.b, other.a) = C
    BY DEF Cross, Cr
<1>5. CollinearOverlap(seg, other) <=>
          \/ (ex <= 0) # (ex - rx <= 0)
          \/ (ey <= 0) # (ey - ry <= 0)
          \/ On(rx, ry, ex, ey)
          \/ On(rx, ry, ex + sx, ey + sy)
    <2>1. /\ ex - rx = other.a.x - seg.b.x /\ ey - ry = other.a.y - seg.b.y
          /\ ex + sx = other.b.x - seg.a.x /\ ey + sy = other.b.y - seg.a.y
        BY <1>1
    <2>2. /\ Raycast(seg, other.a).on <=> On(rx, ry, ex, ey)
          /\ Raycast(seg, other.b).on <=> On(rx, ry, ex + sx, ey + sy)
        BY <1>1, <2>1, RaycastOnIs, RaycastOnExact, OnSegmentVector
    <2>3. QED
        BY <2>1, <2>2 DEF CollinearOverlap
<1>6. /\ C \in Int /\ K \in Int /\ X \in Int
    BY <1>1 DEF Cr
<1>7. X # 0 => /\ UnitFraction(K, X) <=> Btw(K, X)
               /\ UnitFraction(C, X) <=> Btw(C, X)
    BY <1>6, UnitFractionBtw
<1>8. IntersectsSegment(seg, other) <=>
          /\ RectIntersectsRect(SegmentRect(seg), SegmentRect(other))
          /\ \/ seg.a = other.a \/ seg.a = other.b \/ seg.b = other.a \/ seg.b = other.b
             \/ C = 0 /\ CollinearOverlap(seg, other)
             \/ C # 0 /\ X # 0 /\ UnitFraction(K, X) /\ UnitFraction(C, X)
    BY <1>4, Zenon DEF IntersectsSegment, Cr
<1> HIDE DEF rx, ry, sx, sy, ex, ey
<1>9. IntersectsSegment(seg, other) <=> Reported(rx, ry, sx, sy, ex, ey)
    BY <1>2, <1>3, <1>5, <1>7, <1>8, Zenon DEF Reported
<1>10. QED
    BY <1>9 DEF rx, ry, sx, sy, ex, ey

LEMMA Vectors ==
    ASSUME NEW seg \in Segment, NEW other \in Segment
    PROVE  \E rx, ry, sx, sy, ex, ey \in Int :
              /\ rx = seg.b.x - seg.a.x /\ ry = seg.b.y - seg.a.y
              /\ sx = other.b.x - other.a.x /\ sy = other.b.y - other.a.y
              /\ ex = other.a.x - seg.a.x /\ ey = other.a.y - seg.a.y
<1>1. /\ seg.b.x - seg.a.x \in Int /\ seg.b.y - seg.a.y \in Int
      /\ other.b.x - other.a.x \in Int /\ other.b.y - other.a.y \in Int
      /\ other.a.x - seg.a.x \in Int /\ other.a.y - seg.a.y \in Int
    BY DEF Segment, Point
<1>2. QED
    BY <1>1, Zenon

(* SharePoint and Swallowed in the same vectors. *)
LEMMA ShareVector ==
    ASSUME NEW seg \in Segment, NEW other \in Segment
    PROVE  (SharePoint(seg, other) /\ ~ Swallowed(seg, other)) <=>
             Touch(seg.b.x - seg.a.x, seg.b.y - seg.a.y,
                   other.b.x - other.a.x, other.b.y - other.a.y,
                   other.a.x - seg.a.x, other.a.y - seg.a.y)
<1>1. /\ seg.a \in Point /\ seg.b \in Point /\ other.a \in Point /\ other.b \in Point
      /\ seg.a.x \in Int /\ seg.a.y \in Int /\ seg.b.x \in Int /\ seg.b.y \in Int
      /\ other.a.x \in Int /\ other.a.y \in Int /\ other.b.x \in Int /\ other.b.y \in Int
    BY DEF Segment, Point
<1>2. PICK rx \in Int, ry \in Int, sx \in Int, sy \in Int, ex \in Int, ey \in Int :
          /\ rx = seg.b.x - seg.a.x /\ ry = seg.b.y - seg.a.y
          /\ sx = other.b.x - other.a.x /\ sy = other.b.y - other.a.y
          /\ ex = other.a.x - seg.a.x /\ ey = other.a.y - seg.a.y
    BY Vectors, Zenon
<1>3. PICK C \in Int, K \in Int, X \in Int :
          Products(rx, ry, sx, sy, ex, ey, C, K, X)
    BY Sides, Zenon
<1>4. /\ C = Cr(ex, ey, rx, ry) /\ K = Cr(ex, ey, sx, sy) /\ X = Cr(rx, ry, sx, sy)
      /\ Cr(ex + sx, ey + sy, rx, ry) = C - X
      /\ Cr(- ex, - ey, sx, sy) = - K /\ Cr(rx - ex, ry - ey, sx, sy) = X - K
    BY <1>3, Zenon DEF Products
<1>5. /\ other.b.x - seg.a.x = ex + sx /\ other.b.y - seg.a.y = ey + sy
      /\ seg.a.x - other.a.x = - ex /\ seg.a.y - other.a.y = - ey
      /\ seg.b.x - other.a.x = rx - ex /\ seg.b.y - other.a.y = ry - ey
    BY <1>1, <1>2
<1>6. \A a, b, p \in Point :
          Cross(a, b, p) = Cr(p.x - a.x, p.y - a.y, b.x - a.x, b.y - a.y)
    BY Zenon DEF Cross, Cr
<1>7. /\ Cross(seg.a, seg.b, other.a) = C /\ Cross(seg.a, seg.b, other.b) = C - X
      /\ Cross(other.a, other.b, seg.a) = - K /\ Cross(other.a, other.b, seg.b) = X - K
    <2>1. /\ Cross(seg.a, seg.b, other.a) = Cr(ex, ey, rx, ry)
          /\ Cross(seg.a, seg.b, other.b) = Cr(ex + sx, ey + sy, rx, ry)
        BY <1>1, <1>2, <1>5, <1>6
    <2>2. /\ Cross(other.a, other.b, seg.a) = Cr(- ex, - ey, sx, sy)
          /\ Cross(other.a, other.b, seg.b) = Cr(rx - ex, ry - ey, sx, sy)
        BY <1>1, <1>2, <1>5, <1>6
    <2>3. QED
        BY <1>4, <2>1, <2>2
<1>8. /\ OnSegment(seg, other.a) <=> On(rx, ry, ex, ey)
      /\ OnSegment(seg, other.b) <=> On(rx, ry, ex + sx, ey + sy)
      /\ OnSegment(other, seg.a) <=> On(sx, sy, - ex, - ey)
      /\ OnSegment(other, seg.b) <=> On(sx, sy, rx - ex, ry - ey)
    BY <1>1, <1>2, <1>5, OnSegmentVector, Zenon
<1>9. On(sx, sy, - ex, - ey) => - K = 0
    BY <1>4, Zenon DEF On
<1>10. (- K < 0 /\ X - K > 0) \/ (- K > 0 /\ X - K < 0) => - K # 0
    OBVIOUS
<1>11. (SharePoint(seg, other) /\ ~ Swallowed(seg, other)) <=>
          Touch(rx, ry, sx, sy, ex, ey)
    BY <1>4, <1>7, <1>8, <1>9, <1>10, Zenon
       DEF SharePoint, Swallowed, Separated, Touch
<1>12. QED
    BY <1>2, <1>11, Zenon

(* IntersectsSegment finds every pair of segments with a point in common   *)
(* but those of which the receiver lies strictly inside the other.         *)
LEMMA IntersectsSegmentExact ==
    ASSUME NEW seg \in Segment, NEW other \in Segment
    PROVE  IntersectsSegment(seg, other) <=>
             SharePoint(seg, other) /\ ~ Swallowed(seg, other)
<1>1. PICK rx \in Int, ry \in Int, sx \in Int, sy \in Int, ex \in Int, ey \in Int :
          /\ rx = seg.b.x - seg.a.x /\ ry = seg.b.y - seg.a.y
          /\ sx = other.b.x - other.a.x /\ sy = other.b.y - other.a.y
          /\ ex = other.a.x - seg.a.x /\ ey = other.a.y - seg.a.y
    BY Vectors, Zenon
<1>2. Reported(rx, ry, sx, sy, ex, ey) <=> Touch(rx, ry, sx, sy, ex, ey)
    BY ReportedTouch, TouchReported, Zenon
<1>3. QED
    BY <1>1, <1>2, IntersectsVector, ShareVector, Zenon

-----------------------------------------------------------------------------
(* ringContainsPoint.                                                      *)
(*                                                                         *)
(* A ring that goes round a point enters and leaves the quadrant to the    *)
(* upper right of the point equally often.  An edge that does not pass     *)
(* through the point enters or leaves it iff it crosses just one of the    *)
(* two rays, to the right and upwards, that bound the quadrant: so both    *)
(* rays cross equally many edges, up to an even number.                    *)

LEMMA LeastOf ==
    ASSUME NEW S \in SUBSET Nat, S # {}
    PROVE  Min(S) \in S /\ \A k \in S : Min(S) <= k
<1>1. \E m \in S : \A k \in S : m <= k
    BY LeastNatural, Zenon
<1>2. QED
    BY <1>1 DEF Min

(* The rule of signs for a product. *)
LEMMA SignsOf ==
    ASSUME NEW m \in Int, NEW n \in Int
    PROVE  /\ m * n \in Int
           /\ m > 0 /\ n > 0 => m * n > 0
           /\ m > 0 /\ n <= 0 => m * n <= 0
           /\ m <= 0 /\ n > 0 => m * n <= 0
           /\ m <= 0 /\ n <= 0 => m * n >= 0
    OBVIOUS

(* A segment from (ax, ay) to (bx, by) that does not pass through 0: it    *)
(* crosses the ray to the right, or the ray upwards, but not both, iff it  *)
(* leads into the quadrant between them or out of it.                      *)
CrossesRight(ay, by, c) == (ay <= 0 /\ 0 < by /\ c < 0) \/ (by <= 0 /\ 0 < ay /\ c > 0)
CrossesUp(ax, bx, c) == (ax <= 0 /\ 0 < bx /\ c > 0) \/ (bx <= 0 /\ 0 < ax /\ c < 0)
Quadrant(x, y) == x > 0 /\ y > 0

LEMMA QuadrantLeft ==
    ASSUME NEW ax \in Int, NEW ay \in Int, NEW bx \in Int, NEW by \in Int,
           NEW c \in Int, c = ay * bx - ax * by,
           ~ (c = 0 /\ Between(0, ax, bx) /\ Between(0, ay, by))
    PROVE  (CrossesRight(ay, by, c) <=> CrossesUp(ax, bx, c))
              <=> (Quadrant(ax, ay) <=> Quadrant(bx, by))
<1>1. PICK u \in Int, v \in Int : u = ay * bx /\ v = ax * by
    OBVIOUS
<1>2. /\ ay > 0 /\ bx > 0 => u > 0
      /\ ay > 0 /\ bx <= 0 => u <= 0
      /\ ay <= 0 /\ bx > 0 => u <= 0
      /\ ay <= 0 /\ bx <= 0 => u >= 0
    BY <1>1, SignsOf
<1>3. /\ ax > 0 /\ by > 0 => v > 0
      /\ ax > 0 /\ by <= 0 => v <= 0
      /\ ax <= 0 /\ by > 0 => v <= 0
      /\ ax <= 0 /\ by <= 0 => v >= 0
    BY <1>1, SignsOf
<1>4. c = u - v
    BY <1>1
<1> USE DEF CrossesRight, CrossesUp, Quadrant
<1>5. ASSUME Quadrant(ax, ay), Quadrant(bx, by)
      PROVE  ~ CrossesRight(ay, by, c) /\ ~ CrossesUp(ax, bx, c)
    BY <1>5
<1>6. ASSUME Quadrant(ax, ay), ~ Quadrant(bx, by)
      PROVE  ~ (CrossesRight(ay, by, c) <=> CrossesUp(ax, bx, c))
    <2>1. CASE bx > 0 /\ by <= 0
        BY <1>2, <1>3, <1>4, <1>6, <2>1
    <2>2. CASE bx <= 0 /\ by > 0
        BY <1>2, <1>3, <1>4, <1>6, <2>2
    <2>3. CASE bx <= 0 /\ by <= 0
        <3>1. Between(0, ax, bx) /\ Between(0, ay, by)
            BY <1>6, <2>3 DEF Between, Lesser, Greater
        <3>2. c # 0
            BY <3>1, Zenon
        <3>3. c < 0 \/ c > 0
            BY <3>2
        <3>4. QED
            BY <1>6, <2>3, <3>3
    <2>4. QED
        BY <1>6, <2>1, <2>2, <2>3
<1>7. ASSUME ~ Quadrant(ax, ay), Quadrant(bx, by)
       PROVE  ~ (CrossesRight(ay, by, c) <=> CrossesUp(ax, bx, c))
    <2>1. CASE ax > 0 /\ ay <= 0
        BY <1>2, <1>3, <1>4, <1>7, <2>1
    <2>2. CASE ax <= 0 /\ ay > 0
        BY <1>2, <1>3, <1>4, <1>7, <2>2
    <2>3. CASE ax <= 0 /\ ay <= 0
        <3>1. Between(0, ax, bx) /\ Between(0, ay, by)
            BY <1>7, <2>3 DEF Between, Lesser, Greater
        <3>2. c # 0
            BY <3>1, Zenon
        <3>3. c < 0 \/ c > 0
            BY <3>2
        <3>4. QED
            BY <1>7, <2>3, <3>3
    <2>4. QED
        BY <1>7, <2>1, <2>2, <2>3
<1>8. ASSUME ~ Quadrant(ax, ay), ~ Quadrant(bx, by)
       PROVE  CrossesRight(ay, by, c) <=> CrossesUp(ax, bx, c)
    <2>1. CASE ax <= 0 /\ bx <= 0
        BY <1>2, <1>3, <1>4, <1>8, <2>1
    <2>2. CASE ax > 0 /\ bx > 0
        BY <1>2, <1>3, <1>4, <1>8, <2>2
    <2>3. CASE ax <= 0 /\ bx > 0
        BY <1>2, <1>3, <1>4, <1>8, <2>3
    <2>4. CASE ax > 0 /\ bx <= 0
        BY <1>2, <1>3, <1>4, <1>8, <2>4
    <2>5. QED
        BY <2>1, <2>2, <2>3, <2>4
<1> HIDE DEF CrossesRight, CrossesUp, Quadrant
<1>9. QED
    BY <1>5, <1>6, <1>7, <1>8, Zenon

(* The same of a segment and a point that is not on it: Raycast's "in"     *)
(* and Above differ iff one end is to the upper right of the point.        *)
UpperRight(p, q) == Quadrant(q.x - p.x, q.y - p.y)

LEMMA CrossFrom ==
    ASSUME NEW a \in Point, NEW b \in Point, NEW p \in Point
    PROVE  Cross(a, b, p) = (a.y - p.y) * (b.x - p.x) - (a.x - p.x) * (b.y - p.y)
<1>1. \A ax, ay, bx, by, px, py \in Int :
          (px - ax) * (by - ay) - (py - ay) * (bx - ax)
             = (ay - py) * (bx - px) - (ax - px) * (by - py)
    OBVIOUS
<1>2. a.x \in Int /\ a.y \in Int /\ b.x \in Int /\ b.y \in Int /\ p.x \in Int /\ p.y \in Int
    BY DEF Point
<1>3. QED
    BY <1>1, <1>2 DEF Cross

LEMMA EdgeRays ==
    ASSUME NEW e \in Segment, NEW p \in Point, ~ OnSegment(e, p)
    PROVE  (Raycast(e, p).in <=> Above(e, p))
              <=> (UpperRight(p, e.a) <=> UpperRight(p, e.b))
<1>1. /\ e.a \in Point /\ e.b \in Point
      /\ e.a.x \in Int /\ e.a.y \in Int /\ e.b.x \in Int /\ e.b.y \in Int
      /\ p.x \in Int /\ p.y \in Int
    BY DEF Segment, Point
<1>2. PICK c \in Int : c = Cross(e.a, e.b, p) /\ Cross(e.b, e.a, p) = - c
    BY <1>1, CrossReversed
<1>3. PICK ax \in Int, ay \in Int, bx \in Int, by \in Int :
          /\ ax = e.a.x - p.x /\ ay = e.a.y - p.y
          /\ bx = e.b.x - p.x /\ by = e.b.y - p.y
    <2>1. /\ e.a.x - p.x \in Int /\ e.a.y - p.y \in Int
          /\ e.b.x - p.x \in Int /\ e.b.y - p.y \in Int
        BY <1>1
    <2>2. QED
        BY <2>1, Zenon
<1>4. c = ay * bx - ax * by
    BY <1>1, <1>2, <1>3, CrossFrom
<1>5. ~ (c = 0 /\ Between(0, ax, bx) /\ Between(0, ay, by))
    <2>1. Between(0, ax, bx) => Between(p.x, e.a.x, e.b.x)
        BY <1>1, <1>3 DEF Between, Lesser, Greater
    <2>2. Between(0, ay, by) => Between(p.y, e.a.y, e.b.y)
        BY <1>1, <1>3 DEF Between, Lesser, Greater
    <2>3. QED
        BY <1>2, <2>1, <2>2
           DEF OnSegment, CollinearPoint, RectContainsPoint, SegmentRect, Between
<1>6. Raycast(e, p).in <=> CrossesRight(ay, by, c)
    <2>1. Raycast(e, p).in <=>
             /\ Upward(e).a.y <= p.y /\ p.y < Upward(e).b.y
             /\ Cross(Upward(e).a, Upward(e).b, p) < 0
        BY RaycastOnIs, RaycastOnExact, RaycastInExact
    <2>2. CASE e.a.y < e.b.y
        <3>1. Upward(e) = e
            BY <2>2 DEF Upward
        <3>2. QED
            BY <1>1, <1>2, <1>3, <2>1, <2>2, <3>1 DEF CrossesRight
    <2>3. CASE ~ (e.a.y < e.b.y)
        <3>1. Upward(e).a = e.b /\ Upward(e).b = e.a
            BY <2>3 DEF Upward
        <3>2. QED
            BY <1>1, <1>2, <1>3, <2>1, <2>3, <3>1 DEF CrossesRight
    <2>4. QED
        BY <2>2, <2>3
<1>7. Above(e, p) <=> CrossesUp(ax, bx, c)
    BY <1>1, <1>2, <1>3 DEF Above, CrossesUp
<1>8. (CrossesRight(ay, by, c) <=> CrossesUp(ax, bx, c))
              <=> (Quadrant(ax, ay) <=> Quadrant(bx, by))
    BY <1>4, <1>5, QuadrantLeft
<1>9. QED
    BY <1>3, <1>6, <1>7, <1>8, Zenon DEF UpperRight

-----------------------------------------------------------------------------
Odd(S) == Cardinality(S) % 2 = 1

LEMMA OddAdd ==
    ASSUME NEW S, IsFiniteSet(S), NEW x, x \notin S
    PROVE  /\ IsFiniteSet(S \cup {x})
           /\ Odd(S \cup {x}) <=> ~ Odd(S)
<1>1. /\ IsFiniteSet(S \cup {x}) /\ Cardinality(S) \in Nat
      /\ Cardinality(S \cup {x}) = Cardinality(S) + 1
    BY FS_AddElement, FS_CardinalityType
<1>2. \A n \in Nat : (n + 1) % 2 = 1 <=> ~ (n % 2 = 1)
    OBVIOUS
<1>3. QED
    BY <1>1, <1>2 DEF Odd

LEMMA OddEmpty == IsFiniteSet({}) /\ ~ Odd({})
    BY FS_EmptySet DEF Odd

-----------------------------------------------------------------------------
IsRing(r) == r.points \in Seq(Point) /\ r.closed = TRUE

(* The edges of a ring are segments, each begins where the one before it   *)
(* ends, and the last one ends where the first one begins.                 *)
LEMMA EdgesJoin ==
    ASSUME NEW r, IsRing(r)
    PROVE  /\ NumSegments(r) \in Nat
           /\ \A k \in EdgesOf(r) : SegmentAt(r, k) \in Segment
           /\ \A k \in EdgesOf(r) :
                 SegmentAt(r, k).b = IF k = NumSegments(r) - 1 THEN SegmentAt(r, 0).a
                                     ELSE SegmentAt(r, k + 1).a
<1>1. r.points \in Seq(Point) /\ r.closed = TRUE
    BY DEF IsRing
<1>2. PICK n \in Nat : n = Len(r.points)
    BY <1>1
<1>3. CASE n < 3
    <2>1. NumSegments(r) = 0 /\ EdgesOf(r) = {}
        BY <1>1, <1>2, <1>3 DEF NumSegments, Empty, EdgesOf
    <2>2. QED
        BY <2>1
<1>4. CASE n >= 3
    <2>1. ~ Empty(r)
        BY <1>1, <1>2, <1>4 DEF Empty
    <2>2. \A k \in 0 .. n - 1 : PointAt(r, k) \in Point
        BY <1>1, <1>2 DEF PointAt
    <2>3. \A k \in 0 .. n - 1 :
             /\ SegmentAt(r, k).a = PointAt(r, k)
             /\ SegmentAt(r, k).b = IF k = n - 1 THEN PointAt(r, 0) ELSE PointAt(r, k + 1)
             /\ SegmentAt(r, k) = [a |-> SegmentAt(r, k).a, b |-> SegmentAt(r, k).b]
        BY <1>2 DEF SegmentAt
    <2>4. \A k \in 0 .. n - 1 : SegmentAt(r, k) \in Segment
        <3> TAKE k \in 0 .. n - 1
        <3>1. SegmentAt(r, k).a \in Point
            BY <2>2, <2>3
        <3>2. 0 \in 0 .. n - 1 /\ (k # n - 1 => k + 1 \in 0 .. n - 1)
            BY <1>4
        <3>3. SegmentAt(r, k).b \in Point
            BY <2>2, <2>3, <3>2
        <3>4. QED
            BY <2>3, <3>1, <3>3 DEF Segment
    <2>5. 0 \in 0 .. n - 1 /\ SegmentAt(r, 0).a = PointAt(r, 0)
        BY <1>4, <2>3
    <2>6. CASE PointAt(r, n - 1) # PointAt(r, 0)
        <3>1. NumSegments(r) = n /\ EdgesOf(r) = 0 .. n - 1
            BY <1>1, <1>2, <2>1, <2>6 DEF NumSegments, EdgesOf
        <3>2. \A k \in 0 .. n - 1 : k # n - 1 => k + 1 \in 0 .. n - 1
            BY <1>4
        <3>3. QED
            BY <2>3, <2>4, <2>5, <3>1, <3>2
    <2>7. CASE PointAt(r, n - 1) = PointAt(r, 0)
        <3>1. NumSegments(r) = n - 1 /\ EdgesOf(r) = 0 .. n - 2
            BY <1>1, <1>2, <2>1, <2>7 DEF NumSegments, EdgesOf
        <3>2. \A k \in 0 .. n - 2 : /\ k \in 0 .. n - 1 /\ k # n - 1
                                    /\ k + 1 \in 0 .. n - 1
            BY <1>4
        <3>3. ASSUME NEW k \in 0 .. n - 2
              PROVE  SegmentAt(r, k).b = IF k = (n - 1) - 1 THEN SegmentAt(r, 0).a
                                         ELSE SegmentAt(r, k + 1).a
            <4>1. SegmentAt(r, k).b = PointAt(r, k + 1)
                     /\ SegmentAt(r, k + 1).a = PointAt(r, k + 1)
                BY <2>3, <3>2
            <4>2. k = (n - 1) - 1 => k + 1 = n - 1
                BY <3>2
            <4>3. QED
                BY <2>5, <2>7, <4>1, <4>2
        <3>4. NumSegments(r) \in Nat
            BY <1>4, <3>1
        <3>5. QED
            BY <2>4, <3>1, <3>2, <3>3, <3>4
    <2>8. QED
        BY <2>6, <2>7
<1>5. QED
    BY <1>2, <1>3, <1>4

-----------------------------------------------------------------------------
(* Of the first m edges: those the ray to the right crosses, those the ray *)
(* upwards crosses, and where they lead to.                                *)
RightOf(r, p, m) == {k \in 0 .. m - 1 : Raycast(SegmentAt(r, k), p).in}
AboveOf(r, p, m) == {k \in 0 .. m - 1 : Above(SegmentAt(r, k), p)}
Reached(r, m) == IF m = 0 THEN SegmentAt(r, 0).a ELSE SegmentAt(r, m - 1).b

Agree(r, p, m) ==
    (Odd(RightOf(r, p, m)) <=> Odd(AboveOf(r, p, m)))
       <=> (UpperRight(p, Reached(r, 0)) <=> UpperRight(p, Reached(r, m)))

LEMMA OddNext ==
    ASSUME NEW r, NEW p, NEW m \in Nat
    PROVE  /\ Odd(RightOf(r, p, m + 1)) <=>
                ~ (Odd(RightOf(r, p, m)) <=> Raycast(SegmentAt(r, m), p).in)
           /\ Odd(AboveOf(r, p, m + 1)) <=>
                ~ (Odd(AboveOf(r, p, m)) <=> Above(SegmentAt(r, m), p))
<1>1. 0 .. (m + 1) - 1 = (0 .. m - 1) \cup {m} /\ m \notin 0 .. m - 1
    OBVIOUS
<1>2. IsFiniteSet(0 .. m - 1)
    BY FS_Interval
<1>3. IsFiniteSet(RightOf(r, p, m)) /\ IsFiniteSet(AboveOf(r, p, m))
    BY <1>2, FS_Subset DEF RightOf, AboveOf
<1>4. m \notin RightOf(r, p, m) /\ m \notin AboveOf(r, p, m)
    BY <1>1 DEF RightOf, AboveOf
<1>5. RightOf(r, p, m + 1) = IF Raycast(SegmentAt(r, m), p).in
                             THEN RightOf(r, p, m) \cup {m} ELSE RightOf(r, p, m)
    BY <1>1 DEF RightOf
<1>6. AboveOf(r, p, m + 1) = IF Above(SegmentAt(r, m), p)
                             THEN AboveOf(r, p, m) \cup {m} ELSE AboveOf(r, p, m)
    BY <1>1 DEF AboveOf
<1>7. /\ Odd(RightOf(r, p, m) \cup {m}) <=> ~ Odd(RightOf(r, p, m))
      /\ Odd(AboveOf(r, p, m) \cup {m}) <=> ~ Odd(AboveOf(r, p, m))
    BY <1>3, <1>4, OddAdd, Zenon
<1>8. QED
    BY <1>5, <1>6, <1>7, Zenon

LEMMA AgreeNext ==
    ASSUME NEW r, IsRing(r), NEW p \in Point, NEW m \in EdgesOf(r),
           ~ OnSegment(SegmentAt(r, m), p), Agree(r, p, m)
    PROVE  Agree(r, p, m + 1)
<1>1. m \in Nat /\ SegmentAt(r, m) \in Segment
    BY EdgesJoin DEF EdgesOf
<1>2. Reached(r, m) = SegmentAt(r, m).a
    <2>1. CASE m = 0
        BY <2>1 DEF Reached
    <2>2. CASE m # 0
        <3>1. m - 1 \in EdgesOf(r) /\ m - 1 # NumSegments(r) - 1 /\ (m - 1) + 1 = m
            BY <1>1, <2>2, EdgesJoin DEF EdgesOf
        <3>2. QED
            BY <2>2, <3>1, EdgesJoin DEF Reached
    <2>3. QED
        BY <2>1, <2>2
<1>3. Reached(r, m + 1) = SegmentAt(r, m).b
    <2>1. m + 1 # 0 /\ (m + 1) - 1 = m
        BY <1>1
    <2>2. QED
        BY <2>1, Zenon DEF Reached
<1>4. (Raycast(SegmentAt(r, m), p).in <=> Above(SegmentAt(r, m), p))
         <=> (UpperRight(p, SegmentAt(r, m).a) <=> UpperRight(p, SegmentAt(r, m).b))
    BY <1>1, EdgeRays
<1>5. /\ Odd(RightOf(r, p, m + 1)) <=>
            ~ (Odd(RightOf(r, p, m)) <=> Raycast(SegmentAt(r, m), p).in)
      /\ Odd(AboveOf(r, p, m + 1)) <=>
            ~ (Odd(AboveOf(r, p, m)) <=> Above(SegmentAt(r, m), p))
    BY <1>1, OddNext
<1>6. QED
    BY <1>2, <1>3, <1>4, <1>5, Zenon DEF Agree

(* Whatever the ring, the rays to the right and upwards from a point that  *)
(* is not on it cross equally many edges, up to an even number.            *)
LEMMA EvenOdd ==
    ASSUME NEW r, IsRing(r), NEW p \in Point,
           \A k \in EdgesOf(r) : ~ OnSegment(SegmentAt(r, k), p)
    PROVE  Odd(RightOf(r, p, NumSegments(r))) <=> Odd(AboveOf(r, p, NumSegments(r)))
<1>1. PICK n \in Nat : n = NumSegments(r) /\ EdgesOf(r) = 0 .. n - 1
    BY EdgesJoin DEF EdgesOf
<1> DEFINE T == {m \in Nat : m <= n /\ ~ Agree(r, p, m)}
<1>2. T = {}
    <2> SUFFICES ASSUME T # {} PROVE FALSE
        OBVIOUS
    <2>1. PICK m \in T : \A l \in T : m <= l
        <3>1. T \in SUBSET Nat
            OBVIOUS
        <3> HIDE DEF T
        <3>2. QED
            BY <3>1, LeastNatural, Zenon
    <2>2. m \in Nat /\ m <= n /\ ~ Agree(r, p, m)
        OBVIOUS
    <2>3. Agree(r, p, 0)
        <3>1. RightOf(r, p, 0) = {} /\ AboveOf(r, p, 0) = {}
            BY DEF RightOf, AboveOf
        <3>2. QED
            BY <3>1, OddEmpty, Zenon DEF Agree
    <2>4. PICK l \in Nat : m = l + 1
        <3>1. m # 0
            BY <2>2, <2>3
        <3>2. m - 1 \in Nat /\ m = (m - 1) + 1
            BY <2>2, <3>1
        <3>3. QED
            BY <3>2, Zenon
    <2>5. l \in EdgesOf(r) /\ l <= n /\ ~ (m <= l)
        BY <1>1, <2>2, <2>4
    <2>6. Agree(r, p, l)
        BY <2>1, <2>5
    <2>7. Agree(r, p, l + 1)
        BY <2>5, <2>6, AgreeNext
    <2>8. QED
        BY <2>2, <2>4, <2>7
<1>3. Agree(r, p, n)
    BY <1>2
<1>4. Reached(r, n) = Reached(r, 0)
    <2>1. CASE n = 0
        BY <2>1
    <2>2. CASE n # 0
        <3>1. n - 1 \in EdgesOf(r)
            BY <1>1, <2>2
        <3>2. QED
            BY <1>1, <2>2, <3>1, EdgesJoin DEF Reached
    <2>3. QED
        BY <2>1, <2>2
<1>5. QED
    BY <1>1, <1>3, <1>4, Zenon DEF Agree

(* What is on an edge, or has it to the right, is in its row.              *)
LEMMA InItsRow ==
    ASSUME NEW r, IsRing(r), NEW p \in Point, NEW k \in EdgesOf(r),
           OnSegment(SegmentAt(r, k), p) \/ Raycast(SegmentAt(r, k), p).in
    PROVE  k \in InRow(r, p)
<1>1. PICK e \in Segment : e = SegmentAt(r, k)
    BY EdgesJoin
<1>2. /\ e.a.x \in Int /\ e.a.y \in Int /\ e.b.x \in Int /\ e.b.y \in Int
      /\ p.x \in Int /\ p.y \in Int
    BY DEF Segment, Point
<1>3. OnSegment(e, p) => Between(p.y, e.a.y, e.b.y)
    BY <1>2 DEF OnSegment, RectContainsPoint, SegmentRect, Between
<1>4. Raycast(e, p).in => Between(p.y, e.a.y, e.b.y)
    <2>1. Raycast(e, p).in => RaycastIn(e, p)
        BY RaycastOnIs
    <2>2. RaycastIn(e, p) => Between(p.y, e.a.y, e.b.y)
        <3>1. CASE e.a.y < e.b.y
            BY <1>2, <3>1 DEF RaycastIn, Between, Lesser, Greater
        <3>2. CASE ~ (e.a.y < e.b.y)
            BY <1>2, <3>2 DEF RaycastIn, Between, Lesser, Greater
        <3>3. QED
            BY <3>1, <3>2
    <2>3. QED
        BY <2>1, <2>2
<1>5. QED
    BY <1>1, <1>3, <1>4 DEF InRow

(* So the search of the row finds all that count.                          *)
LEMMA RowIsEnough ==
    ASSUME NEW r, IsRing(r), NEW p \in Point,
           \A k \in EdgesOf(r) : ~ OnSegment(SegmentAt(r, k), p)
    PROVE  Odd({k \in InRow(r, p) : Raycast(SegmentAt(r, k), p).in})
              <=> Odd({k \in EdgesOf(r) : Above(SegmentAt(r, k), p)})
<1>1. {k \in InRow(r, p) : Raycast(SegmentAt(r, k), p).in} = RightOf(r, p, NumSegments(r))
    BY InItsRow DEF InRow, RightOf, EdgesOf
<1>2. {k \in EdgesOf(r) : Above(SegmentAt(r, k), p)} = AboveOf(r, p, NumSegments(r))
    BY DEF AboveOf, EdgesOf
<1>3. QED
    BY <1>1, <1>2, EvenOdd

(* Where a point is: on an edge, or inside if an odd number of edges is    *)
(* above it.                                                               *)
Place(r, p) ==
    IF \E k \in EdgesOf(r) : OnSegment(SegmentAt(r, k), p) THEN "edge"
    ELSE IF Odd({k \in EdgesOf(r) : Above(SegmentAt(r, k), p)}) THEN "inside"
    ELSE "outside"

(* ringContainsPoint with a scan tells where the point is, and if it is on *)
(* an edge, such an edge.                                                  *)
LEMMA ScanIsRight ==
    ASSUME NEW r, IsRing(r), NEW p \in Point, NEW allow
    PROVE  LET scan == RingContainsPoint(r, p, allow) IN
           IF Place(r, p) = "edge"
           THEN /\ scan.hit = allow
                /\ scan.idx \in EdgesOf(r) /\ OnSegment(SegmentAt(r, scan.idx), p)
           ELSE (scan.hit <=> Place(r, p) = "inside") /\ scan.idx = -1
<1> DEFINE on == {k \in InRow(r, p) : Raycast(SegmentAt(r, k), p).on}
           crossed == {k \in InRow(r, p) : Raycast(SegmentAt(r, k), p).in}
<1>1. InRow(r, p) \subseteq EdgesOf(r) /\ EdgesOf(r) \subseteq Nat
    BY EdgesJoin DEF InRow, EdgesOf
<1>2. \A k \in EdgesOf(r) : k \in on <=> OnSegment(SegmentAt(r, k), p)
    <2> TAKE k \in EdgesOf(r)
    <2>1. SegmentAt(r, k) \in Segment
        BY EdgesJoin
    <2>2. OnSegment(SegmentAt(r, k), p) => k \in InRow(r, p)
        BY InItsRow
    <2>3. Raycast(SegmentAt(r, k), p).on <=> OnSegment(SegmentAt(r, k), p)
        BY <2>1, RaycastOnIs, RaycastOnExact
    <2>4. QED
        BY <2>2, <2>3
<1>3. CASE on # {}
    <2>1. Place(r, p) = "edge"
        <3>1. \E k \in EdgesOf(r) : OnSegment(SegmentAt(r, k), p)
            BY <1>1, <1>2, <1>3
        <3>2. QED
            BY <3>1, Zenon DEF Place
    <2>2. RingContainsPoint(r, p, allow) = [hit |-> allow, idx |-> Min(on)]
        BY <1>3, Zenon DEF RingContainsPoint
    <2>3. Min(on) \in on
        <3>1. on \in SUBSET Nat
            BY <1>1
        <3> HIDE DEF on
        <3>2. QED
            BY <1>3, <3>1, LeastOf
    <2>4. Min(on) \in EdgesOf(r) /\ OnSegment(SegmentAt(r, Min(on)), p)
        BY <1>1, <1>2, <2>3
    <2> HIDE DEF on
    <2>5. QED
        BY <2>1, <2>2, <2>4
<1>4. CASE on = {}
    <2>1. ~ \E k \in EdgesOf(r) : OnSegment(SegmentAt(r, k), p)
        BY <1>2, <1>4
    <2>2. RingContainsPoint(r, p, allow) = [hit |-> Odd(crossed), idx |-> -1]
        BY <1>4, Zenon DEF RingContainsPoint, Odd
    <2>3. Odd(crossed) <=> Odd({k \in EdgesOf(r) : Above(SegmentAt(r, k), p)})
        BY <2>1, RowIsEnough
    <2>4. Place(r, p) = IF Odd(crossed) THEN "inside" ELSE "outside"
        BY <2>1, <2>3, Zenon DEF Place
    <2> HIDE DEF crossed
    <2>5. QED
        BY <2>2, <2>4
<1>5. QED
    BY <1>3, <1>4
=============================================================================
