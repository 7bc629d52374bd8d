-------------------------------- MODULE Ring --------------------------------
(***************************************************************************)
(* A ring and a segment (ring.go): ringContainsPoint, ringContainsSegment  *)
(* and ringIntersectsSegment.  All of them search the ring for the edges   *)
(* near a rectangle and decide from the edges found.                       *)
(*                                                                         *)
(* A search calls back for each edge whose rectangle meets the target,     *)
(* once, until it is told to stop (Search, which TreeSearch implements).   *)
(* The order is that of the scan or of the tree; here it is any order.     *)
(***************************************************************************)
EXTENDS RingQueries, PlanarReference

CONSTANTS
    Rings,            \* The rings a client makes.
    Segments          \* The segments it asks about.

ASSUME RingsAssumption ==
    /\ Rings \subseteq [points : Seq(Point), closed : {TRUE}, convex : BOOLEAN,
                        clockwise : BOOLEAN, rect : Rect]
    /\ Segments \subseteq Segment

VARIABLES
    op,               \* "contains" or "intersects".
    ring, seg, allowOnEdge,   \* The arguments of the call.
    pc,               \* Where the call is.
    visited,          \* The edges the search in progress has called back for.
    in, idx,          \* The variables containsPointSearcher writes to.
    resA, resB,       \* The edges seg.A and seg.B are on, or -1.
    count, segAOn, segBOn,    \* The variables of ringIntersectsSegment.
    res               \* The answer.

vars == <<op, ring, seg, allowOnEdge, pc, visited, in, idx, resA, resB,
          count, segAOn, segBOn, res>>
args == <<op, ring, seg, allowOnEdge>>
counters == <<count, segAOn, segBOn>>

Edges == EdgesOf(ring)
Edge(k) == SegmentAt(ring, k)

Init ==
    /\ op \in {"contains", "intersects"}
    /\ ring \in Rings /\ seg \in Segments /\ allowOnEdge \in BOOLEAN
    /\ pc = "pointA"
    /\ visited = {} /\ in = FALSE /\ idx = -1 /\ resA = -1 /\ resB = -1
    /\ count = 0 /\ segAOn = FALSE /\ segBOn = FALSE /\ res = FALSE

-----------------------------------------------------------------------------
(* ringContainsPoint, of seg.A and then of seg.B. *)

InSearch == pc \in {"pointA", "pointB"}
Tested == IF pc \in {"pointA", "gotA"} THEN seg.a ELSE seg.b
Ahead == InRow(ring, Tested) \ visited
GotPoint == pc' = IF pc = "pointA" THEN "gotA" ELSE "gotB"

(* A slip: the edge the point is on counts as one the ray crosses. *)
PointOnEdgeGoesOn(k) ==
    /\ InSearch /\ k \in Ahead /\ Raycast(Edge(k), Tested).on
    /\ in' = ~ in /\ visited' = visited \cup {k}
    /\ UNCHANGED <<args, pc, idx, resA, resB, counters, res>>

(* containsPointSearcher: the point is on the edge, and the search ends. *)
PointOnEdge(k) ==
    /\ InSearch /\ k \in Ahead /\ Raycast(Edge(k), Tested).on
    /\ in' = allowOnEdge /\ idx' = k
    /\ GotPoint
    /\ UNCHANGED <<args, visited, resA, resB, counters, res>>

(* The ray from the point crosses the edge or it does not. *)
PointOffEdge(k) ==
    /\ InSearch /\ k \in Ahead /\ ~ Raycast(Edge(k), Tested).on
    /\ in' = (in # Raycast(Edge(k), Tested).in)
    /\ visited' = visited \cup {k}
    /\ UNCHANGED <<args, pc, idx, resA, resB, counters, res>>

PointSearched ==
    /\ InSearch /\ Ahead = {}
    /\ GotPoint
    /\ UNCHANGED <<args, visited, in, idx, resA, resB, counters, res>>

-----------------------------------------------------------------------------
Return(answer) ==
    /\ pc' = "done" /\ res' = answer
    /\ UNCHANGED <<args, visited, in, idx, resA, resB, counters>>

ContainsNotA == pc = "gotA" /\ op = "contains" /\ ~ in /\ Return(FALSE)

ContainsSinglePoint ==
    pc = "gotA" /\ op = "contains" /\ in /\ seg.b = seg.a /\ Return(TRUE)

IntersectsAtA == pc = "gotA" /\ op = "intersects" /\ in /\ Return(TRUE)

TestB ==
    /\ pc = "gotA"
    /\ IF op = "contains" THEN in /\ seg.b # seg.a ELSE ~ in
    /\ pc' = "pointB" /\ resA' = idx
    /\ visited' = {} /\ in' = FALSE /\ idx' = -1
    /\ UNCHANGED <<args, resB, counters, res>>

ContainsNotB == pc = "gotB" /\ op = "contains" /\ ~ in /\ Return(FALSE)

IntersectsAtB == pc = "gotB" /\ op = "intersects" /\ in /\ Return(TRUE)

GoOn ==
    /\ pc = "gotB" /\ (op = "contains" <=> in)
    /\ pc' = IF op = "contains" THEN "decide" ELSE "count"
    /\ resB' = idx /\ visited' = {}
    /\ UNCHANGED <<args, in, idx, resA, counters, res>>

-----------------------------------------------------------------------------
(* ringContainsSegment, once both ends are in the ring. *)

Deciding == pc = "decide" /\ ~ ring.convex
OnEdges == allowOnEdge /\ resA # -1 /\ resB # -1

ContainsConvex == pc = "decide" /\ ring.convex /\ Return(TRUE)

ContainsSameEdge == Deciding /\ OnEdges /\ resB = resA /\ Return(TRUE)

ContainsAtVertex ==
    Deciding /\ OnEdges /\ resB # resA /\ AtVertex(ring, seg, resA, resB) /\ Return(TRUE)

Between2Edges == Deciding /\ OnEdges /\ resB # resA /\ ~ AtVertex(ring, seg, resA, resB)

ContainsOutside ==
    Between2Edges /\ Winding(ring, resA, resB) # ring.clockwise /\ Return(FALSE)

ContainsUncrossed ==
    /\ Deciding
    /\ OnEdges => Between2Edges /\ Winding(ring, resA, resB) = ring.clockwise
    /\ Return(Uncrossed(ring, seg, allowOnEdge, resA, resB))

-----------------------------------------------------------------------------
(* ringIntersectsSegment, once neither end is in the ring. *)

(* The callback's answer: whether the search goes on. *)
CountMore == count < 2

CountEdge(k) ==
    LET seg2 == Edge(k)
        counts == k \in PassedOver(ring, seg, allowOnEdge)
        atA == counts /\ ~ allowOnEdge /\ ~ segAOn /\ IsEnd(seg2, seg.a)
        atB == counts /\ ~ allowOnEdge /\ ~ atA /\ ~ segBOn /\ IsEnd(seg2, seg.b)
    IN  /\ pc = "count" /\ CountMore /\ k \in Found(ring, SegmentRect(seg)) \ visited
        /\ visited' = visited \cup {k}
        /\ segAOn' = (segAOn \/ atA)
        /\ segBOn' = (segBOn \/ atB)
        /\ count' = IF counts /\ ~ atA /\ ~ atB THEN count + 1 ELSE count
        /\ UNCHANGED <<args, pc, in, idx, resA, resB, res>>

(* A slip: more than two edges are asked for. *)
IntersectsCountedThree ==
    /\ pc = "count" /\ (~ CountMore \/ Found(ring, SegmentRect(seg)) \subseteq visited)
    /\ Return(count > 2)

IntersectsCounted ==
    /\ pc = "count" /\ (~ CountMore \/ Found(ring, SegmentRect(seg)) \subseteq visited)
    /\ Return(count >= 2)

-----------------------------------------------------------------------------
Next ==
    \/ \E k \in Edges : PointOnEdge(k) \/ PointOffEdge(k) \/ CountEdge(k)
    \/ PointSearched
    \/ ContainsNotA \/ ContainsSinglePoint \/ IntersectsAtA \/ TestB
    \/ ContainsNotB \/ IntersectsAtB \/ GoOn
    \/ ContainsConvex \/ ContainsSameEdge \/ ContainsAtVertex
    \/ ContainsOutside \/ ContainsUncrossed
    \/ IntersectsCounted

Spec == Init /\ [][Next]_vars

-----------------------------------------------------------------------------
(* What the answers are compared with: where the points of seg are.  A     *)
(* point of seg is given by a fraction n/d of the way from seg.a to seg.b; *)
(* its coordinates are compared with those of the ring after multiplying   *)
(* both by d.                                                              *)

Along(t) == [x |-> seg.a.x * t.d + t.n * (seg.b.x - seg.a.x),
             y |-> seg.a.y * t.d + t.n * (seg.b.y - seg.a.y)]
Scaled(d, k) == [a |-> Times(d, Edge(k).a), b |-> Times(d, Edge(k).b)]

PlaceOf(t) ==
    IF \E k \in Edges : OnSegment(Scaled(t.d, k), Along(t)) THEN "edge"
    ELSE IF Cardinality({k \in Edges : Above(Scaled(t.d, k), Along(t))}) % 2 = 1
         THEN "inside" ELSE "outside"

(* The fractions at which seg meets an edge: a crossing, or the ends of an *)
(* edge in the line of seg.                                                *)
Meetings(k) ==
    LET e == Edge(k)
        u == Cross(e.a, e.b, seg.a)
        v == Cross(e.a, e.b, seg.b)
        dx == seg.b.x - seg.a.x
        dy == seg.b.y - seg.a.y
        of(p) == [n |-> dx * (p.x - seg.a.x) + dy * (p.y - seg.a.y),
                  d |-> dx * dx + dy * dy]
    IN  IF Cross(seg.a, seg.b, e.a) * Cross(seg.a, seg.b, e.b) > 0 THEN {}
        ELSE IF u > v THEN {[n |-> u, d |-> u - v]}
        ELSE IF u < v THEN {[n |-> -u, d |-> v - u]}
        ELSE IF u = 0 /\ seg.a # seg.b THEN {of(e.a), of(e.b)}
        ELSE {}

Stops == {[n |-> 0, d |-> 1], [n |-> 1, d |-> 1]}
         \cup {t \in UNION {Meetings(k) : k \in Edges} : 0 <= t.n /\ t.n <= t.d}

(* The stops and the midpoints of any two.  Between neighbouring stops seg *)
(* meets no edge, so these are all the places it passes through.           *)
Places ==
    LET stops == Stops
        upTo(s, t) == s.n * t.d <= t.n * s.d
    IN  {PlaceOf([n |-> m[1].n * m[2].d + m[2].n * m[1].d, d |-> 2 * m[1].d * m[2].d]) :
            m \in {m \in stops \X stops : upTo(m[1], m[2])}}

Answered(which, allow) == pc = "done" /\ op = which /\ allowOnEdge = allow

(* Wherever the search starts and in whatever order it goes, a point on    *)
(* the ring is found to be so, with an edge it is on, and any other point  *)
(* is in the ring iff the even-odd rule says so: vertices on the ray are   *)
(* counted once, level edges not at all (containsPointSearcher).           *)
PointExact ==
    pc \in {"gotA", "gotB"} =>
        LET place == PlaceOf([n |-> IF pc = "gotA" THEN 0 ELSE 1, d |-> 1]) IN
        /\ in = (IF place = "edge" THEN allowOnEdge ELSE place = "inside")
        /\ (idx # -1) = (place = "edge")
        /\ idx # -1 => OnSegment(Edge(idx), Tested)

(* A ring that processPoints takes for convex though it is not: one that   *)
(* repeats its first point, with no other corner turning the other way.    *)
WronglyMarked == ring.convex /\ ~ OneSided({Edge(k) : k \in Edges})

EndPlaces == {PlaceOf([n |-> n, d |-> 1]) : n \in {0, 1}}

(* With edges not allowed ringContainsSegment answers true iff all of seg  *)
(* is strictly inside the ring, be it convex or not.  Of a ring wrongly    *)
(* marked convex it tells only whether both ends of seg are.               *)
ContainsStrictly ==
    Answered("contains", FALSE) =>
        res = ((IF WronglyMarked THEN EndPlaces ELSE Places) = {"inside"})

Vertices == {Edge(k).a : k \in Edges}
OnRing(p) == {k \in Edges : OnSegment(Edge(k), p)}
BetweenEdges == OnRing(seg.a) # {} /\ OnRing(seg.b) # {}
EndsAtVertex == seg.a \in Vertices \/ seg.b \in Vertices
PassesVertex == \E v \in Vertices \ {seg.a, seg.b} : OnSegment(seg, v)

(* With edges allowed ringContainsSegment answers true iff no point of seg *)
(* is outside the ring, for a segment that passes no vertex of the ring.   *)
(* The vertex shortcut and a wrong mark only ever err by answering true,   *)
(* the mark for segments with no end outside.                              *)
ContainsOffVertices ==
    (Answered("contains", TRUE) /\ ~ PassesVertex) =>
        LET leaves == "outside" \in Places IN
        /\ ~ leaves => res
        /\ res /\ leaves => IF WronglyMarked THEN "outside" \notin EndPlaces
                                             ELSE BetweenEdges /\ EndsAtVertex

(* The order of a search depends on whether the ring has an index, and at  *)
(* a vertex it decides which edge is reported and which one is forgiven.   *)
(* The answers are those of a scan all the same.                           *)
AnyOrder ==
    pc = "done" =>
        res = IF op = "contains" THEN RingContainsSegment(ring, seg, allowOnEdge)
              ELSE RingIntersectsSegment(ring, seg, allowOnEdge)

(* With edges allowed ringIntersectsSegment answers true iff seg and the   *)
(* ring, its edges included, have a point in common.                       *)
IntersectsWithEdge ==
    Answered("intersects", TRUE) => res = (Places # {"outside"})

(* With edges not allowed ringIntersectsSegment answers true for a segment *)
(* with a point inside the ring, unless it ends at a vertex in the line of *)
(* an edge there.  It answers true without such a point only for segments  *)
(* that pass a vertex or touch the ring with both ends.                    *)
IntersectsStrictly ==
    Answered("intersects", FALSE) =>
        LET meetsInside == "inside" \in Places IN
        /\ meetsInside =>
              \/ res
              \/ \E k \in Edges : /\ AlongEdge(seg, Edge(k))
                                  /\ IsEnd(Edge(k), seg.a) \/ IsEnd(Edge(k), seg.b)
        /\ res => meetsInside \/ PassesVertex \/ BetweenEdges

(* A segment whose ends are on the ring is contained only if the space it  *)
(* passes over is inside: the comment of case (1) in ringContainsSegment.  *)
ContainedIsInside ==
    (Answered("contains", TRUE) /\ res) => "outside" \notin Places

=============================================================================
