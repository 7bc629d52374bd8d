----------------------------- MODULE RingProofs -----------------------------
(***************************************************************************)
(* ringContainsPoint is right for every ring, and the order in which a     *)
(* search of a ring goes makes no difference to ringContainsSegment and    *)
(* ringIntersectsSegment.                                                  *)
(***************************************************************************)
EXTENDS Ring, PlanarProofs

-----------------------------------------------------------------------------
(* The place of a point, as PlaceOf says it of the ends of seg.            *)
PlaceAt(p) ==
    IF \E k \in Edges : OnSegment(Edge(k), p) THEN "edge"
    ELSE IF Odd({k \in Edges : Above(Edge(k), p)}) THEN "inside" ELSE "outside"

EndOf(where) == [n |-> IF where = "gotA" THEN 0 ELSE 1, d |-> 1]

LEMMA PlaceOfEnd ==
    ASSUME IsRing(ring), seg \in Segment, NEW where
    PROVE  PlaceOf(EndOf(where)) = PlaceAt(IF where = "gotA" THEN seg.a ELSE seg.b)
<1>1. PICK t, p : t = EndOf(where) /\ p = IF where = "gotA" THEN seg.a ELSE seg.b
    OBVIOUS
<1>2. /\ seg.a \in Point /\ seg.b \in Point
      /\ seg.a.x \in Int /\ seg.a.y \in Int /\ seg.b.x \in Int /\ seg.b.y \in Int
    BY DEF Segment, Point
<1>3. Along(t) = p
    <2>1. CASE where = "gotA"
        <3>1. t = [n |-> 0, d |-> 1] /\ p = seg.a
            BY <1>1, <2>1 DEF EndOf
        <3>2. Along(t) = [x |-> seg.a.x, y |-> seg.a.y]
            BY <1>2, <3>1 DEF Along
        <3>3. QED
            BY <1>2, <3>1, <3>2 DEF Point
    <2>2. CASE where # "gotA"
        <3>1. t = [n |-> 1, d |-> 1] /\ p = seg.b
            BY <1>1, <2>2 DEF EndOf
        <3>2. Along(t) = [x |-> seg.b.x, y |-> seg.b.y]
            BY <1>2, <3>1 DEF Along
        <3>3. QED
            BY <1>2, <3>1, <3>2 DEF Point
    <2>3. QED
        BY <2>1, <2>2
<1>4. ASSUME NEW k \in Edges PROVE Scaled(t.d, k) = Edge(k)
    <2>1. Edge(k) \in Segment
        BY EdgesJoin DEF Edges, Edge
    <2>2. t.d = 1
        BY <1>1 DEF EndOf
    <2>3. \A q \in Point : Times(1, q) = q
        BY DEF Times, Point
    <2>4. QED
        BY <2>1, <2>2, <2>3 DEF Scaled, Segment
<1>5. {k \in Edges : Above(Scaled(t.d, k), Along(t))} = {k \in Edges : Above(Edge(k), p)}
    BY <1>3, <1>4
<1>6. (\E k \in Edges : OnSegment(Scaled(t.d, k), Along(t)))
         <=> \E k \in Edges : OnSegment(Edge(k), p)
    BY <1>3, <1>4
<1>7. QED
    BY <1>1, <1>5, <1>6, Zenon DEF PlaceOf, PlaceAt, Odd

(* A search for a point: the edges called back for so far do not hold it,  *)
(* and in tells whether the ray crosses an odd number of them.             *)
Searching ==
    /\ visited \subseteq InRow(ring, Tested)
    /\ idx = -1
    /\ \A k \in visited : ~ OnSegment(Edge(k), Tested)
    /\ in \in BOOLEAN
    /\ in <=> Odd({k \in visited : Raycast(Edge(k), Tested).in})

(* What a finished search says of a point: whether it is in the ring, and  *)
(* an edge it is on, or -1.                                                *)
Hit(p) == IF PlaceAt(p) = "edge" THEN allowOnEdge ELSE PlaceAt(p) = "inside"

EdgeFor(p, k) ==
    IF PlaceAt(p) = "edge" THEN k \in Edges /\ OnSegment(Edge(k), p) ELSE k = -1

Got == pc \in {"gotA", "gotB"} => in = Hit(Tested) /\ EdgeFor(Tested, idx)

IInv ==
    /\ IsRing(ring) /\ seg \in Segment /\ allowOnEdge \in BOOLEAN
    /\ InSearch => Searching
    /\ Got

LEMMA NothingVisited ==
    ASSUME visited = {}, idx = -1, in = FALSE
    PROVE  Searching
<1>1. {k \in visited : Raycast(Edge(k), Tested).in} = {}
    OBVIOUS
<1>2. QED
    BY <1>1, OddEmpty DEF Searching

LEMMA InitIInv == Init => IInv
<1> SUFFICES ASSUME Init PROVE IInv
    OBVIOUS
<1>1. IsRing(ring) /\ seg \in Segment /\ allowOnEdge \in BOOLEAN
    BY RingsAssumption DEF Init, IsRing
<1>2. Searching /\ pc = "pointA"
    BY NothingVisited DEF Init
<1>3. QED
    BY <1>1, <1>2 DEF IInv, Got

LEMMA TestedTyped ==
    ASSUME IInv
    PROVE  /\ Tested \in Point
           /\ \A k \in Edges : Edge(k) \in Segment /\ k \in Nat
           /\ IsFiniteSet(Edges) /\ InRow(ring, Tested) \subseteq Edges
<1>1. Tested \in Point /\ IsRing(ring)
    BY DEF IInv, Tested, Segment
<1>2. IsFiniteSet(Edges)
    <2>1. NumSegments(ring) \in Nat
        BY <1>1, EdgesJoin
    <2>2. QED
        BY <2>1, FS_Interval DEF Edges, EdgesOf
<1>3. QED
    BY <1>1, <1>2, EdgesJoin DEF Edges, EdgesOf, Edge, InRow

-----------------------------------------------------------------------------
(* What a step leaves alone. *)
SameArgs == ring' = ring /\ seg' = seg /\ allowOnEdge' = allowOnEdge

(* The end of a search: what it has found out is right.                    *)
LEMMA GotIInv ==
    ASSUME IInv, InSearch, GotPoint, SameArgs, in' = Hit(Tested), EdgeFor(Tested, idx')
    PROVE  IInv'
<1>1. pc' \in {"gotA", "gotB"} /\ Tested' = Tested
    BY DEF InSearch, GotPoint, Tested, SameArgs
<1>2. PICK p : p = Tested
    OBVIOUS
<1>3. /\ PlaceAt(p)' = PlaceAt(p) /\ allowOnEdge' = allowOnEdge
      /\ Edges' = Edges /\ \A k : Edge(k)' = Edge(k)
    BY DEF SameArgs, PlaceAt, Edges, Edge
<1>4. Got'
    BY <1>1, <1>2, <1>3 DEF Got, Hit, EdgeFor
<1>5. QED
    BY <1>1, <1>4 DEF IInv, SameArgs, InSearch

LEMMA PointOnEdgeIInv ==
    ASSUME IInv, NEW k \in Edges, PointOnEdge(k)
    PROVE  IInv'
<1>1. /\ InSearch /\ GotPoint /\ SameArgs /\ in' = allowOnEdge /\ idx' = k
      /\ Raycast(Edge(k), Tested).on
    BY DEF PointOnEdge, SameArgs, args
<1>2. OnSegment(Edge(k), Tested)
    BY <1>1, TestedTyped, RaycastOnIs, RaycastOnExact
<1>3. PlaceAt(Tested) = "edge"
    BY <1>2, Zenon DEF PlaceAt
<1>4. QED
    BY <1>1, <1>2, <1>3, GotIInv DEF Hit, EdgeFor

LEMMA PointOffEdgeIInv ==
    ASSUME IInv, NEW k \in Edges, PointOffEdge(k)
    PROVE  IInv'
<1>1. /\ InSearch /\ SameArgs /\ pc' = pc /\ idx' = idx /\ k \in Ahead
      /\ ~ Raycast(Edge(k), Tested).on
      /\ in' = (in # Raycast(Edge(k), Tested).in)
      /\ visited' = visited \cup {k} /\ Searching
    BY DEF PointOffEdge, SameArgs, args, IInv
<1>2. PICK e, p, S, V :
         /\ e = Edge(k) /\ p = Tested /\ V = visited
         /\ S = {l \in visited : Raycast(Edge(l), Tested).in}
    OBVIOUS
<1>3. Tested' = p /\ \A l : Edge(l)' = Edge(l)
    BY <1>1, <1>2 DEF Tested, SameArgs, Edge
<1>4. ~ OnSegment(e, p)
    BY <1>1, <1>2, TestedTyped, RaycastOnIs, RaycastOnExact
<1>5. k \in InRow(ring, p) /\ k \notin V /\ V \subseteq InRow(ring, p)
    BY <1>1, <1>2 DEF Ahead, Searching
<1>6. IsFiniteSet(S) /\ k \notin S
    <2>1. V \subseteq Edges /\ IsFiniteSet(Edges)
        BY <1>2, <1>5, TestedTyped
    <2>2. S \subseteq Edges
        BY <1>2, <2>1
    <2>3. QED
        BY <1>2, <1>5, <2>1, <2>2, FS_Subset
<1>7. {l \in visited' : Raycast(Edge(l)', Tested').in}
         = IF Raycast(e, p).in THEN S \cup {k} ELSE S
    BY <1>1, <1>2, <1>3
<1>8. Odd(S \cup {k}) <=> ~ Odd(S)
    BY <1>6, OddAdd, Zenon
<1>9. in' \in BOOLEAN /\ (in' <=> Odd({l \in visited' : Raycast(Edge(l)', Tested').in}))
    <2>1. in \in BOOLEAN /\ (in <=> Odd(S))
        BY <1>1, <1>2 DEF Searching
    <2>2. Raycast(e, p).in \in BOOLEAN
        BY RaycastOnIs, Zenon
    <2>3. in' \in BOOLEAN /\ (in' <=> ~ (in <=> Raycast(e, p).in))
        BY <1>1, <1>2, <2>1, <2>2, Zenon
    <2>4. CASE Raycast(e, p).in
        BY <1>7, <1>8, <2>1, <2>3, <2>4, Zenon
    <2>5. CASE ~ Raycast(e, p).in
        BY <1>7, <2>1, <2>3, <2>5, Zenon
    <2>6. QED
        BY <2>4, <2>5
<1>10. Searching'
    <2>1. visited' \subseteq InRow(ring', Tested') /\ idx' = -1
        BY <1>1, <1>2, <1>3, <1>5 DEF Searching, SameArgs
    <2>2. \A l \in visited' : ~ OnSegment(Edge(l)', Tested')
        BY <1>1, <1>2, <1>3, <1>4 DEF Searching
    <2>3. QED
        BY <1>9, <2>1, <2>2, Zenon DEF Searching
<1>11. QED
    BY <1>1, <1>10 DEF IInv, SameArgs, Got, InSearch

LEMMA PointSearchedIInv ==
    ASSUME IInv, PointSearched
    PROVE  IInv'
<1>1. /\ InSearch /\ GotPoint /\ SameArgs /\ in' = in /\ idx' = idx
      /\ Ahead = {} /\ Searching /\ IsRing(ring)
    BY DEF PointSearched, SameArgs, args, IInv
<1>2. PICK p : p = Tested /\ p \in Point
    BY TestedTyped
<1>3. visited = InRow(ring, p)
    BY <1>1, <1>2 DEF Ahead, Searching
<1>4. \A k \in EdgesOf(ring) : ~ OnSegment(SegmentAt(ring, k), p)
    BY <1>1, <1>2, <1>3, InItsRow DEF Searching, Edge
<1>5. Odd({k \in visited : Raycast(Edge(k), p).in})
         <=> Odd({k \in Edges : Above(Edge(k), p)})
    BY <1>1, <1>2, <1>3, <1>4, RowIsEnough DEF Edges, Edge
<1>6. in \in BOOLEAN /\ (in <=> Odd({k \in Edges : Above(Edge(k), p)})) /\ idx = -1
    BY <1>1, <1>2, <1>5, Zenon DEF Searching
<1>7. PlaceAt(p) = IF in THEN "inside" ELSE "outside"
    BY <1>4, <1>6, Zenon DEF PlaceAt, Edges, Edge
<1>8. PlaceAt(p) # "edge" /\ in = (PlaceAt(p) = "inside")
    BY <1>6, <1>7
<1>9. QED
    BY <1>1, <1>2, <1>6, <1>8, GotIInv DEF Hit, EdgeFor

LEMMA StepIInv == IInv /\ [Next]_vars => IInv'
<1> SUFFICES ASSUME IInv, [Next]_vars PROVE IInv'
    OBVIOUS
<1>1. ASSUME NEW k \in Edges, PointOnEdge(k) \/ PointOffEdge(k) PROVE IInv'
    BY <1>1, PointOnEdgeIInv, PointOffEdgeIInv
<1>2. ASSUME NEW k \in Edges, CountEdge(k) PROVE IInv'
    BY <1>2 DEF CountEdge, IInv, InSearch, Got, args
<1>3. CASE PointSearched
    BY <1>3, PointSearchedIInv
<1>4. CASE TestB
    <2>1. visited' = {} /\ idx' = -1 /\ in' = FALSE /\ pc' = "pointB" /\ SameArgs
        BY <1>4 DEF TestB, args, SameArgs
    <2>2. Searching'
        <3>1. {k \in visited' : Raycast(Edge(k)', Tested').in} = {}
            BY <2>1
        <3>2. QED
            BY <2>1, <3>1, OddEmpty DEF Searching
    <2>3. QED
        BY <2>1, <2>2 DEF IInv, Got, SameArgs
<1>5. CASE GoOn
    BY <1>5 DEF GoOn, IInv, InSearch, Got, args
<1>6. ASSUME NEW answer, Return(answer) PROVE IInv'
    BY <1>6 DEF Return, IInv, InSearch, Got, args
<1>7. CASE UNCHANGED vars
    <2>1. Searching => Searching'
        BY <1>7 DEF vars, Searching, Tested, Edge
    <2>2. Got'
        BY <1>7 DEF vars, IInv, Got, Hit, EdgeFor, PlaceAt, Edges, Edge, Tested
    <2>3. QED
        BY <1>7, <2>1, <2>2 DEF vars, IInv, InSearch
<1>8. CASE \/ ContainsNotA \/ ContainsSinglePoint \/ IntersectsAtA
           \/ ContainsNotB \/ IntersectsAtB
    BY <1>6, <1>8
       DEF ContainsNotA, ContainsSinglePoint, IntersectsAtA, ContainsNotB, IntersectsAtB
<1>9. CASE \/ ContainsConvex \/ ContainsSameEdge \/ ContainsAtVertex
           \/ ContainsOutside \/ ContainsUncrossed \/ IntersectsCounted
    BY <1>6, <1>9
       DEF ContainsConvex, ContainsSameEdge, ContainsAtVertex, ContainsOutside,
           ContainsUncrossed, IntersectsCounted
<1>10. QED
    BY <1>1, <1>2, <1>3, <1>4, <1>5, <1>7, <1>8, <1>9 DEF Next

LEMMA IInvAlways == Spec => []IInv
    BY InitIInv, StepIInv, PTL DEF Spec

LEMMA IInvExact == IInv => PointExact
<1> SUFFICES ASSUME IInv, pc \in {"gotA", "gotB"} PROVE PointExact
    BY DEF PointExact
<1>1. Tested = (IF pc = "gotA" THEN seg.a ELSE seg.b)
    BY DEF Tested
<1>2. PlaceOf(EndOf(pc)) = PlaceAt(Tested)
    BY <1>1, PlaceOfEnd DEF IInv
<1>3. in = Hit(Tested) /\ EdgeFor(Tested, idx)
    BY DEF IInv, Got
<1>4. \A k \in Edges : k # -1
    BY TestedTyped
<1>5. QED
    BY <1>2, <1>3, <1>4 DEF PointExact, EndOf, Hit, EdgeFor

(* containsPointSearcher decides rightly for every ring, self-crossing and *)
(* flat ones included, every point and every order of the search: a point  *)
(* on the ring is reported with an edge it is on, and for any other one    *)
(* the edges to the right of it are odd in number iff those above it are,  *)
(* with every vertex on the ray counted once and level edges not at all.   *)
THEOREM PointIsExact == Spec => []PointExact
    BY IInvAlways, IInvExact, PTL
-----------------------------------------------------------------------------
(* The order of a search of a ring decides which edge is reported for a    *)
(* point at a vertex, and which one is forgiven where a segment ends.  The *)
(* answers do not depend on either.                                        *)

(* T holds one element of S, if S has any.                                 *)
OneOf(S, T) == IF S = {} THEN T = {} ELSE \E x \in S : T = {x}

(* n edges of V count, of those in P: all but one of A and one of B.       *)
Tally(P, A, B, V, n) ==
    \E F \in SUBSET A, G \in SUBSET B :
        /\ OneOf(V \cap A, F) /\ OneOf(V \cap B, G)
        /\ n = Cardinality((V \cap P) \ (F \cup G))

LEMMA OneOfCardinality ==
    ASSUME NEW S, NEW T, OneOf(S, T)
    PROVE  T \subseteq S /\ IsFiniteSet(T) /\ Cardinality(T) = IF S = {} THEN 0 ELSE 1
<1>1. CASE S = {}
    BY <1>1, FS_EmptySet DEF OneOf
<1>2. CASE S # {}
    <2>1. PICK x \in S : T = {x}
        BY <1>2 DEF OneOf
    <2>2. QED
        BY <1>2, <2>1, FS_Singleton
<1>3. QED
    BY <1>1, <1>2

LEMMA TallyNone ==
    ASSUME NEW P, NEW A, NEW B
    PROVE  Tally(P, A, B, {}, 0)
<1>1. OneOf({} \cap A, {}) /\ OneOf({} \cap B, {})
    BY DEF OneOf
<1>2. ({} \cap P) \ ({} \cup {}) = {}
    OBVIOUS
<1>3. QED
    BY <1>1, <1>2, FS_EmptySet DEF Tally

(* The next edge counts unless it is not in P, or the first of A or of B.  *)
LEMMA TallyNext ==
    ASSUME NEW P, IsFiniteSet(P), NEW A \in SUBSET P, NEW B \in SUBSET P, A \cap B = {},
           NEW V, NEW n, Tally(P, A, B, V, n), NEW k, k \notin V
    PROVE  LET spared == \/ k \notin P
                         \/ k \in A /\ V \cap A = {}
                         \/ k \in B /\ V \cap B = {}
           IN  Tally(P, A, B, V \cup {k}, IF spared THEN n ELSE n + 1)
<1>1. PICK F \in SUBSET A, G \in SUBSET B :
          /\ OneOf(V \cap A, F) /\ OneOf(V \cap B, G)
          /\ n = Cardinality((V \cap P) \ (F \cup G))
    BY DEF Tally
<1>2. F \subseteq V /\ G \subseteq V
    BY <1>1, OneOfCardinality
<1>3. PICK W : W = V \cup {k}
    OBVIOUS
<1>4. CASE k \notin P
    <2>1. W \cap A = V \cap A /\ W \cap B = V \cap B /\ W \cap P = V \cap P
        BY <1>3, <1>4
    <2>2. QED
        BY <1>1, <1>3, <1>4, <2>1 DEF Tally
<1>5. CASE k \in A /\ V \cap A = {}
    <2>1. W \cap A = {k} /\ W \cap B = V \cap B /\ F = {}
        BY <1>1, <1>3, <1>5 DEF OneOf
    <2>2. OneOf(W \cap A, {k}) /\ OneOf(W \cap B, G)
        BY <1>1, <2>1 DEF OneOf
    <2>3. (W \cap P) \ ({k} \cup G) = (V \cap P) \ (F \cup G)
        BY <1>2, <1>3, <1>5, <2>1
    <2>4. {k} \in SUBSET A
        BY <1>5
    <2>5. QED
        BY <1>1, <1>3, <1>5, <2>2, <2>3, <2>4 DEF Tally
<1>6. CASE k \in B /\ V \cap B = {}
    <2>1. W \cap B = {k} /\ W \cap A = V \cap A /\ G = {}
        BY <1>1, <1>3, <1>6 DEF OneOf
    <2>2. OneOf(W \cap B, {k}) /\ OneOf(W \cap A, F)
        BY <1>1, <2>1 DEF OneOf
    <2>3. (W \cap P) \ (F \cup {k}) = (V \cap P) \ (F \cup G)
        BY <1>2, <1>3, <1>6, <2>1
    <2>4. {k} \in SUBSET B
        BY <1>6
    <2>5. QED
        BY <1>1, <1>3, <1>6, <2>2, <2>3, <2>4 DEF Tally
<1>7. CASE k \in P /\ (k \in A => V \cap A # {}) /\ (k \in B => V \cap B # {})
    <2>1. OneOf(W \cap A, F) /\ OneOf(W \cap B, G)
        <3>1. OneOf(W \cap A, F)
            <4>1. CASE k \in A
                BY <1>1, <1>3, <1>7, <4>1 DEF OneOf
            <4>2. CASE k \notin A
                <5>1. W \cap A = V \cap A
                    BY <1>3, <4>2
                <5>2. QED
                    BY <1>1, <5>1
            <4>3. QED
                BY <4>1, <4>2
        <3>2. OneOf(W \cap B, G)
            <4>1. CASE k \in B
                BY <1>1, <1>3, <1>7, <4>1 DEF OneOf
            <4>2. CASE k \notin B
                <5>1. W \cap B = V \cap B
                    BY <1>3, <4>2
                <5>2. QED
                    BY <1>1, <5>1
            <4>3. QED
                BY <4>1, <4>2
        <3>3. QED
            BY <3>1, <3>2
    <2>2. PICK S : S = (V \cap P) \ (F \cup G)
        OBVIOUS
    <2>3. (W \cap P) \ (F \cup G) = S \cup {k} /\ k \notin S /\ S \subseteq P
        BY <1>2, <1>3, <1>7, <2>2
    <2>4. IsFiniteSet(S)
        BY <2>3, FS_Subset
    <2>5. Cardinality(S \cup {k}) = n + 1
        BY <1>1, <2>2, <2>3, <2>4, FS_AddElement
    <2>6. Tally(P, A, B, W, n + 1)
        BY <2>1, <2>3, <2>5 DEF Tally
    <2>7. QED
        BY <1>3, <1>7, <2>6
<1>8. QED
    BY <1>4, <1>5, <1>6, <1>7

(* However far a search has got, it has counted no more than there are.    *)
LEMMA TallyMost ==
    ASSUME NEW P, IsFiniteSet(P), NEW A \in SUBSET P, NEW B \in SUBSET P, A \cap B = {},
           NEW V, NEW n, Tally(P, A, B, V, n), NEW m, Tally(P, A, B, P, m)
    PROVE  n \in Nat /\ m \in Nat /\ n <= m
<1>1. PICK F \in SUBSET A, G \in SUBSET B :
          /\ OneOf(V \cap A, F) /\ OneOf(V \cap B, G)
          /\ n = Cardinality((V \cap P) \ (F \cup G))
    BY DEF Tally
<1>2. P \cap A = A /\ P \cap B = B /\ P \cap P = P
    OBVIOUS
<1>3. PICK F2 \in SUBSET A, G2 \in SUBSET B :
          /\ OneOf(A, F2) /\ OneOf(B, G2)
          /\ m = Cardinality(P \ (F2 \cup G2))
    BY <1>2 DEF Tally
<1>4. PICK X \in SUBSET A : OneOf(A, X) /\ X \cap V = F
    <2>1. CASE V \cap A = {}
        <3>1. F = {} /\ F2 \cap V = {}
            BY <1>1, <2>1 DEF OneOf
        <3>2. QED
            BY <1>3, <3>1
    <2>2. CASE V \cap A # {}
        <3>1. OneOf(A, F) /\ F \cap V = F
            BY <1>1, <2>2 DEF OneOf
        <3>2. QED
            BY <3>1
    <2>3. QED
        BY <2>1, <2>2
<1>5. PICK Y \in SUBSET B : OneOf(B, Y) /\ Y \cap V = G
    <2>1. CASE V \cap B = {}
        <3>1. G = {} /\ G2 \cap V = {}
            BY <1>1, <2>1 DEF OneOf
        <3>2. QED
            BY <1>3, <3>1
    <2>2. CASE V \cap B # {}
        <3>1. OneOf(B, G) /\ G \cap V = G
            BY <1>1, <2>2 DEF OneOf
        <3>2. QED
            BY <3>1
    <2>3. QED
        BY <2>1, <2>2
<1>6. (V \cap P) \ (F \cup G) \in SUBSET (P \ (X \cup Y))
    BY <1>4, <1>5
<1>7. ASSUME NEW S \in SUBSET A, NEW T \in SUBSET B, OneOf(A, S), OneOf(B, T)
      PROVE  /\ IsFiniteSet(P \ (S \cup T))
             /\ Cardinality(P \ (S \cup T)) = Cardinality(P)
                   - ((IF A = {} THEN 0 ELSE 1) + (IF B = {} THEN 0 ELSE 1))
    <2>1. /\ IsFiniteSet(S) /\ Cardinality(S) = IF A = {} THEN 0 ELSE 1
          /\ IsFiniteSet(T) /\ Cardinality(T) = IF B = {} THEN 0 ELSE 1
        BY <1>7, OneOfCardinality
    <2>2. S \cap T = {} /\ P \cap (S \cup T) = S \cup T
        OBVIOUS
    <2>3. Cardinality(S \cup T) = Cardinality(S) + Cardinality(T)
        <3>1. Cardinality(S \cup T)
                 = Cardinality(S) + Cardinality(T) - Cardinality(S \cap T)
            BY <2>1, FS_Union, Zenon
        <3>2. Cardinality(S \cap T) = 0
            BY <2>2, FS_EmptySet
        <3>3. QED
            BY <2>1, <3>1, <3>2
    <2>4. /\ IsFiniteSet(P \ (S \cup T))
          /\ Cardinality(P \ (S \cup T)) = Cardinality(P) - Cardinality(P \cap (S \cup T))
        BY FS_Difference
    <2>5. QED
        BY <2>1, <2>2, <2>3, <2>4, FS_CardinalityType
<1>8. Cardinality(P \ (X \cup Y)) = m /\ IsFiniteSet(P \ (X \cup Y))
    BY <1>3, <1>4, <1>5, <1>7
<1>9. /\ n <= Cardinality(P \ (X \cup Y))
      /\ n \in Nat /\ Cardinality(P \ (X \cup Y)) \in Nat
    BY <1>1, <1>6, <1>8, FS_Subset, FS_CardinalityType
<1>10. QED
    BY <1>8, <1>9
-----------------------------------------------------------------------------
(* The edges CountReachesTwo and CountEdge tell apart.                     *)
Passed == PassedOver(ring, seg, allowOnEdge)
Spared(p) == {k \in Passed : ~ allowOnEdge /\ IsEnd(Edge(k), p)}

LEMMA Collinear ==
    ASSUME NEW p \in Point, NEW q \in Point
    PROVE  Cross(p, q, p) = 0 /\ Cross(p, q, q) = 0 /\ Cross(p, p, q) = 0
<1>1. p.x \in Int /\ p.y \in Int /\ q.x \in Int /\ q.y \in Int
    BY DEF Point
<1>2. QED
    BY <1>1 DEF Cross

(* No edge that counts ends at both ends of seg: it would lie along seg.   *)
LEMMA SparedApart ==
    ASSUME IInv
    PROVE  /\ IsFiniteSet(Passed) /\ Passed \subseteq Edges /\ Passed \subseteq Nat
           /\ Spared(seg.a) \in SUBSET Passed /\ Spared(seg.b) \in SUBSET Passed
           /\ Spared(seg.a) \cap Spared(seg.b) = {}
<1>1. Passed \subseteq Edges
    BY DEF Passed, PassedOver, Found, Edges
<1>2. IsFiniteSet(Passed) /\ Passed \subseteq Nat
    BY <1>1, TestedTyped, FS_Subset
<1>3. ASSUME NEW k \in Spared(seg.a), k \in Spared(seg.b) PROVE FALSE
    <2>1. /\ ~ AlongEdge(seg, Edge(k)) /\ Edge(k) \in Segment
          /\ IsEnd(Edge(k), seg.a) /\ IsEnd(Edge(k), seg.b)
        BY <1>1, <1>3, TestedTyped DEF Spared, Passed, PassedOver, Edge
    <2>2. seg \in Segment /\ seg.a \in Point /\ seg.b \in Point
        BY DEF IInv, Segment
    <2>3. \A p, q \in Point : Cross(p, q, p) = 0 /\ Cross(p, q, q) = 0
        BY Collinear
    <2>4. \A p, q \in Point : Cross(p, p, q) = 0
        BY Collinear
    <2>5. CASE seg.a = seg.b
        BY <2>1, <2>2, <2>4, <2>5 DEF AlongEdge, CollinearPoint, Segment
    <2>6. CASE seg.a # seg.b
        BY <2>1, <2>2, <2>3, <2>6 DEF AlongEdge, CollinearPoint, IsEnd
    <2>7. QED
        BY <2>5, <2>6
<1>4. QED
    BY <1>1, <1>2, <1>3 DEF Spared

(* The scan counts all edges that count.                                   *)
LEMMA ScanTallies ==
    ASSUME IInv
    PROVE  \E m : /\ Tally(Passed, Spared(seg.a), Spared(seg.b), Passed, m)
                  /\ CountReachesTwo(ring, seg, allowOnEdge) <=> m >= 2
<1> DEFINE first(S) == IF S = {} THEN {} ELSE {Min(S)}
           F == first(Spared(seg.a))
           G == first(Spared(seg.b))
<1>1. ASSUME NEW S \in SUBSET Nat PROVE OneOf(S, first(S)) /\ first(S) \subseteq S
    BY LeastOf DEF OneOf
<1>2. /\ OneOf(Spared(seg.a), F) /\ F \subseteq Spared(seg.a)
      /\ OneOf(Spared(seg.b), G) /\ G \subseteq Spared(seg.b)
    <2>1. Spared(seg.a) \in SUBSET Nat /\ Spared(seg.b) \in SUBSET Nat
        BY SparedApart
    <2> HIDE DEF first
    <2>2. QED
        BY <1>1, <2>1
<1>3. CountReachesTwo(ring, seg, allowOnEdge) <=> Cardinality(Passed \ (F \cup G)) >= 2
    <2>1. CASE allowOnEdge
        <3>1. F = {} /\ G = {}
            BY <2>1 DEF Spared
        <3>2. QED
            BY <2>1, <3>1 DEF CountReachesTwo, Passed
    <2>2. CASE ~ allowOnEdge
        <3>1. Spared(seg.a) = {k \in Passed : IsEnd(SegmentAt(ring, k), seg.a)}
            BY <2>2 DEF Spared, Edge
        <3>2. Spared(seg.b) = {k \in Passed \ F : IsEnd(SegmentAt(ring, k), seg.b)}
            <4>1. \A k \in F : k \notin Spared(seg.b)
                BY <1>2, SparedApart
            <4>2. QED
                BY <2>2, <4>1 DEF Spared, Edge
        <3>3. QED
            BY <2>2, <3>1, <3>2 DEF CountReachesTwo, Passed
    <2>3. QED
        BY <2>1, <2>2
<1>4. /\ Passed \cap Spared(seg.a) = Spared(seg.a)
      /\ Passed \cap Spared(seg.b) = Spared(seg.b) /\ Passed \cap Passed = Passed
    BY SparedApart
<1>5. Tally(Passed, Spared(seg.a), Spared(seg.b), Passed, Cardinality(Passed \ (F \cup G)))
    <2> HIDE DEF F, G
    <2>1. QED
        BY <1>2, <1>4 DEF Tally
<1>6. QED
    BY <1>3, <1>5

(* What a scan finds out of a point is what any search does, but for the   *)
(* choice of the edge.                                                     *)
LEMMA ScanFinds ==
    ASSUME IInv, NEW p \in Point
    PROVE  LET scan == RingContainsPoint(ring, p, allowOnEdge)
           IN  (scan.hit <=> Hit(p)) /\ EdgeFor(p, scan.idx)
<1>1. IsRing(ring)
    BY DEF IInv
<1>2. PlaceAt(p) = Place(ring, p)
    BY Zenon DEF PlaceAt, Place, Edges, Edge
<1>3. QED
    BY <1>1, <1>2, ScanIsRight DEF Hit, EdgeFor, Edges, Edge

-----------------------------------------------------------------------------
(* Two edges of the ring have no point in common but an end of both, as in *)
(* a ring that does not cross itself.                                      *)
EdgesTouchAtEnds(r) ==
    \A j, k \in EdgesOf(r) : j # k =>
        \A p \in Point :
            OnSegment(SegmentAt(r, j), p) /\ OnSegment(SegmentAt(r, k), p) =>
                IsEnd(SegmentAt(r, j), p) /\ IsEnd(SegmentAt(r, k), p)

Simple(r) == r.convex \/ EdgesTouchAtEnds(r)

(* Then it does not matter which of the edges at a vertex is reported.     *)
LEMMA WhicheverEdge ==
    ASSUME IInv, Simple(ring), NEW j, NEW j2, NEW k, NEW k2,
           EdgeFor(seg.a, j), EdgeFor(seg.a, j2), EdgeFor(seg.b, k), EdgeFor(seg.b, k2)
    PROVE  ContainsBetween(ring, seg, allowOnEdge, j, k)
              <=> ContainsBetween(ring, seg, allowOnEdge, j2, k2)
<1>1. seg.a \in Point /\ seg.b \in Point /\ \A i \in Edges : i # -1
    <2>1. seg.a \in Point /\ seg.b \in Point
        BY DEF IInv, Segment
    <2>2. \A i \in Edges : i \in Nat
        BY TestedTyped
    <2>3. QED
        BY <2>1, <2>2
<1>2. (j = -1 <=> j2 = -1) /\ (k = -1 <=> k2 = -1)
    BY <1>1 DEF EdgeFor
<1>3. CASE ring.convex
    BY <1>3 DEF ContainsBetween
<1>4. CASE j = j2 /\ k = k2
    BY <1>4
<1>5. CASE ~ ring.convex /\ j # j2 /\ k # -1
    <2>1. /\ j \in Edges /\ j2 \in Edges /\ k2 # -1
          /\ OnSegment(Edge(j), seg.a) /\ OnSegment(Edge(j2), seg.a)
        BY <1>2, <1>5 DEF EdgeFor
    <2>2. IsEnd(Edge(j), seg.a) /\ IsEnd(Edge(j2), seg.a)
        BY <1>1, <1>5, <2>1 DEF Simple, EdgesTouchAtEnds, Edges, Edge
    <2>3. AtVertex(ring, seg, j, k) /\ AtVertex(ring, seg, j2, k2)
        BY <2>2 DEF AtVertex, Edge
    <2>4. CASE allowOnEdge
        BY <1>1, <1>5, <2>1, <2>3, <2>4 DEF ContainsBetween
    <2>5. CASE ~ allowOnEdge
        BY <1>2, <2>5 DEF ContainsBetween, Uncrossed, Crossed
    <2>6. QED
        BY <2>4, <2>5
<1>6. CASE ~ ring.convex /\ k # k2 /\ j # -1
    <2>1. /\ k \in Edges /\ k2 \in Edges /\ j2 # -1
          /\ OnSegment(Edge(k), seg.b) /\ OnSegment(Edge(k2), seg.b)
        BY <1>2, <1>6 DEF EdgeFor
    <2>2. IsEnd(Edge(k), seg.b) /\ IsEnd(Edge(k2), seg.b)
        BY <1>1, <1>6, <2>1 DEF Simple, EdgesTouchAtEnds, Edges, Edge
    <2>3. AtVertex(ring, seg, j, k) /\ AtVertex(ring, seg, j2, k2)
        BY <2>2 DEF AtVertex, Edge
    <2>4. CASE allowOnEdge
        BY <1>1, <1>6, <2>1, <2>3, <2>4 DEF ContainsBetween
    <2>5. CASE ~ allowOnEdge
        BY <1>2, <2>5 DEF ContainsBetween, Uncrossed, Crossed
    <2>6. QED
        BY <2>4, <2>5
<1>7. CASE j = -1 \/ k = -1
    <2>1. Uncrossed(ring, seg, allowOnEdge, j, k)
             <=> Uncrossed(ring, seg, allowOnEdge, j2, k2)
        BY <1>2, Zenon DEF Uncrossed, Crossed
    <2>2. QED
        BY <1>2, <1>7, <2>1, Zenon DEF ContainsBetween
<1>8. QED
    BY <1>2, <1>3, <1>4, <1>5, <1>6, <1>7
-----------------------------------------------------------------------------
Answer ==
    IF op = "contains" THEN RingContainsSegment(ring, seg, allowOnEdge)
    ELSE RingIntersectsSegment(ring, seg, allowOnEdge)

(* Once seg.a is known to be in the ring or not, once both ends are, and   *)
(* while edges are counted: how far the call has got.                      *)
AfterA ==
    /\ EdgeFor(seg.a, resA)
    /\ IF op = "contains" THEN Hit(seg.a) /\ seg.b # seg.a ELSE ~ Hit(seg.a)

BothIn ==
    /\ op = "contains" /\ seg.b # seg.a /\ Hit(seg.a) /\ Hit(seg.b)
    /\ EdgeFor(seg.a, resA) /\ EdgeFor(seg.b, resB)

Counting ==
    /\ op # "contains" /\ ~ Hit(seg.a) /\ ~ Hit(seg.b)
    /\ Tally(Passed, Spared(seg.a), Spared(seg.b), visited, count)
    /\ segAOn <=> visited \cap Spared(seg.a) # {}
    /\ segBOn <=> visited \cap Spared(seg.b) # {}

Order ==
    /\ pc \in {"pointB", "gotB"} => AfterA
    /\ pc = "decide" => BothIn
    /\ pc = "count" => Counting
    /\ InSearch \/ pc \in {"gotA", "gotB"} => count = 0 /\ ~ segAOn /\ ~ segBOn
    /\ segAOn \in BOOLEAN /\ segBOn \in BOOLEAN
    /\ Simple(ring) /\ pc = "done" => res = Answer

(* The answer the scan gives, in terms of what a search finds out.         *)
LEMMA AnswerIs ==
    ASSUME IInv
    PROVE  \E j, k :
              /\ EdgeFor(seg.a, j) /\ EdgeFor(seg.b, k)
              /\ op = "contains" =>
                    (Answer <=> /\ Hit(seg.a)
                                /\ \/ seg.b = seg.a
                                   \/ /\ Hit(seg.b)
                                      /\ ContainsBetween(ring, seg, allowOnEdge, j, k))
              /\ op # "contains" =>
                    (Answer <=> \/ Hit(seg.a) \/ Hit(seg.b)
                                \/ CountReachesTwo(ring, seg, allowOnEdge))
<1>1. PICK scanA, scanB : /\ scanA = RingContainsPoint(ring, seg.a, allowOnEdge)
                          /\ scanB = RingContainsPoint(ring, seg.b, allowOnEdge)
    OBVIOUS
<1>2. /\ (scanA.hit <=> Hit(seg.a)) /\ EdgeFor(seg.a, scanA.idx)
      /\ (scanB.hit <=> Hit(seg.b)) /\ EdgeFor(seg.b, scanB.idx)
    <2>1. seg.a \in Point /\ seg.b \in Point
        BY DEF IInv, Segment
    <2>2. QED
        BY <1>1, <2>1, ScanFinds, Zenon
<1>3. op = "contains" =>
          (Answer <=> /\ scanA.hit
                      /\ \/ seg.b = seg.a
                         \/ /\ scanB.hit
                            /\ ContainsBetween(ring, seg, allowOnEdge,
                                               scanA.idx, scanB.idx))
    BY <1>1, Zenon DEF Answer, RingContainsSegment
<1>4. op # "contains" =>
          (Answer <=> scanA.hit \/ scanB.hit \/ CountReachesTwo(ring, seg, allowOnEdge))
    BY <1>1, Zenon DEF Answer, RingIntersectsSegment
<1>5. QED
    BY <1>2, <1>3, <1>4, Zenon

LEMMA AnswerBoolean == Answer \in BOOLEAN
    BY Zenon DEF Answer, RingContainsSegment, RingIntersectsSegment

(* A call that returns what the scan answers.                              *)
LEMMA ReturnOrder ==
    ASSUME Order, NEW answer, Return(answer), Simple(ring) => answer = Answer
    PROVE  Order'
<1>1. /\ pc' = "done" /\ res' = answer /\ op' = op /\ SameArgs
      /\ segAOn' = segAOn /\ segBOn' = segBOn
    BY DEF Return, args, counters, SameArgs
<1>2. Answer' = Answer
    BY <1>1 DEF Answer, SameArgs
<1>3. QED
    BY <1>1, <1>2 DEF Order, InSearch, SameArgs

(* What is said of a point stays so as long as the arguments do.           *)
LEMMA SameAnswers ==
    ASSUME SameArgs, op' = op
    PROVE  /\ \A p : Hit(p)' = Hit(p) /\ \A k : EdgeFor(p, k)' = EdgeFor(p, k)
           /\ Passed' = Passed /\ \A p : Spared(p)' = Spared(p)
           /\ Answer' = Answer
<1>1. Edges' = Edges /\ \A k : Edge(k)' = Edge(k)
    BY DEF SameArgs, Edges, Edge
<1>2. \A p : PlaceAt(p)' = PlaceAt(p)
    BY <1>1, Zenon DEF PlaceAt
<1>3. Passed' = Passed
    BY DEF SameArgs, Passed
<1>4. \A p : Spared(p)' = Spared(p)
    BY <1>1, <1>3 DEF SameArgs, Spared
<1>5. \A p : Hit(p)' = Hit(p)
    BY <1>2, Zenon DEF SameArgs, Hit
<1>6. \A p, k : EdgeFor(p, k)' = EdgeFor(p, k)
    BY <1>1, <1>2, Zenon DEF EdgeFor
<1>7. Answer' = Answer
    BY DEF SameArgs, Answer
<1>8. QED
    BY <1>3, <1>4, <1>5, <1>6, <1>7

LEMMA SearchOrder ==
    ASSUME Order, SameArgs, op' = op, UNCHANGED counters, UNCHANGED <<resA, resB>>,
           InSearch, pc' = pc \/ GotPoint
    PROVE  Order'
<1>1. AfterA => AfterA'
    BY SameAnswers DEF AfterA, SameArgs
<1>2. pc \in {"pointA", "pointB"} /\ (pc' \in {"pointB", "gotB"} => pc = "pointB")
      /\ pc' \in {"pointA", "pointB", "gotA", "gotB"}
    BY DEF InSearch, GotPoint
<1>3. QED
    BY <1>1, <1>2 DEF Order, InSearch, counters

LEMMA CountEdgeOrder ==
    ASSUME IInv, Order, NEW k \in Edges, CountEdge(k)
    PROVE  Order'
<1> DEFINE P == Passed
           A == Spared(seg.a)
           B == Spared(seg.b)
           atA == k \in A /\ ~ segAOn
           atB == k \in B /\ ~ segBOn
<1>1. /\ pc = "count" /\ pc' = pc /\ SameArgs /\ op' = op /\ Counting
      /\ visited' = visited \cup {k} /\ k \notin visited
      /\ segAOn \in BOOLEAN /\ segBOn \in BOOLEAN
    BY DEF CountEdge, Order, SameArgs, args
<1>2. /\ IsFiniteSet(P) /\ A \in SUBSET P /\ B \in SUBSET P /\ A \cap B = {}
    BY SparedApart
<1>3. /\ segAOn' = (segAOn \/ atA) /\ segBOn' = (segBOn \/ atB)
      /\ count' = IF k \in P /\ ~ atA /\ ~ atB THEN count + 1 ELSE count
    <2>1. PICK counts, endA, endB :
             /\ counts = (k \in P)
             /\ endA = (counts /\ ~ allowOnEdge /\ ~ segAOn /\ IsEnd(Edge(k), seg.a))
             /\ endB = (counts /\ ~ allowOnEdge /\ ~ endA /\ ~ segBOn
                           /\ IsEnd(Edge(k), seg.b))
        OBVIOUS
    <2>2. /\ segAOn' = (segAOn \/ endA) /\ segBOn' = (segBOn \/ endB)
          /\ count' = IF counts /\ ~ endA /\ ~ endB THEN count + 1 ELSE count
        BY <2>1, Zenon DEF CountEdge, Passed
    <2>3. /\ k \in A <=> counts /\ ~ allowOnEdge /\ IsEnd(Edge(k), seg.a)
          /\ k \in B <=> counts /\ ~ allowOnEdge /\ IsEnd(Edge(k), seg.b)
        BY <2>1 DEF Spared
    <2>4. (endA <=> atA) /\ endA \in BOOLEAN /\ endB \in BOOLEAN
        BY <2>1, <2>3, Zenon
    <2>5. endB <=> atB
        BY <1>2, <2>1, <2>3, <2>4
    <2>6. QED
        BY <2>1, <2>2, <2>4, <2>5, Zenon
<1>4. (segAOn <=> visited \cap A # {}) /\ (segBOn <=> visited \cap B # {})
    BY <1>1 DEF Counting
<1>5. (segAOn' <=> visited' \cap A # {}) /\ (segBOn' <=> visited' \cap B # {})
    BY <1>1, <1>3, <1>4
<1>6. Tally(P, A, B, visited', count')
    <2>1. PICK n : n = IF \/ k \notin P
                          \/ k \in A /\ visited \cap A = {}
                          \/ k \in B /\ visited \cap B = {}
                       THEN count ELSE count + 1
        OBVIOUS
    <2>2. Tally(P, A, B, visited \cup {k}, n)
        <3>1. Tally(P, A, B, visited, count)
            BY <1>1 DEF Counting
        <3> HIDE DEF P, A, B
        <3>2. QED
            BY <1>1, <1>2, <2>1, <3>1, TallyNext
    <2>3. count' = n
        BY <1>3, <1>4, <2>1
    <2>4. QED
        BY <1>1, <2>2, <2>3
<1>7. Counting'
    <2>1. /\ op' # "contains" /\ (~ Hit(seg.a))' /\ (~ Hit(seg.b))'
          /\ Passed' = P /\ Spared(seg.a)' = A /\ Spared(seg.b)' = B
        BY <1>1, SameAnswers DEF Counting, SameArgs
    <2>2. QED
        BY <1>1, <1>5, <1>6, <2>1 DEF Counting, SameArgs
<1>8. QED
    BY <1>1, <1>3, <1>7 DEF Order, InSearch
(* A decision made once both ends are known to be in the ring.             *)
LEMMA DecideOrder ==
    ASSUME IInv, Order, pc = "decide", NEW answer, Return(answer), answer \in BOOLEAN,
           answer <=> ContainsBetween(ring, seg, allowOnEdge, resA, resB)
    PROVE  Order'
<1>1. BothIn
    BY DEF Order
<1>2. PICK j, k :
         /\ EdgeFor(seg.a, j) /\ EdgeFor(seg.b, k)
         /\ Answer <=> /\ Hit(seg.a)
                       /\ \/ seg.b = seg.a
                          \/ /\ Hit(seg.b)
                             /\ ContainsBetween(ring, seg, allowOnEdge, j, k)
    BY <1>1, AnswerIs, Zenon DEF BothIn
<1>3. ASSUME Simple(ring) PROVE answer = Answer
    <2>1. ContainsBetween(ring, seg, allowOnEdge, j, k)
             <=> ContainsBetween(ring, seg, allowOnEdge, resA, resB)
        BY <1>1, <1>2, <1>3, WhicheverEdge DEF BothIn
    <2>2. answer <=> Answer
        BY <1>1, <1>2, <2>1, Zenon DEF BothIn
    <2>3. QED
        BY <2>2, AnswerBoolean
<1>4. QED
    BY <1>3, ReturnOrder

LEMMA StepOrder == IInv /\ Order /\ [Next]_vars => Order'
<1> SUFFICES ASSUME IInv, Order, [Next]_vars PROVE Order'
    OBVIOUS
<1>1. ASSUME NEW k \in Edges, PointOnEdge(k) \/ PointOffEdge(k) PROVE Order'
    BY <1>1, SearchOrder DEF PointOnEdge, PointOffEdge, args, SameArgs
<1>2. ASSUME NEW k \in Edges, CountEdge(k) PROVE Order'
    BY <1>2, CountEdgeOrder
<1>3. CASE PointSearched
    BY <1>3, SearchOrder DEF PointSearched, args, SameArgs
<1>4. PICK j, k :
         /\ EdgeFor(seg.a, j) /\ EdgeFor(seg.b, k)
         /\ op = "contains" =>
               (Answer <=> /\ Hit(seg.a)
                           /\ \/ seg.b = seg.a
                              \/ /\ Hit(seg.b)
                                 /\ ContainsBetween(ring, seg, allowOnEdge, j, k))
         /\ op # "contains" =>
               (Answer <=> \/ Hit(seg.a) \/ Hit(seg.b)
                           \/ CountReachesTwo(ring, seg, allowOnEdge))
    BY AnswerIs
<1>5. /\ pc = "gotA" => in = Hit(seg.a) /\ EdgeFor(seg.a, idx)
      /\ pc = "gotB" => in = Hit(seg.b) /\ EdgeFor(seg.b, idx) /\ AfterA
    BY DEF IInv, Got, Tested, Order
<1>6. (Answer <=> TRUE) => TRUE = Answer
    BY AnswerBoolean
<1>7. (Answer <=> FALSE) => FALSE = Answer
    BY AnswerBoolean
<1>8. CASE ContainsNotA
    <2>1. Return(FALSE) /\ ~ Answer
        BY <1>4, <1>5, <1>8, Zenon DEF ContainsNotA
    <2>2. QED
        BY <1>7, <2>1, ReturnOrder
<1>9. CASE ContainsSinglePoint
    <2>1. Return(TRUE) /\ Answer
        BY <1>4, <1>5, <1>9, Zenon DEF ContainsSinglePoint
    <2>2. QED
        BY <1>6, <2>1, ReturnOrder
<1>10. CASE IntersectsAtA
    <2>1. Return(TRUE) /\ Hit(seg.a) /\ op # "contains"
        BY <1>5, <1>10 DEF IntersectsAtA
    <2>2. Answer
        BY <1>4, <2>1, Zenon
    <2>3. QED
        BY <1>6, <2>1, <2>2, ReturnOrder
<1>11. CASE ContainsNotB
    <2>1. Return(FALSE) /\ ~ Hit(seg.b) /\ op = "contains" /\ seg.b # seg.a
        BY <1>5, <1>11, Zenon DEF ContainsNotB, AfterA
    <2>2. ~ Answer
        BY <1>4, <2>1, Zenon
    <2>3. QED
        BY <1>7, <2>1, <2>2, ReturnOrder
<1>12. CASE IntersectsAtB
    <2>1. Return(TRUE) /\ Hit(seg.b) /\ op # "contains"
        BY <1>5, <1>12 DEF IntersectsAtB
    <2>2. Answer
        BY <1>4, <2>1, Zenon
    <2>3. QED
        BY <1>6, <2>1, <2>2, ReturnOrder
<1>13. CASE TestB
    <2>1. /\ pc = "gotA" /\ pc' = "pointB" /\ SameArgs /\ op' = op /\ resA' = idx
          /\ UNCHANGED counters
          /\ IF op = "contains" THEN in /\ seg.b # seg.a ELSE ~ in
        BY <1>13 DEF TestB, args, SameArgs
    <2>2. IF op = "contains" THEN Hit(seg.a) /\ seg.b # seg.a ELSE ~ Hit(seg.a)
        BY <1>5, <2>1
    <2>3. AfterA'
        BY <1>5, <2>1, <2>2, SameAnswers DEF AfterA, SameArgs
    <2>4. QED
        BY <2>1, <2>3 DEF Order, InSearch, counters
<1>14. CASE GoOn
    <2>1. /\ pc = "gotB" /\ SameArgs /\ op' = op /\ resA' = resA /\ resB' = idx
          /\ pc' = (IF op = "contains" THEN "decide" ELSE "count")
          /\ visited' = {} /\ UNCHANGED counters /\ (op = "contains" <=> in)
        BY <1>14 DEF GoOn, args, SameArgs
    <2>2. AfterA /\ EdgeFor(seg.b, idx) /\ in = Hit(seg.b)
          /\ count = 0 /\ ~ segAOn /\ ~ segBOn
        BY <1>5, <2>1 DEF Order
    <2>3. op = "contains" <=> Hit(seg.b)
        BY <2>1, <2>2
    <2>4. CASE op = "contains"
        <3>1. BothIn'
            BY <2>1, <2>2, <2>3, <2>4, SameAnswers DEF BothIn, AfterA, SameArgs
        <3>2. QED
            BY <2>1, <2>4, <3>1 DEF Order, InSearch, counters
    <2>5. CASE op # "contains"
        <3>1. /\ op' # "contains" /\ (~ Hit(seg.a))' /\ (~ Hit(seg.b))'
            BY <2>1, <2>2, <2>3, <2>5, SameAnswers DEF AfterA, SameArgs
        <3>2. Tally(Passed, Spared(seg.a), Spared(seg.b), visited, count)'
            BY <2>1, <2>2, TallyNone DEF counters
        <3>3. Counting'
            BY <2>1, <2>2, <3>1, <3>2 DEF Counting, counters
        <3>4. QED
            BY <2>1, <2>5, <3>3 DEF Order, InSearch, counters
    <2>6. QED
        BY <2>4, <2>5
<1>15. CASE ContainsConvex
    <2>1. pc = "decide" /\ Return(TRUE)
        BY <1>15 DEF ContainsConvex
    <2>2. ContainsBetween(ring, seg, allowOnEdge, resA, resB)
        BY <1>15, Zenon DEF ContainsConvex, ContainsBetween
    <2>3. QED
        BY <2>1, <2>2, DecideOrder
<1>16. CASE ContainsSameEdge
    <2>1. pc = "decide" /\ Return(TRUE)
        BY <1>16 DEF ContainsSameEdge, Deciding
    <2>2. ContainsBetween(ring, seg, allowOnEdge, resA, resB)
        BY <1>16, Zenon DEF ContainsSameEdge, OnEdges, ContainsBetween
    <2>3. QED
        BY <2>1, <2>2, DecideOrder
<1>17. CASE ContainsAtVertex
    <2>1. pc = "decide" /\ Return(TRUE)
        BY <1>17 DEF ContainsAtVertex, Deciding
    <2>2. ContainsBetween(ring, seg, allowOnEdge, resA, resB)
        BY <1>17, Zenon DEF ContainsAtVertex, OnEdges, ContainsBetween
    <2>3. QED
        BY <2>1, <2>2, DecideOrder
<1>18. CASE ContainsOutside
    <2>1. pc = "decide" /\ Return(FALSE)
        BY <1>18 DEF ContainsOutside, Between2Edges, Deciding
    <2>2. ~ ContainsBetween(ring, seg, allowOnEdge, resA, resB)
        BY <1>18, Zenon
           DEF ContainsOutside, Between2Edges, Deciding, OnEdges, ContainsBetween
    <2>3. QED
        BY <2>1, <2>2, DecideOrder
<1>19. CASE ContainsUncrossed
    <2>1. pc = "decide" /\ Return(Uncrossed(ring, seg, allowOnEdge, resA, resB))
        BY <1>19 DEF ContainsUncrossed, Deciding
    <2>2. Uncrossed(ring, seg, allowOnEdge, resA, resB)
             <=> ContainsBetween(ring, seg, allowOnEdge, resA, resB)
        BY <1>19, Zenon
           DEF ContainsUncrossed, Between2Edges, Deciding, OnEdges, ContainsBetween
    <2>3. Uncrossed(ring, seg, allowOnEdge, resA, resB) \in BOOLEAN
        BY Zenon DEF Uncrossed
    <2>4. QED
        BY <2>1, <2>2, <2>3, DecideOrder
<1>20. CASE IntersectsCounted
    <2>1. /\ pc = "count" /\ Return(count >= 2) /\ Counting
          /\ ~ CountMore \/ Found(ring, SegmentRect(seg)) \subseteq visited
        BY <1>20 DEF IntersectsCounted, Order
    <2>2. PICK m : /\ Tally(Passed, Spared(seg.a), Spared(seg.b), Passed, m)
                   /\ CountReachesTwo(ring, seg, allowOnEdge) <=> m >= 2
        BY ScanTallies
    <2>3. /\ IsFiniteSet(Passed) /\ Spared(seg.a) \in SUBSET Passed
          /\ Spared(seg.b) \in SUBSET Passed /\ Spared(seg.a) \cap Spared(seg.b) = {}
        BY SparedApart
    <2>4. count \in Nat /\ m \in Nat /\ count <= m
        BY <2>1, <2>2, <2>3, TallyMost DEF Counting
    <2>5. CASE count >= 2
        <3>1. Answer
            BY <1>4, <2>1, <2>2, <2>4, <2>5 DEF Counting
        <3>2. QED
            BY <1>6, <2>1, <2>5, <3>1, ReturnOrder
    <2>6. CASE ~ (count >= 2)
        <3>1. Passed \subseteq visited
            BY <2>1, <2>4, <2>6 DEF CountMore, Passed, PassedOver
        <3>2. Tally(Passed, Spared(seg.a), Spared(seg.b), Passed, count)
            <4>1. /\ visited \cap Passed = Passed \cap Passed
                  /\ visited \cap Spared(seg.a) = Passed \cap Spared(seg.a)
                  /\ visited \cap Spared(seg.b) = Passed \cap Spared(seg.b)
                BY <2>3, <3>1
            <4>2. QED
                BY <2>1, <4>1 DEF Counting, Tally
        <3>3. m <= count
            BY <2>2, <2>3, <3>2, TallyMost
        <3>4. ~ Answer
            BY <1>4, <2>1, <2>2, <2>4, <2>6, <3>3 DEF Counting
        <3>5. (count >= 2) = FALSE
            BY <2>4, <2>6
        <3>6. Return(FALSE) /\ FALSE = Answer
            BY <1>7, <2>1, <3>4, <3>5, Zenon
        <3>7. QED
            BY <3>6, ReturnOrder
    <2>7. QED
        BY <2>5, <2>6
<1>21. CASE UNCHANGED vars
    <2>1. /\ SameArgs /\ op' = op /\ UNCHANGED <<resA, resB, visited, pc, res>>
          /\ UNCHANGED counters
        BY <1>21 DEF vars, SameArgs, counters
    <2>2. (AfterA => AfterA') /\ (BothIn => BothIn') /\ (Counting => Counting')
        BY <1>21 DEF vars, AfterA, BothIn, Counting, Hit, EdgeFor, PlaceAt, Edges, Edge,
                     Passed, Spared
    <2>3. QED
        BY <2>1, <2>2, SameAnswers DEF Order, InSearch, counters, SameArgs
<1>22. QED
    BY <1>1, <1>2, <1>3, <1>8, <1>9, <1>10, <1>11, <1>12, <1>13, <1>14, <1>15, <1>16,
       <1>17, <1>18, <1>19, <1>20, <1>21 DEF Next

LEMMA InitOrder == Init => Order
    BY DEF Init, Order, InSearch

(* ringContainsSegment and ringIntersectsSegment of a segment and a ring   *)
(* answer the same whether or not the ring has an index, that is, in       *)
(* whatever order the edges come: for every segment, and every ring that   *)
(* is convex or whose edges only meet at their ends.  An end of the        *)
(* segment on two edges is then a vertex, where both edges lead to the     *)
(* same answer, and however many edges meet at an end of the segment just  *)
(* one of them is not counted.                                             *)
THEOREM OrderIsIrrelevant == Spec => [](Simple(ring) => AnyOrder)
<1>1. Order => (Simple(ring) => AnyOrder)
    BY DEF Order, AnyOrder, Answer
<1>2. QED
    BY <1>1, IInvAlways, InitOrder, StepOrder, PTL DEF Spec
=============================================================================
