---------------------------- MODULE QuadTreeProofs ----------------------------
(***************************************************************************)
(* The quadtree keeps every segment in exactly one place and inside the    *)
(* bounds of the node it is stored in, never nests splits and never        *)
(* overfills a leaf, for every series and for every value of qMaxItems and *)
(* qMaxDepth.                                                              *)
(*                                                                         *)
(* What is read back of the bytes it is encoded to is the tree: every      *)
(* number that appendUvarint wrote, every item that was sorted, made a     *)
(* difference and written, the flag, and the quads with their lengths, as  *)
(* long as the numbers are below 2^32, which the header has room for.      *)
(***************************************************************************)
EXTENDS QuadTree, Codec, PlanarProofs, SequenceTheorems

-----------------------------------------------------------------------------
(* The geometry of a split. *)

LEMMA QuadBoundsRect ==
    ASSUME NEW b \in Rect, NEW q \in Quads
    PROVE  QuadBounds(b, q) \in Rect
    BY DEF QuadBounds, Mid, Quads, Rect, Point

LEMMA ChooseQuadRange ==
    ASSUME NEW b, NEW r
    PROVE  ChooseQuad(b, r) # -1 => ChooseQuad(b, r) \in Quads
    BY DEF ChooseQuad, Quads

(* A rect inside the bounds that has a quad lies inside the quad: the      *)
(* boundary tests of chooseQuad and the halves of quadBounds agree.        *)
LEMMA QuadHolds ==
    ASSUME NEW b \in Rect, NEW r \in Rect, RectContainsRect(b, r),
           ChooseQuad(b, r) # -1
    PROVE  RectContainsRect(QuadBounds(b, ChooseQuad(b, r)), r)
<1>1. /\ Mid(b.min.x, b.max.x) \in Int /\ Mid(b.min.y, b.max.y) \in Int
      /\ b.min.x \in Int /\ b.min.y \in Int /\ b.max.x \in Int /\ b.max.y \in Int
      /\ r.min.x \in Int /\ r.min.y \in Int /\ r.max.x \in Int /\ r.max.y \in Int
    BY DEF Mid, Rect, Point
<1>2. QED
    BY <1>1 DEF ChooseQuad, QuadBounds, RectContainsRect

-----------------------------------------------------------------------------
(* Segments. *)

SeriesType == [points : Seq(Point), closed : BOOLEAN, rect : Rect]

LEMMA NumSegmentsNat ==
    ASSUME NEW s \in SeriesType
    PROVE  NumSegments(s) \in Nat /\ NumSegments(s) <= Len(s.points)
    BY DEF NumSegments, Empty, SeriesType

LEMMA AppendAt ==
    ASSUME NEW S, NEW s \in Seq(S), NEW x \in S
    PROVE  /\ Len(Append(s, x)) = Len(s) + 1 /\ Len(s) \in Nat
           /\ \A k \in DOMAIN s : Append(s, x)[k] = s[k]
           /\ \A k \in DOMAIN Append(s, x) : k \notin DOMAIN s => Append(s, x)[k] = x
    OBVIOUS

LEMMA SegmentRectType ==
    ASSUME NEW s \in SeriesType, NEW k \in 0 .. NumSegments(s) - 1
    PROVE  SegmentRectAt(s, k) \in Rect
<1>1. Len(s.points) \in Nat /\ Len(s.points) >= 2 /\ k \in 0 .. Len(s.points) - 1
    BY DEF NumSegments, Empty, SeriesType
<1>2. SegmentAt(s, k).a \in Point /\ SegmentAt(s, k).b \in Point
    BY <1>1 DEF SegmentAt, PointAt, SeriesType
<1>3. QED
    BY <1>2 DEF SegmentRectAt, SegmentRect, Lesser, Greater, Rect, Point

-----------------------------------------------------------------------------
(* Quads are allocated after their node, and a node that is neither split  *)
(* nor being split has none.                                               *)
Ordered ==
    \A n \in Addresses : \A q \in Quads :
        nodes[n].quads[q] # Nil =>
            /\ nodes[n].quads[q] > n
            /\ nodes[n].split \/ UnderSplit(n)

(* The items a split keeps come from the node it splits.                   *)
KeptWithin ==
    \A f \in DOMAIN stack : \A k \in DOMAIN stack[f].nitems :
        RectContainsRect(nodes[stack[f].node].bounds,
                         SegmentRectAt(series, stack[f].nitems[k]))

IInv ==
    /\ TypeOK
    /\ WithinBounds
    /\ LeavesFit
    /\ SplitsDoNotNest
    /\ Ordered
    /\ KeptWithin
    /\ \A k \in Items : RectContainsRect(series.rect, SegmentRectAt(series, k))
    /\ nodes[Root].bounds = series.rect

LEMMA NodeType ==
    ASSUME TypeOK, NEW n \in Addresses
    PROVE  /\ Len(nodes) \in Nat
           /\ nodes[n].split \in BOOLEAN
           /\ nodes[n].items \in Seq(Items)
           /\ nodes[n].quads \in [Quads -> 0 .. Len(nodes)]
           /\ nodes[n].bounds \in Rect
           /\ nodes[n].depth \in 0 .. QMaxDepth
<1>1. nodes \in Seq(Node) /\ n \in 1 .. Len(nodes)
    BY DEF TypeOK, Addresses
<1>2. nodes[n] \in Node /\ Len(nodes) \in Nat
    BY <1>1
<1>3. QED
    BY <1>2 DEF Node

LEMMA FrameType ==
    ASSUME TypeOK, NEW f \in DOMAIN stack
    PROVE  /\ stack[f] \in Frame
           /\ stack[f].op \in {"insert", "split"}
           /\ stack[f].node \in Addresses
           /\ stack[f].item \in Items
           /\ stack[f].i \in 0 .. QMaxItems
           /\ stack[f].nitems \in Seq(Items)
<1>1. stack \in Seq(Frame)
    BY DEF TypeOK
<1>2. stack[f] \in Frame
    BY <1>1
<1>3. QED
    BY <1>2 DEF Frame

(* A build that has not begun to insert, of whatever series.               *)
Begun ==
    /\ series \in SeriesType
    /\ \A k \in Items : RectContainsRect(series.rect, SegmentRectAt(series, k))
    /\ next = 0 /\ nodes = <<NewNode(series.rect, 0)>> /\ stack = <<>>

LEMMA InitBegun == Init => Begun
    BY InputsAssumption, RectAssumption DEF Init, Begun, SeriesType, Items

LEMMA BegunIInv == Begun => IInv
<1> SUFFICES ASSUME Begun PROVE IInv
    OBVIOUS
<1>1. /\ series \in SeriesType
      /\ next = 0 /\ stack = <<>> /\ nodes = <<NewNode(series.rect, 0)>>
    BY DEF Begun
<1>2. NumSegments(series) \in Nat
    BY <1>1, NumSegmentsNat
<1>3. /\ Len(nodes) = 1 /\ Addresses = {1} /\ nodes[1].split = FALSE
      /\ nodes[1].items = <<>> /\ nodes[1].bounds = series.rect
      /\ \A q \in Quads : nodes[1].quads[q] = Nil
    BY <1>1 DEF NewNode, Addresses
<1>4. NewNode(series.rect, 0) \in Node
    <2>1. series.rect \in Rect
        BY <1>1 DEF SeriesType
    <2>2. [q \in Quads |-> Nil] \in [Quads -> 0 .. Len(nodes)]
        BY <1>3 DEF Nil
    <2>3. <<>> \in Seq(Items) /\ 0 \in 0 .. QMaxDepth /\ FALSE \in BOOLEAN
        BY LimitAssumption
    <2>4. QED
        BY <2>1, <2>2, <2>3, Zenon DEF NewNode, Node
<1>5. TypeOK
    BY <1>1, <1>2, <1>4 DEF TypeOK, SeriesType
<1>6. WithinBounds /\ LeavesFit /\ SplitsDoNotNest /\ Ordered /\ KeptWithin
    BY <1>1, <1>3, LimitAssumption
       DEF WithinBounds, LeavesFit, SplitsDoNotNest, Ordered, KeptWithin
<1>7. \A k \in Items : RectContainsRect(series.rect, SegmentRectAt(series, k))
    BY DEF Begun
<1>8. QED
    BY <1>3, <1>5, <1>6, <1>7 DEF IInv, Root

LEMMA InitIInv == Init => IInv
    BY InitBegun, BegunIInv

-----------------------------------------------------------------------------
(* How the operations change the nodes, field by field. *)

NodeOf(len) == [split : BOOLEAN, items : Seq(Items), quads : [Quads -> 0 .. len],
                bounds : Rect, depth : 0 .. QMaxDepth]

LEMMA AppendFields ==
    ASSUME TypeOK, NEW n \in Addresses, NEW item \in Items
    PROVE  LET T == [nodes EXCEPT ![n].items = Append(@, item)] IN
           /\ T \in Seq(NodeOf(Len(nodes))) /\ Len(T) = Len(nodes)
           /\ T[n].items = Append(nodes[n].items, item)
           /\ \A m \in Addresses :
                 /\ m # n => T[m].items = nodes[m].items
                 /\ T[m].split = nodes[m].split /\ T[m].quads = nodes[m].quads
                 /\ T[m].bounds = nodes[m].bounds /\ T[m].depth = nodes[m].depth
<1> DEFINE M == [nodes[n] EXCEPT !.items = Append(@, item)]
           T == [nodes EXCEPT ![n].items = Append(@, item)]
<1>1. nodes \in Seq(NodeOf(Len(nodes))) /\ n \in 1 .. Len(nodes)
    BY DEF TypeOK, Node, NodeOf, Addresses
<1>2. nodes[n] \in NodeOf(Len(nodes))
    BY <1>1
<1>3. /\ M \in NodeOf(Len(nodes)) /\ M.items = Append(nodes[n].items, item)
      /\ M.split = nodes[n].split /\ M.quads = nodes[n].quads
      /\ M.bounds = nodes[n].bounds /\ M.depth = nodes[n].depth
    <2>1. Append(nodes[n].items, item) \in Seq(Items)
        BY <1>2 DEF NodeOf
    <2>2. \A x \in Seq(Items) :
             LET N == [nodes[n] EXCEPT !.items = x] IN
             /\ N \in NodeOf(Len(nodes)) /\ N.items = x
             /\ N.split = nodes[n].split /\ N.quads = nodes[n].quads
             /\ N.bounds = nodes[n].bounds /\ N.depth = nodes[n].depth
        BY <1>2 DEF NodeOf
    <2>3. QED
        BY <2>1, <2>2
<1>4. T = [nodes EXCEPT ![n] = M]
    OBVIOUS
<1> HIDE DEF M, T
<1>5. T \in Seq(NodeOf(Len(nodes))) /\ Len(T) = Len(nodes) /\ T[n] = M
    BY <1>1, <1>3, <1>4
<1>6. \A m \in Addresses : m # n => T[m] = nodes[m]
    BY <1>1, <1>4 DEF Addresses
<1>7. QED
    BY <1>3, <1>5, <1>6 DEF T

LEMMA WithQuadFields ==
    ASSUME TypeOK, NEW n \in Addresses, NEW q \in Quads,
           nodes[n].depth # QMaxDepth
    PROVE  LET W == WithQuad(n, q)
               c == QuadOf(n, q)
           IN  /\ W \in Seq(NodeOf(Len(W)))
               /\ Len(W) \in {Len(nodes), Len(nodes) + 1}
               /\ c \in 1 .. Len(W)
               /\ \A m \in Addresses :
                     /\ W[m].items = nodes[m].items /\ W[m].split = nodes[m].split
                     /\ W[m].bounds = nodes[m].bounds
                     /\ W[m].depth = nodes[m].depth
                     /\ \A r \in Quads :
                           W[m].quads[r] = IF m = n /\ r = q THEN c
                                           ELSE nodes[m].quads[r]
               /\ nodes[n].quads[q] # Nil => W = nodes /\ c = nodes[n].quads[q]
               /\ nodes[n].quads[q] = Nil =>
                     /\ Len(W) = Len(nodes) + 1 /\ c = Len(W)
                     /\ W[c].items = <<>> /\ W[c].split = FALSE
                     /\ W[c].bounds = QuadBounds(nodes[n].bounds, q)
                     /\ \A r \in Quads : W[c].quads[r] = Nil
<1> DEFINE W == WithQuad(n, q)
           c == QuadOf(n, q)
           len == Len(nodes)
           new == NewNode(QuadBounds(nodes[n].bounds, q), nodes[n].depth + 1)
           M == [nodes[n] EXCEPT !.quads[q] = len + 1]
           T == [nodes EXCEPT ![n].quads[q] = len + 1]
<1>1. nodes \in Seq(NodeOf(len)) /\ n \in 1 .. len /\ len \in Nat
    BY DEF TypeOK, Node, NodeOf, Addresses
<1>2. nodes[n] \in NodeOf(len)
    BY <1>1
<1>3. CASE nodes[n].quads[q] # Nil
    <2>1. W = nodes /\ c = nodes[n].quads[q]
        BY <1>3 DEF WithQuad, QuadOf
    <2>2. c \in 1 .. len
        BY <1>2, <1>3, <2>1 DEF NodeOf, Nil
    <2>3. QED
        BY <1>1, <1>3, <2>1, <2>2
<1>4. CASE nodes[n].quads[q] = Nil
    <2>1. W = Append(T, new) /\ c = len + 1
        BY <1>4 DEF WithQuad, QuadOf
    <2>2. /\ new \in NodeOf(len + 1)
          /\ new.items = <<>> /\ new.split = FALSE
          /\ new.bounds = QuadBounds(nodes[n].bounds, q)
          /\ \A r \in Quads : new.quads[r] = Nil
        <3>1. QuadBounds(nodes[n].bounds, q) \in Rect
            BY <1>2, QuadBoundsRect DEF NodeOf
        <3>2. nodes[n].depth + 1 \in 0 .. QMaxDepth
            BY <1>2, LimitAssumption DEF NodeOf
        <3>3. [r \in Quads |-> Nil] \in [Quads -> 0 .. len + 1]
            BY <1>1 DEF Nil
        <3>4. <<>> \in Seq(Items) /\ FALSE \in BOOLEAN
            OBVIOUS
        <3>5. new \in NodeOf(len + 1)
            BY <3>1, <3>2, <3>3, <3>4, Zenon DEF NewNode, NodeOf
        <3>6. QED
            BY <3>5 DEF NewNode
    <2>3. /\ M \in NodeOf(len + 1)
          /\ M.items = nodes[n].items /\ M.split = nodes[n].split
          /\ M.bounds = nodes[n].bounds /\ M.depth = nodes[n].depth
          /\ \A r \in Quads : M.quads[r] = IF r = q THEN len + 1
                                           ELSE nodes[n].quads[r]
        <3>1. /\ nodes[n].quads \in [Quads -> 0 .. len]
              /\ [nodes[n].quads EXCEPT ![q] = len + 1] \in [Quads -> 0 .. len + 1]
            BY <1>1, <1>2, SMTT(30) DEF NodeOf
        <3>2. \A x \in [Quads -> 0 .. len + 1] :
                 LET N == [nodes[n] EXCEPT !.quads = x] IN
                 /\ N \in NodeOf(len + 1) /\ N.quads = x
                 /\ N.items = nodes[n].items /\ N.split = nodes[n].split
                 /\ N.bounds = nodes[n].bounds /\ N.depth = nodes[n].depth
            BY <1>1, <1>2 DEF NodeOf
        <3>3. M = [nodes[n] EXCEPT !.quads = [nodes[n].quads EXCEPT ![q] = len + 1]]
            OBVIOUS
        <3> HIDE DEF M
        <3>4. QED
            BY <3>1, <3>2, <3>3, SMTT(30)
    <2>4. T = [nodes EXCEPT ![n] = M]
        OBVIOUS
    <2>5. NodeOf(len) \subseteq NodeOf(len + 1)
        <3>1. [Quads -> 0 .. len] \subseteq [Quads -> 0 .. len + 1]
            BY <1>1
        <3>2. QED
            BY <3>1 DEF NodeOf
    <2> HIDE DEF new, M, T, W, c
    <2>6. \A m \in 1 .. len : nodes[m] \in NodeOf(len + 1)
        BY <1>1, <2>5
    <2>7. /\ T \in Seq(NodeOf(len + 1)) /\ Len(T) = len /\ T[n] = M
          /\ \A m \in 1 .. len : m # n => T[m] = nodes[m]
        BY <1>1, <2>3, <2>4, <2>6
    <2>8. /\ W \in Seq(NodeOf(len + 1)) /\ Len(W) = len + 1
          /\ W[len + 1] = new /\ \A m \in 1 .. len : W[m] = T[m]
        BY <1>1, <2>1, <2>2, <2>7, SMTT(30)
    <2>9. \A m \in Addresses :
             /\ W[m].items = nodes[m].items /\ W[m].split = nodes[m].split
             /\ W[m].bounds = nodes[m].bounds /\ W[m].depth = nodes[m].depth
             /\ \A r \in Quads : W[m].quads[r] = IF m = n /\ r = q THEN c
                                                 ELSE nodes[m].quads[r]
        BY <2>1, <2>3, <2>7, <2>8 DEF Addresses
    <2>10. /\ W \in Seq(NodeOf(Len(W))) /\ Len(W) = len + 1 /\ c = Len(W)
           /\ c \in 1 .. Len(W) /\ W[c] = new
        BY <1>1, <2>1, <2>8
    <2>11. QED
        BY <1>4, <2>2, <2>9, <2>10 DEF W, c
<1>5. QED
    BY <1>3, <1>4

(* The innermost call and the call it returns to. *)
LEMMA TopFrame ==
    ASSUME IInv, stack # <<>>
    PROVE  /\ stack \in Seq(Frame) /\ Len(stack) \in {1, 2}
           /\ top = stack[1] /\ 1 \in DOMAIN stack /\ stack[1] \in Frame
           /\ top.node \in Addresses /\ top.item \in Items
           /\ top.i \in 0 .. QMaxItems /\ top.nitems \in Seq(Items)
           /\ Tail(stack) \in Seq(Frame) /\ Len(Tail(stack)) = Len(stack) - 1
           /\ Len(stack) = 1 => Tail(stack) = <<>>
           /\ Len(stack) = 2 =>
                 /\ Tail(stack)[1] = stack[2] /\ 2 \in DOMAIN stack
                 /\ stack[2].node \in Addresses /\ stack[2].op = "split"
                 /\ top.op = "insert" /\ top.node > stack[2].node
                 /\ \E q \in Quads : nodes[stack[2].node].quads[q] = top.node
                 /\ ~ nodes[top.node].split
                 /\ Len(nodes[top.node].items) < QMaxItems
<1>1. stack \in Seq(Frame) /\ Len(stack) \in {1, 2} /\ top = stack[1]
    <2>1. stack \in Seq(Frame) /\ Len(stack) <= 2
        BY DEF IInv, TypeOK, SplitsDoNotNest
    <2>2. Len(stack) \in Nat /\ Len(stack) # 0
        BY <2>1
    <2>3. Head(stack) = stack[1]
        BY <2>1, <2>2
    <2>4. Len(stack) \in {1, 2}
        <3>1. \A l \in Nat : l # 0 /\ l <= 2 => l \in {1, 2}
            OBVIOUS
        <3>2. QED
            BY <2>1, <2>2, <3>1, Zenon
    <2>5. QED
        BY <2>1, <2>3, <2>4, Zenon DEF top
<1>2. 1 \in DOMAIN stack /\ (Len(stack) = 2 => 2 \in DOMAIN stack)
    BY <1>1
<1>3. Tail(stack) \in Seq(Frame) /\ Len(Tail(stack)) = Len(stack) - 1
      /\ (Len(stack) = 2 => Tail(stack)[1] = stack[2])
    BY <1>1
<1>3a. Len(stack) = 1 => Tail(stack) = <<>>
    <2> SUFFICES ASSUME Len(stack) = 1 PROVE Tail(stack) = <<>>
        OBVIOUS
    <2>1. Len(Tail(stack)) \notin Nat \ {0}
        BY <1>3
    <2>2. \A s \in Seq(Frame) : s # <<>> => Len(s) \in Nat \ {0}
        BY EmptySeq
    <2>3. QED
        BY <1>3, <2>1, <2>2, Zenon
<1>4. TypeOK
    BY DEF IInv
<1>5. ASSUME Len(stack) = 2
      PROVE  /\ stack[2].node \in Addresses /\ stack[2].op = "split"
             /\ top.op = "insert" /\ top.node > stack[2].node
             /\ \E q \in Quads : nodes[stack[2].node].quads[q] = top.node
             /\ ~ nodes[top.node].split
             /\ Len(nodes[top.node].items) < QMaxItems
    <2>1. /\ stack[2].node \in Addresses /\ stack[2].op = "split"
          /\ top.op = "insert" /\ top.node \in Addresses
          /\ stack[2].i \in 0 .. QMaxItems
        BY <1>1, <1>2, <1>4, <1>5, FrameType DEF IInv, SplitsDoNotNest
    <2>2. PICK q \in Quads : nodes[stack[2].node].quads[q] = top.node
        BY <1>1, <1>5 DEF IInv, SplitsDoNotNest
    <2>3. top.node # Nil
        BY <2>1 DEF Addresses, Nil
    <2>4. top.node > stack[2].node
        BY <2>1, <2>2, <2>3 DEF IInv, Ordered
    <2>5. ~ nodes[top.node].split /\ Len(nodes[top.node].items) + 1 <= stack[2].i
        BY <1>1, <1>2, <1>5, <2>1, <2>2, <2>3 DEF IInv, SplitsDoNotNest, SplitState
    <2>6. nodes[top.node].items \in Seq(Items)
        BY <1>4, <2>1, NodeType
    <2>7. Len(nodes[top.node].items) \in Nat
        BY <2>6
    <2>8. QED
        BY <2>1, <2>2, <2>4, <2>5, <2>7, LimitAssumption
<1>6. QED
    BY <1>1, <1>2, <1>3, <1>3a, <1>4, <1>5, FrameType

LEMMA SecondFrame ==
    ASSUME IInv, stack # <<>>, Len(stack) = 2
    PROVE  /\ Tail(stack) \in Seq(Frame) /\ Len(Tail(stack)) = 1
           /\ Tail(stack)[1] = stack[2]
<1>1. stack \in Seq(Frame)
    BY Zenon DEF IInv, TypeOK
<1>2. QED
    BY <1>1

LEMMA AppendItemIInv ==
    ASSUME IInv, Inserting, AppendItem,
           \/ node.depth = QMaxDepth
           \/ node.split
           \/ Len(node.items) # QMaxItems
    PROVE  IInv'
<1> DEFINE n == top.node
           item == top.item
           len == Len(stack)
<1>1. /\ stack # <<>> /\ top.op = "insert" /\ stack' = Tail(stack)
      /\ series' = series /\ next' = next /\ TypeOK /\ node = nodes[n]
      /\ nodes' = [nodes EXCEPT ![n].items = Append(@, item)]
    BY DEF Inserting, AppendItem, IInv, node
<1>2. /\ stack \in Seq(Frame) /\ len \in {1, 2} /\ top = stack[1]
      /\ 1 \in DOMAIN stack /\ n \in Addresses /\ item \in Items
      /\ stack' \in Seq(Frame) /\ Len(stack') = len - 1
      /\ len = 2 => /\ stack'[1] = stack[2] /\ 2 \in DOMAIN stack
                    /\ stack[2].node \in Addresses /\ stack[2].op = "split"
                    /\ n > stack[2].node
    BY <1>1, TopFrame
<1> HIDE DEF n, item
<1>3. /\ nodes' \in Seq(NodeOf(Len(nodes))) /\ Len(nodes') = Len(nodes)
      /\ nodes'[n].items = Append(nodes[n].items, item)
      /\ \A m \in Addresses :
            /\ m # n => nodes'[m].items = nodes[m].items
            /\ nodes'[m].split = nodes[m].split /\ nodes'[m].quads = nodes[m].quads
            /\ nodes'[m].bounds = nodes[m].bounds /\ nodes'[m].depth = nodes[m].depth
    <2> DEFINE T == [nodes EXCEPT ![n].items = Append(@, item)]
    <2>1. /\ T \in Seq(NodeOf(Len(nodes))) /\ Len(T) = Len(nodes)
          /\ T[n].items = Append(nodes[n].items, item)
          /\ \A m \in Addresses :
                /\ m # n => T[m].items = nodes[m].items
                /\ T[m].split = nodes[m].split /\ T[m].quads = nodes[m].quads
                /\ T[m].bounds = nodes[m].bounds /\ T[m].depth = nodes[m].depth
        BY <1>1, <1>2, AppendFields, Zenon
    <2>2. nodes' = T
        BY <1>1, Zenon
    <2> HIDE DEF T
    <2>3. QED
        BY <2>1, <2>2
<1>4. Addresses' = Addresses /\ Items' = Items /\ Node' = Node /\ Frame' = Frame
    BY <1>1, <1>3, Zenon DEF Addresses, Items, Node, Frame
<1>5. \A m \in Addresses : nodes[m].items \in Seq(Items) /\ m \in Nat
    BY <1>1, NodeType DEF Addresses
<1>5a. /\ Len(nodes'[n].items) = Len(nodes[n].items) + 1
       /\ Len(nodes[n].items) \in Nat
       /\ \A k \in DOMAIN nodes[n].items : nodes'[n].items[k] = nodes[n].items[k]
       /\ \A k \in DOMAIN nodes'[n].items :
             k \notin DOMAIN nodes[n].items => nodes'[n].items[k] = item
    <2>1. nodes[n].items \in Seq(Items) /\ item \in Items
        BY <1>2, <1>5
    <2>2. QED
        BY <1>3, <2>1, AppendAt
<1>6. TypeOK'
    <2>1. nodes' \in Seq(Node')
        BY <1>3, <1>4 DEF Node, NodeOf
    <2>2. nodes' # <<>>
        BY <1>2, <1>3 DEF Addresses
    <2>3. QED
        BY <1>1, <1>2, <1>4, <2>1, <2>2 DEF TypeOK
<1>7. DOMAIN stack' = 1 .. len - 1
    BY <1>2
<1>8. \A f \in DOMAIN stack' : len = 2 /\ f = 1 /\ stack'[f] = stack[2]
    BY <1>2, <1>7
<1>9. WithinBounds'
    <2>1. ASSUME NEW m \in Addresses, NEW k \in DOMAIN nodes'[m].items
          PROVE  RectContainsRect(nodes'[m].bounds,
                                  SegmentRectAt(series, nodes'[m].items[k]))
        <3>1. CASE m # n
            BY <1>3, <2>1, <3>1 DEF IInv, WithinBounds
        <3>2. CASE m = n /\ k \in DOMAIN nodes[n].items
            <4>1. nodes'[m].items[k] = nodes[n].items[k]
                BY <1>5a, <3>2
            <4>2. QED
                BY <1>2, <1>3, <3>2, <4>1 DEF IInv, WithinBounds
        <3>3. CASE m = n /\ k \notin DOMAIN nodes[n].items
            <4>1. nodes'[m].items[k] = item
                BY <1>5a, <2>1, <3>3
            <4>2. RectContainsRect(nodes[n].bounds, SegmentRectAt(series, item))
                BY <1>2 DEF IInv, WithinBounds, n, item
            <4>3. QED
                BY <1>2, <1>3, <3>3, <4>1, <4>2
        <3>4. QED
            BY <3>1, <3>2, <3>3
    <2>2. ASSUME NEW m \in Addresses, NEW q \in Quads, nodes'[m].quads[q] # Nil
          PROVE  nodes'[nodes'[m].quads[q]].bounds = QuadBounds(nodes'[m].bounds, q)
        <3>1. nodes[m].quads[q] \in Addresses
            BY <1>1, <1>3, <2>2, NodeType DEF Addresses, Nil
        <3>2. QED
            BY <1>3, <2>2, <3>1 DEF IInv, WithinBounds
    <2>3. ASSUME NEW f \in DOMAIN stack'
          PROVE  RectContainsRect(nodes'[stack'[f].node].bounds,
                                  SegmentRectAt(series, stack'[f].item))
        BY <1>2, <1>3, <1>8, <2>3 DEF IInv, WithinBounds
    <2>4. QED
        BY <1>1, <1>4, <2>1, <2>2, <2>3 DEF WithinBounds
<1>10. LeavesFit'
    <2> SUFFICES ASSUME NEW m \in Addresses,
                        ~ nodes'[m].split, nodes'[m].depth # QMaxDepth
                 PROVE  Len(nodes'[m].items) <= QMaxItems
        BY <1>4 DEF LeavesFit
    <2>1. ~ nodes[m].split /\ nodes[m].depth # QMaxDepth
          /\ Len(nodes[m].items) <= QMaxItems
        BY <1>3 DEF IInv, LeavesFit
    <2>2. CASE m # n
        BY <1>3, <2>1, <2>2
    <2>3. CASE m = n
        <3>1. Len(nodes[n].items) # QMaxItems
            BY <1>1, <2>1, <2>3
        <3>2. QED
            BY <1>5a, <2>1, <2>3, <3>1, LimitAssumption
    <2>4. QED
        BY <2>2, <2>3
<1>11. SplitsDoNotNest'
    <2>1. ASSUME len = 2
          PROVE  SplitState(stack[1], Nil)'
        <3> DEFINE s == stack[2].node
        <3>1. /\ s \in Addresses /\ s # n
              /\ SplitState(stack[2], n) /\ stack'[1] = stack[2]
            BY <1>2, <1>5, <2>1 DEF IInv, SplitsDoNotNest, n
        <3>2. /\ ~ nodes'[s].split /\ nodes'[s].depth # QMaxDepth
              /\ Len(nodes'[s].items) = QMaxItems
            BY <1>3, <3>1 DEF SplitState
        <3>3. ASSUME NEW q \in Quads, nodes'[s].quads[q] # Nil
              PROVE  LET c == nodes'[s].quads[q] IN
                     /\ ~ nodes'[c].split
                     /\ Len(nodes'[c].items) + 0 <= stack[2].i
            <4> DEFINE c == nodes[s].quads[q]
            <4>1. nodes'[s].quads[q] = c /\ c # Nil /\ c \in Addresses
                BY <1>1, <1>3, <3>1, <3>3, NodeType DEF Addresses, Nil
            <4>2. /\ ~ nodes[c].split
                  /\ Len(nodes[c].items) + (IF c = n THEN 1 ELSE 0) <= stack[2].i
                BY <3>1, <4>1 DEF SplitState
            <4>3. Len(nodes[c].items) \in Nat
                <5>1. nodes[c].items \in Seq(Items)
                    BY <1>5, <4>1, Zenon
                <5>2. QED
                    BY <5>1, LenProperties, Zenon
            <4>4. Len(nodes'[c].items) = Len(nodes[c].items) + (IF c = n THEN 1 ELSE 0)
                <5>1. c = n => Len(nodes'[c].items) = Len(nodes[c].items) + 1
                    BY <1>5a
                <5>2. c # n => nodes'[c].items = nodes[c].items
                    BY <1>3, <4>1
                <5>3. \A l \in Nat : l = l + 0
                    OBVIOUS
                <5>4. CASE c = n
                    BY <5>1, <5>4, Zenon
                <5>5. CASE c # n
                    BY <4>3, <5>2, <5>3, <5>5, Zenon
                <5>6. QED
                    BY <5>4, <5>5
            <4>5. ~ nodes'[c].split
                BY <1>3, <4>1, <4>2
            <4> HIDE DEF c
            <4>6. Len(nodes'[c].items) + 0 <= stack[2].i
                <5>1. Len(nodes[c].items) + (IF c = n THEN 1 ELSE 0) \in Nat
                    <6>1. \A l \in Nat : l + 0 \in Nat /\ l + 1 \in Nat
                        OBVIOUS
                    <6>2. QED
                        BY <4>3, <6>1, Zenon
                <5>2. \A l \in Nat : l = l + 0
                    OBVIOUS
                <5>3. QED
                    BY <4>2, <4>4, <5>1, <5>2, Zenon
            <4>7. QED
                BY <4>1, <4>5, <4>6
        <3>4. QED
            BY <3>1, <3>2, <3>3 DEF SplitState
    <2>2. Len(stack') <= 2 /\ Len(stack') # 2
        BY <1>2
    <2>3. QED
        BY <1>2, <2>1, <2>2, SMTT(30) DEF SplitsDoNotNest
<1>12. Ordered'
    <2> SUFFICES ASSUME NEW m \in Addresses, NEW q \in Quads,
                        nodes'[m].quads[q] # Nil
                 PROVE  /\ nodes'[m].quads[q] > m
                        /\ nodes'[m].split \/ UnderSplit(m)'
        BY <1>4 DEF Ordered
    <2>1. nodes[m].quads[q] > m /\ (nodes[m].split \/ UnderSplit(m))
        BY <1>3 DEF IInv, Ordered
    <2>2. UnderSplit(m) => UnderSplit(m)'
        BY <1>1, <1>2 DEF UnderSplit
    <2>3. QED
        BY <1>3, <2>1, <2>2
<1>13. KeptWithin'
    BY <1>1, <1>2, <1>3, <1>8 DEF IInv, KeptWithin
<1>14. nodes'[Root].bounds = series.rect /\ Root \in Addresses
    <2>1. Root \in Addresses
        BY DEF IInv, TypeOK, Root, Addresses
    <2>2. QED
        BY <1>3, <2>1 DEF IInv
<1>15. QED
    BY <1>1, <1>4, <1>6, <1>9, <1>10, <1>11, <1>12, <1>13, <1>14 DEF IInv, Root

-----------------------------------------------------------------------------
(* The calls that make another call. *)

FrameOf(A) == [op : {"insert", "split"}, node : A, item : Items,
               i : 0 .. QMaxItems, nitems : Seq(Items)]

LEMMA InsertFrame ==
    ASSUME NEW A, NEW n \in A, NEW item \in Items
    PROVE  LET F == Insert(n, item) IN
           /\ F \in FrameOf(A) /\ F.op = "insert" /\ F.node = n /\ F.item = item
           /\ F.i = 0 /\ F.nitems = <<>>
<1>1. 0 \in 0 .. QMaxItems /\ <<>> \in Seq(Items)
    BY LimitAssumption
<1>2. Insert(n, item) \in FrameOf(A)
    BY <1>1 DEF Insert, FrameOf
<1>3. QED
    BY <1>2 DEF Insert

(* A single call in progress whose node has not changed since: what is     *)
(* left to prove is what the call itself promises.                         *)
LEMMA OneFrame ==
    ASSUME IInv, NEW F \in Frame, stack' = <<F>>, UNCHANGED <<series, nodes>>,
           next' \in 0 .. NumSegments(series),
           stack # <<>> => Len(stack) = 1,
           RectContainsRect(nodes[F.node].bounds, SegmentRectAt(series, F.item)),
           \A k \in DOMAIN F.nitems :
              RectContainsRect(nodes[F.node].bounds,
                               SegmentRectAt(series, F.nitems[k])),
           F.op = "split" => SplitState(F, Nil),
           (stack # <<>> /\ stack[1].op = "split")
              => F.op = "split" /\ F.node = stack[1].node
    PROVE  IInv'
<1>1. /\ series' = series /\ nodes' = nodes
      /\ Len(stack') = 1 /\ stack'[1] = F /\ DOMAIN stack' = {1}
    OBVIOUS
<1>2. Addresses' = Addresses /\ Items' = Items /\ Node' = Node /\ Frame' = Frame
    BY <1>1 DEF Addresses, Items, Node, Frame
<1>3. stack' \in Seq(Frame)
    OBVIOUS
<1>4. TypeOK'
    BY <1>1, <1>2, <1>3 DEF IInv, TypeOK
<1>5. WithinBounds'
    BY <1>1, <1>2 DEF IInv, WithinBounds
<1>6. LeavesFit' /\ KeptWithin'
    BY <1>1, <1>2 DEF IInv, LeavesFit, KeptWithin
<1>7. SplitState(F, Nil) => SplitState(stack[1], Nil)'
    BY <1>1 DEF SplitState
<1>8. SplitsDoNotNest'
    BY <1>1, <1>7 DEF SplitsDoNotNest
<1>9. Ordered'
    <2>1. ASSUME NEW m, UnderSplit(m) PROVE UnderSplit(m)'
        BY <1>1, <2>1 DEF UnderSplit
    <2>2. QED
        BY <1>1, <1>2, <2>1 DEF IInv, Ordered
<1>10. QED
    BY <1>1, <1>2, <1>4, <1>5, <1>6, <1>8, <1>9 DEF IInv, Root

LEMMA InsertNextIInv ==
    ASSUME IInv, InsertNext
    PROVE  IInv'
<1>1. /\ series \in SeriesType /\ next \in 0 .. NumSegments(series)
      /\ Root \in Addresses
    BY DEF IInv, TypeOK, SeriesType, Root, Addresses
<1>2. NumSegments(series) \in Nat
    BY <1>1, NumSegmentsNat
<1>3. next \in Items /\ next' \in 0 .. NumSegments(series)
    BY <1>1, <1>2 DEF InsertNext, Items
<1> DEFINE F == Insert(Root, next)
<1>4. /\ F \in Frame /\ F.op = "insert" /\ F.node = Root /\ F.item = next
      /\ F.nitems = <<>>
    BY <1>1, <1>3, InsertFrame DEF Frame, FrameOf
<1>5. stack = <<>> /\ stack' = <<F>> /\ UNCHANGED <<series, nodes>>
    BY DEF InsertNext
<1>6. RectContainsRect(nodes[F.node].bounds, SegmentRectAt(series, F.item))
    BY <1>3, <1>4 DEF IInv
<1> HIDE DEF F
<1>7. QED
    BY <1>3, <1>4, <1>5, <1>6, OneFrame

LEMMA BeginSplitIInv ==
    ASSUME IInv, BeginSplit
    PROVE  IInv'
<1> DEFINE F == [top EXCEPT !.op = "split"]
<1>1. /\ stack # <<>> /\ top.op = "insert" /\ nodes[top.node].depth # QMaxDepth
      /\ ~ nodes[top.node].split /\ Len(nodes[top.node].items) = QMaxItems
      /\ stack' = <<F>> \o Tail(stack) /\ UNCHANGED <<series, nodes>>
      /\ next' = next
    BY DEF BeginSplit, Inserting, node, Call
<1>2. /\ Len(stack) = 1 /\ top = stack[1] /\ top \in Frame /\ 1 \in DOMAIN stack
      /\ Tail(stack) \in Seq(Frame) /\ Len(Tail(stack)) = 0
      /\ top.node \in Addresses
    BY <1>1, TopFrame, LimitAssumption
<1>3. /\ F \in Frame /\ F.op = "split" /\ F.node = top.node
      /\ F.item = top.item /\ F.nitems = top.nitems /\ F.i = top.i
    BY <1>2 DEF Frame
<1>4. \A q \in Quads : nodes[top.node].quads[q] = Nil
    BY <1>1, <1>2 DEF IInv, Ordered, UnderSplit
<1>5. SplitState(F, Nil)
    BY <1>1, <1>3, <1>4 DEF SplitState
<1>6. RectContainsRect(nodes[F.node].bounds, SegmentRectAt(series, F.item))
    BY <1>2, <1>3 DEF IInv, WithinBounds
<1>7. \A k \in DOMAIN F.nitems :
         RectContainsRect(nodes[F.node].bounds, SegmentRectAt(series, F.nitems[k]))
    BY <1>2, <1>3 DEF IInv, KeptWithin
<1> HIDE DEF F
<1>8. stack' = <<F>>
    <2>1. Tail(stack) = <<>>
        BY <1>1, <1>2, TopFrame
    <2>2. <<F>> \o <<>> = <<F>>
        OBVIOUS
    <2>3. QED
        BY <1>1, <2>1, <2>2
<1>9. next' \in 0 .. NumSegments(series)
    BY <1>1 DEF IInv, TypeOK
<1>10. QED
    BY <1>1, <1>2, <1>3, <1>5, <1>6, <1>7, <1>8, <1>9, OneFrame

LEMMA SplitKeepIInv ==
    ASSUME IInv, SplitKeep
    PROVE  IInv'
<1> DEFINE iitem == node.items[top.i + 1]
           F == [top EXCEPT !.i = @ + 1, !.nitems = Append(@, iitem)]
<1>1. /\ stack # <<>> /\ top.op = "split" /\ top.i < Len(nodes[top.node].items)
      /\ stack' = <<F>> \o Tail(stack) /\ UNCHANGED <<series, nodes>>
      /\ next' = next /\ iitem = nodes[top.node].items[top.i + 1] /\ TypeOK
    BY DEF SplitKeep, Splitting, node, Call, IInv
<1> HIDE DEF iitem
<1>2. /\ Len(stack) = 1 /\ top = stack[1] /\ top \in Frame /\ 1 \in DOMAIN stack
      /\ Tail(stack) = <<>> /\ top.node \in Addresses
      /\ top.i \in 0 .. QMaxItems /\ top.nitems \in Seq(Items)
    BY <1>1, TopFrame
<1>3. SplitState(top, Nil) /\ Len(nodes[top.node].items) = QMaxItems
    BY <1>1, <1>2 DEF IInv, SplitsDoNotNest, SplitState
<1>4. nodes[top.node].items \in Seq(Items)
    BY <1>1, <1>2, NodeType
<1>5. top.i + 1 \in DOMAIN nodes[top.node].items /\ top.i + 1 \in 0 .. QMaxItems
    BY <1>1, <1>2, <1>3, <1>4, LimitAssumption
<1>6. iitem \in Items
    BY <1>1, <1>4, <1>5
<1>7. Append(top.nitems, iitem) \in Seq(Items)
    BY <1>2, <1>6
<1>8. /\ F \in Frame /\ F.op = "split" /\ F.node = top.node
      /\ F.item = top.item /\ F.i = top.i + 1
      /\ F.nitems = Append(top.nitems, iitem)
    BY <1>1, <1>2, <1>5, <1>7 DEF Frame
<1> HIDE DEF F
<1>9. SplitState(F, Nil)
    <2>1. ASSUME NEW q \in Quads, nodes[top.node].quads[q] # Nil
          PROVE  LET c == nodes[top.node].quads[q] IN
                 /\ ~ nodes[c].split
                 /\ Len(nodes[c].items) + (IF c = Nil THEN 1 ELSE 0) <= top.i + 1
        <3> DEFINE c == nodes[top.node].quads[q]
        <3>1. c \in Addresses /\ c # Nil
            BY <1>1, <1>2, <2>1, NodeType DEF Addresses, Nil
        <3>2. nodes[c].items \in Seq(Items)
            BY <1>1, <3>1, NodeType
        <3>4. ~ nodes[c].split /\ Len(nodes[c].items) + 0 <= top.i
            BY <1>3, <2>1 DEF SplitState
        <3> HIDE DEF c
        <3>3. Len(nodes[c].items) \in Nat
            BY <3>2, LenProperties
        <3>5. \A l \in Nat : l + 0 <= top.i => l + 0 <= top.i + 1
            BY <1>2, LimitAssumption
        <3>6. QED
            BY <3>1, <3>3, <3>4, <3>5, Zenon DEF c
    <2>2. QED
        BY <1>3, <1>8, <2>1 DEF SplitState
<1>10. RectContainsRect(nodes[F.node].bounds, SegmentRectAt(series, F.item))
    BY <1>2, <1>8 DEF IInv, WithinBounds
<1>11. \A k \in DOMAIN F.nitems :
          RectContainsRect(nodes[F.node].bounds, SegmentRectAt(series, F.nitems[k]))
    <2>1. RectContainsRect(nodes[top.node].bounds, SegmentRectAt(series, iitem))
        BY <1>1, <1>2, <1>5 DEF IInv, WithinBounds
    <2>2. \A k \in DOMAIN top.nitems :
             RectContainsRect(nodes[top.node].bounds,
                              SegmentRectAt(series, top.nitems[k]))
        BY <1>2 DEF IInv, KeptWithin
    <2>3. \A k \in DOMAIN F.nitems :
             \/ k \in DOMAIN top.nitems /\ F.nitems[k] = top.nitems[k]
             \/ F.nitems[k] = iitem
        BY <1>2, <1>6, <1>8, AppendAt
    <2>4. QED
        BY <1>8, <2>1, <2>2, <2>3
<1>12. stack' = <<F>>
    <2>1. <<F>> \o <<>> = <<F>>
        OBVIOUS
    <2>2. QED
        BY <1>1, <1>2, <2>1
<1>13. next' \in 0 .. NumSegments(series)
    BY <1>1 DEF IInv, TypeOK
<1>14. QED
    BY <1>1, <1>2, <1>8, <1>9, <1>10, <1>11, <1>12, <1>13, OneFrame

(* The nodes after a quad q of n, at address c, was allocated or found     *)
(* allocated: a grown tree that is still in order.                         *)
Grown(n, q, c) ==
    /\ nodes' \in Seq(Node') /\ nodes' # <<>>
    /\ Addresses \subseteq Addresses' /\ Items' = Items
    /\ c \in Addresses' /\ c > n
    /\ nodes'[c].bounds = QuadBounds(nodes[n].bounds, q)
    /\ nodes[n].quads[q] = Nil => /\ nodes'[c].items = <<>>
                                  /\ ~ nodes'[c].split /\ c \notin Addresses
    /\ nodes[n].quads[q] # Nil => c = nodes[n].quads[q] /\ c \in Addresses
    /\ \A m \in Addresses :
          /\ nodes'[m].items = nodes[m].items
          /\ nodes'[m].split = nodes[m].split
          /\ nodes'[m].bounds = nodes[m].bounds
          /\ nodes'[m].depth = nodes[m].depth
          /\ \A r \in Quads :
                nodes'[m].quads[r] = IF m = n /\ r = q THEN c
                                     ELSE nodes[m].quads[r]
    /\ \A m \in Addresses' :
          /\ \A k \in DOMAIN nodes'[m].items :
                RectContainsRect(nodes'[m].bounds,
                                 SegmentRectAt(series', nodes'[m].items[k]))
          /\ \A r \in Quads : nodes'[m].quads[r] # Nil =>
                /\ nodes'[nodes'[m].quads[r]].bounds
                      = QuadBounds(nodes'[m].bounds, r)
                /\ nodes'[m].quads[r] > m
                /\ m = n \/ (m \in Addresses /\ nodes[m].quads[r] # Nil)
    /\ LeavesFit'
    /\ nodes'[Root].bounds = series'.rect

LEMMA Grow ==
    ASSUME IInv, NEW n \in Addresses, NEW q \in Quads,
           nodes[n].depth # QMaxDepth,
           nodes' = WithQuad(n, q), series' = series
    PROVE  Grown(n, q, QuadOf(n, q))
<1> DEFINE W == WithQuad(n, q)
           c == QuadOf(n, q)
<1>1. TypeOK /\ Len(nodes) \in Nat /\ n \in 1 .. Len(nodes) /\ nodes' = W
    BY NodeType DEF IInv, Addresses
<1>1a. /\ W \in Seq(NodeOf(Len(W)))
       /\ Len(W) \in {Len(nodes), Len(nodes) + 1}
       /\ c \in 1 .. Len(W)
       /\ \A m \in Addresses :
             /\ W[m].items = nodes[m].items /\ W[m].split = nodes[m].split
             /\ W[m].bounds = nodes[m].bounds
             /\ W[m].depth = nodes[m].depth
             /\ \A r \in Quads :
                   W[m].quads[r] = IF m = n /\ r = q THEN c
                                        ELSE nodes[m].quads[r]
       /\ nodes[n].quads[q] # Nil => W = nodes /\ c = nodes[n].quads[q]
       /\ nodes[n].quads[q] = Nil =>
             /\ Len(W) = Len(nodes) + 1 /\ c = Len(W)
             /\ W[c].items = <<>> /\ W[c].split = FALSE
             /\ W[c].bounds = QuadBounds(nodes[n].bounds, q)
             /\ \A r \in Quads : W[c].quads[r] = Nil
    BY <1>1, WithQuadFields, ZenonT(40)
<1> HIDE DEF W, c
<1>2. /\ nodes' \in Seq(NodeOf(Len(nodes')))
      /\ Len(nodes') \in {Len(nodes), Len(nodes) + 1}
      /\ c \in 1 .. Len(nodes')
      /\ \A m \in Addresses :
            /\ nodes'[m].items = nodes[m].items /\ nodes'[m].split = nodes[m].split
            /\ nodes'[m].bounds = nodes[m].bounds
            /\ nodes'[m].depth = nodes[m].depth
            /\ \A r \in Quads :
                  nodes'[m].quads[r] = IF m = n /\ r = q THEN c
                                       ELSE nodes[m].quads[r]
      /\ nodes[n].quads[q] # Nil => nodes' = nodes /\ c = nodes[n].quads[q]
      /\ nodes[n].quads[q] = Nil =>
            /\ Len(nodes') = Len(nodes) + 1 /\ c = Len(nodes')
            /\ nodes'[c].items = <<>> /\ nodes'[c].split = FALSE
            /\ nodes'[c].bounds = QuadBounds(nodes[n].bounds, q)
            /\ \A r \in Quads : nodes'[c].quads[r] = Nil
    BY <1>1, <1>1a
<1>3. Addresses \subseteq Addresses' /\ Items' = Items /\ Addresses' = 1 .. Len(nodes')
    BY <1>1, <1>2 DEF Addresses, Items
<1>4. nodes' \in Seq(Node')
    BY <1>2, <1>3 DEF Node, NodeOf
<1>5. nodes' # <<>>
    BY <1>1, <1>2
<1>6. c \in Addresses' /\ c # Nil /\ (nodes[n].quads[q] = Nil => c \notin Addresses)
    BY <1>1, <1>2, <1>3 DEF Nil, Addresses
<1>7. c > n /\ nodes'[c].bounds = QuadBounds(nodes[n].bounds, q)
    <2>1. CASE nodes[n].quads[q] = Nil
        BY <1>1, <1>2, <2>1
    <2>2. CASE nodes[n].quads[q] # Nil
        BY <1>2, <2>2 DEF IInv, Ordered, WithinBounds
    <2>3. QED
        BY <2>1, <2>2
<1>8. \A m \in Addresses' : m \in Addresses \/ (m = c /\ nodes[n].quads[q] = Nil)
    BY <1>1, <1>2, <1>3 DEF Addresses
<1>9. ASSUME NEW m \in Addresses', NEW r \in Quads, nodes'[m].quads[r] # Nil
      PROVE  /\ nodes'[nodes'[m].quads[r]].bounds = QuadBounds(nodes'[m].bounds, r)
             /\ nodes'[m].quads[r] > m
             /\ m = n \/ (m \in Addresses /\ nodes[m].quads[r] # Nil)
    <2>1. m \in Addresses
        BY <1>2, <1>8, <1>9
    <2>2. CASE m = n /\ r = q
        BY <1>2, <1>7, <2>1, <2>2
    <2>3. CASE ~ (m = n /\ r = q)
        <3>1. nodes'[m].quads[r] = nodes[m].quads[r]
            BY <1>2, <2>1, <2>3
        <3>2. nodes[m].quads[r] \in Addresses
            BY <1>1, <1>9, <2>1, <3>1, NodeType DEF Addresses, Nil
        <3>3. QED
            BY <1>2, <1>9, <2>1, <3>1, <3>2 DEF IInv, WithinBounds, Ordered
    <2>4. QED
        BY <2>2, <2>3
<1>10. ASSUME NEW m \in Addresses', NEW k \in DOMAIN nodes'[m].items
       PROVE  RectContainsRect(nodes'[m].bounds,
                               SegmentRectAt(series', nodes'[m].items[k]))
    <2>1. CASE m \in Addresses
        BY <1>2, <1>10, <2>1 DEF IInv, WithinBounds
    <2>2. CASE m = c /\ nodes[n].quads[q] = Nil
        BY <1>2, <1>10, <2>2
    <2>3. QED
        BY <1>8, <2>1, <2>2
<1>11. LeavesFit'
    <2> SUFFICES ASSUME NEW m \in Addresses', ~ nodes'[m].split,
                        nodes'[m].depth # QMaxDepth
                 PROVE  Len(nodes'[m].items) <= QMaxItems
        BY DEF LeavesFit
    <2>1. CASE m \in Addresses
        BY <1>2, <2>1 DEF IInv, LeavesFit
    <2>2. CASE m = c /\ nodes[n].quads[q] = Nil
        BY <1>2, <2>2, LimitAssumption
    <2>3. QED
        BY <1>8, <2>1, <2>2
<1>12. nodes'[Root].bounds = series'.rect
    <2>1. Root \in Addresses
        BY <1>1 DEF Root, Addresses
    <2>2. QED
        BY <1>2, <2>1 DEF IInv
<1>13. nodes[n].quads[q] # Nil => c \in Addresses
    BY <1>2, <1>3, <1>6 DEF Addresses
<1>14. QED
    BY <1>2, <1>3, <1>4, <1>5, <1>6, <1>7, <1>9, <1>10, <1>11, <1>12, <1>13 DEF c, Grown

(* A segment inside a node's bounds lies inside the quad chosen for it.    *)
LEMMA ItemQuad ==
    ASSUME TypeOK, NEW n \in Addresses, NEW item \in Items, NEW q,
           RectContainsRect(nodes[n].bounds, SegmentRectAt(series, item)),
           q = ChooseQuad(nodes[n].bounds, SegmentRectAt(series, item)), q # -1
    PROVE  /\ q \in Quads
           /\ RectContainsRect(QuadBounds(nodes[n].bounds, q),
                               SegmentRectAt(series, item))
<1>1. nodes[n].bounds \in Rect
    BY NodeType
<1>2. SegmentRectAt(series, item) \in Rect
    BY SegmentRectType DEF TypeOK, SeriesType, Items
<1>3. QED
    BY <1>1, <1>2, QuadHolds, ChooseQuadRange

LEMMA IntoQuadIInv ==
    ASSUME IInv, IntoQuad
    PROVE  IInv'
<1>0. PICK n, q, c : n = top.node /\ q = Quad(top.item) /\ c = QuadOf(n, q)
    BY Zenon
<1> DEFINE F == Insert(c, top.item)
<1>1. /\ stack # <<>> /\ top.op = "insert" /\ nodes[n].depth # QMaxDepth
      /\ nodes[n].split /\ q # -1 /\ nodes' = WithQuad(n, q)
      /\ stack' = <<F>> \o Tail(stack) /\ series' = series /\ next' = next
      /\ q = ChooseQuad(nodes[n].bounds, SegmentRectAt(series, top.item))
      /\ TypeOK
    BY <1>0 DEF IntoQuad, Inserting, node, Call, Quad, IInv
<1>2. /\ Len(stack) = 1 /\ top = stack[1] /\ 1 \in DOMAIN stack
      /\ Tail(stack) = <<>> /\ n \in Addresses /\ top.item \in Items
    BY <1>0, <1>1, TopFrame
<1>3. RectContainsRect(nodes[n].bounds, SegmentRectAt(series, top.item))
    BY <1>0, <1>2 DEF IInv, WithinBounds
<1>4. q \in Quads /\ RectContainsRect(QuadBounds(nodes[n].bounds, q),
                                     SegmentRectAt(series, top.item))
    BY <1>1, <1>2, <1>3, ItemQuad
<1>5. /\ nodes' \in Seq(Node') /\ nodes' # <<>>
      /\ Addresses \subseteq Addresses' /\ Items' = Items /\ c \in Addresses'
      /\ nodes'[c].bounds = QuadBounds(nodes[n].bounds, q)
      /\ \A m \in Addresses : nodes'[m].split = nodes[m].split
      /\ \A m \in Addresses' :
            /\ \A k \in DOMAIN nodes'[m].items :
                  RectContainsRect(nodes'[m].bounds,
                                   SegmentRectAt(series', nodes'[m].items[k]))
            /\ \A r \in Quads : nodes'[m].quads[r] # Nil =>
                  /\ nodes'[nodes'[m].quads[r]].bounds = QuadBounds(nodes'[m].bounds, r)
                  /\ nodes'[m].quads[r] > m
                  /\ m = n \/ (m \in Addresses /\ nodes[m].quads[r] # Nil)
      /\ LeavesFit' /\ nodes'[Root].bounds = series'.rect
    <2>1. Grown(n, q, c)
        BY <1>0, <1>1, <1>2, <1>4, Grow
    <2>2. QED
        BY <2>1 DEF Grown
<1>6. /\ F \in FrameOf(Addresses') /\ F.op = "insert" /\ F.node = c
      /\ F.item = top.item /\ F.nitems = <<>>
    BY <1>2, <1>5, InsertFrame
<1>7. Frame' = FrameOf(Addresses')
    BY <1>5 DEF Frame, FrameOf
<1> HIDE DEF F
<1>8. stack' = <<F>>
    <2>1. <<F>> \o <<>> = <<F>>
        OBVIOUS
    <2>2. QED
        BY <1>1, <1>2, <2>1
<1>9. stack' \in Seq(Frame') /\ DOMAIN stack' = {1} /\ stack'[1] = F /\ Len(stack') = 1
    BY <1>6, <1>7, <1>8
<1>10. TypeOK'
    BY <1>1, <1>5, <1>9 DEF TypeOK
<1>11. WithinBounds'
    <2>1. RectContainsRect(nodes'[F.node].bounds, SegmentRectAt(series', F.item))
        BY <1>1, <1>4, <1>5, <1>6
    <2>2. QED
        BY <1>5, <1>9, <2>1, SMTT(30) DEF WithinBounds
<1>12. KeptWithin' /\ SplitsDoNotNest'
    BY <1>6, <1>9 DEF KeptWithin, SplitsDoNotNest
<1>13. Ordered'
    <2>1. \A m : ~ UnderSplit(m)
        BY <1>1, <1>2, SMTT(30) DEF UnderSplit
    <2>2. ASSUME NEW m \in Addresses', NEW r \in Quads, nodes'[m].quads[r] # Nil
          PROVE  nodes'[m].split
        <3>1. m = n \/ (m \in Addresses /\ nodes[m].quads[r] # Nil)
            BY <1>5, <2>2, Zenon
        <3>2. m \in Addresses /\ nodes[m].split
            <4>1. Ordered
                BY DEF IInv
            <4>2. CASE m = n
                BY <1>1, <1>2, <4>2
            <4>3. CASE m \in Addresses /\ nodes[m].quads[r] # Nil
                BY <2>1, <4>1, <4>3, Zenon DEF Ordered
            <4>4. QED
                BY <3>1, <4>2, <4>3, Zenon
        <3>3. QED
            BY <1>5, <3>2, Zenon
    <2>3. QED
        BY <1>5, <2>2, SMTT(30) DEF Ordered
<1>14. \A k \in Items' : RectContainsRect(series'.rect, SegmentRectAt(series', k))
    BY <1>1, <1>5 DEF IInv
<1>15. QED
    BY <1>5, <1>10, <1>11, <1>12, <1>13, <1>14 DEF IInv, Root

LEMMA SplitHandDownIInv ==
    ASSUME IInv, SplitHandDown
    PROVE  IInv'
<1>0. PICK n, iitem, q, c :
          /\ n = top.node /\ iitem = node.items[top.i + 1]
          /\ q = Quad(iitem) /\ c = QuadOf(n, q)
    BY Zenon
<1> DEFINE F == Insert(c, iitem)
           G == [top EXCEPT !.i = @ + 1]
<1>1. /\ stack # <<>> /\ top.op = "split" /\ top.i < Len(nodes[n].items)
      /\ q # -1 /\ nodes' = WithQuad(n, q)
      /\ stack' = <<F, G>> \o Tail(stack) /\ series' = series /\ next' = next
      /\ iitem = nodes[n].items[top.i + 1] /\ TypeOK
      /\ q = ChooseQuad(nodes[n].bounds, SegmentRectAt(series, iitem))
    BY <1>0, Zenon DEF SplitHandDown, Splitting, node, Call, Quad, IInv
<1>2. /\ Len(stack) = 1 /\ top = stack[1] /\ top \in Frame /\ 1 \in DOMAIN stack
      /\ Tail(stack) = <<>> /\ n \in Addresses /\ top.item \in Items
      /\ top.i \in 0 .. QMaxItems /\ top.nitems \in Seq(Items)
    BY <1>0, <1>1, TopFrame
<1>3. /\ SplitState(top, Nil) /\ Len(nodes[n].items) = QMaxItems
      /\ ~ nodes[n].split /\ nodes[n].depth # QMaxDepth
    BY <1>0, <1>1, <1>2, Zenon DEF IInv, SplitsDoNotNest, SplitState
<1>4. nodes[n].items \in Seq(Items)
    BY <1>1, <1>2, NodeType
<1>5. top.i + 1 \in DOMAIN nodes[n].items /\ top.i + 1 \in 0 .. QMaxItems
    BY <1>1, <1>2, <1>3, <1>4, LimitAssumption
<1>6. iitem \in Items
    BY <1>1, <1>4, <1>5
<1>7. /\ q \in Quads
      /\ RectContainsRect(QuadBounds(nodes[n].bounds, q), SegmentRectAt(series, iitem))
    <2>1. RectContainsRect(nodes[n].bounds, SegmentRectAt(series, iitem))
        BY <1>1, <1>2, <1>5 DEF IInv, WithinBounds
    <2>2. QED
        BY <1>1, <1>2, <1>6, <2>1, ItemQuad
<1>8. /\ nodes' \in Seq(Node') /\ nodes' # <<>>
      /\ Addresses \subseteq Addresses' /\ Items' = Items /\ c \in Addresses'
      /\ nodes'[c].bounds = QuadBounds(nodes[n].bounds, q)
      /\ nodes[n].quads[q] = Nil => /\ nodes'[c].items = <<>>
                                    /\ ~ nodes'[c].split /\ c \notin Addresses
      /\ nodes[n].quads[q] # Nil => c = nodes[n].quads[q] /\ c \in Addresses
      /\ \A m \in Addresses :
            /\ nodes'[m].items = nodes[m].items /\ nodes'[m].split = nodes[m].split
            /\ nodes'[m].bounds = nodes[m].bounds /\ nodes'[m].depth = nodes[m].depth
            /\ \A r \in Quads :
                  nodes'[m].quads[r] = IF m = n /\ r = q THEN c
                                       ELSE nodes[m].quads[r]
      /\ \A m \in Addresses' :
            /\ \A k \in DOMAIN nodes'[m].items :
                  RectContainsRect(nodes'[m].bounds,
                                   SegmentRectAt(series', nodes'[m].items[k]))
            /\ \A r \in Quads : nodes'[m].quads[r] # Nil =>
                  /\ nodes'[nodes'[m].quads[r]].bounds = QuadBounds(nodes'[m].bounds, r)
                  /\ nodes'[m].quads[r] > m
                  /\ m = n \/ (m \in Addresses /\ nodes[m].quads[r] # Nil)
      /\ LeavesFit' /\ nodes'[Root].bounds = series'.rect
    <2>1. Grown(n, q, c)
        BY <1>0, <1>1, <1>2, <1>3, <1>7, Grow, Zenon
    <2>2. QED
        BY <2>1 DEF Grown
<1>9. /\ F \in FrameOf(Addresses') /\ F.op = "insert" /\ F.node = c
      /\ F.item = iitem /\ F.nitems = <<>>
    BY <1>6, <1>8, InsertFrame
<1>10. /\ G.op = "split" /\ G.node = n /\ G.item = top.item /\ G.i = top.i + 1
       /\ G.nitems = top.nitems /\ G \in FrameOf(Addresses')
    <2>1. top \in FrameOf(Addresses') /\ top \in FrameOf(Addresses)
        BY <1>2, <1>8 DEF Frame, FrameOf
    <2>2. QED
        BY <1>0, <1>1, <1>5, <2>1 DEF FrameOf
<1>11. Frame' = FrameOf(Addresses')
    BY <1>8 DEF Frame, FrameOf
<1> HIDE DEF F, G
<1>12. stack' = <<F, G>>
    <2>1. <<F, G>> \o <<>> = <<F, G>>
        OBVIOUS
    <2>2. QED
        BY <1>1, <1>2, <2>1, Zenon
<1>13. /\ stack' \in Seq(Frame') /\ DOMAIN stack' = {1, 2} /\ Len(stack') = 2
       /\ stack'[1] = F /\ stack'[2] = G
    BY <1>9, <1>10, <1>11, <1>12
<1>14. TypeOK'
    BY <1>1, <1>8, <1>13, Zenon DEF TypeOK
<1>15. RectContainsRect(nodes'[n].bounds, SegmentRectAt(series, top.item))
    BY <1>0, <1>2, <1>8 DEF IInv, WithinBounds
<1>16. WithinBounds'
    <2>1. RectContainsRect(nodes'[F.node].bounds, SegmentRectAt(series', F.item))
        BY <1>1, <1>7, <1>8, <1>9, Zenon
    <2>2. RectContainsRect(nodes'[G.node].bounds, SegmentRectAt(series', G.item))
        BY <1>1, <1>10, <1>15
    <2>3. QED
        BY <1>8, <1>13, <2>1, <2>2 DEF WithinBounds
<1>17. KeptWithin'
    <2>1. \A k \in DOMAIN top.nitems :
             RectContainsRect(nodes[n].bounds, SegmentRectAt(series, top.nitems[k]))
        BY <1>0, <1>2 DEF IInv, KeptWithin
    <2>2. \A k \in DOMAIN G.nitems :
             RectContainsRect(nodes'[G.node].bounds, SegmentRectAt(series', G.nitems[k]))
        BY <1>1, <1>2, <1>8, <1>10, <2>1, Zenon
    <2>3. DOMAIN F.nitems = {}
        BY <1>9
    <2>4. QED
        BY <1>13, <2>2, <2>3 DEF KeptWithin
<1>18. SplitState(stack[2], stack[1].node)'
    <2>1. ASSUME NEW r \in Quads, nodes'[n].quads[r] # Nil
          PROVE  LET d == nodes'[n].quads[r] IN
                 /\ ~ nodes'[d].split
                 /\ Len(nodes'[d].items) + (IF d = c THEN 1 ELSE 0) <= top.i + 1
        <3> DEFINE d == nodes'[n].quads[r]
        <3>1. CASE nodes[n].quads[r] = Nil
            <4>1. r = q /\ d = c
                BY <1>2, <1>8, <2>1, <3>1, SMTT(30)
            <4>2. nodes'[c].items = <<>> /\ ~ nodes'[c].split
                BY <1>8, <3>1, <4>1
            <4>3. 0 + 1 <= top.i + 1 /\ Len(<<>>) = 0
                BY <1>2
            <4>4. QED
                BY <4>1, <4>2, <4>3, Zenon
        <3>2. CASE nodes[n].quads[r] # Nil
            <4>1. d = nodes[n].quads[r]
                BY <1>2, <1>8, <3>2, SMTT(30)
            <4>2. d \in Addresses /\ d # Nil
                <5>1. nodes[n].quads \in [Quads -> 0 .. Len(nodes)] /\ Len(nodes) \in Nat
                    BY <1>1, <1>2, NodeType, Zenon
                <5>2. d \in 0 .. Len(nodes)
                    BY <4>1, <5>1
                <5>3. QED
                    BY <3>2, <4>1, <5>1, <5>2 DEF Addresses, Nil
            <4>3. ~ nodes[d].split /\ Len(nodes[d].items) + 0 <= top.i
                BY <1>0, <1>3, <3>2, <4>1 DEF SplitState
            <4>4. nodes[d].items \in Seq(Items)
                BY <1>1, <4>2, NodeType, Zenon
            <4>5. nodes'[d].items = nodes[d].items /\ nodes'[d].split = nodes[d].split
                BY <1>8, <4>2
            <4> HIDE DEF d
            <4>6. Len(nodes[d].items) \in Nat
                BY <4>4, LenProperties
            <4>7. \A l \in Nat : l + 0 <= top.i => l + 0 <= top.i + 1 /\ l + 1 <= top.i + 1
                BY <1>2, LimitAssumption
            <4>8. QED
                BY <4>3, <4>5, <4>6, <4>7, Zenon DEF d
        <3>3. QED
            BY <3>1, <3>2
    <2>2. /\ ~ nodes'[n].split /\ nodes'[n].depth # QMaxDepth
          /\ Len(nodes'[n].items) = QMaxItems
        BY <1>2, <1>3, <1>8
    <2>3. QED
        BY <1>9, <1>10, <1>13, <2>1, <2>2 DEF SplitState
<1>19. SplitsDoNotNest'
    <2>1. nodes'[n].quads[q] = c
        BY <1>2, <1>7, <1>8
    <2>2. QED
        BY <1>7, <1>9, <1>10, <1>13, <1>18, <2>1 DEF SplitsDoNotNest
<1>20. Ordered'
    <2>1. \A m : UnderSplit(m) => m = n
        BY <1>0, <1>1, <1>2 DEF UnderSplit
    <2>2. UnderSplit(n)'
        <3>1. stack' # <<>> /\ stack'[Len(stack')] = G
            BY <1>13
        <3>2. QED
            BY <1>10, <3>1, Zenon DEF UnderSplit
    <2>3. ASSUME NEW m \in Addresses', NEW r \in Quads, nodes'[m].quads[r] # Nil
          PROVE  nodes'[m].split \/ UnderSplit(m)'
        BY <1>8, <2>1, <2>2, <2>3 DEF IInv, Ordered
    <2>4. QED
        BY <1>8, <2>3 DEF Ordered
<1>21. \A k \in Items' : RectContainsRect(series'.rect, SegmentRectAt(series', k))
    BY <1>1, <1>8, Zenon DEF IInv
<1>22. QED
    BY <1>8, <1>14, <1>16, <1>17, <1>19, <1>20, <1>21 DEF IInv, Root

LEMMA EndSplitFields ==
    ASSUME TypeOK, NEW n \in Addresses, NEW nitems \in Seq(Items)
    PROVE  LET T == [nodes EXCEPT ![n].items = nitems, ![n].split = TRUE] IN
           /\ T \in Seq(NodeOf(Len(nodes))) /\ Len(T) = Len(nodes)
           /\ T[n].items = nitems /\ T[n].split
           /\ \A m \in Addresses :
                 /\ m # n => T[m].items = nodes[m].items /\ T[m].split = nodes[m].split
                 /\ T[m].quads = nodes[m].quads
                 /\ T[m].bounds = nodes[m].bounds /\ T[m].depth = nodes[m].depth
<1> DEFINE M == [nodes[n] EXCEPT !.items = nitems, !.split = TRUE]
           T == [nodes EXCEPT ![n].items = nitems, ![n].split = TRUE]
<1>1. nodes \in Seq(NodeOf(Len(nodes))) /\ n \in 1 .. Len(nodes)
    BY DEF TypeOK, Node, NodeOf, Addresses
<1>2. nodes[n] \in NodeOf(Len(nodes))
    BY <1>1
<1>3. /\ M \in NodeOf(Len(nodes)) /\ M.items = nitems /\ M.split
      /\ M.quads = nodes[n].quads
      /\ M.bounds = nodes[n].bounds /\ M.depth = nodes[n].depth
    BY <1>2 DEF NodeOf
<1>4. T = [nodes EXCEPT ![n] = M]
    BY <1>1
<1> HIDE DEF M, T
<1>5. T \in Seq(NodeOf(Len(nodes))) /\ Len(T) = Len(nodes) /\ T[n] = M
    BY <1>1, <1>3, <1>4
<1>6. \A m \in Addresses : m # n => T[m] = nodes[m]
    BY <1>1, <1>4 DEF Addresses
<1>7. QED
    BY <1>3, <1>5, <1>6 DEF T

LEMMA EndSplitIInv ==
    ASSUME IInv, EndSplit
    PROVE  IInv'
<1>0. PICK n, nitems : n = top.node /\ nitems = top.nitems
    BY Zenon
<1> DEFINE F == Insert(n, top.item)
<1>1. /\ stack # <<>> /\ top.op = "split"
      /\ nodes' = [nodes EXCEPT ![n].items = nitems, ![n].split = TRUE]
      /\ stack' = <<F>> \o Tail(stack) /\ series' = series /\ next' = next /\ TypeOK
    BY <1>0 DEF EndSplit, Splitting, Call, IInv
<1>2. /\ Len(stack) = 1 /\ top = stack[1] /\ 1 \in DOMAIN stack
      /\ Tail(stack) = <<>> /\ n \in Addresses /\ top.item \in Items
      /\ nitems \in Seq(Items)
    BY <1>0, <1>1, TopFrame
<1>3. /\ nodes' \in Seq(NodeOf(Len(nodes))) /\ Len(nodes') = Len(nodes)
      /\ nodes'[n].items = nitems /\ nodes'[n].split
      /\ \A m \in Addresses :
            /\ m # n => /\ nodes'[m].items = nodes[m].items
                        /\ nodes'[m].split = nodes[m].split
            /\ nodes'[m].quads = nodes[m].quads
            /\ nodes'[m].bounds = nodes[m].bounds /\ nodes'[m].depth = nodes[m].depth
    <2> DEFINE T == [nodes EXCEPT ![n].items = nitems, ![n].split = TRUE]
    <2>1. /\ T \in Seq(NodeOf(Len(nodes))) /\ Len(T) = Len(nodes)
          /\ T[n].items = nitems /\ T[n].split
          /\ \A m \in Addresses :
                /\ m # n => T[m].items = nodes[m].items /\ T[m].split = nodes[m].split
                /\ T[m].quads = nodes[m].quads
                /\ T[m].bounds = nodes[m].bounds /\ T[m].depth = nodes[m].depth
        BY <1>1, <1>2, EndSplitFields, ZenonT(60)
    <2>2. nodes' = T
        BY <1>1
    <2> HIDE DEF T
    <2>3. QED
        BY <2>1, <2>2
<1>4. Addresses' = Addresses /\ Items' = Items /\ Node' = Node /\ Frame' = Frame
    BY <1>1, <1>3, Zenon DEF Addresses, Items, Node, Frame
<1>5. /\ F \in Frame /\ F.op = "insert" /\ F.node = n
      /\ F.item = top.item /\ F.nitems = <<>>
    BY <1>2, InsertFrame DEF Frame, FrameOf
<1> HIDE DEF F
<1>6. stack' = <<F>>
    <2>1. <<F>> \o <<>> = <<F>>
        OBVIOUS
    <2>2. QED
        BY <1>1, <1>2, <2>1
<1>7. stack' \in Seq(Frame') /\ DOMAIN stack' = {1} /\ stack'[1] = F /\ Len(stack') = 1
    BY <1>4, <1>5, <1>6
<1>8. TypeOK'
    <2>1. nodes' \in Seq(Node') /\ nodes' # <<>>
        BY <1>2, <1>3, <1>4 DEF Node, NodeOf, Addresses
    <2>2. QED
        BY <1>1, <1>7, <2>1 DEF TypeOK
<1>9. WithinBounds'
    <2>1. ASSUME NEW m \in Addresses, NEW k \in DOMAIN nodes'[m].items
          PROVE  RectContainsRect(nodes'[m].bounds,
                                  SegmentRectAt(series', nodes'[m].items[k]))
        <3>1. CASE m # n
            BY <1>1, <1>3, <2>1, <3>1 DEF IInv, WithinBounds
        <3>2. CASE m = n
            BY <1>0, <1>1, <1>2, <1>3, <2>1, <3>2 DEF IInv, KeptWithin
        <3>3. QED
            BY <3>1, <3>2
    <2>2. ASSUME NEW m \in Addresses, NEW q \in Quads, nodes'[m].quads[q] # Nil
          PROVE  nodes'[nodes'[m].quads[q]].bounds = QuadBounds(nodes'[m].bounds, q)
        <3>1. nodes[m].quads[q] \in Addresses
            BY <1>1, <1>3, <2>2, NodeType DEF Addresses, Nil
        <3>2. QED
            BY <1>3, <2>2, <3>1 DEF IInv, WithinBounds
    <2>3. RectContainsRect(nodes'[F.node].bounds, SegmentRectAt(series', F.item))
        BY <1>0, <1>1, <1>2, <1>3, <1>5 DEF IInv, WithinBounds
    <2>4. QED
        BY <1>4, <1>7, <2>1, <2>2, <2>3 DEF WithinBounds
<1>10. LeavesFit'
    BY <1>3, <1>4 DEF IInv, LeavesFit
<1>11. KeptWithin' /\ SplitsDoNotNest'
    BY <1>5, <1>7 DEF KeptWithin, SplitsDoNotNest
<1>12. Ordered'
    <2>1. \A m : UnderSplit(m) => m = n
        BY <1>0, <1>1, <1>2 DEF UnderSplit
    <2>2. QED
        BY <1>3, <1>4, <2>1 DEF IInv, Ordered
<1>13. nodes'[Root].bounds = series'.rect
    <2>1. Root \in Addresses
        BY <1>2 DEF Root, Addresses
    <2>2. QED
        BY <1>1, <1>3, <2>1, Zenon DEF IInv
<1>14. \A k \in Items' : RectContainsRect(series'.rect, SegmentRectAt(series', k))
    BY <1>1, <1>4 DEF IInv
<1>15. QED
    BY <1>8, <1>9, <1>10, <1>11, <1>12, <1>13, <1>14 DEF IInv, Root

-----------------------------------------------------------------------------
LEMMA StepIInv == IInv /\ [Next]_vars => IInv'
<1> SUFFICES ASSUME IInv, [Next]_vars PROVE IInv'
    OBVIOUS
<1>1. CASE InsertNext
    BY <1>1, InsertNextIInv
<1>2. CASE AtDepthLimit \/ IntoOverflow \/ IntoLeaf
    BY <1>2, AppendItemIInv DEF AtDepthLimit, IntoOverflow, IntoLeaf
<1>3. CASE IntoQuad
    BY <1>3, IntoQuadIInv
<1>4. CASE BeginSplit
    BY <1>4, BeginSplitIInv
<1>5. CASE SplitKeep
    BY <1>5, SplitKeepIInv
<1>6. CASE SplitHandDown
    BY <1>6, SplitHandDownIInv
<1>7. CASE EndSplit
    BY <1>7, EndSplitIInv
<1>8. CASE UNCHANGED vars
    BY <1>8, ZenonT(60) DEF vars, IInv, TypeOK, WithinBounds, LeavesFit, SplitsDoNotNest,
                SplitState, Ordered, UnderSplit, KeptWithin, Addresses, Items,
                Node, Frame
<1>9. QED
    BY <1>1, <1>2, <1>3, <1>4, <1>5, <1>6, <1>7, <1>8 DEF Next

LEMMA IInvAlways == Spec => []IInv
    BY InitIInv, StepIInv, PTL DEF Spec

-----------------------------------------------------------------------------
(* Where a segment is held. *)

Stored(n, k, item) == n \in Addresses /\ k \in StoredAt(n, item)
Kept(d, k, item) == d \in DOMAIN stack /\ k \in KeptAt(d, item)
Carried(d, item) == d \in DOMAIN stack /\ CallAt(d).item = item

LEMMA HolderKinds ==
    ASSUME NEW y
    PROVE  /\ \A n, k : <<"node", n, k>> \in Holders(y) <=> Stored(n, k, y)
           /\ \A d, k : <<"kept", d, k>> \in Holders(y) <=> Kept(d, k, y)
           /\ \A d : <<"call", d, 0>> \in Holders(y) <=> Carried(d, y)
           /\ \A h \in Holders(y) :
                 \E d, k : h \in {<<"node", d, k>>, <<"kept", d, k>>, <<"call", d, 0>>}
<1>1. \A h : h \in Holders(y) <=>
         \/ \E n \in Addresses : \E k \in StoredAt(n, y) : h = <<"node", n, k>>
         \/ \E d \in DOMAIN stack : \E k \in KeptAt(d, y) : h = <<"kept", d, k>>
         \/ \E d \in DOMAIN stack : CallAt(d).item = y /\ h = <<"call", d, 0>>
    <2> DEFINE N == UNION {{<<"node", n, k>> : k \in StoredAt(n, y)} : n \in Addresses}
               K == UNION {{<<"kept", d, k>> : k \in KeptAt(d, y)} : d \in DOMAIN stack}
               C == {<<"call", d, 0>> :
                      d \in {c \in DOMAIN stack : CallAt(c).item = y}}
    <2>1. Holders(y) = N \cup K \cup C
        BY Zenon DEF Holders
    <2>2. \A h : h \in N <=>
             \E n \in Addresses : \E k \in StoredAt(n, y) : h = <<"node", n, k>>
        BY SMT
    <2>3. \A h : h \in K <=>
             \E d \in DOMAIN stack : \E k \in KeptAt(d, y) : h = <<"kept", d, k>>
        BY SMT
    <2>4. \A h : h \in C <=>
             \E d \in DOMAIN stack : CallAt(d).item = y /\ h = <<"call", d, 0>>
        BY Zenon
    <2> HIDE DEF N, K, C
    <2>5. QED
        BY <2>1, <2>2, <2>3, <2>4, Zenon
<1>2. QED
    BY <1>1 DEF Stored, Kept, Carried

LEMMA HolderKindsPrime ==
    ASSUME NEW y
    PROVE  /\ \A n, k : <<"node", n, k>> \in Holders(y)' <=> Stored(n, k, y)'
           /\ \A d, k : <<"kept", d, k>> \in Holders(y)' <=> Kept(d, k, y)'
           /\ \A d : <<"call", d, 0>> \in Holders(y)' <=> Carried(d, y)'
           /\ \A h \in Holders(y)' :
                 \E d, k : h \in {<<"node", d, k>>, <<"kept", d, k>>, <<"call", d, 0>>}
<1>1. \A h : h \in Holders(y)' <=>
         \/ \E n \in Addresses' : \E k \in StoredAt(n, y)' : h = <<"node", n, k>>
         \/ \E d \in DOMAIN stack' : \E k \in KeptAt(d, y)' : h = <<"kept", d, k>>
         \/ \E d \in DOMAIN stack' : CallAt(d)'.item = y /\ h = <<"call", d, 0>>
    <2> DEFINE N == UNION {{<<"node", n, k>> : k \in StoredAt(n, y)'} : n \in Addresses'}
               K == UNION {{<<"kept", d, k>> : k \in KeptAt(d, y)'} : d \in DOMAIN stack'}
               C == {<<"call", d, 0>> :
                      d \in {c \in DOMAIN stack' : CallAt(c)'.item = y}}
    <2>1. Holders(y)' = N \cup K \cup C
        BY Zenon DEF Holders
    <2>2. \A h : h \in N <=>
             \E n \in Addresses' : \E k \in StoredAt(n, y)' : h = <<"node", n, k>>
        BY SMT
    <2>3. \A h : h \in K <=>
             \E d \in DOMAIN stack' : \E k \in KeptAt(d, y)' : h = <<"kept", d, k>>
        BY SMT
    <2>4. \A h : h \in C <=>
             \E d \in DOMAIN stack' : CallAt(d)'.item = y /\ h = <<"call", d, 0>>
        BY Zenon
    <2> HIDE DEF N, K, C
    <2>5. QED
        BY <2>1, <2>2, <2>3, <2>4, Zenon
<1>2. QED
    BY <1>1 DEF Stored, Kept, Carried

LEMMA SameHolders ==
    ASSUME NEW y,
           \A n, k : Stored(n, k, y)' <=> Stored(n, k, y),
           \A d, k : Kept(d, k, y)' <=> Kept(d, k, y),
           \A d : Carried(d, y)' <=> Carried(d, y)
    PROVE  Holders(y)' = Holders(y)
<1>1. ASSUME NEW h \in Holders(y) PROVE h \in Holders(y)'
    BY HolderKinds, HolderKindsPrime
<1>2. ASSUME NEW h \in Holders(y)' PROVE h \in Holders(y)
    BY HolderKinds, HolderKindsPrime
<1>3. QED
    BY <1>1, <1>2, Zenon

(* The places a segment is at after a step, when there is one only. *)
LEMMA OnlyHolder ==
    ASSUME NEW x, NEW a, NEW b
    PROVE  /\ /\ \A n, k : Stored(n, k, x)' <=> n = a /\ k = b
              /\ \A d, k : ~ Kept(d, k, x)'
              /\ \A d : ~ Carried(d, x)'
              => Holders(x)' = {<<"node", a, b>>}
           /\ /\ \A n, k : ~ Stored(n, k, x)'
              /\ \A d, k : Kept(d, k, x)' <=> d = a /\ k = b
              /\ \A d : ~ Carried(d, x)'
              => Holders(x)' = {<<"kept", a, b>>}
           /\ /\ \A n, k : ~ Stored(n, k, x)'
              /\ \A d, k : ~ Kept(d, k, x)'
              /\ \A d : Carried(d, x)' <=> d = a
              => Holders(x)' = {<<"call", a, 0>>}
<1>1. ASSUME NEW H, \A h : h \in Holders(x)' <=> h = H PROVE Holders(x)' = {H}
    BY <1>1, Zenon
<1>2. ASSUME \A n, k : Stored(n, k, x)' <=> n = a /\ k = b,
             \A d, k : ~ Kept(d, k, x)', \A d : ~ Carried(d, x)'
      PROVE  \A h : h \in Holders(x)' <=> h = <<"node", a, b>>
    BY <1>2, HolderKindsPrime
<1>3. ASSUME \A n, k : ~ Stored(n, k, x)',
             \A d, k : Kept(d, k, x)' <=> d = a /\ k = b, \A d : ~ Carried(d, x)'
      PROVE  \A h : h \in Holders(x)' <=> h = <<"kept", a, b>>
    BY <1>3, HolderKindsPrime
<1>4. ASSUME \A n, k : ~ Stored(n, k, x)', \A d, k : ~ Kept(d, k, x)',
             \A d : Carried(d, x)' <=> d = a
      PROVE  \A h : h \in Holders(x)' <=> h = <<"call", a, 0>>
    BY <1>4, HolderKindsPrime
<1>5. QED
    BY <1>1, <1>2, <1>3, <1>4, Zenon

(* The only place a segment is at, seen from each of the three kinds. *)
LEMMA HolderIs ==
    ASSUME NEW x, NEW a, NEW b
    PROVE  /\ Holders(x) = {<<"node", a, b>>} =>
                 /\ \A n, k : Stored(n, k, x) <=> n = a /\ k = b
                 /\ \A d, k : ~ Kept(d, k, x)
                 /\ \A d : ~ Carried(d, x)
           /\ Holders(x) = {<<"kept", a, b>>} =>
                 /\ \A n, k : ~ Stored(n, k, x)
                 /\ \A d, k : Kept(d, k, x) <=> d = a /\ k = b
                 /\ \A d : ~ Carried(d, x)
           /\ Holders(x) = {<<"call", a, 0>>} =>
                 /\ \A n, k : ~ Stored(n, k, x)
                 /\ \A d, k : ~ Kept(d, k, x)
                 /\ \A d : Carried(d, x) <=> d = a
<1>0. /\ \A n, k : (<<"node", n, k>> = <<"node", a, b>>) <=> n = a /\ k = b
      /\ \A n, k : (<<"kept", n, k>> = <<"kept", a, b>>) <=> n = a /\ k = b
      /\ \A n : (<<"call", n, 0>> = <<"call", a, 0>>) <=> n = a
      /\ \A n, k : /\ <<"node", n, k>> # <<"kept", a, b>> /\ <<"node", n, k>> # <<"call", a, 0>>
                   /\ <<"kept", n, k>> # <<"node", a, b>> /\ <<"kept", n, k>> # <<"call", a, 0>>
                   /\ <<"call", n, 0>> # <<"node", a, b>> /\ <<"call", n, 0>> # <<"kept", a, b>>
    OBVIOUS
<1>1. ASSUME Holders(x) = {<<"node", a, b>>}
      PROVE  /\ \A n, k : Stored(n, k, x) <=> n = a /\ k = b
             /\ \A d, k : ~ Kept(d, k, x)
             /\ \A d : ~ Carried(d, x)
    BY <1>1, <1>0, HolderKinds, Zenon
<1>2. ASSUME Holders(x) = {<<"kept", a, b>>}
      PROVE  /\ \A n, k : ~ Stored(n, k, x)
             /\ \A d, k : Kept(d, k, x) <=> d = a /\ k = b
             /\ \A d : ~ Carried(d, x)
    BY <1>2, <1>0, HolderKinds, Zenon
<1>3. ASSUME Holders(x) = {<<"call", a, 0>>}
      PROVE  /\ \A n, k : ~ Stored(n, k, x)
             /\ \A d, k : ~ Kept(d, k, x)
             /\ \A d : Carried(d, x) <=> d = a
    BY <1>3, <1>0, HolderKinds, Zenon
<1>4. QED
    BY <1>1, <1>2, <1>3, Zenon

-----------------------------------------------------------------------------
(* An insert has not begun to split, and what has yet to be inserted is    *)
(* held nowhere.                                                           *)
InsertsFresh ==
    \A f \in DOMAIN stack :
        stack[f].op = "insert" => stack[f].i = 0 /\ stack[f].nitems = <<>>

NoneEarly == \A item \in Items : item >= next => Holders(item) = {}

Once == EachItemOnce /\ InsertsFresh /\ NoneEarly

LEMMA OnceKept ==
    ASSUME TypeOK, Once, UNCHANGED <<series, next>>, InsertsFresh',
           \A y \in Items : Holders(y)' = Holders(y)
    PROVE  Once'
<1>1. next \in Nat /\ NumSegments(series) \in Nat /\ next <= NumSegments(series)
    BY NumSegmentsNat DEF TypeOK, SeriesType
<1>2. Items' = Items /\ 0 .. next - 1 \subseteq Items
    BY <1>1 DEF Items
<1>3. EachItemOnce' /\ NoneEarly'
    BY <1>2, Zenon DEF Once, EachItemOnce, NoneEarly
<1>4. QED
    BY <1>3 DEF Once

(* A step that moves the segment x from one place to another. *)
LEMMA OnceMoved ==
    ASSUME TypeOK, Once, UNCHANGED <<series, next>>, InsertsFresh',
           NEW x \in Items, Holders(x) # {}, NEW h, Holders(x)' = {h},
           \A y \in Items : y # x => Holders(y)' = Holders(y)
    PROVE  Once'
<1>1. next \in Nat /\ NumSegments(series) \in Nat /\ next <= NumSegments(series)
    BY NumSegmentsNat DEF TypeOK, SeriesType
<1>2. Items' = Items /\ 0 .. next - 1 \subseteq Items
    BY <1>1 DEF Items
<1>3. ~ (x >= next)
    BY Zenon DEF Once, NoneEarly
<1>4. EachItemOnce'
    <2>1. ASSUME NEW y \in 0 .. next - 1
          PROVE  \E g \in Holders(y)' : Holders(y)' = {g}
        <3>1. CASE y = x
            BY <3>1, Zenon
        <3>2. CASE y # x
            <4>1. Holders(y)' = Holders(y)
                BY <1>2, <2>1, <3>2
            <4>2. \E g \in Holders(y) : Holders(y) = {g}
                BY <2>1 DEF Once, EachItemOnce
            <4>3. QED
                BY <4>1, <4>2, Zenon
        <3>3. QED
            BY <3>1, <3>2
    <2>2. QED
        BY <2>1, Zenon DEF EachItemOnce
<1>5. NoneEarly'
    BY <1>2, <1>3, Zenon DEF Once, NoneEarly
<1>6. QED
    BY <1>4, <1>5 DEF Once

(* A segment that some place holds is held by no other. *)
LEMMA SoleHolder ==
    ASSUME TypeOK, Once, NEW x \in Items, NEW h \in Holders(x)
    PROVE  Holders(x) = {h}
<1>1. next \in Nat /\ NumSegments(series) \in Nat /\ x \in Nat
    BY NumSegmentsNat DEF TypeOK, SeriesType, Items
<1>2. ~ (x >= next)
    BY Zenon DEF Once, NoneEarly
<1>3. x \in 0 .. next - 1
    BY <1>1, <1>2
<1>4. QED
    BY <1>3, Zenon DEF Once, EachItemOnce

-----------------------------------------------------------------------------
(* What each step does to the places of a segment. *)

LEMMA OneLong ==
    ASSUME NEW S, NEW s \in Seq(S), Len(s) = 1
    PROVE  DOMAIN s = {1} /\ s # <<>>
    OBVIOUS

LEMMA AppendPlaces ==
    ASSUME NEW S, NEW s \in Seq(S), NEW e \in S,
           NEW t, t = Append(s, e), NEW l, l = Len(s)
    PROVE  /\ DOMAIN t = DOMAIN s \cup {l + 1}
           /\ \A k \in DOMAIN s : t[k] = s[k]
           /\ t[l + 1] = e /\ l + 1 \notin DOMAIN s
<1>1. /\ l \in Nat /\ DOMAIN s = 1 .. l /\ DOMAIN t = 1 .. l + 1
      /\ \A k \in 1 .. l : t[k] = s[k]
      /\ t[l + 1] = e
    OBVIOUS
<1>2. 1 .. l + 1 = (1 .. l) \cup {l + 1} /\ l + 1 \notin 1 .. l
    BY <1>1
<1>3. QED
    BY <1>1, <1>2, Zenon

LEMMA Outermost ==
    ASSUME IInv, stack # <<>>
    PROVE  /\ Len(stack) = 1 =>
                 /\ DOMAIN stack = {1} /\ CallAt(1) = top
                 /\ \A m : UnderSplit(m) <=> top.op = "split" /\ top.node = m
           /\ Len(stack) = 2 =>
                 /\ DOMAIN stack = {1, 2}
                 /\ CallAt(1) = stack[2] /\ CallAt(2) = top /\ stack[2].node # top.node
                 /\ \A m : UnderSplit(m) <=> stack[2].node = m
<1>1. /\ stack \in Seq(Frame) /\ Len(stack) \in {1, 2} /\ top = stack[1]
      /\ top.node \in Addresses
      /\ Len(stack) = 2 => /\ stack[2].node \in Addresses /\ stack[2].op = "split"
                           /\ top.node > stack[2].node
    BY TopFrame
<1>2. CASE Len(stack) = 1
    BY <1>1, <1>2 DEF CallAt, UnderSplit
<1>3. CASE Len(stack) = 2
    <2>1. stack[2].node # top.node
        BY <1>1, <1>3 DEF Addresses
    <2>2. DOMAIN stack = {1, 2} /\ Len(stack) + 1 - 1 = 2 /\ Len(stack) + 1 - 2 = 1
        BY <1>1, <1>3
    <2>3. QED
        BY <1>1, <1>3, <2>1, <2>2, Zenon DEF CallAt, UnderSplit
<1>4. QED
    BY <1>1, <1>2, <1>3

LEMMA AppendItemOnce ==
    ASSUME IInv, Once, Inserting, AppendItem
    PROVE  Once'
<1>0. PICK n, x, D, L : n = top.node /\ x = top.item /\ D = Len(stack)
                        /\ L = Len(nodes[n].items)
    BY Zenon
<1>1. /\ stack # <<>> /\ top.op = "insert" /\ stack' = Tail(stack)
      /\ series' = series /\ next' = next /\ TypeOK
      /\ nodes' = [nodes EXCEPT ![n].items = Append(@, x)]
    BY <1>0, Zenon DEF Inserting, AppendItem, IInv
<1>2. /\ stack \in Seq(Frame) /\ D \in {1, 2} /\ top = stack[1] /\ 1 \in DOMAIN stack
      /\ n \in Addresses /\ x \in Items
    BY <1>0, <1>1, TopFrame
<1>3. /\ Len(nodes') = Len(nodes)
      /\ nodes'[n].items = Append(nodes[n].items, x)
      /\ \A m \in Addresses : m # n => nodes'[m].items = nodes[m].items
    <2> DEFINE T == [nodes EXCEPT ![n].items = Append(@, x)]
    <2>0. TypeOK /\ n \in Addresses /\ x \in Items
        BY <1>1, <1>2, Zenon
    <2>1. /\ Len(T) = Len(nodes) /\ T[n].items = Append(nodes[n].items, x)
          /\ \A m \in Addresses : m # n => T[m].items = nodes[m].items
        BY <2>0, AppendFields, Zenon
    <2>2. nodes' = T
        BY <1>1, Zenon
    <2> HIDE DEF T
    <2>3. QED
        BY <2>1, <2>2, Zenon
<1>4. nodes[n].items \in Seq(Items) /\ L \in Nat /\ Addresses' = Addresses
    BY <1>0, <1>1, <1>2, <1>3, NodeType DEF Addresses
<1>5. /\ DOMAIN nodes'[n].items = DOMAIN nodes[n].items \cup {L + 1}
      /\ \A k \in DOMAIN nodes[n].items : nodes'[n].items[k] = nodes[n].items[k]
      /\ nodes'[n].items[L + 1] = x /\ L + 1 \notin DOMAIN nodes[n].items
    <2>1. /\ nodes[n].items \in Seq(Items) /\ x \in Items
          /\ nodes'[n].items = Append(nodes[n].items, x) /\ L = Len(nodes[n].items)
        BY <1>0, <1>2, <1>3, <1>4, Zenon
    <2>2. QED
        BY <2>1, AppendPlaces
<1>6. top.nitems = <<>>
    BY <1>1, <1>2 DEF Once, InsertsFresh
<1>7. /\ D \in DOMAIN stack /\ CallAt(D) = top
      /\ DOMAIN stack' = DOMAIN stack \ {D}
      /\ \A d \in DOMAIN stack' : CallAt(d)' = CallAt(d)
      /\ \A m : UnderSplit(m)' <=> UnderSplit(m)
      /\ ~ UnderSplit(n)
      /\ D = 2 => stack'[1] = stack[2] /\ stack[2].op = "split"
    <2>1. CASE D = 1
        <3>1. stack' = <<>> /\ DOMAIN stack' = {}
            <4>1. Tail(stack) = <<>> /\ DOMAIN <<>> = {}
                BY <1>0, <1>1, <2>1, TopFrame
            <4>2. QED
                BY <1>1, <4>1, Zenon
        <3>2. QED
            BY <1>0, <1>1, <2>1, <3>1, Outermost DEF UnderSplit
    <2>2. CASE D = 2
        <3>1. /\ DOMAIN stack' = {1} /\ stack'[1] = stack[2] /\ Len(stack') = 1
              /\ stack' # <<>>
            <4>0. stack # <<>> /\ Len(stack) = 2
                BY <1>0, <1>1, <2>2
            <4>1. /\ Tail(stack) \in Seq(Frame) /\ Len(Tail(stack)) = 1
                  /\ Tail(stack)[1] = stack[2]
                BY <4>0, SecondFrame, Zenon
            <4>2. DOMAIN Tail(stack) = {1} /\ Tail(stack) # <<>>
                BY <4>1, OneLong, Zenon
            <4>3. QED
                BY <1>1, <4>1, <4>2, Zenon
        <3>2. stack[2].op = "split"
            BY <1>0, <1>1, <2>2, TopFrame
        <3>3. CallAt(1)' = stack'[1]
            BY <3>1 DEF CallAt
        <3>4. \A m : UnderSplit(m)' <=> stack[2].node = m
            BY <3>1, <3>2, Zenon DEF UnderSplit
        <3>5. /\ DOMAIN stack = {1, 2} /\ CallAt(1) = stack[2] /\ CallAt(2) = top
              /\ stack[2].node # n /\ \A m : UnderSplit(m) <=> stack[2].node = m
            BY <1>0, <1>1, <2>2, Outermost, Zenon
        <3>6. {1} = {1, 2} \ {2} /\ 2 \in {1, 2}
            OBVIOUS
        <3>7. \A d \in DOMAIN stack' : CallAt(d)' = CallAt(d)
            BY <3>1, <3>3, <3>5
        <3>8. QED
            BY <2>2, <3>1, <3>2, <3>4, <3>5, <3>6, <3>7, Zenon
    <2>3. QED
        BY <1>2, <2>1, <2>2
<1>8. \A d \in DOMAIN stack' : d = 1 /\ D = 2
    BY <1>0, <1>2, <1>7
<1>9. ASSUME NEW m, NEW k, NEW y
      PROVE  Stored(m, k, y)' <=> Stored(m, k, y) \/ (m = n /\ k = L + 1 /\ y = x)
    <2>1. UnderSplit(m) => 1 \in DOMAIN stack' /\ CallAt(1)' = CallAt(1)
        <3>1. UnderSplit(m) => D = 2
            BY <1>0, <1>1, <1>2, Outermost
        <3>2. D = 2 => 1 \in DOMAIN stack'
            BY <1>0, <1>2, <1>7
        <3>3. QED
            BY <1>7, <3>1, <3>2
    <2>2. CASE m # n
        BY <1>3, <1>4, <1>7, <2>1, <2>2, Zenon DEF Stored, StoredAt
    <2>3. CASE m = n
        BY <1>2, <1>4, <1>5, <1>7, <2>3, Zenon DEF Stored, StoredAt
    <2>4. QED
        BY <2>2, <2>3
<1>10. ASSUME NEW d, NEW k, NEW y PROVE Kept(d, k, y)' <=> Kept(d, k, y)
    <2>1. DOMAIN <<>> = {}
        OBVIOUS
    <2>2. QED
        BY <1>6, <1>7, <2>1, Zenon DEF Kept, KeptAt
<1>11. ASSUME NEW d, NEW y PROVE Carried(d, y)' <=> Carried(d, y) /\ d # D
    BY <1>7, Zenon DEF Carried
<1>12. \A y : Carried(D, y) <=> y = x
    BY <1>0, <1>7, Zenon DEF Carried
<1>13. Holders(x) = {<<"call", D, 0>>}
    BY <1>1, <1>2, <1>12, HolderKinds, SoleHolder, Zenon
<1>14. Holders(x)' = {<<"node", n, L + 1>>}
    <2>1. /\ \A m, k : ~ Stored(m, k, x) /\ ~ Kept(m, k, x)
          /\ \A d : Carried(d, x) <=> d = D
        BY <1>13, HolderIs, Zenon
    <2>2. \A m, k : Stored(m, k, x)' <=> m = n /\ k = L + 1
        BY <1>9, <2>1, Zenon
    <2>3. \A d, k : ~ Kept(d, k, x)'
        BY <1>10, <2>1, Zenon
    <2>4. \A d : ~ Carried(d, x)'
        BY <1>11, <2>1, Zenon
    <2>5. QED
        BY <2>2, <2>3, <2>4, OnlyHolder, Zenon
<1>15. ASSUME NEW y \in Items, y # x PROVE Holders(y)' = Holders(y)
    BY <1>9, <1>10, <1>11, <1>12, <1>15, SameHolders, Zenon
<1>16. InsertsFresh'
    BY <1>7, <1>8 DEF InsertsFresh
<1>17. QED
    BY <1>1, <1>2, <1>13, <1>14, <1>15, <1>16, OnceMoved, Zenon

LEMMA InsertNextOnce ==
    ASSUME IInv, Once, InsertNext
    PROVE  Once'
<1>0. PICK x, F : x = next /\ F = Insert(Root, x)
    BY Zenon
<1>1. /\ stack = <<>> /\ next < NumSegments(series) /\ stack' = <<F>>
      /\ next' = next + 1 /\ series' = series /\ nodes' = nodes /\ TypeOK
    BY <1>0 DEF InsertNext, IInv
<1>2. /\ next \in Nat /\ NumSegments(series) \in Nat
      /\ x \in Items /\ Items' = Items
      /\ 0 .. next' - 1 = (0 .. next - 1) \cup {x}
      /\ 0 .. next - 1 \subseteq Items /\ x \notin 0 .. next - 1
    BY <1>0, <1>1, NumSegmentsNat DEF TypeOK, SeriesType, Items
<1>3. F.op = "insert" /\ F.item = x /\ F.i = 0 /\ F.nitems = <<>>
    BY <1>0 DEF Insert
<1>4. /\ DOMAIN stack' = {1} /\ CallAt(1)' = F /\ stack'[1] = F
      /\ \A m : ~ UnderSplit(m)' /\ ~ UnderSplit(m)
      /\ DOMAIN stack = {}
    <2>1. DOMAIN stack' = {1} /\ Len(stack') = 1 /\ stack'[1] = F /\ DOMAIN stack = {}
        BY <1>1
    <2>2. QED
        BY <1>1, <1>3, <2>1 DEF CallAt, UnderSplit
<1>5. ASSUME NEW m, NEW k, NEW y PROVE Stored(m, k, y)' <=> Stored(m, k, y)
    BY <1>1, <1>4, Zenon DEF Stored, StoredAt, Addresses
<1>6. ASSUME NEW d, NEW k, NEW y PROVE ~ Kept(d, k, y)' /\ ~ Kept(d, k, y)
    <2>1. DOMAIN <<>> = {}
        OBVIOUS
    <2>2. QED
        BY <1>3, <1>4, <2>1, Zenon DEF Kept, KeptAt
<1>7. ASSUME NEW d, NEW y
      PROVE  (Carried(d, y)' <=> d = 1 /\ y = x) /\ ~ Carried(d, y)
    BY <1>3, <1>4, Zenon DEF Carried
<1>8. Holders(x)' = {<<"call", 1, 0>>}
    <2>1. Holders(x) = {}
        BY <1>0, <1>2 DEF Once, NoneEarly
    <2>2. \A m, k : ~ Stored(m, k, x)
        BY <2>1, HolderKinds, Zenon
    <2>3. \A m, k : ~ Stored(m, k, x)'
        BY <1>5, <2>2, Zenon
    <2>4. QED
        BY <1>6, <1>7, <2>3, OnlyHolder, Zenon
<1>9. ASSUME NEW y, y # x PROVE Holders(y)' = Holders(y)
    BY <1>5, <1>6, <1>7, <1>9, SameHolders, Zenon
<1>10. EachItemOnce'
    <2>1. ASSUME NEW y \in 0 .. next' - 1
          PROVE  \E g \in Holders(y)' : Holders(y)' = {g}
        <3>1. CASE y = x
            BY <1>8, <3>1, Zenon
        <3>2. CASE y # x
            BY <1>2, <1>9, <2>1, <3>2, Zenon DEF Once, EachItemOnce
        <3>3. QED
            BY <3>1, <3>2
    <2>2. QED
        BY <2>1, Zenon DEF EachItemOnce
<1>11. NoneEarly'
    <2>1. ASSUME NEW y \in Items, y >= next' PROVE Holders(y)' = {}
        <3>1. y # x /\ y >= next
            BY <1>0, <1>1, <1>2, <2>1 DEF Items
        <3>2. QED
            BY <1>9, <3>1, Zenon DEF Once, NoneEarly
    <2>2. QED
        BY <1>2, <2>1, Zenon DEF NoneEarly
<1>12. InsertsFresh'
    BY <1>3, <1>4, Zenon DEF InsertsFresh
<1>13. QED
    BY <1>10, <1>11, <1>12 DEF Once

(* A step that replaces the only call by another that carries the same     *)
(* segment and has kept the same ones, and leaves the nodes' items alone,  *)
(* moves nothing.                                                          *)
LEMMA SameCallOnce ==
    ASSUME IInv, Once, UNCHANGED <<series, next>>, stack # <<>>, Len(stack) = 1,
           NEW F, stack' = <<F>>, F.item = top.item,
           F.i = 0, top.i = 0, F.nitems = <<>>, top.nitems = <<>>,
           Addresses \subseteq Addresses',
           \A m \in Addresses : nodes'[m].items = nodes[m].items,
           \A m \in Addresses' : m \notin Addresses => nodes'[m].items = <<>>
    PROVE  Once'
<1>1. /\ DOMAIN stack = {1} /\ CallAt(1) = top
      /\ DOMAIN stack' = {1} /\ CallAt(1)' = F /\ stack'[1] = F
    <2>1. DOMAIN stack' = {1} /\ Len(stack') = 1 /\ stack'[1] = F
        OBVIOUS
    <2>2. QED
        BY <2>1, Outermost DEF CallAt
<1>2. TypeOK /\ DOMAIN <<>> = {}
    BY DEF IInv
<1>3. \A m \in Addresses : \A k \in DOMAIN nodes[m].items : k > 0
    <2>1. ASSUME NEW m \in Addresses, NEW k \in DOMAIN nodes[m].items PROVE k > 0
        <3>1. nodes[m].items \in Seq(Items)
            BY <1>2, NodeType, Zenon
        <3>2. QED
            BY <2>1, <3>1
    <2>2. QED
        BY <2>1
<1>4. ASSUME NEW m, NEW k, NEW y
      PROVE  /\ Stored(m, k, y) <=> /\ m \in Addresses /\ k \in DOMAIN nodes[m].items
                                    /\ nodes[m].items[k] = y
             /\ Stored(m, k, y)' <=> /\ m \in Addresses' /\ k \in DOMAIN nodes'[m].items
                                     /\ nodes'[m].items[k] = y
    <2>1. Stored(m, k, y) <=> /\ m \in Addresses /\ k \in DOMAIN nodes[m].items
                              /\ nodes[m].items[k] = y
        BY <1>1, <1>3, Zenon DEF Stored, StoredAt
    <2>2. Stored(m, k, y)' <=> /\ m \in Addresses' /\ k \in DOMAIN nodes'[m].items
                               /\ nodes'[m].items[k] = y
        <3>1. ASSUME m \in Addresses', k \in DOMAIN nodes'[m].items PROVE k > 0
            <4>1. m \in Addresses
                BY <1>2, <3>1, Zenon
            <4>2. QED
                BY <1>3, <3>1, <4>1, Zenon
        <3>2. CallAt(1)'.i = 0
            BY <1>1, Zenon
        <3>3. QED
            BY <3>1, <3>2, Zenon DEF Stored, StoredAt
    <2>3. QED
        BY <2>1, <2>2
<1>5. ASSUME NEW m, NEW k, NEW y PROVE Stored(m, k, y)' <=> Stored(m, k, y)
    <2>1. CASE m \in Addresses
        <3>1. m \in Addresses' /\ nodes'[m].items = nodes[m].items
            BY <2>1, Zenon
        <3>2. QED
            BY <1>4, <2>1, <3>1, Zenon
    <2>2. CASE m \notin Addresses
        <3>1. m \in Addresses' => DOMAIN nodes'[m].items = {}
            BY <1>2, <2>2, Zenon
        <3>2. QED
            BY <1>4, <2>2, <3>1, Zenon
    <2>3. QED
        BY <2>1, <2>2
<1>6. ASSUME NEW d, NEW k, NEW y PROVE Kept(d, k, y)' <=> Kept(d, k, y)
    BY <1>1, <1>2, Zenon DEF Kept, KeptAt
<1>7. ASSUME NEW d, NEW y PROVE Carried(d, y)' <=> Carried(d, y)
    BY <1>1, Zenon DEF Carried
<1>8. \A y \in Items : Holders(y)' = Holders(y)
    BY <1>5, <1>6, <1>7, SameHolders, Zenon
<1>9. InsertsFresh'
    BY <1>1, Zenon DEF InsertsFresh
<1>10. QED
    BY <1>2, <1>8, <1>9, OnceKept, Zenon

(* Allocating a quad leaves every node's items alone. *)
LEMMA QuadItems ==
    ASSUME TypeOK, NEW n \in Addresses, NEW q \in Quads,
           nodes[n].depth # QMaxDepth, nodes' = WithQuad(n, q)
    PROVE  /\ Addresses \subseteq Addresses'
           /\ \A m \in Addresses : nodes'[m].items = nodes[m].items
           /\ \A m \in Addresses' : m \notin Addresses => nodes'[m].items = <<>>
<1> DEFINE W == WithQuad(n, q)
           c == QuadOf(n, q)
<1>1. /\ W \in Seq(NodeOf(Len(W)))
      /\ Len(W) \in {Len(nodes), Len(nodes) + 1}
      /\ c \in 1 .. Len(W)
      /\ \A m \in Addresses :
            /\ W[m].items = nodes[m].items /\ W[m].split = nodes[m].split
            /\ W[m].bounds = nodes[m].bounds
            /\ W[m].depth = nodes[m].depth
            /\ \A r \in Quads :
                  W[m].quads[r] = IF m = n /\ r = q THEN c ELSE nodes[m].quads[r]
      /\ nodes[n].quads[q] # Nil => W = nodes /\ c = nodes[n].quads[q]
      /\ nodes[n].quads[q] = Nil =>
            /\ Len(W) = Len(nodes) + 1 /\ c = Len(W)
            /\ W[c].items = <<>> /\ W[c].split = FALSE
            /\ W[c].bounds = QuadBounds(nodes[n].bounds, q)
            /\ \A r \in Quads : W[c].quads[r] = Nil
    BY WithQuadFields, ZenonT(40)
<1> HIDE DEF W, c
<1>2. nodes' = W /\ Len(nodes) \in Nat
    BY NodeType DEF W
<1>3. QED
    BY <1>1, <1>2 DEF Addresses

LEMMA IntoQuadOnce ==
    ASSUME IInv, Once, IntoQuad
    PROVE  Once'
<1>0. PICK n, q, F : /\ n = top.node /\ q = Quad(top.item)
                     /\ F = Insert(QuadOf(n, q), top.item)
    BY Zenon
<1>1. /\ stack # <<>> /\ top.op = "insert" /\ nodes[n].split /\ q # -1
      /\ nodes[n].depth # QMaxDepth
      /\ nodes' = WithQuad(n, q) /\ stack' = <<F>> \o Tail(stack)
      /\ series' = series /\ next' = next /\ TypeOK
      /\ q = ChooseQuad(nodes[n].bounds, SegmentRectAt(series, top.item))
    BY <1>0, Zenon DEF IntoQuad, Inserting, node, Call, Quad, IInv
<1>2. /\ Len(stack) = 1 /\ top = stack[1] /\ 1 \in DOMAIN stack
      /\ Tail(stack) = <<>> /\ n \in Addresses /\ top.item \in Items
    BY <1>0, <1>1, TopFrame
<1>3. q \in Quads
    BY <1>1, ChooseQuadRange, Zenon
<1>4. stack' = <<F>>
    <2>1. <<F>> \o <<>> = <<F>>
        OBVIOUS
    <2>2. QED
        BY <1>1, <1>2, <2>1
<1>5. F.item = top.item /\ F.i = 0 /\ F.nitems = <<>>
    BY <1>0 DEF Insert
<1>6. top.i = 0 /\ top.nitems = <<>>
    BY <1>1, <1>2 DEF Once, InsertsFresh
<1>7. /\ Addresses \subseteq Addresses'
      /\ \A m \in Addresses : nodes'[m].items = nodes[m].items
      /\ \A m \in Addresses' : m \notin Addresses => nodes'[m].items = <<>>
    BY <1>1, <1>2, <1>3, QuadItems, Zenon
<1>8. QED
    BY <1>1, <1>2, <1>4, <1>5, <1>6, <1>7, SameCallOnce, Zenon

LEMMA BeginSplitOnce ==
    ASSUME IInv, Once, BeginSplit
    PROVE  Once'
<1>0. PICK n, F : n = top.node /\ F = [top EXCEPT !.op = "split"]
    BY Zenon
<1>1. /\ stack # <<>> /\ top.op = "insert" /\ Len(nodes[n].items) = QMaxItems
      /\ stack' = <<F>> \o Tail(stack)
      /\ series' = series /\ next' = next /\ nodes' = nodes /\ TypeOK
    BY <1>0, Zenon DEF BeginSplit, Inserting, node, Call, IInv
<1>2. /\ Len(stack) = 1 /\ top = stack[1] /\ 1 \in DOMAIN stack /\ top \in Frame
      /\ Tail(stack) = <<>> /\ n \in Addresses
    <2>1. nodes[n].items \in Seq(Items) => ~ (Len(nodes[n].items) < QMaxItems)
        BY <1>1, LimitAssumption
    <2>2. n \in Addresses
        BY <1>0, <1>1, TopFrame
    <2>3. nodes[n].items \in Seq(Items)
        BY <1>1, <2>2, NodeType, Zenon
    <2>4. Len(stack) # 2
        BY <1>0, <1>1, <2>1, <2>3, TopFrame
    <2>5. QED
        BY <1>0, <1>1, <2>4, TopFrame
<1>3. stack' = <<F>>
    <2>1. <<F>> \o <<>> = <<F>>
        OBVIOUS
    <2>2. QED
        BY <1>1, <1>2, <2>1
<1>4. top.i = 0 /\ top.nitems = <<>>
    BY <1>1, <1>2 DEF Once, InsertsFresh
<1>5. F.item = top.item /\ F.i = 0 /\ F.nitems = <<>>
    BY <1>0, <1>2, <1>4 DEF Frame
<1>6. Addresses' = Addresses
    BY <1>1, Zenon DEF Addresses
<1>7. QED
    BY <1>1, <1>2, <1>3, <1>4, <1>5, <1>6, SameCallOnce, Zenon

LEMMA SplitKeepOnce ==
    ASSUME IInv, Once, SplitKeep
    PROVE  Once'
<1>0. PICK n, x, i, L, F :
         /\ n = top.node /\ i = top.i /\ x = nodes[n].items[i + 1]
         /\ L = Len(top.nitems)
         /\ F = [top EXCEPT !.i = @ + 1, !.nitems = Append(@, x)]
    BY Zenon
<1>1. /\ stack # <<>> /\ top.op = "split" /\ i < Len(nodes[n].items)
      /\ stack' = <<F>> \o Tail(stack)
      /\ series' = series /\ next' = next /\ nodes' = nodes /\ TypeOK
    BY <1>0, Zenon DEF SplitKeep, Splitting, node, Call, IInv
<1>2. /\ Len(stack) = 1 /\ top = stack[1] /\ 1 \in DOMAIN stack /\ top \in Frame
      /\ Tail(stack) = <<>> /\ n \in Addresses /\ i \in 0 .. QMaxItems
      /\ top.nitems \in Seq(Items)
    BY <1>0, <1>1, TopFrame
<1>3. nodes[n].items \in Seq(Items)
    BY <1>1, <1>2, NodeType, Zenon
<1>4. i + 1 \in DOMAIN nodes[n].items /\ i \in Nat
    BY <1>1, <1>2, <1>3, LimitAssumption
<1>5. x \in Items
    BY <1>0, <1>3, <1>4
<1>6. stack' = <<F>>
    <2>1. <<F>> \o <<>> = <<F>>
        OBVIOUS
    <2>2. QED
        BY <1>1, <1>2, <2>1
<1>7. /\ F.op = "split" /\ F.node = n /\ F.item = top.item /\ F.i = i + 1
      /\ F.nitems = Append(top.nitems, x)
    BY <1>0, <1>1, <1>2 DEF Frame
<1>8. /\ DOMAIN F.nitems = DOMAIN top.nitems \cup {L + 1}
      /\ \A k \in DOMAIN top.nitems : F.nitems[k] = top.nitems[k]
      /\ F.nitems[L + 1] = x /\ L + 1 \notin DOMAIN top.nitems
    <2>1. /\ top.nitems \in Seq(Items) /\ x \in Items
          /\ F.nitems = Append(top.nitems, x) /\ L = Len(top.nitems)
        BY <1>0, <1>2, <1>5, <1>7, Zenon
    <2>2. QED
        BY <2>1, AppendPlaces
<1>9. /\ DOMAIN stack = {1} /\ CallAt(1) = top
      /\ DOMAIN stack' = {1} /\ CallAt(1)' = F /\ stack'[1] = F
      /\ \A m : UnderSplit(m) <=> m = n
      /\ \A m : UnderSplit(m)' <=> m = n
      /\ Addresses' = Addresses
    <2>1. DOMAIN stack' = {1} /\ Len(stack') = 1 /\ stack'[1] = F /\ stack' # <<>>
        BY <1>6
    <2>2. CallAt(1)' = F
        BY <2>1 DEF CallAt
    <2>3. \A m : UnderSplit(m)' <=> m = n
        BY <1>7, <2>1 DEF UnderSplit
    <2>4. QED
        BY <1>0, <1>1, <1>2, <2>1, <2>2, <2>3, Outermost DEF Addresses
<1>10. ASSUME NEW m, NEW k, NEW y
       PROVE  Stored(m, k, y) <=> Stored(m, k, y)' \/ (m = n /\ k = i + 1 /\ y = x)
    <2>1. CASE m # n
        <3>1. Stored(m, k, y) <=> /\ m \in Addresses /\ k \in DOMAIN nodes[m].items
                                  /\ nodes[m].items[k] = y
            BY <1>9, <2>1, Zenon DEF Stored, StoredAt
        <3>2. Stored(m, k, y)' <=> /\ m \in Addresses /\ k \in DOMAIN nodes[m].items
                                   /\ nodes[m].items[k] = y
            BY <1>1, <1>9, <2>1, Zenon DEF Stored, StoredAt
        <3>3. QED
            BY <2>1, <3>1, <3>2, Zenon
    <2>2. CASE m = n
        <3>1. \A j \in DOMAIN nodes[n].items : j > i <=> j > i + 1 \/ j = i + 1
            BY <1>3, <1>4
        <3>2. Stored(m, k, y) <=>
                 k \in DOMAIN nodes[n].items /\ nodes[n].items[k] = y /\ k > i
            BY <1>0, <1>2, <1>9, <2>2, Zenon DEF Stored, StoredAt
        <3>3. Stored(m, k, y)' <=>
                 k \in DOMAIN nodes[n].items /\ nodes[n].items[k] = y /\ k > i + 1
            BY <1>1, <1>2, <1>7, <1>9, <2>2, Zenon DEF Stored, StoredAt
        <3>4. QED
            BY <1>0, <1>4, <2>2, <3>1, <3>2, <3>3, Zenon
    <2>3. QED
        BY <2>1, <2>2
<1>11. ASSUME NEW d, NEW k, NEW y
       PROVE  Kept(d, k, y)' <=> Kept(d, k, y) \/ (d = 1 /\ k = L + 1 /\ y = x)
    BY <1>8, <1>9, Zenon DEF Kept, KeptAt
<1>12. ASSUME NEW d, NEW y PROVE Carried(d, y)' <=> Carried(d, y)
    BY <1>7, <1>9, Zenon DEF Carried
<1>13. Holders(x) = {<<"node", n, i + 1>>}
    BY <1>1, <1>5, <1>10, HolderKinds, SoleHolder, Zenon
<1>14. Holders(x)' = {<<"kept", 1, L + 1>>}
    <2>1. /\ \A m, k : Stored(m, k, x) <=> m = n /\ k = i + 1
          /\ \A d, k : ~ Kept(d, k, x)
          /\ \A d : ~ Carried(d, x)
        BY <1>13, HolderIs, Zenon
    <2>2. \A m, k : ~ Stored(m, k, x)'
        <3>1. ~ Stored(n, i + 1, x)'
            <4>1. ~ (i + 1 > i + 1)
                BY <1>4
            <4>2. QED
                BY <1>7, <1>9, <4>1, Zenon DEF Stored, StoredAt
        <3>2. QED
            BY <1>10, <2>1, <3>1, Zenon
    <2>3. \A d, k : Kept(d, k, x)' <=> d = 1 /\ k = L + 1
        BY <1>11, <2>1, Zenon
    <2>4. \A d : ~ Carried(d, x)'
        BY <1>12, <2>1, Zenon
    <2>5. QED
        BY <2>2, <2>3, <2>4, OnlyHolder, Zenon
<1>15. ASSUME NEW y \in Items, y # x PROVE Holders(y)' = Holders(y)
    BY <1>10, <1>11, <1>12, <1>15, SameHolders, Zenon
<1>16. InsertsFresh'
    BY <1>7, <1>9 DEF InsertsFresh
<1>17. QED
    BY <1>1, <1>5, <1>13, <1>14, <1>15, <1>16, OnceMoved, Zenon

LEMMA SplitHandDownOnce ==
    ASSUME IInv, Once, SplitHandDown
    PROVE  Once'
<1>0. PICK n, x, i, q, F, G :
         /\ n = top.node /\ i = top.i /\ x = nodes[n].items[i + 1] /\ q = Quad(x)
         /\ F = Insert(QuadOf(n, q), x) /\ G = [top EXCEPT !.i = @ + 1]
    BY Zenon
<1>1. /\ stack # <<>> /\ top.op = "split" /\ i < Len(nodes[n].items) /\ q # -1
      /\ nodes' = WithQuad(n, q) /\ stack' = <<F, G>> \o Tail(stack)
      /\ series' = series /\ next' = next /\ TypeOK
      /\ q = ChooseQuad(nodes[n].bounds, SegmentRectAt(series, x))
    BY <1>0, Zenon DEF SplitHandDown, Splitting, node, Call, Quad, IInv
<1>2. /\ Len(stack) = 1 /\ top = stack[1] /\ 1 \in DOMAIN stack /\ top \in Frame
      /\ Tail(stack) = <<>> /\ n \in Addresses /\ i \in 0 .. QMaxItems
      /\ top.nitems \in Seq(Items)
    BY <1>0, <1>1, TopFrame
<1>3. nodes[n].items \in Seq(Items) /\ nodes[n].depth # QMaxDepth /\ q \in Quads
    <2>1. nodes[n].depth # QMaxDepth
        BY <1>0, <1>1, <1>2, Zenon DEF IInv, SplitsDoNotNest, SplitState
    <2>2. QED
        BY <1>1, <1>2, <2>1, NodeType, ChooseQuadRange, Zenon
<1>4. i + 1 \in DOMAIN nodes[n].items /\ i \in Nat
    BY <1>1, <1>2, <1>3, LimitAssumption
<1>5. x \in Items
    BY <1>0, <1>3, <1>4
<1>6. stack' = <<F, G>>
    <2>1. <<F, G>> \o <<>> = <<F, G>>
        OBVIOUS
    <2>2. QED
        BY <1>1, <1>2, <2>1
<1>7. /\ F.op = "insert" /\ F.item = x /\ F.i = 0 /\ F.nitems = <<>>
      /\ G.op = "split" /\ G.node = n /\ G.item = top.item /\ G.i = i + 1
      /\ G.nitems = top.nitems
    BY <1>0, <1>1, <1>2 DEF Frame, Insert
<1>8. /\ Addresses \subseteq Addresses'
      /\ \A m \in Addresses : nodes'[m].items = nodes[m].items
      /\ \A m \in Addresses' : m \notin Addresses => nodes'[m].items = <<>>
    BY <1>1, <1>2, <1>3, QuadItems, Zenon
<1>9. /\ DOMAIN stack = {1} /\ CallAt(1) = top
      /\ DOMAIN stack' = {1, 2} /\ CallAt(1)' = G /\ CallAt(2)' = F
      /\ stack'[1] = F /\ stack'[2] = G /\ DOMAIN <<>> = {} /\ 1 # 2
      /\ \A m : UnderSplit(m) <=> m = n
      /\ \A m : UnderSplit(m)' <=> m = n
    <2>1. /\ DOMAIN stack' = {1, 2} /\ Len(stack') = 2 /\ stack'[1] = F /\ stack'[2] = G
          /\ stack' # <<>>
        BY <1>6
    <2>2. CallAt(1)' = G /\ CallAt(2)' = F
        BY <2>1 DEF CallAt
    <2>3. \A m : UnderSplit(m)' <=> m = n
        BY <1>7, <2>1 DEF UnderSplit
    <2>4. DOMAIN stack = {1} /\ CallAt(1) = top /\ \A m : UnderSplit(m) <=> m = n
        BY <1>0, <1>1, <1>2, Outermost
    <2>5. DOMAIN <<>> = {} /\ 1 # 2
        OBVIOUS
    <2>6. QED
        BY <2>1, <2>2, <2>3, <2>4, <2>5, Zenon
<1>10. ASSUME NEW m, NEW k, NEW y
       PROVE  Stored(m, k, y) <=> Stored(m, k, y)' \/ (m = n /\ k = i + 1 /\ y = x)
    <2>1. CASE m # n
        <3>1. Stored(m, k, y) <=> /\ m \in Addresses /\ k \in DOMAIN nodes[m].items
                                  /\ nodes[m].items[k] = y
            BY <1>9, <2>1, Zenon DEF Stored, StoredAt
        <3>2. Stored(m, k, y)' <=> /\ m \in Addresses' /\ k \in DOMAIN nodes'[m].items
                                   /\ nodes'[m].items[k] = y
            BY <1>9, <2>1, Zenon DEF Stored, StoredAt
        <3>3. QED
            BY <1>8, <1>9, <2>1, <3>1, <3>2, Zenon
    <2>2. CASE m = n
        <3>1. \A j \in DOMAIN nodes[n].items : j > i <=> j > i + 1 \/ j = i + 1
            BY <1>3, <1>4
        <3>2. Stored(m, k, y) <=>
                 k \in DOMAIN nodes[n].items /\ nodes[n].items[k] = y /\ k > i
            BY <1>0, <1>2, <1>9, <2>2, Zenon DEF Stored, StoredAt
        <3>3. Stored(m, k, y)' <=>
                 k \in DOMAIN nodes[n].items /\ nodes[n].items[k] = y /\ k > i + 1
            BY <1>2, <1>7, <1>8, <1>9, <2>2, Zenon DEF Stored, StoredAt
        <3>4. QED
            BY <1>0, <1>4, <2>2, <3>1, <3>2, <3>3, Zenon
    <2>3. QED
        BY <2>1, <2>2
<1>11. ASSUME NEW d, NEW k, NEW y PROVE Kept(d, k, y)' <=> Kept(d, k, y)
    <2>1. CallAt(1)'.nitems = CallAt(1).nitems /\ DOMAIN CallAt(2)'.nitems = {}
        BY <1>7, <1>9, Zenon
    <2>2. DOMAIN stack = {1} /\ DOMAIN stack' = {1, 2} /\ 1 # 2
        BY <1>9, Zenon
    <2>3. CASE d = 1
        BY <2>1, <2>2, <2>3, Zenon DEF Kept, KeptAt
    <2>4. CASE d # 1
        <3>1. ~ Kept(d, k, y)
            BY <2>2, <2>4, Zenon DEF Kept
        <3>2. ~ Kept(d, k, y)'
            BY <2>1, <2>2, <2>4, Zenon DEF Kept, KeptAt
        <3>3. QED
            BY <3>1, <3>2
    <2>5. QED
        BY <2>3, <2>4
<1>12. ASSUME NEW d, NEW y
       PROVE  Carried(d, y)' <=> Carried(d, y) \/ (d = 2 /\ y = x)
    <2>1. /\ CallAt(1)'.item = CallAt(1).item /\ CallAt(2)'.item = x
          /\ DOMAIN stack = {1} /\ DOMAIN stack' = {1, 2} /\ 1 # 2
        BY <1>7, <1>9, Zenon
    <2>2. CASE d = 1
        BY <2>1, <2>2, Zenon DEF Carried
    <2>3. CASE d # 1
        BY <2>1, <2>3, Zenon DEF Carried
    <2>4. QED
        BY <2>2, <2>3
<1>13. Holders(x) = {<<"node", n, i + 1>>}
    BY <1>1, <1>5, <1>10, HolderKinds, SoleHolder, Zenon
<1>14. Holders(x)' = {<<"call", 2, 0>>}
    <2>1. /\ \A m, k : Stored(m, k, x) <=> m = n /\ k = i + 1
          /\ \A d, k : ~ Kept(d, k, x)
          /\ \A d : ~ Carried(d, x)
        BY <1>13, HolderIs, Zenon
    <2>2. \A m, k : ~ Stored(m, k, x)'
        <3>1. ~ Stored(n, i + 1, x)'
            <4>1. ~ (i + 1 > i + 1)
                BY <1>4
            <4>2. QED
                BY <1>7, <1>9, <4>1, Zenon DEF Stored, StoredAt
        <3>2. QED
            BY <1>10, <2>1, <3>1, Zenon
    <2>3. \A d, k : ~ Kept(d, k, x)'
        BY <1>11, <2>1, Zenon
    <2>4. \A d : Carried(d, x)' <=> d = 2
        BY <1>12, <2>1, Zenon
    <2>5. QED
        BY <2>2, <2>3, <2>4, OnlyHolder, Zenon
<1>15. ASSUME NEW y \in Items, y # x PROVE Holders(y)' = Holders(y)
    BY <1>10, <1>11, <1>12, <1>15, SameHolders, Zenon
<1>16. InsertsFresh'
    BY <1>7, <1>9 DEF InsertsFresh
<1>17. QED
    BY <1>1, <1>5, <1>13, <1>14, <1>15, <1>16, OnceMoved, Zenon

LEMMA EndSplitOnce ==
    ASSUME IInv, Once, EndSplit
    PROVE  Once'
<1>0. PICK n, kept, F : /\ n = top.node /\ kept = top.nitems
                        /\ F = Insert(n, top.item)
    BY Zenon
<1>1. /\ stack # <<>> /\ top.op = "split" /\ top.i = Len(nodes[n].items)
      /\ nodes' = [nodes EXCEPT ![n].items = kept, ![n].split = TRUE]
      /\ stack' = <<F>> \o Tail(stack) /\ series' = series /\ next' = next /\ TypeOK
    BY <1>0 DEF EndSplit, Splitting, node, Call, IInv
<1>2. /\ Len(stack) = 1 /\ top = stack[1] /\ 1 \in DOMAIN stack
      /\ Tail(stack) = <<>> /\ n \in Addresses /\ kept \in Seq(Items)
    BY <1>0, <1>1, TopFrame
<1>3. /\ Len(nodes') = Len(nodes) /\ nodes'[n].items = kept
      /\ \A m \in Addresses : m # n => nodes'[m].items = nodes[m].items
    <2> DEFINE T == [nodes EXCEPT ![n].items = kept, ![n].split = TRUE]
    <2>1. /\ T \in Seq(NodeOf(Len(nodes))) /\ Len(T) = Len(nodes)
          /\ T[n].items = kept /\ T[n].split
          /\ \A m \in Addresses :
                /\ m # n => T[m].items = nodes[m].items /\ T[m].split = nodes[m].split
                /\ T[m].quads = nodes[m].quads
                /\ T[m].bounds = nodes[m].bounds /\ T[m].depth = nodes[m].depth
        BY <1>1, <1>2, EndSplitFields, ZenonT(60)
    <2>2. nodes' = T
        BY <1>1
    <2> HIDE DEF T
    <2>3. QED
        BY <2>1, <2>2, Zenon
<1>4. nodes[n].items \in Seq(Items) /\ Addresses' = Addresses
    BY <1>1, <1>2, <1>3, NodeType, Zenon DEF Addresses
<1>5. stack' = <<F>>
    <2>1. <<F>> \o <<>> = <<F>>
        OBVIOUS
    <2>2. QED
        BY <1>1, <1>2, <2>1
<1>6. F.op = "insert" /\ F.item = top.item /\ F.i = 0 /\ F.nitems = <<>>
    BY <1>0 DEF Insert
<1>7. /\ DOMAIN stack = {1} /\ CallAt(1) = top
      /\ DOMAIN stack' = {1} /\ CallAt(1)' = F /\ stack'[1] = F /\ DOMAIN <<>> = {}
      /\ \A m : UnderSplit(m) <=> m = n
      /\ \A m : ~ UnderSplit(m)'
    <2>1. DOMAIN stack' = {1} /\ Len(stack') = 1 /\ stack'[1] = F /\ stack' # <<>>
        BY <1>5
    <2>2. CallAt(1)' = F
        BY <2>1 DEF CallAt
    <2>3. \A m : ~ UnderSplit(m)'
        BY <1>6, <2>1 DEF UnderSplit
    <2>4. QED
        BY <1>0, <1>1, <1>2, <2>1, <2>2, <2>3, Outermost
<1>8. ASSUME NEW m, NEW k, NEW y
      PROVE  Stored(m, k, y)' <=> Stored(m, k, y) \/ (m = n /\ Kept(1, k, y))
    <2>1. Kept(1, k, y) <=> k \in DOMAIN kept /\ kept[k] = y
        BY <1>0, <1>7, Zenon DEF Kept, KeptAt
    <2>2. Stored(m, k, y)' <=> /\ m \in Addresses /\ k \in DOMAIN nodes'[m].items
                               /\ nodes'[m].items[k] = y
        BY <1>4, <1>7, Zenon DEF Stored, StoredAt
    <2>3. CASE m # n
        <3>1. Stored(m, k, y) <=> /\ m \in Addresses /\ k \in DOMAIN nodes[m].items
                                  /\ nodes[m].items[k] = y
            BY <1>7, <2>3, Zenon DEF Stored, StoredAt
        <3>2. QED
            BY <1>3, <2>2, <2>3, <3>1, Zenon
    <2>4. CASE m = n
        <3>1. \A j \in DOMAIN nodes[n].items : ~ (j > top.i)
            BY <1>1, <1>4
        <3>2. ~ Stored(m, k, y)
            BY <1>7, <2>4, <3>1, Zenon DEF Stored, StoredAt
        <3>3. QED
            BY <1>2, <1>3, <2>1, <2>2, <2>4, <3>2, Zenon
    <2>5. QED
        BY <2>3, <2>4
<1>9. ASSUME NEW d, NEW k, NEW y PROVE ~ Kept(d, k, y)' /\ (Kept(d, k, y) => d = 1)
    BY <1>6, <1>7, Zenon DEF Kept, KeptAt
<1>10. ASSUME NEW d, NEW y PROVE Carried(d, y)' <=> Carried(d, y)
    BY <1>6, <1>7, Zenon DEF Carried
<1>11. InsertsFresh'
    BY <1>6, <1>7 DEF InsertsFresh
<1>12. ASSUME NEW y \in Items, NEW k, Kept(1, k, y)
       PROVE  Holders(y) = {<<"kept", 1, k>>} /\ Holders(y)' = {<<"node", n, k>>}
    <2>1. Holders(y) = {<<"kept", 1, k>>}
        BY <1>1, <1>12, HolderKinds, SoleHolder, Zenon
    <2>2. /\ \A m, j : ~ Stored(m, j, y)
          /\ \A d, j : Kept(d, j, y) <=> d = 1 /\ j = k
          /\ \A d : ~ Carried(d, y)
        BY <2>1, HolderIs, Zenon
    <2>3. \A m, j : Stored(m, j, y)' <=> m = n /\ j = k
        <3>1. \A j : Kept(1, j, y) <=> j = k
            BY <2>2
        <3>2. \A m, j : Stored(m, j, y)' <=> m = n /\ Kept(1, j, y)
            BY <1>8, <2>2
        <3>3. QED
            BY <3>1, <3>2
    <2>4. \A d, j : ~ Kept(d, j, y)'
        BY <1>9, Zenon
    <2>5. \A d : ~ Carried(d, y)'
        BY <1>10, <2>2, Zenon
    <2>6. QED
        BY <2>1, <2>3, <2>4, <2>5, OnlyHolder, Zenon
<1>13. ASSUME NEW y \in Items, \A k : ~ Kept(1, k, y) PROVE Holders(y)' = Holders(y)
    <2>1. \A m, k : Stored(m, k, y)' <=> Stored(m, k, y)
        BY <1>8, <1>13, Zenon
    <2>2. \A d, k : Kept(d, k, y)' <=> Kept(d, k, y)
        BY <1>9, <1>13, Zenon
    <2>3. QED
        BY <1>10, <2>1, <2>2, SameHolders, Zenon
<1>14. ASSUME NEW y \in Items
       PROVE  \/ Holders(y)' = Holders(y)
              \/ \E h : Holders(y) # {} /\ Holders(y)' = {h}
    BY <1>12, <1>13, Zenon
<1>15. next \in Nat /\ NumSegments(series) \in Nat /\ next <= NumSegments(series)
    BY <1>1, NumSegmentsNat DEF TypeOK, SeriesType
<1>16. Items' = Items /\ 0 .. next - 1 \subseteq Items
    BY <1>1, <1>15 DEF Items
<1>17. EachItemOnce'
    <2>1. ASSUME NEW y \in 0 .. next - 1
          PROVE  \E h \in Holders(y)' : Holders(y)' = {h}
        <3>1. y \in Items
            BY <1>16
        <3>2. \E h \in Holders(y) : Holders(y) = {h}
            BY <2>1, Zenon DEF Once, EachItemOnce
        <3>3. QED
            BY <1>14, <3>1, <3>2, Zenon
    <2>2. QED
        BY <1>1, <2>1, Zenon DEF EachItemOnce
<1>18. NoneEarly'
    BY <1>1, <1>14, <1>16, Zenon DEF Once, NoneEarly
<1>19. QED
    BY <1>11, <1>17, <1>18 DEF Once

-----------------------------------------------------------------------------
LEMMA BegunOnce == Begun => Once
<1> SUFFICES ASSUME Begun PROVE Once
    OBVIOUS
<1>1. /\ next = 0 /\ stack = <<>> /\ nodes = <<NewNode(series.rect, 0)>>
    BY DEF Begun
<1>2. /\ DOMAIN stack = {} /\ Addresses = {1} /\ nodes[1].items = <<>>
      /\ DOMAIN <<>> = {} /\ 0 .. next - 1 = {}
    BY <1>1 DEF NewNode, Addresses
<1>3. ASSUME NEW y PROVE Holders(y) = {}
    <2>1. /\ \A m, k : ~ Stored(m, k, y)
          /\ \A d, k : ~ Kept(d, k, y)
          /\ \A d : ~ Carried(d, y)
        BY <1>2, Zenon DEF Stored, StoredAt, Kept, Carried
    <2>2. ASSUME NEW h \in Holders(y) PROVE FALSE
        BY <2>1, HolderKinds
    <2>3. QED
        BY <2>2, Zenon
<1>4. EachItemOnce /\ InsertsFresh /\ NoneEarly
    BY <1>2, <1>3, Zenon DEF EachItemOnce, InsertsFresh, NoneEarly
<1>5. QED
    BY <1>4 DEF Once

LEMMA InitOnce == Init => Once
    BY InitBegun, BegunOnce

LEMMA StepOnce == IInv /\ Once /\ [Next]_vars => Once'
<1> SUFFICES ASSUME IInv, Once, [Next]_vars PROVE Once'
    OBVIOUS
<1>1. CASE InsertNext
    BY <1>1, InsertNextOnce
<1>2. CASE AtDepthLimit \/ IntoOverflow \/ IntoLeaf
    BY <1>2, AppendItemOnce DEF AtDepthLimit, IntoOverflow, IntoLeaf
<1>3. CASE IntoQuad
    BY <1>3, IntoQuadOnce
<1>4. CASE BeginSplit
    BY <1>4, BeginSplitOnce
<1>5. CASE SplitKeep
    BY <1>5, SplitKeepOnce
<1>6. CASE SplitHandDown
    BY <1>6, SplitHandDownOnce
<1>7. CASE EndSplit
    BY <1>7, EndSplitOnce
<1>8. CASE UNCHANGED vars
    <2>1. ASSUME NEW y PROVE Holders(y)' = Holders(y)
        <3>1. /\ \A n, k : Stored(n, k, y)' <=> Stored(n, k, y)
              /\ \A d, k : Kept(d, k, y)' <=> Kept(d, k, y)
              /\ \A d : Carried(d, y)' <=> Carried(d, y)
            BY <1>8 DEF vars, Stored, Kept, Carried, StoredAt, KeptAt, CallAt,
                        UnderSplit, Addresses
        <3>2. QED
            BY <3>1, SameHolders, Zenon
    <2>2. TypeOK /\ UNCHANGED <<series, next>> /\ InsertsFresh'
        BY <1>8 DEF vars, IInv, Once, InsertsFresh
    <2>3. QED
        BY <2>1, <2>2, OnceKept, Zenon
<1>9. QED
    BY <1>1, <1>2, <1>3, <1>4, <1>5, <1>6, <1>7, <1>8 DEF Next

-----------------------------------------------------------------------------
(* The nodes and the calls of insert keep their shape: no nil pointer is   *)
(* followed, no index leaves its range and no depth the limit.             *)
THEOREM TreeTypeOK == Spec => []TypeOK
    BY IInvAlways, PTL DEF IInv

(* buildIndex never puts a segment into a node whose bounds it sticks out  *)
(* of, and the bounds the searches recompute on the way down are the ones  *)
(* the segments were placed by, for every series and both limits.          *)
THEOREM SegmentsWithinBounds == Spec => [](TypeOK /\ WithinBounds)
    BY IInvAlways, PTL DEF IInv

(* insert splits a node at most once at a time, so its recursion stays two *)
(* calls deep, whatever coincides.                                         *)
THEOREM SplitsAreShallow == Spec => []SplitsDoNotNest
    BY IInvAlways, PTL DEF IInv

(* Only the depth limit lets a node outgrow qMaxItems without a split.     *)
THEOREM LeavesAreSmall == Spec => []LeavesFit
    BY IInvAlways, PTL DEF IInv

(* No segment is lost, and none is held twice, while the tree is built:    *)
(* whatever a split keeps, hands down or has yet to look at, each inserted *)
(* segment is in one place at every moment.                                *)
THEOREM SegmentsHeldOnce == Spec => []EachItemOnce
<1>1. Spec => [](IInv /\ Once)
    BY InitIInv, StepIInv, InitOnce, StepOnce, PTL DEF Spec
<1>2. Once => EachItemOnce
    BY DEF Once
<1>3. QED
    BY <1>1, <1>2, PTL

-----------------------------------------------------------------------------
(* The numbers of the index: what appendUvarint writes and readUvarint     *)
(* makes of it.                                                            *)

(* Bytes. *)

(* A byte has room for a digit and the mark that more follow.              *)
LEMMA RadixFacts == Radix \in Nat /\ Radix >= 2
    BY RadixAssumption

(* Division by the radix, which makes a number of two digits smaller.      *)
LEMMA Quotient ==
    ASSUME NEW x \in Nat
    PROVE  /\ x \div Radix \in Nat /\ x % Radix \in Nat /\ x % Radix < Radix
           /\ x = (x % Radix) + Radix * (x \div Radix)
           /\ x >= Radix => x \div Radix < x /\ x \div Radix >= 1
    BY RadixFacts

(* The digit is what is left of a byte without its mark.                   *)
LEMMA Remainder ==
    ASSUME NEW r \in Nat, r < Radix
    PROVE  r % Radix = r /\ (Radix + r) % Radix = r
    BY RadixFacts

(* The bytes of the numbers up to n. *)
IsUvarint(n, f) ==
    f = [x \in 0 .. n |-> IF x < Radix THEN <<x>>
                          ELSE <<Radix + (x % Radix)>> \o f[x \div Radix]]

(* Such a function has the bytes that appendUvarint makes.                 *)
LEMMA UvarintAt ==
    ASSUME NEW n \in Nat, NEW f, IsUvarint(n, f), NEW x \in 0 .. n
    PROVE  f[x] = IF x < Radix THEN <<x>>
                  ELSE <<Radix + (x % Radix)>> \o f[x \div Radix]
    BY DEF IsUvarint

(* The least n whose numbers up to n had no bytes would follow one whose   *)
(* numbers have.                                                           *)
LEMMA UvarintUpTo ==
    ASSUME NEW n \in Nat
    PROVE  \E f : IsUvarint(n, f)
<1> DEFINE T == {m \in Nat : ~ \E f : IsUvarint(m, f)}
<1> SUFFICES ASSUME T # {} PROVE FALSE
    OBVIOUS
<1>1. PICK m \in T : \A l \in T : m <= l
    <2>1. T \in SUBSET Nat
        OBVIOUS
    <2> HIDE DEF T
    <2>2. QED
        BY <2>1, LeastNatural, Zenon
<1>2. m \in Nat /\ ~ \E f : IsUvarint(m, f)
    OBVIOUS
<1>3. m # 0
    <2>1. IsUvarint(0, [x \in 0 .. 0 |-> <<x>>])
        BY RadixFacts DEF IsUvarint
    <2>2. QED
        BY <1>2, <2>1
<1>4. PICK l \in Nat : m = l + 1
    <2>1. m - 1 \in Nat /\ m = (m - 1) + 1
        BY <1>2, <1>3
    <2>2. QED
        BY <2>1, Zenon
<1>5. PICK f : IsUvarint(l, f)
    <2>1. l \notin T
        BY <1>1, <1>4
    <2>2. QED
        BY <2>1
<1> DEFINE last == IF m < Radix THEN <<m>>
                   ELSE <<Radix + (m % Radix)>> \o f[m \div Radix]
           g == [x \in 0 .. m |-> IF x = m THEN last ELSE f[x]]
<1>6. g[m] = last /\ \A x \in 0 .. l : g[x] = f[x]
    BY <1>2, <1>4
<1>7. ASSUME NEW x \in 0 .. m
      PROVE  g[x] = IF x < Radix THEN <<x>>
                    ELSE <<Radix + (x % Radix)>> \o g[x \div Radix]
    <2>1. x >= Radix => x \div Radix \in 0 .. l
        BY Quotient, <1>4
    <2>2. CASE x = m
        <3> HIDE DEF g
        <3>1. QED
            BY <1>6, <2>1, <2>2, RadixFacts
    <2>3. CASE x # m
        <3>1. x \in 0 .. l
            BY <1>4, <2>3
        <3>2. f[x] = IF x < Radix THEN <<x>>
                     ELSE <<Radix + (x % Radix)>> \o f[x \div Radix]
            BY <1>5, <3>1, UvarintAt
        <3> HIDE DEF g
        <3>3. QED
            BY <1>6, <2>1, <3>1, <3>2, RadixFacts
    <2>4. QED
        BY <2>2, <2>3
<1>8. g = [x \in 0 .. m |-> g[x]]
    OBVIOUS
<1> HIDE DEF g
<1>9. IsUvarint(m, g)
    BY <1>7, <1>8 DEF IsUvarint
<1>10. QED
    BY <1>2, <1>9

(* Two such functions agree where both are defined.                        *)
LEMMA UvarintSame ==
    ASSUME NEW m \in Nat, NEW n \in Nat, NEW f, NEW g,
           IsUvarint(m, f), IsUvarint(n, g)
    PROVE  \A x \in Nat : x <= m /\ x <= n => f[x] = g[x]
<1> DEFINE T == {x \in Nat : x <= m /\ x <= n /\ f[x] # g[x]}
<1> SUFFICES ASSUME T # {} PROVE FALSE
    OBVIOUS
<1>1. PICK x \in T : \A y \in T : x <= y
    <2>1. T \in SUBSET Nat
        OBVIOUS
    <2> HIDE DEF T
    <2>2. QED
        BY <2>1, LeastNatural, Zenon
<1>2. x \in Nat /\ x <= m /\ x <= n /\ f[x] # g[x] /\ x \in 0 .. m /\ x \in 0 .. n
    OBVIOUS
<1>3. /\ f[x] = IF x < Radix THEN <<x>>
                ELSE <<Radix + (x % Radix)>> \o f[x \div Radix]
      /\ g[x] = IF x < Radix THEN <<x>>
                ELSE <<Radix + (x % Radix)>> \o g[x \div Radix]
    BY <1>2, UvarintAt
<1>4. x >= Radix
    BY <1>2, <1>3, RadixFacts
<1>5. PICK y \in Nat : y = x \div Radix /\ y < x
    BY <1>2, <1>4, Quotient
<1>6. f[y] = g[y]
    BY <1>1, <1>2, <1>5
<1>7. QED
    BY <1>2, <1>3, <1>5, <1>6

(* The recursive definition of Uvarint holds of every number.              *)
LEMMA UvarintIs ==
    ASSUME NEW x \in Nat
    PROVE  Uvarint[x] = IF x < Radix THEN <<x>>
                        ELSE <<Radix + (x % Radix)>> \o Uvarint[x \div Radix]
<1> DEFINE P(f) == f = [y \in Nat |-> IF y < Radix THEN <<y>>
                                 ELSE <<Radix + (y % Radix)>> \o f[y \div Radix]]
<1>1. Uvarint = CHOOSE f : P(f)
    BY Zenon DEF Uvarint
<1> DEFINE A == [n \in Nat |-> CHOOSE f : IsUvarint(n, f)]
           u == [n \in Nat |-> A[n][n]]
<1>2. \A n \in Nat : IsUvarint(n, A[n])
    BY UvarintUpTo
<1> HIDE DEF A
<1>u. \A n \in Nat : u[n] = A[n][n]
    OBVIOUS
<1>3. ASSUME NEW y \in Nat
      PROVE  u[y] = IF y < Radix THEN <<y>>
                    ELSE <<Radix + (y % Radix)>> \o u[y \div Radix]
    <2>1. u[y] = A[y][y]
        OBVIOUS
    <2>2. A[y][y] = IF y < Radix THEN <<y>>
                    ELSE <<Radix + (y % Radix)>> \o A[y][y \div Radix]
        <3>1. IsUvarint(y, A[y]) /\ y \in 0 .. y
            BY <1>2
        <3>2. QED
            BY <3>1, UvarintAt, Zenon
    <2>3. CASE y < Radix
        BY <2>1, <2>2, <2>3
    <2>4. CASE y >= Radix
        <3>1. PICK z \in Nat : z = y \div Radix /\ z < y
            BY <2>4, Quotient
        <3>2. A[y][z] = A[z][z]
            BY <1>2, <3>1, UvarintSame
        <3> HIDE DEF u
        <3>3. u[z] = A[z][z]
            BY <1>u, <3>1
        <3>4. QED
            BY <2>1, <2>2, <2>4, <3>1, <3>2, <3>3, RadixFacts
    <2>5. QED
        BY <2>3, <2>4, RadixFacts
<1>4. u = [y \in Nat |-> u[y]]
    OBVIOUS
<1> HIDE DEF u
<1>5. P(u)
    BY <1>3, <1>4
<1>6. P(Uvarint)
    <2> HIDE DEF P
    <2>1. QED
        BY <1>1, <1>5, Zenon
<1>7. QED
    BY <1>6

(* The same, by cases.                                                     *)
LEMMA UvarintCases ==
    ASSUME NEW x \in Nat
    PROVE  /\ x < Radix => Uvarint[x] = <<x>>
           /\ x >= Radix =>
                 Uvarint[x] = <<Radix + (x % Radix)>> \o Uvarint[x \div Radix]
<1>1. Uvarint[x] = IF x < Radix THEN <<x>>
                   ELSE <<Radix + (x % Radix)>> \o Uvarint[x \div Radix]
    BY UvarintIs, Zenon
<1>2. x >= Radix => ~ (x < Radix)
    BY RadixFacts
<1>3. QED
    BY <1>1, <1>2, Zenon

(* All bytes of a number but the last say that more follow. *)
IsNumber(b) ==
    /\ b \in Seq(Nat) /\ Len(b) >= 1
    /\ \A j \in 1 .. Len(b) - 1 : b[j] >= Radix
    /\ b[Len(b)] < Radix

(* A number below the radix takes one byte.                                *)
LEMMA OneByte ==
    ASSUME NEW x \in Nat, x < Radix
    PROVE  Uvarint[x] = <<x>> /\ IsNumber(<<x>>)
<1>1. Uvarint[x] = <<x>>
    BY UvarintCases, Zenon
<1>2. QED
    BY <1>1, RadixFacts DEF IsNumber

(* A byte that says that more follow, before a number.                     *)
LEMMA OneByteMore ==
    ASSUME NEW d \in Nat, d >= Radix, NEW b, IsNumber(b)
    PROVE  /\ IsNumber(<<d>> \o b) /\ Len(<<d>> \o b) = Len(b) + 1
           /\ (<<d>> \o b)[1] = d
           /\ \A j \in 1 .. Len(b) : (<<d>> \o b)[j + 1] = b[j]
<1>1. b \in Seq(Nat) /\ Len(b) \in Nat /\ Len(b) >= 1
    BY DEF IsNumber
<1>2. /\ <<d>> \o b \in Seq(Nat) /\ Len(<<d>> \o b) = Len(b) + 1
      /\ (<<d>> \o b)[1] = d
      /\ \A j \in 2 .. Len(b) + 1 : (<<d>> \o b)[j] = b[j - 1]
    BY <1>1
<1>3. \A j \in 1 .. Len(b) : (<<d>> \o b)[j + 1] = b[j]
    BY <1>1, <1>2
<1> DEFINE c == <<d>> \o b
<1>4. ASSUME NEW j \in 1 .. Len(b) PROVE c[j] >= Radix
    <2>1. CASE j = 1
        BY <1>2, <2>1
    <2>2. CASE j # 1
        <3>1. j - 1 \in 1 .. Len(b) - 1 /\ j \in 2 .. Len(b) + 1
            BY <1>1, <2>2
        <3>2. c[j] = b[j - 1]
            BY <1>2, <3>1
        <3>3. QED
            BY <3>1, <3>2 DEF IsNumber
    <2>3. QED
        BY <2>1, <2>2
<1>5. c[Len(b) + 1] < Radix
    <2>1. Len(b) + 1 \in 2 .. Len(b) + 1 /\ (Len(b) + 1) - 1 = Len(b)
        BY <1>1
    <2>2. c[Len(b) + 1] = b[Len(b)]
        BY <1>2, <2>1
    <2>3. QED
        BY <2>2 DEF IsNumber
<1> HIDE DEF c
<1>6. c \in Seq(Nat) /\ Len(c) = Len(b) + 1
    BY <1>2 DEF c
<1>7. IsNumber(c)
    BY <1>1, <1>4, <1>5, <1>6 DEF IsNumber
<1>8. QED
    BY <1>2, <1>3, <1>7 DEF c

(* appendUvarint marks every byte but the last.                            *)
LEMMA UvarintNumber ==
    ASSUME NEW x \in Nat
    PROVE  IsNumber(Uvarint[x])
<1> DEFINE T == {y \in Nat : ~ IsNumber(Uvarint[y])}
<1> SUFFICES ASSUME T # {} PROVE FALSE
    OBVIOUS
<1>1. PICK y \in T : \A z \in T : y <= z
    <2>1. T \in SUBSET Nat
        OBVIOUS
    <2> HIDE DEF T
    <2>2. QED
        BY <2>1, LeastNatural, Zenon
<1>2. y \in Nat /\ ~ IsNumber(Uvarint[y])
    OBVIOUS
<1>3. y >= Radix
    <2>1. CASE y < Radix
        BY <1>2, <2>1, OneByte, Zenon
    <2>2. QED
        BY <1>2, <2>1, RadixFacts
<1>4. PICK z \in Nat, d \in Nat :
         /\ z = y \div Radix /\ z < y /\ d = Radix + (y % Radix) /\ d >= Radix
    <2>1. y \div Radix \in Nat /\ y \div Radix < y /\ y % Radix \in Nat
        BY <1>2, <1>3, Quotient
    <2>2. Radix + (y % Radix) \in Nat /\ Radix + (y % Radix) >= Radix
        BY <2>1, RadixFacts
    <2>3. QED
        BY <2>1, <2>2
<1>5. IsNumber(Uvarint[z])
    BY <1>1, <1>2, <1>4
<1>6. Uvarint[y] = <<d>> \o Uvarint[z]
    BY <1>2, <1>3, <1>4, UvarintCases, Zenon
<1>7. QED
    BY <1>2, <1>4, <1>5, <1>6, OneByteMore

(* It writes a byte at least.                                              *)
LEMMA UvarintLen ==
    ASSUME NEW x \in Nat
    PROVE  Uvarint[x] \in Seq(Nat) /\ Len(Uvarint[x]) \in Nat /\ Len(Uvarint[x]) >= 1
<1>1. PICK b : b = Uvarint[x] /\ IsNumber(b)
    BY UvarintNumber, Zenon
<1>2. b \in Seq(Nat) /\ Len(b) \in Nat /\ Len(b) >= 1
    BY <1>1 DEF IsNumber
<1>3. QED
    BY <1>1, <1>2, Zenon

(* The bytes of a number of two bytes or more. *)
LEMMA UvarintMore ==
    ASSUME NEW x \in Nat, x >= Radix
    PROVE  /\ x \div Radix \in Nat /\ x \div Radix < x
           /\ Uvarint[x] = <<Radix + (x % Radix)>> \o Uvarint[x \div Radix]
           /\ Len(Uvarint[x]) = Len(Uvarint[x \div Radix]) + 1
<1>1. PICK z \in Nat, d \in Nat :
         /\ z = x \div Radix /\ z < x /\ d = Radix + (x % Radix) /\ d >= Radix
    <2>1. x \div Radix \in Nat /\ x \div Radix < x /\ x % Radix \in Nat
        BY Quotient
    <2>2. Radix + (x % Radix) \in Nat /\ Radix + (x % Radix) >= Radix
        BY <2>1, RadixFacts
    <2>3. QED
        BY <2>1, <2>2
<1>2. Uvarint[x] = <<d>> \o Uvarint[z]
    BY <1>1, UvarintCases, Zenon
<1>3. Len(<<d>> \o Uvarint[z]) = Len(Uvarint[z]) + 1
    BY <1>1, UvarintNumber, OneByteMore
<1>4. QED
    BY <1>1, <1>2, <1>3

-----------------------------------------------------------------------------
(* The bytes b are what data has from addr on. *)
Starts(d, a, b) ==
    /\ a + Len(b) <= Len(d)
    /\ \A j \in 1 .. Len(b) : d[a + j] = b[j]

(* Two sequences of bytes one after the other.                             *)
LEMMA StartsBoth ==
    ASSUME NEW d \in Seq(Nat), NEW a \in Nat, NEW b \in Seq(Nat), NEW c \in Seq(Nat)
    PROVE  /\ Len(b \o c) = Len(b) + Len(c) /\ b \o c \in Seq(Nat)
           /\ Starts(d, a, b \o c) <=> Starts(d, a, b) /\ Starts(d, a + Len(b), c)
<1>1. /\ b \o c \in Seq(Nat) /\ Len(b \o c) = Len(b) + Len(c)
      /\ Len(b) \in Nat /\ Len(c) \in Nat /\ Len(d) \in Nat
      /\ \A j \in 1 .. Len(b) : (b \o c)[j] = b[j]
      /\ \A j \in 1 .. Len(c) : (b \o c)[Len(b) + j] = c[j]
    OBVIOUS
<1> DEFINE e == b \o c
<1> HIDE DEF e
<1>2. ASSUME Starts(d, a, e)
      PROVE  Starts(d, a, b) /\ Starts(d, a + Len(b), c)
    <2>1. /\ a + Len(b) + Len(c) <= Len(d)
          /\ \A j \in 1 .. Len(b) + Len(c) : d[a + j] = e[j]
        BY <1>1, <1>2 DEF Starts, e
    <2>2. ASSUME NEW j \in 1 .. Len(c) PROVE d[a + Len(b) + j] = c[j]
        <3>1. Len(b) + j \in 1 .. Len(b) + Len(c) /\ a + (Len(b) + j) = a + Len(b) + j
            BY <1>1
        <3>2. QED
            BY <1>1, <2>1, <3>1 DEF e
    <2>3. \A j \in 1 .. Len(b) : j \in 1 .. Len(b) + Len(c)
        BY <1>1
    <2>4. \A j \in 1 .. Len(b) : d[a + j] = b[j]
        BY <1>1, <2>1, <2>3 DEF e
    <2>5. QED
        BY <1>1, <2>1, <2>2, <2>4 DEF Starts
<1>3. ASSUME Starts(d, a, b), Starts(d, a + Len(b), c)
      PROVE  Starts(d, a, e)
    <2>1. ASSUME NEW j \in 1 .. Len(b) + Len(c) PROVE d[a + j] = e[j]
        <3>1. CASE j <= Len(b)
            BY <1>1, <1>3, <3>1 DEF Starts, e
        <3>2. CASE j > Len(b)
            <4>1. PICK i \in 1 .. Len(c) : j = Len(b) + i
                <5>1. j - Len(b) \in 1 .. Len(c) /\ j = Len(b) + (j - Len(b))
                    BY <1>1, <3>2
                <5>2. QED
                    BY <5>1, Zenon
            <4>2. d[a + Len(b) + i] = c[i] /\ e[Len(b) + i] = c[i]
                BY <1>1, <1>3, <4>1 DEF Starts, e
            <4>3. a + j = a + Len(b) + i
                BY <1>1, <4>1
            <4>4. QED
                BY <4>1, <4>2, <4>3
        <3>3. QED
            BY <1>1, <3>1, <3>2
    <2>2. Len(e) = Len(b) + Len(c)
        BY <1>1 DEF e
    <2>3. a + Len(b) + Len(c) <= Len(d)
        BY <1>3 DEF Starts
    <2>4. a + Len(e) <= Len(d)
        BY <1>1, <2>2, <2>3
    <2>5. QED
        BY <2>1, <2>2, <2>4, Zenon DEF Starts
<1>4. QED
    BY <1>1, <1>2, <1>3 DEF e

-----------------------------------------------------------------------------
(* A value for each of lo .. hi, each made of the next one. *)
Descends(lo, hi, S, base, step, f) ==
    /\ f \in [lo .. hi -> S]
    /\ f[hi] = base
    /\ \A k \in lo .. hi - 1 : f[k] = step[k][f[k + 1]]

(* A recursive definition downward from hi has a solution: the least m     *)
(* from which on there were none would follow one from which on there is   *)
(* one.                                                                    *)
LEMMA Descent ==
    ASSUME NEW lo \in Int, NEW hi \in Int, lo <= hi, NEW S, NEW base \in S,
           NEW step \in [lo .. hi - 1 -> [S -> S]]
    PROVE  \E f : Descends(lo, hi, S, base, step, f)
<1> DEFINE T == {m \in Nat : lo <= hi - m
                              /\ ~ \E f : Descends(hi - m, hi, S, base, step, f)}
<1>1. hi - lo \in Nat /\ hi - (hi - lo) = lo
    OBVIOUS
<1>s. T = {} => \E f : Descends(lo, hi, S, base, step, f)
    <2> SUFFICES ASSUME T = {} PROVE \E f : Descends(lo, hi, S, base, step, f)
        OBVIOUS
    <2>1. PICK m \in Nat : m = hi - lo /\ hi - m = lo
        BY <1>1, Zenon
    <2>2. m \notin T /\ lo <= hi - m
        <3> HIDE DEF T
        <3>1. QED
            BY <2>1
    <2>3. \E f : Descends(hi - m, hi, S, base, step, f)
        BY <2>2
    <2>4. QED
        BY <2>1, <2>3, Zenon
<1> SUFFICES ASSUME T # {} PROVE FALSE
    BY <1>s, Zenon
<1>2. PICK m \in T : \A l \in T : m <= l
    <2>1. T \in SUBSET Nat
        OBVIOUS
    <2> HIDE DEF T
    <2>2. QED
        BY <2>1, LeastNatural, Zenon
<1>3. /\ m \in Nat /\ lo <= hi - m
      /\ ~ \E f : Descends(hi - m, hi, S, base, step, f)
    OBVIOUS
<1>4. m # 0
    <2>1. Descends(hi - 0, hi, S, base, step, [k \in hi .. hi |-> base])
        BY DEF Descends
    <2>2. QED
        BY <1>3, <2>1
<1>5. PICK k \in Int : k = hi - m /\ k < hi /\ lo <= k
    BY <1>3, <1>4
<1>6. PICK f : Descends(k + 1, hi, S, base, step, f)
    <2>1. PICK l \in Nat : l = m - 1 /\ l < m /\ hi - l = k + 1 /\ lo <= hi - l
        <3> HIDE DEF T
        <3>1. QED
            BY <1>3, <1>4, <1>5
    <2>2. l \notin T
        <3> HIDE DEF T
        <3>1. QED
            BY <1>2, <1>3, <2>1
    <2>3. \E f : Descends(hi - l, hi, S, base, step, f)
        BY <2>1, <2>2
    <2>4. QED
        BY <2>1, <2>3, Zenon
<1> DEFINE g == [j \in k .. hi |-> IF j = k THEN step[k][f[k + 1]] ELSE f[j]]
<1>7. /\ k + 1 \in k + 1 .. hi /\ k \in lo .. hi - 1 /\ k \in k .. hi
      /\ \A j \in k .. hi : j # k => j \in k + 1 .. hi
      /\ hi \in k .. hi
    BY <1>5
<1>8. f[k + 1] \in S /\ step[k][f[k + 1]] \in S
    BY <1>6, <1>7 DEF Descends
<1>9. g \in [k .. hi -> S]
    BY <1>6, <1>7, <1>8 DEF Descends
<1>10. \A j \in k + 1 .. hi : g[j] = f[j]
    BY <1>5
<1>11. g[k] = step[k][f[k + 1]] /\ g[hi] = base
    <2>1. g[k] = step[k][f[k + 1]]
        BY <1>7
    <2>2. hi \in k + 1 .. hi
        BY <1>5
    <2> HIDE DEF g
    <2>3. g[hi] = base
        BY <1>6, <1>10, <2>2 DEF Descends
    <2>4. QED
        BY <2>1, <2>3
<1> HIDE DEF g
<1>12. ASSUME NEW j \in k .. hi - 1 PROVE g[j] = step[j][g[j + 1]]
    <2>1. CASE j = k
        BY <1>7, <1>10, <1>11, <2>1
    <2>2. CASE j # k
        <3>1. j \in k + 1 .. hi - 1 /\ j \in k + 1 .. hi /\ j + 1 \in k + 1 .. hi
            BY <1>5, <2>2
        <3>2. f[j] = step[j][f[j + 1]]
            BY <1>6, <3>1 DEF Descends
        <3>3. QED
            BY <1>10, <3>1, <3>2
    <2>3. QED
        BY <2>1, <2>2
<1>13. Descends(k, hi, S, base, step, g)
    BY <1>9, <1>11, <1>12 DEF Descends
<1>14. QED
    BY <1>3, <1>5, <1>13

-----------------------------------------------------------------------------
(* What readUvarint makes of the bytes from lo to hi. *)
IsValue(d, lo, hi, v) ==
    v = [a \in lo .. hi |-> (At(d, a) % Radix)
                                + IF a = hi THEN 0 ELSE Radix * v[a + 1]]

(* The value of the bytes of every range is defined.                       *)
LEMMA ValueExists ==
    ASSUME NEW d \in Seq(Nat), NEW lo \in Nat, NEW hi \in Nat,
           lo <= hi, hi < Len(d)
    PROVE  \E v : IsValue(d, lo, hi, v)
<1> DEFINE step == [a \in lo .. hi - 1 |-> [v \in Nat |->
                       (At(d, a) % Radix) + Radix * v]]
<1>1. \A a \in lo .. hi : At(d, a) \in Nat /\ At(d, a) % Radix \in Nat
    <2>1. \A a \in lo .. hi : At(d, a) \in Nat
        BY DEF At
    <2>2. QED
        BY <2>1, Quotient
<1>2. \A a \in lo .. hi - 1 : \A v \in Nat : (At(d, a) % Radix) + Radix * v \in Nat
    BY <1>1, RadixFacts
<1>3. step \in [lo .. hi - 1 -> [Nat -> Nat]]
    BY <1>2
<1>4. PICK f : Descends(lo, hi, Nat, At(d, hi) % Radix, step, f)
    <2> HIDE DEF step
    <2>1. hi \in lo .. hi /\ lo \in Int /\ hi \in Int
        OBVIOUS
    <2>2. PICK b \in Nat : b = At(d, hi) % Radix
        BY <1>1, <2>1, Zenon
    <2>3. QED
        BY <1>3, <2>1, <2>2, Descent, Zenon
<1>5. ASSUME NEW a \in lo .. hi
      PROVE  f[a] = (At(d, a) % Radix) + IF a = hi THEN 0 ELSE Radix * f[a + 1]
    <2>1. CASE a = hi
        <3>1. f[a] = At(d, a) % Radix
            BY <1>4, <2>1 DEF Descends
        <3>2. QED
            BY <1>1, <2>1, <3>1
    <2>2. CASE a # hi
        <3>1. a \in lo .. hi - 1 /\ a + 1 \in lo .. hi
            BY <2>2
        <3>2. f[a] = step[a][f[a + 1]] /\ f[a + 1] \in Nat
            BY <1>4, <3>1 DEF Descends
        <3>3. step[a][f[a + 1]] = (At(d, a) % Radix) + Radix * f[a + 1]
            BY <3>1, <3>2
        <3>4. QED
            BY <2>2, <3>2, <3>3
    <2>3. QED
        BY <2>1, <2>2
<1>6. f = [a \in lo .. hi |-> f[a]]
    BY <1>4 DEF Descends
<1>7. IsValue(d, lo, hi, f)
    BY <1>5, <1>6, Zenon DEF IsValue
<1>8. QED
    BY <1>7

(* And is the digit and the radix times the value of what follows.         *)
LEMMA ValueAt ==
    ASSUME NEW d, NEW lo \in Nat, NEW hi \in Nat, NEW v,
           IsValue(d, lo, hi, v), NEW a \in lo .. hi
    PROVE  /\ a = hi => v[a] = (At(d, a) % Radix) + 0
           /\ a # hi => v[a] = (At(d, a) % Radix) + Radix * v[a + 1]
    BY DEF IsValue

(* The value of the bytes of x is x: no shorter number is the least for    *)
(* which it is not.                                                        *)
LEMMA ValueOfBytes ==
    ASSUME NEW d \in Seq(Nat), NEW lo \in Nat, NEW hi \in Nat, NEW v,
           IsValue(d, lo, hi, v)
    PROVE  \A x \in Nat : \A a \in lo .. hi :
              Starts(d, a, Uvarint[x]) /\ a + Len(Uvarint[x]) = hi + 1 => v[a] = x
<1> DEFINE Reads(x) == \A a \in lo .. hi :
              Starts(d, a, Uvarint[x]) /\ a + Len(Uvarint[x]) = hi + 1 => v[a] = x
           T == {x \in Nat : ~ Reads(x)}
<1> SUFFICES ASSUME T # {} PROVE FALSE
    OBVIOUS
<1>1. PICK x \in T : \A y \in T : x <= y
    <2>1. T \in SUBSET Nat
        OBVIOUS
    <2> HIDE DEF T
    <2>2. QED
        BY <2>1, LeastNatural, Zenon
<1>2. x \in Nat /\ ~ Reads(x) /\ \A y \in Nat : y < x => Reads(y)
    BY <1>1
<1>3. PICK a \in lo .. hi : /\ Starts(d, a, Uvarint[x])
                            /\ a + Len(Uvarint[x]) = hi + 1 /\ v[a] # x
    BY <1>2
<1> HIDE DEF T, Reads
<1>4. /\ a \in Nat
      /\ a = hi => v[a] = (At(d, a) % Radix) + 0
      /\ a # hi => v[a] = (At(d, a) % Radix) + Radix * v[a + 1]
    <2>1. a \in Nat
        OBVIOUS
    <2>2. /\ a = hi => v[a] = (At(d, a) % Radix) + 0
          /\ a # hi => v[a] = (At(d, a) % Radix) + Radix * v[a + 1]
        <3>1. IsValue(d, lo, hi, v) /\ lo \in Nat /\ hi \in Nat /\ a \in lo .. hi
            OBVIOUS
        <3>2. QED
            BY <3>1, ValueAt
    <2>3. QED
        BY <2>1, <2>2, Zenon
<1>5. CASE x < Radix
    <2>1. Uvarint[x] = <<x>>
        BY <1>2, <1>5, OneByte
    <2>2. At(d, a) = x /\ a = hi
        BY <1>3, <1>4, <2>1 DEF Starts, At
    <2>3. x % Radix = x
        BY <1>2, <1>5, Remainder
    <2>4. QED
        BY <1>2, <1>3, <1>4, <2>2, <2>3
<1>6. CASE x >= Radix
    <2>1. PICK z \in Nat, r \in Nat :
             /\ z = x \div Radix /\ z < x /\ r = x % Radix /\ r < Radix
             /\ x = r + Radix * z
        BY <1>2, <1>6, Quotient
    <2>2. /\ Uvarint[x] = <<Radix + r>> \o Uvarint[z]
          /\ Len(Uvarint[x]) = Len(Uvarint[z]) + 1
        BY <1>2, <1>6, <2>1, UvarintMore
    <2>3. Uvarint[z] \in Seq(Nat) /\ Len(Uvarint[z]) \in Nat /\ Len(Uvarint[z]) >= 1
        BY <2>1, UvarintNumber DEF IsNumber
    <2>4. <<Radix + r>> \in Seq(Nat) /\ Len(<<Radix + r>>) = 1
        BY <2>1, RadixFacts
    <2>5. Starts(d, a, <<Radix + r>>) /\ Starts(d, a + 1, Uvarint[z])
        <3>1. PICK b \in Seq(Nat), c \in Seq(Nat) :
                 b = <<Radix + r>> /\ c = Uvarint[z] /\ Len(b) = 1
            BY <2>3, <2>4, Zenon
        <3>2. Starts(d, a, b \o c)
            BY <1>3, <2>2, <3>1, Zenon
        <3>3. Starts(d, a, b) /\ Starts(d, a + Len(b), c)
            BY <1>4, <3>2, StartsBoth, Zenon
        <3>4. QED
            BY <3>1, <3>3, Zenon
    <2>6. At(d, a) = Radix + r
        BY <2>4, <2>5 DEF Starts, At
    <2>7. (Radix + r) % Radix = r
        BY <2>1, Remainder
    <2>8. a + 1 \in lo .. hi /\ (a + 1) + Len(Uvarint[z]) = hi + 1 /\ a # hi
        <3>1. PICK m \in Nat : m = Len(Uvarint[z]) /\ m >= 1
            BY <2>3
        <3>2. a + (m + 1) = hi + 1
            BY <1>3, <2>2, <3>1, Zenon
        <3>3. a \in Nat /\ lo <= a /\ m >= 1
            BY <3>1
        <3>4. a + 1 \in lo .. hi /\ (a + 1) + m = hi + 1 /\ a # hi
            BY <3>2, <3>3
        <3>5. QED
            BY <3>1, <3>4, Zenon
    <2>9. v[a + 1] = z
        BY <1>2, <2>1, <2>5, <2>8 DEF Reads
    <2>10. QED
        BY <1>3, <1>4, <2>1, <2>6, <2>7, <2>8, <2>9
<1>7. QED
    BY <1>2, <1>5, <1>6, RadixFacts

-----------------------------------------------------------------------------
(* The parts of readUvarint. *)
EndsAt(d, a, k) == a + k < Len(d) /\ At(d, a + k) < Radix

LastByte(d, a) == CHOOSE k \in 0 .. MaxUvarintLen - 1 :
                      EndsAt(d, a, k) /\ \A m \in 0 .. k - 1 : ~ EndsAt(d, a, m)

ValuesOf(d, lo, hi) == CHOOSE v : IsValue(d, lo, hi, v)

(* ReadUvarint, said with these parts.                                     *)
LEMMA ReadParts ==
    ASSUME NEW d, NEW a
    PROVE  ReadUvarint(d, a) =
              IF EndsAt(d, a, 0) THEN [value |-> At(d, a), addr |-> a + 1]
              ELSE IF \E k \in 1 .. MaxUvarintLen - 1 : EndsAt(d, a, k)
              THEN [value |-> ValuesOf(d, a, a + LastByte(d, a))[a],
                    addr |-> a + LastByte(d, a) + 1]
              ELSE [value |-> 0, addr |-> -1]
    BY Zenon DEF ReadUvarint, EndsAt, LastByte, ValuesOf, IsValue

(* readUvarint reads what appendUvarint wrote, if it is not too long.      *)
LEMMA ReadsBack ==
    ASSUME NEW d \in Seq(Nat), NEW a \in Nat, NEW x \in Nat,
           Starts(d, a, Uvarint[x]), Len(Uvarint[x]) <= MaxUvarintLen
    PROVE  /\ ReadUvarint(d, a).value = x
           /\ ReadUvarint(d, a).addr = a + Len(Uvarint[x])
<1>1. PICK b : b = Uvarint[x] /\ b \in Seq(Nat) /\ IsNumber(b)
    BY UvarintNumber, UvarintLen, Zenon
<1>n. PICK n \in Nat : n = Len(b) /\ n = Len(Uvarint[x])
    BY <1>1
<1>i. n \in Nat /\ 1 <= n /\ n <= 10
    BY <1>1, <1>n, UvarintLen DEF MaxUvarintLen
<1>2. Starts(d, a, b) /\ a + n <= Len(d) /\ Len(d) \in Nat
    BY <1>1, <1>n DEF Starts
<1>3. ASSUME NEW k \in 0 .. n - 1 PROVE At(d, a + k) = b[k + 1] /\ a + k < Len(d)
    <2>1. k + 1 \in 1 .. n /\ (a + k) + 1 = a + (k + 1)
        BY <1>i
    <2>2. d[a + (k + 1)] = b[k + 1]
        BY <1>n, <1>2, <2>1 DEF Starts
    <2>3. QED
        BY <1>i, <1>2, <2>1, <2>2 DEF At
<1>4. EndsAt(d, a, n - 1)
    <2>1. n - 1 \in 0 .. n - 1 /\ (n - 1) + 1 = n
        BY <1>i
    <2>2. b[n] < Radix
        BY <1>1, <1>n DEF IsNumber
    <2>3. QED
        BY <1>3, <2>1, <2>2 DEF EndsAt
<1>5. ASSUME NEW k \in 0 .. n - 2 PROVE ~ EndsAt(d, a, k)
    <2>1. k \in 0 .. n - 1 /\ k + 1 \in 1 .. n - 1 /\ k + 1 \in 1 .. n
        BY <1>i
    <2>2. b[k + 1] \in Nat /\ b[k + 1] >= Radix
        <3>1. \A j \in 1 .. n - 1 : b[j] >= Radix
            BY <1>1, <1>n, Zenon DEF IsNumber
        <3>2. k + 1 \in DOMAIN b
            BY <1>1, <1>n, <2>1
        <3>3. b[k + 1] \in Nat
            BY <1>1, <3>2, ElementOfSeq, LenProperties
        <3>4. QED
            BY <2>1, <3>1, <3>3, Zenon
    <2>3. QED
        BY <1>3, <2>1, <2>2, RadixFacts DEF EndsAt
<1>6. CASE n = 1
    <2>1. EndsAt(d, a, 0) /\ At(d, a) = b[1]
        <3>1. n - 1 = 0 /\ 0 \in 0 .. n - 1 /\ a + 0 = a /\ 0 + 1 = 1
            BY <1>6
        <3>2. At(d, a + 0) = b[0 + 1]
            BY <1>3, <3>1, Zenon
        <3>3. QED
            BY <1>4, <3>1, <3>2
    <2>3. x < Radix
        <3>1. CASE x >= Radix
            <4>1. PICK z \in Nat : Len(Uvarint[x]) = Len(Uvarint[z]) + 1
                BY <3>1, UvarintMore, Zenon
            <4>2. PICK m \in Nat : m = Len(Uvarint[z]) /\ m >= 1
                BY UvarintLen, Zenon
            <4>3. n = m + 1
                BY <1>n, <4>1, <4>2, Zenon
            <4>4. QED
                BY <1>6, <4>2, <4>3
        <3>2. QED
            BY <3>1, RadixFacts
    <2>4. b = <<x>>
        BY <1>1, <2>3, OneByte, Zenon
    <2>5. ReadUvarint(d, a) = [value |-> At(d, a), addr |-> a + 1]
        BY <2>1, ReadParts, Zenon
    <2>6. ReadUvarint(d, a) = [value |-> x, addr |-> a + n]
        BY <1>6, <2>1, <2>4, <2>5
    <2>7. QED
        BY <1>n, <2>6
<1>7. CASE n # 1
    <2>1. ~ EndsAt(d, a, 0)
        <3>1. 0 \in 0 .. n - 2
            BY <1>i, <1>7
        <3>2. QED
            BY <1>5, <3>1, Zenon
    <2>2. n - 1 \in 1 .. MaxUvarintLen - 1 /\ n - 1 \in 0 .. MaxUvarintLen - 1
        <3>1. n - 1 \in 1 .. 10 - 1 /\ n - 1 \in 0 .. 10 - 1
            BY <1>i, <1>7
        <3>2. QED
            BY <3>1, Zenon DEF MaxUvarintLen
    <2>3. LastByte(d, a) = n - 1
        <3> DEFINE Q(k) == EndsAt(d, a, k) /\ \A m \in 0 .. k - 1 : ~ EndsAt(d, a, m)
        <3>1. Q(n - 1)
            <4>1. (n - 1) - 1 = n - 2
                BY <1>i
            <4>2. QED
                BY <1>4, <1>5, <4>1, Zenon
        <3>2. \A k \in 0 .. MaxUvarintLen - 1 : Q(k) => k = n - 1
            <4>1. ASSUME NEW k \in 0 .. MaxUvarintLen - 1, Q(k), k # n - 1
                  PROVE  FALSE
                <5>1. k \in Nat
                    BY DEF MaxUvarintLen
                <5>2. CASE k < n - 1
                    <6>1. k \in 0 .. n - 2
                        BY <1>i, <5>1, <5>2
                    <6>2. QED
                        BY <1>5, <4>1, <6>1
                <5>3. CASE k > n - 1
                    <6>1. n - 1 \in 0 .. k - 1
                        BY <1>i, <5>1, <5>3
                    <6>2. QED
                        BY <1>4, <4>1, <6>1
                <5>4. QED
                    BY <1>i, <4>1, <5>1, <5>2, <5>3
            <4>2. QED
                BY <4>1, Zenon
        <3>3. LastByte(d, a) = CHOOSE k \in 0 .. MaxUvarintLen - 1 : Q(k)
            BY Zenon DEF LastByte
        <3> HIDE DEF Q
        <3>4. QED
            BY <2>2, <3>1, <3>2, <3>3
    <2>4. PICK hi \in Nat : hi = a + (n - 1) /\ hi < Len(d) /\ a <= hi /\ hi + 1 = a + n
        <3>1. a + (n - 1) \in Nat /\ a + (n - 1) < Len(d) /\ a <= a + (n - 1)
              /\ (a + (n - 1)) + 1 = a + n
            BY <1>i, <1>2
        <3>2. QED
            BY <3>1, Zenon
    <2>5. IsValue(d, a, hi, ValuesOf(d, a, hi))
        BY <2>4, ValueExists, Zenon DEF ValuesOf
    <2>6. ValuesOf(d, a, hi)[a] = x
        <3>1. a \in a .. hi /\ a + Len(Uvarint[x]) = hi + 1
            BY <1>n, <2>4
        <3>2. \A y \in Nat : \A e \in a .. hi :
                 Starts(d, e, Uvarint[y]) /\ e + Len(Uvarint[y]) = hi + 1
                    => ValuesOf(d, a, hi)[e] = y
            BY <2>4, <2>5, ValueOfBytes
        <3>3. QED
            BY <3>1, <3>2, Zenon
    <2>7. ReadUvarint(d, a) = [value |-> ValuesOf(d, a, a + LastByte(d, a))[a],
                               addr |-> a + LastByte(d, a) + 1]
        BY <1>4, <2>1, <2>2, ReadParts, Zenon
    <2>8. a + LastByte(d, a) + 1 = a + n
        BY <1>i, <2>3
    <2>9. ReadUvarint(d, a) = [value |-> x, addr |-> a + n]
        BY <2>3, <2>4, <2>6, <2>7, <2>8, Zenon
    <2>10. QED
        BY <1>n, <2>9
<1>8. QED
    BY <1>6, <1>7

-----------------------------------------------------------------------------
(* How long a number gets. *)
ShortBelow(limit, n) == \A x \in Nat : x < limit => Len(Uvarint[x]) <= n

(* A limit that is the radix times as high costs one more byte.            *)
LEMMA LongerByOne ==
    ASSUME NEW limit \in Nat, NEW n \in Nat, ShortBelow(limit, n), n >= 1
    PROVE  Radix * limit \in Nat /\ ShortBelow(Radix * limit, n + 1)
<1>1. Radix * limit \in Nat
    BY RadixFacts
<1>2. ASSUME NEW x \in Nat, x < Radix * limit PROVE Len(Uvarint[x]) <= n + 1
    <2>1. CASE x < Radix
        <3>1. Uvarint[x] = <<x>>
            BY <2>1, OneByte, Zenon
        <3>2. QED
            BY <3>1
    <2>2. CASE x >= Radix
        <3>1. PICK z \in Nat, r \in Nat : z = x \div Radix /\ x = r + Radix * z
            BY Quotient
        <3>2. z < limit
            BY <1>2, <3>1, RadixFacts
        <3>3. Len(Uvarint[x]) = Len(Uvarint[z]) + 1 /\ Len(Uvarint[z]) \in Nat
            BY <2>2, <3>1, UvarintMore, UvarintLen, Zenon
        <3>4. Len(Uvarint[z]) <= n
            BY <3>2 DEF ShortBelow
        <3>5. QED
            BY <3>3, <3>4
    <2>3. QED
        BY <2>1, <2>2, RadixFacts
<1>3. QED
    BY <1>1, <1>2 DEF ShortBelow

(* A byte has room for a bit besides the mark.                             *)
LEMMA ByteFacts == Byte \in Nat /\ Byte >= 4
    BY RadixFacts DEF Byte

(* Division in any base, of a number below a multiple of it.               *)
LEMMA Digits ==
    ASSUME NEW B \in Nat, B >= 2, NEW x \in Nat, NEW L \in Nat, x < B * L
    PROVE  /\ x \div B \in Nat /\ x % B \in Nat
           /\ x = (x % B) + B * (x \div B) /\ x \div B < L
<1>1. /\ x \div B \in Nat /\ x % B \in Nat
      /\ x = (x % B) + B * (x \div B)
    OBVIOUS
<1>2. PICK q \in Nat, r \in Nat : q = x \div B /\ r = x % B /\ x = r + B * q
    BY <1>1
<1>3. q < L
    BY <1>2
<1>4. QED
    BY <1>1, <1>2, <1>3

(* The numbers that the four bytes of the header have room for. *)
Uint32Limit == Byte * (Byte * (Byte * Byte))

(* What PutUint32 writes is what Uint32 reads.                             *)
LEMMA Uint32Back ==
    ASSUME NEW x \in Nat, x < Uint32Limit
    PROVE  /\ PutUint32(x) \in Seq(Nat) /\ Len(PutUint32(x)) = 4
           /\ x = PutUint32(x)[1] + Byte * (PutUint32(x)[2]
                     + Byte * (PutUint32(x)[3] + Byte * PutUint32(x)[4]))
<1>0. Byte \in Nat /\ Byte >= 2 /\ Byte * Byte \in Nat /\ Byte * (Byte * Byte) \in Nat
    BY ByteFacts
<1>1. PICK q1 \in Nat, r1 \in Nat :
         /\ q1 = x \div Byte /\ r1 = x % Byte
         /\ x = r1 + Byte * q1 /\ q1 < Byte * (Byte * Byte)
    BY <1>0, Digits DEF Uint32Limit
<1>2. PICK q2 \in Nat, r2 \in Nat :
         /\ q2 = q1 \div Byte /\ r2 = q1 % Byte
         /\ q1 = r2 + Byte * q2 /\ q2 < Byte * Byte
    BY <1>0, <1>1, Digits
<1>3. PICK q3 \in Nat, r3 \in Nat :
         /\ q3 = q2 \div Byte /\ r3 = q2 % Byte
         /\ q2 = r3 + Byte * q3 /\ q3 < Byte
    BY <1>0, <1>2, Digits
<1>4. q3 % Byte = q3
    BY <1>0, <1>3
<1>5. PutUint32(x) = <<r1, r2, r3, q3>>
    BY <1>1, <1>2, <1>3, <1>4, Zenon DEF PutUint32
<1>6. x = r1 + Byte * (r2 + Byte * (r3 + Byte * q3))
    BY <1>1, <1>2, <1>3, Zenon
<1>7. QED
    BY <1>5, <1>6

(* A limit that is a byte longer costs two more bytes at most.             *)
LEMMA LongerByTwo ==
    ASSUME NEW limit \in Nat, NEW n \in Nat, ShortBelow(limit, n), n >= 1
    PROVE  Byte * limit \in Nat /\ ShortBelow(Byte * limit, n + 2)
<1>1. PICK l \in Nat : l = Radix * limit /\ ShortBelow(l, n + 1)
    BY LongerByOne
<1>2. PICK k \in Nat : k = Radix * l /\ ShortBelow(k, n + 2)
    <2>1. n + 1 \in Nat /\ n + 1 >= 1 /\ (n + 1) + 1 = n + 2
        OBVIOUS
    <2>2. Radix * l \in Nat /\ ShortBelow(Radix * l, (n + 1) + 1)
        BY <1>1, <2>1, LongerByOne
    <2>3. QED
        BY <2>1, <2>2
<1>3. Byte * limit \in Nat /\ Byte * limit <= k
    <2>1. 2 * limit <= l
        BY <1>1, RadixFacts
    <2>2. Radix * (2 * limit) <= Radix * l
        BY <2>1, <1>1, RadixFacts
    <2>3. Byte * limit = Radix * (2 * limit)
        BY RadixFacts DEF Byte
    <2>4. QED
        BY <1>2, <2>2, <2>3, RadixFacts
<1>4. QED
    BY <1>2, <1>3 DEF ShortBelow

(* Numbers that have four bytes of the header take no more than ten bytes  *)
(* of the index.                                                           *)
LEMMA LimitShort == ShortBelow(Uint32Limit, MaxUvarintLen)
<1>1. ShortBelow(1, 1)
    <2>1. ASSUME NEW x \in Nat, x < 1 PROVE Len(Uvarint[x]) <= 1
        <3>1. x = 0 /\ x < Radix
            BY <2>1, RadixFacts
        <3>2. Uvarint[x] = <<x>>
            BY <3>1, OneByte, Zenon
        <3>3. QED
            BY <3>2
    <2>2. QED
        BY <2>1 DEF ShortBelow
<1>2. Byte * 1 = Byte /\ Byte \in Nat
    BY ByteFacts
<1>3. ShortBelow(Byte, 3)
    BY <1>1, <1>2, LongerByTwo
<1>4. PICK a \in Nat : a = Byte * Byte /\ ShortBelow(a, 5)
    BY <1>2, <1>3, LongerByTwo
<1>5. PICK b \in Nat : b = Byte * a /\ ShortBelow(b, 7)
    BY <1>4, LongerByTwo
<1>6. PICK c \in Nat : c = Byte * b /\ ShortBelow(c, 9)
    BY <1>5, LongerByTwo
<1>7. c = Uint32Limit
    BY <1>4, <1>5, <1>6, Zenon DEF Uint32Limit
<1>8. ASSUME NEW x \in Nat, x < c PROVE Len(Uvarint[x]) <= 10
    <2>1. PICK l \in Nat : l = Len(Uvarint[x])
        BY UvarintLen, Zenon
    <2>2. l <= 9
        BY <1>6, <1>8, <2>1 DEF ShortBelow
    <2>3. QED
        BY <2>1, <2>2
<1>9. QED
    BY <1>7, <1>8 DEF ShortBelow, MaxUvarintLen

-----------------------------------------------------------------------------
(* Sorting. *)
NotAfter(items, k) == {j \in DOMAIN items :
                          items[j] < items[k] \/ (items[j] = items[k] /\ j <= k)}

(* Ranks are places, are ordered as the items are, and differ.             *)
LEMMA RankOrder ==
    ASSUME NEW items \in Seq(Nat), NEW j \in DOMAIN items, NEW k \in DOMAIN items
    PROVE  /\ Rank(items, k) \in 1 .. Len(items)
           /\ j # k /\ j \in NotAfter(items, k) => Rank(items, j) < Rank(items, k)
           /\ j # k => j \in NotAfter(items, k) \/ k \in NotAfter(items, j)
<1> DEFINE J == NotAfter(items, j)
           K == NotAfter(items, k)
<1>1. /\ DOMAIN items = 1 .. Len(items) /\ Len(items) \in Nat
      /\ \A i \in DOMAIN items : items[i] \in Nat /\ i \in Nat
    OBVIOUS
<1>2. J \subseteq DOMAIN items /\ K \subseteq DOMAIN items /\ k \in K /\ j \in J
    BY <1>1 DEF NotAfter
<1>3. Rank(items, j) = Cardinality(J) /\ Rank(items, k) = Cardinality(K)
    BY DEF Rank, NotAfter
<1>4. IsFiniteSet(DOMAIN items) /\ Cardinality(DOMAIN items) = Len(items)
    <2>1. PICK n \in Nat : n = Len(items) /\ DOMAIN items = 1 .. n
        BY <1>1
    <2>2. /\ IsFiniteSet(1 .. n)
          /\ Cardinality(1 .. n) = IF 1 > n THEN 0 ELSE n - 1 + 1
        BY FS_Interval
    <2>3. Cardinality(1 .. n) = n
        BY <2>2
    <2>4. QED
        BY <2>1, <2>2, <2>3
<1>5. /\ IsFiniteSet(K) /\ Cardinality(K) <= Len(items)
      /\ IsFiniteSet(J) /\ Cardinality(J) <= Len(items)
    BY <1>2, <1>4, FS_Subset
<1>6. Cardinality(K) \in Nat /\ Cardinality(J) \in Nat
    BY <1>5, FS_CardinalityType
<1>7. Cardinality(K) # 0
    BY <1>2, <1>5, FS_EmptySet
<1>8. ASSUME j # k, j \in K PROVE Rank(items, j) < Rank(items, k)
    <2>1. J \subseteq K
        BY <1>1, <1>8 DEF NotAfter
    <2>2. k \notin J
        BY <1>1, <1>8 DEF NotAfter
    <2>3. Cardinality(J) <= Cardinality(K) /\ Cardinality(J) # Cardinality(K)
        <3> HIDE DEF J, K
        <3>1. J \in SUBSET K /\ J # K
            BY <1>2, <2>1, <2>2
        <3>2. QED
            BY <1>5, <3>1, FS_Subset
    <2>4. QED
        BY <1>3, <1>6, <2>3
<1>9. j # k => j \in K \/ k \in J
    BY <1>1 DEF NotAfter
<1>10. QED
    BY <1>1, <1>3, <1>5, <1>6, <1>7, <1>8, <1>9

(* Each place is the rank of one item. *)
LEMMA RankOnto ==
    ASSUME NEW items \in Seq(Nat), NEW r \in DOMAIN items
    PROVE  \E k \in DOMAIN items : Rank(items, k) = r
<1> DEFINE D == DOMAIN items
           f == [k \in D |-> Rank(items, k)]
<1>1. D = 1 .. Len(items) /\ Len(items) \in Nat
    OBVIOUS
<1>2. f \in [D -> D]
    BY <1>1, RankOrder
<1>3. ASSUME NEW j \in D, NEW k \in D, j # k PROVE f[j] # f[k]
    <2>1. Rank(items, j) \in Nat /\ Rank(items, k) \in Nat
        BY <1>1, RankOrder
    <2>2. Rank(items, j) < Rank(items, k) \/ Rank(items, k) < Rank(items, j)
        BY <1>3, RankOrder
    <2>3. QED
        BY <2>1, <2>2
<1>4. f \in Injection(D, D)
    BY <1>2, <1>3 DEF Injection, IsInjective
<1>5. IsFiniteSet(D)
    BY <1>1, FS_Interval
<1>6. f \in Surjection(D, D)
    BY <1>4, <1>5, FS_Injection, Zenon
<1>7. PICK k \in D : f[k] = r
    BY <1>6 DEF Surjection
<1>8. QED
    BY <1>7

(* Sorted is in order and has the items and nothing else.                  *)
LEMMA SortedFacts ==
    ASSUME NEW items \in Seq(Nat)
    PROVE  /\ Sorted(items) \in Seq(Nat) /\ Len(Sorted(items)) = Len(items)
           /\ DOMAIN Sorted(items) = 1 .. Len(items) /\ Len(items) \in Nat
           /\ \A i, j \in DOMAIN items : i < j => Sorted(items)[i] <= Sorted(items)[j]
           /\ \A r \in DOMAIN items : \E k \in DOMAIN items : Sorted(items)[r] = items[k]
           /\ \A k \in DOMAIN items : \E r \in DOMAIN items : Sorted(items)[r] = items[k]
           /\ (\A i, j \in DOMAIN items : items[i] = items[j] => i = j) =>
                 \A i, j \in DOMAIN items : Sorted(items)[i] = Sorted(items)[j] => i = j
<1> DEFINE D == DOMAIN items
           p == [r \in D |-> CHOOSE k \in D : Rank(items, k) = r]
           s == Sorted(items)
<1>1. D = 1 .. Len(items) /\ Len(items) \in Nat /\ \A i \in D : items[i] \in Nat /\ i \in Nat
    OBVIOUS
<1>2. \A r \in D : p[r] \in D /\ Rank(items, p[r]) = r
    BY RankOnto
<1>3. \A r \in D : s[r] = items[p[r]]
    BY DEF Sorted
<1>4. s = [r \in D |-> items[p[r]]]
    BY DEF Sorted
<1> HIDE DEF p, s
<1>5. s \in [D -> Nat]
    BY <1>1, <1>2, <1>4
<1>6. s \in Seq(Nat) /\ Len(s) = Len(items) /\ DOMAIN s = 1 .. Len(items)
    BY <1>1, <1>5
<1>7. \A k \in D : Rank(items, k) \in D /\ p[Rank(items, k)] = k
    <2>1. ASSUME NEW k \in D PROVE Rank(items, k) \in D /\ p[Rank(items, k)] = k
        <3>1. PICK r \in D : r = Rank(items, k)
            BY <1>1, RankOrder
        <3>2. PICK m \in D : m = p[r] /\ Rank(items, m) = r
            BY <1>2, <3>1
        <3>3. CASE m # k
            <4>1. Rank(items, m) < Rank(items, k) \/ Rank(items, k) < Rank(items, m)
                BY <3>3, RankOrder
            <4>2. QED
                BY <1>1, <3>1, <3>2, <4>1
        <3>4. QED
            BY <3>1, <3>2, <3>3
    <2>2. QED
        BY <2>1
<1>8. ASSUME NEW i \in D, NEW j \in D, i < j PROVE s[i] <= s[j]
    <2>1. PICK a \in D, b \in D : /\ a = p[i] /\ b = p[j]
                                  /\ Rank(items, a) = i /\ Rank(items, b) = j
        BY <1>2
    <2>2. i \in Nat /\ j \in Nat /\ a # b
        BY <1>1, <1>8, <2>1
    <2>3. a \in NotAfter(items, b)
        BY <1>8, <2>1, <2>2, RankOrder
    <2>4. items[a] <= items[b]
        BY <1>1, <2>3 DEF NotAfter
    <2>5. QED
        BY <1>3, <2>1, <2>4
<1>9. \A r \in D : \E k \in D : s[r] = items[k]
    BY <1>2, <1>3
<1>10. \A k \in D : \E r \in D : s[r] = items[k]
    BY <1>3, <1>7
<1>11. ASSUME \A i, j \in D : items[i] = items[j] => i = j,
              NEW i \in D, NEW j \in D, s[i] = s[j]
       PROVE  i = j
    <2>1. items[p[i]] = items[p[j]] /\ p[i] \in D /\ p[j] \in D
        BY <1>2, <1>3, <1>11, Zenon
    <2>3. p[i] = p[j]
        BY <1>11, <2>1, Zenon
    <2>4. QED
        BY <1>2, <2>3, Zenon
<1>12. QED
    BY <1>1, <1>6, <1>8, <1>9, <1>10, <1>11 DEF s

-----------------------------------------------------------------------------
(* The differences. *)
Difference(sorted, k) == sorted[k] - IF k = 1 THEN 0 ELSE sorted[k - 1]

Increasing(sorted) ==
    /\ sorted \in Seq(Nat)
    /\ \A i, j \in DOMAIN sorted : i < j => sorted[i] <= sorted[j]

IsDifferences(sorted, f) ==
    f = [k \in 1 .. Len(sorted) + 1 |->
            IF k > Len(sorted) THEN <<>>
            ELSE Uvarint[Difference(sorted, k)] \o f[k + 1]]

(* Of a sorted sequence no difference is negative.                         *)
LEMMA DifferenceNat ==
    ASSUME NEW sorted, Increasing(sorted), NEW k \in 1 .. Len(sorted)
    PROVE  Difference(sorted, k) \in Nat /\ Difference(sorted, k) <= sorted[k]
           /\ sorted[k] \in Nat
<1>1. sorted \in Seq(Nat) /\ k \in DOMAIN sorted
    BY DEF Increasing
<1>2. CASE k = 1
    BY <1>1, <1>2 DEF Difference
<1>3. CASE k # 1
    <2>1. k - 1 \in DOMAIN sorted /\ k - 1 < k
        BY <1>1, <1>3
    <2>2. sorted[k - 1] \in Nat /\ sorted[k] \in Nat /\ sorted[k - 1] <= sorted[k]
        BY <1>1, <2>1 DEF Increasing
    <2>3. QED
        BY <1>3, <2>2 DEF Difference
<1>4. QED
    BY <1>2, <1>3

(* The bytes from the k-th difference on are that difference and the       *)
(* bytes from the next one on.                                             *)
LEMMA DifferencesAre ==
    ASSUME NEW sorted, Increasing(sorted)
    PROVE  LET n == Len(sorted)
               f == Differences(sorted)
           IN  /\ n \in Nat /\ f \in [1 .. n + 1 -> Seq(Nat)]
               /\ f[n + 1] = <<>>
               /\ \A k \in 1 .. n : f[k] = Uvarint[Difference(sorted, k)] \o f[k + 1]
<1>1. PICK n \in Nat : n = Len(sorted)
    BY DEF Increasing
<1> DEFINE u == [k \in 1 .. n |-> Uvarint[Difference(sorted, k)]]
           step == [k \in 1 .. n |-> [s \in Seq(Nat) |-> u[k] \o s]]
<1>2. \A k \in 1 .. n : u[k] = Uvarint[Difference(sorted, k)] /\ u[k] \in Seq(Nat)
    <2>1. ASSUME NEW k \in 1 .. n PROVE Uvarint[Difference(sorted, k)] \in Seq(Nat)
        <3>1. Difference(sorted, k) \in Nat
            BY <1>1, DifferenceNat
        <3>2. QED
            BY <3>1, UvarintLen, Zenon
    <2>2. QED
        BY <2>1
<1> HIDE DEF u
<1>3. step \in [1 .. n -> [Seq(Nat) -> Seq(Nat)]]
    BY <1>2
<1>4. \A k \in 1 .. n : \A s \in Seq(Nat) : step[k][s] = u[k] \o s
    OBVIOUS
<1> HIDE DEF step
<1>5. PICK f : Descends(1, n + 1, Seq(Nat), <<>>, step, f)
    <2>1. (n + 1) - 1 = n /\ 1 \in Int /\ n + 1 \in Int /\ 1 <= n + 1 /\ <<>> \in Seq(Nat)
        OBVIOUS
    <2>2. step \in [1 .. (n + 1) - 1 -> [Seq(Nat) -> Seq(Nat)]]
        BY <1>3, <2>1
    <2>3. QED
        BY <2>1, <2>2, Descent, Zenon
<1>6. ASSUME NEW k \in 1 .. n + 1
      PROVE  f[k] = IF k > n THEN <<>> ELSE Uvarint[Difference(sorted, k)] \o f[k + 1]
    <2>1. CASE k > n
        <3>1. k = n + 1
            BY <2>1
        <3>2. f[n + 1] = <<>>
            BY <1>5, Zenon DEF Descends
        <3>3. QED
            BY <2>1, <3>1, <3>2, Zenon
    <2>2. CASE k <= n
        <3>1. k \in 1 .. n /\ k \in 1 .. (n + 1) - 1 /\ k + 1 \in 1 .. n + 1 /\ ~ (k > n)
            BY <2>2
        <3>2. f[k] = step[k][f[k + 1]] /\ f[k + 1] \in Seq(Nat)
            BY <1>5, <3>1 DEF Descends
        <3>3. f[k] = Uvarint[Difference(sorted, k)] \o f[k + 1]
            <4>1. step[k][f[k + 1]] = u[k] \o f[k + 1]
                BY <1>4, <3>1, <3>2, Zenon
            <4>2. u[k] = Uvarint[Difference(sorted, k)]
                BY <1>2, <3>1, Zenon
            <4>3. QED
                BY <3>2, <4>1, <4>2, Zenon
        <3>4. QED
            BY <3>1, <3>3, Zenon
    <2>3. QED
        BY <2>1, <2>2
<1>7. f = [k \in 1 .. n + 1 |-> f[k]]
    BY <1>5 DEF Descends
<1>8. IsDifferences(sorted, f)
    BY <1>1, <1>6, <1>7, Zenon DEF IsDifferences
<1>9. Differences(sorted) = CHOOSE g : IsDifferences(sorted, g)
    BY Zenon DEF Differences, IsDifferences, Difference
<1>10. PICK g : g = Differences(sorted) /\ IsDifferences(sorted, g)
    BY <1>8, <1>9, Zenon
<1>11. ASSUME NEW k \in 1 .. n + 1
       PROVE  /\ k > n => g[k] = <<>>
              /\ ~ (k > n) => g[k] = Uvarint[Difference(sorted, k)] \o g[k + 1]
    BY <1>1, <1>10 DEF IsDifferences
<1> DEFINE T == {k \in Nat : k <= n /\ g[(n + 1) - k] \notin Seq(Nat)}
<1>12. T = {}
    <2> SUFFICES ASSUME T # {} PROVE FALSE
        OBVIOUS
    <2>1. PICK m \in T : \A l \in T : m <= l
        <3>1. T \in SUBSET Nat
            OBVIOUS
        <3> HIDE DEF T
        <3>2. QED
            BY <3>1, LeastNatural, Zenon
    <2>2. m \in Nat /\ m <= n /\ g[(n + 1) - m] \notin Seq(Nat)
        OBVIOUS
    <2>3. m # 0
        <3>1. n + 1 \in 1 .. n + 1 /\ n + 1 > n
            OBVIOUS
        <3>2. g[n + 1] = <<>>
            BY <1>11, <3>1, Zenon
        <3>3. (n + 1) - 0 = n + 1
            OBVIOUS
        <3> HIDE DEF T
        <3>4. QED
            <4>1. g[(n + 1) - 0] = <<>> /\ <<>> \in Seq(Nat)
                BY <3>2, <3>3
            <4>2. QED
                BY <2>2, <4>1, Zenon
    <2>4. PICK k \in 1 .. n : k = (n + 1) - m /\ ~ (k > n) /\ k \in 1 .. n + 1
        <3> HIDE DEF T
        <3>1. QED
            BY <2>2, <2>3
    <2>5. g[k + 1] \in Seq(Nat)
        <3>1. PICK l \in Nat : l = m - 1 /\ l < m /\ l <= n /\ (n + 1) - l = k + 1
            <4> HIDE DEF T
            <4>1. QED
                BY <2>2, <2>3, <2>4
        <3>2. l \notin T
            <4> HIDE DEF T
            <4>1. QED
                BY <2>1, <2>2, <3>1
        <3>3. g[(n + 1) - l] \in Seq(Nat)
            BY <3>1, <3>2
        <3>4. QED
            BY <3>1, <3>3, Zenon
    <2>6. g[k] = u[k] \o g[k + 1] /\ u[k] \in Seq(Nat)
        BY <1>2, <1>11, <2>4, Zenon
    <2> HIDE DEF T
    <2>7. g[k] \in Seq(Nat)
        BY <2>5, <2>6
    <2>8. QED
        BY <2>2, <2>4, <2>7, Zenon
<1>13. ASSUME NEW k \in 1 .. n + 1 PROVE g[k] \in Seq(Nat)
    <2>1. PICK l \in Nat : l = (n + 1) - k /\ l <= n /\ (n + 1) - l = k
        <3> HIDE DEF T
        <3>1. QED
            OBVIOUS
    <2>2. l \notin T
        <3> HIDE DEF T
        <3>1. QED
            BY <1>12
    <2>3. g[(n + 1) - l] \in Seq(Nat)
        BY <2>1, <2>2
    <2>4. QED
        BY <2>1, <2>3, Zenon
<1> HIDE DEF T
<1>14. g = [k \in 1 .. n + 1 |-> g[k]]
    BY <1>1, <1>10, Zenon DEF IsDifferences
<1>15. g \in [1 .. n + 1 -> Seq(Nat)]
    BY <1>13, <1>14
<1>16. g[n + 1] = <<>>
    <2>1. n + 1 \in 1 .. n + 1 /\ n + 1 > n
        OBVIOUS
    <2>2. QED
        BY <1>11, <2>1, Zenon
<1>17. ASSUME NEW k \in 1 .. n PROVE g[k] = Uvarint[Difference(sorted, k)] \o g[k + 1]
    <2>1. k \in 1 .. n + 1 /\ ~ (k > n)
        OBVIOUS
    <2>2. QED
        BY <1>11, <2>1, Zenon
<1>18. QED
    BY <1>1, <1>10, <1>15, <1>16, <1>17, Zenon

-----------------------------------------------------------------------------
(* A tree that is built: numbered from the root on, quads after their      *)
(* node, and only a node that is split has quads.                          *)
IsTree(tree) ==
    /\ Len(tree) \in Nat /\ Len(tree) >= 1 /\ DOMAIN tree = 1 .. Len(tree)
    /\ \A n \in 1 .. Len(tree) :
          /\ tree[n].items \in Seq(Nat)
          /\ \A q \in 0 .. 3 : tree[n].quads[q] \in Nat
          /\ \A q \in 0 .. 3 : tree[n].quads[q] # 0 =>
                /\ tree[n].quads[q] \in n + 1 .. Len(tree)
                /\ tree[n].split

(* The bytes of a node when f has those of its quads. *)
QuadWith(tree, f, n, q) ==
    IF tree[n].quads[q] = 0 THEN <<0>> ELSE Sized(f[tree[n].quads[q]])

NodeWith(tree, f, n) ==
    CompressItems(tree[n].items)
        \o IF ~ tree[n].split THEN <<0>>
           ELSE <<1>> \o QuadWith(tree, f, n, 0) \o QuadWith(tree, f, n, 1)
                      \o QuadWith(tree, f, n, 2) \o QuadWith(tree, f, n, 3)

IsCode(tree, m, f) == f = [n \in m .. Len(tree) |-> NodeWith(tree, f, n)]

(* A node's bytes depend on those of its quads only.                       *)
LEMMA SameNode ==
    ASSUME NEW tree, NEW f, NEW g, NEW n,
           \A q \in 0 .. 3 : tree[n].quads[q] # 0 =>
              f[tree[n].quads[q]] = g[tree[n].quads[q]]
    PROVE  NodeWith(tree, f, n) = NodeWith(tree, g, n)
<1>1. \A q \in 0 .. 3 : QuadWith(tree, f, n, q) = QuadWith(tree, g, n, q)
    BY Zenon DEF QuadWith
<1>2. 0 \in 0 .. 3 /\ 1 \in 0 .. 3 /\ 2 \in 0 .. 3 /\ 3 \in 0 .. 3
    OBVIOUS
<1>3. QED
    BY <1>1, <1>2, Zenon DEF NodeWith

(* The bytes of the last m nodes are defined, as quads come after their    *)
(* node.                                                                   *)
LEMMA CodeFrom ==
    ASSUME NEW tree, IsTree(tree), NEW m \in Nat, m <= Len(tree)
    PROVE  \E f : IsCode(tree, (Len(tree) + 1) - m, f)
<1> DEFINE N == Len(tree)
           T == {k \in Nat : k <= N /\ ~ \E f : IsCode(tree, (N + 1) - k, f)}
<1>0. N \in Nat
    BY DEF IsTree
<1> HIDE DEF N
<1>s. T = {} => \E f : IsCode(tree, (N + 1) - m, f)
    BY DEF N
<1> SUFFICES ASSUME T # {} PROVE FALSE
    BY <1>s DEF N
<1>1. PICK k \in T : \A l \in T : k <= l
    <2>1. T \in SUBSET Nat
        OBVIOUS
    <2> HIDE DEF T
    <2>2. QED
        BY <2>1, LeastNatural, Zenon
<1>2. k \in Nat /\ k <= N /\ ~ \E f : IsCode(tree, (N + 1) - k, f)
    OBVIOUS
<1>l. \A l \in Nat : l < k /\ l <= N => \E f : IsCode(tree, (N + 1) - l, f)
    <2> SUFFICES ASSUME NEW l \in Nat, l < k, l <= N
                 PROVE  \E f : IsCode(tree, (N + 1) - l, f)
        OBVIOUS
    <2>1. l \notin T
        <3> HIDE DEF T
        <3>1. QED
            BY <1>1, <1>2
    <2>2. QED
        BY <2>1
<1> HIDE DEF T
<1>3. k # 0
    <2>1. (N + 1) - 0 = N + 1 /\ N + 1 .. N = {}
        BY <1>0
    <2>2. IsCode(tree, N + 1, [n \in N + 1 .. N |-> 0])
        BY <2>1 DEF IsCode, N
    <2>3. QED
        BY <1>2, <2>1, <2>2, Zenon
<1>4. PICK l \in Nat, a \in Nat :
         /\ l = k - 1 /\ l < k /\ l <= N /\ a = (N + 1) - k
         /\ (N + 1) - l = a + 1 /\ a \in 1 .. N
    BY <1>0, <1>2, <1>3
<1>5. PICK f : IsCode(tree, a + 1, f)
    BY <1>l, <1>4, Zenon
<1> DEFINE g == [n \in a .. N |-> IF n = a THEN NodeWith(tree, f, a) ELSE f[n]]
<1>6. g[a] = NodeWith(tree, f, a) /\ \A n \in a + 1 .. N : g[n] = f[n]
    BY <1>0, <1>4
<1>7. g = [n \in a .. N |-> g[n]]
    OBVIOUS
<1> HIDE DEF g
<1>8. ASSUME NEW n \in a .. N PROVE g[n] = NodeWith(tree, g, n)
    <2>1. n \in 1 .. N /\ n \in Nat
        BY <1>0, <1>4
    <2>2. ASSUME NEW q \in 0 .. 3, tree[n].quads[q] # 0
          PROVE  f[tree[n].quads[q]] = g[tree[n].quads[q]]
        <3>1. tree[n].quads[q] \in n + 1 .. N
            BY <2>1, <2>2, Zenon DEF IsTree, N
        <3>2. tree[n].quads[q] \in a + 1 .. N
            BY <1>0, <1>4, <2>1, <3>1
        <3>3. QED
            BY <1>6, <3>2, Zenon
    <2>3. NodeWith(tree, f, n) = NodeWith(tree, g, n)
        BY <2>2, SameNode, Zenon
    <2>4. CASE n = a
        BY <1>6, <2>3, <2>4, Zenon
    <2>5. CASE n # a
        <3>1. n \in a + 1 .. N
            BY <1>0, <1>4, <2>5
        <3>2. f[n] = NodeWith(tree, f, n)
            BY <1>5, <3>1 DEF IsCode, N
        <3>3. QED
            BY <1>6, <2>3, <3>1, <3>2, Zenon
    <2>6. QED
        BY <2>4, <2>5
<1>9. IsCode(tree, a, g)
    BY <1>7, <1>8, Zenon DEF IsCode, N
<1>10. QED
    BY <1>2, <1>4, <1>9, Zenon

(* The recursive definition of Compress holds of every node.               *)
LEMMA CompressIs ==
    ASSUME NEW tree, IsTree(tree)
    PROVE  \A n \in 1 .. Len(tree) : Compress(tree)[n] = NodeWith(tree, Compress(tree), n)
<1> DEFINE N == Len(tree)
<1>1. N \in Nat /\ DOMAIN tree = 1 .. N /\ (N + 1) - N = 1 /\ N <= N
    BY DEF IsTree
<1>2. \E f : IsCode(tree, 1, f)
    BY <1>1, CodeFrom, Zenon
<1>3. Compress(tree) = CHOOSE f : IsCode(tree, 1, f)
    BY <1>1, Zenon DEF Compress, IsCode, NodeWith, QuadWith
<1>4. PICK f : f = Compress(tree) /\ IsCode(tree, 1, f)
    BY <1>2, <1>3, Zenon
<1>5. \A n \in 1 .. N : f[n] = NodeWith(tree, f, n)
    BY <1>4 DEF IsCode
<1>6. QED
    BY <1>4, <1>5, Zenon

-----------------------------------------------------------------------------
(* The parts of a node's bytes: all of it, a quad, the quads from the q-th *)
(* on, what follows the items, and the items from the k-th on.             *)
Code(tree, n) == Compress(tree)[n]
QuadCode(tree, n, q) == QuadWith(tree, Compress(tree), n, q)
Count(tree, n) == Len(tree[n].items)
ItemAt(tree, n, k) == Sorted(tree[n].items)[k]

QuadsFrom(tree, n, q) ==
    IF q = 0 THEN QuadCode(tree, n, 0) \o (QuadCode(tree, n, 1)
                     \o (QuadCode(tree, n, 2) \o QuadCode(tree, n, 3)))
    ELSE IF q = 1 THEN QuadCode(tree, n, 1)
                     \o (QuadCode(tree, n, 2) \o QuadCode(tree, n, 3))
    ELSE IF q = 2 THEN QuadCode(tree, n, 2) \o QuadCode(tree, n, 3)
    ELSE IF q = 3 THEN QuadCode(tree, n, 3)
    ELSE <<>>

Flagged(tree, n) ==
    IF ~ tree[n].split THEN <<0>> ELSE <<1>> \o QuadsFrom(tree, n, 0)

ItemsFrom(tree, n, k) ==
    Differences(Sorted(tree[n].items))[k] \o Flagged(tree, n)

(* The items of a node, sorted.                                            *)
LEMMA SortedIncreasing ==
    ASSUME NEW tree, IsTree(tree), NEW n \in 1 .. Len(tree)
    PROVE  /\ tree[n].items \in Seq(Nat) /\ Count(tree, n) \in Nat
           /\ Increasing(Sorted(tree[n].items))
           /\ Len(Sorted(tree[n].items)) = Count(tree, n)
<1>1. tree[n].items \in Seq(Nat)
    BY DEF IsTree
<1>2. PICK items \in Seq(Nat) : items = tree[n].items
    BY <1>1
<1>3. /\ Sorted(items) \in Seq(Nat) /\ Len(Sorted(items)) = Len(items)
      /\ DOMAIN Sorted(items) = 1 .. Len(items) /\ Len(items) \in Nat
      /\ \A i, j \in DOMAIN items : i < j => Sorted(items)[i] <= Sorted(items)[j]
    BY SortedFacts, Zenon
<1>4. DOMAIN items = 1 .. Len(items)
    OBVIOUS
<1>5. QED
    BY <1>2, <1>3, <1>4, Zenon DEF Increasing, Count

(* The bytes from the k-th item on. *)
Following(tree, n, f, k) ==
    f[k] = Uvarint[Difference(Sorted(tree[n].items), k)] \o f[k + 1]

(* The bytes of a node's differences.                                      *)
LEMMA DifferencesType ==
    ASSUME NEW tree, IsTree(tree), NEW n \in 1 .. Len(tree),
           NEW f, f = Differences(Sorted(tree[n].items))
    PROVE  /\ \A k \in 1 .. Count(tree, n) + 1 : f[k] \in Seq(Nat)
           /\ f[Count(tree, n) + 1] = <<>>
           /\ \A k \in 1 .. Count(tree, n) : Following(tree, n, f, k)
<1>0. PICK s : s = Sorted(tree[n].items)
    OBVIOUS
<1>1. PICK m \in Nat : Increasing(s) /\ Len(s) = m /\ Count(tree, n) = m
    BY <1>0, SortedIncreasing, Zenon
<1>2. /\ f \in [1 .. m + 1 -> Seq(Nat)]
      /\ f[m + 1] = <<>>
      /\ \A k \in 1 .. m : f[k] = Uvarint[Difference(s, k)] \o f[k + 1]
    BY <1>0, <1>1, DifferencesAre, Zenon
<1>3. \A k \in 1 .. m + 1 : f[k] \in Seq(Nat)
    BY <1>2
<1>4. QED
    BY <1>0, <1>1, <1>2, <1>3, Zenon DEF Following

(* A length and what it is the length of are bytes.                        *)
LEMMA SizedType ==
    ASSUME NEW b \in Seq(Nat)
    PROVE  Sized(b) \in Seq(Nat) /\ Len(b) \in Nat
<1>1. Len(b) \in Nat
    OBVIOUS
<1>2. Uvarint[Len(b)] \in Seq(Nat)
    BY <1>1, UvarintLen, Zenon
<1>3. QED
    BY <1>1, <1>2 DEF Sized

(* So are the items of a node,                                             *)
LEMMA CompressItemsType ==
    ASSUME NEW tree, IsTree(tree), NEW n \in 1 .. Len(tree)
    PROVE  CompressItems(tree[n].items) \in Seq(Nat)
<1>1. Count(tree, n) \in Nat /\ 1 \in 1 .. Count(tree, n) + 1
    BY SortedIncreasing
<1>2. PICK b \in Seq(Nat) : b = Differences(Sorted(tree[n].items))[1]
    BY <1>1, DifferencesType, Zenon
<1>3. PICK c \in Seq(Nat) : c = Uvarint[Len(tree[n].items)]
    BY <1>1, UvarintLen, Zenon DEF Count
<1>4. c \o b \in Seq(Nat)
    OBVIOUS
<1>5. QED
    BY <1>2, <1>3, <1>4, Zenon DEF CompressItems

(* a node whose quads are,                                                 *)
LEMMA NodeWithType ==
    ASSUME NEW tree, IsTree(tree), NEW n \in 1 .. Len(tree), NEW f,
           \A q \in 0 .. 3 : tree[n].quads[q] # 0 => f[tree[n].quads[q]] \in Seq(Nat)
    PROVE  /\ NodeWith(tree, f, n) \in Seq(Nat)
           /\ \A q \in 0 .. 3 : QuadWith(tree, f, n, q) \in Seq(Nat)
<1>1. <<0>> \in Seq(Nat) /\ <<1>> \in Seq(Nat)
    OBVIOUS
<1>2. \A q \in 0 .. 3 : QuadWith(tree, f, n, q) \in Seq(Nat)
    BY <1>1, SizedType, Zenon DEF QuadWith
<1>3. PICK a \in Seq(Nat), b \in Seq(Nat), c \in Seq(Nat), d \in Seq(Nat) :
         /\ a = QuadWith(tree, f, n, 0) /\ b = QuadWith(tree, f, n, 1)
         /\ c = QuadWith(tree, f, n, 2) /\ d = QuadWith(tree, f, n, 3)
    <2>1. 0 \in 0 .. 3 /\ 1 \in 0 .. 3 /\ 2 \in 0 .. 3 /\ 3 \in 0 .. 3
        OBVIOUS
    <2>2. QED
        BY <1>2, <2>1, Zenon
<1>4. <<1>> \o a \o b \o c \o d \in Seq(Nat)
    BY <1>1
<1>5. PICK e \in Seq(Nat) : e = CompressItems(tree[n].items)
    BY CompressItemsType, Zenon
<1>6. PICK t \in Seq(Nat) : t = IF ~ tree[n].split THEN <<0>> ELSE <<1>> \o a \o b \o c \o d
    BY <1>1, <1>4, Zenon
<1>7. e \o t \in Seq(Nat)
    OBVIOUS
<1>8. QED
    BY <1>2, <1>3, <1>5, <1>6, <1>7, Zenon DEF NodeWith

(* and every node of a tree.                                               *)
LEMMA CodeType ==
    ASSUME NEW tree, IsTree(tree)
    PROVE  /\ \A n \in 1 .. Len(tree) : Code(tree, n) \in Seq(Nat)
           /\ \A n \in 1 .. Len(tree) : \A q \in 0 .. 3 : QuadCode(tree, n, q) \in Seq(Nat)
<1>1. PICK N \in Nat : N = Len(tree)
    BY DEF IsTree
<1> DEFINE T == {k \in Nat : k < N /\ Code(tree, N - k) \notin Seq(Nat)}
<1>2. ASSUME T # {} PROVE FALSE
    <2>1. PICK k \in T : \A l \in T : k <= l
        <3>1. T \in SUBSET Nat
            OBVIOUS
        <3> HIDE DEF T
        <3>2. QED
            BY <1>2, <3>1, LeastNatural, Zenon
    <2>2. k \in Nat /\ k < N /\ Code(tree, N - k) \notin Seq(Nat)
        OBVIOUS
    <2>3. \A l \in Nat : l < k => l \notin T
        <3> HIDE DEF T
        <3>1. QED
            BY <2>1, <2>2
    <2>4. \A l \in Nat : l < k /\ l < N => Code(tree, N - l) \in Seq(Nat)
        BY <2>3
    <2> HIDE DEF T
    <2>5. PICK n \in 1 .. N : n = N - k
        BY <2>2
    <2>6. ASSUME NEW q \in 0 .. 3, tree[n].quads[q] # 0
          PROVE  Compress(tree)[tree[n].quads[q]] \in Seq(Nat)
        <3>1. PICK c \in n + 1 .. N : c = tree[n].quads[q]
            BY <1>1, <2>6, Zenon DEF IsTree
        <3>2. PICK l \in Nat : l = N - c /\ l < k /\ l < N /\ N - l = c
            BY <2>2, <2>5, <3>1
        <3>3. Code(tree, c) \in Seq(Nat)
            BY <2>4, <3>2, Zenon
        <3>4. QED
            BY <3>1, <3>3, Zenon DEF Code
    <2>7. NodeWith(tree, Compress(tree), n) \in Seq(Nat)
        BY <1>1, <2>6, NodeWithType, Zenon
    <2>8. QED
        BY <1>1, <2>2, <2>5, <2>7, CompressIs, Zenon DEF Code
<1>3. \A k \in Nat : k < N => Code(tree, N - k) \in Seq(Nat)
    BY <1>2
<1> HIDE DEF T
<1>4. ASSUME NEW n \in 1 .. N PROVE Code(tree, n) \in Seq(Nat)
    <2>1. PICK k \in Nat : k = N - n /\ k < N /\ N - k = n
        OBVIOUS
    <2>2. QED
        BY <1>3, <2>1, Zenon
<1>5. ASSUME NEW n \in 1 .. N, NEW q \in 0 .. 3 PROVE QuadCode(tree, n, q) \in Seq(Nat)
    <2>1. ASSUME NEW r \in 0 .. 3, tree[n].quads[r] # 0
          PROVE  Compress(tree)[tree[n].quads[r]] \in Seq(Nat)
        <3>1. PICK c \in n + 1 .. N : c = tree[n].quads[r]
            BY <1>1, <2>1, Zenon DEF IsTree
        <3>2. c \in 1 .. N
            BY <3>1
        <3>3. QED
            BY <1>4, <3>1, <3>2, Zenon DEF Code
    <2>2. QED
        BY <1>1, <2>1, NodeWithType, Zenon DEF QuadCode
<1>6. QED
    BY <1>1, <1>4, <1>5, Zenon

-----------------------------------------------------------------------------
(* The bytes of a node and of the index, and what reading them gives.      *)

(* The bytes b lie in d from a up to e. *)
Lies(d, a, b, e) ==
    a \in Nat /\ b \in Seq(Nat) /\ Starts(d, a, b) /\ e = a + Len(b)

(* Bytes that lie in d are inside of it.                                   *)
LEMMA LiesInside ==
    ASSUME NEW d \in Seq(Nat), NEW a, NEW b, NEW e, Lies(d, a, b, e)
    PROVE  /\ a \in Nat /\ e \in Nat /\ a <= e /\ e <= Len(d)
           /\ Len(d) \in Nat /\ Len(b) \in Nat /\ e = a + Len(b)
           /\ Len(b) >= 1 => a < e /\ At(d, a) = b[1]
<1>1. /\ a \in Nat /\ b \in Seq(Nat) /\ Len(b) \in Nat /\ Len(d) \in Nat
      /\ a + Len(b) <= Len(d) /\ e = a + Len(b)
    BY DEF Lies, Starts
<1>2. Len(b) >= 1 => At(d, a) = b[1]
    BY <1>1 DEF Lies, Starts, At
<1>3. QED
    BY <1>1, <1>2

(* Of two sequences the second lies where the first ends.                  *)
LEMMA LiesParts ==
    ASSUME NEW d \in Seq(Nat), NEW a, NEW b \in Seq(Nat), NEW c \in Seq(Nat),
           NEW e, Lies(d, a, b \o c, e)
    PROVE  Lies(d, a, b, a + Len(b)) /\ Lies(d, a + Len(b), c, e)
<1>1. a \in Nat /\ Starts(d, a, b \o c) /\ e = a + Len(b \o c)
    BY DEF Lies
<1>2. /\ Len(b \o c) = Len(b) + Len(c)
      /\ Starts(d, a, b) /\ Starts(d, a + Len(b), c)
    BY <1>1, StartsBoth
<1>3. Len(b) \in Nat /\ Len(c) \in Nat
    OBVIOUS
<1>4. e = (a + Len(b)) + Len(c) /\ a + Len(b) \in Nat
    BY <1>1, <1>2, <1>3
<1>5. QED
    BY <1>1, <1>2, <1>4 DEF Lies

(* A number is read and the cursor moves to what follows it.               *)
LEMMA LiesNumber ==
    ASSUME NEW d \in Seq(Nat), NEW a, NEW x \in Nat, x < Uint32Limit,
           NEW c \in Seq(Nat), NEW e, Lies(d, a, Uvarint[x] \o c, e)
    PROVE  /\ ReadUvarint(d, a).value = x
           /\ Lies(d, ReadUvarint(d, a).addr, c, e)
           /\ ReadUvarint(d, a).addr \in Nat /\ a < ReadUvarint(d, a).addr
           /\ a \in Nat
<1>1. PICK b : b = Uvarint[x] /\ b \in Seq(Nat) /\ Len(b) \in Nat /\ Len(b) >= 1
    BY UvarintLen, Zenon
<1>2. Lies(d, a, b, a + Len(b)) /\ Lies(d, a + Len(b), c, e)
    BY <1>1, LiesParts, Zenon
<1>3. a \in Nat /\ Starts(d, a, Uvarint[x])
    BY <1>1, <1>2, Zenon DEF Lies
<1>4. Len(Uvarint[x]) <= MaxUvarintLen
    BY LimitShort, Zenon DEF ShortBelow
<1>5. /\ ReadUvarint(d, a).value = x
      /\ ReadUvarint(d, a).addr = a + Len(b)
    BY <1>1, <1>3, <1>4, ReadsBack, Zenon
<1>6. a + Len(b) \in Nat /\ a < a + Len(b)
    BY <1>1, <1>3
<1>7. QED
    BY <1>2, <1>3, <1>5, <1>6, Zenon

-----------------------------------------------------------------------------
(* Bytes after bytes are bytes.                                            *)
LEMMA ConcatBytes ==
    ASSUME NEW s \in Seq(Nat), NEW t \in Seq(Nat)
    PROVE  s \o t \in Seq(Nat)
    OBVIOUS

Associates(s, t, u) == (s \o t) \o u = s \o (t \o u)

(* Concatenation is associative, of any sequences                          *)
LEMMA ConcatAny ==
    ASSUME NEW S, NEW s \in Seq(S), NEW t \in Seq(S), NEW u \in Seq(S)
    PROVE  Associates(s, t, u)
    BY ConcatAssociative DEF Associates

(* and of bytes.                                                           *)
LEMMA ConcatThree ==
    ASSUME NEW s \in Seq(Nat), NEW t \in Seq(Nat), NEW u \in Seq(Nat)
    PROVE  Associates(s, t, u)
    BY ConcatAny, Zenon

(* How a node's bytes are made up of its parts. *)
LEMMA FlaggedIs ==
    ASSUME NEW tree, IsTree(tree), NEW n \in 1 .. Len(tree)
    PROVE  /\ \A q \in 0 .. 4 : QuadsFrom(tree, n, q) \in Seq(Nat)
           /\ \A q \in 0 .. 3 : QuadsFrom(tree, n, q) =
                 QuadCode(tree, n, q) \o QuadsFrom(tree, n, q + 1)
           /\ QuadsFrom(tree, n, 4) = <<>>
           /\ Flagged(tree, n) \in Seq(Nat)
           /\ Flagged(tree, n) =
                 IF ~ tree[n].split THEN <<0>>
                 ELSE <<1>> \o QuadCode(tree, n, 0) \o QuadCode(tree, n, 1)
                            \o QuadCode(tree, n, 2) \o QuadCode(tree, n, 3)
<1>1. PICK a \in Seq(Nat), b \in Seq(Nat), c \in Seq(Nat), d \in Seq(Nat) :
         /\ a = QuadCode(tree, n, 0) /\ b = QuadCode(tree, n, 1)
         /\ c = QuadCode(tree, n, 2) /\ d = QuadCode(tree, n, 3)
    <2>1. 0 \in 0 .. 3 /\ 1 \in 0 .. 3 /\ 2 \in 0 .. 3 /\ 3 \in 0 .. 3
        OBVIOUS
    <2>2. QED
        BY <2>1, CodeType, Zenon
<1>2. PICK cd \in Seq(Nat), bcd \in Seq(Nat), abcd \in Seq(Nat) :
         cd = c \o d /\ bcd = b \o cd /\ abcd = a \o bcd
    BY ConcatBytes, Zenon
<1>3. <<1>> \in Seq(Nat) /\ <<0>> \in Seq(Nat) /\ <<>> \in Seq(Nat)
    OBVIOUS
<1>4. /\ QuadsFrom(tree, n, 0) = abcd /\ QuadsFrom(tree, n, 1) = bcd
      /\ QuadsFrom(tree, n, 2) = cd /\ QuadsFrom(tree, n, 3) = d
      /\ QuadsFrom(tree, n, 4) = <<>>
    <2>1. /\ 1 # 0 /\ 2 # 0 /\ 2 # 1 /\ 3 # 0 /\ 3 # 1 /\ 3 # 2
          /\ 4 # 0 /\ 4 # 1 /\ 4 # 2 /\ 4 # 3
        OBVIOUS
    <2>2. QED
        BY <1>1, <1>2, <2>1, Zenon DEF QuadsFrom
<1>5. d \o <<>> = d
    BY ConcatEmptySeq, Zenon
<1>6. ASSUME NEW q \in 0 .. 3
      PROVE  QuadsFrom(tree, n, q) = QuadCode(tree, n, q) \o QuadsFrom(tree, n, q + 1)
    <2>1. q = 0 \/ q = 1 \/ q = 2 \/ q = 3
        OBVIOUS
    <2>2. 0 + 1 = 1 /\ 1 + 1 = 2 /\ 2 + 1 = 3 /\ 3 + 1 = 4
        OBVIOUS
    <2>3. QED
        BY <1>1, <1>2, <1>4, <1>5, <2>1, <2>2, Zenon
<1>7. ASSUME NEW q \in 0 .. 4 PROVE QuadsFrom(tree, n, q) \in Seq(Nat)
    <2>1. q = 0 \/ q = 1 \/ q = 2 \/ q = 3 \/ q = 4
        OBVIOUS
    <2>2. QED
        BY <1>1, <1>2, <1>3, <1>4, <2>1, Zenon
<1>8. <<1>> \o abcd \in Seq(Nat) /\ <<1>> \o abcd = <<1>> \o a \o b \o c \o d
    <2>1. PICK o \in Seq(Nat) : o = <<1>>
        BY <1>3
    <2>2. PICK oa \in Seq(Nat), oab \in Seq(Nat) : oa = o \o a /\ oab = oa \o b
        BY ConcatBytes, Zenon
    <2>3. o \o abcd \in Seq(Nat)
        BY ConcatBytes, Zenon
    <2>4. Associates(o, a, bcd) /\ Associates(oa, b, cd) /\ Associates(oab, c, d)
        BY ConcatThree, Zenon
    <2>7. o \o abcd = oab \o cd
        BY <1>2, <2>2, <2>4, Zenon DEF Associates
    <2>8. o \o abcd = ((o \o a) \o b \o c) \o d
        BY <1>2, <2>2, <2>4, <2>7, Zenon DEF Associates
    <2>9. QED
        BY <2>1, <2>3, <2>8, Zenon
<1>9. QED
    BY <1>1, <1>3, <1>4, <1>6, <1>7, <1>8, Zenon DEF Flagged

(* A node is its number of items, the differences and the flag with what   *)
(* follows it.                                                             *)
LEMMA ItemsFromIs ==
    ASSUME NEW tree, IsTree(tree), NEW n \in 1 .. Len(tree)
    PROVE  /\ Count(tree, n) \in Nat
           /\ Code(tree, n) = Uvarint[Count(tree, n)] \o ItemsFrom(tree, n, 1)
           /\ \A k \in 1 .. Count(tree, n) + 1 : ItemsFrom(tree, n, k) \in Seq(Nat)
           /\ \A k \in 1 .. Count(tree, n) : ItemsFrom(tree, n, k) =
                 Uvarint[Difference(Sorted(tree[n].items), k)]
                     \o ItemsFrom(tree, n, k + 1)
           /\ ItemsFrom(tree, n, Count(tree, n) + 1) = Flagged(tree, n)
<1>1. PICK m \in Nat : m = Count(tree, n)
    BY SortedIncreasing, Zenon
<1>2. PICK s : /\ s = Sorted(tree[n].items) /\ Increasing(s) /\ Len(s) = m
    BY <1>1, SortedIncreasing, Zenon
<1>f. PICK f : f = Differences(s) /\ f = Differences(Sorted(tree[n].items))
    BY <1>2, Zenon
<1>3. /\ \A k \in 1 .. m + 1 : f[k] \in Seq(Nat)
      /\ f[m + 1] = <<>>
      /\ \A k \in 1 .. m : f[k] = Uvarint[Difference(s, k)] \o f[k + 1]
    <2>1. f = Differences(Sorted(tree[n].items))
        BY <1>f, Zenon
    <2>2. ASSUME NEW k \in 1 .. Count(tree, n) + 1 PROVE f[k] \in Seq(Nat)
        BY <2>1, DifferencesType, Zenon
    <2>3. f[Count(tree, n) + 1] = <<>>
        BY <2>1, DifferencesType, Zenon
    <2>4. ASSUME NEW k \in 1 .. Count(tree, n)
          PROVE  Following(tree, n, f, k)
        BY <2>1, DifferencesType, Zenon
    <2>5. QED
        BY <1>1, <1>2, <2>2, <2>3, <2>4, Zenon DEF Following
<1>4. PICK t \in Seq(Nat) : t = Flagged(tree, n)
    BY FlaggedIs, Zenon
<1>5. \A k : ItemsFrom(tree, n, k) = f[k] \o t
    BY <1>f, <1>4, Zenon DEF ItemsFrom
<1>6. ASSUME NEW k \in 1 .. m + 1 PROVE f[k] \o t \in Seq(Nat)
    BY <1>3, ConcatBytes, Zenon
<1>7. ASSUME NEW k \in 1 .. m
      PROVE  f[k] \o t = Uvarint[Difference(s, k)] \o (f[k + 1] \o t)
    <2>1. k + 1 \in 1 .. m + 1 /\ k \in 1 .. Len(s)
        BY <1>2
    <2>2. Difference(s, k) \in Nat
        BY <1>2, <2>1, DifferenceNat, Zenon
    <2>3. Uvarint[Difference(s, k)] \in Seq(Nat) /\ f[k + 1] \in Seq(Nat)
        BY <1>3, <2>1, <2>2, UvarintLen, Zenon
    <2>4. PICK u \in Seq(Nat), v \in Seq(Nat) :
             u = Uvarint[Difference(s, k)] /\ v = f[k + 1] /\ f[k] = u \o v
        BY <1>3, <2>3, Zenon
    <2>5. Associates(u, v, t)
        BY ConcatThree, Zenon
    <2>6. QED
        BY <2>4, <2>5, Zenon DEF Associates
<1>8. f[m + 1] \o t = t
    BY <1>3, ConcatEmptySeq, Zenon
<1>9. Code(tree, n) = (Uvarint[m] \o f[1]) \o t
    <2>1. Code(tree, n) = NodeWith(tree, Compress(tree), n)
        BY CompressIs, Zenon DEF Code
    <2>2. NodeWith(tree, Compress(tree), n) = CompressItems(tree[n].items) \o t
        BY <1>4, FlaggedIs, Zenon DEF NodeWith, QuadCode
    <2>3. CompressItems(tree[n].items) = Uvarint[m] \o f[1]
        BY <1>1, <1>f, Zenon DEF CompressItems, Count
    <2>4. QED
        BY <2>1, <2>2, <2>3, Zenon
<1>10. (Uvarint[m] \o f[1]) \o t = Uvarint[m] \o (f[1] \o t)
    <2>1. 1 \in 1 .. m + 1
        OBVIOUS
    <2>2. Uvarint[m] \in Seq(Nat) /\ f[1] \in Seq(Nat)
        BY <1>3, <2>1, UvarintLen, Zenon
    <2>3. Associates(Uvarint[m], f[1], t)
        BY <2>2, ConcatThree, Zenon
    <2>4. QED
        BY <2>3, Zenon DEF Associates
<1>11. QED
    <2>1. Code(tree, n) = Uvarint[m] \o ItemsFrom(tree, n, 1)
        BY <1>5, <1>9, <1>10, Zenon
    <2>2. \A k \in 1 .. m + 1 : ItemsFrom(tree, n, k) \in Seq(Nat)
        BY <1>5, <1>6, Zenon
    <2>3. \A k \in 1 .. m : ItemsFrom(tree, n, k)
                                = Uvarint[Difference(s, k)] \o ItemsFrom(tree, n, k + 1)
        BY <1>5, <1>7, Zenon
    <2>4. ItemsFrom(tree, n, m + 1) = Flagged(tree, n)
        BY <1>4, <1>5, <1>8, Zenon
    <2>5. QED
        BY <1>1, <1>2, <2>1, <2>2, <2>3, <2>4, Zenon

(* Every item takes a byte at least. *)
LEMMA ItemsTakeBytes ==
    ASSUME NEW tree, IsTree(tree), NEW n \in 1 .. Len(tree)
    PROVE  Count(tree, n) <= Len(ItemsFrom(tree, n, 1))
<1>1. PICK m \in Nat : m = Count(tree, n)
    BY SortedIncreasing, Zenon
<1>2. PICK g : g = [k \in 1 .. m + 1 |-> ItemsFrom(tree, n, k)]
    OBVIOUS
<1>3. \A k \in 1 .. m + 1 : g[k] = ItemsFrom(tree, n, k) /\ g[k] \in Seq(Nat)
    BY <1>1, <1>2, ItemsFromIs
<1>4. ASSUME NEW k \in 1 .. m
      PROVE  Len(g[k]) \in Nat /\ Len(g[k + 1]) \in Nat /\ Len(g[k]) >= Len(g[k + 1]) + 1
    <2>1. k \in 1 .. m + 1 /\ k + 1 \in 1 .. m + 1 /\ k \in 1 .. Len(Sorted(tree[n].items))
        BY <1>1, SortedIncreasing
    <2>2. Difference(Sorted(tree[n].items), k) \in Nat
        BY <2>1, SortedIncreasing, DifferenceNat, Zenon
    <2>3. PICK u : /\ u = Uvarint[Difference(Sorted(tree[n].items), k)]
                   /\ u \in Seq(Nat) /\ Len(u) \in Nat /\ Len(u) >= 1
        BY <2>2, UvarintLen, Zenon
    <2>4. ItemsFrom(tree, n, k) = u \o ItemsFrom(tree, n, k + 1)
        BY <1>1, <2>3, ItemsFromIs, Zenon
    <2>5. PICK a \in Seq(Nat), b \in Seq(Nat) : a = g[k] /\ b = g[k + 1]
        BY <1>3, <2>1, Zenon
    <2>6. a = u \o b
        BY <1>3, <2>1, <2>4, <2>5, Zenon
    <2>7. Len(a) = Len(u) + Len(b) /\ Len(a) \in Nat /\ Len(b) \in Nat
        BY <2>3, <2>6
    <2>8. Len(a) >= Len(b) + 1
        BY <2>3, <2>7
    <2>9. QED
        BY <2>5, <2>7, <2>8, Zenon
<1> DEFINE T == {l \in Nat : l <= m /\ ~ (l <= Len(g[(m + 1) - l]))}
<1>5. T = {}
    <2> SUFFICES ASSUME T # {} PROVE FALSE
        OBVIOUS
    <2>1. PICK l \in T : \A j \in T : l <= j
        <3>1. T \in SUBSET Nat
            OBVIOUS
        <3> HIDE DEF T
        <3>2. QED
            BY <3>1, LeastNatural, Zenon
    <2>2. l \in Nat /\ l <= m /\ ~ (l <= Len(g[(m + 1) - l]))
        OBVIOUS
    <2>3. \A j \in Nat : j < l => j \notin T
        <3> HIDE DEF T
        <3>1. QED
            BY <2>1, <2>2
    <2>4. \A j \in Nat : j < l /\ j <= m => j <= Len(g[(m + 1) - j])
        BY <2>3
    <2> HIDE DEF T
    <2>5. l # 0
        <3>1. (m + 1) - 0 \in 1 .. m + 1
            OBVIOUS
        <3>2. PICK a \in Seq(Nat) : a = g[(m + 1) - 0]
            BY <1>3, <3>1, Zenon
        <3>3. 0 <= Len(a)
            OBVIOUS
        <3>4. QED
            BY <2>2, <3>2, <3>3, Zenon
    <2>6. PICK j \in Nat, k \in 1 .. m :
             j = l - 1 /\ j < l /\ j <= m /\ k = (m + 1) - l /\ k + 1 = (m + 1) - j
        BY <2>2, <2>5
    <2>7. PICK a \in Nat, b \in Nat : a = Len(g[k]) /\ b = Len(g[k + 1]) /\ a >= b + 1
        BY <1>4, Zenon
    <2>8. j <= b
        BY <2>4, <2>6, <2>7, Zenon
    <2>9. l <= a
        BY <2>2, <2>6, <2>7, <2>8
    <2>10. QED
        BY <2>2, <2>6, <2>7, <2>9, Zenon
<1>6. m <= Len(g[(m + 1) - m])
    <2>1. m \notin T /\ m <= m
        <3> HIDE DEF T
        <3>1. QED
            BY <1>5
    <2>2. QED
        BY <2>1
<1>7. (m + 1) - m = 1 /\ 1 \in 1 .. m + 1
    OBVIOUS
<1> HIDE DEF T
<1>8. QED
    BY <1>1, <1>3, <1>6, <1>7, Zenon

-----------------------------------------------------------------------------
(* What is written can be read: the numbers are not too long.              *)
Readably(tree, d) ==
    /\ IsTree(tree)
    /\ d \in Seq(Nat) /\ Len(d) < Uint32Limit
    /\ \A n \in 1 .. Len(tree) : \A k \in 1 .. Count(tree, n) :
          ItemAt(tree, n, k) < Uint32Limit

(* The limit is a number.                                                  *)
LEMMA LimitNat == Uint32Limit \in Nat
    BY ByteFacts DEF Uint32Limit

(* Reading the number of items moves the cursor to the first one.          *)
LEMMA ReadsCount ==
    ASSUME NEW tree, NEW d, Readably(tree, d), NEW n \in 1 .. Len(tree),
           NEW a, NEW e, Lies(d, a, Code(tree, n), e)
    PROVE  /\ ReadUvarint(d, a).value = Count(tree, n)
           /\ Lies(d, ReadUvarint(d, a).addr, ItemsFrom(tree, n, 1), e)
           /\ a < ReadUvarint(d, a).addr /\ a \in Nat
           /\ a < e /\ e <= Len(d)
<1>1. IsTree(tree) /\ d \in Seq(Nat)
    BY DEF Readably
<1>2. PICK m \in Nat : m = Count(tree, n)
    BY <1>1, SortedIncreasing, Zenon
<1>3. PICK u \in Seq(Nat), c \in Seq(Nat) :
         u = Uvarint[m] /\ c = ItemsFrom(tree, n, 1) /\ Len(u) >= 1
    <2>1. 1 \in 1 .. m + 1
        OBVIOUS
    <2>2. QED
        BY <1>1, <1>2, <2>1, UvarintLen, ItemsFromIs, Zenon
<1>4. Code(tree, n) = u \o c
    BY <1>1, <1>2, <1>3, ItemsFromIs, Zenon
<1>5. Lies(d, a, u \o c, e)
    BY <1>4, Zenon
<1>6. /\ a \in Nat /\ e \in Nat /\ e <= Len(d) /\ Len(d) \in Nat /\ e = a + Len(u \o c)
    BY <1>1, <1>5, LiesInside, Zenon
<1>7. Len(u \o c) = Len(u) + Len(c) /\ Len(u) \in Nat /\ Len(c) \in Nat
    OBVIOUS
<1>8. m <= Len(c)
    BY <1>1, <1>2, <1>3, ItemsTakeBytes, Zenon
<1>9. m < Uint32Limit
    <2>1. Len(d) < Uint32Limit
        BY DEF Readably
    <2>2. QED
        BY <1>6, <1>7, <1>8, <2>1, LimitNat
<1>10. a < e
    BY <1>3, <1>6, <1>7
<1>11. Lies(d, a, Uvarint[m] \o c, e)
    BY <1>3, <1>5, Zenon
<1>12. /\ ReadUvarint(d, a).value = m
       /\ Lies(d, ReadUvarint(d, a).addr, c, e)
       /\ a < ReadUvarint(d, a).addr
    BY <1>1, <1>9, <1>11, LiesNumber, Zenon
<1>13. QED
    BY <1>2, <1>3, <1>6, <1>10, <1>12, Zenon

(* The item before the k-th, from which the k-th is counted.               *)
Before(tree, n, k) == IF k = 1 THEN 0 ELSE ItemAt(tree, n, k - 1)

(* Reading a difference and adding it to the item before gives the next    *)
(* item, and moves the cursor to the one after it.                         *)
LEMMA ReadsItem ==
    ASSUME NEW tree, NEW d, Readably(tree, d), NEW n \in 1 .. Len(tree),
           NEW k \in 1 .. Count(tree, n),
           NEW a, NEW e, Lies(d, a, ItemsFrom(tree, n, k), e)
    PROVE  /\ ReadUvarint(d, a).value + Before(tree, n, k) = ItemAt(tree, n, k)
           /\ Lies(d, ReadUvarint(d, a).addr, ItemsFrom(tree, n, k + 1), e)
           /\ a < ReadUvarint(d, a).addr /\ a \in Nat
           /\ ItemAt(tree, n, k) \in Nat /\ Before(tree, n, k) \in Nat
           /\ a < e /\ e <= Len(d)
<1>1. IsTree(tree) /\ d \in Seq(Nat)
    BY DEF Readably
<1>2. PICK m \in Nat : m = Count(tree, n)
    BY <1>1, SortedIncreasing, Zenon
<1>s. PICK s : s = Sorted(tree[n].items) /\ Increasing(s) /\ Len(s) = m
    BY <1>1, <1>2, SortedIncreasing, Zenon
<1>k. k \in Nat /\ k \in 1 .. m /\ k \in 1 .. Len(s) /\ k + 1 \in 1 .. m + 1
    BY <1>2, <1>s
<1>3. PICK x \in Nat, v \in Nat : x = Difference(s, k) /\ v = s[k] /\ x <= v
    BY <1>s, <1>k, DifferenceNat, Zenon
<1>4. PICK c \in Seq(Nat) : c = ItemsFrom(tree, n, k + 1)
    BY <1>1, <1>2, <1>k, ItemsFromIs, Zenon
<1>5. ItemsFrom(tree, n, k) = Uvarint[x] \o c
    BY <1>1, <1>2, <1>s, <1>3, <1>4, <1>k, ItemsFromIs, Zenon
<1>6. x < Uint32Limit
    <2>1. v < Uint32Limit
        BY <1>s, <1>3, Zenon DEF Readably, ItemAt
    <2>2. QED
        BY <1>3, <2>1, LimitNat
<1>7. Lies(d, a, Uvarint[x] \o c, e)
    BY <1>5, Zenon
<1>8. /\ ReadUvarint(d, a).value = x
      /\ Lies(d, ReadUvarint(d, a).addr, c, e)
      /\ a < ReadUvarint(d, a).addr /\ a \in Nat
    BY <1>1, <1>6, <1>7, LiesNumber, Zenon
<1>9. Before(tree, n, k) \in Nat /\ x + Before(tree, n, k) = v
    <2>1. CASE k = 1
        BY <1>3, <2>1, <1>s DEF Before, Difference
    <2>2. CASE k # 1
        <3>1. k - 1 \in DOMAIN s /\ s \in Seq(Nat)
            BY <1>s, <1>k, <2>2 DEF Increasing
        <3>2. s[k - 1] \in Nat
            BY <3>1
        <3>3. Before(tree, n, k) = s[k - 1]
            BY <1>s, <2>2, Zenon DEF Before, ItemAt
        <3>4. x = v - s[k - 1]
            BY <1>3, <2>2, Zenon DEF Difference
        <3>5. QED
            BY <3>2, <3>3, <3>4
    <2>3. QED
        BY <2>1, <2>2
<1>10. PICK b \in Nat : b = ReadUvarint(d, a).addr /\ a < b /\ b <= e /\ e <= Len(d) /\ e \in Nat
    <2>1. /\ ReadUvarint(d, a).addr \in Nat /\ e \in Nat
          /\ ReadUvarint(d, a).addr <= e /\ e <= Len(d)
        BY <1>1, <1>8, LiesInside, Zenon
    <2>2. QED
        BY <1>8, <2>1, Zenon
<1>11. a < e
    BY <1>8, <1>10
<1>12. ItemAt(tree, n, k) = v
    BY <1>s, <1>3, Zenon DEF ItemAt
<1>13. QED
    BY <1>3, <1>4, <1>8, <1>9, <1>10, <1>11, <1>12, Zenon

(* The flag says whether the node is split; it is followed by the quads    *)
(* or by nothing.                                                          *)
LEMMA ReadsFlag ==
    ASSUME NEW tree, NEW d, Readably(tree, d), NEW n \in 1 .. Len(tree),
           tree[n].split \in BOOLEAN,
           NEW a, NEW e, Lies(d, a, ItemsFrom(tree, n, Count(tree, n) + 1), e)
    PROVE  /\ At(d, a) = 1 <=> tree[n].split
           /\ ~ tree[n].split => At(d, a) = 0 /\ e = a + 1
           /\ tree[n].split => Lies(d, a + 1, QuadsFrom(tree, n, 0), e)
           /\ a < e /\ e <= Len(d) /\ a \in Nat
<1>1. IsTree(tree) /\ d \in Seq(Nat)
    BY DEF Readably
<1>2. Lies(d, a, Flagged(tree, n), e)
    BY <1>1, ItemsFromIs, Zenon
<1>3. CASE ~ tree[n].split
    <2>1. Flagged(tree, n) = <<0>>
        BY <1>3, Zenon DEF Flagged
    <2>2. PICK b : b = <<0>> /\ Lies(d, a, b, e)
        BY <1>2, <2>1, Zenon
    <2>3. Len(b) = 1 /\ b[1] = 0
        BY <2>2
    <2>4. /\ a \in Nat /\ e <= Len(d) /\ e = a + Len(b)
          /\ Len(b) >= 1 => a < e /\ At(d, a) = b[1]
        BY <1>1, <2>2, LiesInside, Zenon
    <2>5. a < e /\ At(d, a) = 0 /\ e = a + 1
        BY <2>3, <2>4
    <2>6. 0 # 1
        OBVIOUS
    <2>7. QED
        BY <1>3, <2>4, <2>5, <2>6, Zenon
<1>4. CASE tree[n].split
    <2>1. PICK b \in Seq(Nat), c \in Seq(Nat) :
             b = <<1>> /\ c = QuadsFrom(tree, n, 0) /\ Flagged(tree, n) = b \o c
        <3>1. <<1>> \in Seq(Nat) /\ 0 \in 0 .. 4
            OBVIOUS
        <3>2. QED
            BY <1>1, <1>4, <3>1, FlaggedIs, Zenon DEF Flagged
    <2>2. Lies(d, a, b \o c, e)
        BY <1>2, <2>1, Zenon
    <2>3. Len(b \o c) >= 1 /\ (b \o c)[1] = 1 /\ Len(b) = 1
        BY <2>1
    <2>4. /\ a \in Nat /\ e <= Len(d)
          /\ Len(b \o c) >= 1 => a < e /\ At(d, a) = (b \o c)[1]
        BY <1>1, <2>2, LiesInside, Zenon
    <2>5. Lies(d, a + Len(b), c, e)
        BY <1>1, <2>2, LiesParts, Zenon
    <2>6. QED
        BY <1>4, <2>1, <2>3, <2>4, <2>5, Zenon
<1>5. QED
    BY <1>3, <1>4

(* A node takes a byte at least, so the length of a quad that is not nil   *)
(* is never the 0 of one that is.                                          *)
LEMMA CodeNotEmpty ==
    ASSUME NEW tree, IsTree(tree), NEW n \in 1 .. Len(tree)
    PROVE  Code(tree, n) \in Seq(Nat) /\ Len(Code(tree, n)) \in Nat /\ Len(Code(tree, n)) >= 1
<1>1. PICK m \in Nat : m = Count(tree, n)
    BY SortedIncreasing, Zenon
<1>2. 1 \in 1 .. m + 1
    OBVIOUS
<1>3. PICK u \in Seq(Nat), c \in Seq(Nat) :
         u = Uvarint[m] /\ c = ItemsFrom(tree, n, 1) /\ Len(u) >= 1
    BY <1>1, <1>2, UvarintLen, ItemsFromIs, Zenon
<1>4. Code(tree, n) = u \o c
    BY <1>1, <1>3, ItemsFromIs, Zenon
<1>5. u \o c \in Seq(Nat) /\ Len(u \o c) \in Nat /\ Len(u \o c) >= 1
    BY <1>3
<1>6. QED
    BY <1>4, <1>5, Zenon

(* A quad that is nil is a 0, any other its length, not 0, and its bytes.  *)
LEMMA ReadsQuad ==
    ASSUME NEW tree, NEW d, Readably(tree, d), NEW n \in 1 .. Len(tree),
           NEW q \in 0 .. 3,
           NEW a, NEW e, Lies(d, a, QuadsFrom(tree, n, q), e)
    PROVE  LET c == tree[n].quads[q]
               r == ReadUvarint(d, a)
           IN  /\ r.value = 0 <=> c = 0
               /\ r.value \in Nat /\ r.addr \in Nat /\ a < r.addr /\ a \in Nat
               /\ a < e /\ e <= Len(d)
               /\ c = 0 => Lies(d, r.addr, QuadsFrom(tree, n, q + 1), e)
               /\ c # 0 => /\ Lies(d, r.addr, Code(tree, c), r.addr + r.value)
                           /\ Lies(d, r.addr + r.value, QuadsFrom(tree, n, q + 1), e)
<1>1. IsTree(tree) /\ d \in Seq(Nat)
    BY DEF Readably
<1>2. PICK c : c = tree[n].quads[q]
    OBVIOUS
<1>3. PICK t \in Seq(Nat) : t = QuadsFrom(tree, n, q + 1)
    <2>1. q + 1 \in 0 .. 4
        OBVIOUS
    <2>2. QED
        BY <1>1, <2>1, FlaggedIs, Zenon
<1>4. QuadsFrom(tree, n, q) = QuadCode(tree, n, q) \o t
    BY <1>1, <1>3, FlaggedIs, Zenon
<1>5. CASE c = 0
    <2>1. QuadCode(tree, n, q) = <<0>>
        BY <1>2, <1>5, Zenon DEF QuadCode, QuadWith
    <2>2. 0 \in Nat /\ 0 < Radix /\ 0 < Uint32Limit
        BY RadixFacts, ByteFacts DEF Uint32Limit
    <2>3. Uvarint[0] = <<0>>
        BY <2>2, OneByte, Zenon
    <2>4. Lies(d, a, Uvarint[0] \o t, e)
        BY <1>4, <2>1, <2>3, Zenon
    <2>5. /\ ReadUvarint(d, a).value = 0
          /\ Lies(d, ReadUvarint(d, a).addr, t, e)
          /\ ReadUvarint(d, a).addr \in Nat /\ a < ReadUvarint(d, a).addr /\ a \in Nat
        BY <1>1, <2>2, <2>4, LiesNumber, Zenon
    <2>6. e \in Nat /\ ReadUvarint(d, a).addr <= e /\ e <= Len(d)
        BY <1>1, <2>5, LiesInside, Zenon
    <2>7. PICK b \in Nat : b = ReadUvarint(d, a).addr
        BY <2>5
    <2>8. a < e
        BY <2>5, <2>6, <2>7
    <2>9. QED
        BY <1>2, <1>3, <1>5, <2>2, <2>5, <2>6, <2>8, Zenon
<1>6. CASE c # 0
    <2>1. c \in 1 .. Len(tree)
        <3>1. c \in n + 1 .. Len(tree) /\ Len(tree) \in Nat
            BY <1>1, <1>2, <1>6, Zenon DEF IsTree
        <3>2. QED
            BY <3>1
    <2>2. PICK b \in Seq(Nat) : b = Code(tree, c)
        BY <1>1, <2>1, CodeNotEmpty, Zenon
    <2>3. PICK x \in Nat : x = Len(b) /\ x >= 1
        BY <1>1, <2>1, <2>2, CodeNotEmpty, Zenon
    <2>4. PICK u \in Seq(Nat) : u = Uvarint[x]
        BY UvarintLen, Zenon
    <2>5. QuadCode(tree, n, q) = u \o b
        BY <1>2, <1>6, <2>2, <2>3, <2>4, Zenon DEF QuadCode, QuadWith, Sized, Code
    <2>6. PICK bt \in Seq(Nat) : bt = b \o t
        BY ConcatBytes, Zenon
    <2>7. Lies(d, a, u \o bt, e)
        <3>1. Associates(u, b, t)
            BY ConcatThree, Zenon
        <3>2. QED
            BY <1>4, <2>5, <2>6, <3>1, Zenon DEF Associates
    <2>8. x < Uint32Limit
        <3>1. PICK z : Lies(d, z, bt, e)
            BY <1>1, <2>7, LiesParts, Zenon
        <3>2. /\ z \in Nat /\ e <= Len(d) /\ Len(d) \in Nat
              /\ e = z + Len(bt) /\ Len(bt) \in Nat
            BY <1>1, <3>1, LiesInside, Zenon
        <3>3. Len(bt) = x + Len(t) /\ Len(t) \in Nat
            BY <2>3, <2>6
        <3>4. Len(d) < Uint32Limit
            BY DEF Readably
        <3>5. QED
            BY <3>2, <3>3, <3>4, LimitNat
    <2>9. Lies(d, a, Uvarint[x] \o bt, e)
        BY <2>4, <2>7, Zenon
    <2>10. /\ ReadUvarint(d, a).value = x
           /\ Lies(d, ReadUvarint(d, a).addr, bt, e)
           /\ ReadUvarint(d, a).addr \in Nat /\ a < ReadUvarint(d, a).addr /\ a \in Nat
        BY <1>1, <2>8, <2>9, LiesNumber, Zenon
    <2>11. PICK r \in Nat : r = ReadUvarint(d, a).addr
        BY <2>10, Zenon
    <2>12. Lies(d, r, b \o t, e)
        BY <2>6, <2>10, <2>11, Zenon
    <2>13. Lies(d, r, b, r + Len(b)) /\ Lies(d, r + Len(b), t, e)
        BY <1>1, <2>12, LiesParts, Zenon
    <2>14. e \in Nat /\ r <= e /\ e <= Len(d)
        BY <1>1, <2>12, LiesInside, Zenon
    <2>15. a < e /\ x # 0 /\ a < r
        BY <2>3, <2>10, <2>11, <2>14
    <2>16. QED
        BY <1>2, <1>3, <1>6, <2>2, <2>3, <2>10, <2>11, <2>13, <2>14, <2>15, Zenon
<1>7. QED
    BY <1>5, <1>6

-----------------------------------------------------------------------------
(* The bytes of two sequences.                                             *)
LEMMA ConcatParts ==
    ASSUME NEW s \in Seq(Nat), NEW t \in Seq(Nat)
    PROVE  /\ s \o t \in Seq(Nat) /\ Len(s \o t) = Len(s) + Len(t)
           /\ Len(s) \in Nat /\ Len(t) \in Nat
           /\ \A j \in 1 .. Len(s) : (s \o t)[j] = s[j]
           /\ \A j \in 1 .. Len(t) : (s \o t)[Len(s) + j] = t[j]
    OBVIOUS

(* The header: the kind and the four bytes of the length.                  *)
LEMMA HeaderBytes ==
    ASSUME NEW kind \in Nat, NEW p \in Seq(Nat), Len(p) = 4
    PROVE  \E h \in Seq(Nat) :
              /\ h = <<kind>> \o p /\ Len(h) = 5
              /\ h[2] = p[1] /\ h[3] = p[2] /\ h[4] = p[3] /\ h[5] = p[4]
<1>0. <<kind>> \in Seq(Nat) /\ Len(<<kind>>) = 1 /\ 1 + 4 = 5
    OBVIOUS
<1>1. PICK k \in Seq(Nat) : k = <<kind>> /\ Len(k) = 1
    BY <1>0, Zenon
<1>2. PICK h \in Seq(Nat) :
         /\ h = k \o p /\ Len(h) = Len(k) + Len(p)
         /\ \A j \in 1 .. Len(p) : h[Len(k) + j] = p[j]
    BY ConcatParts, Zenon
<1>3. Len(h) = 5 /\ \A j \in 1 .. 4 : h[1 + j] = p[j]
    BY <1>0, <1>1, <1>2, Zenon
<1>4. h[2] = p[1] /\ h[3] = p[2] /\ h[4] = p[3] /\ h[5] = p[4]
    <2>1. /\ 1 \in 1 .. 4 /\ 2 \in 1 .. 4 /\ 3 \in 1 .. 4 /\ 4 \in 1 .. 4
          /\ 1 + 1 = 2 /\ 1 + 2 = 3 /\ 1 + 3 = 4 /\ 1 + 4 = 5
        OBVIOUS
    <2>2. QED
        BY <1>3, <2>1, Zenon
<1>5. QED
    BY <1>1, <1>2, <1>3, <1>4, Zenon

(* The bytes of the header are where the length is read.                   *)
LEMMA HeaderAndBody ==
    ASSUME NEW h \in Seq(Nat), Len(h) = 5, NEW b \in Seq(Nat)
    PROVE  /\ h \o b \in Seq(Nat) /\ Len(h \o b) = 5 + Len(b)
           /\ (h \o b)[2] = h[2] /\ (h \o b)[3] = h[3]
           /\ (h \o b)[4] = h[4] /\ (h \o b)[5] = h[5]
           /\ Starts(h \o b, 5, b)
<1>1. PICK d \in Seq(Nat) :
         /\ d = h \o b /\ Len(d) = Len(h) + Len(b) /\ Len(b) \in Nat
         /\ \A j \in 1 .. Len(h) : d[j] = h[j]
         /\ \A j \in 1 .. Len(b) : d[Len(h) + j] = b[j]
    BY ConcatParts, Zenon
<1>2. /\ Len(d) = 5 + Len(b)
      /\ \A j \in 1 .. 5 : d[j] = h[j]
      /\ \A j \in 1 .. Len(b) : d[5 + j] = b[j]
    BY <1>1, Zenon
<1>3. 5 + Len(b) <= 5 + Len(b) /\ 2 \in 1 .. 5 /\ 3 \in 1 .. 5 /\ 4 \in 1 .. 5 /\ 5 \in 1 .. 5
    BY <1>1
<1>4. Starts(d, 5, b)
    BY <1>2, <1>3, Zenon DEF Starts
<1>5. QED
    BY <1>1, <1>2, <1>3, <1>4, Zenon

(* What is read is the whole index: the length in the header is its own,   *)
(* if it fits; the root's bytes follow the header and nothing follows.     *)
LEMMA ReadsIndex ==
    ASSUME NEW tree, IsTree(tree), NEW kind \in Nat,
           NEW d, d = SetCompressed(kind, tree), Len(d) < Uint32Limit
    PROVE  /\ d \in Seq(Nat) /\ Readable(d) = d
           /\ Lies(d, HeaderLen, Code(tree, 1), Len(d))
<1>1. 1 \in 1 .. Len(tree)
    BY DEF IsTree
<1>2. PICK b \in Seq(Nat) : b = Code(tree, 1)
    BY <1>1, CodeNotEmpty, Zenon
<1>3. PICK x \in Nat : x = HeaderLen + Len(b)
    BY DEF HeaderLen
<1>4. PICK p : p = PutUint32(x)
    OBVIOUS
<1>5. p \in Seq(Nat) /\ Len(p) = 4
    <2>1. PutUint32(x) \in Seq(Nat) /\ Len(PutUint32(x)) = 4
        BY ByteFacts DEF PutUint32
    <2>2. QED
        BY <1>4, <2>1, Zenon
<1>6. d = <<kind>> \o p \o b
    BY <1>2, <1>3, <1>4, Zenon DEF SetCompressed, Code
<1>7. PICK h \in Seq(Nat) :
         /\ h = <<kind>> \o p /\ Len(h) = 5
         /\ h[2] = p[1] /\ h[3] = p[2] /\ h[4] = p[3] /\ h[5] = p[4]
    BY <1>5, HeaderBytes, Zenon
<1>8. d = h \o b
    BY <1>6, <1>7, Zenon
<1>9. /\ h \o b \in Seq(Nat) /\ Len(h \o b) = 5 + Len(b)
      /\ (h \o b)[2] = h[2] /\ (h \o b)[3] = h[3]
      /\ (h \o b)[4] = h[4] /\ (h \o b)[5] = h[5]
      /\ Starts(h \o b, 5, b)
    BY <1>7, HeaderAndBody, Zenon
<1>10. /\ d \in Seq(Nat) /\ Len(d) = 5 + Len(b)
       /\ d[2] = p[1] /\ d[3] = p[2] /\ d[4] = p[3] /\ d[5] = p[4]
       /\ Starts(d, 5, b)
    BY <1>7, <1>8, <1>9, Zenon
<1>11. Len(d) = x
    BY <1>3, <1>10, Zenon DEF HeaderLen
<1>12. x < Uint32Limit
    BY <1>11, Zenon
<1>13. x = p[1] + Byte * (p[2] + Byte * (p[3] + Byte * p[4]))
    BY <1>4, <1>12, Uint32Back, Zenon
<1>14. Uint32(d) = Len(d)
    BY <1>10, <1>11, <1>13, Zenon DEF Uint32
<1>15. SubSeq(d, 1, Len(d)) = d
    BY <1>10
<1>16. Readable(d) = d
    BY <1>14, <1>15, Zenon DEF Readable
<1>17. Lies(d, 5, b, Len(d))
    BY <1>10 DEF Lies
<1>18. QED
    BY <1>2, <1>10, <1>16, <1>17, Zenon DEF HeaderLen

-----------------------------------------------------------------------------
(* The shape of a finished tree.                                           *)

(* Every node but the root is a quad of one node, once.                    *)
Parented(tree) ==
    \A m \in 2 .. Len(tree) : \E n \in 1 .. Len(tree) : \E q \in 0 .. 3 :
        tree[n].quads[q] = m

OneParent(tree) ==
    \A n, m \in 1 .. Len(tree) : \A q, r \in 0 .. 3 :
        (tree[n].quads[q] # 0 /\ tree[n].quads[q] = tree[m].quads[r])
            => n = m /\ q = r

IsFamily(tree) == IsTree(tree) /\ Parented(tree) /\ OneParent(tree)

(* The nodes below a node, itself included: what every set of nodes has    *)
(* that has the node and, with a node, its quads.                          *)
Closed(tree, C) ==
    \A m \in C : \A q \in 0 .. 3 : tree[m].quads[q] # 0 => tree[m].quads[q] \in C

Below(tree, n) ==
    {m \in 1 .. Len(tree) : \A C \in SUBSET (1 .. Len(tree)) :
        n \in C /\ Closed(tree, C) => m \in C}

(* A quad comes after its node, which is split.                            *)
LEMMA QuadRange ==
    ASSUME NEW tree, IsTree(tree), NEW n \in 1 .. Len(tree), NEW q \in 0 .. 3,
           tree[n].quads[q] # 0
    PROVE  /\ tree[n].quads[q] \in 1 .. Len(tree) /\ n < tree[n].quads[q]
           /\ tree[n].quads[q] \in Nat /\ tree[n].split
<1>1. PICK c : c = tree[n].quads[q] /\ c \in n + 1 .. Len(tree) /\ tree[n].split
    BY Zenon DEF IsTree
<1>2. Len(tree) \in Nat
    BY DEF IsTree
<1>3. c \in 1 .. Len(tree) /\ n < c /\ c \in Nat
    BY <1>1, <1>2
<1>4. QED
    BY <1>1, <1>3, Zenon

Same(m, n) == m = n

(* A node has one parent, of which it is one quad.                         *)
LEMMA SameParent ==
    ASSUME NEW tree, OneParent(tree), NEW n \in 1 .. Len(tree), NEW m \in 1 .. Len(tree),
           NEW q \in 0 .. 3, NEW r \in 0 .. 3, NEW c, c # 0,
           tree[n].quads[q] = c, tree[m].quads[r] = c
    PROVE  Same(n, m) /\ Same(q, r)
    BY DEF OneParent, Same

(* Every such set has what is below the node,                              *)
LEMMA BelowIn ==
    ASSUME NEW tree, NEW n, NEW C \in SUBSET (1 .. Len(tree)), n \in C, Closed(tree, C)
    PROVE  Below(tree, n) \subseteq C
    BY DEF Below

(* and the nodes below it are such a set.                                  *)
LEMMA BelowClosed ==
    ASSUME NEW tree, IsTree(tree), NEW n \in 1 .. Len(tree)
    PROVE  /\ Below(tree, n) \in SUBSET (1 .. Len(tree)) /\ n \in Below(tree, n)
           /\ Closed(tree, Below(tree, n))
<1>1. Below(tree, n) \in SUBSET (1 .. Len(tree)) /\ n \in Below(tree, n)
    BY DEF Below
<1>2. ASSUME NEW m \in Below(tree, n), NEW q \in 0 .. 3, tree[m].quads[q] # 0
      PROVE  tree[m].quads[q] \in Below(tree, n)
    <2>1. PICK c : c = tree[m].quads[q] /\ c \in 1 .. Len(tree)
        BY <1>1, <1>2, QuadRange
    <2>2. ASSUME NEW C \in SUBSET (1 .. Len(tree)), n \in C, Closed(tree, C)
          PROVE  c \in C
        <3>1. m \in C
            BY <2>2 DEF Below
        <3>2. QED
            BY <1>2, <2>1, <2>2, <3>1, Zenon DEF Closed
    <2>3. QED
        BY <2>1, <2>2 DEF Below
<1>3. QED
    BY <1>1, <1>2, Zenon DEF Closed

(* What is below a node is the node and what is below its quads.           *)
LEMMA BelowIs ==
    ASSUME NEW tree, IsTree(tree), NEW n \in 1 .. Len(tree), NEW m
    PROVE  m \in Below(tree, n) <=>
              \/ m = n
              \/ \E q \in 0 .. 3 : /\ tree[n].quads[q] # 0
                                   /\ m \in Below(tree, tree[n].quads[q])
<1> DEFINE C == {l \in 1 .. Len(tree) :
                    \/ l = n
                    \/ \E q \in 0 .. 3 : /\ tree[n].quads[q] # 0
                                         /\ l \in Below(tree, tree[n].quads[q])}
<1>1. Closed(tree, C)
    <2> SUFFICES ASSUME NEW l \in C, NEW r \in 0 .. 3, tree[l].quads[r] # 0
                 PROVE  tree[l].quads[r] \in C
        BY DEF Closed
    <2>0. l \in 1 .. Len(tree)
        OBVIOUS
    <2>1. PICK c : c = tree[l].quads[r] /\ c \in 1 .. Len(tree)
        BY <2>0, QuadRange, Zenon
    <2>2. CASE l = n
        <3>1. c \in Below(tree, c)
            BY <2>1, BelowClosed, Zenon
        <3>2. QED
            BY <2>1, <2>2, <3>1
    <2>3. CASE l # n
        <3>1. PICK q \in 0 .. 3 : /\ tree[n].quads[q] # 0
                                  /\ l \in Below(tree, tree[n].quads[q])
            BY <2>3
        <3>2. tree[n].quads[q] \in 1 .. Len(tree)
            BY <3>1, QuadRange, Zenon
        <3>3. Closed(tree, Below(tree, tree[n].quads[q]))
            BY <3>2, BelowClosed, Zenon
        <3>4. c \in Below(tree, tree[n].quads[q])
            BY <2>1, <3>1, <3>3, Zenon DEF Closed
        <3>5. QED
            BY <2>1, <3>1, <3>4
    <2>4. QED
        BY <2>2, <2>3
<1>2. C \in SUBSET (1 .. Len(tree)) /\ n \in C
    OBVIOUS
<1>3. Below(tree, n) \subseteq C
    <2> HIDE DEF C
    <2>1. QED
        BY <1>1, <1>2, BelowIn, Zenon
<1>4. ASSUME NEW q \in 0 .. 3, tree[n].quads[q] # 0,
             m \in Below(tree, tree[n].quads[q])
      PROVE  m \in Below(tree, n)
    <2>1. /\ Below(tree, n) \in SUBSET (1 .. Len(tree)) /\ n \in Below(tree, n)
          /\ Closed(tree, Below(tree, n))
        BY BelowClosed, Zenon
    <2>2. tree[n].quads[q] \in Below(tree, n)
        BY <1>4, <2>1, Zenon DEF Closed
    <2>3. Below(tree, tree[n].quads[q]) \subseteq Below(tree, n)
        BY <2>1, <2>2, BelowIn, Zenon
    <2>4. QED
        BY <1>4, <2>3
<1>5. n \in Below(tree, n)
    BY BelowClosed, Zenon
<1>6. QED
    BY <1>3, <1>4, <1>5

(* Quads come after their node.                                            *)
LEMMA BelowAfter ==
    ASSUME NEW tree, IsTree(tree), NEW n \in 1 .. Len(tree), NEW m \in Below(tree, n)
    PROVE  m \in 1 .. Len(tree) /\ n <= m
<1> DEFINE C == {l \in 1 .. Len(tree) : n <= l}
<1>1. Len(tree) \in Nat
    BY DEF IsTree
<1>2. ASSUME NEW l \in C, NEW r \in 0 .. 3, tree[l].quads[r] # 0
      PROVE  tree[l].quads[r] \in C
    <2>1. l \in 1 .. Len(tree) /\ n <= l
        OBVIOUS
    <2>2. PICK c \in Nat : c = tree[l].quads[r] /\ c \in 1 .. Len(tree) /\ l < c
        BY <1>2, <2>1, QuadRange, Zenon
    <2>3. c \in C
        BY <1>1, <2>1, <2>2
    <2>4. QED
        BY <2>2, <2>3, Zenon
<1>3. C \in SUBSET (1 .. Len(tree)) /\ n \in C
    BY <1>1
<1>4. Below(tree, n) \subseteq C
    <2>1. Closed(tree, C)
        BY <1>2, Zenon DEF Closed
    <2> HIDE DEF C
    <2>2. QED
        BY <1>3, <2>1, BelowIn, Zenon
<1>5. QED
    BY <1>4

(* Whatever is strictly below a node has its parent there.                 *)
LEMMA BelowParent ==
    ASSUME NEW tree, IsTree(tree), NEW n \in 1 .. Len(tree),
           NEW m \in Below(tree, n), m # n
    PROVE  \E l \in Below(tree, n) : \E q \in 0 .. 3 : tree[l].quads[q] = m
<1> SUFFICES ASSUME \A l \in Below(tree, n) : \A q \in 0 .. 3 : tree[l].quads[q] # m
             PROVE  FALSE
    OBVIOUS
<1> DEFINE C == Below(tree, n) \ {m}
<1>1. /\ Below(tree, n) \in SUBSET (1 .. Len(tree)) /\ n \in Below(tree, n)
      /\ Closed(tree, Below(tree, n))
    BY BelowClosed, Zenon
<1>2. Closed(tree, C)
    BY <1>1, Zenon DEF Closed
<1>3. C \in SUBSET (1 .. Len(tree)) /\ n \in C
    BY <1>1
<1>4. Below(tree, n) \subseteq C
    <2> HIDE DEF C
    <2>1. QED
        BY <1>2, <1>3, BelowIn, Zenon
<1>5. QED
    BY <1>4

(* All nodes are below the root.                                           *)
LEMMA AllBelowRoot ==
    ASSUME NEW tree, IsFamily(tree)
    PROVE  Below(tree, 1) = 1 .. Len(tree) /\ 1 \in 1 .. Len(tree)
<1>1. IsTree(tree) /\ 1 \in 1 .. Len(tree) /\ Len(tree) \in Nat
    BY DEF IsFamily, IsTree
<1>2. /\ Below(tree, 1) \in SUBSET (1 .. Len(tree)) /\ 1 \in Below(tree, 1)
      /\ Closed(tree, Below(tree, 1))
    BY <1>1, BelowClosed, Zenon
<1> DEFINE T == {m \in Nat : m \in 1 .. Len(tree) /\ m \notin Below(tree, 1)}
<1>3. ASSUME T # {} PROVE FALSE
    <2>1. PICK m \in T : \A l \in T : m <= l
        <3>1. T \in SUBSET Nat
            OBVIOUS
        <3> HIDE DEF T
        <3>2. QED
            BY <1>3, <3>1, LeastNatural, Zenon
    <2>2. m \in Nat /\ m \in 1 .. Len(tree) /\ m \notin Below(tree, 1)
        OBVIOUS
    <2>3. m \in 2 .. Len(tree)
        BY <1>1, <1>2, <2>2
    <2>4. PICK n \in 1 .. Len(tree), q \in 0 .. 3 : tree[n].quads[q] = m
        BY <2>3, Zenon DEF IsFamily, Parented
    <2>5. m # 0
        BY <2>3
    <2>6. n < m
        BY <1>1, <2>4, <2>5, QuadRange, Zenon
    <2>7. n \notin T
        <3> HIDE DEF T
        <3>1. QED
            BY <2>1, <2>2, <2>6
    <2>8. n \in Below(tree, 1)
        BY <2>7
    <2>9. QED
        BY <1>2, <2>2, <2>4, <2>5, <2>8, Zenon DEF Closed
<1>4. ASSUME NEW m \in 1 .. Len(tree) PROVE m \in Below(tree, 1)
    <2>1. m \in Nat
        OBVIOUS
    <2>2. QED
        BY <1>3, <2>1
<1>5. QED
    BY <1>1, <1>2, <1>4

(* What is below one quad is not below another, nor is the node.           *)
LEMMA QuadsApart ==
    ASSUME NEW tree, IsFamily(tree), NEW n \in 1 .. Len(tree),
           NEW q \in 0 .. 3, NEW r \in 0 .. 3, q # r,
           tree[n].quads[q] # 0, tree[n].quads[r] # 0
    PROVE  \A m : ~ (m \in Below(tree, tree[n].quads[q])
                        /\ m \in Below(tree, tree[n].quads[r]))
<1>1. IsTree(tree) /\ OneParent(tree)
    BY DEF IsFamily
<1>2. PICK a \in Nat, b \in Nat :
         /\ a = tree[n].quads[q] /\ b = tree[n].quads[r]
         /\ a \in 1 .. Len(tree) /\ b \in 1 .. Len(tree)
         /\ n < a /\ n < b /\ a # 0 /\ b # 0
    BY <1>1, QuadRange, Zenon
<1>3. a # b
    <2>1. (tree[n].quads[q] # 0 /\ tree[n].quads[q] = tree[n].quads[r]) => q = r
        BY <1>1 DEF OneParent
    <2>2. QED
        BY <1>2, <2>1, Zenon
<1>4. \A m : m \in Below(tree, a) => m \in 1 .. Len(tree) /\ a <= m
    BY <1>1, <1>2, BelowAfter, Zenon
<1>5. \A m : m \in Below(tree, b) => m \in 1 .. Len(tree) /\ b <= m
    BY <1>1, <1>2, BelowAfter, Zenon
<1>6. n \notin Below(tree, a) /\ n \notin Below(tree, b)
    BY <1>2, <1>4, <1>5
<1>7. a \notin Below(tree, b)
    <2> SUFFICES ASSUME a \in Below(tree, b) PROVE FALSE
        OBVIOUS
    <2>1. IsTree(tree) /\ b \in 1 .. Len(tree) /\ a # b
        BY <1>1, <1>2, <1>3, Zenon
    <2>2. PICK l \in Below(tree, b) : \E t \in 0 .. 3 : tree[l].quads[t] = a
        BY <2>1, BelowParent, Zenon
    <2>3. PICK t \in 0 .. 3 : tree[l].quads[t] = a
        BY <2>2, Zenon
    <2>4. l \in 1 .. Len(tree)
        BY <1>5, <2>2
    <2>5. Same(l, n)
        BY <1>1, <1>2, <2>3, <2>4, SameParent, Zenon
    <2>6. QED
        BY <1>6, <2>2, <2>5 DEF Same
<1>8. b \notin Below(tree, a)
    <2> SUFFICES ASSUME b \in Below(tree, a) PROVE FALSE
        OBVIOUS
    <2>1. IsTree(tree) /\ a \in 1 .. Len(tree) /\ b # a
        BY <1>1, <1>2, <1>3, Zenon
    <2>2. PICK l \in Below(tree, a) : \E t \in 0 .. 3 : tree[l].quads[t] = b
        BY <2>1, BelowParent, Zenon
    <2>3. PICK t \in 0 .. 3 : tree[l].quads[t] = b
        BY <2>2, Zenon
    <2>4. l \in 1 .. Len(tree)
        BY <1>4, <2>2
    <2>5. Same(l, n)
        BY <1>1, <1>2, <2>3, <2>4, SameParent, Zenon
    <2>6. QED
        BY <1>6, <2>2, <2>5 DEF Same
<1> DEFINE T == {m \in Nat : m \in Below(tree, a) /\ m \in Below(tree, b)}
<1>9. ASSUME T # {} PROVE FALSE
    <2>1. PICK m \in T : \A l \in T : m <= l
        <3>1. T \in SUBSET Nat
            OBVIOUS
        <3> HIDE DEF T
        <3>2. QED
            BY <1>9, <3>1, LeastNatural, Zenon
    <2>2. m \in Nat /\ m \in Below(tree, a) /\ m \in Below(tree, b)
        OBVIOUS
    <2>3. m # a /\ m # b
        BY <1>7, <1>8, <2>2
    <2>4. PICK l \in Below(tree, a), t \in 0 .. 3 : tree[l].quads[t] = m
        BY <1>1, <1>2, <2>2, <2>3, BelowParent, Zenon
    <2>5. PICK k \in Below(tree, b), u \in 0 .. 3 : tree[k].quads[u] = m
        BY <1>1, <1>2, <2>2, <2>3, BelowParent, Zenon
    <2>6. l \in 1 .. Len(tree) /\ k \in 1 .. Len(tree) /\ m \in 1 .. Len(tree) /\ m # 0
        BY <1>4, <1>5, <2>2
    <2>7. Same(l, k)
        BY <1>1, <2>4, <2>5, <2>6, SameParent, Zenon
    <2>8. l < m
        BY <1>1, <2>4, <2>6, QuadRange, Zenon
    <2>9. l \in T
        BY <2>4, <2>5, <2>6, <2>7 DEF Same
    <2> HIDE DEF T
    <2>10. QED
        BY <2>1, <2>2, <2>6, <2>8, <2>9
<1>10. ASSUME NEW m, m \in Below(tree, a), m \in Below(tree, b) PROVE FALSE
    <2>1. m \in 1 .. Len(tree)
        BY <1>4, <1>10
    <2>2. m \in Nat
        BY <2>1
    <2>3. QED
        BY <1>9, <1>10, <2>2
<1>11. QED
    BY <1>2, <1>10, Zenon

-----------------------------------------------------------------------------
(* What a finished tree holds.                                             *)

(* The tree of a series: every segment has one place in it, inside the     *)
(* bounds of the node, and the bounds are those the searches compute.      *)
HasItem(tree, n, i) == \E k \in DOMAIN tree[n].items : tree[n].items[k] = i

Numbers(s) == 0 .. NumSegments(s) - 1

IsBounded(tree, s) ==
    /\ tree[1].bounds = s.rect
    /\ \A i \in Numbers(s) : RectContainsRect(s.rect, SegmentRectAt(s, i))
    /\ \A n \in 1 .. Len(tree) : tree[n].bounds \in Rect
    /\ \A n \in 1 .. Len(tree) : \A q \in 0 .. 3 : tree[n].quads[q] # 0 =>
          tree[tree[n].quads[q]].bounds = QuadBounds(tree[n].bounds, q)
    /\ \A n \in 1 .. Len(tree) : \A i \in Numbers(s) : HasItem(tree, n, i) =>
          RectContainsRect(tree[n].bounds, SegmentRectAt(s, i))

IsFilled(tree, s) ==
    /\ \A n \in 1 .. Len(tree) : \A k \in DOMAIN tree[n].items :
          tree[n].items[k] \in Numbers(s)
    /\ \A i \in Numbers(s) : \E n \in 1 .. Len(tree) : HasItem(tree, n, i)
    /\ \A n, m \in 1 .. Len(tree) : \A k \in DOMAIN tree[n].items :
          \A j \in DOMAIN tree[m].items :
             tree[n].items[k] = tree[m].items[j] => Same(n, m) /\ Same(k, j)

IsTreeOf(tree, s) ==
    /\ IsFamily(tree) /\ s \in SeriesType
    /\ \A n \in 1 .. Len(tree) : tree[n].split \in BOOLEAN
    /\ IsBounded(tree, s) /\ IsFilled(tree, s)

(* The segments that are kept below a node, those of its items from the    *)
(* k-th on, and those below its quads from the q-th on.                    *)
Under(tree, n) == {i \in Nat : \E m \in Below(tree, n) : HasItem(tree, m, i)}

Own(tree, n, k) == {i \in Nat : \E j \in k .. Count(tree, n) : ItemAt(tree, n, j) = i}

Kids(tree, n, q) ==
    {i \in Nat : \E r \in q .. 3 : /\ tree[n].quads[r] # 0
                                   /\ i \in Under(tree, tree[n].quads[r])}

(* Segments are numbered from 0 on.                                        *)
LEMMA NumbersNat ==
    ASSUME NEW s \in SeriesType
    PROVE  Numbers(s) \subseteq Nat /\ NumSegments(s) \in Nat
    BY NumSegmentsNat DEF Numbers

(* A segment is an item of one node.                                       *)
LEMMA OneHome ==
    ASSUME NEW tree, NEW s, IsFilled(tree, s),
           NEW n \in 1 .. Len(tree), NEW m \in 1 .. Len(tree), NEW i,
           HasItem(tree, n, i), HasItem(tree, m, i)
    PROVE  Same(n, m)
<1>1. PICK k \in DOMAIN tree[n].items : tree[n].items[k] = i
    BY DEF HasItem
<1>2. PICK j \in DOMAIN tree[m].items : tree[m].items[j] = i
    BY DEF HasItem
<1>3. tree[n].items[k] = tree[m].items[j]
    BY <1>1, <1>2
<1>4. QED
    BY <1>3, Zenon DEF IsFilled

(* The items of a node in the order in which they are read.                *)
LEMMA OwnIs ==
    ASSUME NEW tree, NEW s, IsTreeOf(tree, s), NEW n \in 1 .. Len(tree)
    PROVE  /\ Count(tree, n) \in Nat
           /\ \A i : i \in Own(tree, n, 1) <=> HasItem(tree, n, i)
           /\ \A k \in 1 .. Count(tree, n) :
                 /\ ItemAt(tree, n, k) \in Numbers(s)
                 /\ HasItem(tree, n, ItemAt(tree, n, k))
                 /\ ItemAt(tree, n, k) \notin Own(tree, n, k + 1)
                 /\ \A i : i \in Own(tree, n, k) <=>
                              i = ItemAt(tree, n, k) \/ i \in Own(tree, n, k + 1)
           /\ Own(tree, n, Count(tree, n) + 1) = {}
<1>1. IsTree(tree) /\ IsFilled(tree, s) /\ Numbers(s) \subseteq Nat
    BY NumbersNat DEF IsTreeOf, IsFamily
<1>2. PICK items \in Seq(Nat) : items = tree[n].items
    BY <1>1 DEF IsTree
<1>3. PICK m \in Nat : m = Len(items) /\ m = Count(tree, n) /\ DOMAIN items = 1 .. m
    BY <1>2 DEF Count
<1>t. PICK t : t = Sorted(items)
    OBVIOUS
<1>4. /\ \A r \in 1 .. m : \E k \in 1 .. m : t[r] = items[k]
      /\ \A k \in 1 .. m : \E r \in 1 .. m : t[r] = items[k]
    <2>1. \A r \in DOMAIN items : \E k \in DOMAIN items : Sorted(items)[r] = items[k]
        BY SortedFacts
    <2>2. \A k \in DOMAIN items : \E r \in DOMAIN items : Sorted(items)[r] = items[k]
        BY SortedFacts
    <2>3. QED
        BY <1>3, <1>t, <2>1, <2>2, Zenon
<1>5. \A i, j \in 1 .. m : t[i] = t[j] => i = j
    <2>1. ASSUME NEW i \in DOMAIN items, NEW j \in DOMAIN items, items[i] = items[j]
          PROVE  i = j
        <3>1. Same(i, j)
            BY <1>1, <1>2, <2>1, Zenon DEF IsFilled
        <3>2. QED
            BY <3>1 DEF Same
    <2>2. (\A i, j \in DOMAIN items : items[i] = items[j] => i = j) =>
             \A i, j \in DOMAIN items : Sorted(items)[i] = Sorted(items)[j] => i = j
        BY SortedFacts
    <2>3. \A i, j \in DOMAIN items : Sorted(items)[i] = Sorted(items)[j] => i = j
        BY <2>1, <2>2, Zenon
    <2>4. QED
        BY <1>3, <1>t, <2>3, Zenon
<1>6. \A k : ItemAt(tree, n, k) = t[k]
    BY <1>2, <1>t, Zenon DEF ItemAt
<1>7. \A i : HasItem(tree, n, i) <=> \E k \in 1 .. m : items[k] = i
    BY <1>2, <1>3, Zenon DEF HasItem
<1>8. \A k : \A i : i \in Own(tree, n, k) <=> i \in Nat /\ \E j \in k .. m : t[j] = i
    BY <1>3, <1>6, Zenon DEF Own
<1>9. \A k \in 1 .. m : items[k] \in Nat
    BY <1>3
<1>10. ASSUME NEW i PROVE i \in Own(tree, n, 1) <=> HasItem(tree, n, i)
    <2>1. ASSUME i \in Own(tree, n, 1) PROVE HasItem(tree, n, i)
        <3>1. PICK r \in 1 .. m : t[r] = i
            BY <1>8, <2>1, Zenon
        <3>2. PICK k \in 1 .. m : t[r] = items[k]
            BY <1>4, Zenon
        <3>3. QED
            BY <1>7, <3>1, <3>2, Zenon
    <2>2. ASSUME HasItem(tree, n, i) PROVE i \in Own(tree, n, 1)
        <3>1. PICK k \in 1 .. m : items[k] = i
            BY <1>7, <2>2, Zenon
        <3>2. PICK r \in 1 .. m : t[r] = items[k]
            BY <1>4, Zenon
        <3>3. i \in Nat
            BY <1>9, <3>1, Zenon
        <3>4. QED
            BY <1>8, <3>1, <3>2, <3>3, Zenon
    <2>3. QED
        BY <2>1, <2>2
<1>11. ASSUME NEW k \in 1 .. m
       PROVE  /\ t[k] \in Numbers(s) /\ HasItem(tree, n, t[k])
              /\ t[k] \notin Own(tree, n, k + 1)
              /\ \A i : i \in Own(tree, n, k) <=> i = t[k] \/ i \in Own(tree, n, k + 1)
    <2>1. PICK l \in 1 .. m : t[k] = items[l]
        BY <1>4, Zenon
    <2>2. items[l] \in Numbers(s)
        BY <1>1, <1>2, <1>3, Zenon DEF IsFilled
    <2>3. HasItem(tree, n, t[k])
        BY <1>7, <2>1, Zenon
    <2>4. \A j \in k + 1 .. m : j # k /\ j \in 1 .. m
        OBVIOUS
    <2>5. t[k] \notin Own(tree, n, k + 1)
        <3> SUFFICES ASSUME t[k] \in Own(tree, n, k + 1) PROVE FALSE
            OBVIOUS
        <3>1. PICK j \in k + 1 .. m : t[j] = t[k]
            BY <1>8, Zenon
        <3>2. QED
            BY <1>5, <2>4, <3>1, Zenon
    <2>6. \A j \in k .. m : j = k \/ j \in k + 1 .. m
        OBVIOUS
    <2>7. k \in k .. m /\ \A j \in k + 1 .. m : j \in k .. m
        OBVIOUS
    <2>8. t[k] \in Nat
        BY <1>9, <2>1, Zenon
    <2>9. ASSUME NEW i
          PROVE  i \in Own(tree, n, k) <=> i = t[k] \/ i \in Own(tree, n, k + 1)
        BY <1>8, <2>6, <2>7, <2>8, Zenon
    <2>10. QED
        BY <2>1, <2>2, <2>3, <2>5, <2>9, Zenon
<1>12. Own(tree, n, m + 1) = {}
    <2>1. m + 1 .. m = {}
        OBVIOUS
    <2>2. QED
        BY <1>8, <2>1, Zenon
<1>13. QED
    <2>1. ASSUME NEW k \in 1 .. Count(tree, n)
          PROVE  /\ ItemAt(tree, n, k) \in Numbers(s)
                 /\ HasItem(tree, n, ItemAt(tree, n, k))
                 /\ ItemAt(tree, n, k) \notin Own(tree, n, k + 1)
                 /\ \A i : i \in Own(tree, n, k) <=>
                              i = ItemAt(tree, n, k) \/ i \in Own(tree, n, k + 1)
        <3>1. k \in 1 .. m
            BY <1>3, Zenon
        <3>2. PICK v : v = t[k] /\ v = ItemAt(tree, n, k)
            BY <1>6, Zenon
        <3>3. /\ v \in Numbers(s) /\ HasItem(tree, n, v)
              /\ v \notin Own(tree, n, k + 1)
            BY <1>11, <3>1, <3>2, Zenon
        <3>4. ASSUME NEW i
              PROVE  i \in Own(tree, n, k) <=> i = v \/ i \in Own(tree, n, k + 1)
            BY <1>11, <3>1, <3>2, Zenon
        <3>5. QED
            BY <3>2, <3>3, <3>4, Zenon
    <2>2. Own(tree, n, Count(tree, n) + 1) = {} /\ Count(tree, n) \in Nat
        BY <1>3, <1>12, Zenon
    <2>3. QED
        BY <1>10, <2>1, <2>2, Zenon

(* What is below the quads from q on is what is below q and below the      *)
(* ones after it.                                                          *)
LEMMA KidsIs ==
    ASSUME NEW tree, NEW s, IsTreeOf(tree, s), NEW n \in 1 .. Len(tree)
    PROVE  /\ \A q \in 0 .. 3 : tree[n].quads[q] = 0 =>
                 Kids(tree, n, q) = Kids(tree, n, q + 1)
           /\ \A q \in 0 .. 3 : tree[n].quads[q] # 0 =>
                 \A i : i \in Kids(tree, n, q) <=>
                           \/ i \in Under(tree, tree[n].quads[q])
                           \/ i \in Kids(tree, n, q + 1)
           /\ Kids(tree, n, 4) = {}
           /\ ~ tree[n].split => Kids(tree, n, 0) = {}
<1>0. IsTree(tree)
    BY DEF IsTreeOf, IsFamily
<1>1. ASSUME NEW q \in 0 .. 3
      PROVE  /\ q \in q .. 3
             /\ \A r : r \in q .. 3 <=> r = q \/ r \in q + 1 .. 3
    OBVIOUS
<1>2. \A q : \A i : i \in Kids(tree, n, q) <=>
         i \in Nat /\ \E r \in q .. 3 : /\ tree[n].quads[r] # 0
                                        /\ i \in Under(tree, tree[n].quads[r])
    BY Zenon DEF Kids
<1>3. ASSUME NEW q \in 0 .. 3, tree[n].quads[q] = 0
      PROVE  Kids(tree, n, q) = Kids(tree, n, q + 1)
    <2>1. \A i : i \in Kids(tree, n, q) <=> i \in Kids(tree, n, q + 1)
        BY <1>1, <1>2, <1>3, Zenon
    <2>2. QED
        BY <2>1, Zenon
<1>4. ASSUME NEW q \in 0 .. 3, tree[n].quads[q] # 0, NEW i
      PROVE  i \in Kids(tree, n, q) <=> \/ i \in Under(tree, tree[n].quads[q])
                                        \/ i \in Kids(tree, n, q + 1)
    <2>1. i \in Under(tree, tree[n].quads[q]) => i \in Nat
        BY DEF Under
    <2>2. QED
        BY <1>1, <1>2, <1>4, <2>1, Zenon
<1>5. Kids(tree, n, 4) = {}
    <2>1. 4 .. 3 = {}
        OBVIOUS
    <2>2. QED
        BY <1>2, <2>1, Zenon
<1>6. ASSUME ~ tree[n].split PROVE Kids(tree, n, 0) = {}
    BY <1>0, <1>2, <1>6, QuadRange, Zenon
<1>7. QED
    BY <1>3, <1>4, <1>5, <1>6, Zenon

(* The segments below a node are its own and those below its quads, and    *)
(* nothing is in two of them.                                              *)
LEMMA UnderIs ==
    ASSUME NEW tree, NEW s, IsTreeOf(tree, s), NEW n \in 1 .. Len(tree)
    PROVE  /\ \A i : i \in Under(tree, n) <=>
                        i \in Own(tree, n, 1) \/ i \in Kids(tree, n, 0)
           /\ \A i : ~ (i \in Own(tree, n, 1) /\ i \in Kids(tree, n, 0))
           /\ \A q \in 0 .. 3 : tree[n].quads[q] # 0 =>
                 \A i : ~ (i \in Under(tree, tree[n].quads[q])
                              /\ i \in Kids(tree, n, q + 1))
<1>1. IsTree(tree) /\ IsFamily(tree) /\ IsFilled(tree, s)
    BY DEF IsTreeOf, IsFamily
<1>2. \A i : i \in Own(tree, n, 1) <=> HasItem(tree, n, i)
    BY OwnIs, Zenon
<1>3. \A i : HasItem(tree, n, i) => i \in Nat
    BY <1>2 DEF Own
<1>4. ASSUME NEW i
      PROVE  i \in Under(tree, n) <=> i \in Own(tree, n, 1) \/ i \in Kids(tree, n, 0)
    <2>1. i \in Under(tree, n) <=>
             i \in Nat /\ \E m \in Below(tree, n) : HasItem(tree, m, i)
        BY Zenon DEF Under
    <2>2. i \in Kids(tree, n, 0) <=> i \in Nat /\ \E q \in 0 .. 3 :
             /\ tree[n].quads[q] # 0
             /\ \E m \in Below(tree, tree[n].quads[q]) : HasItem(tree, m, i)
        BY Zenon DEF Kids, Under
    <2>3. \A m : m \in Below(tree, n) <=>
              \/ m = n
              \/ \E q \in 0 .. 3 : /\ tree[n].quads[q] # 0
                                   /\ m \in Below(tree, tree[n].quads[q])
        BY <1>1, BelowIs, Zenon
    <2>4. QED
        BY <1>2, <1>3, <2>1, <2>2, <2>3, Zenon
<1>5. ASSUME NEW i, HasItem(tree, n, i), i \in Kids(tree, n, 0)
      PROVE  FALSE
    <2>1. PICK q \in 0 .. 3 : /\ tree[n].quads[q] # 0
                              /\ i \in Under(tree, tree[n].quads[q])
        BY <1>5 DEF Kids
    <2>2. PICK c \in Nat : c = tree[n].quads[q] /\ c \in 1 .. Len(tree) /\ n < c
        BY <1>1, <2>1, QuadRange, Zenon
    <2>3. PICK m \in Below(tree, c) : HasItem(tree, m, i)
        BY <2>1, <2>2 DEF Under
    <2>4. m \in 1 .. Len(tree) /\ c <= m
        BY <1>1, <2>2, BelowAfter, Zenon
    <2>5. Same(n, m)
        BY <1>1, <1>5, <2>3, <2>4, OneHome, Zenon
    <2>6. QED
        BY <2>2, <2>4, <2>5 DEF Same
<1>6. ASSUME NEW q \in 0 .. 3, tree[n].quads[q] # 0, NEW i,
             i \in Under(tree, tree[n].quads[q]), i \in Kids(tree, n, q + 1)
      PROVE  FALSE
    <2>1. PICK r \in q + 1 .. 3 : /\ tree[n].quads[r] # 0
                                  /\ i \in Under(tree, tree[n].quads[r])
        BY <1>6 DEF Kids
    <2>2. r \in 0 .. 3 /\ q # r
        OBVIOUS
    <2>3. /\ tree[n].quads[q] \in 1 .. Len(tree)
          /\ tree[n].quads[r] \in 1 .. Len(tree)
        BY <1>1, <1>6, <2>1, <2>2, QuadRange, Zenon
    <2>4. PICK m \in Below(tree, tree[n].quads[q]) : HasItem(tree, m, i)
        BY <1>6 DEF Under
    <2>5. PICK l \in Below(tree, tree[n].quads[r]) : HasItem(tree, l, i)
        BY <2>1 DEF Under
    <2>6. m \in 1 .. Len(tree) /\ l \in 1 .. Len(tree)
        BY <1>1, <2>3, BelowAfter, Zenon
    <2>7. Same(m, l)
        BY <1>1, <2>4, <2>5, <2>6, OneHome, Zenon
    <2>8. m = l
        BY <2>7 DEF Same
    <2>9. QED
        BY <1>1, <1>6, <2>1, <2>2, <2>4, <2>5, <2>8, QuadsApart, Zenon
<1>7. QED
    BY <1>2, <1>4, <1>5, <1>6, Zenon

(* Every segment is below the root.                                        *)
LEMMA UnderRoot ==
    ASSUME NEW tree, NEW s, IsTreeOf(tree, s)
    PROVE  Under(tree, 1) = Numbers(s) /\ 1 \in 1 .. Len(tree)
<1>1. IsFamily(tree) /\ IsFilled(tree, s) /\ Numbers(s) \subseteq Nat
    BY NumbersNat DEF IsTreeOf
<1>2. Below(tree, 1) = 1 .. Len(tree) /\ 1 \in 1 .. Len(tree)
    BY <1>1, AllBelowRoot, Zenon
<1>3. ASSUME NEW i PROVE i \in Under(tree, 1) <=> i \in Numbers(s)
    <2>1. i \in Under(tree, 1) <=>
             i \in Nat /\ \E m \in 1 .. Len(tree) : HasItem(tree, m, i)
        BY <1>2, Zenon DEF Under
    <2>2. (\E m \in 1 .. Len(tree) : HasItem(tree, m, i)) <=> i \in Numbers(s)
        <3>1. \A m \in 1 .. Len(tree) : HasItem(tree, m, i) => i \in Numbers(s)
            BY <1>1 DEF IsFilled, HasItem
        <3>2. i \in Numbers(s) => \E m \in 1 .. Len(tree) : HasItem(tree, m, i)
            BY <1>1, Zenon DEF IsFilled
        <3>3. QED
            BY <3>1, <3>2, Zenon
    <2>3. i \in Numbers(s) => i \in Nat
        BY <1>1
    <2>4. QED
        BY <2>1, <2>2, <2>3, Zenon
<1>4. QED
    BY <1>2, <1>3, Zenon

-----------------------------------------------------------------------------
(* Bounds.                                                                 *)
Proper(b) == b.min.x <= b.max.x /\ b.min.y <= b.max.y

(* A quad of bounds with the corners in order has them in order, and lies  *)
(* in the bounds.                                                          *)
LEMMA ProperQuad ==
    ASSUME NEW b \in Rect, Proper(b), NEW q \in 0 .. 3
    PROVE  Proper(QuadBounds(b, q)) /\ RectContainsRect(b, QuadBounds(b, q))
<1>1. /\ b.min.x \in Int /\ b.max.x \in Int /\ b.min.y \in Int /\ b.max.y \in Int
    BY DEF Rect, Point
<1>2. PICK mx \in Int, my \in Int :
         /\ mx = Mid(b.min.x, b.max.x) /\ my = Mid(b.min.y, b.max.y)
         /\ b.min.x <= mx /\ mx <= b.max.x /\ b.min.y <= my /\ my <= b.max.y
    BY <1>1 DEF Mid, Proper
<1>3. QuadBounds(b, q) =
         [min |-> [x |-> IF q \in {1, 3} THEN mx ELSE b.min.x,
                   y |-> IF q \in {0, 1} THEN my ELSE b.min.y],
          max |-> [x |-> IF q \in {0, 2} THEN mx ELSE b.max.x,
                   y |-> IF q \in {2, 3} THEN my ELSE b.max.y]]
    BY <1>2 DEF QuadBounds
<1>4. QED
    BY <1>1, <1>2, <1>3 DEF Proper, RectContainsRect

(* What contains what contains a rectangle contains it.                    *)
LEMMA ContainsTransitive ==
    ASSUME NEW a \in Rect, NEW b \in Rect, NEW c \in Rect,
           RectContainsRect(a, b), RectContainsRect(b, c)
    PROVE  RectContainsRect(a, c)
    BY DEF RectContainsRect, Rect, Point

(* Every rectangle contains itself.                                        *)
LEMMA ContainsItself ==
    ASSUME NEW b \in Rect
    PROVE  RectContainsRect(b, b)
    BY DEF RectContainsRect, Rect, Point

(* A segment's rectangle has its corners in order, so a rectangle that     *)
(* contains it has.                                                        *)
LEMMA SegmentProper ==
    ASSUME NEW s \in SeriesType, NEW i \in Numbers(s), NEW b \in Rect,
           RectContainsRect(b, SegmentRectAt(s, i))
    PROVE  Proper(b)
<1>1. PICK r \in Rect : r = SegmentRectAt(s, i)
    BY SegmentRectType DEF Numbers
<1>2. Len(s.points) \in Nat /\ Len(s.points) >= 2 /\ i \in 0 .. Len(s.points) - 1
    BY DEF NumSegments, Empty, SeriesType, Numbers
<1>3. SegmentAt(s, i).a \in Point /\ SegmentAt(s, i).b \in Point
    BY <1>2 DEF SegmentAt, PointAt, SeriesType
<1>4. PICK g : g = SegmentAt(s, i) /\ g.a \in Point /\ g.b \in Point
    BY <1>3
<1>5. r = SegmentRect(g)
    BY <1>1, <1>4 DEF SegmentRectAt
<1>6. Proper(r)
    BY <1>4, <1>5 DEF SegmentRect, Lesser, Greater, Proper, Point
<1>7. RectContainsRect(b, r)
    BY <1>1
<1>8. QED
    BY <1>6, <1>7 DEF Proper, RectContainsRect, Rect, Point

(* All bounds of a tree with a segment in it have the corners in order.    *)
LEMMA AllProper ==
    ASSUME NEW tree, NEW s, IsTreeOf(tree, s), NEW i \in Numbers(s)
    PROVE  \A n \in 1 .. Len(tree) : Proper(tree[n].bounds)
<1>1. IsFamily(tree) /\ IsTree(tree) /\ IsBounded(tree, s) /\ s \in SeriesType
    BY DEF IsTreeOf, IsFamily
<1>2. Below(tree, 1) = 1 .. Len(tree) /\ 1 \in 1 .. Len(tree)
    BY <1>1, AllBelowRoot, Zenon
<1> DEFINE C == {l \in 1 .. Len(tree) : Proper(tree[l].bounds)}
<1>3. 1 \in C
    <2>1. s.rect \in Rect
        BY <1>1 DEF SeriesType
    <2>2. RectContainsRect(s.rect, SegmentRectAt(s, i))
        BY <1>1, Zenon DEF IsBounded
    <2>3. Proper(s.rect)
        BY <1>1, <2>1, <2>2, SegmentProper, Zenon
    <2>4. QED
        BY <1>1, <1>2, <2>3 DEF IsBounded
<1>4. ASSUME NEW l \in C, NEW q \in 0 .. 3, tree[l].quads[q] # 0
      PROVE  tree[l].quads[q] \in C
    <2>1. PICK c : c = tree[l].quads[q] /\ c \in 1 .. Len(tree)
        BY <1>1, <1>4, QuadRange, Zenon
    <2>2. PICK b \in Rect : b = tree[l].bounds /\ Proper(b)
        BY <1>1 DEF IsBounded
    <2>3. tree[c].bounds = QuadBounds(b, q)
        BY <1>1, <1>4, <2>1, <2>2 DEF IsBounded
    <2>4. Proper(tree[c].bounds)
        BY <2>2, <2>3, ProperQuad
    <2>5. QED
        BY <2>1, <2>4
<1>5. Closed(tree, C)
    BY <1>4, Zenon DEF Closed
<1>6. C \in SUBSET (1 .. Len(tree))
    OBVIOUS
<1> HIDE DEF C
<1>7. Below(tree, 1) \subseteq C
    BY <1>3, <1>5, <1>6, BelowIn, Zenon
<1>8. QED
    BY <1>2, <1>7 DEF C

(* What lies below a node lies in its bounds, which is what makes it right *)
(* to pass over a node whose bounds the target does not meet.              *)
LEMMA UnderWithin ==
    ASSUME NEW tree, NEW s, IsTreeOf(tree, s), NEW n \in 1 .. Len(tree),
           NEW i \in Under(tree, n)
    PROVE  /\ i \in Numbers(s) /\ tree[n].bounds \in Rect /\ Proper(tree[n].bounds)
           /\ RectContainsRect(tree[n].bounds, SegmentRectAt(s, i))
<1>1. /\ IsFamily(tree) /\ IsTree(tree) /\ IsBounded(tree, s) /\ IsFilled(tree, s)
      /\ s \in SeriesType
    BY DEF IsTreeOf, IsFamily
<1>2. PICK m \in Below(tree, n) : HasItem(tree, m, i)
    BY DEF Under
<1>3. m \in 1 .. Len(tree)
    BY <1>1, BelowAfter, Zenon
<1>4. i \in Numbers(s)
    BY <1>1, <1>2, <1>3 DEF IsFilled, HasItem
<1>5. \A l \in 1 .. Len(tree) : Proper(tree[l].bounds)
    BY <1>4, AllProper, Zenon
<1>6. \A l \in 1 .. Len(tree) : tree[l].bounds \in Rect
    BY <1>1, Zenon DEF IsBounded
<1> DEFINE C == {l \in 1 .. Len(tree) : RectContainsRect(tree[n].bounds, tree[l].bounds)}
<1>7. n \in C
    BY <1>6, ContainsItself
<1>8. ASSUME NEW l \in C, NEW q \in 0 .. 3, tree[l].quads[q] # 0
      PROVE  tree[l].quads[q] \in C
    <2>1. PICK c : c = tree[l].quads[q] /\ c \in 1 .. Len(tree)
        BY <1>1, <1>8, QuadRange, Zenon
    <2>2. PICK b \in Rect : b = tree[l].bounds /\ Proper(b)
        BY <1>5, <1>6
    <2>3. tree[c].bounds = QuadBounds(b, q)
        BY <1>1, <1>8, <2>1, <2>2 DEF IsBounded
    <2>4. RectContainsRect(b, tree[c].bounds)
        BY <2>2, <2>3, ProperQuad
    <2>5. tree[c].bounds \in Rect /\ RectContainsRect(tree[n].bounds, b)
        BY <1>6, <2>1, <2>2
    <2>6. RectContainsRect(tree[n].bounds, tree[c].bounds)
        BY <1>6, <2>2, <2>4, <2>5, ContainsTransitive, Zenon
    <2>7. QED
        BY <2>1, <2>6
<1>9. Closed(tree, C)
    BY <1>8, Zenon DEF Closed
<1>10. C \in SUBSET (1 .. Len(tree))
    OBVIOUS
<1> HIDE DEF C
<1>11. m \in C
    BY <1>2, <1>7, <1>9, <1>10, BelowIn, Zenon
<1>c. RectContainsRect(tree[n].bounds, tree[m].bounds)
    BY <1>11 DEF C
<1>12. RectContainsRect(tree[m].bounds, SegmentRectAt(s, i))
    BY <1>1, <1>2, <1>3, <1>4, Zenon DEF IsBounded
<1>13. SegmentRectAt(s, i) \in Rect
    BY <1>1, <1>4, SegmentRectType DEF Numbers
<1>14. RectContainsRect(tree[n].bounds, SegmentRectAt(s, i))
    BY <1>3, <1>6, <1>c, <1>12, <1>13, ContainsTransitive, Zenon
<1>15. QED
    BY <1>4, <1>5, <1>6, <1>14, Zenon

(* Who meets a rectangle meets the ones that contain it.                   *)
LEMMA Unmet ==
    ASSUME NEW a \in Rect, NEW b \in Rect, NEW c \in Rect,
           RectContainsRect(a, b), RectIntersectsRect(b, c)
    PROVE  RectIntersectsRect(a, c)
    BY DEF RectContainsRect, RectIntersectsRect, Rect, Point

(* A tree of fewer segments than 32 bits count can be read back.           *)
LEMMA TreeReadably ==
    ASSUME NEW tree, NEW s, IsTreeOf(tree, s), NumSegments(s) < Uint32Limit,
           NEW d \in Seq(Nat), Len(d) < Uint32Limit
    PROVE  Readably(tree, d)
<1>1. IsTree(tree) /\ NumSegments(s) \in Nat
    BY NumbersNat DEF IsTreeOf, IsFamily
<1>2. ASSUME NEW n \in 1 .. Len(tree), NEW k \in 1 .. Count(tree, n)
      PROVE  ItemAt(tree, n, k) < Uint32Limit
    <2>1. ItemAt(tree, n, k) \in Numbers(s)
        BY OwnIs, Zenon
    <2>2. QED
        BY <1>1, <2>1, LimitNat DEF Numbers
<1>3. QED
    BY <1>1, <1>2, Zenon DEF Readably
=============================================================================
