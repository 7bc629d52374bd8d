------------------------------- MODULE QuadTree -------------------------------
(***************************************************************************)
(* The quadtree that buildIndex (series.go) makes of a series' segments    *)
(* with qNode.insert (qtree.go).  insert calls itself and splits nodes, so *)
(* the calls in progress are a stack of frames, the innermost first.  A    *)
(* call whose last act is another insert is replaced by it.                *)
(*                                                                         *)
(* Nodes are numbered in the order they are allocated, the root is 1 and a *)
(* nil pointer is 0.  The bounds and the depth insert is called with are   *)
(* the same at every call on a node; the node records them.  Midpoints are *)
(* rounded down to the grid, as the code's are to a float64.               *)
(***************************************************************************)
EXTENDS Series

CONSTANTS
    Inputs,           \* The series that may be indexed: points, closed, rect.
    QMaxItems,        \* qMaxItems, 12 in the code.
    QMaxDepth         \* qMaxDepth, 64 in the code.

ASSUME InputsAssumption ==
    Inputs \subseteq [points : Seq(Point), closed : BOOLEAN, rect : Rect]

(* What processPoints guarantees (ProcessPoints: RectCovers).              *)
ASSUME RectAssumption ==
    \A s \in Inputs : \A k \in 0 .. NumSegments(s) - 1 :
        RectContainsRect(s.rect, SegmentRectAt(s, k))

ASSUME LimitAssumption == QMaxItems \in Nat \ {0} /\ QMaxDepth \in Nat

VARIABLES
    series,           \* The series being indexed.
    next,             \* buildIndex's loop index: the next segment to insert.
    nodes,            \* The nodes allocated so far.
    stack             \* The insert calls in progress.

vars == <<series, next, nodes, stack>>

Quads == 0 .. 3
Root == 1
Nil == 0

Mid(m, n) == (m + n) \div 2

(* A slip: what is not entirely west is taken to be entirely east. *)
ChooseQuadEast(bounds, rect) ==
    LET midX == Mid(bounds.min.x, bounds.max.x)
        midY == Mid(bounds.min.y, bounds.max.y)
        west == rect.max.x < midX
    IN  IF rect.max.y < midY THEN IF west THEN 2 ELSE 3
        ELSE IF ~ (rect.min.y < midY) THEN IF west THEN 0 ELSE 1
        ELSE -1

(* The quad that has room for the whole rect, or -1. *)
ChooseQuad(bounds, rect) ==
    LET midX == Mid(bounds.min.x, bounds.max.x)
        midY == Mid(bounds.min.y, bounds.max.y)
        west == rect.max.x < midX
        east == ~ west /\ ~ (rect.min.x < midX)
        south == rect.max.y < midY
        north == ~ south /\ ~ (rect.min.y < midY)
    IN  IF west /\ south THEN 2
        ELSE IF west /\ north THEN 0
        ELSE IF east /\ south THEN 3
        ELSE IF east /\ north THEN 1
        ELSE -1

QuadBounds(bounds, q) ==
    LET centerX == Mid(bounds.min.x, bounds.max.x)
        centerY == Mid(bounds.min.y, bounds.max.y)
    IN  [min |-> [x |-> IF q \in {1, 3} THEN centerX ELSE bounds.min.x,
                  y |-> IF q \in {0, 1} THEN centerY ELSE bounds.min.y],
         max |-> [x |-> IF q \in {0, 2} THEN centerX ELSE bounds.max.x,
                  y |-> IF q \in {2, 3} THEN centerY ELSE bounds.max.y]]

NewNode(bounds, depth) ==
    [split |-> FALSE, items |-> <<>>, quads |-> [q \in Quads |-> Nil],
     bounds |-> bounds, depth |-> depth]

(* The address of quad q of node n, allocated if it is nil, and the nodes  *)
(* after the allocation.                                                   *)
QuadOf(n, q) ==
    IF nodes[n].quads[q] # Nil THEN nodes[n].quads[q] ELSE Len(nodes) + 1

(* A slip: the quad is entered without being allocated. *)
WithoutQuad(n, q) == nodes

WithQuad(n, q) ==
    IF nodes[n].quads[q] # Nil THEN nodes
    ELSE Append([nodes EXCEPT ![n].quads[q] = Len(nodes) + 1],
                NewNode(QuadBounds(nodes[n].bounds, q), nodes[n].depth + 1))

Insert(n, item) == [op |-> "insert", node |-> n, item |-> item,
                    i |-> 0, nitems |-> <<>>]

top == Head(stack)
node == nodes[top.node]
Call(frames) == stack' = frames \o Tail(stack)

(* The quad for an item of the node the innermost call works on. *)
Quad(item) == ChooseQuad(node.bounds, SegmentRectAt(series, item))

-----------------------------------------------------------------------------
Init ==
    /\ series \in Inputs
    /\ next = 0
    /\ nodes = <<NewNode(series.rect, 0)>>
    /\ stack = <<>>

(* buildIndex: the next turn of the loop over the segments. *)
InsertNext ==
    /\ stack = <<>> /\ next < NumSegments(series)
    /\ stack' = <<Insert(Root, next)>>
    /\ next' = next + 1
    /\ UNCHANGED <<series, nodes>>

Inserting == stack # <<>> /\ top.op = "insert"

AppendItem ==
    /\ nodes' = [nodes EXCEPT ![top.node].items = Append(@, top.item)]
    /\ stack' = Tail(stack)
    /\ UNCHANGED <<series, next>>

AtDepthLimit ==
    /\ Inserting /\ node.depth = QMaxDepth
    /\ AppendItem

IntoOverflow ==
    /\ Inserting /\ node.depth # QMaxDepth /\ node.split
    /\ Quad(top.item) = -1
    /\ AppendItem

IntoQuad ==
    /\ Inserting /\ node.depth # QMaxDepth /\ node.split
    /\ Quad(top.item) # -1
    /\ nodes' = WithQuad(top.node, Quad(top.item))
    /\ Call(<<Insert(QuadOf(top.node, Quad(top.item)), top.item)>>)
    /\ UNCHANGED <<series, next>>

(* A slip: a full leaf takes one more item. *)
IntoFullLeaf ==
    /\ Inserting /\ node.depth # QMaxDepth /\ ~ node.split
    /\ Len(node.items) <= QMaxItems
    /\ AppendItem

IntoLeaf ==
    /\ Inserting /\ node.depth # QMaxDepth /\ ~ node.split
    /\ Len(node.items) # QMaxItems
    /\ AppendItem

(* A full node is split: its items are handed to its quads one by one,     *)
(* while they also stay in place until the loop is over.                   *)
BeginSplit ==
    /\ Inserting /\ node.depth # QMaxDepth /\ ~ node.split
    /\ Len(node.items) = QMaxItems
    /\ Call(<<[top EXCEPT !.op = "split"]>>)
    /\ UNCHANGED <<series, next, nodes>>

Splitting == stack # <<>> /\ top.op = "split"

SplitKeep ==
    LET iitem == node.items[top.i + 1] IN
    /\ Splitting /\ top.i < Len(node.items)
    /\ Quad(iitem) = -1
    /\ Call(<<[top EXCEPT !.i = @ + 1, !.nitems = Append(@, iitem)]>>)
    /\ UNCHANGED <<series, next, nodes>>

(* A slip: the loop's index is not advanced. *)
SplitHandDownAgain ==
    LET iitem == node.items[top.i + 1] IN
    /\ Splitting /\ top.i < Len(node.items)
    /\ Quad(iitem) # -1
    /\ nodes' = WithQuad(top.node, Quad(iitem))
    /\ Call(<<Insert(QuadOf(top.node, Quad(iitem)), iitem), top>>)
    /\ UNCHANGED <<series, next>>

SplitHandDown ==
    LET iitem == node.items[top.i + 1] IN
    /\ Splitting /\ top.i < Len(node.items)
    /\ Quad(iitem) # -1
    /\ nodes' = WithQuad(top.node, Quad(iitem))
    /\ Call(<<Insert(QuadOf(top.node, Quad(iitem)), iitem),
              [top EXCEPT !.i = @ + 1]>>)
    /\ UNCHANGED <<series, next>>

(* A slip: the items handed down stay in the node. *)
EndSplitKeepingAll ==
    /\ Splitting /\ top.i = Len(node.items)
    /\ nodes' = [nodes EXCEPT ![top.node].split = TRUE]
    /\ Call(<<Insert(top.node, top.item)>>)
    /\ UNCHANGED <<series, next>>

(* A slip: the node is not marked as split, so insert finds a leaf again.  *)
EndSplitUnmarked ==
    /\ Splitting /\ top.i = Len(node.items)
    /\ nodes' = [nodes EXCEPT ![top.node].items = top.nitems]
    /\ Call(<<Insert(top.node, top.item)>>)
    /\ UNCHANGED <<series, next>>

EndSplit ==
    /\ Splitting /\ top.i = Len(node.items)
    /\ nodes' = [nodes EXCEPT ![top.node].items = top.nitems,
                              ![top.node].split = TRUE]
    /\ Call(<<Insert(top.node, top.item)>>)
    /\ UNCHANGED <<series, next>>

Next ==
    \/ InsertNext
    \/ AtDepthLimit \/ IntoOverflow \/ IntoQuad \/ IntoLeaf \/ BeginSplit
    \/ SplitKeep \/ SplitHandDown \/ EndSplit

Spec == Init /\ [][Next]_vars

(* buildIndex runs on the caller's goroutine until it is done. *)
FairSpec == Spec /\ WF_vars(Next)

-----------------------------------------------------------------------------
Items == 0 .. NumSegments(series) - 1
Addresses == 1 .. Len(nodes)

Node == [split : BOOLEAN, items : Seq(Items), quads : [Quads -> 0 .. Len(nodes)],
         bounds : Rect, depth : 0 .. QMaxDepth]

Frame == [op : {"insert", "split"}, node : Addresses, item : Items,
          i : 0 .. QMaxItems, nitems : Seq(Items)]

TypeOK ==
    /\ series \in [points : Seq(Point), closed : BOOLEAN, rect : Rect]
    /\ next \in 0 .. NumSegments(series)
    /\ nodes \in Seq(Node) /\ nodes # <<>>
    /\ stack \in Seq(Frame)

Built == stack = <<>> /\ next = NumSegments(series)

(* Every item of a node, and every item a call is about to put into it,    *)
(* lies in the node's bounds, and a quad's bounds are the ones the         *)
(* searches compute for it on the way down.  A segment in a node whose     *)
(* bounds it sticks out of is one that qCompressSearch can prune away.     *)
WithinBounds ==
    /\ \A n \in Addresses :
          /\ \A k \in DOMAIN nodes[n].items :
                RectContainsRect(nodes[n].bounds,
                                 SegmentRectAt(series, nodes[n].items[k]))
          /\ \A q \in Quads : nodes[n].quads[q] # Nil =>
                nodes[nodes[n].quads[q]].bounds = QuadBounds(nodes[n].bounds, q)
    /\ \A f \in DOMAIN stack :
          RectContainsRect(nodes[stack[f].node].bounds,
                           SegmentRectAt(series, stack[f].item))

-----------------------------------------------------------------------------
(* Node n is being split; the call that splits is the outermost one.       *)
UnderSplit(n) ==
    LET f == stack[Len(stack)] IN
    stack # <<>> /\ f.op = "split" /\ f.node = n

(* The calls in progress, counted from the outermost one. *)
CallAt(d) == stack[Len(stack) + 1 - d]

(* Where a node holds a segment, as far as a split in progress has not     *)
(* dealt with its items yet, and where a split keeps it.                   *)
StoredAt(n, item) ==
    {k \in DOMAIN nodes[n].items :
        nodes[n].items[k] = item /\ (UnderSplit(n) => k > CallAt(1).i)}

KeptAt(d, item) == {k \in DOMAIN CallAt(d).nitems : CallAt(d).nitems[k] = item}

(* The places that hold a segment: nodes, splits and the calls that carry  *)
(* it.                                                                     *)
Holders(item) ==
    (UNION {{<<"node", n, k>> : k \in StoredAt(n, item)} : n \in Addresses})
    \cup (UNION {{<<"kept", d, k>> : k \in KeptAt(d, item)} : d \in DOMAIN stack})
    \cup {<<"call", d, 0>> : d \in {c \in DOMAIN stack : CallAt(c).item = item}}

(* No segment is lost and none is stored twice, at any moment of the       *)
(* build, splits included: each inserted segment has exactly one holder.   *)
EachItemOnce ==
    \A item \in 0 .. next - 1 : \E h \in Holders(item) : Holders(item) = {h}

(* Only a node at the depth limit may hold more than QMaxItems segments    *)
(* without being split: what keeps a search from degrading to a scan.      *)
LeavesFit ==
    \A n \in Addresses :
        (~ nodes[n].split /\ nodes[n].depth # QMaxDepth) =>
            Len(nodes[n].items) <= QMaxItems

(* How far a split has come: its node is still full and unsplit, and its   *)
(* quads have got no more segments than the loop has passed, counting the  *)
(* one on its way to the quad coming (Nil: none is).                       *)
SplitState(frame, coming) ==
    /\ ~ nodes[frame.node].split
    /\ nodes[frame.node].depth # QMaxDepth
    /\ Len(nodes[frame.node].items) = QMaxItems
    /\ \A q \in Quads :
          LET c == nodes[frame.node].quads[q] IN
          c # Nil =>
             /\ ~ nodes[c].split
             /\ Len(nodes[c].items) + (IF c = coming THEN 1 ELSE 0) <= frame.i

(* A node that is being split hands at most QMaxItems segments to fresh    *)
(* quads, so a split never starts another one and insert's recursion is    *)
(* two calls deep at most, whatever coincides.                             *)
SplitsDoNotNest ==
    /\ Len(stack) <= 2
    /\ (Len(stack) = 1 /\ stack[1].op = "split") => SplitState(stack[1], Nil)
    /\ Len(stack) = 2 =>
          /\ stack[1].op = "insert" /\ stack[2].op = "split"
          /\ \E q \in Quads : nodes[stack[2].node].quads[q] = stack[1].node
          /\ SplitState(stack[2], stack[1].node)

(* Every build comes to an end, even when all segments coincide and no     *)
(* split separates them.                                                   *)
BuildEnds == <>Built
=============================================================================
