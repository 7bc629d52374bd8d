-------------------------------- MODULE Queue --------------------------------
(***************************************************************************)
(* The priority queue of queue.go: a binary heap in a slice, ordered by    *)
(* distance, then kind, then position.  One call at a time works on it; a  *)
(* push or a pop is its first step, which changes the slice's length, and  *)
(* then one step per turn of its loop.  Indices are the code's, from 0.    *)
(***************************************************************************)
EXTENDS QNode, FiniteSets

CONSTANTS
    Node,        \* The queue nodes: records with integer dist, kind and pos.
    MaxSize      \* Bound on the queue's length; the code has none.

ASSUME NodeAssumption == Node \subseteq [dist : Int, kind : Int, pos : Int]
ASSUME MaxSizeAssumption == MaxSize \in Nat

VARIABLES
    nodes,       \* The slice: a function on 0 .. size - 1.
    size,        \* Its length.
    pc,          \* "idle", "up" (push's loop) or "down" (pop's loop).
    i,           \* The loop's index.
    popped       \* What the last pop returned: <<>>, or <<n>> for a node n.

vars == <<nodes, size, pc, i, popped>>

Parent(k) == (k - 1) \div 2

(* A slip: the loop stops one node short of the root. *)
RisesBelowRoot(f, k) == k > 1 /\ Cmp(f[Parent(k)], f[k]) > 0

(* The condition of push's loop. *)
RisesFrom(f, k) == k # 0 /\ Cmp(f[Parent(k)], f[k]) > 0

(* A slip: the value overwritten first is not kept. *)
SwapLosingOne(f, j, k) == [f EXCEPT ![j] = f[k]]

Swap(f, j, k) == [f EXCEPT ![j] = f[k], ![k] = f[j]]

(* A slip: the right child is compared with the parent, not with the       *)
(* smaller of the parent and the left child.                               *)
SmallerThanParent(f, n, k) ==
    LET left == k * 2 + 1
        right == k * 2 + 2
    IN  IF right < n /\ Cmp(f[right], f[k]) <= 0 THEN right
        ELSE IF left < n /\ Cmp(f[left], f[k]) <= 0 THEN left
        ELSE k

(* The choice in the body of pop's loop: the smaller child, the right one  *)
(* in a tie, and a child equal to its parent rather than the parent.       *)
Smallest(f, n, k) ==
    LET left == k * 2 + 1
        right == k * 2 + 2
        first == IF left < n /\ Cmp(f[left], f[k]) <= 0 THEN left ELSE k
    IN  IF right < n /\ Cmp(f[right], f[first]) <= 0 THEN right ELSE first

-----------------------------------------------------------------------------
Init ==
    /\ nodes = [k \in 0 .. -1 |-> 0]
    /\ size = 0
    /\ pc = "idle"
    /\ i = 0
    /\ popped = <<>>

Push(node) ==
    /\ pc = "idle" /\ size < MaxSize
    /\ nodes' = [k \in 0 .. size |-> IF k = size THEN node ELSE nodes[k]]
    /\ size' = size + 1
    /\ i' = size
    /\ pc' = "up"
    /\ UNCHANGED popped

SiftUp ==
    /\ pc = "up"
    /\ RisesFrom(nodes, i)
    /\ nodes' = Swap(nodes, Parent(i), i)
    /\ i' = Parent(i)
    /\ UNCHANGED <<size, pc, popped>>

PushDone ==
    /\ pc = "up"
    /\ ~ RisesFrom(nodes, i)
    /\ pc' = "idle"
    /\ UNCHANGED <<nodes, size, i, popped>>

(* A slip: the slice is not cut. *)
PopUncut ==
    /\ pc = "idle" /\ size # 0
    /\ popped' = <<nodes[0]>>
    /\ nodes' = [nodes EXCEPT ![0] = nodes[size - 1]]
    /\ size' = size - 1
    /\ i' = 0
    /\ pc' = "down"

(* The last node takes the root's place and the slice is cut by one; with  *)
(* a single node the cut drops the node just copied.                       *)
Pop ==
    /\ pc = "idle" /\ size # 0
    /\ popped' = <<nodes[0]>>
    /\ nodes' = [k \in 0 .. size - 2 |-> IF k = 0 THEN nodes[size - 1]
                                                  ELSE nodes[k]]
    /\ size' = size - 1
    /\ i' = 0
    /\ pc' = "down"

PopEmpty ==
    /\ pc = "idle" /\ size = 0
    /\ popped' = <<>>
    /\ UNCHANGED <<nodes, size, pc, i>>

(* A slip: the loop's index does not follow the node. *)
SiftDownInPlace ==
    /\ pc = "down"
    /\ Smallest(nodes, size, i) # i
    /\ nodes' = Swap(nodes, Smallest(nodes, size, i), i)
    /\ UNCHANGED <<size, pc, i, popped>>

SiftDown ==
    LET smallest == Smallest(nodes, size, i) IN
    /\ pc = "down"
    /\ smallest # i
    /\ nodes' = Swap(nodes, smallest, i)
    /\ i' = smallest
    /\ UNCHANGED <<size, pc, popped>>

PopDone ==
    /\ pc = "down"
    /\ Smallest(nodes, size, i) = i
    /\ pc' = "idle"
    /\ UNCHANGED <<nodes, size, i, popped>>

Step == SiftUp \/ PushDone \/ SiftDown \/ PopDone

Next == Step \/ Pop \/ PopEmpty \/ \E node \in Node : Push(node)

Spec == Init /\ [][Next]_vars

(* A call runs to its end: the goroutine executing the loop is scheduled.  *)
(* Nothing obliges a client to make another call.                          *)
FairSpec == Spec /\ WF_vars(Step)

-----------------------------------------------------------------------------
TypeOK ==
    /\ size \in Nat
    /\ nodes \in [0 .. size - 1 -> Node]
    /\ pc \in {"idle", "up", "down"}
    /\ i \in Nat
    /\ popped \in {<<>>} \cup {<<n>> : n \in Node}

(* Between calls no node is smaller than its parent.                       *)
HeapOrder ==
    pc = "idle" =>
        \A k \in 1 .. size - 1 : Cmp(nodes[Parent(k)], nodes[k]) <= 0

(* What each loop keeps true while the heap is out of order in one place,  *)
(* the node at i.  Push's loop: only the edge above i may be wrong, and    *)
(* the children of i already fit under i's parent.  Pop's loop: only the   *)
(* edges below i may be wrong, and the same holds of i's children.         *)
LoopOrder ==
    /\ pc = "up" => i < size
    /\ pc # "idle" =>
         /\ \A k \in 1 .. size - 1 :
               (IF pc = "up" THEN k # i ELSE Parent(k) # i)
                  => Cmp(nodes[Parent(k)], nodes[k]) <= 0
         /\ \A k \in 1 .. size - 1 :
               (i # 0 /\ Parent(k) = i)
                  => Cmp(nodes[Parent(i)], nodes[k]) <= 0

(* A pop removes a node that no node left in the queue precedes, ties      *)
(* included: what qCompressNearbySegment's "nearest first" rests on.       *)
PopsLeast ==
    [][Pop => \A k \in 0 .. size - 1 : Cmp(popped'[1], nodes[k]) <= 0]_vars

(* Every push and every pop comes to an end.                               *)
CallsReturn == (pc # "idle") ~> (pc = "idle")

-----------------------------------------------------------------------------
(* The multiset the slice holds, as a bag, and the order of pops.          *)
Contents ==
    LET held == {nodes[k] : k \in 0 .. size - 1}
    IN  [n \in held |-> Cardinality({k \in 0 .. size - 1 : nodes[k] = n})]

Before(n, m) == Cmp(n, m) <= 0

Promise == INSTANCE NodeBag WITH bag <- Contents, Precedes <- Before

(* Every behaviour of the heap is one of the multiset: no sift step loses, *)
(* duplicates or invents a node, and a pop returns a least one.            *)
ImplementsNodeBag == Promise!Spec
=============================================================================
