----------------------------- MODULE QueueProofs -----------------------------
(***************************************************************************)
(* The heap of queue.go is ordered between calls, a pop takes a least      *)
(* node, and the heap implements a multiset, for every set of nodes and    *)
(* every length of the queue.                                              *)
(***************************************************************************)
EXTENDS Queue, FiniteSetTheorems, WellFoundedInduction, TLAPS

(* A nonempty set of natural numbers has a least element.                  *)
LEMMA LeastNatural ==
    ASSUME NEW T \in SUBSET Nat, T # {}
    PROVE  \E m \in T : \A n \in T : m <= n
<1> DEFINE R == {ss \in Nat \X Nat : ss[1] < ss[2]}
<1>1. OpToRel(<, Nat) = R
    BY Zenon DEF OpToRel
<1>2. IsWellFoundedOn(R, Nat)
    BY <1>1, NatLessThanWellFounded, Zenon
<1>3. \A m, n \in Nat : m < n => <<m, n>> \in R
    OBVIOUS
<1> HIDE DEF R
<1>4. PICK m \in T : \A n \in T : ~ (<<n, m>> \in R)
    BY <1>2, WFMin
<1>5. ASSUME NEW n \in T PROVE m <= n
    <2>1. m \in Nat /\ n \in Nat
        OBVIOUS
    <2>2. ~ (n < m)
        BY <1>3, <1>4, <2>1, Zenon
    <2>3. QED
        BY <2>1, <2>2, SMT
<1>6. QED
    BY <1>5, Zenon

-----------------------------------------------------------------------------
(* qnode.cmp is a total preorder.                                          *)
LEMMA CmpOrder ==
    /\ \A m \in Node : Cmp(m, m) <= 0
    /\ \A m, n \in Node : Cmp(m, n) \in Int /\ (Cmp(m, n) > 0 => Cmp(n, m) <= 0)
    /\ \A l, m, n \in Node : Cmp(l, m) <= 0 /\ Cmp(m, n) <= 0 => Cmp(l, n) <= 0
    BY NodeAssumption DEF Cmp

(* The index arithmetic of the heap: parents precede their children, and   *)
(* the children of j are 2j + 1 and 2j + 2.                                *)
LEMMA ParentIndex ==
    ASSUME NEW k \in Nat, k # 0
    PROVE  /\ Parent(k) \in Nat
           /\ Parent(k) < k
           /\ \A j \in Nat : Parent(k) = j <=> (k = j * 2 + 1 \/ k = j * 2 + 2)
    BY DEF Parent

-----------------------------------------------------------------------------
(* A swap exchanges two nodes and leaves the others.                       *)
Swapped(S, f, j, k, g) ==
    /\ g \in [S -> Node]
    /\ g[j] = f[k] /\ g[k] = f[j]
    /\ \A m \in S : m # j /\ m # k => g[m] = f[m]

LEMMA SwapEffect ==
    ASSUME NEW S, NEW f \in [S -> Node], NEW j \in S, NEW k \in S, j # k
    PROVE  Swapped(S, f, j, k, Swap(f, j, k))
    BY DEF Swap, Swapped

(* HeapOrder alone is not inductive: a call breaks it and its loop repairs *)
(* it.  LoopOrder says how far the repair has come.                        *)
IInv == TypeOK /\ HeapOrder /\ LoopOrder

USE DEF TypeOK

LEMMA InitIInv == Init => IInv
    BY DEF Init, IInv, HeapOrder, LoopOrder

LEMMA PushIInv ==
    ASSUME IInv, NEW node \in Node, Push(node)
    PROVE  IInv'
<1>1. TypeOK'
    BY DEF IInv, Push
<1>2. \A k \in 1 .. size' - 1 : k # i' =>
          /\ nodes'[Parent(k)] = nodes[Parent(k)] /\ nodes'[k] = nodes[k]
          /\ k \in 1 .. size - 1 /\ Parent(k) # i'
    BY ParentIndex DEF IInv, Push
<1>3. \A k \in 1 .. size' - 1 : k # i' =>
          Cmp(nodes'[Parent(k)], nodes'[k]) <= 0
    BY <1>2 DEF IInv, HeapOrder, Push
<1>4. \A k \in 1 .. size' - 1 : Parent(k) # i'
    BY <1>2, ParentIndex DEF IInv, Push
<1>5. pc' = "up" /\ i' < size'
    BY DEF IInv, Push
<1>6. QED
    BY <1>1, <1>3, <1>4, <1>5 DEF IInv, HeapOrder, LoopOrder

LEMMA SiftUpIInv ==
    ASSUME IInv, SiftUp
    PROVE  IInv'
<1> DEFINE p == Parent(i)
<1>1. /\ i \in 1 .. size - 1 /\ p \in 0 .. size - 1 /\ p < i
      /\ Cmp(nodes[p], nodes[i]) > 0
      /\ size' = size /\ i' = p /\ pc = "up" /\ pc' = "up"
    BY ParentIndex DEF IInv, SiftUp, RisesFrom, LoopOrder
<1>2. /\ nodes' \in [0 .. size - 1 -> Node]
      /\ nodes'[p] = nodes[i] /\ nodes'[i] = nodes[p]
      /\ \A k \in 0 .. size - 1 : k # p /\ k # i => nodes'[k] = nodes[k]
    <2>1. i \in 0 .. size - 1 /\ p \in 0 .. size - 1 /\ p # i
        BY <1>1 DEF IInv
    <2>2. nodes \in [0 .. size - 1 -> Node]
        BY DEF IInv
    <2>3. nodes' = Swap(nodes, p, i)
        BY DEF SiftUp
    <2>4. Swapped(0 .. size - 1, nodes, p, i, Swap(nodes, p, i))
        BY <2>1, <2>2, SwapEffect, Zenon
    <2>5. QED
        BY <2>3, <2>4, Zenon DEF Swapped
<1>3. TypeOK'
    BY <1>1, <1>2, SMTT(30) DEF IInv, SiftUp
<1>4. \A k \in 1 .. size - 1 :
          /\ Parent(k) \in 0 .. size - 1 /\ Parent(k) # k
          /\ k # i => Cmp(nodes[Parent(k)], nodes[k]) <= 0
          /\ Parent(k) = i => Cmp(nodes[p], nodes[k]) <= 0
    BY <1>1, ParentIndex, SMTT(30) DEF IInv, LoopOrder
<1> HIDE DEF p
<1>5. ASSUME NEW k \in 1 .. size - 1, k # p
      PROVE  Cmp(nodes'[Parent(k)], nodes'[k]) <= 0
    <2>1. CASE k = i
        BY <1>1, <1>2, <2>1, CmpOrder DEF p, IInv
    <2>2. CASE k # i /\ Parent(k) = i
        BY <1>2, <1>4, <1>5, <2>2
    <2>3. CASE k # i /\ Parent(k) = p
        BY <1>1, <1>2, <1>4, <1>5, <2>3, CmpOrder DEF IInv
    <2>4. CASE k # i /\ Parent(k) # i /\ Parent(k) # p
        BY <1>2, <1>4, <1>5, <2>4
    <2>5. QED
        BY <2>1, <2>2, <2>3, <2>4
<1>6. ASSUME NEW k \in 1 .. size - 1, p # 0, Parent(k) = p
      PROVE  Cmp(nodes'[Parent(p)], nodes'[k]) <= 0
    <2>1. /\ Parent(p) \in 0 .. size - 1 /\ Parent(p) < p
          /\ nodes'[Parent(p)] = nodes[Parent(p)]
          /\ Cmp(nodes[Parent(p)], nodes[p]) <= 0
        BY <1>1, <1>2, <1>4, <1>6, ParentIndex
    <2>2. CASE k = i
        BY <1>2, <2>1, <2>2
    <2>3. CASE k # i
        <3>1. nodes'[k] = nodes[k] /\ Cmp(nodes[p], nodes[k]) <= 0
            BY <1>2, <1>4, <1>6, <2>3
        <3>2. QED
            BY <1>1, <2>1, <3>1, CmpOrder DEF IInv
    <2>4. QED
        BY <2>2, <2>3
<1>7. QED
    BY <1>1, <1>3, <1>5, <1>6 DEF IInv, HeapOrder, LoopOrder

LEMMA PushDoneIInv ==
    ASSUME IInv, PushDone
    PROVE  IInv'
    BY CmpOrder, ParentIndex
       DEF IInv, PushDone, RisesFrom, HeapOrder, LoopOrder

LEMMA PopIInv ==
    ASSUME IInv, Pop
    PROVE  IInv'
<1>1. TypeOK'
    BY DEF IInv, Pop
<1>2. \A k \in 1 .. size' - 1 : Parent(k) # i' =>
          /\ nodes'[Parent(k)] = nodes[Parent(k)] /\ nodes'[k] = nodes[k]
          /\ k \in 1 .. size - 1
    BY ParentIndex DEF IInv, Pop
<1>3. QED
    BY <1>1, <1>2 DEF IInv, HeapOrder, LoopOrder, Pop

(* The child pop's loop picks is no larger than i and than i's other child.*)
LEMMA SmallestChild ==
    ASSUME TypeOK, i < size
    PROVE  LET s == Smallest(nodes, size, i) IN
           /\ s \in 0 .. size - 1
           /\ s # i => s # 0 /\ Parent(s) = i
           /\ Cmp(nodes[s], nodes[i]) <= 0
           /\ \A k \in 1 .. size - 1 :
                 Parent(k) = i => Cmp(nodes[s], nodes[k]) <= 0
<1> DEFINE s == Smallest(nodes, size, i)
<1>1. /\ s \in 0 .. size - 1
      /\ s # i => s # 0 /\ (s = i * 2 + 1 \/ s = i * 2 + 2)
    BY DEF Smallest
<1>2. /\ Cmp(nodes[s], nodes[i]) <= 0
      /\ i * 2 + 1 < size => Cmp(nodes[s], nodes[i * 2 + 1]) <= 0
      /\ i * 2 + 2 < size => Cmp(nodes[s], nodes[i * 2 + 2]) <= 0
    BY CmpOrder, SMTT(30) DEF Smallest
<1>3. \A k \in 1 .. size - 1 : Parent(k) = i =>
          (k = i * 2 + 1 \/ k = i * 2 + 2)
    BY ParentIndex
<1> HIDE DEF s
<1>4. s # i => Parent(s) = i
    BY <1>1, ParentIndex
<1>5. ASSUME NEW k \in 1 .. size - 1, Parent(k) = i
      PROVE  Cmp(nodes[s], nodes[k]) <= 0
    BY <1>2, <1>3, <1>5
<1>6. QED
    BY <1>1, <1>2, <1>4, <1>5 DEF s

(* Pop's loop keeps its invariant: the swap puts the smallest of i and its *)
(* children at i, so only the edges below the chosen child may be wrong.   *)
LEMMA SiftDownIInv ==
    ASSUME IInv, SiftDown
    PROVE  IInv'
<1> DEFINE s == Smallest(nodes, size, i)
<1>1. i < size
    BY DEF IInv, SiftDown, Smallest
<1>2. /\ s \in 1 .. size - 1 /\ Parent(s) = i /\ s # i
      /\ Cmp(nodes[s], nodes[i]) <= 0
      /\ \A k \in 1 .. size - 1 :
            Parent(k) = i => Cmp(nodes[s], nodes[k]) <= 0
    BY <1>1, SmallestChild DEF IInv, SiftDown
<1>3. /\ size' = size /\ i' = s /\ pc = "down" /\ pc' = "down"
      /\ nodes' = Swap(nodes, s, i)
    BY DEF SiftDown
<1> HIDE DEF s
<1>4. /\ nodes' \in [0 .. size - 1 -> Node]
      /\ nodes'[s] = nodes[i] /\ nodes'[i] = nodes[s]
      /\ \A k \in 0 .. size - 1 : k # s /\ k # i => nodes'[k] = nodes[k]
    <2>1. s \in 0 .. size - 1 /\ i \in 0 .. size - 1 /\ s # i
        BY <1>1, <1>2 DEF IInv
    <2>2. nodes \in [0 .. size - 1 -> Node]
        BY DEF IInv
    <2>3. Swapped(0 .. size - 1, nodes, s, i, Swap(nodes, s, i))
        BY <2>1, <2>2, SwapEffect, Zenon
    <2>4. QED
        BY <1>3, <2>3, Zenon DEF Swapped
<1>5. TypeOK'
    BY <1>2, <1>3, <1>4, SMTT(30) DEF IInv, SiftDown
<1>6. \A k \in 1 .. size - 1 :
          /\ Parent(k) \in 0 .. size - 1 /\ Parent(k) # k
          /\ Parent(k) # i => Cmp(nodes[Parent(k)], nodes[k]) <= 0
          /\ i # 0 /\ Parent(k) = i => Cmp(nodes[Parent(i)], nodes[k]) <= 0
    BY <1>3, ParentIndex, SMTT(30) DEF IInv, LoopOrder
<1>7. ASSUME NEW k \in 1 .. size - 1, Parent(k) # s
      PROVE  Cmp(nodes'[Parent(k)], nodes'[k]) <= 0
    <2>1. CASE Parent(k) = i /\ k = s
        BY <1>2, <1>4, <2>1
    <2>2. CASE Parent(k) = i /\ k # s
        BY <1>2, <1>4, <1>6, <1>7, <2>2
    <2>3. CASE Parent(k) # i /\ k = i
        <3>1. nodes'[Parent(k)] = nodes[Parent(k)]
            BY <1>4, <1>6, <1>7, <2>3
        <3>2. QED
            BY <1>2, <1>4, <1>6, <2>3, <3>1
    <2>4. CASE Parent(k) # i /\ k # i
        BY <1>2, <1>4, <1>6, <1>7, <2>4
    <2>5. QED
        BY <2>1, <2>2, <2>3, <2>4
<1>8. ASSUME NEW k \in 1 .. size - 1, Parent(k) = s
      PROVE  Cmp(nodes'[Parent(s)], nodes'[k]) <= 0
    <2>1. k # s /\ k # i
        BY <1>1, <1>2, <1>8, ParentIndex DEF IInv
    <2>2. QED
        BY <1>2, <1>4, <1>6, <1>8, <2>1
<1>9. QED
    BY <1>2, <1>3, <1>5, <1>7, <1>8 DEF IInv, HeapOrder, LoopOrder

LEMMA PopDoneIInv ==
    ASSUME IInv, PopDone
    PROVE  IInv'
<1>1. \A k \in 1 .. size - 1 : Parent(k) = i => i < size
    BY ParentIndex DEF IInv
<1>2. \A k \in 1 .. size - 1 : Cmp(nodes[Parent(k)], nodes[k]) <= 0
    BY <1>1, SmallestChild DEF IInv, LoopOrder, PopDone
<1>3. QED
    BY <1>2 DEF IInv, HeapOrder, LoopOrder, PopDone

LEMMA StepIInv == IInv /\ [Next]_vars => IInv'
<1> SUFFICES ASSUME IInv, [Next]_vars PROVE IInv'
    OBVIOUS
<1>1. CASE \E node \in Node : Push(node)
    BY <1>1, PushIInv
<1>2. CASE SiftUp
    BY <1>2, SiftUpIInv
<1>3. CASE PushDone
    BY <1>3, PushDoneIInv
<1>4. CASE Pop
    BY <1>4, PopIInv
<1>5. CASE PopEmpty
    BY <1>5 DEF PopEmpty, IInv, HeapOrder, LoopOrder
<1>6. CASE SiftDown
    BY <1>6, SiftDownIInv
<1>7. CASE PopDone
    BY <1>7, PopDoneIInv
<1>8. CASE UNCHANGED vars
    BY <1>8 DEF vars, IInv, HeapOrder, LoopOrder
<1>9. QED
    BY <1>1, <1>2, <1>3, <1>4, <1>5, <1>6, <1>7, <1>8 DEF Next, Step

-----------------------------------------------------------------------------
LEMMA IInvAlways == Spec => []IInv
    BY InitIInv, StepIInv, PTL DEF Spec

(* push and pop index the slice within its length, whatever is queued.     *)
THEOREM HeapTypeOK == Spec => []TypeOK
    BY IInvAlways, PTL DEF IInv

(* queue.push and queue.pop keep the slice a heap: whatever is pushed and  *)
(* popped, in any order and with any ties, between calls no node is        *)
(* smaller than its parent.                                                *)
THEOREM HeapOrdered == Spec => []HeapOrder
    BY IInvAlways, PTL DEF IInv

(* Within a call the heap is out of order in one place only, which the     *)
(* loop moves up or down, and the nodes around that place fit together.    *)
THEOREM LoopsOrdered == Spec => []LoopOrder
    BY IInvAlways, PTL DEF IInv

(* In an ordered heap the root is least: a node smaller than the root, at  *)
(* the least index there is one, would be smaller than its parent.         *)
LEMMA RootIsLeast ==
    ASSUME TypeOK, pc = "idle", HeapOrder
    PROVE  \A k \in 0 .. size - 1 : Cmp(nodes[0], nodes[k]) <= 0
<1> DEFINE Bad == {k \in 0 .. size - 1 : ~ (Cmp(nodes[0], nodes[k]) <= 0)}
<1> SUFFICES ASSUME Bad # {} PROVE FALSE
    OBVIOUS
<1>1. Bad \in SUBSET Nat
    OBVIOUS
<1>2. PICK m \in Bad : \A n \in Bad : m <= n
    <2> HIDE DEF Bad
    <2>1. QED
        BY <1>1, LeastNatural
<1>3. m \in 1 .. size - 1
    BY CmpOrder
<1>4. Parent(m) \in 0 .. size - 1 /\ Parent(m) < m
    BY <1>3, ParentIndex
<1>5. Parent(m) \notin Bad
    BY <1>2, <1>4
<1>6. Cmp(nodes[0], nodes[Parent(m)]) <= 0
    BY <1>4, <1>5
<1>7. Cmp(nodes[Parent(m)], nodes[m]) <= 0
    BY <1>3 DEF HeapOrder
<1>8. Cmp(nodes[0], nodes[m]) <= 0
    BY <1>3, <1>4, <1>6, <1>7, CmpOrder
<1>9. QED
    BY <1>8

(* queue.pop returns a node that nothing in the queue precedes: the order  *)
(* qCompressNearbySegment relies on when it returns the first segment it   *)
(* pops.                                                                   *)
THEOREM PopTakesLeast == Spec => PopsLeast
<1>1. IInv /\ [Next]_vars =>
        [Pop => \A k \in 0 .. size - 1 : Cmp(popped'[1], nodes[k]) <= 0]_vars
    BY RootIsLeast DEF IInv, Pop
<1>2. QED
    BY <1>1, IInvAlways, PTL DEF Spec, PopsLeast

-----------------------------------------------------------------------------
(* The indices that hold a node. *)
Places(f, l, n) == {k \in 0 .. l - 1 : f[k] = n}

BagOf(f, l) == [n \in {f[k] : k \in 0 .. l - 1} |-> Cardinality(Places(f, l, n))]

LEMMA ContentsIs == Contents = BagOf(nodes, size)
    BY Zenon DEF Contents, BagOf, Places

LEMMA ContentsIsPrime == Contents' = BagOf(nodes', size')
    BY Zenon DEF Contents, BagOf, Places

LEMMA PlacesFinite ==
    ASSUME NEW f, NEW l \in Nat, NEW n
    PROVE  /\ IsFiniteSet(Places(f, l, n)) /\ Cardinality(Places(f, l, n)) \in Nat
           /\ Cardinality(Places(f, l, n)) = 0 <=> \A k \in 0 .. l - 1 : f[k] # n
<1>1. IsFiniteSet(0 .. l - 1)
    BY FS_Interval
<1>2. Places(f, l, n) \in SUBSET (0 .. l - 1)
    BY DEF Places
<1>3. IsFiniteSet(Places(f, l, n))
    BY <1>1, <1>2, FS_Subset, Zenon
<1>4. Cardinality(Places(f, l, n)) = 0 <=> Places(f, l, n) = {}
    BY <1>3, FS_EmptySet, Zenon
<1>5. Places(f, l, n) = {} <=> \A k \in 0 .. l - 1 : f[k] # n
    BY Zenon DEF Places
<1>6. QED
    BY <1>3, <1>4, <1>5, FS_CardinalityType, Zenon

LEMMA SameBag ==
    ASSUME NEW f, NEW g, NEW l \in Nat,
           \A n : Cardinality(Places(g, l, n)) = Cardinality(Places(f, l, n))
    PROVE  BagOf(g, l) = BagOf(f, l)
<1>1. \A n : (\E k \in 0 .. l - 1 : f[k] = n) <=> (\E k \in 0 .. l - 1 : g[k] = n)
    <2>1. ASSUME NEW n
          PROVE  (\E k \in 0 .. l - 1 : f[k] = n) <=> (\E k \in 0 .. l - 1 : g[k] = n)
        <3>1. Cardinality(Places(f, l, n)) = 0 <=> \A k \in 0 .. l - 1 : f[k] # n
            BY PlacesFinite
        <3>2. Cardinality(Places(g, l, n)) = 0 <=> \A k \in 0 .. l - 1 : g[k] # n
            BY PlacesFinite
        <3>3. QED
            BY <3>1, <3>2, Zenon
    <2>2. QED
        BY <2>1
<1>2. {f[k] : k \in 0 .. l - 1} = {g[k] : k \in 0 .. l - 1}
    <2>1. \A n : n \in {f[k] : k \in 0 .. l - 1} <=> n \in {g[k] : k \in 0 .. l - 1}
        BY <1>1, Zenon
    <2>2. QED
        BY <2>1, Zenon
<1>3. QED
    BY <1>2, Zenon DEF BagOf

LEMMA MoveElement ==
    ASSUME NEW S, IsFiniteSet(S), NEW x \in S, NEW y, y \notin S \ {x},
           NEW T, T = (S \ {x}) \cup {y}
    PROVE  Cardinality(T) = Cardinality(S)
<1>1. /\ IsFiniteSet(S \ {x}) /\ Cardinality(S \ {x}) = Cardinality(S) - 1
      /\ Cardinality(S) \in Nat
    BY FS_RemoveElement, FS_CardinalityType, Zenon
<1>2. Cardinality((S \ {x}) \cup {y}) = Cardinality(S \ {x}) + 1
    BY <1>1, FS_AddElement, Zenon
<1>3. QED
    BY <1>1, <1>2

(* A swap moves nodes, but adds and drops none. *)
LEMMA SwapKeeps ==
    ASSUME NEW l \in Nat, NEW f, NEW g, NEW j \in 0 .. l - 1, NEW k \in 0 .. l - 1,
           j # k, Swapped(0 .. l - 1, f, j, k, g)
    PROVE  /\ \A n : Cardinality(Places(g, l, n)) = Cardinality(Places(f, l, n))
           /\ BagOf(g, l) = BagOf(f, l)
<1>0. /\ g[j] = f[k] /\ g[k] = f[j]
      /\ \A m \in 0 .. l - 1 : m # j /\ m # k => g[m] = f[m]
    BY Zenon DEF Swapped
<1>1. ASSUME NEW n PROVE Cardinality(Places(g, l, n)) = Cardinality(Places(f, l, n))
    <2>1. CASE f[j] = n <=> f[k] = n
        <3>1. Places(g, l, n) = Places(f, l, n)
            BY <1>0, <2>1 DEF Places
        <3>2. QED
            BY <3>1
    <2>2. CASE f[j] = n /\ f[k] # n
        <3>1. Places(g, l, n) = (Places(f, l, n) \ {j}) \cup {k}
            BY <1>0, <2>2 DEF Places
        <3>2. j \in Places(f, l, n) /\ k \notin Places(f, l, n) \ {j}
            BY <2>2 DEF Places
        <3>3. IsFiniteSet(Places(f, l, n))
            BY PlacesFinite
        <3>4. QED
            BY <3>1, <3>2, <3>3, MoveElement
    <2>3. CASE f[j] # n /\ f[k] = n
        <3>1. Places(g, l, n) = (Places(f, l, n) \ {k}) \cup {j}
            BY <1>0, <2>3 DEF Places
        <3>2. k \in Places(f, l, n) /\ j \notin Places(f, l, n) \ {k}
            BY <2>3 DEF Places
        <3>3. IsFiniteSet(Places(f, l, n))
            BY PlacesFinite
        <3>4. QED
            BY <3>1, <3>2, <3>3, MoveElement
    <2>4. QED
        BY <2>1, <2>2, <2>3
<1>2. QED
    BY <1>1, SameBag, Zenon

LEMMA InitBag == Init => Promise!Init
<1> SUFFICES ASSUME Init PROVE Promise!Init
    OBVIOUS
<1>1. size = 0 /\ popped = <<>> /\ 0 .. size - 1 = {}
    BY DEF Init
<1>2. {nodes[k] : k \in {}} = {}
    OBVIOUS
<1>3. Contents = [n \in {} |-> 1]
    BY <1>1, <1>2 DEF Contents
<1>4. QED
    BY <1>1, <1>3 DEF Promise!Init, Promise!EmptyBag, Promise!SetToBag

(* One node more at the end. *)
Longer(f, l, n, g) == g[l] = n /\ \A k \in 0 .. l - 1 : g[k] = f[k]

LEMMA AddPlace ==
    ASSUME NEW l \in Nat, NEW f, NEW g, NEW n, Longer(f, l, n, g)
    PROVE  \A m : Cardinality(Places(g, l + 1, m))
                     = Cardinality(Places(f, l, m)) + (IF m = n THEN 1 ELSE 0)
<1>1. 0 .. (l + 1) - 1 = (0 .. l - 1) \cup {l} /\ l \notin 0 .. l - 1
    OBVIOUS
<1>2. ASSUME NEW m
      PROVE  Cardinality(Places(g, l + 1, m))
               = Cardinality(Places(f, l, m)) + (IF m = n THEN 1 ELSE 0)
    <2>1. IsFiniteSet(Places(f, l, m)) /\ Cardinality(Places(f, l, m)) \in Nat
        BY PlacesFinite
    <2>2. CASE m = n
        <3>1. Places(g, l + 1, m) = Places(f, l, m) \cup {l} /\ l \notin Places(f, l, m)
            BY <1>1, <2>2 DEF Places, Longer
        <3>2. Cardinality(Places(f, l, m) \cup {l}) = Cardinality(Places(f, l, m)) + 1
            BY <2>1, <3>1, FS_AddElement
        <3>3. QED
            BY <2>2, <3>1, <3>2
    <2>3. CASE m # n
        <3>1. Places(g, l + 1, m) = Places(f, l, m)
            BY <1>1, <2>3 DEF Places, Longer
        <3>2. QED
            BY <2>1, <2>3, <3>1
    <2>4. QED
        BY <2>2, <2>3
<1>3. QED
    BY <1>2

LEMMA BagFields ==
    ASSUME NEW f, NEW l \in Nat
    PROVE  /\ \A n : n \in DOMAIN BagOf(f, l) <=> Cardinality(Places(f, l, n)) # 0
           /\ \A n \in DOMAIN BagOf(f, l) : BagOf(f, l)[n] = Cardinality(Places(f, l, n))
           /\ \A n : Cardinality(Places(f, l, n)) \in Nat
           /\ BagOf(f, l) = [n \in DOMAIN BagOf(f, l) |-> Cardinality(Places(f, l, n))]
<1>1. DOMAIN BagOf(f, l) = {f[k] : k \in 0 .. l - 1}
    BY DEF BagOf
<1>2. ASSUME NEW n PROVE n \in DOMAIN BagOf(f, l) <=> Cardinality(Places(f, l, n)) # 0
    <2>1. Cardinality(Places(f, l, n)) = 0 <=> \A k \in 0 .. l - 1 : f[k] # n
        BY PlacesFinite
    <2>2. QED
        BY <1>1, <2>1, Zenon
<1>3. \A n : Cardinality(Places(f, l, n)) \in Nat
    BY PlacesFinite
<1>4. BagOf(f, l) = [n \in DOMAIN BagOf(f, l) |-> Cardinality(Places(f, l, n))]
    BY <1>1, Zenon DEF BagOf
<1>5. QED
    BY <1>2, <1>3, <1>4, Zenon

(* A bag with one node more, and with one less. *)
With(B, n) ==
    [e \in (DOMAIN B) \cup {n} |->
        (IF e \in DOMAIN B THEN B[e] ELSE 0) + (IF e \in {n} THEN 1 ELSE 0)]

Fewer(B, n) == [e \in DOMAIN B |-> IF e \in {n} THEN B[e] - 1 ELSE B[e]]

Without(B, n) ==
    [e \in {d \in DOMAIN Fewer(B, n) : Fewer(B, n)[d] > 0} |-> Fewer(B, n)[e]]

LEMMA BagAdd ==
    ASSUME NEW l \in Nat, NEW f, NEW g, NEW n, Longer(f, l, n, g),
           NEW B, B = BagOf(f, l), NEW C, C = BagOf(g, l + 1)
    PROVE  C = With(B, n)
<1> DEFINE F(m) == Cardinality(Places(f, l, m))
           G(m) == Cardinality(Places(g, l + 1, m))
<1>1. \A m : G(m) = F(m) + (IF m = n THEN 1 ELSE 0)
    BY AddPlace
<1>2. /\ \A m : m \in DOMAIN B <=> F(m) # 0
      /\ \A m \in DOMAIN B : B[m] = F(m)
      /\ \A m : F(m) \in Nat
    BY BagFields
<1>3. (\A m : m \in DOMAIN C <=> G(m) # 0) /\ C = [m \in DOMAIN C |-> G(m)]
    <2>1. l + 1 \in Nat
        OBVIOUS
    <2>2. QED
        BY <2>1, BagFields, Zenon
<1> HIDE DEF F, G
<1>4. DOMAIN C = (DOMAIN B) \cup {n}
    <2>1. \A m : m \in DOMAIN C <=> m \in DOMAIN B \/ m = n
        BY <1>1, <1>2, <1>3
    <2>2. QED
        BY <2>1
<1>5. \A e \in (DOMAIN B) \cup {n} :
         (IF e \in DOMAIN B THEN B[e] ELSE 0) + (IF e \in {n} THEN 1 ELSE 0) = G(e)
    BY <1>1, <1>2
<1>6. QED
    BY <1>3, <1>4, <1>5 DEF With

(* The last node takes the first one's place, and the last place goes. *)
Cut(f, l, g) ==
    /\ f \in [0 .. l -> Node]
    /\ g = [k \in 0 .. l - 1 |-> IF k = 0 THEN f[l] ELSE f[k]]

LEMMA BagRemove ==
    ASSUME NEW l \in Nat, NEW f, NEW g, Cut(f, l, g), NEW B, B = BagOf(f, l + 1)
    PROVE  f[0] \in DOMAIN B /\ BagOf(g, l) = Without(B, f[0])
<1>0. PICK R : R = Fewer(B, f[0])
    OBVIOUS
<1> USE DEF Cut
<1> DEFINE h == [k \in 0 .. l |-> IF k = 0 THEN f[l] ELSE IF k = l THEN f[0] ELSE f[k]]
           F(m) == Cardinality(Places(f, l + 1, m))
           G(m) == Cardinality(Places(g, l, m))
           H(m) == Cardinality(Places(h, l + 1, m))
           C == BagOf(g, l)
<1>1. \A m : H(m) = F(m)
    <2>1. CASE l = 0
        <3>1. h = f
            BY <2>1
        <3>2. QED
            BY <3>1
    <2>2. CASE l # 0
        <3>1. Swapped(0 .. (l + 1) - 1, f, 0, l, h)
            BY <2>2 DEF Swapped
        <3>2. l + 1 \in Nat /\ 0 \in 0 .. (l + 1) - 1 /\ l \in 0 .. (l + 1) - 1 /\ 0 # l
            BY <2>2
        <3>3. PICK L : L = l + 1
            OBVIOUS
        <3> HIDE DEF h, Cut
        <3>4. \A m : Cardinality(Places(h, L, m)) = Cardinality(Places(f, L, m))
            BY <3>1, <3>2, <3>3, SwapKeeps
        <3>5. QED
            BY <3>3, <3>4, Zenon
    <2>3. QED
        BY <2>1, <2>2
<1>2. Longer(g, l, f[0], h)
    BY DEF Longer
<1> HIDE DEF h
<1>3. \A m : H(m) = G(m) + (IF m = f[0] THEN 1 ELSE 0)
    BY <1>2, AddPlace
<1>4. /\ \A m : m \in DOMAIN B <=> F(m) # 0
      /\ \A m \in DOMAIN B : B[m] = F(m)
    <2>1. l + 1 \in Nat
        OBVIOUS
    <2>2. QED
        BY <2>1, BagFields, Zenon
<1>5. /\ \A m : m \in DOMAIN C <=> G(m) # 0
      /\ C = [m \in DOMAIN C |-> G(m)]
      /\ \A m : G(m) \in Nat
    BY BagFields
<1> HIDE DEF C, F, G, H
<1>6. f[0] \in DOMAIN B
    BY <1>1, <1>3, <1>4, <1>5
<1>7. DOMAIN R = DOMAIN B /\ \A d \in DOMAIN B : R[d] = G(d)
    <2>1. ASSUME NEW d \in DOMAIN B
          PROVE  (IF d \in {f[0]} THEN B[d] - 1 ELSE B[d]) = G(d)
        BY <1>1, <1>3, <1>4, <1>5
    <2>2. QED
        BY <1>0, <2>1 DEF Fewer
<1>8. DOMAIN C = {d \in DOMAIN R : R[d] > 0}
    <2>1. \A d : d \in DOMAIN C <=> d \in DOMAIN B /\ G(d) > 0
        BY <1>1, <1>3, <1>4, <1>5
    <2>2. \A d : d \in DOMAIN C <=> d \in {e \in DOMAIN R : R[e] > 0}
        BY <1>7, <2>1
    <2>3. QED
        BY <2>2, Zenon
<1>9. C = [e \in {d \in DOMAIN R : R[d] > 0} |-> R[e]]
    BY <1>5, <1>7, <1>8
<1>10. QED
    BY <1>0, <1>6, <1>9, Zenon DEF C, Without

LEMMA PushAdds ==
    ASSUME IInv, NEW node \in Node, Push(node)
    PROVE  Promise!Push(node)
<1>0. PICK g : g = nodes'
    OBVIOUS
<1>1. /\ g = [k \in 0 .. size |-> IF k = size THEN node ELSE nodes[k]]
      /\ size' = size + 1 /\ popped' = popped /\ size \in Nat
    BY <1>0 DEF IInv, Push
<1>2. Longer(nodes, size, node, g)
    BY <1>1 DEF Longer
<1>3. Contents' = BagOf(g, size + 1) /\ Contents = BagOf(nodes, size)
    BY <1>0, <1>1, ContentsIs, ContentsIsPrime
<1>4. Promise!SetToBag({node}) = [e \in {node} |-> 1]
    BY DEF Promise!SetToBag
<1>5. BagOf(g, size + 1) = Promise!(+)(BagOf(nodes, size), [e \in {node} |-> 1])
    <2>0. PICK B, C, D : /\ B = BagOf(nodes, size) /\ C = BagOf(g, size + 1)
                         /\ D = [e \in {node} |-> 1]
        BY Zenon
    <2>1. C = With(B, node)
        <3>1. size \in Nat
            BY <1>1
        <3>2. QED
            BY <1>2, <2>0, <3>1, BagAdd
    <2>2. DOMAIN D = {node} /\ D[node] = 1
        BY <2>0
    <2>3. \A e : (IF e \in {node} THEN 1 ELSE 0) = (IF e \in DOMAIN D THEN D[e] ELSE 0)
        BY <2>2, Zenon
    <2>4. C = [e \in (DOMAIN B) \cup (DOMAIN D) |->
             (IF e \in DOMAIN B THEN B[e] ELSE 0) + (IF e \in DOMAIN D THEN D[e] ELSE 0)]
        BY <2>1, <2>2, <2>3 DEF With
    <2>5. QED
        BY <2>0, <2>4, Zenon DEF Promise!(+)
<1>6. QED
    BY <1>1, <1>3, <1>4, <1>5, Zenon DEF Promise!Push

LEMMA PopTakes ==
    ASSUME IInv, Pop
    PROVE  nodes[0] \in Node /\ Promise!Pop(nodes[0])
<1>0. PICK g, l, f : g = nodes' /\ l = size - 1 /\ f = nodes
    BY Zenon
<1>1. /\ g = [k \in 0 .. l - 1 |-> IF k = 0 THEN f[l] ELSE f[k]]
      /\ size' = l /\ popped' = <<f[0]>> /\ l \in Nat /\ size = l + 1
      /\ f \in [0 .. l -> Node] /\ f[0] \in Node
    BY <1>0 DEF IInv, Pop
<1>2. PICK B, R : /\ B = BagOf(f, l + 1)
                  /\ R = Fewer(B, f[0])
    BY Zenon
<1>3. f[0] \in DOMAIN B /\ BagOf(g, l) = Without(B, f[0])
    <2>1. l \in Nat /\ Cut(f, l, g)
        BY <1>1 DEF Cut
    <2>2. QED
        BY <1>2, <2>1, BagRemove
<1>4. Contents = B /\ Contents' = BagOf(g, l)
    BY <1>0, <1>1, <1>2, ContentsIs, ContentsIsPrime
<1>5. Contents' = Promise!(-)(Contents, Promise!SetToBag({f[0]}))
    <2>1. PICK D : D = Promise!SetToBag({f[0]})
        OBVIOUS
    <2>2. DOMAIN D = {f[0]} /\ D[f[0]] = 1
        BY <2>1 DEF Promise!SetToBag
    <2>3. R = [e \in DOMAIN B |-> IF e \in DOMAIN D THEN B[e] - D[e] ELSE B[e]]
        BY <1>2, <2>2 DEF Fewer
    <2>4. Promise!(-)(B, D) = [e \in {d \in DOMAIN R : R[d] > 0} |-> R[e]]
        BY <2>3, Zenon DEF Promise!(-)
    <2>5. QED
        BY <1>2, <1>3, <1>4, <2>1, <2>4, Zenon DEF Without
<1>6. ASSUME NEW m \in DOMAIN B PROVE Before(f[0], m)
    <2>1. PICK k \in 0 .. size - 1 : m = nodes[k]
        <3>1. DOMAIN Contents = {nodes[j] : j \in 0 .. size - 1}
            BY DEF Contents
        <3>2. QED
            BY <1>4, <1>6, <3>1
    <2>2. Cmp(nodes[0], nodes[k]) <= 0
        BY RootIsLeast DEF IInv, Pop
    <2>3. QED
        BY <1>0, <2>1, <2>2 DEF Before
<1>7. QED
    BY <1>0, <1>1, <1>3, <1>4, <1>5, <1>6, Zenon DEF Promise!Pop, Promise!BagToSet

(* A turn of either loop exchanges two nodes. *)
LEMMA SiftKeeps ==
    ASSUME IInv, SiftUp \/ SiftDown
    PROVE  UNCHANGED <<Contents, popped>>
<1>0. PICK g, j : g = nodes' /\ j = i'
    BY Zenon
<1>1. /\ g = Swap(nodes, j, i) /\ size' = size /\ popped' = popped
      /\ j \in 0 .. size - 1 /\ i \in 0 .. size - 1 /\ j # i
      /\ size \in Nat /\ nodes \in [0 .. size - 1 -> Node]
    <2>1. CASE SiftUp
        BY <1>0, <2>1, ParentIndex DEF IInv, SiftUp, RisesFrom, LoopOrder
    <2>2. CASE SiftDown
        <3>1. i < size
            BY <2>2 DEF IInv, SiftDown, Smallest
        <3>2. Smallest(nodes, size, i) \in 0 .. size - 1
            BY <3>1, SmallestChild DEF IInv
        <3>3. QED
            BY <1>0, <2>2, <3>1, <3>2 DEF IInv, SiftDown
    <2>3. QED
        BY <2>1, <2>2
<1>2. Swapped(0 .. size - 1, nodes, j, i, g)
    BY <1>1, SwapEffect, Zenon
<1>3. BagOf(g, size) = BagOf(nodes, size)
    BY <1>1, <1>2, SwapKeeps
<1>4. QED
    BY <1>0, <1>1, <1>3, ContentsIs, ContentsIsPrime

LEMMA StepBag ==
    ASSUME IInv, [Next]_vars
    PROVE  [Promise!Next]_<<Contents, popped>>
<1>1. ASSUME NEW node \in Node, Push(node) PROVE Promise!Next
    BY <1>1, PushAdds, Zenon DEF Promise!Next
<1>2. CASE SiftUp \/ SiftDown
    BY <1>2, SiftKeeps, Zenon
<1>3. CASE Pop
    BY <1>3, PopTakes, Zenon DEF Promise!Next
<1>4. CASE PopEmpty
    <2>1. size = 0 /\ popped' = <<>> /\ UNCHANGED Contents
        BY <1>4 DEF PopEmpty, Contents
    <2>2. 0 .. size - 1 = {}
        BY <2>1
    <2>3. Contents = [n \in {} |-> 1]
        BY <2>2 DEF Contents
    <2>4. QED
        BY <2>1, <2>3, Zenon
           DEF Promise!Next, Promise!PopEmpty, Promise!EmptyBag, Promise!SetToBag
<1>5. CASE PushDone \/ PopDone \/ UNCHANGED vars
    BY <1>5 DEF PushDone, PopDone, vars, Contents
<1>6. QED
    BY <1>1, <1>2, <1>3, <1>4, <1>5 DEF Next, Step

(* The heap implements the multiset: push adds its node, pop takes a least *)
(* one away, and no turn of a sift loses, duplicates or invents a node.    *)
THEOREM HeapIsBag == Spec => ImplementsNodeBag
    BY InitBag, StepBag, IInvAlways, PTL DEF Spec, ImplementsNodeBag, Promise!Spec
=============================================================================
