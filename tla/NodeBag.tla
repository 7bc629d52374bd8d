------------------------------- MODULE NodeBag -------------------------------
(***************************************************************************)
(* What the priority queue promises its only client: a multiset of nodes   *)
(* from which a pop takes a least one, and which it leaves otherwise as it *)
(* was.  The order of equal nodes is not promised.                         *)
(***************************************************************************)
EXTENDS Integers, Bags

CONSTANTS Node, Precedes(_, _)    \* Precedes(n, m): n may be popped before m.

VARIABLES bag, popped

Init == bag = EmptyBag /\ popped = <<>>

Push(n) == bag' = bag (+) SetToBag({n}) /\ UNCHANGED popped

Pop(n) ==
    /\ n \in BagToSet(bag)
    /\ \A m \in BagToSet(bag) : Precedes(n, m)
    /\ bag' = bag (-) SetToBag({n})
    /\ popped' = <<n>>

PopEmpty == bag = EmptyBag /\ popped' = <<>> /\ UNCHANGED bag

Next == PopEmpty \/ \E n \in Node : Push(n) \/ Pop(n)

Spec == Init /\ [][Next]_<<bag, popped>>
=============================================================================
