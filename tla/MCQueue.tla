------------------------------- MODULE MCQueue -------------------------------
(* Five nodes that differ in distance, kind or position, each queued any   *)
(* number of times up to six nodes: three levels of the heap.              *)
EXTENDS Queue

MCNode == {[dist |-> d, kind |-> k, pos |-> 0] : d \in 1 .. 2, k \in 1 .. 2}
            \cup {[dist |-> 1, kind |-> 1, pos |-> 1]}
=============================================================================
