-------------------------------- MODULE QNode --------------------------------
(***************************************************************************)
(* The entries of the priority queue (queue.go): segments and rectangles   *)
(* with their distances, in a fixed order.                                 *)
(***************************************************************************)
EXTENDS Integers

qrect == 1
qseg == 2

(* A slip: the distance alone decides. *)
CmpDist(n, other) ==
    IF n.dist < other.dist THEN -1
    ELSE IF n.dist > other.dist THEN 1
    ELSE 0

(* qnode.cmp: the distance, then the kind, then the position. *)
Cmp(n, other) ==
    IF n.dist < other.dist THEN -1
    ELSE IF n.dist > other.dist THEN 1
    ELSE IF n.kind < other.kind THEN -1
    ELSE IF n.kind > other.kind THEN 1
    ELSE IF n.pos < other.pos THEN -1
    ELSE IF n.pos > other.pos THEN 1
    ELSE 0
=============================================================================
