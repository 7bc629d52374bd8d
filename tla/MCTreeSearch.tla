---------------------------- MODULE MCTreeSearch ----------------------------
(* Series of a few points, with and without an index, and targets that *)
(* meet all, some or none of a tree's quads, on their borders included.    *)
(* With Radix = 2 every number above 1 takes several bytes.                *)
EXTENDS TreeSearch

CONSTANT Sizes        \* The numbers of points.

MCPoints == {[x |-> 0, y |-> 0], [x |-> 1, y |-> 0],
             [x |-> 4, y |-> 0], [x |-> 1, y |-> 3]}

Bounding(P) ==
    [min |-> [x |-> Min({p.x : p \in P}), y |-> Min({p.y : p \in P})],
     max |-> [x |-> Max({p.x : p \in P}), y |-> Max({p.y : p \in P})]]

Made(s) ==
    [points |-> s.points, closed |-> s.closed,
     rect |-> IF Empty(s) THEN NoRect
              ELSE Bounding({s.points[k] : k \in DOMAIN s.points})]

MCInputs == {Made(s) : s \in UNION {[points : [1 .. n -> MCPoints],
                                     closed : BOOLEAN] : n \in Sizes}}

Box(x1, y1, x2, y2) == [min |-> [x |-> x1, y |-> y1], max |-> [x |-> x2, y |-> y2]]

MCOptions == {[kind |-> 0, minPoints |-> 0], [kind |-> 1, minPoints |-> 2]}
MCDeltas == {[x |-> 2, y |-> -1]}

MCTargets == {Box(0, 0, 4, 3), Box(0, 0, 0, 0), Box(2, 1, 4, 3), Box(5, 0, 6, 1)}
=============================================================================
