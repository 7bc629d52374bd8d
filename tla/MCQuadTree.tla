----------------------------- MODULE MCQuadTree -----------------------------
(* Series of NumPoints points, open and closed, with the bounding          *)
(* rectangle of their points.  The points are few and lie in different     *)
(* quads; repeated, they make coincident segments and points of no extent. *)
EXTENDS QuadTree, FiniteSetsExt

CONSTANT NumPoints

MCPoints == {[x |-> 0, y |-> 0], [x |-> 1, y |-> 0],
             [x |-> 4, y |-> 0], [x |-> 1, y |-> 3]}

Bounding(P) ==
    [min |-> [x |-> Min({p.x : p \in P}), y |-> Min({p.y : p \in P})],
     max |-> [x |-> Max({p.x : p \in P}), y |-> Max({p.y : p \in P})]]

MCInputs ==
    {[points |-> s, closed |-> c,
      rect |-> Bounding({s[k] : k \in DOMAIN s})]
        : s \in [1 .. NumPoints -> MCPoints], c \in BOOLEAN}
=============================================================================
