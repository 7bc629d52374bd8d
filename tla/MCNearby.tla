------------------------------ MODULE MCNearby ------------------------------
(* Two goroutines, two queues, and series whose segments tie in distance   *)
(* across the quads of the tree.                                           *)
EXTENDS Nearby

MCPoints == {[x |-> 0, y |-> 0], [x |-> 1, y |-> 0], [x |-> 4, y |-> 4]}
MCCenters == {[x |-> 0, y |-> 1], [x |-> 5, y |-> 0]}
MCOptions == {[kind |-> 0, minPoints |-> 0], [kind |-> 1, minPoints |-> 2]}

Bounding(P) ==
    [min |-> [x |-> Min({p.x : p \in P}), y |-> Min({p.y : p \in P})],
     max |-> [x |-> Max({p.x : p \in P}), y |-> Max({p.y : p \in P})]]

Made(s) ==
    [points |-> s.points, closed |-> s.closed,
     rect |-> IF Empty(s) THEN PointRect([x |-> 0, y |-> 0])
              ELSE Bounding({s.points[k] : k \in DOMAIN s.points})]

SeriesOf(n) == [points : [1 .. n -> MCPoints], closed : {TRUE}]

(* All series of two points, and those of four that start at the first     *)
(* point and pass the others.                                              *)
MCInputs ==
    {Made(s) : s \in SeriesOf(2)
         \cup {s \in SeriesOf(4) : /\ s.points[1] = [x |-> 0, y |-> 0]
                                 /\ MCPoints = {s.points[k] : k \in 1 .. 4}}}
=============================================================================
