------------------------------- MODULE MCRing -------------------------------
(* Rings on a grid of 4 x 4 points and all segments between points of the  *)
(* grid; wider rings with a notch and a corner, and segments inside them.  *)
(* ClosedVee starts and ends at its inward corner, so it is marked convex  *)
(* although it is not.                                                     *)
EXTENDS Ring, SequencesExt

Grid == [x : 0 .. 3, y : 0 .. 3]
Path(xys) == [k \in DOMAIN xys |-> [x |-> xys[k][1], y |-> xys[k][2]]]

Triangle == Path(<<<<0, 0>>, <<3, 1>>, <<1, 3>>>>)
Square == Path(<<<<0, 0>>, <<3, 0>>, <<3, 3>>, <<0, 3>>>>)
ClosedSquare == Path(<<<<1, 1>>, <<3, 1>>, <<3, 3>>, <<1, 3>>, <<1, 1>>>>)
Dart == Path(<<<<0, 0>>, <<1, 1>>, <<3, 0>>, <<1, 3>>>>)
Ell == Path(<<<<0, 0>>, <<3, 0>>, <<3, 1>>, <<1, 1>>, <<1, 3>>, <<0, 3>>>>)
You == Path(<<<<0, 0>>, <<3, 0>>, <<3, 3>>, <<2, 3>>,
              <<2, 1>>, <<1, 1>>, <<1, 3>>, <<0, 3>>>>)
Straight == Path(<<<<0, 0>>, <<1, 0>>, <<3, 0>>, <<3, 3>>>>)
Notch == Path(<<<<0, 0>>, <<5, 0>>, <<5, 3>>, <<3, 3>>, <<3, 2>>,
                <<2, 1>>, <<2, 2>>, <<2, 3>>, <<0, 3>>>>)
Corner == Path(<<<<0, 0>>, <<5, 0>>, <<5, 2>>, <<2, 2>>, <<2, 5>>, <<0, 5>>>>)
ClosedVee == Path(<<<<2, 3>>, <<5, 0>>, <<5, 5>>, <<0, 5>>, <<0, 0>>, <<2, 3>>>>)
Pair == Path(<<<<0, 0>>, <<3, 3>>>>)

MCMarkedRings == {NewSeries(p, TRUE) : p \in
    {Triangle, Square, ClosedSquare, Dart, Reverse(Dart), Ell, Reverse(Ell),
     You, Notch, Corner, Straight, Pair}}
MCRings == MCMarkedRings \cup {NewSeries(ClosedVee, TRUE)}
Level == [x : 0 .. 5, y : {2}]
Inner == [x : {1}, y : 1 .. 4] \cup [x : 1 .. 4, y : {1}]
MCSegments == [a : Grid, b : Grid] \cup [a : Level, b : Level]
                \cup [a : Inner, b : Inner]
=============================================================================
