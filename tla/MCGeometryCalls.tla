-------------------------- MODULE MCGeometryCalls --------------------------
(* Points, rectangles, lines and polygons on a grid of 7 x 7 points: flat  *)
(* ones, empty ones, ones without length, with holes within holes, holes   *)
(* that touch the exterior, notches, and six points or more where that is  *)
(* many.  ClosedVee starts and ends at its inward corner, so it is marked  *)
(* convex although it is not.  Vee and Gem are the case in which only the  *)
(* rectangle of the second one touches the first one, ClosedVee and        *)
(* HighHexagon one in which the rectangle seems to be inside.  Segments    *)
(* are on a grid of 4 x 4 points, the smallest on which one lies strictly  *)
(* inside another one and slanted ones cross off the grid.                 *)
EXTENDS GeometryCalls

MCCoords == 0 .. 3
P(x, y) == [x |-> x, y |-> y]
Path(xys) == [k \in DOMAIN xys |-> P(xys[k][1], xys[k][2])]
PointG(x, y) == [kind |-> "point", point |-> P(x, y)]
RectG(x, y, u, v) == [kind |-> "rect", rect |-> [min |-> P(x, y), max |-> P(u, v)]]
LineG(xys) == NewLine(Path(xys))
PolyG(xys, holes) == NewPoly(Path(xys), [k \in DOMAIN holes |-> Path(holes[k])])
Box(x, y, u, v) == <<<<x, y>>, <<u, y>>, <<u, v>>, <<x, v>>>>

Diamond == <<<<3, 1>>, <<5, 3>>, <<3, 5>>, <<1, 3>>>>
Ell == <<<<0, 0>>, <<6, 0>>, <<6, 2>>, <<2, 2>>, <<2, 6>>, <<0, 6>>>>
You == <<<<0, 6>>, <<2, 6>>, <<2, 2>>, <<4, 2>>, <<4, 6>>, <<6, 6>>, <<6, 0>>, <<0, 0>>>>
Vee == <<<<0, 0>>, <<6, 0>>, <<6, 6>>, <<5, 6>>, <<5, 4>>, <<3, 2>>, <<1, 4>>,
         <<1, 6>>, <<0, 6>>>>
ClosedVee == <<<<3, 4>>, <<6, 1>>, <<6, 6>>, <<0, 6>>, <<0, 1>>, <<3, 4>>>>
Gem == <<<<1, 2>>, <<2, 1>>, <<3, 1>>, <<4, 1>>, <<5, 2>>, <<3, 4>>>>
Arrow == <<<<0, 3>>, <<3, 0>>, <<6, 3>>, <<3, 3>>, <<3, 6>>>>
Hexagon == <<<<1, 2>>, <<2, 1>>, <<4, 1>>, <<5, 2>>, <<4, 3>>, <<2, 3>>>>
HighHexagon == <<<<1, 3>>, <<2, 2>>, <<4, 2>>, <<5, 3>>, <<4, 4>>, <<2, 4>>>>
Triangle == <<<<1, 1>>, <<5, 1>>, <<3, 3>>, <<1, 1>>>>
LevelFlat == <<<<1, 1>>, <<3, 1>>, <<2, 1>>>>
SlantedFlat == <<<<1, 1>>, <<3, 3>>, <<2, 2>>>>
Pair == <<<<1, 1>>, <<2, 2>>>>

MCGeometries ==
    {PointG(1, 1), PointG(3, 2), PointG(3, 3),
     RectG(0, 0, 6, 6), RectG(1, 1, 5, 5), RectG(2, 2, 4, 4), RectG(2, 3, 4, 3),
     RectG(3, 1, 3, 5), RectG(3, 3, 3, 3), RectG(3, 0, 6, 2),
     LineG(<<>>), LineG(<<<<3, 3>>>>), LineG(<<<<3, 3>>, <<3, 3>>>>),
     LineG(<<<<0, 0>>, <<6, 6>>>>), LineG(<<<<1, 4>>, <<5, 4>>>>),
     LineG(<<<<2, 3>>, <<3, 3>>, <<4, 3>>>>), LineG(<<<<3, 5>>, <<3, 1>>, <<1, 1>>>>),
     LineG(<<<<1, 0>>, <<1, 5>>, <<5, 1>>>>), LineG(Hexagon)}
    \cup
    {PolyG(Box(0, 0, 6, 6), <<Box(2, 2, 4, 4)>>), PolyG(Box(0, 0, 6, 6), <<Box(1, 1, 5, 5)>>),
     PolyG(Box(0, 0, 6, 6), <<Diamond>>), PolyG(Box(0, 0, 6, 6), <<Hexagon>>),
     PolyG(Box(0, 0, 6, 6), <<Box(1, 1, 2, 2), Box(3, 3, 5, 5)>>),
     PolyG(Box(1, 1, 5, 5), <<Box(2, 2, 4, 4)>>), PolyG(Box(1, 1, 5, 5), <<Diamond>>),
     PolyG(Box(0, 0, 6, 6), <<ClosedVee>>), PolyG(Box(0, 0, 6, 6), <<Box(1, 3, 5, 5)>>),
     PolyG(Diamond, <<Box(2, 2, 4, 4)>>), RectPoly([min |-> P(1, 1), max |-> P(5, 5)])}
    \cup
    {PolyG(exterior, <<>>) : exterior \in
        {Box(1, 1, 5, 5), Box(2, 2, 4, 4), Diamond, Ell, You, Vee, ClosedVee, Gem, Arrow,
         Hexagon, HighHexagon, Triangle, LevelFlat, SlantedFlat, Pair}}

MCDeltas == {P(1, 0), P(-1, 1)}
=============================================================================
