--------------------------- MODULE MCProcessPoints ---------------------------
(* Series of up to MaxPoints points of a small grid, open and closed.      *)
EXTENDS ProcessPoints

CONSTANTS MaxCoord, MaxPoints

MCPoints == [x : 0 .. MaxCoord, y : 0 .. MaxCoord]
MCInputs == UNION {[points : [1 .. n -> MCPoints], closed : BOOLEAN]
                     : n \in 0 .. MaxPoints}
MCClosedRings == {[points |-> Append(p, p[1]), closed |-> TRUE]
                     : p \in [1 .. 4 -> MCPoints]}
=============================================================================
