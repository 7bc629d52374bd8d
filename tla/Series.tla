------------------------------- MODULE Series -------------------------------
(***************************************************************************)
(* What a baseSeries (series.go) says about its segments.  A series is a   *)
(* record of its points and of whether they close up; indices are the      *)
(* code's, from 0, so point k of the code is points[k + 1].                *)
(***************************************************************************)
EXTENDS Planar, Sequences

PointAt(series, index) == series.points[index + 1]

Empty(series) ==
    \/ series.closed /\ Len(series.points) < 3
    \/ Len(series.points) < 2

(* A closed series whose last point repeats its first has one segment      *)
(* fewer: the one from the last point back to the first has no length.     *)
NumSegments(series) ==
    LET n == Len(series.points) IN
    IF Empty(series) THEN 0
    ELSE IF series.closed /\ PointAt(series, n - 1) # PointAt(series, 0) THEN n
    ELSE n - 1

SegmentAt(series, index) ==
    [a |-> PointAt(series, index),
     b |-> IF index = Len(series.points) - 1 THEN PointAt(series, 0)
                                             ELSE PointAt(series, index + 1)]

SegmentRectAt(series, index) == SegmentRect(SegmentAt(series, index))
=============================================================================
