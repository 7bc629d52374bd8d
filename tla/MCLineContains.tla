--------------------------- MODULE MCLineContains ---------------------------
(* Lines of up to four points and followers of up to three, and some of    *)
(* four, on two rows of three points.                                      *)
EXTENDS LineContains

MCPoints == [x : 0 .. 2, y : 0 .. 1]
LinesOf(sizes) == UNION {[points : [1 .. n -> MCPoints], closed : {FALSE}]
                            : n \in sizes}
MCLines == LinesOf({1, 2, 3})
           \cup {s \in LinesOf({4}) : s.points[1] = [x |-> 0, y |-> 0]
                                       /\ Simple(s)}
MCOthers == LinesOf({1, 2, 3})
            \cup {s \in LinesOf({4}) : s.points[1] = [x |-> 0, y |-> 0]
                                        /\ s.points[2] = [x |-> 1, y |-> 0]}
=============================================================================
