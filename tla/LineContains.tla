---------------------------- MODULE LineContains ----------------------------
(***************************************************************************)
(* Line.ContainsLine (line.go): find a segment of line that contains the   *)
(* first segment of other, then follow other along line, moving to the     *)
(* previous or the next segment of line where other leaves the current     *)
(* one at an end.  Moving does not advance i, so the loop need not end.    *)
(* Lines are open series; a nil line is one without points here.           *)
(***************************************************************************)
EXTENDS Series

CONSTANTS Lines, Others      \* The arguments of the call: line and other.

ASSUME LinesAssumption ==
    Lines \cup Others \subseteq [points : Seq(Point), closed : {FALSE}]

VARIABLES
    line, other,      \* The arguments.
    pc,               \* "start", "find", "follow" or "done".
    j,                \* The index of the loop that looks for a segment.
    segIdx,           \* The segment of line that other is following.
    i,                \* The segment of other to be followed.
    res               \* The answer.

vars == <<line, other, pc, j, segIdx, i, res>>

lineSeg == SegmentAt(line, segIdx)
otherSeg == SegmentAt(other, i)

Init ==
    /\ line \in Lines /\ other \in Others
    /\ pc = "start" /\ j = 0 /\ segIdx = -1 /\ i = 1 /\ res = FALSE

Return(answer) ==
    /\ pc' = "done" /\ res' = answer
    /\ UNCHANGED <<line, other, j, segIdx, i>>

ReturnEmpty ==
    /\ pc = "start" /\ (Empty(line) \/ Empty(other))
    /\ Return(FALSE)

Start ==
    /\ pc = "start" /\ ~ Empty(line) /\ ~ Empty(other)
    /\ pc' = "find"
    /\ UNCHANGED <<line, other, j, segIdx, i, res>>

FirstFits == ContainsSegment(SegmentAt(line, j), SegmentAt(other, 0))

Find ==
    /\ pc = "find" /\ j < NumSegments(line) /\ FirstFits
    /\ segIdx' = j /\ pc' = "follow"
    /\ UNCHANGED <<line, other, j, i, res>>

TryNext ==
    /\ pc = "find" /\ j < NumSegments(line) /\ ~ FirstFits
    /\ j' = j + 1
    /\ UNCHANGED <<line, other, pc, segIdx, i, res>>

ReturnNotFound ==
    /\ pc = "find" /\ j = NumSegments(line)
    /\ Return(FALSE)

Following == pc = "follow" /\ i < NumSegments(other)
Fits == ContainsSegment(lineSeg, otherSeg)
AtA == otherSeg.a = lineSeg.a
AtB == ~ AtA /\ otherSeg.a = lineSeg.b

Continue ==
    /\ Following /\ Fits
    /\ i' = i + 1
    /\ UNCHANGED <<line, other, pc, j, segIdx, res>>

ReverseIt ==
    /\ Following /\ ~ Fits /\ AtA /\ segIdx # 0
    /\ segIdx' = segIdx - 1
    /\ UNCHANGED <<line, other, pc, j, i, res>>

ForwardIt ==
    /\ Following /\ ~ Fits /\ AtB /\ segIdx # NumSegments(line) - 1
    /\ segIdx' = segIdx + 1
    /\ UNCHANGED <<line, other, pc, j, i, res>>

(* Slips: leaving past an end only breaks the loop; the last segment but   *)
(* one is taken for the last.                                              *)
BreakPastEnd ==
    /\ Following /\ ~ Fits
    /\ (AtA /\ segIdx = 0) \/ (AtB /\ segIdx = NumSegments(line) - 1)
    /\ Return(TRUE)

ReturnBeforeEnd ==
    /\ Following /\ ~ Fits
    /\ (AtA /\ segIdx = 0) \/ (AtB /\ segIdx >= NumSegments(line) - 2)
    /\ Return(FALSE)

ReturnPastEnd ==
    /\ Following /\ ~ Fits
    /\ (AtA /\ segIdx = 0) \/ (AtB /\ segIdx = NumSegments(line) - 1)
    /\ Return(FALSE)

(* A segment that does not fit and does not start at an end of the current *)
(* one is passed over.                                                     *)
PassOver ==
    /\ Following /\ ~ Fits /\ ~ AtA /\ ~ AtB
    /\ i' = i + 1
    /\ UNCHANGED <<line, other, pc, j, segIdx, res>>

ReturnContained ==
    /\ pc = "follow" /\ i = NumSegments(other)
    /\ Return(TRUE)

Next ==
    \/ ReturnEmpty \/ Start
    \/ Find \/ TryNext \/ ReturnNotFound
    \/ Continue \/ ReverseIt \/ ForwardIt \/ ReturnPastEnd \/ PassOver
    \/ ReturnContained

(* The call runs on its caller's goroutine, which keeps being scheduled. *)
FairSpec == Init /\ [][Next]_vars /\ WF_vars(Next)

-----------------------------------------------------------------------------
Meet(s, t) == IntersectsSegment(s, t) \/ IntersectsSegment(t, s)

(* The line does not touch itself: its points differ and its segments meet *)
(* only where one ends and the next begins.                                *)
Simple(s) ==
    /\ \A k, m \in DOMAIN s.points : k # m => s.points[k] # s.points[m]
    /\ \A k, m \in 0 .. NumSegments(s) - 1 : k < m =>
          IF m = k + 1
          THEN /\ ~ SegmentContainsPoint(SegmentAt(s, k), SegmentAt(s, m).b)
               /\ ~ SegmentContainsPoint(SegmentAt(s, m), SegmentAt(s, k).a)
          ELSE ~ Meet(SegmentAt(s, k), SegmentAt(s, m))

(* Segment k of other lies on a segment of line; all before it do.         *)
OnLine(k) == \E m \in 0 .. NumSegments(line) - 1 :
                 ContainsSegment(SegmentAt(line, m), SegmentAt(other, k))

CoveredTo(k) == \A n \in 0 .. k - 1 : OnLine(n)

Covered == ~ Empty(line) /\ ~ Empty(other) /\ CoveredTo(NumSegments(other))

(* Segment k of other starts between the ends of a segment of line, but    *)
(* does not lie on it.                                                     *)
Leaves(k) ==
    \E m \in 0 .. NumSegments(line) - 1 :
        LET s == SegmentAt(line, m)
            p == PointAt(other, k)
        IN  /\ SegmentContainsPoint(s, p) /\ p \notin {s.a, s.b}
            /\ ~ ContainsSegment(s, SegmentAt(other, k))

Accepted(k) == OnLine(k) \/ (k # 0 /\ Leaves(k))

(* Along a line that does not touch itself, a line that follows it, in     *)
(* either direction and turning back anywhere, is answered and with true.  *)
CoveredIsTrue == (Simple(line) /\ Covered) ~> (pc = "done" /\ res)

(* Along a line that does not touch itself, the first segment of other     *)
(* that is not covered, if there is one though the answer is true, leaves  *)
(* a segment of line between its ends: such a segment is passed over, one  *)
(* that leaves at a point of line is not.  When other is covered up to its *)
(* last segment, the answer is true exactly if that one is covered or      *)
(* passed over.                                                            *)
CoveredUnlessLeaving ==
    (pc = "done" /\ Simple(line) /\ ~ Empty(line) /\ ~ Empty(other)) =>
        LET last == NumSegments(other) - 1 IN
        /\ res => \A k \in 0 .. last : CoveredTo(k) => Accepted(k)
        /\ CoveredTo(last) => (res <=> Accepted(last))

(* A line that leaves the other one is answered: line_test.go expects      *)
(* !ContainsLine of lines that leave at an end.                            *)
LeavingIsAnswered == (Simple(line) /\ ~ Covered) ~> (pc = "done")
=============================================================================
