-------------------------- MODULE PlanarReference --------------------------
(***************************************************************************)
(* What the answers of the queries are compared with: definitions by       *)
(* orientation, with nothing of the code's case analysis.                  *)
(***************************************************************************)
EXTENDS Planar

OnSegment(seg, p) ==
    CollinearPoint(seg, p) /\ RectContainsPoint(SegmentRect(seg), p)

(* The upward ray from p crosses the segment, of which the left end counts *)
(* and the right end does not.                                             *)
Above(seg, p) ==
    \/ seg.a.x <= p.x /\ p.x < seg.b.x /\ Cross(seg.a, seg.b, p) > 0
    \/ seg.b.x <= p.x /\ p.x < seg.a.x /\ Cross(seg.b, seg.a, p) > 0

(* p and q lie strictly on opposite sides of the line through seg. *)
Separated(seg, p, q) ==
    \/ Cross(seg.a, seg.b, p) < 0 /\ Cross(seg.a, seg.b, q) > 0
    \/ Cross(seg.a, seg.b, p) > 0 /\ Cross(seg.a, seg.b, q) < 0

(* The edges of a ring have all its corners on one side each: the ring is  *)
(* convex.                                                                 *)
OneSided(edges) == \A e, f, g \in edges : ~ Separated(e, f.a, g.a)

(* The two segments have a point in common. *)
SharePoint(seg, other) ==
    \/ OnSegment(seg, other.a) \/ OnSegment(seg, other.b)
    \/ OnSegment(other, seg.a) \/ OnSegment(other, seg.b)
    \/ Separated(seg, other.a, other.b) /\ Separated(other, seg.a, seg.b)

(* seg lies on other and neither end of other lies on seg. *)
Swallowed(seg, other) ==
    /\ OnSegment(other, seg.a) /\ OnSegment(other, seg.b)
    /\ ~ OnSegment(seg, other.a) /\ ~ OnSegment(seg, other.b)

Times(n, p) == [x |-> n * p.x, y |-> n * p.y]
=============================================================================
