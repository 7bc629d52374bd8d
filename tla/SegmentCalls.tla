---------------------------- MODULE SegmentCalls ----------------------------
(***************************************************************************)
(* The queries on a single segment (Segment.Raycast, IntersectsSegment) as *)
(* calls a client makes one after another: a call records its arguments    *)
(* and its answer, and the next one starts when it has returned.  The      *)
(* answers are compared with definitions that use orientation and nothing  *)
(* of the code's case analysis.                                            *)
(***************************************************************************)
EXTENDS PlanarReference

CONSTANT Coords       \* The x and y coordinates the client's points use.

ASSUME CoordsAssumption == Coords \subseteq Int

VARIABLE call         \* The call in progress: operation, arguments, answer.

Points == [x : Coords, y : Coords]
Segments == [a : Points, b : Points]
Idle == [op |-> "none"]

Init == call = Idle

CallRaycast(seg, p) ==
    call' = [op |-> "Raycast", seg |-> seg, p |-> p,
             res |-> Raycast(seg, p)]

CallIntersectsSegment(seg, other) ==
    call' = [op |-> "IntersectsSegment", seg |-> seg, other |-> other,
             res |-> IntersectsSegment(seg, other)]

Return == call # Idle /\ call' = Idle

SegmentCall ==
    \/ \E seg \in Segments, p \in Points : CallRaycast(seg, p)
    \/ \E seg, other \in Segments : CallIntersectsSegment(seg, other)

SegmentSpec == Init /\ [][(call = Idle /\ SegmentCall) \/ Return]_call

-----------------------------------------------------------------------------
Reverse(seg) == [a |-> seg.b, b |-> seg.a]

(* Segment.Raycast reports "on" exactly for the points of the segment, and *)
(* "in" exactly for the points strictly to the left of it whose height is  *)
(* in the half-open range of the segment: the rule that lets a ray through *)
(* a vertex of a ring count one of the two edges that meet there.          *)
RaycastExact ==
    call.op = "Raycast" =>
        LET seg == call.seg
            up == IF seg.a.y < seg.b.y THEN seg ELSE Reverse(seg)
        IN  /\ call.res.on <=> OnSegment(seg, call.p)
            /\ call.res.in <=> /\ up.a.y <= call.p.y /\ call.p.y < up.b.y
                               /\ Cross(up.a, up.b, call.p) < 0

(* IntersectsSegment answers true only for segments that really meet, and  *)
(* it misses exactly one configuration: a segment lying inside the other   *)
(* one with no end of the other on it.                                     *)
IntersectsExactly ==
    call.op = "IntersectsSegment" =>
        (call.res <=> SharePoint(call.seg, call.other)
                        /\ ~ Swallowed(call.seg, call.other))

(* "Lines are collinear, and so intersect if they have any overlap"        *)
(* (segment.go): a segment of nonzero length intersects every collinear    *)
(* segment it has a point in common with.                                  *)
IntersectsIfOverlap ==
    /\ call.op = "IntersectsSegment"
    /\ call.seg.a # call.seg.b
    /\ CollinearPoint(call.seg, call.other.a)
    /\ CollinearPoint(call.seg, call.other.b)
    /\ SharePoint(call.seg, call.other)
    => call.res
=============================================================================
