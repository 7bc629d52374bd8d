------------------------------- MODULE Nearby -------------------------------
(***************************************************************************)
(* DistanceToSeries (series.go) on one series by several goroutines at     *)
(* once.  With an index it is qCompressNearbySegment (qtree.go), which     *)
(* walks the tree nearest node first, with a priority queue taken from a   *)
(* pool the goroutines share and put back, whatever it holds, when the     *)
(* call ends, be it by a panic of a distance function.  Without an index   *)
(* it is a scan.                                                           *)
(*                                                                         *)
(* The queue is the multiset NodeBag that the heap of queue.go implements  *)
(* (Queue: ImplementsNodeBag); a call never queues the same node twice, so *)
(* a set does.  The distance functions are a client's: here the distance   *)
(* of a point from a rectangle, and from a segment's rectangle.            *)
(***************************************************************************)
EXTENDS MakeSeries, QNode

CONSTANTS
    Procs,            \* The goroutines.
    Queues,           \* The queues that may be allocated; a bound.
    Centers,          \* The points distances are taken from.
    MaxCalls          \* Bound on the calls of a goroutine.

ASSUME NearbyAssumption == Centers \subseteq Point /\ MaxCalls \in Nat

VARIABLES
    calls,            \* The call each goroutine is in.
    done,             \* The number of calls it has made.
    pool,             \* The queues in qpool.
    queue             \* The nodes in each queue.

nearbyVars == <<calls, done, pool, queue>>
nearbyAllVars == <<makeVars, nearbyVars>>

NoQueue == "none"

ASSUME QueuesAssumption == NoQueue \notin Queues

NaN == -1
(* What a call returns: a segment, by its number, idx and dist.  A zero    *)
(* Segment is number -1.                                                   *)
Result(item, idx, dist) == [seg |-> item, idx |-> idx, dist |-> dist]
Origin == [x |-> 0, y |-> 0]
NoNode == [kind |-> 0, dist |-> NaN, pos |-> -1, bounds |-> PointRect(Origin)]

(* A goroutine between calls.  In a call: what it does next, the queue it  *)
(* has, the data it reads and where, the node's bounds; of the loop over   *)
(* the items, how many are left, the last one and the nearest so far; the  *)
(* index of the loop over the quads, or over the segments of a scan.       *)
NotCalling == [at |-> "idle", center |-> Origin, q |-> NoQueue, data |-> <<>>,
               addr |-> 0, bounds |-> PointRect(Origin),
               left |-> 0, last |-> 0, nearSeg |-> NoNode, i |-> 0,
               res |-> Result(-1, 0, NaN)]

(* How far v is outside lo .. hi, and the distance of a rectangle. *)
Outside(v, lo, hi) == IF v < lo THEN lo - v ELSE IF v > hi THEN v - hi ELSE 0
DistToRect(p, rect) == Greater(Outside(p.x, rect.min.x, rect.max.x),
                               Outside(p.y, rect.min.y, rect.max.y))
DistToSegment(p, item) == DistToRect(p, SegmentRectAt(series, item))

NearbyInit ==
    /\ MakeInit
    /\ calls = [p \in Procs |-> NotCalling]
    /\ done = [p \in Procs |-> 0]
    /\ pool = {}
    /\ queue = [q \in Queues |-> {}]

-----------------------------------------------------------------------------
Begin(p, center) ==
    /\ made /\ calls[p].at \in {"idle", "returned", "panicked"}
    /\ done[p] < MaxCalls
    /\ done' = [done EXCEPT ![p] = @ + 1]
    /\ calls' = [calls EXCEPT ![p] =
          IF index = <<>>
          THEN [NotCalling EXCEPT !.center = center, !.at = "scan"]
          ELSE [NotCalling EXCEPT !.center = center, !.at = "get",
                                  !.data = Readable(index)]]
    /\ UNCHANGED <<makeVars, pool, queue>>

(* The scan's result idx is never assigned and stays 0. *)
ScanStep(p) ==
    LET c == calls[p]
        sdist == DistToSegment(c.center, c.i)
    IN  /\ c.at = "scan" /\ c.i < NumSegments(series)
        /\ calls' = [calls EXCEPT
              ![p].i = @ + 1,
              ![p].res = IF c.i = 0 \/ sdist < c.res.dist
                         THEN Result(c.i, 0, sdist) ELSE @]
        /\ UNCHANGED <<makeVars, done, pool, queue>>

ScanReturn(p) ==
    /\ calls[p].at = "scan" /\ calls[p].i = NumSegments(series)
    /\ calls' = [calls EXCEPT ![p].at = "returned"]
    /\ UNCHANGED <<makeVars, done, pool, queue>>

ScanPanic(p) ==
    /\ calls[p].at = "scan" /\ calls[p].i < NumSegments(series)
    /\ calls' = [calls EXCEPT ![p].at = "panicked"]
    /\ UNCHANGED <<makeVars, done, pool, queue>>

(* qpool.Get: a pooled queue, or a new one; the pool may always have       *)
(* dropped what it held.  The queue is then cut to length 0.               *)
Fresh == {q \in Queues : q \notin pool /\ \A p \in Procs : calls[p].q # q}

(* Slips: the queue is not cut; it is not taken out of the pool. *)
GetQueueUncut(p, q) ==
    /\ calls[p].at = "get"
    /\ q \in pool \cup Fresh
    /\ pool' = pool \ {q}
    /\ calls' = [calls EXCEPT ![p].at = "node", ![p].q = q,
                              ![p].addr = HeaderLen, ![p].bounds = series.rect]
    /\ UNCHANGED <<makeVars, done, queue>>

GetQueueShared(p, q) ==
    /\ calls[p].at = "get"
    /\ q \in pool \cup Fresh
    /\ queue' = [queue EXCEPT ![q] = {}]
    /\ calls' = [calls EXCEPT ![p].at = "node", ![p].q = q,
                              ![p].addr = HeaderLen, ![p].bounds = series.rect]
    /\ UNCHANGED <<makeVars, done, pool>>

GetQueue(p, q) ==
    /\ calls[p].at = "get"
    /\ q \in pool \cup Fresh
    /\ pool' = pool \ {q}
    /\ queue' = [queue EXCEPT ![q] = {}]
    /\ calls' = [calls EXCEPT ![p].at = "node", ![p].q = q,
                              ![p].addr = HeaderLen, ![p].bounds = series.rect]
    /\ UNCHANGED <<makeVars, done>>

ReadAt(c) == ReadUvarint(c.data, c.addr)

(* A slip: the last of the nearest items wins. *)
NearerOrEqual(c, n) == n.dist <= c.nearSeg.dist \/ c.nearSeg = NoNode

(* The condition under which the loop over the items remembers n. *)
Nearer(c, n) == c.nearSeg = NoNode \/ n.dist < c.nearSeg.dist

ReadItemCount(p) ==
    LET c == calls[p] IN
    /\ c.at = "node"
    /\ calls' = [calls EXCEPT ![p] =
          [c EXCEPT !.at = "items", !.left = ReadAt(c).value, !.last = 0,
                    !.nearSeg = NoNode, !.addr = ReadAt(c).addr]]
    /\ UNCHANGED <<makeVars, done, pool, queue>>

ReadItem(p) ==
    LET c == calls[p]
        item == ReadAt(c).value + c.last
        seg == [kind |-> qseg, dist |-> DistToSegment(c.center, item),
                pos |-> item, bounds |-> SegmentRectAt(series, item)]
    IN  /\ c.at = "items" /\ c.left > 0
        /\ calls' = [calls EXCEPT ![p] =
              [c EXCEPT !.left = @ - 1, !.last = item, !.addr = ReadAt(c).addr,
                        !.nearSeg = IF Nearer(c, seg) THEN seg ELSE @]]
        /\ UNCHANGED <<makeVars, done, pool, queue>>

EndItems(p) ==
    LET c == calls[p] IN
    /\ c.at = "items" /\ c.left = 0
    /\ queue' = IF c.nearSeg = NoNode THEN queue
                ELSE [queue EXCEPT ![c.q] = @ \cup {c.nearSeg}]
    /\ calls' = [calls EXCEPT ![p] =
          [c EXCEPT !.at = IF At(c.data, c.addr) = 1 THEN "quads" ELSE "pop",
                    !.addr = @ + 1, !.i = 0]]
    /\ UNCHANGED <<makeVars, done, pool>>

PastQuad(c) == [c EXCEPT !.i = @ + 1, !.at = IF c.i = 3 THEN "pop" ELSE @,
                         !.addr = ReadAt(c).addr + ReadAt(c).value]

PassEmptyQuad(p) ==
    LET c == calls[p] IN
    /\ c.at = "quads" /\ ReadAt(c).value = 0
    /\ calls' = [calls EXCEPT ![p] = PastQuad(c)]
    /\ UNCHANGED <<makeVars, done, pool, queue>>

PushQuad(p) ==
    LET c == calls[p]
        qbounds == QuadBounds(c.bounds, c.i)
        nearRect == [kind |-> qrect, dist |-> DistToRect(c.center, qbounds),
                     pos |-> ReadAt(c).addr, bounds |-> qbounds]
    IN  /\ c.at = "quads" /\ ReadAt(c).value # 0
        /\ queue' = [queue EXCEPT ![c.q] = @ \cup {nearRect}]
        /\ calls' = [calls EXCEPT ![p] = PastQuad(c)]
        /\ UNCHANGED <<makeVars, done, pool>>

(* distToSegment or distToRect panics: what has been pushed up to there    *)
(* stays in the queue.                                                     *)
Panic(p) ==
    LET c == calls[p] IN
    /\ \/ c.at = "items" /\ c.left > 0
       \/ c.at = "quads" /\ ReadAt(c).value # 0
    /\ calls' = [calls EXCEPT ![p].at = "unwind"]
    /\ UNCHANGED <<makeVars, done, pool, queue>>

(* The node that q.pop takes. *)
Least(q) == CHOOSE n \in queue[q] : \A m \in queue[q] : Cmp(n, m) <= 0

(* A slip: the rectangle is looked at, not taken out. *)
PeekRect(p) ==
    LET c == calls[p] IN
    /\ c.at = "pop" /\ queue[c.q] # {} /\ Least(c.q).kind = qrect
    /\ calls' = [calls EXCEPT ![p].at = "node", ![p].addr = Least(c.q).pos,
                              ![p].bounds = Least(c.q).bounds]
    /\ UNCHANGED <<makeVars, done, pool, queue>>

PopRect(p) ==
    LET c == calls[p] IN
    /\ c.at = "pop" /\ queue[c.q] # {} /\ Least(c.q).kind = qrect
    /\ queue' = [queue EXCEPT ![c.q] = @ \ {Least(c.q)}]
    /\ calls' = [calls EXCEPT ![p].at = "node", ![p].addr = Least(c.q).pos,
                              ![p].bounds = Least(c.q).bounds]
    /\ UNCHANGED <<makeVars, done, pool>>

(* The call returns a segment, and its deferred function puts the queue    *)
(* back.                                                                   *)
PopSegment(p) ==
    LET c == calls[p] IN
    /\ c.at = "pop" /\ queue[c.q] # {} /\ Least(c.q).kind = qseg
    /\ queue' = [queue EXCEPT ![c.q] = @ \ {Least(c.q)}]
    /\ calls' = [calls EXCEPT ![p].at = "put",
          ![p].res = Result(Least(c.q).pos, Least(c.q).pos, Least(c.q).dist)]
    /\ UNCHANGED <<makeVars, done, pool>>

PopNothing(p) ==
    /\ calls[p].at = "pop" /\ queue[calls[p].q] = {}
    /\ calls' = [calls EXCEPT ![p].at = "put",
                              ![p].res = Result(-1, -1, NaN)]
    /\ UNCHANGED <<makeVars, done, pool, queue>>

PutQueue(p) ==
    /\ calls[p].at \in {"put", "unwind"}
    /\ pool' = pool \cup {calls[p].q}
    /\ calls' = [calls EXCEPT
          ![p].at = IF @ = "put" THEN "returned" ELSE "panicked",
          ![p].q = NoQueue]
    /\ UNCHANGED <<makeVars, done, queue>>

-----------------------------------------------------------------------------
Step(p) ==
    \/ ScanStep(p) \/ ScanReturn(p) \/ ScanPanic(p)
    \/ \E q \in Queues : GetQueue(p, q)
    \/ ReadItemCount(p) \/ ReadItem(p) \/ EndItems(p)
    \/ PassEmptyQuad(p) \/ PushQuad(p) \/ Panic(p)
    \/ PopRect(p) \/ PopSegment(p) \/ PopNothing(p) \/ PutQueue(p)

Make == MakeStep /\ UNCHANGED nearbyVars

NearbyNext ==
    \/ Make
    \/ \E p \in Procs : Step(p) \/ \E center \in Centers : Begin(p, center)

NearbySpec == NearbyInit /\ [][NearbyNext]_nearbyAllVars

(* Every goroutine that is in a call keeps being scheduled, and distance   *)
(* functions return or panic.                                              *)
FairNearbySpec ==
    /\ NearbySpec
    /\ WF_nearbyAllVars(Make) /\ \A p \in Procs : WF_nearbyAllVars(Step(p))

-----------------------------------------------------------------------------
InTree == {"node", "items", "quads", "pop", "put", "unwind"}

(* A queue in use belongs to one call and is not in the pool, so that no   *)
(* two goroutines ever push to and pop from the same slice.                *)
QueueOwned ==
    \A p \in Procs : calls[p].q # NoQueue =>
        /\ calls[p].q \notin pool
        /\ \A o \in Procs : calls[o].q = calls[p].q => o = p

(* Between two pops the queue bounds everything not looked at yet: each    *)
(* segment has an entry in it that comes no later than the segment would,  *)
(* by distance and, at the same distance, by kind and number.              *)
QueueBoundsAll ==
    \A p \in Procs : calls[p].at = "pop" =>
        \A item \in Items : \E n \in queue[calls[p].q] :
            Cmp(n, [kind |-> qseg, pos |-> item,
                    dist |-> DistToSegment(calls[p].center, item)]) <= 0

(* A call returns a nearest segment, and of several the one with the least *)
(* number: the index does not change which segment DistanceToSeries finds, *)
(* whatever was left in the queue it uses.  Only a series without segments *)
(* has none.                                                               *)
FindsNearest ==
    \A p \in Procs : calls[p].at = "returned" =>
        LET seg == calls[p].res.seg
            dist(item) == DistToSegment(calls[p].center, item)
        IN  IF Items = {} THEN seg = -1 /\ calls[p].res.dist = NaN
            ELSE /\ seg \in Items /\ calls[p].res.dist = dist(seg)
                 /\ \A item \in Items :
                       \/ dist(seg) < dist(item)
                       \/ dist(seg) = dist(item) /\ seg <= item

(* Every call ends, by returning or by a panic, and gives its queue back.  *)
CallsEnd ==
    \A p \in Procs :
        calls[p].at \in InTree \cup {"scan", "get"}
            ~> calls[p].at \in {"returned", "panicked"}
=============================================================================
