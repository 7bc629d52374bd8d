# Verification of tidwall/geometry

`geometry` is a Go library of plane geometry: points, rectangles, segments,
lines, rings and polygons, with *contains*, *intersects* and *nearest* queries.
It persists nothing, sends no messages and starts no goroutines. What makes it
hard is

* geometry at its edges: points on vertices, collinear and coincident segments,
  segments on a quad's border;
* a recursive quadtree built by an insert that splits nodes while it runs,
  written into a byte slice in a variable-length code, and read back with a
  cursor by searches that call a client's function at every hit;
* a pool of priority queues shared by all goroutines of the process, returned by
  a deferred function, after a panic too;
* loops whose index goes back (`Line.ContainsLine`);
* queries that pass a question on from kind to kind, swap their arguments and take
  shortcuts over rectangles, so that an error of one appears as an answer of
  another.

This directory has TLA+ modules of these parts, TLC runs and TLAPS proofs.
`PROJECT.json` gives the source lines behind every definition, the runs, the
mutants that show that each property can fail, the hazards and the findings.

## Inventory

| Part | State | Operations | Used by | Modules |
|---|---|---|---|---|
| Segment predicates (`segment.go`, `raycast.go`) | none | Rect, CollinearPoint, ContainsPoint, ContainsSegment, IntersectsSegment, Raycast | everything | `Planar`, `SegmentCalls` |
| Rect, Point (`rect.go`, `point.go`) | none | contains and intersects of each kind, Move; a Rect is also a ring of four segments | searches, rings, clients | `Planar` (the predicates), `RingQueries` (a Rect as a ring), `Geometry` |
| Series (`series.go`) | points, closed | Empty, NumSegments, PointAt, SegmentAt | everything | `Series` |
| processPoints (`series.go`) | loop: rect, cwc, dir, concave | rectangle, winding and convexity of a series | makeSeries | `ProcessPoints` |
| Quadtree (`qtree.go`) | nodes: items, quads, split | insert, chooseQuad, quadBounds | buildIndex | `QuadTree` |
| Index encoding (`qtree.go`, `series.go`) | the index bytes | appendUvarint, readUvarint, compress, setCompressed | searches | `Codec` |
| Making and moving (`series.go`) | series, index, indexKind | makeSeries, buildIndex, Move | clients | `MakeSeries` |
| Range search (`series.go`, `qtree.go`) | cursor, recursion, iter's answer | Search, qCompressSearch | rings, lines, clients | `Search`, `TreeSearch` |
| Nearest segment (`series.go`, `qtree.go`) | qpool, a queue per call | DistanceToSeries, qCompressNearbySegment | clients, concurrently | `Nearby` |
| Priority queue (`queue.go`) | a slice of nodes | push, pop | nearest segment | `QNode`, `Queue`, `NodeBag` |
| Line (`line.go`) | segIdx, i | ContainsLine; ContainsPoint, ContainsPoly, IntersectsLine, dispatch, Move | clients | `LineContains` (ContainsLine), `Geometry` |
| Ring (`ring.go`) | iter's captured variables | ringContainsPoint, -Segment, -Ring, -Line; ringIntersects... | Line, Poly, Rect | `RingQueries`, `Ring` (points and segments, step by step) |
| Poly (`poly.go`) | exterior, holes | ContainsPointEx, contains and intersects of each kind, Move | clients | `Geometry`, `GeometryCalls` |
| Geometry (`geometry.go`) | | the interface of the four kinds | clients | `Geometry` |
| US states (`states.go`) | | test data as literals | | none |

Interaction: `makeSeries` runs `processPoints` and, if the options ask for it,
`buildIndex`, which inserts all segments into a tree within the rectangle that
`processPoints` found, and encodes the tree. `Search` and `DistanceToSeries` read
the encoding only. `DistanceToSeries` takes a `queue` from `qpool`. Everything
else is a combination of searches and segment predicates.

What makes each part correct, in one line: the predicates agree with their
geometric meaning on every input, degenerate ones included; the rectangle holds
every segment (or the tree would lose some); each segment is in exactly one node
of the tree and inside its bounds (or a search would prune or repeat it); the
reader of the index ends each node where the writer did; a search calls iter for
exactly the hits, once each, never again after a stop; the nearest segment is
that of a scan, in any interleaving; every call ends; a geometry contains or
intersects another iff the sets of points they cover do, wherever both have been
moved to.

## Modules

All coordinates are integers. On the small grids the runs use, each comparison
the float64 code makes has the outcome of exact arithmetic (`Planar` says why).
Rounding, NaN and infinite coordinates are outside the model, with one exception:
a quad's midpoint is rounded down to the grid, so a quad may be as degenerate as
two adjacent float64 numbers make it.

* `Planar`: points, rectangles and segments and their predicates. `Raycast` keeps
  the code's case analysis; the move by `math.Nextafter` is a half-open range.
* `PlanarReference`: what the answers are compared with: being on a segment, below
  one, having a point in common with one, by orientation. `PlanarProofs` has the
  lemmas about the predicates that the other proofs use.
* `SegmentCalls`: the segment queries as a client calls them. `GeometryProofs`.
* `Series`: the four functions that say what the segments of a series are.
* `ProcessPoints`: the loop of `processPoints`, one step per point, with its
  accumulators as variables. `MCProcessPoints`, `ProcessPointsProofs`.
* `QNode`, `Queue`, `NodeBag`: `cmp`; push and pop with one step per turn of
  their loops; the multiset they implement. `Queue` has the refinement
  mapping. `MCQueue`, `QueueProofs`.
* `QuadTree`: `buildIndex`'s loop and `insert`. The recursion is a stack of
  frames; a split is a loop in a frame of its own, below the inserts it makes.
  `MCQuadTree`, `QuadTreeProofs`.
* `Codec`: writing and reading the index. `Radix` is 128 in the code. Numbers,
  nodes and the items of a node are recursive functions of what is written, so that
  they can be checked and proved about alike; `Sorted` places each item by its rank.
  `QuadTreeProofs` has the lemmas about what is read back.
* `MakeSeries`: composes `QuadTree` and `Codec` into the life of a series: made,
  indexed or not, moved.
* `Search`: what a search promises, without trees: iter is called for the matching
  segments, each once and in any order, until it says stop or none is left, and
  the search ends.
* `TreeSearch`: composes `MakeSeries` with one client that searches. Each step
  reads one number of the index or visits one segment; `frames` is the recursion
  of `qCompressSearch`. iter may stop at every hit. It implements `Search`
  (`ImplementsSearch`): the mapping takes a search to be over when iter has said
  stop, before the recursion has returned. `MCTreeSearch`,
  `IndexProofs`.
* `Nearby`: composes `MakeSeries` and `QNode` with several goroutines that call
  `DistanceToSeries` on one series. A step is one read or one pop; steps of
  different goroutines interleave. Distance functions may panic at any call.
  The queue is a set ordered by `Cmp`, which the run `queue` justifies.
  `MCNearby`, `IndexProofs`.
* `LineContains`: `Line.ContainsLine`, one step per turn of either loop.
  `MCLineContains`, `LineContainsProofs`.
* `RingQueries`: the functions of `ring.go` as operators, over a scan of the
  edges: points, segments, rings and lines, with the shortcut for rings of
  `ComplexRingMinPoints` (16 in the code) points, and a Rect as a ring.
  `NewSeries` is a series as `makeSeries` leaves it, without its index.
* `Ring`: `ringContainsPoint`, `ringContainsSegment` and `ringIntersectsSegment`.
  A search calls back in any order, one step per callback where the callback
  keeps state; the search that only asks whether an edge is crossed is one step,
  since its order cannot matter. That is the promise of `Search`, which
  `TreeSearch` implements. `AnyOrder` compares the answers with those of
  `RingQueries`, where the order is that of a scan. `MCRing`, `RingProofs`.
* `Geometry`: the methods of Point, Rect, Line and Poly as operators on the four
  kinds; each operator is one method, or the methods of one kind that do the same.
* `GeometryCalls`: composes `Geometry` and `SegmentCalls` with a client that makes
  two geometries, moves the first one any number of times within `MaxOffset`, and
  asks. `MCGeometryCalls`, `GeometryProofs`.

Operators commented "a slip" are wrong variants of the definition that follows;
nothing uses them but the mutants listed in `PROJECT.json`.

## Runs

| Run | Instance | What it shows |
|---|---|---|
| `geometry` | 45 points, rectangles, lines and polygons of a 7 x 7 grid, each pair, five offsets (the first one moved or not); all pairs of segments of a 4 x 4 grid | Intersects is exact for every pair, touching or not, but for lines on top of each other; Contains is exact where the property says so and has a corner outside only with a ring of many points whose rectangle is misjudged; both are exact for wrongly marked polygons but for stated exceptions; moving one geometry is moving the other one back; the hole index is right; Raycast is exact and half open, IntersectsSegment right but for one configuration |
| `segment_overlap` | the segments of `geometry` | **finding**: that configuration contradicts a comment |
| `queue` | 5 nodes with ties in distance, kind and position, up to 6 queued | heap order between and within calls, pop takes a least node, the heap is a multiset, calls return |
| `process_points` | every open and closed series of up to 4 points of a 3 x 3 grid | the rectangle covers and is tight, the winding is the sign of the area, convex is "all turns one way" |
| `convex_ring` | rings of 4 points and the first one again | **finding**: `convex` may be wrong for them |
| `quad_tree` | all series of 6 points of 4, QMaxItems 2, QMaxDepth 2 | bounds, one holder per segment at every step, leaves fit, splits do not nest, builds end |
| `tree_search` | series of 2 to 4 points, with and without an index, one move, Radix 2 | the cursor stays inside, nodes end where they should, nothing after a stop, and the abstract search is implemented: exactly the hits, once, and an end |
| `nearby` | 2 goroutines, 2 queues, closed series of 2 and 4 points, with fairness | a queue has one owner, bounds what is unseen, the answer is the scan's, with ties and after panics; every call ends and gives its queue back |
| `line_contains` | lines of up to 4 points, others of up to 3 and some of 4, on 3 x 2 points | along a simple line, lines that follow it are answered true, and another line only if it first leaves a segment between its ends |
| `line_loops` | same lines | **finding**: an endless loop |
| `ring` | 13 rings, convex, concave, wrongly marked convex, with straight corners, closed twice, empty; all segments of a 4 x 4 grid and some across the wider ones | the point test is the even-odd rule in any order; containment without edges and intersection with edges are exact; the other two are exact but for configurations at vertices, stated in the properties; the order of the search does not matter |
| `ring_shortcut` | the 12 rings that are marked rightly | **finding**: one of those configurations contradicts a comment |

The reference for `ring` is independent of the code: a segment is cut where it
meets an edge, and each cut and each midpoint of two cuts is classified with an
upward ray (the code's goes to the right) in exact fractions.

The reference for `geometry` is a set of points for each geometry. All sides lie in
one of four directions through integer points (an assumption TLC evaluates), so
the plane falls into pieces each of which has a point of the quarter grid, and
comparing these points is comparing the geometries. Whether a point of the quarter
grid is in a ring is told by an upward ray.

Bounds. The grids are the smallest on which the configurations the code
distinguishes exist: 4 x 4 for a segment strictly inside another and for slanted
crossings off the grid. Six nodes are a heap of three levels, so a sift passes
more than one node and meets a node with one child. With QMaxItems 2 and
QMaxDepth 2, six segments split the root and a quad, reach the depth limit with
coincident segments and overflow it. In `tree_search` and `nearby` QMaxItems is
1, so that four segments make a tree of three levels, and a small Radix makes
counts, differences and lengths take several bytes. In `geometry` six
points are many, so that polygons of the grid take the shortcut for complex rings;
a 7 x 7 grid has a polygon in a hole in a polygon, none touching. `MaxOffset` 1
moves geometries onto, off and across each other. `MaxMoves`, `MaxCalls`,
`Queues`, `MaxSize` bound what the code does not bound: one move shows a new
series with another rectangle, options and index; two calls on two queues show
a queue reused after a return and after a panic; the queues of a third goroutine
would be no different.

Deadlock is checked where clients go on for ever (`geometry`, `queue`,
`tree_search`); a single call or a bounded number of them really ends.

Fairness is weak fairness of the steps of a call or a build in progress. The code
runs on its caller's goroutine, which the Go scheduler keeps running, and client
functions are assumed to return or panic. No client is obliged to call.

## Findings

1. `Segment.IntersectsSegment` answers false for a segment strictly inside a
   collinear one, `(1,0)-(2,0)` and `(0,0)-(3,0)`; with the arguments exchanged it
   answers true. The comment in `segment.go` says "Lines are collinear, and so
   intersect if they have any overlap". The property `IntersectsExactly` shows
   that this is the only configuration missed.
2. `processPoints` never tests the corner at the first point of a ring that
   repeats that point at its end: `(1,1),(0,0),(1,2),(2,0),(1,1)` is concave and
   reported convex. The comment at `Convex` says it "returns true if the points
   create a convex loop or linestring". A ring with such a mark is answered for
   from the ends of a segment and the corners of a ring (`ring.go:100`), so
   `ringContainsSegment` and a polygon with such an exterior may answer true for
   what leaves the ring, and a polygon with such a hole may be said to contain, or
   not to intersect, what only has its corners in the hole. `ContainsStrictly`,
   `ContainsOffVertices`, `ContainsExactly` and `MeetsExactly` say so, and the
   runs have such rings (`ClosedVee`).
3. `Line.ContainsLine` never returns for `(0,0),(0,1),(1,1)` and
   `(0,0),(0,1),(1,0)`: at the inner point each neighbour sends the loop to the
   other one.
4. `ringContainsSegment` with edges allowed answers true for a segment that ends
   at a vertex and has its other end on the ring: `(0,0)-(3,0)` runs outside the
   ring `(0,0),(1,1),(3,0),(1,3)`. The comment of the case says "determine if the
   space that the seg passes over is inside or outside of the ring".

Observed as well, in configurations the repository's comments and tests do not
speak of; the properties state them as exceptions where they concern an answer:

* Without an index `DistanceToSeries` returns `idx` 0 whatever it found.
* `Move` makes the new series with the default options, so a series made with
  `NoIndexing` may have an index after a move. Options of kind `None` with
  `MinPoints` other than 0 build an index.
* `Line.ContainsLine` passes over a segment that leaves the line between two of
  its points: `(0,0),(2,0)` is said to contain `(0,0),(1,0),(1,1)`.
  `CoveredUnlessLeaving` says that along a line that does not touch itself this is
  the only way to be accepted first without being covered, and that a last segment
  which leaves like that after covered ones is never refused.
* With edges not allowed `ringIntersectsSegment` answers false for `(0,1)-(1,1)`
  in the ring `(0,0),(3,0),(3,1),(1,1),(1,3),(0,3)`, which passes through the
  inside: the edge in its line is skipped and one edge at its end is forgiven. A
  segment that touches a ring from outside with both ends, or in a vertex it
  passes, intersects it (`IntersectsStrictly`).
* With edges allowed a segment that leaves a ring at one vertex and comes back at
  another may be contained, and one that runs along an edge and on into the ring
  may not be (`ContainsOffVertices`).

* A polygon contains another that fills its hole exactly (`poly_test.go` expects
  that): the edges of the two are the same, and only edges are compared with holes.
  Where a corner of one polygon is on the other, a polygon with holes or with a
  concave exterior may also be said not to contain what it covers
  (`ContainsExactly` is about the other cases).
* A polygon of 16 points or more is contained if its rectangle is. By the shortcut
  of finding 4 the rectangle may be said to be when it is not, and then the polygon
  is, although it touches the other one nowhere and has a corner outside: `Vee` and
  `Gem` of `MCGeometryCalls`, where six points are many. A wrongly marked exterior
  does the same (`ClosedVee` and `HighHexagon`); `CornersCovered` says that a corner
  is outside in these two cases only. The comment at the
  shortcut says "inner ring has a lot of points, and is convex"; the code does not
  ask for that, and need not.
* `Line.IntersectsLine` looks at the segments of the line with fewer points, so by
  finding 1 a line inside a segment of another is missed (`MeetsExactly`).
* A line contains a polygon or a rectangle only if that lies on one of its
  segments, level or upright: `(1,1),(2,1),(3,1)` does not contain the rectangle
  from `(1,1)` to `(3,1)`.

## Proofs

TLAPS checks the theorems for every value of the constants: any coordinates, any
series, any number of segments and goroutines, any `QMaxItems` and `QMaxDepth`,
any set of nodes. 28 theorems in eight modules; each states a property that a run
checks on a small instance: `PopsLeast` and `StopIsFinal` are about steps,
`ImplementsNodeBag` and `ImplementsSearch` are refinements, the others invariants.

**Segments** (`PlanarProofs`, `GeometryProofs`). `RaycastIsExact` and
`IntersectsIsExact`. The code compares quotients, the reference orientations; the
lemmas of `PlanarProofs` lead from one to the other over vectors from a common
origin (a fraction between 0 and 1 of a range lies in the range, two ranges meet
iff an end of one lies in the other), so that the nonlinear part of each leaf is
one product with a known sign. Everything below that is about geometry rests on
these lemmas.

**Rings** (`PlanarProofs`, `RingProofs`). `PointIsExact` compares the ray to the right, which the
code casts within the row the search finds, with the upward ray of the reference.
A ring that goes round a point enters and leaves the quadrant between the two rays
equally often. An edge that misses the point enters or leaves the quadrant iff it
crosses just one of the rays (`EdgeRays`, over the signs of the four coordinates
and of the cross product), so both rays cross equally many edges up to an even
number (`EvenOdd`, by a least number of edges for which it fails). The inductive
invariant says what a search has found out half way: `in` is the parity of the
edges visited, none of which holds the point. `OrderIsIrrelevant` says that
`ringContainsSegment` and `ringIntersectsSegment` answer what a scan answers. The
search decides which edge is reported for an end at a vertex, and which edge is
forgiven there. The first makes no difference, because an end that lies on two
edges is then an end of both and the vertex rule applies. For the second the
invariant keeps a `Tally`: *some* choice of one edge at each end explains the
count; all choices leave equally many edges, and a search that stops early has
counted no more than there are. The theorem asks that the ring be convex or that
its edges only meet at their ends, which all rings of the run do; a ring that
crosses itself in the middle of an edge has no vertex there, and the reported edge
does matter. The part about `ringIntersectsSegment` does not use it.

**Polygons** (`GeometryProofs`). `HolesAreExact`: `ContainsPointEx` of a polygon
that has been moved any number of times says where the point is, moved back, in the
polygon that was made. By `ScanIsRight`, which rests on `EvenOdd`, each ring tells
where the point is; a move takes the edges of a ring along and leaves every
orientation and range as it was (`ShiftedPlace`), and so does the scale of the
reference (`QuartersPlace`). A point in or on a ring is in the range of its corners,
in x because an edge is above it and in y because one is to the right of it, so that
the grid of the reference has it (`PlaceInGrid`). The invariant `Tracked` says that
the geometry asked is the one made, moved by `call.by`. Of the assumptions on
`Geometries` the proof uses their kinds and the range of their corners, not the four
directions of their sides, and nothing about rings that cross themselves or others.

**Move** (`GeometryProofs`). `MovesAreRelative`: `Contains` and `Intersects` answer
of a geometry that was moved what they answer where it was made of the other one
moved back. The lemmas go through every query from below: a predicate on segments
or rectangles depends on differences of coordinates only (`MovedRaycast` to
`MovedSegmentRect`); series that are `Alike`, one the other moved, with the same
convexity and winding, have the same answers to each query of `ring.go`, walk,
count and vertex rule included (`AlikeEdges` to `AlikeIntersectsLine`); so have
geometries that are the `Same`, of all pairs of kinds (`SameAnswers`). What is left
is that `processPoints` finds of moved points what it found before
(`NewSeriesMoved`): each turn is the same, a sum of trapezoids differs by twice the
y of the move times the x it has come from the first point (`CwcMoved`), which is
nothing once it is round, and the rectangle is moved. A `Rect` taken for a ring is
what `processPoints` makes of its five corners (`RectRingMade`), so a move that
makes it a series changes nothing; this needs the rectangle the right way round,
which with the rest of what is used of the client's series is `MadeAssumption`. The
invariant `Carried` adds to `Tracked` that the geometry asked and the one made are
the `Same`. Two lines that are asked for `Contains` are left to `LineContains`, as
in the model.

**processPoints** (`ProcessPointsProofs`). `LoopHoldsPoints`, `RectHoldsSegments`,
`RectIsTight`: the rectangle holds the points passed and each side goes through
one of them; `Inflate` has an `else if`, so that this needs the rectangle not to be
inverted. `RectHoldsSegments` is about segments, with the closing one.
`ClockwiseIsTheArea`: after k turns the sum of trapezoids, closed with the one from
the k-th point back to the first, is the fan of triangles from the first point
(`LoopArea`).

**Quadtree** (`QuadTreeProofs`). `SegmentsWithinBounds`: the step that matters is
that `chooseQuad` and `quadBounds` agree: a rectangle within the bounds that is
given quad q lies in q's bounds (over the integers with rounded midpoints). The
inductive invariant adds that bounds are ordered, that items a split keeps are
within the node, and that the root's bounds are the series' rectangle. It rests
on `RectAssumption`, which is what `RectHoldsSegments` proves of a series.
`SplitsAreShallow`, `LeavesAreSmall`: while a node is split its quads together
have at most as many segments as the loop has passed, at most QMaxItems, so none
of them is full before the split ends. `SegmentsHeldOnce`: the places a segment can
be in are the nodes' items, the items a split has yet to look at or keeps, and
the item a call carries. Each step moves one segment from one place to another
(`Once` adds that a segment not yet inserted is nowhere and that a call which has
not begun a split keeps nothing). `TreeTypeOK` is the type invariant.

**Index encoding** (`QuadTreeProofs`, the second half). What is read is what was
written. A recursive function of `Codec` is shown to satisfy its own equation by a
least number (of a value, of nodes from the end of the tree) for which there is no
such function. Then: `ReadUvarint` reads each number that `Uvarint` wrote and ends
where it did, if it takes at most ten bytes (`ReadsBack`), which numbers below 2^32
do (`LimitShort`); the items of a node are found in ascending order from the
differences of the sorted items (`ReadsItem`); the flag is followed by nothing or by
four quads, each a 0 or a length, not 0, and that many bytes (`ReadsFlag`,
`ReadsQuad`); the header has the length of the index (`ReadsIndex`). `Lies(d, a, b, e)`
says that the bytes b are those of d from a up to e, and every lemma takes it from one
part of a node to the next.
A finished build is a tree (`BuiltTreeOf`, in `IndexProofs`): every node but the
root is one quad of one node, every segment is in one node, and the bounds are those
the searches compute with `quadBounds`. What is below a node is its own items
and what is below its quads, disjointly (`UnderIs`), and lies within its bounds
(`UnderWithin`).

**Queue** (`QueueProofs`). The heap order does not hold while a node sifts. The
inductive invariant is the type invariant with `LoopOrder`: during push, all pairs
but the one of the new node and its parent are in order, and the new node's
children are in order with its parent; during pop the same for the moved node and
its children. Between the calls this is `HeapOrder`. That the root is then least
(`PopTakesLeast`) takes a minimal counterexample, a position of least index that
is below the root. `HeapIsBag` is the refinement: the mapping sends the slice to
the bag of its nodes, initial states to the empty bag, push and pop to those of
`NodeBag`, and every turn of a loop, which swaps two places, to a stutter.

**Line.ContainsLine** (`LineContainsProofs`). `AnswerIsKnown`. The invariant
`Followed` says, along a line that does not touch itself: while all segments of the
other line so far are covered, the point to go on from is on the current segment of
the line, and each segment passed was `Accepted`, covered or leaving, if those
before it are covered. What has to be shown is that a segment which the loop passes
over, or refuses past an end of the line, is not covered by some *other* segment of
the line. `Simple` is stated with the code's predicates; `CommonPoint` and
`FoldedBack` turn it into orientations: two neighbouring segments share only their
joint, two others nothing (`SimplePair`). So a point between the ends of a segment is
on no other (`SimpleOnce`), and an end of the line is on its first or last segment
only (`SimpleApart`). The other line and what follows after its first segment that
is not covered are not restricted. That the call returns at all is not part of the
theorem (finding 3).

**Searches of the index** (`IndexProofs`). `StopStops`: when a call of
`qCompressSearch` returns, the one it returns to has just made it and looks at the
answer before anything else (`Unwinding`, over the recursion as a sequence of
frames of any length).

`CursorsInside`, `EndsMeet` and `SearchKeepsPromise` rest on one invariant,
`SearchInv`. `MakeInv` says that a finished index is that of a tree of the series,
made or moved. `Walks` gives each frame of the recursion a node: the rest of the
node's bytes, from what the frame is about to read, lies from its cursor to where
the frame below it goes on, or to the end of the index (`Good`). From what is left of
the node follows which segments the frame has ahead of it (`Pending`). `Accounts`
says that no two frames have a segment ahead in common, that none of them has been
given to iter, and that every segment that matches has been given to iter or is
ahead of a frame. Each step moves one segment, or a subtree, from one of these places
to another; a quad that is passed over has nothing that matches, because what is
below it lies within its bounds. When the last frame returns without a stop, nothing
is ahead, so everything that matches has been found. With `Promised!Ends`, that
searches end, as a hypothesis this is the refinement of `Search`; the run
`tree_search` checks the refinement with that hypothesis discharged by fairness.

**Nearest segment** (`IndexProofs`). `QueuesNotShared`: a call has a queue exactly
from `qpool.Get` to the deferred `qpool.Put`, a panic included, and a queue is in
the pool or has one owner (`Owning`). It rests on `QueuesAssumption`, that "no
queue" is not a queue.

`QueueBounds` and `NearestFound`: the invariant `NearInv` says of each call that
reads an index that it stands on a node, as a frame of a search does (`View`), and
that every segment is covered (`Covered`): it is below a node in the queue, it is
ahead in the node being read, or it comes no earlier than a segment in the queue or
than the nearest item read of the node. The queue is a set, and the code pushes
every quad, so a lost entry would be one equal to another; the invariant has the
bytes of the nodes in a queue disjoint (`Entries`), so that no two have one
position. When an entry for a segment is first, all segments come no earlier, since
a node is no farther than what is below it (`NodeNearer`), and a node at the same
distance as a segment comes first. `Owning` is what makes a step of one goroutine
leave the account of the others alone (`OthersGoing`).

These five theorems have the hypothesis `Fits`: the length of the index and the
number of segments are below `Uint32Limit`, which is 2^32 when Radix is 128. It is
what the code needs: `setCompressed` keeps the length in a `uint32`, and with a longer
index `data[:n:n]` would cut it short. All states of the runs satisfy it.

Where a proof needs induction over numbers it takes a least counterexample
(`LeastNatural`). Assumptions on constants are named in the modules that declare
them and are evaluated by TLC on the runs.

Only model-checked:

* `CallsReturn`, `BuildEnds`, `CallsEnd`, `CoveredIsTrue` and that a search ends,
  the hypothesis `Promised!Ends` of `SearchKeepsPromise`: liveness is out of the
  prover's reach.
* `ConvexExact`: the loop remembers one direction, the property speaks of all
  pairs of corners; for rings that repeat their first point it is false (finding 2).
* `ContainsStrictly`, `ContainsOffVertices`, `IntersectsWithEdge`,
  `IntersectsStrictly`: they say where all points of a segment are, which takes
  the Jordan curve theorem for polygons. `ContainsExactly`, `CornersCovered` and
  `MeetsExactly` speak of sets of points of a bounded grid.

## Not modelled

* Floating-point rounding, NaN and infinities: see above. A midpoint that
  overflows or an `Area` that rounds is outside the model.
* `copyPoints`, `RawPoints`: which slice a series keeps. No operation of the
  library writes to the points of a series.
* The length of an index beyond 32 bits.
* `Rect.Union`, `Rect.Center`, `Segment.Move`: nothing in the library depends on
  them.
* Rectangles with `Min` above `Max` and polygons whose sides cross or whose holes
  overlap: clients can make them, but what they cover is not defined.
* `states.go` (test data), tests and benchmarks.

## Plan

1. Done: every part of the library but those named above is modelled.
2. Done: every invariant that does not need the Jordan curve theorem, a point set on
   a grid or an exact convexity, the two action properties and the two refinements
   (of `Search` but for liveness) are proved.
3. Left: what is listed as only model-checked.
