----------------------------- MODULE MakeSeries -----------------------------
(***************************************************************************)
(* The life of a series (series.go: makeSeries, buildIndex, setCompressed, *)
(* Move).  A series is made, with an index if its options ask for one: the *)
(* tree is built as QuadTree describes and written down as Codec           *)
(* describes.  Move makes another series of the moved points, which takes  *)
(* the place of the first here; it is made with the default options, and   *)
(* indexed in any case if the first one was.                               *)
(***************************************************************************)
EXTENDS QuadTree, Codec

CONSTANTS
    Options,          \* The IndexOptions a client uses: kind, minPoints.
    DefaultMinPoints, \* DefaultIndexOptions.MinPoints, 64 in the code.
    Deltas,           \* The distances (deltaX, deltaY) of moves.
    MaxMoves          \* Bound on the number of moves; the code has none.

ASSUME OptionsAssumption ==
    /\ Options \subseteq [kind : {0, 1}, minPoints : Nat]
    /\ DefaultMinPoints \in Nat /\ Deltas \subseteq Point /\ MaxMoves \in Nat

VARIABLES
    opts,             \* The options in use.
    made,             \* The series is ready to be used.
    index,            \* series.index; <<>> is nil.
    indexKind,        \* series.indexKind.
    from,             \* Of the series moved from: its indexKind, its index?
    moves             \* The number of moves so far.

makeVars == <<vars, opts, made, index, indexKind, from, moves>>

None == 0
DefaultIndexOptions == [kind |-> 1, minPoints |-> DefaultMinPoints]
NotMoved == [kind |-> None, indexed |-> FALSE]

Shift(p, delta) == [x |-> p.x + delta.x, y |-> p.y + delta.y]

(* A slip: the moved series keeps the old rectangle. *)
MovedStale(s, delta) ==
    [s EXCEPT !.points = [k \in DOMAIN s.points |-> Shift(s.points[k], delta)]]

(* The moved points and the rectangle processPoints finds of them, which   *)
(* is the moved rectangle (ProcessPoints: RectCovers, RectTight) or, with  *)
(* too few points, the zero rectangle it was before.                       *)
Moved(s, delta) ==
    [points |-> [k \in DOMAIN s.points |-> Shift(s.points[k], delta)],
     closed |-> s.closed,
     rect |-> IF Empty(s) THEN s.rect
              ELSE [min |-> Shift(s.rect.min, delta),
                    max |-> Shift(s.rect.max, delta)]]

MakeInit ==
    /\ Init
    /\ opts \in Options
    /\ made = FALSE /\ index = <<>> /\ indexKind = None
    /\ from = NotMoved /\ moves = 0

(* Whether makeSeries itself builds an index. *)
WantsIndex == opts.minPoints # 0 /\ Len(series.points) >= opts.minPoints

BuildStep ==
    /\ ~ made /\ (WantsIndex \/ from.indexed)
    /\ Next
    /\ UNCHANGED <<opts, made, index, indexKind, from, moves>>

(* The index of a series that is moved is written with the kind of the     *)
(* options if makeSeries builds it and with the old kind if Move does;     *)
(* the moved series has the old kind.                                      *)
FinishIndexed ==
    /\ ~ made /\ (WantsIndex \/ from.indexed) /\ Built
    /\ index' = SetCompressed(IF WantsIndex THEN opts.kind ELSE from.kind, nodes)
    /\ indexKind' = IF moves = 0 THEN opts.kind ELSE from.kind
    /\ made' = TRUE
    /\ UNCHANGED <<vars, opts, from, moves>>

FinishUnindexed ==
    /\ ~ made /\ ~ WantsIndex /\ ~ from.indexed
    /\ indexKind' = from.kind
    /\ made' = TRUE
    /\ UNCHANGED <<vars, opts, index, from, moves>>

Move(delta) ==
    /\ made /\ moves < MaxMoves
    /\ series' = Moved(series, delta)
    /\ next' = 0 /\ nodes' = <<NewNode(series'.rect, 0)>> /\ stack' = <<>>
    /\ opts' = DefaultIndexOptions
    /\ from' = [kind |-> indexKind, indexed |-> index # <<>>]
    /\ moves' = moves + 1
    /\ index' = <<>> /\ indexKind' = None
    /\ made' = FALSE

MakeStep == BuildStep \/ FinishIndexed \/ FinishUnindexed

MakeNext == MakeStep \/ \E delta \in Deltas : Move(delta)
=============================================================================
