----------------------------- MODULE TreeSearch -----------------------------
(***************************************************************************)
(* The searches of a series (series.go: Search; qtree.go:                  *)
(* qCompressSearch).  A search of an indexed series reads the index        *)
(* through a cursor; a series without an index is scanned.                 *)
(*                                                                         *)
(* qCompressSearch calls itself; frames is the stack of its calls, the     *)
(* innermost first.  A call that returns leaves its answer in ret.  The    *)
(* client's iter is any callback: at each segment it may go on or stop.    *)
(***************************************************************************)
EXTENDS MakeSeries

CONSTANT Targets      \* The rectangles searched for.

ASSUME TargetsAssumption == Targets \subseteq Rect

VARIABLES
    pc,               \* "idle", "scan", "tree" or "done".
    target,           \* The rectangle of the search.
    data,             \* The part of the index it reads.
    scanned,          \* The scan's loop index.
    frames,           \* The calls of qCompressSearch in progress.
    ret,              \* What iter, or the last of these calls, returned.
    hits              \* The items iter was called with, in order.

searchVars == <<pc, target, data, scanned, frames, ret, hits>>
allVars == <<makeVars, searchVars>>

NoRect == PointRect([x |-> 0, y |-> 0])

SearchInit ==
    /\ MakeInit
    /\ pc = "idle"
    /\ target = NoRect /\ data = <<>> /\ scanned = 0
    /\ frames = <<>> /\ ret = TRUE /\ hits = <<>>

-----------------------------------------------------------------------------
(* Search *)

Enter(addr, bounds) ==
    [at |-> "count", addr |-> addr, bounds |-> bounds, left |-> 0,
     last |-> 0, q |-> 0, qsize |-> 0]

CallScan(rect) ==
    /\ made /\ pc \in {"idle", "done"} /\ index = <<>>
    /\ pc' = "scan" /\ target' = rect /\ scanned' = 0
    /\ hits' = <<>> /\ ret' = TRUE
    /\ UNCHANGED <<makeVars, data, frames>>

CallTree(rect) ==
    /\ made /\ pc \in {"idle", "done"} /\ index # <<>>
    /\ pc' = "tree" /\ target' = rect /\ data' = Readable(index)
    /\ frames' = <<Enter(HeaderLen, series.rect)>>
    /\ hits' = <<>> /\ ret' = TRUE
    /\ UNCHANGED <<makeVars, scanned>>

Hit(item) == RectIntersectsRect(SegmentRectAt(series, item), target)

ScanSkip ==
    /\ pc = "scan" /\ scanned < NumSegments(series) /\ ~ Hit(scanned)
    /\ scanned' = scanned + 1
    /\ UNCHANGED <<makeVars, pc, target, data, frames, ret, hits>>

ScanVisit ==
    /\ pc = "scan" /\ scanned < NumSegments(series) /\ Hit(scanned)
    /\ hits' = Append(hits, scanned)
    /\ scanned' = scanned + 1
    /\ UNCHANGED <<makeVars, pc, target, data, frames, ret>>

ScanStop ==
    /\ pc = "scan" /\ scanned < NumSegments(series) /\ Hit(scanned)
    /\ hits' = Append(hits, scanned)
    /\ pc' = "done" /\ ret' = FALSE
    /\ UNCHANGED <<makeVars, target, data, scanned, frames>>

ScanEnd ==
    /\ pc = "scan" /\ scanned = NumSegments(series)
    /\ pc' = "done"
    /\ UNCHANGED <<makeVars, target, data, scanned, frames, ret, hits>>

-----------------------------------------------------------------------------
(* qCompressSearch *)

cur == frames[1]
Read == ReadUvarint(data, cur.addr)
Reading(at) == pc = "tree" /\ frames # <<>> /\ cur.at = at
Update(frame) == frames' = <<frame>> \o Tail(frames)
SameSeries == UNCHANGED <<makeVars, pc, target, data, scanned>>

ReturnWith(answer) == frames' = Tail(frames) /\ ret' = answer

ReadCount ==
    /\ Reading("count")
    /\ Update([cur EXCEPT !.at = "items", !.left = Read.value, !.addr = Read.addr])
    /\ UNCHANGED <<ret, hits>> /\ SameSeries

Item == Read.value + cur.last
PastItem == [cur EXCEPT !.left = @ - 1, !.last = Item, !.addr = Read.addr]

SkipItem ==
    /\ Reading("items") /\ cur.left > 0 /\ ~ Hit(Item)
    /\ Update(PastItem)
    /\ UNCHANGED <<ret, hits>> /\ SameSeries

VisitItem ==
    /\ Reading("items") /\ cur.left > 0 /\ Hit(Item)
    /\ hits' = Append(hits, Item)
    /\ Update(PastItem) /\ UNCHANGED ret
    /\ SameSeries

StopAtItem ==
    /\ Reading("items") /\ cur.left > 0 /\ Hit(Item)
    /\ hits' = Append(hits, Item)
    /\ ReturnWith(FALSE)
    /\ SameSeries

EndLeaf ==
    /\ Reading("items") /\ cur.left = 0 /\ At(data, cur.addr) # 1
    /\ ReturnWith(TRUE)
    /\ UNCHANGED hits /\ SameSeries

EnterQuads ==
    /\ Reading("items") /\ cur.left = 0 /\ At(data, cur.addr) = 1
    /\ Update([cur EXCEPT !.at = "quads", !.addr = @ + 1])
    /\ UNCHANGED <<ret, hits>> /\ SameSeries

InQuads == Reading("quads") /\ cur.q < 4
QBounds == QuadBounds(cur.bounds, cur.q)

EmptyQuad ==
    /\ InQuads /\ Read.value = 0
    /\ Update([cur EXCEPT !.q = @ + 1, !.addr = Read.addr])
    /\ UNCHANGED <<ret, hits>> /\ SameSeries

PruneQuad ==
    /\ InQuads /\ Read.value # 0 /\ ~ RectIntersectsRect(QBounds, target)
    /\ Update([cur EXCEPT !.q = @ + 1, !.addr = Read.addr + Read.value])
    /\ UNCHANGED <<ret, hits>> /\ SameSeries

EnterQuad ==
    /\ InQuads /\ Read.value # 0 /\ RectIntersectsRect(QBounds, target)
    /\ frames' = <<Enter(Read.addr, QBounds),
                   [cur EXCEPT !.at = "called", !.addr = Read.addr,
                               !.qsize = Read.value]>> \o Tail(frames)
    /\ UNCHANGED <<ret, hits>> /\ SameSeries

(* A slip: the cursor stays before the quad just searched. *)
ResumeBefore ==
    /\ Reading("called") /\ ret
    /\ Update([cur EXCEPT !.at = "quads", !.q = @ + 1])
    /\ UNCHANGED <<ret, hits>> /\ SameSeries

(* The call on the quad has returned true. *)
ResumeQuads ==
    /\ Reading("called") /\ ret
    /\ Update([cur EXCEPT !.at = "quads", !.q = @ + 1, !.addr = @ + cur.qsize])
    /\ UNCHANGED <<ret, hits>> /\ SameSeries

(* A slip: the quad's answer is ignored. *)
IgnoreStop ==
    /\ Reading("called") /\ ~ ret
    /\ Update([cur EXCEPT !.at = "quads", !.q = @ + 1, !.addr = @ + cur.qsize])
    /\ UNCHANGED <<ret, hits>> /\ SameSeries

PassStop ==
    /\ Reading("called") /\ ~ ret
    /\ ReturnWith(FALSE)
    /\ UNCHANGED hits /\ SameSeries

EndQuads ==
    /\ Reading("quads") /\ cur.q = 4
    /\ ReturnWith(TRUE)
    /\ UNCHANGED hits /\ SameSeries

TreeEnd ==
    /\ pc = "tree" /\ frames = <<>>
    /\ pc' = "done"
    /\ UNCHANGED <<makeVars, target, data, scanned, frames, ret, hits>>

-----------------------------------------------------------------------------
SearchStep ==
    \/ MakeStep /\ UNCHANGED searchVars
    \/ ScanSkip \/ ScanVisit \/ ScanStop \/ ScanEnd
    \/ ReadCount \/ SkipItem \/ VisitItem \/ StopAtItem \/ EndLeaf
    \/ EnterQuads \/ EmptyQuad \/ PruneQuad \/ EnterQuad
    \/ ResumeQuads \/ PassStop \/ EndQuads \/ TreeEnd

(* The series that takes the moved one's place has not been searched.      *)
MoveSeries(delta) ==
    /\ pc \in {"idle", "done"}
    /\ Move(delta)
    /\ pc' = "idle" /\ target' = NoRect /\ data' = <<>> /\ scanned' = 0
    /\ frames' = <<>> /\ ret' = TRUE /\ hits' = <<>>

SearchNext ==
    \/ SearchStep
    \/ \E rect \in Targets : CallScan(rect) \/ CallTree(rect)
    \/ \E delta \in Deltas : MoveSeries(delta)

(* Calls run on their callers' goroutines, which keep being scheduled, and *)
(* every iter returns; nobody is obliged to call.                          *)
SearchSpec == SearchInit /\ [][SearchNext]_allVars /\ WF_allVars(SearchStep)

-----------------------------------------------------------------------------
(* Every cursor stays on the index: no call of a search reads past the     *)
(* last byte, where data[addr] would panic.                                *)
CursorInside ==
    \A f \in DOMAIN frames :
        LET frame == frames[f]
            more == IF frame.at = "quads" /\ frame.q = 4 THEN 0
                    ELSE IF frame.at = "called" THEN frame.qsize ELSE 1
        IN  HeaderLen <= frame.addr /\ frame.addr + more <= Len(data)

(* A call that returns has read exactly the bytes compress wrote for its   *)
(* node: it ends where its caller goes on, the outermost at the end of the *)
(* index.  Otherwise the caller would take up in the middle of a number.   *)
ExtentsAgree ==
    (pc = "tree" /\ frames # <<>> /\ cur.at # "called") =>
        LET leaf == cur.at = "items" /\ cur.left = 0 /\ At(data, cur.addr) = 0
            quads == cur.at = "quads" /\ cur.q = 4
            past == IF leaf THEN cur.addr + 1 ELSE cur.addr
            end == IF Len(frames) = 1 THEN Len(data)
                   ELSE frames[2].addr + frames[2].qsize
        IN  (leaf \/ quads) => past = end

(* Once iter has returned false it is not called again by that search,     *)
(* however deep in the tree it was.                                        *)
StopIsFinal == [][~ ret /\ pc \in {"scan", "tree"} => hits' = hits]_allVars

(* A search is over as soon as iter has returned false, though the calls   *)
(* of qCompressSearch have yet to return.                                  *)
Promised == INSTANCE Search WITH
    at <- IF pc = "idle" THEN "idle"
          ELSE IF pc # "done" /\ ret THEN "going" ELSE "over",
    matching <- {item \in Items : Hit(item)}

(* A search, with an index or without and of a moved series too, calls     *)
(* iter for every segment whose rectangle meets the target, wherever the   *)
(* tree keeps it, never twice, for no other one, and ends.                 *)
ImplementsSearch == Promised!Spec
=============================================================================
