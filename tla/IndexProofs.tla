----------------------------- MODULE IndexProofs -----------------------------
(***************************************************************************)
(* The two walks over an index, of any tree.                               *)
(*                                                                         *)
(* Search: an iter that has returned false is not called again by that     *)
(* search, however deep the recursion is at that point.  When a call of    *)
(* qCompressSearch returns, the one that goes on is in the loop over its   *)
(* quads, having called it, and looks at the answer.                       *)
(*                                                                         *)
(* No cursor leaves the index, calls end where their callers go on, and    *)
(* iter is called once for each segment that matches and for no other one. *)
(* The invariant, SearchInv: every call in progress stands on the bytes of *)
(* a node, at a place from which the rest of them says what it has ahead,  *)
(* and what matches has been found or is ahead of exactly one call.        *)
(*                                                                         *)
(* Nearest segment: however many goroutines ask for it at once, and        *)
(* wherever their distance functions panic, no two of them work on the     *)
(* same queue and none of them on a queue that is in the pool.  A call has *)
(* a queue exactly from qpool.Get to the deferred qpool.Put.               *)
(*                                                                         *)
(* What a call returns is the nearest segment.  The invariant, NearInv:    *)
(* every segment is below a node in the queue, is ahead in the node being  *)
(* read, or comes no earlier than a segment in the queue or than the       *)
(* nearest item of the node; and the nodes in the queue share no bytes, so *)
(* that two entries with one position are the same entry.                  *)
(***************************************************************************)
EXTENDS TreeSearch, Nearby, QuadTreeProofs

Called(s, k) == s[k].at = "called"

IsFrame(f) == "at" \in DOMAIN f

(* The outer calls wait for the inner ones.                                *)
Stacked(s) ==
    /\ \E S : s \in Seq(S) /\ \A f \in S : IsFrame(f)
    /\ \A k \in 2 .. Len(s) : Called(s, k)

(* A search whose iter returned false is unwinding.                        *)
Unwinding ==
    /\ Stacked(frames)
    /\ pc = "scan" => ret
    /\ (pc = "tree" /\ ~ ret /\ frames # <<>>) => Called(frames, 1)

(* Before a search there are no calls.                                     *)
LEMMA InitUnwinding == SearchInit => Unwinding
<1> SUFFICES ASSUME SearchInit PROVE Unwinding
    OBVIOUS
<1>1. <<>> \in Seq({}) /\ \A k \in 2 .. Len(<<>>) : FALSE
    OBVIOUS
<1>2. QED
    BY <1>1, Zenon DEF SearchInit, Unwinding, Stacked

(* The ways in which the stack changes: the innermost call goes on, it     *)
(* calls for a quad, or it returns.                                        *)
LEMMA Top ==
    ASSUME NEW s, Stacked(s), s # <<>>, NEW f, IsFrame(f)
    PROVE  Stacked(<<f>> \o Tail(s)) /\ <<f>> \o Tail(s) # <<>>
<1>1. PICK S : s \in Seq(S) /\ \A f1 \in S : IsFrame(f1)
    BY DEF Stacked
<1>2. <<f>> \o Tail(s) \in Seq(S \cup {f})
    BY <1>1
<1>3. \A k \in 2 .. Len(s) : (<<f>> \o Tail(s))[k] = s[k]
    BY <1>1
<1>4. Len(<<f>> \o Tail(s)) = Len(s)
    BY <1>1
<1>5. QED
    BY <1>1, <1>2, <1>3, <1>4 DEF Stacked, Called

(* Below a call that is made is the one that made it.                      *)
LEMMA Pushed ==
    ASSUME NEW s, Stacked(s), s # <<>>, NEW e, NEW f,
           IsFrame(e), IsFrame(f), f.at = "called"
    PROVE  Stacked(<<e, f>> \o Tail(s))
<1>1. PICK S : s \in Seq(S) /\ \A f1 \in S : IsFrame(f1)
    BY DEF Stacked
<1>2. <<e, f>> \o Tail(s) \in Seq(S \cup {e, f})
    BY <1>1
<1>3. /\ Len(<<e, f>> \o Tail(s)) = Len(s) + 1 /\ Len(s) \in Nat
      /\ (<<e, f>> \o Tail(s))[2] = f
      /\ \A k \in 3 .. Len(s) + 1 : (<<e, f>> \o Tail(s))[k] = s[k - 1]
    BY <1>1
<1>4. \A k \in 3 .. Len(s) + 1 : k - 1 \in 2 .. Len(s)
    BY <1>3
<1>5. ASSUME NEW k \in 2 .. Len(<<e, f>> \o Tail(s))
      PROVE  Called(<<e, f>> \o Tail(s), k)
    <2>1. CASE k = 2
        BY <1>3, <2>1 DEF Called
    <2>2. CASE k # 2
        <3>1. k \in 3 .. Len(s) + 1
            BY <1>3, <2>2
        <3>2. QED
            BY <1>3, <1>4, <3>1 DEF Called, Stacked
    <2>3. QED
        BY <2>1, <2>2
<1>6. \A g \in S \cup {e, f} : IsFrame(g)
    BY <1>1
<1>7. QED
    BY <1>2, <1>5, <1>6, Zenon DEF Stacked

(* After one returns the one that made it goes on.                         *)
LEMMA Popped ==
    ASSUME NEW s, Stacked(s), s # <<>>
    PROVE  Stacked(Tail(s)) /\ (Tail(s) # <<>> => Called(Tail(s), 1))
<1>1. PICK S : s \in Seq(S) /\ \A f1 \in S : IsFrame(f1)
    BY DEF Stacked
<1>2. Tail(s) \in Seq(S) /\ Len(Tail(s)) = Len(s) - 1 /\ Len(s) \in Nat
    BY <1>1
<1>3. \A k \in 1 .. Len(s) - 1 : Tail(s)[k] = s[k + 1] /\ k + 1 \in 2 .. Len(s)
    BY <1>1
<1>4. \A k \in 1 .. Len(s) - 1 : Called(Tail(s), k)
    BY <1>3 DEF Stacked, Called
<1>5. Tail(s) # <<>> => 1 \in 1 .. Len(s) - 1
    BY <1>1, <1>2
<1>6. \A k \in 2 .. Len(Tail(s)) : k \in 1 .. Len(s) - 1
    BY <1>2
<1>7. QED
    BY <1>2, <1>4, <1>5, <1>6 DEF Stacked

-----------------------------------------------------------------------------
(* Outside "called" an innermost call runs only while iter has not         *)
(* returned false.                                                         *)
LEMMA ReadingGoing ==
    ASSUME Unwinding, NEW at, at # "called", Reading(at)
    PROVE  ret
    BY DEF Unwinding, Reading, cur, Called

(* What a call leaves of its frame is a frame.                             *)
LEMMA CurIsFrame ==
    ASSUME Unwinding, NEW at, Reading(at)
    PROVE  IsFrame(cur)
    BY DEF Unwinding, Reading, Stacked, cur

(* A step that reads on.                                                   *)
LEMMA UpdateUnwinding ==
    ASSUME Unwinding, NEW at, Reading(at), ret, ret' = ret, SameSeries,
           NEW f, IsFrame(f), Update(f)
    PROVE  Unwinding'
<1>1. frames # <<>> /\ Stacked(frames) /\ pc' = pc /\ pc = "tree"
    BY DEF Unwinding, Reading, SameSeries
<1>2. Stacked(frames')
    BY <1>1, Top DEF Update
<1>3. QED
    BY <1>1, <1>2 DEF Unwinding

(* A step that returns.                                                    *)
LEMMA ReturnUnwinding ==
    ASSUME Unwinding, NEW at, Reading(at), SameSeries,
           NEW answer, ReturnWith(answer)
    PROVE  Unwinding'
<1>1. frames # <<>> /\ Stacked(frames) /\ pc' = pc /\ pc = "tree"
    BY DEF Unwinding, Reading, SameSeries
<1>2. Stacked(frames') /\ (frames' # <<>> => Called(frames', 1))
    BY <1>1, Popped DEF ReturnWith
<1>3. QED
    BY <1>1, <1>2 DEF Unwinding

(* Every step of a search is one of these or no matter.                    *)
LEMMA StepUnwinding == Unwinding /\ [SearchNext]_allVars => Unwinding'
<1> SUFFICES ASSUME Unwinding, [SearchNext]_allVars PROVE Unwinding'
    OBVIOUS
<1>1. CASE (MakeStep /\ UNCHANGED searchVars) \/ UNCHANGED allVars
    BY <1>1 DEF allVars, searchVars, Unwinding
<1>2. CASE ScanSkip \/ ScanVisit \/ ScanStop \/ ScanEnd \/ TreeEnd
    BY <1>2 DEF ScanSkip, ScanVisit, ScanStop, ScanEnd, TreeEnd, Unwinding
<1>3. CASE ReadCount
    <2>1. Reading("count") /\ IsFrame(cur) /\ ret
        BY <1>3, CurIsFrame, ReadingGoing DEF ReadCount
    <2>2. PICK f : IsFrame(f) /\ Update(f)
        BY <1>3, <2>1 DEF ReadCount, IsFrame
    <2>3. QED
        BY <1>3, <2>1, <2>2, UpdateUnwinding DEF ReadCount
<1>4. CASE SkipItem \/ VisitItem \/ EnterQuads
    <2>1. Reading("items") /\ IsFrame(cur) /\ ret
        BY <1>4, CurIsFrame, ReadingGoing DEF SkipItem, VisitItem, EnterQuads
    <2>2. PICK f : IsFrame(f) /\ Update(f)
        BY <1>4, <2>1 DEF SkipItem, VisitItem, EnterQuads, PastItem, IsFrame
    <2>3. QED
        BY <1>4, <2>1, <2>2, UpdateUnwinding DEF SkipItem, VisitItem, EnterQuads
<1>5. CASE EmptyQuad \/ PruneQuad \/ ResumeQuads
    <2>1. (Reading("quads") \/ Reading("called")) /\ IsFrame(cur) /\ ret
        BY <1>5, CurIsFrame, ReadingGoing
            DEF EmptyQuad, PruneQuad, ResumeQuads, InQuads
    <2>2. PICK f : IsFrame(f) /\ Update(f)
        BY <1>5, <2>1 DEF EmptyQuad, PruneQuad, ResumeQuads, IsFrame
    <2>3. QED
        BY <1>5, <2>1, <2>2, UpdateUnwinding
            DEF EmptyQuad, PruneQuad, ResumeQuads
<1>6. CASE StopAtItem \/ EndLeaf \/ PassStop \/ EndQuads
    BY <1>6, ReturnUnwinding DEF StopAtItem, EndLeaf, PassStop, EndQuads
<1>7. CASE EnterQuad
    <2>1. Reading("quads")
        BY <1>7 DEF EnterQuad, InQuads
    <2>2. ret /\ frames # <<>> /\ pc = "tree" /\ pc' = pc /\ ret' = ret
        BY <1>7, <2>1, ReadingGoing DEF EnterQuad, Reading, SameSeries
    <2>3. PICK e, f : /\ IsFrame(e) /\ IsFrame(f) /\ f.at = "called"
                      /\ frames' = <<e, f>> \o Tail(frames)
        BY <1>7, <2>1, CurIsFrame DEF EnterQuad, Enter, IsFrame
    <2>4. QED
        BY <2>2, <2>3, Pushed DEF Unwinding
<1>8. ASSUME NEW rect \in Targets, CallScan(rect) PROVE Unwinding'
    BY <1>8 DEF CallScan, Unwinding
<1>9. ASSUME NEW rect \in Targets, CallTree(rect) PROVE Unwinding'
    <2>1. PICK f : IsFrame(f) /\ frames' = <<f>>
        BY <1>9 DEF CallTree, Enter, IsFrame
    <2>2. <<f>> \in Seq({f}) /\ \A k \in 2 .. Len(<<f>>) : FALSE
        OBVIOUS
    <2>3. Stacked(frames')
        BY <2>1, <2>2, Zenon DEF Stacked
    <2>4. pc' = "tree" /\ ret'
        BY <1>9 DEF CallTree
    <2>5. QED
        BY <2>3, <2>4 DEF Unwinding
<1>10. ASSUME NEW delta \in Deltas, MoveSeries(delta) PROVE Unwinding'
    <2>1. <<>> \in Seq({}) /\ \A k \in 2 .. Len(<<>>) : FALSE
        OBVIOUS
    <2>2. Stacked(frames') /\ pc' = "idle" /\ ret'
        BY <1>10, <2>1, Zenon DEF MoveSeries, Stacked
    <2>3. QED
        BY <2>2 DEF Unwinding
<1>11. QED
    BY <1>1, <1>2, <1>3, <1>4, <1>5, <1>6, <1>7, <1>8, <1>9, <1>10
        DEF SearchNext, SearchStep

(* Only a scan and a call in its items calls iter.                         *)
LEMMA StepStops ==
    ASSUME Unwinding, SearchNext, ~ ret, pc \in {"scan", "tree"}
    PROVE  hits' = hits
<1>1. ~ ScanSkip /\ ~ ScanVisit /\ ~ ScanStop /\ ~ ScanEnd
    BY DEF ScanSkip, ScanVisit, ScanStop, ScanEnd, Unwinding
<1>2. ~ VisitItem /\ ~ StopAtItem
    BY ReadingGoing DEF VisitItem, StopAtItem
<1>3. QED
    BY <1>1, <1>2 DEF SearchNext, SearchStep, searchVars, ReadCount, SkipItem,
       EndLeaf, EnterQuads, EmptyQuad, PruneQuad, EnterQuad, ResumeQuads,
       PassStop, EndQuads, TreeEnd, CallScan, CallTree, MoveSeries

(* Once iter has returned false it is not called again by that search: the *)
(* answer passes through every call of qCompressSearch that is in progress *)
(* and none of them reads another item.                                    *)
THEOREM StopStops == SearchSpec => StopIsFinal
<1>1. Unwinding /\ [SearchNext]_allVars
         => [~ ret /\ pc \in {"scan", "tree"} => hits' = hits]_allVars
    BY StepStops
<1>2. QED
    BY <1>1, InitUnwinding, StepUnwinding, PTL DEF SearchSpec, StopIsFinal

-----------------------------------------------------------------------------
Places == InTree \cup {"idle", "scan", "get", "returned", "panicked"}

(* A goroutine has a queue while it is in the tree, and then only.         *)
Holding ==
    \A p \in Procs :
        /\ calls[p].at \in Places
        /\ calls[p].at \in InTree => calls[p].q \in Queues
        /\ calls[p].at \notin InTree => calls[p].q = NoQueue

Owning ==
    /\ DOMAIN calls = Procs
    /\ pool \subseteq Queues
    /\ Holding
    /\ QueueOwned

(* At first the queues are nobody's.                                       *)
LEMMA InitOwning == NearbyInit => Owning
    BY DEF NearbyInit, NotCalling, Owning, Holding, QueueOwned, Places, InTree

(* A step of goroutine p that leaves it with the queue it had, or without. *)
Keeps(p) ==
    /\ DOMAIN calls' = Procs
    /\ \A o \in Procs : o # p => calls'[o] = calls[o]
    /\ calls'[p].q = calls[p].q
    /\ calls'[p].at \in Places
    /\ calls'[p].at \in InTree <=> calls[p].at \in InTree
    /\ pool' = pool

(* A step that gives and takes no queue.                                   *)
LEMMA KeepsOwning ==
    ASSUME Owning, NEW p \in Procs, Keeps(p)
    PROVE  Owning'
<1>1. \A o \in Procs :
         /\ calls'[o].q = calls[o].q
         /\ calls'[o].at \in Places
         /\ calls'[o].at \in InTree <=> calls[o].at \in InTree
    BY DEF Owning, Holding, Keeps
<1>2. DOMAIN calls' = Procs /\ pool' = pool
    BY DEF Keeps
<1>3. QED
    BY <1>1, <1>2 DEF Owning, Holding, QueueOwned

(* Every step but Get and Put keeps what the goroutine has.                *)
LEMMA WalkKeeps ==
    ASSUME Owning, NEW p \in Procs,
           \/ ScanStep(p) \/ ScanReturn(p) \/ ScanPanic(p)
           \/ ReadItemCount(p) \/ ReadItem(p) \/ EndItems(p)
           \/ PassEmptyQuad(p) \/ PushQuad(p) \/ Panic(p)
           \/ PopRect(p) \/ PopSegment(p) \/ PopNothing(p)
    PROVE  Keeps(p)
<1> USE DEF Owning, Keeps, Places, InTree
<1>1. CASE ScanStep(p)
    BY <1>1 DEF ScanStep
<1>2. CASE ScanReturn(p)
    BY <1>2 DEF ScanReturn
<1>3. CASE ScanPanic(p)
    BY <1>3 DEF ScanPanic
<1>4. CASE ReadItemCount(p)
    BY <1>4 DEF ReadItemCount
<1>5. CASE ReadItem(p)
    BY <1>5 DEF ReadItem
<1>6. CASE EndItems(p)
    BY <1>6 DEF EndItems
<1>7. CASE PassEmptyQuad(p)
    BY <1>7 DEF PassEmptyQuad, PastQuad
<1>8. CASE PushQuad(p)
    BY <1>8 DEF PushQuad, PastQuad
<1>9. CASE Panic(p)
    BY <1>9 DEF Panic
<1>10. CASE PopRect(p)
    BY <1>10 DEF PopRect
<1>11. CASE PopSegment(p)
    BY <1>11 DEF PopSegment
<1>12. CASE PopNothing(p)
    BY <1>12 DEF PopNothing
<1>13. QED
    BY <1>1, <1>2, <1>3, <1>4, <1>5, <1>6, <1>7, <1>8, <1>9, <1>10, <1>11, <1>12

(* The start of a call is one.                                             *)
LEMMA BeginKeeps ==
    ASSUME Owning, NEW p \in Procs, NEW center \in Centers, Begin(p, center)
    PROVE  Keeps(p)
<1>1. calls[p].at \notin InTree /\ calls[p].q = NoQueue
    BY DEF Begin, Owning, Holding, InTree
<1>2. /\ calls'[p].q = NoQueue /\ calls'[p].at \in {"scan", "get"}
      /\ DOMAIN calls' = Procs /\ pool' = pool
      /\ \A o \in Procs : o # p => calls'[o] = calls[o]
    BY DEF Begin, Owning, NotCalling
<1>3. QED
    BY <1>1, <1>2 DEF Keeps, Places, InTree

(* The queue that Get returns is in no one's hands: it was in the pool, or *)
(* it is new.                                                              *)
LEMMA GetQueueOwning ==
    ASSUME Owning, NEW p \in Procs, NEW q \in Queues, GetQueue(p, q)
    PROVE  Owning'
<1>1. /\ calls'[p].at = "node" /\ calls'[p].q = q
      /\ DOMAIN calls' = Procs /\ pool' = pool \ {q}
      /\ \A o \in Procs : o # p => calls'[o] = calls[o]
    BY DEF GetQueue, Owning
<1>2. \A o \in Procs : calls[o].q # q
    <2>1. CASE q \in Fresh
        BY <2>1 DEF Fresh
    <2>2. CASE q \in pool
        BY <2>2, QueuesAssumption DEF Owning, QueueOwned
    <2>3. QED
        BY <2>1, <2>2 DEF GetQueue
<1>3. Holding'
    BY <1>1 DEF Owning, Holding, Places, InTree
<1>4. QueueOwned'
    BY <1>1, <1>2, QueuesAssumption DEF Owning, QueueOwned
<1>5. QED
    BY <1>1, <1>3, <1>4 DEF Owning

(* What Put gives back was p's alone.                                      *)
LEMMA PutQueueOwning ==
    ASSUME Owning, NEW p \in Procs, PutQueue(p)
    PROVE  Owning'
<1>1. /\ calls'[p].at \in {"returned", "panicked"} /\ calls'[p].q = NoQueue
      /\ DOMAIN calls' = Procs /\ pool' = pool \cup {calls[p].q}
      /\ \A o \in Procs : o # p => calls'[o] = calls[o]
    BY DEF PutQueue, Owning
<1>2. calls[p].q \in Queues /\ calls[p].q # NoQueue
    BY QueuesAssumption DEF PutQueue, Owning, Holding, InTree
<1>3. \A o \in Procs : o # p => calls[o].q # calls[p].q
    BY <1>2 DEF Owning, QueueOwned
<1>4. Holding'
    BY <1>1 DEF Owning, Holding, Places, InTree
<1>5. QueueOwned'
    BY <1>1, <1>2, <1>3 DEF Owning, QueueOwned
<1>6. QED
    BY <1>1, <1>2, <1>4, <1>5 DEF Owning

(* The others are taking a queue out of the pool and putting it back.      *)
LEMMA StepOwning == Owning /\ [NearbyNext]_nearbyAllVars => Owning'
<1> SUFFICES ASSUME Owning, [NearbyNext]_nearbyAllVars PROVE Owning'
    OBVIOUS
<1>1. CASE Make \/ UNCHANGED nearbyAllVars
    BY <1>1 DEF Make, nearbyAllVars, nearbyVars, Owning, Holding, QueueOwned
<1>2. ASSUME NEW p \in Procs, Step(p) PROVE Owning'
    <2>1. CASE \E q \in Queues : GetQueue(p, q)
        BY <2>1, GetQueueOwning
    <2>2. CASE PutQueue(p)
        BY <2>2, PutQueueOwning
    <2>3. QED
        BY <1>2, <2>1, <2>2, WalkKeeps, KeepsOwning DEF Step
<1>3. ASSUME NEW p \in Procs, NEW center \in Centers, Begin(p, center)
      PROVE  Owning'
    BY <1>3, BeginKeeps, KeepsOwning
<1>4. QED
    BY <1>1, <1>2, <1>3 DEF NearbyNext

(* No two goroutines ever push to or pop from the same queue, and none to  *)
(* or from a queue another could get from the pool, whatever the number of *)
(* goroutines, the order of their steps and the panics among them.         *)
THEOREM QueuesNotShared == NearbySpec => []QueueOwned
<1>1. Owning => QueueOwned
    BY DEF Owning
<1>2. QED
    BY <1>1, InitOwning, StepOwning, PTL DEF NearbySpec

-----------------------------------------------------------------------------
(* Making and moving a series: a finished index is that of a tree of the   *)
(* series.                                                                 *)

(* A build that begins anew, after a move.                                 *)
LEMMA BegunNext == Begun' => IInv' /\ Once'
    BY BegunIInv, BegunOnce, PTL

(* Every node but the root is one quad of one node, throughout a build.    *)
Family(tree) == Parented(tree) /\ OneParent(tree)

KeepsQuads(tree, tr) ==
    /\ Len(tr) = Len(tree)
    /\ \A m \in 1 .. Len(tree) : \A r \in 0 .. 3 : Same(tr[m].quads[r], tree[m].quads[r])

(* A step that leaves the quads alone.                                     *)
LEMMA FamilySame ==
    ASSUME NEW tree, NEW tr, Family(tree), KeepsQuads(tree, tr)
    PROVE  Family(tr)
<1>1. Parented(tree) /\ OneParent(tree)
    BY DEF Family
<1>2. Parented(tr)
    BY <1>1 DEF Parented, KeepsQuads, Same
<1>3. OneParent(tr)
    <2> SUFFICES \A l, m \in 1 .. Len(tr) : \A r, p \in 0 .. 3 :
                    (tr[l].quads[r] # 0 /\ tr[l].quads[r] = tr[m].quads[p]) => l = m /\ r = p
        BY Zenon DEF OneParent
    <2> SUFFICES ASSUME NEW l \in 1 .. Len(tr), NEW m \in 1 .. Len(tr),
                        NEW r \in 0 .. 3, NEW p \in 0 .. 3,
                        tr[l].quads[r] # 0, tr[l].quads[r] = tr[m].quads[p]
                 PROVE  l = m /\ r = p
        OBVIOUS
    <2>1. /\ Same(tr[l].quads[r], tree[l].quads[r]) /\ l \in 1 .. Len(tree)
          /\ Same(tr[m].quads[p], tree[m].quads[p]) /\ m \in 1 .. Len(tree)
        BY Zenon DEF KeepsQuads
    <2>2. PICK c : c # 0 /\ tree[l].quads[r] = c /\ tree[m].quads[p] = c
        BY <2>1 DEF Same
    <2>3. Same(l, m) /\ Same(r, p)
        BY <1>1, <2>1, <2>2, SameParent, Zenon
    <2>4. QED
        BY <2>3 DEF Same
<1>4. QED
    BY <1>2, <1>3 DEF Family

(* tr is the tree of len nodes with one more, quad q of node n.            *)
AddsQuad(tree, tr, len, n, q) ==
    /\ len \in Nat /\ Len(tree) = len /\ Len(tr) = len + 1
    /\ n \in 1 .. len /\ q \in 0 .. 3 /\ tree[n].quads[q] = 0
    /\ \A m \in 1 .. len : \A r \in 0 .. 3 : tree[m].quads[r] \in 0 .. len
    /\ \A m \in 1 .. len : \A r \in 0 .. 3 :
          Same(tr[m].quads[r], IF m = n /\ r = q THEN len + 1 ELSE tree[m].quads[r])
    /\ \A r \in 0 .. 3 : Same(tr[len + 1].quads[r], 0)

(* A step that adds one.                                                   *)
LEMMA FamilyGrows ==
    ASSUME NEW tree, NEW tr, Family(tree), NEW len, NEW n, NEW q,
           AddsQuad(tree, tr, len, n, q)
    PROVE  Family(tr)
<1>0. len \in Nat /\ Len(tree) = len /\ Len(tr) = len + 1
    BY DEF AddsQuad
<1>n. n \in 1 .. len /\ q \in 0 .. 3 /\ tree[n].quads[q] = 0
    BY DEF AddsQuad
<1>f. OneParent(tree) /\ Parented(tree)
    BY DEF Family
<1>1. \A m \in 1 .. len + 1 : m \in 1 .. len \/ m = len + 1
    BY <1>0
<1>a. ASSUME NEW m \in 1 .. len, NEW r \in 0 .. 3
      PROVE  \E a \in 0 .. len :
                /\ a = tree[m].quads[r]
                /\ m = n /\ r = q => tr[m].quads[r] = len + 1
                /\ ~ (m = n /\ r = q) => tr[m].quads[r] = a
    <2>1. /\ tree[m].quads[r] \in 0 .. len
          /\ Same(tr[m].quads[r], IF m = n /\ r = q THEN len + 1 ELSE tree[m].quads[r])
        BY Zenon DEF AddsQuad
    <2>2. QED
        BY <2>1 DEF Same
<1>b. \A r \in 0 .. 3 : tr[len + 1].quads[r] = 0
    BY DEF AddsQuad, Same
<1>2. ASSUME NEW m \in 2 .. Len(tr)
      PROVE  \E l \in 1 .. Len(tr) : \E r \in 0 .. 3 : tr[l].quads[r] = m
    <2>1. CASE m = len + 1
        <3>1. tr[n].quads[q] = m
            BY <1>a, <1>n, <2>1
        <3>2. n \in 1 .. Len(tr)
            BY <1>0, <1>n
        <3>3. QED
            BY <1>n, <3>1, <3>2, Zenon
    <2>2. CASE m # len + 1
        <3>1. m \in 2 .. Len(tree)
            BY <1>0, <2>2
        <3>2. PICK l \in 1 .. len, r \in 0 .. 3 : tree[l].quads[r] = m
            BY <1>0, <1>f, <3>1, Zenon DEF Parented
        <3>3. m # 0
            BY <1>0
        <3>4. ~ (l = n /\ r = q)
            BY <1>n, <3>2, <3>3, Zenon
        <3>5. tr[l].quads[r] = m
            BY <1>a, <3>2, <3>4, Zenon
        <3>6. l \in 1 .. Len(tr)
            BY <1>0
        <3>7. QED
            BY <3>5, <3>6, Zenon
    <2>3. QED
        BY <2>1, <2>2
<1>3. OneParent(tr)
    <2> SUFFICES \A l, m \in 1 .. Len(tr) : \A r, p \in 0 .. 3 :
                    (tr[l].quads[r] # 0 /\ tr[l].quads[r] = tr[m].quads[p]) => l = m /\ r = p
        BY Zenon DEF OneParent
    <2> SUFFICES ASSUME NEW l \in 1 .. Len(tr), NEW m \in 1 .. Len(tr),
                        NEW r \in 0 .. 3, NEW p \in 0 .. 3,
                        tr[l].quads[r] # 0, tr[l].quads[r] = tr[m].quads[p]
                 PROVE  l = m /\ r = p
        OBVIOUS
    <2>1. l \in 1 .. len /\ m \in 1 .. len
        BY <1>0, <1>1, <1>b, Zenon
    <2>2. PICK a \in 0 .. len :
             /\ a = tree[l].quads[r]
             /\ l = n /\ r = q => tr[l].quads[r] = len + 1
             /\ ~ (l = n /\ r = q) => tr[l].quads[r] = a
        BY <1>a, <2>1, Zenon
    <2>3. PICK b \in 0 .. len :
             /\ b = tree[m].quads[p]
             /\ m = n /\ p = q => tr[m].quads[p] = len + 1
             /\ ~ (m = n /\ p = q) => tr[m].quads[p] = b
        BY <1>a, <2>1, Zenon
    <2>a. a # len + 1 /\ b # len + 1
        BY <1>0
    <2>4. CASE l = n /\ r = q
        BY <2>2, <2>3, <2>4, <2>a, Zenon
    <2>5. CASE ~ (l = n /\ r = q)
        <3>1. a # 0 /\ tree[l].quads[r] = a /\ tree[m].quads[p] = a
            BY <2>2, <2>3, <2>5, <2>a, Zenon
        <3>2. Same(l, m) /\ Same(r, p)
            BY <1>0, <1>f, <2>1, <3>1, SameParent, Zenon
        <3>3. QED
            BY <3>2 DEF Same
    <2>6. QED
        BY <2>4, <2>5
<1>4. Parented(tr)
    BY <1>2, Zenon DEF Parented
<1>5. QED
    BY <1>3, <1>4 DEF Family

(* insert makes a quad where there was none.                               *)
LEMMA WithQuadFamily ==
    ASSUME TypeOK, Family(nodes), NEW n \in Addresses, NEW q \in Quads,
           nodes[n].depth # QMaxDepth, nodes' = WithQuad(n, q)
    PROVE  Family(nodes)'
<1>1. CASE nodes[n].quads[q] # Nil
    BY <1>1 DEF WithQuad
<1>2. CASE nodes[n].quads[q] = Nil
    <2>0. PICK len \in Nat : len = Len(nodes)
        BY NodeType
    <2> DEFINE W == WithQuad(n, q)
               c == QuadOf(n, q)
    <2>1. /\ W \in Seq(NodeOf(Len(W)))
          /\ Len(W) \in {Len(nodes), Len(nodes) + 1}
          /\ c \in 1 .. Len(W)
          /\ \A m \in Addresses :
                /\ W[m].items = nodes[m].items /\ W[m].split = nodes[m].split
                /\ W[m].bounds = nodes[m].bounds
                /\ W[m].depth = nodes[m].depth
                /\ \A r \in Quads :
                      W[m].quads[r] = IF m = n /\ r = q THEN c ELSE nodes[m].quads[r]
          /\ nodes[n].quads[q] # Nil => W = nodes /\ c = nodes[n].quads[q]
          /\ nodes[n].quads[q] = Nil =>
                /\ Len(W) = Len(nodes) + 1 /\ c = Len(W)
                /\ W[c].items = <<>> /\ W[c].split = FALSE
                /\ W[c].bounds = QuadBounds(nodes[n].bounds, q)
                /\ \A r \in Quads : W[c].quads[r] = Nil
        BY WithQuadFields, ZenonT(40)
    <2>w. nodes' = W
        OBVIOUS
    <2> HIDE DEF W, c
    <2>2. Len(W) = len + 1 /\ c = len + 1
        BY <1>2, <2>0, <2>1
    <2>3. \A r \in Quads : W[c].quads[r] = Nil
        BY <1>2, <2>1, Zenon
    <2>4. \A m \in Addresses : \A r \in Quads :
             W[m].quads[r] = IF m = n /\ r = q THEN c ELSE nodes[m].quads[r]
        BY <2>1, Zenon
    <2>5. \A m \in 1 .. len : \A r \in 0 .. 3 : nodes[m].quads[r] \in 0 .. len
        BY <2>0, NodeType DEF Addresses, Quads
    <2>6. n \in 1 .. len /\ q \in 0 .. 3 /\ nodes[n].quads[q] = 0
        BY <1>2, <2>0 DEF Addresses, Quads, Nil
    <2>7. \A m \in 1 .. len : \A r \in 0 .. 3 :
             Same(W[m].quads[r], IF m = n /\ r = q THEN len + 1 ELSE nodes[m].quads[r])
        BY <2>0, <2>2, <2>4 DEF Same, Addresses, Quads
    <2>8. \A r \in 0 .. 3 : Same(W[len + 1].quads[r], 0)
        BY <2>2, <2>3 DEF Same, Quads, Nil
    <2>9. AddsQuad(nodes, W, len, n, q)
        BY <2>0, <2>2, <2>5, <2>6, <2>7, <2>8, Zenon DEF AddsQuad
    <2>10. Family(W)
        BY <2>9, FamilyGrows, Zenon
    <2>11. QED
        BY <2>w, <2>10
<1>3. QED
    BY <1>1, <1>2

(* Every step of a build is one or the other.                              *)
LEMMA StepFamily ==
    ASSUME IInv, Family(nodes), [Next]_vars
    PROVE  Family(nodes)'
<1>t. TypeOK
    BY DEF IInv
<1>1. CASE InsertNext \/ BeginSplit \/ SplitKeep \/ UNCHANGED vars
    BY <1>1 DEF InsertNext, BeginSplit, SplitKeep, vars
<1>2. CASE AtDepthLimit \/ IntoOverflow \/ IntoLeaf
    <2>1. Inserting /\ nodes' = [nodes EXCEPT ![top.node].items = Append(@, top.item)]
        BY <1>2 DEF AtDepthLimit, IntoOverflow, IntoLeaf, AppendItem
    <2>2. top.node \in Addresses /\ top.item \in Items
        BY <2>1, TopFrame DEF Inserting
    <2>3. KeepsQuads(nodes, nodes')
        BY <1>t, <2>1, <2>2, AppendFields DEF Addresses, KeepsQuads, Same
    <2>4. QED
        BY <2>3, FamilySame
<1>3. CASE IntoQuad
    <2>1. top.node \in Addresses /\ top.item \in Items /\ nodes[top.node].depth # QMaxDepth
        BY <1>3, TopFrame DEF IntoQuad, Inserting, node
    <2>2. Quad(top.item) \in Quads /\ nodes' = WithQuad(top.node, Quad(top.item))
        BY <1>3, ChooseQuadRange DEF IntoQuad, Quad
    <2>3. QED
        BY <1>t, <2>1, <2>2, WithQuadFamily
<1>4. CASE SplitHandDown
    <2>1. top.node \in Addresses /\ Splitting
        BY <1>4, TopFrame DEF SplitHandDown, Splitting
    <2>2. nodes[top.node].depth # QMaxDepth
        <3>1. Len(stack) = 1
            BY <2>1, TopFrame DEF Splitting
        <3>2. QED
            BY <2>1, <3>1, TopFrame DEF IInv, SplitsDoNotNest, SplitState, Splitting
    <2>3. PICK q \in Quads : nodes' = WithQuad(top.node, q)
        BY <1>4, ChooseQuadRange DEF SplitHandDown, Quad
    <2>4. QED
        BY <1>t, <2>1, <2>2, <2>3, WithQuadFamily
<1>5. CASE EndSplit
    <2>1. Splitting /\ nodes' = [nodes EXCEPT ![top.node].items = top.nitems,
                                              ![top.node].split = TRUE]
        BY <1>5 DEF EndSplit
    <2>2. top.node \in Addresses /\ top.nitems \in Seq(Items)
        BY <2>1, TopFrame DEF Splitting
    <2>3. KeepsQuads(nodes, nodes')
        BY <1>t, <2>1, <2>2, EndSplitFields DEF Addresses, KeepsQuads, Same
    <2>4. QED
        BY <2>3, FamilySame
<1>6. QED
    BY <1>1, <1>2, <1>3, <1>4, <1>5 DEF Next

(* A build begins with the root only.                                      *)
LEMMA BegunFamily == Begun => Family(nodes)
<1> SUFFICES ASSUME Begun PROVE Family(nodes)
    OBVIOUS
<1>1. Len(nodes) = 1 /\ \A q \in 0 .. 3 : nodes[1].quads[q] = 0
    BY DEF Begun, NewNode, Quads, Nil
<1>2. QED
    BY <1>1 DEF Family, Parented, OneParent

-----------------------------------------------------------------------------
(* A finished build is a tree of the series.                               *)
LEMMA BuiltStored ==
    ASSUME Built, NEW n, NEW k, NEW i
    PROVE  Stored(n, k, i) <=> /\ n \in Addresses /\ k \in DOMAIN nodes[n].items
                               /\ nodes[n].items[k] = i
    BY DEF Stored, StoredAt, UnderSplit, Built

(* Its quads come after their nodes,                                       *)
LEMMA BuiltTree ==
    ASSUME IInv, Built
    PROVE  IsTree(nodes)
<1>1. TypeOK /\ Ordered /\ stack = <<>>
    BY DEF IInv, Built
<1>2. Len(nodes) \in Nat /\ Len(nodes) >= 1 /\ DOMAIN nodes = 1 .. Len(nodes)
    BY <1>1 DEF TypeOK
<1>3. Items \subseteq Nat
    BY DEF Items
<1>4. ASSUME NEW n \in 1 .. Len(nodes) PROVE nodes[n].items \in Seq(Nat)
    <2>1. nodes[n].items \in Seq(Items)
        BY <1>1, NodeType DEF Addresses
    <2>2. PICK t \in Seq(Items) : t = nodes[n].items
        BY <2>1
    <2>a. \A k \in 1 .. Len(t) : t[k] \in Items
        OBVIOUS
    <2>3. \A k \in 1 .. Len(t) : t[k] \in Nat
        BY <1>3, <2>a, Zenon
    <2>4. t \in Seq(Nat)
        BY <2>3
    <2>5. QED
        BY <2>2, <2>4
<1>5. ASSUME NEW n \in 1 .. Len(nodes), NEW q \in 0 .. 3
      PROVE  /\ nodes[n].quads[q] \in Nat
             /\ nodes[n].quads[q] # 0 =>
                   /\ nodes[n].quads[q] \in n + 1 .. Len(nodes)
                   /\ nodes[n].split
    <2>1. PICK c \in 0 .. Len(nodes) : c = nodes[n].quads[q]
        BY <1>1, NodeType DEF Addresses, Quads
    <2>2. c # 0 => c > n /\ nodes[n].split
        BY <1>1, <2>1 DEF Ordered, UnderSplit, Addresses, Quads, Nil
    <2>3. c \in Nat /\ (c # 0 => c \in n + 1 .. Len(nodes))
        BY <1>2, <2>2
    <2>4. QED
        BY <2>1, <2>2, <2>3, Zenon
<1>6. QED
    BY <1>2, <1>4, <1>5, Zenon DEF IsTree

(* it has every segment once,                                              *)
LEMMA BuiltFilled ==
    ASSUME IInv, Once, Built
    PROVE  IsFilled(nodes, series)
<1>1. /\ TypeOK /\ stack = <<>> /\ next = NumSegments(series)
      /\ Items = Numbers(series)
    BY DEF IInv, Built, Items, Numbers
<1>2. ASSUME NEW n \in 1 .. Len(nodes), NEW k \in DOMAIN nodes[n].items
      PROVE  nodes[n].items[k] \in Numbers(series)
    <2>1. nodes[n].items \in Seq(Items)
        BY <1>1, NodeType DEF Addresses
    <2>2. QED
        BY <1>1, <2>1
<1>3. ASSUME NEW i \in Numbers(series)
      PROVE  \E h : Holders(i) = {h}
    <2>1. i \in 0 .. next - 1
        BY <1>1 DEF Numbers
    <2>2. QED
        BY <2>1 DEF Once, EachItemOnce
<1>4. ASSUME NEW i \in Numbers(series)
      PROVE  \E n \in 1 .. Len(nodes) : HasItem(nodes, n, i)
    <2>1. PICK h : Holders(i) = {h}
        BY <1>3
    <2>2. h \in Holders(i)
        BY <2>1
    <2>3. PICK d, k : h \in {<<"node", d, k>>, <<"kept", d, k>>, <<"call", d, 0>>}
        BY <2>2, HolderKinds
    <2>4. h # <<"kept", d, k>> /\ h # <<"call", d, 0>>
        <3>1. ~ Kept(d, k, i) /\ ~ Carried(d, i)
            BY <1>1 DEF Kept, Carried
        <3>2. QED
            BY <2>2, <3>1, HolderKinds
    <2>5. <<"node", d, k>> \in Holders(i)
        BY <2>2, <2>3, <2>4
    <2>6. Stored(d, k, i)
        BY <2>5, HolderKinds
    <2>7. d \in 1 .. Len(nodes) /\ HasItem(nodes, d, i)
        BY <2>6, BuiltStored DEF HasItem, Addresses
    <2>8. QED
        BY <2>7
<1>5. ASSUME NEW n \in 1 .. Len(nodes), NEW m \in 1 .. Len(nodes),
             NEW k \in DOMAIN nodes[n].items, NEW j \in DOMAIN nodes[m].items,
             nodes[n].items[k] = nodes[m].items[j]
      PROVE  Same(n, m) /\ Same(k, j)
    <2>1. PICK i \in Numbers(series) : i = nodes[n].items[k] /\ i = nodes[m].items[j]
        BY <1>2, <1>5
    <2>2. Stored(n, k, i) /\ Stored(m, j, i)
        BY <2>1, BuiltStored, Zenon DEF Addresses
    <2>3. <<"node", n, k>> \in Holders(i) /\ <<"node", m, j>> \in Holders(i)
        BY <2>2, HolderKinds, Zenon
    <2>4. PICK h : Holders(i) = {h}
        BY <1>3
    <2>5. <<"node", n, k>> = <<"node", m, j>>
        BY <2>3, <2>4, Zenon
    <2>6. QED
        BY <2>5 DEF Same
<1>6. QED
    BY <1>2, <1>4, <1>5, Zenon DEF IsFilled

(* and in the bounds that quadBounds gives it:                             *)
LEMMA BuiltBounded ==
    ASSUME IInv, Built
    PROVE  IsBounded(nodes, series)
<1>1. nodes[1].bounds = series.rect
    BY DEF IInv, Root
<1>2. \A i \in Numbers(series) :
         RectContainsRect(series.rect, SegmentRectAt(series, i))
    BY DEF IInv, Items, Numbers
<1>3. \A n \in 1 .. Len(nodes) : nodes[n].bounds \in Rect
    BY NodeType DEF IInv, Addresses
<1>4. \A n \in 1 .. Len(nodes) : \A q \in 0 .. 3 : nodes[n].quads[q] # 0 =>
         nodes[nodes[n].quads[q]].bounds = QuadBounds(nodes[n].bounds, q)
    BY DEF IInv, WithinBounds, Addresses, Quads, Nil
<1>5. \A n \in 1 .. Len(nodes) : \A i \in Numbers(series) : HasItem(nodes, n, i) =>
         RectContainsRect(nodes[n].bounds, SegmentRectAt(series, i))
    BY DEF IInv, WithinBounds, Addresses, HasItem
<1>6. QED
    BY <1>1, <1>2, <1>3, <1>4, <1>5, Zenon DEF IsBounded

(* together, a tree of the series.                                         *)
LEMMA BuiltTreeOf ==
    ASSUME IInv, Once, Family(nodes), Built
    PROVE  IsTreeOf(nodes, series)
<1>1. series \in SeriesType
    BY DEF IInv, TypeOK, SeriesType
<1>2. \A n \in 1 .. Len(nodes) : nodes[n].split \in BOOLEAN
    BY NodeType DEF IInv, Addresses
<1>3. QED
    BY <1>1, <1>2, BuiltTree, BuiltFilled, BuiltBounded, Zenon
       DEF IsTreeOf, IsFamily, Family

-----------------------------------------------------------------------------
(* A moved series is one that can be indexed: the segments move with the   *)
(* rectangle.                                                              *)
LEMMA ShiftPoint ==
    ASSUME NEW p \in Point, NEW o \in Point, NEW delta \in Point
    PROVE  /\ Shift(p, delta) \in Point
           /\ Shift(p, delta) = Shift(o, delta) <=> p = o
    BY DEF Shift, Point

(* A rectangle moves with the points in it.                                *)
LEMMA ShiftRect ==
    ASSUME NEW a \in Point, NEW b \in Point, NEW delta \in Point, NEW r \in Rect,
           RectContainsRect(r, SegmentRect([a |-> a, b |-> b]))
    PROVE  RectContainsRect([min |-> Shift(r.min, delta), max |-> Shift(r.max, delta)],
                            SegmentRect([a |-> Shift(a, delta), b |-> Shift(b, delta)]))
    BY DEF RectContainsRect, SegmentRect, Lesser, Greater, Shift, Rect, Point

(* Move keeps the number of points and moves each,                         *)
LEMMA MovedPoints ==
    ASSUME NEW s \in SeriesType, NEW delta \in Point, NEW t, t = Moved(s, delta)
    PROVE  /\ t \in SeriesType /\ Len(t.points) = Len(s.points) /\ t.closed = s.closed
           /\ \A k \in 0 .. Len(s.points) - 1 :
                 /\ PointAt(s, k) \in Point
                 /\ PointAt(t, k) = Shift(PointAt(s, k), delta)
<1>1. s.points \in Seq(Point) /\ s.closed \in BOOLEAN /\ s.rect \in Rect
    BY DEF SeriesType
<1>2. PICK f \in Seq(Point) :
         /\ f = [k \in DOMAIN s.points |-> Shift(s.points[k], delta)]
         /\ Len(f) = Len(s.points)
    <2>1. PICK p \in Seq(Point) : p = s.points
        BY <1>1
    <2>2. \A k \in 1 .. Len(p) : Shift(p[k], delta) \in Point
        BY ShiftPoint
    <2>3. [k \in 1 .. Len(p) |-> Shift(p[k], delta)] \in Seq(Point)
        BY <2>2
    <2>4. DOMAIN p = 1 .. Len(p) /\ Len(p) \in Nat
        OBVIOUS
    <2>5. PICK f : f = [k \in DOMAIN p |-> Shift(p[k], delta)]
        OBVIOUS
    <2>6. f \in Seq(Point)
        BY <2>3, <2>4, <2>5
    <2>7. DOMAIN f = 1 .. Len(p)
        BY <2>4, <2>5
    <2>8. Len(f) = Len(p)
        BY <2>4, <2>6, <2>7
    <2>9. QED
        BY <2>1, <2>5, <2>6, <2>8
<1>3. t.points = f /\ t.closed = s.closed
    BY <1>2 DEF Moved
<1>4. PICK r \in Rect : t = [points |-> f, closed |-> s.closed, rect |-> r]
    <2>1. PICK r \in Rect : r = s.rect
        BY <1>1
    <2>2. PICK b : b = [min |-> Shift(r.min, delta), max |-> Shift(r.max, delta)]
        OBVIOUS
    <2>3. b \in Rect
        BY <2>2 DEF Shift, Rect, Point
    <2>4. PICK c \in Rect : c = IF Empty(s) THEN r ELSE b
        BY <2>3
    <2>5. t = [points |-> f, closed |-> s.closed, rect |-> c]
        BY <1>2, <2>1, <2>2, <2>4, Zenon DEF Moved
    <2>6. QED
        BY <2>5
<1>5. t \in SeriesType
    BY <1>1, <1>4 DEF SeriesType
<1>6. ASSUME NEW k \in 0 .. Len(s.points) - 1
      PROVE  /\ PointAt(s, k) \in Point
             /\ PointAt(t, k) = Shift(PointAt(s, k), delta)
    <2>1. k + 1 \in DOMAIN s.points
        BY <1>1
    <2>2. QED
        BY <1>1, <1>2, <1>3, <2>1 DEF PointAt
<1>7. QED
    BY <1>2, <1>3, <1>5, <1>6, Zenon

(* so it keeps the number of segments,                                     *)
LEMMA MovedSegments ==
    ASSUME NEW s \in SeriesType, NEW delta \in Point, NEW t, t = Moved(s, delta)
    PROVE  NumSegments(t) = NumSegments(s)
<1>1. Len(t.points) = Len(s.points) /\ t.closed = s.closed
    BY MovedPoints
<1>2. Len(s.points) \in Nat /\ s.closed \in BOOLEAN
    BY DEF SeriesType
<1>3. Empty(t) <=> Empty(s)
    BY <1>1 DEF Empty
<1>4. CASE ~ Empty(s)
    <2>1. PICK n \in Nat : n = Len(s.points) /\ n >= 2
        BY <1>2, <1>4 DEF Empty
    <2>2. PICK a \in Point : /\ a = PointAt(s, 0)
                             /\ PointAt(t, 0) = Shift(a, delta)
        BY <2>1, MovedPoints
    <2>3. PICK b \in Point : /\ b = PointAt(s, n - 1)
                             /\ PointAt(t, n - 1) = Shift(b, delta)
        <3>1. n - 1 \in 0 .. Len(s.points) - 1
            BY <2>1
        <3>2. QED
            BY <3>1, MovedPoints
    <2>4. PointAt(t, n - 1) = PointAt(t, 0) <=> PointAt(s, n - 1) = PointAt(s, 0)
        BY <2>2, <2>3, ShiftPoint
    <2>5. QED
        BY <1>1, <1>3, <1>4, <2>1, <2>4 DEF NumSegments
<1>5. CASE Empty(s)
    BY <1>3, <1>5 DEF NumSegments
<1>6. QED
    BY <1>4, <1>5

(* and every segment stays in the rectangle.                               *)
LEMMA MovedRect ==
    ASSUME NEW s \in SeriesType, NEW delta \in Point, NEW t, t = Moved(s, delta),
           NEW k \in 0 .. NumSegments(s) - 1,
           RectContainsRect(s.rect, SegmentRectAt(s, k))
    PROVE  RectContainsRect(t.rect, SegmentRectAt(t, k))
<1>1. PICK n \in Nat : n = Len(s.points) /\ n >= 2 /\ k \in 0 .. n - 1 /\ ~ Empty(s)
    BY DEF NumSegments, Empty, SeriesType
<1>2. Len(t.points) = n
    BY <1>1, MovedPoints
<1>3. PICK l \in 0 .. n - 1 : l = IF k = n - 1 THEN 0 ELSE k + 1
    BY <1>1
<1>4. PICK a \in Point : a = PointAt(s, k) /\ PointAt(t, k) = Shift(a, delta)
    BY <1>1, MovedPoints
<1>5. PICK b \in Point : b = PointAt(s, l) /\ PointAt(t, l) = Shift(b, delta)
    <2>1. l \in 0 .. Len(s.points) - 1
        BY <1>1, <1>3
    <2>2. QED
        BY <2>1, MovedPoints
<1>6. SegmentRectAt(s, k) = SegmentRect([a |-> a, b |-> b])
    BY <1>1, <1>3, <1>4, <1>5 DEF SegmentRectAt, SegmentAt
<1>7. SegmentRectAt(t, k) = SegmentRect([a |-> Shift(a, delta), b |-> Shift(b, delta)])
    BY <1>2, <1>3, <1>4, <1>5 DEF SegmentRectAt, SegmentAt
<1>8. PICK r \in Rect : r = s.rect
    BY DEF SeriesType
<1>9. t.rect = [min |-> Shift(r.min, delta), max |-> Shift(r.max, delta)]
    BY <1>1, <1>8 DEF Moved
<1>10. RectContainsRect(r, SegmentRect([a |-> a, b |-> b]))
    BY <1>6, <1>8
<1>11. QED
    BY <1>4, <1>5, <1>7, <1>8, <1>9, <1>10, ShiftRect

(* The series that Move made is indexed from the start.                    *)
LEMMA MovedBegun ==
    ASSUME IInv, NEW delta \in Deltas, Move(delta)
    PROVE  Begun'
<1>1. /\ delta \in Point /\ series \in SeriesType
      /\ \A k \in Items : RectContainsRect(series.rect, SegmentRectAt(series, k))
    BY OptionsAssumption DEF IInv, TypeOK, SeriesType
<1>2. series' = Moved(series, delta)
    BY DEF Move
<1>3. series' \in SeriesType /\ NumSegments(series') = NumSegments(series)
    BY <1>1, <1>2, MovedPoints, MovedSegments
<1>4. ASSUME NEW k \in Items'
      PROVE  RectContainsRect(series'.rect, SegmentRectAt(series', k))
    <2>1. k \in 0 .. NumSegments(series) - 1
        BY <1>3 DEF Items
    <2>2. RectContainsRect(series.rect, SegmentRectAt(series, k))
        BY <1>1, <2>1 DEF Items
    <2>3. QED
        BY <1>1, <1>2, <2>1, <2>2, MovedRect
<1>5. QED
    BY <1>3, <1>4 DEF Begun, Move

-----------------------------------------------------------------------------
(* An index is the code of the tree of the series.                         *)
MakeInv ==
    /\ IInv /\ Once /\ Family(nodes)
    /\ opts.kind \in {0, 1} /\ indexKind \in {0, 1} /\ from.kind \in {0, 1}
    /\ made \in BOOLEAN
    /\ ~ made => index = <<>>
    /\ index # <<>> =>
          Built /\ \E kind \in {0, 1} : index = SetCompressed(kind, nodes)

(* NewSeries begins the build.                                             *)
LEMMA InitMakeInv == MakeInit => MakeInv
<1> SUFFICES ASSUME MakeInit PROVE MakeInv
    OBVIOUS
<1>1. IInv /\ Once /\ Family(nodes)
    BY InitBegun, BegunIInv, BegunOnce, BegunFamily DEF MakeInit
<1>2. /\ opts.kind \in {0, 1} /\ indexKind = 0 /\ from.kind = 0
      /\ made = FALSE /\ index = <<>>
    BY OptionsAssumption DEF MakeInit, NotMoved, None
<1>3. QED
    BY <1>1, <1>2 DEF MakeInv

(* A step of the build, and setting the index at its end.                  *)
LEMMA MakeStepInv ==
    ASSUME MakeInv, MakeStep
    PROVE  MakeInv'
<1>i. IInv /\ Once /\ Family(nodes)
    BY DEF MakeInv
<1>1. CASE BuildStep
    <2>1. [Next]_vars /\ ~ made /\ UNCHANGED <<opts, made, index, indexKind, from>>
        BY <1>1 DEF BuildStep
    <2>2. IInv' /\ Once' /\ Family(nodes)'
        BY <1>i, <2>1, StepIInv, StepOnce, StepFamily
    <2>3. index' = <<>>
        BY <2>1 DEF MakeInv
    <2>4. QED
        BY <2>1, <2>2, <2>3 DEF MakeInv
<1>2. CASE FinishIndexed
    <2>1. UNCHANGED <<vars, opts, from>> /\ made' = TRUE /\ Built
        BY <1>2 DEF FinishIndexed
    <2>2. IInv' /\ Once' /\ Family(nodes)'
        BY <1>i, <2>1, StepIInv, StepOnce, StepFamily
    <2>3. Built' /\ nodes' = nodes
        BY <2>1 DEF Built, vars
    <2>4. \E kind \in {0, 1} : index' = SetCompressed(kind, nodes')
        <3>1. PICK kind : /\ kind = IF WantsIndex THEN opts.kind ELSE from.kind
                          /\ index' = SetCompressed(kind, nodes)
            BY <1>2 DEF FinishIndexed
        <3>2. kind \in {0, 1}
            BY <3>1 DEF MakeInv
        <3>3. QED
            BY <2>3, <3>1, <3>2
    <2>5. indexKind' \in {0, 1}
        BY <1>2 DEF FinishIndexed, MakeInv
    <2>6. QED
        BY <2>1, <2>2, <2>3, <2>4, <2>5 DEF MakeInv
<1>3. CASE FinishUnindexed
    <2>1. /\ UNCHANGED <<vars, opts, from, index>> /\ made' = TRUE
          /\ indexKind' = from.kind /\ index = <<>>
        BY <1>3 DEF FinishUnindexed, MakeInv
    <2>2. IInv' /\ Once' /\ Family(nodes)'
        BY <1>i, <2>1, StepIInv, StepOnce, StepFamily
    <2>3. QED
        BY <2>1, <2>2 DEF MakeInv
<1>4. QED
    BY <1>1, <1>2, <1>3 DEF MakeStep

(* Move builds the index of the moved series.                              *)
LEMMA MoveInv ==
    ASSUME MakeInv, NEW delta \in Deltas, Move(delta)
    PROVE  MakeInv'
<1>1. Begun'
    BY MovedBegun DEF MakeInv
<1>2. IInv' /\ Once' /\ Family(nodes)'
    <2>1. Begun' => IInv' /\ Once' /\ Family(nodes)'
        BY BegunIInv, BegunOnce, BegunFamily, PTL
    <2>2. QED
        BY <1>1, <2>1
<1>3. /\ opts'.kind = 1 /\ indexKind' = 0 /\ from'.kind = indexKind
      /\ made' = FALSE /\ index' = <<>>
    BY DEF Move, DefaultIndexOptions, None
<1>4. QED
    BY <1>2, <1>3 DEF MakeInv

(* Searching changes no series.                                            *)
LEMMA SameMakeInv ==
    ASSUME MakeInv, UNCHANGED makeVars
    PROVE  MakeInv'
<1>1. /\ UNCHANGED vars /\ UNCHANGED <<opts, made, index, indexKind, from>>
    BY DEF makeVars
<1>2. IInv' /\ Once' /\ Family(nodes)'
    BY <1>1, StepIInv, StepOnce, StepFamily DEF MakeInv
<1>3. Built' <=> Built
    BY <1>1 DEF Built, vars
<1>4. nodes' = nodes
    BY <1>1 DEF vars
<1>5. QED
    BY <1>1, <1>2, <1>3, <1>4 DEF MakeInv

(* An index that is written and read back within 32 bits.                  *)
Fits == Len(index) < Uint32Limit /\ NumSegments(series) < Uint32Limit

(* An index that fits can be read: the header has its length and the       *)
(* root's bytes are all that follows.                                      *)
LEMMA IndexReads ==
    ASSUME MakeInv, index # <<>>, Fits
    PROVE  /\ IsTreeOf(nodes, series)
           /\ Readable(index) = index /\ Readably(nodes, index)
           /\ Lies(index, HeaderLen, Code(nodes, 1), Len(index))
<1>1. PICK kind \in {0, 1} : index = SetCompressed(kind, nodes)
    BY DEF MakeInv
<1>2. IsTreeOf(nodes, series)
    BY BuiltTreeOf DEF MakeInv
<1>3. IsTree(nodes)
    BY <1>2 DEF IsTreeOf, IsFamily
<1>4. kind \in Nat /\ Len(index) < Uint32Limit /\ NumSegments(series) < Uint32Limit
    BY DEF Fits
<1>5. /\ index \in Seq(Nat) /\ Readable(index) = index
      /\ Lies(index, HeaderLen, Code(nodes, 1), Len(index))
    BY <1>1, <1>3, <1>4, ReadsIndex
<1>6. Readably(nodes, index)
    BY <1>2, <1>4, <1>5, TreeReadably
<1>7. QED
    BY <1>2, <1>5, <1>6, Zenon

-----------------------------------------------------------------------------
(* The calls of qCompressSearch that are in progress.                      *)

(* The stack of a search.                                                  *)
SFrame == [at : {"count", "items", "quads", "called"}, addr : Int, bounds : Rect,
           left : Int, last : Int, q : Int, qsize : Int]

(* Where the bytes of the node of the i-th call end.                       *)
EndOf(d, fr, i) == IF i = Len(fr) THEN Len(d) ELSE fr[i + 1].addr + fr[i + 1].qsize

(* The number of the next item of a call in its items.                     *)
Turn(tree, n, f) == (Count(tree, n) + 1) - f.left

(* A call on node n whose bytes end at e.                                  *)
Good(tree, d, f, n, e) ==
    /\ n \in 1 .. Len(tree) /\ f.bounds = tree[n].bounds /\ HeaderLen <= f.addr
    /\ f.at = "count" => /\ f.last = 0 /\ f.q = 0
                         /\ Lies(d, f.addr, Code(tree, n), e)
    /\ f.at = "items" => /\ f.q = 0 /\ f.left \in 0 .. Count(tree, n)
                         /\ f.last = Before(tree, n, Turn(tree, n, f))
                         /\ Lies(d, f.addr, ItemsFrom(tree, n, Turn(tree, n, f)), e)
    /\ f.at = "quads" => f.q \in 0 .. 4 /\ Lies(d, f.addr, QuadsFrom(tree, n, f.q), e)
    /\ f.at = "called" => /\ f.q \in 0 .. 3 /\ f.qsize \in Nat
                          /\ Lies(d, f.addr + f.qsize, QuadsFrom(tree, n, f.q + 1), e)

(* The segments a call has yet to come to.                                 *)
Pending(tree, f, n) ==
    IF f.at = "count" THEN Under(tree, n)
    ELSE IF f.at = "items" THEN Own(tree, n, Turn(tree, n, f)) \cup Kids(tree, n, 0)
    ELSE IF f.at = "quads" THEN Kids(tree, n, f.q)
    ELSE Kids(tree, n, f.q + 1)

Walks(tree, d, fr, g) ==
    /\ fr \in Seq(SFrame) /\ g \in Seq(Nat) /\ Len(g) = Len(fr)
    /\ \A i \in 1 .. Len(fr) : Good(tree, d, fr[i], g[i], EndOf(d, fr, i))

PendingAt(tree, fr, g, i) == Pending(tree, fr[i], g[i])

(* What has been found of M, H, and what is pending make up M, and nothing *)
(* is in two places.                                                       *)
Accounts(tree, fr, g, H, M) ==
    /\ H \subseteq M
    /\ \A k \in 1 .. Len(fr) : \A i : i \in PendingAt(tree, fr, g, k) => i \notin H
    /\ \A k, l \in 1 .. Len(fr) : k # l => \A i :
          ~ (i \in PendingAt(tree, fr, g, k) /\ i \in PendingAt(tree, fr, g, l))
    /\ \A i \in M : i \in H \/ \E k \in 1 .. Len(fr) : i \in PendingAt(tree, fr, g, k)

-----------------------------------------------------------------------------
Adds(g, c, h) == h = <<c>> \o g

(* The three ways in which a stack s becomes t.                            *)
GoesOn(s, f, t) == t = <<f>> \o Tail(s)
CallsOn(s, e, f, t) == t = <<e, f>> \o Tail(s)
Returns(s, t) == t = Tail(s)

(* The rest of a stack.                                                    *)
LEMMA TailIs ==
    ASSUME NEW S, NEW s \in Seq(S), s # <<>>
    PROVE  \E u \in Seq(S) : /\ u = Tail(s) /\ Len(u) = Len(s) - 1
                             /\ Len(s) \in Nat /\ Len(s) >= 1 /\ Len(u) \in Nat
                             /\ \A k \in 2 .. Len(s) : Same(u[k - 1], s[k])
<1>1. Tail(s) \in Seq(S) /\ Len(Tail(s)) = Len(s) - 1 /\ Len(s) \in Nat /\ Len(s) >= 1
    OBVIOUS
<1>2. \A k \in 2 .. Len(s) : Tail(s)[k - 1] = s[k]
    OBVIOUS
<1>3. \A k \in 2 .. Len(s) : Same(Tail(s)[k - 1], s[k])
    BY <1>2 DEF Same
<1>4. Len(Tail(s)) \in Nat
    BY <1>1
<1>5. QED
    BY <1>1, <1>3, <1>4, Zenon

(* The top of a stack replaced.                                            *)
LEMMA OnTop ==
    ASSUME NEW S, NEW s \in Seq(S), s # <<>>, NEW f \in S, NEW t, GoesOn(s, f, t)
    PROVE  /\ t \in Seq(S) /\ Len(t) = Len(s) /\ Len(s) \in Nat /\ Len(s) >= 1
           /\ t[1] = f /\ \A k \in 2 .. Len(s) : Same(t[k], s[k])
    BY DEF Same, GoesOn

(* A call made by the frame on top.                                        *)
LEMMA TwoOnTop ==
    ASSUME NEW S, NEW s \in Seq(S), s # <<>>, NEW e \in S, NEW f \in S,
           NEW t, CallsOn(s, e, f, t)
    PROVE  /\ t \in Seq(S) /\ Len(t) = Len(s) + 1 /\ Len(s) \in Nat /\ Len(s) >= 1
           /\ t[1] = e /\ t[2] = f /\ \A k \in 2 .. Len(s) : Same(t[k + 1], s[k])
<1>1. PICK u \in Seq(S) : /\ u = Tail(s) /\ Len(u) = Len(s) - 1
                          /\ Len(s) \in Nat /\ Len(s) >= 1 /\ Len(u) \in Nat
                          /\ \A k \in 2 .. Len(s) : Same(u[k - 1], s[k])
    BY TailIs, Zenon
<1>2. PICK v : v = <<e, f>> \o u
    OBVIOUS
<1>3. t = v
    BY <1>1, <1>2, Zenon DEF CallsOn
<1>4. /\ Len(v) = 2 + Len(u) /\ v \in Seq(S) /\ v[1] = e /\ v[2] = f
      /\ \A k \in 1 .. Len(u) : v[k + 2] = u[k]
    BY <1>2
<1>6. ASSUME NEW k \in 2 .. Len(s) PROVE Same(v[k + 1], s[k])
    <2>1. PICK j \in 1 .. Len(u) : j = k - 1 /\ j + 2 = k + 1
        BY <1>1
    <2>2. v[j + 2] = u[j]
        BY <1>4
    <2>3. u[j] = s[k]
        BY <1>1, <2>1 DEF Same
    <2>4. QED
        BY <2>1, <2>2, <2>3 DEF Same
<1>7. Len(v) = Len(s) + 1
    BY <1>1, <1>4
<1>8. QED
    BY <1>1, <1>3, <1>4, <1>6, <1>7, Zenon

(* The top of a stack taken off.                                           *)
LEMMA OffTop ==
    ASSUME NEW S, NEW s \in Seq(S), s # <<>>, NEW t, Returns(s, t)
    PROVE  /\ t \in Seq(S) /\ Len(t) = Len(s) - 1 /\ Len(s) \in Nat /\ Len(s) >= 1
           /\ \A k \in 1 .. Len(s) - 1 : Same(t[k], s[k + 1])
    BY DEF Same, Returns

(* The ends of the outer calls' bytes do not depend on the innermost.      *)
LEMMA EndsKept ==
    ASSUME NEW d, NEW fr \in Seq(SFrame), fr # <<>>, NEW f \in SFrame,
           NEW tr, GoesOn(fr, f, tr), NEW i \in 1 .. Len(fr)
    PROVE  Same(EndOf(d, tr, i), EndOf(d, fr, i))
<1>1. /\ tr \in Seq(SFrame) /\ Len(tr) = Len(fr) /\ Len(fr) \in Nat /\ Len(fr) >= 1
      /\ tr[1] = f /\ \A k \in 2 .. Len(fr) : Same(tr[k], fr[k])
    BY OnTop, Zenon
<1>2. CASE i = Len(fr)
    BY <1>1, <1>2 DEF EndOf, Same
<1>3. CASE i # Len(fr)
    <2>1. i + 1 \in 2 .. Len(fr)
        BY <1>1, <1>3
    <2>2. tr[i + 1] = fr[i + 1]
        BY <1>1, <2>1 DEF Same
    <2>3. QED
        BY <1>1, <1>3, <2>2 DEF EndOf, Same
<1>4. QED
    BY <1>2, <1>3

(* The new call ends where its caller will go on; the others end where     *)
(* they did.                                                               *)
LEMMA EndsPushed ==
    ASSUME NEW d, NEW fr \in Seq(SFrame), fr # <<>>, NEW e \in SFrame, NEW f \in SFrame,
           NEW tr, CallsOn(fr, e, f, tr)
    PROVE  /\ Same(EndOf(d, tr, 1), f.addr + f.qsize)
           /\ \A i \in 1 .. Len(fr) : Same(EndOf(d, tr, i + 1), EndOf(d, fr, i))
<1>1. /\ tr \in Seq(SFrame) /\ Len(tr) = Len(fr) + 1 /\ Len(fr) \in Nat /\ Len(fr) >= 1
      /\ tr[1] = e /\ tr[2] = f /\ \A k \in 2 .. Len(fr) : Same(tr[k + 1], fr[k])
    BY TwoOnTop, Zenon
<1>2. Same(EndOf(d, tr, 1), f.addr + f.qsize)
    BY <1>1 DEF EndOf, Same
<1>3. ASSUME NEW i \in 1 .. Len(fr) PROVE Same(EndOf(d, tr, i + 1), EndOf(d, fr, i))
    <2>1. CASE i = Len(fr)
        BY <1>1, <2>1 DEF EndOf, Same
    <2>2. CASE i # Len(fr)
        <3>1. i + 1 \in 2 .. Len(fr)
            BY <1>1, <2>2
        <3>2. tr[(i + 1) + 1] = fr[i + 1]
            BY <1>1, <3>1 DEF Same
        <3>3. QED
            BY <1>1, <2>2, <3>2 DEF EndOf, Same
    <2>3. QED
        BY <2>1, <2>2
<1>4. QED
    BY <1>2, <1>3

(* A call that has returned leaves the others' ends alone.                 *)
LEMMA EndsPopped ==
    ASSUME NEW d, NEW fr \in Seq(SFrame), fr # <<>>, NEW tr, Returns(fr, tr),
           NEW i \in 1 .. Len(fr) - 1
    PROVE  Same(EndOf(d, tr, i), EndOf(d, fr, i + 1))
<1>1. /\ Len(tr) = Len(fr) - 1 /\ Len(fr) \in Nat /\ Len(fr) >= 1
      /\ \A k \in 1 .. Len(fr) - 1 : Same(tr[k], fr[k + 1])
    BY OffTop, Zenon
<1>2. CASE i = Len(fr) - 1
    BY <1>1, <1>2 DEF EndOf, Same
<1>3. CASE i # Len(fr) - 1
    <2>1. i + 1 \in 1 .. Len(fr) - 1
        BY <1>1, <1>3
    <2>2. tr[i + 1] = fr[(i + 1) + 1]
        BY <1>1, <2>1 DEF Same
    <2>3. QED
        BY <1>1, <1>3, <2>2 DEF EndOf, Same
<1>4. QED
    BY <1>2, <1>3

-----------------------------------------------------------------------------
(* How the walk changes when the innermost call goes on, calls, returns.   *)
LEMMA WalkUpdates ==
    ASSUME NEW tree, NEW d, NEW fr, NEW g, Walks(tree, d, fr, g), fr # <<>>,
           NEW f \in SFrame, Good(tree, d, f, g[1], EndOf(d, fr, 1)),
           NEW tr, GoesOn(fr, f, tr)
    PROVE  Walks(tree, d, tr, g)
<1>1. fr \in Seq(SFrame) /\ g \in Seq(Nat) /\ Len(g) = Len(fr)
    BY DEF Walks
<1>2. /\ tr \in Seq(SFrame) /\ Len(tr) = Len(fr) /\ Len(fr) \in Nat /\ Len(fr) >= 1
      /\ tr[1] = f /\ \A k \in 2 .. Len(fr) : Same(tr[k], fr[k])
    BY <1>1, OnTop, Zenon
<1>3. ASSUME NEW i \in 1 .. Len(tr) PROVE Good(tree, d, tr[i], g[i], EndOf(d, tr, i))
    <2>1. Same(EndOf(d, tr, i), EndOf(d, fr, i))
        BY <1>1, <1>2, EndsKept
    <2>2. CASE i = 1
        BY <1>2, <2>1, <2>2 DEF Same
    <2>3. CASE i # 1
        <3>1. i \in 2 .. Len(fr) /\ i \in 1 .. Len(fr)
            BY <1>2, <2>3
        <3>2. tr[i] = fr[i]
            BY <1>2, <3>1 DEF Same
        <3>3. Good(tree, d, fr[i], g[i], EndOf(d, fr, i))
            BY <3>1, Zenon DEF Walks
        <3>4. QED
            BY <2>1, <3>2, <3>3 DEF Same
    <2>4. QED
        BY <2>2, <2>3
<1>4. QED
    BY <1>1, <1>2, <1>3, Zenon DEF Walks

(* Making a call keeps every frame on its node,                            *)
LEMMA WalkCalls ==
    ASSUME NEW tree, NEW d, NEW fr, NEW g, Walks(tree, d, fr, g), fr # <<>>,
           NEW e \in SFrame, NEW f \in SFrame, NEW c \in Nat,
           Good(tree, d, e, c, f.addr + f.qsize),
           Good(tree, d, f, g[1], EndOf(d, fr, 1)),
           NEW tr, CallsOn(fr, e, f, tr), NEW h, Adds(g, c, h)
    PROVE  Walks(tree, d, tr, h)
<1>1. fr \in Seq(SFrame) /\ g \in Seq(Nat) /\ Len(g) = Len(fr)
    BY DEF Walks
<1>2. /\ tr \in Seq(SFrame) /\ Len(tr) = Len(fr) + 1 /\ Len(fr) \in Nat /\ Len(fr) >= 1
      /\ tr[1] = e /\ tr[2] = f /\ \A k \in 2 .. Len(fr) : Same(tr[k + 1], fr[k])
    BY <1>1, TwoOnTop, Zenon
<1>3. /\ h \in Seq(Nat) /\ Len(h) = Len(g) + 1 /\ h[1] = c
      /\ \A i \in 1 .. Len(g) : Same(h[i + 1], g[i])
    BY <1>1 DEF Same, Adds
<1>4. /\ Same(EndOf(d, tr, 1), f.addr + f.qsize)
      /\ \A i \in 1 .. Len(fr) : Same(EndOf(d, tr, i + 1), EndOf(d, fr, i))
    BY <1>1, EndsPushed
<1>5. ASSUME NEW i \in 1 .. Len(tr) PROVE Good(tree, d, tr[i], h[i], EndOf(d, tr, i))
    <2>1. CASE i = 1
        BY <1>2, <1>3, <1>4, <2>1 DEF Same
    <2>2. CASE i # 1
        <3>0. PICK m \in Nat : m = Len(fr) /\ i \in 1 .. m + 1
            BY <1>2, Zenon
        <3>1. PICK j \in 1 .. Len(fr) : i = j + 1
            <4>1. i - 1 \in 1 .. m /\ i = (i - 1) + 1
                BY <2>2, <3>0
            <4>2. QED
                BY <3>0, <4>1
        <3>2. h[i] = g[j] /\ EndOf(d, tr, i) = EndOf(d, fr, j)
            BY <1>1, <1>3, <1>4, <3>1 DEF Same
        <3>3. CASE j = 1
            <4>1. tr[i] = f
                BY <1>2, <3>1, <3>3
            <4>2. QED
                BY <3>2, <3>3, <4>1, Zenon
        <3>4. CASE j # 1
            <4>1. j \in 2 .. Len(fr)
                BY <1>2, <3>4
            <4>2. tr[i] = fr[j]
                BY <1>2, <3>1, <4>1 DEF Same
            <4>3. Good(tree, d, fr[j], g[j], EndOf(d, fr, j))
                BY Zenon DEF Walks
            <4>4. QED
                BY <3>2, <4>2, <4>3, Zenon
        <3>5. QED
            BY <3>3, <3>4
    <2>3. QED
        BY <2>1, <2>2
<1>6. QED
    BY <1>1, <1>2, <1>3, <1>5, Zenon DEF Walks

(* and so does returning from one.                                         *)
LEMMA WalkReturns ==
    ASSUME NEW tree, NEW d, NEW fr, NEW g, Walks(tree, d, fr, g), fr # <<>>,
           NEW tr, Returns(fr, tr), NEW h, Returns(g, h)
    PROVE  Walks(tree, d, tr, h)
<1>1. fr \in Seq(SFrame) /\ g \in Seq(Nat) /\ Len(g) = Len(fr)
    BY DEF Walks
<1>2. /\ tr \in Seq(SFrame) /\ Len(tr) = Len(fr) - 1 /\ Len(fr) \in Nat /\ Len(fr) >= 1
      /\ \A k \in 1 .. Len(fr) - 1 : Same(tr[k], fr[k + 1])
    BY <1>1, OffTop, Zenon
<1>3. g # <<>>
    BY <1>1, <1>2
<1>4. /\ h \in Seq(Nat) /\ Len(h) = Len(g) - 1
      /\ \A k \in 1 .. Len(g) - 1 : Same(h[k], g[k + 1])
    BY <1>1, <1>3, OffTop, Zenon
<1>5. ASSUME NEW i \in 1 .. Len(tr) PROVE Good(tree, d, tr[i], h[i], EndOf(d, tr, i))
    <2>1. PICK j \in 1 .. Len(fr) : j = i + 1 /\ i \in 1 .. Len(fr) - 1
        BY <1>2
    <2>2. tr[i] = fr[j] /\ h[i] = g[j]
        BY <1>1, <1>2, <1>4, <2>1 DEF Same
    <2>3. EndOf(d, tr, i) = EndOf(d, fr, j)
        BY <1>1, <2>1, EndsPopped DEF Same
    <2>4. Good(tree, d, fr[j], g[j], EndOf(d, fr, j))
        BY Zenon DEF Walks
    <2>5. QED
        BY <2>2, <2>3, <2>4, Zenon
<1>6. QED
    BY <1>1, <1>2, <1>4, <1>5, Zenon DEF Walks

-----------------------------------------------------------------------------
(* What has been found and what is ahead.                                  *)

(* How the account changes with the stack.                                 *)
LEMMA AccountUpdates ==
    ASSUME NEW tree, NEW fr \in Seq(SFrame), fr # <<>>, NEW f \in SFrame, NEW tr,
           GoesOn(fr, f, tr), NEW g, NEW H, NEW K, NEW M, Accounts(tree, fr, g, H, M),
           H \subseteq K, K \subseteq M,
           \A i : i \in Pending(tree, f, g[1]) => i \in PendingAt(tree, fr, g, 1) /\ i \notin K,
           \A i \in K : i \in H \/ i \in PendingAt(tree, fr, g, 1),
           \A i : i \in PendingAt(tree, fr, g, 1) =>
              i \in Pending(tree, f, g[1]) \/ i \in K \/ i \notin M
    PROVE  Accounts(tree, tr, g, K, M)
<1>1. /\ tr \in Seq(SFrame) /\ Len(tr) = Len(fr) /\ Len(fr) \in Nat /\ Len(fr) >= 1
      /\ tr[1] = f /\ \A k \in 2 .. Len(fr) : Same(tr[k], fr[k])
    BY OnTop, Zenon
<1>2. PICK n \in Nat : n = Len(fr) /\ n = Len(tr) /\ 1 \in 1 .. n
    BY <1>1
<1>3. \A k \in 1 .. n : k = 1 \/ k \in 2 .. n
    OBVIOUS
<1>4. \A i : i \in PendingAt(tree, tr, g, 1) <=> i \in Pending(tree, f, g[1])
    BY <1>1, Zenon DEF PendingAt
<1>5. ASSUME NEW k \in 2 .. n
      PROVE  \A i : i \in PendingAt(tree, tr, g, k) <=> i \in PendingAt(tree, fr, g, k)
    <2>1. tr[k] = fr[k]
        BY <1>1, <1>2 DEF Same
    <2>2. QED
        BY <2>1, Zenon DEF PendingAt
<1>a. /\ \A k \in 1 .. n : \A i : i \in PendingAt(tree, fr, g, k) => i \notin H
      /\ \A k, l \in 1 .. n : k # l => \A i :
            ~ (i \in PendingAt(tree, fr, g, k) /\ i \in PendingAt(tree, fr, g, l))
      /\ \A i \in M : i \in H \/ \E k \in 1 .. n : i \in PendingAt(tree, fr, g, k)
    BY <1>2, Zenon DEF Accounts
<1>b. \A k \in 1 .. n : \A i : i \in PendingAt(tree, tr, g, k) => i \in PendingAt(tree, fr, g, k)
    BY <1>3, <1>4, <1>5, Zenon
<1>c. \A k \in 2 .. n : k \in 1 .. n /\ k # 1
    OBVIOUS
<1>6. ASSUME NEW k \in 1 .. n, NEW i, i \in PendingAt(tree, tr, g, k), i \in K
      PROVE  FALSE
    <2>1. CASE k = 1
        BY <1>4, <1>6, <2>1, Zenon
    <2>2. CASE k \in 2 .. n
        BY <1>2, <1>6, <1>a, <1>b, <1>c, <2>2, Zenon
    <2>3. QED
        BY <1>3, <2>1, <2>2, Zenon
<1>7. ASSUME NEW k \in 1 .. n, NEW l \in 1 .. n, k # l, NEW i,
             i \in PendingAt(tree, tr, g, k), i \in PendingAt(tree, tr, g, l)
      PROVE  FALSE
    BY <1>7, <1>a, <1>b, Zenon
<1>8. ASSUME NEW i \in M
      PROVE  i \in K \/ \E k \in 1 .. n : i \in PendingAt(tree, tr, g, k)
    <2>1. CASE i \in H
        BY <2>1, Zenon
    <2>2. ASSUME NEW k \in 1 .. n, i \in PendingAt(tree, fr, g, k)
          PROVE  i \in K \/ \E l \in 1 .. n : i \in PendingAt(tree, tr, g, l)
        <3>1. CASE k = 1
            BY <1>2, <1>4, <2>2, <3>1, Zenon
        <3>2. CASE k \in 2 .. n
            BY <1>5, <2>2, <3>2, Zenon
        <3>3. QED
            BY <1>3, <3>1, <3>2, Zenon
    <2>3. QED
        BY <1>a, <2>1, <2>2, Zenon
<1>9. QED
    BY <1>2, <1>6, <1>7, <1>8, Zenon DEF Accounts

(* A call takes over a part of what its caller had ahead of it.            *)
LEMMA AccountCalls ==
    ASSUME NEW tree, NEW fr \in Seq(SFrame), fr # <<>>, NEW e \in SFrame, NEW f \in SFrame,
           NEW tr, CallsOn(fr, e, f, tr), NEW g \in Seq(Nat), Len(g) = Len(fr),
           NEW c \in Nat, NEW h, Adds(g, c, h), NEW H, NEW M, Accounts(tree, fr, g, H, M),
           \A i : i \in PendingAt(tree, fr, g, 1) <=>
                     i \in Pending(tree, e, c) \/ i \in Pending(tree, f, g[1]),
           \A i : ~ (i \in Pending(tree, e, c) /\ i \in Pending(tree, f, g[1]))
    PROVE  Accounts(tree, tr, h, H, M)
<1>1. /\ tr \in Seq(SFrame) /\ Len(tr) = Len(fr) + 1 /\ Len(fr) \in Nat /\ Len(fr) >= 1
      /\ tr[1] = e /\ tr[2] = f /\ \A k \in 2 .. Len(fr) : Same(tr[k + 1], fr[k])
    BY TwoOnTop, Zenon
<1>h. /\ h \in Seq(Nat) /\ Len(h) = Len(g) + 1 /\ h[1] = c
      /\ \A i \in 1 .. Len(g) : Same(h[i + 1], g[i])
    BY DEF Same, Adds
<1>2. PICK n \in Nat : n = Len(fr) /\ n + 1 = Len(tr) /\ n = Len(g) /\ n >= 1
    BY <1>1
<1>3. \A k \in 1 .. n + 1 : k = 1 \/ k = 2 \/ \E l \in 2 .. n : k = l + 1
    <2> SUFFICES ASSUME NEW k \in 1 .. n + 1, k # 1, k # 2
                 PROVE  \E l \in 2 .. n : k = l + 1
        OBVIOUS
    <2>1. k - 1 \in 2 .. n /\ k = (k - 1) + 1
        OBVIOUS
    <2>2. QED
        BY <2>1
<1>n. 1 \in 1 .. n /\ 1 \in 1 .. n + 1 /\ 2 \in 1 .. n + 1 /\ (1 + 1) = 2
    BY <1>2
<1>4. \A i : i \in PendingAt(tree, tr, h, 1) <=> i \in Pending(tree, e, c)
    BY <1>1, <1>h, Zenon DEF PendingAt
<1>5. \A i : i \in PendingAt(tree, tr, h, 2) <=> i \in Pending(tree, f, g[1])
    <2>1. h[2] = g[1]
        BY <1>2, <1>h, <1>n DEF Same
    <2>2. QED
        BY <1>1, <2>1, Zenon DEF PendingAt
<1>6. ASSUME NEW k \in 2 .. n
      PROVE  \A i : i \in PendingAt(tree, tr, h, k + 1) <=> i \in PendingAt(tree, fr, g, k)
    <2>1. tr[k + 1] = fr[k]
        BY <1>1, <1>2 DEF Same
    <2>2. h[k + 1] = g[k]
        BY <1>2, <1>h DEF Same
    <2>3. QED
        BY <2>1, <2>2, Zenon DEF PendingAt
<1>a. /\ H \subseteq M
      /\ \A k \in 1 .. n : \A i : i \in PendingAt(tree, fr, g, k) => i \notin H
      /\ \A k, l \in 1 .. n : k # l => \A i :
            ~ (i \in PendingAt(tree, fr, g, k) /\ i \in PendingAt(tree, fr, g, l))
      /\ \A i \in M : i \in H \/ \E k \in 1 .. n : i \in PendingAt(tree, fr, g, k)
    BY <1>2, Zenon DEF Accounts
<1>c. \A k \in 2 .. n : k \in 1 .. n /\ k # 1 /\ k + 1 \in 1 .. n + 1
    BY <1>2
<1>d. \A k \in 1 .. n : k = 1 \/ k \in 2 .. n
    OBVIOUS
<1>7. ASSUME NEW k \in 1 .. n + 1, NEW i, i \in PendingAt(tree, tr, h, k)
      PROVE  \/ k = 1 /\ i \in Pending(tree, e, c) /\ i \in PendingAt(tree, fr, g, 1)
             \/ k = 2 /\ i \in Pending(tree, f, g[1]) /\ i \in PendingAt(tree, fr, g, 1)
             \/ \E l \in 2 .. n : k = l + 1 /\ i \in PendingAt(tree, fr, g, l)
    <2>1. CASE k = 1
        BY <1>4, <1>7, <2>1, Zenon
    <2>2. CASE k = 2
        BY <1>5, <1>7, <2>2, Zenon
    <2>3. ASSUME NEW l \in 2 .. n, k = l + 1
          PROVE  i \in PendingAt(tree, fr, g, l)
        BY <1>6, <1>7, <2>3, Zenon
    <2>4. QED
        BY <1>3, <2>1, <2>2, <2>3, Zenon
<1>8. ASSUME NEW k \in 1 .. n + 1, NEW i, i \in PendingAt(tree, tr, h, k)
      PROVE  i \notin H
    <2>1. \E l \in 1 .. n : i \in PendingAt(tree, fr, g, l)
        BY <1>7, <1>8, <1>c, <1>n, Zenon
    <2>2. QED
        BY <1>a, <2>1, Zenon
<1>9. ASSUME NEW k \in 1 .. n + 1, NEW l \in 1 .. n + 1, k # l, NEW i,
             i \in PendingAt(tree, tr, h, k), i \in PendingAt(tree, tr, h, l)
      PROVE  FALSE
    <2>1. \/ k = 1 /\ i \in Pending(tree, e, c) /\ i \in PendingAt(tree, fr, g, 1)
          \/ k = 2 /\ i \in Pending(tree, f, g[1]) /\ i \in PendingAt(tree, fr, g, 1)
          \/ \E j \in 2 .. n : k = j + 1 /\ i \in PendingAt(tree, fr, g, j)
        BY <1>7, <1>9, Zenon
    <2>2. \/ l = 1 /\ i \in Pending(tree, e, c) /\ i \in PendingAt(tree, fr, g, 1)
          \/ l = 2 /\ i \in Pending(tree, f, g[1]) /\ i \in PendingAt(tree, fr, g, 1)
          \/ \E j \in 2 .. n : l = j + 1 /\ i \in PendingAt(tree, fr, g, j)
        BY <1>7, <1>9, Zenon
    <2>3. ASSUME NEW j \in 2 .. n, i \in PendingAt(tree, fr, g, j)
          PROVE  i \notin PendingAt(tree, fr, g, 1)
        BY <1>a, <1>c, <1>n, <2>3, Zenon
    <2>4. ASSUME NEW j \in 2 .. n, NEW m \in 2 .. n, k = j + 1, l = m + 1,
                 i \in PendingAt(tree, fr, g, j), i \in PendingAt(tree, fr, g, m)
          PROVE  FALSE
        <3>1. j # m
            BY <1>9, <2>4
        <3>2. QED
            BY <1>a, <1>c, <2>4, <3>1, Zenon
    <2>5. QED
        BY <1>9, <2>1, <2>2, <2>3, <2>4, Zenon
<1>10. ASSUME NEW i \in M
       PROVE  i \in H \/ \E k \in 1 .. n + 1 : i \in PendingAt(tree, tr, h, k)
    <2>1. ASSUME NEW k \in 1 .. n, i \in PendingAt(tree, fr, g, k)
          PROVE  \E l \in 1 .. n + 1 : i \in PendingAt(tree, tr, h, l)
        <3>1. CASE k = 1
            BY <1>4, <1>5, <1>n, <2>1, <3>1, Zenon
        <3>2. CASE k \in 2 .. n
            BY <1>6, <1>c, <2>1, <3>2, Zenon
        <3>3. QED
            BY <1>d, <3>1, <3>2, Zenon
    <2>2. QED
        BY <1>a, <2>1, Zenon
<1>11. QED
    BY <1>2, <1>8, <1>9, <1>10, <1>a, Zenon DEF Accounts

(* A call that returns has nothing ahead of it.                            *)
LEMMA AccountReturns ==
    ASSUME NEW tree, NEW fr \in Seq(SFrame), fr # <<>>, NEW tr, Returns(fr, tr),
           NEW g \in Seq(Nat), Len(g) = Len(fr), NEW h, Returns(g, h),
           NEW H, NEW M, Accounts(tree, fr, g, H, M),
           \A i : i \notin PendingAt(tree, fr, g, 1)
    PROVE  Accounts(tree, tr, h, H, M)
<1>1. /\ tr \in Seq(SFrame) /\ Len(tr) = Len(fr) - 1 /\ Len(fr) \in Nat /\ Len(fr) >= 1
      /\ \A k \in 1 .. Len(fr) - 1 : Same(tr[k], fr[k + 1])
    BY OffTop, Zenon
<1>2. g # <<>>
    BY <1>1
<1>3. /\ h \in Seq(Nat) /\ Len(h) = Len(g) - 1 /\ Len(g) \in Nat /\ Len(g) >= 1
      /\ \A k \in 1 .. Len(g) - 1 : Same(h[k], g[k + 1])
    BY <1>2, OffTop, Zenon
<1>4. PICK n \in Nat : n = Len(tr) /\ Len(fr) = n + 1 /\ n = Len(g) - 1 /\ n = Len(fr) - 1
    BY <1>1
<1>5. ASSUME NEW k \in 1 .. n
      PROVE  \A i : i \in PendingAt(tree, tr, h, k) <=> i \in PendingAt(tree, fr, g, k + 1)
    <2>1. tr[k] = fr[k + 1] /\ h[k] = g[k + 1]
        BY <1>1, <1>3, <1>4 DEF Same
    <2>2. QED
        BY <2>1, Zenon DEF PendingAt
<1>6. \A k \in 1 .. n : k + 1 \in 1 .. n + 1
    OBVIOUS
<1>7. \A k \in 1 .. n + 1 : k = 1 \/ \E l \in 1 .. n : k = l + 1
    <2> SUFFICES ASSUME NEW k \in 1 .. n + 1, k # 1 PROVE \E l \in 1 .. n : k = l + 1
        OBVIOUS
    <2>1. k - 1 \in 1 .. n /\ k = (k - 1) + 1
        OBVIOUS
    <2>2. QED
        BY <2>1
<1>a. /\ H \subseteq M
      /\ \A k \in 1 .. n + 1 : \A i : i \in PendingAt(tree, fr, g, k) => i \notin H
      /\ \A k, l \in 1 .. n + 1 : k # l => \A i :
            ~ (i \in PendingAt(tree, fr, g, k) /\ i \in PendingAt(tree, fr, g, l))
      /\ \A i \in M : i \in H \/ \E k \in 1 .. n + 1 : i \in PendingAt(tree, fr, g, k)
    BY <1>4, Zenon DEF Accounts
<1>8. \A k \in 1 .. n : \A i : i \in PendingAt(tree, tr, h, k) => i \notin H
    BY <1>5, <1>6, <1>a, Zenon
<1>9. ASSUME NEW k \in 1 .. n, NEW l \in 1 .. n, k # l, NEW i,
             i \in PendingAt(tree, tr, h, k), i \in PendingAt(tree, tr, h, l)
      PROVE  FALSE
    <2>1. k + 1 # l + 1
        BY <1>9
    <2>2. QED
        BY <1>5, <1>6, <1>9, <1>a, <2>1, Zenon
<1>10. ASSUME NEW i \in M
       PROVE  i \in H \/ \E k \in 1 .. n : i \in PendingAt(tree, tr, h, k)
    BY <1>5, <1>7, <1>a, Zenon
<1>11. QED
    BY <1>4, <1>8, <1>9, <1>10, <1>a, Zenon DEF Accounts

-----------------------------------------------------------------------------
(* The steps of one call of qCompressSearch.                               *)

HasFields(h, at, addr, bounds, left, last, q, qsize) ==
    /\ h \in SFrame
    /\ h.at = at /\ h.addr = addr /\ h.bounds = bounds /\ h.left = left
    /\ h.last = last /\ h.q = q /\ h.qsize = qsize

(* The fields of a frame,                                                  *)
LEMMA FrameFields ==
    ASSUME NEW f \in SFrame
    PROVE  /\ f.at \in {"count", "items", "quads", "called"} /\ f.addr \in Int
           /\ f.bounds \in Rect /\ f.left \in Int /\ f.last \in Int /\ f.q \in Int
           /\ f.qsize \in Int
    BY DEF SFrame

(* after the number of items,                                              *)
LEMMA CountFields ==
    ASSUME NEW f \in SFrame, NEW v \in Int, NEW a \in Int
    PROVE  HasFields([f EXCEPT !.at = "items", !.left = v, !.addr = a],
                     "items", a, f.bounds, v, f.last, f.q, f.qsize)
    BY DEF HasFields, SFrame

(* after an item,                                                          *)
LEMMA ItemFields ==
    ASSUME NEW f \in SFrame, NEW v \in Int, NEW a \in Int
    PROVE  HasFields([f EXCEPT !.left = @ - 1, !.last = v, !.addr = a],
                     f.at, a, f.bounds, f.left - 1, v, f.q, f.qsize)
<1>1. PICK l \in Int : l = f.left - 1
    BY FrameFields
<1>2. HasFields([f EXCEPT !.left = l, !.last = v, !.addr = a],
                f.at, a, f.bounds, l, v, f.q, f.qsize)
    BY DEF HasFields, SFrame
<1>3. QED
    BY <1>1, <1>2, Zenon

(* after the flag,                                                         *)
LEMMA FlagFields ==
    ASSUME NEW f \in SFrame
    PROVE  HasFields([f EXCEPT !.at = "quads", !.addr = @ + 1],
                     "quads", f.addr + 1, f.bounds, f.left, f.last, f.q, f.qsize)
<1>1. PICK a \in Int : a = f.addr + 1
    BY FrameFields
<1>2. HasFields([f EXCEPT !.at = "quads", !.addr = a],
                "quads", a, f.bounds, f.left, f.last, f.q, f.qsize)
    BY DEF HasFields, SFrame
<1>3. QED
    BY <1>1, <1>2, Zenon

(* after a quad that is passed over,                                       *)
LEMMA QuadFields ==
    ASSUME NEW f \in SFrame, NEW a \in Int
    PROVE  HasFields([f EXCEPT !.q = @ + 1, !.addr = a],
                     f.at, a, f.bounds, f.left, f.last, f.q + 1, f.qsize)
<1>1. PICK q \in Int : q = f.q + 1
    BY FrameFields
<1>2. HasFields([f EXCEPT !.q = q, !.addr = a],
                f.at, a, f.bounds, f.left, f.last, q, f.qsize)
    BY DEF HasFields, SFrame
<1>3. QED
    BY <1>1, <1>2, Zenon

(* in the call of one that is not,                                         *)
LEMMA CalledFields ==
    ASSUME NEW f \in SFrame, NEW a \in Int, NEW v \in Int
    PROVE  HasFields([f EXCEPT !.at = "called", !.addr = a, !.qsize = v],
                     "called", a, f.bounds, f.left, f.last, f.q, v)
    BY DEF HasFields, SFrame

(* after that call,                                                        *)
LEMMA ResumeFields ==
    ASSUME NEW f \in SFrame
    PROVE  HasFields([f EXCEPT !.at = "quads", !.q = @ + 1, !.addr = @ + f.qsize],
                     "quads", f.addr + f.qsize, f.bounds, f.left, f.last, f.q + 1, f.qsize)
<1>1. PICK q \in Int, a \in Int : q = f.q + 1 /\ a = f.addr + f.qsize
    BY FrameFields
<1>2. HasFields([f EXCEPT !.at = "quads", !.q = q, !.addr = a],
                "quads", a, f.bounds, f.left, f.last, q, f.qsize)
    BY DEF HasFields, SFrame
<1>3. QED
    BY <1>1, <1>2, Zenon

(* and at its start.                                                       *)
LEMMA EnterFields ==
    ASSUME NEW a \in Int, NEW b \in Rect
    PROVE  HasFields(Enter(a, b), "count", a, b, 0, 0, 0, 0)
    BY DEF HasFields, SFrame, Enter

-----------------------------------------------------------------------------
(* One step of a call on a node.                                           *)
Setting(tree, d, s) == IsTreeOf(tree, s) /\ Readably(tree, d)

(* What a search has before it.                                            *)
LEMMA SettingFacts ==
    ASSUME NEW tree, NEW d, NEW s, Setting(tree, d, s)
    PROVE  /\ IsTreeOf(tree, s) /\ Readably(tree, d) /\ IsTree(tree) /\ d \in Seq(Nat)
           /\ Len(d) \in Nat /\ HeaderLen \in Nat
    BY DEF Setting, Readably, IsTreeOf, IsFamily, HeaderLen

(* A call h goes on where f was, with the same segments ahead.             *)
SameCall(tree, d, f, n, e, h) ==
    /\ Good(tree, d, h, n, e)
    /\ \A i : i \in Pending(tree, h, n) <=> i \in Pending(tree, f, n)

(* Having read the number of items the frame is at the first one, with     *)
(* the same segments ahead of it.                                          *)
LEMMA CountGood ==
    ASSUME NEW tree, NEW d, NEW s, Setting(tree, d, s),
           NEW f \in SFrame, f.at = "count", NEW n, NEW e, Good(tree, d, f, n, e),
           NEW r, r = ReadUvarint(d, f.addr)
    PROVE  /\ r.value \in Int /\ r.addr \in Int /\ f.addr < r.addr
           /\ \A h : HasFields(h, "items", r.addr, f.bounds, r.value, f.last, f.q, f.qsize)
                 => /\ Good(tree, d, h, n, e)
                    /\ \A i : i \in Pending(tree, h, n) <=> i \in Pending(tree, f, n)
<1>1. IsTreeOf(tree, s) /\ Readably(tree, d) /\ IsTree(tree) /\ d \in Seq(Nat) /\ HeaderLen \in Nat
    BY SettingFacts, Zenon
<1>2. /\ n \in 1 .. Len(tree) /\ f.bounds = tree[n].bounds /\ HeaderLen <= f.addr
      /\ f.last = 0 /\ f.q = 0 /\ Lies(d, f.addr, Code(tree, n), e)
    BY Zenon DEF Good
<1>3. /\ r.value = Count(tree, n)
      /\ Lies(d, r.addr, ItemsFrom(tree, n, 1), e)
      /\ f.addr < r.addr /\ f.addr \in Nat
    <2>1. PICK a : a = f.addr
        OBVIOUS
    <2>2. Lies(d, a, Code(tree, n), e)
        BY <1>2, <2>1, Zenon
    <2>3. /\ ReadUvarint(d, a).value = Count(tree, n)
          /\ Lies(d, ReadUvarint(d, a).addr, ItemsFrom(tree, n, 1), e)
          /\ a < ReadUvarint(d, a).addr /\ a \in Nat
          /\ a < e /\ e <= Len(d)
        BY <1>1, <1>2, <2>2, ReadsCount, Zenon
    <2>4. QED
        BY <2>1, <2>3, Zenon
<1>4. Count(tree, n) \in Nat
    BY <1>1, <1>2, OwnIs, Zenon
<1>5. r.addr \in Nat
    BY <1>1, <1>3, LiesInside, Zenon
<1>6. r.value \in Int /\ r.addr \in Int /\ HeaderLen <= r.addr
    BY <1>1, <1>2, <1>3, <1>4, <1>5
<1>7. ASSUME NEW h,
             HasFields(h, "items", r.addr, f.bounds, r.value, f.last, f.q, f.qsize)
      PROVE  /\ Good(tree, d, h, n, e)
             /\ \A i : i \in Pending(tree, h, n) <=> i \in Pending(tree, f, n)
    <2>1. /\ h.at = "items" /\ h.addr = r.addr /\ h.bounds = f.bounds
          /\ h.left = Count(tree, n) /\ h.last = 0 /\ h.q = 0
        BY <1>2, <1>3, <1>7, Zenon DEF HasFields
    <2>2. Turn(tree, n, h) = 1
        BY <1>4, <2>1 DEF Turn
    <2>3. Before(tree, n, 1) = 0 /\ h.left \in 0 .. Count(tree, n)
        BY <1>4, <2>1 DEF Before
    <2>4. "items" # "count" /\ "items" # "quads" /\ "items" # "called"
        OBVIOUS
    <2>5. Good(tree, d, h, n, e)
        BY <1>2, <1>3, <1>6, <2>1, <2>2, <2>3, <2>4, Zenon DEF Good
    <2>6. Pending(tree, h, n) = Own(tree, n, 1) \cup Kids(tree, n, 0)
        BY <2>1, <2>2, <2>4, Zenon DEF Pending
    <2>7. Pending(tree, f, n) = Under(tree, n)
        BY Zenon DEF Pending
    <2>8. \A i : i \in Under(tree, n) <=> i \in Own(tree, n, 1) \/ i \in Kids(tree, n, 0)
        BY <1>1, <1>2, UnderIs, Zenon
    <2>9. QED
        BY <2>5, <2>6, <2>7, <2>8, Zenon
<1>8. QED
    BY <1>3, <1>6, <1>7, Zenon

(* A call h is past item v, which its predecessor f was at.                *)
ItemPassed(tree, d, f, n, e, v, h) ==
    /\ Good(tree, d, h, n, e)
    /\ v \notin Pending(tree, h, n)
    /\ \A i : i \in Pending(tree, f, n) <=> i = v \/ i \in Pending(tree, h, n)

(* The items of a node come in order.                                      *)
LEMMA ItemsUp ==
    ASSUME NEW tree, IsTree(tree), NEW n \in 1 .. Len(tree), NEW k \in 1 .. Count(tree, n)
    PROVE  /\ Before(tree, n, k) \in Nat /\ ItemAt(tree, n, k) \in Nat
           /\ Before(tree, n, k) <= ItemAt(tree, n, k)
<1>1. PICK s : s = Sorted(tree[n].items) /\ Increasing(s) /\ Len(s) = Count(tree, n)
    BY SortedIncreasing, Zenon
<1>2. Count(tree, n) \in Nat
    BY SortedIncreasing
<1>3. k \in 1 .. Len(s) /\ k \in Nat
    BY <1>1, <1>2
<1>4. s \in Seq(Nat) /\ \A i, j \in DOMAIN s : i < j => s[i] <= s[j]
    BY <1>1 DEF Increasing
<1>5. s[k] \in Nat
    BY <1>3, <1>4
<1>6. CASE k = 1
    BY <1>1, <1>5, <1>6 DEF Before, ItemAt
<1>7. CASE k # 1
    <2>1. PICK j \in DOMAIN s : j = k - 1 /\ j < k
        BY <1>3, <1>4, <1>7
    <2>2. s[j] \in Nat /\ s[j] <= s[k]
        BY <1>3, <1>4, <2>1
    <2>3. Before(tree, n, k) = s[j] /\ ItemAt(tree, n, k) = s[k]
        BY <1>1, <1>7, <2>1, Zenon DEF Before, ItemAt
    <2>4. QED
        BY <1>5, <2>2, <2>3
<1>8. QED
    BY <1>6, <1>7

(* An item read is a segment that was ahead of the frame and no longer     *)
(* is.                                                                     *)
LEMMA ItemGood ==
    ASSUME NEW tree, NEW d, NEW s, Setting(tree, d, s),
           NEW f \in SFrame, f.at = "items", f.left > 0,
           NEW n, NEW e, Good(tree, d, f, n, e),
           NEW r, r = ReadUvarint(d, f.addr), NEW v, v = r.value + f.last
    PROVE  /\ v \in Numbers(s) /\ r.addr \in Int /\ f.addr < r.addr
           /\ f.last \in Nat /\ f.last <= v
           /\ v \in Pending(tree, f, n)
           /\ \A h : HasFields(h, f.at, r.addr, f.bounds, f.left - 1, v, f.q, f.qsize)
                 => ItemPassed(tree, d, f, n, e, v, h)
<1>1. IsTreeOf(tree, s) /\ Readably(tree, d) /\ IsTree(tree) /\ d \in Seq(Nat) /\ HeaderLen \in Nat
    BY SettingFacts, Zenon
<1>2. /\ n \in 1 .. Len(tree) /\ f.bounds = tree[n].bounds /\ HeaderLen <= f.addr
      /\ f.q = 0 /\ f.left \in 0 .. Count(tree, n)
      /\ f.last = Before(tree, n, Turn(tree, n, f))
      /\ Lies(d, f.addr, ItemsFrom(tree, n, Turn(tree, n, f)), e)
    BY Zenon DEF Good
<1>3. PICK m \in Nat : m = Count(tree, n)
    BY <1>1, <1>2, OwnIs, Zenon
<1>4. PICK k \in 1 .. m : k = Turn(tree, n, f)
    BY <1>2, <1>3 DEF Turn
<1>5. /\ Lies(d, r.addr, ItemsFrom(tree, n, k + 1), e) /\ f.addr < r.addr /\ f.addr \in Nat
      /\ r.value + Before(tree, n, k) = ItemAt(tree, n, k)
    <2>1. Lies(d, f.addr, ItemsFrom(tree, n, k), e) /\ k \in 1 .. Count(tree, n)
        BY <1>2, <1>3, <1>4, Zenon
    <2>2. QED
        BY <1>1, <1>2, <2>1, ReadsItem, Zenon
<1>6. v = ItemAt(tree, n, k)
    BY <1>2, <1>4, <1>5, Zenon
<1>7. /\ v \in Numbers(s) /\ HasItem(tree, n, v) /\ v \notin Own(tree, n, k + 1)
      /\ \A i : i \in Own(tree, n, k) <=> i = v \/ i \in Own(tree, n, k + 1)
      /\ \A i : i \in Own(tree, n, 1) <=> HasItem(tree, n, i)
    <2>1. k \in 1 .. Count(tree, n)
        BY <1>3, Zenon
    <2>2. /\ ItemAt(tree, n, k) \in Numbers(s)
          /\ HasItem(tree, n, ItemAt(tree, n, k))
          /\ ItemAt(tree, n, k) \notin Own(tree, n, k + 1)
        BY <1>1, <1>2, <2>1, OwnIs, Zenon
    <2>3. \A i : i \in Own(tree, n, k) <=>
                   i = ItemAt(tree, n, k) \/ i \in Own(tree, n, k + 1)
        BY <1>1, <1>2, <2>1, OwnIs, Zenon
    <2>4. \A i : i \in Own(tree, n, 1) <=> HasItem(tree, n, i)
        BY <1>1, <1>2, OwnIs, Zenon
    <2>5. QED
        BY <1>6, <2>2, <2>3, <2>4, Zenon
<1>8. v \notin Kids(tree, n, 0)
    BY <1>1, <1>2, <1>7, UnderIs, Zenon
<1>9. r.addr \in Nat
    BY <1>1, <1>5, LiesInside, Zenon
<1>10. r.addr \in Int /\ HeaderLen <= r.addr
    BY <1>1, <1>2, <1>5, <1>9
<1>11. Pending(tree, f, n) = Own(tree, n, k) \cup Kids(tree, n, 0)
    BY <1>4 DEF Pending
<1>12. ASSUME NEW h, HasFields(h, f.at, r.addr, f.bounds, f.left - 1, v, f.q, f.qsize)
      PROVE  ItemPassed(tree, d, f, n, e, v, h)
    <2>1. /\ h.at = "items" /\ h.addr = r.addr /\ h.bounds = f.bounds
          /\ h.left = f.left - 1 /\ h.last = v /\ h.q = 0
        BY <1>2, <1>12, Zenon DEF HasFields
    <2>2. Turn(tree, n, h) = k + 1 /\ h.left \in 0 .. Count(tree, n)
        BY <1>2, <1>3, <1>4, <2>1 DEF Turn
    <2>3. Before(tree, n, k + 1) = v
        <3>1. k + 1 # 1 /\ (k + 1) - 1 = k
            OBVIOUS
        <3>2. QED
            BY <1>6, <3>1, Zenon DEF Before
    <2>4. "items" # "count" /\ "items" # "quads" /\ "items" # "called"
        OBVIOUS
    <2>5. Good(tree, d, h, n, e)
        BY <1>2, <1>5, <1>10, <2>1, <2>2, <2>3, <2>4, Zenon DEF Good
    <2>6. Pending(tree, h, n) = Own(tree, n, k + 1) \cup Kids(tree, n, 0)
        BY <2>1, <2>2, <2>4, Zenon DEF Pending
    <2>7. QED
        BY <1>7, <1>8, <1>11, <2>5, <2>6, Zenon DEF ItemPassed
<1>13. v \in Pending(tree, f, n)
    BY <1>7, <1>11, Zenon
<1>14. f.last \in Nat /\ f.last <= v
    <2>1. k \in 1 .. Count(tree, n)
        BY <1>3, Zenon
    <2>2. /\ Before(tree, n, k) \in Nat /\ ItemAt(tree, n, k) \in Nat
          /\ Before(tree, n, k) <= ItemAt(tree, n, k)
        BY <1>1, <1>2, <2>1, ItemsUp, Zenon
    <2>3. QED
        BY <1>2, <1>4, <1>6, <2>2, Zenon
<1>15. QED
    BY <1>5, <1>7, <1>10, <1>12, <1>13, <1>14, Zenon

(* Without quads nothing is ahead after the items; with quads, what is     *)
(* below them.                                                             *)
LEMMA FlagGood ==
    ASSUME NEW tree, NEW d, NEW s, Setting(tree, d, s),
           NEW f \in SFrame, f.at = "items", f.left = 0,
           NEW n, NEW e, Good(tree, d, f, n, e)
    PROVE  /\ At(d, f.addr) # 1 => /\ \A i : i \notin Pending(tree, f, n)
           /\ At(d, f.addr) = 0 => f.addr + 1 = e
           /\ f.addr < e /\ e <= Len(d)
           /\ At(d, f.addr) = 1 =>
                 \A h : HasFields(h, "quads", f.addr + 1, f.bounds, f.left, f.last, f.q, f.qsize)
                    => /\ Good(tree, d, h, n, e)
                       /\ \A i : i \in Pending(tree, h, n) <=> i \in Pending(tree, f, n)
<1>1. IsTreeOf(tree, s) /\ Readably(tree, d) /\ IsTree(tree) /\ d \in Seq(Nat) /\ HeaderLen \in Nat
    BY SettingFacts, Zenon
<1>2. /\ n \in 1 .. Len(tree) /\ f.bounds = tree[n].bounds /\ HeaderLen <= f.addr
      /\ f.q = 0 /\ f.left \in 0 .. Count(tree, n)
      /\ Lies(d, f.addr, ItemsFrom(tree, n, Turn(tree, n, f)), e)
    BY Zenon DEF Good
<1>3. Count(tree, n) \in Nat /\ Own(tree, n, Count(tree, n) + 1) = {}
    BY <1>1, <1>2, OwnIs, Zenon
<1>4. Turn(tree, n, f) = Count(tree, n) + 1
    BY <1>3 DEF Turn
<1>5. tree[n].split \in BOOLEAN
    BY <1>1, <1>2, Zenon DEF IsTreeOf
<1>6. /\ At(d, f.addr) = 1 <=> tree[n].split
      /\ ~ tree[n].split => At(d, f.addr) = 0 /\ e = f.addr + 1
      /\ tree[n].split => Lies(d, f.addr + 1, QuadsFrom(tree, n, 0), e)
      /\ f.addr < e /\ e <= Len(d) /\ f.addr \in Nat
    <2>1. Lies(d, f.addr, ItemsFrom(tree, n, Count(tree, n) + 1), e)
        BY <1>2, <1>4, Zenon
    <2>2. QED
        BY <1>1, <1>2, <1>5, <2>1, ReadsFlag, Zenon
<1>7. Pending(tree, f, n) = Kids(tree, n, 0)
    <2>1. Pending(tree, f, n) = Own(tree, n, Count(tree, n) + 1) \cup Kids(tree, n, 0)
        BY <1>4 DEF Pending
    <2>2. QED
        BY <1>3, <2>1
<1>8. ASSUME At(d, f.addr) # 1 PROVE \A i : i \notin Pending(tree, f, n)
    <2>1. Kids(tree, n, 0) = {}
        BY <1>1, <1>2, <1>6, <1>8, KidsIs, Zenon
    <2>2. QED
        BY <1>7, <2>1
<1>9. ASSUME At(d, f.addr) = 0 PROVE f.addr + 1 = e
    BY <1>6, <1>9
<1>10. ASSUME At(d, f.addr) = 1, NEW h,
              HasFields(h, "quads", f.addr + 1, f.bounds, f.left, f.last, f.q, f.qsize)
       PROVE  /\ Good(tree, d, h, n, e)
              /\ \A i : i \in Pending(tree, h, n) <=> i \in Pending(tree, f, n)
    <2>1. /\ h.at = "quads" /\ h.addr = f.addr + 1 /\ h.bounds = f.bounds /\ h.q = 0
        BY <1>2, <1>10, Zenon DEF HasFields
    <2>2. Lies(d, h.addr, QuadsFrom(tree, n, 0), e)
        BY <1>6, <1>10, <2>1, Zenon
    <2>3. HeaderLen <= h.addr /\ h.q \in 0 .. 4
        BY <1>1, <1>2, <1>6, <2>1
    <2>4. "quads" # "count" /\ "items" # "quads" /\ "quads" # "called"
        OBVIOUS
    <2>5. Good(tree, d, h, n, e)
        BY <1>2, <2>1, <2>2, <2>3, <2>4, Zenon DEF Good
    <2>6. Pending(tree, h, n) = Kids(tree, n, 0)
        BY <2>1, <2>4, Zenon DEF Pending
    <2>7. QED
        BY <1>7, <2>5, <2>6, Zenon
<1>11. QED
    BY <1>6, <1>8, <1>9, <1>10, Zenon

(* Node c is the quad that f has come to; r is its length, read.           *)
QuadAhead(tree, d, f, n, e, r, c) ==
    /\ tree[c].bounds = QuadBounds(f.bounds, f.q) /\ tree[c].bounds \in Rect
    /\ \A i : i \in Pending(tree, f, n) <=>
                 i \in Under(tree, c) \/ i \in Kids(tree, n, f.q + 1)
    /\ \A i : ~ (i \in Under(tree, c) /\ i \in Kids(tree, n, f.q + 1))
    /\ Lies(d, r.addr, Code(tree, c), r.addr + r.value)
    /\ Lies(d, r.addr + r.value, QuadsFrom(tree, n, f.q + 1), e)

(* A call h has the quads from the q-th on ahead.                          *)
AtQuads(tree, d, h, n, e, q) ==
    Good(tree, d, h, n, e) /\ Pending(tree, h, n) = Kids(tree, n, q)

(* A quad that is nil is passed over and nothing is below it; one that is  *)
(* not is where its bounds and its length say.                             *)
LEMMA QuadGood ==
    ASSUME NEW tree, NEW d, NEW s, Setting(tree, d, s),
           NEW f \in SFrame, f.at = "quads", f.q < 4,
           NEW n, NEW e, Good(tree, d, f, n, e),
           NEW r, r = ReadUvarint(d, f.addr)
    PROVE  /\ r.value \in Nat /\ r.addr \in Nat /\ f.q \in 0 .. 3
           /\ f.addr < e /\ e <= Len(d) /\ HeaderLen <= r.addr /\ f.addr < r.addr
           /\ r.value = 0 =>
                 \A h : HasFields(h, f.at, r.addr, f.bounds, f.left, f.last, f.q + 1, f.qsize)
                    => SameCall(tree, d, f, n, e, h)
           /\ r.value # 0 =>
                 \E c \in 1 .. Len(tree) : QuadAhead(tree, d, f, n, e, r, c)
<1>1. IsTreeOf(tree, s) /\ Readably(tree, d) /\ IsTree(tree) /\ d \in Seq(Nat) /\ HeaderLen \in Nat
    BY SettingFacts, Zenon
<1>2. /\ n \in 1 .. Len(tree) /\ f.bounds = tree[n].bounds /\ HeaderLen <= f.addr
      /\ f.q \in 0 .. 4 /\ Lies(d, f.addr, QuadsFrom(tree, n, f.q), e)
    BY Zenon DEF Good
<1>3. PICK q \in 0 .. 3 : q = f.q
    BY <1>2
<1>4. PICK a : a = f.addr
    OBVIOUS
<1>5. PICK c : c = tree[n].quads[q]
    OBVIOUS
<1>6. /\ r.value = 0 <=> c = 0
      /\ r.value \in Nat /\ r.addr \in Nat /\ a < r.addr /\ a \in Nat
      /\ a < e /\ e <= Len(d)
      /\ c = 0 => Lies(d, r.addr, QuadsFrom(tree, n, q + 1), e)
      /\ c # 0 => /\ Lies(d, r.addr, Code(tree, c), r.addr + r.value)
                  /\ Lies(d, r.addr + r.value, QuadsFrom(tree, n, q + 1), e)
    <2>1. Lies(d, a, QuadsFrom(tree, n, q), e) /\ r = ReadUvarint(d, a)
        BY <1>2, <1>3, <1>4, Zenon
    <2>2. LET cc == tree[n].quads[q]
              rr == ReadUvarint(d, a)
          IN  /\ rr.value = 0 <=> cc = 0
              /\ rr.value \in Nat /\ rr.addr \in Nat /\ a < rr.addr /\ a \in Nat
              /\ a < e /\ e <= Len(d)
              /\ cc = 0 => Lies(d, rr.addr, QuadsFrom(tree, n, q + 1), e)
              /\ cc # 0 => /\ Lies(d, rr.addr, Code(tree, cc), rr.addr + rr.value)
                           /\ Lies(d, rr.addr + rr.value, QuadsFrom(tree, n, q + 1), e)
        BY <1>1, <1>2, <2>1, ReadsQuad, Zenon
    <2>3. QED
        BY <1>5, <2>1, <2>2, Zenon
<1>7. HeaderLen <= r.addr
    BY <1>1, <1>2, <1>4, <1>6
<1>8. Pending(tree, f, n) = Kids(tree, n, q)
    BY <1>3 DEF Pending
<1>9. ASSUME r.value = 0, NEW h,
             HasFields(h, f.at, r.addr, f.bounds, f.left, f.last, f.q + 1, f.qsize)
      PROVE  SameCall(tree, d, f, n, e, h)
    <2>1. /\ h.at = "quads" /\ h.addr = r.addr /\ h.bounds = f.bounds /\ h.q = q + 1
        BY <1>3, <1>9, Zenon DEF HasFields
    <2>2. Lies(d, h.addr, QuadsFrom(tree, n, h.q), e) /\ HeaderLen <= h.addr
        BY <1>6, <1>7, <1>9, <2>1, Zenon
    <2>3. h.q \in 0 .. 4
        BY <2>1
    <2>4. "quads" # "count" /\ "items" # "quads" /\ "quads" # "called"
        OBVIOUS
    <2>5. Good(tree, d, h, n, e)
        BY <1>2, <2>1, <2>2, <2>3, <2>4, Zenon DEF Good
    <2>6. Pending(tree, h, n) = Kids(tree, n, q + 1)
        BY <2>1, <2>4, Zenon DEF Pending
    <2>7. Kids(tree, n, q) = Kids(tree, n, q + 1)
        <3>1. tree[n].quads[q] = 0
            BY <1>5, <1>6, <1>9, Zenon
        <3>2. \A p \in 0 .. 3 : tree[n].quads[p] = 0 => Kids(tree, n, p) = Kids(tree, n, p + 1)
            BY <1>1, <1>2, KidsIs
        <3>3. QED
            BY <3>1, <3>2
    <2>8. QED
        BY <1>8, <2>5, <2>6, <2>7, Zenon DEF SameCall
<1>10. ASSUME r.value # 0
       PROVE  \E c_1 \in 1 .. Len(tree) : QuadAhead(tree, d, f, n, e, r, c_1)
    <2>1. c # 0 /\ tree[n].quads[q] # 0
        BY <1>5, <1>6, <1>10, Zenon
    <2>2. c \in 1 .. Len(tree)
        BY <1>1, <1>2, <1>5, <2>1, QuadRange, Zenon
    <2>3. \A i : i \in Kids(tree, n, q) <=> i \in Under(tree, c) \/ i \in Kids(tree, n, q + 1)
        BY <1>1, <1>2, <1>5, <2>1, KidsIs, Zenon
    <2>4. \A i : ~ (i \in Under(tree, c) /\ i \in Kids(tree, n, q + 1))
        BY <1>1, <1>2, <1>5, <2>1, UnderIs, Zenon
    <2>5. tree[c].bounds = QuadBounds(f.bounds, q) /\ tree[c].bounds \in Rect
        BY <1>1, <1>2, <1>5, <2>1, <2>2, Zenon DEF IsTreeOf, IsBounded
    <2>6. QED
        BY <1>3, <1>6, <1>8, <2>1, <2>2, <2>3, <2>4, <2>5, Zenon DEF QuadAhead
<1>11. QED
    BY <1>3, <1>4, <1>6, <1>7, <1>9, <1>10, Zenon

(* The call that goes on past a quad, the one that waits for a quad's, and *)
(* the one on the quad.                                                    *)
LEMMA PastGood ==
    ASSUME NEW tree, NEW d, NEW n \in 1 .. Len(tree), NEW e, NEW q \in 0 .. 3,
           NEW a \in Nat, HeaderLen <= a, Lies(d, a, QuadsFrom(tree, n, q + 1), e),
           NEW h \in SFrame, h.at = "quads", h.addr = a, h.bounds = tree[n].bounds,
           h.q = q + 1
    PROVE  AtQuads(tree, d, h, n, e, q + 1)
<1>1. Lies(d, h.addr, QuadsFrom(tree, n, h.q), e) /\ HeaderLen <= h.addr
    BY Zenon
<1>2. h.q \in 0 .. 4
    OBVIOUS
<1>3. "quads" # "count" /\ "items" # "quads" /\ "quads" # "called"
    OBVIOUS
<1>4. Good(tree, d, h, n, e)
    BY <1>1, <1>2, <1>3, Zenon DEF Good
<1>5. Pending(tree, h, n) = Kids(tree, n, q + 1)
    BY <1>3, Zenon DEF Pending
<1>6. QED
    BY <1>4, <1>5, Zenon DEF AtQuads

(* The caller of a quad goes on after its bytes.                           *)
LEMMA WaitGood ==
    ASSUME NEW tree, NEW d, NEW n \in 1 .. Len(tree), NEW e, NEW q \in 0 .. 3,
           NEW a \in Nat, NEW z \in Nat, HeaderLen <= a,
           Lies(d, a + z, QuadsFrom(tree, n, q + 1), e),
           NEW h \in SFrame, h.at = "called", h.addr = a, h.bounds = tree[n].bounds,
           h.q = q, h.qsize = z
    PROVE  AtQuads(tree, d, h, n, e, q + 1)
<1>1. Lies(d, h.addr + h.qsize, QuadsFrom(tree, n, h.q + 1), e) /\ HeaderLen <= h.addr
    BY Zenon
<1>2. h.q \in 0 .. 3 /\ h.qsize \in Nat
    BY Zenon
<1>3. "called" # "count" /\ "items" # "called" /\ "quads" # "called"
    OBVIOUS
<1>4. Good(tree, d, h, n, e)
    BY <1>1, <1>2, <1>3, Zenon DEF Good
<1>5. Pending(tree, h, n) = Kids(tree, n, q + 1)
    BY <1>3, Zenon DEF Pending
<1>6. QED
    BY <1>4, <1>5, Zenon DEF AtQuads

(* A call for a node has what is below the node ahead of it.               *)
LEMMA StartGood ==
    ASSUME NEW tree, NEW d, NEW c \in 1 .. Len(tree), NEW e,
           NEW a \in Nat, HeaderLen <= a, Lies(d, a, Code(tree, c), e),
           NEW h, HasFields(h, "count", a, tree[c].bounds, 0, 0, 0, 0)
    PROVE  /\ Good(tree, d, h, c, e)
           /\ Pending(tree, h, c) = Under(tree, c)
<1>1. /\ h.at = "count" /\ h.addr = a /\ h.bounds = tree[c].bounds /\ h.last = 0 /\ h.q = 0
    BY Zenon DEF HasFields
<1>2. "count" # "items" /\ "quads" # "count" /\ "called" # "count"
    OBVIOUS
<1>3. QED
    BY <1>1, <1>2, Zenon DEF Good, Pending

(* The call on a quad has returned.                                        *)
LEMMA CalledGood ==
    ASSUME NEW tree, NEW d, NEW s, Setting(tree, d, s),
           NEW f \in SFrame, f.at = "called", NEW n, NEW e, Good(tree, d, f, n, e),
           NEW h, HasFields(h, "quads", f.addr + f.qsize, f.bounds, f.left, f.last,
                            f.q + 1, f.qsize)
    PROVE  SameCall(tree, d, f, n, e, h)
<1>1. HeaderLen \in Nat
    BY SettingFacts, Zenon
<1>2. /\ n \in 1 .. Len(tree) /\ f.bounds = tree[n].bounds /\ HeaderLen <= f.addr
      /\ f.q \in 0 .. 3 /\ f.qsize \in Nat
      /\ Lies(d, f.addr + f.qsize, QuadsFrom(tree, n, f.q + 1), e)
    BY Zenon DEF Good
<1>3. f.addr \in Int
    BY FrameFields
<1>4. PICK a \in Nat : a = f.addr + f.qsize /\ HeaderLen <= a
    BY <1>1, <1>2, <1>3
<1>5. PICK q \in 0 .. 3 : q = f.q
    BY <1>2
<1>6. /\ h \in SFrame /\ h.at = "quads" /\ h.addr = a /\ h.bounds = tree[n].bounds
      /\ h.q = q + 1
    BY <1>2, <1>4, <1>5, Zenon DEF HasFields
<1>7. Lies(d, a, QuadsFrom(tree, n, q + 1), e)
    BY <1>2, <1>4, <1>5, Zenon
<1>8. AtQuads(tree, d, h, n, e, q + 1)
    BY <1>2, <1>4, <1>5, <1>6, <1>7, PastGood, Zenon
<1>9. Pending(tree, f, n) = Kids(tree, n, q + 1)
    <2>1. "called" # "count" /\ "items" # "called" /\ "quads" # "called"
        OBVIOUS
    <2>2. QED
        BY <1>5, <2>1, Zenon DEF Pending
<1>10. QED
    BY <1>8, <1>9, Zenon DEF AtQuads, SameCall

(* A call that has been through its quads is at the end of its bytes.      *)
LEMMA EndGood ==
    ASSUME NEW tree, NEW d, NEW s, Setting(tree, d, s),
           NEW f \in SFrame, f.at = "quads", f.q = 4, NEW n, NEW e, Good(tree, d, f, n, e)
    PROVE  f.addr = e /\ e <= Len(d) /\ \A i : i \notin Pending(tree, f, n)
<1>1. IsTreeOf(tree, s) /\ d \in Seq(Nat)
    BY SettingFacts, Zenon
<1>2. n \in 1 .. Len(tree) /\ Lies(d, f.addr, QuadsFrom(tree, n, f.q), e)
    BY Zenon DEF Good
<1>3. Lies(d, f.addr, <<>>, e)
    BY <1>2 DEF QuadsFrom
<1>4. f.addr = e
    BY <1>3 DEF Lies
<1>5. Kids(tree, n, 4) = {}
    BY <1>1, <1>2, KidsIs, Zenon
<1>6. Pending(tree, f, n) = Kids(tree, n, 4)
    BY DEF Pending
<1>7. e <= Len(d)
    BY <1>1, <1>3, LiesInside, Zenon
<1>8. QED
    BY <1>4, <1>5, <1>6, <1>7

-----------------------------------------------------------------------------
(* The invariant of a search.                                              *)

Matching == {item \in Items : Hit(item)}

(* The calls of the search in progress are on the nodes g, and what they   *)
(* have found and have yet to come to is what matches the target.          *)
StackGoing(g) ==
    /\ Walks(nodes, data, frames, g)
    /\ ret => Accounts(nodes, frames, g, ToSet(hits), Matching)

(* A scan has found what matches among the segments it has been through.   *)
ScanGoing ==
    /\ scanned \in 0 .. NumSegments(series)
    /\ \A i : i \in ToSet(hits) <=> i \in Matching /\ i < scanned

Going ==
    /\ hits \in Seq(Nat)
    /\ pc = "tree" => \E g : StackGoing(g)
    /\ pc = "scan" => ScanGoing

(* The invariant of the searches.                                          *)
SearchInv ==
    /\ MakeInv /\ Unwinding
    /\ target \in Rect /\ pc \in {"idle", "scan", "tree", "done"} /\ ret \in BOOLEAN
    /\ ~ made => pc = "idle"
    /\ pc = "idle" => hits = <<>> /\ ret
    /\ pc # "tree" => frames = <<>>
    /\ pc = "tree" => index # <<>> /\ data = Readable(index)
    /\ Fits => Going

(* iter is called with one more segment.                                   *)
LEMMA AppendFound ==
    ASSUME NEW s \in Seq(Nat), NEW v \in Nat, NEW t, t = Append(s, v)
    PROVE  /\ t \in Seq(Nat)
           /\ \A i : i \in ToSet(t) <=> i \in ToSet(s) \/ i = v
<1>1. t \in Seq(Nat) /\ Len(t) = Len(s) + 1 /\ t[Len(s) + 1] = v /\ Len(s) \in Nat
    OBVIOUS
<1>2. DOMAIN s = 1 .. Len(s) /\ DOMAIN t = 1 .. Len(s) + 1
    BY <1>1
<1>3. \A k \in 1 .. Len(s) : t[k] = s[k]
    OBVIOUS
<1>4. ASSUME NEW i PROVE i \in ToSet(t) <=> i \in ToSet(s) \/ i = v
    <2>1. ASSUME i \in ToSet(t) PROVE i \in ToSet(s) \/ i = v
        <3>1. PICK k \in 1 .. Len(s) + 1 : i = t[k]
            BY <1>2, <2>1 DEF ToSet
        <3>2. CASE k = Len(s) + 1
            BY <1>1, <3>1, <3>2
        <3>3. CASE k # Len(s) + 1
            <4>1. k \in 1 .. Len(s)
                BY <1>1, <3>3
            <4>2. QED
                BY <1>2, <1>3, <3>1, <4>1 DEF ToSet
        <3>4. QED
            BY <3>2, <3>3
    <2>2. ASSUME i \in ToSet(s) PROVE i \in ToSet(t)
        <3>1. PICK k \in 1 .. Len(s) : i = s[k]
            BY <1>2, <2>2 DEF ToSet
        <3>2. k \in 1 .. Len(s) + 1
            BY <1>1
        <3>3. QED
            BY <1>2, <1>3, <3>1, <3>2 DEF ToSet
    <2>3. ASSUME i = v PROVE i \in ToSet(t)
        <3>1. Len(s) + 1 \in 1 .. Len(s) + 1
            BY <1>1
        <3>2. QED
            BY <1>1, <1>2, <2>3, <3>1 DEF ToSet
    <2>4. QED
        BY <2>1, <2>2, <2>3
<1>5. QED
    BY <1>1, <1>4

(* It has been called with none.                                           *)
LEMMA EmptyFound == <<>> \in Seq(Nat) /\ \A i : i \notin ToSet(<<>>)
    BY DEF ToSet

(* A search leaves the series and the index alone.                         *)
LEMMA SameFacts ==
    ASSUME UNCHANGED <<makeVars, target>>
    PROVE  /\ nodes' = nodes /\ series' = series /\ index' = index /\ made' = made
           /\ Matching' = Matching /\ (Fits' <=> Fits)
<1>1. /\ nodes' = nodes /\ series' = series /\ index' = index /\ made' = made
      /\ target' = target
    BY DEF makeVars, vars
<1>2. QED
    BY <1>1 DEF Matching, Items, Hit, Fits

(* What a search in an index reads.                                        *)
LEMMA SearchSetting ==
    ASSUME SearchInv, Fits, pc = "tree"
    PROVE  Setting(nodes, data, series)
    BY IndexReads DEF SearchInv, Setting

(* What is known when a call of qCompressSearch takes a step.              *)
LEMMA AtTop ==
    ASSUME SearchInv, Fits, pc = "tree", frames # <<>>, NEW g, StackGoing(g)
    PROVE  /\ Setting(nodes, data, series)
           /\ frames \in Seq(SFrame) /\ g \in Seq(Nat) /\ Len(g) = Len(frames)
           /\ Walks(nodes, data, frames, g)
           /\ cur \in SFrame /\ cur = frames[1]
           /\ Good(nodes, data, cur, g[1], EndOf(data, frames, 1))
           /\ PendingAt(nodes, frames, g, 1) = Pending(nodes, cur, g[1])
           /\ hits \in Seq(Nat)
<1>1. Setting(nodes, data, series)
    BY SearchSetting
<1>2. /\ frames \in Seq(SFrame) /\ g \in Seq(Nat) /\ Len(g) = Len(frames)
      /\ Walks(nodes, data, frames, g)
      /\ \A i \in 1 .. Len(frames) : Good(nodes, data, frames[i], g[i], EndOf(data, frames, i))
    BY Zenon DEF StackGoing, Walks
<1>3. 1 \in 1 .. Len(frames) /\ frames[1] \in SFrame
    BY <1>2
<1>4. hits \in Seq(Nat)
    BY Zenon DEF SearchInv, Going
<1>5. QED
    BY <1>1, <1>2, <1>3, <1>4, Zenon DEF cur, PendingAt

(* A call that reads on,                                                   *)
LEMMA GoesOnGoing ==
    ASSUME SearchInv, Fits, pc = "tree", frames # <<>>, ret, SameSeries, ret' = ret,
           NEW g, StackGoing(g), NEW f \in SFrame, Update(f),
           Good(nodes, data, f, g[1], EndOf(data, frames, 1)),
           hits' \in Seq(Nat), ToSet(hits) \subseteq ToSet(hits'), ToSet(hits') \subseteq Matching,
           \A i : i \in Pending(nodes, f, g[1]) =>
                     i \in Pending(nodes, cur, g[1]) /\ i \notin ToSet(hits'),
           \A i \in ToSet(hits') : i \in ToSet(hits) \/ i \in Pending(nodes, cur, g[1]),
           \A i : i \in Pending(nodes, cur, g[1]) =>
                     i \in Pending(nodes, f, g[1]) \/ i \in ToSet(hits') \/ i \notin Matching
    PROVE  Going'
<1>1. /\ Setting(nodes, data, series)
      /\ frames \in Seq(SFrame) /\ g \in Seq(Nat) /\ Len(g) = Len(frames)
      /\ Walks(nodes, data, frames, g)
      /\ cur \in SFrame /\ cur = frames[1]
      /\ Good(nodes, data, cur, g[1], EndOf(data, frames, 1))
      /\ PendingAt(nodes, frames, g, 1) = Pending(nodes, cur, g[1])
      /\ hits \in Seq(Nat)
    BY AtTop, Zenon
<1>2. GoesOn(frames, f, frames')
    BY Zenon DEF Update, GoesOn
<1>3. Walks(nodes, data, frames', g)
    BY <1>1, <1>2, WalkUpdates, Zenon
<1>4. Accounts(nodes, frames, g, ToSet(hits), Matching)
    BY Zenon DEF StackGoing
<1>5. PICK K : K = ToSet(hits')
    OBVIOUS
<1>6. PICK P : P = PendingAt(nodes, frames, g, 1)
    OBVIOUS
<1>7. /\ ToSet(hits) \subseteq K /\ K \subseteq Matching
      /\ \A i : i \in Pending(nodes, f, g[1]) => i \in PendingAt(nodes, frames, g, 1) /\ i \notin K
      /\ \A i \in K : i \in ToSet(hits) \/ i \in PendingAt(nodes, frames, g, 1)
      /\ \A i : i \in PendingAt(nodes, frames, g, 1) =>
                  i \in Pending(nodes, f, g[1]) \/ i \in K \/ i \notin Matching
    BY <1>1, <1>5, Zenon
<1>8. Accounts(nodes, frames', g, K, Matching)
    BY <1>1, <1>2, <1>4, <1>7, AccountUpdates, Zenon
<1>9. /\ nodes' = nodes /\ data' = data /\ pc' = pc /\ Matching' = Matching
    BY SameFacts DEF SameSeries
<1>10. StackGoing(g)'
    BY <1>3, <1>5, <1>8, <1>9, Zenon DEF StackGoing
<1>11. pc' # "scan"
    BY <1>9
<1>12. QED
    BY <1>10, <1>11, Zenon DEF Going

(* one that calls,                                                         *)
LEMMA CallsOnGoing ==
    ASSUME SearchInv, Fits, pc = "tree", frames # <<>>, ret, SameSeries, ret' = ret,
           hits' = hits,
           NEW g, StackGoing(g), NEW e \in SFrame, NEW f \in SFrame, NEW c \in Nat,
           frames' = <<e, f>> \o Tail(frames),
           Good(nodes, data, e, c, f.addr + f.qsize),
           Good(nodes, data, f, g[1], EndOf(data, frames, 1)),
           \A i : i \in Pending(nodes, cur, g[1]) <=>
                     i \in Pending(nodes, e, c) \/ i \in Pending(nodes, f, g[1]),
           \A i : ~ (i \in Pending(nodes, e, c) /\ i \in Pending(nodes, f, g[1]))
    PROVE  Going'
<1>1. /\ Setting(nodes, data, series)
      /\ frames \in Seq(SFrame) /\ g \in Seq(Nat) /\ Len(g) = Len(frames)
      /\ Walks(nodes, data, frames, g)
      /\ cur \in SFrame /\ cur = frames[1]
      /\ Good(nodes, data, cur, g[1], EndOf(data, frames, 1))
      /\ PendingAt(nodes, frames, g, 1) = Pending(nodes, cur, g[1])
      /\ hits \in Seq(Nat)
    BY AtTop, Zenon
<1>2. CallsOn(frames, e, f, frames')
    BY Zenon DEF CallsOn
<1>3. PICK h : Adds(g, c, h)
    BY Zenon DEF Adds
<1>4. Walks(nodes, data, frames', h)
    BY <1>1, <1>2, <1>3, WalkCalls, Zenon
<1>5. Accounts(nodes, frames, g, ToSet(hits), Matching)
    BY Zenon DEF StackGoing
<1>6. /\ \A i : i \in PendingAt(nodes, frames, g, 1) <=>
                  i \in Pending(nodes, e, c) \/ i \in Pending(nodes, f, g[1])
      /\ \A i : ~ (i \in Pending(nodes, e, c) /\ i \in Pending(nodes, f, g[1]))
    BY <1>1, Zenon
<1>7. Accounts(nodes, frames', h, ToSet(hits), Matching)
    <2>1. PICK H, M, tr : H = ToSet(hits) /\ M = Matching /\ tr = frames'
        OBVIOUS
    <2>2. CallsOn(frames, e, f, tr) /\ Accounts(nodes, frames, g, H, M)
        BY <1>2, <1>5, <2>1, Zenon
    <2>3. Accounts(nodes, tr, h, H, M)
        BY <1>1, <1>3, <1>6, <2>2, AccountCalls, ZenonT(40)
    <2>4. QED
        BY <2>1, <2>3, Zenon
<1>8. /\ nodes' = nodes /\ data' = data /\ pc' = pc /\ Matching' = Matching
    BY SameFacts DEF SameSeries
<1>9. StackGoing(h)'
    BY <1>4, <1>7, <1>8, Zenon DEF StackGoing
<1>10. pc' # "scan"
    BY <1>8
<1>11. QED
    BY <1>1, <1>9, <1>10, Zenon DEF Going

(* and one that returns, keep the account.                                 *)
LEMMA ReturnsGoing ==
    ASSUME SearchInv, Fits, pc = "tree", frames # <<>>, SameSeries,
           hits' \in Seq(Nat), NEW g, StackGoing(g), frames' = Tail(frames),
           ret' => /\ ret /\ hits' = hits
                   /\ \A i : i \notin Pending(nodes, cur, g[1])
    PROVE  Going'
<1>1. /\ Setting(nodes, data, series)
      /\ frames \in Seq(SFrame) /\ g \in Seq(Nat) /\ Len(g) = Len(frames)
      /\ Walks(nodes, data, frames, g)
      /\ cur \in SFrame /\ cur = frames[1]
      /\ Good(nodes, data, cur, g[1], EndOf(data, frames, 1))
      /\ PendingAt(nodes, frames, g, 1) = Pending(nodes, cur, g[1])
      /\ hits \in Seq(Nat)
    BY AtTop, Zenon
<1>2. Returns(frames, frames')
    BY Zenon DEF Returns
<1>3. PICK h : Returns(g, h)
    BY Zenon DEF Returns
<1>4. Walks(nodes, data, frames', h)
    BY <1>1, <1>2, <1>3, WalkReturns, Zenon
<1>5. ASSUME ret' PROVE Accounts(nodes, frames', h, ToSet(hits'), Matching)
    <2>1. Accounts(nodes, frames, g, ToSet(hits), Matching)
        BY <1>5, Zenon DEF StackGoing
    <2>2. \A i : i \notin PendingAt(nodes, frames, g, 1)
        BY <1>1, <1>5, Zenon
    <2>3. Accounts(nodes, frames', h, ToSet(hits), Matching)
        BY <1>1, <1>2, <1>3, <2>1, <2>2, AccountReturns, Zenon
    <2>4. QED
        BY <1>5, <2>3, Zenon
<1>6. /\ nodes' = nodes /\ data' = data /\ pc' = pc /\ Matching' = Matching
    BY SameFacts DEF SameSeries
<1>7. StackGoing(h)'
    BY <1>4, <1>5, <1>6, Zenon DEF StackGoing
<1>8. pc' # "scan"
    BY <1>6
<1>9. QED
    BY <1>7, <1>8, Zenon DEF Going

(* What a step that only goes on needs.                                    *)
LEMMA QuietGoing ==
    ASSUME SearchInv, Fits, pc = "tree", frames # <<>>, ret, SameSeries, ret' = ret,
           hits' = hits, NEW g, StackGoing(g), NEW f \in SFrame, Update(f),
           Good(nodes, data, f, g[1], EndOf(data, frames, 1)),
           \A i : i \in Pending(nodes, f, g[1]) => i \in Pending(nodes, cur, g[1]),
           \A i : i \in Pending(nodes, cur, g[1]) =>
                     i \in Pending(nodes, f, g[1]) \/ i \notin Matching
    PROVE  Going'
<1>1. /\ Setting(nodes, data, series)
      /\ frames \in Seq(SFrame) /\ g \in Seq(Nat) /\ Len(g) = Len(frames)
      /\ Walks(nodes, data, frames, g)
      /\ cur \in SFrame /\ cur = frames[1]
      /\ Good(nodes, data, cur, g[1], EndOf(data, frames, 1))
      /\ PendingAt(nodes, frames, g, 1) = Pending(nodes, cur, g[1])
      /\ hits \in Seq(Nat)
    BY AtTop, Zenon
<1>2. Accounts(nodes, frames, g, ToSet(hits), Matching)
    BY Zenon DEF StackGoing
<1>3. /\ ToSet(hits) \subseteq Matching
      /\ \A k \in 1 .. Len(frames) : \A i :
            i \in PendingAt(nodes, frames, g, k) => i \notin ToSet(hits)
    BY <1>2, Zenon DEF Accounts
<1>4. 1 \in 1 .. Len(frames)
    BY <1>1
<1>5. \A i : i \in Pending(nodes, cur, g[1]) => i \notin ToSet(hits)
    BY <1>1, <1>3, <1>4, Zenon
<1>6. /\ ToSet(hits') = ToSet(hits) /\ hits' \in Seq(Nat)
    BY <1>1, Zenon
<1>7. /\ ToSet(hits) \subseteq ToSet(hits') /\ ToSet(hits') \subseteq Matching
    BY <1>3, <1>6
<1>8. \A i : i \in Pending(nodes, f, g[1]) =>
                i \in Pending(nodes, cur, g[1]) /\ i \notin ToSet(hits')
    BY <1>5, <1>6, Zenon
<1>9. \A i \in ToSet(hits') : i \in ToSet(hits) \/ i \in Pending(nodes, cur, g[1])
    BY <1>6, Zenon
<1>10. \A i : i \in Pending(nodes, cur, g[1]) =>
                 i \in Pending(nodes, f, g[1]) \/ i \in ToSet(hits') \/ i \notin Matching
    BY Zenon
<1>11. QED
    BY <1>6, <1>7, <1>8, <1>9, <1>10, GoesOnGoing, Zenon

(* What is known when qCompressSearch takes a step.                        *)
LEMMA TreeGoing ==
    ASSUME SearchInv, Fits, NEW at, Reading(at)
    PROVE  /\ pc = "tree" /\ frames # <<>> /\ cur.at = at
           /\ \E g : StackGoing(g)
    BY DEF Reading, SearchInv, Going

(* It reads the number of items,                                           *)
LEMMA ReadCountGoing ==
    ASSUME SearchInv, Fits, ReadCount
    PROVE  Going'
<1>1. Reading("count") /\ hits' = hits /\ ret' = ret /\ SameSeries
    BY DEF ReadCount
<1>2. pc = "tree" /\ frames # <<>> /\ cur.at = "count" /\ \E g : StackGoing(g)
    BY <1>1, TreeGoing, Zenon
<1>3. ret
    <2>1. "count" # "called" /\ Unwinding
        BY DEF SearchInv
    <2>2. QED
        BY <1>1, <2>1, ReadingGoing
<1>4. PICK g : StackGoing(g)
    BY <1>2
<1>5. /\ Setting(nodes, data, series)
      /\ frames \in Seq(SFrame) /\ g \in Seq(Nat) /\ Len(g) = Len(frames)
      /\ Walks(nodes, data, frames, g)
      /\ cur \in SFrame /\ cur = frames[1]
      /\ Good(nodes, data, cur, g[1], EndOf(data, frames, 1))
      /\ PendingAt(nodes, frames, g, 1) = Pending(nodes, cur, g[1])
      /\ hits \in Seq(Nat)
    BY <1>2, <1>4, AtTop, Zenon
<1>6. PICK f, r, n, e : f = cur /\ r = Read /\ n = g[1] /\ e = EndOf(data, frames, 1)
    OBVIOUS
<1>7. /\ f \in SFrame /\ f.at = "count" /\ Good(nodes, data, f, n, e)
      /\ r = ReadUvarint(data, f.addr)
    BY <1>2, <1>5, <1>6, Zenon DEF Read
<1>8. /\ r.value \in Int /\ r.addr \in Int /\ f.addr < r.addr
      /\ \A h : HasFields(h, "items", r.addr, f.bounds, r.value, f.last, f.q, f.qsize)
            => /\ Good(nodes, data, h, n, e)
               /\ \A i : i \in Pending(nodes, h, n) <=> i \in Pending(nodes, f, n)
    BY <1>5, <1>7, CountGood, Zenon
<1>9. PICK h : /\ Update(h)
               /\ h = [f EXCEPT !.at = "items", !.left = r.value, !.addr = r.addr]
    BY <1>6, Zenon DEF ReadCount
<1>10. HasFields(h, "items", r.addr, f.bounds, r.value, f.last, f.q, f.qsize)
    BY <1>7, <1>8, <1>9, CountFields, Zenon
<1>11. /\ h \in SFrame /\ Good(nodes, data, h, n, e)
       /\ \A i : i \in Pending(nodes, h, n) <=> i \in Pending(nodes, f, n)
    BY <1>8, <1>10, Zenon DEF HasFields
<1>12. /\ Good(nodes, data, h, g[1], EndOf(data, frames, 1))
       /\ \A i : i \in Pending(nodes, h, g[1]) => i \in Pending(nodes, cur, g[1])
       /\ \A i : i \in Pending(nodes, cur, g[1]) =>
                    i \in Pending(nodes, h, g[1]) \/ i \notin Matching
    BY <1>6, <1>11, Zenon
<1>13. QED
    BY <1>1, <1>2, <1>3, <1>4, <1>9, <1>11, <1>12, QuietGoing, Zenon

(* an item, which is a segment that iter has not been called with,         *)
LEMMA ItemGoing ==
    ASSUME SearchInv, Fits, SkipItem \/ VisitItem \/ StopAtItem
    PROVE  /\ Going'
           /\ Item \in Items
           /\ Item \notin ToSet(hits)
<1>1. Reading("items") /\ cur.left > 0 /\ SameSeries
    BY DEF SkipItem, VisitItem, StopAtItem
<1>2. pc = "tree" /\ frames # <<>> /\ cur.at = "items" /\ \E g : StackGoing(g)
    BY <1>1, TreeGoing, Zenon
<1>3. ret
    <2>1. "items" # "called" /\ Unwinding
        BY DEF SearchInv
    <2>2. QED
        BY <1>1, <2>1, ReadingGoing
<1>4. PICK g : StackGoing(g)
    BY <1>2
<1>5. /\ Setting(nodes, data, series)
      /\ frames \in Seq(SFrame) /\ g \in Seq(Nat) /\ Len(g) = Len(frames)
      /\ Walks(nodes, data, frames, g)
      /\ cur \in SFrame /\ cur = frames[1]
      /\ Good(nodes, data, cur, g[1], EndOf(data, frames, 1))
      /\ PendingAt(nodes, frames, g, 1) = Pending(nodes, cur, g[1])
      /\ hits \in Seq(Nat)
    BY <1>2, <1>4, AtTop, Zenon
<1>6. PICK f, r, n, e, v : /\ f = cur /\ r = Read /\ n = g[1] /\ e = EndOf(data, frames, 1)
                           /\ v = Item
    OBVIOUS
<1>7. /\ f \in SFrame /\ f.at = "items" /\ f.left > 0 /\ Good(nodes, data, f, n, e)
      /\ r = ReadUvarint(data, f.addr) /\ v = r.value + f.last
    BY <1>1, <1>2, <1>5, <1>6, Zenon DEF Read, Item
<1>8. /\ v \in Numbers(series) /\ r.addr \in Int /\ f.addr < r.addr
      /\ f.last \in Nat /\ f.last <= v
      /\ v \in Pending(nodes, f, n)
      /\ \A h : HasFields(h, f.at, r.addr, f.bounds, f.left - 1, v, f.q, f.qsize)
            => ItemPassed(nodes, data, f, n, e, v, h)
    BY <1>5, <1>7, ItemGood, Zenon
<1>9. Item \in Items /\ v \in Items
    BY <1>6, <1>8, Zenon DEF Items, Numbers
<1>10. v \in Nat
    <2>1. series \in SeriesType
        BY <1>5 DEF Setting, IsTreeOf
    <2>2. QED
        BY <1>8, <2>1, NumbersNat
<1>11. PICK h : h = PastItem
    OBVIOUS
<1>12. HasFields(h, f.at, r.addr, f.bounds, f.left - 1, v, f.q, f.qsize)
    <2>1. h = [f EXCEPT !.left = @ - 1, !.last = v, !.addr = r.addr]
        BY <1>6, <1>11, Zenon DEF PastItem
    <2>2. v \in Int
        BY <1>10
    <2>3. QED
        BY <1>7, <1>8, <2>1, <2>2, ItemFields, Zenon
<1>13. /\ h \in SFrame /\ Good(nodes, data, h, n, e)
       /\ v \notin Pending(nodes, h, n)
       /\ \A i : i \in Pending(nodes, f, n) <=> i = v \/ i \in Pending(nodes, h, n)
    BY <1>8, <1>12, Zenon DEF HasFields, ItemPassed
<1>14. /\ Accounts(nodes, frames, g, ToSet(hits), Matching)
    BY <1>3, <1>4, Zenon DEF StackGoing
<1>15. /\ ToSet(hits) \subseteq Matching
       /\ \A i : i \in Pending(nodes, f, n) => i \notin ToSet(hits)
    <2>1. /\ ToSet(hits) \subseteq Matching
          /\ \A k \in 1 .. Len(frames) : \A i :
                i \in PendingAt(nodes, frames, g, k) => i \notin ToSet(hits)
        BY <1>14, Zenon DEF Accounts
    <2>2. 1 \in 1 .. Len(frames)
        BY <1>2, <1>5
    <2>3. QED
        BY <1>5, <1>6, <2>1, <2>2, Zenon
<1>16. Item \notin ToSet(hits)
    BY <1>6, <1>8, <1>15, Zenon
<1>17. CASE SkipItem
    <2>1. ret' = ret /\ hits' = hits /\ Update(h) /\ ~ Hit(v)
        BY <1>6, <1>11, <1>17, Zenon DEF SkipItem
    <2>2. v \notin Matching
        BY <2>1, Zenon DEF Matching
    <2>3. /\ Good(nodes, data, h, g[1], EndOf(data, frames, 1))
          /\ \A i : i \in Pending(nodes, h, g[1]) => i \in Pending(nodes, cur, g[1])
          /\ \A i : i \in Pending(nodes, cur, g[1]) =>
                       i \in Pending(nodes, h, g[1]) \/ i \notin Matching
        BY <1>6, <1>13, <2>2, Zenon
    <2>4. Going'
        BY <1>1, <1>2, <1>3, <1>4, <1>13, <2>1, <2>3, QuietGoing, Zenon
    <2>5. QED
        BY <1>9, <1>16, <2>4, Zenon
<1>18. CASE VisitItem
    <2>1. ret' = ret /\ hits' = Append(hits, v) /\ Update(h) /\ Hit(v)
        BY <1>6, <1>11, <1>18, Zenon DEF VisitItem
    <2>2. v \in Matching
        BY <1>9, <2>1 DEF Matching
    <2>3. /\ hits' \in Seq(Nat)
          /\ \A i : i \in ToSet(hits') <=> i \in ToSet(hits) \/ i = v
        BY <1>5, <1>10, <2>1, AppendFound
    <2>4. Good(nodes, data, h, g[1], EndOf(data, frames, 1))
        BY <1>6, <1>13, Zenon
    <2>5. ToSet(hits) \subseteq ToSet(hits') /\ ToSet(hits') \subseteq Matching
        BY <1>15, <2>2, <2>3
    <2>6. \A i : i \in Pending(nodes, h, g[1]) =>
                    i \in Pending(nodes, cur, g[1]) /\ i \notin ToSet(hits')
        BY <1>6, <1>13, <1>15, <2>3, Zenon
    <2>7. \A i \in ToSet(hits') : i \in ToSet(hits) \/ i \in Pending(nodes, cur, g[1])
        BY <1>6, <1>8, <2>3, Zenon
    <2>8. \A i : i \in Pending(nodes, cur, g[1]) =>
                    i \in Pending(nodes, h, g[1]) \/ i \in ToSet(hits') \/ i \notin Matching
        BY <1>6, <1>13, <2>3, Zenon
    <2>9. Going'
        BY <1>1, <1>2, <1>3, <1>4, <1>13, <2>1, <2>3, <2>4, <2>5, <2>6, <2>7, <2>8,
           GoesOnGoing, Zenon
    <2>10. QED
        BY <1>9, <1>16, <2>9, Zenon
<1>19. CASE StopAtItem
    <2>1. ~ ret' /\ hits' = Append(hits, v) /\ frames' = Tail(frames)
        BY <1>6, <1>19, Zenon DEF StopAtItem, ReturnWith
    <2>2. hits' \in Seq(Nat)
        BY <1>5, <1>10, <2>1, AppendFound
    <2>3. Going'
        BY <1>1, <1>2, <1>4, <2>1, <2>2, ReturnsGoing, Zenon
    <2>4. QED
        BY <1>9, <1>16, <2>3, Zenon
<1>20. QED
    BY <1>17, <1>18, <1>19

(* the flag,                                                               *)
LEMMA FlagGoing ==
    ASSUME SearchInv, Fits, EndLeaf \/ EnterQuads
    PROVE  Going'
<1>1. Reading("items") /\ cur.left = 0 /\ SameSeries /\ hits' = hits
    BY DEF EndLeaf, EnterQuads
<1>2. pc = "tree" /\ frames # <<>> /\ cur.at = "items" /\ \E g : StackGoing(g)
    BY <1>1, TreeGoing, Zenon
<1>3. ret
    <2>1. "items" # "called" /\ Unwinding
        BY DEF SearchInv
    <2>2. QED
        BY <1>1, <2>1, ReadingGoing
<1>4. PICK g : StackGoing(g)
    BY <1>2
<1>5. /\ Setting(nodes, data, series)
      /\ frames \in Seq(SFrame) /\ g \in Seq(Nat) /\ Len(g) = Len(frames)
      /\ Walks(nodes, data, frames, g)
      /\ cur \in SFrame /\ cur = frames[1]
      /\ Good(nodes, data, cur, g[1], EndOf(data, frames, 1))
      /\ PendingAt(nodes, frames, g, 1) = Pending(nodes, cur, g[1])
      /\ hits \in Seq(Nat)
    BY <1>2, <1>4, AtTop, Zenon
<1>6. PICK f, n, e : f = cur /\ n = g[1] /\ e = EndOf(data, frames, 1)
    OBVIOUS
<1>7. /\ f \in SFrame /\ f.at = "items" /\ f.left = 0 /\ Good(nodes, data, f, n, e)
    BY <1>1, <1>2, <1>5, <1>6, Zenon
<1>8. /\ At(data, f.addr) # 1 => /\ \A i : i \notin Pending(nodes, f, n)
      /\ At(data, f.addr) = 0 => f.addr + 1 = e
      /\ f.addr < e /\ e <= Len(data)
      /\ At(data, f.addr) = 1 =>
            \A h : HasFields(h, "quads", f.addr + 1, f.bounds, f.left, f.last, f.q, f.qsize)
               => /\ Good(nodes, data, h, n, e)
                  /\ \A i : i \in Pending(nodes, h, n) <=> i \in Pending(nodes, f, n)
    BY <1>5, <1>7, FlagGood, Zenon
<1>9. CASE EndLeaf
    <2>1. At(data, f.addr) # 1 /\ frames' = Tail(frames)
        BY <1>6, <1>9, Zenon DEF EndLeaf, ReturnWith
    <2>2. \A i : i \notin Pending(nodes, cur, g[1])
        BY <1>6, <1>8, <2>1, Zenon
    <2>3. hits' \in Seq(Nat)
        BY <1>1, <1>5, Zenon
    <2>4. QED
        BY <1>1, <1>2, <1>3, <1>4, <2>1, <2>2, <2>3, ReturnsGoing, Zenon
<1>10. CASE EnterQuads
    <2>1. PICK h : /\ Update(h) /\ h = [f EXCEPT !.at = "quads", !.addr = @ + 1]
                   /\ At(data, f.addr) = 1 /\ ret' = ret
        BY <1>6, <1>10, Zenon DEF EnterQuads
    <2>2. HasFields(h, "quads", f.addr + 1, f.bounds, f.left, f.last, f.q, f.qsize)
        BY <1>7, <2>1, FlagFields, Zenon
    <2>3. /\ h \in SFrame /\ Good(nodes, data, h, n, e)
          /\ \A i : i \in Pending(nodes, h, n) <=> i \in Pending(nodes, f, n)
        BY <1>8, <2>1, <2>2, Zenon DEF HasFields
    <2>4. /\ Good(nodes, data, h, g[1], EndOf(data, frames, 1))
          /\ \A i : i \in Pending(nodes, h, g[1]) => i \in Pending(nodes, cur, g[1])
          /\ \A i : i \in Pending(nodes, cur, g[1]) =>
                       i \in Pending(nodes, h, g[1]) \/ i \notin Matching
        BY <1>6, <2>3, Zenon
    <2>5. QED
        BY <1>1, <1>2, <1>3, <1>4, <2>1, <2>3, <2>4, QuietGoing, Zenon
<1>11. QED
    BY <1>9, <1>10

(* a quad, which it passes over only when nothing below it matches,        *)
LEMMA QuadGoing ==
    ASSUME SearchInv, Fits, EmptyQuad \/ PruneQuad \/ EnterQuad
    PROVE  Going'
<1>1. Reading("quads") /\ cur.q < 4 /\ SameSeries /\ hits' = hits /\ ret' = ret
    BY DEF EmptyQuad, PruneQuad, EnterQuad, InQuads
<1>2. pc = "tree" /\ frames # <<>> /\ cur.at = "quads" /\ \E g : StackGoing(g)
    BY <1>1, TreeGoing, Zenon
<1>3. ret
    <2>1. "quads" # "called" /\ Unwinding
        BY DEF SearchInv
    <2>2. QED
        BY <1>1, <2>1, ReadingGoing
<1>4. PICK g : StackGoing(g)
    BY <1>2
<1>5. /\ Setting(nodes, data, series)
      /\ frames \in Seq(SFrame) /\ g \in Seq(Nat) /\ Len(g) = Len(frames)
      /\ Walks(nodes, data, frames, g)
      /\ cur \in SFrame /\ cur = frames[1]
      /\ Good(nodes, data, cur, g[1], EndOf(data, frames, 1))
      /\ PendingAt(nodes, frames, g, 1) = Pending(nodes, cur, g[1])
      /\ hits \in Seq(Nat)
    BY <1>2, <1>4, AtTop, Zenon
<1>6. PICK f, r, n, e : f = cur /\ r = Read /\ n = g[1] /\ e = EndOf(data, frames, 1)
    OBVIOUS
<1>7. /\ f \in SFrame /\ f.at = "quads" /\ f.q < 4 /\ Good(nodes, data, f, n, e)
      /\ r = ReadUvarint(data, f.addr)
    BY <1>1, <1>2, <1>5, <1>6, Zenon DEF Read
<1>8. /\ r.value \in Nat /\ r.addr \in Nat /\ f.q \in 0 .. 3
      /\ f.addr < e /\ e <= Len(data) /\ HeaderLen <= r.addr /\ f.addr < r.addr
      /\ r.value = 0 =>
            \A h : HasFields(h, f.at, r.addr, f.bounds, f.left, f.last, f.q + 1, f.qsize)
               => SameCall(nodes, data, f, n, e, h)
      /\ r.value # 0 =>
            \E c \in 1 .. Len(nodes) : QuadAhead(nodes, data, f, n, e, r, c)
    BY <1>5, <1>7, QuadGood, Zenon
<1>9. /\ n \in 1 .. Len(nodes) /\ f.bounds = nodes[n].bounds
    BY <1>7, Zenon DEF Good
<1>10. CASE EmptyQuad
    <2>1. PICK h : /\ Update(h) /\ h = [f EXCEPT !.q = @ + 1, !.addr = r.addr]
                   /\ r.value = 0
        BY <1>6, <1>10, Zenon DEF EmptyQuad
    <2>2. HasFields(h, f.at, r.addr, f.bounds, f.left, f.last, f.q + 1, f.qsize)
        <3>1. r.addr \in Int
            BY <1>8
        <3>2. QED
            BY <1>7, <2>1, <3>1, QuadFields, Zenon
    <2>3. /\ h \in SFrame /\ Good(nodes, data, h, n, e)
          /\ \A i : i \in Pending(nodes, h, n) <=> i \in Pending(nodes, f, n)
        BY <1>8, <2>1, <2>2, Zenon DEF HasFields, SameCall
    <2>4. /\ Good(nodes, data, h, g[1], EndOf(data, frames, 1))
          /\ \A i : i \in Pending(nodes, h, g[1]) => i \in Pending(nodes, cur, g[1])
          /\ \A i : i \in Pending(nodes, cur, g[1]) =>
                       i \in Pending(nodes, h, g[1]) \/ i \notin Matching
        BY <1>6, <2>3, Zenon
    <2>5. QED
        BY <1>1, <1>2, <1>3, <1>4, <2>1, <2>3, <2>4, QuietGoing, Zenon
<1>11. ASSUME r.value # 0, PruneQuad \/ EnterQuad PROVE Going'
    <2>1. PICK c \in 1 .. Len(nodes) :
            /\ nodes[c].bounds = QuadBounds(f.bounds, f.q) /\ nodes[c].bounds \in Rect
            /\ \A i : i \in Pending(nodes, f, n) <=>
                         i \in Under(nodes, c) \/ i \in Kids(nodes, n, f.q + 1)
            /\ \A i : ~ (i \in Under(nodes, c) /\ i \in Kids(nodes, n, f.q + 1))
            /\ Lies(data, r.addr, Code(nodes, c), r.addr + r.value)
            /\ Lies(data, r.addr + r.value, QuadsFrom(nodes, n, f.q + 1), e)
        BY <1>8, <1>11, Zenon DEF QuadAhead
    <2>2. PICK q \in 0 .. 3 : q = f.q
        BY <1>8
    <2>3. PICK a \in Nat, z \in Nat : a = r.addr /\ z = r.value
        BY <1>8
    <2>4. /\ Lies(data, a, Code(nodes, c), a + z)
          /\ Lies(data, a + z, QuadsFrom(nodes, n, q + 1), e)
          /\ HeaderLen <= a
        BY <1>8, <2>1, <2>2, <2>3, Zenon
    <2>5. HeaderLen \in Nat /\ c \in Nat
        BY DEF HeaderLen
    <2>6. CASE PruneQuad
        <3>1. PICK b \in Nat : b = a + z /\ HeaderLen <= b
            BY <2>4, <2>5
        <3>2. PICK h : /\ Update(h) /\ h = [f EXCEPT !.q = @ + 1, !.addr = b]
                       /\ ~ RectIntersectsRect(QuadBounds(f.bounds, f.q), target)
            BY <1>6, <2>3, <2>6, <3>1, Zenon DEF PruneQuad, QBounds
        <3>3. HasFields(h, f.at, b, f.bounds, f.left, f.last, f.q + 1, f.qsize)
            <4>1. b \in Int
                OBVIOUS
            <4>2. QED
                BY <1>7, <3>2, <4>1, QuadFields, Zenon
        <3>4. /\ h \in SFrame /\ h.at = "quads" /\ h.addr = b
              /\ h.bounds = nodes[n].bounds /\ h.q = q + 1
            BY <1>7, <1>9, <2>2, <3>3, Zenon DEF HasFields
        <3>5. Lies(data, b, QuadsFrom(nodes, n, q + 1), e)
            BY <2>4, <3>1, Zenon
        <3>6. /\ Good(nodes, data, h, n, e)
              /\ Pending(nodes, h, n) = Kids(nodes, n, q + 1)
            BY <1>9, <3>1, <3>4, <3>5, PastGood, Zenon DEF AtQuads
        <3>7. ASSUME NEW i, i \in Under(nodes, c) PROVE i \notin Matching
            <4>1. /\ i \in Numbers(series) /\ nodes[c].bounds \in Rect /\ Proper(nodes[c].bounds)
                  /\ RectContainsRect(nodes[c].bounds, SegmentRectAt(series, i))
                <5>1. IsTreeOf(nodes, series)
                    BY <1>5 DEF Setting
                <5>2. QED
                    BY <3>7, <5>1, UnderWithin, Zenon
            <4>2. SegmentRectAt(series, i) \in Rect
                <5>1. series \in SeriesType
                    BY <1>5 DEF Setting, IsTreeOf
                <5>2. QED
                    BY <4>1, <5>1, SegmentRectType DEF Numbers
            <4>3. target \in Rect
                BY DEF SearchInv
            <4>4. ~ RectIntersectsRect(nodes[c].bounds, target)
                BY <2>1, <3>2, Zenon
            <4>5. ~ RectIntersectsRect(SegmentRectAt(series, i), target)
                BY <4>1, <4>2, <4>3, <4>4, Unmet, Zenon
            <4>6. QED
                BY <4>5, Zenon DEF Matching, Hit
        <3>8. /\ Good(nodes, data, h, g[1], EndOf(data, frames, 1))
              /\ \A i : i \in Pending(nodes, h, g[1]) => i \in Pending(nodes, cur, g[1])
              /\ \A i : i \in Pending(nodes, cur, g[1]) =>
                           i \in Pending(nodes, h, g[1]) \/ i \notin Matching
            BY <1>6, <2>1, <2>2, <3>6, <3>7, Zenon
        <3>9. QED
            BY <1>1, <1>2, <1>3, <1>4, <3>2, <3>4, <3>8, QuietGoing, Zenon
    <2>7. CASE EnterQuad
        <3>1. PICK h, k : /\ frames' = <<k, h>> \o Tail(frames)
                          /\ h = [f EXCEPT !.at = "called", !.addr = a, !.qsize = z]
                          /\ k = Enter(a, nodes[c].bounds)
            BY <1>6, <2>1, <2>3, <2>7, Zenon DEF EnterQuad, QBounds
        <3>2. a \in Int /\ z \in Int
            OBVIOUS
        <3>3. HasFields(h, "called", a, f.bounds, f.left, f.last, f.q, z)
            BY <1>7, <3>1, <3>2, CalledFields, Zenon
        <3>4. HasFields(k, "count", a, nodes[c].bounds, 0, 0, 0, 0)
            BY <2>1, <3>1, <3>2, EnterFields, Zenon
        <3>5. /\ h \in SFrame /\ h.at = "called" /\ h.addr = a
              /\ h.bounds = nodes[n].bounds /\ h.q = q /\ h.qsize = z
            BY <1>9, <2>2, <3>3, Zenon DEF HasFields
        <3>6. /\ Good(nodes, data, h, n, e)
              /\ Pending(nodes, h, n) = Kids(nodes, n, q + 1)
            <4>1. AtQuads(nodes, data, h, n, e, q + 1)
                BY <1>9, <2>4, <3>5, WaitGood, ZenonT(30)
            <4>2. QED
                BY <4>1, Zenon DEF AtQuads
        <3>7. /\ Good(nodes, data, k, c, a + z)
              /\ Pending(nodes, k, c) = Under(nodes, c)
            BY <2>4, <3>4, StartGood, Zenon
        <3>8. k \in SFrame
            BY <3>4, Zenon DEF HasFields
        <3>9. Good(nodes, data, k, c, h.addr + h.qsize)
            BY <3>5, <3>7, Zenon
        <3>10. /\ Good(nodes, data, h, g[1], EndOf(data, frames, 1))
               /\ \A i : i \in Pending(nodes, cur, g[1]) <=>
                            i \in Pending(nodes, k, c) \/ i \in Pending(nodes, h, g[1])
               /\ \A i : ~ (i \in Pending(nodes, k, c) /\ i \in Pending(nodes, h, g[1]))
            BY <1>6, <2>1, <2>2, <3>6, <3>7, Zenon
        <3>11. QED
            BY <1>1, <1>2, <1>3, <1>4, <2>5, <3>1, <3>5, <3>8, <3>9, <3>10, CallsOnGoing, Zenon
    <2>8. QED
        BY <1>11, <2>6, <2>7
<1>12. CASE PruneQuad \/ EnterQuad
    <2>1. r.value # 0
        BY <1>6, <1>12, Zenon DEF PruneQuad, EnterQuad
    <2>2. QED
        BY <1>11, <1>12, <2>1
<1>13. QED
    BY <1>10, <1>12

(* and goes on after the call for one.                                     *)
LEMMA ResumeGoing ==
    ASSUME SearchInv, Fits, ResumeQuads \/ PassStop \/ EndQuads
    PROVE  Going'
<1>1. /\ Reading("called") \/ Reading("quads")
      /\ SameSeries /\ hits' = hits
    BY DEF ResumeQuads, PassStop, EndQuads
<1>2. pc = "tree" /\ frames # <<>> /\ \E g : StackGoing(g)
    BY <1>1, TreeGoing, Zenon
<1>3. PICK g : StackGoing(g)
    BY <1>2
<1>4. /\ Setting(nodes, data, series)
      /\ frames \in Seq(SFrame) /\ g \in Seq(Nat) /\ Len(g) = Len(frames)
      /\ Walks(nodes, data, frames, g)
      /\ cur \in SFrame /\ cur = frames[1]
      /\ Good(nodes, data, cur, g[1], EndOf(data, frames, 1))
      /\ PendingAt(nodes, frames, g, 1) = Pending(nodes, cur, g[1])
      /\ hits \in Seq(Nat)
    BY <1>2, <1>3, AtTop, Zenon
<1>5. hits' \in Seq(Nat)
    BY <1>1, <1>4, Zenon
<1>6. PICK f, n, e : f = cur /\ n = g[1] /\ e = EndOf(data, frames, 1)
    OBVIOUS
<1>7. f \in SFrame /\ Good(nodes, data, f, n, e)
    BY <1>4, <1>6, Zenon
<1>8. CASE ResumeQuads
    <2>1. /\ ret /\ ret' = ret /\ f.at = "called"
        BY <1>6, <1>8, Zenon DEF ResumeQuads, Reading
    <2>2. PICK h : /\ Update(h)
                   /\ h = [f EXCEPT !.at = "quads", !.q = @ + 1, !.addr = @ + f.qsize]
        BY <1>6, <1>8, Zenon DEF ResumeQuads
    <2>3. HasFields(h, "quads", f.addr + f.qsize, f.bounds, f.left, f.last, f.q + 1, f.qsize)
        BY <1>7, <2>2, ResumeFields, Zenon
    <2>4. SameCall(nodes, data, f, n, e, h)
        BY <1>4, <1>7, <2>1, <2>3, CalledGood, Zenon
    <2>5. h \in SFrame
        BY <2>3, Zenon DEF HasFields
    <2>6. /\ Good(nodes, data, h, g[1], EndOf(data, frames, 1))
          /\ \A i : i \in Pending(nodes, h, g[1]) => i \in Pending(nodes, cur, g[1])
          /\ \A i : i \in Pending(nodes, cur, g[1]) =>
                       i \in Pending(nodes, h, g[1]) \/ i \notin Matching
        BY <1>6, <2>4, Zenon DEF SameCall
    <2>7. QED
        BY <1>1, <1>2, <1>3, <2>1, <2>2, <2>5, <2>6, QuietGoing, Zenon
<1>9. CASE PassStop
    <2>1. ~ ret' /\ frames' = Tail(frames)
        BY <1>9, Zenon DEF PassStop, ReturnWith
    <2>2. QED
        BY <1>1, <1>2, <1>3, <1>5, <2>1, ReturnsGoing, Zenon
<1>10. CASE EndQuads
    <2>1. f.at = "quads" /\ f.q = 4 /\ frames' = Tail(frames) /\ Reading("quads")
        BY <1>6, <1>10, Zenon DEF EndQuads, ReturnWith, Reading
    <2>2. ret
        <3>1. "quads" # "called" /\ Unwinding
            BY DEF SearchInv
        <3>2. QED
            BY <2>1, <3>1, ReadingGoing
    <2>3. f.addr = e /\ e <= Len(data) /\ \A i : i \notin Pending(nodes, f, n)
        BY <1>4, <1>7, <2>1, EndGood, Zenon
    <2>4. \A i : i \notin Pending(nodes, cur, g[1])
        BY <1>6, <2>3, Zenon
    <2>5. QED
        BY <1>1, <1>2, <1>3, <1>5, <2>1, <2>2, <2>4, ReturnsGoing, Zenon
<1>11. QED
    BY <1>8, <1>9, <1>10

(* How many segments there are.                                            *)
LEMMA NumSegmentsFacts ==
    ASSUME SearchInv
    PROVE  series \in SeriesType /\ NumSegments(series) \in Nat /\ Items \subseteq Nat
<1>1. series \in SeriesType
    BY Zenon DEF SearchInv, MakeInv, IInv, TypeOK, SeriesType
<1>2. NumSegments(series) \in Nat
    BY <1>1, NumbersNat
<1>3. QED
    BY <1>1, <1>2 DEF Items

(* A scan looks at one more segment.                                       *)
LEMMA ScanGoingOn ==
    ASSUME SearchInv, Fits, ScanSkip \/ ScanVisit
    PROVE  Going'
<1>1. /\ pc = "scan" /\ pc' = "scan" /\ scanned < NumSegments(series)
      /\ scanned' = scanned + 1 /\ UNCHANGED <<makeVars, target>>
    BY DEF ScanSkip, ScanVisit
<1>2. hits \in Seq(Nat) /\ ScanGoing
    BY <1>1 DEF SearchInv, Going
<1>3. nodes' = nodes /\ series' = series /\ Matching' = Matching
    BY <1>1, SameFacts
<1>4. NumSegments(series) \in Nat /\ Items \subseteq Nat
    BY NumSegmentsFacts
<1>5. scanned \in Items /\ scanned \in Nat /\ scanned' \in 0 .. NumSegments(series)
    BY <1>1, <1>2, <1>4 DEF ScanGoing, Items
<1>6. \A i : i \in Matching => i \in Nat
    BY <1>4 DEF Matching
<1>7. CASE ScanSkip
    <2>1. hits' = hits /\ scanned \notin Matching
        BY <1>7 DEF ScanSkip, Matching
    <2>2. \A i : i \in Matching /\ i < scanned' <=> i \in Matching /\ i < scanned
        BY <1>1, <1>5, <1>6, <2>1
    <2>3. ScanGoing'
        BY <1>2, <1>3, <1>5, <2>1, <2>2, Zenon DEF ScanGoing
    <2>4. pc' # "tree"
        BY <1>1
    <2>5. QED
        BY <1>2, <2>1, <2>3, <2>4, Zenon DEF Going
<1>8. CASE ScanVisit
    <2>1. hits' = Append(hits, scanned) /\ scanned \in Matching
        BY <1>5, <1>8 DEF ScanVisit, Matching
    <2>2. /\ hits' \in Seq(Nat)
          /\ \A i : i \in ToSet(hits') <=> i \in ToSet(hits) \/ i = scanned
        BY <1>2, <1>5, <2>1, AppendFound
    <2>3. \A i : i \in Matching /\ i < scanned' <=> (i \in Matching /\ i < scanned) \/ i = scanned
        BY <1>1, <1>5, <1>6, <2>1
    <2>4. ScanGoing'
        BY <1>2, <1>3, <1>5, <2>2, <2>3, Zenon DEF ScanGoing
    <2>5. pc' # "tree"
        BY <1>1
    <2>6. QED
        BY <2>2, <2>4, <2>5, Zenon DEF Going
<1>9. QED
    BY <1>7, <1>8

(* iter stopped the scan at a segment it had not been called with.         *)
LEMMA ScanEndsGoing ==
    ASSUME SearchInv, Fits, ScanStop \/ ScanEnd \/ TreeEnd
    PROVE  Going'
<1>1. pc' = "done"
    BY DEF ScanStop, ScanEnd, TreeEnd
<1>2. hits \in Seq(Nat)
    BY DEF SearchInv, Going
<1>3. hits' \in Seq(Nat)
    <2>1. CASE ScanStop
        <3>1. ScanGoing /\ scanned < NumSegments(series)
            BY <2>1 DEF ScanStop, SearchInv, Going
        <3>2. scanned \in Nat
            BY <3>1, NumSegmentsFacts DEF ScanGoing
        <3>3. hits' = Append(hits, scanned)
            BY <2>1 DEF ScanStop
        <3>4. QED
            BY <1>2, <3>2, <3>3
    <2>2. CASE ScanEnd \/ TreeEnd
        BY <1>2, <2>2 DEF ScanEnd, TreeEnd
    <2>3. QED
        BY <2>1, <2>2
<1>4. QED
    BY <1>1, <1>3 DEF Going

(* A scan has all segments ahead of it.                                    *)
LEMMA CallScanGoing ==
    ASSUME SearchInv, NEW rect \in Targets, CallScan(rect)
    PROVE  Going'
<1>1. pc' = "scan" /\ scanned' = 0 /\ hits' = <<>> /\ UNCHANGED makeVars
    BY DEF CallScan
<1>2. series' = series
    BY <1>1 DEF makeVars, vars
<1>3. NumSegments(series) \in Nat /\ Items \subseteq Nat
    BY NumSegmentsFacts
<1>4. Items' = Items
    BY <1>2 DEF Items
<1>5. \A i : i \in Matching' => i \in Items
    BY <1>4 DEF Matching
<1>6. \A i : ~ (i \in Matching' /\ i < 0)
    <2>1. \A i \in Nat : ~ (i < 0)
        OBVIOUS
    <2>2. \A i \in Items : i \in Nat
        BY <1>3
    <2>3. QED
        BY <1>5, <2>1, <2>2, Zenon
<1>7. scanned' \in 0 .. NumSegments(series')
    BY <1>1, <1>2, <1>3
<1>8. ScanGoing'
    BY <1>1, <1>6, <1>7, EmptyFound, Zenon DEF ScanGoing
<1>9. pc' # "tree" /\ hits' \in Seq(Nat)
    BY <1>1
<1>10. QED
    BY <1>8, <1>9, Zenon DEF Going

(* A search in the index starts at the root, below which all segments      *)
(* are.                                                                    *)
LEMMA CallTreeGoing ==
    ASSUME SearchInv, NEW rect \in Targets, CallTree(rect), Fits
    PROVE  Going'
<1>1. /\ pc' = "tree" /\ hits' = <<>> /\ UNCHANGED makeVars /\ data' = Readable(index)
      /\ frames' = <<Enter(HeaderLen, series.rect)>> /\ index # <<>>
    BY DEF CallTree
<1>2. series' = series /\ nodes' = nodes
    BY <1>1 DEF makeVars, vars
<1>3. /\ IsTreeOf(nodes, series) /\ data' = index
      /\ Readably(nodes, index) /\ Lies(index, HeaderLen, Code(nodes, 1), Len(index))
    BY <1>1, IndexReads DEF SearchInv
<1>4. /\ nodes[1].bounds = series.rect /\ nodes[1].bounds \in Rect /\ 1 \in 1 .. Len(nodes)
    <2>1. 1 \in 1 .. Len(nodes)
        BY <1>3, UnderRoot
    <2>2. QED
        BY <1>3, <2>1 DEF IsTreeOf, IsBounded
<1>5. PICK h : h = Enter(HeaderLen, nodes[1].bounds) /\ frames' = <<h>>
    BY <1>1, <1>4
<1>6. HeaderLen \in Nat /\ HeaderLen <= HeaderLen
    BY DEF HeaderLen
<1>7. HasFields(h, "count", HeaderLen, nodes[1].bounds, 0, 0, 0, 0)
    <2>1. HeaderLen \in Int
        BY <1>6
    <2>2. QED
        BY <1>4, <1>5, <2>1, EnterFields, Zenon
<1>8. h \in SFrame
    BY <1>7, Zenon DEF HasFields
<1>9. /\ Good(nodes, index, h, 1, Len(index)) /\ Pending(nodes, h, 1) = Under(nodes, 1)
    BY <1>3, <1>4, <1>6, <1>7, StartGood, Zenon
<1>10. PICK fr, g : fr = <<h>> /\ g = <<1>>
    OBVIOUS
<1>11. /\ fr \in Seq(SFrame) /\ g \in Seq(Nat) /\ Len(g) = Len(fr) /\ Len(fr) = 1
       /\ fr[1] = h /\ g[1] = 1
    BY <1>8, <1>10
<1>12. EndOf(index, fr, 1) = Len(index)
    BY <1>11, Zenon DEF EndOf
<1>13. \A i \in 1 .. Len(fr) : i = 1
    BY <1>11
<1>14. Walks(nodes, index, fr, g)
    BY <1>9, <1>11, <1>12, <1>13, Zenon DEF Walks
<1>15. PendingAt(nodes, fr, g, 1) = Numbers(series)
    <2>1. Under(nodes, 1) = Numbers(series)
        BY <1>3, UnderRoot
    <2>2. QED
        BY <1>9, <1>11, <2>1, Zenon DEF PendingAt
<1>16. \A i : i \in Matching' => i \in Numbers(series)
    BY <1>2 DEF Matching, Items, Numbers
<1>17. PICK H : H = ToSet(<<>>) /\ \A i : i \notin H
    BY EmptyFound
<1>18. PICK M : M = Matching' /\ \A i : i \in M => i \in Numbers(series)
    BY <1>16
<1>19. Accounts(nodes, fr, g, H, M)
    <2>1. H \subseteq M
        BY <1>17
    <2>2. \A k \in 1 .. Len(fr) : \A i : i \in PendingAt(nodes, fr, g, k) => i \notin H
        BY <1>17, Zenon
    <2>3. \A k, l \in 1 .. Len(fr) : k # l => \A i :
             ~ (i \in PendingAt(nodes, fr, g, k) /\ i \in PendingAt(nodes, fr, g, l))
        BY <1>13, Zenon
    <2>4. 1 \in 1 .. Len(fr)
        BY <1>11
    <2>5. \A i \in M : i \in H \/ \E k \in 1 .. Len(fr) : i \in PendingAt(nodes, fr, g, k)
        BY <1>15, <1>18, <2>4, Zenon
    <2>6. QED
        BY <2>1, <2>2, <2>3, <2>5, Zenon DEF Accounts
<1>20. StackGoing(g)'
    <2>1. frames' = fr /\ data' = index /\ nodes' = nodes /\ ToSet(hits') = H /\ Matching' = M
        BY <1>1, <1>2, <1>3, <1>5, <1>10, <1>17, <1>18, Zenon
    <2>2. QED
        BY <1>14, <1>19, <2>1, Zenon DEF StackGoing
<1>21. pc' # "scan" /\ hits' \in Seq(Nat)
    BY <1>1
<1>22. QED
    BY <1>20, <1>21, Zenon DEF Going

(* Before a search nothing has been found.                                 *)
LEMMA IdleGoing ==
    ASSUME pc = "idle", hits = <<>>
    PROVE  Going
    BY DEF Going

(* Every step of qCompressSearch keeps the account.                        *)
LEMMA TreeStepsGoing ==
    ASSUME SearchInv, Fits,
           \/ ReadCount \/ SkipItem \/ VisitItem \/ StopAtItem \/ EndLeaf
           \/ EnterQuads \/ EmptyQuad \/ PruneQuad \/ EnterQuad
           \/ ResumeQuads \/ PassStop \/ EndQuads
    PROVE  Going'
    BY ReadCountGoing, ItemGoing, FlagGoing, QuadGoing, ResumeGoing

(* What a step inside a search leaves alone.                               *)
LEMMA InsideSearch ==
    ASSUME SearchInv,
           \/ ReadCount \/ SkipItem \/ VisitItem \/ StopAtItem \/ EndLeaf
           \/ EnterQuads \/ EmptyQuad \/ PruneQuad \/ EnterQuad
           \/ ResumeQuads \/ PassStop \/ EndQuads
    PROVE  SameSeries /\ pc = "tree" /\ ret' \in BOOLEAN
<1>1. ret \in BOOLEAN
    BY DEF SearchInv
<1>2. QED
    BY <1>1 DEF ReadCount, SkipItem, VisitItem, StopAtItem, EndLeaf,
       EnterQuads, EmptyQuad, PruneQuad, EnterQuad, ResumeQuads, PassStop, EndQuads,
       ReturnWith, Reading, InQuads

(* The invariant holds before the first call,                              *)
LEMMA InitSearchInv == SearchInit => SearchInv
<1> SUFFICES ASSUME SearchInit PROVE SearchInv
    OBVIOUS
<1>1. MakeInv /\ Unwinding
    BY InitMakeInv, InitUnwinding DEF SearchInit
<1>2. target \in Rect
    BY DEF SearchInit, NoRect, PointRect, Rect, Point
<1>3. pc = "idle" /\ hits = <<>> /\ frames = <<>> /\ ret = TRUE
    BY DEF SearchInit
<1>4. QED
    BY <1>1, <1>2, <1>3, IdleGoing DEF SearchInv

(* every step keeps it,                                                    *)
LEMMA StepSearchInv == SearchInv /\ [SearchNext]_allVars => SearchInv'
<1> SUFFICES ASSUME SearchInv, [SearchNext]_allVars PROVE SearchInv'
    OBVIOUS
<1>u. Unwinding'
    BY StepUnwinding DEF SearchInv
<1>m. /\ MakeInv /\ target \in Rect /\ pc \in {"idle", "scan", "tree", "done"}
      /\ ret \in BOOLEAN /\ (~ made => pc = "idle")
      /\ (pc = "idle" => hits = <<>> /\ ret)
      /\ (pc # "tree" => frames = <<>>)
      /\ (pc = "tree" => index # <<>> /\ data = Readable(index))
      /\ (Fits => Going)
    BY DEF SearchInv
<1>1. CASE MakeStep /\ UNCHANGED searchVars
    <2>1. MakeInv'
        BY <1>m, <1>1, MakeStepInv
    <2>2. ~ made
        BY <1>1 DEF MakeStep, BuildStep, FinishIndexed, FinishUnindexed
    <2>3. pc' = "idle" /\ hits' = <<>> /\ frames' = <<>> /\ ret' = ret /\ ret /\ target' = target
        BY <1>m, <1>1, <2>2 DEF searchVars
    <2>4. Going'
        BY <2>3 DEF Going
    <2>5. QED
        BY <1>m, <1>u, <2>1, <2>3, <2>4 DEF SearchInv
<1>2. CASE UNCHANGED allVars
    <2>1. UNCHANGED <<makeVars, target>> /\ UNCHANGED searchVars
        BY <1>2 DEF allVars, searchVars
    <2>2. MakeInv'
        BY <1>m, <2>1, SameMakeInv
    <2>3. /\ nodes' = nodes /\ series' = series /\ index' = index /\ made' = made
          /\ Matching' = Matching /\ (Fits' <=> Fits)
        BY <2>1, SameFacts
    <2>4. /\ pc' = pc /\ target' = target /\ data' = data /\ scanned' = scanned
          /\ frames' = frames /\ ret' = ret /\ hits' = hits
        BY <2>1 DEF searchVars
    <2>5. \A g : StackGoing(g)' <=> StackGoing(g)
        BY <2>3, <2>4, Zenon DEF StackGoing
    <2>6. ScanGoing' <=> ScanGoing
        BY <2>3, <2>4, Zenon DEF ScanGoing
    <2>7. Going' <=> Going
        BY <2>4, <2>5, <2>6, Zenon DEF Going
    <2>8. QED
        BY <1>m, <1>u, <2>2, <2>3, <2>4, <2>7, Zenon DEF SearchInv
<1>3. CASE ScanSkip \/ ScanVisit \/ ScanStop \/ ScanEnd \/ TreeEnd
    <2>1. UNCHANGED <<makeVars, target>> /\ pc' \in {"scan", "done"}
        BY <1>3 DEF ScanSkip, ScanVisit, ScanStop, ScanEnd, TreeEnd
    <2>2. MakeInv'
        BY <1>m, <2>1, SameMakeInv
    <2>3. /\ nodes' = nodes /\ series' = series /\ index' = index /\ made' = made
          /\ Matching' = Matching /\ (Fits' <=> Fits)
        BY <2>1, SameFacts
    <2>4. /\ made /\ frames' = <<>> /\ ret' \in BOOLEAN
        BY <1>m, <1>3 DEF ScanSkip, ScanVisit, ScanStop, ScanEnd, TreeEnd
    <2>5. Fits => Going'
        BY <1>3, ScanGoingOn, ScanEndsGoing
    <2>6. target' \in Rect
        BY <1>m, <2>1
    <2>7. QED
        BY <1>u, <2>1, <2>2, <2>3, <2>4, <2>5, <2>6 DEF SearchInv
<1>4. CASE \/ ReadCount \/ SkipItem \/ VisitItem \/ StopAtItem \/ EndLeaf
           \/ EnterQuads \/ EmptyQuad \/ PruneQuad \/ EnterQuad
           \/ ResumeQuads \/ PassStop \/ EndQuads
    <2>1. SameSeries /\ pc = "tree" /\ ret' \in BOOLEAN
        BY <1>4, InsideSearch
    <2>2. UNCHANGED <<makeVars, target>> /\ pc' = pc /\ data' = data
        BY <2>1 DEF SameSeries
    <2>3. MakeInv'
        BY <1>m, <2>2, SameMakeInv
    <2>4. /\ nodes' = nodes /\ series' = series /\ index' = index /\ made' = made
          /\ Matching' = Matching /\ (Fits' <=> Fits)
        BY <2>2, SameFacts
    <2>5. Fits => Going'
        BY <1>4, TreeStepsGoing
    <2>6. /\ target' \in Rect /\ index' # <<>> /\ data' = Readable(index') /\ made'
        BY <1>m, <2>1, <2>2, <2>4
    <2>7. QED
        BY <1>u, <2>1, <2>2, <2>3, <2>4, <2>5, <2>6 DEF SearchInv
<1>5. ASSUME NEW rect \in Targets, CallScan(rect) \/ CallTree(rect) PROVE SearchInv'
    <2>1. /\ UNCHANGED makeVars /\ made /\ target' = rect /\ ret' = TRUE
          /\ pc' \in {"scan", "tree"}
          /\ pc' = "tree" => index # <<>> /\ data' = Readable(index)
          /\ pc' = "scan" => frames' = <<>>
        BY <1>m, <1>5 DEF CallScan, CallTree
    <2>2. MakeInv'
        BY <1>m, <2>1, SameMakeInv
    <2>3. index' = index /\ made' = made /\ (Fits' <=> Fits)
        BY <2>1 DEF makeVars, vars, Fits
    <2>4. Fits => Going'
        BY <1>5, CallScanGoing, CallTreeGoing
    <2>5. target' \in Rect
        BY <2>1, TargetsAssumption
    <2>6. QED
        BY <1>u, <2>1, <2>2, <2>3, <2>4, <2>5 DEF SearchInv
<1>6. ASSUME NEW delta \in Deltas, MoveSeries(delta) PROVE SearchInv'
    <2>1. MakeInv'
        BY <1>m, <1>6, MoveInv DEF MoveSeries
    <2>2. pc' = "idle" /\ target' = NoRect /\ frames' = <<>> /\ ret' = TRUE /\ hits' = <<>>
        BY <1>6 DEF MoveSeries
    <2>3. target' \in Rect
        BY <2>2 DEF NoRect, PointRect, Rect, Point
    <2>4. Going'
        BY <2>2 DEF Going
    <2>5. QED
        BY <1>u, <2>1, <2>2, <2>3, <2>4 DEF SearchInv
<1>7. QED
    BY <1>1, <1>2, <1>3, <1>4, <1>5, <1>6 DEF SearchNext, SearchStep

-----------------------------------------------------------------------------
(* so it always holds.                                                     *)
LEMMA AlwaysSearchInv == SearchSpec => []SearchInv
    BY InitSearchInv, StepSearchInv, PTL DEF SearchSpec

(* Who stands on a node's bytes stands inside of the index.                *)
LEMMA GoodInside ==
    ASSUME NEW tree, NEW d, NEW s, Setting(tree, d, s),
           NEW f \in SFrame, NEW n, NEW e, Good(tree, d, f, n, e)
    PROVE  /\ HeaderLen <= f.addr
           /\ f.addr + (IF f.at = "quads" /\ f.q = 4 THEN 0
                        ELSE IF f.at = "called" THEN f.qsize ELSE 1) <= Len(d)
<1>1. /\ IsTreeOf(tree, s) /\ Readably(tree, d) /\ IsTree(tree) /\ d \in Seq(Nat)
      /\ Len(d) \in Nat /\ HeaderLen \in Nat
    BY SettingFacts, Zenon
<1>2. /\ HeaderLen <= f.addr /\ f.addr \in Int /\ n \in 1 .. Len(tree)
    BY FrameFields DEF Good
<1>3. CASE f.at = "count"
    <2>1. Lies(d, f.addr, Code(tree, n), e)
        BY <1>3, Zenon DEF Good
    <2>2. PICK a : a = f.addr
        OBVIOUS
    <2>3. /\ ReadUvarint(d, a).value = Count(tree, n)
          /\ Lies(d, ReadUvarint(d, a).addr, ItemsFrom(tree, n, 1), e)
          /\ a < ReadUvarint(d, a).addr /\ a \in Nat
          /\ a < e /\ e <= Len(d)
        BY <1>1, <1>2, <2>1, <2>2, ReadsCount, Zenon
    <2>4. e \in Nat
        BY <1>1, <2>1, LiesInside
    <2>5. QED
        BY <1>1, <1>2, <1>3, <2>2, <2>3, <2>4
<1>4. CASE f.at = "items" /\ f.left = 0
    <2>1. f.addr < e /\ e <= Len(d)
        BY <1>4, FlagGood
    <2>2. e \in Nat
        <3>1. Lies(d, f.addr, ItemsFrom(tree, n, Turn(tree, n, f)), e)
            BY <1>4, Zenon DEF Good
        <3>2. QED
            BY <1>1, <3>1, LiesInside
    <2>3. QED
        BY <1>1, <1>2, <1>4, <2>1, <2>2
<1>5. CASE f.at = "items" /\ f.left # 0
    <2>1. /\ f.left \in 0 .. Count(tree, n)
          /\ Lies(d, f.addr, ItemsFrom(tree, n, Turn(tree, n, f)), e)
        BY <1>5, Zenon DEF Good
    <2>2. Count(tree, n) \in Nat
        BY <1>1, <1>2, OwnIs
    <2>3. PICK k \in 1 .. Count(tree, n) : k = Turn(tree, n, f)
        BY <1>5, <2>1, <2>2 DEF Turn
    <2>4. PICK a : a = f.addr
        OBVIOUS
    <2>5. Lies(d, a, ItemsFrom(tree, n, k), e)
        BY <2>1, <2>3, <2>4, Zenon
    <2>6. /\ ReadUvarint(d, a).value + Before(tree, n, k) = ItemAt(tree, n, k)
          /\ Lies(d, ReadUvarint(d, a).addr, ItemsFrom(tree, n, k + 1), e)
          /\ a < ReadUvarint(d, a).addr /\ a \in Nat
          /\ ItemAt(tree, n, k) \in Nat /\ Before(tree, n, k) \in Nat
          /\ a < e /\ e <= Len(d)
        BY <1>1, <1>2, <2>5, ReadsItem, Zenon
    <2>7. e \in Nat
        BY <1>1, <2>5, LiesInside
    <2>8. QED
        BY <1>1, <1>2, <1>5, <2>4, <2>6, <2>7
<1>6. CASE f.at = "quads" /\ f.q = 4
    <2>1. f.addr = e /\ e <= Len(d)
        BY <1>6, EndGood
    <2>2. QED
        BY <1>1, <1>2, <1>6, <2>1
<1>7. CASE f.at = "quads" /\ f.q # 4
    <2>1. f.q \in 0 .. 4 /\ Lies(d, f.addr, QuadsFrom(tree, n, f.q), e)
        BY <1>7, Zenon DEF Good
    <2>2. f.q < 4
        BY <1>7, <2>1
    <2>3. f.addr < e /\ e <= Len(d)
        BY <1>7, <2>2, QuadGood
    <2>4. e \in Nat
        BY <1>1, <2>1, LiesInside
    <2>5. QED
        BY <1>1, <1>2, <1>7, <2>3, <2>4
<1>8. CASE f.at = "called"
    <2>1. Lies(d, f.addr + f.qsize, QuadsFrom(tree, n, f.q + 1), e)
        BY <1>8, Zenon DEF Good
    <2>2. PICK a : a = f.addr + f.qsize
        OBVIOUS
    <2>3. a \in Nat /\ e \in Nat /\ a <= e /\ e <= Len(d)
        BY <1>1, <2>1, <2>2, LiesInside
    <2>4. QED
        BY <1>1, <1>2, <1>8, <2>2, <2>3
<1>9. f.at \in {"count", "items", "quads", "called"}
    BY FrameFields
<1>10. QED
    BY <1>3, <1>4, <1>5, <1>6, <1>7, <1>8, <1>9

(* So do all calls in progress.                                            *)
LEMMA InsideAll ==
    ASSUME SearchInv, Fits
    PROVE  CursorInside
<1>1. CASE pc # "tree"
    <2>1. frames = <<>>
        BY <1>1 DEF SearchInv
    <2>2. QED
        BY <2>1 DEF CursorInside
<1>2. CASE pc = "tree"
    <2>1. PICK g : Walks(nodes, data, frames, g)
        BY <1>2 DEF SearchInv, Going, StackGoing
    <2>2. Setting(nodes, data, series)
        BY <1>2, SearchSetting
    <2>3. /\ frames \in Seq(SFrame)
          /\ \A i \in 1 .. Len(frames) : Good(nodes, data, frames[i], g[i], EndOf(data, frames, i))
        BY <2>1, Zenon DEF Walks
    <2>4. ASSUME NEW i \in DOMAIN frames
          PROVE  /\ HeaderLen <= frames[i].addr
                 /\ frames[i].addr + (IF frames[i].at = "quads" /\ frames[i].q = 4 THEN 0
                        ELSE IF frames[i].at = "called" THEN frames[i].qsize ELSE 1) <= Len(data)
        <3>1. i \in 1 .. Len(frames) /\ frames[i] \in SFrame
            BY <2>3
        <3>2. PICK f, n, e : f = frames[i] /\ n = g[i] /\ e = EndOf(data, frames, i)
            OBVIOUS
        <3>3. f \in SFrame /\ Good(nodes, data, f, n, e)
            BY <2>3, <3>1, <3>2, Zenon
        <3>4. /\ HeaderLen <= f.addr
              /\ f.addr + (IF f.at = "quads" /\ f.q = 4 THEN 0
                        ELSE IF f.at = "called" THEN f.qsize ELSE 1) <= Len(data)
            BY <2>2, <3>3, GoodInside, Zenon
        <3>5. QED
            BY <3>2, <3>4, Zenon
    <2>5. QED
        BY <2>4, Zenon DEF CursorInside
<1>3. QED
    BY <1>1, <1>2

(* No cursor of a search leaves the index, whatever the series, the target *)
(* and the depth of the tree, as long as the index and the item numbers    *)
(* fit into 32 bits.                                                       *)
THEOREM CursorsInside == SearchSpec => [](Fits => CursorInside)
<1>1. SearchInv => (Fits => CursorInside)
    BY InsideAll
<1>2. QED
    BY <1>1, AlwaysSearchInv, PTL

(* A call that is at the end of its node is where its caller goes on.      *)
LEMMA EndsAgree ==
    ASSUME SearchInv, Fits
    PROVE  ExtentsAgree
<1> SUFFICES ASSUME pc = "tree", frames # <<>>, cur.at # "called"
             PROVE  LET leaf == cur.at = "items" /\ cur.left = 0 /\ At(data, cur.addr) = 0
                        quads == cur.at = "quads" /\ cur.q = 4
                        past == IF leaf THEN cur.addr + 1 ELSE cur.addr
                        end == IF Len(frames) = 1 THEN Len(data)
                               ELSE frames[2].addr + frames[2].qsize
                    IN  (leaf \/ quads) => past = end
    BY Zenon DEF ExtentsAgree
<1>1. PICK g : StackGoing(g)
    BY DEF SearchInv, Going
<1>2. /\ Setting(nodes, data, series)
      /\ frames \in Seq(SFrame) /\ g \in Seq(Nat) /\ Len(g) = Len(frames)
      /\ Walks(nodes, data, frames, g)
      /\ cur \in SFrame /\ cur = frames[1]
      /\ Good(nodes, data, cur, g[1], EndOf(data, frames, 1))
      /\ PendingAt(nodes, frames, g, 1) = Pending(nodes, cur, g[1])
      /\ hits \in Seq(Nat)
    BY <1>1, AtTop, Zenon
<1>3. PICK f, n, e : f = cur /\ n = g[1] /\ e = EndOf(data, frames, 1)
    OBVIOUS
<1>4. f \in SFrame /\ Good(nodes, data, f, n, e)
    BY <1>2, <1>3, Zenon
<1>5. e = IF Len(frames) = 1 THEN Len(data) ELSE frames[2].addr + frames[2].qsize
    <2>1. 1 + 1 = 2
        OBVIOUS
    <2>2. QED
        BY <1>3, <2>1, Zenon DEF EndOf
<1>6. ASSUME f.at = "items", f.left = 0, At(data, f.addr) = 0 PROVE f.addr + 1 = e
    BY <1>2, <1>4, <1>6, FlagGood
<1>7. ASSUME f.at = "quads", f.q = 4 PROVE f.addr = e
    BY <1>2, <1>4, <1>7, EndGood
<1>8. "items" # "quads"
    OBVIOUS
<1>9. QED
    BY <1>3, <1>5, <1>6, <1>7, <1>8, Zenon

(* When a call of a search returns, its cursor is where its caller goes    *)
(* on, and the outermost call's at the end of the index.                   *)
THEOREM EndsMeet == SearchSpec => [](Fits => ExtentsAgree)
<1>1. SearchInv => (Fits => ExtentsAgree)
    BY EndsAgree
<1>2. QED
    BY <1>1, AlwaysSearchInv, PTL

-----------------------------------------------------------------------------
(* What the promise sees of a search.                                      *)
Stage == IF pc = "idle" THEN "idle" ELSE IF pc # "done" /\ ret THEN "going" ELSE "over"

(* Nothing has been promised before the first call.                        *)
LEMMA InitPromised == SearchInit => Promised!Init
    BY DEF SearchInit, Promised!Init

(* A search that is over has found everything, unless it was stopped.      *)
LEMMA AllFound ==
    ASSUME SearchInv, Fits, ret,
           \/ pc = "tree" /\ frames = <<>>
           \/ pc = "scan" /\ scanned = NumSegments(series)
    PROVE  ToSet(hits) = Matching
<1>1. CASE pc = "tree" /\ frames = <<>>
    <2>1. PICK g : Accounts(nodes, frames, g, ToSet(hits), Matching)
        BY <1>1 DEF SearchInv, Going, StackGoing
    <2>2. PICK H, M : H = ToSet(hits) /\ M = Matching
        OBVIOUS
    <2>3. /\ H \subseteq M
          /\ \A i \in M : i \in H \/ \E k \in 1 .. Len(frames) :
                                        i \in PendingAt(nodes, frames, g, k)
        BY <2>1, <2>2, Zenon DEF Accounts
    <2>4. \A k : k \notin 1 .. Len(frames)
        BY <1>1
    <2>5. H = M
        BY <2>3, <2>4, Zenon
    <2>6. QED
        BY <2>2, <2>5
<1>2. CASE pc = "scan" /\ scanned = NumSegments(series)
    <2>1. \A i : i \in ToSet(hits) <=> i \in Matching /\ i < NumSegments(series)
        BY <1>2, Zenon DEF SearchInv, Going, ScanGoing
    <2>2. \A i \in Items : i < NumSegments(series)
        BY NumSegmentsFacts DEF Items
    <2>3. \A i : i \in Matching => i \in Items
        BY DEF Matching
    <2>4. QED
        BY <2>1, <2>2, <2>3
<1>3. QED
    BY <1>1, <1>2

(* A step that the promise does not see.                                   *)
LEMMA Unseen ==
    ASSUME Stage' = Stage, hits' = hits, Matching' = Matching
    PROVE  UNCHANGED Promised!vars
    BY DEF Promised!vars, Stage, Matching, Items, Hit

(* A call of iter, as the promise sees it.                                 *)
LEMMA SeenVisit ==
    ASSUME NEW v, Stage = "going", v \notin ToSet(hits), hits' = Append(hits, v),
           Stage' \in {"going", "over"}, Matching' = Matching
    PROVE  Promised!Visit(v)
<1>1. {item \in Items : Hit(item)}' = {item \in Items : Hit(item)}
    BY DEF Matching
<1>2. QED
    BY <1>1, Zenon DEF Promised!Visit, Promised!ToSet, ToSet, Stage

(* The end of a search that was not stopped.                               *)
LEMMA SeenEnd ==
    ASSUME Stage = "going", ToSet(hits) = Matching, Stage' = "over", hits' = hits,
           Matching' = Matching
    PROVE  Promised!End
<1>1. {item \in Items : Hit(item)}' = {item \in Items : Hit(item)}
    BY DEF Matching
<1>2. ToSet(hits) = {item \in Items : Hit(item)}
    BY DEF Matching
<1>3. QED
    BY <1>1, <1>2, Zenon DEF Promised!End, Promised!ToSet, ToSet, Stage

(* Every step is one the promise allows, or one it does not see.           *)
LEMMA StepPromised ==
    ASSUME SearchInv, Fits, [SearchNext]_allVars
    PROVE  [Promised!Next]_(Promised!vars)
<1>i. pc \in {"idle", "scan", "tree", "done"} /\ ret \in BOOLEAN
    BY DEF SearchInv
<1>m. Matching = {item \in Items : Hit(item)}
    BY DEF Matching
<1>1. CASE MakeStep /\ UNCHANGED searchVars
    <2>1. series' = series
        <3>1. Next => series' = series
            <4>1. InsertNext \/ AtDepthLimit \/ IntoOverflow => series' = series
                BY DEF InsertNext, AtDepthLimit, IntoOverflow, AppendItem
            <4>2. IntoQuad \/ IntoLeaf \/ BeginSplit => series' = series
                BY DEF IntoQuad, IntoLeaf, BeginSplit, AppendItem
            <4>3. SplitKeep \/ SplitHandDown \/ EndSplit => series' = series
                BY DEF SplitKeep, SplitHandDown, EndSplit
            <4>4. QED
                BY <4>1, <4>2, <4>3 DEF Next
        <3>2. BuildStep => Next
            BY DEF BuildStep
        <3>3. FinishIndexed \/ FinishUnindexed => series' = series
            BY DEF FinishIndexed, FinishUnindexed, vars
        <3>4. QED
            BY <1>1, <3>1, <3>2, <3>3 DEF MakeStep
    <2>2. Matching' = Matching
        BY <1>1, <2>1 DEF searchVars, Matching, Items, Hit
    <2>3. Stage' = Stage /\ hits' = hits
        BY <1>1 DEF searchVars, Stage
    <2>4. QED
        BY <2>2, <2>3, Unseen
<1>2. CASE UNCHANGED allVars
    <2>1. Matching' = Matching /\ Stage' = Stage /\ hits' = hits
        BY <1>2, SameFacts DEF allVars, searchVars, Stage
    <2>2. QED
        BY <2>1, Unseen
<1>3. CASE \/ ScanSkip \/ ReadCount \/ SkipItem \/ EndLeaf \/ EnterQuads \/ EmptyQuad
           \/ PruneQuad \/ EnterQuad \/ ResumeQuads \/ PassStop \/ EndQuads
    <2>1. UNCHANGED <<makeVars, target>> /\ hits' = hits /\ pc' = pc
        BY <1>3 DEF ScanSkip, ReadCount, SkipItem, EndLeaf, EnterQuads, EmptyQuad,
           PruneQuad, EnterQuad, ResumeQuads, PassStop, EndQuads, SameSeries
    <2>2. ret' = ret
        <3>1. CASE EndLeaf \/ EndQuads
            <4>1. ret
                <5>1. Unwinding /\ "items" # "called" /\ "quads" # "called"
                    BY DEF SearchInv
                <5>2. QED
                    BY <3>1, <5>1, ReadingGoing DEF EndLeaf, EndQuads
            <4>2. QED
                BY <1>i, <3>1, <4>1 DEF EndLeaf, EndQuads, ReturnWith
        <3>2. CASE PassStop
            BY <1>i, <3>2 DEF PassStop, ReturnWith
        <3>3. CASE \/ ScanSkip \/ ReadCount \/ SkipItem \/ EnterQuads \/ EmptyQuad
                   \/ PruneQuad \/ EnterQuad \/ ResumeQuads
            BY <3>3 DEF ScanSkip, ReadCount, SkipItem, EnterQuads, EmptyQuad,
               PruneQuad, EnterQuad, ResumeQuads
        <3>4. QED
            BY <1>3, <3>1, <3>2, <3>3
    <2>3. Matching' = Matching /\ Stage' = Stage
        BY <2>1, <2>2, SameFacts DEF Stage
    <2>4. QED
        BY <2>1, <2>3, Unseen
<1>4. CASE ScanVisit \/ ScanStop
    <2>1. /\ pc = "scan" /\ scanned < NumSegments(series) /\ Hit(scanned)
          /\ hits' = Append(hits, scanned) /\ UNCHANGED <<makeVars, target>>
          /\ pc' \in {"scan", "done"} /\ (pc' = "scan" => ret' = ret)
        BY <1>4 DEF ScanVisit, ScanStop
    <2>2. ret /\ ScanGoing
        BY <2>1 DEF SearchInv, Unwinding, Going
    <2>3. scanned \in Items
        BY <2>1, <2>2, NumSegmentsFacts DEF ScanGoing, Items
    <2>4. ~ (scanned < scanned)
        BY <2>2, NumSegmentsFacts DEF ScanGoing
    <2>5. scanned \notin ToSet(hits)
        BY <2>2, <2>4, Zenon DEF ScanGoing
    <2>6. scanned \in {item \in Items : Hit(item)}
        BY <2>1, <2>3
    <2>7. Matching' = Matching
        BY <2>1, SameFacts
    <2>8. Stage = "going" /\ Stage' \in {"going", "over"}
        BY <2>1, <2>2 DEF Stage
    <2>9. Promised!Visit(scanned)
        BY <2>1, <2>5, <2>7, <2>8, SeenVisit, Zenon
    <2>10. QED
        BY <2>6, <2>9, Zenon DEF Promised!Next
<1>5. CASE VisitItem \/ StopAtItem
    <2>1. /\ Hit(Item) /\ hits' = Append(hits, Item) /\ UNCHANGED <<makeVars, target>>
          /\ pc = "tree" /\ pc' = "tree" /\ Reading("items")
          /\ (ret' = ret \/ ret' = FALSE)
        BY <1>5 DEF VisitItem, StopAtItem, Reading, SameSeries, ReturnWith
    <2>2. ret
        <3>1. Unwinding /\ "items" # "called"
            BY DEF SearchInv
        <3>2. QED
            BY <2>1, <3>1, ReadingGoing
    <2>3. Item \in Items /\ Item \notin ToSet(hits)
        BY <1>5, ItemGoing
    <2>4. Item \in {item \in Items : Hit(item)}
        BY <2>1, <2>3, Zenon
    <2>5. Matching' = Matching
        BY <2>1, SameFacts
    <2>6. Stage = "going" /\ Stage' \in {"going", "over"}
        BY <2>1, <2>2 DEF Stage
    <2>7. Promised!Visit(Item)
        BY <2>1, <2>3, <2>5, <2>6, SeenVisit, Zenon
    <2>8. QED
        BY <2>4, <2>7, Zenon DEF Promised!Next
<1>6. CASE ScanEnd \/ TreeEnd
    <2>1. /\ pc' = "done" /\ ret' = ret /\ hits' = hits /\ UNCHANGED <<makeVars, target>>
          /\ \/ pc = "tree" /\ frames = <<>>
             \/ pc = "scan" /\ scanned = NumSegments(series)
        BY <1>6 DEF ScanEnd, TreeEnd
    <2>2. Matching' = Matching
        BY <2>1, SameFacts
    <2>3. CASE ret
        <3>1. ToSet(hits) = Matching
            BY <2>1, <2>3, AllFound
        <3>2. Stage = "going" /\ Stage' = "over"
            BY <2>1, <2>3 DEF Stage
        <3>3. Promised!End
            BY <2>1, <2>2, <3>1, <3>2, SeenEnd, Zenon
        <3>4. QED
            BY <3>3, Zenon DEF Promised!Next
    <2>4. CASE ~ ret
        <3>1. Stage = "over" /\ Stage' = "over"
            BY <2>1, <2>4 DEF Stage
        <3>2. QED
            BY <2>1, <2>2, <3>1, Unseen
    <2>5. QED
        BY <2>3, <2>4
<1>7. ASSUME NEW rect \in Targets, CallScan(rect) \/ CallTree(rect)
      PROVE  Promised!Call
    <2>1. /\ pc \in {"idle", "done"} /\ pc' \in {"scan", "tree"} /\ ret' = TRUE /\ hits' = <<>>
        BY <1>7 DEF CallScan, CallTree
    <2>2. Stage # "going" /\ Stage' = "going"
        BY <2>1 DEF Stage
    <2>3. QED
        BY <2>1, <2>2, Zenon DEF Promised!Call, Stage
<1>8. ASSUME NEW delta \in Deltas, MoveSeries(delta) PROVE Promised!Replace
    <2>1. /\ pc \in {"idle", "done"} /\ pc' = "idle" /\ hits' = <<>>
        BY <1>8 DEF MoveSeries
    <2>2. Stage # "going" /\ Stage' = "idle"
        BY <2>1 DEF Stage
    <2>3. QED
        BY <2>1, <2>2, Zenon DEF Promised!Replace, Stage
<1>9. CASE \E rect \in Targets : CallScan(rect) \/ CallTree(rect)
    BY <1>7, <1>9, Zenon DEF Promised!Next
<1>10. CASE \E delta \in Deltas : MoveSeries(delta)
    BY <1>8, <1>10, Zenon DEF Promised!Next
<1>11. QED
    BY <1>1, <1>2, <1>3, <1>4, <1>5, <1>6, <1>9, <1>10 DEF SearchNext, SearchStep

(* A search, with an index or without and of a moved series too, calls     *)
(* iter for every segment that matches, never twice and for no other one:  *)
(* SearchSpec implements the promise, for an index and item numbers that   *)
(* fit into 32 bits.  That a search ends is left to the runs.              *)
THEOREM SearchKeepsPromise ==
    SearchSpec /\ []Fits /\ Promised!Ends => ImplementsSearch
<1>1. SearchInv /\ Fits /\ [SearchNext]_allVars => [Promised!Next]_(Promised!vars)
    BY StepPromised
<1>2. QED
    BY <1>1, InitPromised, AlwaysSearchInv, PTL
       DEF SearchSpec, ImplementsSearch, Promised!Spec

-----------------------------------------------------------------------------
(* Nearest segment: distances and the order of a queue.                    *)

(* Distances.                                                              *)
LEMMA OutsideFacts ==
    ASSUME NEW v \in Int, NEW a \in Int, NEW b \in Int, NEW lo \in Int, NEW hi \in Int,
           a <= lo, lo <= hi, hi <= b
    PROVE  /\ Outside(v, a, b) \in Nat /\ Outside(v, lo, hi) \in Nat
           /\ Outside(v, a, b) <= Outside(v, lo, hi)
    BY DEF Outside

(* A rectangle is no farther than one inside of it.                        *)
LEMMA DistFacts ==
    ASSUME NEW p \in Point, NEW a \in Rect, NEW b \in Rect, RectContainsRect(a, b), Proper(b)
    PROVE  /\ DistToRect(p, a) \in Nat /\ DistToRect(p, b) \in Nat
           /\ DistToRect(p, a) <= DistToRect(p, b)
<1>1. /\ p.x \in Int /\ p.y \in Int
      /\ a.min.x \in Int /\ a.min.y \in Int /\ a.max.x \in Int /\ a.max.y \in Int
      /\ b.min.x \in Int /\ b.min.y \in Int /\ b.max.x \in Int /\ b.max.y \in Int
    BY DEF Point, Rect
<1>2. /\ a.min.x <= b.min.x /\ b.min.x <= b.max.x /\ b.max.x <= a.max.x
      /\ a.min.y <= b.min.y /\ b.min.y <= b.max.y /\ b.max.y <= a.max.y
    BY <1>1 DEF RectContainsRect, Proper
<1>3. PICK ax, bx : ax = Outside(p.x, a.min.x, a.max.x) /\ bx = Outside(p.x, b.min.x, b.max.x)
    OBVIOUS
<1>4. PICK ay, by : ay = Outside(p.y, a.min.y, a.max.y) /\ by = Outside(p.y, b.min.y, b.max.y)
    OBVIOUS
<1>5. ax \in Nat /\ bx \in Nat /\ ax <= bx
    BY <1>1, <1>2, <1>3, OutsideFacts
<1>6. ay \in Nat /\ by \in Nat /\ ay <= by
    BY <1>1, <1>2, <1>4, OutsideFacts
<1>7. DistToRect(p, a) = Greater(ax, ay) /\ DistToRect(p, b) = Greater(bx, by)
    BY <1>3, <1>4, Zenon DEF DistToRect
<1>8. /\ Greater(ax, ay) \in Nat /\ Greater(bx, by) \in Nat /\ Greater(ax, ay) <= Greater(bx, by)
    BY <1>5, <1>6 DEF Greater
<1>9. QED
    BY <1>7, <1>8, Zenon

(* The distance of segment i of series s.                                  *)
DistIn(s, p, i) == DistToRect(p, SegmentRectAt(s, i))

(* The distance of a segment is a number.                                  *)
LEMMA DistInNat ==
    ASSUME NEW s \in SeriesType, NEW p \in Point, NEW i \in Numbers(s)
    PROVE  /\ DistIn(s, p, i) \in Nat /\ SegmentRectAt(s, i) \in Rect
           /\ Proper(SegmentRectAt(s, i))
<1>1. SegmentRectAt(s, i) \in Rect
    BY SegmentRectType DEF Numbers
<1>2. RectContainsRect(SegmentRectAt(s, i), SegmentRectAt(s, i))
    BY <1>1, ContainsItself
<1>3. Proper(SegmentRectAt(s, i))
    BY <1>1, <1>2, SegmentProper
<1>4. QED
    BY <1>1, <1>2, <1>3, DistFacts DEF DistIn

(* No segment below a node is nearer than the node.                        *)
LEMMA NodeNearer ==
    ASSUME NEW tree, NEW s, IsTreeOf(tree, s), NEW p \in Point, NEW n \in 1 .. Len(tree),
           NEW i \in Under(tree, n)
    PROVE  /\ DistToRect(p, tree[n].bounds) \in Nat /\ DistIn(s, p, i) \in Nat
           /\ DistToRect(p, tree[n].bounds) <= DistIn(s, p, i)
<1>1. /\ i \in Numbers(s) /\ tree[n].bounds \in Rect /\ Proper(tree[n].bounds)
      /\ RectContainsRect(tree[n].bounds, SegmentRectAt(s, i))
    BY UnderWithin, Zenon
<1>2. s \in SeriesType
    BY DEF IsTreeOf
<1>3. SegmentRectAt(s, i) \in Rect /\ Proper(SegmentRectAt(s, i))
    BY <1>1, <1>2, DistInNat
<1>4. QED
    BY <1>1, <1>3, DistFacts DEF DistIn

-----------------------------------------------------------------------------
(* The entries of a queue and their order.                                 *)
Entry == [kind : {qrect, qseg}, dist : Nat, pos : Nat, bounds : Rect]

(* The fields of an entry.                                                 *)
LEMMA EntryFields ==
    ASSUME NEW n \in Entry
    PROVE  /\ n.kind \in {1, 2} /\ n.dist \in Nat /\ n.pos \in Nat /\ n.bounds \in Rect
           /\ n.kind \in Nat
    BY DEF Entry, qrect, qseg

(* What Cmp says of the first of two.                                      *)
Precedes(n, m) ==
    \/ n.dist < m.dist
    \/ n.dist = m.dist /\ n.kind < m.kind
    \/ n.dist = m.dist /\ n.kind = m.kind /\ n.pos <= m.pos

(* Cmp orders by distance, kind and position.                              *)
LEMMA CmpIs ==
    ASSUME NEW n, NEW m, n.dist \in Int, m.dist \in Int, n.kind \in Int, m.kind \in Int,
           n.pos \in Int, m.pos \in Int
    PROVE  Cmp(n, m) <= 0 <=> Precedes(n, m)
    BY DEF Cmp, Precedes

First(Q, n) == n \in Q /\ \A m \in Q : Cmp(n, m) <= 0

(* There is a first entry: the least distance, of those with it the least  *)
(* kind, and of those the least position.                                  *)
LEMMA HasFirst ==
    ASSUME NEW Q \in SUBSET Entry, Q # {}
    PROVE  \E n : First(Q, n)
<1>1. \A n \in Q : n.kind \in Nat /\ n.dist \in Nat /\ n.pos \in Nat
    BY EntryFields
<1> DEFINE A == {n.dist : n \in Q}
<1>2. PICK d \in A : \A l \in A : d <= l
    <2>1. A \in SUBSET Nat /\ A # {}
        BY <1>1
    <2> HIDE DEF A
    <2>2. QED
        BY <2>1, LeastNatural, Zenon
<1> DEFINE B == {n.kind : n \in {m \in Q : m.dist = d}}
<1>3. PICK k \in B : \A l \in B : k <= l
    <2>1. B \in SUBSET Nat /\ B # {}
        BY <1>1, <1>2
    <2> HIDE DEF B
    <2>2. QED
        BY <2>1, LeastNatural, Zenon
<1> DEFINE C == {n.pos : n \in {m \in Q : m.dist = d /\ m.kind = k}}
<1>4. PICK p \in C : \A l \in C : p <= l
    <2>1. C \in SUBSET Nat /\ C # {}
        BY <1>1, <1>3
    <2> HIDE DEF C
    <2>2. QED
        BY <2>1, LeastNatural, Zenon
<1>5. PICK n \in Q : n.dist = d /\ n.kind = k /\ n.pos = p
    BY <1>4
<1>6. ASSUME NEW m \in Q PROVE Cmp(n, m) <= 0
    <2>1. d <= m.dist
        BY <1>2
    <2>2. m.dist = d => k <= m.kind
        BY <1>3
    <2>3. m.dist = d /\ m.kind = k => p <= m.pos
        BY <1>4
    <2>4. /\ n.kind \in Nat /\ n.dist \in Nat /\ n.pos \in Nat
          /\ m.kind \in Nat /\ m.dist \in Nat /\ m.pos \in Nat
        BY <1>1
    <2> HIDE DEF A, B, C
    <2>5. Precedes(n, m)
        BY <1>5, <2>1, <2>2, <2>3, <2>4 DEF Precedes
    <2>6. QED
        BY <2>4, <2>5, CmpIs
<1>7. QED
    BY <1>5, <1>6 DEF First

(* What pop takes out is a first entry.                                    *)
LEMMA LeastIs ==
    ASSUME NEW q, queue[q] \in SUBSET Entry, queue[q] # {}
    PROVE  /\ Least(q) \in queue[q] /\ Least(q) \in Entry
           /\ \A m \in queue[q] : Precedes(Least(q), m)
<1>1. PICK n : First(queue[q], n)
    BY HasFirst, Zenon
<1>2. PICK l : l = Least(q)
    OBVIOUS
<1>3. l \in queue[q] /\ \A m \in queue[q] : Cmp(l, m) <= 0
    BY <1>1, <1>2 DEF Least, First
<1>4. l \in Entry
    BY <1>3
<1>5. ASSUME NEW m \in queue[q] PROVE Precedes(l, m)
    <2>1. m \in Entry /\ Cmp(l, m) <= 0
        BY <1>3
    <2>2. /\ l.dist \in Int /\ m.dist \in Int /\ l.kind \in Int /\ m.kind \in Int
          /\ l.pos \in Int /\ m.pos \in Int
        BY <1>4, <2>1, EntryFields
    <2>3. QED
        BY <2>1, <2>2, CmpIs
<1>6. QED
    BY <1>2, <1>3, <1>4, <1>5, Zenon

-----------------------------------------------------------------------------
(* What a queue says of the segments that are still to be looked at.       *)

(* An entry comes no later than segment i would.                           *)
Ahead(s, p, n, i) ==
    n.dist < DistIn(s, p, i) \/ (n.dist = DistIn(s, p, i) /\ n.pos <= i)

(* An entry for node m, whose bytes end at e, and one for a segment.       *)
RectOk(tree, d, p, n, m, e) ==
    /\ m \in 1 .. Len(tree) /\ HeaderLen <= n.pos /\ n.pos < e
    /\ n.bounds = tree[m].bounds /\ n.dist = DistToRect(p, n.bounds)
    /\ Lies(d, n.pos, Code(tree, m), e)

SegOk(s, p, n) == n.pos \in Numbers(s) /\ n.dist = DistIn(s, p, n.pos)

(* The rectangles in a queue are nodes that have no bytes in common; G and *)
(* E are the nodes and the ends of their bytes, by their positions.        *)
Entries(tree, d, s, p, Q, G, E) ==
    /\ Q \in SUBSET Entry /\ G \in [Nat -> Nat] /\ E \in [Nat -> Nat]
    /\ \A n \in Q : n.kind = qrect => RectOk(tree, d, p, n, G[n.pos], E[n.pos])
    /\ \A n \in Q : n.kind = qseg => SegOk(s, p, n)
    /\ \A n, k \in Q : n.kind = qrect /\ k.kind = qrect /\ n # k =>
          E[n.pos] <= k.pos \/ E[k.pos] <= n.pos

(* None of them has bytes from lo to hi.                                   *)
Clear(Q, E, lo, hi) == \A n \in Q : n.kind = qrect => E[n.pos] <= lo \/ hi <= n.pos

NearOk(s, p, near, last) ==
    near # NoNode =>
       near \in Entry /\ near.kind = qseg /\ SegOk(s, p, near) /\ near.pos <= last

(* Segment i is below an entry, or comes no earlier than one.              *)
Covers(tree, s, p, G, n, i) ==
    IF n.kind = qseg THEN Ahead(s, p, n, i) ELSE i \in Under(tree, G[n.pos])

Passed(s, p, near, i) == near # NoNode /\ Ahead(s, p, near, i)

Covered(tree, s, p, Q, G, P, near, i) ==
    \/ \E n \in Q : Covers(tree, s, p, G, n, i)
    \/ i \in P
    \/ Passed(s, p, near, i)

(* A walk that is between lo and hi, with the segments P ahead of it there *)
(* and near the nearest of the items it has read.                          *)
WalkOk(tree, d, s, p, Q, G, E, lo, hi, P, near, last) ==
    /\ Entries(tree, d, s, p, Q, G, E) /\ Clear(Q, E, lo, hi)
    /\ NearOk(s, p, near, last)
    /\ \A i \in Numbers(s) : Covered(tree, s, p, Q, G, P, near, i)

(* The walk goes on from lo to lo2.                                        *)
LEMMA WalkOn ==
    ASSUME NEW tree, NEW d, NEW s, NEW p, NEW Q, NEW G, NEW E, NEW lo \in Int, NEW hi \in Int,
           NEW P, NEW near, NEW last,
           WalkOk(tree, d, s, p, Q, G, E, lo, hi, P, near, last),
           NEW lo2 \in Int, lo <= lo2, NEW P2, NEW near2, NEW last2, NearOk(s, p, near2, last2),
           \A i \in Numbers(s) : i \in P => i \in P2 \/ Passed(s, p, near2, i),
           \A i \in Numbers(s) : Passed(s, p, near, i) => Passed(s, p, near2, i)
    PROVE  WalkOk(tree, d, s, p, Q, G, E, lo2, hi, P2, near2, last2)
<1>1. /\ Entries(tree, d, s, p, Q, G, E) /\ Clear(Q, E, lo, hi)
      /\ \A i \in Numbers(s) : Covered(tree, s, p, Q, G, P, near, i)
    BY Zenon DEF WalkOk
<1>2. ASSUME NEW n \in Q, n.kind = qrect PROVE E[n.pos] <= lo2 \/ hi <= n.pos
    <2>1. E[n.pos] <= lo \/ hi <= n.pos
        BY <1>1, <1>2 DEF Clear
    <2>2. n \in Entry /\ E \in [Nat -> Nat]
        BY <1>1 DEF Entries
    <2>3. E[n.pos] \in Nat
        BY <2>2, EntryFields
    <2>4. QED
        BY <2>1, <2>3
<1>3. Clear(Q, E, lo2, hi)
    BY <1>2, Zenon DEF Clear
<1>4. ASSUME NEW i \in Numbers(s) PROVE Covered(tree, s, p, Q, G, P2, near2, i)
    BY <1>1, Zenon DEF Covered
<1>5. QED
    BY <1>1, <1>3, <1>4, Zenon DEF WalkOk

(* The nearest item goes into the queue.                                   *)
LEMMA WalkQueues ==
    ASSUME NEW tree, NEW d, NEW s, NEW p, NEW Q, NEW G, NEW E, NEW lo, NEW hi,
           NEW P, NEW near, near # NoNode, NEW last,
           WalkOk(tree, d, s, p, Q, G, E, lo, hi, P, near, last)
    PROVE  WalkOk(tree, d, s, p, Q \cup {near}, G, E, lo, hi, P, NoNode, 0)
<1>1. /\ Entries(tree, d, s, p, Q, G, E) /\ Clear(Q, E, lo, hi)
      /\ near \in Entry /\ near.kind = qseg /\ SegOk(s, p, near)
      /\ \A i \in Numbers(s) : Covered(tree, s, p, Q, G, P, near, i)
    BY Zenon DEF WalkOk, NearOk
<1>2. PICK R : R = Q \cup {near} /\ \A n : n \in R <=> n \in Q \/ n = near
    <2>1. \A n : n \in Q \cup {near} <=> n \in Q \/ n = near
        OBVIOUS
    <2>2. QED
        BY <2>1, Zenon
<1>3. qseg # qrect
    BY DEF qseg, qrect
<1>4. \A n \in R : n.kind = qrect => n \in Q
    BY <1>1, <1>2, <1>3, Zenon
<1>5. /\ Q \in SUBSET Entry /\ G \in [Nat -> Nat] /\ E \in [Nat -> Nat]
      /\ \A n \in Q : n.kind = qrect => RectOk(tree, d, p, n, G[n.pos], E[n.pos])
      /\ \A n \in Q : n.kind = qseg => SegOk(s, p, n)
      /\ \A n, k \in Q : n.kind = qrect /\ k.kind = qrect /\ n # k =>
            E[n.pos] <= k.pos \/ E[k.pos] <= n.pos
    BY <1>1, Zenon DEF Entries
<1>6. R \in SUBSET Entry
    BY <1>1, <1>2, <1>5
<1>7. \A n \in R : n.kind = qseg => SegOk(s, p, n)
    BY <1>1, <1>2, <1>5, Zenon
<1>8. Entries(tree, d, s, p, R, G, E)
    BY <1>4, <1>5, <1>6, <1>7, Zenon DEF Entries
<1>9. Clear(R, E, lo, hi)
    BY <1>1, <1>4, Zenon DEF Clear
<1>10. NearOk(s, p, NoNode, 0)
    BY Zenon DEF NearOk
<1>11. ASSUME NEW i \in Numbers(s) PROVE Covered(tree, s, p, R, G, P, NoNode, i)
    <2>1. near \in R
        BY <1>2
    <2>2. Passed(s, p, near, i) => Covers(tree, s, p, G, near, i)
        BY <1>1, Zenon DEF Passed, Covers
    <2>3. QED
        BY <1>1, <1>2, <2>1, <2>2, Zenon DEF Covered
<1>12. WalkOk(tree, d, s, p, R, G, E, lo, hi, P, NoNode, 0)
    BY <1>8, <1>9, <1>10, <1>11, Zenon DEF WalkOk
<1>13. QED
    BY <1>2, <1>12, Zenon

(* A quad goes into the queue.                                             *)
LEMMA WalkPushes ==
    ASSUME NEW tree, NEW d, NEW s, NEW p, NEW Q, NEW G, NEW E, NEW lo \in Nat, NEW hi \in Nat,
           NEW P, WalkOk(tree, d, s, p, Q, G, E, lo, hi, P, NoNode, 0),
           NEW n \in Entry, n.kind = qrect, NEW m \in Nat, NEW e \in Nat,
           RectOk(tree, d, p, n, m, e), lo <= n.pos, e <= hi, NEW P2,
           \A i \in P : i \in Under(tree, m) \/ i \in P2
    PROVE  \E F, D : WalkOk(tree, d, s, p, Q \cup {n}, F, D, e, hi, P2, NoNode, 0)
<1>1. /\ Entries(tree, d, s, p, Q, G, E) /\ Clear(Q, E, lo, hi)
      /\ \A i \in Numbers(s) : Covered(tree, s, p, Q, G, P, NoNode, i)
    BY Zenon DEF WalkOk
<1>2. /\ Q \in SUBSET Entry /\ G \in [Nat -> Nat] /\ E \in [Nat -> Nat]
      /\ \A k \in Q : k.kind = qrect => RectOk(tree, d, p, k, G[k.pos], E[k.pos])
      /\ \A k \in Q : k.kind = qseg => SegOk(s, p, k)
      /\ \A k, l \in Q : k.kind = qrect /\ l.kind = qrect /\ k # l =>
            E[k.pos] <= l.pos \/ E[l.pos] <= k.pos
    BY <1>1, Zenon DEF Entries
<1>3. PICK a \in Nat : a = n.pos /\ lo <= a /\ a < e
    BY EntryFields DEF RectOk
<1>4. PICK F : F = [G EXCEPT ![a] = m]
    OBVIOUS
<1>5. PICK D : D = [E EXCEPT ![a] = e]
    OBVIOUS
<1>6. /\ F \in [Nat -> Nat] /\ D \in [Nat -> Nat] /\ F[a] = m /\ D[a] = e
      /\ \A k \in Nat : k # a => Same(F[k], G[k]) /\ Same(D[k], E[k])
    BY <1>2, <1>4, <1>5 DEF Same
<1>7. ASSUME NEW k \in Q, k.kind = qrect
      PROVE  /\ k.pos \in Nat /\ E[k.pos] \in Nat /\ k.pos < E[k.pos]
             /\ E[k.pos] <= lo \/ hi <= k.pos
             /\ k.pos # a /\ F[k.pos] = G[k.pos] /\ D[k.pos] = E[k.pos]
    <2>1. k \in Entry /\ RectOk(tree, d, p, k, G[k.pos], E[k.pos])
        BY <1>2, <1>7
    <2>2. k.pos \in Nat /\ E[k.pos] \in Nat /\ k.pos < E[k.pos]
        BY <1>2, <2>1, EntryFields DEF RectOk
    <2>3. E[k.pos] <= lo \/ hi <= k.pos
        BY <1>1, <1>7, Zenon DEF Clear
    <2>4. k.pos # a
        BY <1>3, <2>2, <2>3
    <2>5. QED
        BY <1>6, <2>2, <2>3, <2>4 DEF Same
<1>8. PICK R : R = Q \cup {n} /\ \A k : k \in R <=> k \in Q \/ k = n
    <2>1. \A k : k \in Q \cup {n} <=> k \in Q \/ k = n
        OBVIOUS
    <2>2. QED
        BY <2>1, Zenon
<1>9. qseg # qrect
    BY DEF qseg, qrect
<1>10. R \in SUBSET Entry
    BY <1>2, <1>8
<1>11. \A k \in R : k.kind = qseg => SegOk(s, p, k)
    BY <1>2, <1>8, <1>9, Zenon
<1>12. ASSUME NEW k \in R, k.kind = qrect PROVE RectOk(tree, d, p, k, F[k.pos], D[k.pos])
    <2>1. CASE k \in Q
        <3>1. F[k.pos] = G[k.pos] /\ D[k.pos] = E[k.pos]
            BY <1>7, <1>12, <2>1
        <3>2. RectOk(tree, d, p, k, G[k.pos], E[k.pos])
            BY <1>2, <1>12, <2>1, Zenon
        <3>3. QED
            BY <3>1, <3>2, Zenon
    <2>2. CASE k = n
        BY <1>3, <1>6, <2>2, Zenon
    <2>3. QED
        BY <1>8, <2>1, <2>2, Zenon
<1>13. ASSUME NEW k \in Q, k.kind = qrect PROVE E[k.pos] <= a \/ e <= k.pos
    BY <1>3, <1>7, <1>13
<1>14. ASSUME NEW k \in R, NEW l \in R, k.kind = qrect, l.kind = qrect, k # l
       PROVE  D[k.pos] <= l.pos \/ D[l.pos] <= k.pos
    <2>1. CASE k \in Q /\ l \in Q
        <3>1. D[k.pos] = E[k.pos] /\ D[l.pos] = E[l.pos]
            BY <1>7, <1>14, <2>1
        <3>2. E[k.pos] <= l.pos \/ E[l.pos] <= k.pos
            BY <1>2, <1>14, <2>1, Zenon
        <3>3. QED
            BY <3>1, <3>2, Zenon
    <2>2. CASE k = n /\ l \in Q
        <3>1. D[k.pos] = e /\ k.pos = a /\ D[l.pos] = E[l.pos]
            BY <1>3, <1>6, <1>7, <1>14, <2>2
        <3>2. E[l.pos] <= a \/ e <= l.pos
            BY <1>13, <1>14, <2>2, Zenon
        <3>3. QED
            BY <3>1, <3>2, Zenon
    <2>3. CASE k \in Q /\ l = n
        <3>1. D[l.pos] = e /\ l.pos = a /\ D[k.pos] = E[k.pos]
            BY <1>3, <1>6, <1>7, <1>14, <2>3
        <3>2. E[k.pos] <= a \/ e <= k.pos
            BY <1>13, <1>14, <2>3, Zenon
        <3>3. QED
            BY <3>1, <3>2, Zenon
    <2>4. QED
        BY <1>8, <1>14, <2>1, <2>2, <2>3, Zenon
<1>15. Entries(tree, d, s, p, R, F, D)
    BY <1>6, <1>10, <1>11, <1>12, <1>14, Zenon DEF Entries
<1>16. ASSUME NEW k \in R, k.kind = qrect PROVE D[k.pos] <= e \/ hi <= k.pos
    <2>1. CASE k \in Q
        <3>1. /\ E[k.pos] \in Nat
              /\ E[k.pos] <= lo \/ hi <= k.pos
              /\ D[k.pos] = E[k.pos]
            BY <1>7, <1>16, <2>1
        <3>2. QED
            BY <1>3, <1>7, <1>16, <2>1, <3>1
    <2>2. CASE k = n
        BY <1>3, <1>6, <2>2
    <2>3. QED
        BY <1>8, <2>1, <2>2, Zenon
<1>17. Clear(R, D, e, hi)
    BY <1>16, Zenon DEF Clear
<1>18. NearOk(s, p, NoNode, 0)
    BY Zenon DEF NearOk
<1>19. ASSUME NEW i \in Numbers(s) PROVE Covered(tree, s, p, R, F, P2, NoNode, i)
    <2>1. ~ Passed(s, p, NoNode, i)
        BY Zenon DEF Passed
    <2>2. CASE \E k \in Q : Covers(tree, s, p, G, k, i)
        <3>1. PICK k \in Q : Covers(tree, s, p, G, k, i)
            BY <2>2
        <3>2. k.kind = qseg \/ k.kind = qrect
            BY <1>2, Zenon DEF Entry
        <3>3. Covers(tree, s, p, F, k, i)
            <4>1. CASE k.kind = qseg
                BY <3>1, <4>1, Zenon DEF Covers
            <4>2. CASE k.kind = qrect
                <5>1. F[k.pos] = G[k.pos]
                    BY <1>7, <4>2
                <5>2. QED
                    BY <1>9, <3>1, <4>2, <5>1, Zenon DEF Covers
            <4>3. QED
                BY <3>2, <4>1, <4>2
        <3>4. QED
            BY <1>8, <3>3, Zenon DEF Covered
    <2>3. CASE i \in P
        <3>1. i \in Under(tree, m) => Covers(tree, s, p, F, n, i)
            BY <1>3, <1>6, <1>9, Zenon DEF Covers
        <3>2. n \in R
            BY <1>8, Zenon
        <3>3. QED
            BY <2>3, <3>1, <3>2, Zenon DEF Covered
    <2>4. QED
        BY <1>1, <2>1, <2>2, <2>3, Zenon DEF Covered
<1>20. WalkOk(tree, d, s, p, R, F, D, e, hi, P2, NoNode, 0)
    BY <1>15, <1>17, <1>18, <1>19, Zenon DEF WalkOk
<1>21. QED
    BY <1>8, <1>20, Zenon

(* A node is taken out of the queue.                                       *)
LEMMA WalkPops ==
    ASSUME NEW tree, NEW d, NEW s, NEW p, NEW Q, NEW G, NEW E, NEW lo, NEW hi,
           WalkOk(tree, d, s, p, Q, G, E, lo, hi, {}, NoNode, 0),
           NEW n \in Q, n.kind = qrect
    PROVE  /\ WalkOk(tree, d, s, p, Q \ {n}, G, E, n.pos, E[n.pos],
                     Under(tree, G[n.pos]), NoNode, 0)
           /\ RectOk(tree, d, p, n, G[n.pos], E[n.pos])
<1>1. /\ Entries(tree, d, s, p, Q, G, E)
      /\ \A i \in Numbers(s) : Covered(tree, s, p, Q, G, {}, NoNode, i)
    BY Zenon DEF WalkOk
<1>2. /\ Q \in SUBSET Entry /\ G \in [Nat -> Nat] /\ E \in [Nat -> Nat]
      /\ \A k \in Q : k.kind = qrect => RectOk(tree, d, p, k, G[k.pos], E[k.pos])
      /\ \A k \in Q : k.kind = qseg => SegOk(s, p, k)
      /\ \A k, l \in Q : k.kind = qrect /\ l.kind = qrect /\ k # l =>
            E[k.pos] <= l.pos \/ E[l.pos] <= k.pos
    BY <1>1, Zenon DEF Entries
<1>3. PICK R : R = Q \ {n} /\ \A k : k \in R <=> k \in Q /\ k # n
    <2>1. \A k : k \in Q \ {n} <=> k \in Q /\ k # n
        OBVIOUS
    <2>2. QED
        BY <2>1, Zenon
<1>4. R \in SUBSET Entry
    BY <1>2, <1>3
<1>5. Entries(tree, d, s, p, R, G, E)
    BY <1>2, <1>3, <1>4, Zenon DEF Entries
<1>6. Clear(R, E, n.pos, E[n.pos])
    BY <1>2, <1>3, Zenon DEF Clear
<1>7. NearOk(s, p, NoNode, 0)
    BY Zenon DEF NearOk
<1>8. qseg # qrect
    BY DEF qseg, qrect
<1>9. ASSUME NEW i \in Numbers(s)
      PROVE  Covered(tree, s, p, R, G, Under(tree, G[n.pos]), NoNode, i)
    <2>1. ~ Passed(s, p, NoNode, i) /\ i \notin {}
        BY Zenon DEF Passed
    <2>2. PICK k \in Q : Covers(tree, s, p, G, k, i)
        BY <1>1, <2>1, Zenon DEF Covered
    <2>3. CASE k = n
        BY <1>8, <2>2, <2>3, Zenon DEF Covers, Covered
    <2>4. CASE k # n
        BY <1>3, <2>2, <2>4, Zenon DEF Covered
    <2>5. QED
        BY <2>3, <2>4
<1>10. WalkOk(tree, d, s, p, R, G, E, n.pos, E[n.pos], Under(tree, G[n.pos]), NoNode, 0)
    BY <1>5, <1>6, <1>7, <1>9, Zenon DEF WalkOk
<1>11. QED
    BY <1>2, <1>3, <1>10, Zenon

-----------------------------------------------------------------------------
(* One call of DistanceToSeries and the queue it has.                      *)

(* What a call of DistanceToSeries keeps.                                  *)
NearType == [kind : Int, dist : Int, pos : Int, bounds : Rect]
ResultType == [seg : Int, idx : Int, dist : Int]
CallType ==
    [at : Places, center : Point, q : Queues \cup {NoQueue}, data : Seq(Nat), addr : Int,
     bounds : Rect, left : Int, last : Int, nearSeg : NearType, i : Int, res : ResultType]

CallIs(c, at, center, addr, bounds, left, last, near, i) ==
    /\ c \in CallType /\ c.at = at /\ c.center = center /\ c.addr = addr
    /\ c.bounds = bounds /\ c.left = left /\ c.last = last /\ c.nearSeg = near /\ c.i = i

(* A call that reads a node, as a call of qCompressSearch that does.       *)
View(c) ==
    [at |-> IF c.at = "node" THEN "count" ELSE c.at, addr |-> c.addr, bounds |-> c.bounds,
     left |-> IF c.at = "node" THEN 0 ELSE c.left,
     last |-> IF c.at = "node" THEN 0 ELSE c.last,
     q |-> IF c.at = "quads" THEN c.i ELSE 0, qsize |-> 0]

(* At a node it is as one that starts,                                     *)
LEMMA ViewNode ==
    ASSUME NEW c \in CallType, c.at = "node"
    PROVE  HasFields(View(c), "count", c.addr, c.bounds, 0, 0, 0, 0)
    BY DEF CallType, View, HasFields, SFrame

(* at the items as one that reads them,                                    *)
LEMMA ViewItems ==
    ASSUME NEW c \in CallType, c.at = "items"
    PROVE  HasFields(View(c), "items", c.addr, c.bounds, c.left, c.last, 0, 0)
    BY DEF CallType, View, HasFields, SFrame

(* and at the quads as one in the loop over them.                          *)
LEMMA ViewQuads ==
    ASSUME NEW c \in CallType, c.at = "quads"
    PROVE  HasFields(View(c), "quads", c.addr, c.bounds, c.left, c.last, c.i, 0)
    BY DEF CallType, View, HasFields, SFrame

(* A frame is its fields.                                                  *)
LEMMA SameFrame ==
    ASSUME NEW at, NEW addr, NEW bounds, NEW left, NEW last, NEW q, NEW z,
           NEW h, HasFields(h, at, addr, bounds, left, last, q, z),
           NEW k, HasFields(k, at, addr, bounds, left, last, q, z)
    PROVE  h = k
    BY DEF HasFields, SFrame

(* The fields of a call.                                                   *)
LEMMA CallFields ==
    ASSUME NEW c \in CallType
    PROVE  /\ c.at \in Places /\ c.center \in Point /\ c.addr \in Int /\ c.bounds \in Rect
           /\ c.left \in Int /\ c.last \in Int /\ c.nearSeg \in NearType /\ c.i \in Int
           /\ c.q \in Queues \cup {NoQueue} /\ c.data \in Seq(Nat) /\ c.res \in ResultType
    BY DEF CallType

(* The distance of a rectangle is a number.                                *)
LEMMA DistNat ==
    ASSUME NEW p \in Point, NEW b \in Rect
    PROVE  DistToRect(p, b) \in Nat
<1>1. /\ p.x \in Int /\ p.y \in Int
      /\ b.min.x \in Int /\ b.min.y \in Int /\ b.max.x \in Int /\ b.max.y \in Int
    BY DEF Point, Rect
<1>2. /\ Outside(p.x, b.min.x, b.max.x) \in Nat
      /\ Outside(p.y, b.min.y, b.max.y) \in Nat
    BY <1>1 DEF Outside
<1>3. QED
    BY <1>2 DEF DistToRect, Greater

(* What the loop over the items remembers.                                 *)
NearOf(c) == IF c.at = "items" THEN c.nearSeg ELSE NoNode
LastOf(c) == IF c.at = "items" THEN c.last ELSE 0

(* The call reads node m, whose bytes end at e.                            *)
Walking(tree, d, s, c, Q, G, E, m, e) ==
    /\ Good(tree, d, View(c), m, e)
    /\ WalkOk(tree, d, s, c.center, Q, G, E, c.addr, e, Pending(tree, View(c), m),
              NearOf(c), LastOf(c))

(* The call is between two nodes.                                          *)
BetweenNodes(tree, d, s, p, Q, G, E) == WalkOk(tree, d, s, p, Q, G, E, 0, 0, {}, NoNode, 0)

(* Having read the number of items the call is at the first one.           *)
LEMMA CountWalks ==
    ASSUME NEW tree, NEW d, NEW s, Setting(tree, d, s), NEW c \in CallType, c.at = "node",
           NEW Q, NEW G, NEW E, NEW m, NEW e, Walking(tree, d, s, c, Q, G, E, m, e),
           NEW r, r = ReadUvarint(d, c.addr)
    PROVE  /\ r.value \in Int /\ r.addr \in Int
           /\ \A b : CallIs(b, "items", c.center, r.addr, c.bounds, r.value, 0, NoNode, c.i)
                  => Walking(tree, d, s, b, Q, G, E, m, e)
<1>1. PICK f : f = View(c)
    OBVIOUS
<1>2. HasFields(f, "count", c.addr, c.bounds, 0, 0, 0, 0)
    BY <1>1, ViewNode, Zenon
<1>3. /\ f \in SFrame /\ f.at = "count" /\ f.addr = c.addr /\ f.bounds = c.bounds
      /\ f.last = 0 /\ f.q = 0 /\ f.qsize = 0
    BY <1>2, Zenon DEF HasFields
<1>4. r = ReadUvarint(d, f.addr) /\ Good(tree, d, f, m, e)
    BY <1>1, <1>3, Zenon DEF Walking
<1>5. /\ r.value \in Int /\ r.addr \in Int /\ f.addr < r.addr
      /\ \A h : HasFields(h, "items", r.addr, f.bounds, r.value, f.last, f.q, f.qsize)
            => /\ Good(tree, d, h, m, e)
               /\ \A i : i \in Pending(tree, h, m) <=> i \in Pending(tree, f, m)
    BY <1>3, <1>4, CountGood, Zenon
<1>6. "node" # "items"
    OBVIOUS
<1>7. WalkOk(tree, d, s, c.center, Q, G, E, c.addr, e, Pending(tree, f, m), NoNode, 0)
    BY <1>1, <1>6, Zenon DEF Walking, NearOf, LastOf
<1>8. c.addr \in Int /\ c.addr <= r.addr /\ e \in Int
    <2>1. c.addr \in Int
        BY CallFields
    <2>2. Lies(d, f.addr, Code(tree, m), e) /\ d \in Seq(Nat)
        BY <1>3, <1>4, SettingFacts, Zenon DEF Good
    <2>3. e \in Nat
        BY <2>2, LiesInside
    <2>4. QED
        BY <1>3, <1>5, <2>1, <2>3
<1>9. ASSUME NEW b, CallIs(b, "items", c.center, r.addr, c.bounds, r.value, 0, NoNode, c.i)
      PROVE  Walking(tree, d, s, b, Q, G, E, m, e)
    <2>1. /\ b \in CallType /\ b.at = "items" /\ b.center = c.center /\ b.addr = r.addr
          /\ b.bounds = c.bounds /\ b.left = r.value /\ b.last = 0 /\ b.nearSeg = NoNode
        BY <1>9, Zenon DEF CallIs
    <2>2. PICK h : h = View(b)
        OBVIOUS
    <2>3. HasFields(h, "items", r.addr, f.bounds, r.value, f.last, f.q, f.qsize)
        BY <1>3, <2>1, <2>2, ViewItems, Zenon
    <2>4. /\ Good(tree, d, h, m, e)
          /\ \A i : i \in Pending(tree, h, m) <=> i \in Pending(tree, f, m)
        BY <1>5, <2>3, Zenon
    <2>5. NearOk(s, c.center, NoNode, 0)
        BY Zenon DEF NearOk
    <2>6. WalkOk(tree, d, s, c.center, Q, G, E, r.addr, e, Pending(tree, h, m), NoNode, 0)
        BY <1>5, <1>7, <1>8, <2>4, <2>5, WalkOn, Zenon
    <2>7. QED
        BY <2>1, <2>2, <2>4, <2>6, Zenon DEF Walking, NearOf, LastOf
<1>10. QED
    BY <1>5, <1>9, Zenon

(* The entry for segment v.                                                *)
SegNode(s, p, v) ==
    [kind |-> qseg, dist |-> DistIn(s, p, v), pos |-> v, bounds |-> SegmentRectAt(s, v)]

(* It is one for a segment at its distance.                                *)
LEMMA SegNodeIs ==
    ASSUME NEW s \in SeriesType, NEW p \in Point, NEW v \in Numbers(s), NEW n, n = SegNode(s, p, v)
    PROVE  /\ n \in Entry /\ n.kind = qseg /\ SegOk(s, p, n) /\ n.pos = v
           /\ n.dist = DistIn(s, p, v) /\ n # NoNode /\ n \in NearType
<1>1. v \in Nat /\ DistIn(s, p, v) \in Nat /\ SegmentRectAt(s, v) \in Rect
    BY DistInNat, NumbersNat
<1>2. /\ n.kind = qseg /\ n.dist = DistIn(s, p, v) /\ n.pos = v
      /\ n \in Entry
    BY <1>1 DEF SegNode, Entry
<1>3. n # NoNode
    BY <1>2 DEF NoNode, qseg
<1>4. n \in NearType
    BY <1>2 DEF Entry, NearType, qseg, qrect
<1>5. QED
    BY <1>2, <1>3, <1>4, Zenon DEF SegOk

(* Of the nearest item so far and the next, the nearest: the first one, if *)
(* they are as near.                                                       *)
LEMMA NearerOne ==
    ASSUME NEW s \in SeriesType, NEW p \in Point, NEW v \in Numbers(s),
           NEW c, NEW last \in Nat, last <= v, NearOk(s, p, c.nearSeg, last),
           NEW n, n = SegNode(s, p, v),
           NEW near, near = IF Nearer(c, n) THEN n ELSE c.nearSeg
    PROVE  /\ NearOk(s, p, near, v) /\ Passed(s, p, near, v)
           /\ \A i \in Numbers(s) : Passed(s, p, c.nearSeg, i) => Passed(s, p, near, i)
<1>1. /\ n \in Entry /\ n.kind = qseg /\ SegOk(s, p, n) /\ n.pos = v
      /\ n.dist = DistIn(s, p, v) /\ n # NoNode /\ n \in NearType
    BY SegNodeIs, SMT
<1>2. v \in Nat /\ \A i \in Numbers(s) : DistIn(s, p, i) \in Nat
    BY DistInNat, NumbersNat
<1>3. PICK o : o = c.nearSeg
    OBVIOUS
<1>4. o # NoNode => o \in Entry /\ o.kind = qseg /\ SegOk(s, p, o) /\ o.pos <= last
    BY <1>3, Zenon DEF NearOk
<1>5. o # NoNode => o.dist \in Nat /\ o.pos \in Nat /\ o.pos <= v
    BY <1>2, <1>4, EntryFields
<1>6. CASE near = n /\ (o = NoNode \/ n.dist < o.dist)
    <2>1. NearOk(s, p, near, v)
        BY <1>1, <1>2, <1>6 DEF NearOk
    <2>2. Passed(s, p, near, v)
        BY <1>1, <1>2, <1>6 DEF Passed, Ahead
    <2>3. ASSUME NEW i \in Numbers(s), Passed(s, p, o, i) PROVE Passed(s, p, near, i)
        <3>1. o # NoNode /\ o.dist <= DistIn(s, p, i)
            BY <1>2, <1>5, <2>3 DEF Passed, Ahead
        <3>2. n.dist < DistIn(s, p, i)
            BY <1>1, <1>2, <1>5, <1>6, <3>1
        <3>3. QED
            BY <1>1, <1>6, <3>2, Zenon DEF Passed, Ahead
    <2>4. QED
        BY <1>3, <2>1, <2>2, <2>3, Zenon
<1>7. CASE near = o /\ o # NoNode /\ ~ (n.dist < o.dist)
    <2>1. NearOk(s, p, near, v)
        BY <1>4, <1>5, <1>7, Zenon DEF NearOk
    <2>2. o.dist < DistIn(s, p, v) \/ (o.dist = DistIn(s, p, v) /\ o.pos <= v)
        BY <1>1, <1>2, <1>5, <1>7
    <2>3. Passed(s, p, near, v)
        BY <1>7, <2>2, Zenon DEF Passed, Ahead
    <2>4. QED
        BY <1>3, <1>7, <2>1, <2>3, Zenon
<1>8. QED
    BY <1>3, <1>6, <1>7, Zenon DEF Nearer

(* An item that has been read is the nearest so far or comes no earlier.   *)
LEMMA ItemWalks ==
    ASSUME NEW tree, NEW d, NEW s, Setting(tree, d, s), NEW c \in CallType, c.at = "items",
           c.left > 0,
           NEW Q, NEW G, NEW E, NEW m, NEW e, Walking(tree, d, s, c, Q, G, E, m, e),
           NEW r, r = ReadUvarint(d, c.addr), NEW v, v = r.value + c.last,
           NEW n, n = SegNode(s, c.center, v),
           NEW near, near = IF Nearer(c, n) THEN n ELSE c.nearSeg
    PROVE  /\ v \in Nat /\ r.addr \in Int /\ near \in NearType
           /\ \A b : CallIs(b, "items", c.center, r.addr, c.bounds, c.left - 1, v, near, c.i)
                  => Walking(tree, d, s, b, Q, G, E, m, e)
<1>1. PICK f : f = View(c)
    OBVIOUS
<1>2. HasFields(f, "items", c.addr, c.bounds, c.left, c.last, 0, 0)
    BY <1>1, ViewItems, Zenon
<1>3. /\ f \in SFrame /\ f.at = "items" /\ f.addr = c.addr /\ f.bounds = c.bounds
      /\ f.left = c.left /\ f.last = c.last /\ f.q = 0 /\ f.qsize = 0
    BY <1>2, Zenon DEF HasFields
<1>4. /\ r = ReadUvarint(d, f.addr) /\ Good(tree, d, f, m, e) /\ f.left > 0
      /\ v = r.value + f.last
    BY <1>1, <1>3, Zenon DEF Walking
<1>5. /\ v \in Numbers(s) /\ r.addr \in Int /\ f.addr < r.addr
      /\ f.last \in Nat /\ f.last <= v
      /\ v \in Pending(tree, f, m)
      /\ \A h : HasFields(h, f.at, r.addr, f.bounds, f.left - 1, v, f.q, f.qsize)
            => ItemPassed(tree, d, f, m, e, v, h)
    BY <1>3, <1>4, ItemGood, Zenon
<1>6. WalkOk(tree, d, s, c.center, Q, G, E, c.addr, e, Pending(tree, f, m), c.nearSeg, c.last)
    BY <1>1, Zenon DEF Walking, NearOf, LastOf
<1>7. s \in SeriesType /\ c.center \in Point /\ c.addr \in Int /\ v \in Nat
    BY <1>5, CallFields, NumbersNat DEF Setting, IsTreeOf
<1>8. NearOk(s, c.center, c.nearSeg, c.last) /\ c.last \in Nat /\ c.last <= v
    BY <1>3, <1>5, <1>6, Zenon DEF WalkOk
<1>9. /\ NearOk(s, c.center, near, v) /\ Passed(s, c.center, near, v)
      /\ \A i \in Numbers(s) : Passed(s, c.center, c.nearSeg, i) => Passed(s, c.center, near, i)
    <2>1. /\ s \in SeriesType /\ c.center \in Point /\ v \in Numbers(s)
          /\ c.last \in Nat /\ c.last <= v
        BY <1>5, <1>7, <1>8, Zenon
    <2>2. QED
        BY <1>8, <2>1, NearerOne, SMT
<1>10. near \in NearType
    <2>1. n \in NearType
        BY <1>5, <1>7, SegNodeIs, Zenon
    <2>2. c.nearSeg \in NearType
        BY CallFields
    <2>3. QED
        BY <2>1, <2>2, Zenon
<1>11. c.addr <= r.addr /\ e \in Int
    <2>1. Lies(d, f.addr, ItemsFrom(tree, m, Turn(tree, m, f)), e) /\ d \in Seq(Nat)
        BY <1>3, <1>4, SettingFacts, Zenon DEF Good
    <2>2. e \in Nat
        BY <2>1, LiesInside
    <2>3. QED
        BY <1>3, <1>5, <1>7, <2>2
<1>12. ASSUME NEW b, CallIs(b, "items", c.center, r.addr, c.bounds, c.left - 1, v, near, c.i)
       PROVE  Walking(tree, d, s, b, Q, G, E, m, e)
    <2>1. /\ b \in CallType /\ b.at = "items" /\ b.center = c.center /\ b.addr = r.addr
          /\ b.bounds = c.bounds /\ b.left = c.left - 1 /\ b.last = v /\ b.nearSeg = near
        BY <1>12, Zenon DEF CallIs
    <2>2. PICK h : h = View(b)
        OBVIOUS
    <2>3. HasFields(h, f.at, r.addr, f.bounds, f.left - 1, v, f.q, f.qsize)
        BY <1>3, <2>1, <2>2, ViewItems, Zenon
    <2>4. /\ Good(tree, d, h, m, e)
          /\ \A i : i \in Pending(tree, f, m) <=> i = v \/ i \in Pending(tree, h, m)
        BY <1>5, <2>3, Zenon DEF ItemPassed
    <2>5. \A i \in Numbers(s) : i \in Pending(tree, f, m) =>
                i \in Pending(tree, h, m) \/ Passed(s, c.center, near, i)
        BY <1>9, <2>4, Zenon
    <2>6. r.addr \in Int /\ c.addr \in Int
        BY <1>5, <1>7, Zenon
    <2>7. /\ NearOk(s, c.center, near, v)
          /\ \A i \in Numbers(s) :
                Passed(s, c.center, c.nearSeg, i) => Passed(s, c.center, near, i)
        BY <1>9, Zenon
    <2>8. WalkOk(tree, d, s, c.center, Q, G, E, r.addr, e, Pending(tree, h, m), near, v)
        BY <1>6, <1>11, <2>5, <2>6, <2>7, WalkOn, SMT
    <2>9. QED
        BY <2>1, <2>2, <2>4, <2>8, Zenon DEF Walking, NearOf, LastOf
<1>13. QED
    BY <1>5, <1>7, <1>10, <1>12, Zenon

(* With nothing ahead on the node the call is between nodes.               *)
LEMMA WalkEnds ==
    ASSUME NEW tree, NEW d, NEW s, NEW p, NEW Q, NEW G, NEW E, NEW lo, NEW hi, NEW P,
           WalkOk(tree, d, s, p, Q, G, E, lo, hi, P, NoNode, 0), \A i : i \notin P
    PROVE  BetweenNodes(tree, d, s, p, Q, G, E)
<1>1. /\ Entries(tree, d, s, p, Q, G, E) /\ NearOk(s, p, NoNode, 0)
      /\ \A i \in Numbers(s) : Covered(tree, s, p, Q, G, P, NoNode, i)
    BY Zenon DEF WalkOk
<1>2. Q \in SUBSET Entry
    BY <1>1, Zenon DEF Entries
<1>3. \A n \in Q : 0 <= n.pos
    BY <1>2, EntryFields
<1>4. Clear(Q, E, 0, 0)
    BY <1>3, Zenon DEF Clear
<1>5. \A i \in Numbers(s) : Covered(tree, s, p, Q, G, {}, NoNode, i)
    BY <1>1, Zenon DEF Covered
<1>6. QED
    BY <1>1, <1>4, <1>5, Zenon DEF WalkOk, BetweenNodes

(* After the items the nearest one is in the queue, and what is ahead is   *)
(* below the quads, if there are any.                                      *)
LEMMA FlagWalks ==
    ASSUME NEW tree, NEW d, NEW s, Setting(tree, d, s), NEW c \in CallType, c.at = "items",
           c.left = 0,
           NEW Q, NEW G, NEW E, NEW m, NEW e, Walking(tree, d, s, c, Q, G, E, m, e),
           NEW R, R = IF c.nearSeg = NoNode THEN Q ELSE Q \cup {c.nearSeg}
    PROVE  /\ At(d, c.addr) = 1 =>
                \A b : CallIs(b, "quads", c.center, c.addr + 1, c.bounds, c.left, c.last,
                              c.nearSeg, 0)
                    => Walking(tree, d, s, b, R, G, E, m, e)
           /\ At(d, c.addr) # 1 => BetweenNodes(tree, d, s, c.center, R, G, E)
<1>1. PICK f : f = View(c)
    OBVIOUS
<1>2. HasFields(f, "items", c.addr, c.bounds, c.left, c.last, 0, 0)
    BY <1>1, ViewItems, Zenon
<1>3. /\ f \in SFrame /\ f.at = "items" /\ f.addr = c.addr /\ f.bounds = c.bounds
      /\ f.left = c.left /\ f.last = c.last /\ f.q = 0 /\ f.qsize = 0
    BY <1>2, Zenon DEF HasFields
<1>4. /\ Good(tree, d, f, m, e) /\ f.left = 0
    BY <1>1, <1>3, Zenon DEF Walking
<1>5. /\ At(d, f.addr) # 1 => /\ \A i : i \notin Pending(tree, f, m)
      /\ At(d, f.addr) = 0 => f.addr + 1 = e
      /\ f.addr < e /\ e <= Len(d)
      /\ At(d, f.addr) = 1 =>
            \A h : HasFields(h, "quads", f.addr + 1, f.bounds, f.left, f.last, f.q, f.qsize)
               => /\ Good(tree, d, h, m, e)
                  /\ \A i : i \in Pending(tree, h, m) <=> i \in Pending(tree, f, m)
    BY <1>3, <1>4, FlagGood, Zenon
<1>6. WalkOk(tree, d, s, c.center, Q, G, E, c.addr, e, Pending(tree, f, m), c.nearSeg, c.last)
    BY <1>1, Zenon DEF Walking, NearOf, LastOf
<1>7. WalkOk(tree, d, s, c.center, R, G, E, c.addr, e, Pending(tree, f, m), NoNode, 0)
    <2>1. CASE c.nearSeg = NoNode
        <3>1. R = Q
            BY <2>1, Zenon
        <3>2. NearOk(s, c.center, NoNode, 0)
            BY Zenon DEF NearOk
        <3>3. WalkOk(tree, d, s, c.center, Q, G, E, c.addr, e, Pending(tree, f, m), NoNode, c.last)
            BY <1>6, <2>1, Zenon
        <3>4. QED
            BY <3>1, <3>2, <3>3, Zenon DEF WalkOk
    <2>2. CASE c.nearSeg # NoNode
        <3>1. R = Q \cup {c.nearSeg}
            BY <2>2, Zenon
        <3>2. WalkOk(tree, d, s, c.center, Q \cup {c.nearSeg}, G, E, c.addr, e,
                     Pending(tree, f, m), NoNode, 0)
            BY <1>6, <2>2, WalkQueues, Zenon
        <3>3. QED
            BY <3>1, <3>2, Zenon
    <2>3. QED
        BY <2>1, <2>2, Zenon
<1>8. ASSUME At(d, c.addr) # 1 PROVE BetweenNodes(tree, d, s, c.center, R, G, E)
    <2>1. \A i : i \notin Pending(tree, f, m)
        BY <1>3, <1>5, <1>8, Zenon
    <2>2. QED
        BY <1>7, <2>1, WalkEnds, Zenon
<1>9. c.addr \in Int /\ e \in Int
    <2>1. Lies(d, f.addr, ItemsFrom(tree, m, Turn(tree, m, f)), e) /\ d \in Seq(Nat)
        BY <1>3, <1>4, SettingFacts, Zenon DEF Good
    <2>2. e \in Nat
        BY <2>1, LiesInside
    <2>3. QED
        BY <2>2, CallFields
<1>10. PICK a \in Int : a = c.addr + 1 /\ c.addr <= a
    BY <1>9
<1>11. ASSUME At(d, c.addr) = 1, NEW b,
              CallIs(b, "quads", c.center, c.addr + 1, c.bounds, c.left, c.last, c.nearSeg, 0)
       PROVE  Walking(tree, d, s, b, R, G, E, m, e)
    <2>1. /\ b \in CallType /\ b.at = "quads" /\ b.center = c.center /\ b.addr = a
          /\ b.bounds = c.bounds /\ b.left = c.left /\ b.last = c.last /\ b.i = 0
        BY <1>10, <1>11, Zenon DEF CallIs
    <2>2. PICK h : h = View(b)
        OBVIOUS
    <2>3. HasFields(h, "quads", f.addr + 1, f.bounds, f.left, f.last, f.q, f.qsize)
        BY <1>3, <1>10, <2>1, <2>2, ViewQuads, Zenon
    <2>4. /\ Good(tree, d, h, m, e)
          /\ \A i : i \in Pending(tree, h, m) <=> i \in Pending(tree, f, m)
        BY <1>3, <1>5, <1>11, <2>3, Zenon
    <2>5. NearOk(s, c.center, NoNode, 0)
        BY Zenon DEF NearOk
    <2>6. WalkOk(tree, d, s, c.center, R, G, E, a, e, Pending(tree, h, m), NoNode, 0)
        BY <1>7, <1>9, <1>10, <2>4, <2>5, WalkOn, Zenon
    <2>7. "quads" # "items"
        OBVIOUS
    <2>8. QED
        BY <2>1, <2>2, <2>4, <2>6, <2>7, Zenon DEF Walking, NearOf, LastOf
<1>12. QED
    BY <1>8, <1>11, Zenon

(* The call is past a quad, at address a.                                  *)
Past(tree, d, s, c, Q, G, E, m, e, a) ==
    \E h : /\ HasFields(h, "quads", a, c.bounds, c.left, c.last, c.i + 1, 0)
           /\ Good(tree, d, h, m, e)
           /\ WalkOk(tree, d, s, c.center, Q, G, E, a, e, Pending(tree, h, m), NoNode, 0)

(* It is at the next quad, or after the last one between nodes.            *)
LEMMA PastWalks ==
    ASSUME NEW tree, NEW d, NEW s, Setting(tree, d, s), NEW c \in CallType, NEW a,
           NEW Q, NEW G, NEW E, NEW m, NEW e, Past(tree, d, s, c, Q, G, E, m, e, a)
    PROVE  /\ \A b : CallIs(b, "quads", c.center, a, c.bounds, c.left, c.last, c.nearSeg, c.i + 1)
                  => Walking(tree, d, s, b, Q, G, E, m, e)
           /\ c.i = 3 => BetweenNodes(tree, d, s, c.center, Q, G, E)
<1>1. PICK h : /\ HasFields(h, "quads", a, c.bounds, c.left, c.last, c.i + 1, 0)
               /\ Good(tree, d, h, m, e)
               /\ WalkOk(tree, d, s, c.center, Q, G, E, a, e, Pending(tree, h, m), NoNode, 0)
    BY Zenon DEF Past
<1>2. ASSUME NEW b,
             CallIs(b, "quads", c.center, a, c.bounds, c.left, c.last, c.nearSeg, c.i + 1)
      PROVE  Walking(tree, d, s, b, Q, G, E, m, e)
    <2>1. /\ b \in CallType /\ b.at = "quads" /\ b.center = c.center /\ b.addr = a
          /\ b.bounds = c.bounds /\ b.left = c.left /\ b.last = c.last /\ b.i = c.i + 1
        BY <1>2, Zenon DEF CallIs
    <2>2. HasFields(View(b), "quads", a, c.bounds, c.left, c.last, c.i + 1, 0)
        BY <2>1, ViewQuads, Zenon
    <2>3. View(b) = h
        BY <1>1, <2>2, SameFrame, Zenon
    <2>4. "quads" # "items"
        OBVIOUS
    <2>5. QED
        BY <1>1, <2>1, <2>3, <2>4, Zenon DEF Walking, NearOf, LastOf
<1>3. ASSUME c.i = 3 PROVE BetweenNodes(tree, d, s, c.center, Q, G, E)
    <2>1. h \in SFrame /\ h.at = "quads" /\ h.q = 4
        BY <1>1, <1>3 DEF HasFields
    <2>2. \A i : i \notin Pending(tree, h, m)
        BY <1>1, <2>1, EndGood
    <2>3. QED
        BY <1>1, <2>2, WalkEnds, Zenon
<1>4. QED
    BY <1>2, <1>3, Zenon

(* The entry for a quad.                                                   *)
RectNode(p, b, a) == [kind |-> qrect, dist |-> DistToRect(p, b), pos |-> a, bounds |-> b]

(* A quad that is nil has nothing below it; for one that is not there is   *)
(* an entry, and the call goes on after its bytes.                         *)
LEMMA QuadWalks ==
    ASSUME NEW tree, NEW d, NEW s, Setting(tree, d, s), NEW c \in CallType, c.at = "quads",
           c.i \in 0 .. 3,
           NEW Q, NEW G, NEW E, NEW m, NEW e, Walking(tree, d, s, c, Q, G, E, m, e),
           NEW r, r = ReadUvarint(d, c.addr),
           NEW n, n = RectNode(c.center, QuadBounds(c.bounds, c.i), r.addr)
    PROVE  /\ r.value \in Nat /\ r.addr \in Nat
           /\ r.value = 0 => Past(tree, d, s, c, Q, G, E, m, e, r.addr)
           /\ r.value # 0 => \E F, D :
                 Past(tree, d, s, c, Q \cup {n}, F, D, m, e, r.addr + r.value)
<1>1. PICK f : f = View(c)
    OBVIOUS
<1>2. HasFields(f, "quads", c.addr, c.bounds, c.left, c.last, c.i, 0)
    BY <1>1, ViewQuads, Zenon
<1>3. /\ f \in SFrame /\ f.at = "quads" /\ f.addr = c.addr /\ f.bounds = c.bounds
      /\ f.left = c.left /\ f.last = c.last /\ f.q = c.i /\ f.qsize = 0
    BY <1>2, Zenon DEF HasFields
<1>4. /\ Good(tree, d, f, m, e) /\ r = ReadUvarint(d, f.addr) /\ f.q < 4
    <2>1. Good(tree, d, f, m, e) /\ r = ReadUvarint(d, f.addr)
        BY <1>1, <1>3, Zenon DEF Walking
    <2>2. f.q < 4
        BY <1>3
    <2>3. QED
        BY <2>1, <2>2
<1>5. /\ r.value \in Nat /\ r.addr \in Nat /\ f.q \in 0 .. 3
      /\ f.addr < e /\ e <= Len(d) /\ HeaderLen <= r.addr /\ f.addr < r.addr
      /\ r.value = 0 =>
            \A h : HasFields(h, f.at, r.addr, f.bounds, f.left, f.last, f.q + 1, f.qsize)
               => SameCall(tree, d, f, m, e, h)
      /\ r.value # 0 =>
            \E k \in 1 .. Len(tree) : QuadAhead(tree, d, f, m, e, r, k)
    BY <1>3, <1>4, QuadGood, Zenon
<1>6. "quads" # "items"
    OBVIOUS
<1>7. WalkOk(tree, d, s, c.center, Q, G, E, c.addr, e, Pending(tree, f, m), NoNode, 0)
    BY <1>1, <1>6, Zenon DEF Walking, NearOf, LastOf
<1>8. /\ m \in 1 .. Len(tree) /\ f.bounds = tree[m].bounds /\ HeaderLen <= f.addr
      /\ Lies(d, f.addr, QuadsFrom(tree, m, f.q), e) /\ d \in Seq(Nat) /\ HeaderLen \in Nat
    BY <1>3, <1>4, SettingFacts, Zenon DEF Good
<1>9. e \in Nat /\ c.addr \in Nat /\ c.addr <= r.addr
    <2>1. e \in Nat
        BY <1>8, LiesInside
    <2>2. QED
        BY <1>3, <1>5, <1>8, <2>1, CallFields
<1>10. ASSUME r.value = 0 PROVE Past(tree, d, s, c, Q, G, E, m, e, r.addr)
    <2>1. PICK h : h = [f EXCEPT !.q = @ + 1, !.addr = r.addr]
        OBVIOUS
    <2>2. r.addr \in Int /\ c.addr \in Int /\ e \in Int
        BY <1>5, <1>9
    <2>3. HasFields(h, f.at, r.addr, f.bounds, f.left, f.last, f.q + 1, f.qsize)
        BY <1>3, <2>1, <2>2, QuadFields, Zenon
    <2>4. /\ Good(tree, d, h, m, e)
          /\ \A i : i \in Pending(tree, h, m) <=> i \in Pending(tree, f, m)
        BY <1>5, <1>10, <2>3, Zenon DEF SameCall
    <2>5. NearOk(s, c.center, NoNode, 0)
        BY Zenon DEF NearOk
    <2>6. WalkOk(tree, d, s, c.center, Q, G, E, r.addr, e, Pending(tree, h, m), NoNode, 0)
        BY <1>7, <1>9, <2>2, <2>4, <2>5, WalkOn, Zenon
    <2>7. QED
        BY <1>3, <2>3, <2>4, <2>6, Zenon DEF Past
<1>11. ASSUME r.value # 0
       PROVE  \E F, D : Past(tree, d, s, c, Q \cup {n}, F, D, m, e, r.addr + r.value)
    <2>1. PICK k \in 1 .. Len(tree) : QuadAhead(tree, d, f, m, e, r, k)
        BY <1>5, <1>11, Zenon
    <2>2. PICK a \in Nat : a = r.addr + r.value /\ r.addr < a
        BY <1>5, <1>11
    <2>3. PICK q \in 0 .. 3 : q = f.q /\ q = c.i
        BY <1>3, <1>5, Zenon
    <2>4. /\ tree[k].bounds = QuadBounds(c.bounds, c.i) /\ tree[k].bounds \in Rect
          /\ \A i : i \in Pending(tree, f, m) <=>
                       i \in Under(tree, k) \/ i \in Kids(tree, m, q + 1)
          /\ Lies(d, r.addr, Code(tree, k), a)
          /\ Lies(d, a, QuadsFrom(tree, m, q + 1), e)
        BY <1>3, <2>1, <2>2, <2>3, Zenon DEF QuadAhead
    <2>5. HeaderLen <= a /\ a <= e
        <3>1. a <= e
            BY <1>8, <2>4, LiesInside, Zenon
        <3>2. QED
            BY <1>5, <1>8, <2>2, <3>1
    <2>6. /\ n \in Entry /\ n.kind = qrect /\ n.pos = r.addr /\ n.bounds = tree[k].bounds
          /\ n.dist = DistToRect(c.center, n.bounds)
        <3>1. PICK b \in Rect : b = tree[k].bounds /\ n = RectNode(c.center, b, r.addr)
            BY <2>4, Zenon
        <3>2. DistToRect(c.center, b) \in Nat
            BY <3>1, DistNat, CallFields
        <3>3. QED
            BY <1>5, <3>1, <3>2 DEF RectNode, Entry
    <2>7. RectOk(tree, d, c.center, n, k, a)
        BY <1>5, <2>1, <2>2, <2>4, <2>6, Zenon DEF RectOk
    <2>8. \A i \in Pending(tree, f, m) : i \in Under(tree, k) \/ i \in Kids(tree, m, q + 1)
        BY <2>4, Zenon
    <2>9. k \in Nat
        OBVIOUS
    <2>10. PICK P, T : P = Pending(tree, f, m) /\ T = Kids(tree, m, q + 1)
        OBVIOUS
    <2>11. PICK F, D : WalkOk(tree, d, s, c.center, Q \cup {n}, F, D, a, e, T, NoNode, 0)
        <3>1. WalkOk(tree, d, s, c.center, Q, G, E, c.addr, e, P, NoNode, 0)
            BY <1>7, <2>10, Zenon
        <3>2. \A i \in P : i \in Under(tree, k) \/ i \in T
            BY <2>8, <2>10, Zenon
        <3>3. c.addr <= n.pos
            BY <1>9, <2>6, Zenon
        <3>4. /\ c.addr \in Nat /\ e \in Nat /\ a \in Nat /\ k \in Nat
              /\ n \in Entry /\ n.kind = qrect /\ a <= e
            BY <1>9, <2>2, <2>5, <2>6, <2>9, Zenon
        <3>5. QED
            BY <2>7, <3>1, <3>2, <3>3, <3>4, WalkPushes, Zenon
    <2>12. PICK h : h = [f EXCEPT !.q = @ + 1, !.addr = a]
        OBVIOUS
    <2>13. a \in Int
        OBVIOUS
    <2>14. HasFields(h, f.at, a, f.bounds, f.left, f.last, f.q + 1, f.qsize)
        BY <1>3, <2>12, <2>13, QuadFields, Zenon
    <2>15. /\ h \in SFrame /\ h.at = "quads" /\ h.addr = a /\ h.bounds = tree[m].bounds
           /\ h.q = q + 1
        BY <1>3, <1>8, <2>3, <2>14, Zenon DEF HasFields
    <2>16. AtQuads(tree, d, h, m, e, q + 1)
        BY <1>8, <2>2, <2>4, <2>5, <2>15, PastGood, Zenon
    <2>17. Good(tree, d, h, m, e) /\ Pending(tree, h, m) = T
        BY <2>10, <2>16, Zenon DEF AtQuads
    <2>18. Past(tree, d, s, c, Q \cup {n}, F, D, m, e, a)
        BY <1>3, <2>11, <2>14, <2>17, Zenon DEF Past
    <2>19. QED
        BY <2>2, <2>18, Zenon
<1>12. QED
    BY <1>5, <1>10, <1>11, Zenon

(* What DistanceToSeries is to return.                                     *)
Nearest(s, p, r) ==
    IF Numbers(s) = {} THEN r.seg = -1 /\ r.dist = NaN
    ELSE /\ r.seg \in Numbers(s) /\ r.dist = DistIn(s, p, r.seg)
         /\ \A i \in Numbers(s) :
               \/ DistIn(s, p, r.seg) < DistIn(s, p, i)
               \/ DistIn(s, p, r.seg) = DistIn(s, p, i) /\ r.seg <= i

(* A scan has the nearest of the segments before c.i.                      *)
ScanNear(s, c) ==
    /\ c.i \in 0 .. NumSegments(s)
    /\ c.i = 0 => c.res.seg = -1 /\ c.res.dist = NaN
    /\ c.i > 0 => /\ c.res.seg \in Numbers(s) /\ c.res.seg < c.i
                  /\ c.res.dist = DistIn(s, c.center, c.res.seg)
                  /\ \A i \in Numbers(s) : i < c.i =>
                        \/ DistIn(s, c.center, c.res.seg) < DistIn(s, c.center, i)
                        \/ /\ DistIn(s, c.center, c.res.seg) = DistIn(s, c.center, i)
                           /\ c.res.seg <= i

Readers == {"node", "items", "quads"}

(* What a call knows of the series and the queue Q it has.                 *)
CallGoing(tree, d, s, c, Q) ==
    /\ c \in CallType
    /\ c.at = "scan" => ScanNear(s, c)
    /\ c.at \in Readers \cup {"get", "pop"} => c.data = d /\ d # <<>>
    /\ c.at \in Readers => \E G, E, m, e : Walking(tree, d, s, c, Q, G, E, m, e)
    /\ c.at = "quads" => c.i \in 0 .. 3
    /\ c.at = "pop" => \E G, E : BetweenNodes(tree, d, s, c.center, Q, G, E)
    /\ c.at \in {"put", "returned"} => Nearest(s, c.center, c.res)

(* The root of the tree is all there is to look at.                        *)
LEMMA StartWalks ==
    ASSUME NEW tree, NEW d, NEW s, Setting(tree, d, s),
           Lies(d, HeaderLen, Code(tree, 1), Len(d)),
           NEW c \in CallType, c.at = "node", c.addr = HeaderLen, c.bounds = s.rect
    PROVE  \E G, E, m, e : Walking(tree, d, s, c, {}, G, E, m, e)
<1>1. IsTreeOf(tree, s) /\ d \in Seq(Nat) /\ HeaderLen \in Nat /\ HeaderLen <= HeaderLen
    BY SettingFacts DEF HeaderLen
<1>2. Under(tree, 1) = Numbers(s) /\ 1 \in 1 .. Len(tree)
    BY <1>1, UnderRoot
<1>3. tree[1].bounds = s.rect
    BY <1>1 DEF IsTreeOf, IsBounded
<1>4. HasFields(View(c), "count", HeaderLen, tree[1].bounds, 0, 0, 0, 0)
    BY <1>3, ViewNode, Zenon
<1>5. PICK h : h = View(c)
    OBVIOUS
<1>6. Good(tree, d, h, 1, Len(d)) /\ Pending(tree, h, 1) = Under(tree, 1)
    BY <1>1, <1>2, <1>4, <1>5, StartGood, Zenon
<1>7. PICK G : G = [k \in Nat |-> 0]
    OBVIOUS
<1>8. G \in [Nat -> Nat]
    BY <1>7
<1>9. Entries(tree, d, s, c.center, {}, G, G)
    BY <1>8 DEF Entries
<1>10. Clear({}, G, HeaderLen, Len(d)) /\ NearOk(s, c.center, NoNode, 0)
    BY DEF Clear, NearOk
<1>11. \A i \in Numbers(s) : Covered(tree, s, c.center, {}, G, Under(tree, 1), NoNode, i)
    BY <1>2, Zenon DEF Covered
<1>12. WalkOk(tree, d, s, c.center, {}, G, G, HeaderLen, Len(d), Under(tree, 1), NoNode, 0)
    BY <1>9, <1>10, <1>11, Zenon DEF WalkOk
<1>13. "node" # "items"
    OBVIOUS
<1>14. Walking(tree, d, s, c, {}, G, G, 1, Len(d))
    BY <1>5, <1>6, <1>12, <1>13, Zenon DEF Walking, NearOf, LastOf
<1>15. QED
    BY <1>14, Zenon

(* The call goes on with a node it has taken out of the queue.             *)
LEMMA PopWalks ==
    ASSUME NEW tree, NEW d, NEW s, Setting(tree, d, s), NEW p, NEW Q, NEW G, NEW E,
           BetweenNodes(tree, d, s, p, Q, G, E), NEW n \in Q, n.kind = qrect,
           NEW c \in CallType, c.at = "node", c.center = p, c.addr = n.pos, c.bounds = n.bounds
    PROVE  \E m, e : Walking(tree, d, s, c, Q \ {n}, G, E, m, e)
<1>1. PICK m, e : m = G[n.pos] /\ e = E[n.pos]
    OBVIOUS
<1>2. WalkOk(tree, d, s, p, Q, G, E, 0, 0, {}, NoNode, 0)
    BY Zenon DEF BetweenNodes
<1>3. /\ WalkOk(tree, d, s, p, Q \ {n}, G, E, n.pos, E[n.pos],
                Under(tree, G[n.pos]), NoNode, 0)
      /\ RectOk(tree, d, p, n, G[n.pos], E[n.pos])
    BY <1>2, WalkPops, Zenon
<1>4. /\ m \in 1 .. Len(tree) /\ HeaderLen <= n.pos /\ n.bounds = tree[m].bounds
      /\ Lies(d, n.pos, Code(tree, m), e)
    BY <1>1, <1>3, Zenon DEF RectOk
<1>5. d \in Seq(Nat)
    BY SettingFacts, Zenon
<1>6. n.pos \in Nat
    BY <1>4, <1>5, LiesInside, Zenon
<1>7. PICK h : h = View(c)
    OBVIOUS
<1>8. HasFields(h, "count", n.pos, tree[m].bounds, 0, 0, 0, 0)
    BY <1>4, <1>7, ViewNode, Zenon
<1>9. Good(tree, d, h, m, e) /\ Pending(tree, h, m) = Under(tree, m)
    BY <1>4, <1>6, <1>8, StartGood, Zenon
<1>10. "node" # "items"
    OBVIOUS
<1>11. Walking(tree, d, s, c, Q \ {n}, G, E, m, e)
    BY <1>1, <1>3, <1>7, <1>9, <1>10, Zenon DEF Walking, NearOf, LastOf
<1>12. QED
    BY <1>11, Zenon

(* Every segment has an entry that comes no later than it would.           *)
LEMMA EntryAhead ==
    ASSUME NEW tree, NEW d, NEW s, Setting(tree, d, s), NEW p \in Point, NEW Q, NEW G, NEW E,
           BetweenNodes(tree, d, s, p, Q, G, E), NEW i \in Numbers(s),
           NEW x, x.kind = qseg, x.pos = i, x.dist = DistIn(s, p, i)
    PROVE  \E n \in Q : n \in Entry /\ Precedes(n, x)
<1>1. /\ Entries(tree, d, s, p, Q, G, E)
      /\ Covered(tree, s, p, Q, G, {}, NoNode, i)
    BY Zenon DEF BetweenNodes, WalkOk
<1>2. /\ Q \in SUBSET Entry
      /\ \A n \in Q : n.kind = qrect => RectOk(tree, d, p, n, G[n.pos], E[n.pos])
    BY <1>1, Zenon DEF Entries
<1>3. ~ Passed(s, p, NoNode, i) /\ i \notin {}
    BY Zenon DEF Passed
<1>4. PICK n \in Q : Covers(tree, s, p, G, n, i)
    BY <1>1, <1>3, Zenon DEF Covered
<1>5. n \in Entry /\ n.kind \in {qrect, qseg} /\ n.dist \in Nat /\ n.pos \in Nat
    BY <1>2 DEF Entry
<1>6. s \in SeriesType /\ IsTreeOf(tree, s)
    BY DEF Setting, IsTreeOf
<1>7. i \in Nat /\ DistIn(s, p, i) \in Nat
    BY <1>6, NumbersNat, DistInNat
<1>8. qrect < qseg /\ qrect # qseg
    BY DEF qrect, qseg
<1>9. CASE n.kind = qseg
    <2>1. Ahead(s, p, n, i)
        BY <1>4, <1>9, Zenon DEF Covers
    <2>2. n.dist < x.dist \/ (n.dist = x.dist /\ n.pos <= x.pos)
        BY <2>1, Zenon DEF Ahead
    <2>3. QED
        BY <1>5, <1>9, <2>2, Zenon DEF Precedes
<1>10. CASE n.kind = qrect
    <2>1. PICK m : m = G[n.pos] /\ i \in Under(tree, m)
        BY <1>4, <1>8, <1>10, Zenon DEF Covers
    <2>2. m \in 1 .. Len(tree) /\ n.bounds = tree[m].bounds /\ n.dist = DistToRect(p, n.bounds)
        BY <1>2, <1>10, <2>1, Zenon DEF RectOk
    <2>3. DistToRect(p, tree[m].bounds) <= DistIn(s, p, i)
        BY <1>6, <2>1, <2>2, NodeNearer
    <2>4. n.dist <= x.dist
        BY <2>2, <2>3, Zenon
    <2>5. n.dist < x.dist \/ n.dist = x.dist
        BY <1>5, <1>7, <2>4
    <2>6. QED
        BY <1>5, <1>8, <1>10, <2>5, Zenon DEF Precedes
<1>11. QED
    BY <1>5, <1>9, <1>10, Zenon

(* The first entry of the queue, if it is a segment, is the nearest one.   *)
LEMMA FirstNearest ==
    ASSUME NEW tree, NEW d, NEW s, Setting(tree, d, s), NEW p \in Point, NEW Q, NEW G, NEW E,
           BetweenNodes(tree, d, s, p, Q, G, E), NEW n \in Q, n.kind = qseg,
           \A m \in Q : Precedes(n, m), NEW r, r.seg = n.pos, r.dist = n.dist
    PROVE  Nearest(s, p, r)
<1>1. Entries(tree, d, s, p, Q, G, E)
    BY Zenon DEF BetweenNodes, WalkOk
<1>2. SegOk(s, p, n) /\ n \in Entry
    BY <1>1, Zenon DEF Entries
<1>3. n.pos \in Numbers(s) /\ n.dist = DistIn(s, p, n.pos) /\ n.dist \in Nat /\ n.pos \in Nat
    BY <1>2, EntryFields DEF SegOk
<1>4. s \in SeriesType
    BY DEF Setting, IsTreeOf
<1>5. ASSUME NEW i \in Numbers(s)
      PROVE  n.dist < DistIn(s, p, i) \/ (n.dist = DistIn(s, p, i) /\ n.pos <= i)
    <2>1. i \in Nat /\ DistIn(s, p, i) \in Nat
        BY <1>4, NumbersNat, DistInNat
    <2>2. PICK x : x = SegNode(s, p, i)
        OBVIOUS
    <2>3. x.kind = qseg /\ x.pos = i /\ x.dist = DistIn(s, p, i)
        BY <2>2 DEF SegNode
    <2>4. PICK m \in Q : m \in Entry /\ Precedes(m, x)
        BY <2>3, EntryAhead, Zenon
    <2>5. Precedes(n, m)
        BY <2>4
    <2>6. m.dist \in Nat /\ m.pos \in Nat /\ m.kind \in Nat /\ n.kind \in Nat /\ x.kind \in Nat
        BY <1>2, <2>3, <2>4, EntryFields DEF qseg
    <2>7. QED
        BY <1>3, <2>1, <2>3, <2>4, <2>5, <2>6 DEF Precedes
<1>6. Numbers(s) # {}
    BY <1>3
<1>7. QED
    BY <1>3, <1>5, <1>6, Zenon DEF Nearest

(* An empty queue is that of a series without segments.                    *)
LEMMA NothingNearest ==
    ASSUME NEW tree, NEW d, NEW s, NEW p, NEW G, NEW E,
           BetweenNodes(tree, d, s, p, {}, G, E), NEW r, r.seg = -1, r.dist = NaN
    PROVE  Nearest(s, p, r)
<1>1. ASSUME NEW i \in Numbers(s) PROVE FALSE
    <2>1. Covered(tree, s, p, {}, G, {}, NoNode, i)
        BY Zenon DEF BetweenNodes, WalkOk
    <2>2. ~ Passed(s, p, NoNode, i)
        BY Zenon DEF Passed
    <2>3. QED
        BY <2>1, <2>2, Zenon DEF Covered
<1>2. Numbers(s) = {}
    BY <1>1, Zenon
<1>3. QED
    BY <1>2, Zenon DEF Nearest

(* The scan goes on, and ends.                                             *)
LEMMA ScanOn ==
    ASSUME NEW s \in SeriesType, NEW c \in CallType, ScanNear(s, c), c.i < NumSegments(s),
           NEW dist, dist = DistIn(s, c.center, c.i),
           NEW b, b.i = c.i + 1, b.center = c.center,
           b.res = IF c.i = 0 \/ dist < c.res.dist THEN Result(c.i, 0, dist) ELSE c.res
    PROVE  ScanNear(s, b) /\ dist \in Nat
<1>1. NumSegments(s) \in Nat /\ c.center \in Point
    BY NumbersNat, CallFields
<1>2. PICK k \in Numbers(s) : k = c.i
    BY <1>1 DEF ScanNear, Numbers
<1>3. k \in Nat /\ \A i \in Numbers(s) : i \in Nat /\ DistIn(s, c.center, i) \in Nat
    BY <1>1, NumbersNat, DistInNat
<1>4. dist = DistIn(s, c.center, k) /\ dist \in Nat
    BY <1>2, <1>3, Zenon
<1>5. b.i \in 0 .. NumSegments(s) /\ b.i > 0 /\ b.i # 0 /\ b.i = k + 1
    BY <1>1, <1>2 DEF ScanNear
<1>6. \A i \in Numbers(s) : i < b.i <=> i < k \/ i = k
    BY <1>3, <1>5
<1>7. CASE c.i = 0 \/ dist < c.res.dist
    <2>1. b.res.seg = k /\ b.res.dist = dist
        BY <1>2, <1>7 DEF Result
    <2>2. ASSUME NEW i \in Numbers(s), i < b.i
          PROVE  dist < DistIn(s, c.center, i) \/ (dist = DistIn(s, c.center, i) /\ k <= i)
        <3>1. CASE i = k
            BY <1>3, <1>4, <3>1
        <3>2. CASE i < k
            <4>1. c.i > 0 /\ dist < c.res.dist
                BY <1>2, <1>3, <1>7, <3>2
            <4>2. /\ c.res.dist = DistIn(s, c.center, c.res.seg) /\ c.res.seg \in Numbers(s)
                  /\ \/ DistIn(s, c.center, c.res.seg) < DistIn(s, c.center, i)
                     \/ DistIn(s, c.center, c.res.seg) = DistIn(s, c.center, i)
                BY <1>2, <3>2, <4>1, Zenon DEF ScanNear
            <4>3. dist < DistIn(s, c.center, i)
                <5>1. PICK u, w : u = DistIn(s, c.center, c.res.seg) /\ w = DistIn(s, c.center, i)
                    OBVIOUS
                <5>2. u \in Nat /\ w \in Nat /\ dist < u /\ (u < w \/ u = w)
                    BY <1>3, <4>1, <4>2, <5>1, Zenon
                <5>3. dist < w
                    BY <1>4, <5>2
                <5>4. QED
                    BY <5>1, <5>3, Zenon
            <4>4. QED
                BY <4>3
        <3>3. QED
            BY <1>6, <2>2, <3>1, <3>2
    <2>3. k < b.i
        BY <1>3, <1>5
    <2>4. QED
        BY <1>4, <1>5, <2>1, <2>2, <2>3, Zenon DEF ScanNear
<1>8. CASE ~ (c.i = 0 \/ dist < c.res.dist)
    <2>1. b.res = c.res /\ c.i > 0 /\ ~ (dist < c.res.dist)
        BY <1>2, <1>3, <1>8
    <2>2. /\ c.res.seg \in Numbers(s) /\ c.res.seg < k
          /\ c.res.dist = DistIn(s, c.center, c.res.seg)
          /\ \A i \in Numbers(s) : i < k =>
                \/ DistIn(s, c.center, c.res.seg) < DistIn(s, c.center, i)
                \/ /\ DistIn(s, c.center, c.res.seg) = DistIn(s, c.center, i)
                   /\ c.res.seg <= i
        BY <1>2, <2>1, Zenon DEF ScanNear
    <2>3. PICK z, u : z = c.res.seg /\ u = c.res.dist /\ z \in Nat /\ u \in Nat /\ z < k
        BY <1>3, <2>2
    <2>4. ASSUME NEW i \in Numbers(s), i < b.i
          PROVE  \/ DistIn(s, c.center, z) < DistIn(s, c.center, i)
                 \/ DistIn(s, c.center, z) = DistIn(s, c.center, i) /\ z <= i
        <3>1. CASE i < k
            BY <2>2, <2>3, <3>1, Zenon
        <3>2. CASE i = k
            <4>1. u = DistIn(s, c.center, z) /\ ~ (dist < u) /\ z <= k
                BY <1>3, <2>1, <2>2, <2>3
            <4>2. u < dist \/ u = dist
                BY <1>4, <2>3, <4>1
            <4>3. QED
                BY <1>4, <3>2, <4>1, <4>2, Zenon
        <3>3. QED
            BY <1>6, <2>4, <3>1, <3>2
    <2>5. z < b.i
        BY <1>3, <1>5, <2>3
    <2>6. b.res.seg = z /\ b.res.dist = DistIn(s, c.center, z) /\ z \in Numbers(s)
        BY <2>1, <2>2, <2>3, Zenon
    <2>7. QED
        BY <1>4, <1>5, <2>4, <2>5, <2>6, Zenon DEF ScanNear
<1>9. QED
    BY <1>7, <1>8

(* At its end it has the nearest of all.                                   *)
LEMMA ScanNearest ==
    ASSUME NEW s \in SeriesType, NEW c, ScanNear(s, c), c.i = NumSegments(s)
    PROVE  Nearest(s, c.center, c.res)
<1>1. NumSegments(s) \in Nat
    BY NumbersNat
<1>2. CASE c.i = 0
    <2>1. Numbers(s) = {}
        BY <1>1, <1>2 DEF Numbers
    <2>2. c.res.seg = -1 /\ c.res.dist = NaN
        BY <1>2, Zenon DEF ScanNear
    <2>3. QED
        BY <2>1, <2>2, Zenon DEF Nearest
<1>3. CASE c.i # 0
    <2>1. c.i > 0 /\ Numbers(s) # {} /\ \A i \in Numbers(s) : i < c.i
        BY <1>1, <1>3 DEF Numbers
    <2>2. QED
        BY <2>1, Zenon DEF ScanNear, Nearest
<1>4. QED
    BY <1>2, <1>3

-----------------------------------------------------------------------------
(* All calls together.                                                     *)

(* The entries of the queue a call has.                                    *)
Held(c, qs) == IF c.q = NoQueue THEN {} ELSE qs[c.q]

AllGoing ==
    \A p \in Procs : CallGoing(nodes, index, series, calls[p], Held(calls[p], queue))

(* The invariant of the calls of DistanceToSeries.                         *)
NearInv ==
    /\ MakeInv /\ Owning /\ DOMAIN queue = Queues
    /\ ~ made => \A p \in Procs : calls[p] = NotCalling
    /\ Fits => AllGoing

(* Nothing is asked of a call that has not begun.                          *)
LEMMA IdleCall ==
    ASSUME NEW tree, NEW d, NEW s
    PROVE  CallGoing(tree, d, s, NotCalling, Held(NotCalling, queue))
<1>1. NotCalling \in CallType
    BY DEF NotCalling, CallType, NearType, ResultType, Places, InTree, NoNode, Result, Origin,
           PointRect, Point, Rect, NaN
<1>2. NotCalling.at = "idle"
    BY DEF NotCalling
<1>3. QED
    BY <1>1, <1>2 DEF CallGoing, Readers

(* A call leaves the series and the index alone.                           *)
LEMMA SeriesSame ==
    ASSUME UNCHANGED makeVars
    PROVE  /\ nodes' = nodes /\ series' = series /\ index' = index /\ made' = made
           /\ (Fits' <=> Fits)
<1>1. /\ nodes' = nodes /\ series' = series /\ index' = index /\ made' = made
    BY DEF makeVars, vars
<1>2. QED
    BY <1>1 DEF Fits

(* A step of p is of no concern to the others.                             *)
LEMMA OthersGoing ==
    ASSUME NearInv, Fits, UNCHANGED makeVars, NEW p \in Procs,
           \A o \in Procs : o # p =>
              calls'[o] = calls[o] /\ Held(calls[o], queue') = Held(calls[o], queue),
           CallGoing(nodes, index, series, calls'[p], Held(calls'[p], queue'))
    PROVE  AllGoing'
<1>1. nodes' = nodes /\ series' = series /\ index' = index
    BY SeriesSame, Zenon
<1>2. ASSUME NEW o \in Procs
      PROVE  CallGoing(nodes, index, series, calls'[o], Held(calls'[o], queue'))
    <2>1. CASE o = p
        BY <2>1, Zenon
    <2>2. CASE o # p
        <3>1. CallGoing(nodes, index, series, calls[o], Held(calls[o], queue))
            BY Zenon DEF NearInv, AllGoing
        <3>2. QED
            BY <2>2, <3>1, Zenon
    <2>3. QED
        BY <2>1, <2>2
<1>3. QED
    BY <1>1, <1>2, Zenon DEF AllGoing

(* A queue that no other call has may change.                              *)
LEMMA QueueChanges ==
    ASSUME NearInv, NEW p \in Procs, NEW q \in Queues, NEW R,
           \A o \in Procs : o # p => calls[o].q # q, queue' = [queue EXCEPT ![q] = R]
    PROVE  /\ DOMAIN queue' = Queues /\ queue'[q] = R /\ q # NoQueue
           /\ \A o \in Procs : o # p => Held(calls[o], queue') = Held(calls[o], queue)
<1>1. DOMAIN queue = Queues
    BY DEF NearInv
<1>2. DOMAIN queue' = Queues /\ queue'[q] = R
    BY <1>1
<1>3. q # NoQueue
    BY QueuesAssumption
<1>4. ASSUME NEW o \in Procs, o # p PROVE Held(calls[o], queue') = Held(calls[o], queue)
    <2>1. calls[o].q \in Queues \/ calls[o].q = NoQueue
        BY DEF NearInv, Owning, Holding
    <2>2. CASE calls[o].q = NoQueue
        BY <2>2, Zenon DEF Held
    <2>3. CASE calls[o].q # NoQueue
        <3>1. queue'[calls[o].q] = queue[calls[o].q]
            BY <1>1, <1>4, <2>1, <2>3
        <3>2. QED
            BY <2>3, <3>1, Zenon DEF Held
    <2>4. QED
        BY <2>2, <2>3
<1>5. QED
    BY <1>2, <1>3, <1>4, Zenon

(* What is known when a call that has a queue takes a step.                *)
LEMMA CallNow ==
    ASSUME NearInv, Fits, NEW p \in Procs, NEW c, c = calls[p], c.at \in Readers \cup {"pop"}
    PROVE  /\ Setting(nodes, index, series) /\ series \in SeriesType
           /\ c \in CallType /\ c.data = index /\ index # <<>>
           /\ c.q \in Queues /\ c.q # NoQueue /\ p \in DOMAIN calls /\ DOMAIN queue = Queues
           /\ CallGoing(nodes, index, series, c, queue[c.q])
           /\ \A o \in Procs : o # p => calls[o].q # c.q
<1>1. c.at \in InTree
    BY DEF Readers, InTree
<1>2. c.q \in Queues /\ DOMAIN calls = Procs /\ DOMAIN queue = Queues /\ QueueOwned
    BY <1>1 DEF NearInv, Owning, Holding
<1>3. c.q # NoQueue
    BY <1>2, QueuesAssumption
<1>4. CallGoing(nodes, index, series, c, queue[c.q])
    BY <1>3, Zenon DEF NearInv, AllGoing, Held
<1>5. c \in CallType /\ c.data = index /\ index # <<>>
    BY <1>4 DEF CallGoing, Readers
<1>6. IsTreeOf(nodes, series) /\ Readably(nodes, index)
    BY <1>5, IndexReads DEF NearInv
<1>7. Setting(nodes, index, series) /\ series \in SeriesType
    BY <1>6 DEF Setting, IsTreeOf
<1>8. \A o \in Procs : o # p => calls[o].q # c.q
    BY <1>2, <1>3 DEF QueueOwned
<1>9. QED
    BY <1>2, <1>3, <1>4, <1>5, <1>7, <1>8, Zenon

(* A call that reads a node goes on.                                       *)
LEMMA ReaderGoes ==
    ASSUME NEW tree, NEW d, d # <<>>, NEW s, NEW b \in CallType, b.at \in Readers, b.data = d,
           b.at = "quads" => b.i \in 0 .. 3,
           NEW Q, NEW G, NEW E, NEW m, NEW e, Walking(tree, d, s, b, Q, G, E, m, e)
    PROVE  CallGoing(tree, d, s, b, Q)
<1>1. b.at # "scan" /\ b.at # "pop" /\ b.at \notin {"put", "returned"}
    BY DEF Readers
<1>2. QED
    BY <1>1, Zenon DEF CallGoing

(* A call between two nodes goes on to pop.                                *)
LEMMA PopGoes ==
    ASSUME NEW tree, NEW d, d # <<>>, NEW s, NEW b \in CallType, b.at = "pop", b.data = d,
           NEW Q, NEW G, NEW E, BetweenNodes(tree, d, s, b.center, Q, G, E)
    PROVE  CallGoing(tree, d, s, b, Q)
<1>1. b.at # "scan" /\ b.at \notin Readers /\ b.at # "quads" /\ b.at \notin {"put", "returned"}
    BY DEF Readers
<1>2. QED
    BY <1>1, Zenon DEF CallGoing

(* Call c becomes b, which has the queue and the data that c had.          *)
CallGoes(b, at, c, a, left, last, near, i) ==
    /\ CallIs(b, at, c.center, a, c.bounds, left, last, near, i)
    /\ b.q = c.q /\ b.data = c.data

(* No item is an entry as well.                                            *)
LEMMA NoNodeType == NoNode \in NearType
    BY DEF NoNode, NearType, NaN, PointRect, Origin, Rect, Point

(* The call that reads the number of items, an item, the flag, a quad.     *)
LEMMA CountCall ==
    ASSUME NEW c \in CallType, NEW v \in Int, NEW a \in Int, NEW z \in Int, NEW n \in NearType,
           NEW at \in Places
    PROVE  CallGoes([c EXCEPT !.at = at, !.left = v, !.last = z, !.nearSeg = n, !.addr = a],
                    at, c, a, v, z, n, c.i)
    BY DEF CallIs, CallType, CallGoes

(* An item.                                                                *)
LEMMA ItemCall ==
    ASSUME NEW c \in CallType, NEW v \in Int, NEW a \in Int, NEW n \in NearType
    PROVE  CallGoes([c EXCEPT !.left = @ - 1, !.last = v, !.addr = a, !.nearSeg = n],
                    c.at, c, a, c.left - 1, v, n, c.i)
<1>1. PICK l \in Int : l = c.left - 1
    BY CallFields
<1>2. CallGoes([c EXCEPT !.left = l, !.last = v, !.addr = a, !.nearSeg = n],
               c.at, c, a, l, v, n, c.i)
    BY DEF CallIs, CallType, CallGoes
<1>3. QED
    BY <1>1, <1>2, Zenon

(* The flag.                                                               *)
LEMMA FlagCall ==
    ASSUME NEW c \in CallType, NEW at \in Places
    PROVE  CallGoes([c EXCEPT !.at = at, !.addr = @ + 1, !.i = 0],
                    at, c, c.addr + 1, c.left, c.last, c.nearSeg, 0)
<1>1. PICK a \in Int : a = c.addr + 1
    BY CallFields
<1>2. PICK z \in Int : z = 0
    OBVIOUS
<1>3. CallGoes([c EXCEPT !.at = at, !.addr = a, !.i = z],
               at, c, a, c.left, c.last, c.nearSeg, z)
    BY DEF CallIs, CallType, CallGoes
<1>4. QED
    BY <1>1, <1>2, <1>3, Zenon

(* A quad.                                                                 *)
LEMMA QuadCall ==
    ASSUME NEW c \in CallType, NEW at \in Places, NEW a \in Int
    PROVE  CallGoes([c EXCEPT !.i = @ + 1, !.at = at, !.addr = a],
                    at, c, a, c.left, c.last, c.nearSeg, c.i + 1)
<1>1. PICK z \in Int : z = c.i + 1
    BY CallFields
<1>2. CallGoes([c EXCEPT !.i = z, !.at = at, !.addr = a],
               at, c, a, c.left, c.last, c.nearSeg, z)
    BY DEF CallIs, CallType, CallGoes
<1>3. QED
    BY <1>1, <1>2, Zenon

(* The step that reads the number of items.                                *)
LEMMA CountStep ==
    ASSUME NearInv, Fits, NEW p \in Procs, ReadItemCount(p)
    PROVE  CallGoing(nodes, index, series, calls'[p], Held(calls'[p], queue'))
<1>1. PICK c : c = calls[p]
    OBVIOUS
<1>2. c.at = "node" /\ queue' = queue
    BY <1>1 DEF ReadItemCount
<1>3. c.at \in Readers \cup {"pop"} /\ c.at \in Readers
    BY <1>2 DEF Readers
<1>4. /\ Setting(nodes, index, series) /\ series \in SeriesType
      /\ c \in CallType /\ c.data = index /\ index # <<>>
      /\ c.q \in Queues /\ c.q # NoQueue /\ p \in DOMAIN calls /\ DOMAIN queue = Queues
      /\ CallGoing(nodes, index, series, c, queue[c.q])
      /\ \A o \in Procs : o # p => calls[o].q # c.q
    BY <1>1, <1>3, CallNow, Zenon
<1>a. Setting(nodes, index, series) /\ c \in CallType
    BY <1>4
<1>b. PICK Q : Q = queue[c.q]
    OBVIOUS
<1>5. PICK G, E, m, e : Walking(nodes, index, series, c, Q, G, E, m, e)
    BY <1>3, <1>4, <1>b, Zenon DEF CallGoing
<1>6. PICK r : r = ReadUvarint(index, c.addr)
    OBVIOUS
<1>7. /\ r.value \in Int /\ r.addr \in Int
      /\ \A b : CallIs(b, "items", c.center, r.addr, c.bounds, r.value, 0, NoNode, c.i)
             => Walking(nodes, index, series, b, Q, G, E, m, e)
    BY <1>2, <1>a, <1>5, <1>6, CountWalks, SMT
<1>8. PICK b : /\ b = calls'[p]
               /\ b = [c EXCEPT !.at = "items", !.left = r.value, !.last = 0,
                                !.nearSeg = NoNode, !.addr = r.addr]
    BY <1>1, <1>4, <1>6 DEF ReadItemCount, ReadAt
<1>9. /\ CallIs(b, "items", c.center, r.addr, c.bounds, r.value, 0, NoNode, c.i)
      /\ b.q = c.q /\ b.data = c.data
    <2>1. "items" \in Places /\ 0 \in Int
        BY DEF Places, InTree
    <2>2. CallGoes(b, "items", c, r.addr, r.value, 0, NoNode, c.i)
        <3>1. c \in CallType /\ r.value \in Int /\ r.addr \in Int
            BY <1>a, <1>7
        <3>2. b = [c EXCEPT !.at = "items", !.left = r.value, !.last = 0,
                            !.nearSeg = NoNode, !.addr = r.addr]
            BY <1>8
        <3>3. CallGoes([c EXCEPT !.at = "items", !.left = r.value, !.last = 0,
                                 !.nearSeg = NoNode, !.addr = r.addr],
                       "items", c, r.addr, r.value, 0, NoNode, c.i)
            BY <2>1, <3>1, CountCall, NoNodeType
        <3>4. QED
            BY <3>2, <3>3, Zenon
    <2>3. QED
        BY <2>2, Zenon DEF CallGoes
<1>10. Walking(nodes, index, series, b, Q, G, E, m, e)
    BY <1>7, <1>9, Zenon
<1>11. b \in CallType /\ b.at = "items" /\ b.at \in Readers /\ b.at # "quads"
    BY <1>9 DEF CallIs, Readers
<1>12. CallGoing(nodes, index, series, b, Q)
    BY <1>4, <1>9, <1>10, <1>11, ReaderGoes, Zenon
<1>13. Held(b, queue') = Q
    BY <1>2, <1>4, <1>b, <1>9, Zenon DEF Held
<1>14. QED
    BY <1>8, <1>12, <1>13, Zenon

(* The step that reads an item.                                            *)
LEMMA ItemStep ==
    ASSUME NearInv, Fits, NEW p \in Procs, ReadItem(p)
    PROVE  CallGoing(nodes, index, series, calls'[p], Held(calls'[p], queue'))
<1>1. PICK c : c = calls[p]
    OBVIOUS
<1>2. c.at = "items" /\ queue' = queue /\ c.left > 0
    BY <1>1 DEF ReadItem
<1>3. c.at \in Readers \cup {"pop"} /\ c.at \in Readers
    BY <1>2 DEF Readers
<1>4. /\ Setting(nodes, index, series) /\ series \in SeriesType
      /\ c \in CallType /\ c.data = index /\ index # <<>>
      /\ c.q \in Queues /\ c.q # NoQueue /\ p \in DOMAIN calls /\ DOMAIN queue = Queues
      /\ CallGoing(nodes, index, series, c, queue[c.q])
      /\ \A o \in Procs : o # p => calls[o].q # c.q
    BY <1>1, <1>3, CallNow, Zenon
<1>a. Setting(nodes, index, series) /\ c \in CallType
    BY <1>4
<1>b. PICK Q : Q = queue[c.q]
    OBVIOUS
<1>5. PICK G, E, m, e : Walking(nodes, index, series, c, Q, G, E, m, e)
    BY <1>3, <1>4, <1>b, Zenon DEF CallGoing
<1>6. PICK r, v : r = ReadUvarint(index, c.addr) /\ v = r.value + c.last
    OBVIOUS
<1>7. PICK n : n = SegNode(series, c.center, v)
    OBVIOUS
<1>8. PICK near : near = IF Nearer(c, n) THEN n ELSE c.nearSeg
    OBVIOUS
<1>9. /\ v \in Nat /\ r.addr \in Int /\ near \in NearType
      /\ \A b : CallIs(b, "items", c.center, r.addr, c.bounds, c.left - 1, v, near, c.i)
             => Walking(nodes, index, series, b, Q, G, E, m, e)
    BY <1>2, <1>a, <1>5, <1>6, <1>7, <1>8, ItemWalks, SMT
<1>10. PICK b : /\ b = calls'[p]
                /\ b = [c EXCEPT !.left = @ - 1, !.last = v, !.addr = r.addr, !.nearSeg = near]
    <2>1. calls' = [calls EXCEPT ![p] =
             [c EXCEPT !.left = @ - 1, !.last = v, !.addr = r.addr,
                       !.nearSeg = IF Nearer(c, n) THEN n ELSE @]]
        BY <1>1, <1>4, <1>6, <1>7, Zenon DEF ReadItem, ReadAt, SegNode, DistToSegment, DistIn
    <2>2. QED
        BY <1>4, <1>8, <2>1
<1>11. v \in Int
    BY <1>9
<1>12. /\ CallIs(b, "items", c.center, r.addr, c.bounds, c.left - 1, v, near, c.i)
       /\ b.q = c.q /\ b.data = c.data
    <2>1. CallGoes(b, "items", c, r.addr, c.left - 1, v, near, c.i)
        <3>1. c \in CallType /\ r.addr \in Int /\ v \in Int /\ near \in NearType
            BY <1>a, <1>9, <1>11
        <3>2. b = [c EXCEPT !.left = @ - 1, !.last = v, !.addr = r.addr, !.nearSeg = near]
            BY <1>10
        <3>3. CallGoes([c EXCEPT !.left = @ - 1, !.last = v, !.addr = r.addr, !.nearSeg = near],
                       c.at, c, r.addr, c.left - 1, v, near, c.i)
            BY <3>1, ItemCall
        <3>4. QED
            BY <1>2, <3>2, <3>3, Zenon
    <2>2. QED
        BY <2>1, Zenon DEF CallGoes
<1>13. Walking(nodes, index, series, b, Q, G, E, m, e)
    BY <1>9, <1>12, Zenon
<1>14. b \in CallType /\ b.at = "items" /\ b.at \in Readers /\ b.at # "quads"
    BY <1>12 DEF CallIs, Readers
<1>15. CallGoing(nodes, index, series, b, Q)
    BY <1>4, <1>12, <1>13, <1>14, ReaderGoes, Zenon
<1>16. Held(b, queue') = Q
    BY <1>2, <1>4, <1>b, <1>12, Zenon DEF Held
<1>17. QED
    BY <1>10, <1>15, <1>16, Zenon

(* The flag after the items.                                               *)
LEMMA FlagStep ==
    ASSUME NearInv, Fits, NEW p \in Procs, EndItems(p)
    PROVE  CallGoing(nodes, index, series, calls'[p], Held(calls'[p], queue'))
<1>1. PICK c : c = calls[p]
    OBVIOUS
<1>2. c.at = "items" /\ c.left = 0
    BY <1>1 DEF EndItems
<1>3. c.at \in Readers \cup {"pop"} /\ c.at \in Readers
    BY <1>2 DEF Readers
<1>4. /\ Setting(nodes, index, series) /\ series \in SeriesType
      /\ c \in CallType /\ c.data = index /\ index # <<>>
      /\ c.q \in Queues /\ c.q # NoQueue /\ p \in DOMAIN calls /\ DOMAIN queue = Queues
      /\ CallGoing(nodes, index, series, c, queue[c.q])
      /\ \A o \in Procs : o # p => calls[o].q # c.q
    BY <1>1, <1>3, CallNow, Zenon
<1>5. Setting(nodes, index, series) /\ c \in CallType
    BY <1>4
<1>6. PICK Q : Q = queue[c.q]
    OBVIOUS
<1>7. PICK G, E, m, e : Walking(nodes, index, series, c, Q, G, E, m, e)
    BY <1>3, <1>4, <1>6, Zenon DEF CallGoing
<1>8. PICK R : R = IF c.nearSeg = NoNode THEN Q ELSE Q \cup {c.nearSeg}
    OBVIOUS
<1>9. queue'[c.q] = R
    <2>1. queue' = IF c.nearSeg = NoNode THEN queue
                   ELSE [queue EXCEPT ![c.q] = queue[c.q] \cup {c.nearSeg}]
        BY <1>1, Zenon DEF EndItems
    <2>2. QED
        BY <1>4, <1>6, <1>8, <2>1
<1>10. /\ At(index, c.addr) = 1 =>
             \A b : CallIs(b, "quads", c.center, c.addr + 1, c.bounds, c.left, c.last,
                           c.nearSeg, 0)
                 => Walking(nodes, index, series, b, R, G, E, m, e)
       /\ At(index, c.addr) # 1 => BetweenNodes(nodes, index, series, c.center, R, G, E)
    BY <1>2, <1>5, <1>7, <1>8, FlagWalks, SMT
<1>11. PICK at : at = IF At(index, c.addr) = 1 THEN "quads" ELSE "pop"
    OBVIOUS
<1>12. calls'[p] = [c EXCEPT !.at = at, !.addr = @ + 1, !.i = 0]
    BY <1>1, <1>4, <1>11 DEF EndItems
<1>13. CallGoes(calls'[p], at, c, c.addr + 1, c.left, c.last, c.nearSeg, 0)
    <2>1. at \in Places
        BY <1>11 DEF Places, InTree
    <2>2. CallGoes([c EXCEPT !.at = at, !.addr = @ + 1, !.i = 0],
                   at, c, c.addr + 1, c.left, c.last, c.nearSeg, 0)
        BY <1>5, <2>1, FlagCall
    <2>3. QED
        BY <1>12, <2>2, Zenon
<1>14. PICK b : b = calls'[p]
    OBVIOUS
<1>15. /\ CallIs(b, at, c.center, c.addr + 1, c.bounds, c.left, c.last, c.nearSeg, 0)
       /\ b.q = c.q /\ b.data = index
    BY <1>4, <1>13, <1>14, Zenon DEF CallGoes
<1>16. b \in CallType /\ b.at = at /\ b.center = c.center /\ b.i = 0
    BY <1>15, Zenon DEF CallIs
<1>17. CallGoing(nodes, index, series, b, R)
    <2>1. CASE At(index, c.addr) = 1
        <3>1. at = "quads" /\ b.at \in Readers /\ b.i \in 0 .. 3
            BY <1>11, <1>16, <2>1 DEF Readers
        <3>2. Walking(nodes, index, series, b, R, G, E, m, e)
            BY <1>10, <1>15, <2>1, <3>1, Zenon
        <3>3. QED
            BY <1>4, <1>15, <1>16, <3>1, <3>2, ReaderGoes, Zenon
    <2>2. CASE At(index, c.addr) # 1
        <3>1. at = "pop" /\ b.at = "pop"
            BY <1>11, <1>16, <2>2
        <3>2. BetweenNodes(nodes, index, series, b.center, R, G, E)
            BY <1>10, <1>16, <2>2, Zenon
        <3>3. QED
            BY <1>4, <1>15, <1>16, <3>1, <3>2, PopGoes, Zenon
    <2>3. QED
        BY <2>1, <2>2, Zenon
<1>18. Held(b, queue') = R
    BY <1>4, <1>9, <1>15, Zenon DEF Held
<1>19. QED
    BY <1>14, <1>17, <1>18, Zenon

(* The call is past a quad.                                                *)
AfterQuad(c, a) == [c EXCEPT !.i = @ + 1, !.at = IF c.i = 3 THEN "pop" ELSE @, !.addr = a]

(* It goes on to the next quad, or to pop.                                 *)
LEMMA PastGoes ==
    ASSUME NEW tree, NEW d, d # <<>>, NEW s, Setting(tree, d, s), NEW c \in CallType,
           c.at = "quads", c.i \in 0 .. 3, c.data = d, NEW a \in Int,
           NEW Q, NEW G, NEW E, NEW m, NEW e, Past(tree, d, s, c, Q, G, E, m, e, a),
           NEW b, b = AfterQuad(c, a)
    PROVE  CallGoing(tree, d, s, b, Q) /\ b.q = c.q
<1>1. /\ \A h : CallIs(h, "quads", c.center, a, c.bounds, c.left, c.last, c.nearSeg, c.i + 1)
             => Walking(tree, d, s, h, Q, G, E, m, e)
      /\ c.i = 3 => BetweenNodes(tree, d, s, c.center, Q, G, E)
    BY PastWalks, SMT
<1>2. PICK at : at = IF c.i = 3 THEN "pop" ELSE c.at
    OBVIOUS
<1>3. b = [c EXCEPT !.i = @ + 1, !.at = at, !.addr = a]
    BY <1>2, Zenon DEF AfterQuad
<1>4. at \in Places
    BY <1>2 DEF Places, InTree
<1>5. CallGoes([c EXCEPT !.i = @ + 1, !.at = at, !.addr = a],
               at, c, a, c.left, c.last, c.nearSeg, c.i + 1)
    BY <1>4, QuadCall
<1>6. /\ CallIs(b, at, c.center, a, c.bounds, c.left, c.last, c.nearSeg, c.i + 1)
      /\ b.q = c.q /\ b.data = d
    BY <1>3, <1>5, Zenon DEF CallGoes
<1>7. b \in CallType /\ b.at = at /\ b.center = c.center /\ b.i = c.i + 1
    BY <1>6, Zenon DEF CallIs
<1>8. CASE c.i = 3
    <2>1. b.at = "pop"
        BY <1>2, <1>7, <1>8, Zenon
    <2>2. BetweenNodes(tree, d, s, b.center, Q, G, E)
        BY <1>1, <1>7, <1>8, Zenon
    <2>3. CallGoing(tree, d, s, b, Q)
        BY <1>6, <1>7, <2>1, <2>2, PopGoes, Zenon
    <2>4. QED
        BY <1>6, <2>3, Zenon
<1>9. CASE c.i # 3
    <2>1. at = "quads" /\ b.at \in Readers
        BY <1>2, <1>7, <1>9 DEF Readers
    <2>2. b.i \in 0 .. 3
        BY <1>7, <1>9
    <2>3. Walking(tree, d, s, b, Q, G, E, m, e)
        BY <1>1, <1>6, <2>1, Zenon
    <2>4. CallGoing(tree, d, s, b, Q)
        BY <1>6, <1>7, <2>1, <2>2, <2>3, ReaderGoes, Zenon
    <2>5. QED
        BY <1>6, <2>4, Zenon
<1>10. QED
    BY <1>8, <1>9, Zenon

(* The step that reads a quad.                                             *)
LEMMA QuadStep ==
    ASSUME NearInv, Fits, NEW p \in Procs, PassEmptyQuad(p) \/ PushQuad(p)
    PROVE  CallGoing(nodes, index, series, calls'[p], Held(calls'[p], queue'))
<1>1. PICK c : c = calls[p]
    OBVIOUS
<1>2. c.at = "quads"
    BY <1>1 DEF PassEmptyQuad, PushQuad
<1>3. c.at \in Readers \cup {"pop"} /\ c.at \in Readers
    BY <1>2 DEF Readers
<1>4. /\ Setting(nodes, index, series) /\ series \in SeriesType
      /\ c \in CallType /\ c.data = index /\ index # <<>>
      /\ c.q \in Queues /\ c.q # NoQueue /\ p \in DOMAIN calls /\ DOMAIN queue = Queues
      /\ CallGoing(nodes, index, series, c, queue[c.q])
      /\ \A o \in Procs : o # p => calls[o].q # c.q
    BY <1>1, <1>3, CallNow, Zenon
<1>5. Setting(nodes, index, series) /\ c \in CallType
    BY <1>4
<1>6. PICK Q : Q = queue[c.q]
    OBVIOUS
<1>7. PICK G, E, m, e : Walking(nodes, index, series, c, Q, G, E, m, e)
    BY <1>3, <1>4, <1>6, Zenon DEF CallGoing
<1>8. c.i \in 0 .. 3
    BY <1>2, <1>4, Zenon DEF CallGoing
<1>9. PICK r : r = ReadUvarint(index, c.addr)
    OBVIOUS
<1>10. PICK n : n = RectNode(c.center, QuadBounds(c.bounds, c.i), r.addr)
    OBVIOUS
<1>11. /\ r.value \in Nat /\ r.addr \in Nat
       /\ r.value = 0 => Past(nodes, index, series, c, Q, G, E, m, e, r.addr)
       /\ r.value # 0 => \E F, D :
             Past(nodes, index, series, c, Q \cup {n}, F, D, m, e, r.addr + r.value)
    BY <1>2, <1>5, <1>7, <1>8, <1>9, <1>10, QuadWalks, Zenon
<1>12. PICK a \in Int : a = r.addr + r.value
    BY <1>11
<1>13. PICK b : /\ b = calls'[p]
                /\ b = AfterQuad(c, a)
    <2>1. calls' = [calls EXCEPT ![p] = PastQuad(c)]
        BY <1>1, Zenon DEF PassEmptyQuad, PushQuad
    <2>2. PastQuad(c) = AfterQuad(c, a)
        BY <1>4, <1>9, <1>12, Zenon DEF PastQuad, ReadAt, AfterQuad
    <2>3. QED
        BY <1>4, <2>1, <2>2
<1>c. Setting(nodes, index, series) /\ c \in CallType /\ c.data = index /\ index # <<>>
    BY <1>4
<1>14. CASE PassEmptyQuad(p)
    <2>1. r.value = 0 /\ queue' = queue
        BY <1>1, <1>4, <1>9, <1>14, Zenon DEF PassEmptyQuad, ReadAt
    <2>2. a = r.addr
        BY <1>11, <1>12, <2>1
    <2>3. Past(nodes, index, series, c, Q, G, E, m, e, a)
        BY <1>11, <2>1, <2>2, Zenon
    <2>4. CallGoing(nodes, index, series, b, Q) /\ b.q = c.q
        BY <1>2, <1>c, <1>8, <1>13, <2>3, PastGoes, SMT
    <2>5. Held(b, queue') = Q
        BY <1>4, <1>6, <2>1, <2>4, Zenon DEF Held
    <2>6. QED
        BY <1>13, <2>4, <2>5, Zenon
<1>15. CASE PushQuad(p)
    <2>1. /\ r.value # 0
          /\ queue' = [queue EXCEPT ![c.q] = queue[c.q] \cup {n}]
        BY <1>1, <1>4, <1>9, <1>10, <1>15, Zenon DEF PushQuad, ReadAt, RectNode
    <2>2. PICK F, D : Past(nodes, index, series, c, Q \cup {n}, F, D, m, e, a)
        BY <1>11, <1>12, <2>1, Zenon
    <2>3. PICK R : R = Q \cup {n}
        OBVIOUS
    <2>4. CallGoing(nodes, index, series, b, R) /\ b.q = c.q
        <3>1. Past(nodes, index, series, c, R, F, D, m, e, a)
            BY <2>2, <2>3, Zenon
        <3>2. QED
            BY <1>2, <1>c, <1>8, <1>13, <3>1, PastGoes, SMT
    <2>5. queue'[c.q] = R
        BY <1>4, <1>6, <2>1, <2>3
    <2>6. Held(b, queue') = R
        BY <1>4, <2>4, <2>5, Zenon DEF Held
    <2>7. QED
        BY <1>13, <2>4, <2>6, Zenon
<1>16. QED
    BY <1>14, <1>15

(* A call that has returned, or given up.                                  *)
LEMMA DoneGoes ==
    ASSUME NEW tree, NEW d, NEW s, NEW b \in CallType, NEW Q,
           \/ b.at \in {"put", "returned"} /\ Nearest(s, b.center, b.res)
           \/ b.at \in {"unwind", "panicked"}
    PROVE  CallGoing(tree, d, s, b, Q)
<1>1. b.at # "scan" /\ b.at \notin Readers \cup {"get", "pop"} /\ b.at \notin Readers
    BY DEF Readers
<1>2. b.at # "quads" /\ b.at # "pop"
    BY DEF Readers
<1>3. b.at \in {"unwind", "panicked"} => b.at \notin {"put", "returned"}
    OBVIOUS
<1>4. QED
    BY <1>1, <1>2, <1>3, Zenon DEF CallGoing

(* The call of p, and that it is one.                                      *)
LEMMA CallTyped ==
    ASSUME NearInv, Fits, NEW p \in Procs
    PROVE  /\ calls[p] \in CallType /\ DOMAIN calls = Procs /\ series \in SeriesType
           /\ CallGoing(nodes, index, series, calls[p], Held(calls[p], queue))
<1>1. CallGoing(nodes, index, series, calls[p], Held(calls[p], queue))
    BY Zenon DEF NearInv, AllGoing
<1>2. calls[p] \in CallType
    BY <1>1, Zenon DEF CallGoing
<1>3. DOMAIN calls = Procs
    BY Zenon DEF NearInv, Owning
<1>4. series \in SeriesType
    BY Zenon DEF NearInv, MakeInv, IInv, TypeOK, SeriesType
<1>5. QED
    BY <1>1, <1>2, <1>3, <1>4, Zenon

(* A call that only goes elsewhere.                                        *)
LEMMA AtFields ==
    ASSUME NEW c \in CallType, NEW at \in Places, NEW b, b = [c EXCEPT !.at = at]
    PROVE  /\ b \in CallType /\ b.at = at /\ b.center = c.center /\ b.res = c.res /\ b.i = c.i
           /\ b.q = c.q /\ b.data = c.data
    BY DEF CallType

(* What a call returns.                                                    *)
LEMMA ResultIs ==
    ASSUME NEW v \in Int, NEW k \in Int, NEW d \in Int
    PROVE  /\ Result(v, k, d) \in ResultType
           /\ Result(v, k, d).seg = v /\ Result(v, k, d).dist = d
    BY DEF Result, ResultType

(* The distance function panics: nothing is returned.                      *)
LEMMA PanicStep ==
    ASSUME NearInv, Fits, NEW p \in Procs, Panic(p) \/ ScanPanic(p)
    PROVE  CallGoing(nodes, index, series, calls'[p], Held(calls'[p], queue'))
<1>1. calls[p] \in CallType /\ DOMAIN calls = Procs
    BY CallTyped, Zenon
<1>2. PICK at \in {"unwind", "panicked"} : calls'[p] = [calls[p] EXCEPT !.at = at]
    BY <1>1 DEF Panic, ScanPanic
<1>3. at \in Places
    BY DEF Places, InTree
<1>4. calls'[p] \in CallType /\ calls'[p].at = at
    BY <1>1, <1>2, <1>3, AtFields
<1>5. QED
    BY <1>4, DoneGoes

(* The queue is put back, and the answer stays.                            *)
LEMMA PutStep ==
    ASSUME NearInv, Fits, NEW p \in Procs, PutQueue(p)
    PROVE  CallGoing(nodes, index, series, calls'[p], Held(calls'[p], queue'))
<1>1. PICK c : c = calls[p]
    OBVIOUS
<1>2. /\ c \in CallType /\ DOMAIN calls = Procs
      /\ CallGoing(nodes, index, series, c, Held(c, queue))
    BY <1>1, CallTyped, Zenon
<1>3. PICK b : b = calls'[p]
    OBVIOUS
<1>4. PICK at \in {"returned", "panicked"} :
         /\ b = [c EXCEPT !.at = at, !.q = NoQueue]
         /\ at = "returned" => c.at = "put"
    BY <1>1, <1>2, <1>3 DEF PutQueue
<1>5. at \in Places /\ NoQueue \in Queues \cup {NoQueue}
    BY DEF Places, InTree
<1>6. b \in CallType /\ b.at = at /\ b.center = c.center /\ b.res = c.res
    BY <1>2, <1>4, <1>5 DEF CallType
<1>7. at = "returned" => Nearest(series, b.center, b.res)
    BY <1>2, <1>4, <1>6 DEF CallGoing
<1>8. CallGoing(nodes, index, series, b, Held(b, queue'))
    BY <1>6, <1>7, DoneGoes
<1>9. QED
    BY <1>3, <1>8, Zenon

(* A step of a scan.                                                       *)
LEMMA ScanStepGoing ==
    ASSUME NearInv, Fits, NEW p \in Procs, ScanStep(p)
    PROVE  CallGoing(nodes, index, series, calls'[p], Held(calls'[p], queue'))
<1>1. PICK c : c = calls[p]
    OBVIOUS
<1>2. /\ c \in CallType /\ DOMAIN calls = Procs /\ series \in SeriesType
      /\ CallGoing(nodes, index, series, c, Held(c, queue))
    BY <1>1, CallTyped, Zenon
<1>3. PICK b : b = calls'[p]
    OBVIOUS
<1>4. PICK dist : dist = DistIn(series, c.center, c.i)
    OBVIOUS
<1>5. c.at = "scan" /\ c.i < NumSegments(series) /\ ScanNear(series, c)
    BY <1>1, <1>2 DEF ScanStep, CallGoing
<1>6. PICK res : res = IF c.i = 0 \/ dist < c.res.dist THEN Result(c.i, 0, dist) ELSE c.res
    OBVIOUS
<1>7. b = [c EXCEPT !.i = @ + 1, !.res = res]
    <2>1. DistToSegment(c.center, c.i) = dist
        BY <1>4, Zenon DEF DistToSegment, DistIn
    <2>2. QED
        BY <1>1, <1>2, <1>3, <1>6, <2>1 DEF ScanStep
<1>8. b.i = c.i + 1 /\ b.center = c.center /\ b.res = res /\ b.at = "scan"
    BY <1>2, <1>5, <1>7 DEF CallType
<1>9. ScanNear(series, b) /\ dist \in Nat
    BY <1>2, <1>4, <1>5, <1>6, <1>8, ScanOn, SMT
<1>10. res \in ResultType
    BY <1>2, <1>6, <1>9, CallFields DEF Result, ResultType
<1>11. b \in CallType
    <2>1. PICK z \in Int : z = c.i + 1
        BY <1>2, CallFields
    <2>2. b = [c EXCEPT !.i = z, !.res = res]
        BY <1>7, <2>1, Zenon
    <2>3. QED
        BY <1>2, <1>10, <2>2 DEF CallType
<1>12. b.at \notin Readers \cup {"get", "pop"} /\ b.at \notin Readers /\ b.at # "quads"
       /\ b.at # "pop" /\ b.at \notin {"put", "returned"}
    BY <1>8 DEF Readers
<1>13. CallGoing(nodes, index, series, b, Held(b, queue'))
    BY <1>9, <1>11, <1>12, Zenon DEF CallGoing
<1>14. QED
    BY <1>3, <1>13, Zenon

(* The end of a scan.                                                      *)
LEMMA ScanReturnGoing ==
    ASSUME NearInv, Fits, NEW p \in Procs, ScanReturn(p)
    PROVE  CallGoing(nodes, index, series, calls'[p], Held(calls'[p], queue'))
<1>1. PICK c : c = calls[p]
    OBVIOUS
<1>2. /\ c \in CallType /\ DOMAIN calls = Procs /\ series \in SeriesType
      /\ CallGoing(nodes, index, series, c, Held(c, queue))
    BY <1>1, CallTyped, Zenon
<1>3. c.at = "scan" /\ c.i = NumSegments(series) /\ ScanNear(series, c)
    BY <1>1, <1>2 DEF ScanReturn, CallGoing
<1>4. Nearest(series, c.center, c.res)
    BY <1>2, <1>3, ScanNearest
<1>5. PICK b : b = calls'[p]
    OBVIOUS
<1>6. b = [c EXCEPT !.at = "returned"] /\ "returned" \in Places
    BY <1>1, <1>2, <1>5 DEF ScanReturn, Places
<1>7. b \in CallType /\ b.at = "returned" /\ b.center = c.center /\ b.res = c.res
    BY <1>2, <1>6, AtFields
<1>8. CallGoing(nodes, index, series, b, Held(b, queue'))
    BY <1>4, <1>7, DoneGoes
<1>9. QED
    BY <1>5, <1>8, Zenon

(* The start of a call, with an index or without.                          *)
LEMMA BeginGoing ==
    ASSUME NearInv, Fits, NEW p \in Procs, NEW center \in Centers, Begin(p, center)
    PROVE  CallGoing(nodes, index, series, calls'[p], Held(calls'[p], queue'))
<1>1. calls[p] \in CallType /\ DOMAIN calls = Procs /\ series \in SeriesType
    BY CallTyped, Zenon
<1>2. center \in Point
    BY NearbyAssumption
<1>3. NotCalling \in CallType
    BY IdleCall, Zenon DEF CallGoing
<1>4. PICK b : b = calls'[p]
    OBVIOUS
<1>5. CASE index = <<>>
    <2>1. b = [NotCalling EXCEPT !.center = center, !.at = "scan"] /\ "scan" \in Places
        BY <1>1, <1>4, <1>5 DEF Begin, Places
    <2>2. /\ b \in CallType /\ b.at = "scan" /\ b.i = NotCalling.i
          /\ b.res = NotCalling.res
        BY <1>2, <1>3, <2>1 DEF CallType
    <2>3. b.i = 0 /\ b.res.seg = -1 /\ b.res.dist = NaN
        BY <2>2 DEF NotCalling, Result
    <2>4. ScanNear(series, b)
        BY <1>1, <2>3, NumbersNat DEF ScanNear
    <2>5. b.at \notin Readers \cup {"get", "pop"} /\ b.at \notin Readers /\ b.at # "quads"
          /\ b.at # "pop" /\ b.at \notin {"put", "returned"}
        BY <2>2 DEF Readers
    <2>6. CallGoing(nodes, index, series, b, Held(b, queue'))
        BY <2>2, <2>4, <2>5, Zenon DEF CallGoing
    <2>7. QED
        BY <1>4, <2>6, Zenon
<1>6. CASE index # <<>>
    <2>1. Readable(index) = index /\ Readably(nodes, index)
        BY <1>6, IndexReads DEF NearInv
    <2>2. index \in Seq(Nat)
        BY <2>1 DEF Readably
    <2>3. /\ b = [NotCalling EXCEPT !.center = center, !.at = "get", !.data = index]
          /\ "get" \in Places
        BY <1>1, <1>4, <1>6, <2>1 DEF Begin, Places
    <2>4. /\ b \in CallType /\ b.at = "get" /\ b.data = index
        BY <1>2, <1>3, <2>2, <2>3 DEF CallType
    <2>5. b.at # "scan" /\ b.at \notin Readers /\ b.at # "quads"
          /\ b.at # "pop" /\ b.at \notin {"put", "returned"}
        BY <2>4 DEF Readers
    <2>6. CallGoing(nodes, index, series, b, Held(b, queue'))
        BY <1>6, <2>4, <2>5, Zenon DEF CallGoing
    <2>7. QED
        BY <1>4, <2>6, Zenon
<1>7. QED
    BY <1>5, <1>6

(* A queue from the pool is nobody's, and is emptied before the root goes  *)
(* in.                                                                     *)
LEMMA GetStep ==
    ASSUME NearInv, Fits, NEW p \in Procs, NEW q \in Queues, GetQueue(p, q)
    PROVE  /\ CallGoing(nodes, index, series, calls'[p], Held(calls'[p], queue'))
           /\ \A o \in Procs : calls[o].q # q
<1>1. PICK c : c = calls[p]
    OBVIOUS
<1>2. /\ c \in CallType /\ DOMAIN calls = Procs /\ series \in SeriesType
      /\ CallGoing(nodes, index, series, c, Held(c, queue))
    BY <1>1, CallTyped, Zenon
<1>3. \A o \in Procs : calls[o].q # q
    <2>1. CASE q \in Fresh
        BY <2>1 DEF Fresh
    <2>2. CASE q \in pool
        BY <2>2, QueuesAssumption DEF NearInv, Owning, QueueOwned
    <2>3. QED
        BY <2>1, <2>2 DEF GetQueue
<1>4. c.at = "get" /\ c.data = index /\ index # <<>>
    BY <1>1, <1>2 DEF GetQueue, CallGoing
<1>5. /\ IsTreeOf(nodes, series) /\ Readably(nodes, index)
      /\ Lies(index, HeaderLen, Code(nodes, 1), Len(index))
    BY <1>4, IndexReads DEF NearInv
<1>6. Setting(nodes, index, series) /\ series.rect \in Rect
    <2>1. 1 \in 1 .. Len(nodes)
        BY <1>5, UnderRoot
    <2>2. QED
        BY <1>5, <2>1 DEF Setting, IsTreeOf, IsBounded
<1>7. PICK b : b = calls'[p]
    OBVIOUS
<1>8. b = [c EXCEPT !.at = "node", !.q = q, !.addr = HeaderLen, !.bounds = series.rect]
    BY <1>1, <1>2, <1>7 DEF GetQueue
<1>9. "node" \in Places /\ q \in Queues \cup {NoQueue} /\ HeaderLen \in Int
    BY DEF Places, InTree, HeaderLen
<1>10. /\ b \in CallType /\ b.at = "node" /\ b.q = q /\ b.addr = HeaderLen
       /\ b.bounds = series.rect /\ b.data = index
    BY <1>2, <1>4, <1>6, <1>8, <1>9 DEF CallType
<1>11. PICK G, E, m, e : Walking(nodes, index, series, b, {}, G, E, m, e)
    BY <1>5, <1>6, <1>10, StartWalks, Zenon
<1>12. b.at \in Readers /\ b.at # "quads"
    BY <1>10 DEF Readers
<1>13. CallGoing(nodes, index, series, b, {})
    BY <1>4, <1>10, <1>11, <1>12, ReaderGoes, Zenon
<1>14. DOMAIN queue = Queues /\ queue' = [queue EXCEPT ![q] = {}]
    BY DEF GetQueue, NearInv
<1>15. Held(b, queue') = {}
    BY <1>10, <1>14, QueuesAssumption DEF Held
<1>16. QED
    BY <1>3, <1>7, <1>13, <1>15, Zenon

(* The entry that pop takes out: a node to be read, the nearest segment,   *)
(* or none.                                                                *)
LEMMA PopStep ==
    ASSUME NearInv, Fits, NEW p \in Procs, PopRect(p) \/ PopSegment(p) \/ PopNothing(p)
    PROVE  CallGoing(nodes, index, series, calls'[p], Held(calls'[p], queue'))
<1>1. PICK c : c = calls[p]
    OBVIOUS
<1>2. c.at = "pop"
    BY <1>1 DEF PopRect, PopSegment, PopNothing
<1>3. c.at \in Readers \cup {"pop"}
    BY <1>2
<1>4. /\ Setting(nodes, index, series) /\ series \in SeriesType
      /\ c \in CallType /\ c.data = index /\ index # <<>>
      /\ c.q \in Queues /\ c.q # NoQueue /\ p \in DOMAIN calls /\ DOMAIN queue = Queues
      /\ CallGoing(nodes, index, series, c, queue[c.q])
      /\ \A o \in Procs : o # p => calls[o].q # c.q
    BY <1>1, <1>3, CallNow, Zenon
<1>5. PICK Q : Q = queue[c.q]
    OBVIOUS
<1>6. PICK G, E : BetweenNodes(nodes, index, series, c.center, Q, G, E)
    BY <1>2, <1>4, <1>5, Zenon DEF CallGoing
<1>7. Q \in SUBSET Entry /\ c.center \in Point
    <2>1. Entries(nodes, index, series, c.center, Q, G, E)
        BY <1>6, Zenon DEF BetweenNodes, WalkOk
    <2>2. QED
        BY <1>4, <2>1, CallFields DEF Entries
<1>8. PICK b : b = calls'[p]
    OBVIOUS
<1>9. PICK n : n = Least(c.q)
    OBVIOUS
<1>10. Q # {} => n \in Q /\ n \in Entry /\ \A m \in Q : Precedes(n, m)
    <2>1. queue[c.q] \in SUBSET Entry
        BY <1>5, <1>7, Zenon
    <2>2. queue[c.q] # {} => /\ Least(c.q) \in queue[c.q] /\ Least(c.q) \in Entry
                             /\ \A m \in queue[c.q] : Precedes(Least(c.q), m)
        BY <2>1, LeastIs, Zenon
    <2>3. QED
        BY <1>5, <1>9, <2>2, Zenon
<1>11. CASE PopRect(p)
    <2>1. /\ Q # {} /\ n.kind = qrect /\ queue' = [queue EXCEPT ![c.q] = queue[c.q] \ {n}]
          /\ calls' = [calls EXCEPT ![p].at = "node", ![p].addr = n.pos, ![p].bounds = n.bounds]
        BY <1>1, <1>5, <1>9, <1>11, Zenon DEF PopRect
    <2>2. b = [c EXCEPT !.at = "node", !.addr = n.pos, !.bounds = n.bounds]
        BY <1>1, <1>4, <1>8, <2>1
    <2>3. n \in Q /\ n.pos \in Int /\ n.bounds \in Rect /\ "node" \in Places
        BY <1>10, <2>1, EntryFields DEF Places, InTree
    <2>4. /\ b \in CallType /\ b.at = "node" /\ b.center = c.center /\ b.addr = n.pos
          /\ b.bounds = n.bounds /\ b.q = c.q /\ b.data = c.data
        BY <1>4, <2>2, <2>3 DEF CallType
    <2>5. PICK R : R = Q \ {n}
        OBVIOUS
    <2>6. PICK m, e : Walking(nodes, index, series, b, R, G, E, m, e)
        <3>1. \E m, e : Walking(nodes, index, series, b, Q \ {n}, G, E, m, e)
            BY <1>4, <1>6, <2>1, <2>3, <2>4, PopWalks
        <3>2. QED
            BY <2>5, <3>1, Zenon
    <2>7. b.at \in Readers /\ b.at # "quads" /\ b.data = index
        BY <1>4, <2>4 DEF Readers
    <2>8. CallGoing(nodes, index, series, b, R)
        BY <1>4, <2>4, <2>6, <2>7, ReaderGoes, Zenon
    <2>9. queue'[c.q] = R
        BY <1>4, <1>5, <2>1, <2>5
    <2>10. Held(b, queue') = R
        BY <1>4, <2>4, <2>9, Zenon DEF Held
    <2>11. QED
        BY <1>8, <2>8, <2>10, Zenon
<1>12. CASE PopSegment(p)
    <2>1. /\ Q # {} /\ n.kind = qseg
          /\ calls' = [calls EXCEPT ![p].at = "put", ![p].res = Result(n.pos, n.pos, n.dist)]
        BY <1>1, <1>5, <1>9, <1>12, Zenon DEF PopSegment
    <2>2. n \in Q /\ n.pos \in Int /\ n.dist \in Int /\ "put" \in Places
        BY <1>10, <2>1, EntryFields DEF Places, InTree
    <2>3. PICK res \in ResultType : /\ res = Result(n.pos, n.pos, n.dist)
                                    /\ res.seg = n.pos /\ res.dist = n.dist
        BY <2>2, ResultIs
    <2>4. b = [c EXCEPT !.at = "put", !.res = res]
        BY <1>1, <1>4, <1>8, <2>1, <2>3
    <2>5. b \in CallType /\ b.at = "put" /\ b.center = c.center /\ b.res = res
        BY <1>4, <2>2, <2>4 DEF CallType
    <2>6. Nearest(series, c.center, res)
        <3>1. \A m \in Q : Precedes(n, m)
            BY <1>10, <2>1, Zenon
        <3>2. Setting(nodes, index, series)
            BY <1>4
        <3>3. res.seg = n.pos /\ res.dist = n.dist
            BY <2>3
        <3>4. QED
            BY <1>6, <1>7, <2>1, <2>2, <3>1, <3>2, <3>3, FirstNearest, SMT
    <2>7. CallGoing(nodes, index, series, b, Held(b, queue'))
        BY <2>5, <2>6, DoneGoes
    <2>8. QED
        BY <1>8, <2>7, Zenon
<1>13. CASE PopNothing(p)
    <2>1. /\ Q = {} /\ calls' = [calls EXCEPT ![p].at = "put", ![p].res = Result(-1, -1, NaN)]
        BY <1>1, <1>5, <1>13, Zenon DEF PopNothing
    <2>2. PICK res \in ResultType : /\ res = Result(-1, -1, NaN)
                                    /\ res.seg = -1 /\ res.dist = NaN
        <3>1. PICK k \in Int : k = -1
            OBVIOUS
        <3>2. NaN \in Int
            BY DEF NaN
        <3>3. /\ Result(k, k, NaN) \in ResultType
              /\ Result(k, k, NaN).seg = k /\ Result(k, k, NaN).dist = NaN
            BY <3>2, ResultIs
        <3>4. QED
            BY <3>1, <3>3
    <2>3. b = [c EXCEPT !.at = "put", !.res = res] /\ "put" \in Places
        BY <1>1, <1>4, <1>8, <2>1, <2>2 DEF Places, InTree
    <2>4. b \in CallType /\ b.at = "put" /\ b.center = c.center /\ b.res = res
        BY <1>4, <2>3 DEF CallType
    <2>5. BetweenNodes(nodes, index, series, c.center, {}, G, E)
        BY <1>6, <2>1, Zenon
    <2>6. Nearest(series, c.center, res)
        BY <2>2, <2>5, NothingNearest
    <2>7. CallGoing(nodes, index, series, b, Held(b, queue'))
        BY <2>4, <2>6, DoneGoes
    <2>8. QED
        BY <1>8, <2>7, Zenon
<1>14. QED
    BY <1>11, <1>12, <1>13

-----------------------------------------------------------------------------
(* The invariant of the calls, and what it gives.                          *)

(* The invariant holds before the first call,                              *)
LEMMA InitNearInv == NearbyInit => NearInv
<1> SUFFICES ASSUME NearbyInit PROVE NearInv
    OBVIOUS
<1>1. MakeInv /\ Owning
    BY InitMakeInv, InitOwning DEF NearbyInit
<1>2. DOMAIN queue = Queues /\ \A p \in Procs : calls[p] = NotCalling
    BY DEF NearbyInit
<1>3. AllGoing
    BY <1>2, IdleCall, Zenon DEF AllGoing
<1>4. QED
    BY <1>1, <1>2, <1>3 DEF NearInv

(* The goroutines other than p, in a step of p.                            *)
LEMMA StepOthers ==
    ASSUME NearInv, Fits, NEW p \in Procs, Step(p)
    PROVE  /\ UNCHANGED makeVars /\ DOMAIN queue' = Queues
           /\ \A o \in Procs : o # p =>
                 calls'[o] = calls[o] /\ Held(calls[o], queue') = Held(calls[o], queue)
           /\ CallGoing(nodes, index, series, calls'[p], Held(calls'[p], queue'))
<1>1. UNCHANGED makeVars
    BY DEF Step, ScanStep, ScanReturn, ScanPanic, GetQueue, ReadItemCount, ReadItem, EndItems,
           PassEmptyQuad, PushQuad, Panic, PopRect, PopSegment, PopNothing, PutQueue
<1>2. DOMAIN calls = Procs /\ DOMAIN queue = Queues
    BY DEF NearInv, Owning
<1>3. ASSUME NEW o \in Procs, o # p PROVE calls'[o] = calls[o]
    BY <1>2, <1>3 DEF Step, ScanStep, ScanReturn, ScanPanic, GetQueue, ReadItemCount, ReadItem,
           EndItems, PassEmptyQuad, PushQuad, Panic, PopRect, PopSegment, PopNothing, PutQueue
<1>4. CallGoing(nodes, index, series, calls'[p], Held(calls'[p], queue'))
    BY CountStep, ItemStep, FlagStep, QuadStep, PopStep, PutStep, PanicStep, ScanStepGoing,
       ScanReturnGoing, GetStep, Zenon DEF Step
<1>5. CASE queue' = queue
    BY <1>1, <1>2, <1>3, <1>4, <1>5, Zenon
<1>6. CASE \E q \in Queues : GetQueue(p, q)
    <2>1. PICK q \in Queues : GetQueue(p, q)
        BY <1>6
    <2>2. queue' = [queue EXCEPT ![q] = {}] /\ \A o \in Procs : o # p => calls[o].q # q
        BY <2>1, GetStep DEF GetQueue
    <2>3. /\ DOMAIN queue' = Queues
          /\ \A o \in Procs : o # p => Held(calls[o], queue') = Held(calls[o], queue)
        BY <2>2, QueueChanges
    <2>4. QED
        BY <1>1, <1>3, <1>4, <2>3, Zenon
<1>7. CASE \/ EndItems(p) \/ PushQuad(p) \/ PopRect(p) \/ PopSegment(p)
    <2>1. PICK c : c = calls[p]
        OBVIOUS
    <2>2. c.at \in Readers \cup {"pop"}
        BY <1>7, <2>1 DEF EndItems, PushQuad, PopRect, PopSegment, Readers
    <2>3. /\ Setting(nodes, index, series) /\ series \in SeriesType
          /\ c \in CallType /\ c.data = index /\ index # <<>>
          /\ c.q \in Queues /\ c.q # NoQueue /\ p \in DOMAIN calls /\ DOMAIN queue = Queues
          /\ CallGoing(nodes, index, series, c, queue[c.q])
          /\ \A o \in Procs : o # p => calls[o].q # c.q
        BY <2>1, <2>2, CallNow, Zenon
    <2>4. c.q \in Queues /\ \A o \in Procs : o # p => calls[o].q # c.q
        BY <2>3
    <2>5. queue' = queue \/ \E R : queue' = [queue EXCEPT ![c.q] = R]
        BY <1>7, <2>1 DEF EndItems, PushQuad, PopRect, PopSegment
    <2>6. CASE \E R : queue' = [queue EXCEPT ![c.q] = R]
        <3>1. PICK R : queue' = [queue EXCEPT ![c.q] = R]
            BY <2>6
        <3>2. /\ DOMAIN queue' = Queues
              /\ \A o \in Procs : o # p => Held(calls[o], queue') = Held(calls[o], queue)
            BY <2>4, <3>1, QueueChanges
        <3>3. QED
            BY <1>1, <1>3, <1>4, <3>2, Zenon
    <2>7. QED
        BY <1>5, <2>5, <2>6, Zenon
<1>8. QED
    <2>1. \/ queue' = queue
          \/ \E q \in Queues : GetQueue(p, q)
          \/ EndItems(p) \/ PushQuad(p) \/ PopRect(p) \/ PopSegment(p)
        BY DEF Step, ScanStep, ScanReturn, ScanPanic, ReadItemCount, ReadItem,
               PassEmptyQuad, Panic, PopNothing, PutQueue
    <2>2. QED
        BY <1>5, <1>6, <1>7, <2>1, Zenon

(* the queues stay the same ones,                                          *)
LEMMA QueuesKept ==
    ASSUME NearInv, [NearbyNext]_nearbyAllVars
    PROVE  DOMAIN queue' = Queues
<1>1. DOMAIN queue = Queues
    BY DEF NearInv
<1>2. CASE Make \/ UNCHANGED nearbyAllVars
    BY <1>1, <1>2 DEF Make, nearbyAllVars, nearbyVars
<1>3. CASE \E p \in Procs : \E center \in Centers : Begin(p, center)
    BY <1>1, <1>3 DEF Begin
<1>4. CASE \E p \in Procs : Step(p)
    <2>1. PICK p \in Procs : Step(p)
        BY <1>4
    <2>2. CASE \E q \in Queues : GetQueue(p, q)
        BY <1>1, <2>2 DEF GetQueue
    <2>3. CASE EndItems(p)
        BY <1>1, <2>3 DEF EndItems
    <2>4. CASE PushQuad(p)
        BY <1>1, <2>4 DEF PushQuad
    <2>5. CASE PopRect(p) \/ PopSegment(p)
        BY <1>1, <2>5 DEF PopRect, PopSegment
    <2>6. CASE \/ ScanStep(p) \/ ScanReturn(p) \/ ScanPanic(p) \/ ReadItemCount(p)
               \/ ReadItem(p) \/ PassEmptyQuad(p) \/ Panic(p) \/ PopNothing(p) \/ PutQueue(p)
        <3>1. queue' = queue
            BY <2>6 DEF ScanStep, ScanReturn, ScanPanic, ReadItemCount, ReadItem, PassEmptyQuad,
                        Panic, PopNothing, PutQueue
        <3>2. QED
            BY <1>1, <3>1
    <2>7. QED
        BY <2>1, <2>2, <2>3, <2>4, <2>5, <2>6, Zenon DEF Step
<1>5. QED
    BY <1>2, <1>3, <1>4 DEF NearbyNext

(* every step keeps the invariant,                                         *)
LEMMA StepNearInv == NearInv /\ [NearbyNext]_nearbyAllVars => NearInv'
<1> SUFFICES ASSUME NearInv, [NearbyNext]_nearbyAllVars PROVE NearInv'
    OBVIOUS
<1>1. Owning' /\ DOMAIN queue' = Queues
    BY StepOwning, QueuesKept DEF NearInv
<1>2. CASE Make
    <2>1. MakeStep /\ UNCHANGED nearbyVars /\ ~ made
        BY <1>2 DEF Make, MakeStep, BuildStep, FinishIndexed, FinishUnindexed
    <2>2. MakeInv'
        BY <2>1, MakeStepInv DEF NearInv
    <2>3. \A p \in Procs : calls[p] = NotCalling
        BY <2>1 DEF NearInv
    <2>4. calls' = calls /\ queue' = queue
        BY <2>1 DEF nearbyVars
    <2>5. AllGoing'
        <3>1. ASSUME NEW p \in Procs
              PROVE  CallGoing(nodes', index', series', calls[p], Held(calls[p], queue))
            BY <2>3, IdleCall, Zenon
        <3>2. QED
            BY <2>4, <3>1, Zenon DEF AllGoing
    <2>6. QED
        BY <1>1, <2>2, <2>3, <2>4, <2>5, Zenon DEF NearInv
<1>3. CASE UNCHANGED nearbyAllVars
    <2>1. UNCHANGED makeVars /\ calls' = calls /\ queue' = queue
        BY <1>3 DEF nearbyAllVars, nearbyVars
    <2>2. MakeInv'
        BY <2>1, SameMakeInv DEF NearInv
    <2>3. /\ nodes' = nodes /\ series' = series /\ index' = index /\ made' = made
          /\ (Fits' <=> Fits)
        BY <2>1, SeriesSame, Zenon
    <2>4. Fits' => AllGoing'
        BY <2>1, <2>3, Zenon DEF NearInv, AllGoing
    <2>5. QED
        BY <1>1, <2>1, <2>2, <2>3, <2>4, Zenon DEF NearInv
<1>4. ASSUME NEW p \in Procs, Step(p) \/ \E center \in Centers : Begin(p, center)
      PROVE  NearInv'
    <2>1. UNCHANGED makeVars /\ made
        <3>1. CASE \E center \in Centers : Begin(p, center)
            BY <3>1 DEF Begin
        <3>2. CASE Step(p)
            <4>1. UNCHANGED makeVars
                BY <3>2 DEF Step, ScanStep, ScanReturn, ScanPanic, GetQueue, ReadItemCount,
                       ReadItem, EndItems, PassEmptyQuad, PushQuad, Panic, PopRect, PopSegment,
                       PopNothing, PutQueue
            <4>2. calls[p].at # "idle"
                BY <3>2 DEF Step, ScanStep, ScanReturn, ScanPanic, GetQueue, ReadItemCount,
                       ReadItem, EndItems, PassEmptyQuad, PushQuad, Panic, PopRect, PopSegment,
                       PopNothing, PutQueue
            <4>3. NotCalling.at = "idle"
                BY DEF NotCalling
            <4>4. made
                BY <4>2, <4>3 DEF NearInv
            <4>5. QED
                BY <4>1, <4>4
        <3>3. QED
            BY <1>4, <3>1, <3>2
    <2>2. MakeInv'
        BY <2>1, SameMakeInv DEF NearInv
    <2>3. made' = made /\ (Fits' <=> Fits)
        BY <2>1, SeriesSame, Zenon
    <2>4. ASSUME Fits PROVE AllGoing'
        <3>1. CASE Step(p)
            <4>1. /\ UNCHANGED makeVars /\ DOMAIN queue' = Queues
                  /\ \A o \in Procs : o # p =>
                        calls'[o] = calls[o] /\ Held(calls[o], queue') = Held(calls[o], queue)
                  /\ CallGoing(nodes, index, series, calls'[p], Held(calls'[p], queue'))
                BY <2>4, <3>1, StepOthers, Zenon
            <4>2. QED
                BY <2>4, <4>1, OthersGoing, Zenon
        <3>2. CASE \E center \in Centers : Begin(p, center)
            <4>1. PICK center \in Centers : Begin(p, center)
                BY <3>2
            <4>2. CallGoing(nodes, index, series, calls'[p], Held(calls'[p], queue'))
                BY <2>4, <4>1, BeginGoing, Zenon
            <4>3. DOMAIN calls = Procs
                BY DEF NearInv, Owning
            <4>4. /\ queue' = queue
                  /\ \A o \in Procs : o # p => calls'[o] = calls[o]
                BY <4>1, <4>3 DEF Begin
            <4>5. \A o \in Procs : o # p =>
                     calls'[o] = calls[o] /\ Held(calls[o], queue') = Held(calls[o], queue)
                BY <4>4, Zenon
            <4>6. QED
                BY <2>1, <2>4, <4>2, <4>5, OthersGoing, Zenon
        <3>3. QED
            BY <1>4, <3>1, <3>2
    <2>5. QED
        BY <1>1, <2>1, <2>2, <2>3, <2>4, Zenon DEF NearInv
<1>5. QED
    BY <1>2, <1>3, <1>4 DEF NearbyNext

(* so it always holds.                                                     *)
LEMMA AlwaysNearInv == NearbySpec => []NearInv
    BY InitNearInv, StepNearInv, PTL DEF NearbySpec

(* The account says that an entry comes no later than any segment,         *)
LEMMA NearBounds ==
    ASSUME NearInv, Fits
    PROVE  QueueBoundsAll
<1>1. ASSUME NEW p \in Procs, calls[p].at = "pop", NEW item \in Items
      PROVE  \E n \in queue[calls[p].q] :
                Cmp(n, [kind |-> qseg, pos |-> item,
                        dist |-> DistToSegment(calls[p].center, item)]) <= 0
    <2>1. PICK c : c = calls[p]
        OBVIOUS
    <2>2. c.at = "pop" /\ c.at \in Readers \cup {"pop"}
        BY <1>1, <2>1
    <2>3. /\ Setting(nodes, index, series) /\ series \in SeriesType
          /\ c \in CallType /\ c.data = index /\ index # <<>>
          /\ c.q \in Queues /\ c.q # NoQueue /\ p \in DOMAIN calls /\ DOMAIN queue = Queues
          /\ CallGoing(nodes, index, series, c, queue[c.q])
          /\ \A o \in Procs : o # p => calls[o].q # c.q
        BY <2>1, <2>2, CallNow, Zenon
    <2>4. PICK G, E : BetweenNodes(nodes, index, series, c.center, queue[c.q], G, E)
        BY <2>2, <2>3, Zenon DEF CallGoing
    <2>5. c.center \in Point /\ item \in Numbers(series)
        BY <2>3, CallFields DEF Items, Numbers
    <2>6. PICK x : x = [kind |-> qseg, pos |-> item, dist |-> DistToSegment(c.center, item)]
        OBVIOUS
    <2>7. x.kind = qseg /\ x.pos = item /\ x.dist = DistIn(series, c.center, item)
        BY <2>6 DEF DistToSegment, DistIn
    <2>8. PICK n \in queue[c.q] : n \in Entry /\ Precedes(n, x)
        <3>1. Setting(nodes, index, series)
            BY <2>3
        <3>2. QED
            BY <2>4, <2>5, <2>7, <3>1, EntryAhead, SMT
    <2>9. /\ n.dist \in Int /\ n.kind \in Int /\ n.pos \in Int
          /\ x.dist \in Int /\ x.kind \in Int /\ x.pos \in Int
        <3>1. item \in Nat /\ DistIn(series, c.center, item) \in Nat
            BY <2>3, <2>5, NumbersNat, DistInNat
        <3>2. QED
            BY <2>7, <2>8, <3>1, EntryFields DEF qseg
    <2>10. Cmp(n, x) <= 0
        BY <2>8, <2>9, CmpIs
    <2>11. QED
        BY <2>1, <2>6, <2>10, Zenon
<1>2. QED
    BY <1>1, Zenon DEF QueueBoundsAll

(* and that what is returned is the nearest.                               *)
LEMMA NearFinds ==
    ASSUME NearInv, Fits
    PROVE  FindsNearest
<1>1. ASSUME NEW p \in Procs, calls[p].at = "returned"
      PROVE  Nearest(series, calls[p].center, calls[p].res)
    <2>1. CallGoing(nodes, index, series, calls[p], Held(calls[p], queue))
        BY Zenon DEF NearInv, AllGoing
    <2>2. QED
        BY <1>1, <2>1 DEF CallGoing
<1>2. Items = Numbers(series)
    BY DEF Items, Numbers
<1>3. QED
    BY <1>1, <1>2, Zenon DEF FindsNearest, Nearest, DistToSegment, DistIn

(* BetweenNodes two pops the queue of a call bounds every segment: an entry     *)
(* comes no later than the segment would, whatever the series, the tree,   *)
(* the number of goroutines and what the queue held before.                *)
THEOREM QueueBounds == NearbySpec => [](Fits => QueueBoundsAll)
<1>1. NearInv => (Fits => QueueBoundsAll)
    BY NearBounds
<1>2. QED
    BY <1>1, AlwaysNearInv, PTL

(* DistanceToSeries returns a nearest segment, the first of several, with  *)
(* an index and without one, however the calls of goroutines interleave    *)
(* and whichever of them panic.                                            *)
THEOREM NearestFound == NearbySpec => [](Fits => FindsNearest)
<1>1. NearInv => (Fits => FindsNearest)
    BY NearFinds
<1>2. QED
    BY <1>1, AlwaysNearInv, PTL
=============================================================================
