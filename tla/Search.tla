------------------------------- MODULE Search -------------------------------
(***************************************************************************)
(* What Series.Search promises: iter is called for the segments that match *)
(* the target, each once and in any order, until it returns false or there *)
(* are no more, and the search comes to an end.  Nothing is said of trees  *)
(* and indices, nor of the order, which depends on them.                   *)
(***************************************************************************)
EXTENDS Naturals, Sequences, SequencesExt

VARIABLES
    at,               \* "idle", "going" or "over".
    matching,         \* The segments that match the target.
    hits              \* The segments iter was called with, in order.

vars == <<at, matching, hits>>

Init == at = "idle" /\ hits = <<>>

(* A search for any target. *)
Call == at # "going" /\ at' = "going" /\ hits' = <<>>

(* iter goes on or stops. *)
Visit(item) ==
    /\ at = "going" /\ item \notin ToSet(hits)
    /\ hits' = Append(hits, item)
    /\ at' \in {"going", "over"}
    /\ UNCHANGED matching

End ==
    /\ at = "going" /\ ToSet(hits) = matching
    /\ at' = "over"
    /\ UNCHANGED <<matching, hits>>

(* Another series takes the place of this one. *)
Replace == at # "going" /\ at' = "idle" /\ hits' = <<>>

Next == Call \/ End \/ Replace \/ \E item \in matching : Visit(item)

Ends == (at = "going") ~> (at = "over")

Spec == Init /\ [][Next]_vars /\ Ends
=============================================================================
