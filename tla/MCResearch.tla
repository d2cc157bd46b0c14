----------------------------- MODULE MCResearch -----------------------------
(* Research on four pages: c redirects to a, b and d are pages of their own. *)
(* a speaks of the person, d is a page of Wikipedia.                         *)
EXTENDS Research

CONSTANTS a, b, c, d, q0, f1, r, w, s, p

ByRank == <<c, a, b>>
FourByRank == <<a, b, c, d>>
Itself == [u \in Url |-> u]
Redirected == [u \in Url |-> IF u = c THEN a ELSE u]
OneChunk == [u \in Url |-> 1]
OfA == {<<a, 1>>}
Fallback == <<r>>
Plans == <<p, r>>

Answers ==
  [q \in Query |-> CASE q = q0 -> {{b}}
                     [] q = f1 -> {{c}}
                     [] q \in {p, r} -> {{}}
                     [] OTHER -> {{b}}]

\* Searches that bring two pages each.
Pairs == [q \in Query |-> CASE q = q0 -> {{a, b}} [] q = f1 -> {{c, d}} [] OTHER -> {{}}]

ASSUME PickedIsSelectSeq ==
  \A S \in SUBSET Url : Picked(Ranking, {i \in DOMAIN Ranking : Ranking[i] \in S})
                         = SelectSeq(Ranking, LAMBDA u : u \in S)
=============================================================================
