----------------------------- MODULE MCRetrieval -----------------------------
(* A small instance of Retrieval: requests that share a URL or a domain.   *)
EXTENDS Browser, TLC

CONSTANTS r1, r2, r3, r4, u1, u2, u3, d1, d2

\* Two requests for one page of d1, one for another, and one for d2.
Urls == (r1 :> u1) @@ (r2 :> u1) @@ (r3 :> u2) @@ (r4 :> u3)
Domains == (u1 :> d1) @@ (u2 :> d1) @@ (u3 :> d2)
=============================================================================
