------------------------------ MODULE MCJobStore ------------------------------
(* Small instances of JobStore: the shapes of a batch.                     *)
EXTENDS JobStore, TLC

CONSTANTS j1, j2, p1, p2, p3

\* A job of one person, and a batch of two.
Batches == (p1 :> j1) @@ (p2 :> j2) @@ (p3 :> j2)
Rows == (p1 :> 2) @@ (p2 :> 2) @@ (p3 :> 3)

\* One of the jobs at a time, since they share tokens only: the single one with
\* evidence and pages in the cache, the batch without.
OneJobAtATime ==
  \/ jobStatus[j2] = "absent"
  \/ jobStatus[j1] = "absent" /\ cache[j2] = {} /\ \A p \in Person : ledger[p] = {}

Symmetric == Permutations(Token) \cup Permutations(Url)

Reasons == {"WORKER_INTERRUPTED", "INFRASTRUCTURE_UNAVAILABLE"}
=============================================================================
