--------------------------- MODULE MCCrashRecovery ---------------------------
(* JobStore with the number of times a person was taken from a worker that *)
(* died or stalled: what the documentation says of crash recovery.         *)
EXTENDS JobStore

CONSTANTS j1, p1

OnlyJob == [p \in {p1} |-> j1]
OnlyRow == [p \in {p1} |-> 2]
Reasons == {"WORKER_INTERRUPTED", "INFRASTRUCTURE_UNAVAILABLE"}

VARIABLE crashes

\* A lease lapses and the store takes the person from its holder.
Interruption(p) ==
  /\ task[p].status = "researching"
  /\ ~Unexpired(task[p], 0)
  /\ task'[p].token # task[p].token
  /\ task'[p].status \in {"queued", "researching"}

CountedInit == Init /\ crashes = [p \in Person |-> 0]

\* The count stops one past the limit.
CountedNext ==
  /\ Next
  /\ crashes' = [p \in Person |->
       IF Interruption(p) /\ crashes[p] <= MaxAttempts
       THEN crashes[p] + 1 ELSE crashes[p]]

CountedSpec == CountedInit /\ [][CountedNext]_<<vars, crashes>>

\* "Worker crash recovery is separately attempt-limited" (README.md:208) and
\* "Worker crash recovery has a separate attempt limit" (docs/architecture.md):
\* the person of a worker that keeps crashing is given up after a while.
CrashRecoveryIsLimited == \A p \in Person : crashes[p] <= MaxAttempts
=============================================================================
