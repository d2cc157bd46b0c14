------------------------------- MODULE MCWorker -------------------------------
(* A small instance of Worker: one person, and leases that compete.        *)
EXTENDS Worker

CONSTANTS j1, p1

OnlyJob == [p \in {p1} |-> j1]
OnlyRow == [p \in {p1} |-> 2]
Reasons == {"WORKER_INTERRUPTED", "INFRASTRUCTURE_UNAVAILABLE", "PROVIDER_UNAVAILABLE"}
=============================================================================
