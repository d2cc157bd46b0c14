------------------------------ MODULE JobStore ------------------------------
(***************************************************************************)
(* The durable job store of app/db/store.py: jobs, the person tasks they   *)
(* are made of, the evidence ledger and the retrieval cache.  Every store  *)
(* method is one transaction that locks the job row first, so every method *)
(* is one action.                                                          *)
(*                                                                         *)
(* The callers are unconstrained: any lease ever handed out may be used    *)
(* for any call, any number of times and in any order, until its holder    *)
(* forgets it.  That covers a worker that stalled past its lease, a call   *)
(* retried because the acknowledgement of its commit was lost, and a       *)
(* worker that died.  What workers really do with a lease is module        *)
(* Worker.                                                                 *)
(*                                                                         *)
(* Time.  lease_expires_at is kept relative to the database's clock:       *)
(* left[p] ticks remain, and Tick takes one from every row.  Methods that  *)
(* sample utcnow() before they wait for the job lock act on a clock that   *)
(* is up to MaxLag ticks old when they commit.  A NULL expiry and one      *)
(* that no such call can see in the future behave alike: both are Lapsed.  *)
(***************************************************************************)
EXTENDS Integers, FiniteSets, Totals

CONSTANTS
  Job,            \* job ids
  Person,         \* person task ids
  JobOf,          \* the job each person task belongs to
  RowOf,          \* row_index: the order of the people of a job
  Worker,         \* worker ids
  Token,          \* lease tokens; a uuid4 is one that nobody holds
  NoToken,        \* NULL lease_token
  NoWorker,       \* NULL leased_by
  Item,           \* evidence: sources, claims and usage records, by id
  RecoveryReasons,\* RECOVERY_REASONS
  OutageCode,     \* error codes callers pass to defer_task
  FailureCode,    \* error codes callers pass to fail_task
  Url, Size,      \* URLs and payload sizes offered to the retrieval cache
  MaxAttempts,    \* WORKER_MAX_ATTEMPTS
  LeaseTicks,     \* WORKER_LEASE_SECONDS
  RecoveryTicks,  \* the five-second pause of _recover_exhausted
  RetryAfter,     \* retry_after values callers pass to defer_task
  MaxCacheBytes,  \* MAX_CACHE_BYTES_PER_JOB
  MaxLag          \* how old a sampled utcnow() can be when it is used

ASSUME ConstantsAssumption ==
  /\ JobOf \in [Person -> Job]
  /\ \A j \in Job : \E p \in Person : JobOf[p] = j
  /\ RowOf \in [Person -> Nat]
  /\ NoToken \notin Token
  /\ NoWorker \notin Worker
  /\ {"WORKER_INTERRUPTED", "INFRASTRUCTURE_UNAVAILABLE"} \subseteq RecoveryReasons
  /\ MaxAttempts \in Nat \ {0}
  /\ LeaseTicks \in Nat \ {0}
  /\ RecoveryTicks \in Nat \ {0}
  /\ RetryAfter \subseteq Nat
  /\ Size \subseteq Nat
  /\ MaxCacheBytes \in Nat
  /\ MaxLag \in Nat

VARIABLES
  jobStatus,  \* jobs.status
  task,       \* person_tasks
  profile,    \* profiles.status: the last profile saved for a person
  ledger,     \* sources, evidence_claims, usage_records
  cache,      \* retrieval_cache
  held,       \* Lease objects in the memory of workers, live or stalled
  acked       \* the outcomes finish_task or fail_task answered True for

vars == <<jobStatus, task, profile, ledger, cache, held, acked>>

-----------------------------------------------------------------------------
(* Rows and their values.                                                  *)

ProfileStatus == {"completed", "review_required", "failed"}
SUCCESS_STATUSES == {"completed", "review_required"}
TERMINAL_STATUSES == SUCCESS_STATUSES \cup {"failed", "cancelled"}
PersonStatus == {"queued", "researching"} \cup TERMINAL_STATUSES

TerminalJobStatus == {"completed", "partial", "failed", "cancelled"}
JobStatus == {"queued", "running"} \cup TerminalJobStatus

\* error_code: a wait or resuming marker with its reason, or a final code.
ErrorKind == {"none", "wait", "resuming", "final"}
Why == RecoveryReasons \cup FailureCode \cup {"INVALID_ROW", "-"}
Error == [kind : ErrorKind, why : Why]
NoError == [kind |-> "none", why |-> "-"]
Wait(reason) == [kind |-> "wait", why |-> reason]
Resuming(reason) == [kind |-> "resuming", why |-> reason]
Final(code) == [kind |-> "final", why |-> code]

Lapsed == - MaxLag

Task == [status : PersonStatus \cup {"absent"}, error : Error,
         attempts : 0 .. MaxAttempts, token : Token \cup {NoToken},
         by : Worker \cup {NoWorker}, left : Int]

Lease == [person : Person, token : Token, worker : Worker]
Outcome == [status : TERMINAL_STATUSES, error : Error]
CacheRow == [url : Url, size : Size, live : BOOLEAN]

NewRow(status, error) ==
  [status |-> status, error |-> error, attempts |-> 0, token |-> NoToken,
   by |-> NoWorker, left |-> Lapsed]
Absent == NewRow("absent", NoError)

PersonsOf(j) == {p \in Person : JobOf[p] = j}

TypeOK ==
  /\ jobStatus \in [Job -> JobStatus \cup {"absent"}]
  /\ task \in [Person -> Task]
  /\ \A p \in Person : task[p].left >= Lapsed
  /\ profile \in [Person -> ProfileStatus \cup {"none"}]
  /\ ledger \in [Person -> SUBSET Item]
  /\ cache \in [Job -> SUBSET CacheRow]
  /\ held \subseteq Lease
  /\ acked \in [Person -> SUBSET Outcome]

Init ==
  /\ jobStatus = [j \in Job |-> "absent"]
  /\ task = [p \in Person |-> Absent]
  /\ profile = [p \in Person |-> "none"]
  /\ ledger = [p \in Person |-> {}]
  /\ cache = [j \in Job |-> {}]
  /\ held = {}
  /\ acked = [p \in Person |-> {}]

-----------------------------------------------------------------------------
(* The job status and what hangs on it.                                    *)

\* The status _refresh_job_status derives from the tasks of a job.
StatusFor(j, tasks) ==
  LET all(S) == \A p \in PersonsOf(j) : tasks[p].status \in S
      some(S) == \E p \in PersonsOf(j) : tasks[p].status \in S
  IN IF all(SUCCESS_STATUSES) THEN "completed"
     ELSE IF all({"failed"}) THEN "failed"
     ELSE IF all({"cancelled"}) THEN "cancelled"
     ELSE IF all(TERMINAL_STATUSES) THEN "partial"
     ELSE IF some({"researching"} \cup TERMINAL_STATUSES) THEN "running"
     ELSE "queued"

\* Mistake: the rows are counted before the changes are flushed.
RefreshUnflushed(J, tasks) ==
  /\ task' = tasks
  /\ jobStatus' = [j \in Job |-> IF j \in J /\ jobStatus[j] # "cancelled"
                                THEN StatusFor(j, task) ELSE jobStatus[j]]
  /\ UNCHANGED cache

\* The tasks become `tasks` and the status of the jobs in J is refreshed; a
\* cancelled job stays cancelled, a job that ends loses its cache.
Refresh(J, tasks) ==
  LET open == {j \in J : jobStatus[j] # "cancelled"}
  IN /\ task' = tasks
     /\ jobStatus' = [j \in Job |-> IF j \in open THEN StatusFor(j, tasks) ELSE jobStatus[j]]
     /\ cache' = [j \in Job |-> IF j \in open /\ StatusFor(j, tasks) \in TerminalJobStatus
                                THEN {} ELSE cache[j]]

NotCancelled(l) == jobStatus[JobOf[l.person]] # "cancelled"

\* lease_expires_at > now, for a now sampled lag ticks ago.
Unexpired(t, lag) == t.left + lag > 0

\* Mistake: the token alone is the fence.
OwnsByToken(l, lag) == task[l.person].token = l.token

\* Mistake: the fence does not compare the token.
OwnsByStatus(l, lag) ==
  task[l.person].status = "researching" /\ Unexpired(task[l.person], lag)

\* The lease fence: the row is being researched under this token and the
\* lease has not expired.
Owns(l, lag) ==
  LET t == task[l.person]
  IN t.status = "researching" /\ t.token = l.token /\ Unexpired(t, lag)

\* _terminal_receipt: the row already carries this very outcome and token.
Receipt(l, o) ==
  LET t == task[l.person]
  IN t.token = l.token /\ t.status = o.status /\ t.error = o.error

\* _replace_result: the profile is replaced, the ledger only grows.
SaveResult(p, result) ==
  /\ profile' = [profile EXCEPT ![p] = result.status]
  /\ ledger' = [ledger EXCEPT ![p] = @ \cup result.items]

KeepResult == UNCHANGED <<profile, ledger>>

\* What callers save: the profile of a person that is given up without any
\* evidence is marked as failed.
Result == [status : SUCCESS_STATUSES, items : SUBSET Item]
FailedResult == [status : {"failed"}, items : SUBSET Item]
AnyResult == Result \cup FailedResult

\* The caller hears True, or the acknowledgement is lost.
Acknowledge(l, o) == acked' \in {acked, [acked EXCEPT ![l.person] = @ \cup {o}]}

-----------------------------------------------------------------------------
(* create_job and cancel_job: the API.                                     *)

CreateJob(j, invalid) ==
  /\ jobStatus[j] = "absent"
  /\ Refresh({j}, [p \in Person |->
       IF JobOf[p] # j THEN task[p]
       ELSE IF p \in invalid
            THEN NewRow("failed", Final("INVALID_ROW"))
            ELSE NewRow("queued", NoError)])
  /\ UNCHANGED <<profile, ledger, held, acked>>

\* An open row of a cancelled job; error_code and attempts stay.
Cancelled(t) ==
  [status |-> "cancelled", error |-> t.error, attempts |-> t.attempts,
   token |-> NoToken, by |-> NoWorker, left |-> Lapsed]

\* Mistake: every row of the job is cancelled, the finished ones too.
CancelEveryRow(j) ==
  /\ jobStatus[j] \in {"queued", "running"}
  /\ jobStatus' = [jobStatus EXCEPT ![j] = "cancelled"]
  /\ task' = [p \in Person |-> IF JobOf[p] = j THEN Cancelled(task[p]) ELSE task[p]]
  /\ cache' = [cache EXCEPT ![j] = {}]
  /\ UNCHANGED <<profile, ledger, held, acked>>

\* Mistake: the people being researched are left to their workers.
CancelQueuedRows(j) ==
  /\ jobStatus[j] \in {"queued", "running"}
  /\ jobStatus' = [jobStatus EXCEPT ![j] = "cancelled"]
  /\ task' = [p \in Person |->
       IF JobOf[p] = j /\ task[p].status = "queued" THEN Cancelled(task[p]) ELSE task[p]]
  /\ cache' = [cache EXCEPT ![j] = {}]
  /\ UNCHANGED <<profile, ledger, held, acked>>

CancelJob(j) ==
  /\ jobStatus[j] \in {"queued", "running"}
  /\ jobStatus' = [jobStatus EXCEPT ![j] = "cancelled"]
  /\ task' = [p \in Person |->
       IF JobOf[p] = j /\ task[p].status \notin TERMINAL_STATUSES
       THEN Cancelled(task[p]) ELSE task[p]]
  /\ cache' = [cache EXCEPT ![j] = {}]
  /\ UNCHANGED <<profile, ledger, held, acked>>

-----------------------------------------------------------------------------
(* claim_task.                                                             *)

Fresh(t) == /\ \A p \in Person : task[p].token # t
            /\ \A l \in held : l.token # t

\* The claim of w under t committed, its acknowledgement was lost, and w asks
\* again with the same token.
Unacknowledged(w, t) ==
  /\ \E p \in Person : task[p].token = t /\ task[p].by = w
  /\ \A l \in held : l.token # t

\* The rows a repeated claim is answered with.
Existing(w, t, lag) ==
  {p \in Person : /\ task[p].token = t
                  /\ task[p].by = w
                  /\ task[p].status = "researching"
                  /\ Unexpired(task[p], lag)
                  /\ jobStatus[JobOf[p]] # "cancelled"}

Exhausted(p, lag) ==
  /\ task[p].status = "researching"
  /\ ~Unexpired(task[p], lag)
  /\ task[p].attempts >= MaxAttempts

\* Jobs _recover_exhausted may pick.
Recoverable(lag) ==
  {j \in Job : /\ jobStatus[j] \in {"queued", "running"}
               /\ \E p \in PersonsOf(j) : Exhausted(p, lag)}

\* What _recover_exhausted makes of a row: a pause, and one attempt left.
Interrupted(lag) ==
  [status |-> "queued", error |-> Wait("WORKER_INTERRUPTED"),
   attempts |-> MaxAttempts - 1, token |-> NoToken, by |-> NoWorker,
   left |-> RecoveryTicks - lag]

\* _recover_exhausted: the exhausted people of the jobs in J go back to the
\* queue.
Recovered(J, lag) ==
  [p \in Person |-> IF JobOf[p] \in J /\ Exhausted(p, lag) THEN Interrupted(lag)
                    ELSE task[p]]

\* Mistake: only the pause of a queued row is waited for.
ClaimableEarly(t, lag) ==
  /\ t.status \in {"queued", "researching"}
  /\ t.status = "queued" => ~Unexpired(t, lag)

\* _claimable.
Claimable(t, lag) ==
  /\ t.status \in {"queued", "researching"}
  /\ ~Unexpired(t, lag)

\* Mistake: attempts are not limited.
MayClaimAgain(tasks, p, lag) ==
  /\ jobStatus[JobOf[p]] \notin {"absent", "cancelled", "completed", "failed"}
  /\ Claimable(tasks[p], lag)

MayClaim(tasks, p, lag) ==
  /\ jobStatus[JobOf[p]] \notin {"absent", "cancelled", "completed", "failed"}
  /\ tasks[p].attempts < MaxAttempts
  /\ Claimable(tasks[p], lag)

\* The first claimable row of its job.  Which job is taken is left open: the
\* oldest one, unless its row is locked (SKIP LOCKED).
Candidate(tasks, p, lag) ==
  /\ MayClaim(tasks, p, lag)
  /\ \A q \in PersonsOf(JobOf[p]) : MayClaim(tasks, q, lag) => RowOf[p] <= RowOf[q]

\* _mark_claimed with _mark_resuming.
Claimed(t, w, token, lag) ==
  [status |-> "researching",
   error |-> IF t.error.kind = "wait" THEN Resuming(t.error.why)
             ELSE IF t.status = "researching" THEN Resuming("WORKER_INTERRUPTED")
             ELSE t.error,
   attempts |-> t.attempts + 1,
   token |-> token, by |-> w, left |-> LeaseTicks - lag]

LeaseFor(p, w, t) == [person |-> p, token |-> t, worker |-> w]

RepeatClaim(w, t, lag) ==
  /\ Unacknowledged(w, t)
  /\ \E p \in Existing(w, t, lag) : held' = held \cup {LeaseFor(p, w, t)}
  /\ UNCHANGED <<jobStatus, task, profile, ledger, cache, acked>>

\* The recovery that precedes the claim, when there is nothing to claim.
RecoverOnly(w, t, lag) ==
  /\ Fresh(t) \/ Unacknowledged(w, t)
  /\ Existing(w, t, lag) = {}
  /\ \E j \in Recoverable(lag) : Refresh({j}, Recovered({j}, lag))
  /\ UNCHANGED <<profile, ledger, held, acked>>

ClaimPerson(w, t, p, lag) ==
  /\ Fresh(t) \/ Unacknowledged(w, t)
  /\ Existing(w, t, lag) = {}
  /\ \E J \in {{}} \cup {{j} : j \in Recoverable(lag)} :
       LET tasks == Recovered(J, lag)
       IN /\ Candidate(tasks, p, lag)
          /\ Refresh(J \cup {JobOf[p]},
                     [tasks EXCEPT ![p] = Claimed(tasks[p], w, t, lag)])
  /\ held' \in {held, held \cup {LeaseFor(p, w, t)}}
  /\ UNCHANGED <<profile, ledger, acked>>

ClaimTask(w, t, lag) ==
  \/ RepeatClaim(w, t, lag)
  \/ RecoverOnly(w, t, lag)
  \/ \E p \in Person : ClaimPerson(w, t, p, lag)

-----------------------------------------------------------------------------
(* The calls a lease is good for.  A call whose fence fails answers False  *)
(* and changes nothing.                                                    *)

RenewLease(l, lag) ==
  /\ NotCancelled(l)
  /\ Owns(l, lag)
  /\ task' = [task EXCEPT ![l.person].left = LeaseTicks - lag]
  /\ UNCHANGED <<jobStatus, profile, ledger, cache, held, acked>>

Checkpoint(l, result) ==
  /\ NotCancelled(l)
  /\ Owns(l, 0)
  /\ SaveResult(l.person, result)
  /\ task' = [task EXCEPT ![l.person].error =
                 IF @.kind = "resuming" THEN NoError ELSE @]
  /\ UNCHANGED <<jobStatus, cache, held, acked>>

\* A terminal row keeps its token as the receipt of the commit.
Settled(t, o) ==
  [status |-> o.status, error |-> o.error, attempts |-> t.attempts,
   token |-> t.token, by |-> NoWorker, left |-> Lapsed]

\* finish_task and fail_task share their shape: settle the row, or answer a
\* repeated call from the receipt.
Settle(l, o) ==
  Refresh({JobOf[l.person]}, [task EXCEPT ![l.person] = Settled(@, o)])

FinishTask(l, result) ==
  LET o == [status |-> result.status, error |-> NoError]
  IN /\ NotCancelled(l)
     /\ \/ /\ Owns(l, 0)
           /\ Settle(l, o)
           /\ SaveResult(l.person, result)
        \/ /\ ~Owns(l, 0)
           /\ Receipt(l, o)
           /\ UNCHANGED <<jobStatus, task, cache, profile, ledger>>
     /\ Acknowledge(l, o)
     /\ UNCHANGED held

FailTask(l, code, results) ==
  LET o == [status |-> "failed", error |-> Final(code)]
  IN /\ NotCancelled(l)
     /\ \/ /\ Owns(l, 0)
           /\ Settle(l, o)
           /\ IF results = {} THEN KeepResult
              ELSE \E r \in results : SaveResult(l.person, r)
        \/ /\ ~Owns(l, 0)
           /\ Receipt(l, o)
           /\ UNCHANGED <<jobStatus, task, cache, profile, ledger>>
     /\ Acknowledge(l, o)
     /\ UNCHANGED held

\* The reason recorded for an outage code.
Reason(code) ==
  IF code \in RecoveryReasons THEN code ELSE "INFRASTRUCTURE_UNAVAILABLE"

AtLeast(a, b) == IF a >= b THEN a ELSE b

\* Mistake: an outage costs an attempt.
DeferredSpent(t, code, retryAfter, lag) ==
  [status |-> "queued", error |-> Wait(Reason(code)),
   attempts |-> t.attempts, token |-> t.token, by |-> NoWorker,
   left |-> AtLeast(retryAfter, 1) - lag]

\* The person goes back to the queue with the attempt given back; the token
\* stays on the row so that a repeated call is answered True.
Deferred(t, code, retryAfter, lag) ==
  [status |-> "queued", error |-> Wait(Reason(code)),
   attempts |-> AtLeast(t.attempts - 1, 0), token |-> t.token, by |-> NoWorker,
   left |-> AtLeast(retryAfter, 1) - lag]

DeferTask(l, code, retryAfter, results, lag) ==
  /\ NotCancelled(l)
  /\ Owns(l, lag)
  /\ IF results = {} THEN KeepResult
     ELSE \E r \in results : SaveResult(l.person, r)
  /\ Refresh({JobOf[l.person]},
             [task EXCEPT ![l.person] = Deferred(@, code, retryAfter, lag)])
  /\ UNCHANGED <<held, acked>>

\* The process that holds the leases ends, or stops using one of them.
Forget(leases) ==
  /\ held' = held \ leases
  /\ UNCHANGED <<jobStatus, task, profile, ledger, cache, acked>>

-----------------------------------------------------------------------------
(* The retrieval cache: put_cache is guarded by the job alone, not by a    *)
(* lease, and is called by whoever still researches a person of the job.   *)

Bytes(rows) == Total([r \in rows |-> r.size])

\* Mistake: the budget is that of one row.
PutCacheUnmetered(j, url, size) ==
  /\ \E l \in held : JobOf[l.person] = j
  /\ jobStatus[j] \notin TerminalJobStatus
  /\ size <= MaxCacheBytes
  /\ cache' = [cache EXCEPT ![j] =
       {r \in @ : r.url # url} \cup {[url |-> url, size |-> size, live |-> TRUE]}]
  /\ UNCHANGED <<jobStatus, task, profile, ledger, held, acked>>

\* Mistake: the job is not looked at again under its lock.
PutCacheUnlocked(j, url, size) ==
  LET others == {r \in cache[j] : r.url # url}
  IN /\ \E l \in held : JobOf[l.person] = j
     /\ size + Bytes({r \in others : r.live}) <= MaxCacheBytes
     /\ cache' = [cache EXCEPT ![j] =
                    others \cup {[url |-> url, size |-> size, live |-> TRUE]}]
     /\ UNCHANGED <<jobStatus, task, profile, ledger, held, acked>>

PutCache(j, url, size) ==
  LET others == {r \in cache[j] : r.url # url}
  IN /\ \E l \in held : JobOf[l.person] = j
     /\ jobStatus[j] \notin TerminalJobStatus
     /\ size + Bytes({r \in others : r.live}) <= MaxCacheBytes
     /\ cache' = [cache EXCEPT ![j] =
                    others \cup {[url |-> url, size |-> size, live |-> TRUE]}]
     /\ UNCHANGED <<jobStatus, task, profile, ledger, held, acked>>

\* RETRIEVAL_CACHE_TTL_SECONDS pass for a row.
ExpireCache(j, row) ==
  /\ row.live
  /\ cache' = [cache EXCEPT ![j] = (@ \ {row}) \cup
                    {[url |-> row.url, size |-> row.size, live |-> FALSE]}]
  /\ UNCHANGED <<jobStatus, task, profile, ledger, held, acked>>

\* heartbeat prunes the expired rows of every job.
Heartbeat ==
  /\ cache' = [j \in Job |-> {r \in cache[j] : r.live}]
  /\ UNCHANGED <<jobStatus, task, profile, ledger, held, acked>>

-----------------------------------------------------------------------------
Tick ==
  /\ task' = [p \in Person |->
       [task[p] EXCEPT !.left = IF @ > Lapsed THEN @ - 1 ELSE @]]
  /\ UNCHANGED <<jobStatus, profile, ledger, cache, held, acked>>

Lag == 0 .. MaxLag
Maybe(R) == {{}} \cup {{r} : r \in R}

Call(l) ==
  \/ \E lag \in Lag : RenewLease(l, lag)
  \/ \E r \in Result : Checkpoint(l, r) \/ FinishTask(l, r)
  \/ \E code \in FailureCode, rs \in Maybe(FailedResult) : FailTask(l, code, rs)
  \/ \E code \in OutageCode, s \in RetryAfter, rs \in Maybe(Result), lag \in Lag :
       DeferTask(l, code, s, rs, lag)

Next ==
  \/ \E j \in Job : \E invalid \in SUBSET PersonsOf(j) : CreateJob(j, invalid)
  \/ \E j \in Job : CancelJob(j)
  \/ \E w \in Worker, t \in Token, lag \in Lag : ClaimTask(w, t, lag)
  \/ \E l \in held : Call(l)
  \/ \E leases \in SUBSET held : Forget(leases)
  \/ \E j \in Job, url \in Url, size \in Size : PutCache(j, url, size)
  \/ \E j \in Job : \E row \in cache[j] : ExpireCache(j, row)
  \/ Heartbeat
  \/ Tick

Spec == Init /\ [][Next]_vars

-----------------------------------------------------------------------------
(* Properties.                                                             *)

Open(p) == task[p].status \in {"queued", "researching"}

\* No person is lost in the queue: an open person is in a job that claim_task
\* still looks at, and once its lease or pause lapses either the claim query
\* selects it or _recover_exhausted puts it back.
OpenPersonIsReachable ==
  \A p \in Person : Open(p) =>
    /\ jobStatus[JobOf[p]] \in {"queued", "running"}
    /\ task[p].status = "queued" => task[p].attempts < MaxAttempts
    /\ ~Unexpired(task[p], 0) =>
         MayClaim(task, p, 0) \/ (Exhausted(p, 0) /\ JobOf[p] \in Recoverable(0))

\* No method forgets to refresh the job: what the API answers for a job is what
\* its people's rows say, unless a user cancelled it, and then nobody is left.
JobStatusIsCurrent ==
  \A j \in Job :
    IF jobStatus[j] = "absent"
    THEN \A p \in PersonsOf(j) : task[p] = Absent
    ELSE \/ jobStatus[j] = StatusFor(j, task)
         \/ /\ jobStatus[j] = "cancelled"
            /\ \A p \in PersonsOf(j) : task[p].status \in TERMINAL_STATUSES

\* Fencing and receipts: once a worker has been told that its outcome is
\* stored, that outcome stands, whatever stalled, repeated or late calls and
\* cancellations follow.
AckedOutcomeStands ==
  \A p \in Person : \A o \in acked[p] :
    task[p].status = o.status /\ task[p].error = o.error

\* The profile a finished person shows is the one it finished with.
PublishedProfile ==
  \A p \in Person :
    task[p].status \in SUCCESS_STATUSES => profile[p] = task[p].status

\* Retrieval payloads do not outlive their job, although put_cache carries no
\* lease and may come from a worker that lost its own.
ClosedJobKeepsNoCache ==
  \A j \in Job : jobStatus[j] \in TerminalJobStatus => cache[j] = {}

\* The cache rows that get_cache can return stay within the budget of the job,
\* one row for each URL.
CacheWithinBudget ==
  \A j \in Job :
    /\ Bytes({r \in cache[j] : r.live}) <= MaxCacheBytes
    /\ \A r1, r2 \in cache[j] : r1.url = r2.url => r1 = r2

\* Nothing is written about a person outside its research: its profile and its
\* evidence change only while it is being researched and not cancelled.
NoWriteAfterClose ==
  [][\A p \in Person :
       profile'[p] # profile[p] \/ ledger'[p] # ledger[p]
         => /\ task[p].status = "researching"
            /\ jobStatus[JobOf[p]] # "cancelled"]_vars

\* A person changes hands only when its lease has really lapsed, although
\* claim_task compares it with a clock sampled before the transaction.
OwnerKeepsUnexpiredLease ==
  [][\A p \in Person :
       task[p].status = "researching" /\ task'[p].token # task[p].token
         => ~Unexpired(task[p], 0) \/ jobStatus'[JobOf[p]] = "cancelled"]_vars

\* What is promised to the user: the store implements ResearchQueue.
outcome == [p \in Person |-> CASE task[p].status = "absent" -> "none"
                               [] Open(p) -> "open"
                               [] OTHER -> task[p].status]
owner == [p \in Person |-> IF task[p].status = "researching" THEN task[p].token
                           ELSE NoToken]
answer == [j \in Job |-> CASE jobStatus[j] = "absent" -> "none"
                           [] jobStatus[j] \in {"queued", "running"} -> "open"
                           [] jobStatus[j] = "cancelled" -> "cancelled"
                           [] OTHER -> "done"]

Queue == INSTANCE ResearchQueue WITH evidence <- ledger

ImplementsQueue == Queue!Spec

=============================================================================
