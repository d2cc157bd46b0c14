---------------------------- MODULE WorkerProofs ----------------------------
(***************************************************************************)
(* The workers use the store as module JobStore allows any client to: every *)
(* step of a worker is a step of the store, or leaves it alone.  What is    *)
(* proved of the store therefore holds of the store with its real workers,  *)
(* for any number of them, whatever breaks.                                 *)
(*                                                                          *)
(* Of the workers themselves WorkerInv relates what a lease owns to the     *)
(* versions its coroutines and threads have in hand: resume points do not   *)
(* regress, and no boss leaves a lease behind.                              *)
(***************************************************************************)
EXTENDS Worker, CollectionProofs

-----------------------------------------------------------------------------
(* What the job store guarantees for every number of jobs, people, workers *)
(* and tokens, and for every setting of its limits.                        *)
(*                                                                         *)
(* The properties of JobStore are not inductive one by one: a job status   *)
(* stays current only if a row exists exactly when its job does, and an    *)
(* open person stays reachable only if no queued row has spent its         *)
(* attempts.  Inv joins them: RowInv is what one row owes to its own       *)
(* history; JobStatusIsCurrent, RowsExist and CancelledWithJob are what    *)
(* rows and their job owe to each other.                                   *)


-----------------------------------------------------------------------------
(* Type correctness.                                                       *)

\* The derived status of a job is one of the seven job statuses.
LEMMA StatusForType ==
  ASSUME NEW j, NEW tasks
  PROVE  StatusFor(j, tasks) \in JobStatus
BY DEF StatusFor, JobStatus, TerminalJobStatus

\* Refreshing jobs keeps their statuses and caches well typed.
LEMMA RefreshType ==
  ASSUME TypeOK, NEW J, NEW tasks \in [Person -> Task],
         \A p \in Person : tasks[p].left >= Lapsed,
         Refresh(J, tasks)
  PROVE  /\ jobStatus' \in [Job -> JobStatus \cup {"absent"}]
         /\ task' = tasks
         /\ task' \in [Person -> Task]
         /\ \A p \in Person : task'[p].left >= Lapsed'
         /\ cache' \in [Job -> SUBSET CacheRow]
BY StatusForType DEF TypeOK, Refresh, Lapsed

\* The error codes of a row are errors.
LEMMA ErrorTypes ==
  /\ NoError \in Error
  /\ \A why \in Why : Wait(why) \in Error /\ Resuming(why) \in Error /\ Final(why) \in Error
BY DEF NoError, Wait, Resuming, Final, Error, ErrorKind, Why

\* Every row that an action writes is a row: one fact for each of the row
\* transformers, whatever the row was.
LEMMA RowTypes ==
  ASSUME NEW t \in Task, t.left >= Lapsed, NEW lag \in Lag
  PROVE  /\ Cancelled(t) \in Task /\ Cancelled(t).left >= Lapsed
         /\ Interrupted(lag) \in Task /\ Interrupted(lag).left >= Lapsed
         /\ \A n \in Int : [t EXCEPT !.left = n] \in Task
         /\ \A e \in Error : [t EXCEPT !.error = e] \in Task
         /\ \A w \in Worker, token \in Token :
              t.attempts < MaxAttempts =>
                /\ Claimed(t, w, token, lag) \in Task
                /\ Claimed(t, w, token, lag).left >= Lapsed
         /\ \A o \in Outcome :
              Settled(t, o) \in Task /\ Settled(t, o).left >= Lapsed
         /\ \A code \in OutageCode, retryAfter \in Nat :
              /\ Deferred(t, code, retryAfter, lag) \in Task
              /\ Deferred(t, code, retryAfter, lag).left >= Lapsed
<1> USE ConstantsAssumption DEF Lapsed, Lag
<1>0. /\ Cancelled(t) \in Task /\ Cancelled(t).left >= Lapsed
      /\ Interrupted(lag) \in Task /\ Interrupted(lag).left >= Lapsed
  BY ErrorTypes DEF Cancelled, Interrupted, Task, PersonStatus, TERMINAL_STATUSES, Why
<1>a. \A n \in Int : [t EXCEPT !.left = n] \in Task
  BY DEF Task
<1>b. \A e \in Error : [t EXCEPT !.error = e] \in Task
  BY DEF Task
<1>1. \A w \in Worker, token \in Token :
         t.attempts < MaxAttempts =>
           /\ Claimed(t, w, token, lag) \in Task
           /\ Claimed(t, w, token, lag).left >= Lapsed
  BY ErrorTypes DEF Claimed, Task, PersonStatus, Error, Why, Resuming, ErrorKind
<1>2. \A o \in Outcome : Settled(t, o) \in Task /\ Settled(t, o).left >= Lapsed
  BY DEF Settled, Outcome, Task, PersonStatus
<1>3. \A code \in OutageCode, retryAfter \in Nat :
         /\ Deferred(t, code, retryAfter, lag) \in Task
         /\ Deferred(t, code, retryAfter, lag).left >= Lapsed
  <2> TAKE code \in OutageCode, retryAfter \in Nat
  <2>1. Wait(Reason(code)) \in Error
    BY ErrorTypes DEF Reason, Why
  <2>2. AtLeast(t.attempts - 1, 0) \in 0 .. MaxAttempts
    BY DEF AtLeast, Task
  <2>3. AtLeast(retryAfter, 1) - lag \in Int /\ AtLeast(retryAfter, 1) - lag >= Lapsed
    BY DEF AtLeast
  <2> QED
    BY <2>1, <2>2, <2>3 DEF Deferred, Task, PersonStatus
<1> QED
  BY <1>0, <1>a, <1>b, <1>1, <1>2, <1>3

\* Saving a result keeps profiles and evidence well typed.
LEMMA SaveType ==
  ASSUME TypeOK, NEW p \in Person, NEW r \in AnyResult, SaveResult(p, r)
  PROVE  /\ profile' \in [Person -> ProfileStatus \cup {"none"}]
         /\ ledger' \in [Person -> SUBSET Item]
BY DEF TypeOK, SaveResult, AnyResult, Result, FailedResult, ProfileStatus, SUCCESS_STATUSES

\* So does the optional result of fail_task and defer_task.
LEMMA MaybeSaveType ==
  ASSUME TypeOK, NEW p \in Person, NEW rs \in Maybe(AnyResult),
         IF rs = {} THEN KeepResult ELSE \E r \in rs : SaveResult(p, r)
  PROVE  /\ profile' \in [Person -> ProfileStatus \cup {"none"}]
         /\ ledger' \in [Person -> SUBSET Item]
<1>1. CASE rs = {}
  BY <1>1 DEF KeepResult, TypeOK
<1>2. CASE rs # {}
  <2>1. PICK r \in rs : SaveResult(p, r)
    BY <1>2
  <2>2. r \in AnyResult
    BY DEF Maybe
  <2> QED
    BY <2>1, <2>2, SaveType
<1> QED
  BY <1>1, <1>2

\* Settling a row, and answering from a receipt, keep the state well typed.
LEMMA SettleType ==
  ASSUME TypeOK, NEW l \in held, NEW o \in Outcome,
         Settle(l, o) \/ UNCHANGED <<jobStatus, task, cache>>,
         Acknowledge(l, o)
  PROVE  /\ jobStatus' \in [Job -> JobStatus \cup {"absent"}]
         /\ task' \in [Person -> Task]
         /\ \A p \in Person : task'[p].left >= Lapsed
         /\ cache' \in [Job -> SUBSET CacheRow]
         /\ acked' \in [Person -> SUBSET Outcome]
<1>1. l.person \in Person
  BY DEF TypeOK, Lease
<1>2. acked' \in [Person -> SUBSET Outcome]
  BY <1>1 DEF Acknowledge, TypeOK
<1>3. CASE Settle(l, o)
  <2> DEFINE rows == [task EXCEPT ![l.person] = Settled(@, o)]
  <2>1. 0 \in Lag
    BY ConstantsAssumption DEF Lag
  <2>2. Settled(task[l.person], o) \in Task /\ Settled(task[l.person], o).left >= Lapsed
    BY <1>1, <2>1, RowTypes DEF TypeOK
  <2>3. rows \in [Person -> Task] /\ \A p \in Person : rows[p].left >= Lapsed
    BY <1>1, <2>2 DEF TypeOK
  <2>4. Refresh({JobOf[l.person]}, rows)
    BY <1>3 DEF Settle
  <2> HIDE DEF rows
  <2> QED
    BY <1>2, <2>3, <2>4, RefreshType DEF Lapsed
<1>4. CASE UNCHANGED <<jobStatus, task, cache>>
  BY <1>2, <1>4 DEF TypeOK
<1> QED
  BY <1>3, <1>4

\* Recovering the exhausted people of some jobs keeps the rows well typed.
LEMMA RecoveredType ==
  ASSUME TypeOK, NEW J, NEW lag \in Lag
  PROVE  /\ Recovered(J, lag) \in [Person -> Task]
         /\ \A p \in Person : Recovered(J, lag)[p].left >= Lapsed
<1>1. ASSUME NEW p \in Person
      PROVE  /\ Recovered(J, lag)[p] \in Task
             /\ Recovered(J, lag)[p].left >= Lapsed
  <2>1. task[p] \in Task /\ task[p].left >= Lapsed
    BY DEF TypeOK
  <2>2. Interrupted(lag) \in Task /\ Interrupted(lag).left >= Lapsed
    BY <2>1, RowTypes
  <2> QED
    BY <2>1, <2>2 DEF Recovered
<1> QED
  BY <1>1 DEF Recovered

\* So does the claim of one person.
LEMMA ClaimPersonType ==
  ASSUME TypeOK, NEW w \in Worker, NEW t \in Token, NEW p \in Person,
         NEW lag \in Lag, ClaimPerson(w, t, p, lag)
  PROVE  TypeOK'
<1>1. PICK J : LET rows == Recovered(J, lag)
               IN /\ Candidate(rows, p, lag)
                  /\ Refresh(J \cup {JobOf[p]},
                             [rows EXCEPT ![p] = Claimed(rows[p], w, t, lag)])
  BY DEF ClaimPerson
<1> DEFINE rows == Recovered(J, lag)
           claimed == [rows EXCEPT ![p] = Claimed(rows[p], w, t, lag)]
<1>2. rows \in [Person -> Task] /\ \A q \in Person : rows[q].left >= Lapsed
  BY RecoveredType
<1>3. rows[p].attempts < MaxAttempts
  BY <1>1 DEF Candidate, MayClaim
<1>4. Refresh(J \cup {JobOf[p]}, claimed)
  BY <1>1
<1> HIDE DEF rows
<1>5. Claimed(rows[p], w, t, lag) \in Task /\ Claimed(rows[p], w, t, lag).left >= Lapsed
  BY <1>2, <1>3, RowTypes
<1>6. claimed \in [Person -> Task] /\ \A q \in Person : claimed[q].left >= Lapsed
  BY <1>2, <1>5
<1> HIDE DEF claimed
<1>7. held' \subseteq Lease
  BY DEF ClaimPerson, LeaseFor, Lease, TypeOK
<1> QED
  BY <1>4, <1>6, <1>7, RefreshType DEF ClaimPerson, TypeOK, Lapsed

\* Every method of the store keeps the state well typed.
LEMMA TypeStep == TypeOK /\ [Next]_vars => TypeOK'
<1> SUFFICES ASSUME TypeOK, [Next]_vars
             PROVE  TypeOK'
  OBVIOUS
<1> USE ConstantsAssumption
<1>0. 0 \in Lag /\ Lag \subseteq Nat /\ Lapsed \in Int
  BY DEF Lag, Lapsed
<1>1. ASSUME NEW j \in Job, NEW invalid \in SUBSET PersonsOf(j), CreateJob(j, invalid)
      PROVE  TypeOK'
  <2> DEFINE rows == [p \in Person |->
               IF JobOf[p] # j THEN task[p]
               ELSE IF p \in invalid
                    THEN NewRow("failed", Final("INVALID_ROW"))
                    ELSE NewRow("queued", NoError)]
  <2>1. NewRow("failed", Final("INVALID_ROW")) \in Task /\ NewRow("queued", NoError) \in Task
    BY <1>0, ErrorTypes DEF NewRow, Task, PersonStatus, TERMINAL_STATUSES, Why
  <2>2. rows \in [Person -> Task] /\ \A p \in Person : rows[p].left >= Lapsed
    BY <1>0, <2>1 DEF TypeOK, NewRow
  <2>3. Refresh({j}, rows)
    BY <1>1 DEF CreateJob
  <2> HIDE DEF rows
  <2> QED
    BY <1>1, <2>2, <2>3, RefreshType DEF CreateJob, TypeOK, Lapsed
<1>2. ASSUME NEW j \in Job, CancelJob(j)
      PROVE  TypeOK'
  <2>1. \A p \in Person : Cancelled(task[p]) \in Task /\ Cancelled(task[p]).left >= Lapsed
    BY <1>0, RowTypes DEF TypeOK
  <2>2. task' \in [Person -> Task] /\ \A p \in Person : task'[p].left >= Lapsed
    BY <1>2, <2>1 DEF CancelJob, TypeOK
  <2> QED
    BY <1>2, <2>2 DEF CancelJob, TypeOK, JobStatus, TerminalJobStatus, Lapsed
<1>3. ASSUME NEW w \in Worker, NEW t \in Token, NEW lag \in Lag, ClaimTask(w, t, lag)
      PROVE  TypeOK'
  <2>1. CASE RepeatClaim(w, t, lag)
    BY <2>1 DEF RepeatClaim, Existing, LeaseFor, Lease, TypeOK, Lapsed
  <2>2. CASE RecoverOnly(w, t, lag)
    <3>1. PICK j \in Job : Refresh({j}, Recovered({j}, lag))
      BY <2>2 DEF RecoverOnly, Recoverable
    <3> QED
      BY <2>2, <3>1, RecoveredType, RefreshType DEF RecoverOnly, TypeOK, Lapsed
  <2>3. CASE \E p \in Person : ClaimPerson(w, t, p, lag)
    BY <2>3, ClaimPersonType
  <2> QED
    BY <1>3, <2>1, <2>2, <2>3 DEF ClaimTask
<1>4. ASSUME NEW l \in held, Call(l)
      PROVE  TypeOK'
  <2>0. l.person \in Person
    BY DEF TypeOK, Lease
  <2>1. ASSUME NEW lag \in Lag, RenewLease(l, lag)
        PROVE  TypeOK'
    <3>1. LeaseTicks - lag \in Int /\ LeaseTicks - lag >= Lapsed
      BY DEF Lag, Lapsed
    <3>2. [task[l.person] EXCEPT !.left = LeaseTicks - lag] \in Task
      BY <2>0, <3>1, RowTypes DEF TypeOK
    <3>3. task' = [task EXCEPT ![l.person] = [task[l.person] EXCEPT !.left = LeaseTicks - lag]]
      BY <2>1 DEF RenewLease
    <3>4. \A p \in Person : task'[p].left >= Lapsed
      BY <2>0, <3>1, <3>3 DEF TypeOK, Task
    <3> QED
      BY <2>0, <2>1, <3>2, <3>3, <3>4 DEF RenewLease, TypeOK, Lapsed
  <2>2. ASSUME NEW r \in Result, Checkpoint(l, r)
        PROVE  TypeOK'
    <3> DEFINE e == IF task[l.person].error.kind = "resuming" THEN NoError
                    ELSE task[l.person].error
    <3>1. task' = [task EXCEPT ![l.person] = [task[l.person] EXCEPT !.error = e]]
      BY <2>2 DEF Checkpoint
    <3>2. e \in Error
      BY <2>0, ErrorTypes DEF TypeOK, Task
    <3>3. [task[l.person] EXCEPT !.error = e] \in Task
      BY <1>0, <2>0, <3>2, RowTypes DEF TypeOK
    <3>4. \A p \in Person : task'[p].left >= Lapsed
      BY <2>0, <3>1 DEF TypeOK, Task
    <3> QED
      BY <2>0, <2>2, <3>1, <3>3, <3>4, SaveType DEF Checkpoint, TypeOK, Lapsed, AnyResult
  <2>3. ASSUME NEW r \in Result, FinishTask(l, r)
        PROVE  TypeOK'
    <3> DEFINE o == [status |-> r.status, error |-> NoError]
    <3>1. o \in Outcome
      BY ErrorTypes DEF Outcome, Result, TERMINAL_STATUSES, SUCCESS_STATUSES
    <3>2. Settle(l, o) \/ UNCHANGED <<jobStatus, task, cache>>
      BY <2>3 DEF FinishTask
    <3>3. Acknowledge(l, o) /\ held' = held
      BY <2>3 DEF FinishTask
    <3>4. SaveResult(l.person, r) \/ UNCHANGED <<profile, ledger>>
      BY <2>3 DEF FinishTask
    <3> HIDE DEF o
    <3> QED
      BY <2>0, <3>1, <3>2, <3>3, <3>4, SettleType, SaveType DEF TypeOK, Lapsed, AnyResult
  <2>4. ASSUME NEW code \in FailureCode, NEW rs \in Maybe(FailedResult), FailTask(l, code, rs)
        PROVE  TypeOK'
    <3>0. rs \in Maybe(AnyResult)
      BY DEF Maybe, AnyResult
    <3> DEFINE o == [status |-> "failed", error |-> Final(code)]
    <3>1. o \in Outcome
      BY ErrorTypes DEF Outcome, TERMINAL_STATUSES, Why
    <3>2. Settle(l, o) \/ UNCHANGED <<jobStatus, task, cache>>
      BY <2>4 DEF FailTask
    <3>3. Acknowledge(l, o) /\ held' = held
      BY <2>4 DEF FailTask
    <3>4. \/ IF rs = {} THEN KeepResult ELSE \E r \in rs : SaveResult(l.person, r)
          \/ UNCHANGED <<profile, ledger>>
      BY <2>4 DEF FailTask
    <3> HIDE DEF o
    <3> QED
      BY <2>0, <3>0, <3>1, <3>2, <3>3, <3>4, SettleType, MaybeSaveType DEF TypeOK, Lapsed
  <2>5. ASSUME NEW code \in OutageCode, NEW s \in RetryAfter, NEW rs \in Maybe(Result),
               NEW lag \in Lag, DeferTask(l, code, s, rs, lag)
        PROVE  TypeOK'
    <3>0. rs \in Maybe(AnyResult)
      BY DEF Maybe, AnyResult
    <3> DEFINE rows == [task EXCEPT ![l.person] = Deferred(@, code, s, lag)]
    <3>1. Refresh({JobOf[l.person]}, rows) /\ held' = held /\ acked' = acked
      BY <2>5 DEF DeferTask
    <3>2. IF rs = {} THEN KeepResult ELSE \E r \in rs : SaveResult(l.person, r)
      BY <2>5 DEF DeferTask
    <3>3. /\ Deferred(task[l.person], code, s, lag) \in Task
          /\ Deferred(task[l.person], code, s, lag).left >= Lapsed
      BY <2>0, RowTypes DEF TypeOK
    <3>4. rows \in [Person -> Task] /\ \A p \in Person : rows[p].left >= Lapsed
      BY <2>0, <3>3 DEF TypeOK
    <3> HIDE DEF rows
    <3> QED
      BY <2>0, <3>0, <3>1, <3>2, <3>4, RefreshType, MaybeSaveType DEF TypeOK, Lapsed
  <2> QED
    BY <1>4, <2>1, <2>2, <2>3, <2>4, <2>5 DEF Call
<1>5. ASSUME NEW j \in Job, NEW url \in Url, NEW size \in Size, PutCache(j, url, size)
      PROVE  TypeOK'
  <2>1. [url |-> url, size |-> size, live |-> TRUE] \in CacheRow
    BY DEF CacheRow
  <2>2. cache' \in [Job -> SUBSET CacheRow]
    BY <1>5, <2>1 DEF PutCache, TypeOK
  <2> QED
    BY <1>5, <2>2 DEF PutCache, TypeOK, Lapsed
<1>6. ASSUME NEW j \in Job, NEW row \in cache[j], ExpireCache(j, row)
      PROVE  TypeOK'
  <2>1. [url |-> row.url, size |-> row.size, live |-> FALSE] \in CacheRow
    BY DEF TypeOK, CacheRow
  <2>2. cache' \in [Job -> SUBSET CacheRow]
    BY <1>6, <2>1 DEF ExpireCache, TypeOK
  <2> QED
    BY <1>6, <2>2 DEF ExpireCache, TypeOK, Lapsed
<1>7. CASE Heartbeat
  BY <1>7 DEF Heartbeat, TypeOK, Lapsed
<1>8. CASE Tick
  <2>1. ASSUME NEW p \in Person
        PROVE  task'[p] \in Task /\ task'[p].left >= Lapsed
    <3> DEFINE n == IF task[p].left > Lapsed THEN task[p].left - 1 ELSE task[p].left
    <3>1. task[p] \in Task /\ task[p].left >= Lapsed /\ task[p].left \in Int
      BY DEF TypeOK, Task
    <3>2. n \in Int /\ n >= Lapsed
      BY <1>0, <3>1
    <3>3. task'[p] = [task[p] EXCEPT !.left = n]
      BY <1>8 DEF Tick
    <3> QED
      BY <3>1, <3>2, <3>3 DEF Task
  <2> QED
    BY <1>8, <2>1 DEF Tick, TypeOK, Lapsed
<1>9. CASE UNCHANGED vars
  BY <1>9 DEF vars, TypeOK, Lapsed
<1>10. CASE \E leases \in SUBSET held : Forget(leases)
  BY <1>10 DEF Forget, TypeOK, Lapsed
<1> QED
  BY <1>1, <1>2, <1>3, <1>4, <1>5, <1>6, <1>7, <1>8, <1>9, <1>10 DEF Next

\* In every reachable state of the store every row, lease and cache entry has
\* its type: no attempt counter passes its limit, no status or error code is
\* one the code does not know.
THEOREM TypeCorrect == Spec => []TypeOK
<1>1. Init => TypeOK
  BY ConstantsAssumption, ErrorTypes
     DEF Init, TypeOK, Absent, NewRow, Task, PersonStatus, Lapsed
<1> QED
  BY <1>1, TypeStep, PTL DEF Spec

-----------------------------------------------------------------------------
(* The inductive invariant.                                                *)

RowInv(p) ==
  /\ task[p].status = "queued" => task[p].attempts < MaxAttempts
  /\ task[p].status = "researching" => task[p].token \in Token
  /\ \A o \in acked[p] : task[p].status = o.status /\ task[p].error = o.error
  /\ task[p].status \in SUCCESS_STATUSES => profile[p] = task[p].status

RowsExist ==
  \A p \in Person : jobStatus[JobOf[p]] # "absent" => task[p].status # "absent"

CancelledWithJob ==
  \A p \in Person : task[p].status = "cancelled" => jobStatus[JobOf[p]] = "cancelled"

Inv ==
  /\ TypeOK
  /\ RowsExist
  /\ CancelledWithJob
  /\ JobStatusIsCurrent
  /\ \A p \in Person : RowInv(p)

-----------------------------------------------------------------------------
(* The job status.                                                         *)

\* The derived status reads nothing of the rows but the statuses of the job's
\* own people.
LEMMA StatusForReads ==
  ASSUME NEW j, NEW a, NEW b,
         \A p \in PersonsOf(j) : a[p].status = b[p].status
  PROVE  StatusFor(j, a) = StatusFor(j, b)
BY DEF StatusFor

\* A job is open exactly when one of its people is.
LEMMA StatusForOpen ==
  ASSUME NEW j \in Job, NEW tasks,
         \A p \in PersonsOf(j) : tasks[p].status \in PersonStatus
  PROVE  StatusFor(j, tasks) \in {"queued", "running"}
           <=> \E p \in PersonsOf(j) : tasks[p].status \in {"queued", "researching"}
<1>1. \E p \in PersonsOf(j) : TRUE
  BY ConstantsAssumption DEF PersonsOf
<1> QED
  BY <1>1 DEF StatusFor, PersonStatus, TERMINAL_STATUSES, SUCCESS_STATUSES

\* Refreshing the jobs whose rows change keeps every job status current.
LEMMA RefreshCurrent ==
  ASSUME TypeOK, JobStatusIsCurrent, NEW J \in SUBSET Job,
         NEW tasks \in [Person -> Task],
         \A p \in Person : JobOf[p] \notin J => tasks[p] = task[p],
         \A j \in J : jobStatus[j] # "cancelled",
         Refresh(J, tasks)
  PROVE  JobStatusIsCurrent'
<1> SUFFICES ASSUME NEW j \in Job
             PROVE  IF jobStatus'[j] = "absent"
                    THEN \A p \in PersonsOf(j) : task'[p] = Absent
                    ELSE \/ jobStatus'[j] = StatusFor(j, task')
                         \/ /\ jobStatus'[j] = "cancelled"
                            /\ \A p \in PersonsOf(j) : task'[p].status \in TERMINAL_STATUSES
  BY DEF JobStatusIsCurrent, StatusFor, PersonsOf, Absent, NewRow, NoError, Lapsed
<1>1. CASE j \in J
  <2>1. jobStatus'[j] = StatusFor(j, task') /\ StatusFor(j, task') \in JobStatus
    BY <1>1, StatusForType DEF Refresh
  <2> QED
    BY <2>1 DEF JobStatus, TerminalJobStatus
<1>2. CASE j \notin J
  <2>1. \A p \in PersonsOf(j) : task'[p] = task[p]
    BY <1>2 DEF PersonsOf, Refresh
  <2>2. StatusFor(j, task') = StatusFor(j, task)
    BY <2>1, StatusForReads
  <2>3. jobStatus'[j] = jobStatus[j]
    BY <1>2 DEF Refresh
  <2> QED
    BY <2>1, <2>2, <2>3 DEF JobStatusIsCurrent
<1> QED
  BY <1>1, <1>2

\* Refreshing never leaves a cancelled row in a job that is not cancelled.
LEMMA RefreshCancelled ==
  ASSUME TypeOK, CancelledWithJob, NEW J, NEW tasks,
         \A j \in J : jobStatus[j] # "cancelled",
         \A p \in Person : tasks[p].status = "cancelled" => task[p].status = "cancelled",
         Refresh(J, tasks)
  PROVE  CancelledWithJob'
<1> SUFFICES ASSUME NEW p \in Person, task'[p].status = "cancelled"
             PROVE  jobStatus'[JobOf[p]] = "cancelled"
  BY DEF CancelledWithJob
<1>1. jobStatus[JobOf[p]] = "cancelled"
  BY DEF Refresh, CancelledWithJob
<1> QED
  BY <1>1, ConstantsAssumption DEF Refresh

\* So does a step that changes no status.
LEMMA SameStatusCurrent ==
  ASSUME JobStatusIsCurrent, jobStatus' = jobStatus,
         \A p \in Person : task'[p].status = task[p].status,
         \A p \in Person : task[p] = Absent => task'[p] = Absent
  PROVE  JobStatusIsCurrent'
<1>1. \A j \in Job : StatusFor(j, task') = StatusFor(j, task)
  BY StatusForReads DEF PersonsOf
<1> SUFFICES ASSUME NEW j \in Job
             PROVE  IF jobStatus'[j] = "absent"
                    THEN \A p \in PersonsOf(j) : task'[p] = Absent
                    ELSE \/ jobStatus'[j] = StatusFor(j, task')
                         \/ /\ jobStatus'[j] = "cancelled"
                            /\ \A p \in PersonsOf(j) : task'[p].status \in TERMINAL_STATUSES
  BY DEF JobStatusIsCurrent, StatusFor, PersonsOf, Absent, NewRow, NoError, Lapsed
<1> QED
  BY <1>1 DEF JobStatusIsCurrent, PersonsOf

-----------------------------------------------------------------------------
(* The rows.                                                               *)

\* A row that a step leaves alone keeps its invariant.
LEMMA RowKept ==
  ASSUME NEW p, RowInv(p), task'[p] = task[p], profile'[p] = profile[p],
         acked'[p] = acked[p]
  PROVE  RowInv(p)'
BY DEF RowInv, SUCCESS_STATUSES

\* Nobody has been told an outcome of a person that has none.
LEMMA NoAckWhileOpen ==
  ASSUME TypeOK, NEW p \in Person, RowInv(p), task[p].status \notin TERMINAL_STATUSES
  PROVE  acked[p] = {}
BY DEF TypeOK, RowInv, Outcome

\* A row without acknowledged outcomes may go to any state that is not a
\* success, as far as its own limits allow.
LEMMA RowMoved ==
  ASSUME NEW p, acked[p] = {}, acked'[p] = acked[p],
         task'[p].status \notin SUCCESS_STATUSES,
         task'[p].status = "queued" => task'[p].attempts < MaxAttempts,
         task'[p].status = "researching" => task'[p].token \in Token
  PROVE  RowInv(p)'
BY DEF RowInv, SUCCESS_STATUSES

\* The people of other rows are not touched by a call under a lease.
LEMMA OthersKept ==
  ASSUME NEW p \in Person, NEW q \in Person, q # p, Inv,
         \E r : task' = [task EXCEPT ![p] = r],
         (\E r : SaveResult(p, r)) \/ UNCHANGED <<profile, ledger>>,
         acked' = acked \/ \E o : acked' = [acked EXCEPT ![p] = @ \cup {o}]
  PROVE  RowInv(q)'
<1>1. task'[q] = task[q] /\ profile'[q] = profile[q] /\ acked'[q] = acked[q]
  BY DEF Inv, TypeOK, SaveResult
<1> QED
  BY <1>1, RowKept DEF Inv

\* What _recover_exhausted does to a row.
LEMMA RecoveredRow ==
  ASSUME TypeOK, NEW J, NEW lag \in Lag, NEW p \in Person
  PROVE  \/ Recovered(J, lag)[p] = task[p]
         \/ /\ JobOf[p] \in J /\ task[p].status = "researching" /\ ~Unexpired(task[p], lag)
            /\ Recovered(J, lag)[p].status = "queued"
            /\ Recovered(J, lag)[p].attempts < MaxAttempts
BY ConstantsAssumption DEF Recovered, Exhausted, Interrupted

\* A person being researched is in a job that exists.
LEMMA NotAbsent ==
  ASSUME Inv, NEW p \in Person, task[p].status # "absent"
  PROVE  jobStatus[JobOf[p]] # "absent"
<1>1. JobOf[p] \in Job /\ p \in PersonsOf(JobOf[p])
  BY ConstantsAssumption DEF PersonsOf
<1>2. Absent.status = "absent"
  BY DEF Absent, NewRow
<1> QED
  BY <1>1, <1>2 DEF Inv, JobStatusIsCurrent

-----------------------------------------------------------------------------
(* Each method keeps the invariant.                                        *)

\* create_job writes new rows only.
LEMMA CreateJobInv ==
  ASSUME Inv, TypeOK', NEW j \in Job, NEW invalid \in SUBSET PersonsOf(j),
         CreateJob(j, invalid)
  PROVE  Inv'
<1> DEFINE rows == [p \in Person |->
             IF JobOf[p] # j THEN task[p]
             ELSE IF p \in invalid
                  THEN NewRow("failed", Final("INVALID_ROW"))
                  ELSE NewRow("queued", NoError)]
<1>1. Refresh({j}, rows) /\ task' = rows /\ jobStatus[j] = "absent"
      /\ acked' = acked /\ profile' = profile
  BY DEF CreateJob, Refresh
<1>2. rows \in [Person -> Task]
  BY <1>1 DEF TypeOK
<1>3. ASSUME NEW p \in Person
      PROVE  RowInv(p)'
  <2>1. CASE JobOf[p] # j
    BY <1>1, <2>1, RowKept DEF Inv
  <2>2. CASE JobOf[p] = j
    <3>1. task[p].status = "absent"
      BY <1>1, <2>2 DEF Inv, JobStatusIsCurrent, PersonsOf, Absent, NewRow
    <3>2. acked[p] = {}
      BY <3>1, NoAckWhileOpen DEF Inv, TERMINAL_STATUSES, SUCCESS_STATUSES
    <3>3. /\ task'[p].status \in {"failed", "queued"}
          /\ task'[p].attempts = 0
      BY <1>1, <2>2 DEF NewRow
    <3>4. acked'[p] = acked[p]
      BY <1>1
    <3>5. task'[p].status \notin SUCCESS_STATUSES /\ task'[p].attempts < MaxAttempts
      BY <3>3, ConstantsAssumption DEF SUCCESS_STATUSES
    <3> QED
      BY <3>2, <3>3, <3>4, <3>5, RowMoved
  <2> QED
    BY <2>1, <2>2
<1>4. RowsExist'
  <2> SUFFICES ASSUME NEW p \in Person, jobStatus'[JobOf[p]] # "absent"
               PROVE  task'[p].status # "absent"
    BY DEF RowsExist
  <2>1. JobOf[p] # j => jobStatus'[JobOf[p]] = jobStatus[JobOf[p]]
    BY <1>1, ConstantsAssumption DEF Refresh
  <2> QED
    BY <1>1, <2>1 DEF Inv, RowsExist, NewRow
<1>5. JobStatusIsCurrent'
  <2>1. \A p \in Person : JobOf[p] \notin {j} => rows[p] = task[p]
    OBVIOUS
  <2>2. \A k \in {j} : jobStatus[k] # "cancelled"
    BY <1>1
  <2>3. {j} \in SUBSET Job
    OBVIOUS
  <2> HIDE DEF rows
  <2> QED
    BY <1>1, <1>2, <2>1, <2>2, <2>3, RefreshCurrent DEF Inv
<1>6. CancelledWithJob'
  <2>1. \A p \in Person : rows[p].status = "cancelled" => task[p].status = "cancelled"
    BY DEF NewRow
  <2> HIDE DEF rows
  <2> QED
    BY <1>1, <2>1, RefreshCancelled DEF Inv
<1> QED
  BY <1>3, <1>4, <1>5, <1>6 DEF Inv

\* cancel_job settles the open rows of one job and leaves the others alone.
LEMMA CancelJobInv ==
  ASSUME Inv, TypeOK', NEW j \in Job, CancelJob(j)
  PROVE  Inv'
<1>1. ASSUME NEW p \in Person
      PROVE  \/ /\ JobOf[p] = j /\ task[p].status \notin TERMINAL_STATUSES
                /\ task'[p].status = "cancelled"
             \/ /\ JobOf[p] = j => task[p].status \in TERMINAL_STATUSES
                /\ task'[p] = task[p]
  BY DEF CancelJob, Cancelled
<1>2. acked' = acked /\ profile' = profile
  BY DEF CancelJob
<1>3. \A k \in Job : k # j => jobStatus'[k] = jobStatus[k]
  BY DEF CancelJob, Inv, TypeOK
<1>4. jobStatus[j] # "absent" /\ jobStatus'[j] = "cancelled"
  BY DEF CancelJob, Inv, TypeOK
<1>5. ASSUME NEW p \in Person
      PROVE  RowInv(p)'
  <2>1. CASE task'[p] = task[p]
    BY <1>2, <2>1, RowKept DEF Inv
  <2>2. CASE task[p].status \notin TERMINAL_STATUSES /\ task'[p].status = "cancelled"
    <3>1. acked[p] = {}
      BY <2>2, NoAckWhileOpen DEF Inv
    <3> QED
      BY <1>2, <2>2, <3>1, RowMoved DEF SUCCESS_STATUSES
  <2> QED
    BY <1>1, <2>1, <2>2
<1>6. RowsExist'
  <2> SUFFICES ASSUME NEW p \in Person, jobStatus'[JobOf[p]] # "absent"
               PROVE  task'[p].status # "absent"
    BY DEF RowsExist
  <2>1. jobStatus[JobOf[p]] # "absent"
    BY <1>3, <1>4, ConstantsAssumption
  <2> QED
    BY <1>1, <2>1 DEF Inv, RowsExist
<1>7. JobStatusIsCurrent'
  <2> SUFFICES ASSUME NEW k \in Job
               PROVE  IF jobStatus'[k] = "absent"
                      THEN \A p \in PersonsOf(k) : task'[p] = Absent
                      ELSE \/ jobStatus'[k] = StatusFor(k, task')
                           \/ /\ jobStatus'[k] = "cancelled"
                              /\ \A p \in PersonsOf(k) : task'[p].status \in TERMINAL_STATUSES
    BY DEF JobStatusIsCurrent, StatusFor, PersonsOf, Absent, NewRow, NoError, Lapsed
  <2>1. CASE k = j
    BY <1>1, <1>4, <2>1 DEF PersonsOf, TERMINAL_STATUSES
  <2>2. CASE k # j
    <3>1. \A p \in PersonsOf(k) : task'[p] = task[p]
      BY <1>1, <2>2 DEF PersonsOf
    <3>2. StatusFor(k, task') = StatusFor(k, task)
      BY <3>1, StatusForReads
    <3> QED
      BY <1>3, <2>2, <3>1, <3>2 DEF Inv, JobStatusIsCurrent
  <2> QED
    BY <2>1, <2>2
<1>8. CancelledWithJob'
  BY <1>1, <1>3, <1>4, ConstantsAssumption DEF Inv, CancelledWithJob
<1> QED
  BY <1>5, <1>6, <1>7, <1>8 DEF Inv

\* _recover_exhausted puts exhausted people back into the queue.
LEMMA RecoverOnlyInv ==
  ASSUME Inv, TypeOK', NEW w \in Worker, NEW t \in Token, NEW lag \in Lag,
         RecoverOnly(w, t, lag)
  PROVE  Inv'
<1>1. PICK j \in Recoverable(lag) : Refresh({j}, Recovered({j}, lag))
  BY DEF RecoverOnly
<1> DEFINE rows == Recovered({j}, lag)
<1>2. j \in Job /\ jobStatus[j] \in {"queued", "running"}
  BY DEF Recoverable
<1>3. task' = rows /\ acked' = acked /\ profile' = profile
  BY <1>1 DEF Refresh, RecoverOnly
<1>4. rows \in [Person -> Task] /\ \A p \in Person : JobOf[p] \notin {j} => rows[p] = task[p]
  BY <1>3, RecoveredType DEF Inv, Recovered
<1>5. ASSUME NEW p \in Person
      PROVE  \/ rows[p] = task[p]
             \/ /\ task[p].status = "researching"
                /\ rows[p].status = "queued" /\ rows[p].attempts < MaxAttempts
  BY RecoveredRow DEF Inv
<1> HIDE DEF rows
<1>6. ASSUME NEW p \in Person
      PROVE  RowInv(p)'
  <2>1. CASE rows[p] = task[p]
    BY <1>3, <2>1, RowKept DEF Inv
  <2>2. CASE task[p].status = "researching" /\ rows[p].status = "queued"
             /\ rows[p].attempts < MaxAttempts
    <3>1. acked[p] = {}
      BY <2>2, NoAckWhileOpen DEF Inv, TERMINAL_STATUSES, SUCCESS_STATUSES
    <3> QED
      BY <1>3, <2>2, <3>1, RowMoved DEF SUCCESS_STATUSES
  <2> QED
    BY <1>5, <2>1, <2>2
<1>7. RowsExist'
  <2> SUFFICES ASSUME NEW p \in Person, jobStatus'[JobOf[p]] # "absent"
               PROVE  task'[p].status # "absent"
    BY DEF RowsExist
  <2>1. JobOf[p] # j => jobStatus'[JobOf[p]] = jobStatus[JobOf[p]]
    BY <1>1, ConstantsAssumption DEF Refresh
  <2>2. jobStatus[JobOf[p]] # "absent"
    BY <1>2, <2>1
  <2> QED
    BY <1>3, <1>5, <2>2 DEF Inv, RowsExist
<1>8. JobStatusIsCurrent'
  <2>1. {j} \in SUBSET Job /\ \A k \in {j} : jobStatus[k] # "cancelled"
    BY <1>2
  <2>2. Refresh({j}, rows)
    BY <1>1 DEF rows
  <2> QED
    BY <1>4, <2>1, <2>2, RefreshCurrent DEF Inv
<1>9. CancelledWithJob'
  <2>1. \A k \in {j} : jobStatus[k] # "cancelled"
    BY <1>2
  <2>2. Refresh({j}, rows)
    BY <1>1 DEF rows
  <2> QED
    BY <1>5, <2>1, <2>2, RefreshCancelled DEF Inv
<1> QED
  BY <1>6, <1>7, <1>8, <1>9 DEF Inv

\* A claim gives one person, recovered or not, to a worker.
LEMMA ClaimPersonInv ==
  ASSUME Inv, TypeOK', NEW w \in Worker, NEW t \in Token, NEW p \in Person,
         NEW lag \in Lag, ClaimPerson(w, t, p, lag)
  PROVE  Inv'
<1>1. PICK J \in {{}} \cup {{j} : j \in Recoverable(lag)} :
        LET rows == Recovered(J, lag)
        IN /\ Candidate(rows, p, lag)
           /\ Refresh(J \cup {JobOf[p]},
                      [rows EXCEPT ![p] = Claimed(rows[p], w, t, lag)])
  BY DEF ClaimPerson
<1> DEFINE rows == Recovered(J, lag)
           claimed == [rows EXCEPT ![p] = Claimed(rows[p], w, t, lag)]
           K == J \cup {JobOf[p]}
<1>2. /\ jobStatus[JobOf[p]] \notin {"absent", "cancelled"}
      /\ rows[p].status \in {"queued", "researching"}
  BY <1>1 DEF Candidate, MayClaim, Claimable
<1>3. K \in SUBSET Job /\ \A k \in K : jobStatus[k] \notin {"absent", "cancelled"}
  BY <1>2, ConstantsAssumption DEF Recoverable
<1>4. ASSUME NEW q \in Person
      PROVE  \/ rows[q] = task[q]
             \/ /\ JobOf[q] \in J /\ task[q].status = "researching"
                /\ rows[q].status = "queued" /\ rows[q].attempts < MaxAttempts
  BY RecoveredRow DEF Inv
<1>5. task' = claimed /\ acked' = acked /\ profile' = profile
  BY <1>1 DEF Refresh, ClaimPerson
<1>6. rows \in [Person -> Task]
  BY RecoveredType DEF Inv
<1>7. Refresh(K, claimed)
  BY <1>1
<1> HIDE DEF rows
<1>8. claimed \in [Person -> Task]
  BY <1>5 DEF TypeOK
<1>9. claimed[p].status = "researching" /\ claimed[p].token \in Token
  BY <1>6 DEF Claimed
<1>10. \A q \in Person : q # p => claimed[q] = rows[q]
  BY <1>6
<1>11. task[p].status \in {"queued", "researching"}
  BY <1>2, <1>4
<1> HIDE DEF claimed, K
<1>12. ASSUME NEW q \in Person
       PROVE  RowInv(q)'
  <2>1. CASE q = p
    <3>1. acked[p] = {}
      BY <1>11, NoAckWhileOpen DEF Inv, TERMINAL_STATUSES, SUCCESS_STATUSES
    <3> QED
      BY <1>5, <1>9, <2>1, <3>1, RowMoved DEF SUCCESS_STATUSES
  <2>2. CASE q # p /\ rows[q] = task[q]
    BY <1>5, <1>10, <2>2, RowKept DEF Inv
  <2>3. CASE q # p /\ task[q].status = "researching" /\ rows[q].status = "queued"
             /\ rows[q].attempts < MaxAttempts
    <3>1. acked[q] = {}
      BY <2>3, NoAckWhileOpen DEF Inv, TERMINAL_STATUSES, SUCCESS_STATUSES
    <3> QED
      BY <1>5, <1>10, <2>3, <3>1, RowMoved DEF SUCCESS_STATUSES
  <2> QED
    BY <1>4, <2>1, <2>2, <2>3
<1>13. RowsExist'
  <2> SUFFICES ASSUME NEW q \in Person, jobStatus'[JobOf[q]] # "absent"
               PROVE  task'[q].status # "absent"
    BY DEF RowsExist
  <2>1. JobOf[q] \notin K => jobStatus'[JobOf[q]] = jobStatus[JobOf[q]]
    BY <1>7, ConstantsAssumption DEF Refresh
  <2>2. jobStatus[JobOf[q]] # "absent"
    BY <1>3, <2>1
  <2>3. task[q].status # "absent"
    BY <2>2 DEF Inv, RowsExist
  <2> QED
    BY <1>4, <1>5, <1>9, <1>10, <2>3
<1>14. JobStatusIsCurrent'
  <2>1. \A q \in Person : JobOf[q] \notin K => claimed[q] = task[q]
    BY <1>4, <1>10 DEF K
  <2> QED
    BY <1>3, <1>7, <1>8, <2>1, RefreshCurrent DEF Inv
<1>15. CancelledWithJob'
  <2>1. \A q \in Person : claimed[q].status = "cancelled" => task[q].status = "cancelled"
    BY <1>4, <1>9, <1>10
  <2> QED
    BY <1>3, <1>7, <2>1, RefreshCancelled DEF Inv
<1> QED
  BY <1>12, <1>13, <1>14, <1>15 DEF Inv

\* A call that settles its row, or hands it back, rewrites one existing row of
\* a job that is not cancelled.
LEMMA OneRowInv ==
  ASSUME Inv, TypeOK', NEW p \in Person, NEW r,
         task[p].status = "researching", jobStatus[JobOf[p]] # "cancelled",
         Refresh({JobOf[p]}, [task EXCEPT ![p] = r]), r.status \notin {"absent", "cancelled"},
         RowInv(p)',
         (\E s : SaveResult(p, s)) \/ UNCHANGED <<profile, ledger>>,
         acked' = acked \/ \E o : acked' = [acked EXCEPT ![p] = @ \cup {o}]
  PROVE  Inv'
<1> DEFINE rows == [task EXCEPT ![p] = r]
<1>1. task' = rows /\ rows \in [Person -> Task]
  BY DEF Refresh, TypeOK
<1>2. JobOf[p] \in Job /\ {JobOf[p]} \in SUBSET Job
  BY ConstantsAssumption
<1>3. \A q \in Person : RowInv(q)'
  BY <1>1, OthersKept
<1>4. jobStatus[JobOf[p]] # "absent"
  BY NotAbsent
<1>5. rows[p] = r /\ \A q \in Person : q # p => rows[q] = task[q]
  BY DEF Inv, TypeOK
<1>6. Refresh({JobOf[p]}, rows)
  OBVIOUS
<1> HIDE DEF rows
<1>7. RowsExist'
  <2> SUFFICES ASSUME NEW q \in Person, jobStatus'[JobOf[q]] # "absent"
               PROVE  task'[q].status # "absent"
    BY DEF RowsExist
  <2>1. JobOf[q] # JobOf[p] => jobStatus'[JobOf[q]] = jobStatus[JobOf[q]]
    BY <1>6, ConstantsAssumption DEF Refresh
  <2> QED
    BY <1>1, <1>4, <1>5, <2>1 DEF Inv, RowsExist
<1>8. JobStatusIsCurrent'
  BY <1>1, <1>2, <1>5, <1>6, RefreshCurrent DEF Inv
<1>9. CancelledWithJob'
  <2>1. \A q \in Person : rows[q].status = "cancelled" => task[q].status = "cancelled"
    BY <1>5
  <2> QED
    BY <1>6, <2>1, RefreshCancelled DEF Inv
<1> QED
  BY <1>3, <1>7, <1>8, <1>9 DEF Inv

\* A step that changes no status keeps the invariant if it keeps that of every
\* row.
LEMMA SameStatusInv ==
  ASSUME Inv, TypeOK', jobStatus' = jobStatus,
         \A p \in Person : task'[p].status = task[p].status,
         \A p \in Person : task[p] = Absent => task'[p] = Absent,
         \A p \in Person : RowInv(p)'
  PROVE  Inv'
<1>1. RowsExist'
  BY DEF Inv, RowsExist
<1>2. JobStatusIsCurrent'
  BY SameStatusCurrent DEF Inv
<1>3. CancelledWithJob'
  BY DEF Inv, CancelledWithJob
<1> QED
  BY <1>1, <1>2, <1>3 DEF Inv

\* A renewal moves an expiry.
LEMMA RenewLeaseInv ==
  ASSUME Inv, TypeOK', NEW l \in held, NEW lag \in Lag, RenewLease(l, lag)
  PROVE  Inv'
<1>1. l.person \in Person /\ task[l.person].status = "researching"
  BY DEF Inv, TypeOK, Lease, RenewLease, Owns
<1>2. /\ task' = [task EXCEPT ![l.person].left = LeaseTicks - lag]
      /\ UNCHANGED <<jobStatus, profile, ledger, acked>>
  BY DEF RenewLease
<1>3. task[l.person] # Absent
  BY <1>1 DEF Absent, NewRow
<1>4. ASSUME NEW p \in Person
      PROVE  /\ task'[p].status = task[p].status /\ task'[p].token = task[p].token
             /\ task'[p].attempts = task[p].attempts /\ task'[p].error = task[p].error
             /\ task[p] = Absent => task'[p] = Absent
  BY <1>1, <1>2, <1>3 DEF Inv, TypeOK, Task
<1>5. \A p \in Person : RowInv(p)'
  BY <1>2, <1>4 DEF Inv, RowInv, SUCCESS_STATUSES
<1> QED
  BY <1>2, <1>4, <1>5, SameStatusInv

\* A checkpoint saves a result for a person being researched.
LEMMA CheckpointInv ==
  ASSUME Inv, TypeOK', NEW l \in held, NEW r \in Result, Checkpoint(l, r)
  PROVE  Inv'
<1>1. l.person \in Person /\ task[l.person].status = "researching"
  BY DEF Inv, TypeOK, Lease, Checkpoint, Owns
<1>2. /\ task' = [task EXCEPT ![l.person].error =
                     IF @.kind = "resuming" THEN NoError ELSE @]
      /\ UNCHANGED <<jobStatus, acked>>
      /\ SaveResult(l.person, r)
  BY DEF Checkpoint
<1>3. task[l.person] # Absent
  BY <1>1 DEF Absent, NewRow
<1>4. ASSUME NEW p \in Person
      PROVE  /\ task'[p].status = task[p].status /\ task'[p].token = task[p].token
             /\ task'[p].attempts = task[p].attempts
             /\ p # l.person => task'[p] = task[p] /\ profile'[p] = profile[p]
  BY <1>1, <1>2 DEF Inv, TypeOK, Task, SaveResult
<1>5. acked[l.person] = {}
  BY <1>1, NoAckWhileOpen DEF Inv, TERMINAL_STATUSES, SUCCESS_STATUSES
<1>6. RowInv(l.person)'
  BY <1>1, <1>2, <1>4, <1>5 DEF Inv, RowInv, SUCCESS_STATUSES
<1>7. \A p \in Person : RowInv(p)'
  BY <1>2, <1>4, <1>6, RowKept DEF Inv
<1>8. \A p \in Person : task[p] = Absent => task'[p] = Absent
  BY <1>3, <1>4
<1> QED
  BY <1>2, <1>4, <1>7, <1>8, SameStatusInv

\* finish_task and fail_task: the outcome told to the caller is the one on the
\* row, settled now or found there by the receipt.
LEMMA SettleInv ==
  ASSUME Inv, TypeOK', NEW l \in held, NEW o \in Outcome, NotCancelled(l),
         o.status # "cancelled",
         \/ /\ Owns(l, 0)
            /\ Settle(l, o)
            /\ (\E s : SaveResult(l.person, s)) \/ UNCHANGED <<profile, ledger>>
            /\ o.status \in SUCCESS_STATUSES => profile'[l.person] = o.status
         \/ /\ Receipt(l, o)
            /\ UNCHANGED <<jobStatus, task, cache, profile, ledger>>,
         Acknowledge(l, o)
  PROVE  Inv'
<1>1. l.person \in Person
  BY DEF Inv, TypeOK, Lease
<1>2. acked' = acked \/ acked' = [acked EXCEPT ![l.person] = @ \cup {o}]
  BY DEF Acknowledge
<1>3. acked'[l.person] \subseteq acked[l.person] \cup {o}
  BY <1>1, <1>2 DEF Inv, TypeOK
<1>4. CASE /\ Owns(l, 0) /\ Settle(l, o)
           /\ (\E s : SaveResult(l.person, s)) \/ UNCHANGED <<profile, ledger>>
           /\ o.status \in SUCCESS_STATUSES => profile'[l.person] = o.status
  <2> DEFINE r == Settled(task[l.person], o)
  <2>1. task[l.person].status = "researching"
    BY <1>4 DEF Owns
  <2>2. Refresh({JobOf[l.person]}, [task EXCEPT ![l.person] = r])
    BY <1>4 DEF Settle
  <2>3. task'[l.person] = r
    BY <1>1, <2>2 DEF Refresh, Inv, TypeOK
  <2>4. r.status = o.status /\ r.error = o.error /\ o.status \in TERMINAL_STATUSES
    BY DEF Settled, Outcome
  <2>5. acked[l.person] = {}
    BY <1>1, <2>1, NoAckWhileOpen DEF Inv, TERMINAL_STATUSES, SUCCESS_STATUSES
  <2> HIDE DEF r
  <2>6. RowInv(l.person)'
    BY <1>3, <1>4, <2>3, <2>4, <2>5 DEF RowInv, TERMINAL_STATUSES, SUCCESS_STATUSES
  <2>7. r.status \notin {"absent", "cancelled"} /\ jobStatus[JobOf[l.person]] # "cancelled"
    BY <2>4 DEF NotCancelled, TERMINAL_STATUSES, SUCCESS_STATUSES
  <2> QED
    BY <1>1, <1>2, <1>4, <2>1, <2>2, <2>6, <2>7, OneRowInv
<1>5. CASE Receipt(l, o) /\ UNCHANGED <<jobStatus, task, cache, profile, ledger>>
  <2>1. RowInv(l.person)'
    BY <1>1, <1>3, <1>5 DEF Inv, RowInv, Receipt, SUCCESS_STATUSES
  <2>2. \A p \in Person : p # l.person => acked'[p] = acked[p]
    BY <1>2 DEF Inv, TypeOK
  <2>3. \A p \in Person : RowInv(p)'
    BY <1>5, <2>1, <2>2, RowKept DEF Inv
  <2> QED
    BY <1>5, <2>3, SameStatusInv
<1> QED
  BY <1>4, <1>5

\* finish_task publishes the profile it settles the person with.
LEMMA FinishTaskInv ==
  ASSUME Inv, TypeOK', NEW l \in held, NEW r \in Result, FinishTask(l, r)
  PROVE  Inv'
<1> DEFINE o == [status |-> r.status, error |-> NoError]
<1>1. o \in Outcome
  BY ErrorTypes DEF Outcome, Result, TERMINAL_STATUSES, SUCCESS_STATUSES
<1>2. l.person \in Person
  BY DEF Inv, TypeOK, Lease
<1>3. /\ SaveResult(l.person, r) => profile'[l.person] = o.status
      /\ o.status # "cancelled"
  BY <1>2 DEF SaveResult, Inv, TypeOK, Result, SUCCESS_STATUSES
<1>4. NotCancelled(l) /\ Acknowledge(l, o)
  BY DEF FinishTask
<1>5. \/ Owns(l, 0) /\ Settle(l, o) /\ SaveResult(l.person, r)
      \/ Receipt(l, o) /\ UNCHANGED <<jobStatus, task, cache, profile, ledger>>
  BY DEF FinishTask
<1> HIDE DEF o
<1> QED
  BY <1>1, <1>3, <1>4, <1>5, SettleInv

\* fail_task settles the person as failed.
LEMMA FailTaskInv ==
  ASSUME Inv, TypeOK', NEW l \in held, NEW code \in FailureCode,
         NEW rs, FailTask(l, code, rs)
  PROVE  Inv'
<1> DEFINE o == [status |-> "failed", error |-> Final(code)]
<1>1. o \in Outcome
  BY ErrorTypes DEF Outcome, TERMINAL_STATUSES, Why
<1>2. o.status \notin SUCCESS_STATUSES /\ o.status # "cancelled"
  BY DEF SUCCESS_STATUSES
<1>3. NotCancelled(l) /\ Acknowledge(l, o)
  BY DEF FailTask
<1>4. \/ /\ Owns(l, 0) /\ Settle(l, o)
         /\ (\E s : SaveResult(l.person, s)) \/ UNCHANGED <<profile, ledger>>
      \/ Receipt(l, o) /\ UNCHANGED <<jobStatus, task, cache, profile, ledger>>
  BY DEF FailTask, KeepResult
<1> HIDE DEF o
<1> QED
  BY <1>1, <1>2, <1>3, <1>4, SettleInv

\* defer_task hands the person back with an attempt to spare.
LEMMA DeferTaskInv ==
  ASSUME Inv, TypeOK', NEW l \in held, NEW code \in OutageCode, NEW s \in RetryAfter,
         NEW rs, NEW lag \in Lag, DeferTask(l, code, s, rs, lag)
  PROVE  Inv'
<1> DEFINE r == Deferred(task[l.person], code, s, lag)
<1>1. l.person \in Person /\ task[l.person].status = "researching"
  BY DEF Inv, TypeOK, Lease, DeferTask, Owns
<1>2. Refresh({JobOf[l.person]}, [task EXCEPT ![l.person] = r])
  BY DEF DeferTask
<1>3. task'[l.person] = r
  BY <1>1, <1>2 DEF Refresh, Inv, TypeOK
<1>4. task[l.person].attempts \in 0 .. MaxAttempts
  BY <1>1 DEF Inv, TypeOK, Task
<1>5. r.status = "queued" /\ r.attempts < MaxAttempts
  BY <1>4, ConstantsAssumption DEF Deferred, AtLeast
<1>6. acked[l.person] = {} /\ acked' = acked
  BY <1>1, NoAckWhileOpen DEF Inv, DeferTask, TERMINAL_STATUSES, SUCCESS_STATUSES
<1> HIDE DEF r
<1>7. RowInv(l.person)'
  BY <1>3, <1>5, <1>6, RowMoved DEF SUCCESS_STATUSES
<1>8. (\E x : SaveResult(l.person, x)) \/ UNCHANGED <<profile, ledger>>
  BY DEF DeferTask, KeepResult
<1>9. jobStatus[JobOf[l.person]] # "cancelled"
  BY DEF DeferTask, NotCancelled
<1> QED
  BY <1>1, <1>2, <1>5, <1>6, <1>7, <1>8, <1>9, OneRowInv

\* The passing of time moves expiries and nothing else.
LEMMA TickInv ==
  ASSUME Inv, TypeOK', Tick
  PROVE  Inv'
<1>1. UNCHANGED <<jobStatus, profile, ledger, acked>>
  BY DEF Tick
<1>2. ASSUME NEW p \in Person
      PROVE  /\ task'[p].status = task[p].status /\ task'[p].token = task[p].token
             /\ task'[p].attempts = task[p].attempts /\ task'[p].error = task[p].error
             /\ task[p] = Absent => task'[p] = Absent
  <2>1. task'[p] = [task[p] EXCEPT !.left = IF @ > Lapsed THEN @ - 1 ELSE @]
    BY DEF Tick
  <2>2. Lapsed \in Int /\ task[p] \in Task
    BY ConstantsAssumption DEF Lapsed, Inv, TypeOK
  <2> QED
    BY <2>1, <2>2 DEF Task, Absent, NewRow
<1>3. \A p \in Person : RowInv(p)'
  BY <1>1, <1>2 DEF Inv, RowInv, SUCCESS_STATUSES
<1> QED
  BY <1>1, <1>2, <1>3, SameStatusInv

\* A step that changes neither a row, nor a job, nor a profile, nor an answer.
LEMMA StutterInv ==
  ASSUME Inv, TypeOK', UNCHANGED <<jobStatus, task, profile, acked>>
  PROVE  Inv'
<1>1. \A p \in Person : RowInv(p)'
  BY RowKept DEF Inv
<1> QED
  BY <1>1, SameStatusInv

\* Inv is inductive.
LEMMA InvStep == Inv /\ [Next]_vars => Inv'
<1> SUFFICES ASSUME Inv, [Next]_vars
             PROVE  Inv'
  OBVIOUS
<1>0. TypeOK'
  BY TypeStep DEF Inv
<1>1. CASE \E j \in Job : \E invalid \in SUBSET PersonsOf(j) : CreateJob(j, invalid)
  BY <1>0, <1>1, CreateJobInv
<1>2. CASE \E j \in Job : CancelJob(j)
  BY <1>0, <1>2, CancelJobInv
<1>3. ASSUME NEW w \in Worker, NEW t \in Token, NEW lag \in Lag, ClaimTask(w, t, lag)
      PROVE  Inv'
  <2>1. CASE RepeatClaim(w, t, lag)
    BY <1>0, <2>1, StutterInv DEF RepeatClaim
  <2>2. CASE RecoverOnly(w, t, lag)
    BY <1>0, <2>2, RecoverOnlyInv
  <2>3. CASE \E p \in Person : ClaimPerson(w, t, p, lag)
    BY <1>0, <2>3, ClaimPersonInv
  <2> QED
    BY <1>3, <2>1, <2>2, <2>3 DEF ClaimTask
<1>4. ASSUME NEW l \in held, Call(l)
      PROVE  Inv'
  <2>1. CASE \E lag \in Lag : RenewLease(l, lag)
    BY <1>0, <2>1, RenewLeaseInv
  <2>2. CASE \E r \in Result : Checkpoint(l, r)
    BY <1>0, <2>2, CheckpointInv
  <2>3. CASE \E r \in Result : FinishTask(l, r)
    BY <1>0, <2>3, FinishTaskInv
  <2>4. CASE \E code \in FailureCode, rs \in Maybe(FailedResult) : FailTask(l, code, rs)
    BY <1>0, <2>4, FailTaskInv
  <2>5. CASE \E code \in OutageCode, s \in RetryAfter, rs \in Maybe(Result), lag \in Lag :
               DeferTask(l, code, s, rs, lag)
    BY <1>0, <2>5, DeferTaskInv
  <2> QED
    BY <1>4, <2>1, <2>2, <2>3, <2>4, <2>5 DEF Call
<1>5. CASE \E j \in Job, url \in Url, size \in Size : PutCache(j, url, size)
  BY <1>0, <1>5, StutterInv DEF PutCache
<1>6. CASE \E j \in Job : \E row \in cache[j] : ExpireCache(j, row)
  BY <1>0, <1>6, StutterInv DEF ExpireCache
<1>7. CASE Heartbeat
  BY <1>0, <1>7, StutterInv DEF Heartbeat
<1>8. CASE Tick
  BY <1>0, <1>8, TickInv
<1>9. CASE UNCHANGED vars
  BY <1>0, <1>9, StutterInv DEF vars
<1>10. CASE \E leases \in SUBSET held : Forget(leases)
  BY <1>0, <1>10, StutterInv DEF Forget
<1> QED
  BY <1>1, <1>2, <1>3, <1>4, <1>5, <1>6, <1>7, <1>8, <1>9, <1>10 DEF Next

\* Nothing is stored yet.
LEMMA InvInit == Init => Inv
<1> SUFFICES ASSUME Init
             PROVE  Inv
  OBVIOUS
<1>1. TypeOK
  BY ConstantsAssumption, ErrorTypes
     DEF Init, TypeOK, Absent, NewRow, Task, PersonStatus, Lapsed
<1>2. RowsExist /\ CancelledWithJob /\ JobStatusIsCurrent
  BY ConstantsAssumption
     DEF Init, RowsExist, CancelledWithJob, JobStatusIsCurrent, PersonsOf, Absent, NewRow
<1>3. \A p \in Person : RowInv(p)
  BY DEF Init, RowInv, Absent, NewRow, SUCCESS_STATUSES
<1> QED
  BY <1>1, <1>2, <1>3 DEF Inv

LEMMA InvCorrect == Spec => []Inv
BY InvInit, InvStep, PTL DEF Spec

-----------------------------------------------------------------------------
(* The properties.                                                         *)

\* The status the API answers for a job is what its people's rows say, unless
\* a user cancelled it: no store method forgets _refresh_job_status.
THEOREM StatusCorrect == Spec => []JobStatusIsCurrent
<1>1. Inv => JobStatusIsCurrent
  BY DEF Inv
<1> QED
  BY <1>1, InvCorrect, PTL

\* Whatever stalled, repeated and late calls follow, an outcome that a worker
\* was told is stored stands.
THEOREM AckedOutcomeCorrect == Spec => []AckedOutcomeStands
<1>1. Inv => AckedOutcomeStands
  BY DEF Inv, RowInv, AckedOutcomeStands
<1> QED
  BY <1>1, InvCorrect, PTL

\* The profile a finished person shows is the one it finished with.
THEOREM PublishedCorrect == Spec => []PublishedProfile
<1>1. Inv => PublishedProfile
  BY DEF Inv, RowInv, PublishedProfile
<1> QED
  BY <1>1, InvCorrect, PTL

\* No open person is out of reach of claim_task and its recovery.
LEMMA ReachableFromInv == Inv => OpenPersonIsReachable
<1> SUFFICES ASSUME Inv, NEW p \in Person, Open(p)
             PROVE  /\ jobStatus[JobOf[p]] \in {"queued", "running"}
                    /\ task[p].status = "queued" => task[p].attempts < MaxAttempts
                    /\ ~Unexpired(task[p], 0) =>
                         \/ MayClaim(task, p, 0)
                         \/ Exhausted(p, 0) /\ JobOf[p] \in Recoverable(0)
  BY DEF OpenPersonIsReachable
<1>1. JobOf[p] \in Job /\ p \in PersonsOf(JobOf[p])
  BY ConstantsAssumption DEF PersonsOf
<1>2. task[p].status \in {"queued", "researching"} /\ task[p].attempts \in 0 .. MaxAttempts
  BY DEF Open, Inv, TypeOK, Task
<1>3. jobStatus[JobOf[p]] # "absent"
  BY <1>2, NotAbsent
<1>4. jobStatus[JobOf[p]] = StatusFor(JobOf[p], task)
  BY <1>1, <1>2, <1>3 DEF Inv, JobStatusIsCurrent, TERMINAL_STATUSES, SUCCESS_STATUSES
<1>5. \A q \in PersonsOf(JobOf[p]) : task[q].status \in PersonStatus
  BY <1>3 DEF Inv, RowsExist, PersonsOf, TypeOK, Task
<1>6. jobStatus[JobOf[p]] \in {"queued", "running"}
  BY <1>1, <1>2, <1>4, <1>5, StatusForOpen
<1>7. task[p].status = "queued" => task[p].attempts < MaxAttempts
  BY DEF Inv, RowInv
<1>8. ASSUME ~Unexpired(task[p], 0)
      PROVE  \/ MayClaim(task, p, 0)
             \/ Exhausted(p, 0) /\ JobOf[p] \in Recoverable(0)
  <2>1. CASE task[p].attempts < MaxAttempts
    BY <1>2, <1>6, <1>8, <2>1 DEF MayClaim, Claimable
  <2>2. CASE ~(task[p].attempts < MaxAttempts)
    <3>1. Exhausted(p, 0)
      BY <1>2, <1>7, <1>8, <2>2, ConstantsAssumption DEF Exhausted
    <3> QED
      BY <1>1, <1>6, <3>1 DEF Recoverable
  <2> QED
    BY <2>1, <2>2
<1> QED
  BY <1>6, <1>7, <1>8

\* No person is lost in the queue: an open person is in a job that claim_task
\* looks at, and once its lease or pause lapses it is claimed or recovered.
THEOREM ReachableCorrect == Spec => []OpenPersonIsReachable
BY ReachableFromInv, InvCorrect, PTL

-----------------------------------------------------------------------------
(* What a step may never do.                                               *)

\* Saving a result touches one person.
LEMMA SaveTouchesOne ==
  ASSUME TypeOK, NEW p, NEW q \in Person, q # p, NEW r, SaveResult(p, r)
  PROVE  profile'[q] = profile[q] /\ ledger'[q] = ledger[q]
BY DEF TypeOK, SaveResult

WriteGuarded(p) ==
  profile'[p] # profile[p] \/ ledger'[p] # ledger[p]
    => /\ task[p].status = "researching"
       /\ jobStatus[JobOf[p]] # "cancelled"

\* Nothing is written about a person but by a call of its owner.
LEMMA WriteStep ==
  ASSUME Inv, Next, NEW p \in Person
  PROVE  WriteGuarded(p)
<1>1. CASE UNCHANGED <<profile, ledger>>
  BY <1>1 DEF WriteGuarded
<1>2. ASSUME NEW l \in held, NotCancelled(l), Owns(l, 0) \/ (\E lag \in Lag : Owns(l, lag)),
             NEW r, SaveResult(l.person, r)
      PROVE  WriteGuarded(p)
  <2>1. task[l.person].status = "researching" /\ jobStatus[JobOf[l.person]] # "cancelled"
    BY <1>2 DEF Owns, NotCancelled
  <2> QED
    BY <1>2, <2>1, SaveTouchesOne DEF WriteGuarded, Inv
<1>3. ASSUME NEW l \in held, Call(l)
      PROVE  WriteGuarded(p)
  <2>1. CASE \E lag \in Lag : RenewLease(l, lag)
    BY <1>1, <2>1 DEF RenewLease
  <2>2. CASE \E r \in Result : Checkpoint(l, r)
    BY <1>2, <2>2 DEF Checkpoint
  <2>3. CASE \E r \in Result : FinishTask(l, r)
    BY <1>1, <1>2, <2>3 DEF FinishTask
  <2>4. CASE \E code \in FailureCode, rs \in Maybe(FailedResult) : FailTask(l, code, rs)
    BY <1>1, <1>2, <2>4 DEF FailTask, KeepResult
  <2>5. CASE \E code \in OutageCode, s \in RetryAfter, rs \in Maybe(Result), lag \in Lag :
               DeferTask(l, code, s, rs, lag)
    BY <1>1, <1>2, <2>5 DEF DeferTask, KeepResult
  <2> QED
    BY <1>3, <2>1, <2>2, <2>3, <2>4, <2>5 DEF Call
<1>4. CASE \E w \in Worker, t \in Token, lag \in Lag : ClaimTask(w, t, lag)
  BY <1>1, <1>4 DEF ClaimTask, RepeatClaim, RecoverOnly, ClaimPerson
<1> QED
  BY <1>1, <1>3, <1>4
     DEF Next, CreateJob, CancelJob, PutCache, ExpireCache, Heartbeat, Tick, Forget

\* Nothing is written about a person outside its research.
THEOREM WriteCorrect == Spec => NoWriteAfterClose
<1>1. Inv /\ [Next]_vars =>
        [\A p \in Person :
           profile'[p] # profile[p] \/ ledger'[p] # ledger[p]
             => /\ task[p].status = "researching"
                /\ jobStatus[JobOf[p]] # "cancelled"]_vars
  BY WriteStep DEF WriteGuarded
<1> QED
  BY <1>1, InvCorrect, PTL DEF Spec, NoWriteAfterClose

LeaseKept(p) ==
  task[p].status = "researching" /\ task'[p].token # task[p].token
    => ~Unexpired(task[p], 0) \/ jobStatus'[JobOf[p]] = "cancelled"

\* A lease that an older clock sees lapsed has lapsed.
LEMMA LapsedForAll ==
  ASSUME TypeOK, NEW p \in Person, NEW lag \in Lag, ~Unexpired(task[p], lag)
  PROVE  ~Unexpired(task[p], 0)
BY ConstantsAssumption DEF Unexpired, Lag, TypeOK, Task

\* A person changes hands only when its lease has lapsed.
LEMMA LeaseStep ==
  ASSUME Inv, Next, NEW p \in Person
  PROVE  LeaseKept(p)
<1>1. CASE task'[p].token = task[p].token
  BY <1>1 DEF LeaseKept
<1>2. CASE ~Unexpired(task[p], 0)
  BY <1>2 DEF LeaseKept
<1>3. ASSUME NEW j \in Job, NEW invalid \in SUBSET PersonsOf(j), CreateJob(j, invalid)
      PROVE  LeaseKept(p)
  <2>1. CASE JobOf[p] = j
    BY <1>3, <2>1 DEF CreateJob, LeaseKept, Inv, JobStatusIsCurrent, PersonsOf, Absent, NewRow
  <2>2. CASE JobOf[p] # j
    BY <1>1, <1>3, <2>2 DEF CreateJob, Refresh
  <2> QED
    BY <2>1, <2>2
<1>4. ASSUME NEW j \in Job, CancelJob(j)
      PROVE  LeaseKept(p)
  BY <1>1, <1>4 DEF CancelJob, LeaseKept, Inv, TypeOK
<1>5. ASSUME NEW w \in Worker, NEW t \in Token, NEW lag \in Lag, ClaimTask(w, t, lag)
      PROVE  LeaseKept(p)
  <2>1. CASE RepeatClaim(w, t, lag)
    BY <1>1, <2>1 DEF RepeatClaim
  <2>2. CASE RecoverOnly(w, t, lag)
    <3>1. PICK j : task' = Recovered({j}, lag)
      BY <2>2 DEF RecoverOnly, Refresh
    <3> QED
      BY <1>1, <1>2, <3>1, RecoveredRow, LapsedForAll DEF Inv
  <2>3. ASSUME NEW q \in Person, ClaimPerson(w, t, q, lag)
        PROVE  LeaseKept(p)
    <3>1. PICK J : LET rows == Recovered(J, lag)
                   IN /\ Candidate(rows, q, lag)
                      /\ task' = [rows EXCEPT ![q] = Claimed(rows[q], w, t, lag)]
      BY <2>3 DEF ClaimPerson, Refresh
    <3> DEFINE rows == Recovered(J, lag)
    <3>2. rows[p] = task[p] \/ ~Unexpired(task[p], 0)
      BY RecoveredRow, LapsedForAll DEF Inv
    <3>3. rows \in [Person -> Task]
      BY RecoveredType DEF Inv
    <3>4. ~Unexpired(rows[q], lag)
      BY <3>1 DEF Candidate, MayClaim, Claimable
    <3>5. task' = [rows EXCEPT ![q] = Claimed(rows[q], w, t, lag)]
      BY <3>1
    <3> HIDE DEF rows
    <3>6. CASE q = p
      BY <1>2, <3>2, <3>4, <3>6, LapsedForAll DEF Inv
    <3>7. CASE q # p
      BY <1>1, <1>2, <3>2, <3>3, <3>5, <3>7
    <3> QED
      BY <3>6, <3>7
  <2> QED
    BY <1>5, <2>1, <2>2, <2>3 DEF ClaimTask
<1>6. ASSUME NEW l \in held, Call(l)
      PROVE  task'[p].token = task[p].token
  <2>0. task \in [Person -> Task] /\ task[p] \in Task
    BY DEF Inv, TypeOK
  <2>1. CASE \E lag \in Lag : RenewLease(l, lag)
    BY <2>0, <2>1 DEF RenewLease, Task
  <2>2. CASE \E r \in Result : Checkpoint(l, r)
    BY <2>0, <2>2 DEF Checkpoint, Task
  <2>3. CASE \E r \in Result : FinishTask(l, r)
    BY <2>0, <2>3 DEF FinishTask, Settle, Settled, Refresh
  <2>4. CASE \E code \in FailureCode, rs \in Maybe(FailedResult) : FailTask(l, code, rs)
    BY <2>0, <2>4 DEF FailTask, Settle, Settled, Refresh
  <2>5. CASE \E code \in OutageCode, s \in RetryAfter, rs \in Maybe(Result), lag \in Lag :
               DeferTask(l, code, s, rs, lag)
    BY <2>0, <2>5 DEF DeferTask, Deferred, Refresh
  <2> QED
    BY <1>6, <2>1, <2>2, <2>3, <2>4, <2>5 DEF Call
<1>7. CASE Tick
  <2>1. task[p] \in Task /\ task'[p] = [task[p] EXCEPT !.left = IF @ > Lapsed THEN @ - 1 ELSE @]
    BY <1>7 DEF Inv, TypeOK, Tick
  <2>2. task'[p].token = task[p].token
    BY <2>1 DEF Task
  <2> QED
    BY <1>1, <2>2
<1> QED
  BY <1>1, <1>3, <1>4, <1>5, <1>6, <1>7 DEF Next, PutCache, ExpireCache, Heartbeat, Forget

\* An owner keeps its person while its lease runs, whatever clock the claim of
\* another worker sampled.
THEOREM OwnerCorrect == Spec => OwnerKeepsUnexpiredLease
<1>1. Inv /\ [Next]_vars =>
        [\A p \in Person :
           task[p].status = "researching" /\ task'[p].token # task[p].token
             => ~Unexpired(task[p], 0) \/ jobStatus'[JobOf[p]] = "cancelled"]_vars
  BY LeaseStep DEF LeaseKept
<1> QED
  BY <1>1, InvCorrect, PTL DEF Spec, OwnerKeepsUnexpiredLease

-----------------------------------------------------------------------------
(* The retrieval cache of a job that has ended.                            *)

\* A refresh that ends a job empties its cache.
LEMMA RefreshClosesCache ==
  ASSUME TypeOK, ClosedJobKeepsNoCache, NEW J, NEW tasks, Refresh(J, tasks)
  PROVE  ClosedJobKeepsNoCache'
BY DEF ClosedJobKeepsNoCache, Refresh

\* Every step keeps the caches of ended jobs empty.
LEMMA CacheStep ==
  TypeOK /\ ClosedJobKeepsNoCache /\ [Next]_vars => ClosedJobKeepsNoCache'
<1> SUFFICES ASSUME TypeOK, ClosedJobKeepsNoCache, [Next]_vars
             PROVE  ClosedJobKeepsNoCache'
  OBVIOUS
<1>1. CASE UNCHANGED <<jobStatus, cache>>
  BY <1>1 DEF ClosedJobKeepsNoCache
<1>2. CASE \E J, tasks : Refresh(J, tasks)
  BY <1>2, RefreshClosesCache
<1>3. CASE \E j \in Job : CancelJob(j)
  BY <1>3 DEF ClosedJobKeepsNoCache, CancelJob, TypeOK
<1>4. ASSUME NEW w \in Worker, NEW t \in Token, NEW lag \in Lag, ClaimTask(w, t, lag)
      PROVE  ClosedJobKeepsNoCache'
  BY <1>1, <1>2, <1>4 DEF ClaimTask, RepeatClaim, RecoverOnly, ClaimPerson
<1>5. ASSUME NEW l \in held, Call(l)
      PROVE  ClosedJobKeepsNoCache'
  <2>1. UNCHANGED <<jobStatus, cache>> \/ \E J, tasks : Refresh(J, tasks)
    BY <1>5 DEF Call, RenewLease, Checkpoint, FinishTask, FailTask, Settle, DeferTask
  <2> QED
    BY <1>1, <1>2, <2>1
<1>6. CASE \E j \in Job, url \in Url, size \in Size : PutCache(j, url, size)
  BY <1>6 DEF ClosedJobKeepsNoCache, PutCache, TypeOK
<1>7. CASE \E j \in Job : \E row \in cache[j] : ExpireCache(j, row)
  BY <1>7 DEF ClosedJobKeepsNoCache, ExpireCache, TypeOK
<1>8. CASE Heartbeat
  BY <1>8 DEF ClosedJobKeepsNoCache, Heartbeat
<1> QED
  BY <1>1, <1>2, <1>3, <1>4, <1>5, <1>6, <1>7, <1>8 DEF Next, CreateJob, Tick, Forget, vars

\* put_cache carries no lease, and still no payload outlives its job.
THEOREM ClosedCacheCorrect == Spec => []ClosedJobKeepsNoCache
<1>1. Init => ClosedJobKeepsNoCache
  BY DEF Init, ClosedJobKeepsNoCache, TerminalJobStatus
<1> QED
  BY <1>1, CacheStep, TypeCorrect, PTL DEF Spec

-----------------------------------------------------------------------------
(* The budget of the retrieval cache.                                      *)

\* The bytes of finitely many rows are a natural number, fewer rows have no
\* more, and a row adds its own.
LEMMA BytesOf ==
  ASSUME NEW rows \in SUBSET CacheRow, IsFiniteSet(rows)
  PROVE  /\ Bytes(rows) \in Nat
         /\ \A R \in SUBSET rows : Bytes(R) <= Bytes(rows)
         /\ \A row \in CacheRow \ rows : Bytes(rows \cup {row}) = row.size + Bytes(rows)
<1> DEFINE size(R) == [r \in R |-> r.size]
<1>1. \A R \in SUBSET CacheRow : size(R) \in [R -> Nat] /\ Bytes(R) = Total(size(R))
  BY ConstantsAssumption DEF CacheRow, Bytes
<1> HIDE DEF size
<1>2. Bytes(rows) \in Nat
  BY <1>1, TotalType
<1>3. ASSUME NEW R \in SUBSET rows
      PROVE  Bytes(R) <= Bytes(rows)
  <2>1. ASSUME NEW r \in R
        PROVE  size(R)[r] <= size(rows)[r]
    <3>1. r.size \in Nat
      BY ConstantsAssumption DEF CacheRow
    <3>2. size(R)[r] = r.size /\ size(rows)[r] = r.size
      BY DEF size
    <3> QED
      BY <3>1, <3>2
  <2>2. R \in SUBSET CacheRow
    OBVIOUS
  <2> QED
    BY <1>1, <2>1, <2>2, TotalGrows
<1>4. ASSUME NEW row \in CacheRow \ rows
      PROVE  Bytes(rows \cup {row}) = row.size + Bytes(rows)
  <2>1. /\ rows \cup {row} \in SUBSET CacheRow
        /\ \A r \in rows : size(rows \cup {row})[r] = size(rows)[r]
        /\ size(rows \cup {row})[row] = row.size
    BY DEF size
  <2>2. Total(size(rows \cup {row})) = Total(size(rows)) + size(rows \cup {row})[row]
    BY <1>1, <2>1, TotalAdds
  <2>3. row.size \in Nat
    BY ConstantsAssumption DEF CacheRow
  <2> QED
    BY <1>1, <1>2, <2>1, <2>2, <2>3
<1> QED
  BY <1>2, <1>3, <1>4

\* The cache of one job: finitely many rows, one for each URL, and the bytes of
\* the live ones within the budget.
CacheFits(rows) ==
  /\ rows \in SUBSET CacheRow /\ IsFiniteSet(rows)
  /\ Bytes({r \in rows : r.live}) <= MaxCacheBytes
  /\ \A r1, r2 \in rows : r1.url = r2.url => r1 = r2

\* Rows that are dropped make no trouble, ...
LEMMA FewerRowsFit ==
  ASSUME NEW rows, CacheFits(rows), NEW R \in SUBSET rows
  PROVE  CacheFits(R)
<1> DEFINE live(S) == {r \in S : r.live}
<1>1. rows \in SUBSET CacheRow /\ IsFiniteSet(rows) /\ live(R) \in SUBSET live(rows)
  BY DEF CacheFits
<1>2. IsFiniteSet(R) /\ IsFiniteSet(live(rows)) /\ IsFiniteSet(live(R))
  BY <1>1, FS_Subset
<1>3. live(rows) \in SUBSET CacheRow /\ live(R) \in SUBSET CacheRow
  BY <1>1
<1> HIDE DEF live
<1>4. /\ Bytes(live(R)) <= Bytes(live(rows))
      /\ Bytes(live(R)) \in Nat /\ Bytes(live(rows)) \in Nat
  BY <1>1, <1>2, <1>3, BytesOf
<1>5. Bytes(live(R)) <= MaxCacheBytes
  BY <1>4, ConstantsAssumption DEF CacheFits, live
<1> QED
  BY <1>1, <1>2, <1>5 DEF CacheFits, live

\* ... nor does a live row whose URL no other row has and that fits in, ...
LEMMA NewRowFits ==
  ASSUME NEW rows, CacheFits(rows), NEW row \in CacheRow, row.live,
         row.size + Bytes({r \in rows : r.live}) <= MaxCacheBytes,
         \A r \in rows : r.url # row.url
  PROVE  CacheFits(rows \cup {row})
<1> DEFINE live == {r \in rows : r.live}
<1>1. /\ rows \in SUBSET CacheRow /\ IsFiniteSet(rows) /\ row \notin rows
      /\ {r \in rows \cup {row} : r.live} = live \cup {row}
      /\ live \in SUBSET CacheRow /\ live \in SUBSET rows /\ row \notin live
  BY DEF CacheFits
<1>2. IsFiniteSet(rows \cup {row}) /\ IsFiniteSet(live)
  BY <1>1, FS_AddElement, FS_Subset
<1> HIDE DEF live
<1>3. Bytes(live \cup {row}) = row.size + Bytes(live)
  BY <1>1, <1>2, BytesOf
<1>4. Bytes({r \in rows \cup {row} : r.live}) <= MaxCacheBytes
  BY <1>1, <1>3 DEF live
<1> QED
  BY <1>1, <1>2, <1>4 DEF CacheFits

\* ... nor does a row that expires.
LEMMA ExpiredRowFits ==
  ASSUME NEW rows, CacheFits(rows), NEW row \in CacheRow, ~row.live,
         \A r \in rows : r.url # row.url
  PROVE  CacheFits(rows \cup {row})
<1>1. {r \in rows \cup {row} : r.live} = {r \in rows : r.live}
  OBVIOUS
<1>2. IsFiniteSet(rows \cup {row})
  BY FS_AddElement DEF CacheFits
<1> QED
  BY <1>1, <1>2 DEF CacheFits

LEMMA BudgetStep ==
  TypeOK /\ (\A j \in Job : CacheFits(cache[j])) /\ [Next]_vars => \A j \in Job : CacheFits(cache'[j])
<1> SUFFICES ASSUME TypeOK, \A j \in Job : CacheFits(cache[j]), [Next]_vars, NEW i \in Job
             PROVE  CacheFits(cache'[i])
  OBVIOUS
<1>0. CacheFits({})
  <2>1. \A rows : CacheFits(rows) => CacheFits({})
    BY FewerRowsFit
  <2> QED
    BY <2>1
<1>1. CASE UNCHANGED cache
  BY <1>1
<1>2. CASE \E J, tasks : Refresh(J, tasks)
  BY <1>0, <1>2 DEF Refresh
<1>3. CASE \E j \in Job : CancelJob(j)
  BY <1>0, <1>3 DEF CancelJob, TypeOK
<1>4. ASSUME NEW w \in Worker, NEW t \in Token, NEW lag \in Lag, ClaimTask(w, t, lag)
      PROVE  CacheFits(cache'[i])
  BY <1>1, <1>2, <1>4 DEF ClaimTask, RepeatClaim, RecoverOnly, ClaimPerson
<1>5. ASSUME NEW l \in held, Call(l)
      PROVE  CacheFits(cache'[i])
  <2>1. UNCHANGED cache \/ \E J, tasks : Refresh(J, tasks)
    BY <1>5 DEF Call, RenewLease, Checkpoint, FinishTask, FailTask, Settle, DeferTask
  <2> QED
    BY <1>1, <1>2, <2>1
<1>6. ASSUME NEW j \in Job, NEW url \in Url, NEW size \in Size, PutCache(j, url, size)
      PROVE  CacheFits(cache'[i])
  <2> DEFINE others == {r \in cache[j] : r.url # url}
             row == [url |-> url, size |-> size, live |-> TRUE]
  <2>1. CacheFits(others)
    BY FewerRowsFit
  <2>2. row \in CacheRow /\ row.live /\ row.size = size /\ \A r \in others : r.url # row.url
    BY DEF CacheRow
  <2>3. row.size + Bytes({r \in others : r.live}) <= MaxCacheBytes
    BY <1>6, <2>2 DEF PutCache
  <2>4. cache' = [cache EXCEPT ![j] = others \cup {row}]
    BY <1>6 DEF PutCache
  <2> HIDE DEF others, row
  <2>5. CacheFits(others \cup {row})
    BY <2>1, <2>2, <2>3, NewRowFits
  <2> QED
    BY <2>4, <2>5 DEF TypeOK
<1>7. ASSUME NEW j \in Job, NEW row \in cache[j], ExpireCache(j, row)
      PROVE  CacheFits(cache'[i])
  <2> DEFINE expired == [url |-> row.url, size |-> row.size, live |-> FALSE]
  <2>1. CacheFits(cache[j]) /\ CacheFits(cache[j] \ {row})
    BY FewerRowsFit
  <2>2. expired \in CacheRow /\ ~expired.live
    BY <2>1 DEF CacheFits, CacheRow
  <2>3. \A r \in cache[j] \ {row} : r.url # expired.url
    BY <2>1 DEF CacheFits
  <2>4. cache' = [cache EXCEPT ![j] = (cache[j] \ {row}) \cup {expired}]
    BY <1>7 DEF ExpireCache
  <2> HIDE DEF expired
  <2>5. CacheFits((cache[j] \ {row}) \cup {expired})
    BY <2>1, <2>2, <2>3, ExpiredRowFits
  <2> QED
    BY <2>4, <2>5 DEF TypeOK
<1>8. CASE Heartbeat
  <2>1. cache'[i] = {r \in cache[i] : r.live}
    BY <1>8 DEF Heartbeat
  <2> QED
    BY <2>1, FewerRowsFit
<1> QED
  BY <1>1, <1>2, <1>3, <1>4, <1>5, <1>6, <1>7, <1>8 DEF Next, CreateJob, Tick, Forget, vars

\* The rows get_cache can return stay within the budget of their job, one for
\* each URL, whoever stores them and whichever expire (put_cache, app/db/store.py).
THEOREM CacheCorrect == Spec => []CacheWithinBudget
<1>1. Init => \A j \in Job : CacheFits(cache[j])
  <2> SUFFICES ASSUME Init, NEW j \in Job
               PROVE  CacheFits(cache[j])
    OBVIOUS
  <2>1. cache[j] = {} /\ {r \in {} : r.live} = {} /\ IsFiniteSet({})
    BY FS_EmptySet DEF Init
  <2>2. Bytes({}) = 0
    BY TotalOfZeros, FS_EmptySet DEF Bytes
  <2> QED
    BY <2>1, <2>2, ConstantsAssumption DEF CacheFits
<1>2. (\A j \in Job : CacheFits(cache[j])) => CacheWithinBudget
  BY DEF CacheFits, CacheWithinBudget
<1>3. (\A j \in Job : CacheFits(cache[j]))' <=> \A j \in Job : CacheFits(cache'[j])
  OBVIOUS
<1> QED
  BY <1>1, <1>2, <1>3, BudgetStep, TypeCorrect, PTL DEF Spec

-----------------------------------------------------------------------------
(* The job store implements ResearchQueue, for every value of its          *)
(* constants: under the refinement mapping of JobStore the initial state   *)
(* is initial, and every method is a step of the abstract queue or does    *)
(* not show.                                                               *)

\* A job whose status is derived is answered exactly when its people are.
LEMMA AnswerDerived ==
  Inv => \A j \in Job :
           jobStatus[j] \notin {"absent", "cancelled"}
             => answer[j] = Queue!Answered(j, outcome)
<1> SUFFICES ASSUME Inv, NEW j \in Job, jobStatus[j] \notin {"absent", "cancelled"}
             PROVE  answer[j] = Queue!Answered(j, outcome)
  OBVIOUS
<1>1. jobStatus[j] = StatusFor(j, task) /\ jobStatus[j] \in JobStatus
  BY DEF Inv, JobStatusIsCurrent, TypeOK
<1>2. \A p \in PersonsOf(j) : task[p].status \in PersonStatus
  BY DEF Inv, RowsExist, PersonsOf, TypeOK, Task
<1>3. Queue!PersonsOf(j) = PersonsOf(j)
  BY DEF Queue!PersonsOf, PersonsOf
<1>4. ASSUME NEW p \in PersonsOf(j)
      PROVE  outcome[p] \in Queue!Final <=> task[p].status \notin {"queued", "researching"}
  <2>1. p \in Person
    BY DEF PersonsOf
  <2> QED
    BY <1>2, <2>1 DEF outcome, Open, Queue!Final, PersonStatus, TERMINAL_STATUSES, SUCCESS_STATUSES
<1>5. jobStatus[j] \in {"queued", "running"}
        <=> \E p \in PersonsOf(j) : task[p].status \in {"queued", "researching"}
  BY <1>1, <1>2, StatusForOpen
<1>6. answer[j] = IF jobStatus[j] \in {"queued", "running"} THEN "open" ELSE "done"
  BY <1>1 DEF answer, JobStatus, TerminalJobStatus
<1> QED
  BY <1>3, <1>4, <1>5, <1>6 DEF Queue!Answered

\* The same, of the state a step leads to.
LEMMA AnswerDerivedNext ==
  Inv' => \A j \in Job :
            jobStatus'[j] \notin {"absent", "cancelled"}
              => answer'[j] = Queue!Answered(j, outcome')
<1>1. (Inv => \A j \in Job :
                jobStatus[j] \notin {"absent", "cancelled"}
                  => answer[j] = Queue!Answered(j, outcome))'
  BY AnswerDerived, PTL
<1> QED
  BY <1>1 DEF Queue!Answered, Queue!PersonsOf

\* A job that is refreshed is not cancelled by it.
LEMMA RefreshOpen ==
  ASSUME Inv', NEW J \in SUBSET Job, NEW tasks, Refresh(J, tasks), NEW j \in J,
         jobStatus[j] # "cancelled",
         \E p \in PersonsOf(j) : tasks[p].status # "cancelled"
  PROVE  jobStatus'[j] \notin {"absent", "cancelled"}
<1>1. jobStatus'[j] = StatusFor(j, tasks) /\ StatusFor(j, tasks) \in JobStatus
  BY StatusForType DEF Refresh
<1>2. PICK p \in Person : JobOf[p] = j /\ task'[p].status # "cancelled"
  BY DEF PersonsOf, Refresh
<1>3. StatusFor(j, tasks) # "cancelled"
  BY DEF StatusFor
<1> QED
  BY <1>1, <1>3 DEF JobStatus, TerminalJobStatus

\* A person being researched is open, owned, and in an open job.
LEMMA ResearchingMaps ==
  ASSUME Inv, NEW p \in Person, task[p].status = "researching"
  PROVE  /\ outcome[p] = "open" /\ owner[p] = task[p].token
         /\ owner[p] \in Token /\ owner[p] # NoToken
BY ConstantsAssumption DEF Inv, RowInv, outcome, Open, owner

\* A step that changes no status, no owner and no evidence does not show.
LEMMA Invisible ==
  ASSUME jobStatus' = jobStatus, ledger' = ledger,
         \A p \in Person : /\ task'[p].status = task[p].status
                           /\ task'[p].token = task[p].token
  PROVE  UNCHANGED Queue!vars
<1>1. outcome' = outcome
  BY DEF outcome, Open
<1>2. owner' = owner
  BY DEF owner
<1>3. answer' = answer
  BY DEF answer
<1> QED
  BY <1>1, <1>2, <1>3 DEF Queue!vars

\* The initial states correspond.
LEMMA QueueInit == Init => Queue!Init
<1> SUFFICES ASSUME Init
             PROVE  Queue!Init
  OBVIOUS
<1>1. \A p \in Person : task[p].status = "absent"
  BY DEF Init, Absent, NewRow
<1>2. outcome = [p \in Person |-> "none"]
  <2>1. \A p \in Person : outcome[p] = "none"
    BY <1>1 DEF outcome, Open
  <2>2. outcome = [p \in Person |-> outcome[p]]
    BY DEF outcome
  <2> QED
    BY <2>1, <2>2
<1>4. owner = [p \in Person |-> NoToken]
  BY <1>1 DEF owner
<1>3. answer = [j \in Job |-> "none"]
  BY DEF Init, answer
<1> QED
  BY <1>2, <1>3, <1>4 DEF Init, Queue!Init

-----------------------------------------------------------------------------
(* Steps that leave every person as open as it was.                        *)

LEMMA ReachableNext == Inv' => OpenPersonIsReachable'
BY ReachableFromInv, PTL

\* While the people a step touches stay open, no outcome and no answer changes.
LEMMA OpenStays ==
  ASSUME Inv, Inv', NEW J \in SUBSET Job, NEW tasks, Refresh(J, tasks),
         \A q \in Person : tasks[q] = task[q]
           \/ /\ task[q].status \in {"queued", "researching"}
              /\ tasks[q].status \in {"queued", "researching"},
         \A j \in J : \E p \in PersonsOf(j) : task[p].status \in {"queued", "researching"}
  PROVE  outcome' = outcome /\ answer' = answer
<1>1. task' = tasks
  BY DEF Refresh
<1>2. outcome' = outcome
  BY <1>1 DEF outcome, Open
<1>3. ASSUME NEW j \in Job
      PROVE  answer'[j] = answer[j]
  <2>1. CASE j \in J
    <3>1. PICK p \in Person : JobOf[p] = j /\ Open(p)
      BY <2>1 DEF PersonsOf, Open
    <3>2. Open(p)'
      BY <1>1, <3>1 DEF Open
    <3>3. jobStatus[j] \in {"queued", "running"} /\ jobStatus'[j] \in {"queued", "running"}
      BY <3>1, <3>2, ReachableFromInv, ReachableNext DEF OpenPersonIsReachable, Open
    <3> QED
      BY <3>3 DEF answer
  <2>2. CASE j \notin J
    BY <2>2 DEF answer, Refresh
  <2> QED
    BY <2>1, <2>2
<1>4. answer' = answer
  <2>1. answer = [j \in Job |-> answer[j]] /\ answer' = [j \in Job |-> answer'[j]]
    BY DEF answer
  <2> QED
    BY <1>3, <2>1
<1> QED
  BY <1>2, <1>4

\* Owners are tokens.
LEMMA OwnerType == Inv => owner \in [Person -> Token \cup {NoToken}]
BY DEF Inv, RowInv, owner

LEMMA OwnerTypeNext == Inv' => owner' \in [Person -> Token \cup {NoToken}]
<1>1. (Inv => owner \in [Person -> Token \cup {NoToken}])'
  BY OwnerType, PTL
<1> QED
  BY <1>1

\* Recovery and claims assign open people.
LEMMA AssignStep ==
  ASSUME Inv, Inv', NEW J \in SUBSET Job, NEW tasks, Refresh(J, tasks), ledger' = ledger,
         \A q \in Person : tasks[q] = task[q]
           \/ /\ task[q].status \in {"queued", "researching"}
              /\ tasks[q].status \in {"queued", "researching"},
         \A j \in J : \E p \in PersonsOf(j) : task[p].status \in {"queued", "researching"}
  PROVE  Queue!Assign
<1>1. outcome' = outcome /\ answer' = answer
  BY OpenStays
<1>2. \A q \in Person : owner'[q] # owner[q] => outcome[q] = "open"
  BY DEF owner, outcome, Open, Refresh
<1> QED
  BY <1>1, <1>2, OwnerTypeNext DEF Queue!Assign

LEMMA RecoverAssigns ==
  ASSUME Inv, Inv', NEW w \in Worker, NEW t \in Token, NEW lag \in Lag,
         RecoverOnly(w, t, lag)
  PROVE  Queue!Assign
<1>1. PICK j \in Recoverable(lag) : Refresh({j}, Recovered({j}, lag))
  BY DEF RecoverOnly
<1>2. {j} \in SUBSET Job
      /\ \E p \in PersonsOf(j) : task[p].status \in {"queued", "researching"}
  BY DEF Recoverable, Exhausted
<1>3. \A q \in Person : Recovered({j}, lag)[q] = task[q]
        \/ /\ task[q].status \in {"queued", "researching"}
           /\ Recovered({j}, lag)[q].status \in {"queued", "researching"}
  BY RecoveredRow DEF Inv
<1>4. ledger' = ledger
  BY DEF RecoverOnly
<1> QED
  BY <1>1, <1>2, <1>3, <1>4, AssignStep

LEMMA ClaimAssigns ==
  ASSUME Inv, Inv', NEW w \in Worker, NEW t \in Token, NEW p \in Person, NEW lag \in Lag,
         ClaimPerson(w, t, p, lag)
  PROVE  Queue!Assign
<1>1. PICK J \in {{}} \cup {{j} : j \in Recoverable(lag)} :
        LET rows == Recovered(J, lag)
        IN /\ Candidate(rows, p, lag)
           /\ Refresh(J \cup {JobOf[p]},
                      [rows EXCEPT ![p] = Claimed(rows[p], w, t, lag)])
  BY DEF ClaimPerson
<1> DEFINE rows == Recovered(J, lag)
           claimed == [rows EXCEPT ![p] = Claimed(rows[p], w, t, lag)]
<1>2. rows[p].status \in {"queued", "researching"}
  BY <1>1 DEF Candidate, MayClaim, Claimable
<1>3. \A q \in Person : rows[q] = task[q]
        \/ /\ task[q].status \in {"queued", "researching"}
           /\ rows[q].status \in {"queued", "researching"}
  BY RecoveredRow DEF Inv
<1>4. rows \in [Person -> Task] /\ Refresh(J \cup {JobOf[p]}, claimed)
  BY <1>1, RecoveredType DEF Inv
<1>5. \A j \in J \cup {JobOf[p]} :
        \E q \in PersonsOf(j) : task[q].status \in {"queued", "researching"}
  BY <1>2, <1>3 DEF Recoverable, Exhausted, PersonsOf
<1>6. J \cup {JobOf[p]} \in SUBSET Job
  BY ConstantsAssumption DEF Recoverable
<1> HIDE DEF rows
<1>7. \A q \in Person : claimed[q] = task[q]
        \/ /\ task[q].status \in {"queued", "researching"}
           /\ claimed[q].status \in {"queued", "researching"}
  BY <1>2, <1>3, <1>4 DEF Claimed
<1>8. ledger' = ledger
  BY DEF ClaimPerson
<1> HIDE DEF claimed
<1> QED
  BY <1>4, <1>5, <1>6, <1>7, <1>8, AssignStep

\* What saving a result adds to the evidence of a person.
LEMMA SaveRecords ==
  ASSUME Inv, NEW p \in Person, NEW r \in AnyResult, SaveResult(p, r)
  PROVE  r.items \in SUBSET Item /\ ledger' = [ledger EXCEPT ![p] = @ \cup r.items]
BY DEF AnyResult, Result, FailedResult, SaveResult

\* Saving nothing is saving no evidence.
LEMMA MaybeSaveRecords ==
  ASSUME Inv, NEW p \in Person, NEW rs \in Maybe(AnyResult),
         IF rs = {} THEN KeepResult ELSE \E r \in rs : SaveResult(p, r)
  PROVE  \E items \in SUBSET Item : ledger' = [ledger EXCEPT ![p] = @ \cup items]
<1>1. CASE rs = {}
  <2>1. ledger' = [ledger EXCEPT ![p] = @ \cup {}]
    BY <1>1 DEF KeepResult, Inv, TypeOK
  <2> QED
    BY <2>1
<1>2. CASE rs # {}
  <2>1. PICK r \in rs : SaveResult(p, r)
    BY <1>2
  <2>2. r \in AnyResult
    BY DEF Maybe
  <2> QED
    BY <2>1, <2>2, SaveRecords
<1> QED
  BY <1>1, <1>2

LEMMA CheckpointRecords ==
  ASSUME Inv, Inv', NEW l \in held, NEW r \in Result, Checkpoint(l, r)
  PROVE  \E items \in SUBSET Item : Queue!Record(l.person, items)
<1>1. l.person \in Person /\ task[l.person].status = "researching"
  BY DEF Inv, TypeOK, Lease, Checkpoint, Owns
<1>2. \A p \in Person : /\ task'[p].status = task[p].status
                        /\ task'[p].token = task[p].token
  BY <1>1 DEF Checkpoint, Inv, TypeOK, Task
<1>3. outcome' = outcome /\ owner' = owner /\ answer' = answer
  BY <1>2 DEF Checkpoint, outcome, Open, owner, answer
<1>4. r.items \in SUBSET Item /\ ledger' = [ledger EXCEPT ![l.person] = @ \cup r.items]
  BY <1>1, SaveRecords DEF Checkpoint, AnyResult
<1> QED
  BY <1>1, <1>3, <1>4, ResearchingMaps DEF Queue!Record

LEMMA DeferRecords ==
  ASSUME Inv, Inv', NEW l \in held, NEW code \in OutageCode, NEW s \in RetryAfter,
         NEW rs \in Maybe(Result), NEW lag \in Lag, DeferTask(l, code, s, rs, lag)
  PROVE  \E items \in SUBSET Item : Queue!Record(l.person, items)
<1> DEFINE rows == [task EXCEPT ![l.person] = Deferred(@, code, s, lag)]
<1>1. l.person \in Person /\ task[l.person].status = "researching"
  BY DEF Inv, TypeOK, Lease, DeferTask, Owns
<1>2. Refresh({JobOf[l.person]}, rows)
  BY DEF DeferTask
<1>3. /\ rows[l.person].status = "queued"
      /\ \A q \in Person : q # l.person => rows[q] = task[q]
  BY <1>1 DEF Inv, TypeOK, Deferred
<1>4. {JobOf[l.person]} \in SUBSET Job /\ l.person \in PersonsOf(JobOf[l.person])
  BY <1>1, ConstantsAssumption DEF PersonsOf
<1>5. task' = rows
  BY <1>2 DEF Refresh
<1> HIDE DEF rows
<1>6. outcome' = outcome /\ answer' = answer
  BY <1>1, <1>2, <1>3, <1>4, OpenStays
<1>7. owner' = [owner EXCEPT ![l.person] = NoToken]
  BY <1>1, <1>3, <1>5 DEF owner
<1>8. \E items \in SUBSET Item : ledger' = [ledger EXCEPT ![l.person] = @ \cup items]
  <2>1. rs \in Maybe(AnyResult)
    BY DEF Maybe, AnyResult
  <2> QED
    BY <1>1, <2>1, MaybeSaveRecords DEF DeferTask
<1> QED
  BY <1>1, <1>6, <1>7, <1>8, ResearchingMaps DEF Queue!Record

-----------------------------------------------------------------------------
(* Steps that answer people.                                               *)

\* The answer of a refreshed job is the one the abstract queue derives.
LEMMA AnswerAt ==
  ASSUME Inv', NEW j \in Job, jobStatus'[j] \notin {"absent", "cancelled"},
         \A k \in Job : k # j => jobStatus'[k] = jobStatus[k]
  PROVE  answer' = [answer EXCEPT ![j] = Queue!Answered(j, outcome')]
<1>1. answer'[j] = Queue!Answered(j, outcome')
  BY AnswerDerivedNext
<1>2. \A k \in Job : k # j => answer'[k] = answer[k]
  BY DEF answer
<1>3. answer' = [k \in Job |-> answer'[k]] /\ answer = [k \in Job |-> answer[k]]
  BY DEF answer
<1> QED
  BY <1>1, <1>2, <1>3

LEMMA CreateSubmits ==
  ASSUME Inv, Inv', NEW j \in Job, NEW invalid \in SUBSET PersonsOf(j),
         CreateJob(j, invalid)
  PROVE  Queue!Submit(j)
<1> DEFINE rows == [p \in Person |->
             IF JobOf[p] # j THEN task[p]
             ELSE IF p \in invalid
                  THEN NewRow("failed", Final("INVALID_ROW"))
                  ELSE NewRow("queued", NoError)]
<1>1. Refresh({j}, rows) /\ jobStatus[j] = "absent" /\ ledger' = ledger
  BY DEF CreateJob
<1>2. ASSUME NEW p \in Person
      PROVE  /\ JobOf[p] = j => task[p].status = "absent"
             /\ JobOf[p] = j /\ p \in invalid => task'[p].status = "failed"
             /\ JobOf[p] = j /\ p \notin invalid => task'[p].status = "queued"
             /\ JobOf[p] # j => task'[p] = task[p]
             /\ p \in invalid => JobOf[p] = j
  BY <1>1 DEF Refresh, NewRow, Inv, JobStatusIsCurrent, PersonsOf, Absent
<1>3. \E p \in PersonsOf(j) : rows[p].status # "cancelled"
  <2>1. PICK p \in Person : JobOf[p] = j
    BY ConstantsAssumption
  <2> QED
    BY <2>1 DEF PersonsOf, NewRow
<1> HIDE DEF rows
<1>4. jobStatus'[j] \notin {"absent", "cancelled"}
  BY <1>1, <1>3, RefreshOpen
<1>5. answer' = [answer EXCEPT ![j] = Queue!Answered(j, outcome')]
  BY <1>1, <1>4, AnswerAt DEF Refresh
<1>6. outcome' = [p \in Person |-> IF p \in invalid THEN "failed"
                                   ELSE IF JobOf[p] = j THEN "open" ELSE outcome[p]]
  <2>1. \A p \in Person :
          outcome'[p] = IF p \in invalid THEN "failed"
                        ELSE IF JobOf[p] = j THEN "open" ELSE outcome[p]
    BY <1>2 DEF outcome, Open
  <2>2. outcome' = [p \in Person |-> outcome'[p]]
    BY DEF outcome
  <2> QED
    BY <2>1, <2>2
<1>7. owner' = owner
  BY <1>2 DEF owner
<1>8. answer[j] = "none"
  BY <1>1 DEF answer
<1>9. invalid \in SUBSET Queue!PersonsOf(j)
  BY DEF PersonsOf, Queue!PersonsOf
<1> QED
  BY <1>1, <1>5, <1>6, <1>7, <1>8, <1>9 DEF Queue!Submit

LEMMA CancelCancels ==
  ASSUME Inv, Inv', NEW j \in Job, CancelJob(j)
  PROVE  Queue!Cancel(j)
<1>1. ASSUME NEW p \in Person
      PROVE  /\ JobOf[p] = j /\ task[p].status \notin TERMINAL_STATUSES
                  => task'[p].status = "cancelled"
             /\ JobOf[p] # j \/ task[p].status \in TERMINAL_STATUSES => task'[p] = task[p]
             /\ JobOf[p] = j => task[p].status \in PersonStatus
  BY DEF CancelJob, Cancelled, Inv, RowsExist, TypeOK, Task
<1>2. answer[j] = "open" /\ ledger' = ledger
  BY DEF CancelJob, answer
<1>3. answer' = [answer EXCEPT ![j] = "cancelled"]
  BY DEF CancelJob, answer, Inv, TypeOK
<1>4. outcome' = [p \in Person |-> IF JobOf[p] = j /\ outcome[p] = "open"
                                   THEN "cancelled" ELSE outcome[p]]
  <2>1. \A p \in Person : outcome'[p] = IF JobOf[p] = j /\ outcome[p] = "open"
                                        THEN "cancelled" ELSE outcome[p]
    BY <1>1 DEF outcome, Open, PersonStatus, TERMINAL_STATUSES, SUCCESS_STATUSES
  <2>2. outcome' = [p \in Person |-> outcome'[p]]
    BY DEF outcome
  <2> QED
    BY <2>1, <2>2
<1>5. owner' = [p \in Person |-> IF JobOf[p] = j THEN NoToken ELSE owner[p]]
  <2>1. \A p \in Person : owner'[p] = IF JobOf[p] = j THEN NoToken ELSE owner[p]
    BY <1>1 DEF owner, TERMINAL_STATUSES, SUCCESS_STATUSES
  <2>2. owner' = [p \in Person |-> owner'[p]]
    BY DEF owner
  <2> QED
    BY <2>1, <2>2
<1> QED
  BY <1>2, <1>3, <1>4, <1>5 DEF Queue!Cancel

\* finish_task and fail_task settle the person they own.
LEMMA SettleSettles ==
  ASSUME Inv, Inv', NEW l \in held, NEW o \in Outcome, o.status # "cancelled",
         NotCancelled(l), Owns(l, 0), Settle(l, o),
         \E items \in SUBSET Item : ledger' = [ledger EXCEPT ![l.person] = @ \cup items]
  PROVE  \E items \in SUBSET Item : Queue!Settle(l.person, o.status, items)
<1> DEFINE p == l.person
           rows == [task EXCEPT ![p] = Settled(@, o)]
<1>1. p \in Person /\ task[p].status = "researching" /\ JobOf[p] \in Job
  BY ConstantsAssumption DEF Inv, TypeOK, Lease, Owns
<1>2. Refresh({JobOf[p]}, rows)
  BY DEF Settle
<1>3. /\ rows[p].status = o.status
      /\ \A q \in Person : q # p => rows[q] = task[q]
  BY <1>1 DEF Inv, TypeOK, Settled
<1>4. task' = rows /\ p \in PersonsOf(JobOf[p])
  BY <1>1, <1>2 DEF Refresh, PersonsOf
<1> HIDE DEF rows
<1>5. jobStatus'[JobOf[p]] \notin {"absent", "cancelled"}
  BY <1>1, <1>2, <1>3, <1>4, RefreshOpen DEF NotCancelled
<1>6. answer' = [answer EXCEPT ![JobOf[p]] = Queue!Answered(JobOf[p], outcome')]
  BY <1>1, <1>2, <1>5, AnswerAt DEF Refresh
<1>7. o.status \in TERMINAL_STATUSES
  BY DEF Outcome
<1>8. outcome' = [outcome EXCEPT ![p] = o.status]
  <2>1. outcome'[p] = o.status /\ \A q \in Person : q # p => outcome'[q] = outcome[q]
    BY <1>1, <1>3, <1>4, <1>7 DEF outcome, Open, TERMINAL_STATUSES, SUCCESS_STATUSES
  <2>2. /\ outcome' = [q \in Person |-> outcome'[q]]
        /\ outcome = [q \in Person |-> outcome[q]]
    BY DEF outcome
  <2> QED
    BY <2>1, <2>2
<1>9. owner' = [owner EXCEPT ![p] = NoToken]
  BY <1>1, <1>3, <1>4, <1>7 DEF owner, TERMINAL_STATUSES, SUCCESS_STATUSES
<1> QED
  BY <1>1, <1>6, <1>8, <1>9, ResearchingMaps DEF Queue!Settle

LEMMA FinishSettles ==
  ASSUME Inv, Inv', NEW l \in held, NEW r \in Result, FinishTask(l, r)
  PROVE  \/ \E o \in Queue!Final \ {"cancelled"}, items \in SUBSET Item :
              Queue!Settle(l.person, o, items)
         \/ UNCHANGED Queue!vars
<1> DEFINE o == [status |-> r.status, error |-> NoError]
<1>1. o \in Outcome /\ o.status \in Queue!Final \ {"cancelled"}
  BY ErrorTypes DEF Outcome, Result, TERMINAL_STATUSES, SUCCESS_STATUSES, Queue!Final
<1>2. l.person \in Person
  BY DEF Inv, TypeOK, Lease
<1>3. \/ Owns(l, 0) /\ Settle(l, o) /\ SaveResult(l.person, r)
      \/ UNCHANGED <<jobStatus, task, ledger>>
  BY DEF FinishTask
<1>4. NotCancelled(l)
  BY DEF FinishTask
<1> HIDE DEF o
<1>5. CASE Owns(l, 0) /\ Settle(l, o) /\ SaveResult(l.person, r)
  <2>1. \E items \in SUBSET Item : ledger' = [ledger EXCEPT ![l.person] = @ \cup items]
    BY <1>2, <1>5, SaveRecords DEF AnyResult
  <2> QED
    BY <1>1, <1>4, <1>5, <2>1, SettleSettles
<1>6. CASE UNCHANGED <<jobStatus, task, ledger>>
  BY <1>6, Invisible
<1> QED
  BY <1>3, <1>5, <1>6

LEMMA FailSettles ==
  ASSUME Inv, Inv', NEW l \in held, NEW code \in FailureCode, NEW rs \in Maybe(FailedResult),
         FailTask(l, code, rs)
  PROVE  \/ \E o \in Queue!Final \ {"cancelled"}, items \in SUBSET Item :
              Queue!Settle(l.person, o, items)
         \/ UNCHANGED Queue!vars
<1> DEFINE o == [status |-> "failed", error |-> Final(code)]
<1>1. o \in Outcome /\ o.status \in Queue!Final \ {"cancelled"}
  BY ErrorTypes DEF Outcome, TERMINAL_STATUSES, Why, Queue!Final
<1>2. l.person \in Person /\ rs \in Maybe(AnyResult)
  BY DEF Inv, TypeOK, Lease, Maybe, AnyResult
<1>3. \/ /\ Owns(l, 0) /\ Settle(l, o)
         /\ IF rs = {} THEN KeepResult ELSE \E r \in rs : SaveResult(l.person, r)
      \/ UNCHANGED <<jobStatus, task, ledger>>
  BY DEF FailTask
<1>4. NotCancelled(l)
  BY DEF FailTask
<1> HIDE DEF o
<1>5. CASE /\ Owns(l, 0) /\ Settle(l, o)
           /\ IF rs = {} THEN KeepResult ELSE \E r \in rs : SaveResult(l.person, r)
  <2>1. \E items \in SUBSET Item : ledger' = [ledger EXCEPT ![l.person] = @ \cup items]
    BY <1>2, <1>5, MaybeSaveRecords
  <2> QED
    BY <1>1, <1>4, <1>5, <2>1, SettleSettles
<1>6. CASE UNCHANGED <<jobStatus, task, ledger>>
  BY <1>6, Invisible
<1> QED
  BY <1>3, <1>5, <1>6

-----------------------------------------------------------------------------
\* Every step of the store is a step of the abstract queue, or does not show.
LEMMA QueueStep == Inv /\ Inv' /\ [Next]_vars => [Queue!Next]_Queue!vars
<1> SUFFICES ASSUME Inv, Inv', [Next]_vars
             PROVE  Queue!Next \/ UNCHANGED Queue!vars
  OBVIOUS
<1>1. CASE \E j \in Job : \E invalid \in SUBSET PersonsOf(j) : CreateJob(j, invalid)
  BY <1>1, CreateSubmits DEF Queue!Next
<1>2. CASE \E j \in Job : CancelJob(j)
  BY <1>2, CancelCancels DEF Queue!Next
<1>3. ASSUME NEW w \in Worker, NEW t \in Token, NEW lag \in Lag, ClaimTask(w, t, lag)
      PROVE  Queue!Next \/ UNCHANGED Queue!vars
  <2>1. CASE RepeatClaim(w, t, lag)
    BY <2>1, Invisible DEF RepeatClaim
  <2>2. CASE RecoverOnly(w, t, lag)
    BY <2>2, RecoverAssigns DEF Queue!Next
  <2>3. CASE \E p \in Person : ClaimPerson(w, t, p, lag)
    BY <2>3, ClaimAssigns DEF Queue!Next
  <2> QED
    BY <1>3, <2>1, <2>2, <2>3 DEF ClaimTask
<1>4. ASSUME NEW l \in held, Call(l)
      PROVE  Queue!Next \/ UNCHANGED Queue!vars
  <2>0. l.person \in Person
    BY DEF Inv, TypeOK, Lease
  <2>1. ASSUME NEW lag \in Lag, RenewLease(l, lag)
        PROVE  UNCHANGED Queue!vars
    <3>1. \A p \in Person : /\ task'[p].status = task[p].status
                            /\ task'[p].token = task[p].token
      BY <2>0, <2>1 DEF RenewLease, Inv, TypeOK, Task
    <3> QED
      BY <2>1, <3>1, Invisible DEF RenewLease
  <2>2. CASE \E r \in Result : Checkpoint(l, r)
    BY <2>0, <2>2, CheckpointRecords DEF Queue!Next
  <2>3. CASE \E r \in Result : FinishTask(l, r)
    BY <2>0, <2>3, FinishSettles DEF Queue!Next
  <2>4. CASE \E code \in FailureCode, rs \in Maybe(FailedResult) : FailTask(l, code, rs)
    BY <2>0, <2>4, FailSettles DEF Queue!Next
  <2>5. CASE \E code \in OutageCode, s \in RetryAfter, rs \in Maybe(Result), lag \in Lag :
               DeferTask(l, code, s, rs, lag)
    BY <2>0, <2>5, DeferRecords DEF Queue!Next
  <2> QED
    BY <1>4, <2>1, <2>2, <2>3, <2>4, <2>5 DEF Call
<1>5. CASE \E j \in Job, url \in Url, size \in Size : PutCache(j, url, size)
  BY <1>5, Invisible DEF PutCache
<1>6. CASE \E j \in Job : \E row \in cache[j] : ExpireCache(j, row)
  BY <1>6, Invisible DEF ExpireCache
<1>7. CASE Heartbeat
  BY <1>7, Invisible DEF Heartbeat
<1>8. CASE Tick
  <2>1. \A p \in Person : /\ task'[p].status = task[p].status
                          /\ task'[p].token = task[p].token
    BY <1>8 DEF Tick, Inv, TypeOK, Task
  <2> QED
    BY <1>8, <2>1, Invisible DEF Tick
<1>9. CASE UNCHANGED vars
  BY <1>9, Invisible DEF vars
<1>10. CASE \E leases \in SUBSET held : Forget(leases)
  BY <1>10, Invisible DEF Forget
<1> QED
  BY <1>1, <1>2, <1>3, <1>4, <1>5, <1>6, <1>7, <1>8, <1>9, <1>10 DEF Next

\* The store keeps what ResearchQueue promises to a user: one outcome for a
\* person, given by its owner, evidence only while it is open, an answer for a
\* job exactly when its last person has one, and cancellation at once.
THEOREM QueueImplemented == Spec => ImplementsQueue
<1>1. Init => Queue!Init
  BY QueueInit
<1>2. Inv /\ Inv' /\ [Next]_vars => [Queue!Next]_Queue!vars
  BY QueueStep
<1> QED
  BY <1>1, <1>2, InvCorrect, PTL DEF Spec, ImplementsQueue, Queue!Spec

-----------------------------------------------------------------------------
(* The workers.                                                            *)


\* A thread that goes on after its coroutine was cancelled still has the Lease
\* object: it is the store call of a lease that is remembered.
OrphansHeld == \A o \in orphans : o.lease \in held

\* A call of a worker is a call its lease is good for.
LEMMA CommitCalls ==
  ASSUME NEW l \in held, NEW op, NEW version, Commit(l, op, version)
  PROVE  Next /\ held' = held
<1> USE ConstantsAssumption, WorkerAssumption
<1>1. 0 \in Lag
  BY DEF Lag
<1>2. TheResult \in Result /\ EmptyResult \in FailedResult
  BY DEF TheResult, EmptyResult, Result, FailedResult, SUCCESS_STATUSES
<1>3. /\ {} \in Maybe(Result) /\ {TheResult} \in Maybe(Result)
      /\ {} \in Maybe(FailedResult) /\ {EmptyResult} \in Maybe(FailedResult)
  BY <1>2 DEF Maybe
<1>4. CASE RenewLease(l, 0)
  BY <1>1, <1>4 DEF Call, Next, RenewLease
<1>5. CASE Checkpoint(l, TheResult)
  BY <1>2, <1>5 DEF Call, Next, Checkpoint
<1>6. CASE FinishTask(l, TheResult)
  BY <1>2, <1>6 DEF Call, Next, FinishTask
<1>7. ASSUME NEW code \in FailureCode, NEW rs \in Maybe(FailedResult), FailTask(l, code, rs)
      PROVE  Next /\ held' = held
  BY <1>7 DEF Call, Next, FailTask
<1>8. ASSUME NEW rs \in Maybe(Result), DeferTask(l, "PROVIDER_UNAVAILABLE", 0, rs, 0)
      PROVE  Next /\ held' = held
  BY <1>1, <1>8 DEF Call, Next, DeferTask
<1> QED
  BY <1>3, <1>4, <1>5, <1>6, <1>7, <1>8 DEF Commit

\* A claim only adds leases.
LEMMA ClaimHeld ==
  ASSUME NEW w \in Worker, NEW t \in Token, ClaimTask(w, t, 0)
  PROVE  Next /\ held \subseteq held'
<1>1. 0 \in Lag
  BY ConstantsAssumption DEF Lag
<1>2. Next
  BY <1>1 DEF Next
<1>3. held \subseteq held'
  BY DEF ClaimTask, RepeatClaim, RecoverOnly, ClaimPerson
<1> QED
  BY <1>2, <1>3

\* What the boss cancels when it leaves is a call of its own lease.
LEMMA LeaveOrphans ==
  ASSUME OrphansHeld, NEW l \in held, held' = held, orphans' = orphans \cup WorkOrphan(l)
  PROVE  OrphansHeld'
BY DEF OrphansHeld, WorkOrphan

\* Each step of a lease's coroutines.
LEMMA SuperviseStep ==
  ASSUME OrphansHeld, NEW l \in held, Supervise(l)
  PROVE  [Next]_vars /\ OrphansHeld'
<1>1. ASSUME vars' = vars \/ (Next /\ held' = held), orphans' = orphans
      PROVE  [Next]_vars /\ OrphansHeld'
  BY <1>1 DEF OrphansHeld, vars
<1>2. ASSUME vars' = vars \/ (Next /\ held' = held), \E phase : Leave(l, phase)
      PROVE  [Next]_vars /\ OrphansHeld'
  BY <1>2, LeaveOrphans DEF Leave, vars
<1>3. \A op, version :
        \/ Answered(l, op, version) \/ Refused(l, op) \/ Broken(l, op, version)
          => vars' = vars \/ (Next /\ held' = held)
  BY CommitCalls DEF Answered, Refused, Broken
<1>4. CASE StartCheckpoint(l) \/ StartSettling(l) \/ Raise(l) \/ WorkResumes(l)
  BY <1>1, <1>4 DEF StartCheckpoint, StartSettling, Raise, WorkResumes
<1>11. CASE AbandonCheckpoint(l)
  BY <1>11, LeaveOrphans DEF AbandonCheckpoint, vars
<1>5. CASE WorkCommit(l)
  BY <1>1, <1>3, <1>5 DEF WorkCommit
<1>6. CASE WorkBroken(l)
  BY <1>1, <1>3, <1>6 DEF WorkBroken
<1>7. CASE Renew(l)
  BY <1>1, <1>2, <1>3, <1>7 DEF Renew, Unheard, Heard
<1>8. CASE RenewalError(l) \/ TimeOut(l) \/ WorkEnded(l) \/ HandlerError(l)
  BY <1>2, <1>8 DEF RenewalError, TimeOut, WorkEnded, HandlerError
<1>9. CASE Handle(l)
  BY <1>1, <1>2, <1>3, <1>9 DEF Handle, Unheard
<1>10. CASE Reap(l)
  <2>1. {l} \in SUBSET held /\ Forget({l})
    BY <1>10 DEF Reap
  <2>2. OrphansHeld'
    BY <1>10 DEF Reap, Forget, OrphansHeld
  <2> QED
    BY <2>1, <2>2 DEF Next
<1> QED
  BY <1>4, <1>5, <1>6, <1>7, <1>8, <1>9, <1>10, <1>11 DEF Supervise

\* Every step of a worker is a step of the store, or leaves it alone.
LEMMA WorkerStep ==
  OrphansHeld /\ [WorkerNext]_workerVars => [Next]_vars /\ OrphansHeld'
<1> SUFFICES ASSUME OrphansHeld, [WorkerNext]_workerVars
             PROVE  [Next]_vars /\ OrphansHeld'
  OBVIOUS
<1>1. CASE Submit
  <2>1. PICK j \in Job : CreateJob(j, {}) \/ CancelJob(j)
    BY <1>1 DEF Submit
  <2>2. Next
    BY <2>1 DEF Next
  <2>3. held' = held /\ orphans' = orphans
    BY <1>1, <2>1 DEF Submit, CreateJob, CancelJob
  <2> QED
    BY <2>2, <2>3 DEF OrphansHeld
<1>2. ASSUME NEW w \in Worker, NEW t \in Token,
             ClaimAnswered(w, t) \/ ClaimBroken(w, t) \/ ClaimNothing(w, t)
      PROVE  [Next]_vars /\ OrphansHeld'
  <2>1. ClaimTask(w, t, 0) \/ vars' = vars
    BY <1>2 DEF ClaimAnswered, ClaimBroken, ClaimNothing, ClaimTask
  <2>2. orphans' = orphans
    BY <1>2 DEF ClaimAnswered, ClaimBroken, ClaimNothing
  <2> QED
    BY <2>1, <2>2, ClaimHeld DEF OrphansHeld, vars
<1>3. CASE \E l \in held : Supervise(l)
  BY <1>3, SuperviseStep
<1>4. ASSUME NEW o \in orphans, OrphanEnds(o)
      PROVE  [Next]_vars /\ OrphansHeld'
  <2>1. o.lease \in held
    BY DEF OrphansHeld
  <2>2. vars' = vars \/ (Next /\ held' = held)
    BY <1>4, <2>1, CommitCalls DEF OrphanEnds
  <2> QED
    BY <1>4, <2>2 DEF OrphanEnds, OrphansHeld, vars
<1>5. ASSUME NEW w \in Worker, Stop(w)
      PROVE  [Next]_vars /\ OrphansHeld'
  <2>1. \A l \in Active(w) : \A o \in Underway(l) : o.lease \in held
    BY DEF Active, Underway, WorkOrphan
  <2> QED
    BY <1>5, <2>1 DEF Stop, OrphansHeld, vars
<1>6. ASSUME NEW w \in Worker, Crash(w)
      PROVE  [Next]_vars /\ OrphansHeld'
  <2> DEFINE gone == {l \in held : l.worker = w}
  <2>1. Forget(gone) /\ gone \in SUBSET held /\ orphans' = {o \in orphans : o.lease \notin gone}
    BY <1>6 DEF Crash
  <2> QED
    BY <2>1 DEF Next, Forget, OrphansHeld
<1>7. CASE WorkerTick
  BY <1>7 DEF WorkerTick, Tick, Next, OrphansHeld
<1>8. CASE UNCHANGED workerVars
  BY <1>8 DEF workerVars, vars, OrphansHeld
<1> QED
  BY <1>1, <1>2, <1>3, <1>4, <1>5, <1>6, <1>7, <1>8 DEF WorkerNext

\* The workers implement the client that JobStore assumes.
THEOREM WorkersUseTheStore == WorkerSpec => Spec
<1>1. WorkerInit => Init /\ OrphansHeld
  BY DEF WorkerInit, OrphansHeld
<1>2. OrphansHeld /\ [WorkerNext]_workerVars => [Next]_vars /\ OrphansHeld'
  BY WorkerStep
<1> QED
  BY <1>1, <1>2, PTL DEF WorkerSpec, Spec

\* So an outcome a worker was told is stored stands, whatever crashes, stops,
\* broken connections and orphaned calls the workers go through.
THEOREM WorkersKeepOutcomes == WorkerSpec => []AckedOutcomeStands
BY WorkersUseTheStore, AckedOutcomeCorrect, PTL

\* And the store with its workers is a research queue (ImplementsQueue): what a
\* user is promised about a person holds for people researched by these workers.
THEOREM WorkersImplementQueue == WorkerSpec => ImplementsQueue
BY WorkersUseTheStore, QueueImplemented, PTL

-----------------------------------------------------------------------------
(* Resume points, and leases that are left behind.                         *)

\* The row is being researched under the token of the lease, expired or not.
Fenced(l) == task[l.person].status = "researching" /\ task[l.person].token = l.token

\* The leases that processes hold differ in their tokens.
HeldApart == \A l, m \in held : l.token = m.token => l = m

\* A checkpoint without its coroutine has some version that the research under
\* its lease made; another call has the last one, and there will be no later one.
OrphanInv(o) ==
  LET s == sup[o.lease.token]
  IN /\ o.lease \in held
     /\ o.version <= s.version
     /\ o.op = "checkpoint" => s.start < o.version
     /\ o.op # "checkpoint" => s.work \in WorkDone /\ o.version = s.version

\* The work under a lease that still is the fence has the newest version; work
\* that has returned, or was refused, has no lease any more.
LeaseInv(l) ==
  LET s == sup[l.token]
  IN /\ s.latest = s.version
     /\ s.start <= s.version
     /\ s.work = "checkpoint" => s.start < s.version
     /\ Fenced(l) => saved[l.person] <= s.version
     /\ s.phase \in {"watch", "renew"} => s.work # "cancelled"
     /\ s.work \in {"returned", "lost"} => ~Owns(l, 0)
     /\ s.reply # "-" => s.work \in WorkCall
     /\ s.reply = "no" => ~Owns(l, 0)
     /\ s.reply = "yes" /\ s.work # "checkpoint" => ~Owns(l, 0)

WorkerInv ==
  /\ Inv /\ WorkerTypeOK /\ HeldApart
  /\ \A o \in orphans : OrphanInv(o)
  /\ \A l \in held : LeaseInv(l)

\* What a step has to show besides the invariant: a resume point regresses only
\* as ResumePointHolds says, and who leaves without a fault leaves no lease.
Newer == \A p \in Person : saved'[p] >= saved[p]
Holds ==
  \A p \in Person :
    saved'[p] < saved[p] =>
      \E o \in orphans :
        /\ o.op = "checkpoint" /\ o.version = saved'[p]
        /\ o.lease.person = p /\ task[p].token = o.lease.token
        /\ task[p].status = "researching"
        /\ saved'[p] > sup[o.lease.token].start
NoneLeft == \A l \in held :
  Live(l) /\ sup'[l.token].phase = "ended" /\ faults' = faults => ~(Owns(l, 0))'
Proper == WorkerInv' /\ Holds /\ NoneLeft

\* A step that stores nothing older does.
LEMMA NewerHolds ==
  ASSUME WorkerTypeOK, WorkerTypeOK', Newer
  PROVE  Holds
<1>1. \A p \in Person : saved[p] \in Int /\ saved'[p] \in Int
  BY WorkerAssumption DEF WorkerTypeOK, Version
<1> QED
  BY <1>1 DEF Newer, Holds

\* No step gives back to a lease what it has lost.
FenceKept(l) == (Fenced(l)' => Fenced(l)) /\ (Owns(l, 0)' => Owns(l, 0))

\* What is stored is stored by a lease that owns its person.
SavedBy(l, version) ==
  \/ saved' = saved
  \/ Owns(l, 0) /\ saved' = [saved EXCEPT ![l.person] = version]

\* Nobody owns a person of a job that is cancelled.
LEMMA CancelledOwnsNothing ==
  ASSUME Inv, NEW l \in Lease, ~NotCancelled(l)
  PROVE  ~Owns(l, 0)
<1>1. JobOf[l.person] \in Job /\ l.person \in PersonsOf(JobOf[l.person])
  BY ConstantsAssumption DEF Lease, PersonsOf
<1>2. task[l.person].status \in TERMINAL_STATUSES
  BY <1>1 DEF Inv, JobStatusIsCurrent, StatusFor, NotCancelled, TERMINAL_STATUSES,
              SUCCESS_STATUSES
<1> QED
  BY <1>2 DEF Owns, TERMINAL_STATUSES, SUCCESS_STATUSES

\* A refusal means that the lease owns nothing.
LEMMA RefusedOwnsNothing ==
  ASSUME Inv, NEW l \in Lease, NEW op, Refused(l, op)
  PROVE  ~Owns(l, 0) /\ ~(Owns(l, 0))'
<1>1. ~Owns(l, 0)
  BY CancelledOwnsNothing DEF Refused, Accepts
<1> QED
  BY <1>1 DEF Refused, vars, Owns, Unexpired

\* What a call makes of the row it is about.
LEMMA CommitRow ==
  ASSUME Inv, NEW l \in Lease, NEW op, NEW version, Commit(l, op, version)
  PROVE  /\ \A p \in Person \ {l.person} : task'[p] = task[p]
         /\ task'[l.person].token = task[l.person].token
         /\ \/ task'[l.person].status # "researching"
            \/ Owns(l, 0)
            \/ task' = task
         /\ Owns(l, 0) => task[l.person].status = "researching"
         /\ op = "defer" => task'[l.person].status # "researching"
         /\ SavedBy(l, version)
<1>1. l.person \in Person /\ DOMAIN task = Person /\ task[l.person] \in Task
  BY DEF Lease, Inv, TypeOK
<1>2. Owns(l, 0) => task[l.person].status = "researching"
  BY DEF Owns
<1>3. ASSUME NEW o, Settle(l, o), Owns(l, 0)
      PROVE  /\ \A p \in Person \ {l.person} : task'[p] = task[p]
             /\ task'[l.person].token = task[l.person].token
  BY <1>1, <1>3 DEF Settle, Refresh, Settled
<1>4. Stored(l, version) => SavedBy(l, version)
  BY DEF Stored, SavedBy
<1>5. CASE op = "renew"
  <2>1. RenewLease(l, 0) /\ saved' = saved
    BY <1>5 DEF Commit
  <2> QED
    BY <1>1, <1>2, <1>5, <2>1 DEF RenewLease, SavedBy, Task
<1>6. CASE op = "checkpoint"
  <2>1. Checkpoint(l, TheResult) /\ Stored(l, version)
    BY <1>6 DEF Commit
  <2> QED
    BY <1>1, <1>2, <1>4, <1>6, <2>1 DEF Checkpoint, Task
<1>7. CASE op = "finish"
  <2>1. FinishTask(l, TheResult) /\ Stored(l, version)
    BY <1>7 DEF Commit
  <2> QED
    BY <1>2, <1>3, <1>4, <1>7, <2>1 DEF FinishTask
<1>8. CASE op \in {"empty", "timeout", "fail"}
  <2>1. SavedBy(l, version) /\ \E code, rs : FailTask(l, code, rs)
    BY <1>4, <1>8 DEF Commit, SavedBy
  <2> QED
    BY <1>2, <1>3, <1>8, <2>1 DEF FailTask
<1>9. CASE op = "defer"
  <2>1. SavedBy(l, version) /\ \E rs : DeferTask(l, "PROVIDER_UNAVAILABLE", 0, rs, 0)
    BY <1>4, <1>9 DEF Commit, SavedBy
  <2> QED
    BY <1>1, <1>2, <2>1 DEF DeferTask, Refresh, Deferred
<1> QED
  BY <1>5, <1>6, <1>7, <1>8, <1>9 DEF Commit

\* A call gives no lease back what it has lost.
LEMMA CommitKeeps ==
  ASSUME Inv, NEW l \in Lease, NEW op, NEW version, Commit(l, op, version), NEW m \in Lease
  PROVE  FenceKept(m)
<1>1. m.person \in Person /\ (m.person # l.person => task'[m.person] = task[m.person])
  BY CommitRow DEF Lease
<1>2. CASE m.person # l.person
  BY <1>1, <1>2 DEF FenceKept, Fenced, Owns, Unexpired
<1>3. CASE m.person = l.person
  BY <1>3, CommitRow DEF FenceKept, Fenced, Owns, Unexpired
<1> QED
  BY <1>2, <1>3

\* An outcome that was acknowledged closes the person; so does a pause.
LEMMA AnsweredOwnsNothing ==
  ASSUME Inv, Inv', NEW l \in Lease, NEW op \in Settling \cup {"defer"}, NEW version,
         Answered(l, op, version)
  PROVE  ~(Owns(l, 0))'
<1>1. task'[l.person].status # "researching"
  <2>1. CASE op = "defer"
    BY <2>1, CommitRow DEF Answered
  <2>2. CASE op \in Settling
    <3>1. OutcomeOf(op) \in acked'[l.person] /\ RowInv(l.person)'
      BY <2>2 DEF Answered, Inv, Lease
    <3>2. OutcomeOf(op).status \in {"completed", "failed"}
      BY DEF OutcomeOf
    <3> QED
      BY <3>1, <3>2 DEF RowInv
  <2> QED
    BY <2>1, <2>2
<1> QED
  BY <1>1 DEF Owns

\* A call stores no version newer than the lease has.
LEMMA NewestKept ==
  ASSUME WorkerInv, NEW l \in held, FenceKept(l),
         NEW version \in Version, version <= sup[l.token].version, SavedBy(l, version)
  PROVE  Fenced(l)' => saved'[l.person] <= sup[l.token].version
<1>1. l \in Lease /\ l.person \in Person /\ l.token \in Token
  BY DEF WorkerInv, WorkerTypeOK, TypeOK, Lease
<1> QED
  BY <1>1 DEF WorkerInv, LeaseInv, FenceKept, SavedBy, WorkerTypeOK

-----------------------------------------------------------------------------
(* The steps of one lease.                                                 *)

\* Its call, if any, is stored under its newest version; it is only its own
\* coroutines that move, and what it leaves to a thread is a checkpoint or its
\* last call.
Moves(l) ==
  /\ held' = held /\ claim' = claim /\ faults' \in 0 .. MaxFaults
  /\ \A m \in held : FenceKept(m)
  /\ SavedBy(l, sup[l.token].version)
  /\ sup' \in [Token -> Supervision]
  /\ \A t \in Token \ {l.token} : sup'[t] = sup[t]
  /\ sup'[l.token].start = sup[l.token].start
  /\ sup'[l.token].version >= sup[l.token].version
  /\ \/ /\ orphans' = orphans
        /\ sup[l.token].work \in WorkDone =>
             sup'[l.token].work \in WorkDone /\ sup'[l.token].version = sup[l.token].version
     \/ /\ orphans' = orphans \cup WorkOrphan(l)
        /\ sup'[l.token].version = sup[l.token].version
        /\ sup'[l.token].work \in WorkDone \/ sup[l.token].work = "checkpoint"

\* The other leases and all orphans stand; what remains is the lease itself.
LEMMA MovesProper ==
  ASSUME WorkerInv, Inv', NEW l \in held, Moves(l), LeaseInv(l)',
         Live(l) /\ sup'[l.token].phase = "ended" /\ faults' = faults => ~(Owns(l, 0))'
  PROVE  Proper
<1>0. /\ held \subseteq Lease /\ \A m \in held : m.person \in Person /\ m.token \in Token
      /\ \A m \in held : sup[m.token] \in Supervision /\ sup'[m.token] \in Supervision
  BY DEF WorkerInv, WorkerTypeOK, TypeOK, Lease, Moves
<1>1. \A m \in held \ {l} : m.token # l.token /\ sup'[m.token] = sup[m.token]
  BY <1>0 DEF Moves, WorkerInv, HeldApart
<1>2. sup[l.token].version \in Version /\ sup[l.token].version \in Nat
  BY <1>0, WorkerAssumption DEF WorkerInv, WorkerTypeOK, Supervision, Version
<1>3. saved' \in [Person -> Version] /\ Newer
  <2>1. Owns(l, 0) => saved[l.person] <= sup[l.token].version
    BY DEF WorkerInv, LeaseInv, Owns, Fenced
  <2>2. saved \in [Person -> Version] /\ \A v \in Version : v \in Int
    BY WorkerAssumption DEF WorkerInv, WorkerTypeOK, Version
  <2> QED
    BY <1>0, <1>2, <2>1, <2>2 DEF Moves, SavedBy, Newer
<1>4. orphans' \subseteq DbCall
  BY <1>0, <1>2 DEF Moves, WorkOrphan, DbCall, WorkerInv, WorkerTypeOK
<1>5. WorkerTypeOK'
  BY <1>3, <1>4 DEF Moves, WorkerInv, WorkerTypeOK, Inv
<1>6. ASSUME NEW o \in orphans'
      PROVE  OrphanInv(o)'
  <2>0. o.version \in Int /\ \A s \in Supervision : s.version \in Int /\ s.start \in Int
    BY <1>4, WorkerAssumption DEF DbCall, Supervision, Version
  <2>1. CASE o \in orphans
    <3>1. o.lease \in held /\ OrphanInv(o)
      BY <2>1 DEF WorkerInv, OrphanInv
    <3>2. CASE o.lease = l
      <4>1. /\ sup'[l.token].start = sup[l.token].start
            /\ sup'[l.token].version >= sup[l.token].version
            /\ sup[l.token].work \in WorkDone =>
                 sup'[l.token].work \in WorkDone /\ sup'[l.token].version = sup[l.token].version
        BY DEF Moves, WorkDone
      <4> QED
        BY <1>0, <2>0, <3>1, <3>2, <4>1 DEF Moves, OrphanInv
    <3>3. CASE o.lease # l
      BY <1>1, <3>1, <3>3 DEF Moves, OrphanInv
    <3> QED
      BY <3>2, <3>3
  <2>2. CASE o \notin orphans
    <3>1. /\ o = [lease |-> l, op |-> sup[l.token].work, version |-> sup[l.token].version]
          /\ sup'[l.token].version = sup[l.token].version
          /\ sup'[l.token].work \in WorkDone \/ sup[l.token].work = "checkpoint"
      BY <1>6, <2>2 DEF Moves, WorkOrphan
    <3>2. sup'[l.token].start = sup[l.token].start /\ held' = held
      BY DEF Moves
    <3>3. sup[l.token].work = "checkpoint" => sup[l.token].start < sup[l.token].version
      BY DEF WorkerInv, LeaseInv
    <3> QED
      BY <1>0, <2>0, <3>1, <3>2, <3>3 DEF OrphanInv
  <2> QED
    BY <2>1, <2>2
<1>7. ASSUME NEW m \in held \ {l}
      PROVE  LeaseInv(m)'
  <2>1. FenceKept(m) /\ m.token # l.token /\ sup'[m.token] = sup[m.token] /\ LeaseInv(m)
    BY <1>1 DEF Moves, WorkerInv
  <2>2. Fenced(m) => saved'[m.person] = saved[m.person]
    BY <1>0, <2>1 DEF Moves, SavedBy, Owns, Fenced, WorkerInv, WorkerTypeOK
  <2> QED
    BY <2>1, <2>2 DEF LeaseInv, FenceKept
<1>8. NoneLeft
  BY <1>1 DEF NoneLeft, Live
<1>9. held' = held /\ HeldApart'
  BY DEF Moves, WorkerInv, HeldApart
<1>10. WorkerInv'
  BY <1>5, <1>6, <1>7, <1>9 DEF WorkerInv
<1>11. Holds
  BY <1>3, <1>5, NewerHolds DEF WorkerInv
<1> QED
  BY <1>8, <1>10, <1>11 DEF Proper

\* Nothing happens to the store.
LEMMA StoreWaits ==
  ASSUME UNCHANGED <<vars, saved>>
  PROVE  held' = held /\ (\A m : FenceKept(m)) /\ (\A l, v : SavedBy(l, v))
BY DEF vars, FenceKept, Fenced, Owns, Unexpired, SavedBy

\* A call commits or does not, and the caller hears of it or not.
LEMMA CallsKeep ==
  ASSUME WorkerInv, NEW l \in held, NEW op, NEW version, NEW stored,
         Commit(l, op, version) \/ UNCHANGED <<vars, saved>>,
         op = "renew" \/ version = stored
  PROVE  /\ held' = held /\ \A m \in held : FenceKept(m)
         /\ SavedBy(l, stored)
<1>1. l \in Lease /\ held \subseteq Lease /\ Inv
  BY DEF WorkerInv, WorkerTypeOK, TypeOK
<1>2. CASE UNCHANGED <<vars, saved>>
  BY <1>2, StoreWaits
<1>3. CASE Commit(l, op, version)
  <2>1. held' = held
    BY <1>3, CommitCalls
  <2>2. \A m \in held : FenceKept(m)
    BY <1>1, <1>3, CommitKeeps
  <2>3. op = "renew" => saved' = saved
    BY <1>3 DEF Commit
  <2> QED
    BY <1>1, <1>3, <2>1, <2>2, <2>3, CommitRow DEF SavedBy
<1> QED
  BY <1>2, <1>3

\* The boss leaves: for a handler, or for good, if the lease is lost.
LEMMA LeaveProper ==
  ASSUME WorkerInv, Inv', NEW l \in held, NEW phase \in BossCall \cup {"ended"}, Leave(l, phase),
         phase \notin {"watch", "renew"},
         held' = held, claim' = claim, faults' \in 0 .. MaxFaults,
         \A m \in held : FenceKept(m), SavedBy(l, sup[l.token].version),
         phase = "ended" /\ faults' = faults => ~(Owns(l, 0))'
  PROVE  Proper
<1>0. l.token \in Token /\ sup \in [Token -> Supervision] /\ sup[l.token] \in Supervision
  BY DEF WorkerInv, WorkerTypeOK, TypeOK, Lease
<1>1. LeaseInv(l) /\ FenceKept(l)
  BY DEF WorkerInv
<1>2. /\ CancelledWork(sup[l.token]) \in WorkDone
      /\ CancelledWork(sup[l.token]) \in {"returned", "lost"} =>
           sup[l.token].work \in {"returned", "lost"}
  BY DEF CancelledWork, WorkDone
<1>3. /\ sup' \in [Token -> Supervision]
      /\ \A t \in Token \ {l.token} : sup'[t] = sup[t]
      /\ sup'[l.token] = [sup[l.token] EXCEPT !.phase = phase,
                            !.work = CancelledWork(sup[l.token]), !.reply = "-", !.waiting = {}]
  BY <1>0, <1>2 DEF Leave, Supervision, Phase, WorkDone
<1>4. /\ sup'[l.token].phase = phase /\ sup'[l.token].work = CancelledWork(sup[l.token])
      /\ sup'[l.token].reply = "-" /\ sup'[l.token].version = sup[l.token].version
      /\ sup'[l.token].latest = sup[l.token].latest
      /\ sup'[l.token].start = sup[l.token].start
  BY <1>0, <1>3 DEF Supervision
<1>5. sup[l.token].version \in Version /\ sup[l.token].version \in Int
  BY <1>0, WorkerAssumption DEF Supervision, Version
<1>6. Moves(l)
  BY <1>2, <1>3, <1>4, <1>5 DEF Moves, Leave
<1>7. Fenced(l)' => saved'[l.person] <= sup[l.token].version
  BY <1>1, <1>5, NewestKept
<1>8. LeaseInv(l)'
  BY <1>1, <1>2, <1>4, <1>7 DEF LeaseInv, FenceKept, WorkDone
<1> QED
  BY <1>4, <1>6, <1>8, MovesProper

\* The boss goes on: it watches the work, or repeats a call.
LEMMA GoesOnProper ==
  ASSUME WorkerInv, Inv', NEW l \in held, NEW phase \in BossCall \cup {"watch"},
         NEW waiting \in SUBSET {"boss", "work"},
         sup' = [sup EXCEPT ![l.token].phase = phase, ![l.token].waiting = waiting],
         phase \in {"watch", "renew"} => sup[l.token].phase \in {"watch", "renew"},
         held' = held, claim' = claim, orphans' = orphans, faults' \in 0 .. MaxFaults,
         \A m \in held : FenceKept(m), SavedBy(l, sup[l.token].version)
  PROVE  Proper
<1>0. l.token \in Token /\ sup \in [Token -> Supervision] /\ sup[l.token] \in Supervision
  BY DEF WorkerInv, WorkerTypeOK, TypeOK, Lease
<1>1. LeaseInv(l) /\ FenceKept(l)
  BY DEF WorkerInv
<1>2. /\ sup' \in [Token -> Supervision]
      /\ \A t \in Token \ {l.token} : sup'[t] = sup[t]
      /\ sup'[l.token].phase = phase
      /\ sup'[l.token].work = sup[l.token].work /\ sup'[l.token].reply = sup[l.token].reply
      /\ sup'[l.token].version = sup[l.token].version
      /\ sup'[l.token].latest = sup[l.token].latest
      /\ sup'[l.token].start = sup[l.token].start
  BY <1>0 DEF Supervision, Phase
<1>3. sup[l.token].version \in Version /\ sup[l.token].version \in Int
  BY <1>0, WorkerAssumption DEF Supervision, Version
<1>4. Moves(l)
  BY <1>2, <1>3 DEF Moves
<1>5. Fenced(l)' => saved'[l.person] <= sup[l.token].version
  BY <1>1, <1>3, NewestKept
<1>6. LeaseInv(l)'
  BY <1>1, <1>2, <1>5 DEF LeaseInv, FenceKept
<1>7. sup'[l.token].phase # "ended"
  BY <1>2 DEF BossCall
<1> QED
  BY <1>4, <1>6, <1>7, MovesProper

\* The answer of a call, or its silence.
LEMMA AnswersKeep ==
  ASSUME WorkerInv, NEW l \in held, NEW op, NEW version,
         Answered(l, op, version) \/ Refused(l, op) \/ Broken(l, op, version),
         op = "renew" \/ version = sup[l.token].version
  PROVE  /\ held' = held /\ \A m \in held : FenceKept(m)
         /\ SavedBy(l, sup[l.token].version)
<1>1. Commit(l, op, version) \/ UNCHANGED <<vars, saved>>
  BY DEF Answered, Refused, Broken
<1> QED
  BY <1>1, CallsKeep

\* Each step of a lease's coroutines.
LEMMA SuperviseProper ==
  ASSUME WorkerInv, Inv', NEW l \in held, Supervise(l)
  PROVE  Proper
<1>0. /\ l \in Lease /\ l.token \in Token
      /\ sup \in [Token -> Supervision] /\ sup[l.token] \in Supervision
      /\ faults \in 0 .. MaxFaults /\ MaxFaults \in Nat
  BY WorkerAssumption DEF WorkerInv, WorkerTypeOK, TypeOK, Lease
<1>1. /\ LeaseInv(l)
      /\ sup[l.token].version \in Version
      /\ sup[l.token].version \in Int /\ sup[l.token].start \in Int
  BY <1>0, WorkerAssumption DEF WorkerInv, Supervision, Version
<1>2. Fault \/ faults' = faults => faults' \in 0 .. MaxFaults
  BY <1>0 DEF Fault
<1>15. FenceKept(l) /\ SavedBy(l, sup[l.token].version)
       => (Fenced(l)' => saved'[l.person] <= sup[l.token].version)
  BY <1>1, NewestKept
<1>3. CASE StartCheckpoint(l)
  <2>1. /\ sup[l.token].work = "research" /\ sup[l.token].reply = "-"
        /\ sup[l.token].version \in Nat /\ sup[l.token].version + 1 \in Version
    BY <1>0, <1>1, <1>3, WorkerAssumption
    DEF StartCheckpoint, LeaseInv, WorkCall, Supervision, Version
  <2>2. UNCHANGED <<vars, saved, claim, orphans, faults>>
    BY <1>3 DEF StartCheckpoint
  <2>3. /\ sup' \in [Token -> Supervision]
        /\ \A t \in Token \ {l.token} : sup'[t] = sup[t]
        /\ sup'[l.token].work = "checkpoint" /\ sup'[l.token].reply = "-"
        /\ sup'[l.token].version = sup[l.token].version + 1
        /\ sup'[l.token].latest = sup[l.token].version + 1
        /\ sup'[l.token].phase = sup[l.token].phase
        /\ sup'[l.token].start = sup[l.token].start
    BY <1>0, <1>3, <2>1 DEF StartCheckpoint, Supervision, WorkCall
  <2>4. Moves(l)
    BY <1>2, <2>1, <2>2, <2>3, StoreWaits DEF Moves, WorkDone
  <2>5. Fenced(l)' => saved'[l.person] <= sup[l.token].version
    BY <1>15, <2>4 DEF Moves
  <2>6. saved'[l.person] \in Nat
    BY <1>0, <2>2, WorkerAssumption DEF WorkerInv, WorkerTypeOK, Lease, Version
  <2>7. LeaseInv(l)'
    BY <1>1, <2>1, <2>3, <2>5, <2>6 DEF LeaseInv
  <2>8. sup'[l.token].phase = "ended" => ~Live(l)
    BY <2>3 DEF Live
  <2> QED
    BY <2>4, <2>7, <2>8, MovesProper
<1>4. ASSUME StartSettling(l) \/ Raise(l)
      PROVE  Proper
  <2>1. sup[l.token].work = "research" /\ sup[l.token].reply = "-"
    BY <1>1, <1>4 DEF StartSettling, Raise, LeaseInv, WorkCall
  <2>2. UNCHANGED <<vars, saved, claim, orphans>> /\ (Fault \/ faults' = faults)
    BY <1>4 DEF StartSettling, Raise
  <2>3. PICK work \in {"finish", "empty", "outage", "broken"} :
          sup' = [sup EXCEPT ![l.token].work = work]
    BY <1>4 DEF StartSettling, Raise
  <2>4. /\ sup' \in [Token -> Supervision]
        /\ \A t \in Token \ {l.token} : sup'[t] = sup[t]
        /\ sup'[l.token].work = work /\ sup'[l.token].reply = "-"
        /\ sup'[l.token].version = sup[l.token].version
        /\ sup'[l.token].latest = sup[l.token].latest
        /\ sup'[l.token].phase = sup[l.token].phase
        /\ sup'[l.token].start = sup[l.token].start
    BY <1>0, <2>1, <2>3 DEF Supervision, WorkCall, WorkDone
  <2>5. Moves(l)
    BY <1>1, <1>2, <2>1, <2>2, <2>4, StoreWaits DEF Moves, WorkDone
  <2>6. LeaseInv(l)'
    BY <1>1, <1>15, <2>4, <2>5 DEF LeaseInv, Moves
  <2>7. sup'[l.token].phase = "ended" => ~Live(l)
    BY <2>4 DEF Live
  <2> QED
    BY <2>5, <2>6, <2>7, MovesProper
<1>5. CASE WorkCommit(l)
  <2>1. PICK reply \in {"yes", "no"} :
          /\ sup' = [sup EXCEPT ![l.token].reply = reply]
          /\ reply = "yes" => Answered(l, sup[l.token].work, sup[l.token].version)
          /\ reply = "no" => Refused(l, sup[l.token].work)
    BY <1>5 DEF WorkCommit
  <2>2. sup[l.token].work \in WorkCall /\ UNCHANGED <<claim, orphans, faults>>
    BY <1>5 DEF WorkCommit
  <2>3. /\ held' = held /\ \A m \in held : FenceKept(m)
        /\ SavedBy(l, sup[l.token].version)
    BY <2>1, AnswersKeep
  <2>4. /\ sup' \in [Token -> Supervision]
        /\ \A t \in Token \ {l.token} : sup'[t] = sup[t]
        /\ sup'[l.token].work = sup[l.token].work /\ sup'[l.token].reply = reply
        /\ sup'[l.token].version = sup[l.token].version
        /\ sup'[l.token].latest = sup[l.token].latest
        /\ sup'[l.token].phase = sup[l.token].phase
        /\ sup'[l.token].start = sup[l.token].start
    BY <1>0, <2>1 DEF Supervision
  <2>5. Moves(l)
    BY <1>1, <1>2, <2>2, <2>3, <2>4 DEF Moves
  <2>6. reply = "no" => ~(Owns(l, 0))'
    BY <1>0, <2>1, RefusedOwnsNothing DEF WorkerInv
  <2>7. reply = "yes" /\ sup[l.token].work # "checkpoint" => ~(Owns(l, 0))'
    BY <1>0, <2>1, <2>2, AnsweredOwnsNothing DEF WorkerInv, WorkCall, Settling
  <2>8. LeaseInv(l)'
    BY <1>1, <1>15, <2>2, <2>3, <2>4, <2>6, <2>7 DEF LeaseInv, WorkCall
  <2>9. sup'[l.token].phase = "ended" => ~Live(l)
    BY <2>4 DEF Live
  <2> QED
    BY <2>5, <2>8, <2>9, MovesProper
<1>6. CASE WorkBroken(l)
  <2>1. /\ sup' = [sup EXCEPT ![l.token].waiting = @ \cup {"work"}]
        /\ sup[l.token].work \in WorkCall /\ sup[l.token].reply = "-"
        /\ UNCHANGED <<claim, orphans>> /\ Fault
        /\ Broken(l, sup[l.token].work, sup[l.token].version)
    BY <1>6 DEF WorkBroken
  <2>2. /\ held' = held /\ \A m \in held : FenceKept(m)
        /\ SavedBy(l, sup[l.token].version)
    BY <2>1, AnswersKeep
  <2>3. /\ sup' \in [Token -> Supervision]
        /\ \A t \in Token \ {l.token} : sup'[t] = sup[t]
        /\ sup'[l.token].work = sup[l.token].work /\ sup'[l.token].reply = "-"
        /\ sup'[l.token].version = sup[l.token].version
        /\ sup'[l.token].latest = sup[l.token].latest
        /\ sup'[l.token].phase = sup[l.token].phase
        /\ sup'[l.token].start = sup[l.token].start
    BY <1>0, <2>1 DEF Supervision
  <2>4. Moves(l)
    BY <1>1, <1>2, <2>1, <2>2, <2>3 DEF Moves
  <2>5. LeaseInv(l)'
    BY <1>1, <1>15, <2>1, <2>2, <2>3 DEF LeaseInv, WorkCall
  <2>6. sup'[l.token].phase = "ended" => ~Live(l)
    BY <2>3 DEF Live
  <2> QED
    BY <2>4, <2>5, <2>6, MovesProper
<1>7. CASE WorkResumes(l)
  <2> DEFINE work == IF sup[l.token].reply = "no" THEN "lost"
                     ELSE IF sup[l.token].work = "checkpoint" THEN "research" ELSE "returned"
  <2>1. /\ sup' = [sup EXCEPT ![l.token].work = work, ![l.token].reply = "-",
                              ![l.token].waiting = @ \ {"work"}]
        /\ UNCHANGED <<vars, claim, orphans, saved, faults>>
        /\ sup[l.token].reply # "-" /\ sup[l.token].work \in WorkCall
    BY <1>1, <1>7 DEF WorkResumes, LeaseInv
  <2>2. work \in {"lost", "research", "returned"}
    OBVIOUS
  <2>3. work \in {"returned", "lost"} => ~Owns(l, 0)
    BY <1>0, <1>1, <2>1 DEF LeaseInv, Supervision
  <2> HIDE DEF work
  <2>4. /\ sup' \in [Token -> Supervision]
        /\ \A t \in Token \ {l.token} : sup'[t] = sup[t]
        /\ sup'[l.token].work = work /\ sup'[l.token].reply = "-"
        /\ sup'[l.token].version = sup[l.token].version
        /\ sup'[l.token].latest = sup[l.token].latest
        /\ sup'[l.token].phase = sup[l.token].phase
        /\ sup'[l.token].start = sup[l.token].start
    BY <1>0, <2>1, <2>2 DEF Supervision, WorkDone
  <2>5. FenceKept(l) /\ SavedBy(l, sup[l.token].version)
    BY <2>1, StoreWaits
  <2>6. Moves(l)
    BY <1>1, <1>2, <2>1, <2>4, StoreWaits DEF Moves, WorkCall, WorkDone
  <2>7. LeaseInv(l)'
    BY <1>1, <1>15, <2>2, <2>3, <2>4, <2>5 DEF LeaseInv, FenceKept
  <2>8. sup'[l.token].phase = "ended" => ~Live(l)
    BY <2>4 DEF Live
  <2> QED
    BY <2>6, <2>7, <2>8, MovesProper
<1>13. CASE AbandonCheckpoint(l)
  <2>1. /\ sup[l.token].work = "checkpoint"
        /\ UNCHANGED <<vars, claim, saved, faults>> /\ orphans' = orphans \cup WorkOrphan(l)
        /\ sup' = [sup EXCEPT ![l.token].work = "research", ![l.token].reply = "-",
                              ![l.token].waiting = @ \ {"work"}]
    BY <1>13 DEF AbandonCheckpoint
  <2>2. /\ sup' \in [Token -> Supervision]
        /\ \A t \in Token \ {l.token} : sup'[t] = sup[t]
        /\ sup'[l.token].work = "research" /\ sup'[l.token].reply = "-"
        /\ sup'[l.token].version = sup[l.token].version
        /\ sup'[l.token].latest = sup[l.token].latest
        /\ sup'[l.token].phase = sup[l.token].phase
        /\ sup'[l.token].start = sup[l.token].start
    BY <1>0, <2>1 DEF Supervision
  <2>3. FenceKept(l) /\ SavedBy(l, sup[l.token].version)
    BY <2>1, StoreWaits
  <2>4. Moves(l)
    BY <1>1, <1>2, <2>1, <2>2, StoreWaits DEF Moves
  <2>5. LeaseInv(l)'
    BY <1>1, <1>15, <2>2, <2>3 DEF LeaseInv, FenceKept
  <2>6. sup'[l.token].phase = "ended" => ~Live(l)
    BY <2>2 DEF Live
  <2> QED
    BY <2>4, <2>5, <2>6, MovesProper
<1>8. CASE Renew(l)
  <2>1. claim' = claim /\ sup[l.token].phase \in {"watch", "renew"}
    BY <1>8 DEF Renew
  <2>2. CASE Answered(l, "renew", 0) /\ Heard(l) /\ UNCHANGED <<orphans, faults>>
    <3>1. /\ held' = held /\ \A m \in held : FenceKept(m)
          /\ SavedBy(l, sup[l.token].version)
      BY <2>2, AnswersKeep
    <3>2. PICK waiting \in SUBSET {"boss", "work"} :
            sup' = [sup EXCEPT ![l.token].phase = "watch", ![l.token].waiting = waiting]
      <4>1. sup[l.token].waiting \ {"boss"} \in SUBSET {"boss", "work"}
        BY <1>0 DEF Supervision
      <4> QED
        BY <2>2, <4>1 DEF Heard
    <3> QED
      BY <1>2, <2>1, <2>2, <3>1, <3>2, GoesOnProper
  <2>3. CASE Refused(l, "renew") /\ Leave(l, "ended") /\ UNCHANGED faults
    <3>1. /\ held' = held /\ \A m \in held : FenceKept(m)
          /\ SavedBy(l, sup[l.token].version)
      BY <2>3, AnswersKeep
    <3>2. ~(Owns(l, 0))'
      BY <1>0, <2>3, RefusedOwnsNothing DEF WorkerInv
    <3> QED
      BY <1>2, <2>1, <2>3, <3>1, <3>2, LeaveProper
  <2>4. CASE Unheard(l, "renew")
    <3>1. /\ held' = held /\ \A m \in held : FenceKept(m)
          /\ SavedBy(l, sup[l.token].version)
      BY <2>4, AnswersKeep DEF Unheard
    <3>2. PICK waiting \in SUBSET {"boss", "work"} :
            sup' = [sup EXCEPT ![l.token].phase = "renew", ![l.token].waiting = waiting]
      <4>1. sup[l.token].waiting \cup {"boss"} \in SUBSET {"boss", "work"}
        BY <1>0 DEF Supervision
      <4> QED
        BY <2>4, <4>1 DEF Unheard
    <3>3. orphans' = orphans /\ faults' \in 0 .. MaxFaults
      BY <1>2, <2>4 DEF Unheard
    <3> QED
      BY <2>1, <3>1, <3>2, <3>3, GoesOnProper DEF BossCall
  <2> QED
    BY <1>8, <2>2, <2>3, <2>4 DEF Renew
<1>9. CASE RenewalError(l) \/ TimeOut(l) \/ HandlerError(l)
  <2>1. PICK phase \in {"fail", "timeout", "ended"} :
          /\ Leave(l, phase) /\ (phase = "ended" => faults' # faults)
          /\ (Fault \/ faults' = faults)
    BY <1>0, <1>9 DEF RenewalError, TimeOut, HandlerError, Fault
  <2>2. UNCHANGED <<vars, claim, saved>>
    BY <1>9 DEF RenewalError, TimeOut, HandlerError
  <2> QED
    BY <1>2, <2>1, <2>2, StoreWaits, LeaveProper DEF BossCall
<1>10. CASE WorkEnded(l)
  <2>1. PICK phase \in {"defer", "fail", "ended"} :
          /\ Leave(l, phase) /\ UNCHANGED <<vars, claim, saved, faults>>
          /\ phase = "ended" => sup[l.token].work \notin {"outage", "broken"}
    BY <1>10 DEF WorkEnded
  <2>2. phase = "ended" => sup[l.token].work \in {"returned", "lost"}
    BY <1>1, <1>10, <2>1 DEF WorkEnded, Working, WorkDone, LeaseInv
  <2>3. phase = "ended" => ~(Owns(l, 0))'
    BY <1>1, <2>1, <2>2, StoreWaits DEF LeaseInv, FenceKept
  <2> QED
    BY <1>2, <2>1, <2>3, StoreWaits, LeaveProper DEF BossCall
<1>11. CASE Handle(l)
  <2> DEFINE op == sup[l.token].phase
  <2>1. op \in {"defer", "timeout", "fail"} /\ claim' = claim
    BY <1>11 DEF Handle
  <2>2. sup[l.token].latest = sup[l.token].version
    BY <1>1 DEF LeaseInv
  <2>3. CASE /\ Answered(l, op, sup[l.token].latest) \/ Refused(l, op)
             /\ Leave(l, "ended") /\ UNCHANGED faults
    <3>1. /\ held' = held /\ \A m \in held : FenceKept(m)
          /\ SavedBy(l, sup[l.token].version)
      BY <2>2, <2>3, AnswersKeep
    <3>2. ~(Owns(l, 0))'
      BY <1>0, <2>1, <2>3, RefusedOwnsNothing, AnsweredOwnsNothing DEF WorkerInv, Settling
    <3> QED
      BY <1>2, <2>1, <2>3, <3>1, <3>2, LeaveProper
  <2>4. CASE Unheard(l, op)
    <3>1. /\ held' = held /\ \A m \in held : FenceKept(m)
          /\ SavedBy(l, sup[l.token].version)
      BY <2>2, <2>4, AnswersKeep DEF Unheard
    <3>2. PICK waiting \in SUBSET {"boss", "work"} :
            sup' = [sup EXCEPT ![l.token].phase = op, ![l.token].waiting = waiting]
      <4>1. sup[l.token].waiting \cup {"boss"} \in SUBSET {"boss", "work"}
        BY <1>0 DEF Supervision
      <4> QED
        BY <2>4, <4>1 DEF Unheard
    <3>3. orphans' = orphans /\ faults' \in 0 .. MaxFaults
      BY <1>2, <2>4 DEF Unheard
    <3>4. PICK phase \in {"defer", "timeout", "fail"} : phase = op
      BY <2>1
    <3> HIDE DEF op
    <3>5. sup' = [sup EXCEPT ![l.token].phase = phase, ![l.token].waiting = waiting]
      BY <3>2, <3>4
    <3> QED
      BY <2>1, <3>1, <3>3, <3>5, GoesOnProper DEF BossCall
  <2> QED
    BY <1>11, <2>3, <2>4 DEF Handle
<1>12. CASE Reap(l)
  <2>1. /\ sup' = [sup EXCEPT ![l.token] = Nobody]
        /\ UNCHANGED <<claim, orphans, saved, faults>>
        /\ held' = held \ {l} /\ UNCHANGED <<jobStatus, task>>
        /\ \A o \in orphans : o.lease # l
    BY <1>12 DEF Reap, Forget
  <2>2. \A m \in held \ {l} : m.token \in Token /\ m.token # l.token /\ sup'[m.token] = sup[m.token]
    BY <1>0, <2>1 DEF WorkerInv, HeldApart, WorkerTypeOK, TypeOK, Lease
  <2>3. Nobody \in Supervision
    BY WorkerAssumption DEF Nobody, Supervision, Phase, WorkDone, Version
  <2>4. WorkerTypeOK'
    BY <1>0, <2>1, <2>3 DEF WorkerInv, WorkerTypeOK, Inv
  <2>5. HeldApart'
    BY <2>1 DEF WorkerInv, HeldApart
  <2>6. \A o \in orphans' : OrphanInv(o)'
    BY <2>1, <2>2 DEF WorkerInv, OrphanInv
  <2>7. \A m \in held' : LeaseInv(m)'
    BY <2>1, <2>2 DEF WorkerInv, LeaseInv, Fenced, Owns, Unexpired
  <2>8. WorkerInv'
    BY <2>4, <2>5, <2>6, <2>7 DEF WorkerInv
  <2>9. Holds
    BY <2>1, <2>4, WorkerAssumption, NewerHolds DEF Newer, WorkerInv, WorkerTypeOK, Version
  <2>10. NoneLeft
    BY <1>0, <2>1, <2>2 DEF NoneLeft, Live, Nobody
  <2> QED
    BY <2>8, <2>9, <2>10 DEF Proper
<1> QED
  BY <1>3, <1>4, <1>5, <1>6, <1>7, <1>8, <1>9, <1>10, <1>11, <1>12, <1>13 DEF Supervise

-----------------------------------------------------------------------------
(* The other steps.                                                        *)

\* No lease is lost or gained, and nothing is stored.
LEMMA OthersProper ==
  ASSUME WorkerInv, Inv', UNCHANGED <<sup, orphans, saved, held>>,
         \A l \in held : FenceKept(l),
         claim' \in [Worker -> Token \cup {NoToken}], faults' \in 0 .. MaxFaults
  PROVE  Proper
<1>1. WorkerTypeOK'
  BY DEF WorkerInv, WorkerTypeOK, Inv
<1>2. HeldApart' /\ \A o \in orphans' : OrphanInv(o)'
  BY DEF WorkerInv, HeldApart, OrphanInv
<1>3. \A l \in held' : LeaseInv(l)'
  BY DEF WorkerInv, LeaseInv, FenceKept
<1>4. Holds
  BY <1>1, WorkerAssumption, NewerHolds DEF Newer, WorkerInv, WorkerTypeOK, Version
<1>5. NoneLeft
  BY DEF NoneLeft, Live
<1> QED
  BY <1>1, <1>2, <1>3, <1>4, <1>5 DEF Proper, WorkerInv

\* A claim takes rows from nobody whose token is another.
LEMMA ClaimKeeps ==
  ASSUME WorkerInv, NEW w \in Worker, NEW t \in Token, ClaimTask(w, t, 0)
  PROVE  \A l \in held : FenceKept(l)
<1>1. ASSUME NEW l \in held
      PROVE  FenceKept(l)
  <2>0. /\ l.person \in Person /\ l.token \in Token /\ l.token # NoToken
        /\ DOMAIN task = Person
    BY ConstantsAssumption DEF WorkerInv, WorkerTypeOK, TypeOK, Lease
  <2>1. CASE RepeatClaim(w, t, 0)
    BY <2>1 DEF RepeatClaim, FenceKept, Fenced, Owns, Unexpired
  <2>2. \A J : \/ Recovered(J, 0)[l.person] = task[l.person]
               \/ Recovered(J, 0)[l.person].status = "queued"
    BY <2>0 DEF Recovered, Interrupted
  <2>3. CASE RecoverOnly(w, t, 0)
    <3>1. PICK J : task' = Recovered(J, 0)
      BY <2>3 DEF RecoverOnly, Refresh
    <3> QED
      BY <2>2, <3>1 DEF FenceKept, Fenced, Owns, Unexpired
  <2>4. ASSUME NEW p \in Person, ClaimPerson(w, t, p, 0)
        PROVE  FenceKept(l)
    <3>1. l.token # t
      BY <2>4 DEF ClaimPerson, Fresh, Unacknowledged
    <3>2. PICK J : task' = [Recovered(J, 0) EXCEPT
                              ![p] = Claimed(Recovered(J, 0)[p], w, t, 0)]
      BY <2>4 DEF ClaimPerson, Refresh
    <3>3. DOMAIN Recovered(J, 0) = Person
      BY DEF Recovered
    <3>4. CASE p = l.person
      BY <2>0, <3>1, <3>2, <3>3, <3>4 DEF Claimed, FenceKept, Fenced, Owns
    <3>5. CASE p # l.person
      <4>1. task'[l.person] = Recovered(J, 0)[l.person]
        BY <2>0, <3>2, <3>3, <3>5
      <4> QED
        BY <2>2, <4>1 DEF FenceKept, Fenced, Owns, Unexpired
    <3> QED
      BY <3>4, <3>5
  <2> QED
    BY <2>1, <2>3, <2>4 DEF ClaimTask
<1> QED
  BY <1>1

\* A lease arrives with a token that no other lease has.
LEMMA ClaimAnsweredProper ==
  ASSUME WorkerInv, Inv', NEW w \in Worker, NEW t \in Token, ClaimAnswered(w, t)
  PROVE  Proper
<1>1. /\ ClaimTask(w, t, 0) /\ claim' = [claim EXCEPT ![w] = NoToken]
      /\ UNCHANGED <<orphans, saved, faults>>
  BY DEF ClaimAnswered
<1>2. PICK l \in held' \ held :
        sup' = [sup EXCEPT ![t] = [phase |-> "watch", work |-> "research", reply |-> "-",
                                   start |-> saved[l.person], version |-> saved[l.person],
                                   latest |-> saved[l.person], waiting |-> {}]]
  BY DEF ClaimAnswered
<1>3. PICK p \in Person : l = LeaseFor(p, w, t) /\ held' = held \cup {l}
  BY <1>1, <1>2 DEF ClaimTask, RepeatClaim, RecoverOnly, ClaimPerson, Existing
<1>4. \A m \in held : m.token # t
  BY <1>1, <1>2 DEF ClaimTask, RepeatClaim, RecoverOnly, ClaimPerson, Fresh, Unacknowledged
<1>5. l \in Lease /\ l.person = p /\ l.token = t
  BY <1>3 DEF LeaseFor, Lease
<1>6. saved \in [Person -> Version] /\ sup \in [Token -> Supervision] /\ saved[p] \in Nat
  BY WorkerAssumption DEF WorkerInv, WorkerTypeOK, Version
<1>7. /\ sup' \in [Token -> Supervision]
      /\ \A u \in Token \ {t} : sup'[u] = sup[u]
      /\ sup'[t].phase = "watch" /\ sup'[t].work = "research" /\ sup'[t].reply = "-"
      /\ sup'[t].version = saved[p] /\ sup'[t].latest = saved[p] /\ sup'[t].start = saved[p]
  <2>1. [phase |-> "watch", work |-> "research", reply |-> "-",
         start |-> saved[l.person], version |-> saved[l.person],
         latest |-> saved[l.person], waiting |-> {}] \in Supervision
    BY <1>5, <1>6 DEF Supervision, Phase
  <2> QED
    BY <1>2, <1>5, <1>6, <2>1
<1>8. \A m \in held : m \in Lease /\ m.token \in Token /\ sup'[m.token] = sup[m.token]
  BY <1>4, <1>7 DEF WorkerInv, WorkerTypeOK, TypeOK, Lease
<1>9. WorkerTypeOK'
  BY <1>1, <1>7 DEF WorkerInv, WorkerTypeOK, Inv
<1>10. HeldApart'
  BY <1>3, <1>4, <1>5 DEF WorkerInv, HeldApart
<1>11. \A o \in orphans' : OrphanInv(o)'
  BY <1>1, <1>3, <1>8 DEF WorkerInv, OrphanInv
<1>12. ASSUME NEW m \in held'
       PROVE  LeaseInv(m)'
  <2>1. CASE m \in held
    <3>1. FenceKept(m) /\ LeaseInv(m) /\ sup'[m.token] = sup[m.token]
      BY <1>1, <1>8, <2>1, ClaimKeeps DEF WorkerInv
    <3> QED
      BY <1>1, <3>1 DEF LeaseInv, FenceKept
  <2>2. CASE m = l
    BY <1>1, <1>5, <1>6, <1>7, <2>2 DEF LeaseInv
  <2> QED
    BY <1>3, <2>1, <2>2
<1>13. WorkerInv'
  BY <1>9, <1>10, <1>11, <1>12 DEF WorkerInv
<1>14. Holds
  BY <1>1, <1>9, WorkerAssumption, NewerHolds DEF Newer, WorkerInv, WorkerTypeOK, Version
<1>15. NoneLeft
  BY <1>8 DEF NoneLeft, Live
<1> QED
  BY <1>13, <1>14, <1>15 DEF Proper

\* A thread ends: its call is of a lease that is remembered.
LEMMA OrphanEndsProper ==
  ASSUME WorkerInv, Inv', NEW o \in orphans, OrphanEnds(o)
  PROVE  Proper
<1> DEFINE l == o.lease
<1>0. /\ l \in held /\ l \in Lease /\ l.token \in Token /\ l.person \in Person
      /\ sup \in [Token -> Supervision] /\ OrphanInv(o) /\ LeaseInv(l)
      /\ orphans \subseteq DbCall /\ faults \in 0 .. MaxFaults /\ saved \in [Person -> Version]
  BY DEF WorkerInv, WorkerTypeOK, OrphanInv, TypeOK, Lease
<1>1. /\ held' = held /\ \A m \in held : FenceKept(m)
      /\ SavedBy(l, o.version)
  BY <1>0, CallsKeep DEF OrphanEnds
<1>2. orphans' = orphans \ {o} /\ UNCHANGED <<sup, claim, faults>>
  BY DEF OrphanEnds
<1>3. /\ o.version \in Version /\ o.version <= sup[l.token].version
      /\ \A v \in Version : v \in Int
  BY <1>0, WorkerAssumption DEF OrphanInv, DbCall, Version
<1>4. saved' \in [Person -> Version]
  BY <1>0, <1>1, <1>3 DEF SavedBy
<1>5. WorkerTypeOK'
  BY <1>2, <1>4 DEF WorkerInv, WorkerTypeOK, Inv
<1>10. Holds
  <2>1. SUFFICES ASSUME NEW p \in Person, saved'[p] < saved[p]
                 PROVE  /\ o.op = "checkpoint" /\ o.version = saved'[p]
                        /\ l.person = p /\ task[p].token = l.token
                        /\ task[p].status = "researching"
                        /\ saved'[p] > sup[l.token].start
    BY DEF Holds
  <2>2. Owns(l, 0) /\ l.person = p /\ saved'[p] = o.version
    BY <1>0, <1>1, <1>3, <2>1 DEF SavedBy
  <2>3. Fenced(l) /\ saved[p] <= sup[l.token].version
    BY <1>0, <2>2 DEF LeaseInv, Owns, Fenced
  <2>4. o.op = "checkpoint"
    BY <1>0, <1>3, <2>1, <2>2, <2>3 DEF OrphanInv
  <2>5. saved'[p] > sup[l.token].start
    <3>1. sup[l.token].start \in Int
      BY <1>0, <1>3 DEF Supervision
    <3> QED
      BY <1>0, <1>3, <2>2, <2>4, <3>1 DEF OrphanInv
  <2> QED
    BY <2>2, <2>3, <2>4, <2>5 DEF Fenced
<1>6. HeldApart' /\ \A q \in orphans' : OrphanInv(q)'
  BY <1>1, <1>2 DEF WorkerInv, HeldApart, OrphanInv
<1>7. ASSUME NEW m \in held
      PROVE  LeaseInv(m)'
  <2>1. FenceKept(m) /\ LeaseInv(m) /\ sup'[m.token] = sup[m.token]
    BY <1>1, <1>2 DEF WorkerInv
  <2>2. CASE m = l
    BY <1>0, <1>1, <1>3, <2>1, <2>2, NewestKept DEF LeaseInv, FenceKept
  <2>3. CASE m # l
    <3>1. m.token # l.token
      BY <1>0, <2>3 DEF WorkerInv, HeldApart
    <3>2. m.person \in Person
      BY DEF WorkerInv, WorkerTypeOK, TypeOK, Lease
    <3>3. Fenced(m) => saved'[m.person] = saved[m.person]
      BY <1>0, <1>1, <3>1, <3>2 DEF SavedBy, Owns, Fenced
    <3> QED
      BY <2>1, <3>3 DEF LeaseInv, FenceKept
  <2> QED
    BY <2>2, <2>3
<1>8. WorkerInv'
  BY <1>1, <1>5, <1>6, <1>7 DEF WorkerInv
<1>9. NoneLeft
  BY <1>2 DEF NoneLeft, Live
<1> QED
  BY <1>8, <1>9, <1>10 DEF Proper

\* Faults are counted.
LEMMA FaultCounts ==
  ASSUME WorkerInv, Fault
  PROVE  faults' \in 0 .. MaxFaults /\ faults' # faults
<1>1. faults \in 0 .. MaxFaults /\ MaxFaults \in Nat
  BY WorkerAssumption DEF WorkerInv, WorkerTypeOK
<1> QED
  BY <1>1 DEF Fault

\* Nothing is stored.
LEMMA NothingSaved ==
  ASSUME WorkerInv, saved' = saved
  PROVE  Holds
<1>1. \A p \in Person : saved[p] \in Int
  BY WorkerAssumption DEF WorkerInv, WorkerTypeOK, Version
<1> QED
  BY <1>1 DEF Holds

\* SIGTERM: what is under way in the leases of a process becomes a thread each.
LEMMA StopProper ==
  ASSUME WorkerInv, Inv', NEW w \in Worker, Stop(w)
  PROVE  Proper
<1>0. /\ UNCHANGED <<vars, saved>> /\ Fault
      /\ claim' = [claim EXCEPT ![w] = NoToken]
      /\ orphans' = orphans \cup UNION {Underway(l) : l \in Active(w)}
      /\ sup' = [t \in Token |->
           IF \E l \in Active(w) : l.token = t
           THEN [sup[t] EXCEPT !.phase = "ended", !.work = CancelledWork(sup[t]),
                               !.reply = "-", !.waiting = {}]
           ELSE sup[t]]
  BY DEF Stop
<1>1. /\ \A l \in held : l \in Lease /\ l.token \in Token
      /\ sup \in [Token -> Supervision] /\ Active(w) \subseteq held
  BY DEF WorkerInv, WorkerTypeOK, TypeOK, Lease, Active
<1>2. ASSUME NEW t \in Token, \E l \in Active(w) : l.token = t
      PROVE  /\ sup'[t] \in Supervision /\ sup'[t].phase = "ended" /\ sup'[t].reply = "-"
             /\ sup'[t].work = CancelledWork(sup[t])
             /\ sup'[t].version = sup[t].version /\ sup'[t].latest = sup[t].latest
             /\ sup'[t].start = sup[t].start /\ sup'[t].work \in WorkDone
  <2>1. sup[t] \in Supervision /\ CancelledWork(sup[t]) \in WorkDone
    BY <1>1 DEF CancelledWork, WorkDone
  <2>2. sup'[t] = [sup[t] EXCEPT !.phase = "ended", !.work = CancelledWork(sup[t]),
                                 !.reply = "-", !.waiting = {}]
    BY <1>0, <1>2
  <2> QED
    BY <2>1, <2>2 DEF Supervision, Phase
<1>3. ASSUME NEW t \in Token, ~\E l \in Active(w) : l.token = t
      PROVE  sup'[t] = sup[t]
  BY <1>0, <1>3
<1>4. sup' \in [Token -> Supervision]
  BY <1>0, <1>1, <1>2, <1>3
<1>5. ASSUME NEW l \in Active(w), NEW o \in Underway(l)
      PROVE  /\ o.lease = l /\ o.version = sup[l.token].version /\ o \in DbCall
             /\ o.op = "checkpoint" => sup[l.token].start < o.version
  <2>1. l \in Lease /\ l.token \in Token /\ LeaseInv(l) /\ sup[l.token] \in Supervision
    BY <1>1 DEF WorkerInv
  <2>2. sup[l.token].latest = sup[l.token].version /\ sup[l.token].version \in Version
    BY <2>1 DEF LeaseInv, Supervision
  <2>3. sup[l.token].work = "checkpoint" => sup[l.token].start < sup[l.token].version
    BY <2>1 DEF LeaseInv
  <2> QED
    BY <2>1, <2>2, <2>3 DEF Underway, WorkOrphan, DbCall, BossCall
<1>6. WorkerTypeOK'
  <2>1. orphans' \subseteq DbCall
    <3>1. \A o \in orphans' : o \in orphans \/ \E l \in Active(w) : o \in Underway(l)
      BY <1>0
    <3> QED
      BY <1>5, <3>1 DEF WorkerInv, WorkerTypeOK
  <2>2. faults' \in 0 .. MaxFaults
    BY <1>0, FaultCounts
  <2>3. claim' \in [Worker -> Token \cup {NoToken}]
    BY <1>0 DEF WorkerInv, WorkerTypeOK
  <2> QED
    BY <1>0, <1>4, <2>1, <2>2, <2>3 DEF WorkerInv, WorkerTypeOK, Inv
<1>7. held' = held /\ HeldApart' /\ \A l \in held : FenceKept(l)
  BY <1>0, StoreWaits DEF WorkerInv, HeldApart
<1>8. ASSUME NEW o \in orphans'
      PROVE  OrphanInv(o)'
  <2>1. CASE o \in orphans
    <3>1. o.lease \in held /\ o.lease.token \in Token
      BY <1>1, <2>1 DEF WorkerInv, OrphanInv
    <3>2. /\ sup'[o.lease.token].version = sup[o.lease.token].version
          /\ sup'[o.lease.token].start = sup[o.lease.token].start
          /\ sup[o.lease.token].work \in WorkDone => sup'[o.lease.token].work \in WorkDone
      BY <1>2, <1>3, <3>1
    <3> QED
      BY <1>7, <2>1, <3>1, <3>2 DEF WorkerInv, OrphanInv
  <2>2. CASE o \notin orphans
    <3>1. PICK l \in Active(w) : o \in Underway(l)
      BY <1>0, <1>8, <2>2
    <3>2. /\ o.lease = l /\ o.version = sup[l.token].version /\ l \in held /\ l.token \in Token
          /\ o.op = "checkpoint" => sup[l.token].start < o.version
      BY <1>1, <1>5, <3>1
    <3>3. o.version \in Int
      BY <1>1, <3>2, WorkerAssumption DEF Supervision, Version
    <3> QED
      BY <1>2, <1>7, <3>1, <3>2, <3>3 DEF OrphanInv
  <2> QED
    BY <2>1, <2>2
<1>9. ASSUME NEW l \in held
      PROVE  LeaseInv(l)'
  <2>1. l.token \in Token /\ LeaseInv(l) /\ FenceKept(l) /\ saved' = saved
    BY <1>0, <1>1, <1>7 DEF WorkerInv
  <2>2. CASE \E m \in Active(w) : m.token = l.token
    BY <1>2, <2>1, <2>2 DEF LeaseInv, FenceKept, CancelledWork, WorkDone
  <2>3. CASE ~\E m \in Active(w) : m.token = l.token
    BY <1>3, <2>1, <2>3 DEF LeaseInv, FenceKept
  <2> QED
    BY <2>2, <2>3
<1>10. WorkerInv'
  BY <1>6, <1>7, <1>8, <1>9 DEF WorkerInv
<1>11. Holds
  BY <1>0, NothingSaved
<1>12. NoneLeft
  BY <1>0, FaultCounts DEF NoneLeft
<1> QED
  BY <1>10, <1>11, <1>12 DEF Proper

\* A process dies with its leases and its threads.
LEMMA CrashProper ==
  ASSUME WorkerInv, Inv', NEW w \in Worker, Crash(w)
  PROVE  Proper
<1> DEFINE gone == {l \in held : l.worker = w}
<1>0. /\ held' = held \ gone /\ UNCHANGED <<jobStatus, task, saved>> /\ Fault
      /\ claim' = [claim EXCEPT ![w] = NoToken]
      /\ orphans' = {o \in orphans : o.lease \notin gone}
      /\ sup' = [t \in Token |-> IF \E l \in gone : l.token = t THEN Nobody ELSE sup[t]]
  BY DEF Crash, Forget
<1>1. \A l \in held : l \in Lease /\ l.token \in Token
  BY DEF WorkerInv, WorkerTypeOK, TypeOK, Lease
<1>2. \A l \in held \ gone : sup'[l.token] = sup[l.token]
  BY <1>0, <1>1 DEF WorkerInv, HeldApart
<1>3. Nobody \in Supervision
  BY WorkerAssumption DEF Nobody, Supervision, Phase, WorkDone, Version
<1>4. WorkerTypeOK'
  <2>1. sup' \in [Token -> Supervision]
    BY <1>0, <1>3 DEF WorkerInv, WorkerTypeOK
  <2>2. faults' \in 0 .. MaxFaults
    BY <1>0, FaultCounts
  <2>3. /\ claim' \in [Worker -> Token \cup {NoToken}] /\ orphans' \subseteq DbCall
        /\ saved' \in [Person -> Version]
    BY <1>0 DEF WorkerInv, WorkerTypeOK
  <2> QED
    BY <2>1, <2>2, <2>3 DEF WorkerTypeOK, Inv
<1>5. HeldApart'
  BY <1>0 DEF WorkerInv, HeldApart
<1>6. \A o \in orphans' : OrphanInv(o)'
  BY <1>0, <1>2 DEF WorkerInv, OrphanInv
<1>7. \A l \in held' : LeaseInv(l)'
  BY <1>0, <1>2 DEF WorkerInv, LeaseInv, Fenced, Owns, Unexpired
<1>8. WorkerInv'
  BY <1>4, <1>5, <1>6, <1>7 DEF WorkerInv
<1>9. Holds
  BY <1>0, NothingSaved
<1>10. NoneLeft
  BY <1>0, FaultCounts DEF NoneLeft
<1> QED
  BY <1>8, <1>9, <1>10 DEF Proper

\* Each step of the workers.
LEMMA WorkerStepProper ==
  ASSUME WorkerInv, [WorkerNext]_workerVars
  PROVE  Proper
<1>1. Inv'
  <2>1. OrphansHeld
    BY DEF WorkerInv, OrphanInv, OrphansHeld
  <2> QED
    BY <2>1, WorkerStep, InvStep DEF WorkerInv
<1>2. /\ claim \in [Worker -> Token \cup {NoToken}]
      /\ faults \in 0 .. MaxFaults /\ MaxFaults \in Nat
      /\ held \subseteq Lease /\ \A l \in held : l.person \in Person
      /\ Fault => faults' \in 0 .. MaxFaults
  BY WorkerAssumption DEF WorkerInv, WorkerTypeOK, TypeOK, Lease, Fault
<1>3. CASE Submit
  <2>1. UNCHANGED <<sup, claim, orphans, saved, faults>>
    BY <1>3 DEF Submit
  <2>2. PICK j \in Job : CreateJob(j, {}) \/ CancelJob(j)
    BY <1>3 DEF Submit
  <2>3. held' = held
    BY <2>2 DEF CreateJob, CancelJob
  <2>4. \A l \in held : FenceKept(l)
    <3>1. \A p \in Person : task'[p] = task[p] \/ task'[p].status # "researching"
      BY <2>2 DEF CreateJob, CancelJob, Refresh, NewRow, Cancelled
    <3> QED
      BY <1>2, <3>1 DEF FenceKept, Fenced, Owns, Unexpired
  <2> QED
    BY <1>1, <1>2, <2>1, <2>3, <2>4, OthersProper
<1>4. ASSUME NEW w \in Worker, NEW t \in Token, ClaimAnswered(w, t)
      PROVE  Proper
  BY <1>1, <1>4, ClaimAnsweredProper
<1>5. ASSUME NEW w \in Worker, NEW t \in Token, ClaimBroken(w, t) \/ ClaimNothing(w, t)
      PROVE  Proper
  <2>1. /\ UNCHANGED <<sup, orphans, saved, held>> /\ (Fault \/ faults' = faults)
        /\ claim' \in [Worker -> Token \cup {NoToken}]
    BY <1>2, <1>5 DEF ClaimBroken, ClaimNothing, RecoverOnly, vars
  <2>2. ClaimTask(w, t, 0) \/ UNCHANGED <<vars, saved>>
    BY <1>5 DEF ClaimBroken, ClaimNothing, ClaimTask
  <2>3. \A l \in held : FenceKept(l)
    BY <2>2, ClaimKeeps, StoreWaits
  <2> QED
    BY <1>1, <1>2, <2>1, <2>3, OthersProper
<1>6. CASE \E l \in held : Supervise(l)
  BY <1>1, <1>6, SuperviseProper
<1>7. CASE \E o \in orphans : OrphanEnds(o)
  BY <1>1, <1>7, OrphanEndsProper
<1>8. CASE \E w \in Worker : Stop(w) \/ Crash(w)
  BY <1>1, <1>8, StopProper, CrashProper
<1>9. CASE WorkerTick
  <2>1. UNCHANGED <<sup, claim, orphans, saved, held>> /\ faults' \in 0 .. MaxFaults
    BY <1>2, <1>9 DEF WorkerTick, Tick
  <2>2. ASSUME NEW p \in Person
        PROVE  /\ task'[p].status = task[p].status /\ task'[p].token = task[p].token
               /\ task'[p].left <= task[p].left /\ task'[p].left \in Int /\ task[p].left \in Int
    <3>1. task[p] \in Task /\ task[p].left \in Int
      BY DEF WorkerInv, WorkerTypeOK, TypeOK, Task
    <3>2. task'[p] = [task[p] EXCEPT !.left = IF @ > Lapsed THEN @ - 1 ELSE @]
      BY <1>9 DEF WorkerTick, Tick
    <3> QED
      BY <3>1, <3>2 DEF Task
  <2>3. \A l \in held : FenceKept(l)
    BY <1>2, <2>2 DEF FenceKept, Fenced, Owns, Unexpired
  <2> QED
    BY <1>1, <1>2, <2>1, <2>3, OthersProper
<1>10. CASE UNCHANGED workerVars
  <2>1. UNCHANGED <<vars, saved>> /\ UNCHANGED <<sup, claim, orphans, faults>>
    BY <1>10 DEF workerVars
  <2> QED
    BY <1>1, <1>2, <2>1, StoreWaits, OthersProper
<1> QED
  BY <1>3, <1>4, <1>5, <1>6, <1>7, <1>8, <1>9, <1>10 DEF WorkerNext

\* Before anything happens.
LEMMA WorkerStarts == WorkerInit => WorkerInv
<1> SUFFICES ASSUME WorkerInit
             PROVE  WorkerInv
  OBVIOUS
<1>1. Inv /\ held = {}
  BY InvInit DEF WorkerInit, Init
<1>2. Nobody \in Supervision /\ 0 \in Version
  BY WorkerAssumption DEF Nobody, Supervision, Phase, WorkDone, Version
<1>3. WorkerTypeOK
  BY <1>1, <1>2, WorkerAssumption DEF WorkerInit, WorkerTypeOK, Inv
<1> QED
  BY <1>1, <1>3 DEF WorkerInit, WorkerInv, HeldApart

\* A resume point regresses in one way only: whoever stores a result owns the
\* person, whoever owns it has the newest version, and a call without its
\* coroutine is its last one or a checkpoint that it abandoned.
THEOREM ResumePointsCorrect == WorkerSpec => ResumePointHolds
<1>1. WorkerInv /\ [WorkerNext]_workerVars => WorkerInv'
  BY WorkerStepProper DEF Proper
<1>2. WorkerInv /\ [WorkerNext]_workerVars =>
        [\A p \in Person :
           saved'[p] < saved[p] =>
             \E o \in orphans :
               /\ o.op = "checkpoint" /\ o.version = saved'[p]
               /\ o.lease.person = p /\ task[p].token = o.lease.token
               /\ task[p].status = "researching"
               /\ saved'[p] > sup[o.lease.token].start]_workerVars
  BY WorkerStepProper DEF Proper, Holds
<1> QED
  BY <1>1, <1>2, WorkerStarts, PTL DEF WorkerSpec, ResumePointHolds

\* A boss that ends without a fault leaves no lease behind, and what is held and
\* under way keeps its type.
THEOREM BossesCorrect == WorkerSpec => EndedBossLeavesNoLease
<1>1. WorkerInv /\ [WorkerNext]_workerVars => WorkerInv'
  BY WorkerStepProper DEF Proper
<1>2. WorkerInv /\ [WorkerNext]_workerVars =>
        [\A l \in held :
           /\ Live(l) /\ sup'[l.token].phase = "ended" /\ faults' = faults
           => ~(Owns(l, 0))']_workerVars
  BY WorkerStepProper DEF Proper, NoneLeft
<1>3. WorkerInv => WorkerTypeOK
  BY DEF WorkerInv
<1> QED
  BY <1>1, <1>2, <1>3, WorkerStarts, PTL DEF WorkerSpec, EndedBossLeavesNoLease
=============================================================================
