-------------------------------- MODULE Worker --------------------------------
(***************************************************************************)
(* The worker processes of app/worker.py on top of the job store.  A       *)
(* process claims people; each lease has two coroutines: the work, which   *)
(* researches, checkpoints and settles the person, and the boss, which     *)
(* renews the lease, limits the time and decides what an error means.      *)
(*                                                                         *)
(* Every call goes through retry_database: a connectivity error repeats    *)
(* the call, whose first try may have committed.  Cancelling a coroutine   *)
(* does not stop the thread that runs its call: the call is orphaned and   *)
(* may still commit.  This happens to a lease that goes on, too: when a    *)
(* chunk of a page fails, ordered_window cancels the tasks of the others,  *)
(* one of which may be inside a checkpoint; the research catches the error *)
(* and stores newer checkpoints.                                           *)
(*                                                                         *)
(* A stored result is abstracted to its version, the number of checkpoints *)
(* that led to it.  What goes wrong outside the program (a process dies or *)
(* is stopped, a connection breaks, a provider fails, a process stalls     *)
(* past its lease) is bounded by MaxFaults.                                *)
(***************************************************************************)
EXTENDS JobStore

CONSTANTS
  MaxConcurrent, \* MAX_CONCURRENT_PEOPLE
  MaxVersion,    \* checkpoints in the research of a person
  MaxFaults      \* bound of the model

ASSUME WorkerAssumption ==
  /\ MaxConcurrent \in Nat \ {0}
  /\ MaxVersion \in Nat \ {0}
  /\ MaxFaults \in Nat
  /\ {"PERSON_TIMEOUT", "RESEARCH_FAILED", "INSUFFICIENT_EVIDENCE"} \subseteq FailureCode
  /\ "PROVIDER_UNAVAILABLE" \in OutageCode
  /\ 0 \in RetryAfter

VARIABLES
  sup,     \* the coroutines of a lease, by its token
  claim,   \* the token a process waits to hear about, after a broken connection
  orphans, \* calls whose coroutine was cancelled
  saved,   \* the version of the result stored for a person
  faults

workerVars == <<vars, sup, claim, orphans, saved, faults>>

\* What the boss is doing: watching the work, or retrying a call.
BossCall == {"renew", "defer", "timeout", "fail"}
Phase == {"none", "watch", "ended"} \cup BossCall

\* What the work is doing: researching, waiting for a call, or done.
WorkCall == {"checkpoint", "finish", "empty"}
WorkDone == {"returned", "outage", "lost", "broken", "cancelled"}

Version == 0 .. MaxVersion
DbCall == [lease : Lease, op : BossCall \cup WorkCall, version : Version]

\* start: the version in lease.checkpoint, which the research resumed from.
Supervision == [phase : Phase, work : {"research"} \cup WorkCall \cup WorkDone,
                reply : {"-", "yes", "no"}, start : Version, version : Version,
                latest : Version, waiting : SUBSET {"boss", "work"}]

Nobody == [phase |-> "none", work |-> "cancelled", reply |-> "-", start |-> 0,
           version |-> 0, latest |-> 0, waiting |-> {}]

WorkerTypeOK ==
  /\ TypeOK
  /\ sup \in [Token -> Supervision]
  /\ claim \in [Worker -> Token \cup {NoToken}]
  /\ orphans \subseteq DbCall
  /\ saved \in [Person -> Version]
  /\ faults \in 0 .. MaxFaults

WorkerInit ==
  /\ Init
  /\ sup = [t \in Token |-> Nobody]
  /\ claim = [w \in Worker |-> NoToken]
  /\ orphans = {}
  /\ saved = [p \in Person |-> 0]
  /\ faults = 0

Live(l) == sup[l.token].phase \notin {"none", "ended"}
Working(t) == sup[t].work \notin WorkDone

Fault == faults < MaxFaults /\ faults' = faults + 1

-----------------------------------------------------------------------------
(* Calls of the store.                                                     *)

TheResult == [status |-> "completed", items |-> {}]
EmptyResult == [TheResult EXCEPT !.status = "failed"]

\* The outcome a call settles the person with.
OutcomeOf(op) ==
  IF op = "finish" THEN [status |-> "completed", error |-> NoError]
  ELSE [status |-> "failed",
        error |-> Final(CASE op = "empty" -> "INSUFFICIENT_EVIDENCE"
                          [] op = "timeout" -> "PERSON_TIMEOUT"
                          [] OTHER -> "RESEARCH_FAILED")]

Settling == {"finish", "empty", "timeout", "fail"}

\* Whether the store answers a call with True and what it then does.
Accepts(l, op) ==
  /\ NotCancelled(l)
  /\ Owns(l, 0) \/ (op \in Settling /\ Receipt(l, OutcomeOf(op)))

Stored(l, version) ==
  saved' = IF Owns(l, 0) THEN [saved EXCEPT ![l.person] = version] ELSE saved

Commit(l, op, version) ==
  \/ op = "renew" /\ RenewLease(l, 0) /\ UNCHANGED saved
  \/ op = "checkpoint" /\ Checkpoint(l, TheResult) /\ Stored(l, version)
  \/ op = "finish" /\ FinishTask(l, TheResult) /\ Stored(l, version)
  \/ op = "empty" /\ FailTask(l, "INSUFFICIENT_EVIDENCE", {EmptyResult}) /\ Stored(l, version)
  \/ op = "timeout" /\ FailTask(l, "PERSON_TIMEOUT", {}) /\ UNCHANGED saved
  \/ op = "fail" /\ FailTask(l, "RESEARCH_FAILED", {}) /\ UNCHANGED saved
  \/ /\ op = "defer"
     /\ DeferTask(l, "PROVIDER_UNAVAILABLE", 0,
                  IF version = 0 THEN {} ELSE {TheResult}, 0)
     /\ IF version = 0 THEN UNCHANGED saved ELSE Stored(l, version)

\* The caller hears True ...
Answered(l, op, version) ==
  /\ Commit(l, op, version)
  /\ op \in Settling => OutcomeOf(op) \in acked'[l.person]

\* ... or False ...
Refused(l, op) == ~Accepts(l, op) /\ UNCHANGED <<vars, saved>>

\* ... or nothing: the connection broke before or after the commit.
Broken(l, op, version) ==
  \/ Commit(l, op, version) /\ acked' = acked
  \/ UNCHANGED <<vars, saved>>

-----------------------------------------------------------------------------
(* run_worker: claims.  A claim is repeated with the same token until it   *)
(* is answered.                                                            *)

Active(w) == {l \in held : l.worker = w /\ Live(l)}

\* The token of a claim: the one not answered yet, or a new uuid4.
ClaimToken(w, t) ==
  \/ claim[w] = t
  \/ /\ claim[w] = NoToken
     /\ Cardinality(Active(w)) < MaxConcurrent
     /\ Fresh(t)
     /\ \A v \in Worker : claim[v] # t

\* A lease arrives: process_lease starts from the checkpoint in it.
ClaimAnswered(w, t) ==
  /\ ClaimToken(w, t)
  /\ ClaimTask(w, t, 0)
  /\ \E l \in held' \ held :
       sup' = [sup EXCEPT ![t] = [phase |-> "watch", work |-> "research", reply |-> "-",
                                  start |-> saved[l.person], version |-> saved[l.person],
                                  latest |-> saved[l.person], waiting |-> {}]]
  /\ claim' = [claim EXCEPT ![w] = NoToken]
  /\ UNCHANGED <<orphans, saved, faults>>

\* The claim commits, and the process does not hear of it.
ClaimBroken(w, t) ==
  /\ ClaimToken(w, t)
  /\ ClaimTask(w, t, 0)
  /\ held' = held
  /\ claim' = [claim EXCEPT ![w] = t]
  /\ Fault
  /\ UNCHANGED <<sup, orphans, saved>>

\* Nothing to claim, after people may have been recovered.
ClaimNothing(w, t) ==
  /\ ClaimToken(w, t)
  /\ \/ RecoverOnly(w, t, 0)
     \/ /\ claim[w] = t
        /\ Existing(w, t, 0) = {} /\ Recoverable(0) = {}
        /\ \A p \in Person : ~MayClaim(task, p, 0)
        /\ UNCHANGED vars
  /\ claim' = [claim EXCEPT ![w] = NoToken]
  /\ UNCHANGED <<sup, orphans, saved, faults>>

-----------------------------------------------------------------------------
(* The work.                                                               *)

\* checkpoint() keeps the result in memory before it stores it.
StartCheckpoint(l) ==
  /\ Live(l) /\ sup[l.token].work = "research"
  /\ sup[l.token].version < MaxVersion
  /\ sup' = [sup EXCEPT ![l.token].work = "checkpoint",
                        ![l.token].version = @ + 1,
                        ![l.token].latest = sup[l.token].version + 1]
  /\ UNCHANGED <<vars, claim, orphans, saved, faults>>

\* The research returns: with a profile, or with none ("empty").
StartSettling(l) ==
  /\ Live(l) /\ sup[l.token].work = "research"
  /\ \E op \in {"finish", "empty"} : sup' = [sup EXCEPT ![l.token].work = op]
  /\ UNCHANGED <<vars, claim, orphans, saved, faults>>

\* The research raises: RecoverableResearchError, or anything else.
Raise(l) ==
  /\ Live(l) /\ sup[l.token].work = "research"
  /\ \E error \in {"outage", "broken"} : sup' = [sup EXCEPT ![l.token].work = error]
  /\ Fault
  /\ UNCHANGED <<vars, claim, orphans, saved>>

WorkCommit(l) ==
  LET s == sup[l.token]
  IN /\ Live(l) /\ s.work \in WorkCall /\ s.reply = "-"
     /\ \/ /\ Answered(l, s.work, s.version)
           /\ sup' = [sup EXCEPT ![l.token].reply = "yes"]
        \/ /\ Refused(l, s.work)
           /\ sup' = [sup EXCEPT ![l.token].reply = "no"]
     /\ UNCHANGED <<claim, orphans, faults>>

WorkBroken(l) ==
  LET s == sup[l.token]
  IN /\ Live(l) /\ s.work \in WorkCall /\ s.reply = "-"
     /\ Broken(l, s.work, s.version)
     /\ sup' = [sup EXCEPT ![l.token].waiting = @ \cup {"work"}]
     /\ Fault
     /\ UNCHANGED <<claim, orphans>>

\* The answer reaches the work: False raises LeaseLost.
WorkResumes(l) ==
  LET s == sup[l.token]
  IN /\ Live(l) /\ s.reply # "-"
     /\ sup' = [sup EXCEPT
          ![l.token].work = IF s.reply = "no" THEN "lost"
                            ELSE IF s.work = "checkpoint" THEN "research" ELSE "returned",
          ![l.token].reply = "-",
          ![l.token].waiting = @ \ {"work"}]
     /\ UNCHANGED <<vars, claim, orphans, saved, faults>>

\* task.cancel(): a call of the work that is under way becomes an orphan.
WorkOrphan(l) ==
  LET s == sup[l.token]
  IN IF s.work \in WorkCall /\ s.reply = "-"
     THEN {[lease |-> l, op |-> s.work, version |-> s.version]} ELSE {}

\* A chunk fails, and the window cancels the task that is in checkpoint(): its
\* answer is lost, checkpoint_lock is free, and the research goes on.
AbandonCheckpoint(l) ==
  /\ Live(l) /\ sup[l.token].work = "checkpoint"
  /\ sup' = [sup EXCEPT ![l.token].work = "research",
                        ![l.token].reply = "-",
                        ![l.token].waiting = @ \ {"work"}]
  /\ orphans' = orphans \cup WorkOrphan(l)
  /\ UNCHANGED <<vars, claim, saved, faults>>

-----------------------------------------------------------------------------
(* The boss.                                                               *)

CancelledWork(s) == IF s.work \in WorkDone THEN s.work ELSE "cancelled"

\* The boss leaves its loop for a handler, or returns: the work is cancelled.
Leave(l, phase) ==
  /\ sup' = [sup EXCEPT ![l.token].phase = phase,
                        ![l.token].work = CancelledWork(sup[l.token]),
                        ![l.token].reply = "-",
                        ![l.token].waiting = {}]
  /\ orphans' = orphans \cup WorkOrphan(l)

Heard(l) == sup' = [sup EXCEPT ![l.token].phase = "watch",
                               ![l.token].waiting = @ \ {"boss"}]

\* The connection broke: the boss tries the call again.
Unheard(l, op) ==
  /\ Broken(l, op, sup[l.token].latest)
  /\ sup' = [sup EXCEPT ![l.token].phase = op, ![l.token].waiting = @ \cup {"boss"}]
  /\ Fault
  /\ UNCHANGED <<claim, orphans>>

\* Mistake: a renewal that was refused is not looked at.
RenewUnchecked(l) ==
  /\ \/ sup[l.token].phase = "watch" /\ Working(l.token)
     \/ sup[l.token].phase = "renew"
  /\ \/ Answered(l, "renew", 0) \/ Refused(l, "renew")
     \/ UNCHANGED <<vars, saved>>
  /\ Heard(l)
  /\ UNCHANGED <<claim, orphans, faults>>

\* renew_lease, once a heartbeat; False means the lease is lost.
Renew(l) ==
  /\ \/ sup[l.token].phase = "watch" /\ Working(l.token)
     \/ sup[l.token].phase = "renew"
  /\ \/ Answered(l, "renew", 0) /\ Heard(l) /\ UNCHANGED <<orphans, faults>>
     \/ Refused(l, "renew") /\ Leave(l, "ended") /\ UNCHANGED faults
     \/ Unheard(l, "renew")
  /\ UNCHANGED claim

\* The renewal fails for another reason than connectivity.
RenewalError(l) ==
  /\ \/ sup[l.token].phase = "watch" /\ Working(l.token)
     \/ sup[l.token].phase = "renew"
  /\ Leave(l, "fail")
  /\ Fault
  /\ UNCHANGED <<vars, claim, saved>>

\* PERSON_TIMEOUT_SECONDS of active time have passed; while a call waits for
\* the database the clock stands still.
TimeOut(l) ==
  /\ sup[l.token].phase = "watch" /\ Working(l.token)
  /\ sup[l.token].waiting = {}
  /\ Leave(l, "timeout")
  /\ UNCHANGED <<vars, claim, saved, faults>>

\* Mistake: an error that is neither LeaseLost nor recoverable ends the lease.
WorkEndedUnhandled(l) ==
  /\ sup[l.token].phase = "watch" /\ ~Working(l.token)
  /\ Leave(l, IF sup[l.token].work = "outage" THEN "defer" ELSE "ended")
  /\ UNCHANGED <<vars, claim, saved, faults>>

\* The work is done, and how it ended selects the handler.
WorkEnded(l) ==
  LET s == sup[l.token]
  IN /\ s.phase = "watch" /\ ~Working(l.token)
     /\ Leave(l, CASE s.work = "outage" -> "defer"
                   [] s.work = "broken" -> "fail"
                   [] OTHER -> "ended")
     /\ UNCHANGED <<vars, claim, saved, faults>>

\* The handler records what happened; what the store answers is ignored.
Handle(l) ==
  LET op == sup[l.token].phase
  IN /\ op \in {"defer", "timeout", "fail"}
     /\ \/ /\ Answered(l, op, sup[l.token].latest) \/ Refused(l, op)
           /\ Leave(l, "ended")
           /\ UNCHANGED faults
        \/ Unheard(l, op)
     /\ UNCHANGED claim

\* The handler's own call fails: process_lease raises and is reaped.
HandlerError(l) ==
  /\ sup[l.token].phase \in {"defer", "timeout", "fail"}
  /\ Leave(l, "ended")
  /\ Fault
  /\ UNCHANGED <<vars, claim, saved>>

\* The finished task is reaped, and its lease forgotten.
Reap(l) ==
  /\ sup[l.token].phase = "ended"
  /\ \A o \in orphans : o.lease # l
  /\ Forget({l})
  /\ sup' = [sup EXCEPT ![l.token] = Nobody]
  /\ UNCHANGED <<claim, orphans, saved, faults>>

-----------------------------------------------------------------------------
(* Orphaned calls, and the end of a process.  A process that ends is       *)
(* started again.                                                          *)

OrphanEnds(o) ==
  /\ \/ Commit(o.lease, o.op, o.version) /\ acked' = acked
     \/ UNCHANGED <<vars, saved>>
  /\ orphans' = orphans \ {o}
  /\ UNCHANGED <<sup, claim, faults>>

\* The calls under way in a lease.
Underway(l) ==
  WorkOrphan(l) \cup
  IF sup[l.token].phase \in BossCall
  THEN {[lease |-> l, op |-> sup[l.token].phase, version |-> sup[l.token].latest]} ELSE {}

\* SIGTERM: every task is cancelled; the leases are left to lapse.
Stop(w) ==
  /\ Active(w) # {} \/ claim[w] # NoToken
  /\ Fault
  /\ sup' = [t \in Token |->
       IF \E l \in Active(w) : l.token = t
       THEN [sup[t] EXCEPT !.phase = "ended", !.work = CancelledWork(sup[t]),
                           !.reply = "-", !.waiting = {}]
       ELSE sup[t]]
  /\ orphans' = orphans \cup UNION {Underway(l) : l \in Active(w)}
  /\ claim' = [claim EXCEPT ![w] = NoToken]
  /\ UNCHANGED <<vars, saved>>

\* The process dies with all it remembers.
Crash(w) ==
  LET gone == {l \in held : l.worker = w}
  IN /\ gone # {} \/ claim[w] # NoToken
     /\ Fault
     /\ Forget(gone)
     /\ sup' = [t \in Token |-> IF \E l \in gone : l.token = t THEN Nobody ELSE sup[t]]
     /\ orphans' = {o \in orphans : o.lease \notin gone}
     /\ claim' = [claim EXCEPT ![w] = NoToken]
     /\ UNCHANGED saved

\* Time passes.  A process that lets a lease of its own lapse has stalled,
\* unless the connection is what kept it.
Late == \E l \in held : Live(l) /\ Owns(l, 0) /\ task[l.person].left = 1

WorkerTick ==
  /\ Tick
  /\ IF Late THEN Fault ELSE UNCHANGED faults
  /\ UNCHANGED <<sup, claim, orphans, saved>>

Submit ==
  /\ \E j \in Job : CreateJob(j, {}) \/ CancelJob(j)
  /\ UNCHANGED <<sup, claim, orphans, saved, faults>>

Supervise(l) ==
  \/ StartCheckpoint(l) \/ AbandonCheckpoint(l) \/ StartSettling(l) \/ Raise(l)
  \/ WorkCommit(l) \/ WorkBroken(l) \/ WorkResumes(l)
  \/ Renew(l) \/ RenewalError(l) \/ TimeOut(l) \/ WorkEnded(l)
  \/ Handle(l) \/ HandlerError(l) \/ Reap(l)

WorkerNext ==
  \/ Submit
  \/ \E w \in Worker, t \in Token :
       ClaimAnswered(w, t) \/ ClaimBroken(w, t) \/ ClaimNothing(w, t)
  \/ \E l \in held : Supervise(l)
  \/ \E o \in orphans : OrphanEnds(o)
  \/ \E w \in Worker : Stop(w) \/ Crash(w)
  \/ WorkerTick

WorkerSpec == WorkerInit /\ [][WorkerNext]_workerVars

-----------------------------------------------------------------------------
(* Properties.                                                             *)

\* "Usage and checkpoints are serialized safely when responses finish out of
\* order" is not true of an abandoned checkpoint, which may commit after a newer
\* one.  That is the only way a stored result goes back, and its harm is bounded:
\* whatever stalled, orphaned or repeated calls arrive, only the process that
\* holds the person, by a checkpoint it abandoned, replaces the stored result by
\* an earlier one, which is still newer than the one it resumed from.  Nothing an
\* earlier holder had stored is lost, nor any outcome.
ResumePointHolds ==
  [][\A p \in Person :
       saved'[p] < saved[p] =>
         \E o \in orphans :
           /\ o.op = "checkpoint" /\ o.version = saved'[p]
           /\ o.lease.person = p /\ task[p].token = o.lease.token
           /\ task[p].status = "researching"
           /\ saved'[p] > sup[o.lease.token].start]_workerVars

\* A boss that ends, and met no fault in doing so, leaves no lease behind that
\* others would have to wait for: it has settled or deferred its person, or
\* has lost it.  All along, what is held and under way keeps its type.
EndedBossLeavesNoLease ==
  /\ []WorkerTypeOK
  /\ [][\A l \in held :
          /\ Live(l) /\ sup'[l.token].phase = "ended" /\ faults' = faults
          => ~(Owns(l, 0))']_workerVars

-----------------------------------------------------------------------------
(* Liveness.  The event loop runs every coroutine that can run, threads    *)
(* end, the loop of run_worker claims, and the clock goes on.  A call that *)
(* is repeated is answered in the end, because faults are bounded.  Of the *)
(* research itself nothing is assumed: it may hang.                        *)

WorkerFairness ==
  /\ WF_workerVars(WorkerTick)
  /\ WF_workerVars(\E w \in Worker, t \in Token : ClaimAnswered(w, t))
  /\ WF_workerVars(\E w \in Worker, t \in Token : ClaimNothing(w, t))
  /\ WF_workerVars(\E o \in orphans : OrphanEnds(o))
  /\ \A l \in Lease :
       /\ WF_workerVars(l \in held /\ WorkCommit(l))
       /\ WF_workerVars(l \in held /\ WorkResumes(l))
       /\ WF_workerVars(l \in held /\ Renew(l) /\ faults' = faults)
       /\ WF_workerVars(l \in held /\ WorkEnded(l))
       /\ WF_workerVars(l \in held /\ Handle(l) /\ faults' = faults)
       /\ WF_workerVars(l \in held /\ Reap(l))

FairWorkerSpec == WorkerSpec /\ WorkerFairness

\* The time of a person passes, too, when the limit is what ends its research.
TimeLimits == \A l \in Lease : WF_workerVars(l \in held /\ TimeOut(l))

\* Every person of a job gets an outcome once the faults end, whatever calls,
\* processes and providers failed before, even if the research hangs: the time
\* limit ends it.
PersonIsAnswered == TimeLimits => \A p \in Person : Open(p) ~> ~Open(p)

\* A worker that lost its lease stops paying for research that cannot be
\* stored, however far the time limit is.
LostLeaseEndsWork ==
  \A l \in Lease :
    (l \in held /\ Live(l) /\ Working(l.token) /\ ~Owns(l, 0))
      ~> (l \notin held \/ ~Working(l.token))
=============================================================================
