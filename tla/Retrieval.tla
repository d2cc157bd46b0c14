------------------------------ MODULE Retrieval ------------------------------
(***************************************************************************)
(* RetrievalService.retrieve of app/retrieval/service.py: the requests of  *)
(* one job in one worker process.  A request locks its URL, looks in the   *)
(* cache, takes a slot of its domain and then a global slot, fetches, and  *)
(* falls back to the browser.  Locks and domain semaphores are objects in  *)
(* dictionaries that are dropped when nobody uses them and created again   *)
(* on demand: an object is told from its successor by a generation.        *)
(*                                                                         *)
(* The cache is shared with other processes and may fail, so a lookup may  *)
(* answer anything, whatever this process stored before.                   *)
(***************************************************************************)
EXTENDS Integers, FiniteSets

CONSTANTS
  Req,            \* callers of retrieve, each with one URL that it asks for again and again
  Url, UrlOf,     \* canonical URLs; the one of each request
  Domain, DomainOf, \* domain_key of a URL
  GlobalSlots,    \* MAX_CONCURRENT_FETCHES
  DomainSlots,    \* PER_DOMAIN_CONCURRENCY
  Slow            \* domains whose requests may stop anywhere

ASSUME RetrievalAssumption ==
  /\ IsFiniteSet(Req)
  /\ UrlOf \in [Req -> Url]
  /\ DomainOf \in [Url -> Domain]
  /\ GlobalSlots \in Nat \ {0}
  /\ DomainSlots \in Nat \ {0}
  /\ Slow \subseteq Domain

VARIABLES
  at,        \* where each request is
  lock,      \* _locks: the generation of the lock of a URL, 0 for none
  lockUsers, \* _lock_users
  myLock,    \* the lock object a request has in hand
  sem,       \* _domain_sems, as lock
  semUsers,  \* _domain_users
  mySem      \* the semaphore object a request has in hand

vars == <<at, lock, lockUsers, myLock, sem, semUsers, mySem>>

\* The two ways through the slot: a static fetch first, or the browser alone.
InSlot == {"fetching", "rendering"}
Queued == {"domain static", "domain browser", "global static", "global browser"}
Place == {"idle", "locking", "reading", "storing", "ended"} \cup InSlot \cup Queued

\* A generation that no request has in hand; 0 is no object.
Generation == 0 .. Cardinality(Req)
Unused(mine) == CHOOSE g \in Generation \ {0} : \A r \in Req : mine[r] # g

TypeOK ==
  /\ at \in [Req -> Place]
  /\ lock \in [Url -> Generation] /\ lockUsers \in [Url -> 0 .. Cardinality(Req)]
  /\ sem \in [Domain -> Generation] /\ semUsers \in [Domain -> 0 .. Cardinality(Req)]
  /\ myLock \in [Req -> Generation] /\ mySem \in [Req -> Generation]

Init ==
  /\ at = [r \in Req |-> "idle"]
  /\ lock = [u \in Url |-> 0] /\ lockUsers = [u \in Url |-> 0]
  /\ myLock = [r \in Req |-> 0]
  /\ sem = [d \in Domain |-> 0] /\ semUsers = [d \in Domain |-> 0]
  /\ mySem = [r \in Req |-> 0]

Dom(r) == DomainOf[UrlOf[r]]
GoTo(r, place) == at' = [at EXCEPT ![r] = place]

\* Requests that hold their lock, a domain slot, a global slot.
Locked == {r \in Req : at[r] \in {"reading", "storing"} \cup Queued \cup InSlot}
HasDomain == {r \in Req : at[r] \in {"global static", "global browser"} \cup InSlot}
HasGlobal == {r \in Req : at[r] \in InSlot}

-----------------------------------------------------------------------------
(* The lock of the URL.                                                    *)

\* _url_lock.
UrlLock(r) ==
  LET u == UrlOf[r]
      new == IF lock[u] = 0 THEN Unused(myLock) ELSE lock[u]
  IN /\ at[r] = "idle"
     /\ lock' = [lock EXCEPT ![u] = new]
     /\ myLock' = [myLock EXCEPT ![r] = new]
     /\ lockUsers' = [lockUsers EXCEPT ![u] = @ + 1]
     /\ GoTo(r, "locking")
     /\ UNCHANGED <<sem, semUsers, mySem>>

Acquire(r) ==
  /\ at[r] = "locking"
  /\ \A q \in Locked : myLock[q] # myLock[r]
  /\ GoTo(r, "reading")
  /\ UNCHANGED <<lock, lockUsers, myLock, sem, semUsers, mySem>>

\* Mistake: the lock is dropped with its first user.
DropLock(r) ==
  LET u == UrlOf[r]
  IN /\ at[r] = "ended"
     /\ lockUsers' = [lockUsers EXCEPT ![u] = @ - 1]
     /\ lock' = [lock EXCEPT ![u] = 0]
     /\ myLock' = [myLock EXCEPT ![r] = 0]
     /\ GoTo(r, "idle")
     /\ UNCHANGED <<sem, semUsers, mySem>>

\* The finally block: the lock is released, and dropped with its last user.
Leave(r) ==
  LET u == UrlOf[r]
  IN /\ at[r] = "ended"
     /\ lockUsers' = [lockUsers EXCEPT ![u] = @ - 1]
     /\ lock' = IF lockUsers[u] = 1 THEN [lock EXCEPT ![u] = 0] ELSE lock
     /\ myLock' = [myLock EXCEPT ![r] = 0]
     /\ GoTo(r, "idle")
     /\ UNCHANGED <<sem, semUsers, mySem>>

-----------------------------------------------------------------------------
(* The slot.                                                               *)

\* _domain_sem, and the count of its users.
EnterDomain(r, place) ==
  LET d == Dom(r)
      new == IF sem[d] = 0 THEN Unused(mySem) ELSE sem[d]
  IN /\ sem' = [sem EXCEPT ![d] = new]
     /\ mySem' = [mySem EXCEPT ![r] = new]
     /\ semUsers' = [semUsers EXCEPT ![d] = @ + 1]
     /\ GoTo(r, place)

\* Mistake: the semaphore of a domain is never dropped.
KeepSem(r) ==
  /\ semUsers' = [semUsers EXCEPT ![Dom(r)] = @ - 1]
  /\ mySem' = [mySem EXCEPT ![r] = 0]
  /\ UNCHANGED sem

\* Both slots are given back; the semaphore is dropped with its last user.
LeaveDomain(r) ==
  /\ semUsers' = [semUsers EXCEPT ![Dom(r)] = @ - 1]
  /\ sem' = IF semUsers[Dom(r)] = 1 THEN [sem EXCEPT ![Dom(r)] = 0] ELSE sem
  /\ mySem' = [mySem EXCEPT ![r] = 0]

\* _cache_get: a page to return, a page that needs the browser, or nothing.
Read(r) ==
  /\ at[r] = "reading"
  /\ \/ GoTo(r, "ended") /\ UNCHANGED <<sem, semUsers, mySem>>
     \/ \E place \in {"domain browser", "domain static"} : EnterDomain(r, place)
  /\ UNCHANGED <<lock, lockUsers, myLock>>

\* Mistake: the global slot is taken first, and held while the domain is busy.
DomainSlotLast(r) ==
  /\ at[r] \in {"domain static", "domain browser"}
  /\ Cardinality({q \in Req : at[q] \in {"global static", "global browser"} \cup InSlot}) < GlobalSlots
  /\ GoTo(r, IF at[r] = "domain static" THEN "global static" ELSE "global browser")
  /\ UNCHANGED <<lock, lockUsers, myLock, sem, semUsers, mySem>>

DomainSlot(r) ==
  /\ at[r] \in {"domain static", "domain browser"}
  /\ Cardinality({q \in HasDomain : mySem[q] = mySem[r]}) < DomainSlots
  /\ GoTo(r, IF at[r] = "domain static" THEN "global static" ELSE "global browser")
  /\ UNCHANGED <<lock, lockUsers, myLock, sem, semUsers, mySem>>

GlobalSlot(r) ==
  /\ at[r] \in {"global static", "global browser"}
  /\ Cardinality(HasGlobal) < GlobalSlots
  /\ GoTo(r, IF at[r] = "global static" THEN "fetching" ELSE "rendering")
  /\ UNCHANGED <<lock, lockUsers, myLock, sem, semUsers, mySem>>

\* The static fetch: a page, a page or an error that the browser may mend, or
\* an error that stands.
Fetch(r) ==
  /\ at[r] = "fetching"
  /\ \/ GoTo(r, "rendering") /\ UNCHANGED <<sem, semUsers, mySem>>
     \/ GoTo(r, "storing") /\ LeaveDomain(r)
     \/ GoTo(r, "ended") /\ LeaveDomain(r)
  /\ UNCHANGED <<lock, lockUsers, myLock>>

\* _render_fallback: a page, or an error.
Render(r) ==
  /\ at[r] = "rendering"
  /\ \E place \in {"storing", "ended"} : GoTo(r, place)
  /\ LeaveDomain(r)
  /\ UNCHANGED <<lock, lockUsers, myLock>>

\* _cache_put, whose failure is ignored.
Store(r) ==
  /\ at[r] = "storing"
  /\ GoTo(r, "ended")
  /\ UNCHANGED <<lock, lockUsers, myLock, sem, semUsers, mySem>>

\* The task is cancelled where it waits: slots are given back on the way out.
Cancel(r) ==
  /\ at[r] \in {"locking", "reading", "storing"} \cup Queued \cup InSlot
  /\ IF at[r] \in Queued \cup InSlot THEN LeaveDomain(r)
     ELSE UNCHANGED <<sem, semUsers, mySem>>
  /\ GoTo(r, "ended")
  /\ UNCHANGED <<lock, lockUsers, myLock>>

\* The steps that need no browser.
ServiceStep(r) ==
  \/ UrlLock(r) \/ Acquire(r) \/ Read(r) \/ DomainSlot(r) \/ GlobalSlot(r)
  \/ Fetch(r) \/ Store(r) \/ Leave(r)

-----------------------------------------------------------------------------
(* Properties.                                                             *)

\* A page is fetched by one request at a time, and the requests under way in a
\* domain keep to its politeness limit, although the lock of a page and the
\* semaphore of a domain come and go with their users.
RequestsKeepApart ==
  /\ \A q, r \in Locked : UrlOf[q] = UrlOf[r] => q = r
  /\ \A d \in Domain : Cardinality({r \in HasGlobal : Dom(r) = d}) <= DomainSlots

\* Nothing is left behind for keys that nobody uses: a long-lived worker would
\* collect a lock for each URL it ever saw.
NoObjectWithoutUsers ==
  /\ TypeOK
  /\ \A u \in Url : lock[u] # 0 => \E r \in Req : UrlOf[r] = u /\ at[r] # "idle"
  /\ \A d \in Domain : sem[d] # 0 =>
       \E r \in Req : Dom(r) = d /\ at[r] \in Queued \cup InSlot

\* "Domain waiters must not occupy global slots needed by other domains": as
\* long as the slow domains leave one global slot, the requests of the other
\* domains end, however many wait for the slow ones.
SlowDomainBlocksNoOther ==
  Cardinality(Slow) * DomainSlots < GlobalSlots =>
    \A r \in Req : Dom(r) \notin Slow => (at[r] # "idle" ~> at[r] = "idle")
=============================================================================
