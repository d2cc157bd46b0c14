# TLA+ models of the KnownBy research backend

KnownBy takes a batch of names, researches each person on the web with the help
of language models, and answers with a profile whose fields are backed by
evidence. This directory holds TLA+ models of the backend, TLC configurations
that check them on small instances, and proofs that TLAPS checks for every
instance. Paths are relative to the repository's `app/` unless they say
otherwise.

## The system

| Part | Source | State it keeps | Operations |
|---|---|---|---|
| HTTP API | `api/` | none of its own | submit a person or a batch, cancel a job, read results, export, save to the library |
| Job store | `db/store.py`, `db/models.py` | jobs, person tasks with their leases, profiles, the evidence and usage ledger, the retrieval cache, worker heartbeats | `create_job`, `claim_task`, `renew_lease`, `checkpoint`, `finish_task`, `fail_task`, `defer_task`, `cancel_job`, `put_cache`, `get_cache`, `heartbeat` |
| Worker | `worker.py` | the leases of a process, one supervisor and one research coroutine for each | claim, renew, time out, defer, fail, stop |
| Research orchestrator | `research/orchestrator.py` | queue of queries, candidates, sources, claims, the resume cursor | plan, search, validate, fetch, extract, reconcile, checkpoint |
| Request budget | `research/budget.py` | metrics and receipts of a person | reserve, account, settle a paid request |
| OpenRouter client | `providers/openrouter.py` | none between requests | one request with bounded attempts |
| Ordered window | `research/concurrency.py` | pending speculative tasks | spawn, consume in order, cancel |
| Retrieval | `retrieval/service.py` | URL locks, domain semaphores, global slots | fetch a page, render it, cache it |
| Browser | `retrieval/browser.py` | one Chromium, its lock, a context per rendering | launch, render, replace, close |
| Evidence | `research/{claims,identity,seed_provenance,confidence,reconciliation,normalisation,source_policy}.py` | none: pure functions over the claims and sources of a result | ground, deduplicate, assess, score, reconcile, make a stored result obey the policy |
| Library | `db/library.py`, `library*.py` | saved result files | save within a quota, read, delete |
| Sign-in | `api/auth.py` | the certificate cache | verify a credential |

They interact as follows. The API and any number of worker processes share
nothing but the database. A worker claims a person with a fresh token, its
orchestrator researches the person, and every step that has to survive a crash
is a *checkpoint*: `store.checkpoint` with the whole result so far, metrics,
receipts and the resume cursor included. Within a process, the people it
researches share the model client, the retrieval service and the extraction
slots; the coroutines of one person share that person's budget.

What is hard about it: processes die, stall past their lease and come back;
commits whose acknowledgement is lost are repeated; cancelling a coroutine does
not stop the thread that runs its database call; requests that cost money must
not be repeated blindly; several coroutines of a person, and several people of a
process, compete for slots, and locks and semaphores are created and dropped on
demand; a saved or exported result is read in several statements from a job that
goes on; and what is shown of a person is computed from evidence that comes in
any order, by rules that merge, filter and rank it in a dozen steps.

What makes each part correct:

- store: one owner at a time; nothing written about a closed person; every open
  person reachable by a claim; a job's status always the one its rows imply; an
  acknowledged outcome final; the cache bounded and gone with its job;
- worker: only its holder sets a stored result back, and never to where it
  resumed from (that it never goes back at all is false, see below); a lease is
  never abandoned by a supervisor that met no fault; every person is answered;
  lost leases end work;
- budget: a request that may have been charged for is not blindly repeated;
  limits hold over all the runs of a person; what may have been charged stays
  accounted for. All three hold as long as no run resumes from a checkpoint that
  was stored out of order, which the code does not rule out;
- window: bounded tasks, nothing outlives its window, no mutual blocking;
- retrieval: one request for a page at a time, politeness per domain, no leaks,
  a slow domain is its own problem; one browser, never replaced under its users;
- evidence: namesakes stay apart, nothing that was found is hidden, distinct
  credentials stay distinct whatever the order of pages, and nothing shown rests
  on a source that the policy of the day blocks;
- library and sign-in: the quota holds, what is saved is complete and final, an
  export rests on evidence, and no expired certificate is trusted.

## Modules

| Module | Models | State and actions |
|---|---|---|
| `ResearchQueue` | what the store promises a user | outcome, owner and evidence of a person, answer of a job; `Submit`, `Assign`, `Record`, `Settle`, `Cancel` |
| `JobStore` | `db/store.py` | one variable per table (`jobStatus`, `task`, `profile`, `ledger`, `cache`), the leases in the hands of callers (`held`), and the outcomes callers were told are stored (`acked`); one action per store method |
| `Worker` | `worker.py` on top of `JobStore` | `sup` (supervisor and work coroutine of each lease), `claim`, `orphans` (database calls that outlive their coroutine, or a checkpoint of it), `saved` (the version of the stored result) |
| `Budget` | `research/budget.py` around `_perform` of `providers/openrouter.py`, with the checkpoints of `research/orchestrator.py` | `books` (metrics and receipts in memory), `stored` (in the last checkpoint) and `calls` (checkpoints under way), the place of each request, the lock of the budget; `fate` and `sends` record what the provider saw, `overtaken` and `misled` whether checkpoints were stored out of order |
| `OrderedWindow` | `research/concurrency.py` | consumer and tasks of each window |
| `Retrieval` | `RetrievalService.retrieve` | places of requests, lock and semaphore objects with their generation and user counts |
| `Browser` | `BrowserRenderer` of `retrieval/browser.py` under the requests of `Retrieval` | `chromium` (the browser at hand), `launcher` (who holds the lock), the stage of each rendering and the browser its context is in |
| `Research` | `_research` of `research/orchestrator.py`, over all the runs of a person | `mem` (the result and the cursor) and `disk` (the last checkpoint), `at` (the await the coroutine is at), the locals no checkpoint holds; one action from one await to the next |
| `Scoring` | `research/confidence.py` | operators: strength of a claim, independence of sources, score of a group |
| `Identity` | `research/identity.py` | operators: assessment of a page, sources that may contribute, effective identities |
| `Normalisation` | `research/normalisation.py` | operators: kinds of qualifications, candidates for degrees, kinds of roles |
| `Claims` | `research/claims.py` | operators: grounding of answers, deduplication |
| `SeedProvenance` | `research/seed_provenance.py` | operators: supplied values beside what was found |
| `Reconciliation` | `research/reconciliation.py`, `research/source_policy.py` | operators: bundles, clusters, quality, decisions, ranking of roles, records, sanitizing |
| `Evidence` | the calls of these in `research/orchestrator.py` and `db/store.py` | `done`, `sources`, `hashes`, `claims`, the stored `result`, what was last `opened`, the sites that are `blocked`; `ReadPage`, `CutShort`, `Conclude`, `BlockSite`, `Open` |
| `Library` | `db/library.py` and the routes that export, save and remove | the batch as `ResearchQueue`'s state, the `phase` of each request and what it has read so far, the library's `lock` and `files` |
| `Certificates` | `_get_certificates` of `api/auth.py` | the clock, the expiry of the certificates at hand, who fetches, with what each credential was verified |
| `Api` | requests from authorisation to answer | `Library` and `Certificates` |
| `Totals` | the sums the code takes over rows, files and requests | operator: the total of a function |
| `Ordering` | the comprehensions, sorts and minima of Python | operators: `Filter`, `Distinct`, `SortBy`, `Concatenated` |
| `WorkerProofs`, `BudgetProofs`, `OrderedWindowProofs`, `RetrievalProofs`, `ApiProofs`, `ResearchProofs`, `EvidenceProofs` | | theorems about the module of that name (`WorkerProofs` about `JobStore` first, `RetrievalProofs` about `Browser` too, `ApiProofs` about `Library` and `Certificates`, `EvidenceProofs` about the evidence modules) |
| `CollectionProofs` | | lemmas about finite sets, sequences, folds, sorts and totals |
| `MC*` | | instances for TLC |

`Worker` extends `JobStore`: each call of a worker *is* the store's action, so
the fences of the store are those that the worker's races run into.
`ResearchQueue` is instantiated by `JobStore` under a refinement mapping
(`outcome`, `owner`, `answer`; the evidence is the ledger). `Library` instantiates
it too, as the batch whose results are read while it goes on: what is shown of
saves and exports holds of any store that implements the queue. `Browser` extends
`Retrieval` and adds the fairness; the evidence modules form a chain, `Scoring`,
`Identity`, `Claims` (with `Normalisation`), `SeedProvenance`, `Reconciliation`,
`Evidence`.

Definitions that begin with the comment "Mistake:" are variants of the
definition that follows. No specification uses them: they document which bug
each property is able to see.

### Notes on `JobStore`

A store method is one transaction that locks the job row first (`SELECT FOR
UPDATE` on PostgreSQL, the write lock on SQLite), so it is one action. `Refresh`
stands for `_refresh_job_status` and belongs to the action that calls it.
`claim_task` is `RepeatClaim`, `RecoverOnly` or `ClaimPerson`: the recovery of
exhausted people that precedes a claim is part of the claim.

Time is relative: `left[p]` ticks remain until `lease_expires_at`. `renew_lease`,
`claim_task` and `defer_task` sample the clock before they wait for a lock, which
`lag \in 0 .. MaxLag` models; `_locked_task_for_completion` compares with a
clock sampled when the statement is built, under the lock.

Callers are unconstrained in `JobStore`: every lease ever handed out may be used
for any call at any time. `Forget` is the moment nobody holds some of them any
more: one, when its supervisor ends, or all that a process held, when it dies.

Two small things were seen and left as they are. `finish_task` answers False,
not the receipt, when a job was cancelled after the commit whose acknowledgement
was lost; the comment on receipts does not promise more. A repeated `defer_task`
that answers True changes nothing and is not an action.

### Notes on `Worker`

The supervisor and the work of a lease interleave at their awaits. A database
call is answered, refused or *broken*: a broken call may have committed and is
repeated by `retry_database`. When a coroutine is cancelled inside
`asyncio.to_thread`, the call becomes an orphan that may still commit
(`OrphanEnds`). SIGTERM (`Stop`) leaves orphans, a crash leaves none. A process
that ends is started again under the same name: worker identities only matter
for repeated claims, whose tokens die with the process.

A checkpoint may also be orphaned while the research goes on. `extract_chunks` has
several chunks of a page under way; when one fails, `ordered_window` cancels the
others (research/concurrency.py:57), and one of these may be inside its
checkpoint. The error is caught in `process_candidate`, whose `finally` stores the
next checkpoint under the same lease, `checkpoint_lock` being free again.
`AbandonCheckpoint` is that cancellation: any checkpoint of a version may be
abandoned, so that several may be under way at once, and one may be under way while
the boss defers the person with the latest result.

### Notes on `Budget`

A run is one execution of the research of a person; `TakeOver` starts the next
one from the last checkpoint. The old one, whose lease lapsed, goes on until its
next checkpoint is refused, but a request is sent only after its reservation is
stored: what the old run still does leaves nothing behind, except that it hears of
requests it has sent before (`LateReply`), and its state is left out.

A checkpoint is two steps, `Snapshot`, which puts a copy of the books into `calls`,
and the end of that call. A coroutine that waits for its call stores it with the step
it waits for (`Send`, `StoreUsage`, `Settle`, by `Checkpoint`). `checkpoint_lock` keeps a
second coroutine from making a snapshot meanwhile, but it is released when the
first is cancelled, while the thread of its call goes on: `Cancelled` leaves the
call to nobody, and `AbandonedCallEnds` stores it later, or not at all, in any order
with newer ones. `old` marks a call whose snapshot is older than one already
stored; storing it sets `overtaken`, any newer checkpoint clears it, and a run that
starts from an overtaken one is `misled` (and its person stays so).

What is cancelled alone is the request of a chunk (`Cancel`); everything is
cancelled when the run is (`Stop`). Searches and the research's own
checkpoints are awaited by the coroutine of the run itself, which is cancelled as
a whole only. `Save` is therefore one step: until its call ends it holds
`checkpoint_lock`, and nothing but the end of abandoned calls or of the run, which
`TakeOver` allows before and after it, can tell when within that time it is stored.
A deferral stores the newest snapshot once more; this gives the same books as
abandoned calls that end in their order. In the code a search never runs together
with other requests of its person; in the model it may, as an over-approximation.

A reply that cannot be used (`invalid`) is clear of doubt for the model, although the
provider may have charged for it: the code repeats it deliberately, at most
`OPENROUTER_MAX_RETRIES` times in a request and within the limits, where every
attempt counts. What `NoBlindRepeat` is about are requests whose result was
obtained, or of which nothing was heard.

### Notes on `Research`

`mem` and `disk` have the same fields, named after the cursor's: `queue`, `done`
(`queries_done`), `pending`, `active`, `seen`, `hashes`, `rejected`, `validated`,
`applied` (`applied_chunks` and `deterministic_chunks`), `planned`, and what the
loop reads of the metrics and sources (`performed`, `fetched`, `calls`, `results`,
`status`). `counted` is a ghost: how often the claims of a chunk were added.

`Begin` is everything before the first await: `Resumed` turns the cursor of the
last checkpoint into memory. `Crash` loses memory at any await; `Outage` is a
`RecoverableResearchError`, which saves first. A round is `Admit`, `Validate`, then
for each page `PageArrives` (or one of its failures), `Judge`, `ApplyChunk` for
each chunk, `Extracted`; a query is `Pop`, `SendSearch`, `Answer`, `ApplyAnswer`.
An action that ends with `await save()` ends with `Save`.

What is abstract: which fields are open and whether the target is reached is any
outcome once there are claims; whom a page is about, what it redirects to, its
body and which chunks ground claims are constants, since the page cache and the
receipts give a resumed run the same answers; a search is one attempt (`Budget`
models its retries); pages fetched ahead of their turn are `OrderedWindow`'s. A
page that was hashed and then fails (a `ValueError` while its deterministic
evidence is read) is not distinguished from one that fails before.

`Picked` (of `Ordering`) writes the filters over sequences of the code with the places
that pass instead of `SelectSeq`, whose recursive definition no proof can open;
`MCResearch` assumes, and TLC thereby checks, that both give the same. `MCEvidence`
does so for the sorts and joins of `Ordering`, too.

Resuming a page takes the address it redirects to from the seen ones, even if
that page is a source of its own: it can be fetched again, which is why
`ConclusionsStand` leaves such pages out. And what `research_rebought` shows has a
second consequence, which no run states: when the search is bought again, the
answer it gets may differ from the stored one, and the pages that only the stored
answer named are lost, so that `NoCandidateIsLost` needs the same condition on the
limits as `SearchIsBoughtOnce` (see the proofs).

### Notes on the evidence modules

The code here is pure, so a definition stands for a function and `Evidence` for
the order in which they are called: `ReadPage` is one `process_candidate`,
`CutShort` one that is interrupted after the first answer (the page is read again
and its hash forgotten, as a resumed run does), `Conclude` reconciles and stores,
`Open` is `_person_result_view` of the store.

What is abstract: a *value* is the key under which the code compares it
(`comparison_key`, canonical degrees), and `Mentions` says which values the wording
of another contains; an expression that looks for words is a class in `Words`; a
qualification is its segments with the levels found in them. A page is what the
rules ask of its text: whether the exact name is there, which values are beside
it (`near`) or denied of the person (`denied`), what kind of site it is. Scores and
weights are integers in thousandths and products round down; a date is an age in
half-lives. The weights of `MCEvidence` are those of the default scoring policy.
A claim's `n` is its page, the place of the answer and the place among the
claims of that answer, by which the code's claim ids are told apart.

`MCEvidence` tells nine stories: a page about a namesake one shared fact away
from a page that is itself only connected; a page, its copy and its neighbour on
the same site; two degrees of one level at two campuses; a list of degrees with
years; roles of past and present, in office, at work and in the family; a person
without a clue; a page the advisor dismisses beside one that denies the clue; a
university under its name and its acronym; a clue that no page repeats, where two
pages agree on an employer and two on "the office".

The stages of a long function (`_decision`, `_employment_decisions`, `reconcile`)
are operators of their own, each taking what the stage before has computed: the
order of the code, and TLC computes an argument once.

Four things were seen that no property states. A title at the business of a
relative is dropped, not kept as an alternative, when no other role is known
(reconciliation.py:1034 lists invalid organisations only, line 1306 all claims of
the bundle); `RolesAndCredentialsStayVisible` excepts exactly this case.
`_independent_pairs` (confidence.py:44) pairs sites with contents: which copy of
a text counts depends on the names of the sites, how many count does not. And a score is at most 1000 for any input because of the
last clamp only: bonus and best together exceed it for three sources. A page is connected with a
direct source by any employer they share (identity.py:561), a generic one such as
"the office" included; only where no page has the clue are generic names left out
(identity.py:576). The stories give no namesake a generic employer in common.

### Notes on `Browser`

A rendering runs while its request is at `rendering` in `Retrieval`. It asks for
the browser, waits for the lock, launches or finds that somebody did, and opens
a context. `Disconnect` is a crash of Chromium: `is_connected()` is false from then
on, contexts in it are gone, renderings in it end without a page. A time limit
or a cancelled request may end a rendering at any stage, a launch included.

Two things about a page are beyond the model, which ends where Chromium begins.
Address, status and type are taken (browser.py:484) before the content is
awaited, and again while it settles: a page that navigates on in between is
stored under the address that was checked before. And a time limit during
`async_playwright().start()` (line 313) leaves a driver process that nobody holds.

### Notes on `Library`, `Certificates` and `Api`

`ReadJob` is the route's first look, `ReadResults` one statement of `get_results`
(status, people, profiles, sources, claims, each at its own time as under READ
COMMITTED), `Render` the check of what was read and the rendering. Then a
transaction takes the library's lock (`pg_advisory_xact_lock` or `BEGIN
IMMEDIATE`), reads the usage, inserts and commits; a lost connection (`Fail`) ends
it anywhere, and an insert may commit although its answer is lost. A removal
names a saved result, present or not.

A request that carries a Google credential verifies it first: it waits for the
certificate lock, takes certificates that have not expired, or fetches. With
`Ttl` 0 (no-store) they serve one request. A fetch that fails answers 503.

## What the runs check

| Run | Instance | Shows |
|---|---|---|
| `jobstore` | a job of 1 person with evidence and a cache of 2 pages, and a batch of 2, one job at a time; 1 worker, 2 tokens, lag 1 | `ImplementsQueue`, `OwnerKeepsUnexpiredLease`, `NoWriteAfterClose`, `TypeOK`, `OpenPersonIsReachable`, `JobStatusIsCurrent`, `AckedOutcomeStands`, `PublishedProfile`, `CacheWithinBudget`, `ClosedJobKeepsNoCache` |
| `worker` | a process with 2 leases at once, 1 attempt, 1 fault, 2 checkpoints of which any may be abandoned, fairness | `ResumePointHolds`, `EndedBossLeavesNoLease` (with the types), `PersonIsAnswered`, `LostLeaseEndsWork` |
| `budget` | a search and a completion with a retry each, 2 checkpoints under way, 2 runs | `SendsWithinLimits`, `UncertainStaysReserved` (with the types), `NoBlindRepeatInOrder` |
| `ordered_window` | 2 windows of 3 items, limit 0 to 2, 1 slot | `TasksBelongToTheirWindow` (with the types and the limit), `EveryWindowCloses` |
| `retrieval` | 4 requests, 3 pages, 2 domains, one of which hangs, a browser that crashes | `RequestsKeepApart` (one per page, the domain's limit), `NoObjectWithoutUsers`, `BrowserServesItsUsers`, `SlowDomainBlocksNoOther` |
| `research` | 3 pages of which one redirects to another, 6 queries, 3 runs, fairness | `NoCandidateIsLost`, `WorkCountsOnce` (claims and counters, with the types), `NothingLeftBehind`, `ConclusionsStand`, `RunEnds` |
| `evidence` | 9 people, 3 or 4 pages each in every order, 1 interruption, 1 blocked site | `EvidenceTypeOK`, `NamesakesStayApart`, `RolesAndCredentialsStayVisible`, `EducationIgnoresOrder`, `ListedDegreesStayApart`, `NothingFromBlockedSources`, `ReadingTwiceChangesNothing` |
| `api` | a batch of 2 people; 2 saves, a save and its removal, or an export | `QuotaHolds`, `SavedResultStands`, `ExportRestsOnEvidence`, `FreshCertificates`, `EveryRequestEnds` |
| `crash_recovery` | 1 person, 1 worker | the documented attempt limit of crash recovery is violated |
| `budget_repeat` | 2 completions without retries, 2 runs | a request that may have been charged for is sent again |
| `research_duplicate` | 4 pages, 3 runs | a page is taken for a copy of itself |
| `research_rebought` | 4 pages, 2 searches for open fields, results for 3 searches and a half, 3 runs | a search that was answered before a crash is sent and paid for again |

### Bounds

Attempts are 2 in `jobstore` so that the first, the last and the exhausted attempt
differ; in `worker` the first is the last.
Leases last 2 ticks (1 in `crash_recovery`): one tick is enough for a renewal to
matter, and a lease can lapse while another is fresh. With two tokens a fresh
claim meets the receipt or the stalled holder of an older lease. A token is reused
only when no row, no holder and no call under way has it, which is what a uuid4
amounts to. In `jobstore` the constraint `OneJobAtATime`
keeps the two jobs apart: jobs share nothing but the tokens, so that interleaving
them only multiplies the states of each. The evidence and the cache belong to
the single one. Lag is checked up to one tick, half a lease. A fault
is a death, a stop, a broken connection, an error of the provider or a stall past
the lease; one of them suffices for a stale call to meet a new owner's
checkpoint, and two checkpoints for an abandoned one to meet a newer one. The two
leases of `worker` are held by one process: who competes for a person are leases,
each with its own token and coroutines, and the name of a process matters for a
repeated claim only. What this leaves out, a process that dies or is stopped while
another goes on with the same person, the proofs of the safety properties cover.
Limits
of the budget are set so that both requests together reach them. `MaxCalls` is
2: one abandoned call and one that is newer are what it takes to store them out
of order. The constraint `InOrder` of `budget` ends behaviours at a run that was
misled, of which its properties claim nothing; `budget_repeat` has no such constraint. `Research` has three runs, so that a run that resumed is interrupted
itself: what one interruption leaves in the cursor is then read back twice. Two
sources, a round of one and two sources without new claims let the stop reasons
occur; supplied pages include a redirect and its target, and a page about
somebody else is what searches find. The queries are one of each kind the code
builds, with four allowed, so that some are left over. Windows have one item
more than tasks, and fewer slots than tasks.

In `api` the library holds one file, and sizes reach from well within the byte
limit to above it, so that each of the two limits refuses a save that the other
would let pass. `Traffic` names the requests made at once: the hazards need two
that meet, and the batch is a third party in each. The clock ticks once, which is
enough for certificates to expire while a fetch is under way. In `evidence` a
policy blocks one site: an official page, an independent one, or the target of a
supplied link, depending on the story; research may stop after any page, so that
every prefix of every order is reconciled.

### Fairness

`JobStore` assumes that the clock goes on, that `run_worker` polls for ever
(recovery, and a claim of any person who is first in line again and again), and
that a holder that lost its lease notices. The last is checked in `Worker`, where
it follows from renewals; nothing is assumed of a holder that still owns its
person. `Worker` assumes weak fairness of each step of its coroutines (the event
loop runs what can run), of threads, and of the claim loop; it assumes nothing of
the research itself, which may hang; that the time limit of a person then expires
(`TimeLimits`) is a hypothesis of `PersonIsAnswered`. `worker` takes one attempt
and one fault: the attempt that a death spends is the last one, so that recovery
has to give it back. Strong fairness stands for the first-in
first-out queues of `asyncio` locks and semaphores in `OrderedWindow` and
`Retrieval`, and for being first in line again and again in `JobStore`.
Requests for slow domains have no fairness at all, and nothing is assumed of the
launch of a browser: a rendering ends because it has a time limit. `Api` assumes
that each request goes on when it can: statements and fetches have time limits,
and no request can be overtaken for ever since only those of `Traffic` exist. `Research` assumes that the
coroutine goes on while its process lives (requests and fetches time out), and
nothing of what it is answered: `RunEnds` holds for every sequence of answers.

### What the documentation says otherwise

docs/performance.md:202-203 says that "usage and checkpoints are serialized safely when
responses finish out of order". They are, until a request is cancelled: of two
chunks under way, one fails, and the other, inside `await checkpoint(current)`
(research/orchestrator.py:342), is cancelled by the window. Its
`asyncio.to_thread` (worker.py:70) is not shielded, so that the thread goes on while
the lock is released, and `process_candidate` stores a newer result under the same
lease (line 623). The store compares no versions, so that the older result may be
committed last. If the process then dies, the next run resumes from it.
`budget_repeat` shows what that may cost: the overtaken checkpoint held the
`in_flight` receipt of a request that was sent meanwhile, the next run finds none, and
sends it again, against research/budget.py:44-45, "Never blindly repeat a request that
may already have incurred a charge." What is left of both promises is what
`ResumePointHolds`, `NoBlindRepeatInOrder` and the two invariants of `budget` say,
and is proved. In `Worker`, a stored result does go back in the runs of `worker`; what is
checked there is that this has no other cause and no greater effect.

README.md:208 says "Worker crash recovery is separately attempt-limited", and
docs/architecture.md:190 that it "has a separate attempt limit". In the code,
`_recover_exhausted` sets `attempts` to `WORKER_MAX_ATTEMPTS - 1` whenever the
attempts are used up, so that one more is always allowed: `crash_recovery` finds
a person taken from a dying worker more often than the limit. The tests agree
with the code (tests/test_db.py).

docs/performance.md:212 says that "identical page bodies retain their source
records while avoiding duplicate extraction". `research_duplicate` finds a page
that is skipped although nothing else has its body. A crash during its
extraction leaves it `active`; the next run makes it pending, saves in `Admit`
with nothing active, and is interrupted before the page's turn; the third run
builds `seen_hashes` from all sources that are not active
(research/orchestrator.py:229) and so meets the page's own hash. The chunks that
were left are never extracted.

tests/test_partial_failure_salvage.py:59 is named
"test_resume_cached_search_and_validation_receipts_keep_candidates_without_new_paid_calls", and
docs/performance.md:151 says that "completed exact-request receipts also work
without a checkpoint callback". The key of such a request contains its limit of
results. A run that resumes keeps the limit of the query that was under way
(`retry_query_limit`, research/orchestrator.py:250) for whichever query it takes
first (line 1264); while candidates are pending that may be a second targeted
query, which is put in front of the interrupted one (line 1000). The interrupted
one then gets whatever the total leaves, and where that is another limit its paid
answer is not found: `research_rebought` finds the search sent again. With the
default limits (24 results, 8 per query) this cannot happen, which
`SearchesCorrect` proves of all limits where one divides the other.

docs/performance.md:191 says that "`MAX_SOURCES_PER_PERSON` continues to cap
processed source records". `Research` has behaviours that begin one more: while
a source of an earlier run waits, `stopped()` (research/orchestrator.py:353) does
not stop at the limit, and the window and `process_candidate` take every page of
the round. No run is kept for it.

docs/architecture.md:158 lets the policy run on "requested and final redirect
URLs"; the notes on `Browser` say when a rendered page is not the one whose
final address was checked.

## What is proved

For all values of the constants: any number of jobs, people, workers, requests,
pages, queries, windows and files, and all limits, lags and interruptions. The
assumptions are the named `ASSUME`s of each module. They say that limits are
numbers, and positive where `config.py` demands it, that what a person or a
process has at once is finite (`IsFiniteSet` of `Key`, `Req` and `Url`), and that
redirects end (`FinalOf`). Two theorems about `Research` have a hypothesis, which is
discussed there.

| Module | Theorems | State of the properties they are about |
|---|---|---|
| `WorkerProofs`, of `JobStore` | `TypeCorrect`, `StatusCorrect`, `ReachableCorrect`, `AckedOutcomeCorrect`, `PublishedCorrect`, `WriteCorrect`, `OwnerCorrect`, `ClosedCacheCorrect`, `CacheCorrect`, `QueueImplemented` | all that `jobstore` checks |
| `WorkerProofs`, of `Worker` | `WorkersUseTheStore`, `WorkersKeepOutcomes`, `WorkersImplementQueue`, `ResumePointsCorrect`, `BossesCorrect` | the safety that `worker` checks, and the store's with its real callers |
| `BudgetProofs` | `BlindRepeatCorrect`, `LimitsCorrect`, `ReservationsCorrect` | all that `budget` checks |
| `OrderedWindowProofs` | `WindowsCorrect` | the safety that `ordered_window` checks |
| `RetrievalProofs` | `ApartCorrect`, `ObjectsCorrect`, `BrowserCorrect` | the safety that `retrieval` checks |
| `ApiProofs` | `QuotaCorrect`, `SavedResultsCorrect`, `ExportsCorrect`, `CertificatesCorrect` | the safety that `api` checks |
| `ResearchProofs` | `WorkCorrect`, `EndCorrect`, `PagesCorrect`, `SearchesCorrect`, `CandidatesCorrect` | the safety that `research` checks, and where `SearchIsBoughtOnce` holds after all |
| `EvidenceProofs` | `NothingBlockedIsShown`, `ListedDegreesKeptApart`, `WhatIsKnownIsShown` | `NothingFromBlockedSources`, `ListedDegreesStayApart` and `RolesAndCredentialsStayVisible`, which `evidence` checks |
| `CollectionProofs` | lemmas only | |

Each safety property follows from an inductive invariant that says more than the
property does, and which TLC finds to hold on the instances above, too.

**Collections.** The byte sizes of a cache or a library and the counters of a budget are
folds over their rows, and evidence is made by folds, filters and sorts of lists.
What a fold computes would take an induction over the data, which no lemma can state
for every step. `CollectionProofs` goes two ways around it. A total is the
cardinality of a bar chart (`CellsOf`: a column of `f[x]` cells for each `x`), and the
library's theorems about finite sets say what becomes of a cardinality. The step
of a fold is first made a function on a set `V` of values that it never leaves
(`TakesSteps`); that the fold then is in `V` follows from the existence of a least
counterexample. So `SortBy` permutes, `Picked` picks and `Concatenated` joins, for any
sequence, and each fold of the code needs a set of values and one lemma about one step.

**Job store.** `TypeOK` is inductive as it stands; the interesting conjuncts are
`attempts \in 0 .. MaxAttempts`, which needs the guard of the claim and the clamp
of `defer_task`, and `left >= Lapsed`, which needs that no method sets an expiry
further in the past than the clocks lag. The other properties are proved together,
with three facts that none of them states:

- `RowsExist`: the people of a job have rows exactly when the job exists.
  Without it, the status that `Refresh` derives after a change of one row says
  nothing of the others.
- `CancelledWithJob`: a row is cancelled only together with its job. Without it a
  derived status could not tell a cancelled row from a failed one.
- `RowInv`: what the columns of one row say together. A queued row has attempts
  left, or else nobody could claim it and recovery would not select it; a running
  one has a token; a closed one has the outcome its callers were told, and the
  profile it finished with.

Each action preserves the conjunction, row by row: the row a method changes, and
the rows it leaves alone while the status of their job moves. The action
properties follow from the invariant in the state before the step.
`QueueImplemented` uses the same invariant: under it every method maps to
`Submit`, `Assign`, `Record`, `Settle` or `Cancel` of `ResearchQueue`, or does not
show.

**Worker.** `WorkersUseTheStore` shows that `WorkerSpec` implements `Spec` of
`JobStore`: orphaned database calls only carry leases that are held, so that a call
by a thread nobody awaits is one the store's callers may make. The theorems about
the store thereby hold of the real workers. The workers' own properties rest on
`WorkerInv`. A lease that still is the fence of its person (`Fenced`) has a version at
least as new as the stored one; a checkpoint whose coroutine is gone has a version
its research made, so one above the version it resumed from, and no later one
than the present; any other call without its coroutine has the last version,
because the work it was cancelled from makes no other; work that has returned, or
was refused, owns nothing. No step gives a lease back what it has
lost (`FenceKept`), which is what makes the last part stable. Processes and faults are
as many as one likes here, where `worker` has one of each.

**Budget.** `ReceiptsInv` relates the place of each request to its receipt and its
fate: whatever may have been charged has a receipt that keeps it from being sent
again. `BooksInv` is made of inequalities between totals: books cover everything
that was sent, by whichever run, and memory covers what the run is committed to
besides. Both speak of three sets of books: those in memory; those of every
snapshot under way that is not old, since it may still be stored in its turn; and,
unless it is overtaken, those of the last checkpoint, from which the next run
starts. A snapshot lags behind memory, so each part says what may have happened since:
a request is sent only when a call of its own ends, and that makes every earlier
snapshot old; replies only make books cover more than they need. An old snapshot says nothing, and
once a run has been misled nothing is claimed. The number of calls under way is
arbitrary; lemmas about sequences say what becomes of the calls when one ends, is
abandoned or joins them.

**Windows.** `WindowInv` bounds where tasks can be: between the item the body is at
and the next one without a task, and never more of them than the largest limit,
although the limit is asked anew for each item.

**Retrieval.** URL locks and domain semaphores are both objects made for the first
of their users, counted, and dropped with the last. `Shared` says what is known of such
objects, for any keys; it is proved once and used for both. Two requests of one
page thereby hold the same lock, although it may have been made anew in between.
`BrowserInv` adds that whoever launches a browser holds the lock for it and that
there is none meanwhile.

**API.** `ApiInv` has a part for each route: a save has read a job that was done
before its first statement, so that all it read is still current (`SaverInv`,
`FilesInv`); an export reads profiles before the sources and claims they rest on
(`ExporterInv`); the quota is a total over the files (`QuotaInv`). They rest on what any
implementation of `ResearchQueue` guarantees: final outcomes, and the evidence
behind them, stand.

**Research.** `MemoryInv` holds of memory and of the last checkpoint alike, since each
is made of the other: what `Resumed` makes of a checkpoint, and what `Save` makes of
memory. It relates the counters to the sets they count (`CountersInv`), the pages that
are pending, under way, seen, refused and concluded (`PagesInv`), and receipts to
what was done with their answers (`SearchesInv`). `PlaceInv` says what the coroutine may
rely on at each await. Every step shows `Advance`: the invariant again, and that no
conclusion about a page is taken back.

`SearchesCorrect` and `CandidatesCorrect` are proved under `WholeQueries`: the limit of
results is a multiple of the limit per query, as it is with the defaults (24 and 8).
The code does not demand it, and without it both properties are false: with the
constants of `research_rebought` TLC finds a search bought twice, and a candidate
lost when the second answer differs. The three other theorems need no such
hypothesis.

**Evidence.** `NothingBlockedIsShown` is about all the evidence modules, because what is
shown has gone through each of them. `EvidenceInv` says that claims are claims of
pages that were read, and that a stored result rests on its own claims and
sources (`IsResult`): every claim that a decision names, as support, conflict,
alternative or agreement, is a claim of the result from one of its sources, and
every link is the address of one of them. That is not enough when a policy
tightens after the result was stored, so `SanitizeType` shows of *any* such result
and *any* policy that what `sanitize_result` returns rests on the sources the policy
leaves; it either keeps the profile, when every source is left, or reconciles anew.
`ProjectType` shows that the spreadsheet, which is joined to it again on every
opening, brings in no link that the policy blocks and no claim of its own. Under
these, the lemmas follow the code: an answer makes claims of its own source
(`ValidatedType`), bundles divide claims, clusters join bundles, decisions name
claims of clusters, the representative link is the address of a source with a claim.

`ListedDegreesKeptApart` follows two degrees of one page from the answer to the record.
One check of `_definitely_distinct_education` compares a bundle with every bundle of a
cluster that comes from its page; it is made when a bundle with a degree is placed, so
a cluster has to stay apart while others join it. `Credential` says so: no two bundles
of a cluster, with degrees, are listed apart. A part without a degree may then join
unchecked, for it is listed apart from nothing. Bundles are not statements, however:
a list of degrees has been split, what is no degree taken out, and claims of other
sources left out before. `Listing` says what remains: a bundle with a labelled claim
has every university of that statement, and of no other, so two bundles conflict
exactly if their statements do. The supporting claims of a record are then those of one
cluster (`DegreeSupport`), also once the link, the unconfirmed claims and the
spreadsheet have joined (`ProfileKeeps`), and because a name is the name of one claim
(`OneName`, from `FromAnswerType`) they are the claims that the property looks up.

`WhatIsKnownIsShown` is the opposite of the first: no stage loses a claim. Some stages
may seem to. A list of degrees gives each degree the parts that go with it, and a
subject that is of one degree goes to no other; it would be lost if its degree were
not in the bundle. `Accompanied` is the reason why it is, and a part of `EvidenceInv`:
such a subject has a claim for its degree beside it, of the same page and statement.
Deduplication keeps that, because it keeps a claim that says the same, and so does the
choice of sources, which takes all the claims of a page or none (`WholeSources`). What
is no degree is taken out of a bundle and kept as an alternative. Bundles without a
label are one statement, or are paired with the one they complete (`Joint`). A cluster
grows and is never divided, and a bundle that fits none is noted as an alternative of
one or begins its own (`Keeps`, `Notes`); of the clusters of roles the winner's claims
support or contradict and the others' are alternatives, and so are the claims of a
relative's business if there is a role; if there is none they are the exception of the
property (`EmploymentKeeps`). Records only add to the alternatives (`SameEvidence`).

The assumptions are `AnswersAssumption`, that answers are lists of records with the
fields of a claim, of no degree in particular, whose degrees are numbered and worded in
the words that stand for a level, and `PeopleAssumption`: people have finitely many
numbered pages and a list of columns, and the name of a site is neither the address
of a page nor the number that stands for no link. Nothing is assumed of texts, dates, scores, policies
or which sites are blocked.

### What stays with TLC

- Liveness, which is out of the prover's reach: `PersonIsAnswered`, `LostLeaseEndsWork`,
  `EveryWindowCloses`, `SlowDomainBlocksNoOther`, `EveryRequestEnds`, `RunEnds`.
- The other properties of `Evidence`. `NamesakesStayApart` and `EducationIgnoresOrder` say
  what long chains of rankings make of the evidence of these people, and
  `ReadingTwiceChangesNothing` is about seeds whose typed fields come from their
  columns, with names worded as they are stored; that the three hold for every value
  of the constants is not claimed. `EvidenceTypeOK` bounds a confidence that decays by
  powers of two, and the provers have no facts about `2^n`, not even that it is a
  natural number.
- `PickedIsSelectSeq` and `OrderingAgrees`, which relate `Ordering` to recursive
  definitions of the library.
- The expected violations, which are single behaviours.

## What is not modelled

`worker_heartbeats` (read by the readiness probe only), telemetry, the decision
trace and logging observe and decide nothing. HTML processing, the parsing of
spreadsheets and seeds, canonical URLs, the wording of queries and prompts and
the formats of exports are string work without state, where a model could only
repeat the code. Of `research/normalisation.py` and the comparisons in
`reconciliation.py` the expressions themselves are left out, not what is decided
by them. Structured sources that a deployment configures, and the reuse of an
earlier extraction, are left out of `Research`. `put_cache` samples its clock
before the lock; the model lets an expired row count or not only by its `live`
flag, so this lag is not explored. Overlapping calls of one process to the
database are explored only as orphans in `Worker`. Real time, such as how long a
heartbeat may be delayed before a lease of more than two heartbeats lapses, is
not modelled, nor is whether a person that is deferred again and again, being first
in line after each pause (db/store.py:715), keeps the others of its job waiting.

## Plan

1. The other properties of `Evidence`, of the evidence they hold of.
2. `Research`: structured sources and reuse of an earlier extraction; composed
   with `Worker`, whose work it is.
3. A timing model of the supervisor loop: which delays a healthy worker survives.
