------------------------------ MODULE Research ------------------------------
(* The research of one person: ResearchOrchestrator._research              *)
(* (research/orchestrator.py), over all the runs it takes.                 *)
(*                                                                         *)
(* mem is what the running coroutine knows; disk is the last checkpoint,   *)
(* from which another run resumes after a crash or an outage.  The other   *)
(* variables are locals that no checkpoint holds.  One action goes from    *)
(* one await to the next; those that end with await save() end with Save.  *)
(*                                                                         *)
(* Abstracted: pages, queries and claims are names; what a page says, what *)
(* its chunks ground and whose page it is are constants, because receipts  *)
(* and the page cache give a resumed run the same answers.  Whether the    *)
(* claims reach the target, and which fields are unresolved, is any        *)
(* outcome.  Fetches that run ahead of their turn are OrderedWindow's, the *)
(* requests inside one search Budget's: here a search is one attempt.      *)
(* Configured structured sources are left out.                             *)
EXTENDS Ordering

CONSTANTS
  Url,              \* pages, by their canonical address
  Ranking,          \* the pages by rank, as rank_candidates puts them
  FinalOf,          \* where a page redirects to, itself if it does not
  BodyOf,           \* the content of a page
  Stranger,         \* pages that are about somebody else
  Chunks,           \* the number of chunks of a page
  Grounded,         \* <<page, chunk>>: those that ground new claims
  Supplied,         \* pages the user supplied
  Wikipedia,        \* pages of Wikipedia
  Query, NoQuery,
  InitialQuery, FieldQuery, FallbackQuery, RoleQuery, WikipediaQuery, PlanQuery,
  Found,            \* the answers a query may have: sets of pages
  MaxSources, PerRound, MaxNoNew, MaxQueries, MaxCalls, MaxResults, PerQuery,
  MaxRuns           \* bound: runs

ASSUME ConstantsAssumption ==
  /\ IsFiniteSet(Url) /\ Ranking \in Seq(Url) /\ ToSet(Ranking) = Url
  /\ FinalOf \in [Url -> Url]
  /\ DOMAIN BodyOf = Url
  /\ \A u \in Url : FinalOf[FinalOf[u]] = FinalOf[u] /\ BodyOf[FinalOf[u]] = BodyOf[u]
  /\ Chunks \in [Url -> Nat]
  /\ Stranger \subseteq Url /\ Supplied \subseteq Url /\ Wikipedia \subseteq Url
  /\ NoQuery \notin Query
  /\ {InitialQuery, RoleQuery, WikipediaQuery} \subseteq Query /\ FieldQuery \subseteq Query
  /\ FallbackQuery \in Seq(Query) /\ PlanQuery \in Seq(Query)
  /\ Found \in [Query -> SUBSET SUBSET Url]
  /\ {MaxSources, PerRound, MaxNoNew, MaxQueries, MaxCalls, MaxResults, PerQuery, MaxRuns}
       \subseteq Nat \ {0}

VARIABLES
  mem,          \* the result so far and the cursor, in memory
  disk,         \* the same, in the last checkpoint
  at,           \* where the coroutine is
  batch,        \* the candidates being validated
  selected,     \* what is left of the round
  caller,       \* who asked for the round: "supplied", "loop" or "search"
  before,       \* the grounded chunks when processing of Head(selected) began
  retryLimit,   \* retry_query_limit: 0 for None
  unavailable,  \* provider_unavailable of the client
  stop,         \* stop_reason
  runs          \* runs begun

locals == <<batch, selected, caller, before, retryLimit, unavailable, stop>>
vars == <<mem, disk, at, locals, runs>>

Status == {"none", "new", "processed", "duplicate", "identity_rejected", "extracted",
           "extraction_failed", "failed"}
Exhausted == {"DISCOVERY_EXHAUSTED", "NO_SEARCH_CITATIONS", "NO_SELECTED_SOURCES"}
StopReason ==
  Exhausted \cup
  {"none", "MAX_SOURCES", "NO_NEW_CLAIMS", "TARGET_CONFIDENCE", "MAX_QUERIES",
   "MAX_SEARCH_TOOL_CALLS", "MAX_SEARCH_RESULTS", "PROVIDER_UNAVAILABLE",
   "PROVIDER_FAILED", "PROVIDER_RESPONSE_UNCERTAIN", "BUDGET"}

\* A chunk of a page; chunk 0 is its deterministic evidence.
Chunk == {<<u, i>> : u \in Url, i \in 0 .. Max({Chunks[u] : u \in Url})}
ChunksOf(u) == {<<u, i>> : i \in 1 .. Chunks[u]}

\* A request for a search: the key holds the query and its limit.
Receipt == [query : Query, limit : 1 .. PerQuery, completed : BOOLEAN, found : SUBSET Url]

Memory ==
  [queue : Seq(Query), done : SUBSET Query, performed : Nat, query : Query \cup {NoQuery},
   limit : 0 .. PerQuery, fallback : BOOLEAN, role : BOOLEAN, wikipedia : BOOLEAN,
   planned : SUBSET SUBSET Chunk, calls : 0 .. MaxCalls, results : 0 .. MaxResults,
   receipts : SUBSET Receipt,
   pending : SUBSET Url, active : SUBSET Url, seen : SUBSET Url, hashes : SUBSET Range(BodyOf),
   rejected : SUBSET Url, validated : SUBSET Url,
   status : [Url -> Status], hashed : SUBSET Url, fetched : Nat,
   applied : SUBSET Chunk, counted : [Chunk -> Nat], noNew : Nat]

Fresh ==
  [queue |-> <<InitialQuery>>, done |-> {}, performed |-> 0, query |-> NoQuery,
   limit |-> 0, fallback |-> FALSE, role |-> FALSE, wikipedia |-> FALSE,
   planned |-> {}, calls |-> 0, results |-> 0, receipts |-> {},
   pending |-> {}, active |-> {}, seen |-> {}, hashes |-> {}, rejected |-> {},
   validated |-> {}, status |-> [u \in Url |-> "none"], hashed |-> {}, fetched |-> 0,
   applied |-> {}, counted |-> [c \in Chunk |-> 0], noNew |-> 0]

Evidence(m) == m.applied \cap Grounded
SourcesOf(m) == {u \in Url : m.status[u] # "none"}

-----------------------------------------------------------------------------
(* Checkpoints, resuming and stopping.                                     *)

Save == disk' = mem'

\* What a source record says of its page before the page is fetched again.
CanonicalOf(m, u) == IF u \in m.hashed THEN FinalOf[u] ELSE u

\* Mistake: pages under way are not pending again.
ResumedWithoutActive(m) ==
  LET active == m.active
      known == SourcesOf(m) \cap active
      again == m.query # NoQuery
  IN [m EXCEPT
        !.active = {},
        !.seen = @ \ (active \cup {CanonicalOf(m, u) : u \in known}),
        !.hashes = {BodyOf[u] : u \in m.hashed \ active},
        !.query = NoQuery,
        !.done = @ \ {m.query},
        !.performed = IF again THEN Max({0, @ - 1}) ELSE @,
        !.queue = IF again THEN <<m.query>> \o @ ELSE @]

\* Mistake: which pages were seen is not restored.
ResumedUnseen(m) ==
  LET active == m.active
      again == m.query # NoQuery
  IN [m EXCEPT
        !.pending = @ \cup active,
        !.active = {},
        !.seen = {},
        !.hashes = {BodyOf[u] : u \in m.hashed \ active},
        !.query = NoQuery,
        !.done = @ \ {m.query},
        !.performed = IF again THEN Max({0, @ - 1}) ELSE @,
        !.queue = IF again THEN <<m.query>> \o @ ELSE @]

\* What a run makes of the cursor: pages under way are pending again, and the
\* query under way is first in the queue.
Resumed(m) ==
  LET active == m.active
      known == SourcesOf(m) \cap active
      again == m.query # NoQuery
  IN [m EXCEPT
        !.pending = @ \cup active,
        !.active = {},
        !.seen = @ \ (active \cup {CanonicalOf(m, u) : u \in known}),
        !.hashes = {BodyOf[u] : u \in m.hashed \ active},
        !.query = NoQuery,
        !.done = @ \ {m.query},
        !.performed = IF again THEN Max({0, @ - 1}) ELSE @,
        !.queue = IF again THEN <<m.query>> \o @ ELSE @]

\* stopped(include_target=False): why research stops, or "none".
HardStop(m) ==
  LET unfinished == SourcesOf(m) \cap (m.pending \cup m.active)
  IN IF unavailable THEN "PROVIDER_UNAVAILABLE"
     ELSE IF m.fetched >= MaxSources /\ unfinished = {} THEN "MAX_SOURCES"
     ELSE IF m.noNew >= MaxNoNew THEN "NO_NEW_CLAIMS"
     ELSE "none"

\* stopped(): the target may be reached once there are claims.
StopReasons(m, includeTarget) ==
  {HardStop(m)} \cup
  (IF HardStop(m) = "none" /\ includeTarget /\ Evidence(m) # {}
   THEN {"TARGET_CONFIDENCE"} ELSE {})

Idle ==
  /\ batch' = {} /\ selected' = <<>> /\ caller' = "loop"
  /\ before' = 0 /\ retryLimit' = 0 /\ unavailable' = FALSE /\ stop' = "none"

Init ==
  /\ mem = Fresh /\ disk = Fresh /\ at = "down" /\ runs = 0
  /\ batch = {} /\ selected = <<>> /\ caller = "loop"
  /\ before = 0 /\ retryLimit = 0 /\ unavailable = FALSE /\ stop = "none"

\* A run begins, or resumes.
Begin ==
  /\ at = "down"
  /\ runs < MaxRuns
  /\ runs' = runs + 1
  /\ mem' = Resumed(disk)
  /\ retryLimit' = IF disk.query # NoQuery THEN disk.limit ELSE 0
  /\ at' = "supplied"
  /\ UNCHANGED <<disk, batch, selected, caller, before, unavailable, stop>>

\* The process dies, or its lease is lost: what was not saved is lost.
Crash ==
  /\ at # "down"
  /\ runs < MaxRuns
  /\ at' = "down" /\ mem' = disk /\ Idle
  /\ UNCHANGED <<disk, runs>>

\* RecoverableResearchError: saved, and the person is deferred.
Outage(m) ==
  /\ runs < MaxRuns
  /\ at' = "down" /\ mem' = m /\ Save /\ Idle
  /\ UNCHANGED runs

\* Research ends, with m as its result.
Finish(m, reason) ==
  /\ at' = "finish" /\ stop' = reason /\ mem' = m
  /\ UNCHANGED <<batch, selected, caller, before, retryLimit, unavailable, runs>>

\* A request that failed for good or may have been paid for, or a limit.
GiveUp(m) ==
  /\ \E reason \in {"PROVIDER_RESPONSE_UNCERTAIN", "BUDGET"} : Finish(m, reason)
  /\ Save

Ended ==
  /\ at = "finish"
  /\ at' = "ended"
  /\ UNCHANGED <<mem, locals, runs>>
  /\ Save

-----------------------------------------------------------------------------
(* Rounds: validate_and_process.                                           *)

Round(candidates, who) ==
  /\ batch' = candidates /\ caller' = who /\ at' = "admit"
  /\ UNCHANGED <<selected, before, retryLimit, unavailable, stop, runs>>

\* Nothing was selected: only a search draws a conclusion from that.
NoneSelected ==
  /\ at' = IF caller = "search" THEN "unselected" ELSE "loop"
  /\ batch' = {} /\ caller' = "loop"
  /\ UNCHANGED <<selected, before, retryLimit, unavailable, stop, runs>>

\* The pages the user supplied come first.
SuppliedRound ==
  /\ at = "supplied"
  /\ Supplied # {} /\ HardStop(mem) = "none"
  /\ Round(Supplied, "supplied")
  /\ UNCHANGED <<mem, disk>>

NoSuppliedRound ==
  /\ at = "supplied"
  /\ Supplied = {} \/ StopReasons(mem, TRUE) # {"none"}
  /\ at' = "loop"
  /\ UNCHANGED <<mem, disk, locals, runs>>

\* Mistake: candidates that were seen or refused stay pending.
AdmitKept ==
  LET candidates == batch \ (mem.seen \cup mem.rejected)
  IN /\ at = "admit"
     /\ mem' = [mem EXCEPT !.pending = @ \cup candidates]
     /\ IF candidates = {}
        THEN NoneSelected /\ UNCHANGED disk
        ELSE /\ Save
             /\ batch' = IF mem.fetched >= MaxSources
                         THEN candidates \cap SourcesOf(mem) ELSE candidates
             /\ at' = "validate"
             /\ UNCHANGED <<selected, caller, before, retryLimit, unavailable, stop, runs>>

\* Candidates that were seen or refused drop out, the others are pending from
\* here on.  At the limit of sources only those already begun are kept.
Admit ==
  LET known == mem.seen \cup mem.rejected
      candidates == batch \ known
  IN /\ at = "admit"
     /\ mem' = [mem EXCEPT !.pending = (@ \ known) \cup candidates]
     /\ IF candidates = {}
        THEN NoneSelected /\ UNCHANGED disk
        ELSE /\ Save
             /\ batch' = IF mem.fetched >= MaxSources
                         THEN candidates \cap SourcesOf(mem) ELSE candidates
             /\ at' = "validate"
             /\ UNCHANGED <<selected, caller, before, retryLimit, unavailable, stop, runs>>

Take(s, n) == SubSeq(s, 1, Min({n, Len(s)}))

\* The advisor, or the policy, refuses some; the others are ranked.
Validate(refused) ==
  LET eligible == batch \ refused
      ranked == Picked(Ranking, {i \in DOMAIN Ranking : Ranking[i] \in eligible})
  IN /\ at = "validate"
     /\ refused \subseteq batch \ mem.validated
     /\ mem' = [mem EXCEPT !.pending = @ \ refused, !.rejected = @ \cup refused,
                           !.validated = @ \cup eligible]
     /\ IF eligible = {}
        THEN NoneSelected
        ELSE /\ selected' = IF caller = "supplied" THEN ranked ELSE Take(ranked, PerRound)
             /\ batch' = {}
             /\ at' = "round"
             /\ UNCHANGED <<caller, before, retryLimit, unavailable, stop, runs>>
     /\ UNCHANGED disk

ValidationFails ==
  /\ at = "validate"
  /\ batch \ mem.validated # {}
  /\ \/ Outage(mem)
     \/ GiveUp(mem)
     \/ Finish(mem, "PROVIDER_FAILED") /\ Save

\* The window closes: every page was consumed, or research must stop.
RoundEnds ==
  /\ at = "round"
  /\ selected = <<>> \/ HardStop(mem) # "none"
  /\ selected' = <<>> /\ caller' = "loop" /\ at' = "loop"
  /\ UNCHANGED <<mem, disk, batch, before, retryLimit, unavailable, stop, runs>>

-----------------------------------------------------------------------------
(* Pages: process_candidate.                                               *)

\* The next page of the round leaves the pending ones.
NextPage(u) ==
  /\ at = "round"
  /\ selected # <<>> /\ HardStop(mem) = "none"
  /\ u = Head(selected)

\* A source gets its record, and counts, when its page is first processed.
Begun(u) ==
  [mem EXCEPT !.pending = @ \ {u}, !.seen = @ \cup {u}, !.active = @ \cup {u},
              !.status[u] = IF @ = "none" THEN "new" ELSE @,
              !.fetched = IF mem.status[u] = "none" THEN @ + 1 ELSE @]

\* The page is done with: m is saved and the window goes on.
Leave(u, m) ==
  /\ mem' = [m EXCEPT !.active = @ \ {u}]
  /\ Save
  /\ selected' = Tail(selected) /\ before' = 0 /\ at' = "round"
  /\ UNCHANGED <<batch, caller, retryLimit, stop, runs>>

\* It became known as a redirect's target after it was selected.
SkipPage(u) ==
  /\ NextPage(u) /\ u \in mem.seen
  /\ mem' = [mem EXCEPT !.pending = @ \ {u}]
  /\ selected' = Tail(selected)
  /\ UNCHANGED <<disk, at, batch, caller, before, retryLimit, unavailable, stop, runs>>

\* No page, or one that is not found, blocked or invalid.
PageFails(u, landed) ==
  /\ NextPage(u) /\ u \notin mem.seen
  /\ Leave(u, [Begun(u) EXCEPT !.status[u] = "failed",
                               !.seen = IF landed THEN @ \cup {FinalOf[u]} ELSE @])
  /\ UNCHANGED unavailable

PageOutage(u) ==
  /\ NextPage(u) /\ u \notin mem.seen
  /\ Outage(Begun(u))

PageArrives(u) ==
  /\ NextPage(u) /\ u \notin mem.seen
  /\ mem' = [Begun(u) EXCEPT !.seen = @ \cup {FinalOf[u]}, !.hashed = @ \cup {u},
                             !.status[u] = "processed"]
  /\ Save
  /\ before' = Cardinality(Evidence(mem))
  /\ at' = "judge"
  /\ UNCHANGED <<batch, selected, caller, retryLimit, unavailable, stop, runs>>

\* Mistake: chunks are applied whether or not they were before.
ApplyAgain(m, c) ==
  [m EXCEPT !.applied = @ \cup {c}, !.counted[c] = @ + 1]

\* Claims of a chunk are counted and kept together with its key.
Apply(m, c) ==
  IF c \in m.applied THEN m
  ELSE [m EXCEPT !.applied = @ \cup {c}, !.counted[c] = @ + 1]

\* The page is a duplicate, about somebody else, or worth extracting.
Judge(u) ==
  /\ at = "judge" /\ u = Head(selected)
  /\ UNCHANGED unavailable
  /\ CASE BodyOf[u] \in mem.hashes ->
            Leave(u, [mem EXCEPT !.status[u] = "duplicate"])
       [] BodyOf[u] \notin mem.hashes /\ u \in Stranger ->
            Leave(u, [mem EXCEPT !.hashes = @ \cup {BodyOf[u]},
                                 !.status[u] = "identity_rejected"])
       [] OTHER ->
            /\ mem' = Apply([mem EXCEPT !.hashes = @ \cup {BodyOf[u]}], <<u, 0>>)
            /\ Save
            /\ at' = "extract"
            /\ UNCHANGED <<batch, selected, caller, before, retryLimit, stop, runs>>

Left(u) == ChunksOf(u) \ mem.applied

\* Chunks are requested together and applied in order, each with a checkpoint.
ApplyChunk(u) ==
  LET chunk == CHOOSE k \in Left(u) : \A l \in Left(u) : k[2] <= l[2]
  IN /\ at = "extract" /\ u = Head(selected) /\ Left(u) # {}
     /\ mem' = Apply(mem, chunk)
     /\ Save
     /\ UNCHANGED <<at, locals, runs>>

\* The streak of sources without new claims, when a source is left.
Streak(u, completed) ==
  CASE Cardinality(Evidence(mem)) > before -> 0
    [] Cardinality(Evidence(mem)) <= before /\ completed
         /\ ({<<u, 0>>} \cup ChunksOf(u)) \cap Evidence(mem) = {} -> mem.noNew + 1
    [] OTHER -> mem.noNew

Extracted(u) ==
  /\ at = "extract" /\ u = Head(selected) /\ Left(u) = {}
  /\ Leave(u, [mem EXCEPT !.status[u] = "extracted", !.noNew = Streak(u, TRUE)])
  /\ UNCHANGED unavailable

\* A chunk's request fails: for good, for now, or nobody knows how.
ExtractionFails(u, denied) ==
  /\ at = "extract" /\ u = Head(selected) /\ Left(u) # {}
  /\ LET m == [mem EXCEPT !.noNew = Streak(u, FALSE)]
     IN \/ /\ Leave(u, [m EXCEPT !.status[u] = "extraction_failed"])
           /\ unavailable' = (unavailable \/ denied)
        \/ ~denied /\ Outage(m)
        \/ ~denied /\ GiveUp(m)

-----------------------------------------------------------------------------
(* Queries.                                                                *)

\* remaining_search_call_capacity
Capacity(m) ==
  LET results == MaxResults - m.results
      calls == (results + PerQuery - 1) \div PerQuery
  IN IF results <= 0 THEN 0
     ELSE Max({0, Min({MaxQueries - m.performed, MaxCalls - m.calls, calls})})

WikipediaIsMissing(m) == ~m.wikipedia /\ SourcesOf(m) \cap Wikipedia = {}

\* queue_wikipedia_query, if there are unresolved fields.
MayAskWikipedia(m) ==
  /\ WikipediaIsMissing(m) /\ Capacity(m) > 0
  /\ WikipediaQuery \notin m.done \cup ToSet(m.queue)
AskWikipedia(m) == [m EXCEPT !.wikipedia = TRUE, !.queue = Append(@, WikipediaQuery)]

FreshQueries(m, queries) == Picked(queries, {i \in DOMAIN queries : queries[i] \notin m.done})

\* queue_recovery_queries: once in the research of a person.
Recovering(m) ==
  LET wikipedia == IF Capacity(m) >= 2 /\ WikipediaIsMissing(m) THEN 1 ELSE 0
  IN IF m.fallback THEN m
     ELSE [m EXCEPT !.fallback = TRUE,
                    !.queue = @ \o Take(FreshQueries(m, FallbackQuery),
                                        Max({0, Capacity(m) - wikipedia}))]
Recovers(m) == ~m.fallback /\ Recovering(m).queue # <<>>

GoTo(place, m) ==
  /\ at' = place /\ mem' = m
  /\ UNCHANGED <<locals, runs>>

LoopEnds ==
  /\ at = "loop"
  /\ \E reason \in StopReasons(mem, mem.pending = {}) \ {"none"} : Finish(mem, reason)
  /\ UNCHANGED disk

\* Pending candidates are worth a targeted query first ...
AskTargeted(q) ==
  /\ at = "loop" /\ HardStop(mem) = "none" /\ mem.pending # {}
  /\ mem.fetched >= PerRound /\ Capacity(mem) > 0
  /\ q \in FieldQuery \ (mem.done \cup ToSet(mem.queue))
  /\ GoTo("queries", [mem EXCEPT !.queue = <<q>> \o @])
  /\ UNCHANGED disk

\* ... or are taken now.
PendingRound ==
  /\ at = "loop" /\ HardStop(mem) = "none" /\ mem.pending # {}
  /\ Round(mem.pending, "loop")
  /\ UNCHANGED <<mem, disk>>

NothingPending ==
  /\ at = "loop" /\ HardStop(mem) = "none" /\ mem.pending = {}
  /\ GoTo("queries", mem)
  /\ UNCHANGED disk

\* Limits of the searches, which the query under way at a crash is spared.
SearchLimit ==
  IF retryLimit # 0 THEN "none"
  ELSE IF mem.performed >= MaxQueries THEN "MAX_QUERIES"
  ELSE IF mem.calls >= MaxCalls THEN "MAX_SEARCH_TOOL_CALLS"
  ELSE IF mem.results >= MaxResults THEN "MAX_SEARCH_RESULTS"
  ELSE "none"

QueriesEnd ==
  /\ at = "queries" /\ SearchLimit # "none"
  /\ Finish(mem, SearchLimit)
  /\ UNCHANGED disk

QueriesGoOn ==
  /\ at = "queries" /\ SearchLimit = "none" /\ mem.queue # <<>>
  /\ GoTo("pop", mem)
  /\ UNCHANGED disk

\* The queue is empty.  Sources without a usable claim ask for recovery.
Unusable(m) ==
  \E u \in Url : m.status[u] \in {"failed", "extraction_failed", "identity_rejected", "extracted"}

Recover ==
  /\ at = "queries" /\ SearchLimit = "none" /\ mem.queue = <<>>
  /\ Unusable(mem) /\ Recovers(mem)
  /\ GoTo("loop", Recovering(mem))
  /\ UNCHANGED disk

\* m is the memory after a recovery that was not called for or found nothing.
Refill(m) ==
  /\ at = "queries" /\ SearchLimit = "none" /\ mem.queue = <<>>
  /\ \/ m = mem /\ Evidence(mem) # {}
     \/ m = mem /\ ~Unusable(mem)
     \/ m = Recovering(mem) /\ Unusable(mem) /\ ~Recovers(mem)
  /\ UNCHANGED disk

\* A strong role without its institution.
AskRole ==
  \E m \in {mem, Recovering(mem)} :
    /\ Refill(m)
    /\ ~m.role /\ Evidence(m) # {} /\ RoleQuery \notin m.done
    /\ GoTo("loop", [m EXCEPT !.role = TRUE, !.queue = <<RoleQuery>>])

\* An objective for the unresolved fields.
AskField(q) ==
  \E m \in {mem, Recovering(mem)} :
    /\ Refill(m)
    /\ q \in FieldQuery \ m.done /\ Capacity(m) > 0
    /\ GoTo("loop", [m EXCEPT !.queue = <<q>>])

\* The same claims and unresolved fields are not planned for twice.
Exhaust ==
  \E m \in {mem, Recovering(mem)} :
    /\ Refill(m)
    /\ Evidence(m) \in m.planned
    /\ Finish(m, IF m.performed >= MaxQueries THEN "MAX_QUERIES" ELSE "DISCOVERY_EXHAUSTED")

Plan ==
  \E m \in {mem, Recovering(mem)} :
    /\ Refill(m)
    /\ Evidence(m) \notin m.planned
    /\ GoTo("plan", m)

\* The advisor plans queries; important says whether important fields are open.
Planned(planned, important) ==
  LET wikipedia == /\ important /\ WikipediaIsMissing(mem) /\ Capacity(mem) > 0
                   /\ Capacity(mem) >= 2 \/ planned = <<>>
      room == Capacity(mem) - (IF wikipedia THEN 1 ELSE 0)
      m == [mem EXCEPT !.queue = Take(planned, Max({0, room})),
                       !.planned = @ \cup {Evidence(mem)}]
      next == IF wikipedia /\ MayAskWikipedia(m) THEN AskWikipedia(m) ELSE m
  IN /\ at = "plan"
     /\ planned \in {<<>>, FreshQueries(mem, PlanQuery)}
     /\ IF next.queue = <<>>
        THEN Finish(next, IF next.performed >= MaxQueries
                          THEN "MAX_QUERIES" ELSE "DISCOVERY_EXHAUSTED")
        ELSE GoTo("pop", next)
     /\ Save

PlanFails(denied) ==
  /\ at = "plan"
  /\ \/ ~denied /\ Outage(mem)
     \/ ~denied /\ GiveUp(mem)
     \/ /\ MayAskWikipedia(mem)
        /\ mem' = AskWikipedia(mem) /\ at' = "loop" /\ disk' = mem
        /\ unavailable' = (unavailable \/ denied)
        /\ UNCHANGED <<batch, selected, caller, before, retryLimit, stop, runs>>
     \/ Finish(mem, "PROVIDER_FAILED") /\ Save

-----------------------------------------------------------------------------
(* Searches: the request of client.search and what comes of its answer.    *)

\* The limit is part of the key of the request: a query under way at a crash
\* keeps it.
Pop ==
  LET q == Head(mem.queue)
  IN /\ at = "pop" /\ q \notin mem.done
     /\ mem' = [mem EXCEPT !.queue = Tail(@), !.query = q, !.done = @ \cup {q},
                           !.performed = @ + 1,
                           !.limit = IF retryLimit # 0 THEN retryLimit
                                     ELSE Min({PerQuery, MaxResults - mem.results})]
     /\ retryLimit' = 0 /\ at' = "searching"
     /\ UNCHANGED <<disk, batch, selected, caller, before, unavailable, stop, runs>>

PopDone ==
  /\ at = "pop" /\ Head(mem.queue) \in mem.done
  /\ GoTo("loop", [mem EXCEPT !.queue = Tail(@), !.query = NoQuery])
  /\ UNCHANGED disk

ReceiptsOf(m) == {r \in m.receipts : r.query = m.query /\ r.limit = m.limit}
WithReceipt(m, completed, found) ==
  [m EXCEPT !.receipts = (@ \ ReceiptsOf(m)) \cup
     {[query |-> m.query, limit |-> m.limit, completed |-> completed, found |-> found]}]
WithoutReceipt(m) == [m EXCEPT !.receipts = @ \ ReceiptsOf(m)]

\* A receipt with an answer is the answer; one without may have been paid for.
UseReceipt ==
  /\ at = "searching"
  /\ \E r \in ReceiptsOf(mem) :
       IF r.completed
       THEN /\ batch' = r.found /\ at' = "found"
            /\ UNCHANGED <<mem, selected, caller, before, retryLimit, unavailable, stop, runs>>
       ELSE Finish(mem, "PROVIDER_RESPONSE_UNCERTAIN")
  /\ UNCHANGED disk

\* The reservation is saved, then the request is sent.
SendSearch ==
  /\ at = "searching" /\ ReceiptsOf(mem) = {}
  /\ IF mem.calls < MaxCalls /\ mem.results + mem.limit <= MaxResults
     THEN GoTo("sent", [WithReceipt(mem, FALSE, {}) EXCEPT !.calls = @ + 1,
                                                           !.results = @ + mem.limit])
     ELSE Finish(mem, "BUDGET")
  /\ Save

\* The limits that all requests share, of calls and tokens.
SearchRefused ==
  /\ at = "searching" /\ ReceiptsOf(mem) = {}
  /\ Finish(mem, "BUDGET")
  /\ Save

\* The answer is saved with its receipt, while the query is still under way.
Answer(found) ==
  /\ at = "sent"
  /\ found \in Found[mem.query] /\ Cardinality(found) <= mem.limit
  /\ mem' = WithReceipt(mem, TRUE, found)
  /\ Save
  /\ batch' = found /\ at' = "found"
  /\ UNCHANGED <<selected, caller, before, retryLimit, unavailable, stop, runs>>

\* The search fails for good; denied: 401, 402 or 403.
SearchFails(denied) ==
  LET failed == WithoutReceipt(mem)
      m == [failed EXCEPT !.query = NoQuery]
  IN /\ at = "sent"
     /\ disk' = failed
     /\ IF denied THEN Finish(m, "PROVIDER_UNAVAILABLE") ELSE GoTo("loop", m)

\* It fails for now; a request proven unsent gives its reservation back.
SearchOutage ==
  LET failed == WithoutReceipt(mem)
  IN /\ at = "sent"
     /\ \/ Outage(failed)
        \/ Outage([failed EXCEPT !.calls = @ - 1, !.results = @ - mem.limit])

\* Nobody knows whether it was received, or it cost more than it may.
SearchUncertain ==
  /\ at = "sent"
  /\ GiveUp(mem)

\* The answer is applied.
ApplyAnswer ==
  /\ at = "found"
  /\ mem' = [mem EXCEPT !.pending = @ \cup batch, !.query = NoQuery]
  /\ Save
  /\ IF batch = {}
     THEN /\ at' = "empty"
          /\ UNCHANGED <<locals, runs>>
     ELSE Round(batch, "search")

\* Mistake: pending candidates are forgotten.
NothingFoundAlone ==
  /\ at \in {"empty", "unselected"}
  /\ LET m == Recovering(mem)
     IN IF at = "unselected" /\ mem.queue # <<>> THEN GoTo("loop", mem)
        ELSE IF Recovers(mem) THEN GoTo("loop", m)
        ELSE IF MayAskWikipedia(m) THEN GoTo("loop", AskWikipedia(m))
        ELSE Finish(m, IF at = "empty" THEN "NO_SEARCH_CITATIONS"
                       ELSE "NO_SELECTED_SOURCES")
  /\ UNCHANGED disk

\* Nothing was found, or nothing of it was selected: pending candidates, then
\* recovery and Wikipedia.  Queries still queued count only in the second case.
NothingFound ==
  /\ at \in {"empty", "unselected"}
  /\ LET m == Recovering(mem)
     IN CASE mem.pending # {} \/ (at = "unselected" /\ mem.queue # <<>>) -> GoTo("loop", mem)
          [] mem.pending = {} /\ (at = "empty" \/ mem.queue = <<>>) ->
               IF Recovers(mem) THEN GoTo("loop", m)
               ELSE IF MayAskWikipedia(m) THEN GoTo("loop", AskWikipedia(m))
               ELSE Finish(m, IF at = "empty" THEN "NO_SEARCH_CITATIONS"
                              ELSE "NO_SELECTED_SOURCES")
  /\ UNCHANGED disk

-----------------------------------------------------------------------------
Step ==
  \/ Begin \/ Ended
  \/ SuppliedRound \/ NoSuppliedRound
  \/ Admit \/ ValidationFails \/ RoundEnds
  \/ \E refused \in SUBSET batch : Validate(refused)
  \/ \E u \in Url :
       \/ SkipPage(u) \/ PageOutage(u) \/ PageArrives(u)
       \/ \E landed \in BOOLEAN : PageFails(u, landed)
       \/ Judge(u) \/ ApplyChunk(u) \/ Extracted(u)
       \/ \E denied \in BOOLEAN : ExtractionFails(u, denied)
  \/ LoopEnds \/ PendingRound \/ NothingPending
  \/ \E q \in FieldQuery : AskTargeted(q) \/ AskField(q)
  \/ QueriesEnd \/ QueriesGoOn \/ Recover \/ AskRole \/ Exhaust \/ Plan
  \/ \E planned \in {<<>>, FreshQueries(mem, PlanQuery)}, important \in BOOLEAN :
       Planned(planned, important)
  \/ \E denied \in BOOLEAN : PlanFails(denied) \/ SearchFails(denied)
  \/ Pop \/ PopDone \/ UseReceipt \/ SendSearch \/ SearchRefused
  \/ \E found \in SUBSET Url : Answer(found)
  \/ SearchOutage \/ SearchUncertain \/ ApplyAnswer \/ NothingFound

Next == Step \/ Crash

Spec == Init /\ [][Next]_vars

FairSpec == Spec /\ WF_vars(Step)

-----------------------------------------------------------------------------
(* Properties.                                                             *)

TypeOK ==
  /\ mem \in Memory /\ disk \in Memory
  /\ at \in {"down", "supplied", "admit", "validate", "round", "judge", "extract", "loop",
             "queries", "plan", "pop", "searching", "sent", "found", "empty", "unselected",
             "finish", "ended"}
  /\ batch \subseteq Url /\ selected \in Seq(Url) /\ caller \in {"supplied", "loop", "search"}
  /\ before \in Nat /\ retryLimit \in 0 .. PerQuery
  /\ unavailable \in BOOLEAN /\ stop \in StopReason /\ runs \in 0 .. MaxRuns

\* Statuses of a source that was dealt with.
Settled == Status \ {"none", "new", "processed"}

\* Every page a finished search brought is accounted for: it is pending, under
\* way, refused, seen or dealt with, if only as what another redirects to.  In
\* the checkpoint too, so that no crash between the answer of a search and the
\* end of a page loses a candidate: the answer of the query under way comes
\* back with its receipt.
DealtWith(m) ==
  LET settled == {u \in Url : m.status[u] \in Settled}
  IN settled \cup {FinalOf[u] : u \in settled}
AccountedFor(m) ==
  \A r \in m.receipts :
    r.completed /\ r.query \in m.done \ {m.query} =>
      r.found \subseteq m.pending \cup m.active \cup m.seen \cup m.rejected \cup DealtWith(m)
NoCandidateIsLost == AccountedFor(mem) /\ AccountedFor(disk)

\* Work counts once, however often it is interrupted and taken up again: the
\* claims of a chunk exactly when its key says so, and the counters that limits
\* are held against agree with what was done; searches keep their limit
\* although the query under way at a crash is spared the check.
WorkCountsOnce ==
  /\ TypeOK
  /\ \A k \in Chunk : mem.counted[k] = IF k \in mem.applied THEN 1 ELSE 0
  /\ mem.performed = Cardinality(mem.done) /\ mem.performed <= MaxQueries
  /\ mem.fetched = Cardinality(SourcesOf(mem))

\* Research that ends for want of anything to do has nothing left to do: no
\* candidate is pending or under way; and a source that counts as extracted
\* has all its chunks applied, whichever run applied them.
NothingLeftBehind ==
  /\ at = "ended" /\ stop \in Exhausted => mem.pending = {} /\ mem.active = {}
  /\ \A u \in Url : mem.status[u] = "extracted" =>
       {<<u, 0>>} \cup ChunksOf(u) \subseteq mem.applied

\* What was concluded of a page stands, in every checkpoint from then on: no
\* crash, resume or later search has it fetched and judged again.  Pages that
\* others redirect to are left out: a run that resumes one of the others takes
\* their address from the seen ones.
ConclusionsStand ==
  [][\A u \in Url :
       /\ disk.status[u] \in Settled
       /\ \A v \in Url \ {u} : FinalOf[v] # u
       => disk'.status[u] = disk.status[u]]_vars

\* The loop of queries and rounds comes to an end: each turn takes a candidate
\* or a query for good.
RunEnds == at # "down" ~> at \in {"down", "ended"}

\* "Identical page bodies retain their source records while avoiding duplicate
\* extraction": a page is skipped as a duplicate only if another page with its
\* body was dealt with.
OnlyCopiesAreDuplicates ==
  \A u \in Url : mem.status[u] = "duplicate" =>
    \E v \in Url \ {u} : BodyOf[v] = BodyOf[u] /\ mem.status[v] \in Settled

\* "Resume cached search [...] without new paid calls": a search whose answer is
\* stored is not sent again, whatever interrupted it.
SearchIsBoughtOnce ==
  \A r, s \in mem.receipts : r.completed /\ s.query = r.query => s = r

=============================================================================
