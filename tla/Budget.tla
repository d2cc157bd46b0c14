-------------------------------- MODULE Budget --------------------------------
(***************************************************************************)
(* The paid requests of one person: BudgetedModel of app/research/budget.py*)
(* around OpenRouterClient._perform of app/providers/openrouter.py.        *)
(*                                                                         *)
(* Requests of a run are concurrent coroutines that share the metrics and  *)
(* the receipts of the person; one lock serialises their reservations and  *)
(* their accounting.  Both are written ahead: a checkpoint of the person   *)
(* stores them before the request is sent.                                 *)
(*                                                                         *)
(* A checkpoint is a snapshot of the books and a call of the store, under  *)
(* checkpoint_lock.  The call runs in a thread: when its request is        *)
(* cancelled the lock is released, and the snapshot may still be stored,   *)
(* after newer ones.  The store compares no versions.                      *)
(*                                                                         *)
(* The state is that of the run that holds the person.  One that lost it   *)
(* goes on until its next checkpoint is refused: nothing it does until then*)
(* is stored or sent, but what it had sent is still answered: late.        *)
(*                                                                         *)
(* What the provider did is known to the model only: fate and sends.  So   *)
(* is whether the checkpoints were stored out of their order: overtaken    *)
(* and misled.                                                             *)
(***************************************************************************)
EXTENDS Integers, FiniteSets, Sequences, Totals

CONSTANTS
  MaxRuns,           \* bound of the model: executions of the person's research
  MaxCalls,          \* bound of the model: checkpoints under way at a time
  Key,               \* requests, by the hash of their operation
  NoKey,
  SearchKey,         \* the requests that search the web
  Reserve,           \* tokens reserved for a request
  Results,           \* results a search may return
  Actual,            \* tokens a reply may report
  MaxRetries,        \* OPENROUTER_MAX_RETRIES
  MaxLlmCalls,       \* MAX_LLM_CALLS_PER_PERSON
  MaxTokens,         \* MAX_TOKENS_PER_PERSON
  MaxSearchCalls,    \* MAX_SOURCE_MODEL_TOOL_CALLS
  MaxResults         \* MAX_TOTAL_SEARCH_RESULTS_PER_PERSON

ASSUME BudgetAssumption ==
  /\ MaxRuns \in Nat \ {0} /\ MaxCalls \in Nat \ {0}
  /\ IsFiniteSet(Key) /\ NoKey \notin Key
  /\ SearchKey \subseteq Key
  /\ Reserve \in [Key -> Nat]
  /\ Results \in [Key -> Nat]
  /\ Actual \subseteq Nat
  /\ MaxRetries \in Nat
  /\ MaxLlmCalls \in Nat /\ MaxTokens \in Nat
  /\ MaxSearchCalls \in Nat /\ MaxResults \in Nat

Run == 1 .. MaxRuns

VARIABLES
  books,       \* metrics and receipts in memory
  stored,      \* the books in the last checkpoint of the person
  calls,       \* checkpoints under way, by the age of their snapshots
  request,     \* what each request is doing
  lock,        \* _budget_lock
  unavailable, \* provider_unavailable
  stopped,     \* the whole run was cancelled
  owner,       \* the run that holds the lease
  late,        \* requests that earlier runs have sent, and that are not answered
  fate,        \* what became of the sends of a key
  sends,       \* sends of a key the provider may have received
  overtaken,   \* the last checkpoint replaced one with a newer snapshot
  misled       \* a run has resumed from such a checkpoint

provider == <<fate, sends>>
order == <<overtaken, misled>>
checkpoint == <<stored, calls, order>>
vars == <<books, checkpoint, request, lock, unavailable, stopped, owner, late, provider>>

Receipt == {"none", "in_flight", "acknowledged", "retryable", "completed"}
Books == [llmCalls : Int, tokens : Int, searches : Int, results : Int,
          receipt : [Key -> Receipt]]

\* by: the request that waits for the call, unless it was cancelled; old: a
\* newer snapshot has been stored.
Call == [books : Books, by : Key \cup {NoKey}, old : BOOLEAN]

\* How an attempt ends.
\*   ok         a result that can be used
\*   unsent     no connection: ConnectError, ConnectTimeout, PoolTimeout
\*   busy       408, 429 or 5xx, with its body
\*   invalid    another reply that cannot be used, or that lost its body
\*   denied     401, 402 or 403
\*   uncertain  the connection failed after the request was sent
Ending == {"ok", "unsent", "busy", "invalid", "denied", "uncertain"}
Repeatable == {"unsent", "busy", "invalid"}

\* reserved: the lock is held, and the reservation is not stored yet.
\* replied:  the attempt ended; accounted: the lock is held, the accounting is
\*           not stored yet; judged: it is.
\* settled:  the receipt has its final state, not stored yet.
Place == {"idle", "ready", "reserved", "sent", "replied", "accounted", "judged",
          "settled", "done", "failed"}
Saving == {"reserved", "accounted", "settled"}
Request == [at : Place, attempt : 0 .. MaxRetries, ending : Ending]

Idle == [at |-> "idle", attempt |-> 0, ending |-> "ok"]

TypeOK ==
  /\ books \in Books
  /\ stored \in Books
  /\ calls \in Seq(Call)
  /\ request \in [Key -> Request]
  /\ lock \in Key \cup {NoKey}
  /\ unavailable \in BOOLEAN
  /\ stopped \in BOOLEAN
  /\ owner \in Run
  /\ late \in [Key -> Nat]
  /\ fate \in [Key -> {"clear", "unknown", "paid"}]
  /\ sends \in [Key -> Int]
  /\ overtaken \in BOOLEAN
  /\ misled \in BOOLEAN

NewBooks == [llmCalls |-> 0, tokens |-> 0, searches |-> 0, results |-> 0,
             receipt |-> [k \in Key |-> "none"]]

Init ==
  /\ books = NewBooks
  /\ stored = NewBooks
  /\ calls = <<>>
  /\ request = [k \in Key |-> Idle]
  /\ lock = NoKey
  /\ unavailable = FALSE
  /\ stopped = FALSE
  /\ owner = 1
  /\ late = [k \in Key |-> 0]
  /\ fate = [k \in Key |-> "clear"]
  /\ sends = [k \in Key |-> 0]
  /\ overtaken = FALSE
  /\ misled = FALSE

At(k, place) == request[k].at = place
GoTo(k, place) == request' = [request EXCEPT ![k].at = place]
Enter(k, place) ==
  request' = [request EXCEPT ![k] = [at |-> place, attempt |-> 0, ending |-> "ok"]]

SetReceipt(k, state) == books' = [books EXCEPT !.receipt[k] = state]

-----------------------------------------------------------------------------
(* Checkpoints of the person: everything the run has in its books.         *)

CheckpointLockFree == \A i \in DOMAIN calls : calls[i].by = NoKey

\* save() of a request: the snapshot, and the call that takes it to the store.
Snapshot(k) ==
  /\ request[k].at \in Saving
  /\ CheckpointLockFree
  /\ Len(calls) < MaxCalls
  /\ calls' = Append(calls, [books |-> books, by |-> k, old |-> FALSE])
  /\ UNCHANGED <<books, stored, request, lock, unavailable, stopped, owner, late, provider, order>>

\* A call is done: snapshots older than a stored one are old.
WithoutCall(i) ==
  [j \in 1 .. Len(calls) - 1 |-> IF j < i THEN calls[j] ELSE calls[j + 1]]
StoredCall(i) ==
  [j \in 1 .. Len(calls) - 1 |->
     IF j < i THEN [calls[j] EXCEPT !.old = TRUE] ELSE calls[j + 1]]

\* A call stores its snapshot.
Store(i) ==
  /\ stored' = calls[i].books
  /\ overtaken' = calls[i].old
  /\ calls' = StoredCall(i)
  /\ UNCHANGED misled

\* The call that a request waits for, the newest one, stores its snapshot.
Checkpoint(k) ==
  /\ calls # <<>> /\ calls[Len(calls)].by = k
  /\ Store(Len(calls))

\* A call whose request was cancelled ends: what it has is stored, or nothing.
AbandonedCallEnds(i) ==
  /\ calls[i].by = NoKey
  /\ \/ Store(i)
     \/ calls' = WithoutCall(i) /\ UNCHANGED <<stored, order>>
  /\ UNCHANGED <<books, request, lock, unavailable, stopped, owner, late, provider>>

\* A checkpoint of the research itself, which is not cancelled while it goes
\* on: it waits for the call.
Save ==
  /\ ~stopped
  /\ CheckpointLockFree
  /\ stored' = books
  /\ calls' = [i \in DOMAIN calls |-> [calls[i] EXCEPT !.old = TRUE]]
  /\ overtaken' = FALSE
  /\ UNCHANGED <<books, request, lock, unavailable, stopped, owner, late, provider, misled>>

-----------------------------------------------------------------------------
(* _request: an answer that is stored is used again; a request that may    *)
(* have been paid for is not repeated.                                     *)

\* Mistake: an unfinished request of an earlier run is sent again.
StartAgain(k) ==
  /\ ~stopped
  /\ request[k].at \in {"idle", "done", "failed"}
  /\ IF books.receipt[k] = "completed" THEN Enter(k, "done") /\ UNCHANGED books
     ELSE IF unavailable THEN Enter(k, "failed") /\ UNCHANGED books
     ELSE Enter(k, "ready") /\ SetReceipt(k, "in_flight")
  /\ UNCHANGED <<checkpoint, lock, unavailable, stopped, owner, late, provider>>

Start(k) ==
  /\ ~stopped
  /\ request[k].at \in {"idle", "done", "failed"}
  /\ IF books.receipt[k] = "completed" THEN Enter(k, "done") /\ UNCHANGED books
     ELSE IF books.receipt[k] \in {"in_flight", "acknowledged"} \/ unavailable
     THEN Enter(k, "failed") /\ UNCHANGED books
     ELSE Enter(k, "ready") /\ SetReceipt(k, "in_flight")
  /\ UNCHANGED <<checkpoint, lock, unavailable, stopped, owner, late, provider>>

\* before_attempt: the limits.
WithinLimits(b, k) ==
  /\ b.llmCalls < MaxLlmCalls
  /\ b.tokens + Reserve[k] <= MaxTokens
  /\ k \in SearchKey => /\ b.searches < MaxSearchCalls
                        /\ b.results + Results[k] <= MaxResults

Reserved(b, k) ==
  [llmCalls |-> b.llmCalls + 1,
   tokens |-> b.tokens + Reserve[k],
   searches |-> IF k \in SearchKey THEN b.searches + 1 ELSE b.searches,
   results |-> IF k \in SearchKey THEN b.results + Results[k] ELSE b.results,
   receipt |-> [b.receipt EXCEPT ![k] = "in_flight"]]

\* Under the lock: the limits and the reservation ...
BeforeAttempt(k) ==
  /\ At(k, "ready")
  /\ lock = NoKey
  /\ IF ~unavailable /\ WithinLimits(books, k)
     THEN /\ books' = Reserved(books, k)
          /\ lock' = k
          /\ GoTo(k, "reserved")
     ELSE \* BudgetExceeded: the receipt is dropped
          /\ SetReceipt(k, "none")
          /\ Enter(k, "settled")
          /\ UNCHANGED lock
  /\ UNCHANGED <<checkpoint, unavailable, stopped, owner, late, provider>>

\* Mistake: the reservation is stored with the next checkpoint.
SendUnstored(k) ==
  /\ At(k, "reserved")
  /\ lock' = NoKey
  /\ GoTo(k, "sent")
  /\ fate' = [fate EXCEPT ![k] = "unknown"]
  /\ sends' = [sends EXCEPT ![k] = @ + 1]
  /\ UNCHANGED <<books, checkpoint, unavailable, stopped, owner, late>>

\* ... and its checkpoint; then the request is sent.
Send(k) ==
  /\ At(k, "reserved")
  /\ Checkpoint(k)
  /\ lock' = NoKey
  /\ GoTo(k, "sent")
  /\ fate' = [fate EXCEPT ![k] = "unknown"]
  /\ sends' = [sends EXCEPT ![k] = @ + 1]
  /\ UNCHANGED <<books, unavailable, stopped, owner, late>>

-----------------------------------------------------------------------------
(* _perform: the attempt ends, if the run lives to see it.                 *)

\* A definitive reply that cannot be used is clear of doubt, even if the
\* provider charged for it: the code repeats it, within its limits.
Answered(k, ending) ==
  /\ fate' = [fate EXCEPT ![k] = CASE ending = "ok" -> "paid"
                                   [] ending = "uncertain" -> "unknown"
                                   [] OTHER -> "clear"]
  /\ sends' = [sends EXCEPT ![k] = IF ending = "unsent" THEN @ - 1 ELSE @]

Reply(k, ending) ==
  /\ At(k, "sent")
  /\ request' = [request EXCEPT ![k] = [@ EXCEPT !.at = "replied", !.ending = ending]]
  /\ Answered(k, ending)
  /\ UNCHANGED <<books, checkpoint, lock, unavailable, stopped, owner, late>>

\* A run that lost the person hears of a request, and cannot store what.
LateReply(k, ending) ==
  /\ late[k] > 0
  /\ late' = [late EXCEPT ![k] = @ - 1]
  /\ Answered(k, ending)
  /\ UNCHANGED <<books, checkpoint, request, lock, unavailable, stopped, owner>>

\* The tokens after a reply: the reservation gives way to what was reported.
Adjusted(b, k, ending, actual) ==
  IF ending \in {"ok", "invalid"} /\ actual > 0
  THEN b.tokens + actual - Reserve[k] ELSE b.tokens

\* Mistake: whatever brought no reply is taken for a request never sent.
AccountedFreely(b, k, ending, actual) ==
  LET unsent == ending \in {"unsent", "uncertain"}
      searched == unsent /\ k \in SearchKey
  IN [llmCalls |-> IF unsent THEN b.llmCalls - 1 ELSE b.llmCalls,
      tokens |-> IF unsent THEN b.tokens - Reserve[k] ELSE Adjusted(b, k, ending, actual),
      searches |-> IF searched THEN b.searches - 1 ELSE b.searches,
      results |-> IF searched THEN b.results - Results[k] ELSE b.results,
      receipt |-> b.receipt]

\* on_usage: a reservation is released only for a request proven unsent, and
\* a definitive failure is recorded with its accounting.
Accounted(b, k, ending, actual) ==
  LET unsent == ending = "unsent"
      searched == unsent /\ k \in SearchKey
  IN [llmCalls |-> IF unsent THEN b.llmCalls - 1 ELSE b.llmCalls,
      tokens |-> IF unsent THEN b.tokens - Reserve[k] ELSE Adjusted(b, k, ending, actual),
      searches |-> IF searched THEN b.searches - 1 ELSE b.searches,
      results |-> IF searched THEN b.results - Results[k] ELSE b.results,
      receipt |-> [b.receipt EXCEPT ![k] =
                     CASE ending = "ok" -> "acknowledged"
                       [] ending \in {"unsent", "busy"} -> "retryable"
                       [] OTHER -> @]]

OnUsage(k, actual) ==
  LET ending == request[k].ending
  IN /\ At(k, "replied")
     /\ lock = NoKey
     /\ lock' = k
     /\ books' = Accounted(books, k, ending, actual)
     /\ unavailable' = (unavailable \/ ending = "denied")
     /\ GoTo(k, "accounted")
     /\ UNCHANGED <<checkpoint, stopped, owner, late, provider>>

StoreUsage(k) ==
  /\ At(k, "accounted")
  /\ Checkpoint(k)
  /\ lock' = NoKey
  /\ GoTo(k, "judged")
  /\ UNCHANGED <<books, unavailable, stopped, owner, late, provider>>

\* Another attempt.
Retry(k) ==
  /\ At(k, "judged")
  /\ request[k].ending \in Repeatable
  /\ request[k].attempt < MaxRetries
  /\ request' = [request EXCEPT ![k] =
                   [at |-> "ready", attempt |-> @.attempt + 1, ending |-> "ok"]]
  /\ UNCHANGED <<books, checkpoint, lock, unavailable, stopped, owner, late, provider>>

\* No other attempt, by the limit or before it (a long Retry-After, a reply
\* cut off at its token limit): the result is kept, or the receipt is dropped
\* unless the request may have been paid for.  A search that searched more
\* than once raises although it was paid for.
Conclude(k) ==
  LET ending == request[k].ending
  IN /\ At(k, "judged")
     /\ CASE ending = "ok" -> \/ SetReceipt(k, "completed")
                              \/ k \in SearchKey /\ UNCHANGED books
          [] ending = "uncertain" -> UNCHANGED books
          [] OTHER -> SetReceipt(k, "none")
     /\ Enter(k, "settled")
     /\ UNCHANGED <<checkpoint, lock, unavailable, stopped, owner, late, provider>>

\* The checkpoint that ends a request.
Settle(k) ==
  /\ At(k, "settled")
  /\ Checkpoint(k)
  /\ Enter(k, IF books.receipt[k] = "completed" THEN "done" ELSE "failed")
  /\ UNCHANGED <<books, lock, unavailable, stopped, owner, late, provider>>

\* Coroutines are cancelled, wherever they wait.  Nothing of their requests is
\* undone, and the call of one that waits for it goes on without it.
Cancelled(keys) ==
  /\ request' = [k \in Key |-> IF k \in keys THEN [Idle EXCEPT !.at = "failed"] ELSE request[k]]
  /\ lock' = IF lock \in keys THEN NoKey ELSE lock
  /\ calls' = [i \in DOMAIN calls |->
                 [calls[i] EXCEPT !.by = IF @ \in keys THEN NoKey ELSE @]]
  /\ UNCHANGED <<books, stored, unavailable, owner, late, provider, order>>

\* The request of a chunk is cancelled: one before it failed, and the window of
\* speculative requests is closed.
Cancel(k) ==
  /\ k \notin SearchKey
  /\ request[k].at \notin {"idle", "done", "failed"}
  /\ Cancelled({k})
  /\ UNCHANGED stopped

\* The run is cancelled.
Stop ==
  /\ ~stopped
  /\ Cancelled(Key)
  /\ stopped' = TRUE

-----------------------------------------------------------------------------
\* The lease lapses or the person is deferred, and another run resumes from
\* the checkpoint.  The old run may still be going; its calls are refused.  (A
\* deferral stores the newest snapshot once more, as if the calls had ended in
\* their order.)
TakeOver ==
  /\ owner < MaxRuns
  /\ owner' = owner + 1
  /\ books' = stored
  /\ calls' = <<>>
  /\ request' = [k \in Key |-> Idle]
  /\ lock' = NoKey
  /\ unavailable' = FALSE
  /\ stopped' = FALSE
  /\ late' = [k \in Key |-> IF At(k, "sent") THEN late[k] + 1 ELSE late[k]]
  /\ overtaken' = FALSE
  /\ misled' = (misled \/ overtaken)
  /\ UNCHANGED <<stored, provider>>

Next ==
  \/ TakeOver
  \/ Stop
  \/ Save
  \/ \E i \in DOMAIN calls : AbandonedCallEnds(i)
  \/ \E k \in Key :
       \/ Start(k) \/ BeforeAttempt(k) \/ Snapshot(k) \/ Send(k)
       \/ \E ending \in Ending : Reply(k, ending) \/ LateReply(k, ending)
       \/ \E actual \in Actual : OnUsage(k, actual)
       \/ StoreUsage(k) \/ Retry(k) \/ Conclude(k) \/ Settle(k)
       \/ Cancel(k)

Spec == Init /\ [][Next]_vars

-----------------------------------------------------------------------------
(* Properties.                                                             *)

\* "Never blindly repeat a request that may already have incurred a charge": no
\* run sends a request that an attempt, of this run or another, brought a result
\* for or never heard of again.  Of the code this is false: a run that resumes
\* from a checkpoint which an abandoned call had stored over a newer one does
\* not know of the last requests.
NoBlindRepeat ==
  [][\A k \in Key : sends'[k] > sends[k] => fate[k] = "clear"]_vars

\* That is the only way: as long as no run has resumed from an overtaken
\* checkpoint nothing is blindly repeated, whichever process died or lost its
\* lease, whichever requests were cancelled, and however late their calls end.
NoBlindRepeatInOrder ==
  [][\A k \in Key : sends'[k] > sends[k] => fate[k] = "clear" \/ misled]_vars

\* The limits of a person hold for everything the provider may have received,
\* over all the runs of the person, not only for what a run remembers, unless a
\* run has resumed from an overtaken checkpoint.
SendsWithinLimits ==
  LET searches == [k \in SearchKey |-> sends[k]]
  IN \/ misled
     \/ /\ Total(sends) <= MaxLlmCalls
        /\ Total(searches) <= MaxSearchCalls
        /\ Total([k \in SearchKey |-> sends[k] * Results[k]]) <= MaxResults

\* Only proven pre-write failures release a reservation: tokens stay reserved
\* for a request whose fate is unknown in the memory of the run that holds the
\* person, and, while no older snapshot has replaced a newer one, in the last
\* checkpoint, so for the run that takes over.
UncertainStaysReserved ==
  LET uncertain == Total([k \in {q \in Key : fate[q] = "unknown"} |-> Reserve[k]])
  IN /\ TypeOK
     /\ misled \/ uncertain <= books.tokens
     /\ misled \/ overtaken \/ uncertain <= stored.tokens
=============================================================================
