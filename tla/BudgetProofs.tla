----------------------------- MODULE BudgetProofs -----------------------------
(***************************************************************************)
(* What is proved of the paid requests of a person, for every number of    *)
(* runs, requests, checkpoints under way and limits.  All of it is claimed *)
(* as long as no run has resumed from an overtaken checkpoint.             *)
(*                                                                         *)
(* ReceiptsInv relates the place of a request to its receipt and its fate. *)
(* BooksInv relates sums: the books in memory cover everything the run is  *)
(* committed to.  Both speak of three sets of books: those in memory, those*)
(* of every snapshot under way that is not old, and, unless overtaken,     *)
(* those of the last checkpoint, which cover everything that was sent, by  *)
(* whichever run.                                                          *)
(***************************************************************************)
EXTENDS Budget, CollectionProofs, SequenceTheorems

-----------------------------------------------------------------------------
(* Books that cover sends and reserved tokens.                             *)

Calls == [k \in Key |-> 1]
Searches == [k \in Key |-> IF k \in SearchKey THEN 1 ELSE 0]
Pages == [k \in Key |-> IF k \in SearchKey THEN Results[k] ELSE 0]

Weighted(w, n) == [k \in Key |-> w[k] * n[k]]

\* n: calls of each key; u: tokens held for each key.
Covers(b, n, u) ==
  /\ Total(Weighted(Calls, n)) <= b.llmCalls
  /\ Total(Weighted(Searches, n)) <= b.searches
  /\ Total(Weighted(Pages, n)) <= b.results
  /\ Total(u) <= b.tokens

SameCounters(b, c) ==
  /\ b.llmCalls = c.llmCalls /\ b.tokens = c.tokens
  /\ b.searches = c.searches /\ b.results = c.results

LEMMA Products ==
  ASSUME NEW a \in Nat, NEW b \in Int, NEW c \in Int, b <= c
  PROVE  a * b <= a * c
OBVIOUS

LEMMA Distribute ==
  ASSUME NEW a \in Nat, NEW b \in Nat, NEW d \in {-1, 0, 1}
  PROVE  a * (b + d) = a * b + d * a
OBVIOUS

\* The weights and the limits are numbers.
LEMMA Numbers ==
  /\ Calls \in [Key -> Nat] /\ Searches \in [Key -> Nat] /\ Pages \in [Key -> Nat]
  /\ Reserve \in [Key -> Nat] /\ IsFiniteSet(Key)
  /\ MaxLlmCalls \in Nat /\ MaxSearchCalls \in Nat /\ MaxResults \in Nat
BY BudgetAssumption DEF Calls, Searches, Pages

LEMMA WeightedType ==
  ASSUME NEW w \in [Key -> Nat], NEW n \in [Key -> Nat]
  PROVE  Weighted(w, n) \in [Key -> Nat] /\ Total(Weighted(w, n)) \in Nat
<1>1. Weighted(w, n) \in [Key -> Nat]
  BY DEF Weighted
<1> QED
  BY <1>1, TotalType, Numbers

LEMMA WeightedGrows ==
  ASSUME NEW w \in [Key -> Nat], NEW m \in [Key -> Nat], NEW n \in [Key -> Nat],
         \A k \in Key : m[k] <= n[k]
  PROVE  Total(Weighted(w, m)) <= Total(Weighted(w, n))
<1>1. \A k \in Key : Weighted(w, m)[k] <= Weighted(w, n)[k]
  <2> TAKE k \in Key
  <2>1. w[k] * m[k] <= w[k] * n[k]
    BY Products
  <2> QED
    BY <2>1 DEF Weighted
<1> QED
  BY <1>1, WeightedType, TotalGrows, Numbers

\* A weighted total changes with one key.
LEMMA WeightedChanges ==
  ASSUME NEW w \in [Key -> Nat], NEW m \in [Key -> Nat], NEW n \in [Key -> Nat],
         NEW k \in Key, NEW d \in {-1, 0, 1}, \A j \in Key \ {k} : m[j] = n[j],
         m[k] <= n[k] + d
  PROVE  Total(Weighted(w, m)) <= Total(Weighted(w, n)) + d * w[k]
<1>1. Weighted(w, m) \in [Key -> Nat] /\ Weighted(w, n) \in [Key -> Nat]
  BY WeightedType
<1>2. \A j \in Key \ {k} : Weighted(w, m)[j] = Weighted(w, n)[j]
  BY DEF Weighted
<1>3. Total(Weighted(w, m)) = Total(Weighted(w, n)) + Weighted(w, m)[k] - Weighted(w, n)[k]
  BY <1>1, <1>2, TotalChanges, Numbers
<1>4. Weighted(w, m)[k] <= Weighted(w, n)[k] + d * w[k]
  <2>1. Weighted(w, m)[k] = w[k] * m[k] /\ Weighted(w, n)[k] = w[k] * n[k]
    BY DEF Weighted
  <2>2. w[k] * m[k] <= w[k] * (n[k] + d)
    BY Products
  <2>3. w[k] * (n[k] + d) = w[k] * n[k] + d * w[k]
    BY Distribute
  <2> QED
    BY <2>1, <2>2, <2>3
<1>5. d * w[k] \in Int /\ Weighted(w, m)[k] \in Nat /\ Weighted(w, n)[k] \in Nat
  BY <1>1
<1>6. Total(Weighted(w, n)) \in Nat
  BY WeightedType
<1> QED
  BY <1>3, <1>4, <1>5, <1>6

\* Books that cover more cover less.
LEMMA CoversLess ==
  ASSUME NEW b \in Books, NEW c \in Books, SameCounters(b, c),
         NEW m \in [Key -> Nat], NEW n \in [Key -> Nat], \A k \in Key : m[k] <= n[k],
         NEW u \in [Key -> Nat], NEW v \in [Key -> Nat], \A k \in Key : v[k] <= u[k],
         Covers(b, n, u)
  PROVE  Covers(c, m, v)
<1>1. /\ Total(Weighted(Calls, m)) <= Total(Weighted(Calls, n))
      /\ Total(Weighted(Searches, m)) <= Total(Weighted(Searches, n))
      /\ Total(Weighted(Pages, m)) <= Total(Weighted(Pages, n))
  BY WeightedGrows, Numbers
<1>2. /\ Total(Weighted(Calls, m)) \in Nat /\ Total(Weighted(Calls, n)) \in Nat
      /\ Total(Weighted(Searches, m)) \in Nat /\ Total(Weighted(Searches, n)) \in Nat
      /\ Total(Weighted(Pages, m)) \in Nat /\ Total(Weighted(Pages, n)) \in Nat
  BY WeightedType, Numbers
<1>3. Total(v) <= Total(u) /\ Total(v) \in Nat /\ Total(u) \in Nat
  BY TotalGrows, TotalType, Numbers
<1> QED
  BY <1>1, <1>2, <1>3 DEF Covers, Books, SameCounters

\* Books that book what one key changes go on covering.
LEMMA CoversChange ==
  ASSUME NEW b \in Books, NEW c \in Books, NEW k \in Key, NEW d \in {-1, 0, 1},
         c.llmCalls = b.llmCalls + d,
         c.searches = b.searches + d * Searches[k],
         c.results = b.results + d * Pages[k],
         NEW m \in [Key -> Nat], NEW n \in [Key -> Nat],
         \A j \in Key \ {k} : m[j] = n[j], m[k] <= n[k] + d,
         NEW u \in [Key -> Nat], NEW v \in [Key -> Nat],
         \A j \in Key \ {k} : v[j] = u[j], v[k] - u[k] <= c.tokens - b.tokens,
         Covers(b, n, u)
  PROVE  Covers(c, m, v)
<1>1. /\ Total(Weighted(Calls, m)) <= Total(Weighted(Calls, n)) + d * Calls[k]
      /\ Total(Weighted(Searches, m)) <= Total(Weighted(Searches, n)) + d * Searches[k]
      /\ Total(Weighted(Pages, m)) <= Total(Weighted(Pages, n)) + d * Pages[k]
  BY WeightedChanges, Numbers
<1>2. /\ Total(Weighted(Calls, m)) \in Nat /\ Total(Weighted(Calls, n)) \in Nat
      /\ Total(Weighted(Searches, m)) \in Nat /\ Total(Weighted(Searches, n)) \in Nat
      /\ Total(Weighted(Pages, m)) \in Nat /\ Total(Weighted(Pages, n)) \in Nat
  BY WeightedType, Numbers
<1>3. Total(v) = Total(u) + v[k] - u[k] /\ Total(v) \in Nat /\ Total(u) \in Nat
  BY TotalChanges, TotalType, Numbers
<1> DEFINE x == d * Searches[k]
           y == d * Pages[k]
<1>4. x \in Int /\ y \in Int /\ d * Calls[k] = d
  BY Numbers DEF Calls
<1>5. /\ Total(Weighted(Searches, m)) <= Total(Weighted(Searches, n)) + x
      /\ Total(Weighted(Pages, m)) <= Total(Weighted(Pages, n)) + y
      /\ c.searches = b.searches + x /\ c.results = b.results + y
  BY <1>1
<1>6. /\ b.llmCalls \in Int /\ b.tokens \in Int /\ b.searches \in Int /\ b.results \in Int
      /\ c.llmCalls \in Int /\ c.tokens \in Int /\ c.searches \in Int /\ c.results \in Int
  BY DEF Books
<1>7. u[k] \in Nat /\ v[k] \in Nat
  OBVIOUS
<1> HIDE DEF x, y
<1> QED
  BY <1>1, <1>2, <1>3, <1>4, <1>5, <1>6, <1>7 DEF Covers

-----------------------------------------------------------------------------
(* The invariants.                                                         *)

InLimits(b) ==
  b.llmCalls <= MaxLlmCalls /\ b.searches <= MaxSearchCalls /\ b.results <= MaxResults

\* Types, the limits of all books, and who waits for a call.
TypeInv ==
  /\ TypeOK
  /\ InLimits(books) /\ InLimits(stored)
  /\ \A i \in DOMAIN calls :
       /\ InLimits(calls[i].books)
       /\ calls[i].by # NoKey => i = Len(calls) /\ request[calls[i].by].at \in Saving

\* Receipts that keep a request from being sent.
Blocking == {"in_flight", "acknowledged", "completed"}

\* The receipts of books that know of every request that cannot be repeated.
Knows(b) == \A k \in Key : fate[k] # "clear" => b.receipt[k] \in Blocking

\* What the place of a request says of its fate, its sends and its receipt.
RequestInv(k) ==
  /\ sends[k] >= 0 /\ late[k] <= 1
  /\ At(k, "sent") \/ late[k] > 0 => fate[k] = "unknown" /\ sends[k] > 0
  /\ At(k, "sent") => late[k] = 0
  /\ request[k].at \in {"ready", "reserved"} => fate[k] = "clear"
  /\ request[k].at \in {"reserved", "sent", "replied"} => books.receipt[k] = "in_flight"
  /\ request[k].at \in {"replied", "accounted", "judged"}
       => /\ request[k].ending # "uncertain" => fate[k] # "unknown"
          /\ request[k].ending \notin {"ok", "uncertain"} => fate[k] = "clear"

\* A snapshot that may still be stored in its turn.
CallKnows(c) ==
  /\ Knows(c.books)
  /\ c.by \in Key /\ At(c.by, "reserved") => c.books.receipt[c.by] = "in_flight"

ReceiptsInv ==
  ~misled =>
    /\ \A k \in Key : RequestInv(k)
    /\ Knows(books)
    /\ overtaken \/ Knows(stored)
    /\ \A i \in DOMAIN calls : calls[i].old \/ CallKnows(calls[i])

\* A request that the books account for, and the provider has not received.
Outstanding(k) ==
  \/ At(k, "reserved")
  \/ At(k, "replied") /\ request[k].ending = "unsent"

Committed == [k \in Key |-> sends[k] + IF Outstanding(k) THEN 1 ELSE 0]

\* Reserved tokens.
Unknown == [k \in Key |-> IF fate[k] = "unknown" THEN Reserve[k] ELSE 0]
Held == [k \in Key |-> IF fate[k] = "unknown" \/ At(k, "reserved") \/ At(k, "replied")
                       THEN Reserve[k] ELSE 0]

\* What will have been sent, and not be known, once a call is stored.
Awaited(c, k) == c.by = k /\ At(k, "reserved")
Promised(c) == [k \in Key |-> sends[k] + IF Awaited(c, k) THEN 1 ELSE 0]
Pledged(c) == [k \in Key |-> IF fate[k] = "unknown" \/ Awaited(c, k) THEN Reserve[k] ELSE 0]

BooksInv ==
  ~misled =>
    /\ Covers(books, Committed, Held)
    /\ overtaken \/ Covers(stored, sends, Unknown)
    /\ \A i \in DOMAIN calls :
         calls[i].old \/ Covers(calls[i].books, Promised(calls[i]), Pledged(calls[i]))

BudgetInv == TypeInv /\ ReceiptsInv /\ BooksInv

-----------------------------------------------------------------------------
(* The steps.                                                              *)

\* Of one request, in memory and at the provider; those a checkpoint ends.
Quiet(k) ==
  \/ Start(k) \/ BeforeAttempt(k)
  \/ \E ending \in Ending : Reply(k, ending) \/ LateReply(k, ending)
  \/ \E actual \in Actual : OnUsage(k, actual)
  \/ Retry(k) \/ Conclude(k)
Stores(k) == Send(k) \/ StoreUsage(k) \/ Settle(k)

LEMMA NextSteps ==
  ASSUME Next
  PROVE  \/ \E k \in Key : Quiet(k) \/ Stores(k) \/ Snapshot(k)
         \/ \E i \in DOMAIN calls : AbandonedCallEnds(i)
         \/ Save \/ TakeOver
         \/ \E keys \in SUBSET Key : Cancelled(keys)
<1>1. ASSUME NEW k \in Key, Cancel(k)
      PROVE  \E keys \in SUBSET Key : Cancelled(keys)
  BY <1>1 DEF Cancel
<1>2. Stop => \E keys \in SUBSET Key : Cancelled(keys)
  BY DEF Stop
<1> QED
  BY <1>1, <1>2 DEF Next, Quiet, Stores

LEMMA BooksTyped ==
  ASSUME NEW b \in Books, NEW k \in Key
  PROVE  /\ Reserved(b, k) \in Books
         /\ \A j \in Key \ {k} : Reserved(b, k).receipt[j] = b.receipt[j]
         /\ Reserved(b, k).receipt[k] = "in_flight"
         /\ \A ending \in Ending, actual \in Actual :
              /\ Accounted(b, k, ending, actual) \in Books
              /\ \A j \in Key \ {k} : Accounted(b, k, ending, actual).receipt[j] = b.receipt[j]
<1> USE BudgetAssumption DEF Books
<1>1. Reserved(b, k) \in Books /\ Reserved(b, k).receipt = [b.receipt EXCEPT ![k] = "in_flight"]
  BY DEF Reserved, Receipt
<1>2. b.receipt \in [Key -> Receipt]
  OBVIOUS
<1>3. ASSUME NEW ending \in Ending, NEW actual \in Actual
      PROVE  /\ Accounted(b, k, ending, actual) \in Books
             /\ \A j \in Key \ {k} : Accounted(b, k, ending, actual).receipt[j] = b.receipt[j]
  <2>1. Adjusted(b, k, ending, actual) \in Int
    BY DEF Adjusted
  <2>2. Accounted(b, k, ending, actual) \in Books
    BY <2>1 DEF Accounted, Receipt
  <2>3. \E state \in Receipt :
          Accounted(b, k, ending, actual).receipt = [b.receipt EXCEPT ![k] = state]
    BY <1>2 DEF Accounted, Receipt
  <2> QED
    BY <1>2, <2>2, <2>3
<1> QED
  BY <1>1, <1>2, <1>3

\* What an update of the request or of its receipt does.
LEMMA Effects ==
  ASSUME TypeOK, NEW k \in Key
  PROVE  /\ \A place \in Place : GoTo(k, place) \/ Enter(k, place) =>
              /\ request' \in [Key -> Request] /\ request'[k].at = place
              /\ \A j \in Key \ {k} : request'[j] = request[j]
         /\ \A place : GoTo(k, place) => request'[k].ending = request[k].ending
         /\ \A place : Enter(k, place) => request'[k].ending = "ok"
         /\ \A state \in Receipt : SetReceipt(k, state) =>
              /\ books' \in Books /\ SameCounters(books, books')
              /\ books'.receipt = [books.receipt EXCEPT ![k] = state]
<1>1. request \in [Key -> Request] /\ request[k] \in Request /\ books \in Books
  BY DEF TypeOK
<1>2. \A q \in Request :
        /\ [request EXCEPT ![k] = q] \in [Key -> Request]
        /\ [request EXCEPT ![k] = q][k] = q
        /\ \A j \in Key \ {k} : [request EXCEPT ![k] = q][j] = request[j]
  BY <1>1
<1>3. ASSUME NEW place \in Place
      PROVE  /\ [request[k] EXCEPT !.at = place] \in Request
             /\ [at |-> place, attempt |-> 0, ending |-> "ok"] \in Request
  BY <1>1, BudgetAssumption DEF Request, Ending
<1>4. \A place \in Place : GoTo(k, place) \/ Enter(k, place) =>
              /\ request' \in [Key -> Request] /\ request'[k].at = place
              /\ \A j \in Key \ {k} : request'[j] = request[j]
  <2> TAKE place \in Place
  <2>1. CASE GoTo(k, place)
    <3>1. request' = [request EXCEPT ![k] = [request[k] EXCEPT !.at = place]]
      BY <2>1 DEF GoTo
    <3>2. [request[k] EXCEPT !.at = place].at = place
      BY <1>1 DEF Request
    <3> QED
      BY <1>2, <1>3, <3>1, <3>2
  <2>2. CASE Enter(k, place)
    BY <1>2, <1>3, <2>2 DEF Enter
  <2> QED
    BY <2>1, <2>2
<1>5. /\ \A place : GoTo(k, place) => request'[k].ending = request[k].ending
      /\ \A place : Enter(k, place) => request'[k].ending = "ok"
  BY <1>1 DEF GoTo, Enter, Request
<1>6. \A state \in Receipt : SetReceipt(k, state) =>
        /\ books' \in Books /\ SameCounters(books, books')
        /\ books'.receipt = [books.receipt EXCEPT ![k] = state]
  BY <1>1 DEF SetReceipt, Books, SameCounters
<1> QED
  BY <1>4, <1>5, <1>6

\* A quiet step changes one request, its fate and its receipt, and no request
\* that waits for a checkpoint.
LEMMA QuietFrame ==
  ASSUME TypeOK, NEW k \in Key, Quiet(k)
  PROVE  /\ UNCHANGED <<checkpoint, owner>>
         /\ books' \in Books /\ request' \in [Key -> Request] /\ late' \in [Key -> Nat]
         /\ fate' \in [Key -> {"clear", "unknown", "paid"}] /\ sends' \in [Key -> Int]
         /\ lock' \in Key \cup {NoKey} /\ unavailable' \in BOOLEAN /\ stopped' \in BOOLEAN
         /\ \A j \in Key \ {k} : /\ request'[j] = request[j] /\ late'[j] = late[j]
                                 /\ fate'[j] = fate[j] /\ sends'[j] = sends[j]
                                 /\ books'.receipt[j] = books.receipt[j]
         /\ request[k].at \in Saving => request' = request
<1>0. request \in [Key -> Request] /\ request[k] \in Request /\ books \in Books
  BY DEF TypeOK
<1>s. ASSUME NEW state \in Receipt, SetReceipt(k, state)
      PROVE  books' \in Books /\ \A j \in Key \ {k} : books'.receipt[j] = books.receipt[j]
  <2>1. books.receipt \in [Key -> Receipt]
    BY <1>0 DEF Books
  <2> QED
    BY <1>s, <2>1, Effects
<1> USE <1>0 DEF TypeOK, Saving
<1>1. CASE Start(k)
  <2>1. UNCHANGED books \/ SetReceipt(k, "in_flight")
    BY <1>1 DEF Start
  <2>2. Enter(k, "done") \/ Enter(k, "failed") \/ Enter(k, "ready")
    BY <1>1 DEF Start
  <2>3. /\ books' \in Books /\ \A j \in Key \ {k} : books'.receipt[j] = books.receipt[j]
    BY <1>s, <2>1 DEF Receipt
  <2>4. request' \in [Key -> Request] /\ \A j \in Key \ {k} : request'[j] = request[j]
    BY <2>2, Effects DEF Place
  <2> QED
    BY <1>1, <2>3, <2>4 DEF Start, checkpoint, order, provider
<1>2. CASE BeforeAttempt(k)
  <2>1. \/ books' = Reserved(books, k) /\ GoTo(k, "reserved")
        \/ SetReceipt(k, "none") /\ Enter(k, "settled")
    BY <1>2 DEF BeforeAttempt
  <2>2. Reserved(books, k) \in Books
        /\ \A j \in Key \ {k} : Reserved(books, k).receipt[j] = books.receipt[j]
    BY BooksTyped
  <2>3. /\ books' \in Books /\ \A j \in Key \ {k} : books'.receipt[j] = books.receipt[j]
    BY <1>s, <2>1, <2>2 DEF Receipt
  <2>4. request' \in [Key -> Request] /\ \A j \in Key \ {k} : request'[j] = request[j]
    BY <2>1, Effects DEF Place
  <2> QED
    BY <1>2, <2>3, <2>4 DEF BeforeAttempt, At, checkpoint, order, provider
<1>3. ASSUME NEW e \in Ending, Answered(k, e)
      PROVE  /\ fate' \in [Key -> {"clear", "unknown", "paid"}] /\ sends' \in [Key -> Int]
             /\ \A j \in Key \ {k} : fate'[j] = fate[j] /\ sends'[j] = sends[j]
  BY <1>3 DEF Answered
<1>4. ASSUME NEW e \in Ending, Reply(k, e)
      PROVE  request' \in [Key -> Request] /\ \A j \in Key \ {k} : request'[j] = request[j]
  <2>1. [request[k] EXCEPT !.at = "replied", !.ending = e] \in Request
    BY DEF Request, Place
  <2> QED
    BY <1>4, <2>1 DEF Reply
<1>5. CASE \E e \in Ending : Reply(k, e)
  BY <1>3, <1>4, <1>5 DEF Reply, At, checkpoint, order
<1>6. ASSUME NEW e \in Ending, LateReply(k, e)
      PROVE  late' \in [Key -> Nat] /\ \A j \in Key \ {k} : late'[j] = late[j]
  BY <1>6 DEF LateReply
<1>7. CASE \E e \in Ending : LateReply(k, e)
  BY <1>3, <1>6, <1>7 DEF LateReply, checkpoint, order
<1>8. ASSUME NEW actual \in Actual, OnUsage(k, actual)
      PROVE  /\ books' \in Books
             /\ \A j \in Key \ {k} : books'.receipt[j] = books.receipt[j]
             /\ request' \in [Key -> Request] /\ \A j \in Key \ {k} : request'[j] = request[j]
  <2>1. \A e \in Ending, a \in Actual :
          /\ Accounted(books, k, e, a) \in Books
          /\ \A j \in Key \ {k} : Accounted(books, k, e, a).receipt[j] = books.receipt[j]
    BY BooksTyped
  <2>2. books' = Accounted(books, k, request[k].ending, actual) /\ request[k].ending \in Ending
    BY <1>8 DEF OnUsage, Request
  <2>3. books' \in Books /\ \A j \in Key \ {k} : books'.receipt[j] = books.receipt[j]
    BY <2>1, <2>2
  <2> QED
    BY <1>8, <2>3, Effects DEF OnUsage, Place
<1>9. CASE \E actual \in Actual : OnUsage(k, actual)
  BY <1>8, <1>9 DEF OnUsage, At, checkpoint, order, provider
<1>10. CASE Retry(k)
  <2>1. [at |-> "ready", attempt |-> request[k].attempt + 1, ending |-> "ok"] \in Request
    BY <1>10, BudgetAssumption DEF Retry, Request, Place, Ending
  <2> QED
    BY <1>10, <2>1 DEF Retry, At, checkpoint, order, provider
<1>11. CASE Conclude(k)
  <2>1. UNCHANGED books \/ SetReceipt(k, "completed") \/ SetReceipt(k, "none")
    BY <1>11 DEF Conclude
  <2>2. /\ books' \in Books /\ \A j \in Key \ {k} : books'.receipt[j] = books.receipt[j]
    BY <1>s, <2>1 DEF Receipt
  <2>3. request' \in [Key -> Request] /\ \A j \in Key \ {k} : request'[j] = request[j]
    BY <1>11, Effects DEF Conclude, Place
  <2> QED
    BY <1>11, <2>2, <2>3 DEF Conclude, At, checkpoint, order, provider
<1> QED
  BY <1>1, <1>2, <1>5, <1>7, <1>9, <1>10, <1>11 DEF Quiet

-----------------------------------------------------------------------------
(* The calls.                                                              *)

\* A call that has not ended: what it is about stays, and it may lose who waits
\* for it and grow old.
Remains(d, c) == d.books = c.books /\ d.by \in {c.by, NoKey} /\ (c.old => d.old)

LEMMA CallsTyped ==
  ASSUME TypeOK
  PROVE  /\ Len(calls) \in Nat /\ DOMAIN calls = 1 .. Len(calls)
         /\ \A i \in DOMAIN calls : /\ calls[i] \in Call /\ calls[i].books \in Books
                                    /\ calls[i].by \in Key \cup {NoKey} /\ calls[i].old \in BOOLEAN
<1>1. Len(calls) \in Nat /\ DOMAIN calls = 1 .. Len(calls) /\ calls \in [1 .. Len(calls) -> Call]
  BY LenProperties DEF TypeOK
<1> QED
  BY <1>1 DEF Call

\* Every call whose place is taken by one that has not ended is typed.
LEMMA CallsMapped ==
  ASSUME NEW n \in Nat, NEW f, f = [i \in 1 .. n |-> f[i]], \A i \in 1 .. n : f[i] \in Call
  PROVE  f \in Seq(Call) /\ Len(f) = n /\ DOMAIN f = 1 .. n
<1>1. f \in [1 .. n -> Call]
  BY Zenon
<1>2. f \in Seq(Call)
  BY <1>1, SeqDef
<1> QED
  BY <1>1, <1>2, LenProperties

\* When a call ends the others remain, in their order.
LEMMA CallEnds ==
  ASSUME TypeOK, NEW i \in DOMAIN calls, calls' = WithoutCall(i) \/ calls' = StoredCall(i)
  PROVE  /\ calls' \in Seq(Call) /\ Len(calls') = Len(calls) - 1
         /\ \A j \in DOMAIN calls' :
              LET o == IF j < i THEN j ELSE j + 1
              IN  o \in DOMAIN calls /\ calls'[j].by = calls[o].by /\ Remains(calls'[j], calls[o])
         /\ calls' = StoredCall(i) => \A j \in DOMAIN calls' : j < i => calls'[j].old
<1> DEFINE n == Len(calls) - 1
           from(j) == IF j < i THEN j ELSE j + 1
<1>1. /\ n \in Nat /\ DOMAIN calls = 1 .. n + 1 /\ i \in 1 .. n + 1
      /\ \A j \in 1 .. n + 1 : calls[j] \in Call
  BY CallsTyped
<1>2. \A j \in 1 .. n : from(j) \in 1 .. n + 1
  BY <1>1
<1>3. /\ calls' = [j \in 1 .. n |-> calls'[j]]
      /\ \A j \in 1 .. n : /\ calls'[j] \in Call /\ calls'[j].by = calls[from(j)].by
                           /\ Remains(calls'[j], calls[from(j)])
      /\ calls' = StoredCall(i) => \A j \in 1 .. n : j < i => calls'[j].old
  <2> HIDE DEF n
  <2>1. CASE calls' = WithoutCall(i)
    <3>1. calls' = [j \in 1 .. n |-> calls[from(j)]]
      BY <2>1 DEF WithoutCall, n
    <3>2. \A j \in 1 .. n : Remains(calls[from(j)], calls[from(j)])
      BY DEF Remains
    <3>3. calls' = StoredCall(i) => \A j \in 1 .. n : j < i => calls'[j].old
      <4>1. ASSUME calls' = StoredCall(i), NEW j \in 1 .. n, j < i
            PROVE  calls'[j].old
        <5>1. calls'[j] = [calls[j] EXCEPT !.old = TRUE] /\ calls[j] \in Call
          BY <1>1, <4>1 DEF StoredCall, n
        <5> QED
          BY <5>1 DEF Call
      <4> QED
        BY <4>1
    <3> QED
      BY <1>1, <1>2, <3>1, <3>2, <3>3
  <2>2. CASE calls' = StoredCall(i)
    <3>1. calls' = [j \in 1 .. n |-> IF j < i THEN [calls[j] EXCEPT !.old = TRUE] ELSE calls[j + 1]]
      BY <2>2 DEF StoredCall, n
    <3>2. \A c \in Call : LET d == [c EXCEPT !.old = TRUE]
                          IN  d \in Call /\ d.by = c.by /\ d.old /\ Remains(d, c)
      BY DEF Call, Remains
    <3>3. \A c \in Call : Remains(c, c)
      BY DEF Remains
    <3> QED
      BY <1>1, <1>2, <3>1, <3>2, <3>3
  <2> QED
    BY <2>1, <2>2
<1>4. calls' \in Seq(Call) /\ Len(calls') = n /\ DOMAIN calls' = 1 .. n
  BY <1>1, <1>3, CallsMapped
<1> QED
  BY <1>1, <1>2, <1>3, <1>4

\* A request waits for one call at most, the newest, as long as it is cancelled
\* or stays where it is.
LEMMA WaitsOn ==
  ASSUME TypeInv, NEW f \in Seq(Call), Len(f) \in {Len(calls), Len(calls) - 1},
         NEW q, NEW gone \in SUBSET Key,
         \A j \in Key \ gone : q[j] = request[j],
         \A j \in DOMAIN f : f[j].by \notin gone
         /\ \E o \in DOMAIN calls : /\ o = j \/ o = j + Len(calls) - Len(f)
                                    /\ f[j].by \in {calls[o].by, NoKey}
  PROVE  \A j \in DOMAIN f : f[j].by # NoKey => j = Len(f) /\ q[f[j].by].at \in Saving
<1>1. /\ TypeOK /\ Len(calls) \in Nat /\ DOMAIN calls = 1 .. Len(calls)
      /\ Len(f) \in Nat /\ DOMAIN f = 1 .. Len(f)
  BY CallsTyped, LenProperties DEF TypeInv
<1> TAKE j \in DOMAIN f
<1> HAVE f[j].by # NoKey
<1>2. PICK o \in DOMAIN calls : (o = j \/ o = j + Len(calls) - Len(f)) /\ f[j].by = calls[o].by
  OBVIOUS
<1>3. o = Len(calls) /\ request[calls[o].by].at \in Saving
  BY <1>2 DEF TypeInv
<1>4. j = Len(f)
  <2> DEFINE l == Len(calls)
             m == Len(f)
  <2>1. j \in 1 .. m /\ o = l /\ l \in Nat /\ m \in Nat
    BY <1>1, <1>3
  <2>2. m = l \/ m = l - 1
    OBVIOUS
  <2>3. o = j \/ o = j + l - m
    BY <1>2
  <2> HIDE DEF l, m
  <2>4. j = m
    BY <2>1, <2>2, <2>3
  <2> QED
    BY <2>4 DEF m
<1>5. calls[o].by \in Key
  BY <1>1, <1>2, CallsTyped
<1> QED
  BY <1>2, <1>3, <1>4, <1>5

\* The steps of the calls.  A checkpoint stores the newest snapshot: the others
\* are old, and nothing waits for them.
LEMMA StoresCalls ==
  ASSUME TypeInv, NEW k \in Key, Stores(k)
  PROVE  /\ calls' \in Seq(Call) /\ UNCHANGED <<books, misled>>
         /\ \A j \in DOMAIN calls' : calls'[j].by = NoKey /\ calls'[j].old
         /\ \A j \in DOMAIN calls' : \E o \in DOMAIN calls : Remains(calls'[j], calls[o])
         /\ \E o \in DOMAIN calls : /\ calls[o].by = k
                                    /\ stored' = calls[o].books /\ overtaken' = calls[o].old
<1> DEFINE n == Len(calls)
<1>1. TypeOK /\ n \in Nat /\ DOMAIN calls = 1 .. n
  BY CallsTyped DEF TypeInv
<1>2. /\ Checkpoint(k) /\ UNCHANGED <<books, misled>>
  BY DEF Stores, Send, StoreUsage, Settle, Checkpoint, Store
<1>3. /\ n \in DOMAIN calls /\ calls[n].by = k /\ calls' = StoredCall(n)
      /\ stored' = calls[n].books /\ overtaken' = calls[n].old
  <2>1. calls # <<>>
    BY <1>2 DEF Checkpoint
  <2>2. n # 0
    BY <1>1, <2>1, EmptySeq DEF TypeOK
  <2> QED
    BY <1>1, <1>2, <2>2 DEF Checkpoint, Store
<1>4. calls' \in Seq(Call) /\ DOMAIN calls' = 1 .. n - 1
  BY <1>1, <1>3, CallEnds, LenProperties
<1>5. ASSUME NEW j \in DOMAIN calls'
      PROVE  /\ calls'[j].by = NoKey /\ calls'[j].old
             /\ \E o \in DOMAIN calls : Remains(calls'[j], calls[o])
  <2>1. j < n /\ j \in DOMAIN calls
    BY <1>1, <1>4
  <2>2. calls'[j].by = calls[j].by /\ Remains(calls'[j], calls[j]) /\ calls'[j].old
    BY <1>1, <1>3, <2>1, CallEnds
  <2>3. calls[j].by = NoKey
    BY <1>1, <2>1 DEF TypeInv
  <2> QED
    BY <2>1, <2>2, <2>3
<1> QED
  BY <1>2, <1>3, <1>4, <1>5

LEMMA SnapshotCalls ==
  ASSUME TypeInv, NEW k \in Key, Snapshot(k)
  PROVE  /\ calls' \in Seq(Call) /\ Len(calls') = Len(calls) + 1
         /\ \A j \in DOMAIN calls : calls'[j] = calls[j] /\ calls[j].by = NoKey
         /\ calls'[Len(calls')] = [books |-> books, by |-> k, old |-> FALSE]
         /\ DOMAIN calls' = DOMAIN calls \cup {Len(calls')}
         /\ \A j \in DOMAIN calls' : j # Len(calls') => j \in DOMAIN calls
<1> DEFINE c == [books |-> books, by |-> k, old |-> FALSE]
<1>1. TypeOK /\ Len(calls) \in Nat /\ DOMAIN calls = 1 .. Len(calls) /\ calls \in Seq(Call)
  BY CallsTyped DEF TypeInv, TypeOK
<1>2. c \in Call
  BY <1>1 DEF TypeOK, Call
<1>3. calls' = Append(calls, c) /\ \A j \in DOMAIN calls : calls[j].by = NoKey
  BY DEF Snapshot, CheckpointLockFree
<1> HIDE DEF c
<1>4. /\ calls' \in Seq(Call) /\ Len(calls') = Len(calls) + 1
      /\ \A j \in 1 .. Len(calls) : calls'[j] = calls[j]
      /\ calls'[Len(calls) + 1] = c
  BY <1>1, <1>2, <1>3, AppendProperties
<1>5. DOMAIN calls' = 1 .. Len(calls')
  BY <1>4, LenProperties
<1> QED
  BY <1>1, <1>3, <1>4, <1>5 DEF c

LEMMA AbandonedCalls ==
  ASSUME TypeInv, NEW i \in DOMAIN calls, AbandonedCallEnds(i)
  PROVE  /\ calls' \in Seq(Call)
         /\ \A j \in DOMAIN calls' : \E o \in DOMAIN calls : Remains(calls'[j], calls[o])
         /\ \A j \in DOMAIN calls' : calls'[j].by # NoKey =>
              j = Len(calls') /\ request[calls'[j].by].at \in Saving
         /\ \/ stored' = calls[i].books /\ overtaken' = calls[i].old
            \/ UNCHANGED <<stored, overtaken>>
<1>1. TypeOK /\ Len(calls) \in Nat /\ DOMAIN calls = 1 .. Len(calls)
  BY CallsTyped DEF TypeInv
<1>2. /\ calls' = WithoutCall(i) \/ calls' = StoredCall(i)
      /\ \/ stored' = calls[i].books /\ overtaken' = calls[i].old
         \/ UNCHANGED <<stored, overtaken>>
  BY DEF AbandonedCallEnds, Store, order
<1>3. /\ calls' \in Seq(Call) /\ Len(calls') = Len(calls) - 1
      /\ \A j \in DOMAIN calls' : \E o \in DOMAIN calls :
           /\ o = j \/ o = j + Len(calls) - Len(calls')
           /\ calls'[j].by = calls[o].by /\ Remains(calls'[j], calls[o])
  <2>1. calls' \in Seq(Call) /\ Len(calls') = Len(calls) - 1
    BY <1>1, <1>2, CallEnds
  <2>2. Len(calls') \in Nat /\ DOMAIN calls' = 1 .. Len(calls')
    BY <2>1, LenProperties
  <2>3. ASSUME NEW j \in DOMAIN calls'
        PROVE  \E o \in DOMAIN calls :
                 /\ o = j \/ o = j + Len(calls) - Len(calls')
                 /\ calls'[j].by = calls[o].by /\ Remains(calls'[j], calls[o])
    <3> DEFINE o == IF j < i THEN j ELSE j + 1
    <3>1. o \in DOMAIN calls /\ calls'[j].by = calls[o].by /\ Remains(calls'[j], calls[o])
      BY <1>1, <1>2, CallEnds
    <3>2. o = j \/ o = j + Len(calls) - Len(calls')
      BY <1>1, <2>1, <2>2
    <3> HIDE DEF o
    <3> QED
      BY <3>1, <3>2
  <2> QED
    BY <2>1, <2>3
<1>4. \A j \in DOMAIN calls' : calls'[j].by # NoKey =>
        j = Len(calls') /\ request[calls'[j].by].at \in Saving
  <2>1. \A j \in DOMAIN calls' :
          /\ calls'[j].by \notin {}
          /\ \E o \in DOMAIN calls : /\ o = j \/ o = j + Len(calls) - Len(calls')
                                     /\ calls'[j].by \in {calls[o].by, NoKey}
    BY <1>3
  <2>2. \A j \in Key \ {} : request[j] = request[j]
    OBVIOUS
  <2>3. {} \in SUBSET Key /\ Len(calls') \in {Len(calls), Len(calls) - 1}
    BY <1>3
  <2> HIDE DEF Remains
  <2> QED
    BY <1>3, <2>1, <2>2, <2>3, WaitsOn
<1> QED
  BY <1>2, <1>3, <1>4

LEMMA SaveCalls ==
  ASSUME TypeInv, Save
  PROVE  /\ calls' \in Seq(Call)
         /\ \A j \in DOMAIN calls' : calls'[j].by = NoKey /\ calls'[j].old
         /\ \A j \in DOMAIN calls' : \E o \in DOMAIN calls : Remains(calls'[j], calls[o])
<1>1. TypeOK /\ Len(calls) \in Nat /\ DOMAIN calls = 1 .. Len(calls)
      /\ \A i \in DOMAIN calls : calls[i] \in Call /\ calls[i].by = NoKey
  BY CallsTyped DEF TypeInv, Save, CheckpointLockFree
<1>2. \A c \in Call : LET d == [c EXCEPT !.old = TRUE]
                      IN  d \in Call /\ d.by = c.by /\ d.old /\ Remains(d, c)
  BY DEF Call, Remains
<1>3. calls' = [i \in 1 .. Len(calls) |-> [calls[i] EXCEPT !.old = TRUE]]
  BY <1>1 DEF Save
<1>4. \A i \in 1 .. Len(calls) : /\ calls'[i] \in Call /\ calls'[i].by = NoKey /\ calls'[i].old
                                 /\ Remains(calls'[i], calls[i])
  BY <1>1, <1>2, <1>3
<1>5. calls' = [i \in 1 .. Len(calls) |-> calls'[i]]
  BY <1>3
<1>6. calls' \in Seq(Call) /\ DOMAIN calls' = 1 .. Len(calls)
  BY <1>1, <1>4, <1>5, CallsMapped
<1> QED
  BY <1>1, <1>4, <1>6

LEMMA CancelledCalls ==
  ASSUME TypeInv, NEW keys \in SUBSET Key, Cancelled(keys)
  PROVE  /\ calls' \in Seq(Call) /\ request' \in [Key -> Request]
         /\ \A k \in keys : request'[k] = [Idle EXCEPT !.at = "failed"] /\ request'[k].at = "failed"
         /\ \A k \in Key \ keys : request'[k] = request[k]
         /\ \A j \in DOMAIN calls' : calls'[j].by \notin keys
         /\ \A j \in DOMAIN calls' : \E o \in DOMAIN calls : Remains(calls'[j], calls[o])
         /\ \A j \in DOMAIN calls' : calls'[j].by # NoKey =>
              j = Len(calls') /\ request'[calls'[j].by].at \in Saving
<1>1. TypeOK /\ Len(calls) \in Nat /\ DOMAIN calls = 1 .. Len(calls)
      /\ \A i \in DOMAIN calls : calls[i] \in Call
  BY CallsTyped DEF TypeInv
<1>2. NoKey \notin keys
  BY BudgetAssumption
<1>3. \A c \in Call : LET d == [c EXCEPT !.by = IF @ \in keys THEN NoKey ELSE @]
                      IN  d \in Call /\ d.by \notin keys /\ d.by \in {c.by, NoKey} /\ Remains(d, c)
  BY <1>2 DEF Call, Remains
<1>4. calls' = [i \in 1 .. Len(calls) |->
                  [calls[i] EXCEPT !.by = IF @ \in keys THEN NoKey ELSE @]]
  BY <1>1 DEF Cancelled
<1>5. \A i \in 1 .. Len(calls) : /\ calls'[i] \in Call /\ calls'[i].by \notin keys
                                 /\ calls'[i].by \in {calls[i].by, NoKey}
                                 /\ Remains(calls'[i], calls[i])
  BY <1>1, <1>3, <1>4
<1>6. calls' = [i \in 1 .. Len(calls) |-> calls'[i]]
  BY <1>4
<1>7. calls' \in Seq(Call) /\ DOMAIN calls' = 1 .. Len(calls) /\ Len(calls') = Len(calls)
  BY <1>1, <1>5, <1>6, CallsMapped
<1>8. /\ request' \in [Key -> Request]
      /\ \A k \in keys : request'[k] = [Idle EXCEPT !.at = "failed"] /\ request'[k].at = "failed"
      /\ \A k \in Key \ keys : request'[k] = request[k]
  <2>1. [Idle EXCEPT !.at = "failed"] \in Request /\ [Idle EXCEPT !.at = "failed"].at = "failed"
    BY BudgetAssumption DEF Idle, Request, Place, Ending
  <2> QED
    BY <1>1, <2>1 DEF Cancelled, TypeOK
<1>9. \A j \in DOMAIN calls' : calls'[j].by # NoKey =>
        j = Len(calls') /\ request'[calls'[j].by].at \in Saving
  <2>1. \A j \in DOMAIN calls' :
          /\ calls'[j].by \notin keys
          /\ \E o \in DOMAIN calls : /\ o = j \/ o = j + Len(calls) - Len(calls')
                                     /\ calls'[j].by \in {calls[o].by, NoKey}
    BY <1>1, <1>5, <1>7
  <2>2. Len(calls') \in {Len(calls), Len(calls) - 1}
    BY <1>7
  <2> QED
    BY <1>7, <1>8, <2>1, <2>2, WaitsOn
<1> QED
  BY <1>1, <1>5, <1>7, <1>8, <1>9

-----------------------------------------------------------------------------
(* Type correctness.                                                       *)

LEMMA LimitsStep ==
  ASSUME TypeOK, InLimits(books), NEW k \in Key, Quiet(k)
  PROVE  InLimits(books')
<1>1. /\ books \in Books /\ request[k] \in Request
      /\ books.llmCalls \in Int /\ books.searches \in Int /\ books.results \in Int
  BY DEF TypeOK, Books
<1>2. CASE UNCHANGED books
  BY <1>2
<1>3. CASE \E state \in Receipt : SetReceipt(k, state)
  BY <1>3, Effects DEF SameCounters, InLimits
<1>4. CASE books' = Reserved(books, k) /\ WithinLimits(books, k)
  BY <1>1, <1>4, BudgetAssumption DEF Reserved, WithinLimits, InLimits
<1>5. ASSUME NEW actual \in Actual, OnUsage(k, actual)
      PROVE  InLimits(books')
  <2>1. books' = Accounted(books, k, request[k].ending, actual)
    BY <1>5 DEF OnUsage
  <2> QED
    BY <1>1, <2>1, BudgetAssumption DEF Accounted, InLimits
<1>6. CASE Start(k) \/ Conclude(k)
  <2>1. UNCHANGED books \/ \E state \in Receipt : SetReceipt(k, state)
    BY <1>6 DEF Start, Conclude, Receipt
  <2> QED
    BY <1>2, <1>3, <2>1
<1>7. CASE BeforeAttempt(k)
  <2>1. \/ books' = Reserved(books, k) /\ WithinLimits(books, k)
        \/ \E state \in Receipt : SetReceipt(k, state)
    BY <1>7 DEF BeforeAttempt, Receipt
  <2> QED
    BY <1>3, <1>4, <2>1
<1>8. \/ Start(k) \/ Conclude(k) \/ BeforeAttempt(k)
      \/ \E actual \in Actual : OnUsage(k, actual)
      \/ UNCHANGED books
  BY DEF Quiet, Reply, LateReply, Retry
<1> QED
  BY <1>2, <1>5, <1>6, <1>7, <1>8

\* The snapshots under way are typed and within the limits.
LEMMA SnapshotsLimited ==
  ASSUME TypeInv,
         \A j \in DOMAIN calls' : \/ \E o \in DOMAIN calls : Remains(calls'[j], calls[o])
                                  \/ calls'[j].books = books
  PROVE  \A j \in DOMAIN calls' : InLimits(calls'[j].books)
BY DEF TypeInv, Remains

LEMMA QuietTyped ==
  ASSUME TypeInv, NEW k \in Key, Quiet(k)
  PROVE  TypeInv'
<1>1. TypeOK /\ TypeOK'
  BY QuietFrame DEF TypeInv, TypeOK, checkpoint, order
<1>2. UNCHANGED <<calls, stored>> /\ InLimits(books')
  BY <1>1, QuietFrame, LimitsStep DEF TypeInv, checkpoint
<1>3. ASSUME NEW i \in DOMAIN calls, calls[i].by # NoKey
      PROVE  request'[calls[i].by] = request[calls[i].by]
  <2>1. calls[i].by \in Key /\ request[calls[i].by].at \in Saving
    BY <1>1, <1>3, CallsTyped DEF TypeInv
  <2> QED
    BY <1>1, <2>1, QuietFrame
<1>4. \A i \in DOMAIN calls : /\ InLimits(calls[i].books)
                              /\ calls[i].by # NoKey => i = Len(calls) /\ request'[calls[i].by].at \in Saving
  BY <1>3 DEF TypeInv
<1>5. InLimits(stored)
  BY DEF TypeInv
<1> QED
  BY <1>1, <1>2, <1>4, <1>5 DEF TypeInv, InLimits

LEMMA StoresTyped ==
  ASSUME TypeInv, NEW k \in Key, Stores(k)
  PROVE  TypeInv'
<1>1. TypeOK
  BY DEF TypeInv
<1>2. request' \in [Key -> Request]
  BY <1>1, Effects DEF Stores, Send, StoreUsage, Settle, Place
<1>3. PICK o \in DOMAIN calls : stored' = calls[o].books /\ overtaken' = calls[o].old
  BY StoresCalls
<1>4. /\ calls' \in Seq(Call) /\ stored' \in Books /\ overtaken' \in BOOLEAN
      /\ UNCHANGED <<books, misled>> /\ InLimits(stored')
  BY <1>1, <1>3, StoresCalls, CallsTyped DEF TypeInv
<1>5. TypeOK'
  <2>1. /\ lock' \in Key \cup {NoKey} /\ UNCHANGED <<unavailable, stopped, owner, late>>
        /\ fate' \in [Key -> {"clear", "unknown", "paid"}] /\ sends' \in [Key -> Int]
    BY <1>1 DEF Stores, Send, StoreUsage, Settle, provider, TypeOK
  <2> QED
    BY <1>1, <1>2, <1>4, <2>1 DEF TypeOK
<1>6. \A j \in DOMAIN calls' : calls'[j].by = NoKey /\ InLimits(calls'[j].books)
  BY StoresCalls, SnapshotsLimited
<1>7. InLimits(books)
  BY DEF TypeInv
<1> QED
  BY <1>4, <1>5, <1>6, <1>7 DEF TypeInv, InLimits

LEMMA SnapshotTyped ==
  ASSUME TypeInv, NEW k \in Key, Snapshot(k)
  PROVE  TypeInv'
<1>1. TypeOK /\ request[k].at \in Saving
      /\ UNCHANGED <<books, stored, request, lock, unavailable, stopped, owner, late, fate, sends, overtaken, misled>>
  BY DEF TypeInv, Snapshot, provider, order
<1>2. TypeOK'
  BY <1>1, SnapshotCalls DEF TypeOK
<1>3. ASSUME NEW j \in DOMAIN calls'
      PROVE  /\ InLimits(calls'[j].books)
             /\ calls'[j].by # NoKey => j = Len(calls') /\ request[calls'[j].by].at \in Saving
  <2>1. CASE j = Len(calls')
    BY <1>1, <2>1, SnapshotCalls DEF TypeInv
  <2>2. CASE j # Len(calls')
    BY <2>2, SnapshotCalls DEF TypeInv
  <2> QED
    BY <2>1, <2>2
<1>4. InLimits(books) /\ InLimits(stored)
  BY DEF TypeInv
<1> QED
  BY <1>1, <1>2, <1>3, <1>4 DEF TypeInv, InLimits

LEMMA AbandonedTyped ==
  ASSUME TypeInv, NEW i \in DOMAIN calls, AbandonedCallEnds(i)
  PROVE  TypeInv'
<1>1. TypeOK /\ UNCHANGED <<books, request, lock, unavailable, stopped, owner, late, fate, sends, misled>>
  BY DEF TypeInv, AbandonedCallEnds, Store, provider, order
<1>2. stored' \in Books /\ overtaken' \in BOOLEAN /\ InLimits(stored')
  <2>1. CASE UNCHANGED <<stored, overtaken>>
    BY <1>1, <2>1 DEF TypeInv, TypeOK
  <2>2. CASE stored' = calls[i].books /\ overtaken' = calls[i].old
    BY <1>1, <2>2, CallsTyped DEF TypeInv
  <2> QED
    BY <2>1, <2>2, AbandonedCalls
<1>3. TypeOK'
  BY <1>1, <1>2, AbandonedCalls DEF TypeOK
<1>4. \A j \in DOMAIN calls' :
        /\ InLimits(calls'[j].books)
        /\ calls'[j].by # NoKey => j = Len(calls') /\ request[calls'[j].by].at \in Saving
  BY AbandonedCalls, SnapshotsLimited
<1>5. InLimits(books)
  BY DEF TypeInv
<1> QED
  BY <1>1, <1>2, <1>3, <1>4, <1>5 DEF TypeInv, InLimits

LEMMA SaveTyped ==
  ASSUME TypeInv, Save
  PROVE  TypeInv'
<1>1. TypeOK /\ InLimits(books) /\ stored' = books /\ overtaken' = FALSE
      /\ UNCHANGED <<books, request, lock, unavailable, stopped, owner, late, fate, sends, misled>>
  BY DEF TypeInv, Save, provider
<1>2. TypeOK'
  BY <1>1, SaveCalls DEF TypeOK
<1>3. \A j \in DOMAIN calls' : calls'[j].by = NoKey /\ InLimits(calls'[j].books)
  BY SaveCalls, SnapshotsLimited
<1> QED
  BY <1>1, <1>2, <1>3 DEF TypeInv, InLimits

LEMMA CancelledTyped ==
  ASSUME TypeInv, NEW keys \in SUBSET Key, Cancelled(keys), stopped' \in BOOLEAN
  PROVE  TypeInv'
<1>1. TypeOK /\ UNCHANGED <<books, stored, unavailable, owner, late, fate, sends, overtaken, misled>>
  BY DEF TypeInv, Cancelled, provider, order
<1>2. lock' \in Key \cup {NoKey}
  BY <1>1 DEF Cancelled, TypeOK
<1>3. TypeOK'
  BY <1>1, <1>2, CancelledCalls DEF TypeOK
<1>4. \A j \in DOMAIN calls' :
        /\ InLimits(calls'[j].books)
        /\ calls'[j].by # NoKey => j = Len(calls') /\ request'[calls'[j].by].at \in Saving
  BY CancelledCalls, SnapshotsLimited
<1>5. InLimits(books) /\ InLimits(stored)
  BY DEF TypeInv
<1> QED
  BY <1>1, <1>3, <1>4, <1>5 DEF TypeInv, InLimits

LEMMA TakeOverTyped ==
  ASSUME TypeInv, TakeOver
  PROVE  TypeInv'
<1>1. TypeOK /\ InLimits(stored) /\ UNCHANGED <<stored, fate, sends>> /\ books' = stored
  BY DEF TypeInv, TakeOver, provider
<1>2. calls' = <<>> /\ calls' \in Seq(Call) /\ DOMAIN calls' = {}
  <2>1. calls' = <<>>
    BY DEF TakeOver
  <2>2. <<>> \in Seq(Call)
    BY EmptySeq
  <2>3. Len(<<>>) = 0
    BY EmptySeq
  <2> QED
    BY <2>1, <2>2, <2>3, LenProperties
<1>3. TypeOK'
  <2>1. Idle \in Request
    BY BudgetAssumption DEF Idle, Request, Place, Ending
  <2>2. owner + 1 \in Run
    BY <1>1, BudgetAssumption DEF TakeOver, TypeOK, Run
  <2>3. late' \in [Key -> Nat]
    BY <1>1 DEF TakeOver, TypeOK
  <2> QED
    BY <1>1, <1>2, <2>1, <2>2, <2>3 DEF TakeOver, TypeOK
<1> QED
  BY <1>1, <1>2, <1>3 DEF TypeInv, InLimits

LEMMA TypeStep == TypeInv /\ [Next]_vars => TypeInv'
<1> SUFFICES ASSUME TypeInv, [Next]_vars
             PROVE  TypeInv'
  OBVIOUS
<1>1. CASE Next
  <2>1. ASSUME NEW keys \in SUBSET Key, Cancelled(keys)
        PROVE  (stopped' \in BOOLEAN => TypeInv')
    BY <2>1, CancelledTyped
  <2>2. ASSUME NEW k \in Key, Cancel(k)
        PROVE  stopped' \in BOOLEAN /\ Cancelled({k}) /\ {k} \in SUBSET Key
    BY <2>2 DEF Cancel, TypeInv, TypeOK
  <2>3. Stop => stopped' \in BOOLEAN /\ Cancelled(Key) /\ Key \in SUBSET Key
    BY DEF Stop
  <2>4. \/ \E k \in Key : Quiet(k) \/ Stores(k) \/ Snapshot(k) \/ Cancel(k)
        \/ \E i \in DOMAIN calls : AbandonedCallEnds(i)
        \/ Save \/ TakeOver \/ Stop
    BY <1>1 DEF Next, Quiet, Stores
  <2> QED
    BY <2>1, <2>2, <2>3, <2>4, QuietTyped, StoresTyped, SnapshotTyped, AbandonedTyped, SaveTyped,
       TakeOverTyped
<1>2. CASE UNCHANGED vars
  BY <1>2 DEF vars, checkpoint, order, provider, TypeInv, TypeOK, InLimits, Saving
<1> QED
  BY <1>1, <1>2

LEMMA InitTyped == Init => TypeInv
<1> SUFFICES ASSUME Init
             PROVE  TypeInv
  OBVIOUS
<1>1. NewBooks \in Books /\ InLimits(NewBooks)
  BY BudgetAssumption DEF NewBooks, Books, Receipt, InLimits
<1>2. Idle \in Request /\ 1 \in Run
  BY BudgetAssumption DEF Idle, Request, Place, Ending, Run
<1>3. <<>> \in Seq(Call) /\ DOMAIN <<>> = {}
  <2>1. <<>> \in Seq(Call) /\ Len(<<>>) = 0
    BY EmptySeq
  <2> QED
    BY <2>1, LenProperties
<1>4. /\ request \in [Key -> Request] /\ late \in [Key -> Nat] /\ sends \in [Key -> Int]
      /\ fate \in [Key -> {"clear", "unknown", "paid"}]
  BY <1>2 DEF Init
<1>5. TypeOK
  BY <1>1, <1>2, <1>3, <1>4 DEF Init, TypeOK
<1>6. calls = <<>> /\ books = NewBooks /\ stored = NewBooks
  BY DEF Init
<1>7. DOMAIN calls = {}
  BY <1>3, <1>6
<1> QED
  BY <1>1, <1>5, <1>6, <1>7 DEF TypeInv


-----------------------------------------------------------------------------
(* The receipts.                                                           *)

\* A request that a step leaves alone.
LEMMA LeftAlone ==
  ASSUME NEW j, RequestInv(j),
         request'[j] = request[j], late'[j] = late[j], fate'[j] = fate[j], sends'[j] = sends[j],
         books'.receipt[j] = books.receipt[j]
  PROVE  RequestInv(j)'
BY DEF RequestInv, At

\* What a quiet step makes of its own request: no doubt about it begins, and
\* its receipt goes on blocking what may have been paid for.
LEMMA OwnRequest ==
  ASSUME TypeOK, NEW k \in Key, Quiet(k), RequestInv(k), Knows(books)
  PROVE  /\ RequestInv(k)'
         /\ fate'[k] # "clear" => books'.receipt[k] \in Blocking /\ fate[k] # "clear"
         /\ fate'[k] = "unknown" => fate[k] = "unknown"
         /\ sends'[k] <= sends[k]
<1>0. /\ request \in [Key -> Request] /\ request[k] \in Request /\ books \in Books
      /\ books.receipt \in [Key -> Receipt] /\ sends[k] \in Int /\ late[k] \in Nat
      /\ fate[k] \in {"clear", "unknown", "paid"}
      /\ (fate[k] # "clear" => books.receipt[k] \in Blocking)
  BY DEF TypeOK, Books, Knows
<1> USE <1>0
<1>1. CASE Start(k)
  <2>1. UNCHANGED <<fate, sends, late>>
    BY <1>1 DEF Start, provider
  <2>2. CASE Enter(k, "ready") /\ SetReceipt(k, "in_flight")
             /\ books.receipt[k] \notin Blocking
    <3>1. request'[k].at = "ready" /\ books'.receipt[k] = "in_flight"
      BY <2>2, Effects DEF Place, Receipt
    <3> QED
      BY <2>1, <2>2, <3>1 DEF RequestInv, At, Blocking
  <2>3. CASE (Enter(k, "done") \/ Enter(k, "failed")) /\ UNCHANGED books
    <3>1. request'[k].at \in {"done", "failed"}
      BY <2>3, Effects DEF Place
    <3> QED
      BY <2>1, <2>3, <3>1 DEF RequestInv, At
  <2> QED
    BY <1>1, <2>2, <2>3 DEF Start, Blocking
<1>2. CASE BeforeAttempt(k)
  <2>1. UNCHANGED <<fate, sends, late>> /\ fate[k] = "clear"
    BY <1>2 DEF BeforeAttempt, provider, RequestInv, At
  <2>2. CASE books' = Reserved(books, k) /\ GoTo(k, "reserved")
    <3>1. request'[k].at = "reserved" /\ books'.receipt[k] = "in_flight"
      BY <2>2, Effects, BooksTyped DEF Place
    <3> QED
      BY <2>1, <3>1 DEF RequestInv, At
  <2>3. CASE SetReceipt(k, "none") /\ Enter(k, "settled")
    <3>1. request'[k].at = "settled"
      BY <2>3, Effects DEF Place
    <3> QED
      BY <2>1, <3>1 DEF RequestInv, At
  <2> QED
    BY <1>2, <2>2, <2>3 DEF BeforeAttempt
<1>3. ASSUME NEW e \in Ending, Answered(k, e)
      PROVE  /\ fate'[k] = CASE e = "ok" -> "paid" [] e = "uncertain" -> "unknown"
                             [] OTHER -> "clear"
             /\ sends'[k] = IF e = "unsent" THEN sends[k] - 1 ELSE sends[k]
  BY <1>3 DEF Answered, TypeOK
<1>4. ASSUME NEW e \in Ending, Reply(k, e)
      PROVE  /\ RequestInv(k)' /\ books' = books /\ fate[k] = "unknown" /\ sends'[k] <= sends[k]
  <2>1. /\ request'[k].at = "replied" /\ request'[k].ending = e
        /\ UNCHANGED <<books, late>> /\ Answered(k, e)
    BY <1>4 DEF Reply, Request
  <2>2. /\ fate[k] = "unknown" /\ sends[k] > 0 /\ late[k] = 0
        /\ books.receipt[k] = "in_flight"
    BY <1>4 DEF Reply, RequestInv, At
  <2> QED
    BY <1>3, <2>1, <2>2 DEF RequestInv, At
<1>5. ASSUME NEW e \in Ending, LateReply(k, e)
      PROVE  /\ RequestInv(k)' /\ books' = books /\ fate[k] = "unknown" /\ sends'[k] <= sends[k]
  <2>1. /\ late'[k] = late[k] - 1 /\ late[k] > 0 /\ Answered(k, e)
        /\ UNCHANGED <<books, request>>
    BY <1>5 DEF LateReply, TypeOK
  <2>2. /\ fate[k] = "unknown" /\ sends[k] > 0 /\ late[k] = 1 /\ ~At(k, "sent")
        /\ request[k].at \notin {"ready", "reserved"}
        /\ request[k].at \in {"replied", "accounted", "judged"} => request[k].ending = "uncertain"
    BY <2>1 DEF RequestInv, At
  <2> QED
    BY <1>3, <2>1, <2>2 DEF RequestInv, At
<1>6. ASSUME NEW actual \in Actual, OnUsage(k, actual)
      PROVE  /\ RequestInv(k)' /\ UNCHANGED <<fate, sends>>
             /\ fate'[k] # "clear" => books'.receipt[k] \in Blocking
  <2>1. /\ UNCHANGED <<fate, sends, late>> /\ request'[k].at = "accounted"
        /\ request'[k].ending = request[k].ending
        /\ books' = Accounted(books, k, request[k].ending, actual)
    BY <1>6, Effects DEF OnUsage, provider, Place
  <2>2. /\ At(k, "replied") /\ books.receipt[k] = "in_flight"
        /\ request[k].ending \in {"unsent", "busy"} => fate[k] = "clear"
    BY <1>6 DEF OnUsage, RequestInv, At
  <2>3. books'.receipt[k] = CASE request[k].ending = "ok" -> "acknowledged"
                              [] request[k].ending \in {"unsent", "busy"} -> "retryable"
                              [] OTHER -> books.receipt[k]
    BY <2>1 DEF Accounted
  <2>4. fate'[k] # "clear" => books'.receipt[k] \in Blocking
    BY <2>1, <2>2, <2>3 DEF Blocking
  <2>5. RequestInv(k)'
    BY <2>1, <2>2 DEF RequestInv, At
  <2> QED
    BY <2>1, <2>4, <2>5
<1>7. CASE Retry(k)
  <2>1. request'[k].at = "ready" /\ request'[k].ending = "ok" /\ UNCHANGED <<books, late, fate, sends>>
    BY <1>7 DEF Retry, provider
  <2>2. fate[k] = "clear"
    BY <1>7 DEF Retry, RequestInv, At, Repeatable
  <2> QED
    BY <2>1, <2>2 DEF RequestInv, At
<1>8. CASE Conclude(k)
  <2>1. request'[k].at = "settled" /\ UNCHANGED <<late, fate, sends>>
    BY <1>8, Effects DEF Conclude, provider, Place
  <2>2. \/ UNCHANGED books
        \/ SetReceipt(k, "completed")
        \/ SetReceipt(k, "none") /\ request[k].ending \notin {"ok", "uncertain"}
    BY <1>8 DEF Conclude
  <2>3. request[k].ending \notin {"ok", "uncertain"} => fate[k] = "clear"
    BY <1>8 DEF Conclude, RequestInv, At
  <2>4. SetReceipt(k, "completed") => books'.receipt[k] = "completed"
    BY Effects DEF Receipt
  <2>5. fate'[k] # "clear" => books'.receipt[k] \in Blocking
    BY <2>1, <2>2, <2>3, <2>4 DEF Blocking
  <2>6. RequestInv(k)'
    BY <2>1 DEF RequestInv, At
  <2> QED
    BY <2>1, <2>5, <2>6
<1> QED
  BY <1>1, <1>2, <1>4, <1>5, <1>6, <1>7, <1>8 DEF Quiet

LEMMA QuietReceipts ==
  ASSUME TypeInv, ReceiptsInv, NEW k \in Key, Quiet(k)
  PROVE  ReceiptsInv'
<1>0. TypeOK /\ UNCHANGED <<stored, calls, overtaken, misled>>
  BY QuietFrame DEF TypeInv, checkpoint, order
<1> SUFFICES ASSUME ~misled
             PROVE  /\ \A j \in Key : RequestInv(j)'
                    /\ Knows(books)'
                    /\ overtaken \/ Knows(stored)'
                    /\ \A i \in DOMAIN calls : calls[i].old \/ CallKnows(calls[i])'
  BY <1>0 DEF ReceiptsInv, CallKnows, Knows, At
<1>1. /\ \A j \in Key : RequestInv(j)
      /\ Knows(books) /\ (overtaken \/ Knows(stored))
      /\ \A i \in DOMAIN calls : calls[i].old \/ CallKnows(calls[i])
  BY DEF ReceiptsInv
<1>2. /\ RequestInv(k)'
      /\ fate'[k] # "clear" => books'.receipt[k] \in Blocking /\ fate[k] # "clear"
  BY <1>0, <1>1, OwnRequest
<1>3. ASSUME NEW j \in Key
      PROVE  /\ RequestInv(j)' /\ (fate'[j] # "clear" => fate[j] # "clear")
             /\ (fate'[j] # "clear" => books'.receipt[j] \in Blocking)
  <2>1. CASE j = k
    BY <1>2, <2>1
  <2>2. CASE j # k
    <3>1. /\ request'[j] = request[j] /\ late'[j] = late[j]
          /\ fate'[j] = fate[j] /\ sends'[j] = sends[j]
          /\ books'.receipt[j] = books.receipt[j]
      BY <1>0, <2>2, QuietFrame
    <3> QED
      BY <1>1, <3>1, LeftAlone DEF Knows
  <2> QED
    BY <2>1, <2>2
<1>4. Knows(books)' /\ (overtaken \/ Knows(stored)')
  BY <1>0, <1>1, <1>3 DEF Knows
<1>5. ASSUME NEW i \in DOMAIN calls, ~calls[i].old
      PROVE  CallKnows(calls[i])'
  <2>1. Remains(calls[i], calls[i]) /\ CallKnows(calls[i])
    BY <1>1, <1>5 DEF Remains
  <2>2. ASSUME calls[i].by \in Key
        PROVE  request'[calls[i].by] = request[calls[i].by]
    <3>1. request[calls[i].by].at \in Saving
      BY <2>2, BudgetAssumption DEF TypeInv
    <3> QED
      BY <1>0, <2>2, <3>1, QuietFrame
  <2>3. CallKnows(calls[i]) /\ (\A j \in Key : fate'[j] # "clear" => fate[j] # "clear")
        /\ (calls[i].by \in Key => request'[calls[i].by] = request[calls[i].by])
    BY <1>3, <2>1, <2>2
  <2>4. calls' = calls
    BY <1>0
  <2> QED
    BY <2>3, <2>4 DEF CallKnows, Knows, At
<1> QED
  BY <1>3, <1>4, <1>5

LEMMA StoresReceipts ==
  ASSUME TypeInv, ReceiptsInv, NEW k \in Key, Stores(k)
  PROVE  ReceiptsInv'
<1>0. TypeOK /\ UNCHANGED <<books, misled>>
      /\ \A j \in DOMAIN calls' : calls'[j].old
  BY StoresCalls DEF TypeInv
<1>1. PICK o \in DOMAIN calls :
        calls[o].by = k /\ stored' = calls[o].books /\ overtaken' = calls[o].old
  BY StoresCalls
<1> SUFFICES ASSUME ~misled
             PROVE  /\ \A j \in Key : RequestInv(j)'
                    /\ Knows(books)' /\ (overtaken' \/ Knows(stored)')
  BY <1>0 DEF ReceiptsInv
<1>2. /\ \A j \in Key : RequestInv(j)
      /\ Knows(books) /\ (overtaken' \/ CallKnows(calls[o]))
  BY <1>1 DEF ReceiptsInv
<1>3. request[k] \in Request /\ sends[k] \in Int /\ late[k] \in Nat
  BY <1>0 DEF TypeOK
<1>4. ASSUME NEW j \in Key, j # k
      PROVE  RequestInv(j)' /\ fate'[j] = fate[j]
  <2>1. /\ request'[j] = request[j] /\ late'[j] = late[j]
        /\ fate'[j] = fate[j] /\ sends'[j] = sends[j]
        /\ books'.receipt[j] = books.receipt[j]
    <3>1. request'[j] = request[j]
      BY <1>0, <1>4, Effects DEF Stores, Send, StoreUsage, Settle, Place
    <3>2. /\ late'[j] = late[j] /\ fate'[j] = fate[j] /\ sends'[j] = sends[j]
      BY <1>0, <1>4 DEF Stores, Send, StoreUsage, Settle, provider, TypeOK
    <3> QED
      BY <1>0, <3>1, <3>2
  <2> QED
    BY <1>2, <2>1, LeftAlone
<1>5. CASE Send(k)
  <2>1. At(k, "reserved") /\ late[k] = 0 /\ books.receipt[k] = "in_flight"
    BY <1>2, <1>3, <1>5 DEF Send, RequestInv, At
  <2>2. /\ request'[k].at = "sent" /\ late'[k] = late[k]
        /\ fate'[k] = "unknown" /\ sends'[k] = sends[k] + 1
    BY <1>0, <1>5, Effects DEF Send, TypeOK, Place
  <2>3. RequestInv(k)'
    BY <1>0, <1>2, <1>3, <2>1, <2>2 DEF RequestInv, At
  <2>4. CallKnows(calls[o]) => calls[o].books.receipt[k] = "in_flight"
    BY <1>1, <2>1 DEF CallKnows
  <2>5. Knows(books)'
    BY <1>0, <1>2, <1>4, <2>1 DEF Knows, Blocking
  <2>6. CallKnows(calls[o]) => Knows(stored)'
    BY <1>1, <1>4, <2>4 DEF Knows, Blocking, CallKnows
  <2> QED
    BY <1>2, <1>4, <2>3, <2>5, <2>6
<1>6. CASE StoreUsage(k) \/ Settle(k)
  <2>1. UNCHANGED <<fate, sends, late>>
    BY <1>6 DEF StoreUsage, Settle, provider
  <2>2. /\ request'[k].at \in {"judged", "done", "failed"}
        /\ request'[k].at = "judged" => At(k, "accounted") /\ request'[k].ending = request[k].ending
    BY <1>0, <1>6, Effects DEF StoreUsage, Settle, Place
  <2>3. RequestInv(k)'
    BY <1>2, <2>1, <2>2 DEF RequestInv, At
  <2>4. Knows(books)' /\ (CallKnows(calls[o]) => Knows(stored)')
    BY <1>0, <1>1, <1>2, <2>1 DEF Knows, CallKnows
  <2> QED
    BY <1>2, <1>4, <2>3, <2>4
<1> QED
  BY <1>5, <1>6 DEF Stores

LEMMA SnapshotReceipts ==
  ASSUME TypeInv, ReceiptsInv, NEW k \in Key, Snapshot(k)
  PROVE  ReceiptsInv'
<1>1. UNCHANGED <<books, stored, request, late, fate, sends, overtaken, misled>>
  BY DEF Snapshot, provider, order
<1> SUFFICES ASSUME ~misled
             PROVE  /\ \A j \in Key : RequestInv(j)'
                    /\ Knows(books)' /\ (overtaken \/ Knows(stored)')
                    /\ \A i \in DOMAIN calls' : calls'[i].old \/ CallKnows(calls[i])'
  BY <1>1 DEF ReceiptsInv
<1>2. /\ \A j \in Key : RequestInv(j)
      /\ Knows(books) /\ (overtaken \/ Knows(stored))
      /\ \A i \in DOMAIN calls : calls[i].old \/ CallKnows(calls[i])
  BY DEF ReceiptsInv
<1>3. \A j \in Key : RequestInv(j)'
  BY <1>1, <1>2 DEF RequestInv, At
<1>4. Knows(books)' /\ (overtaken \/ Knows(stored)')
  BY <1>1, <1>2 DEF Knows
<1>5. ASSUME NEW i \in DOMAIN calls', ~calls'[i].old
      PROVE  CallKnows(calls[i])'
  <2>1. CASE i = Len(calls')
    <3>1. calls'[i].books = books /\ calls'[i].by = k
      BY <2>1, SnapshotCalls
    <3>2. At(k, "reserved") => books.receipt[k] = "in_flight"
      BY <1>2 DEF RequestInv, At
    <3> QED
      BY <1>1, <1>2, <3>1, <3>2 DEF CallKnows, Knows, At
  <2>2. CASE i # Len(calls')
    <3>1. i \in DOMAIN calls /\ calls'[i] = calls[i]
      BY <2>2, SnapshotCalls
    <3>2. CallKnows(calls[i])
      BY <1>2, <1>5, <3>1
    <3> QED
      BY <1>1, <3>1, <3>2 DEF CallKnows, Knows, At
  <2> QED
    BY <2>1, <2>2
<1> QED
  BY <1>3, <1>4, <1>5

\* A step that changes no request but those it cancels, nothing at the provider
\* and not the books; what it stores knows all.
LEMMA CallsReceipts ==
  ASSUME ReceiptsInv, TypeInv, UNCHANGED <<books, late, fate, sends>>, misled' = misled,
         \A j \in Key : request'[j] = request[j] \/ request'[j].at = "failed",
         \/ UNCHANGED <<stored, overtaken>>
         \/ stored' = books
         \/ \E o \in DOMAIN calls : stored' = calls[o].books /\ overtaken' = calls[o].old,
         \A j \in DOMAIN calls' : \E o \in DOMAIN calls : Remains(calls'[j], calls[o])
  PROVE  ReceiptsInv'
<1> SUFFICES ASSUME ~misled
             PROVE  /\ \A j \in Key : RequestInv(j)'
                    /\ Knows(books)' /\ (overtaken' \/ Knows(stored)')
                    /\ \A i \in DOMAIN calls' : calls'[i].old \/ CallKnows(calls[i])'
  BY DEF ReceiptsInv
<1>1. /\ \A j \in Key : RequestInv(j)
      /\ Knows(books) /\ (overtaken \/ Knows(stored))
      /\ \A i \in DOMAIN calls : calls[i].old \/ CallKnows(calls[i])
  BY DEF ReceiptsInv
<1>2. ASSUME NEW j \in Key
      PROVE  RequestInv(j)'
  <2>1. CASE request'[j] = request[j]
    BY <1>1, <2>1, LeftAlone
  <2>2. CASE request'[j].at = "failed"
    BY <1>1, <2>2 DEF RequestInv, At
  <2> QED
    BY <2>1, <2>2
<1>3. Knows(books)' /\ (overtaken' \/ Knows(stored)')
  BY <1>1 DEF Knows, CallKnows
<1>4. ASSUME NEW i \in DOMAIN calls', ~calls'[i].old
      PROVE  CallKnows(calls[i])'
  <2>1. PICK o \in DOMAIN calls : Remains(calls'[i], calls[o])
    OBVIOUS
  <2>2. CallKnows(calls[o])
    BY <1>1, <1>4, <2>1 DEF Remains
  <2>3. /\ calls'[i].books = calls[o].books
        /\ calls'[i].by \in Key => calls'[i].by = calls[o].by
    BY <2>1, BudgetAssumption DEF Remains
  <2>4. \A j \in Key : request'[j].at = "reserved" => request[j].at = "reserved"
    OBVIOUS
  <2> QED
    BY <2>2, <2>3, <2>4 DEF CallKnows, Knows, At
<1> QED
  BY <1>2, <1>3, <1>4

LEMMA TakeOverReceipts ==
  ASSUME TypeInv, ReceiptsInv, TakeOver
  PROVE  ReceiptsInv'
<1> SUFFICES ASSUME ~misled'
             PROVE  /\ \A j \in Key : RequestInv(j)'
                    /\ Knows(books)' /\ Knows(stored)' /\ DOMAIN calls' = {}
  BY DEF ReceiptsInv
<1>1. /\ UNCHANGED <<stored, fate, sends>> /\ books' = stored
      /\ ~misled /\ ~overtaken
  BY DEF TakeOver, provider
<1>2. (\A j \in Key : RequestInv(j)) /\ Knows(stored)
  BY <1>1 DEF ReceiptsInv
<1>3. ASSUME NEW j \in Key
      PROVE  RequestInv(j)'
  <2>1. request'[j] = Idle /\ late'[j] = IF At(j, "sent") THEN late[j] + 1 ELSE late[j]
    BY DEF TakeOver
  <2>2. late[j] \in Nat
    BY DEF TypeInv, TypeOK
  <2> QED
    BY <1>1, <1>2, <2>1, <2>2 DEF RequestInv, At, Idle
<1>4. DOMAIN calls' = {}
  <2>1. calls' = <<>> /\ Len(<<>>) = 0 /\ <<>> \in Seq(Call)
    BY EmptySeq DEF TakeOver
  <2> QED
    BY <2>1, LenProperties
<1> QED
  BY <1>1, <1>2, <1>3, <1>4 DEF Knows

LEMMA ReceiptsStep == TypeInv /\ ReceiptsInv /\ [Next]_vars => ReceiptsInv'
<1> SUFFICES ASSUME TypeInv, ReceiptsInv, [Next]_vars
             PROVE  ReceiptsInv'
  OBVIOUS
<1>1. ASSUME NEW i \in DOMAIN calls, AbandonedCallEnds(i)
      PROVE  ReceiptsInv'
  <2>1. UNCHANGED <<books, late, fate, sends, request, misled>>
    BY <1>1 DEF AbandonedCallEnds, Store, provider, order
  <2>2. /\ \A j \in DOMAIN calls' : \E o \in DOMAIN calls : Remains(calls'[j], calls[o])
        /\ \/ UNCHANGED <<stored, overtaken>>
           \/ \E o \in DOMAIN calls : stored' = calls[o].books /\ overtaken' = calls[o].old
    BY <1>1, AbandonedCalls
  <2> HIDE DEF Remains
  <2> QED
    BY <2>1, <2>2, CallsReceipts
<1>2. ASSUME Save
      PROVE  ReceiptsInv'
  <2>1. UNCHANGED <<books, late, fate, sends, request, misled>> /\ stored' = books
    BY <1>2 DEF Save, provider
  <2>2. \A j \in DOMAIN calls' : \E o \in DOMAIN calls : Remains(calls'[j], calls[o])
    BY <1>2, SaveCalls
  <2> QED
    BY <2>1, <2>2, CallsReceipts
<1>3. ASSUME NEW keys \in SUBSET Key, Cancelled(keys)
      PROVE  ReceiptsInv'
  <2>1. UNCHANGED <<books, late, fate, sends, stored, overtaken, misled>>
    BY <1>3 DEF Cancelled, provider, order
  <2>2. /\ \A j \in DOMAIN calls' : \E o \in DOMAIN calls : Remains(calls'[j], calls[o])
        /\ \A j \in Key : request'[j] = request[j] \/ request'[j].at = "failed"
    BY <1>3, CancelledCalls
  <2> QED
    BY <2>1, <2>2, CallsReceipts
<1>4. CASE UNCHANGED vars
  <2>1. UNCHANGED <<books, late, fate, sends, request, stored, overtaken, calls, misled>>
    BY <1>4 DEF vars, checkpoint, order, provider
  <2>2. \A j \in DOMAIN calls' : Remains(calls'[j], calls[j])
    BY <2>1 DEF Remains
  <2> QED
    BY <2>1, <2>2, CallsReceipts
<1> QED
  BY <1>1, <1>2, <1>3, <1>4, NextSteps, QuietReceipts, StoresReceipts, SnapshotReceipts,
     TakeOverReceipts

-----------------------------------------------------------------------------
(* The books.                                                              *)

LEMMA BooksNumbers ==
  TypeInv /\ ReceiptsInv /\ ~misled =>
    /\ sends \in [Key -> Nat] /\ Committed \in [Key -> Nat]
    /\ Unknown \in [Key -> Nat] /\ Held \in [Key -> Nat]
    /\ \A i \in DOMAIN calls : Promised(calls[i]) \in [Key -> Nat] /\ Pledged(calls[i]) \in [Key -> Nat]
    /\ books \in Books /\ stored \in Books /\ \A i \in DOMAIN calls : calls[i].books \in Books
<1> SUFFICES ASSUME TypeInv, ReceiptsInv, ~misled
             PROVE  /\ sends \in [Key -> Nat] /\ Committed \in [Key -> Nat]
                    /\ Unknown \in [Key -> Nat] /\ Held \in [Key -> Nat]
                    /\ \A i \in DOMAIN calls : /\ Promised(calls[i]) \in [Key -> Nat]
                                               /\ Pledged(calls[i]) \in [Key -> Nat]
                    /\ books \in Books /\ stored \in Books
                    /\ \A i \in DOMAIN calls : calls[i].books \in Books
  OBVIOUS
<1>1. sends \in [Key -> Nat]
  BY DEF TypeInv, TypeOK, ReceiptsInv, RequestInv
<1>2. Committed \in [Key -> Nat]
  BY <1>1 DEF Committed
<1>3. Unknown \in [Key -> Nat] /\ Held \in [Key -> Nat]
  BY BudgetAssumption DEF Unknown, Held
<1>4. \A i \in DOMAIN calls : Promised(calls[i]) \in [Key -> Nat] /\ Pledged(calls[i]) \in [Key -> Nat]
  BY <1>1, BudgetAssumption DEF Promised, Pledged
<1>5. books \in Books /\ stored \in Books /\ \A i \in DOMAIN calls : calls[i].books \in Books
  BY CallsTyped DEF TypeInv, TypeOK
<1> QED
  BY <1>1, <1>2, <1>3, <1>4, <1>5

\* What a quiet step books is what it commits to and holds.
LEMMA OwnBooks ==
  ASSUME TypeInv, ReceiptsInv, ~misled, NEW k \in Key, Quiet(k)
  PROVE  \E d \in {-1, 0, 1} :
           /\ books'.llmCalls = books.llmCalls + d
           /\ books'.searches = books.searches + d * Searches[k]
           /\ books'.results = books.results + d * Pages[k]
           /\ Committed'[k] <= Committed[k] + d
           /\ Held'[k] - Held[k] <= books'.tokens - books.tokens
<1>0. /\ TypeOK /\ request \in [Key -> Request] /\ request[k] \in Request /\ RequestInv(k)
      /\ sends[k] \in Int /\ Reserve[k] \in Nat /\ Actual \subseteq Nat
      /\ books.llmCalls \in Int /\ books.tokens \in Int /\ books.searches \in Int
      /\ books.results \in Int /\ Searches[k] \in Nat /\ Pages[k] \in Nat
  BY BudgetAssumption, Numbers DEF TypeInv, TypeOK, ReceiptsInv, Books
<1>1. /\ Committed[k] = sends[k] + IF Outstanding(k) THEN 1 ELSE 0
      /\ Committed'[k] = sends'[k] + IF Outstanding(k)' THEN 1 ELSE 0
      /\ Held[k] = IF fate[k] = "unknown" \/ At(k, "reserved") \/ At(k, "replied")
                   THEN Reserve[k] ELSE 0
      /\ Held'[k] = IF fate'[k] = "unknown" \/ At(k, "reserved")' \/ At(k, "replied")'
                    THEN Reserve[k] ELSE 0
  BY DEF Committed, Held
<1> USE <1>0, <1>1
<1>2. ASSUME SameCounters(books, books'), Committed'[k] <= Committed[k], Held'[k] <= Held[k]
      PROVE  \E d \in {-1, 0, 1} :
               /\ books'.llmCalls = books.llmCalls + d
               /\ books'.searches = books.searches + d * Searches[k]
               /\ books'.results = books.results + d * Pages[k]
               /\ Committed'[k] <= Committed[k] + d
               /\ Held'[k] - Held[k] <= books'.tokens - books.tokens
  <2>1. /\ books'.llmCalls = books.llmCalls + 0
        /\ books'.searches = books.searches + 0 * Searches[k]
        /\ books'.results = books.results + 0 * Pages[k]
        /\ Held'[k] - Held[k] <= books'.tokens - books.tokens
    BY <1>2 DEF SameCounters
  <2>2. Committed'[k] <= Committed[k] + 0
    <3>1. Committed[k] \in Int
      OBVIOUS
    <3> HIDE <1>0, <1>1
    <3> QED
      BY <1>2, <3>1
  <2> QED
    BY <2>1, <2>2
<1>3. ASSUME UNCHANGED <<fate, sends>>,
             request[k].at \notin {"reserved", "replied"}, request'[k].at \notin {"reserved", "replied"}
      PROVE  Committed'[k] <= Committed[k] /\ Held'[k] <= Held[k]
  BY <1>3 DEF Outstanding, At
<1>4. \A state \in Receipt : SetReceipt(k, state) => SameCounters(books, books')
  BY Effects
<1>5. UNCHANGED books => SameCounters(books, books')
  BY DEF SameCounters
<1>6. CASE Start(k)
  <2>1. UNCHANGED <<fate, sends>> /\ request[k].at \notin {"reserved", "replied"}
    BY <1>6 DEF Start, provider
  <2>2. request'[k].at \in {"done", "failed", "ready"}
    BY <1>6, Effects DEF Start, Place
  <2>3. SameCounters(books, books')
    BY <1>4, <1>5, <1>6 DEF Start, Receipt
  <2> QED
    BY <1>2, <1>3, <2>1, <2>2, <2>3
<1>7. CASE BeforeAttempt(k)
  <2>1. UNCHANGED <<fate, sends>> /\ fate[k] = "clear" /\ request[k].at = "ready"
    BY <1>7 DEF BeforeAttempt, provider, RequestInv, At
  <2>2. CASE books' = Reserved(books, k) /\ GoTo(k, "reserved")
    <3>1. request'[k].at = "reserved"
      BY <2>2, Effects DEF Place
    <3>2. /\ books'.llmCalls = books.llmCalls + 1 /\ books'.tokens = books.tokens + Reserve[k]
          /\ books'.searches = books.searches + Searches[k]
          /\ books'.results = books.results + Pages[k]
      BY <2>2, BudgetAssumption DEF Reserved, Searches, Pages
    <3>3. Committed'[k] = Committed[k] + 1 /\ Held'[k] = Reserve[k] /\ Held[k] = 0
      BY <2>1, <3>1 DEF Outstanding, At
    <3>4. /\ books'.llmCalls = books.llmCalls + 1
          /\ books'.searches = books.searches + 1 * Searches[k]
          /\ books'.results = books.results + 1 * Pages[k]
          /\ Committed'[k] <= Committed[k] + 1
          /\ Held'[k] - Held[k] <= books'.tokens - books.tokens
      BY <3>2, <3>3
    <3> QED
      BY <3>4
  <2>3. CASE SetReceipt(k, "none") /\ Enter(k, "settled")
    <3>1. request'[k].at = "settled" /\ SameCounters(books, books')
      BY <1>4, <2>3, Effects DEF Place, Receipt
    <3> QED
      BY <1>2, <1>3, <2>1, <3>1
  <2> QED
    BY <1>7, <2>2, <2>3 DEF BeforeAttempt
<1>8. ASSUME NEW e \in Ending, Answered(k, e)
      PROVE  /\ fate'[k] = CASE e = "ok" -> "paid" [] e = "uncertain" -> "unknown"
                             [] OTHER -> "clear"
             /\ sends'[k] = IF e = "unsent" THEN sends[k] - 1 ELSE sends[k]
  BY <1>8 DEF Answered, TypeOK
<1>9. ASSUME NEW e \in Ending, Reply(k, e)
      PROVE  UNCHANGED books /\ Committed'[k] <= Committed[k] /\ Held'[k] <= Held[k]
  <2>1. /\ request'[k].at = "replied" /\ request'[k].ending = e /\ request[k].at = "sent"
        /\ UNCHANGED books /\ Answered(k, e)
    BY <1>9 DEF Reply, Request, At
  <2>2. fate[k] = "unknown"
    BY <2>1 DEF RequestInv, At
  <2> QED
    BY <1>8, <2>1, <2>2 DEF Outstanding, At
<1>10. ASSUME NEW e \in Ending, LateReply(k, e)
       PROVE  UNCHANGED books /\ Committed'[k] <= Committed[k] /\ Held'[k] <= Held[k]
  <2>1. UNCHANGED <<books, request>> /\ Answered(k, e) /\ late[k] > 0
    BY <1>10 DEF LateReply
  <2>2. fate[k] = "unknown"
    BY <2>1 DEF RequestInv
  <2> QED
    BY <1>8, <2>1, <2>2 DEF Outstanding, At
<1>11. ASSUME NEW actual \in Actual, OnUsage(k, actual)
       PROVE  \E d \in {-1, 0, 1} :
                /\ books'.llmCalls = books.llmCalls + d
                /\ books'.searches = books.searches + d * Searches[k]
                /\ books'.results = books.results + d * Pages[k]
                /\ Committed'[k] <= Committed[k] + d
                /\ Held'[k] - Held[k] <= books'.tokens - books.tokens
  <2>1. /\ UNCHANGED <<fate, sends>> /\ request[k].at = "replied" /\ request'[k].at = "accounted"
        /\ books' = Accounted(books, k, request[k].ending, actual)
    BY <1>11, Effects DEF OnUsage, provider, Place, At
  <2>2. /\ request[k].ending # "uncertain" => fate[k] # "unknown"
    BY <2>1 DEF RequestInv, At
  <2>3. Held[k] = Reserve[k] /\ Held'[k] = IF fate[k] = "unknown" THEN Reserve[k] ELSE 0
    BY <2>1 DEF At
  <2>4. CASE request[k].ending = "unsent"
    <3>1. /\ books'.llmCalls = books.llmCalls - 1 /\ books'.tokens = books.tokens - Reserve[k]
          /\ books'.searches = books.searches - Searches[k]
          /\ books'.results = books.results - Pages[k]
      BY <2>1, <2>4, BudgetAssumption DEF Accounted, Searches, Pages
    <3>2. Committed'[k] = Committed[k] - 1 /\ Held'[k] = 0
      BY <2>1, <2>2, <2>3, <2>4 DEF Outstanding, At
    <3>3. /\ books'.llmCalls = books.llmCalls + (-1)
          /\ books'.searches = books.searches + (-1) * Searches[k]
          /\ books'.results = books.results + (-1) * Pages[k]
          /\ Committed'[k] <= Committed[k] + (-1)
          /\ Held'[k] - Held[k] <= books'.tokens - books.tokens
      BY <2>3, <3>1, <3>2
    <3> QED
      BY <3>3
  <2>5. CASE request[k].ending # "unsent"
    <3>1. /\ books'.llmCalls = books.llmCalls /\ books'.searches = books.searches
          /\ books'.results = books.results
          /\ books'.tokens = Adjusted(books, k, request[k].ending, actual)
      BY <2>1, <2>5 DEF Accounted
    <3>2. /\ books'.tokens \in Int /\ books'.tokens >= books.tokens - Reserve[k]
          /\ request[k].ending = "uncertain" => books'.tokens = books.tokens
      <4>1. actual \in Nat
        BY BudgetAssumption
      <4>2. \/ books'.tokens = books.tokens
            \/ books'.tokens = books.tokens + actual - Reserve[k] /\ request[k].ending \in {"ok", "invalid"}
        BY <3>1 DEF Adjusted
      <4> HIDE <1>1
      <4> QED
        BY <4>1, <4>2
    <3>3. Committed'[k] = Committed[k]
      BY <2>1, <2>5 DEF Outstanding, At
    <3>4. Held'[k] - Held[k] <= books'.tokens - books.tokens
      BY <2>2, <2>3, <3>2
    <3>5. /\ books'.llmCalls = books.llmCalls + 0
          /\ books'.searches = books.searches + 0 * Searches[k]
          /\ books'.results = books.results + 0 * Pages[k]
          /\ Committed'[k] <= Committed[k] + 0
      BY <3>1, <3>3
    <3> QED
      BY <3>4, <3>5
  <2> QED
    BY <2>4, <2>5
<1>12. CASE Retry(k) \/ Conclude(k)
  <2>1. UNCHANGED <<fate, sends>> /\ request[k].at = "judged"
    BY <1>12 DEF Retry, Conclude, provider, At
  <2>2. request'[k].at \in {"ready", "settled"}
    BY <1>12, Effects DEF Retry, Conclude, Place
  <2>3. SameCounters(books, books')
    BY <1>4, <1>5, <1>12 DEF Retry, Conclude, Receipt
  <2> QED
    BY <1>2, <1>3, <2>1, <2>2, <2>3
<1> QED
  BY <1>2, <1>5, <1>6, <1>7, <1>9, <1>10, <1>11, <1>12 DEF Quiet

\* Books and calls of a state that has no more outstanding than before.
LEMMA LessCovered ==
  ASSUME TypeInv, ReceiptsInv, BooksInv, ~misled, TypeInv', ReceiptsInv', ~misled',
         \A j \in Key : sends'[j] <= sends[j] /\ Unknown'[j] <= Unknown[j],
         \/ UNCHANGED <<stored, overtaken>>
         \/ stored' = books
         \/ \E o \in DOMAIN calls : stored' = calls[o].books /\ overtaken' = calls[o].old,
         \A j \in DOMAIN calls' : \E o \in DOMAIN calls :
           /\ Remains(calls'[j], calls[o])
           /\ \A k \in Key : Awaited(calls[j], k)' => Awaited(calls[o], k)
  PROVE  /\ overtaken' \/ Covers(stored, sends, Unknown)'
         /\ \A i \in DOMAIN calls' :
              calls'[i].old \/ Covers(calls[i].books, Promised(calls[i]), Pledged(calls[i]))'
<1>1. /\ sends \in [Key -> Nat] /\ Committed \in [Key -> Nat]
      /\ Unknown \in [Key -> Nat] /\ Held \in [Key -> Nat]
      /\ \A i \in DOMAIN calls : Promised(calls[i]) \in [Key -> Nat] /\ Pledged(calls[i]) \in [Key -> Nat]
      /\ books \in Books /\ stored \in Books /\ \A i \in DOMAIN calls : calls[i].books \in Books
  BY BooksNumbers
<1>2. (/\ sends \in [Key -> Nat] /\ Committed \in [Key -> Nat]
       /\ Unknown \in [Key -> Nat] /\ Held \in [Key -> Nat]
       /\ \A i \in DOMAIN calls : Promised(calls[i]) \in [Key -> Nat] /\ Pledged(calls[i]) \in [Key -> Nat]
       /\ books \in Books /\ stored \in Books /\ \A i \in DOMAIN calls : calls[i].books \in Books)'
  BY BooksNumbers, PTL
<1>3. /\ Covers(books, Committed, Held)
      /\ overtaken \/ Covers(stored, sends, Unknown)
      /\ \A i \in DOMAIN calls :
           calls[i].old \/ Covers(calls[i].books, Promised(calls[i]), Pledged(calls[i]))
  BY DEF BooksInv
<1>4. /\ \A j \in Key : sends[j] <= Committed[j] /\ Unknown[j] <= Held[j]
      /\ \A i \in DOMAIN calls, j \in Key : /\ sends[j] <= Promised(calls[i])[j]
                                            /\ Unknown[j] <= Pledged(calls[i])[j]
  BY <1>1, BudgetAssumption DEF Committed, Unknown, Held, Promised, Pledged
<1>5. overtaken' \/ Covers(stored, sends, Unknown)'
  <2>1. ASSUME NEW n \in [Key -> Nat], NEW u \in [Key -> Nat], Covers(stored', n, u),
               \A j \in Key : sends[j] <= n[j] /\ Unknown[j] <= u[j]
        PROVE  Covers(stored, sends, Unknown)'
    <3>1. \A j \in Key : sends'[j] <= n[j] /\ Unknown'[j] <= u[j]
      <4> TAKE j \in Key
      <4>1. /\ sends'[j] <= sends[j] /\ Unknown'[j] <= Unknown[j]
            /\ sends[j] <= n[j] /\ Unknown[j] <= u[j]
        BY <2>1
      <4>2. /\ sends'[j] \in Nat /\ Unknown'[j] \in Nat /\ sends[j] \in Nat /\ Unknown[j] \in Nat
            /\ n[j] \in Nat /\ u[j] \in Nat
        BY <1>1, <1>2
      <4> QED
        BY <4>1, <4>2
    <3>2. SameCounters(stored', stored')
      BY DEF SameCounters
    <3>3. Covers(stored', sends', Unknown')
      BY <1>2, <2>1, <3>1, <3>2, CoversLess
    <3> QED
      BY <3>3
  <2>2. CASE UNCHANGED <<stored, overtaken>>
    <3>1. \A j \in Key : sends[j] <= sends[j] /\ Unknown[j] <= Unknown[j]
      BY <1>1
    <3> QED
      BY <1>1, <1>3, <2>1, <2>2, <3>1
  <2>3. CASE stored' = books
    BY <1>1, <1>3, <1>4, <2>1, <2>3
  <2>4. CASE \E o \in DOMAIN calls : stored' = calls[o].books /\ overtaken' = calls[o].old
    BY <1>1, <1>3, <1>4, <2>1, <2>4
  <2> QED
    BY <2>2, <2>3, <2>4
<1>6. ASSUME NEW i \in DOMAIN calls', ~calls'[i].old
      PROVE  Covers(calls[i].books, Promised(calls[i]), Pledged(calls[i]))'
  <2>1. PICK o \in DOMAIN calls :
          /\ Remains(calls'[i], calls[o])
          /\ \A k \in Key : Awaited(calls[i], k)' => Awaited(calls[o], k)
    OBVIOUS
  <2>2. /\ calls'[i].books = calls[o].books
        /\ Covers(calls[o].books, Promised(calls[o]), Pledged(calls[o]))
    BY <1>3, <1>6, <2>1 DEF Remains
  <2>3. ASSUME NEW j \in Key
        PROVE  /\ Promised(calls[i])'[j] <= Promised(calls[o])[j]
               /\ Pledged(calls[i])'[j] <= Pledged(calls[o])[j]
    <3>1. /\ sends[j] \in Nat /\ sends'[j] \in Nat /\ Reserve[j] \in Nat
          /\ sends'[j] <= sends[j] /\ (Awaited(calls[i], j)' => Awaited(calls[o], j))
      BY <1>1, <1>2, <2>1, BudgetAssumption
    <3>2. fate'[j] = "unknown" /\ Reserve[j] # 0 => fate[j] = "unknown"
      <4>1. Unknown'[j] <= Unknown[j]
        OBVIOUS
      <4> QED
        BY <3>1, <4>1 DEF Unknown
    <3>3. Promised(calls[i])'[j] <= Promised(calls[o])[j]
      BY <3>1 DEF Promised
    <3>4. Pledged(calls[i])'[j] <= Pledged(calls[o])[j]
      BY <3>1, <3>2 DEF Pledged
    <3> QED
      BY <3>3, <3>4
  <2>4. SameCounters(calls[o].books, calls'[i].books)
    BY <2>2 DEF SameCounters
  <2>5. Covers(calls'[i].books, Promised(calls[i])', Pledged(calls[i])')
    BY <1>1, <1>2, <2>2, <2>3, <2>4, CoversLess
  <2> QED
    BY <2>5
<1> QED
  BY <1>5, <1>6

LEMMA QuietBooks ==
  ASSUME TypeInv, ReceiptsInv, BooksInv, TypeInv', ReceiptsInv', NEW k \in Key, Quiet(k)
  PROVE  BooksInv'
<1>0. TypeOK /\ UNCHANGED <<stored, calls, overtaken, misled>>
  BY QuietFrame DEF TypeInv, checkpoint, order
<1> SUFFICES ASSUME ~misled
             PROVE  /\ Covers(books, Committed, Held)'
                    /\ overtaken' \/ Covers(stored, sends, Unknown)'
                    /\ \A i \in DOMAIN calls' :
                         calls'[i].old \/ Covers(calls[i].books, Promised(calls[i]), Pledged(calls[i]))'
  BY <1>0 DEF BooksInv
<1>1. ~misled' /\ RequestInv(k) /\ Knows(books)
  BY <1>0 DEF ReceiptsInv
<1>2. /\ \A j \in Key \ {k} : /\ request'[j] = request[j] /\ fate'[j] = fate[j]
                              /\ sends'[j] = sends[j]
      /\ request[k].at \in Saving => request' = request
      /\ fate'[k] = "unknown" => fate[k] = "unknown"
      /\ sends'[k] <= sends[k]
  BY <1>0, <1>1, QuietFrame, OwnRequest
<1>3. \A j \in Key \ {k} : Committed'[j] = Committed[j] /\ Held'[j] = Held[j]
  BY <1>2 DEF Committed, Held, Outstanding, At
<1>4. /\ sends \in [Key -> Nat] /\ Committed \in [Key -> Nat] /\ Held \in [Key -> Nat]
      /\ books \in Books
  BY BooksNumbers
<1>5. (/\ sends \in [Key -> Nat] /\ Committed \in [Key -> Nat] /\ Held \in [Key -> Nat]
       /\ books \in Books)'
  BY <1>1, BooksNumbers, PTL
<1>6. Covers(books, Committed, Held)'
  <2>1. PICK d \in {-1, 0, 1} :
           /\ books'.llmCalls = books.llmCalls + d
           /\ books'.searches = books.searches + d * Searches[k]
           /\ books'.results = books.results + d * Pages[k]
           /\ Committed'[k] <= Committed[k] + d
           /\ Held'[k] - Held[k] <= books'.tokens - books.tokens
    BY OwnBooks
  <2>2. Covers(books, Committed, Held)
    BY DEF BooksInv
  <2>3. Covers(books', Committed', Held')
    <3> DEFINE m == Committed'
               n == Committed
               u == Held
               v == Held'
    <3>1. /\ m \in [Key -> Nat] /\ n \in [Key -> Nat] /\ u \in [Key -> Nat] /\ v \in [Key -> Nat]
          /\ books \in Books /\ books' \in Books
      BY <1>4, <1>5
    <3>2. /\ \A j \in Key \ {k} : m[j] = n[j]
          /\ \A j \in Key \ {k} : v[j] = u[j]
          /\ m[k] <= n[k] + d /\ v[k] - u[k] <= books'.tokens - books.tokens
      BY <1>3, <2>1
    <3>3. Covers(books, n, u)
      BY <2>2
    <3> HIDE DEF m, n, u, v
    <3>4. Covers(books', m, v)
      BY <2>1, <3>1, <3>2, <3>3, CoversChange
    <3> QED
      BY <3>4 DEF m, v
  <2> QED
    BY <2>3
<1>7. \A j \in Key : sends'[j] <= sends[j] /\ Unknown'[j] <= Unknown[j]
  <2> TAKE j \in Key
  <2>1. sends[j] \in Nat /\ sends'[j] \in Nat /\ Reserve[j] \in Nat
    BY <1>4, <1>5, BudgetAssumption
  <2> QED
    BY <1>2, <2>1 DEF Unknown
<1>8. \A j \in DOMAIN calls' : \E o \in DOMAIN calls :
        /\ Remains(calls'[j], calls[o])
        /\ \A q \in Key : Awaited(calls[j], q)' => Awaited(calls[o], q)
  <2> TAKE j \in DOMAIN calls'
  <2>1. j \in DOMAIN calls /\ calls'[j] = calls[j] /\ Remains(calls'[j], calls[j])
    BY <1>0 DEF Remains
  <2>2. ASSUME NEW q \in Key, Awaited(calls[j], q)'
        PROVE  Awaited(calls[j], q)
    <3>1. calls[j].by = q /\ request'[q].at = "reserved"
      BY <2>1, <2>2 DEF Awaited, At
    <3>2. request[q].at \in Saving
      BY <2>1, <3>1, BudgetAssumption DEF TypeInv
    <3>3. request'[q] = request[q]
      BY <1>2, <3>2
    <3> QED
      BY <3>1, <3>3 DEF Awaited, At
  <2> QED
    BY <2>1, <2>2
<1>9. UNCHANGED <<stored, overtaken>>
  BY <1>0
<1> HIDE DEF Quiet
<1> QED
  BY <1>1, <1>6, <1>7, <1>8, <1>9, LessCovered

\* Books that stay cover a state that is committed to no more and holds no more.
LEMMA BooksKept ==
  ASSUME TypeInv, ReceiptsInv, BooksInv, ~misled, TypeInv', ReceiptsInv', ~misled',
         books' = books,
         \A j \in Key : Committed'[j] <= Committed[j] /\ Held'[j] <= Held[j]
  PROVE  Covers(books, Committed, Held)'
<1>1. /\ Committed \in [Key -> Nat] /\ Held \in [Key -> Nat] /\ books \in Books
      /\ Covers(books, Committed, Held)
  BY BooksNumbers DEF BooksInv
<1>2. (Committed \in [Key -> Nat] /\ Held \in [Key -> Nat])'
  BY BooksNumbers, PTL
<1>3. SameCounters(books, books')
  BY DEF SameCounters
<1>4. Covers(books', Committed', Held')
  BY <1>1, <1>2, <1>3, CoversLess
<1> QED
  BY <1>4

LEMMA StoresBooks ==
  ASSUME TypeInv, ReceiptsInv, BooksInv, TypeInv', ReceiptsInv', NEW k \in Key, Stores(k)
  PROVE  BooksInv'
<1>0. TypeOK /\ UNCHANGED <<books, misled>>
      /\ \A j \in DOMAIN calls' : calls'[j].old
  BY StoresCalls DEF TypeInv
<1>1. PICK o \in DOMAIN calls :
        calls[o].by = k /\ stored' = calls[o].books /\ overtaken' = calls[o].old
  BY StoresCalls
<1> SUFFICES ASSUME ~misled
             PROVE  /\ Covers(books, Committed, Held)'
                    /\ overtaken' \/ Covers(stored, sends, Unknown)'
  BY <1>0 DEF BooksInv
<1>2. ~misled' /\ RequestInv(k) /\ (overtaken' \/ Covers(stored', Promised(calls[o]), Pledged(calls[o])))
  BY <1>0, <1>1 DEF ReceiptsInv, BooksInv
<1>3. /\ sends \in [Key -> Nat] /\ Committed \in [Key -> Nat] /\ Held \in [Key -> Nat]
      /\ Promised(calls[o]) \in [Key -> Nat] /\ Pledged(calls[o]) \in [Key -> Nat]
      /\ Reserve \in [Key -> Nat]
  BY BooksNumbers, BudgetAssumption
<1>4. (/\ sends \in [Key -> Nat] /\ Committed \in [Key -> Nat] /\ Held \in [Key -> Nat]
       /\ Unknown \in [Key -> Nat] /\ stored \in Books)'
  BY <1>2, BooksNumbers, PTL
<1>5. ASSUME NEW j \in Key
      PROVE  /\ Committed[j] = sends[j] + IF Outstanding(j) THEN 1 ELSE 0
             /\ Committed'[j] = sends'[j] + IF Outstanding(j)' THEN 1 ELSE 0
             /\ Held[j] = IF fate[j] = "unknown" \/ At(j, "reserved") \/ At(j, "replied")
                          THEN Reserve[j] ELSE 0
             /\ Held'[j] = IF fate'[j] = "unknown" \/ At(j, "reserved")' \/ At(j, "replied")'
                           THEN Reserve[j] ELSE 0
             /\ Promised(calls[o])[j] = sends[j] + IF Awaited(calls[o], j) THEN 1 ELSE 0
             /\ Pledged(calls[o])[j] = IF fate[j] = "unknown" \/ Awaited(calls[o], j)
                                       THEN Reserve[j] ELSE 0
             /\ Unknown'[j] = IF fate'[j] = "unknown" THEN Reserve[j] ELSE 0
  BY DEF Committed, Held, Promised, Pledged, Unknown
<1>6. ASSUME NEW j \in Key
      PROVE  /\ Committed'[j] <= Committed[j] /\ Held'[j] <= Held[j]
             /\ sends'[j] <= Promised(calls[o])[j] /\ Unknown'[j] <= Pledged(calls[o])[j]
  <2>1. sends[j] \in Nat /\ sends'[j] \in Nat /\ Reserve[j] \in Nat
    BY <1>3, <1>4
  <2>2. CASE j # k
    <3>1. request'[j] = request[j]
      BY <1>0, <2>2, Effects DEF Stores, Send, StoreUsage, Settle, Place
    <3>2. fate'[j] = fate[j] /\ sends'[j] = sends[j]
      BY <1>0, <2>2 DEF Stores, Send, StoreUsage, Settle, provider, TypeOK
    <3>3. (Outstanding(j)' <=> Outstanding(j)) /\ (At(j, "reserved")' <=> At(j, "reserved"))
          /\ (At(j, "replied")' <=> At(j, "replied"))
      BY <3>1 DEF Outstanding, At
    <3> QED
      BY <1>5, <2>1, <3>2, <3>3
  <2>3. CASE j = k /\ Send(k)
    <3>1. At(k, "reserved") /\ sends'[k] = sends[k] + 1 /\ request'[k].at = "sent"
      BY <1>0, <2>3, Effects DEF Send, TypeOK, Place
    <3>2. Outstanding(k) /\ ~Outstanding(k)' /\ Awaited(calls[o], k)
      BY <1>1, <3>1 DEF Outstanding, At, Awaited
    <3>3. Committed'[k] = sends'[k] /\ Committed[k] = sends[k] + 1
          /\ Promised(calls[o])[k] = sends[k] + 1
      BY <1>5, <2>1, <2>3, <3>2
    <3>4. Held[k] = Reserve[k] /\ Pledged(calls[o])[k] = Reserve[k]
          /\ Held'[k] \in {0, Reserve[k]} /\ Unknown'[k] \in {0, Reserve[k]}
      BY <1>5, <3>1, <3>2
    <3> QED
      BY <2>1, <2>3, <3>1, <3>3, <3>4
  <2>4. CASE j = k /\ (StoreUsage(k) \/ Settle(k))
    <3>1. UNCHANGED <<fate, sends>> /\ request[k].at \in {"accounted", "settled"}
      BY <2>4 DEF StoreUsage, Settle, provider, At
    <3>2. request'[k].at \in {"judged", "done", "failed"}
      BY <1>0, <2>4, Effects DEF StoreUsage, Settle, Place
    <3>3. /\ ~Outstanding(k) /\ ~Outstanding(k)'
          /\ ~At(k, "reserved")' /\ ~At(k, "replied")'
      BY <3>1, <3>2 DEF Outstanding, At
    <3> QED
      BY <1>5, <2>1, <2>4, <3>1, <3>3
  <2> QED
    BY <2>2, <2>3, <2>4 DEF Stores
<1>7. Covers(books, Committed, Held)'
  BY <1>0, <1>2, <1>6, BooksKept
<1>8. Covers(stored', Promised(calls[o]), Pledged(calls[o])) => Covers(stored, sends, Unknown)'
  <2>1. SameCounters(stored', stored')
    BY DEF SameCounters
  <2>2. Covers(stored', Promised(calls[o]), Pledged(calls[o])) => Covers(stored', sends', Unknown')
    BY <1>3, <1>4, <1>6, <2>1, CoversLess
  <2> QED
    BY <2>2
<1> QED
  BY <1>2, <1>7, <1>8

LEMMA SnapshotBooks ==
  ASSUME TypeInv, ReceiptsInv, BooksInv, TypeInv', ReceiptsInv', NEW k \in Key, Snapshot(k)
  PROVE  BooksInv'
<1>0. UNCHANGED <<books, stored, request, fate, sends, overtaken, misled>>
  BY DEF Snapshot, provider, order
<1> SUFFICES ASSUME ~misled
             PROVE  /\ Covers(books, Committed, Held)'
                    /\ overtaken' \/ Covers(stored, sends, Unknown)'
                    /\ \A i \in DOMAIN calls' :
                         calls'[i].old \/ Covers(calls[i].books, Promised(calls[i]), Pledged(calls[i]))'
  BY <1>0 DEF BooksInv
<1>1. /\ Covers(books, Committed, Held)
      /\ overtaken \/ Covers(stored, sends, Unknown)
      /\ \A i \in DOMAIN calls :
           calls[i].old \/ Covers(calls[i].books, Promised(calls[i]), Pledged(calls[i]))
  BY DEF BooksInv
<1>2. Committed' = Committed /\ Held' = Held /\ Unknown' = Unknown
  BY <1>0 DEF Committed, Held, Unknown, Outstanding, At
<1>3. Covers(books, Committed, Held)' /\ (overtaken' \/ Covers(stored, sends, Unknown)')
  BY <1>0, <1>1, <1>2
<1>4. ASSUME NEW i \in DOMAIN calls', ~calls'[i].old
      PROVE  Covers(calls[i].books, Promised(calls[i]), Pledged(calls[i]))'
  <2>1. CASE i = Len(calls')
    <3>1. calls'[i].books = books /\ calls'[i].by = k
      BY <2>1, SnapshotCalls
    <3>2. /\ Committed \in [Key -> Nat] /\ Held \in [Key -> Nat] /\ sends \in [Key -> Nat]
          /\ books \in Books
      BY BooksNumbers
    <3>3. Promised(calls[i])' \in [Key -> Nat] /\ Pledged(calls[i])' \in [Key -> Nat]
      BY <1>0, <3>2, BudgetAssumption DEF Promised, Pledged
    <3>4. \A j \in Key : /\ Promised(calls[i])'[j] <= Committed[j]
                         /\ Pledged(calls[i])'[j] <= Held[j]
      <4> TAKE j \in Key
      <4>1. sends[j] \in Nat /\ Reserve[j] \in Nat
        BY <3>2, BudgetAssumption
      <4>2. Awaited(calls[i], j)' => At(j, "reserved") /\ Outstanding(j)
        BY <1>0 DEF Awaited, At, Outstanding
      <4>3. /\ Promised(calls[i])'[j] = sends[j] + IF Awaited(calls[i], j)' THEN 1 ELSE 0
            /\ Pledged(calls[i])'[j] = IF fate[j] = "unknown" \/ Awaited(calls[i], j)'
                                       THEN Reserve[j] ELSE 0
        BY <1>0 DEF Promised, Pledged
      <4>4. /\ Committed[j] = sends[j] + IF Outstanding(j) THEN 1 ELSE 0
            /\ Held[j] = IF fate[j] = "unknown" \/ At(j, "reserved") \/ At(j, "replied")
                         THEN Reserve[j] ELSE 0
        BY DEF Committed, Held
      <4> QED
        BY <4>1, <4>2, <4>3, <4>4
    <3>5. SameCounters(books, books)
      BY DEF SameCounters
    <3>6. Covers(books, Promised(calls[i])', Pledged(calls[i])')
      BY <1>1, <3>2, <3>3, <3>4, <3>5, CoversLess
    <3> QED
      BY <3>1, <3>6
  <2>2. CASE i # Len(calls')
    <3>1. i \in DOMAIN calls /\ calls'[i] = calls[i]
      BY <2>2, SnapshotCalls
    <3>2. Covers(calls[i].books, Promised(calls[i]), Pledged(calls[i]))
      BY <1>1, <1>4, <3>1
    <3>3. Promised(calls[i])' = Promised(calls[i]) /\ Pledged(calls[i])' = Pledged(calls[i])
      BY <1>0, <3>1 DEF Promised, Pledged, Awaited, At
    <3> QED
      BY <3>1, <3>2, <3>3
  <2> QED
    BY <2>1, <2>2
<1> QED
  BY <1>3, <1>4

\* The books of a step as in CallsReceipts.
LEMMA CallsBooks ==
  ASSUME TypeInv, ReceiptsInv, BooksInv, TypeInv', ReceiptsInv',
         UNCHANGED <<books, fate, sends>>, misled' = misled,
         \A j \in Key : request'[j] = request[j] \/ request'[j].at = "failed",
         \/ UNCHANGED <<stored, overtaken>>
         \/ stored' = books
         \/ \E o \in DOMAIN calls : stored' = calls[o].books /\ overtaken' = calls[o].old,
         \A j \in DOMAIN calls' : \E o \in DOMAIN calls : Remains(calls'[j], calls[o])
  PROVE  BooksInv'
<1> SUFFICES ASSUME ~misled
             PROVE  /\ Covers(books, Committed, Held)'
                    /\ overtaken' \/ Covers(stored, sends, Unknown)'
                    /\ \A i \in DOMAIN calls' :
                         calls'[i].old \/ Covers(calls[i].books, Promised(calls[i]), Pledged(calls[i]))'
  BY DEF BooksInv
<1>1. sends \in [Key -> Nat] /\ Reserve \in [Key -> Nat] /\ ~misled'
  BY BooksNumbers, BudgetAssumption
<1>2. ASSUME NEW j \in Key
      PROVE  /\ Committed'[j] <= Committed[j] /\ Held'[j] <= Held[j]
             /\ sends'[j] <= sends[j] /\ Unknown'[j] <= Unknown[j]
  <2>1. sends[j] \in Nat /\ Reserve[j] \in Nat /\ sends'[j] = sends[j] /\ fate'[j] = fate[j]
    BY <1>1
  <2>2. /\ Outstanding(j)' => Outstanding(j)
        /\ At(j, "reserved")' => At(j, "reserved")
        /\ At(j, "replied")' => At(j, "replied")
    BY DEF Outstanding, At
  <2>3. Committed'[j] <= Committed[j]
    BY <2>1, <2>2 DEF Committed
  <2>4. Held'[j] <= Held[j] /\ Unknown'[j] <= Unknown[j]
    BY <2>1, <2>2 DEF Held, Unknown
  <2> QED
    BY <2>1, <2>3, <2>4
<1>3. \A j \in DOMAIN calls' : \E o \in DOMAIN calls :
        /\ Remains(calls'[j], calls[o])
        /\ \A q \in Key : Awaited(calls[j], q)' => Awaited(calls[o], q)
  <2> TAKE j \in DOMAIN calls'
  <2>1. PICK o \in DOMAIN calls : Remains(calls'[j], calls[o])
    OBVIOUS
  <2>2. calls'[j].by \in Key => calls'[j].by = calls[o].by
    BY <2>1, BudgetAssumption DEF Remains
  <2>3. \A q \in Key : Awaited(calls[j], q)' => Awaited(calls[o], q)
    BY <2>2 DEF Awaited, At
  <2> QED
    BY <2>1, <2>3
<1>4. Covers(books, Committed, Held)'
  BY <1>1, <1>2, BooksKept
<1> HIDE DEF Remains
<1>5. /\ overtaken' \/ Covers(stored, sends, Unknown)'
      /\ \A i \in DOMAIN calls' :
           calls'[i].old \/ Covers(calls[i].books, Promised(calls[i]), Pledged(calls[i]))'
  BY <1>1, <1>2, <1>3, LessCovered
<1> QED
  BY <1>4, <1>5

\* The run that takes over starts from the last checkpoint, with nothing under
\* way: unless it was overtaken, all that was ever sent is in it.
LEMMA TakeOverBooks ==
  ASSUME TypeInv, ReceiptsInv, BooksInv, ReceiptsInv', TakeOver
  PROVE  BooksInv'
<1> SUFFICES ASSUME ~misled'
             PROVE  /\ Covers(books, Committed, Held)'
                    /\ Covers(stored, sends, Unknown)' /\ DOMAIN calls' = {}
  BY DEF BooksInv
<1>1. /\ UNCHANGED <<stored, fate, sends>> /\ books' = stored
      /\ ~misled /\ ~overtaken
  BY DEF TakeOver, provider
<1>2. Covers(stored, sends, Unknown) /\ sends \in [Key -> Nat]
  BY <1>1, BooksNumbers DEF BooksInv
<1>3. \A j \in Key : /\ request'[j] = Idle /\ ~Outstanding(j)'
                     /\ ~At(j, "reserved")' /\ ~At(j, "replied")'
  BY DEF TakeOver, Idle, Outstanding, At
<1>4. Committed' = sends /\ Held' = Unknown /\ Unknown' = Unknown
  <2>1. sends = [k \in Key |-> sends[k] + 0]
    <3>1. \A k \in Key : sends[k] + 0 = sends[k]
      BY <1>2
    <3> QED
      BY <1>2, <3>1
  <2>2. Committed' = sends
    BY <1>1, <1>3, <2>1 DEF Committed
  <2> QED
    BY <1>1, <1>3, <2>2 DEF Held, Unknown
<1>5. DOMAIN calls' = {}
  <2>1. calls' = <<>> /\ Len(<<>>) = 0 /\ <<>> \in Seq(Call)
    BY EmptySeq DEF TakeOver
  <2> QED
    BY <2>1, LenProperties
<1> QED
  BY <1>1, <1>2, <1>4, <1>5

LEMMA BooksStep == TypeInv /\ ReceiptsInv /\ BooksInv /\ TypeInv' /\ ReceiptsInv' /\ [Next]_vars
                     => BooksInv'
<1> SUFFICES ASSUME TypeInv, ReceiptsInv, BooksInv, TypeInv', ReceiptsInv', [Next]_vars
             PROVE  BooksInv'
  OBVIOUS
<1>1. ASSUME NEW i \in DOMAIN calls, AbandonedCallEnds(i)
      PROVE  BooksInv'
  <2>1. UNCHANGED <<books, fate, sends, request, misled>>
    BY <1>1 DEF AbandonedCallEnds, Store, provider, order
  <2>2. /\ \A j \in DOMAIN calls' : \E o \in DOMAIN calls : Remains(calls'[j], calls[o])
        /\ \/ UNCHANGED <<stored, overtaken>>
           \/ \E o \in DOMAIN calls : stored' = calls[o].books /\ overtaken' = calls[o].old
    BY <1>1, AbandonedCalls
  <2> HIDE DEF Remains
  <2> QED
    BY <2>1, <2>2, CallsBooks
<1>2. ASSUME Save
      PROVE  BooksInv'
  <2>1. UNCHANGED <<books, fate, sends, request, misled>> /\ stored' = books
    BY <1>2 DEF Save, provider
  <2>2. \A j \in DOMAIN calls' : \E o \in DOMAIN calls : Remains(calls'[j], calls[o])
    BY <1>2, SaveCalls
  <2> QED
    BY <2>1, <2>2, CallsBooks
<1>3. ASSUME NEW keys \in SUBSET Key, Cancelled(keys)
      PROVE  BooksInv'
  <2>1. UNCHANGED <<books, fate, sends, stored, overtaken, misled>>
    BY <1>3 DEF Cancelled, provider, order
  <2>2. /\ \A j \in DOMAIN calls' : \E o \in DOMAIN calls : Remains(calls'[j], calls[o])
        /\ \A j \in Key : request'[j] = request[j] \/ request'[j].at = "failed"
    BY <1>3, CancelledCalls
  <2> QED
    BY <2>1, <2>2, CallsBooks
<1>4. CASE UNCHANGED vars
  <2>1. UNCHANGED <<books, fate, sends, request, stored, overtaken, calls, misled>>
    BY <1>4 DEF vars, checkpoint, order, provider
  <2>2. \A j \in DOMAIN calls' : Remains(calls'[j], calls[j])
    BY <2>1 DEF Remains
  <2> QED
    BY <2>1, <2>2, CallsBooks
<1> QED
  BY <1>1, <1>2, <1>3, <1>4, NextSteps, QuietBooks, StoresBooks, SnapshotBooks, TakeOverBooks

LEMMA InitBudget == Init => BudgetInv
<1> SUFFICES ASSUME Init
             PROVE  BudgetInv
  OBVIOUS
<1>1. TypeInv /\ ~misled /\ DOMAIN calls = {}
  <2>1. calls = <<>> /\ Len(<<>>) = 0 /\ <<>> \in Seq(Call)
    BY EmptySeq DEF Init
  <2> QED
    BY <2>1, InitTyped, LenProperties DEF Init
<1>2. ReceiptsInv
  BY <1>1 DEF Init, ReceiptsInv, RequestInv, Knows, At, Idle
<1>3. \A k \in Key : Committed[k] = 0 /\ Held[k] = 0 /\ sends[k] = 0 /\ Unknown[k] = 0
  BY DEF Init, Committed, Outstanding, Held, Unknown, At, Idle
<1>4. /\ sends \in [Key -> Nat] /\ Committed \in [Key -> Nat]
      /\ Unknown \in [Key -> Nat] /\ Held \in [Key -> Nat]
  BY <1>1, <1>2, BooksNumbers
<1>5. ASSUME NEW n \in [Key -> Nat], NEW u \in [Key -> Nat],
             \A k \in Key : n[k] = 0 /\ u[k] = 0
      PROVE  Covers(NewBooks, n, u)
  <2>1. ASSUME NEW w \in [Key -> Nat]
        PROVE  Total(Weighted(w, n)) = 0
    <3>1. \A k \in Key : Weighted(w, n)[k] = 0
      BY <1>5 DEF Weighted
    <3> QED
      BY <3>1, WeightedType, TotalOfZeros, Numbers
  <2>2. Total(u) = 0
    BY <1>5, TotalOfZeros, Numbers
  <2> QED
    BY <2>1, <2>2, Numbers DEF Covers, NewBooks
<1>6. Covers(NewBooks, Committed, Held) /\ Covers(NewBooks, sends, Unknown)
  BY <1>3, <1>4, <1>5
<1>7. books = NewBooks /\ stored = NewBooks
  BY DEF Init
<1> QED
  BY <1>1, <1>2, <1>6, <1>7 DEF BudgetInv, BooksInv

LEMMA BudgetCorrect == Spec => []BudgetInv
<1>1. BudgetInv /\ [Next]_vars => BudgetInv'
  BY TypeStep, ReceiptsStep, BooksStep DEF BudgetInv
<1> QED
  BY <1>1, InitBudget, PTL DEF Spec

-----------------------------------------------------------------------------
(* The theorems.                                                           *)

\* No run sends a request again that may have been paid for, whatever dies, is
\* cancelled or answers late, unless a run has resumed from a checkpoint that an
\* abandoned call had stored over a newer one (app/research/budget.py, _request).
THEOREM BlindRepeatCorrect == Spec => NoBlindRepeatInOrder
<1>1. ASSUME BudgetInv, [Next]_vars, NEW k \in Key, sends'[k] > sends[k], ~misled
      PROVE  fate[k] = "clear"
  <2>1. /\ TypeInv /\ TypeOK /\ ReceiptsInv /\ Knows(books) /\ sends[k] \in Int
        /\ \A j \in Key : RequestInv(j)
    BY <1>1 DEF BudgetInv, TypeInv, TypeOK, ReceiptsInv
  <2>2. sends' # sends
    BY <1>1, <2>1
  <2>3. ASSUME NEW j \in Key, Quiet(j)
        PROVE  FALSE
    <3>1. CASE j = k
      <4>1. sends'[k] <= sends[k] /\ sends'[k] \in Int
        BY <2>1, <2>3, <3>1, OwnRequest, QuietFrame
      <4> QED
        BY <1>1, <2>1, <4>1
    <3>2. CASE j # k
      <4>1. sends'[k] = sends[k]
        BY <2>1, <2>3, <3>2, QuietFrame
      <4> QED
        BY <1>1, <2>1, <4>1
    <3> QED
      BY <3>1, <3>2
  <2>4. ASSUME NEW j \in Key, Stores(j)
        PROVE  Send(j) /\ j = k
    <3>1. Send(j)
      BY <2>2, <2>4 DEF Stores, StoreUsage, Settle, provider
    <3>2. CASE j # k
      <4>1. sends'[k] = sends[k]
        BY <2>1, <3>1, <3>2 DEF Send, TypeOK
      <4> QED
        BY <1>1, <2>1, <4>1
    <3> QED
      BY <3>1, <3>2
  <2>5. /\ \A j \in Key : ~Snapshot(j)
        /\ \A i \in DOMAIN calls : ~AbandonedCallEnds(i)
        /\ ~Save /\ ~TakeOver /\ \A keys \in SUBSET Key : ~Cancelled(keys)
        /\ ~UNCHANGED vars
    BY <2>2 DEF Snapshot, AbandonedCallEnds, Save, TakeOver, Cancelled, vars, provider
  <2>6. Send(k)
    BY <1>1, <2>3, <2>4, <2>5, NextSteps
  <2> QED
    BY <2>1, <2>6 DEF Send, RequestInv, At
<1>2. BudgetInv /\ [Next]_vars =>
        [\A k \in Key : sends'[k] > sends[k] => fate[k] = "clear" \/ misled]_vars
  BY <1>1
<1> QED
  BY <1>2, BudgetCorrect, PTL DEF Spec, NoBlindRepeatInOrder

\* The calls, searches and results of a person stay within their limits for
\* everything the provider may have received over all the runs of the person,
\* with the same exception (before_attempt, app/research/budget.py).
THEOREM LimitsCorrect == Spec => []SendsWithinLimits
<1>1. BudgetInv => SendsWithinLimits
  <2> SUFFICES ASSUME BudgetInv, ~misled
               PROVE  SendsWithinLimits
    BY DEF SendsWithinLimits
  <2> DEFINE searches == [k \in SearchKey |-> sends[k]]
             pages == [k \in SearchKey |-> sends[k] * Results[k]]
  <2>1. /\ sends \in [Key -> Nat] /\ Committed \in [Key -> Nat] /\ IsFiniteSet(Key)
        /\ SearchKey \in SUBSET Key /\ Results \in [Key -> Nat]
        /\ \A k \in Key : sends[k] <= Committed[k]
        /\ Covers(books, Committed, Held) /\ InLimits(books) /\ books \in Books
    <3>1. /\ sends \in [Key -> Nat] /\ Committed \in [Key -> Nat] /\ books \in Books
      BY BooksNumbers DEF BudgetInv
    <3> QED
      BY <3>1, BudgetAssumption DEF BudgetInv, BooksInv, TypeInv, Committed
  <2>2. /\ Weighted(Calls, sends) \in [Key -> Nat] /\ Weighted(Searches, sends) \in [Key -> Nat]
        /\ Weighted(Pages, sends) \in [Key -> Nat]
    BY <2>1, WeightedType, Numbers
  <2>3. /\ searches \in [SearchKey -> Nat] /\ pages \in [SearchKey -> Nat]
    <3>1. \A k \in SearchKey : sends[k] \in Nat /\ Results[k] \in Nat
      BY <2>1
    <3> QED
      BY <3>1
  <2>4. /\ \A k \in Key : sends[k] <= Weighted(Calls, sends)[k]
        /\ \A k \in SearchKey : searches[k] <= Weighted(Searches, sends)[k]
    BY <2>1 DEF Weighted, Calls, Searches
  <2>5. \A k \in SearchKey : pages[k] <= Weighted(Pages, sends)[k]
    <3> TAKE k \in SearchKey
    <3>1. pages[k] = sends[k] * Results[k] /\ Weighted(Pages, sends)[k] = Results[k] * sends[k]
      BY <2>1 DEF Weighted, Pages
    <3>2. sends[k] \in Nat /\ Results[k] \in Nat
      BY <2>1
    <3> QED
      BY <3>1, <3>2
  <2>6. IsFiniteSet(SearchKey)
    BY <2>1, FS_Subset
  <2> HIDE DEF searches, pages
  <2>7. /\ Total(sends) <= Total(Weighted(Calls, sends)) /\ Total(sends) \in Nat
        /\ Total(searches) <= Total(Weighted(Searches, sends)) /\ Total(searches) \in Nat
        /\ Total(pages) <= Total(Weighted(Pages, sends)) /\ Total(pages) \in Nat
    BY <2>1, <2>2, <2>3, <2>4, <2>5, <2>6, TotalGrows, TotalType
  <2>8. /\ Total(Weighted(Calls, sends)) <= Total(Weighted(Calls, Committed))
        /\ Total(Weighted(Searches, sends)) <= Total(Weighted(Searches, Committed))
        /\ Total(Weighted(Pages, sends)) <= Total(Weighted(Pages, Committed))
    BY <2>1, WeightedGrows, Numbers
  <2>9. /\ Total(Weighted(Calls, sends)) \in Nat /\ Total(Weighted(Calls, Committed)) \in Nat
        /\ Total(Weighted(Searches, sends)) \in Nat /\ Total(Weighted(Searches, Committed)) \in Nat
        /\ Total(Weighted(Pages, sends)) \in Nat /\ Total(Weighted(Pages, Committed)) \in Nat
    BY <2>1, WeightedType, Numbers
  <2>10. /\ Total(sends) <= MaxLlmCalls /\ Total(searches) <= MaxSearchCalls
         /\ Total(pages) <= MaxResults
    BY <2>1, <2>7, <2>8, <2>9, Numbers DEF Covers, InLimits, Books
  <2> QED
    BY <2>10 DEF SendsWithinLimits, searches, pages
<1> QED
  BY <1>1, BudgetCorrect, PTL

\* The tokens of the requests whose fate is unknown stay reserved in memory, and
\* in the last checkpoint unless it was overtaken, so also for the run that takes
\* over, with the same exception (app/research/budget.py, on_usage).
THEOREM ReservationsCorrect == Spec => []UncertainStaysReserved
<1>1. BudgetInv => UncertainStaysReserved
  <2> SUFFICES ASSUME BudgetInv
               PROVE  UncertainStaysReserved
    OBVIOUS
  <2> DEFINE uncertain == {q \in Key : fate[q] = "unknown"}
             tokens == [k \in uncertain |-> Reserve[k]]
  <2>1. TypeOK
    BY DEF BudgetInv, TypeInv
  <2>2. tokens \in [uncertain -> Nat] /\ \A k \in uncertain : tokens[k] <= Unknown[k]
    BY BudgetAssumption DEF Unknown
  <2>3. IsFiniteSet(Key) /\ IsFiniteSet(uncertain) /\ uncertain \in SUBSET Key
    BY BudgetAssumption, FS_Subset
  <2> HIDE DEF uncertain, tokens
  <2>4. ASSUME ~misled
        PROVE  Total(tokens) <= books.tokens /\ (overtaken \/ Total(tokens) <= stored.tokens)
    <3>1. Unknown \in [Key -> Nat] /\ Held \in [Key -> Nat] /\ books \in Books /\ stored \in Books
      BY <2>4, BooksNumbers DEF BudgetInv
    <3>2. \A k \in Key : Unknown[k] <= Held[k]
      BY BudgetAssumption DEF Unknown, Held
    <3>3. Total(tokens) <= Total(Unknown) /\ Total(Unknown) <= Total(Held)
      BY <2>2, <2>3, <3>1, <3>2, TotalGrows
    <3>4. Total(tokens) \in Nat /\ Total(Unknown) \in Nat /\ Total(Held) \in Nat
      BY <2>2, <2>3, <3>1, TotalType
    <3>5. Total(Held) <= books.tokens /\ (overtaken \/ Total(Unknown) <= stored.tokens)
      BY <2>4 DEF BudgetInv, BooksInv, Covers
    <3>6. books.tokens \in Int /\ stored.tokens \in Int
      BY <3>1 DEF Books
    <3> QED
      BY <3>3, <3>4, <3>5, <3>6
  <2> QED
    BY <2>1, <2>4 DEF UncertainStaysReserved, uncertain, tokens
<1> QED
  BY <1>1, BudgetCorrect, PTL
=============================================================================
