----------------------------- MODULE ResearchProofs -----------------------------
(***************************************************************************)
(* What is proved of the research of a person, for all pages, queries,     *)
(* answers and limits, and for any number of interruptions.  MemoryInv     *)
(* holds of what is in memory and of every checkpoint alike, since each is *)
(* made of the other; PlaceInv says what the coroutine may rely on where   *)
(* it is.                                                                  *)
(***************************************************************************)
EXTENDS Research, CollectionProofs

\* No other page redirects to u.
Lone(u) == \A v \in Url \ {u} : FinalOf[v] # u

\* Counters agree with what was done.
CountersInv(m) ==
  /\ IsFiniteSet(m.done) /\ m.performed = Cardinality(m.done) /\ m.performed <= MaxQueries
  /\ m.query # NoQuery => m.query \in m.done
  /\ \A k \in Chunk : m.counted[k] = IF k \in m.applied THEN 1 ELSE 0
  /\ m.fetched = Cardinality(SourcesOf(m))

\* Pages under way were begun and seen; a page that was concluded of is seen
\* and not under way; what was seen is under way or dealt with, if only as what
\* another redirects to; extracted pages are complete.
PagesInv(m) ==
  /\ m.active \subseteq m.seen \cap SourcesOf(m)
  /\ \A u \in Url : Lone(u) /\ m.status[u] \in Settled => u \in m.seen \ m.active
  /\ m.seen \subseteq m.active \cup DealtWith(m) \cup {FinalOf[u] : u \in m.active \cap m.hashed}
  /\ \A u \in Url : m.status[u] = "extracted" => {<<u, 0>>} \cup ChunksOf(u) \subseteq m.applied

\* The results of all searches are enough for whole searches.
WholeQueries == \E n \in Nat : MaxResults = n * PerQuery

\* The candidates that are accounted for whatever a resumed run forgets of what
\* was seen.
Cover(m) == m.pending \cup m.active \cup m.rejected \cup DealtWith(m)

\* Every search then has the same limit, so that its key is its query.
SearchesInv(m) ==
  /\ \E n \in Nat : m.results = n * PerQuery
  /\ m.limit \in {0, PerQuery}
  /\ \A r \in m.receipts : r.limit = PerQuery
  /\ \A r, s \in m.receipts : r.query = s.query => r = s
  /\ \A r \in m.receipts : r.completed /\ r.query \in m.done \ {m.query} => r.found \subseteq Cover(m)

MemoryInv(m) ==
  /\ m \in Memory /\ CountersInv(m) /\ PagesInv(m)
  /\ WholeQueries => SearchesInv(m)

PlaceInv ==
  /\ retryLimit # 0 => mem.performed < MaxQueries
  /\ at \in {"pop", "plan"} =>
       retryLimit # 0 \/ (mem.performed < MaxQueries /\ mem.results < MaxResults)
  /\ at = "pop" => mem.queue # <<>>
  /\ at \notin {"searching", "sent", "found", "finish", "ended", "down"} => mem.query = NoQuery
  /\ at \in {"searching", "sent", "found"} => mem.query # NoQuery /\ mem.limit # 0
  /\ at = "sent" => mem.calls >= 1 /\ mem.results >= mem.limit
  /\ at \in {"judge", "extract"} => selected # <<>> /\ mem.active = {Head(selected)}
  /\ at = "extract" => <<Head(selected), 0>> \in mem.applied
  /\ at \notin {"judge", "extract", "finish", "ended", "down"} => mem.active = {}
  /\ at \in {"finish", "ended"} /\ stop \in Exhausted => mem.pending = {} /\ mem.active = {}
  /\ at = "queries" => mem.pending = {} \/ mem.queue # <<>>
  /\ at = "plan" => mem.pending = {}

\* What is concluded of a page is saved at once.
StatusSaved == disk.status = mem.status

\* The answer at hand is the one that was bought.
AnswerInv ==
  WholeQueries =>
    /\ retryLimit \in {0, PerQuery}
    /\ at = "found" => \A r \in mem.receipts :
                         r.completed /\ r.query = mem.query => r.found \subseteq batch

LocalsOK ==
  /\ at \in {"down", "supplied", "admit", "validate", "round", "judge", "extract", "loop",
             "queries", "plan", "pop", "searching", "sent", "found", "empty", "unselected",
             "finish", "ended"}
  /\ batch \subseteq Url /\ selected \in Seq(Url) /\ caller \in {"supplied", "loop", "search"}
  /\ before \in Nat /\ retryLimit \in 0 .. PerQuery
  /\ unavailable \in BOOLEAN /\ stop \in StopReason /\ runs \in 0 .. MaxRuns

ResearchInv ==
  /\ MemoryInv(mem) /\ MemoryInv(disk)
  /\ LocalsOK /\ PlaceInv /\ StatusSaved /\ AnswerInv

-----------------------------------------------------------------------------
(* Lemmas: numbers and sequences.                                          *)

\* The limits are positive.
LEMMA Limits ==
  /\ MaxSources \in Nat /\ PerRound \in Nat /\ MaxNoNew \in Nat /\ MaxQueries \in Nat
  /\ MaxCalls \in Nat /\ MaxResults \in Nat /\ PerQuery \in Nat /\ MaxRuns \in Nat
  /\ PerQuery >= 1 /\ MaxQueries >= 1
BY ConstantsAssumption

\* The smallest of three.
LEMMA MinOfThree ==
  ASSUME NEW a \in Int, NEW b \in Int, NEW c \in Int
  PROVE  /\ Min({a, b, c}) \in {a, b, c}
         /\ Min({a, b, c}) <= a /\ Min({a, b, c}) <= b /\ Min({a, b, c}) <= c
<1>1. \E x \in {a, b, c} : \A y \in {a, b, c} : x =< y
  OBVIOUS
<1> QED
  BY <1>1 DEF Min

\* So is what is taken from its front.
LEMMA TakeType ==
  ASSUME NEW E, NEW s \in Seq(E), NEW n \in Nat
  PROVE  Take(s, n) \in Seq(E)
<1>1. Len(s) \in Nat
  BY LenProperties
<1>2. Min({n, Len(s)}) \in Int /\ Min({n, Len(s)}) <= Len(s)
  <2>1. n \in Int /\ Len(s) \in Int
    BY <1>1
  <2> QED
    BY <2>1, MinOfTwo
<1> DEFINE k == Min({n, Len(s)})
<1>3. \A i \in 1 .. k : s[i] \in E
  BY <1>1, <1>2, ElementOfSeq
<1>4. k \in Int
  BY <1>2
<1> HIDE DEF k
<1>5. SubSeq(s, 1, k) \in Seq(E)
  <2>1. 1 \in Int
    OBVIOUS
  <2> QED
    BY <1>3, <1>4, <2>1, SubSeqProperties
<1> QED
  BY <1>5 DEF Take, k

\* Chunks of a page are chunks.
LEMMA ChunksAreChunks ==
  ASSUME NEW u \in Url
  PROVE  {<<u, 0>>} \cup ChunksOf(u) \subseteq Chunk
<1> DEFINE S == {Chunks[v] : v \in Url}
<1>1. IsFiniteSet(S)
  <2>1. Chunks \in Surjection(Url, S)
    BY ConstantsAssumption DEF Surjection
  <2> QED
    BY <2>1, ConstantsAssumption, FS_Surjection
<1>2. S \in SUBSET Int /\ Chunks[u] \in S /\ Chunks[u] \in Nat
  BY ConstantsAssumption
<1>3. Max(S) \in Int /\ Max(S) >= Chunks[u]
  <2> HIDE DEF S
  <2> QED
    BY <1>1, <1>2, MaxExists
<1>4. \A i \in 0 .. Chunks[u] : i \in 0 .. Max(S)
  BY <1>2, <1>3
<1>5. \A i \in 0 .. Chunks[u] : <<u, i>> \in Chunk
  BY <1>4 DEF Chunk
<1> QED
  BY <1>2, <1>5 DEF ChunksOf

-----------------------------------------------------------------------------
(* Lemmas: what a change of the memory leaves true.                        *)

\* What was done stays: all but the queue and its flags, hashes, validations, the
\* streak, and the candidates.
SameWork(m, n) ==
  /\ n.done = m.done /\ n.performed = m.performed /\ n.query = m.query
  /\ n.counted = m.counted /\ n.applied = m.applied /\ n.status = m.status
  /\ n.fetched = m.fetched /\ n.active = m.active /\ n.seen = m.seen /\ n.hashed = m.hashed
  /\ n.calls = m.calls /\ n.results = m.results /\ n.limit = m.limit
  /\ n.receipts = m.receipts

\* What is not looked at may change; and candidates may move, if none is lost.
LEMMA Framed ==
  ASSUME NEW m, NEW n \in Memory, MemoryInv(m), SameWork(m, n),
         WholeQueries => Cover(m) \subseteq Cover(n)
  PROVE  MemoryInv(n)
<1>1. SourcesOf(n) = SourcesOf(m) /\ DealtWith(n) = DealtWith(m)
  BY DEF SourcesOf, DealtWith, SameWork
<1>2. CountersInv(n)
  BY <1>1 DEF MemoryInv, CountersInv, SameWork
<1>3. PagesInv(n)
  BY <1>1 DEF MemoryInv, PagesInv, SameWork
<1>4. WholeQueries => SearchesInv(n)
  BY DEF MemoryInv, SearchesInv, SameWork
<1> QED
  BY <1>2, <1>3, <1>4 DEF MemoryInv

\* A page that is under way alone is concluded of.
LEMMA Concluded ==
  ASSUME NEW m, NEW n \in Memory, MemoryInv(m),
         NEW u \in Url, m.active = {u}, NEW s \in Settled,
         s = "extracted" => {<<u, 0>>} \cup ChunksOf(u) \subseteq m.applied,
         n.active = {}, n.status = [m.status EXCEPT ![u] = s],
         n.seen \in {m.seen, m.seen \cup {FinalOf[u]}},
         n.done = m.done, n.performed = m.performed, n.query = m.query,
         n.counted = m.counted, n.applied = m.applied, n.fetched = m.fetched,
         n.pending = m.pending, n.rejected = m.rejected,
         n.results = m.results, n.limit = m.limit, n.receipts = m.receipts
  PROVE  MemoryInv(n)
<1>0. /\ m.status \in [Url -> Status] /\ m \in Memory
      /\ m.seen \subseteq Url /\ FinalOf[u] \in Url
  BY ConstantsAssumption DEF MemoryInv, Memory
<1>1. /\ n.status[u] = s
      /\ \A v \in Url \ {u} : n.status[v] = m.status[v]
  BY <1>0
<1>2. SourcesOf(n) = SourcesOf(m)
  <2>1. u \in SourcesOf(m) /\ s # "none"
    BY DEF MemoryInv, PagesInv, Settled
  <2> QED
    BY <1>1, <2>1 DEF SourcesOf
<1>3. DealtWith(m) \cup {u, FinalOf[u]} \subseteq DealtWith(n)
  BY <1>1 DEF DealtWith
<1>4. CountersInv(n)
  BY <1>2 DEF MemoryInv, CountersInv
<1>5. PagesInv(n)
  <2>1. u \in m.seen
    BY DEF MemoryInv, PagesInv
  <2>2. ASSUME NEW v \in Url, Lone(v), n.status[v] \in Settled
        PROVE  v \in n.seen \ n.active
    <3>1. CASE v = u
      BY <2>1, <3>1
    <3>2. CASE v # u
      BY <1>1, <2>2, <3>2 DEF MemoryInv, PagesInv
    <3> QED
      BY <3>1, <3>2
  <2>3. n.seen \subseteq DealtWith(n)
    BY <1>3 DEF MemoryInv, PagesInv
  <2>4. ASSUME NEW v \in Url, n.status[v] = "extracted"
        PROVE  {<<v, 0>>} \cup ChunksOf(v) \subseteq n.applied
    BY <1>1, <2>4 DEF MemoryInv, PagesInv
  <2> QED
    BY <2>2, <2>3, <2>4 DEF PagesInv
<1>6. WholeQueries => SearchesInv(n)
  <2>1. Cover(m) \subseteq Cover(n)
    BY <1>3 DEF Cover
  <2> QED
    BY <2>1 DEF MemoryInv, SearchesInv
<1> QED
  BY <1>4, <1>5, <1>6 DEF MemoryInv

\* Sources are pages, of which there are finitely many.
LEMMA SourcesFinite == \A m : IsFiniteSet(SourcesOf(m)) /\ Cardinality(SourcesOf(m)) \in Nat
<1> TAKE m
<1>1. SourcesOf(m) \in SUBSET Url /\ IsFiniteSet(Url)
  BY ConstantsAssumption DEF SourcesOf
<1> QED
  BY <1>1, FS_Subset, FS_CardinalityType

\* A page gets under way.
LEMMA BegunInv ==
  ASSUME MemoryInv(mem), mem.active = {}, NEW u \in Url, u \notin mem.seen
  PROVE  /\ MemoryInv(Begun(u))
         /\ Begun(u).active = {u}
<1> DEFINE n == Begun(u)
           s == IF mem.status[u] = "none" THEN "new" ELSE mem.status[u]
           f == IF mem.status[u] = "none" THEN mem.fetched + 1 ELSE mem.fetched
<1>0. /\ mem \in Memory
      /\ mem.status \in [Url -> Status] /\ mem.fetched \in Nat
  BY DEF MemoryInv, Memory
<1>1. s \in Status /\ f \in Nat
  BY <1>0 DEF Status
<1>2. n \in Memory
  <2> DEFINE st == [mem.status EXCEPT ![u] = s]
  <2>1. st \in [Url -> Status]
    BY <1>0, <1>1
  <2>2. /\ mem.pending \ {u} \in SUBSET Url /\ mem.seen \cup {u} \in SUBSET Url
        /\ mem.active \cup {u} \in SUBSET Url
    BY <1>0 DEF Memory
  <2>3. n = [mem EXCEPT !.pending = mem.pending \ {u}, !.seen = mem.seen \cup {u},
                        !.active = mem.active \cup {u}, !.status = st, !.fetched = f]
    BY <1>0 DEF Begun, Memory
  <2> HIDE DEF n, st, f
  <2> QED
    BY <1>0, <1>1, <2>1, <2>2, <2>3 DEF Memory
<1>3. /\ n.pending = mem.pending \ {u} /\ n.seen = mem.seen \cup {u} /\ n.active = {u}
      /\ n.status = [mem.status EXCEPT ![u] = s] /\ n.fetched = f
      /\ n.done = mem.done /\ n.performed = mem.performed /\ n.query = mem.query
      /\ n.counted = mem.counted /\ n.applied = mem.applied /\ n.hashed = mem.hashed
      /\ n.rejected = mem.rejected
      /\ n.results = mem.results /\ n.limit = mem.limit /\ n.receipts = mem.receipts
  BY <1>0 DEF Begun, Memory
<1>4. /\ n.status[u] = s
      /\ \A v \in Url \ {u} : n.status[v] = mem.status[v]
  BY <1>0, <1>3
<1> HIDE DEF n
<1>5. DealtWith(n) = DealtWith(mem)
  <2>1. \A v \in Url : n.status[v] \in Settled <=> mem.status[v] \in Settled
    BY <1>4 DEF Settled
  <2> QED
    BY <2>1 DEF DealtWith
<1>6. CountersInv(n)
  <2>1. IsFiniteSet(SourcesOf(mem)) /\ mem.fetched = Cardinality(SourcesOf(mem))
    BY SourcesFinite DEF MemoryInv, CountersInv
  <2>2. SourcesOf(n) = SourcesOf(mem) \cup {u}
    BY <1>4 DEF SourcesOf
  <2>3. Cardinality(SourcesOf(n)) = f
    BY <2>1, <2>2, FS_AddElement DEF SourcesOf
  <2> QED
    BY <1>3, <2>3 DEF MemoryInv, CountersInv
<1>7. PagesInv(n)
  <2>1. n.active \subseteq n.seen \cap SourcesOf(n)
    BY <1>3, <1>4 DEF SourcesOf
  <2>2. ASSUME NEW v \in Url, Lone(v), n.status[v] \in Settled
        PROVE  v \in n.seen \ n.active
    <3>1. mem.status[v] \in Settled
      BY <1>4, <2>2 DEF Settled
    <3>2. v \in mem.seen
      BY <2>2, <3>1 DEF MemoryInv, PagesInv
    <3> QED
      BY <1>3, <3>2
  <2>3. n.seen \subseteq n.active \cup DealtWith(n)
    BY <1>3, <1>5 DEF MemoryInv, PagesInv
  <2>4. ASSUME NEW v \in Url, n.status[v] = "extracted"
        PROVE  {<<v, 0>>} \cup ChunksOf(v) \subseteq n.applied
    BY <1>3, <1>4, <2>4 DEF MemoryInv, PagesInv
  <2> QED
    BY <2>1, <2>2, <2>3, <2>4 DEF PagesInv
<1>8. WholeQueries => SearchesInv(n)
  <2>1. Cover(mem) \subseteq Cover(n)
    BY <1>3, <1>5 DEF Cover
  <2> QED
    BY <1>3, <2>1 DEF MemoryInv, SearchesInv
<1> QED
  BY <1>2, <1>3, <1>6, <1>7, <1>8 DEF MemoryInv, n

\* Its page arrives.
LEMMA Arrived ==
  ASSUME NEW m, NEW n \in Memory, MemoryInv(m),
         NEW u \in Url, m.active = {u},
         n.active = {u}, n.status = [m.status EXCEPT ![u] = "processed"],
         n.seen = m.seen \cup {FinalOf[u]}, n.hashed = m.hashed \cup {u},
         n.done = m.done, n.performed = m.performed, n.query = m.query,
         n.counted = m.counted, n.applied = m.applied, n.fetched = m.fetched,
         n.pending = m.pending, n.rejected = m.rejected,
         n.results = m.results, n.limit = m.limit, n.receipts = m.receipts
  PROVE  MemoryInv(n)
<1>0. m.status \in [Url -> Status]
  BY DEF MemoryInv, Memory
<1>1. /\ n.status[u] = "processed"
      /\ \A v \in Url \ {u} : n.status[v] = m.status[v]
  BY <1>0
<1>2. SourcesOf(n) = SourcesOf(m)
  <2>1. u \in SourcesOf(m)
    BY DEF MemoryInv, PagesInv
  <2> QED
    BY <1>1, <2>1 DEF SourcesOf
<1>3. DealtWith(m) \subseteq DealtWith(n) \cup {u}
  <2>1. ASSUME m.status[u] \in Settled
        PROVE  FinalOf[u] = u
    <3>1. ~Lone(u)
      BY <2>1 DEF MemoryInv, PagesInv
    <3>2. PICK w \in Url : FinalOf[w] = u
      BY <3>1 DEF Lone
    <3> QED
      BY <3>2, ConstantsAssumption
  <2> DEFINE settled == {v \in Url : m.status[v] \in Settled}
             next == {v \in Url : n.status[v] \in Settled}
  <2>2. settled \subseteq next \cup {u}
    BY <1>1
  <2>3. \A v \in settled : FinalOf[v] \in {FinalOf[w] : w \in next} \cup {u}
    BY <2>1, <2>2
  <2> QED
    BY <2>2, <2>3 DEF DealtWith
<1>4. CountersInv(n)
  BY <1>2 DEF MemoryInv, CountersInv
<1>5. PagesInv(n)
  <2>1. n.active \subseteq n.seen \cap SourcesOf(n)
    BY <1>2 DEF MemoryInv, PagesInv
  <2>2. ASSUME NEW v \in Url, Lone(v), n.status[v] \in Settled
        PROVE  v \in n.seen \ n.active
    <3>1. v # u
      BY <1>1, <2>2 DEF Settled
    <3> QED
      BY <1>1, <2>2, <3>1 DEF MemoryInv, PagesInv
  <2>3. n.seen \subseteq n.active \cup DealtWith(n) \cup {FinalOf[v] : v \in n.active \cap n.hashed}
    <3>1. m.seen \subseteq {u} \cup DealtWith(m) \cup {FinalOf[u]}
      BY DEF MemoryInv, PagesInv
    <3>2. FinalOf[u] \in {FinalOf[v] : v \in n.active \cap n.hashed}
      OBVIOUS
    <3> QED
      BY <1>3, <3>1, <3>2
  <2>4. ASSUME NEW v \in Url, n.status[v] = "extracted"
        PROVE  {<<v, 0>>} \cup ChunksOf(v) \subseteq n.applied
    BY <1>1, <2>4 DEF MemoryInv, PagesInv
  <2> QED
    BY <2>1, <2>2, <2>3, <2>4 DEF PagesInv
<1>6. WholeQueries => SearchesInv(n)
  <2>1. Cover(m) \subseteq Cover(n)
    BY <1>3 DEF Cover
  <2> QED
    BY <2>1 DEF MemoryInv, SearchesInv
<1> QED
  BY <1>4, <1>5, <1>6 DEF MemoryInv

\* The claims of a chunk are applied.
LEMMA ApplyInv ==
  ASSUME NEW m, MemoryInv(m), NEW c \in Chunk
  PROVE  /\ MemoryInv(Apply(m, c))
         /\ c \in Apply(m, c).applied /\ m.applied \subseteq Apply(m, c).applied
         /\ Apply(m, c).active = m.active /\ Apply(m, c).status = m.status
         /\ Apply(m, c).performed = m.performed /\ Apply(m, c).query = m.query
         /\ Apply(m, c).pending = m.pending
<1> DEFINE n == [m EXCEPT !.applied = @ \cup {c}, !.counted[c] = @ + 1]
<1>0. /\ m \in Memory /\ m.counted \in [Chunk -> Nat]
      /\ m.applied \cup {c} \in SUBSET Chunk
  BY DEF MemoryInv, Memory
<1>1. CASE c \in m.applied
  <2>1. Apply(m, c) = m
    BY <1>1 DEF Apply
  <2> QED
    BY <1>1, <2>1
<1>2. CASE c \notin m.applied
  <2> DEFINE counted == [m.counted EXCEPT ![c] = m.counted[c] + 1]
             applied == m.applied \cup {c}
  <2>1. counted \in [Chunk -> Nat]
    BY <1>0
  <2>2. n = [m EXCEPT !.applied = applied, !.counted = counted]
    BY <1>0 DEF Memory
  <2>3. n \in Memory
    <3> HIDE DEF n, counted, applied
    <3>1. applied \in SUBSET Chunk
      BY <1>0 DEF applied
    <3> QED
      BY <1>0, <2>1, <2>2, <3>1 DEF Memory
  <2>4. /\ n.applied = applied /\ n.counted = counted
        /\ n.active = m.active /\ n.status = m.status /\ n.pending = m.pending
        /\ n.performed = m.performed /\ n.query = m.query /\ n.done = m.done
        /\ n.fetched = m.fetched /\ n.seen = m.seen /\ n.hashed = m.hashed
        /\ n.rejected = m.rejected
        /\ n.results = m.results /\ n.limit = m.limit /\ n.receipts = m.receipts
    BY <1>0 DEF Memory
  <2> HIDE DEF n
  <2>5. SourcesOf(n) = SourcesOf(m) /\ DealtWith(n) = DealtWith(m) /\ Cover(n) = Cover(m)
    BY <2>4 DEF SourcesOf, DealtWith, Cover
  <2>6. CountersInv(n)
    <3>1. m.counted[c] = 0
      BY <1>2 DEF MemoryInv, CountersInv
    <3>2. \A k \in Chunk : n.counted[k] = IF k \in n.applied THEN 1 ELSE 0
      <4> TAKE k \in Chunk
      <4>1. CASE k = c
        BY <1>0, <2>4, <3>1, <4>1
      <4>2. CASE k # c
        BY <1>0, <2>4, <4>2 DEF MemoryInv, CountersInv
      <4> QED
        BY <4>1, <4>2
    <3> QED
      BY <2>4, <2>5, <3>2 DEF MemoryInv, CountersInv
  <2>7. PagesInv(n)
    BY <2>4, <2>5 DEF MemoryInv, PagesInv
  <2>8. WholeQueries => SearchesInv(n)
    BY <2>4, <2>5 DEF MemoryInv, SearchesInv
  <2>9. MemoryInv(n)
    BY <2>3, <2>6, <2>7, <2>8 DEF MemoryInv
  <2>10. Apply(m, c) = n
    BY <1>2 DEF Apply, n
  <2> QED
    BY <2>4, <2>9, <2>10
<1> QED
  BY <1>1, <1>2

\* A run resumes: the pages under way and the query under way are taken back.
LEMMA ResumedInv ==
  ASSUME NEW m, MemoryInv(m)
  PROVE  /\ MemoryInv(Resumed(m))
         /\ Resumed(m).active = {} /\ Resumed(m).query = NoQuery
         /\ Resumed(m).status = m.status
         /\ m.query # NoQuery => Resumed(m).performed < MaxQueries
<1> DEFINE n == Resumed(m)
           again == m.query # NoQuery
           seen == m.seen \ (m.active \cup {CanonicalOf(m, u) : u \in SourcesOf(m) \cap m.active})
           hashes == {BodyOf[u] : u \in m.hashed \ m.active}
           performed == IF again THEN Max({0, m.performed - 1}) ELSE m.performed
           queue == IF again THEN <<m.query>> \o m.queue ELSE m.queue
<1>0. /\ m \in Memory
      /\ m.pending \subseteq Url /\ m.active \subseteq Url /\ m.seen \subseteq Url
      /\ m.hashed \subseteq Url /\ m.query \in Query \cup {NoQuery} /\ m.done \subseteq Query
      /\ m.performed \in Nat /\ m.queue \in Seq(Query)
  BY DEF MemoryInv, Memory
<1>1. IsFiniteSet(m.done) /\ m.performed = Cardinality(m.done) /\ m.performed <= MaxQueries
      /\ (again => m.query \in m.done)
  BY DEF MemoryInv, CountersInv
<1>2. /\ performed \in Nat /\ performed = Cardinality(m.done \ {m.query})
      /\ IsFiniteSet(m.done \ {m.query})
      /\ performed <= MaxQueries /\ (again => performed < MaxQueries)
  <2>1. CASE again
    <3>1. Cardinality(m.done \ {m.query}) = m.performed - 1 /\ IsFiniteSet(m.done \ {m.query})
      BY <1>1, <2>1, FS_RemoveElement
    <3>2. Cardinality(m.done \ {m.query}) \in Nat
      BY <3>1, FS_CardinalityType
    <3>3. Max({0, m.performed - 1}) = m.performed - 1
      <4>1. 0 \in Int /\ m.performed - 1 \in Int /\ m.performed - 1 >= 0
        BY <1>0, <3>1, <3>2
      <4> DEFINE x == m.performed - 1
      <4> HIDE DEF x
      <4>2. x \in Int /\ x >= 0
        BY <4>1 DEF x
      <4>3. Max({0, x}) \in {0, x} /\ Max({0, x}) >= 0 /\ Max({0, x}) >= x
        BY <4>1, <4>2, MaxOfTwo
      <4>4. Max({0, x}) = x
        BY <4>2, <4>3
      <4> QED
        BY <4>4 DEF x
    <3> QED
      BY <1>0, <1>1, <2>1, <3>1, <3>2, <3>3, Limits
  <2>2. CASE ~again
    <3>1. m.done \ {m.query} = m.done
      BY <1>0, <2>2, ConstantsAssumption
    <3> QED
      BY <1>0, <1>1, <2>2, <3>1
  <2> QED
    BY <2>1, <2>2
<1>3. n \in Memory
  <2>1. queue \in Seq(Query)
    <3>1. again => <<m.query>> \in Seq(Query)
      BY <1>0
    <3> QED
      BY <1>0, <3>1, ConcatProperties
  <2>2. hashes \in SUBSET Range(BodyOf)
    BY <1>0, ConstantsAssumption DEF Range
  <2>3. /\ m.pending \cup m.active \in SUBSET Url /\ {} \in SUBSET Url /\ seen \in SUBSET Url
        /\ NoQuery \in Query \cup {NoQuery} /\ m.done \ {m.query} \in SUBSET Query
    BY <1>0
  <2>4. n = [m EXCEPT !.pending = m.pending \cup m.active, !.active = {}, !.seen = seen,
                      !.hashes = hashes, !.query = NoQuery, !.done = m.done \ {m.query},
                      !.performed = performed, !.queue = queue]
    BY <1>0 DEF Resumed, Memory
  <2> HIDE DEF n, again, seen, hashes, performed, queue
  <2> QED
    BY <1>0, <1>2, <2>1, <2>2, <2>3, <2>4 DEF Memory
<1>4. /\ n.pending = m.pending \cup m.active /\ n.active = {} /\ n.seen = seen
      /\ n.query = NoQuery /\ n.done = m.done \ {m.query} /\ n.performed = performed
      /\ n.status = m.status /\ n.fetched = m.fetched /\ n.hashed = m.hashed
      /\ n.counted = m.counted /\ n.applied = m.applied /\ n.rejected = m.rejected
      /\ n.results = m.results /\ n.limit = m.limit /\ n.receipts = m.receipts
  BY <1>0 DEF Resumed, Memory
<1> HIDE DEF n
<1>5. SourcesOf(n) = SourcesOf(m) /\ DealtWith(n) = DealtWith(m) /\ Cover(n) = Cover(m)
  BY <1>4 DEF SourcesOf, DealtWith, Cover
<1>6. CountersInv(n)
  <2> HIDE DEF performed, again
  <2> QED
    BY <1>2, <1>4, <1>5 DEF MemoryInv, CountersInv
<1>7. PagesInv(n)
  <2>1. ASSUME NEW v \in Url, Lone(v), n.status[v] \in Settled
        PROVE  v \in n.seen \ n.active
    <3>1. v \in m.seen \ m.active
      BY <1>4, <2>1 DEF MemoryInv, PagesInv
    <3>2. \A u \in SourcesOf(m) \cap m.active : CanonicalOf(m, u) # v
      BY <2>1, <3>1 DEF CanonicalOf, Lone, SourcesOf
    <3> QED
      BY <1>4, <3>1, <3>2
  <2>2. n.seen \subseteq DealtWith(n)
    <3>1. m.seen \subseteq m.active \cup DealtWith(m) \cup {FinalOf[u] : u \in m.active \cap m.hashed}
      BY DEF MemoryInv, PagesInv
    <3>2. \A u \in m.active \cap m.hashed :
            FinalOf[u] \in {CanonicalOf(m, v) : v \in SourcesOf(m) \cap m.active}
      BY DEF MemoryInv, PagesInv, CanonicalOf
    <3> QED
      BY <1>4, <1>5, <3>1, <3>2
  <2>3. \A v \in Url : n.status[v] = "extracted" => {<<v, 0>>} \cup ChunksOf(v) \subseteq n.applied
    BY <1>4 DEF MemoryInv, PagesInv
  <2> QED
    BY <1>4, <2>1, <2>2, <2>3 DEF PagesInv
<1>8. WholeQueries => SearchesInv(n)
  <2>1. n.done \ {n.query} \subseteq m.done \ {m.query}
    BY <1>4
  <2> QED
    BY <1>4, <1>5, <2>1 DEF MemoryInv, SearchesInv
<1> QED
  BY <1>2, <1>3, <1>4, <1>6, <1>7, <1>8 DEF MemoryInv, n

\* A query is taken up.
LEMMA PoppedInv ==
  ASSUME MemoryInv(mem), mem.query = NoQuery, mem.queue # <<>>,
         Head(mem.queue) \notin mem.done, mem.performed < MaxQueries,
         NEW limit \in 1 .. PerQuery, WholeQueries => limit = PerQuery
  PROVE  MemoryInv([mem EXCEPT !.queue = Tail(@), !.query = Head(mem.queue),
                               !.done = @ \cup {Head(mem.queue)}, !.performed = @ + 1,
                               !.limit = limit])
<1> DEFINE q == Head(mem.queue)
           n == [mem EXCEPT !.queue = Tail(@), !.query = q, !.done = @ \cup {q},
                            !.performed = @ + 1, !.limit = limit]
<1>0. /\ mem \in Memory /\ mem.queue \in Seq(Query) /\ mem.done \subseteq Query
      /\ mem.performed \in Nat
  BY DEF MemoryInv, Memory
<1>1. q \in Query /\ Tail(mem.queue) \in Seq(Query)
  BY <1>0, HeadTailProperties
<1>2. limit \in 0 .. PerQuery
  BY Limits
<1>3. n \in Memory
  <2> DEFINE rest == Tail(mem.queue)
             done == mem.done \cup {q}
             performed == mem.performed + 1
  <2>1. done \in SUBSET Query /\ performed \in Nat /\ rest \in Seq(Query) /\ q \in Query \cup {NoQuery}
    BY <1>0, <1>1
  <2>2. n = [mem EXCEPT !.queue = rest, !.query = q, !.done = done, !.performed = performed,
                        !.limit = limit]
    BY <1>0 DEF Memory
  <2> HIDE DEF n, q, rest, done, performed
  <2> QED
    BY <1>0, <1>2, <2>1, <2>2 DEF Memory
<1>4. /\ n.query = q /\ n.done = mem.done \cup {q} /\ n.performed = mem.performed + 1
      /\ n.limit = limit
      /\ n.pending = mem.pending /\ n.active = mem.active /\ n.seen = mem.seen
      /\ n.status = mem.status /\ n.fetched = mem.fetched /\ n.hashed = mem.hashed
      /\ n.counted = mem.counted /\ n.applied = mem.applied /\ n.rejected = mem.rejected
      /\ n.results = mem.results /\ n.receipts = mem.receipts
  BY <1>0 DEF Memory
<1> HIDE DEF n
<1>5. SourcesOf(n) = SourcesOf(mem) /\ DealtWith(n) = DealtWith(mem) /\ Cover(n) = Cover(mem)
  BY <1>4 DEF SourcesOf, DealtWith, Cover
<1>6. CountersInv(n)
  <2>1. IsFiniteSet(mem.done) /\ mem.performed = Cardinality(mem.done)
    BY DEF MemoryInv, CountersInv
  <2>2. IsFiniteSet(mem.done \cup {q}) /\ Cardinality(mem.done \cup {q}) = mem.performed + 1
    BY <2>1, FS_AddElement
  <2>3. mem.performed + 1 <= MaxQueries
    BY <1>0, Limits
  <2>4. n.query \in n.done
    BY <1>4
  <2> QED
    BY <1>4, <1>5, <2>2, <2>3, <2>4 DEF MemoryInv, CountersInv
<1>7. PagesInv(n)
  BY <1>4, <1>5 DEF MemoryInv, PagesInv
<1>8. ASSUME WholeQueries
      PROVE  SearchesInv(n)
  <2>1. NoQuery \notin mem.done
    BY <1>0, ConstantsAssumption
  <2>2. n.done \ {n.query} = mem.done \ {mem.query}
    BY <1>4, <2>1
  <2> QED
    BY <1>4, <1>5, <1>8, <2>2 DEF MemoryInv, SearchesInv
<1> QED
  BY <1>3, <1>6, <1>7, <1>8 DEF MemoryInv, n

\* The limit of the query under way is positive; under WholeQueries it is the
\* common one.
Underway(m) == m.query # NoQuery /\ m.limit # 0

\* The receipt of the query under way is written, dropped, or written anew.
LEMMA ReceiptInv ==
  ASSUME NEW m, NEW n \in Memory, MemoryInv(m), Underway(m),
         NEW completed \in BOOLEAN, NEW found \in SUBSET Url,
         n.receipts \in {WithReceipt(m, completed, found).receipts, WithoutReceipt(m).receipts},
         n.query = m.query, n.limit = m.limit,
         n.done = m.done, n.performed = m.performed,
         n.counted = m.counted, n.applied = m.applied, n.status = m.status,
         n.fetched = m.fetched, n.active = m.active, n.seen = m.seen, n.hashed = m.hashed,
         n.pending = m.pending, n.rejected = m.rejected,
         WholeQueries => \E k \in Nat : n.results = k * PerQuery
  PROVE  MemoryInv(n)
<1>0. m \in Memory
  BY DEF MemoryInv
<1>1. SourcesOf(n) = SourcesOf(m) /\ DealtWith(n) = DealtWith(m) /\ Cover(n) = Cover(m)
  BY DEF SourcesOf, DealtWith, Cover
<1>2. CountersInv(n)
  BY <1>1 DEF MemoryInv, CountersInv
<1>3. PagesInv(n)
  BY <1>1 DEF MemoryInv, PagesInv
<1> DEFINE new == [query |-> m.query, limit |-> m.limit, completed |-> completed, found |-> found]
<1>4. n.receipts \subseteq (m.receipts \ ReceiptsOf(m)) \cup {new}
  BY <1>0 DEF WithReceipt, WithoutReceipt, Memory
<1>5. ASSUME WholeQueries
      PROVE  SearchesInv(n)
  <2>1. m.limit = PerQuery /\ \A r \in m.receipts : r.limit = PerQuery
    BY <1>5 DEF MemoryInv, SearchesInv, Underway
  <2>2. \A r \in m.receipts \ ReceiptsOf(m) : r.query # m.query
    BY <2>1 DEF ReceiptsOf
  <2>3. new.query = m.query /\ new.limit = PerQuery
    BY <2>1
  <2>4. \A r \in n.receipts : r.limit = PerQuery
    BY <1>4, <2>1, <2>3
  <2>5. \A r, s \in n.receipts : r.query = s.query => r = s
    <3> TAKE r, s \in n.receipts
    <3> HAVE r.query = s.query
    <3>1. (r \in m.receipts /\ s \in m.receipts) \/ (r = new /\ s = new)
      <4> HIDE DEF new
      <4> QED
        BY <1>4, <2>2, <2>3
    <3> QED
      BY <3>1, <1>5 DEF MemoryInv, SearchesInv
  <2>6. ASSUME NEW r \in n.receipts, r.completed, r.query \in n.done \ {n.query}
        PROVE  r.found \subseteq Cover(n)
    <3>1. r \in m.receipts
      <4> HIDE DEF new
      <4> QED
        BY <1>4, <2>3, <2>6
    <3> QED
      BY <1>1, <1>5, <2>6, <3>1 DEF MemoryInv, SearchesInv
  <2> QED
    BY <1>5, <2>1, <2>4, <2>5, <2>6 DEF SearchesInv
<1> QED
  BY <1>2, <1>3, <1>5 DEF MemoryInv

\* The query under way is over, and its answer, if it has one, is pending.
LEMMA QueryOver ==
  ASSUME NEW m, NEW n \in Memory, MemoryInv(m),
         n.query = NoQuery, n.limit = m.limit, n.results = m.results,
         n.receipts = m.receipts, n.done = m.done, n.performed = m.performed,
         n.counted = m.counted, n.applied = m.applied, n.status = m.status,
         n.fetched = m.fetched, n.active = m.active, n.seen = m.seen, n.hashed = m.hashed,
         m.pending \subseteq n.pending, n.rejected = m.rejected,
         WholeQueries => \A r \in m.receipts :
           r.completed /\ r.query = m.query => r.found \subseteq n.pending
  PROVE  MemoryInv(n)
<1>1. SourcesOf(n) = SourcesOf(m) /\ DealtWith(n) = DealtWith(m) /\ Cover(m) \subseteq Cover(n)
      /\ n.pending \subseteq Cover(n)
  BY DEF SourcesOf, DealtWith, Cover
<1>2. CountersInv(n)
  BY <1>1 DEF MemoryInv, CountersInv
<1>3. PagesInv(n)
  BY <1>1 DEF MemoryInv, PagesInv
<1>4. ASSUME WholeQueries
      PROVE  SearchesInv(n)
  <2>1. ASSUME NEW r \in n.receipts, r.completed, r.query \in n.done \ {n.query}
        PROVE  r.found \subseteq Cover(n)
    <3>1. CASE r.query = m.query
      BY <1>1, <1>4, <2>1, <3>1
    <3>2. CASE r.query # m.query
      BY <1>1, <1>4, <2>1, <3>2 DEF MemoryInv, SearchesInv
    <3> QED
      BY <3>1, <3>2
  <2> QED
    BY <1>4, <2>1 DEF MemoryInv, SearchesInv
<1> QED
  BY <1>2, <1>3, <1>4 DEF MemoryInv

-----------------------------------------------------------------------------
(* Lemmas: the steps.                                                      *)

\* What the memory is made of.
LEMMA Typed ==
  ASSUME NEW m, MemoryInv(m)
  PROVE  /\ m \in Memory
         /\ m.queue \in Seq(Query) /\ m.done \subseteq Query /\ m.performed \in Nat
         /\ m.query \in Query \cup {NoQuery} /\ m.limit \in 0 .. PerQuery
         /\ m.planned \subseteq SUBSET Chunk
         /\ m.calls \in 0 .. MaxCalls /\ m.results \in 0 .. MaxResults
         /\ m.receipts \subseteq Receipt
         /\ m.pending \subseteq Url /\ m.active \subseteq Url /\ m.seen \subseteq Url
         /\ m.hashes \subseteq Range(BodyOf) /\ m.rejected \subseteq Url /\ m.validated \subseteq Url
         /\ m.status \in [Url -> Status] /\ m.hashed \subseteq Url
         /\ m.applied \subseteq Chunk /\ m.noNew \in Nat
         /\ m.performed <= MaxQueries
BY DEF MemoryInv, Memory, CountersInv

\* What was concluded of a page, to which no other redirects, stands in m.
Stands(m) ==
  \A u \in Url : Lone(u) /\ mem.status[u] \in Settled => m.status[u] = mem.status[u]

\* What every step does.
Advance == ResearchInv' /\ Stands(mem')

\* Memory and checkpoint are right, and agree on what was concluded.
LEMMA Assemble ==
  ASSUME MemoryInv(mem'), MemoryInv(disk'), mem'.status = disk'.status,
         mem'.status = mem.status \/ Stands(mem'),
         LocalsOK', PlaceInv', AnswerInv'
  PROVE  Advance
BY DEF Advance, Stands, ResearchInv, StatusSaved, MemoryInv, CountersInv, PagesInv, SearchesInv,
   SourcesOf, DealtWith, Cover

\* What was done stays, in memory and in the checkpoint.
LEMMA Reframed ==
  ASSUME ResearchInv, mem' \in Memory, SameWork(mem, mem'),
         WholeQueries => Cover(mem) \subseteq Cover(mem'),
         disk' \in {disk, mem, mem'},
         LocalsOK', PlaceInv', AnswerInv'
  PROVE  Advance
<1>1. MemoryInv(mem')
  BY Framed DEF ResearchInv
<1>2. mem'.status = disk'.status /\ mem'.status = mem.status
  BY DEF ResearchInv, StatusSaved, SameWork
<1> QED
  BY <1>1, <1>2, Assemble DEF ResearchInv

\* Between runs the locals are reset.
LEMMA IdleLocals ==
  ASSUME LocalsOK, Idle, at' = "down", runs' = runs
  PROVE  LocalsOK'
<1>1. <<>> \in Seq(Url)
  OBVIOUS
<1>2. "none" \in StopReason /\ 0 \in 0 .. PerQuery /\ 0 \in Nat /\ {} \subseteq Url
  BY Limits DEF StopReason
<1> QED
  BY <1>1, <1>2 DEF LocalsOK, Idle

\* An interruption: a run is down, with what m holds.
LEMMA OutageStep ==
  ASSUME ResearchInv, NEW m, MemoryInv(m), Stands(m), Outage(m)
  PROVE  Advance
<1>1. MemoryInv(mem') /\ MemoryInv(disk') /\ mem'.status = disk'.status /\ mem' = m
  BY DEF Outage, Save
<1>2. LocalsOK'
  BY IdleLocals DEF ResearchInv, Outage
<1>3. PlaceInv' /\ AnswerInv'
  BY DEF PlaceInv, AnswerInv, Outage, Idle
<1> QED
  BY <1>1, <1>2, <1>3, Assemble

\* The end of the research, with what m holds.
LEMMA FinishStep ==
  ASSUME ResearchInv, NEW m, MemoryInv(m), NEW reason \in StopReason, Finish(m, reason),
         m.performed = mem.performed, m.status = mem.status,
         MemoryInv(disk'), disk'.status = m.status,
         reason \in Exhausted => m.pending = {} /\ m.active = {}
  PROVE  Advance
<1>1. MemoryInv(mem') /\ mem'.status = disk'.status /\ mem'.status = mem.status
  BY DEF Finish
<1>2. LocalsOK'
  BY DEF ResearchInv, LocalsOK, Finish
<1>3. PlaceInv' /\ AnswerInv'
  BY DEF ResearchInv, PlaceInv, AnswerInv, Finish
<1> QED
  BY <1>1, <1>2, <1>3, Assemble

\* A request that failed for good or may have been paid for, or a limit.
LEMMA GiveUpStep ==
  ASSUME ResearchInv, NEW m, MemoryInv(m), m.performed = mem.performed,
         m.status = mem.status, GiveUp(m)
  PROVE  Advance
<1>1. PICK reason \in {"PROVIDER_RESPONSE_UNCERTAIN", "BUDGET"} : Finish(m, reason)
  BY DEF GiveUp
<1>2. MemoryInv(disk') /\ disk'.status = m.status
  BY <1>1 DEF GiveUp, Save, Finish
<1>3. reason \in StopReason /\ reason \notin Exhausted
  BY DEF StopReason, Exhausted
<1> QED
  BY <1>1, <1>2, <1>3, FinishStep

\* A process dies and a run resumes.
LEMMA DownStep ==
  ASSUME ResearchInv, Begin \/ Crash \/ Ended
  PROVE  Advance
<1> USE DEF ResearchInv
<1>1. CASE Begin
  <2>1. MemoryInv(disk) /\ mem' = Resumed(disk) /\ disk' = disk
    BY <1>1 DEF Begin
  <2>2. /\ MemoryInv(mem') /\ mem'.active = {} /\ mem'.query = NoQuery
        /\ mem'.status = disk'.status /\ mem'.status = mem.status
        /\ (disk.query # NoQuery => mem'.performed < MaxQueries)
    BY <2>1, ResumedInv DEF StatusSaved
  <2>3. disk.limit \in 0 .. PerQuery /\ (WholeQueries => disk.limit \in {0, PerQuery})
    BY <2>1, Typed DEF MemoryInv, SearchesInv
  <2>4. LocalsOK'
    BY <1>1, <2>3, Limits DEF LocalsOK, Begin
  <2>5. PlaceInv' /\ AnswerInv'
    BY <1>1, <2>2, <2>3 DEF PlaceInv, AnswerInv, Begin
  <2> QED
    BY <2>1, <2>2, <2>4, <2>5, Assemble
<1>2. CASE Crash
  <2>1. MemoryInv(mem') /\ MemoryInv(disk') /\ mem'.status = disk'.status /\ mem'.status = mem.status
    BY <1>2 DEF Crash, StatusSaved
  <2>2. LocalsOK'
    BY <1>2, IdleLocals DEF Crash
  <2>3. PlaceInv' /\ AnswerInv'
    BY <1>2 DEF PlaceInv, AnswerInv, Crash, Idle
  <2> QED
    BY <2>1, <2>2, <2>3, Assemble
<1>3. CASE Ended
  <2>1. MemoryInv(mem') /\ MemoryInv(disk') /\ mem'.status = disk'.status /\ mem'.status = mem.status
    BY <1>3 DEF Ended, Save
  <2>2. LocalsOK'
    BY <1>3 DEF LocalsOK, Ended, locals
  <2>3. PlaceInv' /\ AnswerInv'
    BY <1>3 DEF PlaceInv, AnswerInv, Ended, locals
  <2> QED
    BY <2>1, <2>2, <2>3, Assemble
<1> QED
  BY <1>1, <1>2, <1>3

\* Steps that move on without changing memory.
LEMMA ControlStep ==
  ASSUME ResearchInv, SuppliedRound \/ NoSuppliedRound \/ RoundEnds \/ PendingRound
                      \/ NothingPending \/ QueriesGoOn
  PROVE  Advance
<1>1. mem' = mem /\ disk' = disk
  BY DEF SuppliedRound, NoSuppliedRound, RoundEnds, PendingRound, NothingPending, QueriesGoOn, GoTo
<1>2. MemoryInv(mem') /\ MemoryInv(disk') /\ mem'.status = disk'.status /\ mem'.status = mem.status
  BY <1>1 DEF ResearchInv, StatusSaved
<1>3. LocalsOK'
  <2>1. CASE SuppliedRound \/ PendingRound
    <3>1. Supplied \subseteq Url /\ mem.pending \subseteq Url
      BY Typed, ConstantsAssumption DEF ResearchInv
    <3> QED
      BY <2>1, <3>1 DEF ResearchInv, LocalsOK, SuppliedRound, PendingRound, Round
  <2>2. CASE RoundEnds
    <3>1. <<>> \in Seq(Url)
      OBVIOUS
    <3> QED
      BY <2>2, <3>1 DEF ResearchInv, LocalsOK, RoundEnds
  <2>3. CASE NoSuppliedRound \/ NothingPending \/ QueriesGoOn
    BY <2>3 DEF ResearchInv, LocalsOK, NoSuppliedRound, NothingPending, QueriesGoOn, GoTo, locals
  <2> QED
    BY <2>1, <2>2, <2>3
<1>4. PlaceInv'
  <2>1. CASE SuppliedRound \/ NoSuppliedRound \/ RoundEnds \/ PendingRound
    BY <2>1, <1>1 DEF ResearchInv, PlaceInv, SuppliedRound, NoSuppliedRound, RoundEnds, PendingRound,
       Round, locals
  <2>2. CASE NothingPending
    BY <2>2, <1>1 DEF ResearchInv, PlaceInv, NothingPending, GoTo, locals
  <2>3. CASE QueriesGoOn
    <3>1. retryLimit # 0 \/ (mem.performed < MaxQueries /\ mem.results < MaxResults)
      <4>1. mem.performed \in Nat /\ mem.results \in Nat
        BY Typed DEF ResearchInv
      <4> QED
        BY <2>3, <4>1, Limits DEF QueriesGoOn, SearchLimit
    <3> QED
      BY <2>3, <3>1, <1>1 DEF ResearchInv, PlaceInv, QueriesGoOn, GoTo, locals
  <2> QED
    BY <2>1, <2>2, <2>3
<1>5. AnswerInv'
  BY <1>1 DEF ResearchInv, AnswerInv, SuppliedRound, NoSuppliedRound, RoundEnds, PendingRound,
     NothingPending, QueriesGoOn, Round, GoTo, locals
<1> QED
  BY <1>2, <1>3, <1>4, <1>5, Assemble

\* Steps that end the research where it is.
LEMMA EndStep ==
  ASSUME ResearchInv, LoopEnds \/ QueriesEnd \/ ValidationFails \/ SearchRefused \/ SearchUncertain
  PROVE  Advance
<1>0. MemoryInv(mem) /\ MemoryInv(disk) /\ disk.status = mem.status
  BY DEF ResearchInv, StatusSaved
<1>1. CASE LoopEnds
  <2>1. PICK reason \in StopReasons(mem, mem.pending = {}) \ {"none"} : Finish(mem, reason)
    BY <1>1 DEF LoopEnds
  <2>2. reason \in StopReason \ Exhausted
    BY <2>1 DEF StopReasons, HardStop, StopReason, Exhausted
  <2> QED
    BY <1>0, <1>1, <2>1, <2>2, FinishStep DEF LoopEnds
<1>2. CASE QueriesEnd
  <2>1. Finish(mem, SearchLimit) /\ SearchLimit # "none" /\ disk' = disk
    BY <1>2 DEF QueriesEnd
  <2>2. SearchLimit \in StopReason \ Exhausted
    BY <2>1 DEF SearchLimit, StopReason, Exhausted
  <2> QED
    BY <1>0, <2>1, <2>2, FinishStep
<1>3. ASSUME NEW reason \in {"BUDGET", "PROVIDER_FAILED"}, Finish(mem, reason), Save
      PROVE  Advance
  <2>1. disk' = mem
    BY <1>3 DEF Finish, Save
  <2>2. reason \in StopReason \ Exhausted
    BY <1>3 DEF StopReason, Exhausted
  <2> QED
    BY <1>0, <1>3, <2>1, <2>2, FinishStep
<1>4. Outage(mem) => Advance
  BY <1>0, OutageStep DEF Stands
<1>5. GiveUp(mem) => Advance
  BY <1>0, GiveUpStep
<1> QED
  BY <1>1, <1>2, <1>3, <1>4, <1>5 DEF ValidationFails, SearchRefused, SearchUncertain

\* While no page is under way, what was seen was dealt with.
LEMMA SeenIsCovered ==
  ASSUME ResearchInv, mem.active = {}
  PROVE  mem.seen \subseteq DealtWith(mem)
BY DEF ResearchInv, MemoryInv, PagesInv

\* Candidates drop out only if they were seen or refused.
LEMMA AdmitStep ==
  ASSUME ResearchInv, Admit
  PROVE  Advance
<1> DEFINE known == mem.seen \cup mem.rejected
           candidates == batch \ known
           pending == (mem.pending \ known) \cup candidates
<1>0. /\ mem \in Memory /\ batch \subseteq Url /\ mem.pending \subseteq Url
      /\ mem.active = {} /\ mem.query = NoQuery
  BY Typed DEF ResearchInv, LocalsOK, PlaceInv, Admit
<1>1. mem' = [mem EXCEPT !.pending = pending]
  BY <1>0 DEF Admit, Memory
<1>2. mem' \in Memory
  <2>1. pending \in SUBSET Url
    BY <1>0
  <2> HIDE DEF pending
  <2> QED
    BY <1>0, <1>1, <2>1 DEF Memory
<1>3. /\ mem'.pending = pending /\ mem'.rejected = mem.rejected /\ SameWork(mem, mem')
      /\ mem'.active = {} /\ mem'.query = NoQuery
  BY <1>0, <1>1 DEF Memory, SameWork
<1>4. Cover(mem) \subseteq Cover(mem')
  <2>1. DealtWith(mem') = DealtWith(mem)
    BY <1>3 DEF DealtWith, SameWork
  <2> QED
    BY <1>0, <1>3, <2>1, SeenIsCovered DEF Cover
<1>5. disk' \in {disk, mem, mem'}
  BY DEF Admit, Save
<1>6. CASE candidates = {}
  <2>1. NoneSelected
    BY <1>6 DEF Admit
  <2>2. LocalsOK'
    BY <2>1 DEF ResearchInv, LocalsOK, NoneSelected
  <2>3. PlaceInv'
    BY <1>3, <2>1 DEF ResearchInv, PlaceInv, NoneSelected, SameWork
  <2>4. AnswerInv'
    BY <2>1 DEF ResearchInv, AnswerInv, NoneSelected
  <2> QED
    BY <1>2, <1>3, <1>4, <1>5, <2>2, <2>3, <2>4, Reframed
<1>7. CASE candidates # {}
  <2>1. /\ batch' \subseteq candidates /\ at' = "validate"
        /\ UNCHANGED <<selected, caller, before, retryLimit, unavailable, stop, runs>>
    BY <1>7 DEF Admit
  <2>2. LocalsOK'
    BY <1>0, <2>1 DEF ResearchInv, LocalsOK
  <2>3. PlaceInv'
    BY <1>3, <2>1 DEF ResearchInv, PlaceInv, SameWork
  <2>4. AnswerInv'
    BY <2>1 DEF ResearchInv, AnswerInv
  <2> QED
    BY <1>2, <1>3, <1>4, <1>5, <2>2, <2>3, <2>4, Reframed
<1> QED
  BY <1>6, <1>7

\* Those that are refused are accounted for as that.
LEMMA ValidateStep ==
  ASSUME ResearchInv, NEW refused \in SUBSET batch, Validate(refused)
  PROVE  Advance
<1> DEFINE eligible == batch \ refused
           ranked == Picked(Ranking, {i \in DOMAIN Ranking : Ranking[i] \in eligible})
           pending == mem.pending \ refused
           rejected == mem.rejected \cup refused
           validated == mem.validated \cup eligible
<1>0. /\ mem \in Memory /\ batch \subseteq Url /\ mem.pending \subseteq Url
      /\ mem.rejected \subseteq Url /\ mem.validated \subseteq Url
      /\ mem.active = {} /\ mem.query = NoQuery
  BY Typed DEF ResearchInv, LocalsOK, PlaceInv, Validate
<1>1. mem' = [mem EXCEPT !.pending = pending, !.rejected = rejected, !.validated = validated]
  BY <1>0 DEF Validate, Memory
<1>2. mem' \in Memory
  <2>1. pending \in SUBSET Url /\ rejected \in SUBSET Url /\ validated \in SUBSET Url
    BY <1>0
  <2> HIDE DEF pending, rejected, validated
  <2> QED
    BY <1>0, <1>1, <2>1 DEF Memory
<1>3. /\ mem'.pending = pending /\ mem'.rejected = rejected /\ SameWork(mem, mem')
      /\ mem'.active = {} /\ mem'.query = NoQuery
  BY <1>0, <1>1 DEF Memory, SameWork
<1>4. Cover(mem) \subseteq Cover(mem')
  <2>1. DealtWith(mem') = DealtWith(mem)
    BY <1>3 DEF DealtWith, SameWork
  <2> QED
    BY <1>3, <2>1 DEF Cover, SameWork
<1>5. disk' = disk
  BY DEF Validate
<1>6. CASE eligible = {}
  <2>1. NoneSelected
    BY <1>6 DEF Validate
  <2>2. LocalsOK'
    BY <2>1 DEF ResearchInv, LocalsOK, NoneSelected
  <2>3. PlaceInv'
    BY <1>3, <2>1 DEF ResearchInv, PlaceInv, NoneSelected, SameWork
  <2>4. AnswerInv'
    BY <2>1 DEF ResearchInv, AnswerInv, NoneSelected
  <2> QED
    BY <1>2, <1>3, <1>4, <1>5, <2>2, <2>3, <2>4, Reframed
<1>7. CASE eligible # {}
  <2>1. /\ selected' \in {ranked, Take(ranked, PerRound)} /\ batch' = {} /\ at' = "round"
        /\ UNCHANGED <<caller, before, retryLimit, unavailable, stop, runs>>
    BY <1>7 DEF Validate
  <2>2. selected' \in Seq(Url)
    <3>1. Ranking \in Seq(Url)
      BY ConstantsAssumption
    <3>2. ranked \in Seq(Url)
      <4> DEFINE places == {i \in DOMAIN Ranking : Ranking[i] \in eligible}
      <4>1. places \in SUBSET (DOMAIN Ranking)
        OBVIOUS
      <4> HIDE DEF places
      <4>2. Picked(Ranking, places) \in Seq(Url)
        BY <3>1, <4>1, PickedType
      <4> QED
        BY <4>2 DEF places
    <3> HIDE DEF ranked
    <3>3. Take(ranked, PerRound) \in Seq(Url)
      BY <3>2, TakeType, Limits
    <3> QED
      BY <2>1, <3>2, <3>3
  <2>3. LocalsOK'
    <3> HIDE DEF ranked
    <3> QED
      BY <2>1, <2>2 DEF ResearchInv, LocalsOK
  <2>4. PlaceInv'
    BY <1>3, <2>1 DEF ResearchInv, PlaceInv, SameWork
  <2>5. AnswerInv'
    BY <2>1 DEF ResearchInv, AnswerInv
  <2> QED
    BY <1>2, <1>3, <1>4, <1>5, <2>3, <2>4, <2>5, Reframed
<1> QED
  BY <1>6, <1>7

\* There are finitely many chunks, so that evidence can be counted.
LEMMA EvidenceCounts ==
  ASSUME NEW m, m.applied \subseteq Chunk
  PROVE  Cardinality(Evidence(m)) \in Nat
<1> DEFINE S == {Chunks[v] : v \in Url}
<1>1. IsFiniteSet(Chunk)
  <2>1. CASE Url = {}
    <3>1. Chunk = {}
      BY <2>1 DEF Chunk
    <3> QED
      BY <3>1, FS_EmptySet
  <2>2. CASE Url # {}
    <3>1. IsFiniteSet(S) /\ S \in SUBSET Int /\ S # {}
      <4>1. Chunks \in Surjection(Url, S)
        BY ConstantsAssumption DEF Surjection
      <4>2. IsFiniteSet(S)
        BY <4>1, ConstantsAssumption, FS_Surjection
      <4> QED
        BY <2>2, <4>2, ConstantsAssumption
    <3>2. Max(S) \in Int
      <4> HIDE DEF S
      <4> QED
        BY <3>1, MaxExists
    <3>3. IsFiniteSet(0 .. Max(S))
      <4> DEFINE top == Max(S)
      <4>1. top \in Int /\ 0 \in Int
        BY <3>2
      <4> HIDE DEF top
      <4>2. IsFiniteSet(0 .. top)
        BY <4>1, FS_Interval
      <4> QED
        BY <4>2 DEF top
    <3> DEFINE N == 0 .. Max(S)
    <3>4. Chunk = {<<v, i>> : v \in Url, i \in N}
      BY DEF Chunk
    <3> HIDE DEF N
    <3>5. Chunk = Url \X N
      BY <3>4
    <3>6. IsFiniteSet(N)
      BY <3>3 DEF N
    <3> QED
      BY <3>5, <3>6, FS_Product, ConstantsAssumption
  <2> QED
    BY <2>1, <2>2
<1>2. Evidence(m) \in SUBSET Chunk
  BY DEF Evidence
<1> QED
  BY <1>1, <1>2, FS_Subset, FS_CardinalityType

\* What holds when the next page of a round is taken.
LEMMA NextPageFacts ==
  ASSUME ResearchInv, NEW u \in Url, NextPage(u)
  PROVE  /\ MemoryInv(mem) /\ mem \in Memory /\ mem.active = {} /\ mem.query = NoQuery
         /\ at = "round" /\ selected # <<>> /\ selected \in Seq(Url) /\ u = Head(selected)
         /\ Tail(selected) \in Seq(Url)
BY Typed DEF ResearchInv, LocalsOK, PlaceInv, NextPage

\* A page was concluded of, from m.
LEMMA LeaveStep ==
  ASSUME ResearchInv, NEW u \in Url, NEW m, Leave(u, m), MemoryInv(mem'), Stands(mem'),
         mem'.active = {}, mem'.query = NoQuery, mem'.performed = mem.performed,
         selected # <<>>, unavailable' \in BOOLEAN
  PROVE  Advance
<1>1. LocalsOK'
  BY DEF ResearchInv, LocalsOK, Leave
<1>2. PlaceInv' /\ AnswerInv'
  BY DEF ResearchInv, PlaceInv, AnswerInv, Leave
<1>3. disk' = mem'
  BY DEF Leave, Save
<1> QED
  BY <1>1, <1>2, <1>3, Assemble

\* A page that is skipped was seen.
LEMMA SkipPageStep ==
  ASSUME ResearchInv, NEW u \in Url, SkipPage(u)
  PROVE  Advance
<1> DEFINE pending == mem.pending \ {u}
<1>0. /\ MemoryInv(mem) /\ mem \in Memory /\ mem.active = {} /\ mem.query = NoQuery
      /\ at = "round" /\ selected # <<>> /\ Tail(selected) \in Seq(Url)
      /\ u \in mem.seen /\ mem.pending \subseteq Url
  BY NextPageFacts, Typed DEF SkipPage
<1>1. mem' = [mem EXCEPT !.pending = pending]
  BY <1>0 DEF SkipPage, Memory
<1>2. mem' \in Memory
  <2>1. pending \in SUBSET Url
    BY <1>0
  <2> HIDE DEF pending
  <2> QED
    BY <1>0, <1>1, <2>1 DEF Memory
<1>3. mem'.pending = pending /\ mem'.rejected = mem.rejected /\ SameWork(mem, mem')
  BY <1>0, <1>1 DEF Memory, SameWork
<1>4. Cover(mem) \subseteq Cover(mem')
  <2>1. DealtWith(mem') = DealtWith(mem)
    BY <1>3 DEF DealtWith, SameWork
  <2> QED
    BY <1>0, <1>3, <2>1, SeenIsCovered DEF Cover
<1>5. LocalsOK'
  BY <1>0 DEF ResearchInv, LocalsOK, SkipPage
<1>6. PlaceInv' /\ AnswerInv'
  BY <1>0, <1>3 DEF ResearchInv, PlaceInv, AnswerInv, SkipPage, SameWork
<1> QED
  BY <1>2, <1>3, <1>4, <1>5, <1>6, Reframed DEF SkipPage

\* A page that was concluded of is seen, and not begun again.
LEMMA BegunStands ==
  ASSUME ResearchInv, NEW u \in Url, u \notin mem.seen
  PROVE  /\ Stands(Begun(u))
         /\ Lone(u) => mem.status[u] \notin Settled
<1>1. mem \in Memory /\ mem.status \in [Url -> Status]
  BY Typed DEF ResearchInv
<1>2. \A v \in Url \ {u} : Begun(u).status[v] = mem.status[v]
  BY <1>1 DEF Begun, Memory
<1>3. Lone(u) => mem.status[u] \notin Settled
  BY DEF ResearchInv, MemoryInv, PagesInv
<1> QED
  BY <1>2, <1>3 DEF Stands

\* A page that does not arrive is concluded of.
LEMMA PageFailsStep ==
  ASSUME ResearchInv, NEW u \in Url, NEW landed \in BOOLEAN, PageFails(u, landed)
  PROVE  Advance
<1> DEFINE b == Begun(u)
           seen == IF landed THEN b.seen \cup {FinalOf[u]} ELSE b.seen
           status == [b.status EXCEPT ![u] = "failed"]
<1>0. /\ MemoryInv(mem) /\ mem \in Memory /\ mem.active = {} /\ mem.query = NoQuery
      /\ selected # <<>> /\ u \notin mem.seen
  BY NextPageFacts DEF PageFails
<1>1. MemoryInv(b) /\ b.active = {u}
  BY <1>0, BegunInv
<1>2. /\ b \in Memory /\ b.seen \subseteq Url /\ b.status \in [Url -> Status]
  BY <1>1, Typed
<1>3. b.query = mem.query /\ b.performed = mem.performed
  BY <1>0 DEF Begun, Memory
<1> HIDE DEF b
<1>4. mem' = [b EXCEPT !.active = {}, !.status = status, !.seen = seen]
  BY <1>1, <1>2 DEF PageFails, Leave, Memory, b
<1>5. mem' \in Memory
  <2>1. /\ seen \in SUBSET Url /\ status \in [Url -> Status] /\ {} \in SUBSET Url
    BY <1>2, ConstantsAssumption DEF Status
  <2> HIDE DEF seen, status
  <2> QED
    BY <1>2, <1>4, <2>1 DEF Memory
<1>6. /\ mem'.active = {} /\ mem'.status = status /\ mem'.seen = seen
      /\ mem'.done = b.done /\ mem'.performed = b.performed /\ mem'.query = b.query
      /\ mem'.counted = b.counted /\ mem'.applied = b.applied /\ mem'.fetched = b.fetched
      /\ mem'.pending = b.pending /\ mem'.rejected = b.rejected
      /\ mem'.results = b.results /\ mem'.limit = b.limit /\ mem'.receipts = b.receipts
  BY <1>2, <1>4 DEF Memory
<1>7. MemoryInv(mem')
  <2>1. "failed" \in Settled /\ "failed" # "extracted"
    BY DEF Settled, Status
  <2>2. seen \in {b.seen, b.seen \cup {FinalOf[u]}}
    OBVIOUS
  <2> HIDE DEF seen
  <2> QED
    BY <1>1, <1>5, <1>6, <2>1, <2>2, Concluded
<1>8. Stands(mem')
  BY <1>0, <1>2, <1>6, BegunStands DEF Stands, b
<1> QED
  BY <1>0, <1>3, <1>6, <1>7, <1>8, LeaveStep DEF PageFails, ResearchInv, LocalsOK

\* A page whose fetch is interrupted is under way in the checkpoint.
LEMMA PageOutageStep ==
  ASSUME ResearchInv, NEW u \in Url, PageOutage(u)
  PROVE  Advance
<1>1. MemoryInv(Begun(u))
  BY NextPageFacts, BegunInv DEF PageOutage
<1> QED
  BY <1>1, BegunStands, OutageStep DEF PageOutage

\* A page that arrives is under way, and so is what it redirects to.
LEMMA PageArrivesStep ==
  ASSUME ResearchInv, NEW u \in Url, PageArrives(u)
  PROVE  Advance
<1> DEFINE b == Begun(u)
           seen == b.seen \cup {FinalOf[u]}
           hashed == b.hashed \cup {u}
           status == [b.status EXCEPT ![u] = "processed"]
<1>0. /\ MemoryInv(mem) /\ mem \in Memory /\ mem.active = {} /\ mem.query = NoQuery
      /\ selected # <<>> /\ u = Head(selected) /\ u \notin mem.seen
  BY NextPageFacts DEF PageArrives
<1>1. MemoryInv(b) /\ b.active = {u}
  BY <1>0, BegunInv
<1>2. /\ b \in Memory /\ b.seen \subseteq Url /\ b.hashed \subseteq Url
      /\ b.status \in [Url -> Status]
  BY <1>1, Typed
<1>3. b.query = mem.query /\ b.performed = mem.performed
  BY <1>0 DEF Begun, Memory
<1> HIDE DEF b
<1>4. mem' = [b EXCEPT !.seen = seen, !.hashed = hashed, !.status = status]
  BY <1>1, <1>2 DEF PageArrives, Memory, b
<1>5. mem' \in Memory
  <2>1. seen \in SUBSET Url /\ hashed \in SUBSET Url /\ status \in [Url -> Status]
    BY <1>2, ConstantsAssumption DEF Status
  <2> HIDE DEF seen, hashed, status
  <2> QED
    BY <1>2, <1>4, <2>1 DEF Memory
<1>6. /\ mem'.active = {u} /\ mem'.status = status /\ mem'.seen = seen /\ mem'.hashed = hashed
      /\ mem'.done = b.done /\ mem'.performed = b.performed /\ mem'.query = b.query
      /\ mem'.counted = b.counted /\ mem'.applied = b.applied /\ mem'.fetched = b.fetched
      /\ mem'.pending = b.pending /\ mem'.rejected = b.rejected
      /\ mem'.results = b.results /\ mem'.limit = b.limit /\ mem'.receipts = b.receipts
  BY <1>1, <1>2, <1>4 DEF Memory
<1>7. MemoryInv(mem')
  BY <1>1, <1>5, <1>6, Arrived
<1>8. LocalsOK'
  <2>1. Cardinality(Evidence(mem)) \in Nat
    BY <1>0, Typed, EvidenceCounts
  <2> QED
    BY <2>1 DEF ResearchInv, LocalsOK, PageArrives
<1>9. PlaceInv' /\ AnswerInv'
  BY <1>0, <1>3, <1>6 DEF ResearchInv, PlaceInv, AnswerInv, PageArrives
<1>10. disk' = mem'
  BY DEF PageArrives, Save
<1>11. Stands(mem')
  BY <1>0, <1>2, <1>6, BegunStands DEF Stands, b
<1> QED
  BY <1>7, <1>8, <1>9, <1>10, <1>11, Assemble

\* What holds while a page is under way.
LEMMA UnderWayFacts ==
  ASSUME ResearchInv, NEW u \in Url, at \in {"judge", "extract"}, u = Head(selected)
  PROVE  /\ MemoryInv(mem) /\ mem \in Memory /\ mem.active = {u} /\ mem.query = NoQuery
         /\ selected # <<>> /\ selected \in Seq(Url) /\ Tail(selected) \in Seq(Url)
BY Typed DEF ResearchInv, LocalsOK, PlaceInv

\* The page under way is concluded of; hashes and streak may change with it.
LEMMA ConcludedStep ==
  ASSUME ResearchInv, NEW u \in Url, at \in {"judge", "extract"}, u = Head(selected),
         NEW s \in Settled, s = "extracted" => {<<u, 0>>} \cup ChunksOf(u) \subseteq mem.applied,
         NEW hashes \in SUBSET Range(BodyOf), NEW noNew \in Nat,
         NEW m, m = [mem EXCEPT !.hashes = hashes, !.noNew = noNew, !.status[u] = s],
         Leave(u, m),
         unavailable' \in BOOLEAN
  PROVE  Advance
<1> DEFINE status == [mem.status EXCEPT ![u] = s]
<1>0. /\ MemoryInv(mem) /\ mem \in Memory /\ mem.active = {u} /\ mem.query = NoQuery
      /\ selected # <<>> /\ mem.status \in [Url -> Status]
  BY UnderWayFacts, Typed
<1>1. mem' = [mem EXCEPT !.hashes = hashes, !.noNew = noNew, !.status = status, !.active = {}]
  BY <1>0 DEF Leave, Memory
<1>2. mem' \in Memory
  <2>1. status \in [Url -> Status] /\ {} \in SUBSET Url
    BY <1>0 DEF Settled
  <2> HIDE DEF status
  <2> QED
    BY <1>0, <1>1, <2>1 DEF Memory
<1>3. /\ mem'.active = {} /\ mem'.status = status /\ mem'.seen = mem.seen
      /\ mem'.done = mem.done /\ mem'.performed = mem.performed /\ mem'.query = mem.query
      /\ mem'.counted = mem.counted /\ mem'.applied = mem.applied /\ mem'.fetched = mem.fetched
      /\ mem'.pending = mem.pending /\ mem'.rejected = mem.rejected
      /\ mem'.results = mem.results /\ mem'.limit = mem.limit /\ mem'.receipts = mem.receipts
  BY <1>0, <1>1 DEF Memory
<1>4. MemoryInv(mem')
  BY <1>0, <1>2, <1>3, Concluded
<1>5. Stands(mem')
  <2>1. Lone(u) => mem.status[u] \notin Settled
    BY <1>0 DEF MemoryInv, PagesInv
  <2> QED
    BY <1>0, <1>3, <2>1 DEF Stands
<1> QED
  BY <1>0, <1>3, <1>4, <1>5, LeaveStep

\* What was applied of a page is kept in mind as a chunk of its own.
LEMMA JudgeStep ==
  ASSUME ResearchInv, NEW u \in Url, Judge(u)
  PROVE  Advance
<1> DEFINE hashes == mem.hashes \cup {BodyOf[u]}
           m == [mem EXCEPT !.hashes = @ \cup {BodyOf[u]}]
<1>0. /\ MemoryInv(mem) /\ mem \in Memory /\ mem.active = {u} /\ mem.query = NoQuery
      /\ selected # <<>> /\ selected \in Seq(Url) /\ mem.hashes \subseteq Range(BodyOf)
      /\ mem.noNew \in Nat /\ at = "judge" /\ u = Head(selected) /\ unavailable' = unavailable
      /\ unavailable \in BOOLEAN
  BY UnderWayFacts, Typed DEF Judge, ResearchInv, LocalsOK
<1>1. hashes \in SUBSET Range(BodyOf)
  BY <1>0, ConstantsAssumption DEF Range
<1>2. CASE Leave(u, [mem EXCEPT !.status[u] = "duplicate"])
  <2> DEFINE d == [mem EXCEPT !.status[u] = "duplicate"]
  <2>1. d = [mem EXCEPT !.hashes = mem.hashes, !.noNew = mem.noNew, !.status[u] = "duplicate"]
    BY <1>0 DEF Memory
  <2>2. "duplicate" \in Settled /\ "duplicate" # "extracted"
    BY DEF Settled, Status
  <2>3. Leave(u, d)
    BY <1>2
  <2> HIDE DEF d
  <2> QED
    BY <1>0, <2>1, <2>2, <2>3, ConcludedStep
<1>3. CASE Leave(u, [mem EXCEPT !.hashes = @ \cup {BodyOf[u]}, !.status[u] = "identity_rejected"])
  <2> DEFINE d == [mem EXCEPT !.hashes = @ \cup {BodyOf[u]}, !.status[u] = "identity_rejected"]
  <2>1. d = [mem EXCEPT !.hashes = hashes, !.noNew = mem.noNew, !.status[u] = "identity_rejected"]
    BY <1>0 DEF Memory
  <2>2. "identity_rejected" \in Settled /\ "identity_rejected" # "extracted"
    BY DEF Settled, Status
  <2>3. Leave(u, d)
    BY <1>3
  <2> HIDE DEF d, hashes
  <2> QED
    BY <1>0, <1>1, <2>1, <2>2, <2>3, ConcludedStep
<1>4. CASE /\ mem' = Apply(m, <<u, 0>>) /\ Save /\ at' = "extract"
           /\ UNCHANGED <<batch, selected, caller, before, retryLimit, stop, runs>>
  <2>1. m \in Memory
    <3>1. m = [mem EXCEPT !.hashes = hashes]
      BY <1>0 DEF Memory
    <3> HIDE DEF hashes, m
    <3> QED
      BY <1>0, <1>1, <3>1 DEF Memory
  <2>2. /\ SameWork(mem, m) /\ m.pending = mem.pending /\ m.rejected = mem.rejected
    BY <1>0 DEF Memory, SameWork
  <2> HIDE DEF m
  <2>3. MemoryInv(m)
    <3>1. Cover(mem) = Cover(m)
      BY <2>2 DEF Cover, DealtWith, SameWork
    <3> QED
      BY <1>0, <2>1, <2>2, <3>1, Framed
  <2>4. <<u, 0>> \in Chunk
    BY ChunksAreChunks
  <2>5. /\ MemoryInv(mem') /\ mem'.active = {u} /\ <<u, 0>> \in mem'.applied
        /\ mem'.performed = mem.performed /\ mem'.query = NoQuery /\ mem'.status = mem.status
    BY <1>0, <1>4, <2>2, <2>3, <2>4, ApplyInv DEF SameWork
  <2>6. LocalsOK'
    BY <1>0, <1>4 DEF ResearchInv, LocalsOK
  <2>7. PlaceInv' /\ AnswerInv'
    BY <1>0, <1>4, <2>5 DEF ResearchInv, PlaceInv, AnswerInv
  <2>8. disk' = mem'
    BY <1>4 DEF Save
  <2> QED
    BY <2>5, <2>6, <2>7, <2>8, Assemble
<1> QED
  BY <1>2, <1>3, <1>4 DEF Judge

\* The chunk that is applied is one of those left.
LEMMA ApplyChunkStep ==
  ASSUME ResearchInv, NEW u \in Url, ApplyChunk(u)
  PROVE  Advance
<1> DEFINE chunk == CHOOSE k \in Left(u) : \A l \in Left(u) : k[2] <= l[2]
           places == {i \in 1 .. Chunks[u] : <<u, i>> \in Left(u)}
<1>0. /\ MemoryInv(mem) /\ mem \in Memory /\ mem.active = {u} /\ mem.query = NoQuery
      /\ at = "extract" /\ u = Head(selected) /\ selected # <<>> /\ selected \in Seq(Url)
      /\ Left(u) # {} /\ <<u, 0>> \in mem.applied
  BY UnderWayFacts DEF ApplyChunk, ResearchInv, PlaceInv
<1>1. PICK i \in places : \A j \in places : i <= j
  <2>1. places \in SUBSET Int /\ places # {}
    BY <1>0 DEF Left, ChunksOf
  <2>2. IsFiniteSet(places)
    <3>1. Chunks[u] \in Int /\ 1 \in Int
      BY ConstantsAssumption
    <3>2. IsFiniteSet(1 .. Chunks[u])
      BY <3>1, FS_Interval
    <3>3. places \in SUBSET (1 .. Chunks[u])
      OBVIOUS
    <3> QED
      BY <3>2, <3>3, FS_Subset
  <2> HIDE DEF places
  <2> QED
    BY <2>1, <2>2, LeastExists
<1>2. \E k \in Left(u) : \A l \in Left(u) : k[2] <= l[2]
  <2>1. <<u, i>> \in Left(u)
    OBVIOUS
  <2>2. \A l \in Left(u) : l[2] \in places
    BY DEF Left, ChunksOf
  <2> QED
    BY <1>1, <2>1, <2>2
<1>3. chunk \in Left(u)
  BY <1>2
<1>4. chunk \in Chunk
  BY <1>3, ChunksAreChunks DEF Left
<1>5. mem' = Apply(mem, chunk) /\ disk' = mem' /\ UNCHANGED <<at, locals, runs>>
  BY DEF ApplyChunk, Save
<1> HIDE DEF chunk
<1>6. /\ MemoryInv(mem') /\ mem'.active = {u} /\ <<u, 0>> \in mem'.applied
      /\ mem'.performed = mem.performed /\ mem'.query = NoQuery /\ mem'.status = mem.status
  BY <1>0, <1>4, <1>5, ApplyInv
<1>7. LocalsOK'
  BY <1>5 DEF ResearchInv, LocalsOK, locals
<1>8. PlaceInv' /\ AnswerInv'
  BY <1>0, <1>5, <1>6 DEF ResearchInv, PlaceInv, AnswerInv, locals
<1> QED
  BY <1>5, <1>6, <1>7, <1>8, Assemble

\* The streak is a number.
LEMMA StreakType ==
  ASSUME MemoryInv(mem), NEW u, NEW completed \in BOOLEAN
  PROVE  Streak(u, completed) \in Nat
<1>1. mem.noNew \in Nat
  BY Typed
<1> QED
  BY <1>1 DEF Streak

\* A page is extracted when all its chunks are applied.
LEMMA ExtractedStep ==
  ASSUME ResearchInv, NEW u \in Url, Extracted(u)
  PROVE  Advance
<1> DEFINE s == Streak(u, TRUE)
<1>0. /\ MemoryInv(mem) /\ mem \in Memory
      /\ at = "extract" /\ u = Head(selected) /\ Left(u) = {} /\ <<u, 0>> \in mem.applied
      /\ mem.hashes \in SUBSET Range(BodyOf) /\ unavailable' \in BOOLEAN
  BY UnderWayFacts, Typed DEF Extracted, ResearchInv, PlaceInv, LocalsOK
<1>1. s \in Nat
  BY <1>0, StreakType
<1>2. Leave(u, [mem EXCEPT !.status[u] = "extracted", !.noNew = s])
  BY DEF Extracted
<1> HIDE DEF s
<1>3. [mem EXCEPT !.status[u] = "extracted", !.noNew = s]
        = [mem EXCEPT !.hashes = mem.hashes, !.noNew = s, !.status[u] = "extracted"]
  BY <1>0 DEF Memory
<1>4. {<<u, 0>>} \cup ChunksOf(u) \subseteq mem.applied
  BY <1>0 DEF Left
<1>5. "extracted" \in Settled
  BY DEF Settled, Status
<1> QED
  BY <1>0, <1>1, <1>2, <1>3, <1>4, <1>5, ConcludedStep

\* A chunk that fails ends the page, or the run.
LEMMA ExtractionFailsStep ==
  ASSUME ResearchInv, NEW u \in Url, NEW denied \in BOOLEAN, ExtractionFails(u, denied)
  PROVE  Advance
<1> DEFINE s == Streak(u, FALSE)
           m == [mem EXCEPT !.noNew = s]
<1>0. /\ MemoryInv(mem) /\ mem \in Memory
      /\ at = "extract" /\ u = Head(selected)
      /\ mem.hashes \in SUBSET Range(BodyOf) /\ unavailable \in BOOLEAN
  BY UnderWayFacts, Typed DEF ExtractionFails, ResearchInv, LocalsOK
<1>1. s \in Nat
  BY <1>0, StreakType
<1>2. \/ Leave(u, [m EXCEPT !.status[u] = "extraction_failed"]) /\ unavailable' \in BOOLEAN
      \/ Outage(m) \/ GiveUp(m)
  BY <1>0 DEF ExtractionFails
<1> HIDE DEF s
<1>3. m \in Memory
  BY <1>0, <1>1 DEF Memory
<1>4. SameWork(mem, m) /\ m.pending = mem.pending /\ m.rejected = mem.rejected
  BY <1>0 DEF Memory, SameWork
<1>5. [m EXCEPT !.status[u] = "extraction_failed"]
        = [mem EXCEPT !.hashes = mem.hashes, !.noNew = s, !.status[u] = "extraction_failed"]
  BY <1>0 DEF Memory
<1> HIDE DEF m
<1>6. MemoryInv(m)
  <2>1. Cover(mem) = Cover(m)
    BY <1>4 DEF Cover, DealtWith, SameWork
  <2> QED
    BY <1>0, <1>3, <1>4, <2>1, Framed
<1>7. "extraction_failed" \in Settled /\ "extraction_failed" # "extracted"
  BY DEF Settled, Status
<1>8. CASE Leave(u, [m EXCEPT !.status[u] = "extraction_failed"]) /\ unavailable' \in BOOLEAN
  <2> DEFINE d == [m EXCEPT !.status[u] = "extraction_failed"]
  <2>1. Leave(u, d) /\ unavailable' \in BOOLEAN
    BY <1>8
  <2>2. d = [mem EXCEPT !.hashes = mem.hashes, !.noNew = s, !.status[u] = "extraction_failed"]
    BY <1>5
  <2> HIDE DEF d
  <2> QED
    BY <1>0, <1>1, <1>7, <2>1, <2>2, ConcludedStep
<1>9. CASE Outage(m)
  BY <1>4, <1>6, <1>9, OutageStep DEF SameWork, Stands
<1>10. CASE GiveUp(m)
  BY <1>4, <1>6, <1>10, GiveUpStep DEF SameWork
<1> QED
  BY <1>2, <1>8, <1>9, <1>10

\* Only the queue, and what decides what goes into it, changes.
QueueOnly(m, n) ==
  n \in Memory /\ SameWork(m, n) /\ n.pending = m.pending /\ n.rejected = m.rejected

\* What was done stays with it.
LEMMA QueueKept ==
  ASSUME NEW m, NEW n, MemoryInv(m), QueueOnly(m, n)
  PROVE  MemoryInv(n) /\ Cover(m) = Cover(n)
<1>1. Cover(m) = Cover(n)
  BY DEF QueueOnly, Cover, DealtWith, SameWork
<1> QED
  BY <1>1, Framed DEF QueueOnly

\* A step among the queries; where it leads is fit for it.
LEMMA GoToStep ==
  ASSUME ResearchInv, NEW n, QueueOnly(mem, n), NEW place \in {"loop", "pop", "plan", "queries"},
         GoTo(place, n), disk' \in {disk, mem, mem'},
         at \in {"loop", "queries", "plan", "pop", "empty", "unselected"},
         place \in {"pop", "plan"} =>
           retryLimit # 0 \/ (mem.performed < MaxQueries /\ mem.results < MaxResults),
         place = "pop" => n.queue # <<>>,
         place = "queries" => n.pending = {} \/ n.queue # <<>>,
         place = "plan" => n.pending = {}
  PROVE  Advance
<1>1. mem' = n /\ at' = place /\ UNCHANGED <<locals, runs>>
  BY DEF GoTo
<1>2. mem' \in Memory /\ SameWork(mem, mem')
  BY <1>1 DEF QueueOnly
<1>3. Cover(mem) \subseteq Cover(mem')
  BY <1>1, QueueKept DEF ResearchInv
<1>4. LocalsOK'
  BY <1>1 DEF ResearchInv, LocalsOK, locals
<1>5. PlaceInv'
  BY <1>1, <1>2 DEF ResearchInv, PlaceInv, locals, SameWork
<1>6. AnswerInv'
  BY <1>1 DEF ResearchInv, AnswerInv, locals
<1> QED
  BY <1>2, <1>3, <1>4, <1>5, <1>6, Reframed

\* The research ends among the queries.
LEMMA QueueEndStep ==
  ASSUME ResearchInv, NEW n, QueueOnly(mem, n), NEW reason \in StopReason, Finish(n, reason),
         disk' \in {disk, mem, mem'},
         reason \in Exhausted => mem.pending = {} /\ mem.active = {}
  PROVE  Advance
<1>1. MemoryInv(n) /\ mem' = n
  BY QueueKept DEF ResearchInv, Finish
<1>2. n.performed = mem.performed /\ n.pending = mem.pending /\ n.active = mem.active
      /\ n.status = mem.status
  BY DEF QueueOnly, SameWork
<1>3. MemoryInv(disk') /\ disk'.status = n.status
  BY <1>1, <1>2 DEF ResearchInv, StatusSaved
<1> QED
  BY <1>1, <1>2, <1>3, FinishStep

\* The capacity for searches is a number.
LEMMA CapacityType ==
  ASSUME NEW m, MemoryInv(m)
  PROVE  Capacity(m) \in Nat
<1> DEFINE results == MaxResults - m.results
           calls == (results + PerQuery - 1) \div PerQuery
           a == MaxQueries - m.performed
           b == MaxCalls - m.calls
<1>0. m.performed \in Nat /\ m.calls \in Int /\ m.results \in Int
  BY Typed
<1>1. results \in Int /\ a \in Int /\ b \in Int
  BY <1>0, Limits
<1>2. calls \in Int
  <2> DEFINE x == results + PerQuery - 1
  <2>1. x \in Int /\ PerQuery \in Nat /\ PerQuery >= 1
    BY <1>1, Limits
  <2> HIDE DEF x
  <2>2. x \div PerQuery \in Int
    BY <2>1
  <2> QED
    BY <2>2 DEF x
<1> HIDE DEF calls, a, b
<1>3. Min({a, b, calls}) \in Int
  BY <1>1, <1>2, MinOfThree
<1>4. Max({0, Min({a, b, calls})}) \in Nat
  <2> DEFINE x == Min({a, b, calls})
  <2>1. x \in Int /\ 0 \in Int
    BY <1>3
  <2> HIDE DEF x
  <2>2. Max({0, x}) \in {0, x} /\ Max({0, x}) >= 0
    BY <2>1, MaxOfTwo
  <2>3. Max({0, x}) \in Nat
    BY <2>1, <2>2
  <2> QED
    BY <2>3 DEF x
<1> QED
  BY <1>4 DEF Capacity, a, b, calls

\* What is taken of the fresh ones among some queries, within some capacity.
LEMMA TakenQueries ==
  ASSUME NEW m, NEW queries \in Seq(Query), NEW room \in Int
  PROVE  /\ FreshQueries(m, queries) \in Seq(Query)
         /\ Take(FreshQueries(m, queries), Max({0, room})) \in Seq(Query)
<1> DEFINE places == {i \in DOMAIN queries : queries[i] \notin m.done}
<1>1. FreshQueries(m, queries) = Picked(queries, places)
  BY DEF FreshQueries
<1>2. places \in SUBSET (DOMAIN queries)
  OBVIOUS
<1> HIDE DEF places
<1>3. FreshQueries(m, queries) \in Seq(Query)
  BY <1>1, <1>2, PickedType
<1>4. Max({0, room}) \in Nat
  <2>1. 0 \in Int
    OBVIOUS
  <2>2. Max({0, room}) \in {0, room} /\ Max({0, room}) >= 0
    BY <2>1, MaxOfTwo
  <2> QED
    BY <2>2
<1> QED
  BY <1>3, <1>4, TakeType

\* Recovery adds queries.
LEMMA RecoveringKeeps ==
  ASSUME NEW m, MemoryInv(m)
  PROVE  QueueOnly(m, Recovering(m)) /\ QueueOnly(m, m)
<1> DEFINE wikipedia == IF Capacity(m) >= 2 /\ WikipediaIsMissing(m) THEN 1 ELSE 0
           room == Capacity(m) - wikipedia
           more == Take(FreshQueries(m, FallbackQuery), Max({0, room}))
           queue == m.queue \o more
<1>0. m \in Memory /\ m.queue \in Seq(Query) /\ room \in Int
  BY Typed, CapacityType
<1>1. more \in Seq(Query)
  <2> HIDE DEF room
  <2> QED
    BY <1>0, TakenQueries, ConstantsAssumption
<1> HIDE DEF more
<1>2. queue \in Seq(Query)
  BY <1>0, <1>1, ConcatProperties
<1>3. QueueOnly(m, m)
  BY <1>0 DEF QueueOnly, SameWork
<1>4. CASE ~m.fallback
  <2> DEFINE n == [m EXCEPT !.fallback = TRUE, !.queue = queue]
  <2>1. Recovering(m) = n
    BY <1>0, <1>4 DEF Recovering, more, Memory
  <2> HIDE DEF queue
  <2>2. n \in Memory
    BY <1>0, <1>2 DEF Memory
  <2>3. SameWork(m, n) /\ n.pending = m.pending /\ n.rejected = m.rejected
    BY <1>0 DEF Memory, SameWork
  <2> QED
    BY <1>3, <2>1, <2>2, <2>3 DEF QueueOnly
<1>5. CASE m.fallback
  BY <1>3, <1>5 DEF Recovering
<1> QED
  BY <1>4, <1>5

\* So does asking for Wikipedia.
LEMMA AskWikipediaKeeps ==
  ASSUME NEW m, NEW n, MemoryInv(m), QueueOnly(m, n)
  PROVE  QueueOnly(m, AskWikipedia(n)) /\ AskWikipedia(n).queue # <<>>
<1> DEFINE queue == Append(n.queue, WikipediaQuery)
           a == [n EXCEPT !.wikipedia = TRUE, !.queue = queue]
<1>0. n \in Memory /\ n.queue \in Seq(Query)
  BY DEF QueueOnly, Memory
<1>1. queue \in Seq(Query) /\ queue # <<>>
  <2>1. WikipediaQuery \in Query
    BY ConstantsAssumption
  <2> QED
    BY <1>0, <2>1, AppendProperties
<1>2. AskWikipedia(n) = a
  BY <1>0 DEF AskWikipedia, Memory
<1> HIDE DEF queue
<1>3. a \in Memory
  BY <1>0, <1>1 DEF Memory
<1>4. SameWork(n, a) /\ a.pending = n.pending /\ a.rejected = n.rejected /\ a.queue = queue
  BY <1>0 DEF Memory, SameWork
<1> QED
  BY <1>1, <1>2, <1>3, <1>4 DEF QueueOnly, SameWork

\* What holds when the queue is empty.
LEMMA RefillFacts ==
  ASSUME ResearchInv, NEW m, Refill(m)
  PROVE  /\ QueueOnly(mem, m) /\ MemoryInv(m) /\ at = "queries" /\ disk' = disk
         /\ mem.pending = {} /\ mem.active = {} /\ m.pending = {}
         /\ retryLimit # 0 \/ (mem.performed < MaxQueries /\ mem.results < MaxResults)
<1>1. m \in {mem, Recovering(mem)} /\ at = "queries" /\ mem.queue = <<>> /\ disk' = disk
      /\ SearchLimit = "none"
  BY DEF Refill
<1>2. QueueOnly(mem, m)
  BY <1>1, RecoveringKeeps DEF ResearchInv
<1>3. mem.pending = {} /\ mem.active = {}
  BY <1>1 DEF ResearchInv, PlaceInv
<1>4. retryLimit # 0 \/ (mem.performed < MaxQueries /\ mem.results < MaxResults)
  <2>1. mem.performed \in Nat /\ mem.results \in Nat
    BY Typed DEF ResearchInv
  <2> QED
    BY <1>1, <2>1, Limits DEF SearchLimit
<1> QED
  BY <1>1, <1>2, <1>3, <1>4, QueueKept DEF ResearchInv, QueueOnly

\* A targeted query is put first.
LEMMA AskTargetedStep ==
  ASSUME ResearchInv, NEW q \in FieldQuery, AskTargeted(q)
  PROVE  Advance
<1> DEFINE queue == <<q>> \o mem.queue
           n == [mem EXCEPT !.queue = queue]
<1>0. mem \in Memory /\ mem.queue \in Seq(Query) /\ q \in Query
  BY Typed, ConstantsAssumption DEF ResearchInv
<1>1. queue \in Seq(Query) /\ queue # <<>>
  <2>1. <<q>> \in Seq(Query)
    BY <1>0
  <2>2. Len(queue) = Len(<<q>>) + Len(mem.queue) /\ queue \in Seq(Query)
    BY <1>0, <2>1, ConcatProperties
  <2>3. Len(<<q>>) = 1 /\ Len(mem.queue) \in Nat
    BY <1>0, LenProperties
  <2> QED
    BY <2>2, <2>3, EmptySeq
<1>2. GoTo("queries", n) /\ at = "loop" /\ disk' = disk
  BY <1>0 DEF AskTargeted, Memory
<1> HIDE DEF queue
<1>3. QueueOnly(mem, n) /\ n.queue = queue
  BY <1>0, <1>1 DEF Memory, QueueOnly, SameWork
<1> HIDE DEF n
<1> QED
  BY <1>1, <1>2, <1>3, GoToStep

\* Recovery goes back to the loop.
LEMMA RecoverStep ==
  ASSUME ResearchInv, Recover
  PROVE  Advance
<1>1. QueueOnly(mem, Recovering(mem))
  BY RecoveringKeeps DEF ResearchInv
<1> QED
  BY <1>1, GoToStep DEF Recover

\* A queue of one query.
LEMMA OneQuery ==
  ASSUME NEW m, QueueOnly(mem, m), NEW q \in Query, NEW role \in BOOLEAN
  PROVE  QueueOnly(mem, [m EXCEPT !.role = role, !.queue = <<q>>])
<1>1. <<q>> \in Seq(Query) /\ m \in Memory
  BY DEF QueueOnly
<1> DEFINE queue == <<q>>
           n == [m EXCEPT !.role = role, !.queue = queue]
<1> HIDE DEF queue
<1>2. n \in Memory
  BY <1>1 DEF Memory, queue
<1>3. SameWork(m, n) /\ n.pending = m.pending /\ n.rejected = m.rejected
  BY <1>1 DEF Memory, SameWork
<1> HIDE DEF n
<1>4. QueueOnly(mem, n)
  BY <1>2, <1>3 DEF QueueOnly, SameWork
<1> QED
  BY <1>4 DEF n, queue

\* The query for a role is the only one.
LEMMA AskRoleStep ==
  ASSUME ResearchInv, AskRole
  PROVE  Advance
<1>1. PICK m \in {mem, Recovering(mem)} :
        Refill(m) /\ GoTo("loop", [m EXCEPT !.role = TRUE, !.queue = <<RoleQuery>>])
  BY DEF AskRole
<1>2. QueueOnly(mem, m) /\ at = "queries" /\ disk' = disk
  BY <1>1, RefillFacts
<1>3. QueueOnly(mem, [m EXCEPT !.role = TRUE, !.queue = <<RoleQuery>>])
  BY <1>2, OneQuery, ConstantsAssumption
<1> QED
  BY <1>1, <1>2, <1>3, GoToStep

\* So is the one for a field.
LEMMA AskFieldStep ==
  ASSUME ResearchInv, NEW q \in FieldQuery, AskField(q)
  PROVE  Advance
<1>1. PICK m \in {mem, Recovering(mem)} :
        Refill(m) /\ GoTo("loop", [m EXCEPT !.queue = <<q>>])
  BY DEF AskField
<1>2. QueueOnly(mem, m) /\ at = "queries" /\ disk' = disk /\ q \in Query
  BY <1>1, RefillFacts, ConstantsAssumption
<1>3. QueueOnly(mem, [m EXCEPT !.queue = <<q>>])
  <2>1. m \in Memory /\ m.role \in BOOLEAN
    BY <1>2 DEF QueueOnly, Memory
  <2>2. [m EXCEPT !.queue = <<q>>] = [m EXCEPT !.role = m.role, !.queue = <<q>>]
    BY <2>1 DEF Memory
  <2> QED
    BY <1>2, <2>1, <2>2, OneQuery
<1> QED
  BY <1>1, <1>2, <1>3, GoToStep

\* What is exhausted has nothing pending.
LEMMA ExhaustStep ==
  ASSUME ResearchInv, Exhaust
  PROVE  Advance
<1>1. PICK m \in {mem, Recovering(mem)} :
        Refill(m) /\ Finish(m, IF m.performed >= MaxQueries THEN "MAX_QUERIES"
                               ELSE "DISCOVERY_EXHAUSTED")
  BY DEF Exhaust
<1>2. PICK reason \in {"MAX_QUERIES", "DISCOVERY_EXHAUSTED"} : Finish(m, reason)
  BY <1>1
<1>3. reason \in StopReason
  BY DEF StopReason, Exhausted
<1> QED
  BY <1>1, <1>2, <1>3, RefillFacts, QueueEndStep

\* A plan is asked for when nothing is pending.
LEMMA PlanStep ==
  ASSUME ResearchInv, Plan
  PROVE  Advance
<1>1. PICK m \in {mem, Recovering(mem)} : Refill(m) /\ GoTo("plan", m)
  BY DEF Plan
<1> QED
  BY <1>1, RefillFacts, GoToStep

\* Planned queries within the capacity; without any, research ends.
LEMMA PlannedStep ==
  ASSUME ResearchInv, NEW planned \in {<<>>, FreshQueries(mem, PlanQuery)},
         NEW important \in BOOLEAN, Planned(planned, important)
  PROVE  Advance
<1> DEFINE wikipedia == /\ important /\ WikipediaIsMissing(mem) /\ Capacity(mem) > 0
                        /\ Capacity(mem) >= 2 \/ planned = <<>>
           room == Capacity(mem) - (IF wikipedia THEN 1 ELSE 0)
           queue == Take(planned, Max({0, room}))
           plans == mem.planned \cup {Evidence(mem)}
           m == [mem EXCEPT !.queue = queue, !.planned = plans]
           next == IF wikipedia /\ MayAskWikipedia(m) THEN AskWikipedia(m) ELSE m
<1>0. /\ MemoryInv(mem) /\ mem \in Memory /\ room \in Int /\ mem.planned \subseteq SUBSET Chunk
      /\ mem.applied \subseteq Chunk /\ at = "plan"
      /\ mem.pending = {} /\ mem.active = {}
      /\ retryLimit # 0 \/ (mem.performed < MaxQueries /\ mem.results < MaxResults)
  BY Typed, CapacityType DEF ResearchInv, PlaceInv, Planned
<1>1. queue \in Seq(Query)
  <2> HIDE DEF room
  <2>1. PlanQuery \in Seq(Query) /\ <<>> \in Seq(Query)
    BY ConstantsAssumption
  <2>2. CASE planned = FreshQueries(mem, PlanQuery)
    BY <1>0, <2>1, <2>2, TakenQueries
  <2>3. CASE planned = <<>>
    <3>1. Max({0, room}) \in Nat
      <4>1. 0 \in Int
        OBVIOUS
      <4>2. Max({0, room}) \in {0, room} /\ Max({0, room}) >= 0
        BY <1>0, <4>1, MaxOfTwo
      <4> QED
        BY <1>0, <4>2
    <3> QED
      BY <2>1, <2>3, <3>1, TakeType
  <2> QED
    BY <2>2, <2>3
<1>2. plans \in SUBSET SUBSET Chunk
  BY <1>0 DEF Evidence
<1>3. /\ IF next.queue = <<>>
         THEN Finish(next, IF next.performed >= MaxQueries THEN "MAX_QUERIES"
                           ELSE "DISCOVERY_EXHAUSTED")
         ELSE GoTo("pop", next)
      /\ disk' = mem'
  BY DEF Planned, Save
<1> HIDE DEF queue, plans
<1>4. QueueOnly(mem, m)
  <2>1. m \in Memory
    BY <1>0, <1>1, <1>2 DEF Memory
  <2>2. SameWork(mem, m) /\ m.pending = mem.pending /\ m.rejected = mem.rejected
    BY <1>0 DEF Memory, SameWork
  <2> QED
    BY <2>1, <2>2 DEF QueueOnly
<1> HIDE DEF m, wikipedia
<1>5. QueueOnly(mem, next)
  BY <1>0, <1>4, AskWikipediaKeeps
<1> HIDE DEF next
<1>6. CASE next.queue = <<>>
  <2>1. PICK reason \in {"MAX_QUERIES", "DISCOVERY_EXHAUSTED"} : Finish(next, reason)
    BY <1>3, <1>6
  <2>2. reason \in StopReason
    BY DEF StopReason, Exhausted
  <2> QED
    BY <1>0, <1>3, <1>5, <2>1, <2>2, QueueEndStep
<1>7. CASE next.queue # <<>>
  BY <1>0, <1>3, <1>5, <1>7, GoToStep
<1> QED
  BY <1>6, <1>7

\* A plan that fails leaves Wikipedia to ask, or ends the run.
LEMMA PlanFailsStep ==
  ASSUME ResearchInv, NEW denied \in BOOLEAN, PlanFails(denied)
  PROVE  Advance
<1> DEFINE n == AskWikipedia(mem)
<1>0. /\ MemoryInv(mem) /\ QueueOnly(mem, mem) /\ at = "plan" /\ unavailable \in BOOLEAN
      /\ mem.active = {} /\ mem.query = NoQuery
  BY RecoveringKeeps DEF ResearchInv, PlaceInv, LocalsOK, PlanFails
<1>1. QueueOnly(mem, n)
  BY <1>0, AskWikipediaKeeps
<1>2. CASE Outage(mem)
  BY <1>0, <1>2, OutageStep DEF Stands
<1>3. CASE GiveUp(mem)
  BY <1>0, <1>3, GiveUpStep
<1> HIDE DEF n
<1>4. CASE /\ mem' = n /\ at' = "loop" /\ disk' = mem
           /\ unavailable' = (unavailable \/ denied)
           /\ UNCHANGED <<batch, selected, caller, before, retryLimit, stop, runs>>
  <2>1. LocalsOK'
    BY <1>0, <1>4 DEF ResearchInv, LocalsOK
  <2>2. PlaceInv' /\ AnswerInv'
    BY <1>0, <1>1, <1>4 DEF ResearchInv, PlaceInv, AnswerInv, QueueOnly, SameWork
  <2> QED
    BY <1>0, <1>1, <1>4, <2>1, <2>2, QueueKept, Reframed DEF QueueOnly
<1>5. CASE Finish(mem, "PROVIDER_FAILED") /\ Save
  <2>1. "PROVIDER_FAILED" \in StopReason \ Exhausted
    BY DEF StopReason, Exhausted
  <2>2. disk' = mem'
    BY <1>5 DEF Save
  <2> QED
    BY <1>0, <1>5, <2>1, <2>2, QueueEndStep
<1> QED
  BY <1>2, <1>3, <1>4, <1>5 DEF PlanFails, n

\* A query that was performed already is dropped.
LEMMA PopDoneStep ==
  ASSUME ResearchInv, PopDone
  PROVE  Advance
<1> DEFINE queue == Tail(mem.queue)
           n == [mem EXCEPT !.queue = Tail(@), !.query = NoQuery]
<1>0. /\ mem \in Memory /\ mem.query = NoQuery /\ mem.queue \in Seq(Query) /\ mem.queue # <<>>
      /\ at = "pop"
  BY Typed DEF ResearchInv, PlaceInv, PopDone
<1>1. queue \in Seq(Query)
  BY <1>0, HeadTailProperties
<1>2. n = [mem EXCEPT !.queue = queue]
  BY <1>0 DEF Memory
<1> HIDE DEF queue, n
<1>3. n \in Memory
  BY <1>0, <1>1, <1>2 DEF Memory
<1>4. SameWork(mem, n) /\ n.pending = mem.pending /\ n.rejected = mem.rejected
  BY <1>0, <1>2 DEF Memory, SameWork
<1>5. QueueOnly(mem, n)
  BY <1>3, <1>4 DEF QueueOnly
<1>6. GoTo("loop", n) /\ disk' = disk
  BY DEF PopDone, n
<1> QED
  BY <1>0, <1>5, <1>6, GoToStep

\* Research goes on, or ends for want of anything to do.
LEMMA NothingFoundStep ==
  ASSUME ResearchInv, NothingFound
  PROVE  Advance
<1> DEFINE m == Recovering(mem)
           n == AskWikipedia(m)
<1>0. /\ MemoryInv(mem) /\ at \in {"empty", "unselected"} /\ disk' = disk /\ mem.active = {}
  BY DEF ResearchInv, PlaceInv, NothingFound
<1>1. QueueOnly(mem, mem) /\ QueueOnly(mem, m) /\ QueueOnly(mem, n)
  BY <1>0, RecoveringKeeps, AskWikipediaKeeps
<1>2. \/ GoTo("loop", mem) \/ GoTo("loop", m) \/ GoTo("loop", n)
      \/ \E reason \in {"NO_SEARCH_CITATIONS", "NO_SELECTED_SOURCES"} :
           Finish(m, reason) /\ mem.pending = {}
  BY DEF NothingFound
<1> HIDE DEF m, n
<1>3. CASE GoTo("loop", mem) \/ GoTo("loop", m) \/ GoTo("loop", n)
  BY <1>0, <1>1, <1>3, GoToStep
<1>4. ASSUME NEW reason \in {"NO_SEARCH_CITATIONS", "NO_SELECTED_SOURCES"},
             Finish(m, reason), mem.pending = {}
      PROVE  Advance
  <2>1. reason \in StopReason
    BY DEF StopReason, Exhausted
  <2> QED
    BY <1>0, <1>1, <1>4, <2>1, QueueEndStep
<1> QED
  BY <1>2, <1>3, <1>4

\* With whole searches left there is room for another one.
LEMMA RoomForOne ==
  ASSUME WholeQueries, NEW k \in Nat, k * PerQuery < MaxResults
  PROVE  k * PerQuery + PerQuery <= MaxResults
<1>1. PICK n \in Nat : MaxResults = n * PerQuery
  BY DEF WholeQueries
<1>2. PerQuery \in Nat /\ PerQuery >= 1
  BY Limits
<1>3. k < n
  <2> SUFFICES ASSUME k >= n PROVE FALSE
    OBVIOUS
  <2>1. PICK d \in Nat : k = n + d
    <3>1. k - n \in Nat /\ k = n + (k - n)
      OBVIOUS
    <3> QED
      BY <3>1
  <2>2. k * PerQuery = n * PerQuery + d * PerQuery /\ d * PerQuery >= 0
    BY <1>2, <2>1
  <2>3. n * PerQuery \in Nat /\ d * PerQuery \in Nat
    BY <1>2
  <2> QED
    BY <1>1, <2>2, <2>3
<1>4. PICK d \in Nat : n = k + 1 + d
  <2>1. n - k - 1 \in Nat /\ n = k + 1 + (n - k - 1)
    BY <1>3
  <2> QED
    BY <2>1
<1>5. n * PerQuery = k * PerQuery + PerQuery + d * PerQuery /\ d * PerQuery >= 0
  BY <1>2, <1>4
<1>6. k * PerQuery \in Nat /\ d * PerQuery \in Nat
  BY <1>2
<1> QED
  BY <1>1, <1>2, <1>5, <1>6

\* Neighbours of a multiple.
LEMMA Multiples ==
  ASSUME NEW k \in Nat
  PROVE  /\ k * PerQuery + PerQuery = (k + 1) * PerQuery
         /\ k * PerQuery >= PerQuery => k >= 1 /\ k * PerQuery - PerQuery = (k - 1) * PerQuery
<1>1. PerQuery \in Nat /\ PerQuery >= 1
  BY Limits
<1>2. k * PerQuery + PerQuery = (k + 1) * PerQuery /\ k * PerQuery - PerQuery = (k - 1) * PerQuery
  BY <1>1
<1>3. k = 0 => k * PerQuery = 0
  BY <1>1
<1> QED
  BY <1>1, <1>2, <1>3

\* A search is taken up: with the limit it had, or that of the others.
LEMMA PopStep ==
  ASSUME ResearchInv, Pop
  PROVE  Advance
<1> DEFINE q == Head(mem.queue)
           limit == IF retryLimit # 0 THEN retryLimit
                    ELSE Min({PerQuery, MaxResults - mem.results})
           n == [mem EXCEPT !.queue = Tail(@), !.query = q, !.done = @ \cup {q},
                            !.performed = @ + 1, !.limit = limit]
<1>0. /\ MemoryInv(mem) /\ mem \in Memory /\ mem.query = NoQuery /\ mem.queue # <<>>
      /\ mem.queue \in Seq(Query) /\ mem.active = {} /\ q \notin mem.done /\ mem.performed \in Nat
      /\ mem.performed < MaxQueries
      /\ retryLimit # 0 \/ mem.results < MaxResults
      /\ retryLimit \in 0 .. PerQuery /\ mem.results \in 0 .. MaxResults
      /\ WholeQueries => retryLimit \in {0, PerQuery}
  BY Typed DEF ResearchInv, PlaceInv, AnswerInv, LocalsOK, Pop
<1>1. q \in Query
  BY <1>0, HeadTailProperties
<1>2. limit \in 1 .. PerQuery /\ (WholeQueries => limit = PerQuery)
  <2>1. CASE retryLimit # 0
    BY <1>0, <2>1, Limits
  <2>2. CASE retryLimit = 0
    <3> DEFINE left == MaxResults - mem.results
    <3>1. left \in Int /\ left >= 1 /\ PerQuery \in Int /\ PerQuery >= 1
      BY <1>0, <2>2, Limits
    <3>2. WholeQueries => left >= PerQuery
      <4> SUFFICES ASSUME WholeQueries PROVE left >= PerQuery
        OBVIOUS
      <4>1. PICK k \in Nat : mem.results = k * PerQuery
        BY <1>0 DEF MemoryInv, SearchesInv
      <4>2. mem.results < MaxResults
        BY <1>0, <2>2
      <4>3. mem.results + PerQuery <= MaxResults
        BY <4>1, <4>2, RoomForOne
      <4> QED
        BY <1>0, <4>3, Limits
    <3> HIDE DEF left
    <3>3. Min({PerQuery, left}) \in {PerQuery, left} /\ Min({PerQuery, left}) <= PerQuery
      BY <3>1, MinOfTwo
    <3>4. Min({PerQuery, left}) \in 1 .. PerQuery /\ (WholeQueries => Min({PerQuery, left}) = PerQuery)
      <4> DEFINE x == Min({PerQuery, left})
      <4> HIDE DEF x
      <4>1. x \in {PerQuery, left} /\ x <= PerQuery
        BY <3>3 DEF x
      <4>2. x \in 1 .. PerQuery /\ (WholeQueries => x = PerQuery)
        BY <3>1, <3>2, <4>1
      <4> QED
        BY <4>2 DEF x
    <3> QED
      BY <2>2, <3>4 DEF left
  <2> QED
    BY <2>1, <2>2
<1>3. mem' = n /\ disk' = disk /\ retryLimit' = 0 /\ at' = "searching"
      /\ UNCHANGED <<batch, selected, caller, before, unavailable, stop, runs>>
  BY DEF Pop
<1> HIDE DEF limit
<1>4. MemoryInv(n)
  BY <1>0, <1>2, PoppedInv
<1>5. n.query = q /\ n.limit = limit /\ n.active = mem.active /\ n.status = mem.status
  BY <1>0 DEF Memory
<1> HIDE DEF n
<1>6. LocalsOK'
  BY <1>3, Limits DEF ResearchInv, LocalsOK
<1>7. PlaceInv' /\ AnswerInv'
  <2>1. limit # 0 /\ q # NoQuery
    BY <1>1, <1>2, Limits, ConstantsAssumption
  <2> QED
    BY <1>0, <1>3, <1>5, <2>1 DEF ResearchInv, PlaceInv, AnswerInv
<1> QED
  BY <1>3, <1>4, <1>5, <1>6, <1>7, Assemble DEF ResearchInv, StatusSaved

\* What holds while a search is under way.
LEMMA SearchingFacts ==
  ASSUME ResearchInv, at \in {"searching", "sent", "found"}
  PROVE  /\ MemoryInv(mem) /\ mem \in Memory /\ mem.active = {} /\ Underway(mem)
         /\ mem.query \in Query /\ mem.limit \in 1 .. PerQuery
         /\ mem.receipts \subseteq Receipt
         /\ WholeQueries => /\ mem.limit = PerQuery
                            /\ \A r \in mem.receipts : r.limit = PerQuery
                            /\ \A r, s \in mem.receipts : r.query = s.query => r = s
                            /\ \E k \in Nat : mem.results = k * PerQuery
<1>1. /\ MemoryInv(mem) /\ mem.active = {} /\ mem.query # NoQuery /\ mem.limit # 0
  BY DEF ResearchInv, PlaceInv
<1>2. mem \in Memory /\ mem.query \in Query /\ mem.limit \in 0 .. PerQuery
      /\ mem.receipts \subseteq Receipt
  BY <1>1, Typed
<1>3. mem.limit \in 1 .. PerQuery
  BY <1>1, <1>2, Limits
<1> QED
  BY <1>1, <1>2, <1>3 DEF Underway, MemoryInv, SearchesInv

\* A receipt at hand is used instead of a request.
LEMMA UseReceiptStep ==
  ASSUME ResearchInv, UseReceipt
  PROVE  Advance
<1>0. /\ MemoryInv(mem) /\ mem.active = {} /\ mem.receipts \subseteq Receipt /\ at = "searching"
      /\ disk' = disk
      /\ WholeQueries => \A r, s \in mem.receipts : r.query = s.query => r = s
  BY SearchingFacts DEF UseReceipt
<1>1. PICK r \in ReceiptsOf(mem) :
        IF r.completed
        THEN /\ batch' = r.found /\ at' = "found"
             /\ UNCHANGED <<mem, selected, caller, before, retryLimit, unavailable, stop, runs>>
        ELSE Finish(mem, "PROVIDER_RESPONSE_UNCERTAIN")
  BY DEF UseReceipt
<1>2. r \in mem.receipts /\ r.query = mem.query /\ r.found \subseteq Url
  BY <1>0 DEF ReceiptsOf, Receipt
<1>3. CASE r.completed
  <2>1. LocalsOK'
    BY <1>1, <1>2, <1>3 DEF ResearchInv, LocalsOK
  <2>2. PlaceInv'
    BY <1>0, <1>1, <1>3 DEF ResearchInv, PlaceInv
  <2>3. AnswerInv'
    BY <1>0, <1>1, <1>2, <1>3 DEF ResearchInv, AnswerInv
  <2>4. mem' = mem
    BY <1>1, <1>3
  <2> QED
    BY <1>0, <2>1, <2>2, <2>3, <2>4, Assemble DEF ResearchInv, StatusSaved
<1>4. CASE ~r.completed
  <2>1. "PROVIDER_RESPONSE_UNCERTAIN" \in StopReason \ Exhausted
    BY DEF StopReason, Exhausted
  <2> QED
    BY <1>0, <1>1, <1>4, <2>1, FinishStep DEF ResearchInv, StatusSaved
<1> QED
  BY <1>3, <1>4

\* The memory with the receipt of the query under way written, or dropped.
LEMMA ReceiptTyped ==
  ASSUME ResearchInv, at \in {"searching", "sent"},
         NEW completed \in BOOLEAN, NEW found \in SUBSET Url,
         NEW receipts,
         receipts \in {WithReceipt(mem, completed, found).receipts, WithoutReceipt(mem).receipts},
         NEW calls \in 0 .. MaxCalls, NEW results \in 0 .. MaxResults,
         WholeQueries => \E k \in Nat : results = k * PerQuery,
         NEW m, m = [mem EXCEPT !.receipts = receipts, !.calls = calls, !.results = results]
  PROVE  MemoryInv(m)
<1> DEFINE new == [query |-> mem.query, limit |-> mem.limit, completed |-> completed, found |-> found]
<1>0. /\ MemoryInv(mem) /\ mem \in Memory /\ Underway(mem)
      /\ mem.query \in Query /\ mem.limit \in 1 .. PerQuery /\ mem.receipts \subseteq Receipt
  BY SearchingFacts
<1>1. new \in Receipt
  BY <1>0 DEF Receipt
<1>2. receipts \in {(mem.receipts \ ReceiptsOf(mem)) \cup {new}, mem.receipts \ ReceiptsOf(mem)}
  BY <1>0 DEF WithReceipt, WithoutReceipt, Memory
<1>3. receipts \in SUBSET Receipt
  <2> HIDE DEF new
  <2> QED
    BY <1>0, <1>1, <1>2
<1>4. m \in Memory
  BY <1>0, <1>3 DEF Memory
<1>5. /\ m.receipts = receipts /\ m.calls = calls /\ m.results = results
      /\ m.query = mem.query /\ m.limit = mem.limit
      /\ m.done = mem.done /\ m.performed = mem.performed
      /\ m.counted = mem.counted /\ m.applied = mem.applied /\ m.status = mem.status
      /\ m.fetched = mem.fetched /\ m.active = mem.active /\ m.seen = mem.seen
      /\ m.hashed = mem.hashed /\ m.pending = mem.pending /\ m.rejected = mem.rejected
  BY <1>0 DEF Memory
<1> QED
  BY <1>0, <1>4, <1>5, ReceiptInv

\* A reservation is made for the search, and both limits hold it.
LEMMA SendSearchStep ==
  ASSUME ResearchInv, SendSearch
  PROVE  Advance
<1> DEFINE w == WithReceipt(mem, FALSE, {})
           calls == mem.calls + 1
           results == mem.results + mem.limit
           n == [w EXCEPT !.calls = @ + 1, !.results = @ + mem.limit]
           receipts == w.receipts
           m == [mem EXCEPT !.receipts = receipts, !.calls = calls, !.results = results]
<1>0. /\ MemoryInv(mem) /\ mem \in Memory /\ mem.active = {} /\ Underway(mem)
      /\ mem.limit \in 1 .. PerQuery /\ at = "searching"
      /\ mem.calls \in 0 .. MaxCalls /\ mem.results \in 0 .. MaxResults
      /\ WholeQueries => mem.limit = PerQuery /\ \E k \in Nat : mem.results = k * PerQuery
      /\ disk' = mem'
  BY SearchingFacts, Typed DEF SendSearch, Save
<1>1. CASE mem.calls < MaxCalls /\ mem.results + mem.limit <= MaxResults
  <2>1. calls \in 0 .. MaxCalls /\ results \in 0 .. MaxResults /\ calls >= 1 /\ results >= mem.limit
    BY <1>0, <1>1, Limits
  <2>2. WholeQueries => \E k \in Nat : results = k * PerQuery
    <3> SUFFICES ASSUME WholeQueries PROVE \E k \in Nat : results = k * PerQuery
      OBVIOUS
    <3>1. PICK k \in Nat : mem.results = k * PerQuery
      BY <1>0
    <3>2. results = (k + 1) * PerQuery /\ k + 1 \in Nat
      BY <1>0, <3>1, Multiples
    <3> QED
      BY <3>2
  <2>3. n = m
    BY <1>0 DEF WithReceipt, Memory
  <2>4. GoTo("sent", n)
    BY <1>1 DEF SendSearch
  <2> HIDE DEF n, calls, results
  <2>5. MemoryInv(m)
    <3>1. FALSE \in BOOLEAN /\ {} \in SUBSET Url
          /\ receipts \in {WithReceipt(mem, FALSE, {}).receipts, WithoutReceipt(mem).receipts}
      OBVIOUS
    <3>2. m = [mem EXCEPT !.receipts = receipts, !.calls = calls, !.results = results]
      OBVIOUS
    <3> HIDE DEF receipts, w, m
    <3> QED
      BY <1>0, <2>1, <2>2, <3>1, <3>2, ReceiptTyped
  <2>6. /\ m.query = mem.query /\ m.limit = mem.limit /\ m.performed = mem.performed
        /\ m.active = mem.active /\ m.calls = calls /\ m.results = results
        /\ m.status = mem.status
    BY <1>0 DEF Memory
  <2>7. mem' = m /\ at' = "sent" /\ UNCHANGED <<locals, runs>>
    BY <2>3, <2>4 DEF GoTo
  <2> HIDE DEF m
  <2>8. LocalsOK'
    BY <2>7 DEF ResearchInv, LocalsOK, locals
  <2>9. PlaceInv' /\ AnswerInv'
    BY <1>0, <2>1, <2>6, <2>7 DEF ResearchInv, PlaceInv, AnswerInv, locals, Underway
  <2> QED
    BY <1>0, <2>5, <2>6, <2>7, <2>8, <2>9, Assemble
<1>2. CASE ~(mem.calls < MaxCalls /\ mem.results + mem.limit <= MaxResults)
  <2>1. Finish(mem, "BUDGET")
    BY <1>2 DEF SendSearch
  <2>2. "BUDGET" \in StopReason \ Exhausted
    BY DEF StopReason, Exhausted
  <2>3. disk' = mem
    BY <1>0, <2>1 DEF Finish
  <2> QED
    BY <1>0, <2>1, <2>2, <2>3, FinishStep
<1> QED
  BY <1>1, <1>2

\* The memory with the receipt written, or without it.
LEMMA ReceiptKept ==
  ASSUME ResearchInv, at \in {"searching", "sent"},
         NEW completed \in BOOLEAN, NEW found \in SUBSET Url,
         NEW n \in {WithReceipt(mem, completed, found), WithoutReceipt(mem)}
  PROVE  /\ n \in Memory /\ MemoryInv(n)
         /\ n.query = mem.query /\ n.limit = mem.limit /\ n.performed = mem.performed
         /\ n.active = mem.active /\ n.status = mem.status
<1> DEFINE receipts == n.receipts
           m == [mem EXCEPT !.receipts = receipts, !.calls = mem.calls, !.results = mem.results]
<1>0. /\ mem \in Memory /\ mem.calls \in 0 .. MaxCalls /\ mem.results \in 0 .. MaxResults
      /\ WholeQueries => \E k \in Nat : mem.results = k * PerQuery
  BY SearchingFacts, Typed
<1>1. MemoryInv(m)
  <2>1. m = [mem EXCEPT !.receipts = receipts, !.calls = mem.calls, !.results = mem.results]
    OBVIOUS
  <2>2. receipts \in {WithReceipt(mem, completed, found).receipts, WithoutReceipt(mem).receipts}
    OBVIOUS
  <2> HIDE DEF m, receipts
  <2> QED
    BY <1>0, <2>1, <2>2, ReceiptTyped
<1>2. n = m
  BY <1>0 DEF WithReceipt, WithoutReceipt, Memory
<1>3. /\ m.query = mem.query /\ m.limit = mem.limit /\ m.performed = mem.performed
      /\ m.active = mem.active /\ m.status = mem.status
  BY <1>0 DEF Memory
<1> HIDE DEF m
<1> QED
  BY <1>1, <1>2, <1>3 DEF MemoryInv

\* The answer is the only one of the query under way.
LEMMA AnswerStep ==
  ASSUME ResearchInv, NEW found \in SUBSET Url, Answer(found)
  PROVE  Advance
<1> DEFINE n == WithReceipt(mem, TRUE, found)
           new == [query |-> mem.query, limit |-> mem.limit, completed |-> TRUE, found |-> found]
<1>0. /\ MemoryInv(mem) /\ mem \in Memory /\ mem.active = {} /\ Underway(mem) /\ at = "sent"
      /\ WholeQueries => mem.limit = PerQuery /\ \A r \in mem.receipts : r.limit = PerQuery
  BY SearchingFacts DEF Answer
<1>1. /\ mem' = n /\ disk' = mem' /\ batch' = found /\ at' = "found"
      /\ UNCHANGED <<selected, caller, before, retryLimit, unavailable, stop, runs>>
  BY DEF Answer, Save
<1>2. n.receipts = (mem.receipts \ ReceiptsOf(mem)) \cup {new}
  BY <1>0 DEF WithReceipt, Memory
<1>3. /\ MemoryInv(n) /\ n.query = mem.query /\ n.limit = mem.limit
      /\ n.performed = mem.performed /\ n.active = mem.active /\ n.status = mem.status
  BY <1>0, ReceiptKept
<1> HIDE DEF n
<1>4. WholeQueries => \A r \in n.receipts : r.query = n.query => r.found \subseteq found
  BY <1>0, <1>2, <1>3 DEF ReceiptsOf
<1>5. LocalsOK'
  BY <1>1 DEF ResearchInv, LocalsOK
<1>6. PlaceInv'
  BY <1>0, <1>1, <1>3 DEF ResearchInv, PlaceInv, Underway
<1>7. AnswerInv'
  BY <1>1, <1>4 DEF ResearchInv, AnswerInv
<1> QED
  BY <1>1, <1>3, <1>5, <1>6, <1>7, Assemble

\* A failed search leaves no receipt, and nothing to wait for.
LEMMA SearchFailsStep ==
  ASSUME ResearchInv, NEW denied \in BOOLEAN, SearchFails(denied)
  PROVE  Advance
<1> DEFINE failed == WithoutReceipt(mem)
           m == [failed EXCEPT !.query = NoQuery]
<1>0. /\ MemoryInv(mem) /\ mem \in Memory /\ mem.active = {} /\ Underway(mem) /\ at = "sent"
      /\ WholeQueries => mem.limit = PerQuery /\ \A r \in mem.receipts : r.limit = PerQuery
  BY SearchingFacts DEF SearchFails
<1>1. /\ disk' = failed
      /\ IF denied THEN Finish(m, "PROVIDER_UNAVAILABLE") ELSE GoTo("loop", m)
  BY DEF SearchFails
<1>2. failed.receipts = mem.receipts \ ReceiptsOf(mem)
  BY <1>0 DEF WithoutReceipt, Memory
<1>3. /\ MemoryInv(failed) /\ failed \in Memory
      /\ failed.query = mem.query /\ failed.limit = mem.limit
      /\ failed.performed = mem.performed /\ failed.active = mem.active
      /\ failed.status = mem.status
  <2>1. {} \in SUBSET Url
    OBVIOUS
  <2> HIDE DEF failed
  <2> QED
    BY <1>0, <2>1, ReceiptKept DEF failed
<1> HIDE DEF failed
<1>4. m \in Memory
  BY <1>3 DEF Memory
<1>5. /\ m.query = NoQuery /\ m.limit = failed.limit /\ m.results = failed.results
      /\ m.receipts = failed.receipts /\ m.done = failed.done /\ m.performed = failed.performed
      /\ m.counted = failed.counted /\ m.applied = failed.applied /\ m.status = failed.status
      /\ m.fetched = failed.fetched /\ m.active = failed.active /\ m.seen = failed.seen
      /\ m.hashed = failed.hashed /\ m.pending = failed.pending /\ m.rejected = failed.rejected
  BY <1>3 DEF Memory
<1> HIDE DEF m
<1>6. WholeQueries => \A r \in failed.receipts : r.query # failed.query
  BY <1>0, <1>2, <1>3 DEF ReceiptsOf
<1>7. MemoryInv(m)
  BY <1>3, <1>4, <1>5, <1>6, QueryOver
<1>8. CASE denied
  <2>1. "PROVIDER_UNAVAILABLE" \in StopReason \ Exhausted
    BY DEF StopReason, Exhausted
  <2> QED
    BY <1>1, <1>3, <1>5, <1>7, <1>8, <2>1, FinishStep
<1>9. CASE ~denied
  <2>1. mem' = m /\ at' = "loop" /\ UNCHANGED <<locals, runs>>
    BY <1>1, <1>9 DEF GoTo
  <2>2. LocalsOK'
    BY <2>1 DEF ResearchInv, LocalsOK, locals
  <2>3. PlaceInv' /\ AnswerInv'
    BY <1>0, <1>3, <1>5, <2>1 DEF ResearchInv, PlaceInv, AnswerInv, locals
  <2> QED
    BY <1>1, <1>3, <1>5, <1>7, <2>1, <2>2, <2>3, Assemble
<1> QED
  BY <1>8, <1>9

\* What was reserved is kept, or given back.
LEMMA SearchOutageStep ==
  ASSUME ResearchInv, SearchOutage
  PROVE  Advance
<1> DEFINE failed == WithoutReceipt(mem)
           calls == mem.calls - 1
           results == mem.results - mem.limit
           receipts == failed.receipts
           n == [failed EXCEPT !.calls = @ - 1, !.results = @ - mem.limit]
           m == [mem EXCEPT !.receipts = receipts, !.calls = calls, !.results = results]
<1>0. /\ MemoryInv(mem) /\ mem \in Memory /\ at = "sent" /\ mem.limit \in 1 .. PerQuery
      /\ mem.calls \in 0 .. MaxCalls /\ mem.results \in 0 .. MaxResults
      /\ WholeQueries => mem.limit = PerQuery /\ \E k \in Nat : mem.results = k * PerQuery
      /\ mem.calls >= 1 /\ mem.results >= mem.limit
      /\ Outage(failed) \/ Outage(n)
  BY SearchingFacts, Typed DEF SearchOutage, ResearchInv, PlaceInv
<1>1. {} \in SUBSET Url
  OBVIOUS
<1>2. MemoryInv(failed) /\ failed.status = mem.status
  <2> HIDE DEF failed
  <2> QED
    BY <1>0, <1>1, ReceiptKept DEF failed
<1>3. MemoryInv(n) /\ n.status = mem.status
  <2>1. calls \in 0 .. MaxCalls /\ results \in 0 .. MaxResults
    BY <1>0, Limits
  <2>2. WholeQueries => \E k \in Nat : results = k * PerQuery
    <3> SUFFICES ASSUME WholeQueries PROVE \E k \in Nat : results = k * PerQuery
      OBVIOUS
    <3>1. PICK k \in Nat : mem.results = k * PerQuery
      BY <1>0
    <3>2. k >= 1 /\ results = (k - 1) * PerQuery
      BY <1>0, <3>1, Multiples
    <3>3. k - 1 \in Nat
      BY <3>2
    <3> QED
      BY <3>2, <3>3
  <2>3. n = m
    BY <1>0 DEF WithoutReceipt, Memory
  <2>4. receipts \in {WithReceipt(mem, FALSE, {}).receipts, WithoutReceipt(mem).receipts}
    OBVIOUS
  <2>5. m = [mem EXCEPT !.receipts = receipts, !.calls = calls, !.results = results]
    OBVIOUS
  <2>6. FALSE \in BOOLEAN /\ m.status = mem.status
    BY <1>0 DEF Memory
  <2> HIDE DEF n, m, failed, receipts, calls, results
  <2>7. MemoryInv(m)
    BY <1>0, <1>1, <2>1, <2>2, <2>4, <2>5, <2>6, ReceiptTyped
  <2> QED
    BY <2>3, <2>6, <2>7
<1> HIDE DEF n, failed
<1> QED
  BY <1>0, <1>2, <1>3, OutageStep DEF Stands

\* The answer is applied: what was found is pending.
LEMMA ApplyAnswerStep ==
  ASSUME ResearchInv, ApplyAnswer
  PROVE  Advance
<1> DEFINE pending == mem.pending \cup batch
<1>0. /\ MemoryInv(mem) /\ mem \in Memory /\ mem.active = {} /\ at = "found"
      /\ batch \subseteq Url /\ mem.pending \subseteq Url
      /\ WholeQueries => \A r \in mem.receipts :
                           r.completed /\ r.query = mem.query => r.found \subseteq batch
  BY SearchingFacts, Typed DEF ApplyAnswer, ResearchInv, LocalsOK, AnswerInv
<1>1. mem' = [mem EXCEPT !.pending = pending, !.query = NoQuery] /\ disk' = mem'
  BY <1>0 DEF ApplyAnswer, Save, Memory
<1>2. mem' \in Memory
  <2>1. pending \in SUBSET Url
    BY <1>0
  <2> HIDE DEF pending
  <2> QED
    BY <1>0, <1>1, <2>1 DEF Memory
<1>3. /\ mem'.pending = pending /\ mem'.query = NoQuery /\ mem'.limit = mem.limit
      /\ mem'.results = mem.results /\ mem'.receipts = mem.receipts /\ mem'.done = mem.done
      /\ mem'.performed = mem.performed /\ mem'.counted = mem.counted
      /\ mem'.applied = mem.applied /\ mem'.status = mem.status /\ mem'.fetched = mem.fetched
      /\ mem'.active = mem.active /\ mem'.seen = mem.seen /\ mem'.hashed = mem.hashed
      /\ mem'.rejected = mem.rejected
  BY <1>0, <1>1 DEF Memory
<1>4. MemoryInv(mem')
  <2>1. WholeQueries => \A r \in mem.receipts :
          r.completed /\ r.query = mem.query => r.found \subseteq mem'.pending
    BY <1>0, <1>3
  <2>2. mem.pending \subseteq mem'.pending
    BY <1>3
  <2> QED
    BY <1>0, <1>2, <1>3, <2>1, <2>2, QueryOver
<1>5. LocalsOK'
  <2>1. CASE batch = {}
    BY <2>1 DEF ResearchInv, LocalsOK, ApplyAnswer, locals
  <2>2. CASE batch # {}
    BY <1>0, <2>2 DEF ResearchInv, LocalsOK, ApplyAnswer, Round
  <2> QED
    BY <2>1, <2>2
<1>6. PlaceInv' /\ AnswerInv'
  <2>1. /\ at' \in {"empty", "admit"} /\ UNCHANGED <<retryLimit, selected, stop>>
    BY DEF ApplyAnswer, Round, locals
  <2> QED
    BY <1>0, <1>3, <2>1 DEF ResearchInv, PlaceInv, AnswerInv
<1> QED
  BY <1>1, <1>4, <1>5, <1>6, Assemble

\* Research that has not begun is right.
LEMMA FreshIsRight == MemoryInv(Fresh)
<1>1. Fresh \in Memory
  <2>1. InitialQuery \in Query /\ <<InitialQuery>> \in Seq(Query)
    BY ConstantsAssumption
  <2>2. 0 \in 0 .. PerQuery /\ 0 \in 0 .. MaxCalls /\ 0 \in 0 .. MaxResults
    BY Limits
  <2>3. [c \in Chunk |-> 0] \in [Chunk -> Nat] /\ [u \in Url |-> "none"] \in [Url -> Status]
    BY DEF Status
  <2> QED
    BY <2>1, <2>2, <2>3 DEF Fresh, Memory
<1>2. SourcesOf(Fresh) = {} /\ IsFiniteSet({}) /\ Cardinality({}) = 0
  BY FS_EmptySet DEF Fresh, SourcesOf
<1>3. CountersInv(Fresh)
  <2>1. /\ Fresh.done = {} /\ Fresh.performed = 0 /\ Fresh.query = NoQuery
        /\ Fresh.fetched = 0 /\ Fresh.applied = {} /\ \A k \in Chunk : Fresh.counted[k] = 0
    BY DEF Fresh
  <2> HIDE DEF Fresh
  <2> QED
    BY <1>2, <2>1, Limits DEF CountersInv
<1>4. PagesInv(Fresh)
  BY DEF PagesInv, Fresh, Settled
<1>5. SearchesInv(Fresh)
  <2>1. 0 \in Nat /\ 0 = 0 * PerQuery
    BY Limits
  <2> QED
    BY <2>1 DEF SearchesInv, Fresh
<1> QED
  BY <1>1, <1>3, <1>4, <1>5 DEF MemoryInv

\* So is the first state.
LEMMA InitRight == Init => ResearchInv
<1> SUFFICES ASSUME Init PROVE ResearchInv
  OBVIOUS
<1>1. MemoryInv(mem) /\ MemoryInv(disk) /\ disk = mem
  BY FreshIsRight DEF Init
<1>2. LocalsOK
  <2>1. <<>> \in Seq(Url)
    OBVIOUS
  <2>2. "none" \in StopReason /\ 0 \in 0 .. PerQuery /\ 0 \in 0 .. MaxRuns
    BY Limits DEF StopReason
  <2> QED
    BY <2>1, <2>2 DEF Init, LocalsOK
<1>3. PlaceInv /\ AnswerInv
  BY DEF Init, PlaceInv, AnswerInv
<1> QED
  BY <1>1, <1>2, <1>3 DEF ResearchInv, StatusSaved

\* The steps of a page, ...
LEMMA PageStep ==
  ASSUME ResearchInv, NEW u \in Url,
         \/ SkipPage(u) \/ PageOutage(u) \/ PageArrives(u)
         \/ \E landed \in BOOLEAN : PageFails(u, landed)
         \/ Judge(u) \/ ApplyChunk(u) \/ Extracted(u)
         \/ \E denied \in BOOLEAN : ExtractionFails(u, denied)
  PROVE  Advance
BY SkipPageStep, PageOutageStep, PageArrivesStep, PageFailsStep, JudgeStep, ApplyChunkStep,
   ExtractedStep, ExtractionFailsStep

\* ... among the queries, ...
LEMMA QueryStep ==
  ASSUME ResearchInv,
         \/ \E q \in FieldQuery : AskTargeted(q) \/ AskField(q)
         \/ Recover \/ AskRole \/ Exhaust \/ Plan
         \/ \E planned \in {<<>>, FreshQueries(mem, PlanQuery)}, important \in BOOLEAN :
              Planned(planned, important)
         \/ \E denied \in BOOLEAN : PlanFails(denied)
         \/ PopDone \/ NothingFound
  PROVE  Advance
BY AskTargetedStep, AskFieldStep, RecoverStep, AskRoleStep, ExhaustStep, PlanStep, PlannedStep,
   PlanFailsStep, PopDoneStep, NothingFoundStep

\* ... and of a search.
LEMMA SearchStep ==
  ASSUME ResearchInv,
         \/ Pop \/ UseReceipt \/ SendSearch
         \/ \E found \in SUBSET Url : Answer(found)
         \/ \E denied \in BOOLEAN : SearchFails(denied)
         \/ SearchOutage \/ ApplyAnswer
  PROVE  Advance
BY PopStep, UseReceiptStep, SendSearchStep, AnswerStep, SearchFailsStep, SearchOutageStep,
   ApplyAnswerStep

\* Every step keeps the invariant.
LEMMA StepRight == ResearchInv /\ [Next]_vars => Advance
<1> SUFFICES ASSUME ResearchInv, [Next]_vars PROVE Advance
  OBVIOUS
<1>1. CASE UNCHANGED vars
  <2>1. /\ mem' = mem /\ disk' = disk /\ at' = at /\ runs' = runs
        /\ UNCHANGED <<batch, selected, caller, before, retryLimit, unavailable, stop>>
    BY <1>1 DEF vars, locals
  <2>2. LocalsOK' /\ PlaceInv' /\ AnswerInv'
    BY <2>1 DEF ResearchInv, LocalsOK, PlaceInv, AnswerInv
  <2> QED
    BY <2>1, <2>2, Assemble DEF ResearchInv, StatusSaved
<1>2. CASE Next
  <2>1. CASE Crash \/ Begin \/ Ended
    BY <2>1, DownStep
  <2>2. CASE SuppliedRound \/ NoSuppliedRound \/ RoundEnds \/ PendingRound
             \/ NothingPending \/ QueriesGoOn
    BY <2>2, ControlStep
  <2>3. CASE LoopEnds \/ QueriesEnd \/ ValidationFails \/ SearchRefused \/ SearchUncertain
    BY <2>3, EndStep
  <2>4. CASE Admit \/ \E refused \in SUBSET batch : Validate(refused)
    BY <2>4, AdmitStep, ValidateStep
  <2>5. CASE \E u \in Url :
               \/ SkipPage(u) \/ PageOutage(u) \/ PageArrives(u)
               \/ \E landed \in BOOLEAN : PageFails(u, landed)
               \/ Judge(u) \/ ApplyChunk(u) \/ Extracted(u)
               \/ \E denied \in BOOLEAN : ExtractionFails(u, denied)
    BY <2>5, PageStep
  <2>6. CASE \/ \E q \in FieldQuery : AskTargeted(q) \/ AskField(q)
             \/ Recover \/ AskRole \/ Exhaust \/ Plan
             \/ \E planned \in {<<>>, FreshQueries(mem, PlanQuery)}, important \in BOOLEAN :
                  Planned(planned, important)
             \/ \E denied \in BOOLEAN : PlanFails(denied)
             \/ PopDone \/ NothingFound
    BY <2>6, QueryStep
  <2>7. CASE \/ Pop \/ UseReceipt \/ SendSearch
             \/ \E found \in SUBSET Url : Answer(found)
             \/ \E denied \in BOOLEAN : SearchFails(denied)
             \/ SearchOutage \/ ApplyAnswer
    BY <2>7, SearchStep
  <2> QED
    BY <1>2, <2>1, <2>2, <2>3, <2>4, <2>5, <2>6, <2>7 DEF Next, Step
<1> QED
  BY <1>1, <1>2

\* So it always holds.
LEMMA AlwaysRight == Spec => []ResearchInv
<1>1. ResearchInv /\ [Next]_vars => ResearchInv'
  BY StepRight DEF Advance
<1> QED
  BY <1>1, InitRight, PTL DEF Spec

-----------------------------------------------------------------------------
(* Theorems.                                                               *)

\* Work counts once, however often it is interrupted and taken up again: the
\* claims of a chunk, the searches performed and their limit, the sources
\* (research/orchestrator.py, the checkpoint of _research).
THEOREM WorkCorrect == Spec => []WorkCountsOnce
<1>1. ResearchInv => WorkCountsOnce
  <2> SUFFICES ASSUME ResearchInv PROVE WorkCountsOnce
    OBVIOUS
  <2>1. TypeOK
    BY DEF ResearchInv, MemoryInv, LocalsOK, TypeOK
  <2> QED
    BY <2>1 DEF ResearchInv, MemoryInv, CountersInv, WorkCountsOnce
<1> QED
  BY <1>1, AlwaysRight, PTL

\* Research that ends for want of anything to do has no candidate left, and an
\* extracted source has all its chunks applied.
THEOREM EndCorrect == Spec => []NothingLeftBehind
<1>1. ResearchInv => NothingLeftBehind
  BY DEF ResearchInv, PlaceInv, MemoryInv, PagesInv, NothingLeftBehind
<1> QED
  BY <1>1, AlwaysRight, PTL

\* What was concluded of a page stands in every checkpoint from then on: only a
\* page that was not seen, or is under way, changes its status.
THEOREM PagesCorrect == Spec => ConclusionsStand
<1>1. ResearchInv /\ ResearchInv' /\ [Next]_vars =>
        [\A u \in Url :
           /\ disk.status[u] \in Settled
           /\ \A v \in Url \ {u} : FinalOf[v] # u
           => disk'.status[u] = disk.status[u]]_vars
  <2> SUFFICES ASSUME ResearchInv, ResearchInv', [Next]_vars, NEW u \in Url,
                      disk.status[u] \in Settled, \A v \in Url \ {u} : FinalOf[v] # u
               PROVE  disk'.status[u] = disk.status[u]
    OBVIOUS
  <2>1. disk.status = mem.status /\ disk'.status = mem'.status
    BY DEF ResearchInv, StatusSaved
  <2>2. Stands(mem') /\ Lone(u)
    BY StepRight DEF Advance, Lone
  <2> QED
    BY <2>1, <2>2 DEF Stands
<1> QED
  BY <1>1, AlwaysRight, PTL DEF Spec, ConclusionsStand

\* A search whose answer is stored is not bought again, if the results of all
\* searches are enough for whole ones: then a resumed query has the key it had.
THEOREM SearchesCorrect == WholeQueries => (Spec => []SearchIsBoughtOnce)
<1>1. WholeQueries /\ ResearchInv => SearchIsBoughtOnce
  BY DEF ResearchInv, MemoryInv, SearchesInv, SearchIsBoughtOnce
<1>2. WholeQueries => []WholeQueries
  OBVIOUS
<1> QED
  BY <1>1, <1>2, AlwaysRight, PTL

\* Then, too, every page a finished search brought is accounted for, in memory and
\* in every checkpoint.
THEOREM CandidatesCorrect == WholeQueries => (Spec => []NoCandidateIsLost)
<1>1. ASSUME NEW m, WholeQueries, MemoryInv(m)
      PROVE  AccountedFor(m)
  BY <1>1 DEF MemoryInv, SearchesInv, AccountedFor, Cover
<1>2. WholeQueries /\ ResearchInv => NoCandidateIsLost
  BY <1>1 DEF ResearchInv, NoCandidateIsLost
<1>3. WholeQueries => []WholeQueries
  OBVIOUS
<1> QED
  BY <1>2, <1>3, AlwaysRight, PTL
=============================================================================
