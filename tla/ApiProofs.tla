------------------------------- MODULE ApiProofs -------------------------------
(***************************************************************************)
(* What is proved of the routes that read results and keep them, for every *)
(* number of jobs, people, requests and files.                             *)
(***************************************************************************)
EXTENDS Api, CollectionProofs

-----------------------------------------------------------------------------
(* The batch: what has been settled stays as it is.                        *)

BatchInv ==
  /\ outcome \in [Person -> Queue!Final \cup {"none", "open"}]
  /\ answer \in [Job -> {"none", "open", "done", "cancelled"}]
  /\ evidence \in [Person -> SUBSET Item]
  /\ DOMAIN profile = Person
  /\ profile = [p \in Person |-> profile[p]]
  /\ \A p \in Person : profile[p] # NoProfile => profile[p] \subseteq evidence[p]
  /\ \A j \in Job : \A p \in Queue!PersonsOf(j) :
       /\ answer[j] = "none" => outcome[p] = "none"
       /\ answer[j] = "done" => outcome[p] \in Queue!Final

\* A person's outcome, once it is final, stands, and so do the profile and the
\* evidence that go with it; evidence is only added.
PersonStands(p) ==
  /\ evidence[p] \subseteq evidence'[p]
  /\ outcome[p] \in Queue!Final =>
       outcome'[p] = outcome[p] /\ profile'[p] = profile[p] /\ evidence'[p] = evidence[p]

LEMMA BatchStarts == LibraryInit => BatchInv
BY DEF LibraryInit, BatchInv, Queue!Init, Queue!Final, Queue!PersonsOf

LEMMA SubmitStep ==
  ASSUME BatchInv, NEW j \in Job, Queue!Submit(j), UNCHANGED profile
  PROVE  BatchInv' /\ \A p \in Person : PersonStands(p)
BY DEF BatchInv, PersonStands, Queue!Submit, Queue!Answered, Queue!Final, Queue!PersonsOf

LEMMA CancelStep ==
  ASSUME BatchInv, NEW j \in Job, Queue!Cancel(j), UNCHANGED profile
  PROVE  BatchInv' /\ \A p \in Person : PersonStands(p)
BY DEF BatchInv, PersonStands, Queue!Cancel, Queue!Final, Queue!PersonsOf

LEMMA AssignStep ==
  ASSUME BatchInv, Queue!Assign, UNCHANGED profile
  PROVE  BatchInv' /\ \A p \in Person : PersonStands(p)
BY DEF BatchInv, PersonStands, Queue!Assign, Queue!Final, Queue!PersonsOf

LEMMA RecordStep ==
  ASSUME BatchInv, NEW p \in Person, NEW items \in SUBSET Item, Queue!Record(p, items),
         WriteResult(p) \/ UNCHANGED profile
  PROVE  BatchInv' /\ \A q \in Person : PersonStands(q)
BY DEF BatchInv, PersonStands, Queue!Record, Queue!Final, Queue!PersonsOf, WriteResult

LEMMA SettleStep ==
  ASSUME BatchInv, NEW p \in Person, NEW items \in SUBSET Item,
         NEW o \in {"completed", "failed"}, Queue!Settle(p, o, items),
         WriteResult(p) \/ UNCHANGED profile
  PROVE  BatchInv' /\ \A q \in Person : PersonStands(q)
<1>1. /\ outcome[p] = "open" /\ outcome' = [outcome EXCEPT ![p] = o]
      /\ evidence' = [evidence EXCEPT ![p] = @ \cup items]
      /\ answer' = [answer EXCEPT ![JobOf[p]] = Queue!Answered(JobOf[p], outcome')]
  BY DEF Queue!Settle
<1>2. \A q \in Person : PersonStands(q)
  BY <1>1 DEF BatchInv, PersonStands, Queue!Final, WriteResult
<1>3. /\ (outcome \in [Person -> Queue!Final \cup {"none", "open"}])'
      /\ (evidence \in [Person -> SUBSET Item])'
      /\ (answer \in [Job -> {"none", "open", "done", "cancelled"}])'
  BY <1>1 DEF BatchInv, Queue!Final, Queue!Answered
<1>4. /\ DOMAIN profile' = Person
      /\ profile' = [q \in Person |-> profile'[q]]
      /\ \A q \in Person : profile'[q] # NoProfile => profile'[q] \subseteq evidence'[q]
  BY <1>1 DEF BatchInv, WriteResult
<1>5. ASSUME NEW j \in Job, NEW q \in Queue!PersonsOf(j)
      PROVE  /\ answer'[j] = "none" => outcome'[q] = "none"
             /\ answer'[j] = "done" => outcome'[q] \in Queue!Final
  <2>1. CASE JobOf[p] = j
    <3>1. answer'[j] = Queue!Answered(j, outcome')
      BY <1>1, <2>1 DEF BatchInv
    <3> QED
      BY <3>1 DEF Queue!Answered
  <2>2. CASE JobOf[p] # j
    <3>1. q \in Person /\ q # p /\ answer'[j] = answer[j]
      BY <1>1, <2>2 DEF BatchInv, Queue!PersonsOf
    <3>2. outcome'[q] = outcome[q]
      BY <1>1, <3>1 DEF BatchInv
    <3> QED
      BY <3>1, <3>2 DEF BatchInv
  <2> QED
    BY <2>1, <2>2
<1> QED
  BY <1>2, <1>3, <1>4, <1>5 DEF BatchInv, Queue!PersonsOf

LEMMA BatchStep ==
  ASSUME BatchInv, Research
  PROVE  BatchInv' /\ \A p \in Person : PersonStands(p)
<1>1. ASSUME NEW j \in Job, Queue!Submit(j) \/ Queue!Cancel(j), UNCHANGED profile
      PROVE  BatchInv' /\ \A p \in Person : PersonStands(p)
  BY <1>1, SubmitStep, CancelStep
<1>2. ASSUME NEW p \in Person,
             Queue!Record(p, {}) \/ Queue!Settle(p, "failed", {}), UNCHANGED profile
      PROVE  BatchInv' /\ \A q \in Person : PersonStands(q)
  BY <1>2, RecordStep, SettleStep
<1>3. ASSUME NEW p \in Person, NEW items \in SUBSET Item, WriteResult(p),
             Queue!Record(p, items)
               \/ \E o \in {"completed", "failed"} : Queue!Settle(p, o, items)
      PROVE  BatchInv' /\ \A q \in Person : PersonStands(q)
  BY <1>3, RecordStep, SettleStep
<1> QED
  BY <1>1, <1>2, <1>3, AssignStep DEF Research

\* With its people, everything that is read of a job that is done stands.
LEMMA DoneStands ==
  ASSUME BatchInv, Research, NEW j \in Job, answer[j] = "done"
  PROVE  /\ answer'[j] = "done"
         /\ \A statement : Current(j, statement)' = Current(j, statement)
         /\ \A p \in Queue!PersonsOf(j) : profile'[p] = profile[p]
<1>1. \A p \in Queue!PersonsOf(j) : outcome[p] \in Queue!Final /\ p \in Person
  BY DEF BatchInv, Queue!PersonsOf
<1>2. \A p \in Queue!PersonsOf(j) :
        outcome'[p] = outcome[p] /\ profile'[p] = profile[p] /\ evidence'[p] = evidence[p]
  BY <1>1, BatchStep DEF PersonStands
<1>3. answer'[j] = "done"
  <2>1. ASSUME NEW p \in Person, Queue!Settle(p, "failed", {})
               \/ \E items \in SUBSET Item, o \in {"completed", "failed"} : Queue!Settle(p, o, items)
        PROVE  answer'[j] = "done"
    <3>1. outcome[p] = "open" /\ p \notin Queue!PersonsOf(j)
      BY <1>1, <2>1 DEF Queue!Settle, Queue!Final
    <3>2. JobOf[p] # j
      BY <3>1 DEF Queue!PersonsOf
    <3> QED
      BY <2>1, <3>2 DEF Queue!Settle, BatchInv
  <2> QED
    BY <2>1 DEF Research, BatchInv, Queue!Submit, Queue!Cancel, Queue!Assign, Queue!Record
<1>4. {outcome'[p] : p \in Queue!PersonsOf(j)} = {outcome[p] : p \in Queue!PersonsOf(j)}
  BY <1>2
<1>5. Status(j)' = Status(j)
  BY <1>3, <1>4 DEF Status, Queue!PersonsOf
<1>6. ASSUME NEW statement
      PROVE  Current(j, statement)' = Current(j, statement)
  BY <1>2, <1>5 DEF Current, Queue!PersonsOf
<1> QED
  BY <1>2, <1>3, <1>6

-----------------------------------------------------------------------------
(* The requests: how far each is, and whose transaction holds the lock.    *)

Phases == Ended \cup
  {"arrived", "admitted", "reading", "rendering", "locking", "locked", "inserting"}

RequestInv ==
  /\ phase \in [Request -> Phases]
  /\ about \in [Request -> Job \cup Saver \cup {NoRequest}]
  /\ size \in [Request -> Nat]
  /\ seen = [r \in Request |-> seen[r]]
  /\ lock \in Request \cup {NoRequest}
  /\ \A r \in Request :
       /\ phase[r] \in {"reading", "rendering"} => r \in Saver \cup Exporter /\ about[r] \in Job
       /\ phase[r] \in {"locked", "inserting"} => lock = r
       /\ phase[r] = "inserting" => r \in Saver
       /\ r \in Saver /\ phase[r] \in {"locking", "locked", "inserting"} => about[r] \in Job

\* A step of a request leaves the others where they are.
LEMMA OthersWait ==
  ASSUME RequestInv, NEW q \in Request, Serve(q) \/ Fail(q) \/ Authorize(q)
  PROVE  \A r \in Request \ {q} : /\ phase'[r] = phase[r] /\ about'[r] = about[r]
                                  /\ seen'[r] = seen[r] /\ size'[r] = size[r]
<1> USE DEF RequestInv, To, End
<1>1. CASE ReadJob(q)
  BY <1>1 DEF ReadJob
<1>2. CASE ReadResults(q)
  BY <1>2 DEF ReadResults
<1>3. CASE Render(q)
  BY <1>3 DEF Render
<1>4. CASE AskRemoval(q) \/ TakeLock(q) \/ ReadUsage(q) \/ Insert(q) \/ Delete(q)
  BY <1>4 DEF AskRemoval, TakeLock, ReadUsage, Insert, Delete
<1>5. CASE Fail(q) \/ Authorize(q)
  BY <1>5 DEF Fail, Authorize
<1> QED
  BY <1>1, <1>2, <1>3, <1>4, <1>5 DEF Serve

LEMMA RequestsStart == LibraryInit => RequestInv
BY DEF LibraryInit, RequestInv, Phases, Ended

LEMMA EndStep ==
  ASSUME RequestInv, NEW q \in Request, NEW how \in Ended, End(q, how),
         lock' = NoRequest \/ lock' = lock,
         \A r \in Request \ {q} : phase[r] \in {"locked", "inserting"} => lock' = lock
  PROVE  RequestInv'
<1> USE DEF RequestInv, End, To
<1>1. (phase \in [Request -> Phases])'
  BY DEF Phases
<1>2. (about \in [Request -> Job \cup Saver \cup {NoRequest}])' /\ (size \in [Request -> Nat])'
  OBVIOUS
<1>3. seen' = [r \in Request |-> seen'[r]]
  OBVIOUS
<1>4. \A r \in Request \ {q} : phase'[r] = phase[r] /\ about'[r] = about[r]
  OBVIOUS
<1>5. phase'[q] = how
  OBVIOUS
<1>6. \A r \in Request :
        /\ phase'[r] \in {"reading", "rendering"} => r \in Saver \cup Exporter /\ about'[r] \in Job
        /\ phase'[r] \in {"locked", "inserting"} => lock' = r
        /\ phase'[r] = "inserting" => r \in Saver
        /\ r \in Saver /\ phase'[r] \in {"locking", "locked", "inserting"} => about'[r] \in Job
  <2> TAKE r \in Request
  <2>1. CASE r = q
    BY <1>5, <2>1 DEF Ended
  <2>2. CASE r # q
    BY <1>4, <2>2
  <2> QED
    BY <2>1, <2>2
<1> QED
  BY <1>1, <1>2, <1>3, <1>6

LEMMA RequestStep ==
  ASSUME RequestInv, NEW q \in Request, Serve(q) \/ Fail(q) \/ Authorize(q)
  PROVE  RequestInv'
<1> USE OneRoutePerRequest DEF RequestInv, To, End, Phases, Ended
<1>1. CASE ReadJob(q)
  BY <1>1 DEF ReadJob, Request
<1>2. CASE ReadResults(q)
  BY <1>2 DEF ReadResults
<1>3. CASE Render(q)
  BY <1>3, SizesAreNaturals DEF Render
<1>4. CASE AskRemoval(q)
  BY <1>4 DEF AskRemoval, Request
<1>5. CASE TakeLock(q)
  BY <1>5 DEF TakeLock
<1>6. CASE ReadUsage(q) \/ Insert(q) \/ Delete(q)
  <2>1. \/ lock' = NoRequest /\ \E how \in Ended : End(q, how)
        \/ q \in Saver /\ To(q, "inserting") /\ UNCHANGED <<about, seen, size, lock>>
    BY <1>6 DEF ReadUsage, Insert, Delete
  <2>2. phase[q] \in {"locked", "inserting"} /\ lock = q
    BY <1>6 DEF ReadUsage, Insert, Delete
  <2>3. \A r \in Request \ {q} : phase[r] \notin {"locked", "inserting"}
    BY <2>2
  <2>4. CASE lock' = NoRequest /\ \E how \in Ended : End(q, how)
    BY <2>3, <2>4, EndStep
  <2>5. CASE q \in Saver /\ To(q, "inserting") /\ UNCHANGED <<about, seen, size, lock>>
    BY <2>2, <2>3, <2>5
  <2> QED
    BY <2>1, <2>4, <2>5
<1>7. CASE Fail(q)
  <2>1. \A r \in Request \ {q} : phase[r] \in {"locked", "inserting"} => lock' = lock
    BY <1>7 DEF Fail
  <2>2. End(q, "refused") /\ "refused" \in Ended /\ (lock' = NoRequest \/ lock' = lock)
    BY <1>7 DEF Fail
  <2> HIDE DEF End, Ended
  <2> QED
    BY <2>1, <2>2, EndStep
<1>8. CASE Authorize(q)
  BY <1>8 DEF Authorize
<1> QED
  BY <1>1, <1>2, <1>3, <1>4, <1>5, <1>6, <1>7, <1>8 DEF Serve

-----------------------------------------------------------------------------
(* The limits of the library.                                              *)

\* What the save whose transaction holds the lock has found still holds when
\* it inserts.
QuotaInv ==
  /\ IsFiniteSet(files)
  /\ \A f \in files : f.size \in Nat
  /\ QuotaHolds
  /\ \A r \in Request : phase[r] = "inserting" =>
       Cardinality(files) < MaxFiles /\ Used(files) + size[r] <= MaxBytes

LEMMA UsedType ==
  ASSUME NEW S, IsFiniteSet(S), \A f \in S : f.size \in Nat
  PROVE  Used(S) \in Nat
<1>1. [f \in S |-> f.size] \in [S -> Nat]
  OBVIOUS
<1> QED
  BY <1>1, TotalType DEF Used

LEMMA QuotaStarts == LibraryInit => QuotaInv
<1> SUFFICES ASSUME LibraryInit PROVE QuotaInv
  OBVIOUS
<1>1. files = {} /\ IsFiniteSet(files) /\ Cardinality(files) = 0
  BY FS_EmptySet DEF LibraryInit
<1>2. [f \in {} |-> f.size] \in [{} -> Nat]
  OBVIOUS
<1>3. Used({}) = 0
  BY <1>1, <1>2, TotalOfZeros DEF Used
<1> QED
  BY <1>1, <1>3, SizesAreNaturals DEF LibraryInit, QuotaInv, QuotaHolds

\* One file more takes its bytes more, at most.
LEMMA OneFileMore ==
  ASSUME NEW S, IsFiniteSet(S), \A f \in S : f.size \in Nat, NEW new, new.size \in Nat
  PROVE  /\ IsFiniteSet(S \cup {new})
         /\ Cardinality(S \cup {new}) <= Cardinality(S) + 1
         /\ Used(S \cup {new}) <= Used(S) + new.size
<1>1. /\ IsFiniteSet(S \cup {new}) /\ Cardinality(S) \in Nat
      /\ Cardinality(S \cup {new}) = IF new \in S THEN Cardinality(S) ELSE Cardinality(S) + 1
  BY FS_AddElement, FS_CardinalityType
<1>2. Used(S) \in Nat
  BY UsedType
<1>3. CASE new \in S
  <2>1. S \cup {new} = S
    BY <1>3
  <2>2. Used(S) <= Used(S) + new.size /\ Cardinality(S) <= Cardinality(S) + 1
    BY <1>1, <1>2
  <2> QED
    BY <2>1, <2>2
<1>4. CASE new \notin S
  <2> DEFINE f == [x \in S |-> x.size]
             g == [x \in S \cup {new} |-> x.size]
  <2>1. f \in [S -> Nat] /\ g \in [S \cup {new} -> Nat] /\ \A x \in S : g[x] = f[x]
    OBVIOUS
  <2>2. g[new] = new.size
    OBVIOUS
  <2>3. Total(f) = Used(S) /\ Total(g) = Used(S \cup {new})
    BY DEF Used
  <2> HIDE DEF f, g
  <2>4. Total(g) = Total(f) + g[new]
    <3>1. IsFiniteSet(S)
      OBVIOUS
    <3>2. f \in [S -> Nat]
      BY <2>1
    <3>3. g \in [S \cup {new} -> Nat]
      BY <2>1
    <3>4. \A x \in S : g[x] = f[x]
      BY <2>1
    <3> QED
      BY ONLY <1>4, <3>1, <3>2, <3>3, <3>4, TotalAdds
  <2>5. Used(S \cup {new}) = Used(S) + new.size
    BY <2>2, <2>3, <2>4
  <2>6. Used(S \cup {new}) <= Used(S) + new.size
    BY <1>2, <2>5
  <2>7. Cardinality(S \cup {new}) <= Cardinality(S) + 1
    BY <1>1, <1>4
  <2> QED
    BY <1>1, <2>6, <2>7
<1> QED
  BY <1>3, <1>4

\* Fewer files take no more bytes.
LEMMA FewerFiles ==
  ASSUME NEW S, IsFiniteSet(S), \A f \in S : f.size \in Nat, NEW T \in SUBSET S
  PROVE  /\ IsFiniteSet(T)
         /\ Cardinality(T) <= Cardinality(S)
         /\ Used(T) <= Used(S)
<1> DEFINE f == [x \in T |-> x.size]
           g == [x \in S |-> x.size]
<1>1. f \in [T -> Nat] /\ g \in [S -> Nat] /\ \A x \in T : f[x] <= g[x]
  OBVIOUS
<1>2. Total(f) = Used(T) /\ Total(g) = Used(S)
  BY DEF Used
<1> HIDE DEF f, g
<1>3. Total(f) <= Total(g)
  BY <1>1, TotalGrows
<1> QED
  BY <1>2, <1>3, FS_Subset

LEMMA UsedStands == UNCHANGED files => UNCHANGED Used(files)
BY DEF Used, Total, MapThenSumSet, MapThenFoldSet

LEMMA QuotaStep ==
  ASSUME RequestInv, QuotaInv, NEW q \in Request, Serve(q) \/ Fail(q) \/ Authorize(q)
  PROVE  QuotaInv'
<1>1. /\ Cardinality(files) \in Nat /\ Used(files) \in Nat
      /\ Cardinality(files) <= MaxFiles /\ Used(files) <= MaxBytes
      /\ MaxFiles \in Nat /\ MaxBytes \in Nat
  BY UsedType, FS_CardinalityType, SizesAreNaturals DEF QuotaInv, QuotaHolds
<1>2. \A r \in Request \ {q} : phase'[r] = phase[r] /\ size'[r] = size[r]
  BY OthersWait
<1>3. RequestInv'
  BY RequestStep
<1>4. CASE ReadUsage(q)
  <2>1. files' = files /\ Used(files)' = Used(files)
    BY <1>4, UsedStands DEF ReadUsage
  <2>2. phase'[q] = "inserting" =>
          Cardinality(files) < MaxFiles /\ Used(files) + size'[q] <= MaxBytes
    BY <1>1, <1>4 DEF ReadUsage, RequestInv, To, End, Ended
  <2> QED
    BY <1>2, <2>1, <2>2 DEF QuotaInv, QuotaHolds
<1>5. CASE Insert(q)
  <2> DEFINE new == [id |-> q, job |-> about[q], size |-> size[q], results |-> seen[q]]
  <2>1. files' = files \cup {new} /\ new.size \in Nat /\ new.size = size[q]
    BY <1>5 DEF Insert, RequestInv
  <2>2. /\ Cardinality(files) < MaxFiles /\ Used(files) + size[q] <= MaxBytes
        /\ \A r \in Request \ {q} : phase[r] # "inserting"
    BY <1>5 DEF Insert, RequestInv, QuotaInv
  <2>3. phase'[q] # "inserting"
    BY <1>5 DEF Insert, RequestInv, End, To, Ended
  <2>4. \A f \in files' : f.size \in Nat
    BY <2>1 DEF QuotaInv
  <2>5. /\ IsFiniteSet(files') /\ Cardinality(files') <= Cardinality(files) + 1
        /\ Used(files') <= Used(files) + size[q]
    <3> HIDE DEF new
    <3> QED
      BY <2>1, OneFileMore DEF QuotaInv
  <2>6. Cardinality(files') \in Nat /\ Used(files') \in Nat /\ size[q] \in Nat
    BY <2>4, <2>5, UsedType, FS_CardinalityType DEF RequestInv
  <2>7. Cardinality(files') <= MaxFiles /\ Used(files') <= MaxBytes
    BY <1>1, <2>2, <2>5, <2>6
  <2>8. Used(files)' = Used(files')
    BY DEF Used, Total, MapThenSumSet, MapThenFoldSet
  <2> QED
    BY <1>2, <2>2, <2>3, <2>4, <2>5, <2>7, <2>8 DEF QuotaInv, QuotaHolds
<1>6. CASE Delete(q)
  <2>1. files' \in SUBSET files
    BY <1>6 DEF Delete
  <2>2. \A r \in Request : phase'[r] # "inserting"
    BY <1>2, <1>6 DEF Delete, RequestInv, End, To, Ended
  <2>3. /\ IsFiniteSet(files') /\ Cardinality(files') <= Cardinality(files)
        /\ Used(files') <= Used(files)
    BY <2>1, FewerFiles DEF QuotaInv
  <2>4. \A f \in files' : f.size \in Nat
    BY <2>1 DEF QuotaInv
  <2>5. Cardinality(files') \in Nat /\ Used(files') \in Nat
    BY <2>3, <2>4, UsedType, FS_CardinalityType
  <2>6. Used(files)' = Used(files')
    BY DEF Used, Total, MapThenSumSet, MapThenFoldSet
  <2> QED
    BY <1>1, <2>2, <2>3, <2>4, <2>5, <2>6 DEF QuotaInv, QuotaHolds
<1>7. CASE \/ ReadJob(q) \/ ReadResults(q) \/ Render(q) \/ AskRemoval(q) \/ TakeLock(q)
           \/ Fail(q) \/ Authorize(q)
  <2>1. files' = files
    BY <1>7 DEF ReadJob, ReadResults, Render, AskRemoval, TakeLock, Fail, Authorize
  <2>2. phase'[q] # "inserting"
    BY <1>7 DEF ReadJob, ReadResults, Render, AskRemoval, TakeLock, Fail, Authorize,
                RequestInv, End, To, Ended
  <2>3. Used(files)' = Used(files)
    BY <2>1, UsedStands
  <2> QED
    BY <1>2, <2>1, <2>2, <2>3 DEF QuotaInv, QuotaHolds
<1> QED
  BY <1>4, <1>5, <1>6, <1>7 DEF Serve

-----------------------------------------------------------------------------
(* What a request has read.                                                *)

\* The first n statements.
Prefix(n) == {Statements[i] : i \in 1 .. n}

LEMMA PrefixSets ==
  /\ Prefix(0) = {} /\ Prefix(1) = {"status"} /\ Prefix(2) = {"status", "people"}
  /\ Prefix(3) = {"status", "people", "profiles"}
  /\ Prefix(4) = {"status", "people", "profiles", "sources"}
  /\ Prefix(5) = {"status", "people", "profiles", "sources", "claims"}
<1>1. /\ 1 .. 0 = {} /\ 1 .. 1 = {1} /\ 1 .. 2 = {1, 2} /\ 1 .. 3 = {1, 2, 3}
      /\ 1 .. 4 = {1, 2, 3, 4} /\ 1 .. 5 = {1, 2, 3, 4, 5}
  OBVIOUS
<1>2. /\ Statements[1] = "status" /\ Statements[2] = "people" /\ Statements[3] = "profiles"
      /\ Statements[4] = "sources" /\ Statements[5] = "claims"
  BY DEF Statements
<1> QED
  BY <1>1, <1>2 DEF Prefix

LEMMA PrefixGrows ==
  ASSUME NEW n \in 0 .. 4
  PROVE  /\ IsFiniteSet(Prefix(n)) /\ Cardinality(Prefix(n)) = n
         /\ Statements[n + 1] \notin Prefix(n)
         /\ Prefix(n + 1) = Prefix(n) \cup {Statements[n + 1]}
<1>1. /\ Statements[1] = "status" /\ Statements[2] = "people" /\ Statements[3] = "profiles"
      /\ Statements[4] = "sources" /\ Statements[5] = "claims"
  BY DEF Statements
<1>2. \A m \in 0 .. 4 : /\ Statements[m + 1] \notin Prefix(m)
                        /\ Prefix(m + 1) = Prefix(m) \cup {Statements[m + 1]}
  <2> TAKE m \in 0 .. 4
  <2>1. m = 0 \/ m = 1 \/ m = 2 \/ m = 3 \/ m = 4
    OBVIOUS
  <2> QED
    BY <1>1, <2>1, PrefixSets
<1>3. ASSUME NEW m \in 0 .. 3, IsFiniteSet(Prefix(m)), Cardinality(Prefix(m)) = m
      PROVE  IsFiniteSet(Prefix(m + 1)) /\ Cardinality(Prefix(m + 1)) = m + 1
  <2>1. Statements[m + 1] \notin Prefix(m) /\ Prefix(m + 1) = Prefix(m) \cup {Statements[m + 1]}
    BY <1>2
  <2> QED
    BY <1>3, <2>1, FS_AddElement
<1>4. IsFiniteSet(Prefix(0)) /\ Cardinality(Prefix(0)) = 0
  BY PrefixSets, FS_EmptySet
<1>5. IsFiniteSet(Prefix(1)) /\ Cardinality(Prefix(1)) = 1
  BY <1>3, <1>4
<1>6. IsFiniteSet(Prefix(2)) /\ Cardinality(Prefix(2)) = 2
  BY <1>3, <1>5
<1>7. IsFiniteSet(Prefix(3)) /\ Cardinality(Prefix(3)) = 3
  BY <1>3, <1>6
<1>8. IsFiniteSet(Prefix(4)) /\ Cardinality(Prefix(4)) = 4
  BY <1>3, <1>7
<1>9. n = 0 \/ n = 1 \/ n = 2 \/ n = 3 \/ n = 4
  OBVIOUS
<1> QED
  BY <1>2, <1>4, <1>5, <1>6, <1>7, <1>8, <1>9

\* A request has run the first of its statements, in their order.
Progress(r) ==
  /\ phase[r] \in {"arrived", "admitted"} => DOMAIN seen[r] = {}
  /\ phase[r] = "reading" => \E n \in 0 .. 4 : DOMAIN seen[r] = Prefix(n)
  /\ phase[r] = "rendering" => DOMAIN seen[r] = Prefix(5)

ProgressInv == \A r \in Request : Progress(r)

LEMMA ProgressStarts == LibraryInit => ProgressInv
BY DEF LibraryInit, ProgressInv, Progress

\* The next statement adds what it reads to what has been read.
LEMMA StatementRead ==
  ASSUME RequestInv, ProgressInv, NEW q \in Request, ReadResults(q)
  PROVE  \E n \in 0 .. 4 :
           /\ DOMAIN seen[q] = Prefix(n) /\ DOMAIN seen'[q] = Prefix(n + 1)
           /\ phase'[q] = IF n + 1 = 5 THEN "rendering" ELSE "reading"
           /\ about'[q] = about[q] /\ UNCHANGED batch
           /\ seen'[q][Statements[n + 1]] = Current(about[q], Statements[n + 1])
           /\ \A st \in Prefix(n) : seen'[q][st] = seen[q][st]
<1>1. PICK n \in 0 .. 4 : DOMAIN seen[q] = Prefix(n)
  BY DEF ReadResults, ProgressInv, Progress
<1>2. /\ Cardinality(DOMAIN seen[q]) = n /\ Statements[n + 1] \notin Prefix(n)
      /\ Prefix(n + 1) = Prefix(n) \cup {Statements[n + 1]}
  BY <1>1, PrefixGrows
<1>3. Len(Statements) = 5
  BY DEF Statements
<1> DEFINE next == Statements[n + 1]
           now2 == [s \in Prefix(n) \cup {next} |-> IF s = next THEN Current(about[q], next) ELSE seen[q][s]]
<1>4. /\ seen' = [seen EXCEPT ![q] = now2]
      /\ phase' = [phase EXCEPT ![q] = IF n + 1 = 5 THEN "rendering" ELSE "reading"]
      /\ about' = about /\ UNCHANGED batch
  BY <1>1, <1>2, <1>3 DEF ReadResults, To
<1>5. seen'[q] = now2 /\ phase'[q] = IF n + 1 = 5 THEN "rendering" ELSE "reading"
  BY <1>4 DEF RequestInv
<1> QED
  BY <1>1, <1>2, <1>4, <1>5

LEMMA ProgressStep ==
  ASSUME RequestInv, ProgressInv, NEW q \in Request, Serve(q) \/ Fail(q) \/ Authorize(q)
  PROVE  ProgressInv'
<1>1. \A r \in Request \ {q} : Progress(r)'
  BY OthersWait DEF ProgressInv, Progress
<1>2. Progress(q)'
  <2> USE DEF RequestInv, To, End, Ended, ProgressInv, Progress
  <2>1. CASE ReadJob(q)
    <3>1. Prefix(0) = {} /\ 0 \in 0 .. 4
      BY PrefixSets
    <3> QED
      BY <2>1, <3>1 DEF ReadJob
  <2>2. CASE ReadResults(q)
    <3>1. PICK n \in 0 .. 4 :
            /\ DOMAIN seen'[q] = Prefix(n + 1)
            /\ phase'[q] = IF n + 1 = 5 THEN "rendering" ELSE "reading"
      BY <2>2, StatementRead
    <3>2. CASE n = 4
      BY <3>1, <3>2
    <3>3. CASE n # 4
      <4>1. n + 1 \in 0 .. 4 /\ n + 1 # 5
        BY <3>3
      <4> QED
        BY <3>1, <4>1
    <3> QED
      BY <3>2, <3>3
  <2>3. CASE Render(q) \/ AskRemoval(q) \/ TakeLock(q)
    BY <2>3 DEF Render, AskRemoval, TakeLock
  <2>4. CASE ReadUsage(q) \/ Insert(q) \/ Delete(q)
    BY <2>4 DEF ReadUsage, Insert, Delete
  <2>5. CASE Fail(q)
    BY <2>5 DEF Fail
  <2>6. CASE Authorize(q)
    BY <2>6 DEF Authorize
  <2> QED
    BY <2>1, <2>2, <2>3, <2>4, <2>5, <2>6 DEF Serve
<1> QED
  BY <1>1, <1>2 DEF ProgressInv

-----------------------------------------------------------------------------
(* Saves: what is kept is what the batch ends with.                        *)

SaverInv ==
  \A r \in Saver, j \in Job : about[r] = j =>
    /\ phase[r] \in {"reading", "rendering", "locking", "locked", "inserting"} =>
         /\ answer[j] = "done"
         /\ \A st \in DOMAIN seen[r] : seen[r][st] = Current(j, st)
    /\ phase[r] \in {"locking", "locked", "inserting"} =>
         \E p \in Queue!PersonsOf(j) : profile[p] # NoProfile

FilesInv ==
  /\ \A f \in files : f.job \in Job
  /\ \A f \in files, j \in Job : f.job = j =>
       /\ answer[j] = "done"
       /\ \A st \in DOMAIN f.results : f.results[st] = Current(j, st)
       /\ \E p \in Queue!PersonsOf(j) : profile[p] # NoProfile

LEMMA CurrentStands ==
  UNCHANGED batch => \A j \in Job : \A st : Current(j, st)' = Current(j, st)
BY DEF batch, Current, Status, Queue!PersonsOf

LEMMA SavesStart == LibraryInit => SaverInv /\ FilesInv
BY DEF LibraryInit, SaverInv, FilesInv, Request

LEMMA ResearchSparesSaves ==
  ASSUME BatchInv, SaverInv, FilesInv, Research
  PROVE  SaverInv' /\ FilesInv'
<1>1. /\ phase' = phase /\ about' = about /\ seen' = seen /\ files' = files
  BY DEF Research, requests
<1>2. \A j \in Job : answer[j] = "done" =>
        /\ answer'[j] = "done"
        /\ \A st : Current(j, st)' = Current(j, st)
        /\ \A p \in Queue!PersonsOf(j) : profile'[p] = profile[p]
  BY DoneStands
<1>3. SaverInv'
  BY <1>1, <1>2 DEF SaverInv, Queue!PersonsOf
<1>4. FilesInv'
  BY <1>1, <1>2 DEF FilesInv, Queue!PersonsOf
<1> QED
  BY <1>3, <1>4

\* What a save has read of a job that is done shows a result that is there.
LEMMA KeptHasResult ==
  ASSUME RequestInv, ProgressInv, SaverInv, NEW r \in Saver, phase[r] = "rendering",
         MayBeKept(seen[r]), NEW j \in Job, about[r] = j
  PROVE  \E p \in Queue!PersonsOf(j) : profile[p] # NoProfile
<1>1. \A st \in DOMAIN seen[r] : seen[r][st] = Current(j, st)
  BY DEF SaverInv
<1>2. "people" \in DOMAIN seen[r] /\ "profiles" \in DOMAIN seen[r]
  BY PrefixSets DEF ProgressInv, Progress, Request
<1>3. /\ seen[r].people = [p \in Queue!PersonsOf(j) |-> outcome[p]]
      /\ seen[r].profiles = [p \in Queue!PersonsOf(j) |-> profile[p]]
  BY <1>1, <1>2 DEF Current
<1>4. PICK p \in DOMAIN seen[r].people : seen[r].profiles[p] # NoProfile
  BY DEF MayBeKept
<1> QED
  BY <1>3, <1>4

LEMMA SavesStep ==
  ASSUME BatchInv, RequestInv, ProgressInv, SaverInv, FilesInv,
         NEW q \in Request, Serve(q) \/ Fail(q) \/ Authorize(q)
  PROVE  SaverInv' /\ FilesInv'
<1>1. UNCHANGED batch
  BY DEF Serve, Fail, Authorize, ReadJob, ReadResults, Render, AskRemoval, TakeLock, ReadUsage,
         Insert, Delete
<1>2. /\ answer' = answer /\ profile' = profile
      /\ \A j \in Job : \A st : Current(j, st)' = Current(j, st)
  BY <1>1, CurrentStands DEF batch
<1>3. \A r \in Request \ {q} : phase'[r] = phase[r] /\ about'[r] = about[r] /\ seen'[r] = seen[r]
  BY OthersWait
<1>4. ASSUME q \in Saver, NEW j \in Job, about'[q] = j
      PROVE  /\ phase'[q] \in {"reading", "rendering", "locking", "locked", "inserting"} =>
                  /\ answer[j] = "done"
                  /\ \A st \in DOMAIN seen'[q] : seen'[q][st] = Current(j, st)
             /\ phase'[q] \in {"locking", "locked", "inserting"} =>
                  \E p \in Queue!PersonsOf(j) : profile[p] # NoProfile
  <2> USE <1>4 DEF RequestInv
  <2>1. CASE ReadJob(q)
    <3>1. CASE phase'[q] = "reading"
      <4>1. phase[q] = "admitted" /\ DOMAIN seen[q] = {}
        BY <2>1 DEF ReadJob, ProgressInv, Progress
      <4>2. PICK k \in Job : /\ Status(k) \in Saveable /\ about' = [about EXCEPT ![q] = k]
                             /\ seen' = seen
        BY <2>1, <3>1 DEF ReadJob, To, End
      <4>3. k = j
        BY <4>2
      <4>4. answer[j] = "done"
        <5>1. answer[j] \in {"none", "open", "done", "cancelled"}
          BY DEF BatchInv
        <5>2. answer[j] # "done" => Status(j) = answer[j]
          BY DEF Status
        <5> QED
          BY <4>2, <4>3, <5>1, <5>2 DEF Saveable
      <4> QED
        BY <3>1, <4>1, <4>2, <4>4
    <3>2. CASE phase'[q] # "reading"
      BY <2>1, <3>2 DEF ReadJob, To, End
    <3> QED
      BY <3>1, <3>2
  <2>2. CASE ReadResults(q)
    <3>1. PICK n \in 0 .. 4 :
            /\ DOMAIN seen[q] = Prefix(n) /\ DOMAIN seen'[q] = Prefix(n + 1)
            /\ phase'[q] = IF n + 1 = 5 THEN "rendering" ELSE "reading"
            /\ about'[q] = about[q]
            /\ seen'[q][Statements[n + 1]] = Current(about[q], Statements[n + 1])
            /\ \A st \in Prefix(n) : seen'[q][st] = seen[q][st]
      BY <2>2, StatementRead
    <3>2. Prefix(n + 1) = Prefix(n) \cup {Statements[n + 1]}
      BY PrefixGrows
    <3>3. phase[q] = "reading" /\ about[q] = j
      BY <2>2, <3>1 DEF ReadResults
    <3>4. answer[j] = "done" /\ \A st \in DOMAIN seen[q] : seen[q][st] = Current(j, st)
      BY <3>3 DEF SaverInv
    <3>5. phase'[q] \notin {"locking", "locked", "inserting"}
      BY <3>1
    <3> QED
      BY <3>1, <3>2, <3>3, <3>4, <3>5
  <2>3. CASE Render(q)
    <3>1. CASE MayBeKept(seen[q]) /\ phase'[q] = "locking" /\ about' = about /\ seen' = seen
      <4>1. phase[q] = "rendering" /\ about[q] = j
        BY <2>3, <3>1 DEF Render
      <4>2. \E p \in Queue!PersonsOf(j) : profile[p] # NoProfile
        BY <3>1, <4>1, KeptHasResult
      <4> QED
        BY <3>1, <4>1, <4>2 DEF SaverInv
    <3>2. CASE phase'[q] \in Ended
      BY <3>2 DEF Ended
    <3> QED
      BY <2>3, <3>1, <3>2 DEF Render, To, End, Ended
  <2>4. CASE AskRemoval(q)
    BY <2>4, OneRoutePerRequest DEF AskRemoval
  <2>5. CASE TakeLock(q)
    BY <2>5 DEF TakeLock, To, SaverInv
  <2>6. CASE ReadUsage(q)
    <3>1. \/ phase'[q] \in Ended
          \/ phase[q] = "locked" /\ phase'[q] = "inserting" /\ about' = about /\ seen' = seen
      BY <2>6 DEF ReadUsage, To, End, Ended
    <3> QED
      BY <3>1 DEF SaverInv, Ended
  <2>7. CASE Insert(q) \/ Delete(q) \/ Fail(q)
    BY <2>7 DEF Insert, Delete, Fail, To, End, Ended
  <2>8. CASE Authorize(q)
    <3>1. phase'[q] \in {"admitted", "refused"}
      BY <2>8 DEF Authorize, To
    <3> QED
      BY <3>1
  <2> QED
    BY <2>1, <2>2, <2>3, <2>4, <2>5, <2>6, <2>7, <2>8 DEF Serve
<1>5. SaverInv'
  BY <1>2, <1>3, <1>4 DEF SaverInv, Request, Queue!PersonsOf
<1>6. CASE files' \subseteq files
  BY <1>2, <1>5, <1>6 DEF FilesInv, Queue!PersonsOf
<1>7. CASE Insert(q)
  <2> DEFINE new == [id |-> q, job |-> about[q], size |-> size[q], results |-> seen[q]]
  <2>1. files' = files \cup {new} /\ phase[q] = "inserting" /\ q \in Saver /\ about[q] \in Job
    BY <1>7 DEF Insert, RequestInv
  <2>2. /\ answer[new.job] = "done" /\ new.job \in Job
        /\ \A st \in DOMAIN new.results : new.results[st] = Current(new.job, st)
        /\ \E p \in Queue!PersonsOf(new.job) : profile[p] # NoProfile
    BY <2>1 DEF SaverInv
  <2> HIDE DEF new
  <2> QED
    BY <1>2, <1>5, <2>1, <2>2 DEF FilesInv, Queue!PersonsOf
<1>8. files' \subseteq files \/ Insert(q)
  BY DEF Serve, Fail, Authorize, ReadJob, ReadResults, Render, AskRemoval, TakeLock, ReadUsage,
         Delete
<1> QED
  BY <1>5, <1>6, <1>7, <1>8

-----------------------------------------------------------------------------
(* Exports: what a profile rests on is read after the profile.             *)

ExporterInv ==
  \A r \in Exporter, j \in Job : about[r] = j /\ phase[r] \in {"reading", "rendering"} =>
    /\ \A st \in DOMAIN seen[r] \ {"status"} : DOMAIN seen[r][st] = Queue!PersonsOf(j)
    /\ "people" \in DOMAIN seen[r] => \A p \in Queue!PersonsOf(j) :
         seen[r]["people"][p] \in Queue!Final => outcome[p] \in Queue!Final
    /\ "profiles" \in DOMAIN seen[r] => \A p \in Queue!PersonsOf(j) :
         /\ seen[r]["people"][p] \in Queue!Final => seen[r]["profiles"][p] = profile[p]
         /\ seen[r]["profiles"][p] # NoProfile => seen[r]["profiles"][p] \subseteq evidence[p]
    /\ \A st \in DOMAIN seen[r] \cap {"sources", "claims"} : \A p \in Queue!PersonsOf(j) :
         seen[r]["profiles"][p] # NoProfile => seen[r]["profiles"][p] \subseteq seen[r][st][p]

LEMMA ExportsStart == LibraryInit => ExporterInv
BY DEF LibraryInit, ExporterInv, Request

LEMMA ResearchSparesExports ==
  ASSUME BatchInv, RequestInv, ProgressInv, ExporterInv, Research
  PROVE  ExporterInv'
<1>1. phase' = phase /\ about' = about /\ seen' = seen
  BY DEF Research, requests
<1>2. \A p \in Person : /\ evidence[p] \subseteq evidence'[p]
                        /\ outcome[p] \in Queue!Final =>
                             outcome'[p] = outcome[p] /\ profile'[p] = profile[p]
  BY BatchStep DEF PersonStands
<1>3. ASSUME NEW r \in Exporter, phase[r] \in {"reading", "rendering"},
             "profiles" \in DOMAIN seen[r]
      PROVE  "people" \in DOMAIN seen[r]
  <2>1. \E n \in 0 .. 5 : DOMAIN seen[r] = Prefix(n)
    BY <1>3 DEF ProgressInv, Progress, Request
  <2>2. \A n \in 0 .. 5 : n = 0 \/ n = 1 \/ n = 2 \/ n = 3 \/ n = 4 \/ n = 5
    OBVIOUS
  <2> QED
    BY <1>3, <2>1, <2>2, PrefixSets
<1>4. SUFFICES ASSUME NEW r \in Exporter, NEW j \in Job, about[r] = j,
                      phase[r] \in {"reading", "rendering"}
      PROVE  /\ \A st \in DOMAIN seen[r] \ {"status"} : DOMAIN seen[r][st] = Queue!PersonsOf(j)
             /\ "people" \in DOMAIN seen[r] => \A p \in Queue!PersonsOf(j) :
                  seen[r]["people"][p] \in Queue!Final => outcome'[p] \in Queue!Final
             /\ "profiles" \in DOMAIN seen[r] => \A p \in Queue!PersonsOf(j) :
                  /\ seen[r]["people"][p] \in Queue!Final => seen[r]["profiles"][p] = profile'[p]
                  /\ seen[r]["profiles"][p] # NoProfile => seen[r]["profiles"][p] \subseteq evidence'[p]
             /\ \A st \in DOMAIN seen[r] \cap {"sources", "claims"} : \A p \in Queue!PersonsOf(j) :
                  seen[r]["profiles"][p] # NoProfile => seen[r]["profiles"][p] \subseteq seen[r][st][p]
  BY <1>1 DEF ExporterInv, Queue!PersonsOf, Queue!Final
<1>5. \A p \in Queue!PersonsOf(j) : p \in Person
  BY DEF Queue!PersonsOf
<1> QED
  BY <1>2, <1>3, <1>4, <1>5 DEF ExporterInv

LEMMA ExportsStep ==
  ASSUME BatchInv, RequestInv, ProgressInv, ExporterInv,
         NEW q \in Request, Serve(q) \/ Fail(q) \/ Authorize(q)
  PROVE  ExporterInv'
<1>1. outcome' = outcome /\ profile' = profile /\ evidence' = evidence
  BY DEF Serve, Fail, Authorize, ReadJob, ReadResults, Render, AskRemoval, TakeLock, ReadUsage,
         Insert, Delete, batch
<1>2. \A r \in Request \ {q} : phase'[r] = phase[r] /\ about'[r] = about[r] /\ seen'[r] = seen[r]
  BY OthersWait
<1>3. ASSUME NEW j \in Job, q \in Exporter, about'[q] = j, phase'[q] \in {"reading", "rendering"}
      PROVE  /\ \A st \in DOMAIN seen'[q] \ {"status"} : DOMAIN seen'[q][st] = Queue!PersonsOf(j)
             /\ "people" \in DOMAIN seen'[q] => \A p \in Queue!PersonsOf(j) :
                  seen'[q]["people"][p] \in Queue!Final => outcome[p] \in Queue!Final
             /\ "profiles" \in DOMAIN seen'[q] => \A p \in Queue!PersonsOf(j) :
                  /\ seen'[q]["people"][p] \in Queue!Final => seen'[q]["profiles"][p] = profile[p]
                  /\ seen'[q]["profiles"][p] # NoProfile => seen'[q]["profiles"][p] \subseteq evidence[p]
             /\ \A st \in DOMAIN seen'[q] \cap {"sources", "claims"} : \A p \in Queue!PersonsOf(j) :
                  seen'[q]["profiles"][p] # NoProfile => seen'[q]["profiles"][p] \subseteq seen'[q][st][p]
  <2>1. CASE ReadJob(q)
    <3>1. DOMAIN seen'[q] = {}
      BY <2>1, <1>3 DEF ReadJob, To, End, Ended, RequestInv, ProgressInv, Progress
    <3> QED
      BY <3>1
  <2>2. CASE ReadResults(q)
    <3>1. PICK n \in 0 .. 4 :
            /\ DOMAIN seen[q] = Prefix(n) /\ DOMAIN seen'[q] = Prefix(n + 1)
            /\ about'[q] = about[q]
            /\ seen'[q][Statements[n + 1]] = Current(about[q], Statements[n + 1])
            /\ \A st \in Prefix(n) : seen'[q][st] = seen[q][st]
      BY <2>2, StatementRead
    <3>2. phase[q] = "reading" /\ about[q] = j
      BY <1>3, <2>2, <3>1 DEF ReadResults
    <3>3. /\ Statements[1] = "status" /\ Statements[2] = "people" /\ Statements[3] = "profiles"
          /\ Statements[4] = "sources" /\ Statements[5] = "claims"
      BY DEF Statements
    <3>4. /\ Current(j, "people") = [p \in Queue!PersonsOf(j) |-> outcome[p]]
          /\ Current(j, "profiles") = [p \in Queue!PersonsOf(j) |-> profile[p]]
          /\ Current(j, "sources") = [p \in Queue!PersonsOf(j) |-> evidence[p]]
          /\ Current(j, "claims") = [p \in Queue!PersonsOf(j) |-> evidence[p]]
      BY DEF Current
    <3>5. \A p \in Queue!PersonsOf(j) : profile[p] # NoProfile => profile[p] \subseteq evidence[p]
      BY DEF BatchInv, Queue!PersonsOf
    <3>6. /\ \A st \in DOMAIN seen[q] \ {"status"} : DOMAIN seen[q][st] = Queue!PersonsOf(j)
          /\ "people" \in DOMAIN seen[q] => \A p \in Queue!PersonsOf(j) :
               seen[q]["people"][p] \in Queue!Final => outcome[p] \in Queue!Final
          /\ "profiles" \in DOMAIN seen[q] => \A p \in Queue!PersonsOf(j) :
               /\ seen[q]["people"][p] \in Queue!Final => seen[q]["profiles"][p] = profile[p]
               /\ seen[q]["profiles"][p] # NoProfile => seen[q]["profiles"][p] \subseteq evidence[p]
          /\ \A st \in DOMAIN seen[q] \cap {"sources", "claims"} : \A p \in Queue!PersonsOf(j) :
               seen[q]["profiles"][p] # NoProfile => seen[q]["profiles"][p] \subseteq seen[q][st][p]
      BY <1>3, <3>2 DEF ExporterInv
    <3>7. n = 0 \/ n = 1 \/ n = 2 \/ n = 3 \/ n = 4
      OBVIOUS
    <3>8. CASE n = 0
      BY <3>1, <3>8, PrefixSets
    <3>9. CASE n = 1
      BY <3>1, <3>2, <3>3, <3>4, <3>6, <3>9, PrefixSets
    <3>10. CASE n = 2
      BY <3>1, <3>2, <3>3, <3>4, <3>5, <3>6, <3>10, PrefixSets
    <3>11. CASE n = 3
      BY <3>1, <3>2, <3>3, <3>4, <3>6, <3>11, PrefixSets
    <3>12. CASE n = 4
      BY <3>1, <3>2, <3>3, <3>4, <3>6, <3>12, PrefixSets
    <3> QED
      BY <3>7, <3>8, <3>9, <3>10, <3>11, <3>12
  <2>3. CASE Render(q) \/ AskRemoval(q) \/ TakeLock(q) \/ Authorize(q)
    BY <1>3, <2>3 DEF Render, AskRemoval, TakeLock, Authorize, To, End, Ended, RequestInv
  <2>4. CASE ReadUsage(q) \/ Insert(q) \/ Delete(q) \/ Fail(q)
    BY <1>3, <2>4 DEF ReadUsage, Insert, Delete, Fail, To, End, Ended, RequestInv
  <2> QED
    BY <2>1, <2>2, <2>3, <2>4 DEF Serve
<1> QED
  BY <1>1, <1>2, <1>3 DEF ExporterInv, Request, Queue!PersonsOf, Queue!Final

-----------------------------------------------------------------------------
(* The certificates.                                                       *)

CertificateInv ==
  /\ sign \in [Caller -> {"waiting", "fetching", "approved", "rejected", "unavailable", "done"}]
  /\ DOMAIN used = Caller /\ used = [c \in Caller |-> used[c]]
  /\ FreshCertificates

LEMMA CertificatesStart == CertificateInit => CertificateInv
BY DEF CertificateInit, CertificateInv, FreshCertificates, NotUsed

LEMMA CertificatesStep ==
  ASSUME CertificateInv, NEW c \in Caller, Verify(c) \/ Conclude(c)
  PROVE  CertificateInv'
<1> USE DEF CertificateInv, FreshCertificates
<1>1. CASE EnterLock(c)
  BY <1>1 DEF EnterLock, VerifiedWith
<1>2. CASE FetchAnswers(c)
  BY <1>2 DEF FetchAnswers, VerifiedWith
<1>3. CASE FetchFails(c)
  BY <1>3 DEF FetchFails
<1>4. CASE Conclude(c)
  BY <1>4 DEF Conclude
<1> QED
  BY <1>1, <1>2, <1>3, <1>4 DEF Verify

-----------------------------------------------------------------------------
(* Together.                                                               *)

ApiInv ==
  BatchInv /\ RequestInv /\ QuotaInv /\ ProgressInv /\ SaverInv /\ FilesInv /\ ExporterInv
    /\ CertificateInv

LEMMA ApiStarts == Init => ApiInv
BY BatchStarts, RequestsStart, QuotaStarts, ProgressStarts, SavesStart, ExportsStart,
   CertificatesStart DEF Init, ApiInv

LEMMA BatchWaits == BatchInv /\ UNCHANGED batch => BatchInv'
BY DEF BatchInv, batch, Queue!PersonsOf, Queue!Final

LEMMA RequestsWait ==
  ASSUME RequestInv, QuotaInv, ProgressInv, UNCHANGED <<requests, lock, files>>
  PROVE  RequestInv' /\ QuotaInv' /\ ProgressInv'
<1> USE DEF requests
<1>1. RequestInv'
  BY DEF RequestInv, Phases, Ended
<1>2. QuotaInv'
  BY UsedStands DEF QuotaInv, QuotaHolds
<1>3. ProgressInv'
  BY DEF ProgressInv, Progress
<1> QED
  BY <1>1, <1>2, <1>3

LEMMA ReadersWait ==
  ASSUME SaverInv, FilesInv, ExporterInv, UNCHANGED libraryVars
  PROVE  SaverInv' /\ FilesInv' /\ ExporterInv'
<1> USE DEF libraryVars, requests
<1>1. \A j \in Job : \A st : Current(j, st)' = Current(j, st)
  BY CurrentStands
<1>2. SaverInv'
  BY <1>1 DEF SaverInv, batch, Queue!PersonsOf
<1>3. FilesInv'
  BY <1>1 DEF FilesInv, batch, Queue!PersonsOf
<1>4. ExporterInv'
  BY DEF ExporterInv, batch, Queue!PersonsOf, Queue!Final
<1> QED
  BY <1>2, <1>3, <1>4

LEMMA CertificatesWait ==
  CertificateInv /\ sign' = sign /\ used' = used => CertificateInv'
BY DEF CertificateInv, FreshCertificates

LEMMA ApiStep == ApiInv /\ [Next]_apiVars => ApiInv'
<1> SUFFICES ASSUME ApiInv, [Next]_apiVars PROVE ApiInv'
  OBVIOUS
<1> USE DEF ApiInv
<1>1. ASSUME Research, UNCHANGED certificateVars
      PROVE  ApiInv'
  <2>1. UNCHANGED <<requests, lock, files>>
    BY <1>1 DEF Research
  <2> QED
    BY <1>1, <2>1, BatchStep, RequestsWait, ResearchSparesSaves, ResearchSparesExports,
       CertificatesWait DEF certificateVars
<1>2. ASSUME UNCHANGED libraryVars, CertificateInv'
      PROVE  ApiInv'
  BY <1>2, BatchWaits, RequestsWait, ReadersWait DEF libraryVars
<1>3. ASSUME NEW q \in Request, Serve(q) \/ Fail(q) \/ Authorize(q),
             UNCHANGED certificateVars \/ (q \in Caller /\ Conclude(q))
      PROVE  ApiInv'
  <2>1. UNCHANGED batch
    BY <1>3 DEF Serve, Fail, Authorize, ReadJob, ReadResults, Render, AskRemoval, TakeLock,
                ReadUsage, Insert, Delete
  <2>2. RequestInv' /\ QuotaInv' /\ ProgressInv' /\ SaverInv' /\ FilesInv' /\ ExporterInv'
    BY <1>3, RequestStep, QuotaStep, ProgressStep, SavesStep, ExportsStep
  <2>3. CertificateInv'
    BY <1>3, CertificatesStep, CertificatesWait DEF certificateVars
  <2> QED
    BY <2>1, <2>2, <2>3, BatchWaits
<1>4. CASE Tick /\ UNCHANGED libraryVars
  <2>1. CertificateInv'
    BY <1>4, CertificatesWait DEF Tick
  <2> QED
    BY <1>2, <1>4, <2>1
<1>5. CASE \E r \in Request : r \in Caller /\ Verify(r) /\ UNCHANGED libraryVars
  <2>1. CertificateInv'
    BY <1>5, CertificatesStep
  <2> QED
    BY <1>2, <1>5, <2>1
<1>6. CASE \E r \in Request : \/ Authorize(r)
                              \/ (Serve(r) \/ Fail(r)) /\ UNCHANGED certificateVars
  <2>1. ASSUME NEW r \in Request, Authorize(r)
        PROVE  UNCHANGED certificateVars \/ (r \in Caller /\ Conclude(r))
    BY <2>1 DEF Authorize
  <2> QED
    BY <1>3, <1>6, <2>1
<1>7. CASE UNCHANGED apiVars
  <2>1. CertificateInv'
    BY <1>7, CertificatesWait DEF apiVars, certificateVars
  <2> QED
    BY <1>2, <1>7, <2>1 DEF apiVars
<1> QED
  BY <1>1, <1>4, <1>5, <1>6, <1>7 DEF Next, Step

\* What the limits, the reads and the certificates rest on always holds.
THEOREM ApiInvariant == FairSpec => []ApiInv
<1>1. Init => ApiInv
  BY ApiStarts
<1>2. ApiInv /\ [Next]_apiVars => ApiInv'
  BY ApiStep
<1> QED
  BY <1>1, <1>2, PTL DEF FairSpec

\* The library never exceeds its limits, however saves, removals and lost
\* connections interleave: the lock a save holds from its look at what the
\* library holds keeps that look true until it inserts (db/library.py _save).
THEOREM QuotaCorrect == FairSpec => []QuotaHolds
<1>1. ApiInv => QuotaHolds
  BY DEF ApiInv, QuotaInv
<1> QED
  BY <1>1, ApiInvariant, PTL

\* What is saved is what the batch ends with, although it was read piece by
\* piece: a job that is done stays as it is (routes.py job_exports).
THEOREM SavedResultsCorrect == FairSpec => []SavedResultStands
<1>1. ApiInv => SavedResultStands
  BY DEF ApiInv, FilesInv, BatchInv, SavedResultStands
<1> QED
  BY <1>1, ApiInvariant, PTL

\* No export shows a profile without what it rests on, or another profile than
\* a finished person has: people are read before profiles, and profiles before
\* sources and claims, all of which only grow (store.py get_results).
THEOREM ExportsCorrect == FairSpec => []ExportRestsOnEvidence
<1>1. ASSUME ApiInv, NEW r \in Exporter, phase[r] = "rendering"
      PROVE  \A p \in DOMAIN seen[r].people :
               /\ seen[r].profiles[p] # NoProfile =>
                    seen[r].profiles[p] \subseteq seen[r].sources[p] \cap seen[r].claims[p]
               /\ seen[r].people[p] \in Queue!Final => seen[r].profiles[p] = profile[p]
  <2>1. /\ DOMAIN seen[r] = {"status", "people", "profiles", "sources", "claims"}
        /\ about[r] \in Job
    BY <1>1, PrefixSets DEF ApiInv, ProgressInv, Progress, RequestInv, Request
  <2> QED
    BY <1>1, <2>1 DEF ApiInv, ExporterInv
<1>2. ApiInv => ExportRestsOnEvidence
  BY <1>1 DEF ExportRestsOnEvidence
<1> QED
  BY <1>2, ApiInvariant, PTL

\* Every credential is verified with certificates that are valid then, or that
\* its own request has fetched (auth.py _get_certificates).
THEOREM CertificatesCorrect == FairSpec => []FreshCertificates
<1>1. ApiInv => FreshCertificates
  BY DEF ApiInv, CertificateInv
<1> QED
  BY <1>1, ApiInvariant, PTL
=============================================================================
