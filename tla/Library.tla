------------------------------- MODULE Library -------------------------------
(***************************************************************************)
(* The routes that read the results of a batch while it is researched:     *)
(* an export reads them as they are, a save keeps them in the library that *)
(* all users share, and a removal takes a saved result out of it.          *)
(*                                                                         *)
(* The batch is the abstract queue that the job store implements, with the *)
(* profile a person's results show.  The results are read by statements of *)
(* their own, between which the batch goes on.  Saves and removals take    *)
(* the library's lock, for as long as their transaction lasts.             *)
(***************************************************************************)
EXTENDS Naturals, FiniteSets, Sequences, Totals

CONSTANTS
  Job, Person, JobOf, Token, NoToken, Item,  \* of the queue
  Saver, Exporter, Remover,  \* the requests, by route
  Traffic,       \* bound: the requests that may be made at once
  NoRequest,
  NoProfile,
  Size,          \* the sizes a rendered file may have
  MaxFileBytes,  \* LIBRARY_MAX_FILE_BYTES
  MaxFiles,      \* LIBRARY_MAX_FILES
  MaxBytes       \* LIBRARY_MAX_TOTAL_BYTES

Request == Saver \cup Exporter \cup Remover

ASSUME SizesAreNaturals == Size \subseteq Nat /\ {MaxFileBytes, MaxFiles, MaxBytes} \subseteq Nat
ASSUME OneRoutePerRequest ==
  /\ Traffic \subseteq SUBSET Request
  /\ Saver \cap Exporter = {} /\ Saver \cap Remover = {} /\ Exporter \cap Remover = {}
  /\ NoRequest \notin Request

VARIABLES
  outcome, owner, answer, evidence,  \* of the queue
  profile,  \* the evidence a person's profile rests on
  phase,    \* how far a request is
  about,    \* the job, or the saved result, a request is about
  seen,     \* what a request has read, by statement
  size,     \* the bytes a save asks for
  lock,     \* the request whose transaction holds the library's lock
  files     \* the library

Queue == INSTANCE ResearchQueue

batch == <<outcome, owner, answer, evidence, profile>>
requests == <<phase, about, seen, size>>
libraryVars == <<batch, requests, lock, files>>

\* How a request ends.
Ended == {"answered", "refused"}

LibraryInit ==
  /\ Queue!Init
  /\ profile = [p \in Person |-> NoProfile]
  /\ \E made \in Traffic : phase = [r \in Request |-> IF r \in made THEN "arrived" ELSE "answered"]
  /\ about = [r \in Request |-> NoRequest]
  /\ seen = [r \in Request |-> << >>]
  /\ size = [r \in Request |-> 0]
  /\ lock = NoRequest
  /\ files = {}

-----------------------------------------------------------------------------
(* The batch                                                               *)

\* A result is written with its profile and the evidence for it.
WriteResult(p) ==
  \E rests \in SUBSET evidence'[p] : profile' = [profile EXCEPT ![p] = rests]

Research ==
  /\ \/ \/ \E j \in Job : Queue!Submit(j) \/ Queue!Cancel(j)
        \/ Queue!Assign
        \/ \E p \in Person : Queue!Record(p, {})
        \/ \E p \in Person : Queue!Settle(p, "failed", {})
        /\ UNCHANGED profile
     \/ \E p \in Person, items \in SUBSET Item :
          \* review_required counts as completed in all that follows
          /\ Queue!Record(p, items) \/ \E o \in {"completed", "failed"} : Queue!Settle(p, o, items)
          /\ WriteResult(p)
  /\ UNCHANGED <<requests, lock, files>>

\* What the status of a job says of its people.
Status(j) ==
  LET outcomes == {outcome[p] : p \in Queue!PersonsOf(j)}
  IN  IF answer[j] # "done" THEN answer[j]
      ELSE IF outcomes \subseteq {"completed", "review_required"} THEN "completed"
      ELSE IF outcomes = {"failed"} THEN "failed"
      ELSE "partial"

-----------------------------------------------------------------------------
(* Requests                                                                *)

To(r, next) == phase' = [phase EXCEPT ![r] = next]

\* A request ends, and with it what it has read and asked for.
End(r, how) ==
  /\ To(r, how)
  /\ about' = [about EXCEPT ![r] = NoRequest]
  /\ seen' = [seen EXCEPT ![r] = << >>]
  /\ size' = [size EXCEPT ![r] = 0]

\* Mistake: what a batch has so far may be kept.
SaveableSoFar == {"completed", "partial", "open"}

Saveable == {"completed", "partial"}

\* The route's own look at the job, before its results are read.
ReadJob(r) ==
  /\ r \in Saver \cup Exporter
  /\ phase[r] = "admitted"
  /\ \E j \in Job :
       IF Status(j) = "none" \/ (r \in Saver /\ Status(j) \notin Saveable)
       THEN End(r, "refused")
       ELSE To(r, "reading") /\ about' = [about EXCEPT ![r] = j] /\ UNCHANGED <<seen, size>>
  /\ UNCHANGED <<batch, lock, files>>

\* Mistake: the evidence is read before the people it is about.
StatementsEvidenceFirst == <<"sources", "claims", "profiles", "status", "people">>

\* The statements that read the results of a job, in their order.
Statements == <<"status", "people", "profiles", "sources", "claims">>

Current(j, statement) ==
  LET people == Queue!PersonsOf(j)
  IN  CASE statement = "status"   -> Status(j)
        [] statement = "people"   -> [p \in people |-> outcome[p]]
        [] statement = "profiles" -> [p \in people |-> profile[p]]
        [] OTHER                  -> [p \in people |-> evidence[p]]

ReadResults(r) ==
  /\ phase[r] = "reading"
  /\ LET done == Cardinality(DOMAIN seen[r])
         next == Statements[done + 1]
     IN  /\ seen' = [seen EXCEPT ![r] =
              [s \in DOMAIN @ \cup {next} |-> IF s = next THEN Current(about[r], next) ELSE @[s]]]
         /\ To(r, IF done + 1 = Len(Statements) THEN "rendering" ELSE "reading")
  /\ UNCHANGED <<batch, about, size, lock, files>>

\* A result may be kept when nobody is open and somebody has a finished one.
MayBeKept(results) ==
  LET shown == {p \in DOMAIN results.people : results.profiles[p] # NoProfile}
      finished == {p \in shown : results.people[p] \in {"completed", "review_required"}}
  IN  /\ results.status \in Saveable
      /\ \A p \in DOMAIN results.people : results.people[p] # "open"
      /\ IF results.status = "partial" THEN finished # {} ELSE shown # {}

\* An export is sent.  A save is rendered in both formats, and refused when
\* there is nothing to keep or a file is too large.
Render(r) ==
  /\ phase[r] = "rendering"
  /\ \/ r \in Exporter /\ End(r, "answered")
     \/ r \in Saver /\ MayBeKept(seen[r])
        /\ \E csv, xlsx \in {bytes \in Size : bytes <= MaxFileBytes} :
             size' = [size EXCEPT ![r] = csv + xlsx]
        /\ To(r, "locking")
        /\ UNCHANGED <<about, seen>>
     \/ (r \in Saver => ~MayBeKept(seen[r]) \/ \E bytes \in Size : bytes > MaxFileBytes)
        /\ End(r, "refused")
  /\ UNCHANGED <<batch, lock, files>>

\* A removal names a saved result, which need not be there yet, or still.
AskRemoval(r) ==
  /\ r \in Remover
  /\ phase[r] = "admitted"
  /\ \E s \in Saver : about' = [about EXCEPT ![r] = s]
  /\ To(r, "locking")
  /\ UNCHANGED <<batch, seen, size, lock, files>>

\* Mistake: the lock is not waited for.
TakeLockAtOnce(r) ==
  /\ phase[r] = "locking"
  /\ lock' = r
  /\ To(r, "locked")
  /\ UNCHANGED <<batch, about, seen, size, files>>

\* The transaction begins by waiting for the library's lock.
TakeLock(r) ==
  /\ phase[r] = "locking"
  /\ lock = NoRequest
  /\ lock' = r
  /\ To(r, "locked")
  /\ UNCHANGED <<batch, about, seen, size, files>>

Used(saved) == Total([f \in saved |-> f.size])

\* The save reads what the library holds, and gives up or goes on to insert.
ReadUsage(r) ==
  /\ r \in Saver
  /\ phase[r] = "locked"
  /\ IF Cardinality(files) >= MaxFiles \/ Used(files) + size[r] > MaxBytes
     THEN End(r, "refused") /\ lock' = NoRequest
     ELSE To(r, "inserting") /\ UNCHANGED <<about, seen, size, lock>>
  /\ UNCHANGED <<batch, files>>

\* The insert commits; the answer may be lost with the connection.
Insert(r) ==
  /\ phase[r] = "inserting"
  /\ files' = files \cup {[id |-> r, job |-> about[r], size |-> size[r], results |-> seen[r]]}
  /\ lock' = NoRequest
  /\ \E how \in Ended : End(r, how)
  /\ UNCHANGED batch

Delete(r) ==
  /\ r \in Remover
  /\ phase[r] = "locked"
  /\ files' = {f \in files : f.id # about[r]}
  /\ lock' = NoRequest
  /\ \E how \in Ended : (files' = files => how = "refused") /\ End(r, how)
  /\ UNCHANGED batch

\* The connection to the database is lost: the transaction, and its lock, go.
Fail(r) ==
  /\ phase[r] \in {"admitted", "reading", "rendering", "locking", "locked", "inserting"}
  /\ End(r, "refused")
  /\ lock' = IF lock = r THEN NoRequest ELSE lock
  /\ UNCHANGED <<batch, files>>

\* What a request does once it is let in.
Serve(r) ==
  \/ ReadJob(r) \/ ReadResults(r) \/ Render(r)
  \/ AskRemoval(r)
  \/ TakeLock(r) \/ ReadUsage(r) \/ Insert(r) \/ Delete(r)

-----------------------------------------------------------------------------
(* Properties                                                              *)

\* The library never holds more files, or more bytes, than its limits, however
\* saves, removals and lost connections interleave (db/library.py _save).
QuotaHolds ==
  /\ Cardinality(files) <= MaxFiles
  /\ Used(files) <= MaxBytes

\* A saved result is complete and final although it was read piece by piece
\* from a batch that may have been under way: it shows every person with the
\* outcome, the profile and the evidence that the batch ends with, and at
\* least one result (routes.py job_exports, store.py get_results).
SavedResultStands ==
  \A f \in files :
    /\ \A statement \in DOMAIN f.results : f.results[statement] = Current(f.job, statement)
    /\ \A p \in Queue!PersonsOf(f.job) : outcome[p] \in Queue!Final
    /\ \E p \in Queue!PersonsOf(f.job) : profile[p] # NoProfile

\* An export of a batch that goes on shows no profile without the sources and
\* claims it rests on, and a person it calls finished with the profile the
\* person finished with (store.py get_results).
ExportRestsOnEvidence ==
  \A r \in Exporter : phase[r] = "rendering" =>
    \A p \in DOMAIN seen[r].people :
      /\ seen[r].profiles[p] # NoProfile =>
           seen[r].profiles[p] \subseteq seen[r].sources[p] \cap seen[r].claims[p]
      /\ seen[r].people[p] \in Queue!Final => seen[r].profiles[p] = profile[p]

=============================================================================
