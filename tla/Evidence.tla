------------------------------- MODULE Evidence -------------------------------
(***************************************************************************)
(* From pages to what is shown of a person: pages are read one by one in   *)
(* any order, one of them perhaps cut short by an interruption and read    *)
(* again (process_candidate of app/research/orchestrator.py); the claims   *)
(* are reconciled and stored; and each time the stored result is opened    *)
(* (_person_result_view of app/db/store.py) it is made to obey the source  *)
(* policy of that day and joined with the spreadsheet again.               *)
(***************************************************************************)
EXTENDS Reconciliation

CONSTANTS
  People,       \* [person -> [seed, pages, namesakes, sites, cuts]]: the sites that the policy
                \* may come to block, and how often the research is interrupted at most
  MaxBlocked    \* how many sites the policy comes to block

\* Columns are in order.  A person has finitely many pages, which are numbered;
\* the address of a page is not a site, and neither is the absence of a link.
ASSUME PeopleAssumption ==
  \A p \in DOMAIN People :
    /\ IsSeq(People[p].seed.attributes)
    /\ People[p].pages \subseteq Int /\ People[p].pages \subseteq DOMAIN Answers
    /\ IsFiniteSet(People[p].pages)
    /\ 0 \notin People[p].sites
    /\ \A s \in People[p].pages : Source[s].url \notin People[p].sites

VARIABLES
  person,    \* whose research this is
  done,      \* the pages that have been dealt with
  sources,   \* the pages that have a SourceRecord
  hashes,    \* seen_hashes: the contents that have been read
  claims,    \* the grounded claims, in the order in which they were found
  cuts,      \* how often the research was interrupted
  blocked,   \* the sites that the source policy blocks
  result,    \* the stored ResearchResult, or none
  opened     \* what was last shown of it, and under which policy

vars == <<person, done, sources, hashes, claims, cuts, blocked, result, opened>>

None == [shown |-> FALSE]
Seed == People[person].seed

\* A page the search may still bring.
Unread(s) ==
  /\ result = None
  /\ s \in People[person].pages \ done
  /\ Allowed(s, blocked)

Speaks(s) == ~Source[s].rejected /\ Source[s].identity >= Policy.identityMinimum

Init ==
  /\ person \in DOMAIN People
  /\ done = {} /\ sources = {} /\ hashes = {} /\ claims = << >> /\ cuts = 0
  /\ blocked = {}
  /\ result = None /\ opened = None

\* A page is read.  A copy of what was read before is not read again, and a
\* page about someone else gives no claims.
ReadPage(s) ==
  /\ Unread(s)
  /\ done' = done \cup {s} /\ sources' = sources \cup {s}
  /\ hashes' = hashes \cup {Source[s].hash}
  /\ claims' = IF Source[s].hash \in hashes \/ ~Speaks(s) THEN claims
               ELSE DeduplicateClaims(claims \o ValidateClaims(s, blocked))
  /\ UNCHANGED <<person, cuts, blocked, result, opened>>

\* The research stops after the first answer about a page.  The page will be
\* read again, so its content counts as unread.
CutShort(s) ==
  /\ Unread(s) /\ cuts < People[person].cuts
  /\ Source[s].hash \notin hashes /\ Speaks(s)
  /\ cuts' = cuts + 1 /\ sources' = sources \cup {s}
  /\ LET first == Validated(s, DOMAIN Answers[s] \intersect {1}, blocked)
     IN claims' = DeduplicateClaims(claims \o first)
  /\ hashes' = HashesOf(sources \ {s})
  /\ UNCHANGED <<person, done, blocked, result, opened>>

\* The research ends: here the search may bring no further page at any time.
Conclude ==
  /\ result = None /\ done # {}
  /\ result' = [shown |-> TRUE, profile |-> Reconcile(Seed, claims, sources, blocked),
                sources |-> sources, claims |-> claims, blocked |-> blocked]
  /\ UNCHANGED <<person, done, sources, hashes, claims, cuts, blocked, opened>>

\* A version of the program blocks one more site.
BlockSite(site) ==
  /\ Cardinality(blocked) < MaxBlocked
  /\ blocked' = blocked \cup {site}
  /\ UNCHANGED <<person, done, sources, hashes, claims, cuts, result, opened>>

\* The result is opened.
Open ==
  /\ result # None
  /\ opened' = [shown |-> TRUE, blocked |-> blocked, supplied |-> SuppliedFieldDecisions(Seed, blocked),
                profile |-> ProjectStoredSeed(Sanitize(result, Seed, blocked).profile, Seed, blocked)]
  /\ UNCHANGED <<person, done, sources, hashes, claims, cuts, blocked, result>>

Next ==
  \/ \E s \in People[person].pages : ReadPage(s)
  \/ \E s \in People[person].pages : CutShort(s)
  \/ Conclude
  \/ \E site \in People[person].sites \ blocked : BlockSite(site)
  \/ Open

Spec == Init /\ [][Next]_vars

-----------------------------------------------------------------------------
(* Properties.                                                             *)

Profiles(profile) == {profile.fields} \cup {profile.records[i].fields : i \in DOMAIN profile.records}
Shows(decision) == decision.support \cup decision.conflicts \cup decision.alternatives
ClaimNamed(n) == CHOOSE c \in ToSet(result.claims) : c.n = n

\* The claims that reconcile was free to use.
Usable ==
  {c \in ToSet(result.claims) :
     /\ Allowed(c.source, result.blocked) /\ EligibleForSource(c)
     /\ ~Source[c.source].rejected
     /\ Min({c.relevance, Source[c.source].identity}) >= Policy.identityMinimum}

\* TypeOK: values are values, and evidence is evidence that was found.
EvidenceTypeOK ==
  /\ person \in DOMAIN People
  /\ done \subseteq sources /\ sources \subseteq People[person].pages
  /\ hashes \subseteq HashesOf(sources)
  /\ blocked \subseteq People[person].sites
  /\ SourcesOf(ToSet(claims)) \subseteq sources
  /\ result # None =>
       \A fields \in Profiles(result.profile) : \A f \in Fields :
         /\ fields[f].confidence \in 0 .. 1000
         /\ Shows(fields[f]) \subseteq Ids(ToSet(claims))

\* Where a page connects the person with what the spreadsheet says of them, no
\* result rests on a page about a namesake.
NamesakesStayApart ==
  result # None /\ (\E c \in Usable : Source[c.source].anchored # {}) =>
    \A fields \in Profiles(result.profile) : \A f \in Fields :
      \A n \in fields[f].support : n[1] \notin People[person].namesakes

\* Whatever was grounded about a role or a credential is shown somewhere, as
\* support, conflict or alternative.  Only a title at a relative's business is
\* not, where nothing else is known of a role.
EvidenceShown(c) == \E fields \in Profiles(result.profile) : c.n \in Shows(fields[c.field])
OnlyAtARelatives(c) ==
  /\ \A f \in Volatile : result.profile.fields[f].support = {}
  /\ \E d \in ToSet(result.claims) :
       /\ d.source = c.source /\ d.group = c.group
       /\ d.field = "organisation" /\ "relative" \in Words[d.value]
RolesAndCredentialsStayVisible ==
  result # None =>
    \A c \in Usable : c.field \in Context /\ ~OnlyAtARelatives(c) => EvidenceShown(c)

\* Education does not depend on the order in which pages were read.
EducationIgnoresOrder ==
  result # None =>
    LET name(c) == c.n
        ordered == Reconcile(Seed, SortBy(result.claims, name), result.sources, result.blocked)
        credentials(profile) ==
          {[f \in Education |-> profile.records[i].fields[f]] : i \in DOMAIN profile.records}
    IN credentials(result.profile) = credentials(ordered)

\* Two degrees that one page lists apart, at two universities, never support
\* one record.
Statement(c) == {d \in ToSet(result.claims) : d.source = c.source /\ d.group = c.group}
ListedDegreesStayApart ==
  result # None =>
    \A i \in DOMAIN result.profile.records :
      LET degrees == {ClaimNamed(n) : n \in result.profile.records[i].fields["degree_type"].support}
      IN \A c, d \in degrees :
           c.source = d.source /\ c.group # 0 /\ d.group # 0
             => ~FieldConflicts(Statement(c), Statement(d), "university_name")

\* Nothing that is shown rests on a source that the policy blocks.
NothingFromBlockedSources ==
  opened # None =>
    \A fields \in Profiles(opened.profile) \cup {opened.supplied} : \A f \in Fields :
      /\ \A n \in Shows(fields[f]) \cup fields[f].agreeing : Allowed(n[1], opened.blocked)
      /\ f = "profile_link" => fields[f].value \notin opened.blocked

\* While the policy stays the same, opening a result shows what was stored: a
\* supplied value does not become a corroborated one by being read.  An export
\* joins what is shown with the spreadsheet again, and changes nothing.
Exported == ProjectStoredSeed(opened.profile, [Seed EXCEPT !.core = ("full_name" :> Seed.name)],
                              opened.blocked)
ReadingTwiceChangesNothing ==
  opened # None =>
    /\ Exported.fields = opened.profile.fields
    /\ opened.blocked = result.blocked => opened.profile.fields = result.profile.fields
=============================================================================
