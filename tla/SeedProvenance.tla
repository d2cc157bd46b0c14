---------------------------- MODULE SeedProvenance ----------------------------
(***************************************************************************)
(* app/research/seed_provenance.py: what the spreadsheet supplied, beside  *)
(* what was found.  A supplied value is agreed to, contradicted or out of  *)
(* date; where nothing was found it is shown, without confidence and never *)
(* next to a role or a credential that is another one.                     *)
(*                                                                         *)
(* A seed has a name, attributes in order of their columns, core (the      *)
(* typed fields) and places (country and location).                        *)
(***************************************************************************)
EXTENDS Claims

Fields == ResearchFields \cup {"full_name"}

\* FieldDecision, with no value and no evidence.
Undecided ==
  [value |-> 0, confidence |-> 0, selected |-> << >>, support |-> {}, conflicts |-> {},
   alternatives |-> {}, review |-> FALSE, reasons |-> {}, strength |-> 0, against |-> 0,
   status |-> "none", researched |-> 0, researchConfidence |-> -1, supplied |-> {}, agreeing |-> {}]

\* The field an attribute supplies; a former employer is none of them.
FieldFor(label) == IF label = "current_employer" THEN "organisation" ELSE ClueField(label)
Former == [historical_employer |-> "organisation", historical_job_title |-> "job_title"]

\* The key of the text that a claim quotes.
RawKey(c) == IF c.field = "degree_type" THEN DegreeCandidates(c.qualification)[1].value ELSE c.raw

\* Agreement and disagreement for an attribute of a field, among the claims of
\* that field, of which `same` have its value.
Judged(a, field, claims, same, sources) ==
  LET agreeing == {c \in same : a.field \in DOMAIN Former => Historical(c)}
      denying == {s \in sources : \E clue \in Source[s].contradicted :
                                    clue.label = field /\ clue.first}
      conflicting == \E c \in claims \ agreeing : c.source \in denying
      newer == /\ field \in Volatile /\ \E c \in agreeing : Historical(c)
               /\ \E c \in claims \ same : c.current = "yes" /\ ~c.ended
  IN [field |-> a.field, value |-> a.value, agreeing |-> {c.n : c \in agreeing},
      status |-> First(<< <<field \notin Fields, "supplied">>,
                          <<conflicting, "conflicting">>,
                          <<newer, "superseded">>,
                          <<agreeing # {}, "corroborated">> >>, "supplied")]

\* supplied_attributes
SuppliedAttributes(seed, claims, sources) ==
  LET about(a) == IF a.field \in DOMAIN Former THEN Former[a.field] ELSE FieldFor(a.field)
      judged(a, among) ==
        Judged(a, about(a), among, {c \in among : RawKey(c) = a.value}, sources)
      each(a) == judged(a, {c \in claims : c.field = about(a)})
  IN Table([i \in DOMAIN seed.attributes |-> each(seed.attributes[i])])

\* The attributes of a seed that no research has judged.
InputAttributes(seed) == SuppliedAttributes(seed, {}, {})

\* A supplied part must not join a role or a credential that is another one.
ContextFields(f) == IF f \in Volatile THEN Volatile ELSE IF f \in Education THEN Education ELSE {}

\* Mistake: a projected value counts as found.
ShownAsFound(fields, f) == fields[f].value

\* What research found: a supplied value was projected into the field.
Shown(fields, f) ==
  IF f # "full_name" /\ fields[f].status = "supplied" THEN fields[f].researched ELSE fields[f].value

\* What the spreadsheet supplies of a field: its column, else the typed field.
Supply(seed, attributes, f) ==
  LET supplied == Filter(attributes, LAMBDA a : FieldFor(a.field) = f)
      given == Distinct(Table([i \in DOMAIN supplied |-> supplied[i].value]))
  IN [given |-> ToSet(given), states |-> {a.status : a \in ToSet(supplied)},
      values |-> IF given = << >> /\ f \in DOMAIN seed.core THEN <<seed.core[f]>> ELSE given,
      agreeing |-> UNION {a.agreeing : a \in ToSet(supplied)}]

\* The fields where a supplied value is shown because nothing was found.
Projected(shown, supply, blocked) ==
  {f \in Fields :
     /\ shown[f] = 0 /\ supply[f].values # << >>
     /\ \A g \in ContextFields(f) : shown[g] # 0 => shown[g] \in supply[g].given
     /\ ~(f = "profile_link" /\ supply[f].values[1] \in blocked)}

\* How what is shown of a field stands to what was supplied of it.
ProvenanceStatus(f, value, supplied, nameFound) ==
  LET agrees == value # 0 /\ (f = "full_name" => nameFound) /\ value \in ToSet(supplied.values)
  IN First(<< <<supplied.values = << >>, IF value # 0 THEN "researched" ELSE "none">>,
              <<"conflicting" \in supplied.states, "conflicting">>,
              <<agrees, "corroborated">>,
              <<"superseded" \in supplied.states, "superseded">>,
              <<value # 0 /\ f \in Volatile, "conflicting">>,
              <<value # 0 /\ f # "full_name", "researched">> >>, "supplied")

Doubt(status) ==
  CASE status = "conflicting" -> {"SUPPLIED_VALUE_CONFLICT"}
    [] status = "superseded" -> {"SUPPLIED_VALUE_SUPERSEDED"}
    [] status \notin {"conflicting", "superseded"} -> {}

\* A decision with its provenance: a value that was found, or projected.
Found(decision, status, value, researched, confidence) ==
  [decision EXCEPT !.value = value, !.researched = researched, !.researchConfidence = confidence,
     !.status = status, !.review = @ \/ Doubt(status) # {}, !.reasons = @ \cup Doubt(status)]
AsSupplied(decision, value, researched) ==
  [Found(decision, "supplied", value, researched, 0) EXCEPT !.confidence = 0]

Attached(fields, shown, supply, projected, webName) ==
  LET nameMatches == webName.value # 0 /\ webName.value = shown["full_name"]
      nameFound == nameMatches /\ webName.support # {}
      researched(f) == IF f # "full_name" THEN shown[f]
                       ELSE IF nameFound THEN webName.value ELSE 0
      confidence(f) ==
        CASE f = "full_name" -> IF nameMatches THEN webName.confidence ELSE 0
          [] f # "full_name" /\ fields[f].researchConfidence # -1 -> fields[f].researchConfidence
          [] f # "full_name" /\ fields[f].researchConfidence = -1 -> fields[f].confidence
      decided(f) ==
        IF f \in projected THEN AsSupplied(fields[f], supply[f].values[1], researched(f))
        ELSE Found(fields[f], ProvenanceStatus(f, shown[f], supply[f], nameFound), shown[f],
                   researched(f), confidence(f))
      beside(f, decision) ==
        IF supply[f].values = << >> THEN decision
        ELSE [decision EXCEPT !.supplied = ToSet(supply[f].values), !.agreeing = supply[f].agreeing]
  IN Table([f \in Fields |-> beside(f, decided(f))])

\* attach_seed_provenance.  webName is the decision about the name on the web.
AttachSeedProvenance(fields, seed, attributes, webName, blocked) ==
  LET attached(shown, supply) ==
        Attached(fields, shown, supply, Projected(shown, supply, blocked), webName)
  IN attached(Table([f \in Fields |-> Shown(fields, f)]),
              Table([f \in Fields |-> Supply(seed, attributes, f)]))

SeedReviewReasons(fields) ==
  UNION {fields[f].reasons : f \in Fields}
    \intersect {"SUPPLIED_VALUE_CONFLICT", "SUPPLIED_VALUE_SUPERSEDED"}

\* supplied_field_decisions: what is shown of a person without a result.
SuppliedFieldDecisions(seed, blocked) ==
  AttachSeedProvenance([f \in Fields |-> Undecided], seed, InputAttributes(seed), Undecided, blocked)

\* A stored profile, joined with what the spreadsheet supplied.
Joined(profile, seed, attributes, blocked) ==
  LET name(d) ==
        [d EXCEPT !.confidence = d.researchConfidence,
                  !.support = IF d.researchConfidence # 0 /\ d.status = "corroborated"
                              THEN d.agreeing ELSE @]
      joined(fields) ==
        AttachSeedProvenance(fields, seed, attributes, name(fields["full_name"]), blocked)
      with(part, fields) ==
        [part EXCEPT !.fields = fields, !.review = @ \/ SeedReviewReasons(fields) # {}]
      record(r, fields) == [with(r, fields) EXCEPT !.reasons = @ \cup SeedReviewReasons(fields)]
      whole(records) ==
        [with(profile, joined(profile.fields)) EXCEPT
           !.records = records, !.attributes = attributes,
           !.review = @ \/ \E i \in DOMAIN records : records[i].review]
  IN whole(Table([i \in DOMAIN profile.records |->
                    record(profile.records[i], joined(profile.records[i].fields))]))

\* project_stored_seed: the same projection over a stored profile, each time
\* it is read.
ProjectStoredSeed(profile, seed, blocked) ==
  Joined(profile, seed,
         IF profile.attributes # << >> THEN profile.attributes ELSE InputAttributes(seed), blocked)
=============================================================================
