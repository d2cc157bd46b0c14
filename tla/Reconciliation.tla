---------------------------- MODULE Reconciliation ----------------------------
(***************************************************************************)
(* app/research/reconciliation.py: from grounded claims to a profile.      *)
(* Claims of one statement form a bundle; bundles that can be the same     *)
(* credential, or the same job, form a cluster; every credential gets a    *)
(* record, and every field of it a decision: the group of equal values     *)
(* with the best score, what supports it and what contradicts it.          *)
(*                                                                         *)
(* A value is the key under which the code compares it.  Sequences of      *)
(* claims are in the order in which pages were read; where the code only   *)
(* gathers claims they are sets.                                           *)
(***************************************************************************)
EXTENDS SeedProvenance

CONSTANTS
  Unqualified,  \* [university -> the university it qualifies ("X, Berkeley" is an X), or 0]
  Aliases       \* the pairs {u, v} that an acronym, or a quote on a change of name, connects

-----------------------------------------------------------------------------
(* Equal and different values.                                             *)

Of(claims, field) == {c \in claims : c.field = field}
ValuesOf(claims, field) == {c.value : c \in Of(claims, field)}
FieldsOf(claims) == {c.field : c \in claims}

\* Not transitive: two campuses equal their university and not each other.
Equivalent(u, v) ==
  \/ u = v
  \/ {u, v} \in Aliases
  \/ Unqualified[u] # 0 /\ Unqualified[u] = v /\ Unqualified[v] = 0
  \/ Unqualified[v] # 0 /\ Unqualified[v] = u /\ Unqualified[u] = 0

FieldOverlaps(left, right, field) ==
  \E u \in ValuesOf(left, field), v \in ValuesOf(right, field) :
    u = v \/ (field = "university_name" /\ Equivalent(u, v))

FieldConflicts(left, right, field) ==
  /\ Of(left, field) # {} /\ Of(right, field) # {}
  /\ ~FieldOverlaps(left, right, field)

Overlap(left, right) ==
  Cardinality({f \in FieldsOf(left) \intersect FieldsOf(right) : FieldOverlaps(left, right, f)})
Conflict(left, right) ==
  Cardinality({f \in FieldsOf(left) \intersect FieldsOf(right) : FieldConflicts(left, right, f)})

-----------------------------------------------------------------------------
(* Bundles: the claims of a page under one label of the model, or one      *)
(* statement alone.  A group is the label, or what tells a lone statement. *)

GroupOf(c) ==
  IF c.group # 0 THEN <<c.group>>
  ELSE <<0, FieldRank[c.field], c.value, c.raw, c.asOf, c.year, CurrentRank[c.current], c.quote>>

BuildBundles(claims, fields) ==
  LET kept == Filter(claims, LAMBDA c : c.field \in fields)
      key(c) == <<c.source, GroupOf(c)>>
      keys == Table(Distinct(Table([i \in DOMAIN kept |-> key(kept[i])])))
  IN Table([k \in DOMAIN keys |->
       [source |-> keys[k][1], group |-> keys[k][2], grouped |-> keys[k][2][1] # 0,
        claims |-> {c \in ToSet(kept) : key(c) = keys[k]}]])

\* A literal list of degrees of one school is one bundle for each degree.
SplitCompound(bundle) ==
  LET degrees == Of(bundle.claims, "degree_type")
      levels == ValuesOf(degrees, "degree_type")
      literalList == /\ bundle.grouped
                     /\ Cardinality(ValuesOf(bundle.claims, "university_name")) = 1
                     /\ Cardinality(ValuesOf(bundle.claims, "subject")) <= 1
                     /\ Cardinality({c.quote : c \in bundle.claims}) = 1
                     /\ \A c \in bundle.claims : c.direct = "explicit"
      splits == /\ Cardinality(levels) > 1
                /\ Cardinality({c.raw : c \in degrees}) = 1 \/ literalList
      own(level) == {c \in bundle.claims :
                       IF c.field = "degree_type" THEN c.value = level
                       ELSE c.of \subseteq AnyDegree \/ level \in c.of}
      part(level) == [source |-> bundle.source, group |-> bundle.group \o <<level>>,
                      grouped |-> TRUE, claims |-> own(level)]
      ordered == Ascending(levels)
  IN IF splits THEN [i \in DOMAIN ordered |-> part(ordered[i])] ELSE <<bundle>>

\* One title and one organisation, and no two dates.
OneRole(claims) ==
  /\ \A f \in Volatile : Cardinality(ValuesOf(claims, f)) = 1
  /\ Cardinality({c.asOf : c \in claims} \ {Undated}) <= 1

\* Bundles, with one bundle for those that state one role together.
PairedBundles(bundles, together) ==
  LET inferred(i) == OneRole(UNION {bundles[j].claims : j \in together[i]})
      kept == Ascending({i \in DOMAIN bundles : ~inferred(i)})
      leads == Ascending({i \in DOMAIN bundles : inferred(i) /\ \A j \in together[i] : i <= j})
      role(i) == [bundles[i] EXCEPT !.grouped = TRUE,
                                    !.claims = UNION {bundles[j].claims : j \in together[i]}]
  IN Table([k \in DOMAIN kept |-> bundles[kept[k]]] \o [k \in DOMAIN leads |-> role(leads[k])])

\* The bundles of a single explicit claim with the statement of bundle i.
Together(bundles, i) ==
  LET about(j) == CHOOSE c \in bundles[j].claims : TRUE
      alone(j) == ~bundles[j].grouped /\ about(j).direct = "explicit"
      statement(c) == <<c.source, c.subject, c.quote, c.current = "no", c.year>>
  IN {j \in DOMAIN bundles : alone(i) /\ alone(j) /\ statement(about(j)) = statement(about(i))}

RoleBundles(bundles) ==
  PairedBundles(bundles, Table([i \in DOMAIN bundles |-> Together(bundles, i)]))

\* An unlabelled quote that gives one title and one organisation pairs them.
EmploymentBundles(claims) == RoleBundles(BuildBundles(claims, Volatile))

-----------------------------------------------------------------------------
(* Clusters.                                                               *)

ClaimsOf(cluster) == UNION {cluster.bundles[i].claims : i \in DOMAIN cluster.bundles}
NewCluster(bundle) == [bundles |-> <<bundle>>, alternatives |-> {}, ambiguous |-> FALSE]

\* The order of clusters that otherwise tie: their values.
Signature(cluster) ==
  Ascending({1000 * FieldRank[c.field] + c.value : c \in ClaimsOf(cluster)})

\* end dates, else the years that the wording gives.
CredentialYears(claims) ==
  LET ends == {c.year : c \in {d \in claims : d.ended}}
  IN IF ends # {} THEN ends ELSE {c.until : c \in claims} \ {0}

Apart(s, t) == s # {} /\ t # {} /\ s \intersect t = {}

\* Mistake: the labels that a page gives its degrees do not count.
DistinguishedByLevel(bundle, cluster) ==
  Apart(ValuesOf(bundle.claims, "degree_type"), ValuesOf(ClaimsOf(cluster), "degree_type"))

\* _definitely_distinct_education
Distinguished(bundle, cluster) ==
  LET mine == bundle.claims
      theirs == ClaimsOf(cluster)
      level(claims) == ValuesOf(claims, "degree_type")
      labels(claims) == {c.label : c \in Of(claims, "degree_type")} \ {0}
      sameLevel == level(mine) # {} /\ level(mine) = level(theirs)
      otherGroup(b) == /\ b.source = bundle.source /\ b.grouped /\ bundle.grouped
                       /\ b.group # bundle.group
                       /\ FieldConflicts(mine, b.claims, "university_name")
  IN \/ Apart(level(mine), level(theirs))
     \/ sameLevel /\ \/ \A f \in {"university_name", "subject"} : FieldConflicts(mine, theirs, f)
                     \/ Apart(labels(mine), labels(theirs))
                     \/ Apart(CredentialYears(mine), CredentialYears(theirs))
     \/ \E i \in DOMAIN cluster.bundles : otherGroup(cluster.bundles[i])

BundleStrength(bundle, identities) ==
  StrongestOf(bundle.claims, identities, [n \in {c.n : c \in bundle.claims} |-> 1000])

BundleOrderAsRead(bundle, identities) == <<0>>  \* mutant: in the order of pages
BundleOrder(bundle, identities) ==
  <<-BundleStrength(bundle, identities), Source[bundle.source].url>> \o bundle.group

NewEvidence(clusters, i, bundle) == [clusters EXCEPT ![i].bundles = Append(@, bundle)]
OnlyAlternative(clusters, i, bundle) ==
  [clusters EXCEPT ![i].ambiguous = TRUE, ![i].alternatives = @ \cup bundle.claims]

\* What becomes of a degree bundle: open are the clusters it can belong to.
PlaceAmong(clusters, bundle, open, overlap, conflict) ==
  LET compatible == {i \in open : overlap[i] > 0 /\ conflict[i] = 0}
      best == {i \in compatible : \A j \in compatible : overlap[j] <= overlap[i]}
      key(i) == <<-overlap[i], conflict[i]>> \o Signature(clusters[i])
      target == SortBy(Ascending(open), key)[1]
      disputed == {f \in FieldsOf(bundle.claims) :
                     FieldConflicts(bundle.claims, ClaimsOf(clusters[target]), f)} \ {"subject"}
  IN CASE Cardinality(best) = 1 -> NewEvidence(clusters, CHOOSE i \in best : TRUE, bundle)
       \* it fits several credentials: evidence on each, support of none
       [] Cardinality(best) > 1 ->
            [i \in DOMAIN clusters |-> IF i \in best THEN OnlyAlternative(clusters, i, bundle)[i]
                                       ELSE clusters[i]]
       [] best = {} /\ open = {} -> Append(clusters, NewCluster(bundle))
       \* one credential described in two ways
       [] best = {} /\ open # {} /\ overlap[target] > 0 ->
            [NewEvidence(clusters, target, bundle) EXCEPT
               ![target].ambiguous = @ \/ disputed # {}]
       [] best = {} /\ open # {} /\ overlap[target] = 0 -> OnlyAlternative(clusters, target, bundle)

\* The clusters a degree bundle fits.
PlaceDegree(clusters, bundle) ==
  PlaceAmong(clusters, bundle, {i \in DOMAIN clusters : ~Distinguished(bundle, clusters[i])},
    Table([i \in DOMAIN clusters |-> Overlap(bundle.claims, ClaimsOf(clusters[i]))]),
    Table([i \in DOMAIN clusters |-> Conflict(bundle.claims, ClaimsOf(clusters[i]))]))

\* The separate parts of one quote belong together.
SharesQuote(bundle, cluster) ==
  \E c \in bundle.claims, d \in ClaimsOf(cluster) : c.source = d.source /\ c.quote = d.quote

\* A university that a good source states is worth a record of its own.
ReliableInstitution(bundle, identities) ==
  \E c \in Of(bundle.claims, "university_name") :
    /\ c.direct = "explicit" /\ Source[c.source].authority >= Policy.publication
    /\ IdentityOf(c, identities) >= Policy.identityReview
    /\ Strength(c, identities, [n \in {c.n} |-> 1000]) >= Policy.review

\* A part without a degree goes to the one credential it fits.
PlaceOrphan(state, bundle, identities) ==
  LET clusters == state.clusters
      mine == bundle.claims
      fits(i) == /\ Conflict(mine, ClaimsOf(clusters[i])) = 0
                 /\ Overlap(mine, ClaimsOf(clusters[i])) > 0 \/ SharesQuote(bundle, clusters[i])
      compatible == {i \in DOMAIN clusters : fits(i)}
  IN CASE Cardinality(compatible) = 1 ->
            [state EXCEPT !.clusters = NewEvidence(@, CHOOSE i \in compatible : TRUE, bundle)]
       [] clusters = << >> /\ ReliableInstitution(bundle, identities) ->
            [state EXCEPT !.clusters = <<NewCluster(bundle)>>]
       [] OTHER -> [state EXCEPT !.orphans = @ \cup mine]

\* One part after the other.
PlaceOrphans(start, orphans, identities) ==
  FoldLeft(LAMBDA state, bundle : PlaceOrphan(state, bundle, identities), start, orphans)

\* Degrees make credentials, and the other parts join them, the strongest
\* bundle first and, of the other parts, those with an institution.
Credentials(degrees, orphans, identities) ==
  LET strongFirst(b) == BundleOrder(b, identities)
      institutionsFirst(b) ==
        <<IF Of(b.claims, "university_name") = {} THEN 1 ELSE 0>> \o BundleOrder(b, identities)
  IN PlaceOrphans([clusters |-> FoldLeft(PlaceDegree, << >>, SortBy(degrees, strongFirst)),
                   orphans |-> {}],
                  SortBy(orphans, institutionsFirst), identities)

\* The academic degrees of a bundle, and the claims that state none.
Degrees(bundle) == Of(bundle.claims, "degree_type")
RealDegrees(bundle) == {c \in Degrees(bundle) : c.kind = "academic_degree"}
Unreal(bundle) ==
  IF RealDegrees(bundle) = {} /\ Degrees(bundle) # {} THEN bundle.claims
  ELSE Degrees(bundle) \ RealDegrees(bundle)

\* Clusters, the strongest first.
StrongestFirst(clusters, identities) ==
  LET strength(cluster) == Max({BundleStrength(cluster.bundles[i], identities) :
                                  i \in DOMAIN cluster.bundles})
      key(cluster) == <<-strength(cluster)>> \o Signature(cluster)
  IN SortBy(clusters, key)

EducationOf(bundles, placed, identities) ==
  [clusters |-> StrongestFirst(placed.clusters, identities),
   excluded |-> UNION {Unreal(b) : b \in ToSet(bundles)}, orphans |-> placed.orphans]

Clustered(bundles, identities) ==
  LET regular == Filter(bundles, LAMBDA b : RealDegrees(b) # {})
      others == Filter(bundles, LAMBDA b : Degrees(b) = {})
      real == [i \in DOMAIN regular |-> [regular[i] EXCEPT !.claims = @ \ Unreal(regular[i])]]
  IN EducationOf(bundles, Credentials(real, others, identities), identities)

SplitBundles(bundles) == Concatenated([i \in DOMAIN bundles |-> SplitCompound(bundles[i])])

\* _education_clusters: clusters, what is no degree, and parts left over.
EducationClusters(claims, identities) ==
  Clustered(SplitBundles(BuildBundles(claims, Education)), identities)

IsHistorical(claims) == \A c \in claims : Historical(c)

\* A role joins the cluster of the same time that it fits best.
PlaceRole(clusters, bundle) ==
  LET fits(i) == /\ IsHistorical(bundle.claims) = IsHistorical(ClaimsOf(clusters[i]))
                 /\ Overlap(bundle.claims, ClaimsOf(clusters[i])) > 0
                 /\ Conflict(bundle.claims, ClaimsOf(clusters[i])) = 0
      key(i) == <<-Overlap(bundle.claims, ClaimsOf(clusters[i]))>> \o Signature(clusters[i])
      compatible == SortBy(Ascending({i \in DOMAIN clusters : fits(i)}), key)
  IN IF compatible = << >> THEN Append(clusters, NewCluster(bundle))
     ELSE NewEvidence(clusters, compatible[1], bundle)

\* _employment_clusters: bundles in the order of the claims.
EmploymentClusters(claims) == FoldLeft(PlaceRole, << >>, EmploymentBundles(claims))

-----------------------------------------------------------------------------
(* The quality of a claim for its field.                                   *)

\* The bundles of roles and of education.
BundlesOf(claims) == ToSet(EmploymentBundles(claims) \o BuildBundles(claims, Education))

\* The fields that are stated together with a claim.
Related(bundles, c) ==
  {c.field} \cup UNION {FieldsOf(b.claims) : b \in {d \in bundles : c \in d.claims}}

\* _quality_for_claim: the first rule that applies.
QualityOf(seed, bundles, c) ==
  LET related == Related(bundles, c)
      lone == Cardinality(related \intersect Education) = 1
      rule(field, holds, score, reason) ==
        <<c.field = field /\ holds, [score |-> score, reason |-> reason]>>
  IN First(<< rule("full_name", c.value # seed.name, 650, "NAME_VARIANT"),
              rule("job_title", "sentence" \in c.marks, 100, "DESCRIPTIVE_JOB_TITLE"),
              rule("job_title", "long" \in c.marks, 550, "DESCRIPTIVE_JOB_TITLE"),
              rule("job_title", "organisation" \notin related, 650, "UNPAIRED_FACT"),
              rule("subject", related \intersect Education = {"subject"}, 650, "UNPAIRED_FACT"),
              rule("degree_type", c.kind # "academic_degree", 700, "AMBIGUOUS_EDUCATION"),
              rule("university_name", lone, 900, "none"),
              rule("degree_type", lone, 850, "none") >>,
           [score |-> 1000, reason |-> "none"])

-----------------------------------------------------------------------------
(* A decision about one field.                                             *)

Ids(claims) == {c.n : c \in claims}

MandatoryReview ==
  {"CURRENT_ROLE_CONFLICT", "EDUCATION_GROUPING_AMBIGUITY", "NAME_VARIANT", "UNPAIRED_FACT",
   "AMBIGUOUS_EDUCATION", "DESCRIPTIVE_JOB_TITLE", "BELOW_SELECTION_FLOOR", "IDENTITY_AMBIGUITY"}
MissingReview ==
  {"AMBIGUOUS_EDUCATION", "BELOW_SELECTION_FLOOR", "CURRENT_ROLE_CONFLICT",
   "EDUCATION_GROUPING_AMBIGUITY"}

HighestScored(score) ==
  CHOOSE v \in DOMAIN score :
    \A w \in DOMAIN score \ {v} : score[w] < score[v] \/ (score[w] = score[v] /\ w < v)

\* The best group of equal values; a tie goes to the later value.
ChosenValue(relevant, identities, quality) ==
  HighestScored(Table([v \in {c.value : c \in relevant} |->
    Confidence({c \in relevant : c.value = v}, {}, identities, quality).score]))

\* A conflict is material when it is strong in itself and beside the claim.
Material(against, strength) == against >= 500 /\ 4 * against >= 3 * strength

\* No claim is for the field.
Missing(conflicts, alternatives, codes) ==
  [Undecided EXCEPT !.conflicts = Ids(conflicts), !.alternatives = Ids(alternatives),
     !.reasons = {"MISSING_FIELD"} \cup codes, !.review = codes \intersect MissingReview # {}]

\* The value of a group that has been scored, unless the score is too low.
Settled(value, support, against, alternatives, scored, reasons) ==
  LET decision == [Undecided EXCEPT !.confidence = scored.score, !.conflicts = Ids(against),
                     !.strength = scored.strength, !.against = scored.against]
  IN IF scored.score < Policy.selection
     THEN [decision EXCEPT !.alternatives = Ids(support \cup against \cup alternatives),
             !.reasons = reasons \cup {"BELOW_SELECTION_FLOOR"}, !.review = TRUE]
     ELSE [decision EXCEPT !.value = value, !.selected = scored.selected.n,
             !.support = Ids(support), !.alternatives = Ids(alternatives), !.reasons = reasons,
             !.review = \/ against # {} /\ Material(scored.against, scored.strength)
                        \/ scored.score < Policy.review
                        \/ reasons \intersect MandatoryReview # {}]

ScoredDecision(value, support, against, alternatives, codes, scored, reason) ==
  Settled(value, support, against, alternatives, scored,
          scored.reasons \cup codes \cup ({reason[scored.selected.n]} \ {"none"}))

Supported(value, support, against, alternatives, codes, identities, quality) ==
  ScoredDecision(value, support, against, alternatives, codes,
                 Confidence(support, against, identities, quality.score), quality.reason)

ValueDecision(value, known, alternatives, codes, identities, quality) ==
  Supported(value, {c \in known : c.value = value}, {c \in known : c.value # value}, alternatives,
            codes, identities, quality)

\* _decision.  quality has the score and the reason of each claim.
Decision(relevant, conflicts, alternatives, codes, identities, quality) ==
  IF relevant = {} THEN Missing(conflicts, alternatives, codes)
  ELSE ValueDecision(ChosenValue(relevant, identities, quality.score), relevant \cup conflicts,
                     alternatives, codes, identities, quality)

-----------------------------------------------------------------------------
(* The current role.                                                       *)

\* What a role is by the values of its claims, joined, and the kinds of source.
From(claims, kind) == \E s \in SourcesOf(claims) : Source[s].kind = kind
KindOf(claims) ==
  ClassifyRelationship(ValuesOf(claims, "organisation"), ValuesOf(claims, "job_title"),
                       From(claims, "government"), From(claims, "encyclopedia"))
OfficeOf(claims) ==
  PublicOffice(ValuesOf(claims, "organisation"), ValuesOf(claims, "job_title"),
               From(claims, "government"), From(claims, "encyclopedia"))

\* A relative's business, a place, or a country is no organisation.
NoOrganisation(seed, bundles, c) ==
  LET titles == UNION {ValuesOf(b.claims, "job_title") : b \in {d \in bundles : c \in d.claims}}
      kind == Source[c.source].kind
      official == kind = "government"
      encyclopedia == kind = "encyclopedia"
  IN /\ c.field = "organisation"
     /\ \/ "relative" \in Words[c.value]
        \/ c.value \in seed.places
        \/ ProbableCountry(c.value, titles, official, encyclopedia)
        \/ /\ "residence" \in Words[c.value]
           /\ ClassifyRelationship({c.value}, titles, official, encyclopedia)
                = "current_government_office"

\* A quote in the past tense ends the role that it states.
TemporallyGrounded(c) ==
  IF c.field \in Volatile /\ "past" \in c.marks THEN [c EXCEPT !.current = "no"] ELSE c

\* A practice of one's own: ownership, or the founding of it.
PrincipalPractice(claims) ==
  LET organisations == ValuesOf(claims, "organisation")
      titles == ValuesOf(claims, "job_title")
      quoted(mark) == \E c \in claims : mark \in c.marks
  IN /\ Has(organisations \cup titles, "practice") \/ quoted("practice")
     /\ Has(titles, "owner") \/ quoted("founding")

RelationshipType(claims, activePractice) ==
  LET kind == KindOf(claims)
  IN CASE PrincipalPractice(claims) -> "principal_professional_practice"
       [] /\ ~PrincipalPractice(claims)
          /\ Only(ValuesOf(claims, "job_title"), "member") /\ \E c \in claims : "committee" \in c.marks
            -> "advisory_role"
       [] OTHER -> IF kind = "current_academic_role" /\ activePractice
                   THEN "secondary_academic_role" ELSE kind

Truth(holds) == IF holds THEN 1 ELSE 0
StatesCurrent(claims) == \E c \in claims : c.current = "yes" /\ ~c.ended

\* The newest date, as an age; no date is older than any.
Newest(claims) ==
  LET ages == {Observed(c) : c \in claims} \ {Undated} IN IF ages = {} THEN Undated ELSE Min(ages)

Freshness(claims) ==
  LET age == Newest(claims)
  IN CASE age = Undated -> IF \E c \in claims : c.current = "yes" THEN 4 ELSE 0
       [] age # Undated -> IF age <= 1 THEN 4 ELSE IF age <= 2 THEN 3 ELSE IF age <= 4 THEN 2 ELSE 1

CareerYear(claims) ==
  Max({0} \cup {c.year : c \in {d \in claims : d.ended}} \cup {c.until : c \in claims})

\* rank: what makes a job the present, principal one, in order of weight.
Rank(cluster, clusters, activePractice, identities, quality) ==
  LET claims == ClaimsOf(cluster)
      kind == RelationshipType(claims, activePractice)
      current == \E c \in claims : c.current = "yes"
      statedNow == \E c \in Of(claims, "job_title") :
                     /\ c.current = "unknown" /\ c.direct = "explicit" /\ "present" \in c.marks
                     /\ Source[c.source].kind \in Official
      allOver == \A i \in DOMAIN clusters : IsHistorical(ClaimsOf(clusters[i]))
      latest == Max({CareerYear(ClaimsOf(clusters[i])) : i \in DOMAIN clusters})
      primary == /\ \/ Freshness(claims) >= 3 /\ (current \/ statedNow)
                    \/ allOver /\ latest # 0 /\ CareerYear(claims) = latest
                 /\ kind \in {"current_government_office", "current_executive_role",
                             "current_primary_employment", "current_academic_role",
                             "principal_professional_practice"}
      \* more than "the ministry" or "the government"
      specific == \E o \in ValuesOf(claims, "organisation") : "unspecific" \notin Words[o]
  IN <<Truth(primary), RelationshipPriority[kind], Truth(OfficeOf(claims) \in PrimaryOffice),
       Truth(specific), Freshness(claims), Truth(current),
       Max({Source[s].authority : s \in SourcesOf(claims)}),
       EarlierFirst(Newest(claims)), Cardinality(FieldsOf(claims)),
       StrongestOf(claims, identities, quality.score)>>

RoleLimit == 100   \* strengths that differ by no more are the same
CurrentState(rank) == SubSeq(rank, 1, 6)

ClaimsIn(clusters, places) == UNION {ClaimsOf(clusters[i]) : i \in places}

\* The current role.  A secure present primary office is not displaced.
CurrentRole(clusters, rank, identities) ==
  LET position(i) == [k \in 1 .. 10 |-> -rank[i][k]] \o Signature(clusters[i])
      secure(i) == /\ rank[i][1] = 1 /\ rank[i][3] = 1 /\ rank[i][10] >= Policy.review
                   /\ \A c \in ClaimsOf(clusters[i]) : identities[c.source] >= Policy.identityReview
      first(order, offices) ==
        IF offices # << >> /\ rank[order[1]][3] = 0 THEN offices[1] ELSE order[1]
      among(order) == first(order, Filter(order, secure))
  IN among(SortBy([i \in DOMAIN clusters |-> i], position))

\* Two roles that a person says to have at the same time.
Concurrent(claims, others) ==
  /\ StatesCurrent(claims) /\ StatesCurrent(others)
  /\ \E c \in claims \cup others : "concurrent" \in c.marks

\* The roles that may as well be the current one.
Unresolved(clusters, rank, winner) ==
  {i \in DOMAIN clusters \ {winner} :
     /\ ~Concurrent(ClaimsOf(clusters[winner]), ClaimsOf(clusters[i]))
     /\ CurrentState(rank[i]) = CurrentState(rank[winner]) /\ rank[i][8] = rank[winner][8]
     /\ rank[i][10] - rank[winner][10] \in -RoleLimit .. RoleLimit}

\* The decisions about a role, from the claims that state it, those that may
\* as well, and the other claims.
RoleDecisions(selected, unresolved, others, invalid, identities, quality) ==
  LET over == IsHistorical(selected)
      code(c, holds) == IF holds THEN {c} ELSE {}
      codes(f) == code("CURRENT_ROLE_CONFLICT", Of(unresolved, f) # {})
                  \cup code("HISTORICAL_PROFESSIONAL_AFFILIATION", over)
                  \cup code("UNPAIRED_FACT", FieldsOf(selected) # Volatile)
                  \cup code("INVALID_ORGANISATION_VALUE", invalid # {} /\ f = "organisation")
  IN [f \in Volatile |->
        [Decision(Of(selected, f), Of(unresolved, f), Of(others, f), codes(f), identities, quality)
           EXCEPT !.review = @ \/ over]]

\* The decisions when `winner` is the current role.  aside are claims that
\* state no role of the person's own.
RoleWon(clusters, winner, unresolved, aside, invalid, identities, quality) ==
  RoleDecisions(ClaimsOf(clusters[winner]), ClaimsIn(clusters, unresolved),
    ClaimsIn(clusters, DOMAIN clusters \ (unresolved \cup {winner}))
      \cup (aside \ ClaimsOf(clusters[winner])),
    invalid, identities, quality)

RolesDecided(clusters, rank, winner, aside, invalid, identities, quality) ==
  RoleWon(clusters, winner, Unresolved(clusters, rank, winner), aside, invalid, identities, quality)

RolesRanked(clusters, rank, aside, invalid, identities, quality) ==
  RolesDecided(clusters, rank, CurrentRole(clusters, rank, identities), aside, invalid,
               identities, quality)

Ranks(clusters, identities, quality) ==
  LET practice == \E i \in DOMAIN clusters : /\ PrincipalPractice(ClaimsOf(clusters[i]))
                                            /\ ~IsHistorical(ClaimsOf(clusters[i]))
  IN Table([i \in DOMAIN clusters |-> Rank(clusters[i], clusters, practice, identities, quality)])

RolesClustered(clusters, historical, invalid, withRelatives, identities, quality) ==
  IF clusters = << >> THEN [f \in Volatile |-> Missing({}, Of(historical \cup invalid, f), {})]
  ELSE RolesRanked(clusters, Ranks(clusters, identities, quality),
                   historical \cup invalid \cup withRelatives, invalid, identities, quality)

\* The decisions without claims of invalid organisations and relatives.
RolesAmong(valid, invalid, withRelatives, identities, quality) ==
  LET grounded == [i \in DOMAIN valid |-> TemporallyGrounded(valid[i])]
      historical == {c \in ToSet(grounded) : c.field \in Volatile /\ Historical(c)}
  IN RolesClustered(EmploymentClusters(grounded), historical, invalid, withRelatives,
                    identities, quality)

RolesWithout(claims, invalid, withRelatives, identities, quality) ==
  RolesAmong(Filter(claims, LAMBDA c : c \notin invalid \cup withRelatives), invalid,
             withRelatives, identities, quality)

RolesOf(seed, claims, bundles, identities, quality) ==
  LET ofRelatives(b) == \E c \in b.claims : c.field = "organisation" /\ "relative" \in Words[c.value]
  IN RolesWithout(claims, {c \in ToSet(claims) : NoOrganisation(seed, bundles, c)},
                  UNION {b.claims : b \in {d \in bundles : ofRelatives(d)}}, identities, quality)

\* _employment_decisions
EmploymentDecisions(seed, claims, identities, quality) ==
  RolesOf(seed, claims, ToSet(EmploymentBundles(claims)), identities, quality)

-----------------------------------------------------------------------------
(* The link that represents the profile: the source that contributed most. *)

\* The strongest claim so far gives way to a stronger one.
Strongest(claims, order) ==
  LET stronger(c, best) == IF Precedes(order[c], order[best]) THEN c ELSE best
  IN FoldSet(stronger, CHOOSE c \in claims : TRUE, claims)

\* What a source contributed, in all.
Worth(gift, strength) == LET each(f) == strength[gift[f]] IN MapThenSumSet(each, DOMAIN gift)

\* The link when gifts has, for each source that contributed, the strongest
\* claim for each field that it supports.
LinkAmong(gifts, order, identities, strength) ==
  LET chosen(s) == {gifts[s][f] : f \in DOMAIN gifts[s]}
      worth(s) == Worth(gifts[s], strength)
      direct(s) == Max({Policy.directness[c.direct] : c \in chosen(s)})
      date(c) == IF c.asOf = Undated THEN Source[c.source].published ELSE c.asOf
      dated(s) == Max({EarlierFirst(date(c)) : c \in chosen(s)})
      reliable == {s \in DOMAIN gifts : /\ Source[s].authority >= Policy.directory
                                        /\ identities[s] >= Policy.identityMinimum}
      key(s) == <<-Cardinality(DOMAIN gifts[s]), -Source[s].authority, -direct(s), -identities[s],
                  -dated(s), -worth(s), Source[s].url>>
      reasons(confidence) == (IF confidence < Policy.review THEN {"LOW_CONFIDENCE"} ELSE {})
                             \cup (IF reliable = {} THEN {"LOW_SOURCE_AUTHORITY"} ELSE {})
      link(winner, confidence) ==
        [Undecided EXCEPT !.value = Source[winner].url, !.confidence = confidence,
           !.selected = Strongest(chosen(winner), order).n, !.support = Ids(chosen(winner)),
           !.review = reasons(confidence) # {}, !.reasons = reasons(confidence)]
      won(winner) == link(winner, worth(winner) \div Cardinality(DOMAIN gifts[winner]))
  IN IF DOMAIN gifts = {} THEN [Undecided EXCEPT !.reasons = {"MISSING_FIELD"}]
     ELSE won(SortBy(Ascending(IF reliable # {} THEN reliable ELSE DOMAIN gifts), key)[1])

RepresentativeLink(fields, claims, identities, quality) ==
  LET gave(s, f, strength) ==
        {c \in claims : /\ c.source = s /\ c.n \in fields[f].support
                        /\ IdentityOf(c, identities) >= Policy.identityMinimum
                        /\ strength[c] >= Policy.selection}
      decided == {f \in DOMAIN fields : fields[f].value # 0}
      gifts(s, order, strength) ==
        Table([f \in {g \in decided : gave(s, g, strength) # {}} |->
                 Strongest(gave(s, f, strength), order)])
      givers(strength) ==
        {s \in SourcesOf(claims) : \E f \in decided : gave(s, f, strength) # {}}
      among(order, strength) ==
        LinkAmong(Table([s \in givers(strength) |-> gifts(s, order, strength)]), order,
                  identities, strength)
      ranked(strength) == among(Table([c \in claims |-> <<-strength[c]>> \o TieKey(c)]), strength)
  IN ranked(Table([c \in claims |-> Strength(c, identities, quality.score)]))

-----------------------------------------------------------------------------
(* A record: one credential with the current role.                         *)

EducationCritical == {"university_name", "degree_type"}
Critical == Volatile \cup EducationCritical

\* _record_review: why a person must look at the record.
RecordReview(fields, webName) ==
  LET reasonsIn(fs) == UNION {fields[f].reasons : f \in fs}
      all == reasonsIn(DOMAIN fields) \cup webName.reasons
      decisions == {fields[f] : f \in Critical} \cup {webName}
      material(d) == "SOURCE_CONFLICT" \in d.reasons /\ Material(d.against, d.strength)
      substantive == \E f \in ResearchFields \ {"profile_link"} : fields[f].value # 0
      low == {f \in Critical \cup {"profile_link"} :
                fields[f].value # 0 /\ fields[f].confidence < Policy.review}
      code(c, holds) == IF holds THEN {c} ELSE {}
  IN (all \intersect {"IDENTITY_AMBIGUITY", "CURRENT_ROLE_CONFLICT", "EDUCATION_GROUPING_AMBIGUITY",
                      "DESCRIPTIVE_JOB_TITLE"})
     \cup (reasonsIn(Critical \cup {"profile_link"}) \intersect {"BELOW_SELECTION_FLOOR"})
     \cup code("MAJOR_CONTRADICTORY_EVIDENCE", \E d \in decisions : material(d))
     \cup code("CURRENT_ROLE_RELATIONSHIP_UNCERTAIN", "UNPAIRED_FACT" \in reasonsIn(Volatile))
     \cup code("NO_RELIABLE_REPRESENTATIVE_SOURCE",
               \/ "LOW_SOURCE_AUTHORITY" \in fields["profile_link"].reasons
               \/ substantive /\ fields["profile_link"].value = 0)
     \cup code("MULTIPLE_CRITICAL_LOW_CONFIDENCE_FIELDS", Cardinality(low) >= 2)

RecordId(fields) == {<<f, fields[f].value>> : f \in {g \in Education : fields[g].value # 0}}

-----------------------------------------------------------------------------
(* The profile.                                                            *)

\* What classify_education makes of the text that a claim quotes.
QuotedKind(c) ==
  IF c.field = "degree_type" \/ c.of # {} THEN ClassifyEducation(c.qualification) ELSE "ambiguous"

\* The decision about field f of a credential; the first record also shows
\* what is no degree and what fits no credential.
EducationDecision(f, education, i, identities, quality) ==
  LET empty == [bundles |-> << >>, alternatives |-> {}, ambiguous |-> FALSE]
      cluster == IF education.clusters = << >> THEN empty ELSE education.clusters[i]
      own == Of(cluster.alternatives, f)
      excluded == IF i = 1 THEN Of(education.excluded, f) ELSE {}
      orphans == IF i = 1 THEN Of(education.orphans, f) ELSE {}
      code(c, holds) == IF holds THEN {c} ELSE {}
      unclear == \E c \in excluded : QuotedKind(c) = "ambiguous"
      codes == code("EDUCATION_GROUPING_AMBIGUITY", cluster.ambiguous)
               \cup code("AMBIGUOUS_EDUCATION", unclear)
               \cup code("NON_DEGREE_EDUCATION", excluded # {} /\ ~unclear)
               \cup code("UNPAIRED_FACT", own # {})
               \cup code("ORPHAN_EDUCATION_FRAGMENT", orphans # {})
  IN Decision(Of(ClaimsOf(cluster), f), {}, own \cup excluded \cup orphans, codes, identities, quality)

WithUnconfirmedHidden(fields, unconfirmed) == fields  \* mutant: hidden

\* Claims about people who may be namesakes stay visible in the first record.
WithUnconfirmed(fields, unconfirmed) ==
  [f \in Fields |->
     IF f = "full_name" \/ Of(unconfirmed, f) = {} THEN fields[f]
     ELSE [fields[f] EXCEPT !.alternatives = @ \cup Ids(Of(unconfirmed, f)),
                            !.reasons = @ \cup {"IDENTITY_CONTEXT_UNCONFIRMED"}]]

\* A record, once the decisions about a credential and the link are known.
RecordOf(fields, seed, attributes, webName, blocked) ==
  LET record(attached, reasons) ==
        [id |-> RecordId(attached), fields |-> attached, scores |-> ProfileScores(fields),
         reasons |-> reasons, review |-> reasons # {}]
      joined(attached) ==
        record(attached, RecordReview(fields, webName) \cup SeedReviewReasons(attached))
  IN joined(AttachSeedProvenance(fields, seed, attributes, webName, blocked))

\* A profile shows its first record, and what the others show of education.
ProfileOf(records, attributes) ==
  LET elsewhere(f) == UNION {records[i].fields[f].support \cup records[i].fields[f].alternatives :
                               i \in 2 .. Len(records)}
      field(f) == IF f \notin Education THEN records[1].fields[f]
                  ELSE [records[1].fields[f] EXCEPT !.alternatives = @ \cup elsewhere(f)]
  IN [fields |-> Table([f \in Fields |-> field(f)]), records |-> records,
      scores |-> records[1].scores, attributes |-> attributes,
      review |-> \E i \in DOMAIN records : records[i].review]

\* The decisions of record i, without its link.
Decisions(i, seed, employment, education, identities, quality) ==
  [f \in Fields \ {"profile_link"} |->
     CASE f = "full_name" -> [Undecided EXCEPT !.value = seed.name, !.confidence = 1000]
       [] f \in Volatile -> employment[f]
       [] f \in Education -> EducationDecision(f, education, i, identities, quality)]

Linked(fields, evidence, identities, quality) ==
  Table([f \in Fields |->
           IF f = "profile_link" THEN RepresentativeLink(fields, evidence, identities, quality)
           ELSE fields[f]])

\* The decisions of all records, the unconfirmed claims in the first.
Decided(seed, employment, education, unconfirmed, evidence, identities, quality) ==
  LET shown(i, fields) == IF i = 1 THEN WithUnconfirmed(fields, unconfirmed) ELSE fields
  IN [i \in 1 .. Max({1, Len(education.clusters)}) |->
        shown(i, Linked(Table(Decisions(i, seed, employment, education, identities, quality)),
                        evidence, identities, quality))]

Recorded(decided, seed, attributes, webName, blocked) ==
  ProfileOf(Table([i \in DOMAIN decided |-> RecordOf(decided[i], seed, attributes, webName, blocked)]),
            attributes)

\* The profile of the claims that speak of the person.
Profile(seed, accepted, unconfirmed, sources, blocked, identities, quality) ==
  Recorded(Table(Decided(seed, EmploymentDecisions(seed, accepted, identities, quality),
                         EducationClusters(accepted, identities), unconfirmed, ToSet(accepted),
                         identities, quality)),
           seed, SuppliedAttributes(seed, ToSet(accepted), sources),
           Decision(Of(ToSet(accepted), "full_name"), {}, {}, {}, identities, quality), blocked)

Qualities(seed, bundles, claims) ==
  LET of(n) == QualityOf(seed, bundles, CHOOSE c \in claims : c.n = n)
  IN [score |-> Table([n \in Ids(claims) |-> of(n).score]),
      reason |-> Table([n \in Ids(claims) |-> of(n).reason])]

ReconcileAccepted(seed, accepted, unconfirmed, sources, blocked) ==
  Profile(seed, accepted, unconfirmed, sources, blocked,
          EffectiveIdentities(seed, ToSet(accepted), sources),
          Qualities(seed, BundlesOf(accepted), ToSet(accepted)))

\* Claims of sources that may contribute, and claims about possible namesakes.
ReconcileEligible(seed, usable, eligible, sources, blocked) ==
  LET sure(c) == ~Source[c.source].rejected
                 /\ Min({c.relevance, Source[c.source].identity}) >= Policy.identityMinimum
  IN ReconcileAccepted(seed, Filter(usable, LAMBDA c : c.source \in eligible /\ sure(c)),
              {c \in ToSet(usable) : c.source \notin eligible /\ sure(c)}, sources, blocked)

ReconcileUsable(seed, usable, sources, blocked) ==
  ReconcileEligible(seed, usable, EligibleSources(seed, ToSet(usable), sources), sources, blocked)

\* reconcile
Reconcile(seed, claims, sources, blocked) ==
  LET allowed == {s \in sources : Allowed(s, blocked)}
      usable == Filter(claims, LAMBDA c : c.source \in allowed /\ EligibleForSource(c))
  IN ReconcileUsable(seed, usable, allowed, blocked)

-----------------------------------------------------------------------------
(* A stored result.                                                        *)

\* Mistake: the links that a profile shows are not looked at.
SanitizeSources(result, seed, blocked) ==
  LET sources == {s \in result.sources : Allowed(s, blocked)}
      claims == Filter(result.claims, LAMBDA c : c.source \in sources)
  IN IF sources = result.sources THEN result
     ELSE [profile |-> result.profile, sources |-> sources, claims |-> claims]

\* sanitize_research_result: evidence that the policy has come to block goes,
\* and what rested on it is decided anew.  url is the site of a profile link.
Sanitize(result, seed, blocked) ==
  LET sources == {s \in result.sources : Allowed(s, blocked)}
      claims == Filter(result.claims, LAMBDA c :
                  c.source \in sources /\ (c.field = "profile_link" => c.value \notin blocked))
      records == result.profile.records
      decisions == {result.profile.fields} \cup {records[i].fields : i \in DOMAIN records}
      site(url) == {Source[s].domain : s \in {t \in DOMAIN Source : Source[t].url = url}} \cup {url}
      rests(fields) == \/ \E f \in Fields : \E n \in fields[f].support : ~Allowed(n[1], blocked)
                       \/ site(fields["profile_link"].value) \intersect blocked # {}
  IN IF sources = result.sources /\ Len(claims) = Len(result.claims) /\ ~(\E d \in decisions : rests(d))
     THEN result
     ELSE [profile |-> Reconcile(seed, claims, sources, blocked), sources |-> sources, claims |-> claims]
=============================================================================
