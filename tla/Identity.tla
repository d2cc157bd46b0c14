------------------------------- MODULE Identity -------------------------------
(***************************************************************************)
(* app/research/identity.py: which sources speak of the person, and with   *)
(* what certainty.  A page is assessed on its own when it is read; which   *)
(* sources may contribute to a profile is decided over all the claims.     *)
(*                                                                         *)
(* Text is reduced to what the rules ask of it: whether a page or a quote  *)
(* gives the name, and which values it sets beside the name (near) or      *)
(* denies of the person (denied).                                          *)
(***************************************************************************)
EXTENDS Scoring, FiniteSets

CONSTANTS
  Mentions,  \* [value -> the values that its wording contains, itself among them]
  Generic    \* institutions that name no institution: "university", "office"

Institutions == {"organisation", "university_name", "historical_employer"}
Context == Volatile \cup Education
Official == {"first_party", "government", "employer", "university"}
Primary == Official \cup {"professional_body"}

-----------------------------------------------------------------------------
(* What the seed supplies: a name, attributes in order of their columns,   *)
(* and core, the values of the typed fields.                               *)

\* _clue_field: these describe an affiliation.
ClueField(label) ==
  IF label \in {"alumni_organisation", "organisation_affiliation", "government_office"}
  THEN "organisation" ELSE label

Values(seed, label) ==
  LET of == SelectSeq(seed.attributes, LAMBDA a : a.field = label)
  IN IF label = "organisation" /\ label \in DOMAIN seed.core THEN <<seed.core[label]>>
     ELSE [i \in DOMAIN of |-> of[i].value]

\* Every institution counts, and the first value of anything else.
Clues(seed) ==
  LET labels == {seed.attributes[i].field : i \in DOMAIN seed.attributes}
      clue(l, i) == [label |-> l, first |-> i = 1, field |-> ClueField(l), value |-> Values(seed, l)[i]]
      counted(l) == {i \in DOMAIN Values(seed, l) : ClueField(l) \in Institutions \/ i = 1}
  IN UNION {{clue(l, i) : i \in counted(l)} : l \in labels \ {"full_name", "profile_link"}}

IsInstitution(clue) == clue.field \in Institutions

\* What namesakes cannot establish alone: institutions, else the title.
Anchors(seed) ==
  LET institutions == {c \in Clues(seed) : IsInstitution(c)}
  IN IF institutions # {} THEN institutions ELSE {c \in Clues(seed) : c.field = "job_title"}

-----------------------------------------------------------------------------
(* One page.                                                               *)

NotThePerson == [rejected |-> TRUE, identity |-> 0, relevance |-> "none", disputed |-> FALSE,
                 anchored |-> {}, contradicted |-> {}, subjectMatches |-> FALSE]

\* assess_identity
Assess(seed, page) ==
  LET anchors == Anchors(seed)
      \* a middle name needs the institution beside the name
      byInstitution == \E a \in anchors : IsInstitution(a) /\ a.value \in page.near
      named == page.exact \/ byInstitution
      subjectMatches == page.subject = "same" \/ (page.subject = "expanded" /\ byInstitution)
      contradicted == {c \in Clues(seed) : c.value \in page.denied}
      matched == {c \in Clues(seed) : c.value \in page.near} \ contradicted
      weight(v) == IF \E c \in matched : c.value = v /\ IsInstitution(c) THEN 1500 ELSE 1000
      clueWeight == MapThenSumSet(weight, {c.value : c \in matched})
      anchored == matched \intersect anchors
      unanchored == anchors # {} /\ anchored = {}
      \* an official biography outweighs the advisor's dismissal
      overruled == /\ page.kind \in Primary /\ contradicted = {}
                   /\ \E a \in anchored : IsInstitution(a)
      relevance == IF page.advice = "unrelated" THEN "ambiguous" ELSE page.advice
      limits == {1000, Policy.nameOnly + Times(clueWeight, Policy.clueBonus)}
                \cup (IF unanchored \/ contradicted # {} THEN {Policy.nameOnly} ELSE {})
                \cup (IF relevance = "ambiguous" THEN {Policy.identityReview} ELSE {})
  IN IF ~named \/ ~subjectMatches \/ (page.advice = "unrelated" /\ ~overruled) THEN NotThePerson
     ELSE [rejected |-> FALSE, identity |-> Min(limits), relevance |-> relevance,
           disputed |-> page.advice = "unrelated", anchored |-> anchored,
           contradicted |-> contradicted, subjectMatches |-> TRUE]

-----------------------------------------------------------------------------
(* Which sources may contribute.                                           *)

\* claim_is_eligible_for_source: on a disputed page a quote counts only where
\* it sets its wording beside the name and names no one else.
EligibleForSource(c) ==
  Source[c.source].disputed => c.names # "mixed" /\ c.raw \in c.near

\* A different site and a different text.
Independent(s, t) == Source[s].domain # Source[t].domain /\ Source[s].hash # Source[t].hash

Identified(sources) ==
  {s \in sources : ~Source[s].rejected /\ Source[s].identity >= Policy.identityMinimum}

Relevant(c) == c.relevance >= Policy.identityMinimum
WeightOf(s) == Source[s].authority

\* What a source says of the person explicitly, as identity evidence.
Keys(claims, s) ==
  {<<c.field, c.value>> : c \in {d \in claims : /\ d.source = s /\ d.field \in Context
                                               /\ d.direct = "explicit" /\ Relevant(d)}}

\* A source that contradicts the seed but states a whole current role.
Corrects(claims, s) ==
  LET role(c) == /\ c.source = s /\ c.field \in Volatile /\ c.direct = "explicit" /\ Relevant(c)
                 /\ c.current = "yes" /\ ~c.ended
      groupOf(c) == IF c.group = 0 THEN {c} ELSE {d \in claims : role(d) /\ d.group = c.group}
      fields(c) == {d.field : d \in groupOf(c)}
      roles == {c \in claims : role(c)}
  IN /\ Source[s].contradicted # {} /\ Source[s].exact /\ Source[s].subjectMatches
     /\ WeightOf(s) >= Policy.publication
     /\ \/ \E c \in roles : fields(c) = Volatile
        \/ Source[s].kind \in Primary /\ \E c \in roles : c.field = "organisation"

\* Sources that agree with the seed themselves.
Direct(seed, claims, identified) ==
  LET anchors == Anchors(seed)
      \* a disputed page needs a quote of its own that holds the anchor
      local(s) == Source[s].disputed =>
                    \E c \in claims, a \in Source[s].anchored :
                      c.source = s /\ IsInstitution(a) /\ a.value \in c.near
      says(c) == \E a \in anchors :
                   /\ a.value \in Mentions[c.value]
                   /\ \/ a.field = c.field
                      \/ IsInstitution(a) /\ c.field \in {"organisation", "university_name"}
      byPage(s) == (\E c \in claims : c.source = s) /\ Source[s].anchored # {} /\ local(s)
      byClaim(s) == /\ local(s)
                    /\ \E c \in claims : /\ c.source = s /\ <<c.field, c.value>> \in Keys(claims, s)
                                         /\ c.direct = "explicit" /\ Relevant(c) /\ says(c)
  IN {s \in identified : byPage(s) \/ Corrects(claims, s) \/ byClaim(s)}

\* Mistake: a level of degree counts as a shared fact.
BridgedByDegree(claims, s, anchor) ==
  LET fields == {k[1] : k \in Keys(claims, s) \intersect Keys(claims, anchor)}
  IN Independent(s, anchor)
     /\ (fields \intersect {"organisation", "university_name"} # {} \/ Cardinality(fields) >= 2)

\* One hop from a direct source, over an institution or two other facts.
Bridged(claims, s, anchor) ==
  LET fields == {k[1] : k \in Keys(claims, s) \intersect Keys(claims, anchor)} \ {"degree_type"}
  IN /\ Independent(s, anchor)
     /\ WeightOf(s) >= Policy.directory /\ WeightOf(anchor) >= Policy.directory
     /\ fields \intersect {"organisation", "university_name"} # {} \/ Cardinality(fields) >= 2

Pairs(sources, Related(_, _)) == {p \in sources \X sources : Related(p[1], p[2])}

\* The connected components of `among` under symmetric links.
Components(among, links) ==
  LET reach[k \in 0 .. Cardinality(among)] ==
        IF k = 0 THEN [s \in among |-> {s}]
        ELSE [s \in among |-> reach[k - 1][s]
                              \cup {t \in among : \E u \in reach[k - 1][s] : <<u, t>> \in links}]
  IN {reach[Cardinality(among)][s] : s \in among}

\* When no page repeats the seed's institutions: the one group of independent
\* sources that agree on an employer.  Two such groups are two namesakes.
Coherent(claims, identified) ==
  LET employer(c) == /\ c.field = "organisation" /\ c.direct = "explicit" /\ Relevant(c)
                     /\ c.certainty >= 800 /\ WeightOf(c.source) >= Policy.directory
                     /\ c.value \notin Generic
                     /\ \/ c.value \in c.near
                        \/ /\ Source[c.source].opening /\ ~Source[c.source].disputed
                           /\ c.names = "pronoun"
      named(s) == {c.value : c \in {d \in claims : d.source = s /\ employer(d)}}
      linked(s, t) == Independent(s, t) /\ named(s) \intersect named(t) # {}
      groups == Components({s \in identified : named(s) # {}}, Pairs(identified, linked))
      supported == {g \in groups : Cardinality(g) >= 2}
  IN IF Cardinality(supported) = 1 THEN UNION supported ELSE {}

\* Without anchors: sources sure of the person and the ones that share an
\* institution with them; else one component, or none.
Unseeded(claims, identified) ==
  LET spoken == {c \in claims : c.source \in identified /\ Relevant(c) /\ c.field \in Context}
      substantive == SourcesOf(spoken)
      institutions(s) == {c.value : c \in {d \in spoken :
                            /\ d.source = s /\ d.direct = "explicit" /\ d.certainty >= 800
                            /\ d.field \in Institutions /\ d.value \notin Generic}}
      compatible(s, t) == institutions(s) \intersect institutions(t) # {}
      secure == {s \in substantive : /\ Source[s].identity >= Policy.identityReview
                                     /\ Source[s].relevance # "ambiguous"}
      credible == {s \in substantive : WeightOf(s) >= Policy.directory}
      groups == Components(IF credible # {} THEN credible ELSE substantive,
                           Pairs(substantive, compatible))
      core == IF secure # {} THEN secure ELSE UNION groups
      joined == {s \in substantive : \E t \in core : compatible(s, t)}
  IN CASE Cardinality(substantive) <= 1 -> identified
       [] Cardinality(substantive) > 1 /\ secure = {} /\ Cardinality(groups) # 1 ->
            identified \ substantive
       [] Cardinality(substantive) > 1 /\ (secure # {} \/ Cardinality(groups) = 1) ->
            (identified \ substantive) \cup core \cup joined

\* The sources that agree with the seed, and those one hop away.
Reached(claims, identified, direct) ==
  IF direct = {} THEN Coherent(claims, identified)
  ELSE direct \cup {s \in identified : \E a \in direct : Bridged(claims, s, a)}

\* eligible_identity_source_ids
EligibleSources(seed, claims, sources) ==
  LET eligible == {c \in claims : c.source \in sources /\ EligibleForSource(c)}
      identified == Identified(sources)
  IN IF Anchors(seed) = {} THEN Unseeded(eligible, identified)
     ELSE Reached(eligible, identified, Direct(seed, eligible, identified))

-----------------------------------------------------------------------------
(* How sure each source is, given the others.                              *)

Importance ==
  [organisation |-> 1000, university_name |-> 1000, job_title |-> 650, subject |-> 650,
   degree_type |-> 250]

\* The identity of s when the peers with each key of its own are known.
Strengthened(s, peers) ==
  LET repeated == {key \in DOMAIN peers : peers[key] # {}}
      others == UNION {peers[key] : key \in repeated}
      importance(key) == Times(Policy.clueBonus, Importance[key[1]])
      context == Min({2 * Policy.clueBonus, MapThenSumSet(importance, repeated)})
      support == Min({Policy.cap, Policy.step * Cardinality(DOMAIN IndependentPairs(others))})
      ceiling == IF Source[s].relevance = "ambiguous" THEN Policy.identityReview ELSE 1000
  IN IF repeated = {} THEN Source[s].identity
     ELSE Min({ceiling, Source[s].identity + context + support})

\* The peers of s, among those that speak, that repeat each key of its own.
Peers(claims, s, speaking) ==
  [key \in IF s \in speaking THEN Keys(claims, s) ELSE {} |->
     {t \in speaking : Independent(s, t) /\ key \in Keys(claims, t)}]

IdentitiesAmong(claims, sources, eligible) ==
  LET speaking == {s \in eligible \intersect Identified(sources) : WeightOf(s) >= Policy.directory}
  IN Table([s \in sources |-> IF s \in eligible THEN Strengthened(s, Peers(claims, s, speaking))
                              ELSE Min({Source[s].identity, Policy.nameOnly})])

\* effective_identity_scores: context that independent peers repeat.
EffectiveIdentities(seed, claims, sources) ==
  IdentitiesAmong(claims, sources, EligibleSources(seed, claims, sources))
=============================================================================
