------------------------------- MODULE Scoring -------------------------------
(***************************************************************************)
(* The scores of app/research/confidence.py.  A claim is worth what its    *)
(* source, its wording and its age make it worth; a group of claims that   *)
(* agree is worth its best claim, a bonus for independent sources, and a   *)
(* penalty for the strongest claim against it.                             *)
(*                                                                         *)
(* Weights and scores are in thousandths and products round down.  A date  *)
(* is an age in half-lives of current_half_life_days.                      *)
(***************************************************************************)
EXTENDS Ordering

CONSTANTS
  Source,  \* the sources: what retrieval and assess_identity recorded of each
  Policy   \* ScoringPolicy

Volatile == {"organisation", "job_title"}
Education == {"university_name", "degree_type", "subject"}

Undated == -1
Times(a, b) == (a * b) \div 1000
\* Mistake: a score is not clamped.
UnitUnbounded(x) == x
Unit(x) == Max({0, Min({1000, x})})

FieldRank ==
  [degree_type |-> 1, full_name |-> 2, job_title |-> 3, organisation |-> 4,
   profile_link |-> 5, subject |-> 6, university_name |-> 7]
CurrentRank == [unknown |-> 0, no |-> 1, yes |-> 2]
DirectRank == [ambiguous |-> 0, explicit |-> 1, implied |-> 2]

\* Ages in order of dates; a claim without a date comes first, or last.
EarlierFirst(age) == IF age = Undated THEN -100 ELSE -age
LaterFirst(age) == IF age = Undated THEN 100 ELSE age

\* A stable order of evidence that does not depend on generated ids.
TieKey(c) ==
  <<Source[c.source].url, FieldRank[c.field], c.value, EarlierFirst(c.asOf), c.year,
    CurrentRank[c.current], DirectRank[c.direct], c.group, c.quote>>

Historical(c) == c.current = "no" \/ c.ended

-----------------------------------------------------------------------------
(* One claim.                                                              *)

\* The date of a role: the creation of a living profile page is none.
Observed(c) ==
  IF c.asOf # Undated THEN c.asOf
  ELSE IF /\ c.current = "yes" /\ ~c.ended /\ c.direct = "explicit"
          /\ Source[c.source].profilePage
       THEN Undated ELSE Source[c.source].published

Recency(c) ==
  CASE c.field \notin Volatile -> 1000
    [] c.field \in Volatile /\ Historical(c) -> Policy.historicalFactor
    [] c.field \in Volatile /\ ~Historical(c) ->
         IF Observed(c) # Undated THEN 1000 \div 2 ^ Observed(c)
         ELSE IF c.current = "yes" THEN 1000 ELSE Policy.unknownRecency

TimeSensitivity(c) ==
  CASE c.field \notin Volatile -> 1000
    [] c.field \in Volatile /\ Observed(c) = Undated /\ c.current = "yes" -> 1000
    [] c.field \in Volatile /\ Observed(c) = Undated /\ c.current = "unknown" /\ ~c.ended -> 900
    [] OTHER -> 350 + Times(650, Recency(c))

\* identities are the scores that sources have from each other's agreement.
IdentityOf(c, identities) ==
  Max({Min({Source[c.source].identity, c.relevance}), identities[c.source]})

Base(c) ==
  Times(Policy.authorityWeight, Source[c.source].authority)
  + Times(Policy.directnessWeight, Policy.directness[c.direct]) + Policy.recencyWeight

Strength(c, identities, quality) ==
  LET preferred == IF Source[c.source].preferred THEN Policy.preferredBonus ELSE 0
      worth == Times(IdentityOf(c, identities), c.certainty)
  IN Times(Times(Times(worth, quality[c.n]), Min({1000, Base(c) + preferred})), TimeSensitivity(c))

-----------------------------------------------------------------------------
(* Independent sources: a copy on another domain is one piece of evidence, *)
(* and so are two pages of one domain.                                     *)

DomainsOf(sources) == {Source[s].domain : s \in sources}
HashesOf(sources) == {Source[s].hash : s \in sources}
Published(sources, domain) == {Source[s].hash : s \in {t \in sources : Source[t].domain = domain}}

\* The sequences of hashes along which `assign` may re-pair domains to place
\* d: each hash but the last has a domain, which publishes the next.
Augmentations(sources, paired, d) ==
  LET taken(p) == Last(p) \in DOMAIN paired
      longer(p) == {Append(p, h) : h \in Published(sources, paired[Last(p)]) \ ToSet(p)}
      paths[k \in 1 .. Cardinality(DOMAIN paired) + 1] ==
        IF k = 1 THEN {<<h>> : h \in Published(sources, d)}
        ELSE UNION {longer(p) : p \in {q \in paths[k - 1] : taken(q)}}
  IN {p \in UNION {paths[k] : k \in DOMAIN paths} : ~taken(p)}

\* Along a path, d takes the first hash and each domain gives way to the next.
Repair(path, paired, d) ==
  [h \in ToSet(path) |-> LET i == CHOOSE k \in DOMAIN path : path[k] = h
                        IN IF i = 1 THEN d ELSE paired[path[i - 1]]] @@ paired

\* `assign` tries hashes in order, depth first.
Assign(sources, paired, d) ==
  LET first(paths) == CHOOSE p \in paths : \A q \in paths \ {p} : Precedes(p, q)
      place(paths) == IF paths = {} THEN paired ELSE Repair(first(paths), paired, d)
  IN place(Augmentations(sources, paired, d))

\* A maximum pairing of content hashes with domains, domains in order.
IndependentPairs(sources) ==
  FoldLeft(LAMBDA paired, d : Assign(sources, paired, d), << >>, Ascending(DomainsOf(sources)))

SourcesOf(claims) == {c.source : c \in claims}

-----------------------------------------------------------------------------
(* A group of claims that agree, and the claims against it.                *)

\* Two independent sources of weight that give the exact name raise the
\* identity of their name claims, and of nothing else.
NameFloor(support, identities) ==
  LET exact == {c \in support : /\ c.field = "full_name" /\ c.direct = "explicit" /\ c.certainty >= 900
                               /\ Source[c.source].authority >= Policy.publication}
      floor == Min({1000, Policy.identityReview + Policy.step \div 2})
  IN IF Cardinality(DOMAIN IndependentPairs(SourcesOf(exact))) < 2 THEN identities
     ELSE Table([s \in DOMAIN identities |->
            IF s \in SourcesOf(exact) THEN Max({identities[s], floor}) ELSE identities[s]])

StrongestOf(claims, identities, quality) ==
  Max({0} \cup {Strength(c, identities, quality) : c \in claims})

\* The claim that stands for the group.
Best(support, identities, quality) ==
  LET key == Table([c \in support |->
                      <<-Strength(c, identities, quality), LaterFirst(c.asOf)>> \o TieKey(c)])
  IN CHOOSE c \in support : \A d \in support \ {c} : ~Precedes(key[d], key[c])

\* What the independent sources other than the strongest add.
Bonus(support, paired, identities, quality) ==
  LET from(h) == {c \in support : Source[c.source].hash = h /\ Source[c.source].domain = paired[h]}
      step(h) == Times(Policy.step, StrongestOf(from(h), identities, quality))
      steps == MapThenSumSet(step, DOMAIN paired)
  IN Min({Policy.cap, steps - Max({step(h) : h \in DOMAIN paired})})

\* What is doubtful about a group.
Doubts(best, score, paired, conflicts, identities, quality) ==
  LET reason(code, holds) == IF holds THEN {code} ELSE {}
  IN reason("LOW_SOURCE_COUNT", Cardinality(DOMAIN paired) < 2)
     \cup reason("SOURCE_CONFLICT", conflicts # {})
     \cup reason("IDENTITY_AMBIGUITY", \/ IdentityOf(best, identities) < Policy.identityReview
                                       \/ Source[best.source].relevance = "ambiguous")
     \cup reason("LOW_DIRECTNESS", best.direct # "explicit")
     \cup reason("LOW_FIELD_QUALITY", quality[best.n] < 800)
     \cup reason("OUTDATED_CURRENT_ROLE",
                 best.field \in Volatile /\ Recency(best) < Policy.unknownRecency)
     \cup reason("UNKNOWN_RECENCY", /\ best.field \in Volatile /\ best.asOf = Undated
                                    /\ Source[best.source].published = Undated)
     \cup reason("LOW_CONFIDENCE", score < Policy.review)

\* The score of a group whose best claim and independent sources are known.
Scored(best, strength, bonus, against) ==
  [score |-> Unit(strength + bonus - Times(Policy.conflictPenalty, against)),
   selected |-> best, strength |-> strength, against |-> against]

WithDoubts(scored, paired, conflicts, identities, quality) ==
  scored @@ [reasons |-> Doubts(scored.selected, scored.score, paired, conflicts, identities, quality)]

ScoredBy(support, conflicts, best, paired, identities, quality) ==
  WithDoubts(Scored(best, Strength(best, identities, quality),
                    Bonus(support, paired, identities, quality),
                    StrongestOf(conflicts, identities, quality)),
             paired, conflicts, identities, quality)

ScoredAmong(support, conflicts, identities, quality) ==
  ScoredBy(support, conflicts, Best(support, identities, quality),
           IndependentPairs(SourcesOf(support)), identities, quality)

\* confidence_for_group
Confidence(support, conflicts, identities, quality) ==
  ScoredAmong(support, conflicts, NameFloor(support, identities), quality)

-----------------------------------------------------------------------------
(* A profile: its research confidence and its coverage, each over 1000.    *)

ResearchFields == Volatile \cup Education \cup {"profile_link"}

ProfileScores(fields) ==
  LET present == {f \in ResearchFields : fields[f].value # 0 /\ fields[f].status # "supplied"}
      confidence(f) == fields[f].confidence
  IN [confidence |-> IF present = {} THEN 0
                     ELSE MapThenSumSet(confidence, present) \div Cardinality(present),
      coverage |-> (1000 * Cardinality(present)) \div Cardinality(ResearchFields)]
=============================================================================
