---------------------------- MODULE Normalisation ----------------------------
(***************************************************************************)
(* What app/research/normalisation.py reads in a qualification, a job      *)
(* title or the name of an institution.  A regular expression of the code  *)
(* is a class of words, and the order in which the code tries the classes  *)
(* decides.                                                                *)
(*                                                                         *)
(* A qualification is a record: its segments, each with the wordings of a  *)
(* level found in it in order and the subject it spells out (0 for none),  *)
(* the marks of what is no degree, and the qualification's label.          *)
(***************************************************************************)
EXTENDS Ordering

CONSTANTS
  Words,          \* [value -> the classes of words found in an institution or a title]
  Medicine, Law   \* the subjects of the two professional degrees

\* The first rule that applies decides.
First(rules, otherwise) ==
  LET firing == {i \in DOMAIN rules : rules[i][1]}
  IN IF firing = {} THEN otherwise ELSE rules[Min(firing)][2]

-----------------------------------------------------------------------------
(* Qualifications.                                                         *)

\* The level a wording stands for, a number in the order of the levels' names.
\* The bachelor in "bachelor of laws" and the ones in "bachelor of medicine and
\* bachelor of surgery" are no second degree.
LevelOf ==
  [bachelor |-> 1, diploma |-> 2, doctor |-> 3, bachelor_of_laws |-> 4, juris_doctor |-> 4,
   master |-> 5, ma_label |-> 5, bachelor_of_medicine |-> 6, doctor_of_medicine |-> 6,
   postgraduate_degree |-> 7, postgraduate_diploma |-> 8]

BachelorsDegree == LevelOf.bachelor

Wordings(segments) == Concatenated([i \in DOMAIN segments |-> segments[i].words])

\* Levels in the order of their first wording; "postgraduate diploma"
\* anywhere hides every plain diploma.
DegreeLevels(segments) ==
  LET words == Wordings(segments)
      counts(w) == ~(w = "diploma" /\ Contains(words, "postgraduate_diploma"))
      kept == Filter(words, counts)
  IN Distinct([i \in DOMAIN kept |-> LevelOf[kept[i]]])

DegreeSubject(segment, level) ==
  CASE level = LevelOf.doctor_of_medicine -> Medicine
    [] level = LevelOf.juris_doctor -> Law
    [] OTHER -> segment.subject

\* In a list, a subject belongs to the level of its own segment.
CompoundSubject(segments, level) ==
  LET recognised == SelectSeq(segments, LAMBDA g : DegreeLevels(<<g>>) # << >>)
      own == SelectSeq(recognised, LAMBDA g : Contains(DegreeLevels(<<g>>), level))
  IN IF Len(recognised) < 2 \/ own = << >> THEN 0 ELSE DegreeSubject(own[1], level)

\* What kind of education a wording names: the first mark that applies.
ClassifyEducation(q) ==
  LET marked(kind) == <<kind \in q.marks, kind>>
  IN First(<<marked("honorary_degree"), marked("postdoctoral"), marked("ongoing_study"),
             marked("certification"),
             <<{"executive_education"} = q.marks \intersect {"executive_education", "executive_mba"},
               "executive_education">>,
             marked("training"),
             <<DegreeLevels(q.segments) # << >> \/ "generic" \in q.marks, "academic_degree">> >>,
           "ambiguous")

Candidate(value, certainty, kind, label, subject) ==
  [value |-> value, certainty |-> certainty, kind |-> kind, label |-> label, subject |-> subject]

\* The degrees a wording names: all the levels of a list, else the first; a
\* bare "degree" is taken for a bachelor's.
NamedDegrees(q, levels) ==
  LET degree(level, subject) == Candidate(level, 1000, "academic_degree", q.label, subject)
  IN CASE levels = << >> ->
            <<Candidate(BachelorsDegree, 650, "academic_degree", 0, q.segments[1].subject)>>
       [] Len(levels) > 1 /\ Len(q.segments) > 1 ->
            [i \in DOMAIN levels |-> degree(levels[i], CompoundSubject(q.segments, levels[i]))]
       [] OTHER -> <<degree(levels[1], DegreeSubject(q.segments[1], levels[1]))>>

\* The candidates for the degree that a qualification stands for.
DegreeCandidates(q) ==
  LET kind == ClassifyEducation(q)
  IN CASE kind = "academic_degree" -> NamedDegrees(q, DegreeLevels(q.segments))
       [] kind = "ambiguous" -> <<Candidate(q.name, 550, kind, 0, 0)>>
       [] kind \notin {"academic_degree", "ambiguous"} -> <<Candidate(q.name, 1000, kind, 0, 0)>>

-----------------------------------------------------------------------------
(* Roles.  organisations and titles are sets of values, as the code joins  *)
(* the ones of a group; a pattern anchored at both ends fits one title.    *)

Has(values, class) == \E v \in values : class \in Words[v]
Only(values, class) == Cardinality(values) = 1 /\ Has(values, class)

\* _PUBLIC_INSTITUTION_RE and _PRIVATE_INSTITUTION_RE.
PublicWords == {"ministry", "parliament", "cabinet", "government", "court", "local", "embassy"}
Public(organisations) == \E class \in PublicWords : Has(organisations, class)
Private(organisations) == Has(organisations, "private") \/ Has(organisations, "acronym")

PublicOffice(organisations, titles, official, encyclopedia) ==
  First(<< <<Has(organisations, "party"), "none">>,
           <<Only(titles, "prime_minister"), "head_of_government">>,
           <<Only(titles, "chancellor") /\ (official \/ Public(organisations)), "head_of_government">>,
           <<Only(titles, "president") /\ ~Private(organisations)
               /\ (official \/ encyclopedia \/ Public(organisations)), "head_of_state">>,
           <<Has(organisations, "court") \/ Has(titles, "judge"), "judiciary">>,
           <<Has(organisations, "parliament") \/ Has(titles, "legislator"), "legislature">>,
           <<Has(organisations, "embassy") \/ Has(titles, "ambassador"), "diplomatic_mission">>,
           <<Has(organisations, "local") \/ Has(titles, "mayor"), "local_government">>,
           <<Has(organisations, "ministry") \/ Has(titles, "cabinet_minister")
               \/ (official /\ Only(titles, "minister")), "ministerial">>,
           <<official /\ Has(organisations, "agency") /\ ~Private(organisations), "government_agency">>,
           <<official /\ Has(organisations, "department"), "government_department">>,
           <<Has(organisations, "cabinet"), "executive_office">>,
           <<Public(organisations), "public_institution">> >>, "none")

PrimaryOffice == {"head_of_government", "head_of_state"}

\* A short name beside a national office is a country, not an employer.
ProbableCountry(organisation, titles, official, encyclopedia) ==
  /\ PublicOffice({organisation}, titles, official, encyclopedia) \in PrimaryOffice
  /\ ~Public({organisation}) /\ ~Private({organisation})
  /\ Words[organisation] \intersect {"office", "department", "agency"} = {}
  /\ "short" \in Words[organisation]

ClassifyRelationship(organisations, titles, official, encyclopedia) ==
  First(<< <<Has(organisations, "party"), "political_party_role">>,
           <<Has(organisations \cup titles, "board"), "board_role">>,
           <<Has(organisations, "committee") /\ Only(titles, "member"), "advisory_role">>,
           <<Has(titles, "adviser"), "advisory_role">>,
           <<PublicOffice(organisations, titles, official, encyclopedia) # "none",
             "current_government_office">>,
           <<Has(titles, "visiting") /\ Has(titles, "professor"), "secondary_academic_role">>,
           <<Has(titles, "professor"), "current_academic_role">>,
           <<Has(titles, "executive"), "current_executive_role">>,
           <<organisations # {} /\ titles # {}, "current_primary_employment">> >>,
        "other_affiliation")

RelationshipPriority ==
  [current_government_office |-> 90, current_executive_role |-> 80,
   principal_professional_practice |-> 78, current_primary_employment |-> 75,
   current_academic_role |-> 65, secondary_academic_role |-> 45, board_role |-> 40,
   advisory_role |-> 30, political_party_role |-> 20, other_affiliation |-> 10]
=============================================================================
