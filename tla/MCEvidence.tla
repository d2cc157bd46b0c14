----------------------------- MODULE MCEvidence -----------------------------
(* Nine people and the pages about them.  Values: 1 the name; from 11     *)
(* employers, from 21 titles, from 31 universities, from 41 subjects;      *)
(* degree levels are those of LevelOf.                                     *)
EXTENDS Evidence, TLC

Weights ==
  [authorityWeight |-> 550, directnessWeight |-> 300, recencyWeight |-> 150,
   directness |-> [explicit |-> 1000, implied |-> 720, ambiguous |-> 350],
   preferredBonus |-> 20, step |-> 80, cap |-> 200, conflictPenalty |-> 250,
   historicalFactor |-> 250, unknownRecency |-> 650, identityReview |-> 800,
   identityMinimum |-> 450, nameOnly |-> 550, clueBonus |-> 180, publication |-> 800,
   directory |-> 650, review |-> 500, selection |-> 100]

Authority ==
  [first_party |-> 950, government |-> 950, employer |-> 900, university |-> 900,
   publication |-> 800, directory |-> 650, encyclopedia |-> 600, aggregator |-> 450]

Name == 1
Acme == 11  Borealis == 12  Ministry == 13  UncleCo == 14  Office == 15
Engineer == 21  Director == 22  Professor == 23  Minister == 24
State == 31  StateNorth == 32  StateSouth == 33  Tech == 34  IoT == 35
Physics == 41  Maths == 42  Laws == 43  Surgery == 44
Certificate == 51

EveryValue == 1 .. 60
Itself == Table([v \in EveryValue |-> {v}])
WordsOf ==
  Table([v \in EveryValue |->
     CASE v \in {Acme, Borealis} -> {"private"} [] v = Ministry -> {"ministry", "department"}
       [] v = UncleCo -> {"relative"} [] v = Office -> {"unspecific"} [] v = Director -> {"executive"}
       [] v = Professor -> {"professor"} [] v = Minister -> {"minister"} [] OTHER -> {}])
Offices == {Office}
Acronyms == {{Tech, IoT}}
Bases == Table([v \in EveryValue |-> IF v \in {StateNorth, StateSouth} THEN State ELSE 0])

-----------------------------------------------------------------------------
NoDegree == [name |-> 0, segments |-> << [words |-> << >>, subject |-> 0] >>, marks |-> {}, label |-> 0]
DegreeIn(words, subject) == [NoDegree EXCEPT !.segments = << [words |-> words, subject |-> subject] >>]
BachelorMaster ==
  [NoDegree EXCEPT !.segments = << [words |-> <<"bachelor">>, subject |-> Physics],
                                   [words |-> <<"master">>, subject |-> Maths] >>]
Course == [NoDegree EXCEPT !.name = Certificate, !.marks = {"certification"}]

Everything == {"quote", "value", "subject", "link", "as_of", "end"}

Answer(field, value, group, quote) ==
  [n |-> <<0, 0, 0>>, source |-> 0, field |-> field, value |-> value, raw |-> value,
   qualification |-> NoDegree, kind |-> "none", label |-> 0, of |-> {}, group |-> group,
   quote |-> quote, near |-> {value}, names |-> "exact", subject |-> "same",
   literal |-> Everything, current |-> "unknown", ended |-> FALSE, year |-> 0, until |-> 0,
   asOf |-> Undated, direct |-> "explicit", certainty |-> 1000, relevance |-> 0, marks |-> {}]

Degree(q, group, quote) == [Answer("degree_type", 0, group, quote) EXCEPT !.qualification = q]
Now(answer) == [answer EXCEPT !.current = "yes"]
Past(answer) == [answer EXCEPT !.current = "no", !.marks = {"past"}]
Aged(answer, age) == [answer EXCEPT !.asOf = age]
Until(answer, year) == [answer EXCEPT !.ended = TRUE, !.year = year]

Role(organisation, title, group) ==
  << Now(Answer("organisation", organisation, group, group)),
     Now(Answer("job_title", title, group, group)) >>
Study(university, q, group) ==
  << Answer("university_name", university, group, group), Degree(q, group, group) >>

Page(kind, near, domain, hash) ==
  [exact |-> TRUE, near |-> near, denied |-> {}, subject |-> "same", kind |-> kind, advice |-> "none",
   domain |-> domain, hash |-> hash, authority |-> Authority[kind], published |-> Undated,
   profilePage |-> FALSE, preferred |-> FALSE, opening |-> TRUE]

Columns(pairs) == Table([i \in DOMAIN pairs |-> [field |-> pairs[i][1], value |-> pairs[i][2]]])
Person(columns) ==
  [name |-> Name, attributes |-> Columns(<< <<"full_name", Name>> >> \o columns),
   core |-> "full_name" :> Name, places |-> {}]

\* Every person's pages: [seed, namesakes (places of pages), sites, cuts, pages (<<page, answers>>)].
Stories ==
  << \* 1. A namesake shares an employer with a page that is itself one step away.
     [seed |-> Person(<< <<"organisation", Acme>> >>), namesakes |-> {3, 4}, sites |-> {}, cuts |-> 0,
      pages |-> <<
        <<Page("employer", {Acme}, 101, 201),
          Role(Acme, Engineer, 1) \o Study(State, DegreeIn(<<"master">>, Physics), 2)>>,
        <<Page("publication", {}, 102, 202), Study(State, DegreeIn(<<"master">>, 0), 1)
                                             \o <<Past(Answer("organisation", Borealis, 2, 2))>> >>,
        <<Page("publication", {}, 103, 203), Role(Borealis, Director, 1)>>,
        <<Page("publication", {}, 104, 204), << Degree(DegreeIn(<<"master">>, Physics), 1, 1),
                                                Answer("university_name", Tech, 1, 1) >> >> >>],
     \* 2. A page, its copy, another page of its site, and an independent one.
     [seed |-> Person(<< <<"organisation", Acme>> >>), namesakes |-> {}, sites |-> {}, cuts |-> 1,
      pages |-> <<
        <<Page("publication", {Acme}, 102, 201), Role(Acme, Engineer, 1)>>,
        <<Page("aggregator", {Acme}, 101, 201), Role(Acme, Engineer, 1)>>,
        <<Page("directory", {Acme}, 103, 202), Role(Acme, Engineer, 1)>>,
        <<Page("publication", {Acme}, 102, 203), Role(Acme, Engineer, 1)>> >>],
     \* 3. Two degrees of one level at two campuses, and pages that name one of them.
     [seed |-> Person(<< <<"organisation", Acme>> >>), namesakes |-> {}, sites |-> {}, cuts |-> 1,
      pages |-> <<
        <<Page("employer", {Acme}, 101, 201),
          Study(StateNorth, DegreeIn(<<"bachelor">>, Physics), 1)
            \o Study(StateSouth, DegreeIn(<<"bachelor">>, Maths), 2)>>,
        <<Page("university", {Acme}, 102, 202), Study(State, DegreeIn(<<"bachelor">>, 0), 1)>>,
        <<Page("publication", {Acme}, 103, 203), << Degree(DegreeIn(<<"bachelor">>, Maths), 1, 1) >> >>,
        <<Page("directory", {Acme}, 104, 204),
          << Answer("university_name", StateSouth, 0, 1), Answer("subject", Physics, 0, 2) >> >> >>],
     \* 4. A list of degrees, a course, and years that tell two degrees apart.
     [seed |-> Person(<< <<"university_name", Tech>>, <<"profile_link", 103>> >>),
      namesakes |-> {}, sites |-> {101, 103}, cuts |-> 0,
      pages |-> <<
        <<Page("first_party", {Tech}, 101, 201),
          << Answer("university_name", Tech, 1, 1), Degree(BachelorMaster, 1, 1),
             Degree(Course, 2, 2) >> >>,
        <<Page("publication", {Tech}, 102, 202),
          << Until(Answer("university_name", Tech, 1, 1), 2001),
             Until(Degree(DegreeIn(<<"master">>, 0), 1, 1), 2001) >> >>,
        <<Page("publication", {Tech}, 103, 203),
          << Until(Answer("university_name", Tech, 1, 1), 2005),
             Until(Degree(DegreeIn(<<"master">>, 0), 1, 1), 2005),
             Answer("subject", Laws, 0, 2) >> >> >>],
     \* 5. Roles of yesterday and today, at work, in office and in the family.
     [seed |-> Person(<< <<"current_employer", Acme>>, <<"job_title", Engineer>> >>),
      namesakes |-> {}, sites |-> {101, 102}, cuts |-> 0,
      pages |-> <<
        <<Page("government", {Engineer}, 101, 201), Role(Ministry, Minister, 1)>>,
        <<Page("publication", {Engineer}, 102, 202),
          << Past(Answer("organisation", Acme, 1, 1)), Past(Answer("job_title", Engineer, 1, 1)) >> >>,
        <<Page("directory", {Engineer}, 103, 203), Role(Acme, Director, 1)>>,
        <<Page("publication", {Engineer}, 104, 204),
          << Now(Answer("organisation", UncleCo, 1, 1)), Now(Answer("job_title", Director, 1, 1)),
             Now(Answer("job_title", Engineer, 0, 2)) >> >> >>],
     \* 6. Without a clue: pages that hang together by an employer, and one that does not.
     [seed |-> Person(<< >>), namesakes |-> {}, sites |-> {101}, cuts |-> 0,
      pages |-> <<
        <<Page("publication", {}, 101, 201), Role(Acme, Engineer, 1)>>,
        <<Page("directory", {}, 102, 202), Role(Acme, Director, 1)>>,
        <<Page("aggregator", {}, 103, 203), Role(Borealis, Professor, 1)>> >>],
     \* 7. A page that the advisor dismisses, one that denies the clue, an old one.
     [seed |-> Person(<< <<"organisation", Acme>>, <<"degree_type", 5>> >>),
      namesakes |-> {}, sites |-> {103}, cuts |-> 1,
      pages |-> <<
        <<[Page("employer", {Acme}, 101, 201) EXCEPT !.advice = "unrelated"],
          << Now(Answer("organisation", Acme, 1, 1)),
             [Now(Answer("job_title", Engineer, 1, 2)) EXCEPT !.near = {Acme}] >>
            \o Study(State, BachelorMaster, 3)>>,
        <<[Page("university", {}, 102, 202) EXCEPT !.denied = {Acme}], Role(Borealis, Professor, 1)>>,
        <<Page("publication", {Acme}, 103, 203), <<Aged(Now(Answer("organisation", Acme, 1, 1)), 3),
          Degree(DegreeIn(<<"doctor">>, 0), 2, 2)>> >> >>],
     \* 8. A university and its acronym, and an employer that is just an office.
     [seed |-> Person(<< <<"university_name", Tech>> >>), namesakes |-> {4}, sites |-> {}, cuts |-> 0,
      pages |-> <<
        <<Page("university", {Tech}, 101, 201),
          Study(Tech, DegreeIn(<<"master">>, Physics), 1) \o Role(Office, Professor, 2)>>,
        <<Page("publication", {}, 102, 202), Study(IoT, DegreeIn(<<"master">>, 0), 1)>>,
        <<Page("publication", {Tech}, 103, 203),
          << Answer("university_name", IoT, 1, 1), Answer("subject", Maths, 1, 1) >>>>,
        <<Page("publication", {}, 104, 204), Role(Acme, Director, 1)>> >>],
     \* 9. No page has the clue: two agree on an employer, and two on an office.
     [seed |-> Person(<< <<"organisation", Acme>> >>), namesakes |-> {}, sites |-> {}, cuts |-> 0,
      pages |-> <<
        <<Page("publication", {}, 101, 201), Role(Borealis, Engineer, 1)>>,
        <<Page("directory", {}, 102, 202), Role(Borealis, Director, 1)>>,
        <<Page("publication", {}, 103, 203), Role(Office, Professor, 1)>>,
        <<Page("directory", {}, 104, 204), Role(Office, Minister, 1)>> >>] >>

\* A source is its person and its place among the person's pages.
At(i, k) == 10 * i + k
Places == {At(i, k) : i \in DOMAIN Stories, k \in 1 .. 4}
Known == {s \in Places : s % 10 \in DOMAIN Stories[s \div 10].pages}
PageOf(s) == Stories[s \div 10].pages[s % 10]
AllSources ==
  Table([s \in Known |-> [url |-> s] @@ PageOf(s)[1] @@ Assess(Stories[s \div 10].seed, PageOf(s)[1])])
AllAnswers == Table([s \in Known |-> PageOf(s)[2]])
AllPeople ==
  Table([i \in DOMAIN Stories |->
     [seed |-> Stories[i].seed, pages |-> {At(i, k) : k \in DOMAIN Stories[i].pages},
      namesakes |-> {At(i, k) : k \in Stories[i].namesakes},
      sites |-> Stories[i].sites, cuts |-> Stories[i].cuts]])

\* TLC computes a definition once, but evaluates what replaces a constant each
\* time the constant is mentioned: the replacements only name the definitions.
PolicyValue == LET value == Weights IN value
MentionsValue == LET value == Itself IN value
WordsValue == LET value == WordsOf IN value
BasesValue == LET value == Bases IN value
SourceValue == LET value == AllSources IN value
AnswersValue == LET value == AllAnswers IN value
PeopleValue == LET value == AllPeople IN value

\* The sequences of Ordering are those of the library, and sorts are stable.
ASSUME OrderingAgrees ==
  \A n \in 0 .. 4 : \A s \in [1 .. n -> 1 .. 3] :
    LET odd(x) == x # 2
        placed == [i \in 1 .. n |-> <<s[i], i>>]
        key(x) == <<x[1]>>
        before(x, y) == x[1] < y[1] \/ (x[1] = y[1] /\ x[2] < y[2])
        lists == [i \in 1 .. n |-> SubSeq(<<1, 2, 3>>, 1, s[i] - 1)]
    IN /\ Filter(s, odd) = SelectSeq(s, odd)
       /\ SortBy(placed, key) = SortSeq(placed, before)
       /\ Concatenated(lists) = FlattenSeq(lists)
=============================================================================
