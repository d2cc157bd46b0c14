------------------------------- MODULE Claims -------------------------------
(***************************************************************************)
(* app/research/claims.py: what becomes of a model's answer about a page.  *)
(* A claim must be about the person, its quote must be on the page and its *)
(* value in the quote; a date that the quote does not give is taken away;  *)
(* a list of degrees becomes one claim for each, and a subject that a      *)
(* degree spells out becomes a claim of its own.                           *)
(*                                                                         *)
(* An answer is a record of what the model said (field, value or           *)
(* qualification, group, dates, ...) and of what the page holds of it: the *)
(* parts that occur literally, and what the quote sets beside the name.    *)
(* The policy of app/retrieval/urls.py is the set of sites it blocks; the  *)
(* value of a profile link is the site it leads to.                        *)
(***************************************************************************)
EXTENDS Identity, Normalisation

CONSTANT Answers  \* [source -> the answers of the model about its page, in order]

\* A page has a list of answers.  Each has the fields of a claim; those that
\* say where it comes from, and of which degrees it is, are filled in when it
\* becomes one.  What is no degree has a number too.
ASSUME AnswersAssumption ==
  \A s \in DOMAIN Answers :
    /\ IsSeq(Answers[s])
    /\ \A i \in DOMAIN Answers[s] :
         LET qualification == Answers[s][i].qualification
             segments == qualification.segments
         IN /\ {"n", "source", "relevance", "field", "raw", "value", "near", "names", "group", "of"}
                 \subseteq DOMAIN Answers[s][i]
            /\ Answers[s][i].of = {} /\ qualification.name \in Int
            /\ IsSeq(segments)
            /\ \A k \in DOMAIN segments :
                 IsSeq(segments[k].words) /\ ToSet(segments[k].words) \subseteq DOMAIN LevelOf

Allowed(s, blocked) == Source[s].domain \notin blocked

\* Why validate_claims drops an answer: the first fault.
Fault(s, answer, blocked) ==
  LET expanded == /\ answer.subject = "expanded" /\ ~Source[s].rejected
                  /\ Source[s].anchored # {} /\ "subject" \in answer.literal
  IN First(<< <<answer.subject # "same" /\ ~expanded, "CLAIM_SUBJECT_MISMATCH">>,
              <<"quote" \notin answer.literal, "UNGROUNDED_EVIDENCE">>,
              <<"value" \notin answer.literal, "UNGROUNDED_VALUE">>,
              <<~EligibleForSource([answer EXCEPT !.source = s]), "DISPUTED_CLAIM_IDENTITY_CONTEXT">>,
              <<answer.field = "profile_link" /\ answer.value \in blocked, "SOURCE_POLICY_BLOCKED">>,
              <<answer.field = "profile_link" /\ "link" \notin answer.literal,
                "UNOBSERVED_PROFILE_LINK">> >>,
           "none")

\* Dates that the quote does not give are no dates.
Grounded(answer) ==
  [answer EXCEPT !.asOf = IF "as_of" \in answer.literal THEN @ ELSE Undated,
                 !.ended = @ /\ "end" \in answer.literal,
                 !.year = IF "end" \in answer.literal THEN @ ELSE 0]

\* A subject that is spelled out with one degree is of any the page lists beside it.
AnyDegree == {0}

\* The claims of the i-th answer about s: a degree for each candidate, each
\* followed by the subject it spells out.
FromAnswer(s, i) ==
  LET answer == [Grounded(Answers[s][i]) EXCEPT !.source = s, !.relevance = Source[s].identity]
      claim(j, candidate) ==
        [answer EXCEPT !.n = <<s, i, j>>, !.value = candidate.value, !.label = candidate.label,
                       !.certainty = candidate.certainty, !.kind = candidate.kind]
      subject(j, candidate, among) ==
        [claim(among + j, candidate) EXCEPT
           !.field = "subject", !.value = candidate.subject, !.kind = "none", !.label = 0,
           !.of = IF among > 1 THEN {candidate.value} ELSE AnyDegree]
      both(j, candidate, among) ==
        <<claim(j, candidate)>> \o (IF candidate.subject = 0 THEN << >>
                                   ELSE <<subject(j, candidate, among)>>)
      all(candidates) ==
        Concatenated([j \in DOMAIN candidates |-> both(j, candidates[j], Len(candidates))])
  IN all(IF answer.field = "degree_type" THEN DegreeCandidates(answer.qualification)
         ELSE <<Candidate(answer.value, 1000, "none", 0, 0)>>)

\* deduplicate_claims: the first of the claims that say the same.
DeduplicateClaims(claims) ==
  LET key(c) == <<c.source, c.field, c.raw, c.value, c.asOf, c.ended, c.year, c.current, c.group>>
  IN Picked(claims, {i \in DOMAIN claims : \A j \in 1 .. i - 1 : key(claims[j]) # key(claims[i])})

\* validate_claims on some of the answers about s, which are given by their places.
Validated(s, given, blocked) ==
  LET valid == Ascending({i \in given : Fault(s, Answers[s][i], blocked) = "none"})
  IN IF ~Allowed(s, blocked) THEN << >>
     ELSE DeduplicateClaims(Concatenated([k \in DOMAIN valid |-> FromAnswer(s, valid[k])]))

ValidateClaims(s, blocked) == Validated(s, DOMAIN Answers[s], blocked)
=============================================================================
