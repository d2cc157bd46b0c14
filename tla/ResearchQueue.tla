---------------------------- MODULE ResearchQueue ----------------------------
(***************************************************************************)
(* What the job store promises to a user who submits a batch, without      *)
(* leases, clocks or retries:                                              *)
(*   - a person gets one outcome, once, and only from an owner;            *)
(*   - evidence is only added, only while the person is open, and only on  *)
(*     behalf of an owner;                                                 *)
(*   - a job is answered exactly when its last person is;                  *)
(*   - cancelling answers every open person at once, or nothing.           *)
(***************************************************************************)
CONSTANTS Job, Person, JobOf, Token, NoToken, Item

VARIABLES
  outcome,   \* what became of a person
  owner,     \* the token a person is being researched under
  answer,    \* the state of a job
  evidence   \* the evidence saved for a person

vars == <<outcome, owner, answer, evidence>>

Final == {"completed", "review_required", "failed", "cancelled"}

PersonsOf(j) == {p \in Person : JobOf[p] = j}

Init ==
  /\ outcome = [p \in Person |-> "none"]
  /\ owner = [p \in Person |-> NoToken]
  /\ answer = [j \in Job |-> "none"]
  /\ evidence = [p \in Person |-> {}]

\* A job is answered when all its people are.
Answered(j, people) ==
  IF \A p \in PersonsOf(j) : people[p] \in Final THEN "done" ELSE "open"

\* A batch is submitted; the rows that are not valid fail at once.
Submit(j) ==
  /\ answer[j] = "none"
  /\ \E invalid \in SUBSET PersonsOf(j) :
       outcome' = [p \in Person |-> IF p \in invalid THEN "failed"
                                    ELSE IF JobOf[p] = j THEN "open" ELSE outcome[p]]
  /\ answer' = [answer EXCEPT ![j] = Answered(j, outcome')]
  /\ UNCHANGED <<owner, evidence>>

\* Open people change hands.
Assign ==
  /\ owner' \in [Person -> Token \cup {NoToken}]
  /\ \A p \in Person : owner'[p] # owner[p] => outcome[p] = "open"
  /\ UNCHANGED <<outcome, answer, evidence>>

\* The owner of an open person saves evidence, and may let the person go.
Record(p, items) ==
  /\ outcome[p] = "open" /\ owner[p] # NoToken
  /\ evidence' = [evidence EXCEPT ![p] = @ \cup items]
  /\ owner' \in {owner, [owner EXCEPT ![p] = NoToken]}
  /\ UNCHANGED <<outcome, answer>>

\* The owner of an open person settles it, with its last evidence.
Settle(p, o, items) ==
  /\ outcome[p] = "open" /\ owner[p] # NoToken
  /\ outcome' = [outcome EXCEPT ![p] = o]
  /\ owner' = [owner EXCEPT ![p] = NoToken]
  /\ evidence' = [evidence EXCEPT ![p] = @ \cup items]
  /\ answer' = [answer EXCEPT ![JobOf[p]] = Answered(JobOf[p], outcome')]

Cancel(j) ==
  /\ answer[j] = "open"
  /\ answer' = [answer EXCEPT ![j] = "cancelled"]
  /\ outcome' = [p \in Person |-> IF JobOf[p] = j /\ outcome[p] = "open"
                                  THEN "cancelled" ELSE outcome[p]]
  /\ owner' = [p \in Person |-> IF JobOf[p] = j THEN NoToken ELSE owner[p]]
  /\ UNCHANGED evidence

Next ==
  \/ \E j \in Job : Submit(j) \/ Cancel(j)
  \/ Assign
  \/ \E p \in Person, items \in SUBSET Item :
       \/ Record(p, items)
       \/ \E o \in Final \ {"cancelled"} : Settle(p, o, items)

Spec == Init /\ [][Next]_vars
=============================================================================
