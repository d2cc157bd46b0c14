------------------------------- MODULE MCBudget -------------------------------
(* A small instance of Budget: a search and a completion, or two of them,  *)
(* that run at the same time, and a run that takes the person over.        *)
EXTENDS Budget

CONSTANTS search, complete, other

Tokens == [k \in Key |-> IF k = search THEN 2 ELSE 1]
Slots == [k \in Key |-> IF k = search THEN 1 ELSE 0]

\* Nothing is claimed of a person that a run has resumed from an overtaken
\* checkpoint: the instance ends there.
InOrder == ~misled
=============================================================================
