-------------------------------- MODULE MCApi --------------------------------
(* One batch of two people, and the requests made while it is researched.  *)
EXTENDS Api

CONSTANTS j1, p1, p2, s1, s2, x1, d1

BothOfOneJob == [p \in {p1, p2} |-> j1]

\* Two saves whose credentials both have to be verified, a save and the removal
\* of what it saves, an export of a batch that goes on.
Together == {{s1, s2}, {s1, d1}, {x1}}
=============================================================================
