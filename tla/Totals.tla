-------------------------------- MODULE Totals --------------------------------
(* Sums of amounts: the bytes of a cache or of a library, the requests of a *)
(* person.                                                                   *)
EXTENDS Integers, FiniteSets, FiniteSetsExt

\* The sum of the values of a function.
Total(f) == MapThenSumSet(LAMBDA x : f[x], DOMAIN f)
=============================================================================
