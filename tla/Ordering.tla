------------------------------- MODULE Ordering -------------------------------
(***************************************************************************)
(* Sequences as the code filters and sorts them: sorted(values, key=...)   *)
(* of Python, the comprehension [x for x in values if ...], and min, the   *)
(* first of the smallest.  None is defined by recursion of its own, so     *)
(* that what they return can be proved.                                    *)
(***************************************************************************)
EXTENDS Integers, Sequences, SequencesExt

\* A sequence, of whatever it holds.
IsSeq(s) == s \in Seq(ToSet(s))

\* A function whose values are computed once.
Table(f) == CHOOSE g \in {f} : g = f

\* Lexicographic order, for the sort keys of the code.
Precedes(s, t) ==
  \/ \E i \in 1 .. Min({Len(s), Len(t)}) : s[i] < t[i] /\ \A k \in 1 .. i - 1 : s[k] = t[k]
  \/ Len(s) < Len(t) /\ \A k \in DOMAIN s : s[k] = t[k]

Ascending(S) == [i \in 1 .. Cardinality(S) |-> CHOOSE x \in S : Cardinality({y \in S : y <= x}) = i]

\* The elements of s at some of its places, in their order.
AlongPlaces(s, places) == [k \in DOMAIN places |-> s[places[k]]]
Picked(s, places) == Table(AlongPlaces(s, Table(Ascending(places))))

Filter(s, Keeps(_)) == Picked(s, {i \in DOMAIN s : Keeps(s[i])})

\* s, each element at its first place only.
Distinct(s) == Picked(s, {i \in DOMAIN s : \A j \in 1 .. i - 1 : s[j] # s[i]})

\* The lists of a list, joined.
Concatenated(seqs) == LET join(s, t) == s \o t IN FoldLeft(join, << >>, seqs)

\* Place i goes behind the places whose keys are not greater.
Inserted(sorted, i, keys) ==
  LET n == Cardinality({j \in DOMAIN sorted : ~Precedes(keys[i], keys[sorted[j]])})
  IN [k \in 1 .. Len(sorted) + 1 |->
        IF k <= n THEN sorted[k] ELSE IF k = n + 1 THEN i ELSE sorted[k - 1]]

\* The places of keys in the order of the keys.
Sorted(keys) ==
  LET insert(sorted, i) == Table(Inserted(sorted, i, keys))
  IN FoldLeft(insert, << >>, [i \in DOMAIN keys |-> i])

\* Python's sort: by key, and in the given order where keys are equal.
SortBy(seq, Key(_)) == AlongPlaces(seq, Sorted(Table([i \in DOMAIN seq |-> Key(seq[i])])))
=============================================================================
