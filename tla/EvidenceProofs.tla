---------------------------- MODULE EvidenceProofs ----------------------------
(***************************************************************************)
(* Nothing that is shown rests on a source that the policy blocks: proofs  *)
(* about Evidence, from the answers to the fields of a record.             *)
(*                                                                         *)
(* Each function is taken in the order of the code: bundles are made of    *)
(* claims, clusters of bundles, decisions of clusters, records of          *)
(* decisions.  At each stage, what is made rests on the claims given, and  *)
(* a link is the address of a source.  Conclude and Open leave out the     *)
(* claims of a blocked source before the first stage; the spreadsheet, at  *)
(* the last one, looks at the policy again.                                *)
(***************************************************************************)
EXTENDS Evidence, CollectionProofs

-----------------------------------------------------------------------------
(* Decisions rest on claims.                                                *)

\* A decision has these parts.
IsDecision(d) == DOMAIN d = DOMAIN Undecided

\* A decision that research has made, resting on claims in K.
Researched(d, K) ==
  /\ IsDecision(d) /\ d.status = "none" /\ d.agreeing = {}
  /\ d.support \subseteq K /\ d.conflicts \subseteq K /\ d.alternatives \subseteq K

\* The names of claims, of two sets and of a smaller set.
LEMMA IdsOf ==
  ASSUME NEW A, NEW B
  PROVE  /\ Ids(A \cup B) = Ids(A) \cup Ids(B)
         /\ A \subseteq B => Ids(A) \subseteq Ids(B)
  BY DEF Ids

\* Whatever the score, _decision rests on the claims it was given.
LEMMA SettledRests ==
  ASSUME NEW value, NEW support, NEW against, NEW alternatives, NEW scored, NEW reasons, NEW K,
         Ids(support) \subseteq K, Ids(against) \subseteq K, Ids(alternatives) \subseteq K
  PROVE  Researched(Settled(value, support, against, alternatives, scored, reasons), K)
<1> DEFINE d == Settled(value, support, against, alternatives, scored, reasons)
<1>1. Ids(support \cup against \cup alternatives) \subseteq K
  BY DEF Ids
<1>2. CASE scored.score < Policy.selection
  BY <1>1, <1>2 DEF Settled, Researched, IsDecision, Undecided
<1>3. CASE ~(scored.score < Policy.selection)
  BY <1>3 DEF Settled, Researched, IsDecision, Undecided
<1> QED
  BY <1>2, <1>3

\* ... also once they have been scored.
LEMMA DecisionRests ==
  ASSUME NEW relevant, NEW conflicts, NEW alternatives, NEW codes, NEW identities, NEW quality, NEW K,
         Ids(relevant) \subseteq K, Ids(conflicts) \subseteq K, Ids(alternatives) \subseteq K
  PROVE  Researched(Decision(relevant, conflicts, alternatives, codes, identities, quality), K)
<1>1. CASE relevant = {}
  <2>1. Researched(Missing(conflicts, alternatives, codes), K)
    BY DEF Missing, Researched, IsDecision, Undecided
  <2> QED
    BY <1>1, <2>1 DEF Decision
<1>2. CASE relevant # {}
  <2> DEFINE value == ChosenValue(relevant, identities, quality.score)
             known == relevant \cup conflicts
             support == {c \in known : c.value = value}
             against == {c \in known : c.value # value}
  <2>1. Ids(support) \subseteq K /\ Ids(against) \subseteq K
    <3> HIDE DEF value
    <3> QED
      BY DEF Ids
  <2>2. PICK scored, reasons : Decision(relevant, conflicts, alternatives, codes, identities, quality)
                                 = Settled(value, support, against, alternatives, scored, reasons)
    <3>1. Decision(relevant, conflicts, alternatives, codes, identities, quality)
            = ValueDecision(value, known, alternatives, codes, identities, quality)
      BY <1>2 DEF Decision
    <3> QED
      BY <3>1 DEF ValueDecision, Supported, ScoredDecision
  <2> HIDE DEF value, known, support, against
  <2> QED
    BY <2>1, <2>2, SettledRests
<1> QED
  BY <1>1, <1>2

-----------------------------------------------------------------------------
(* Bundles are made of claims.                                              *)

\* A bundle of claims in C.
IsBundle(b, C) ==
  /\ DOMAIN b = {"source", "group", "grouped", "claims"} /\ b.claims \subseteq C

\* Bundles of claims in C.
AreBundles(bundles, C) == IsSeq(bundles) /\ \A i \in DOMAIN bundles : IsBundle(bundles[i], C)

\* Some bundles are bundles.
LEMMA BundlesPicked ==
  ASSUME NEW C, NEW bundles, AreBundles(bundles, C), NEW places \in SUBSET (DOMAIN bundles)
  PROVE  AreBundles(Picked(bundles, places), C)
<1>1. IsSeq(Picked(bundles, places)) /\ ToSet(Picked(bundles, places)) = {bundles[i] : i \in places}
  BY PickedSeq DEF AreBundles
<1>2. \A x \in ToSet(Picked(bundles, places)) : IsBundle(x, C)
  BY <1>1 DEF AreBundles
<1>3. \A i \in DOMAIN Picked(bundles, places) : Picked(bundles, places)[i] \in ToSet(Picked(bundles, places))
  BY DEF ToSet
<1> QED
  BY <1>1, <1>2, <1>3 DEF AreBundles

\* _build_bundles makes bundles of the claims it is given.
LEMMA BuildBundlesType ==
  ASSUME NEW C, NEW claimed, IsSeq(claimed), ToSet(claimed) \subseteq C, NEW fields
  PROVE  AreBundles(BuildBundles(claimed, fields), C)
<1> DEFINE kept == Filter(claimed, LAMBDA c : c.field \in fields)
           key(c) == <<c.source, GroupOf(c)>>
           t == [i \in DOMAIN kept |-> key(kept[i])]
           first == {i \in DOMAIN t : \A j \in 1 .. i - 1 : t[j] # t[i]}
           keys == Table(Distinct(Table(t)))
           bundle == [k \in DOMAIN keys |->
             [source |-> keys[k][1], group |-> keys[k][2], grouped |-> keys[k][2][1] # 0,
              claims |-> {c \in ToSet(kept) : key(c) = keys[k]}]]
<1>1. BuildBundles(claimed, fields) = bundle
  <2>1. BuildBundles(claimed, fields) = Table(bundle)
    BY DEF BuildBundles
  <2> HIDE DEF bundle
  <2> QED
    BY <2>1, TableIs
<1>2. IsSeq(kept) /\ ToSet(kept) \subseteq C
  <2> DEFINE places == {i \in DOMAIN claimed : claimed[i].field \in fields}
  <2>1. kept = Picked(claimed, places) /\ places \in SUBSET (DOMAIN claimed)
    BY DEF Filter
  <2> HIDE DEF places
  <2> QED
    BY <2>1, PickedSeq
<1> HIDE DEF kept, key
<1>3. Len(kept) \in Nat /\ DOMAIN kept = 1 .. Len(kept)
  BY <1>2, SeqFacts
<1>4. IsSeq(t)
  <2> DEFINE n == Len(kept)
  <2>1. DOMAIN t = 1 .. n
    BY <1>3
  <2>2. t = [i \in 1 .. n |-> t[i]]
    BY <1>3
  <2> HIDE DEF t, n
  <2>3. n \in Nat
    BY <1>3 DEF n
  <2> QED
    BY <2>2, <2>3, SeqMade
<1> HIDE DEF t
<1>5. IsSeq(keys)
  <2>1. keys = Picked(t, first)
    BY TableIs DEF Distinct
  <2>2. first \in SUBSET (DOMAIN t)
    OBVIOUS
  <2> HIDE DEF first
  <2> QED
    BY <1>4, <2>1, <2>2, PickedSeq
<1> HIDE DEF keys
<1>6. Len(keys) \in Nat /\ DOMAIN keys = 1 .. Len(keys)
  BY <1>5, SeqFacts
<1>7. IsSeq(bundle) /\ DOMAIN bundle = DOMAIN keys
  <2>1. bundle = [k \in 1 .. Len(keys) |-> bundle[k]]
    BY <1>6
  <2> HIDE DEF bundle
  <2> QED
    BY <1>6, <2>1, SeqMade
<1>8. \A k \in DOMAIN keys : IsBundle(bundle[k], C)
  BY <1>2 DEF IsBundle
<1> QED
  BY <1>1, <1>7, <1>8 DEF AreBundles

\* _pair_bundles joins bundles, and makes up no claim.
LEMMA PairedBundlesType ==
  ASSUME NEW C, NEW bundles, AreBundles(bundles, C), NEW together,
         \A i \in DOMAIN bundles : together[i] \subseteq DOMAIN bundles
  PROVE  AreBundles(PairedBundles(bundles, together), C)
<1> DEFINE inferred(i) == OneRole(UNION {bundles[j].claims : j \in together[i]})
           K == {i \in DOMAIN bundles : ~inferred(i)}
           R == {i \in DOMAIN bundles : inferred(i) /\ \A j \in together[i] : i <= j}
           kept == Ascending(K)
           leads == Ascending(R)
           role(i) == [bundles[i] EXCEPT !.grouped = TRUE,
                                         !.claims = UNION {bundles[j].claims : j \in together[i]}]
           s == [k \in DOMAIN kept |-> bundles[kept[k]]]
           t == [k \in DOMAIN leads |-> role(leads[k])]
<1>0. IsSeq(bundles) /\ \A i \in DOMAIN bundles : IsBundle(bundles[i], C)
  BY DEF AreBundles
<1>1. PairedBundles(bundles, together) = s \o t
  BY TableIs DEF PairedBundles
<1>2. K \in SUBSET (DOMAIN bundles) /\ R \in SUBSET (DOMAIN bundles)
  OBVIOUS
<1> HIDE DEF K, R, inferred
<1>3. K \in SUBSET Int /\ IsFiniteSet(K) /\ R \in SUBSET Int /\ IsFiniteSet(R)
  <2>1. bundles \in Seq(ToSet(bundles))
    BY <1>0 DEF IsSeq
  <2> QED
    BY <1>2, <2>1, PlacesFinite
<1>4. /\ Cardinality(K) \in Nat /\ DOMAIN kept = 1 .. Cardinality(K)
      /\ \A k \in DOMAIN kept : kept[k] \in DOMAIN bundles
  BY <1>2, <1>3, AscendingType
<1>5. /\ Cardinality(R) \in Nat /\ DOMAIN leads = 1 .. Cardinality(R)
      /\ \A k \in DOMAIN leads : leads[k] \in DOMAIN bundles
  BY <1>2, <1>3, AscendingType
<1> HIDE DEF kept, leads
<1>6. IsSeq(s) /\ \A x \in ToSet(s) : IsBundle(x, C)
  <2>1. s = [k \in 1 .. Cardinality(K) |-> s[k]]
    BY <1>4
  <2>2. \A k \in DOMAIN kept : IsBundle(s[k], C)
    BY <1>0, <1>4
  <2>3. IsSeq(s)
    <3> HIDE DEF s
    <3> QED
      BY <1>4, <2>1, SeqMade
  <2> QED
    BY <2>2, <2>3 DEF ToSet
<1>7. ASSUME NEW i \in DOMAIN bundles PROVE IsBundle(role(i), C)
  <2>1. UNION {bundles[j].claims : j \in together[i]} \subseteq C
    BY <1>0 DEF IsBundle
  <2>2. DOMAIN bundles[i] = {"source", "group", "grouped", "claims"}
    BY <1>0 DEF IsBundle
  <2> QED
    BY <2>1, <2>2 DEF IsBundle
<1>8. IsSeq(t) /\ \A x \in ToSet(t) : IsBundle(x, C)
  <2> HIDE DEF role
  <2>1. t = [k \in 1 .. Cardinality(R) |-> t[k]]
    BY <1>5
  <2>2. \A k \in DOMAIN leads : IsBundle(t[k], C)
    BY <1>5, <1>7
  <2>3. IsSeq(t)
    <3> HIDE DEF t
    <3> QED
      BY <1>5, <2>1, SeqMade
  <2> QED
    BY <2>2, <2>3 DEF ToSet
<1> HIDE DEF s, t
<1>9. IsSeq(s \o t) /\ ToSet(s \o t) = ToSet(s) \cup ToSet(t)
  BY <1>6, <1>8, ConcatSeq
<1>10. \A i \in DOMAIN (s \o t) : (s \o t)[i] \in ToSet(s \o t)
  BY DEF ToSet
<1> QED
  BY <1>1, <1>6, <1>8, <1>9, <1>10 DEF AreBundles

\* ... nor does _employment_bundles.
LEMMA EmploymentBundlesType ==
  ASSUME NEW C, NEW claimed, IsSeq(claimed), ToSet(claimed) \subseteq C
  PROVE  AreBundles(EmploymentBundles(claimed), C)
<1> DEFINE bundles == BuildBundles(claimed, Volatile)
           together == [i \in DOMAIN bundles |-> Together(bundles, i)]
<1>1. AreBundles(bundles, C)
  BY BuildBundlesType
<1>2. EmploymentBundles(claimed) = PairedBundles(bundles, together)
  BY TableIs DEF EmploymentBundles, RoleBundles
<1> HIDE DEF bundles
<1>3. \A i \in DOMAIN bundles : together[i] \subseteq DOMAIN bundles
  BY DEF Together
<1> HIDE DEF together
<1> QED
  BY <1>1, <1>2, <1>3, PairedBundlesType

\* _split_compound_bundles divides the claims of a bundle.
LEMMA SplitCompoundType ==
  ASSUME NEW C, IsFiniteSet(C), NEW b, IsBundle(b, C)
  PROVE  AreBundles(SplitCompound(b), C)
<1> DEFINE levels == ValuesOf(Of(b.claims, "degree_type"), "degree_type")
           own(level) == {c \in b.claims :
                       IF c.field = "degree_type" THEN c.value = level
                       ELSE c.of \subseteq AnyDegree \/ level \in c.of}
           part(level) == [source |-> b.source, group |-> b.group \o <<level>>,
                      grouped |-> TRUE, claims |-> own(level)]
           ordered == Ascending(levels)
           parts == [i \in DOMAIN ordered |-> part(ordered[i])]
<1>1. SplitCompound(b) = parts \/ SplitCompound(b) = <<b>>
  BY DEF SplitCompound
<1>2. DOMAIN ordered = 1 .. Cardinality(levels) /\ Cardinality(levels) \in Nat
  <2>1. IsFiniteSet(Of(Of(b.claims, "degree_type"), "degree_type"))
    BY FS_Subset DEF Of, IsBundle
  <2> DEFINE D == Of(Of(b.claims, "degree_type"), "degree_type")
             value == [c \in D |-> c.value]
  <2>2. value \in Surjection(D, levels)
    BY DEF Surjection, ValuesOf
  <2>3. IsFiniteSet(levels)
    BY <2>1, <2>2, FS_Surjection
  <2> HIDE DEF levels
  <2> QED
    BY <2>3, FS_CardinalityType DEF Ascending
<1> HIDE DEF ordered, levels
<1>3. AreBundles(parts, C)
  <2>1. \A i \in DOMAIN parts : IsBundle(parts[i], C)
    BY DEF IsBundle
  <2>2. parts = [i \in 1 .. Cardinality(levels) |-> parts[i]]
    BY <1>2
  <2> HIDE DEF parts
  <2>3. IsSeq(parts)
    BY <1>2, <2>2, SeqMade
  <2> QED
    BY <2>1, <2>3 DEF AreBundles
<1>4. AreBundles(<<b>>, C)
  <2>1. <<b>> \in Seq({b}) /\ DOMAIN <<b>> = {1} /\ <<b>>[1] = b
    OBVIOUS
  <2>2. IsSeq(<<b>>)
    BY <2>1, SeqTyped
  <2> QED
    BY <2>1, <2>2 DEF AreBundles
<1> QED
  BY <1>1, <1>3, <1>4

\* ... of every bundle.
LEMMA SplitBundlesType ==
  ASSUME NEW C, IsFiniteSet(C), NEW bundles, AreBundles(bundles, C)
  PROVE  AreBundles(SplitBundles(bundles), C)
<1> DEFINE seqs == [i \in DOMAIN bundles |-> SplitCompound(bundles[i])]
<1>1. IsSeq(bundles) /\ \A i \in DOMAIN bundles : IsBundle(bundles[i], C)
  BY DEF AreBundles
<1>2. Len(bundles) \in Nat /\ DOMAIN bundles = 1 .. Len(bundles)
  BY <1>1, SeqFacts
<1>3. \A i \in DOMAIN seqs : AreBundles(seqs[i], C)
  BY <1>1, SplitCompoundType
<1>4. IsSeq(seqs)
  <2>1. seqs = [i \in 1 .. Len(bundles) |-> seqs[i]]
    BY <1>2
  <2> HIDE DEF seqs
  <2> QED
    BY <1>2, <2>1, SeqMade
<1> DEFINE all == Concatenated(seqs)
<1>5. SplitBundles(bundles) = all
  BY DEF SplitBundles
<1> HIDE DEF seqs
<1>6. IsSeq(all) /\ \A x \in ToSet(all) : \E i \in DOMAIN seqs : x \in ToSet(seqs[i])
  BY <1>3, <1>4, ConcatenatedSeq DEF AreBundles
<1>7. \A x \in ToSet(all) : IsBundle(x, C)
  BY <1>3, <1>6 DEF AreBundles, ToSet
<1> HIDE DEF all
<1>8. \A i \in DOMAIN all : all[i] \in ToSet(all)
  BY DEF ToSet
<1> QED
  BY <1>5, <1>6, <1>7, <1>8 DEF AreBundles

-----------------------------------------------------------------------------
(* Clusters are made of bundles.                                            *)

\* Clusters of bundles in B, of claims in C.
Cluster(B, C) == [bundles : Seq(B), alternatives : SUBSET C, ambiguous : BOOLEAN]

\* Bundles rest on the claims.
Evidenced(B, C) == IsFiniteSet(C) /\ \A b \in B : IsBundle(b, C)

\* An overlap is a number.
LEMMA OverlapType ==
  ASSUME NEW left, NEW right, IsFiniteSet(left)
  PROVE  Overlap(left, right) \in Nat
<1> DEFINE S == {f \in FieldsOf(left) \intersect FieldsOf(right) : FieldOverlaps(left, right, f)}
           field == [c \in left |-> c.field]
<1>1. {field[c] : c \in left} = FieldsOf(left)
  BY DEF FieldsOf
<1>2. IsFiniteSet({field[c] : c \in left})
  <2>1. DOMAIN field = left
    OBVIOUS
  <2> HIDE DEF field
  <2> QED
    BY <2>1, ImageFinite
<1>3. IsFiniteSet(S)
  BY <1>1, <1>2, FS_Subset
<1>4. Cardinality(S) \in Nat
  BY <1>3, FS_CardinalityType
<1> QED
  BY <1>4 DEF Overlap

\* The claims of a cluster are claims of its bundles.
LEMMA ClusterClaims ==
  ASSUME NEW C, NEW B, Evidenced(B, C), NEW x \in Cluster(B, C)
  PROVE  ClaimsOf(x) \subseteq C
<1>1. x.bundles \in Seq(B)
  BY DEF Cluster
<1>2. \A i \in DOMAIN x.bundles : x.bundles[i] \in B
  BY <1>1, LenProperties, ElementOfSeq
<1> QED
  BY <1>2 DEF ClaimsOf, Evidenced, IsBundle

\* A cluster of one bundle.
LEMMA NewClusterType ==
  ASSUME NEW B, NEW C, NEW b \in B
  PROVE  NewCluster(b) \in Cluster(B, C)
<1>1. <<b>> \in Seq(B)
  OBVIOUS
<1> QED
  BY <1>1 DEF NewCluster, Cluster

\* A bundle joins a cluster, ...
LEMMA NewEvidenceType ==
  ASSUME NEW B, NEW C, NEW clusters \in Seq(Cluster(B, C)), NEW b \in B, NEW i
  PROVE  NewEvidence(clusters, i, b) \in Seq(Cluster(B, C))
<1> DEFINE L == Len(clusters)
           new == NewEvidence(clusters, i, b)
<1>1. L \in Nat /\ DOMAIN clusters = 1 .. L /\ \A j \in 1 .. L : clusters[j] \in Cluster(B, C)
  BY SeqTyped
<1>2. \A j \in 1 .. L : [clusters[j] EXCEPT !.bundles = Append(@, b)] \in Cluster(B, C)
  <2> TAKE j \in 1 .. L
  <2>1. clusters[j] \in Cluster(B, C)
    BY <1>1
  <2>2. Append(clusters[j].bundles, b) \in Seq(B)
    BY <2>1, AppendProperties DEF Cluster
  <2> QED
    BY <2>1, <2>2 DEF Cluster
<1>3. /\ DOMAIN new = 1 .. L
      /\ \A j \in 1 .. L : new[j] = IF j = i THEN [clusters[j] EXCEPT !.bundles = Append(@, b)]
                                    ELSE clusters[j]
      /\ new = [j \in 1 .. L |-> new[j]]
  <2> HIDE DEF L
  <2> QED
    BY <1>1 DEF NewEvidence
<1> HIDE DEF L, new
<1>4. new \in [1 .. L -> Cluster(B, C)]
  BY <1>1, <1>2, <1>3
<1>5. new \in Seq(Cluster(B, C))
  BY <1>1, <1>4, SeqDef
<1> QED
  BY <1>5 DEF new

\* ... or only its alternatives.
LEMMA OnlyAlternativeType ==
  ASSUME NEW B, NEW C, Evidenced(B, C), NEW clusters \in Seq(Cluster(B, C)), NEW b \in B, NEW i
  PROVE  OnlyAlternative(clusters, i, b) \in Seq(Cluster(B, C))
<1> DEFINE L == Len(clusters)
           new == OnlyAlternative(clusters, i, b)
           only(x) == [x EXCEPT !.ambiguous = TRUE, !.alternatives = @ \cup b.claims]
<1>1. L \in Nat /\ DOMAIN clusters = 1 .. L /\ \A j \in 1 .. L : clusters[j] \in Cluster(B, C)
  BY SeqTyped
<1>2. \A x \in Cluster(B, C) : only(x) \in Cluster(B, C)
  <2> TAKE x \in Cluster(B, C)
  <2>1. x.alternatives \cup b.claims \in SUBSET C
    BY DEF Cluster, Evidenced, IsBundle
  <2> QED
    BY <2>1 DEF Cluster
<1>3. /\ DOMAIN new = 1 .. L
      /\ \A j \in 1 .. L : new[j] = IF j = i THEN only(clusters[j]) ELSE clusters[j]
      /\ new = [j \in 1 .. L |-> new[j]]
  <2> HIDE DEF L
  <2>1. new = [clusters EXCEPT ![i] = only(clusters[i])]
    BY <1>1 DEF OnlyAlternative
  <2> HIDE DEF only, new
  <2> QED
    BY <1>1, <2>1
<1> HIDE DEF L, new, only
<1>4. new \in [1 .. L -> Cluster(B, C)]
  BY <1>1, <1>2, <1>3
<1>5. new \in Seq(Cluster(B, C))
  BY <1>1, <1>4, SeqDef
<1> QED
  BY <1>5 DEF new

\* A bundle may start a cluster.
LEMMA AppendedType ==
  ASSUME NEW B, NEW C, NEW clusters \in Seq(Cluster(B, C)), NEW b \in B
  PROVE  Append(clusters, NewCluster(b)) \in Seq(Cluster(B, C))
BY NewClusterType, AppendProperties

\* Two bundles of degrees of one page, with labels of their own and with
\* universities that cannot be the same.
ListedApart(a, b) ==
  /\ Degrees(a) # {} /\ Degrees(b) # {}
  /\ a.source = b.source /\ a.grouped /\ b.grouped /\ a.group # b.group
  /\ FieldConflicts(a.claims, b.claims, "university_name")

\* A cluster of which no two bundles are listed apart.
KeptApart(x) == \A i, j \in DOMAIN x.bundles : ~ListedApart(x.bundles[i], x.bundles[j])

Credential(B, C) == {x \in Cluster(B, C) : KeptApart(x)}

\* It does not matter which of the two is new.
LEMMA ApartBothWays ==
  ASSUME NEW a, NEW b, ListedApart(a, b)
  PROVE  ListedApart(b, a)
<1>1. \A u, v : Equivalent(u, v) => Equivalent(v, u)
  <2> TAKE u, v
  <2>1. {u, v} = {v, u}
    OBVIOUS
  <2> QED
    BY <2>1 DEF Equivalent
<1>2. FieldOverlaps(b.claims, a.claims, "university_name")
        => FieldOverlaps(a.claims, b.claims, "university_name")
  BY <1>1 DEF FieldOverlaps
<1> QED
  BY <1>2 DEF ListedApart, FieldConflicts

\* Every cluster of `new` is an old one, or one of `open` with bundle b, or b alone.
Grows(new, old, b, open) ==
  \A k \in DOMAIN new :
    \/ k \in DOMAIN old /\ new[k].bundles = old[k].bundles
    \/ k \in open /\ new[k].bundles = Append(old[k].bundles, b)
    \/ new[k].bundles = <<b>>

\* Where b is not apart from what is in the clusters that it may join, they stay credentials.
LEMMA GrownApart ==
  ASSUME NEW B, NEW C, NEW b \in B, NEW old \in Seq(Credential(B, C)), NEW new \in Seq(Cluster(B, C)),
         NEW open \in SUBSET (DOMAIN old), Grows(new, old, b, open),
         \A k \in open : \A i \in DOMAIN old[k].bundles : ~ListedApart(b, old[k].bundles[i])
  PROVE  new \in Seq(Credential(B, C))
<1>1. \A k \in DOMAIN old : old[k] \in Cluster(B, C) /\ KeptApart(old[k])
  <2>1. \A k \in DOMAIN old : old[k] \in Credential(B, C)
    BY SeqTyped
  <2> QED
    BY <2>1 DEF Credential
<1>2. ~ListedApart(b, b)
  BY DEF ListedApart
<1>3. ASSUME NEW k \in DOMAIN new
      PROVE  KeptApart(new[k])
  <2>1. CASE k \in DOMAIN old /\ new[k].bundles = old[k].bundles
    BY <1>1, <2>1 DEF KeptApart
  <2>2. CASE k \in open /\ new[k].bundles = Append(old[k].bundles, b)
    <3> DEFINE s == old[k].bundles
               t == new[k].bundles
    <3>1. k \in DOMAIN old /\ KeptApart(old[k]) /\ s \in Seq(B)
      BY <1>1, <2>2 DEF Cluster
    <3>2. Len(s) \in Nat /\ DOMAIN s = 1 .. Len(s)
      BY <3>1, SeqTyped
    <3>3. t = Append(s, b)
      BY <2>2
    <3>4. \A i \in DOMAIN s, j \in DOMAIN s : ~ListedApart(s[i], s[j])
      BY <3>1 DEF KeptApart
    <3>5. \A i \in DOMAIN s : ~ListedApart(b, s[i]) /\ ~ListedApart(s[i], b)
      BY <2>2, ApartBothWays
    <3> HIDE DEF s, t
    <3>6. \A i \in DOMAIN t : t[i] = b \/ \E j \in DOMAIN s : t[i] = s[j]
      BY <3>1, <3>2, <3>3, AppendProperties
    <3>7. \A i, j \in DOMAIN t : ~ListedApart(t[i], t[j])
      BY <1>2, <3>4, <3>5, <3>6
    <3> QED
      BY <3>7 DEF KeptApart, t
  <2>3. CASE new[k].bundles = <<b>>
    <3>1. \A i \in DOMAIN <<b>> : <<b>>[i] = b
      OBVIOUS
    <3> QED
      BY <1>2, <2>3, <3>1 DEF KeptApart
  <2> QED
    BY <2>1, <2>2, <2>3 DEF Grows
<1>4. IsSeq(new) /\ \A k \in DOMAIN new : new[k] \in Credential(B, C)
  BY <1>3, SeqTyped DEF Credential
<1>5. ToSet(new) \subseteq Credential(B, C)
  BY <1>4 DEF ToSet
<1> QED
  BY <1>4, <1>5, SeqIn

\* A bundle joins a cluster that is open to it, ...
LEMMA NewEvidenceGrows ==
  ASSUME NEW B, NEW C, NEW clusters \in Seq(Cluster(B, C)), NEW b, NEW open, NEW i \in open
  PROVE  Grows(NewEvidence(clusters, i, b), clusters, b, open)
<1>1. \A k \in DOMAIN clusters : clusters[k] \in Cluster(B, C)
  BY SeqTyped
<1>2. \A x \in Cluster(B, C) : [x EXCEPT !.bundles = Append(@, b)].bundles = Append(x.bundles, b)
  BY DEF Cluster
<1> DEFINE new == NewEvidence(clusters, i, b)
<1>3. /\ DOMAIN new = DOMAIN clusters
      /\ \A k \in DOMAIN clusters :
           new[k] = IF k = i THEN [clusters[k] EXCEPT !.bundles = Append(@, b)] ELSE clusters[k]
  BY DEF NewEvidence
<1> HIDE DEF new
<1>4. Grows(new, clusters, b, open)
  BY <1>1, <1>2, <1>3 DEF Grows
<1> QED
  BY <1>4 DEF new

\* ... or no cluster has it as more than an alternative.
LEMMA OnlyAlternativeGrows ==
  ASSUME NEW B, NEW C, NEW clusters \in Seq(Cluster(B, C)), NEW b, NEW open, NEW i
  PROVE  /\ DOMAIN OnlyAlternative(clusters, i, b) = DOMAIN clusters
         /\ \A k \in DOMAIN clusters : OnlyAlternative(clusters, i, b)[k].bundles = clusters[k].bundles
         /\ Grows(OnlyAlternative(clusters, i, b), clusters, b, open)
<1>1. \A k \in DOMAIN clusters : clusters[k] \in Cluster(B, C)
  BY SeqTyped
<1> DEFINE only(x) == [x EXCEPT !.ambiguous = TRUE, !.alternatives = @ \cup b.claims]
           new == OnlyAlternative(clusters, i, b)
<1>2. \A x \in Cluster(B, C) : only(x).bundles = x.bundles
  BY DEF Cluster
<1>3. new = [clusters EXCEPT ![i] = only(clusters[i])]
  <2>1. CASE i \in DOMAIN clusters
    BY <2>1 DEF OnlyAlternative
  <2>2. CASE i \notin DOMAIN clusters
    BY <2>2 DEF OnlyAlternative
  <2> QED
    BY <2>1, <2>2
<1> HIDE DEF new, only
<1>4. /\ DOMAIN new = DOMAIN clusters
      /\ \A k \in DOMAIN clusters : new[k] = only(clusters[k]) \/ new[k] = clusters[k]
  BY <1>3
<1>5. \A k \in DOMAIN clusters : new[k].bundles = clusters[k].bundles
  BY <1>1, <1>2, <1>4
<1>6. Grows(new, clusters, b, open)
  BY <1>4, <1>5 DEF Grows
<1> QED
  BY <1>4, <1>5, <1>6 DEF new

\* A bundle that starts a cluster is alone in it.
LEMMA AppendedGrows ==
  ASSUME NEW B, NEW C, NEW clusters \in Seq(Cluster(B, C)), NEW b, NEW open
  PROVE  Grows(Append(clusters, NewCluster(b)), clusters, b, open)
<1>1. Len(clusters) \in Nat /\ DOMAIN clusters = 1 .. Len(clusters) /\ IsSeq(clusters)
  BY SeqTyped
<1>2. NewCluster(b).bundles = <<b>>
  BY DEF NewCluster
<1> DEFINE new == Append(clusters, NewCluster(b))
<1>3. \A k \in DOMAIN new : (k \in DOMAIN clusters /\ new[k] = clusters[k]) \/ new[k] = NewCluster(b)
  BY <1>1
<1> HIDE DEF new
<1>4. Grows(new, clusters, b, open)
  BY <1>2, <1>3 DEF Grows
<1> QED
  BY <1>4 DEF new

\* Cluster y has what cluster x has.
Within(x, y) == ClaimsOf(x) \subseteq ClaimsOf(y) /\ x.alternatives \subseteq y.alternatives

\* No cluster loses a claim, ...
Keeps(new, old) == \A k \in DOMAIN old : k \in DOMAIN new /\ Within(old[k], new[k])

\* ... and those of bundle b become evidence, or alternatives at least.
Taken(clusters, c) == \E k \in DOMAIN clusters : c \in ClaimsOf(clusters[k])
Noted(clusters, c) ==
  \E k \in DOMAIN clusters : c \in ClaimsOf(clusters[k]) \cup clusters[k].alternatives
Takes(new, b) == \A c \in b.claims : Taken(new, c)
Notes(new, b) == \A c \in b.claims : Noted(new, c)

\* A cluster with one bundle more.
LEMMA MoreBundles ==
  ASSUME NEW B, NEW C, NEW x \in Cluster(B, C), NEW b \in B
  PROVE  /\ ClaimsOf([x EXCEPT !.bundles = Append(@, b)]) = ClaimsOf(x) \cup b.claims
         /\ [x EXCEPT !.bundles = Append(@, b)].alternatives = x.alternatives
<1> DEFINE s == x.bundles
           t == Append(s, b)
           y == [x EXCEPT !.bundles = Append(@, b)]
<1>1. s \in Seq(B) /\ y.bundles = t /\ y.alternatives = x.alternatives
  BY DEF Cluster
<1>2. Len(s) \in Nat /\ DOMAIN s = 1 .. Len(s)
  BY <1>1, SeqTyped
<1>3. /\ DOMAIN t = 1 .. Len(s) + 1 /\ t[Len(s) + 1] = b
      /\ \A i \in DOMAIN s : t[i] = s[i]
  <2> HIDE DEF s
  <2> QED
    BY <1>1, <1>2, AppendProperties
<1> HIDE DEF s, t, y
<1>4. /\ Len(s) + 1 \in DOMAIN t /\ \A i \in DOMAIN s : i \in DOMAIN t
      /\ \A i \in DOMAIN t : i \in DOMAIN s \/ i = Len(s) + 1
  BY <1>2, <1>3
<1>5. ClaimsOf(y) = UNION {t[i].claims : i \in DOMAIN t} /\ ClaimsOf(x) = UNION {s[i].claims : i \in DOMAIN s}
  BY <1>1 DEF ClaimsOf, s
<1>6. ClaimsOf(y) = ClaimsOf(x) \cup b.claims
  BY <1>3, <1>4, <1>5
<1> QED
  BY <1>1, <1>6 DEF y

\* A bundle becomes evidence on a cluster, ...
LEMMA NewEvidenceKeeps ==
  ASSUME NEW B, NEW C, NEW clusters \in Seq(Cluster(B, C)), NEW b \in B, NEW i \in DOMAIN clusters
  PROVE  /\ DOMAIN NewEvidence(clusters, i, b) = DOMAIN clusters
         /\ Keeps(NewEvidence(clusters, i, b), clusters) /\ Takes(NewEvidence(clusters, i, b), b)
<1> DEFINE new == NewEvidence(clusters, i, b)
           more(x) == [x EXCEPT !.bundles = Append(@, b)]
<1>1. \A k \in DOMAIN clusters : clusters[k] \in Cluster(B, C)
  BY SeqTyped
<1>2. /\ DOMAIN new = DOMAIN clusters
      /\ \A k \in DOMAIN clusters : new[k] = IF k = i THEN more(clusters[k]) ELSE clusters[k]
  BY DEF NewEvidence
<1>3. \A x \in Cluster(B, C) : ClaimsOf(more(x)) = ClaimsOf(x) \cup b.claims /\ more(x).alternatives = x.alternatives
  BY MoreBundles
<1> HIDE DEF new, more
<1>4. Keeps(new, clusters)
  BY <1>1, <1>2, <1>3 DEF Keeps, Within
<1>5. Takes(new, b)
  <2>1. new[i] = more(clusters[i]) /\ b.claims \subseteq ClaimsOf(more(clusters[i]))
    BY <1>1, <1>2, <1>3
  <2> QED
    BY <1>2, <2>1 DEF Takes, Taken
<1> QED
  BY <1>2, <1>4, <1>5 DEF new

\* ... or an alternative to it, ...
LEMMA OnlyAlternativeKeeps ==
  ASSUME NEW B, NEW C, NEW clusters \in Seq(Cluster(B, C)), NEW b, NEW i \in DOMAIN clusters
  PROVE  /\ Within(clusters[i], OnlyAlternative(clusters, i, b)[i])
         /\ b.claims \subseteq OnlyAlternative(clusters, i, b)[i].alternatives
         /\ Keeps(OnlyAlternative(clusters, i, b), clusters) /\ Notes(OnlyAlternative(clusters, i, b), b)
<1> DEFINE new == OnlyAlternative(clusters, i, b)
           only(x) == [x EXCEPT !.ambiguous = TRUE, !.alternatives = @ \cup b.claims]
<1>1. \A k \in DOMAIN clusters : clusters[k] \in Cluster(B, C)
  BY SeqTyped
<1>2. new = [clusters EXCEPT ![i] = only(clusters[i])]
  BY DEF OnlyAlternative
<1>3. \A x \in Cluster(B, C) : Within(x, only(x)) /\ b.claims \subseteq only(x).alternatives
  BY DEF Cluster, Within, ClaimsOf
<1> HIDE DEF new, only
<1>4. /\ DOMAIN new = DOMAIN clusters /\ new[i] = only(clusters[i])
      /\ \A k \in DOMAIN clusters : new[k] = only(clusters[k]) \/ new[k] = clusters[k]
  BY <1>2
<1>5. Within(clusters[i], new[i]) /\ b.claims \subseteq new[i].alternatives
  BY <1>1, <1>3, <1>4
<1>6. \A x : Within(x, x)
  BY DEF Within
<1>7. Keeps(new, clusters)
  BY <1>1, <1>3, <1>4, <1>6 DEF Keeps
<1>8. Notes(new, b)
  BY <1>4, <1>5 DEF Notes, Noted
<1> QED
  BY <1>5, <1>7, <1>8 DEF new

\* ... or a cluster of its own.
LEMMA AppendedKeeps ==
  ASSUME NEW clusters, IsSeq(clusters), NEW b
  PROVE  /\ Keeps(Append(clusters, NewCluster(b)), clusters)
         /\ Takes(Append(clusters, NewCluster(b)), b)
<1> DEFINE new == Append(clusters, NewCluster(b))
           n == Len(clusters)
<1>1. n \in Nat /\ DOMAIN clusters = 1 .. n /\ clusters \in Seq(ToSet(clusters))
  BY SeqFacts DEF IsSeq
<1>2. ClaimsOf(NewCluster(b)) = b.claims
  <2>1. NewCluster(b).bundles = <<b>> /\ DOMAIN <<b>> = {1} /\ <<b>>[1] = b
    BY DEF NewCluster
  <2> QED
    BY <2>1 DEF ClaimsOf
<1>3. /\ DOMAIN new = 1 .. n + 1 /\ new[n + 1] = NewCluster(b)
      /\ \A k \in DOMAIN clusters : new[k] = clusters[k]
  BY <1>1
<1> HIDE DEF new, n
<1>4. n + 1 \in DOMAIN new /\ \A k \in DOMAIN clusters : k \in DOMAIN new
  BY <1>1, <1>3
<1>5. Keeps(new, clusters)
  BY <1>3, <1>4 DEF Keeps, Within
<1>6. Takes(new, b)
  BY <1>2, <1>3, <1>4 DEF Takes, Taken
<1> QED
  BY <1>5, <1>6 DEF new

\* What is taken is noted.
LEMMA TakenIsNoted ==
  ASSUME NEW new, NEW b, Takes(new, b)
  PROVE  Notes(new, b)
BY DEF Takes, Notes, Taken, Noted

\* What is kept stays.
LEMMA KeptStays ==
  ASSUME NEW new, NEW old, Keeps(new, old)
  PROVE  \A c : (Taken(old, c) => Taken(new, c)) /\ (Noted(old, c) => Noted(new, c))
<1> TAKE c
<1>1. Taken(old, c) => Taken(new, c)
  BY DEF Taken, Keeps, Within
<1>2. Noted(old, c) => Noted(new, c)
  BY DEF Noted, Keeps, Within
<1> QED
  BY <1>1, <1>2

\* Places of clusters are finitely many numbers.
LEMMA ClusterPlaces ==
  ASSUME NEW E, NEW clusters \in Seq(E), NEW open \in SUBSET (DOMAIN clusters)
  PROVE  open \in SUBSET Int /\ IsFiniteSet(open) /\ Cardinality(open) \in Nat
BY PlacesFinite, FS_CardinalityType

\* Wherever _place puts a bundle, clusters are clusters, and it joins one that is open to it.
LEMMA PlaceAmongType ==
  ASSUME NEW B, NEW C, Evidenced(B, C), NEW clusters \in Seq(Cluster(B, C)), NEW b \in B,
         NEW open \in SUBSET (DOMAIN clusters), NEW overlap \in [DOMAIN clusters -> Nat], NEW conflict
  PROVE  /\ PlaceAmong(clusters, b, open, overlap, conflict) \in Seq(Cluster(B, C))
         /\ Grows(PlaceAmong(clusters, b, open, overlap, conflict), clusters, b, open)
         /\ Keeps(PlaceAmong(clusters, b, open, overlap, conflict), clusters)
         /\ Notes(PlaceAmong(clusters, b, open, overlap, conflict), b)
<1> DEFINE compatible == {i \in open : overlap[i] > 0 /\ conflict[i] = 0}
           best == {i \in compatible : \A j \in compatible : overlap[j] <= overlap[i]}
           key(i) == <<-overlap[i], conflict[i]>> \o Signature(clusters[i])
           keys == Table([i \in DOMAIN Ascending(open) |-> key(Ascending(open)[i])])
           target == AlongPlaces(Ascending(open), Sorted(keys))[1]
           disputed == {f \in FieldsOf(b.claims) :
                     FieldConflicts(b.claims, ClaimsOf(clusters[target]), f)} \ {"subject"}
           fits == CHOOSE i \in best : TRUE
           among == [i \in DOMAIN clusters |-> IF i \in best THEN OnlyAlternative(clusters, i, b)[i]
                                               ELSE clusters[i]]
           twice == [NewEvidence(clusters, target, b) EXCEPT ![target].ambiguous = @ \/ disputed # {}]
           placed == PlaceAmong(clusters, b, open, overlap, conflict)
<1>1. placed = CASE Cardinality(best) = 1 -> NewEvidence(clusters, fits, b)
                 [] Cardinality(best) > 1 -> among
                 [] best = {} /\ open = {} -> Append(clusters, NewCluster(b))
                 [] best = {} /\ open # {} /\ overlap[target] > 0 -> twice
                 [] best = {} /\ open # {} /\ overlap[target] = 0 -> OnlyAlternative(clusters, target, b)
  BY DEF PlaceAmong, SortBy
<1>2. best \in SUBSET (DOMAIN clusters) /\ best \subseteq open
  OBVIOUS
<1>3. Cardinality(best) \in Nat /\ (Cardinality(best) = 0 <=> best = {})
  <2> HIDE DEF best
  <2>1. IsFiniteSet(best) /\ Cardinality(best) \in Nat
    BY <1>2, ClusterPlaces
  <2> QED
    BY <2>1, FS_EmptySet
<1>4. open # {} => overlap[target] \in Nat /\ target \in open
  <2> SUFFICES ASSUME open # {} PROVE target \in open
    OBVIOUS
  <2>1. open \in SUBSET Int /\ IsFiniteSet(open)
    BY ClusterPlaces
  <2>2. DOMAIN keys = DOMAIN Ascending(open)
    BY TableIs
  <2> HIDE DEF keys
  <2> QED
    BY <2>1, <2>2, FirstOfSorted
<1>5. /\ NewEvidence(clusters, fits, b) \in Seq(Cluster(B, C))
      /\ best # {} => Grows(NewEvidence(clusters, fits, b), clusters, b, open)
      /\ best # {} => /\ Keeps(NewEvidence(clusters, fits, b), clusters)
                      /\ Notes(NewEvidence(clusters, fits, b), b)
  <2>1. best # {} => fits \in open
    BY <1>2
  <2> HIDE DEF fits, best
  <2>2. best # {} => fits \in DOMAIN clusters
    BY <2>1
  <2> QED
    BY <2>1, <2>2, NewEvidenceType, NewEvidenceGrows, NewEvidenceKeeps, TakenIsNoted
<1>6. /\ among \in Seq(Cluster(B, C)) /\ Grows(among, clusters, b, open)
      /\ Keeps(among, clusters) /\ (best # {} => Notes(among, b))
  <2> HIDE DEF best
  <2>1. Len(clusters) \in Nat /\ DOMAIN clusters = 1 .. Len(clusters)
        /\ \A i \in DOMAIN clusters : clusters[i] \in Cluster(B, C)
    BY SeqTyped
  <2>2. \A i \in DOMAIN clusters : OnlyAlternative(clusters, i, b)[i] \in Cluster(B, C)
    <3> TAKE i \in DOMAIN clusters
    <3>1. OnlyAlternative(clusters, i, b) \in Seq(Cluster(B, C))
      BY OnlyAlternativeType
    <3>2. DOMAIN OnlyAlternative(clusters, i, b) = DOMAIN clusters
      BY DEF OnlyAlternative
    <3> QED
      BY <3>1, <3>2, SeqTyped
  <2>3. among \in [1 .. Len(clusters) -> Cluster(B, C)]
    BY <2>1, <2>2
  <2>4. \A k \in DOMAIN clusters : among[k].bundles = clusters[k].bundles
    <3> TAKE k \in DOMAIN clusters
    <3>1. OnlyAlternative(clusters, k, b)[k].bundles = clusters[k].bundles
      BY OnlyAlternativeGrows
    <3>2. among[k] = OnlyAlternative(clusters, k, b)[k] \/ among[k] = clusters[k]
      OBVIOUS
    <3> HIDE DEF among
    <3> QED
      BY <3>1, <3>2
  <2>5. /\ DOMAIN among = DOMAIN clusters
        /\ \A k \in DOMAIN clusters : IF k \in best THEN among[k] = OnlyAlternative(clusters, k, b)[k]
                                      ELSE among[k] = clusters[k]
    OBVIOUS
  <2> HIDE DEF among
  <2>6. Grows(among, clusters, b, open)
    BY <2>4, <2>5 DEF Grows
  <2>7. Keeps(among, clusters)
    <3> SUFFICES ASSUME NEW k \in DOMAIN clusters PROVE Within(clusters[k], among[k])
      BY <2>5 DEF Keeps
    <3>1. Within(clusters[k], OnlyAlternative(clusters, k, b)[k])
      BY OnlyAlternativeKeeps
    <3> QED
      BY <2>5, <3>1 DEF Within
  <2>8. best # {} => Notes(among, b)
    <3> SUFFICES ASSUME NEW k \in best PROVE Notes(among, b)
      OBVIOUS
    <3>1. k \in DOMAIN clusters
      BY <1>2
    <3>2. b.claims \subseteq among[k].alternatives
      BY <2>5, <3>1, OnlyAlternativeKeeps
    <3> QED
      BY <2>5, <3>1, <3>2 DEF Notes, Noted
  <2> QED
    BY <2>1, <2>3, <2>6, <2>7, <2>8, SeqDef
<1>7. /\ twice \in Seq(Cluster(B, C))
      /\ open # {} => Grows(twice, clusters, b, open)
      /\ open # {} => Keeps(twice, clusters) /\ Notes(twice, b)
  <2> DEFINE more == NewEvidence(clusters, target, b)
             mark(x) == [x EXCEPT !.ambiguous = @ \/ disputed # {}]
             L == Len(more)
  <2> HIDE DEF target, disputed
  <2>1. more \in Seq(Cluster(B, C)) /\ (open # {} => Grows(more, clusters, b, open))
    BY <1>4, NewEvidenceType, NewEvidenceGrows
  <2>0. open # {} => DOMAIN more = DOMAIN clusters /\ Keeps(more, clusters) /\ Takes(more, b)
    BY <1>4, NewEvidenceKeeps
  <2> HIDE DEF more
  <2>2. L \in Nat /\ DOMAIN more = 1 .. L /\ \A i \in DOMAIN more : more[i] \in Cluster(B, C)
    BY <2>1, SeqTyped
  <2>3. \A x \in Cluster(B, C) : /\ mark(x) \in Cluster(B, C) /\ mark(x).bundles = x.bundles
                                 /\ mark(x).alternatives = x.alternatives
    <3> TAKE x \in Cluster(B, C)
    <3>1. (x.ambiguous \/ disputed # {}) \in BOOLEAN
      BY DEF Cluster
    <3> QED
      BY <3>1 DEF Cluster
  <2>4. twice = [more EXCEPT ![target] = mark(more[target])]
    BY DEF more
  <2> HIDE DEF mark, L
  <2>5. /\ twice \in [1 .. L -> Cluster(B, C)]
        /\ \A k \in 1 .. L : /\ twice[k].bundles = more[k].bundles
                             /\ twice[k].alternatives = more[k].alternatives
    <3> HIDE DEF twice
    <3>1. [more EXCEPT ![target] = mark(more[target])]
            = [i \in 1 .. L |-> IF i = target THEN mark(more[i]) ELSE more[i]]
      BY <2>2
    <3> QED
      BY <2>2, <2>3, <2>4, <3>1
  <2> HIDE DEF twice
  <2>6. open # {} => Grows(twice, clusters, b, open)
    BY <2>1, <2>2, <2>5 DEF Grows
  <2>7. open # {} => Keeps(twice, clusters) /\ Notes(twice, b)
    <3>1. /\ DOMAIN twice = DOMAIN more
          /\ \A k \in DOMAIN more : /\ ClaimsOf(twice[k]) = ClaimsOf(more[k])
                                    /\ twice[k].alternatives = more[k].alternatives
      BY <2>2, <2>5 DEF ClaimsOf
    <3> QED
      BY <2>0, <3>1 DEF Keeps, Within, Takes, Notes, Taken, Noted
  <2> QED
    BY <2>2, <2>5, <2>6, <2>7, SeqDef
<1>8. /\ Append(clusters, NewCluster(b)) \in Seq(Cluster(B, C))
      /\ Grows(Append(clusters, NewCluster(b)), clusters, b, open)
      /\ Keeps(Append(clusters, NewCluster(b)), clusters)
      /\ Notes(Append(clusters, NewCluster(b)), b)
  <2>1. IsSeq(clusters)
    BY SeqTyped
  <2> QED
    BY <2>1, AppendedType, AppendedGrows, AppendedKeeps, TakenIsNoted
<1>9. /\ OnlyAlternative(clusters, target, b) \in Seq(Cluster(B, C))
      /\ Grows(OnlyAlternative(clusters, target, b), clusters, b, open)
      /\ open # {} => /\ Keeps(OnlyAlternative(clusters, target, b), clusters)
                      /\ Notes(OnlyAlternative(clusters, target, b), b)
  <2> HIDE DEF target
  <2>1. open # {} => target \in DOMAIN clusters
    BY <1>4
  <2> QED
    BY <2>1, OnlyAlternativeType, OnlyAlternativeGrows, OnlyAlternativeKeeps
<1> HIDE DEF best, target, twice, among, fits
<1>10. \/ Cardinality(best) = 1
       \/ Cardinality(best) > 1
       \/ best = {} /\ open = {}
       \/ best = {} /\ open # {} /\ overlap[target] > 0
       \/ best = {} /\ open # {} /\ overlap[target] = 0
  BY <1>3, <1>4
<1> HIDE DEF placed
<1>11. /\ placed \in Seq(Cluster(B, C)) /\ Grows(placed, clusters, b, open)
       /\ Keeps(placed, clusters) /\ Notes(placed, b)
  <2>1. CASE Cardinality(best) = 1
    <3>1. placed = NewEvidence(clusters, fits, b) /\ best # {}
      BY <1>1, <1>3, <2>1
    <3> QED
      BY <3>1, <1>5
  <2>2. CASE Cardinality(best) > 1
    <3>1. placed = among /\ best # {}
      BY <1>1, <1>3, <2>2
    <3> QED
      BY <3>1, <1>6
  <2>3. CASE best = {} /\ open = {}
    <3>1. placed = Append(clusters, NewCluster(b))
      BY <1>1, <1>3, <2>3
    <3> QED
      BY <3>1, <1>8
  <2>4. CASE best = {} /\ open # {} /\ overlap[target] > 0
    <3>1. placed = twice
      BY <1>1, <1>3, <1>4, <2>4
    <3> QED
      BY <2>4, <3>1, <1>7
  <2>5. CASE best = {} /\ open # {} /\ overlap[target] = 0
    <3>1. placed = OnlyAlternative(clusters, target, b)
      BY <1>1, <1>3, <1>4, <2>5
    <3> QED
      BY <2>5, <3>1, <1>9
  <2> QED
    BY <1>10, <2>1, <2>2, <2>3, <2>4, <2>5
<1> QED
  BY <1>11 DEF placed

\* The claims of a bundle.
LEMMA BundleClaims ==
  ASSUME NEW B, NEW C, Evidenced(B, C), NEW b \in B
  PROVE  b.claims \subseteq C /\ IsFiniteSet(b.claims)
BY FS_Subset DEF Evidenced, IsBundle

\* Credentials are clusters.
LEMMA CredentialsAreClusters ==
  ASSUME NEW B, NEW C, NEW clusters \in Seq(Credential(B, C))
  PROVE  clusters \in Seq(Cluster(B, C))
<1>1. IsSeq(clusters) /\ ToSet(clusters) \subseteq Cluster(B, C)
  BY SeqTyped DEF Credential
<1> QED
  BY <1>1, SeqIn

\* _place leaves credentials when it places a degree: it does not join those it
\* is distinguished from, ...
LEMMA PlaceDegreeType ==
  ASSUME NEW B, NEW C, Evidenced(B, C), NEW clusters \in Seq(Credential(B, C)), NEW b \in B
  PROVE  /\ PlaceDegree(clusters, b) \in Seq(Credential(B, C))
         /\ Keeps(PlaceDegree(clusters, b), clusters) /\ Notes(PlaceDegree(clusters, b), b)
<1> DEFINE open == {i \in DOMAIN clusters : ~Distinguished(b, clusters[i])}
           overlap == [i \in DOMAIN clusters |-> Overlap(b.claims, ClaimsOf(clusters[i]))]
           conflict == [i \in DOMAIN clusters |-> Conflict(b.claims, ClaimsOf(clusters[i]))]
<1>1. PlaceDegree(clusters, b) = PlaceAmong(clusters, b, open, overlap, conflict)
  BY TableIs DEF PlaceDegree
<1>2. overlap \in [DOMAIN clusters -> Nat]
  BY BundleClaims, OverlapType
<1>3. open \in SUBSET (DOMAIN clusters)
  OBVIOUS
<1>4. \A k \in open : \A i \in DOMAIN clusters[k].bundles : ~ListedApart(b, clusters[k].bundles[i])
  <2> TAKE k \in open
  <2> TAKE i \in DOMAIN clusters[k].bundles
  <2>1. ~Distinguished(b, clusters[k])
    OBVIOUS
  <2> QED
    BY <2>1 DEF Distinguished, ListedApart
<1>5. clusters \in Seq(Cluster(B, C))
  BY CredentialsAreClusters
<1> HIDE DEF open, overlap, conflict
<1>6. /\ PlaceDegree(clusters, b) \in Seq(Cluster(B, C))
      /\ Grows(PlaceDegree(clusters, b), clusters, b, open)
      /\ Keeps(PlaceDegree(clusters, b), clusters) /\ Notes(PlaceDegree(clusters, b), b)
  BY <1>1, <1>2, <1>3, <1>5, PlaceAmongType
<1> QED
  BY <1>3, <1>4, <1>6, GrownApart

\* What there is while the other parts are placed.
Placement(B, C) == [clusters : Seq(Credential(B, C)), orphans : SUBSET C]

\* What has been placed: as evidence, as an alternative, or as a part left over.
Handled(state, c) == Noted(state.clusters, c) \/ c \in state.orphans

\* ... and what is said without a degree, which may be left out; ...
LEMMA PlaceOrphanType ==
  ASSUME NEW B, NEW C, Evidenced(B, C), NEW state \in Placement(B, C),
         NEW b \in B, Degrees(b) = {}, NEW identities
  PROVE  /\ PlaceOrphan(state, b, identities) \in Placement(B, C)
         /\ \A c : Handled(state, c) \/ c \in b.claims => Handled(PlaceOrphan(state, b, identities), c)
<1>1. state.clusters \in Seq(Credential(B, C)) /\ state.orphans \in SUBSET C
  BY DEF Placement
<1>2. <<NewCluster(b)>> \in Seq(Credential(B, C))
  <2>1. NewCluster(b) \in Cluster(B, C)
    BY NewClusterType
  <2>2. KeptApart(NewCluster(b))
    <3>1. \A i \in DOMAIN <<b>> : <<b>>[i] = b
      OBVIOUS
    <3>2. NewCluster(b).bundles = <<b>>
      BY DEF NewCluster
    <3> QED
      BY <3>1, <3>2 DEF KeptApart, ListedApart
  <2> QED
    BY <2>1, <2>2 DEF Credential
<1>3. \A i \in DOMAIN state.clusters : NewEvidence(state.clusters, i, b) \in Seq(Credential(B, C))
  <2> TAKE i \in DOMAIN state.clusters
  <2> DEFINE open == DOMAIN state.clusters
  <2>1. state.clusters \in Seq(Cluster(B, C))
    BY <1>1, CredentialsAreClusters
  <2>2. /\ NewEvidence(state.clusters, i, b) \in Seq(Cluster(B, C))
        /\ Grows(NewEvidence(state.clusters, i, b), state.clusters, b, open)
    BY <2>1, NewEvidenceType, NewEvidenceGrows
  <2>3. \A other : ~ListedApart(b, other)
    BY DEF ListedApart
  <2> QED
    BY <1>1, <2>2, <2>3, GrownApart
<1>4. state.orphans \cup b.claims \in SUBSET C
  BY <1>1, BundleClaims
<1>5. \/ \E i \in DOMAIN state.clusters :
           PlaceOrphan(state, b, identities)
             = [state EXCEPT !.clusters = NewEvidence(state.clusters, i, b)]
      \/ /\ state.clusters = << >>
         /\ PlaceOrphan(state, b, identities) = [state EXCEPT !.clusters = <<NewCluster(b)>>]
      \/ PlaceOrphan(state, b, identities) = [state EXCEPT !.orphans = state.orphans \cup b.claims]
  <2> DEFINE fits(i) == /\ Conflict(b.claims, ClaimsOf(state.clusters[i])) = 0
                        /\ \/ Overlap(b.claims, ClaimsOf(state.clusters[i])) > 0
                           \/ SharesQuote(b, state.clusters[i])
             compatible == {i \in DOMAIN state.clusters : fits(i)}
             new == PlaceOrphan(state, b, identities)
  <2>1. new = CASE Cardinality(compatible) = 1 ->
                     [state EXCEPT !.clusters = NewEvidence(@, CHOOSE i \in compatible : TRUE, b)]
                [] state.clusters = << >> /\ ReliableInstitution(b, identities) ->
                     [state EXCEPT !.clusters = <<NewCluster(b)>>]
                [] OTHER -> [state EXCEPT !.orphans = @ \cup b.claims]
    BY DEF PlaceOrphan
  <2>2. IsFiniteSet(compatible) /\ compatible \subseteq DOMAIN state.clusters
    BY <1>1, ClusterPlaces
  <2> HIDE DEF compatible, new
  <2>3. Cardinality(compatible) = 1 => compatible # {}
    BY FS_EmptySet
  <2>4. \/ \E i \in compatible : new = [state EXCEPT !.clusters = NewEvidence(state.clusters, i, b)]
        \/ state.clusters = << >> /\ new = [state EXCEPT !.clusters = <<NewCluster(b)>>]
        \/ new = [state EXCEPT !.orphans = @ \cup b.claims]
    <3>1. CASE Cardinality(compatible) = 1
      <4> DEFINE i == CHOOSE i \in compatible : TRUE
      <4>1. i \in compatible
        BY <2>3, <3>1
      <4>2. \/ new = [state EXCEPT !.clusters = NewEvidence(@, i, b)]
            \/ state.clusters = << >> /\ new = [state EXCEPT !.clusters = <<NewCluster(b)>>]
            \/ new = [state EXCEPT !.orphans = @ \cup b.claims]
        BY <2>1
      <4> HIDE DEF i
      <4> QED
        BY <4>1, <4>2
    <3>2. CASE Cardinality(compatible) # 1
      BY <2>1, <3>2
    <3> QED
      BY <3>1, <3>2
  <2> QED
    BY <2>2, <2>4 DEF new
<1> DEFINE new == PlaceOrphan(state, b, identities)
<1>6. new \in Placement(B, C)
  BY <1>2, <1>3, <1>4, <1>5 DEF Placement
<1>7. ASSUME NEW c, Handled(state, c) \/ c \in b.claims
      PROVE  Handled(new, c)
  <2> HIDE DEF new
  <2>1. CASE \E i \in DOMAIN state.clusters :
               new = [state EXCEPT !.clusters = NewEvidence(state.clusters, i, b)]
    <3>1. PICK i \in DOMAIN state.clusters :
            new = [state EXCEPT !.clusters = NewEvidence(state.clusters, i, b)]
      BY <2>1
    <3>2. state.clusters \in Seq(Cluster(B, C))
      BY <1>1, CredentialsAreClusters
    <3> DEFINE more == NewEvidence(state.clusters, i, b)
    <3>3. Keeps(more, state.clusters) /\ Notes(more, b)
      BY <3>2, NewEvidenceKeeps, TakenIsNoted
    <3>4. new.clusters = more /\ new.orphans = state.orphans
      BY <3>1 DEF Placement
    <3> HIDE DEF more
    <3> QED
      BY <1>7, <3>3, <3>4, KeptStays DEF Handled, Notes
  <2>2. CASE state.clusters = << >> /\ new = [state EXCEPT !.clusters = <<NewCluster(b)>>]
    <3> DEFINE more == Append(state.clusters, NewCluster(b))
    <3>1. new.clusters = <<NewCluster(b)>> /\ new.orphans = state.orphans
      BY <2>2 DEF Placement
    <3>2. more = <<NewCluster(b)>>
      BY <2>2
    <3>3. Keeps(more, state.clusters) /\ Notes(more, b)
      BY <2>2, NoneSeq, AppendedKeeps, TakenIsNoted
    <3> HIDE DEF more
    <3> QED
      BY <1>7, <3>1, <3>2, <3>3, KeptStays DEF Handled, Notes
  <2>3. CASE new = [state EXCEPT !.orphans = state.orphans \cup b.claims]
    <3>1. new.clusters = state.clusters /\ new.orphans = state.orphans \cup b.claims
      BY <2>3 DEF Placement
    <3> QED
      BY <1>7, <3>1 DEF Handled
  <2> QED
    BY <1>5, <2>1, <2>2, <2>3 DEF new
<1> QED
  BY <1>6, <1>7

\* ... and _employment_clusters when it places a role.
LEMMA PlaceRoleType ==
  ASSUME NEW B, NEW C, NEW clusters \in Seq(Cluster(B, C)), NEW b \in B
  PROVE  /\ PlaceRole(clusters, b) \in Seq(Cluster(B, C))
         /\ Keeps(PlaceRole(clusters, b), clusters) /\ Takes(PlaceRole(clusters, b), b)
<1> DEFINE fits(i) == /\ IsHistorical(b.claims) = IsHistorical(ClaimsOf(clusters[i]))
                      /\ Overlap(b.claims, ClaimsOf(clusters[i])) > 0
                      /\ Conflict(b.claims, ClaimsOf(clusters[i])) = 0
           key(i) == <<-Overlap(b.claims, ClaimsOf(clusters[i]))>> \o Signature(clusters[i])
           S == {i \in DOMAIN clusters : fits(i)}
           keys == Table([k \in DOMAIN Ascending(S) |-> key(Ascending(S)[k])])
           compatible == AlongPlaces(Ascending(S), Sorted(keys))
<1>1. PlaceRole(clusters, b) = IF compatible = << >> THEN Append(clusters, NewCluster(b))
                               ELSE NewEvidence(clusters, compatible[1], b)
  BY DEF PlaceRole, SortBy
<1>2. IsSeq(clusters)
  BY SeqTyped
<1>3. DOMAIN keys = DOMAIN Ascending(S)
  BY TableIs
<1> HIDE DEF keys
<1>4. S \in SUBSET Int /\ IsFiniteSet(S) /\ S \subseteq DOMAIN clusters
  <2>1. S \subseteq DOMAIN clusters
    OBVIOUS
  <2> HIDE DEF S
  <2> QED
    BY <2>1, PlacesFinite
<1> HIDE DEF S
<1>5. compatible # << >> => compatible[1] \in DOMAIN clusters
  <2>1. IsSeq(Ascending(S)) /\ ToSet(Ascending(S)) \subseteq S
    <3>1. Ascending(S) \in Seq(S)
      BY <1>4, AscendingType
    <3> QED
      BY <3>1, SeqTyped
  <2>2. /\ IsSeq(compatible) /\ DOMAIN compatible = DOMAIN Ascending(S)
        /\ \A k \in DOMAIN Ascending(S) : compatible[k] \in ToSet(Ascending(S))
    BY <1>3, <2>1, SortBySeq
  <2> HIDE DEF compatible
  <2>3. compatible # << >> => 1 \in DOMAIN compatible
    BY <2>2, NotEmpty
  <2> QED
    BY <1>4, <2>1, <2>2, <2>3
<1> HIDE DEF compatible
<1>6. CASE compatible = << >>
  BY <1>1, <1>2, <1>6, AppendedType, AppendedKeeps
<1>7. CASE compatible # << >>
  BY <1>1, <1>5, <1>7, NewEvidenceType, NewEvidenceKeeps
<1> QED
  BY <1>6, <1>7

\* Credentials are made of degrees one by one.
LEMMA DegreesPlaced ==
  ASSUME NEW B, NEW C, Evidenced(B, C), NEW seq \in Seq(B)
  PROVE  /\ FoldLeft(PlaceDegree, << >>, seq) \in Seq(Credential(B, C))
         /\ \A i \in DOMAIN seq : Notes(FoldLeft(PlaceDegree, << >>, seq), seq[i])
<1> DEFINE L == Len(seq)
           V == Seq(Credential(B, C))
           base == << >>
           step == [p \in (1 .. L) \X V |-> PlaceDegree(p[2], seq[p[1]])]
           Joins(D) == D = [T \in SUBSET DOMAIN seq |->
                              IF T = {} THEN base
                              ELSE PlaceDegree(D[T \ {Max(T)}], seq[Max(T)])]
           D == CHOOSE F : Joins(F)
<1>0. L \in Nat /\ DOMAIN seq = 1 .. L /\ \A n \in 1 .. L : seq[n] \in B
  BY SeqTyped
<1>1. FoldLeft(PlaceDegree, << >>, seq) = D[1 .. L]
  BY <1>0 DEF FoldLeft, MapThenFoldSet
<1>2. base \in V
  OBVIOUS
<1>3. \A n \in 1 .. L, v \in V : step[<<n, v>>] = PlaceDegree(v, seq[n]) /\ PlaceDegree(v, seq[n]) \in V
  <2> TAKE n \in 1 .. L, v \in V
  <2>1. seq[n] \in B
    BY <1>0
  <2> QED
    BY <2>1, PlaceDegreeType
<1>4. step \in Steps(L, V)
  <2> HIDE DEF V
  <2> QED
    BY <1>3 DEF Steps
<1>5. \A T \in SUBSET (1 .. L) : T # {} => Max(T) \in 1 .. L
  <2> HIDE DEF L
  <2> QED
    BY <1>0, LastPlace
<1>6. Joins(D)
  <2> HIDE DEF L, V, step, base
  <2>1. PICK F \in [SUBSET (1 .. L) -> V] : LeftFolds(F, L, step, base)
    BY <1>0, <1>2, <1>4, LeftFoldExists
  <2>2. \A T \in SUBSET (1 .. L) : F[T \ {Max(T)}] \in V
    OBVIOUS
  <2>3. \A T \in SUBSET (1 .. L) : T # {} =>
          step[<<Max(T), F[T \ {Max(T)}]>>] = PlaceDegree(F[T \ {Max(T)}], seq[Max(T)])
    BY <1>3, <1>5, <2>2
  <2>4. Joins(F)
    BY <1>0, <2>1, <2>3 DEF LeftFolds
  <2> HIDE DEF Joins
  <2> QED
    BY <2>4
<1>7. TakesSteps(D, L, V, step, base)
  <2> HIDE DEF V, L, step, base, D
  <2> QED
    BY <1>0, <1>3, <1>5, <1>6 DEF TakesSteps
<1>8. PICK at \in [0 .. L -> V] :
        at[0] = base /\ at[L] = D[1 .. L] /\ \A n \in 1 .. L : at[n] = step[<<n, at[n - 1]>>]
  <2> HIDE DEF V, L, step, base, D, Joins
  <2>1. \E at : Walks(at, D, L, V, step, base)
    BY <1>0, <1>2, <1>4, <1>7, FoldSteps
  <2> QED
    BY <2>1 DEF Walks
<1> HIDE DEF D
<1> DEFINE held == [n \in 0 .. L |-> {c \in C : Noted(at[n], c)}]
           brought == [n \in 1 .. L |-> seq[n].claims]
<1>9. \A n \in 1 .. L : n \in 0 .. L /\ n - 1 \in 0 .. L /\ brought[n] \subseteq C
  BY <1>0 DEF Evidenced, IsBundle
<1>10. L \in 0 .. L /\ 0 \in 0 .. L
  BY <1>0
<1>11. D[1 .. L] \in V
  <2> HIDE DEF V, L
  <2> QED
    BY <1>8, <1>10
<1>12. \A n \in 1 .. L : held[n - 1] \cup brought[n] \subseteq held[n]
  <2> TAKE n \in 1 .. L
  <2>1. at[n - 1] \in V /\ at[n] = PlaceDegree(at[n - 1], seq[n])
    <3> HIDE DEF V, L, step
    <3> QED
      BY <1>3, <1>8, <1>9
  <2>2. Keeps(at[n], at[n - 1]) /\ Notes(at[n], seq[n])
    BY <1>0, <2>1, PlaceDegreeType
  <2>3. \A m \in 0 .. L : held[m] = {c \in C : Noted(at[m], c)}
    OBVIOUS
  <2>4. brought[n] = seq[n].claims
    OBVIOUS
  <2> HIDE DEF held, brought, L, V
  <2> QED
    BY <1>9, <2>1, <2>2, <2>3, <2>4, KeptStays DEF Notes
<1>13. held[0] \subseteq held[L] /\ \A n \in 1 .. L : brought[n] \subseteq held[L]
  <2> HIDE DEF held, brought, L
  <2> QED
    BY <1>0, <1>12, Gathered
<1>14. \A n \in 1 .. L : \A c \in seq[n].claims : Noted(D[1 .. L], c)
  <2>1. held[L] = {c \in C : Noted(at[L], c)} /\ \A n \in 1 .. L : brought[n] = seq[n].claims
    BY <1>10
  <2> HIDE DEF held, brought, L
  <2> QED
    BY <1>8, <1>13, <2>1
<1> QED
  BY <1>0, <1>1, <1>11, <1>14 DEF Notes

\* The other parts join them.
LEMMA OrphansPlaced ==
  ASSUME NEW B, NEW C, Evidenced(B, C), NEW seq \in Seq({b \in B : Degrees(b) = {}}), NEW identities,
         NEW start \in Placement(B, C)
  PROVE  /\ PlaceOrphans(start, seq, identities) \in Placement(B, C)
         /\ \A c \in C : Handled(start, c) => Handled(PlaceOrphans(start, seq, identities), c)
         /\ \A i \in DOMAIN seq : \A c \in seq[i].claims : Handled(PlaceOrphans(start, seq, identities), c)
<1> DEFINE L == Len(seq)
           V == Placement(B, C)
           base == start
           step == [p \in (1 .. L) \X V |-> PlaceOrphan(p[2], seq[p[1]], identities)]
           Joins(D) == D = [T \in SUBSET DOMAIN seq |->
                              IF T = {} THEN base
                              ELSE PlaceOrphan(D[T \ {Max(T)}], seq[Max(T)], identities)]
           D == CHOOSE F : Joins(F)
<1>0. L \in Nat /\ DOMAIN seq = 1 .. L /\ \A n \in 1 .. L : seq[n] \in B /\ Degrees(seq[n]) = {}
  BY SeqTyped
<1>1. PlaceOrphans(start, seq, identities) = D[1 .. L]
  BY <1>0 DEF PlaceOrphans, FoldLeft, MapThenFoldSet
<1>2. base \in V
  OBVIOUS
<1>3. \A n \in 1 .. L, v \in V : step[<<n, v>>] = PlaceOrphan(v, seq[n], identities) /\ PlaceOrphan(v, seq[n], identities) \in V
  <2> TAKE n \in 1 .. L, v \in V
  <2>1. seq[n] \in B /\ Degrees(seq[n]) = {}
    BY <1>0
  <2> QED
    BY <2>1, PlaceOrphanType
<1>4. step \in Steps(L, V)
  <2> HIDE DEF V
  <2> QED
    BY <1>3 DEF Steps
<1>5. \A T \in SUBSET (1 .. L) : T # {} => Max(T) \in 1 .. L
  <2> HIDE DEF L
  <2> QED
    BY <1>0, LastPlace
<1>6. Joins(D)
  <2> HIDE DEF L, V, step, base
  <2>1. PICK F \in [SUBSET (1 .. L) -> V] : LeftFolds(F, L, step, base)
    BY <1>0, <1>2, <1>4, LeftFoldExists
  <2>2. \A T \in SUBSET (1 .. L) : F[T \ {Max(T)}] \in V
    OBVIOUS
  <2>3. \A T \in SUBSET (1 .. L) : T # {} =>
          step[<<Max(T), F[T \ {Max(T)}]>>] = PlaceOrphan(F[T \ {Max(T)}], seq[Max(T)], identities)
    BY <1>3, <1>5, <2>2
  <2>4. Joins(F)
    BY <1>0, <2>1, <2>3 DEF LeftFolds
  <2> HIDE DEF Joins
  <2> QED
    BY <2>4
<1>7. TakesSteps(D, L, V, step, base)
  <2> HIDE DEF V, L, step, base, D
  <2> QED
    BY <1>0, <1>3, <1>5, <1>6 DEF TakesSteps
<1>8. PICK at \in [0 .. L -> V] :
        at[0] = base /\ at[L] = D[1 .. L] /\ \A n \in 1 .. L : at[n] = step[<<n, at[n - 1]>>]
  <2> HIDE DEF V, L, step, base, D, Joins
  <2>1. \E at : Walks(at, D, L, V, step, base)
    BY <1>0, <1>2, <1>4, <1>7, FoldSteps
  <2> QED
    BY <2>1 DEF Walks
<1> HIDE DEF D
<1> DEFINE held == [n \in 0 .. L |-> {c \in C : Handled(at[n], c)}]
           brought == [n \in 1 .. L |-> seq[n].claims]
<1>9. \A n \in 1 .. L : n \in 0 .. L /\ n - 1 \in 0 .. L /\ brought[n] \subseteq C
  BY <1>0 DEF Evidenced, IsBundle
<1>10. L \in 0 .. L /\ 0 \in 0 .. L
  BY <1>0
<1>11. D[1 .. L] \in V
  <2> HIDE DEF V, L
  <2> QED
    BY <1>8, <1>10
<1>12. \A n \in 1 .. L : held[n - 1] \cup brought[n] \subseteq held[n]
  <2> TAKE n \in 1 .. L
  <2>1. at[n - 1] \in V /\ at[n] = PlaceOrphan(at[n - 1], seq[n], identities)
    <3> HIDE DEF V, L, step
    <3> QED
      BY <1>3, <1>8, <1>9
  <2>2. \A c : Handled(at[n - 1], c) \/ c \in seq[n].claims => Handled(at[n], c)
    BY <1>0, <2>1, PlaceOrphanType
  <2>3. \A m \in 0 .. L : held[m] = {c \in C : Handled(at[m], c)}
    OBVIOUS
  <2>4. brought[n] = seq[n].claims
    OBVIOUS
  <2> HIDE DEF held, brought, L, V
  <2> QED
    BY <1>9, <2>1, <2>2, <2>3, <2>4
<1>13. held[0] \subseteq held[L] /\ \A n \in 1 .. L : brought[n] \subseteq held[L]
  <2> HIDE DEF held, brought, L
  <2> QED
    BY <1>0, <1>12, Gathered
<1>14. \A n \in 1 .. L : \A c \in seq[n].claims : Handled(D[1 .. L], c)
  <2>1. held[L] = {c \in C : Handled(at[L], c)} /\ \A n \in 1 .. L : brought[n] = seq[n].claims
    BY <1>10
  <2> HIDE DEF held, brought, L
  <2> QED
    BY <1>8, <1>13, <2>1
<1>15. \A c \in C : Handled(start, c) => Handled(D[1 .. L], c)
  <2>1. held[0] = {c \in C : Handled(start, c)} /\ held[L] = {c \in C : Handled(at[L], c)}
    BY <1>8, <1>10
  <2> HIDE DEF held, brought, L
  <2> QED
    BY <1>8, <1>13, <2>1
<1> QED
  BY <1>0, <1>1, <1>11, <1>14, <1>15

\* Roles likewise.
LEMMA RolesPlaced ==
  ASSUME NEW B, NEW C, Evidenced(B, C), NEW seq \in Seq(B)
  PROVE  /\ FoldLeft(PlaceRole, << >>, seq) \in Seq(Cluster(B, C))
         /\ \A i \in DOMAIN seq : Takes(FoldLeft(PlaceRole, << >>, seq), seq[i])
<1> DEFINE L == Len(seq)
           V == Seq(Cluster(B, C))
           base == << >>
           step == [p \in (1 .. L) \X V |-> PlaceRole(p[2], seq[p[1]])]
           Joins(D) == D = [T \in SUBSET DOMAIN seq |->
                              IF T = {} THEN base
                              ELSE PlaceRole(D[T \ {Max(T)}], seq[Max(T)])]
           D == CHOOSE F : Joins(F)
<1>0. L \in Nat /\ DOMAIN seq = 1 .. L /\ \A n \in 1 .. L : seq[n] \in B
  BY SeqTyped
<1>1. FoldLeft(PlaceRole, << >>, seq) = D[1 .. L]
  BY <1>0 DEF FoldLeft, MapThenFoldSet
<1>2. base \in V
  OBVIOUS
<1>3. \A n \in 1 .. L, v \in V : step[<<n, v>>] = PlaceRole(v, seq[n]) /\ PlaceRole(v, seq[n]) \in V
  <2> TAKE n \in 1 .. L, v \in V
  <2>1. seq[n] \in B
    BY <1>0
  <2> QED
    BY <2>1, PlaceRoleType
<1>4. step \in Steps(L, V)
  <2> HIDE DEF V
  <2> QED
    BY <1>3 DEF Steps
<1>5. \A T \in SUBSET (1 .. L) : T # {} => Max(T) \in 1 .. L
  <2> HIDE DEF L
  <2> QED
    BY <1>0, LastPlace
<1>6. Joins(D)
  <2> HIDE DEF L, V, step, base
  <2>1. PICK F \in [SUBSET (1 .. L) -> V] : LeftFolds(F, L, step, base)
    BY <1>0, <1>2, <1>4, LeftFoldExists
  <2>2. \A T \in SUBSET (1 .. L) : F[T \ {Max(T)}] \in V
    OBVIOUS
  <2>3. \A T \in SUBSET (1 .. L) : T # {} =>
          step[<<Max(T), F[T \ {Max(T)}]>>] = PlaceRole(F[T \ {Max(T)}], seq[Max(T)])
    BY <1>3, <1>5, <2>2
  <2>4. Joins(F)
    BY <1>0, <2>1, <2>3 DEF LeftFolds
  <2> HIDE DEF Joins
  <2> QED
    BY <2>4
<1>7. TakesSteps(D, L, V, step, base)
  <2> HIDE DEF V, L, step, base, D
  <2> QED
    BY <1>0, <1>3, <1>5, <1>6 DEF TakesSteps
<1>8. PICK at \in [0 .. L -> V] :
        at[0] = base /\ at[L] = D[1 .. L] /\ \A n \in 1 .. L : at[n] = step[<<n, at[n - 1]>>]
  <2> HIDE DEF V, L, step, base, D, Joins
  <2>1. \E at : Walks(at, D, L, V, step, base)
    BY <1>0, <1>2, <1>4, <1>7, FoldSteps
  <2> QED
    BY <2>1 DEF Walks
<1> HIDE DEF D
<1> DEFINE held == [n \in 0 .. L |-> {c \in C : Taken(at[n], c)}]
           brought == [n \in 1 .. L |-> seq[n].claims]
<1>9. \A n \in 1 .. L : n \in 0 .. L /\ n - 1 \in 0 .. L /\ brought[n] \subseteq C
  BY <1>0 DEF Evidenced, IsBundle
<1>10. L \in 0 .. L /\ 0 \in 0 .. L
  BY <1>0
<1>11. D[1 .. L] \in V
  <2> HIDE DEF V, L
  <2> QED
    BY <1>8, <1>10
<1>12. \A n \in 1 .. L : held[n - 1] \cup brought[n] \subseteq held[n]
  <2> TAKE n \in 1 .. L
  <2>1. at[n - 1] \in V /\ at[n] = PlaceRole(at[n - 1], seq[n])
    <3> HIDE DEF V, L, step
    <3> QED
      BY <1>3, <1>8, <1>9
  <2>2. Keeps(at[n], at[n - 1]) /\ Takes(at[n], seq[n])
    BY <1>0, <2>1, PlaceRoleType
  <2>3. \A m \in 0 .. L : held[m] = {c \in C : Taken(at[m], c)}
    OBVIOUS
  <2>4. brought[n] = seq[n].claims
    OBVIOUS
  <2> HIDE DEF held, brought, L, V
  <2> QED
    BY <1>9, <2>1, <2>2, <2>3, <2>4, KeptStays DEF Takes
<1>13. held[0] \subseteq held[L] /\ \A n \in 1 .. L : brought[n] \subseteq held[L]
  <2> HIDE DEF held, brought, L
  <2> QED
    BY <1>0, <1>12, Gathered
<1>14. \A n \in 1 .. L : \A c \in seq[n].claims : Taken(D[1 .. L], c)
  <2>1. held[L] = {c \in C : Taken(at[L], c)} /\ \A n \in 1 .. L : brought[n] = seq[n].claims
    BY <1>10
  <2> HIDE DEF held, brought, L
  <2> QED
    BY <1>8, <1>13, <2>1
<1> QED
  BY <1>0, <1>1, <1>11, <1>14 DEF Takes

\* Credentials are clusters of the bundles, and what is left out is of their claims;
\* every claim is on a credential or left out.
LEMMA CredentialsType ==
  ASSUME NEW B, NEW C, Evidenced(B, C), NEW degrees, NEW orphans, NEW identities,
         IsSeq(degrees), ToSet(degrees) \subseteq B,
         IsSeq(orphans), ToSet(orphans) \subseteq {b \in B : Degrees(b) = {}}
  PROVE  /\ Credentials(degrees, orphans, identities) \in Placement(B, C)
         /\ \A b \in ToSet(degrees) \cup ToSet(orphans) : \A c \in b.claims :
              Handled(Credentials(degrees, orphans, identities), c)
<1> DEFINE strong(b) == BundleOrder(b, identities)
           institution(b) ==
             <<IF Of(b.claims, "university_name") = {} THEN 1 ELSE 0>> \o BundleOrder(b, identities)
           k1 == Table([i \in DOMAIN degrees |-> strong(degrees[i])])
           k2 == Table([i \in DOMAIN orphans |-> institution(orphans[i])])
           s1 == AlongPlaces(degrees, Sorted(k1))
           s2 == AlongPlaces(orphans, Sorted(k2))
           start == [clusters |-> FoldLeft(PlaceDegree, << >>, s1), orphans |-> {}]
<1>1. Credentials(degrees, orphans, identities)
        = PlaceOrphans(start, s2, identities)
  BY DEF Credentials, SortBy
<1>2. DOMAIN k1 = DOMAIN degrees /\ DOMAIN k2 = DOMAIN orphans
  BY TableIs
<1> HIDE DEF k1, k2
<1>3. ASSUME NEW E, NEW s, IsSeq(s), ToSet(s) \subseteq E, NEW k, DOMAIN k = DOMAIN s
      PROVE  /\ AlongPlaces(s, Sorted(k)) \in Seq(E)
             /\ \A b \in ToSet(s) : \E i \in DOMAIN AlongPlaces(s, Sorted(k)) : b = AlongPlaces(s, Sorted(k))[i]
  <2> DEFINE t == AlongPlaces(s, Sorted(k))
  <2>1. /\ IsSeq(t) /\ DOMAIN t = DOMAIN s /\ \A i \in DOMAIN s : t[i] \in ToSet(s)
        /\ ToSet(s) \subseteq ToSet(t)
    BY <1>3, SortBySeq
  <2>2. ToSet(t) \subseteq E
    BY <1>3, <2>1 DEF ToSet
  <2> HIDE DEF t
  <2>3. t \in Seq(E)
    BY <2>1, <2>2, SeqIn
  <2>4. \A b \in ToSet(s) : \E i \in DOMAIN t : b = t[i]
    BY <2>1 DEF ToSet
  <2> QED
    BY <2>3, <2>4 DEF t
<1>4. /\ s1 \in Seq(B) /\ s2 \in Seq({b \in B : Degrees(b) = {}})
      /\ \A b \in ToSet(degrees) : \E i \in DOMAIN s1 : b = s1[i]
      /\ \A b \in ToSet(orphans) : \E i \in DOMAIN s2 : b = s2[i]
  <2> DEFINE O == {b \in B : Degrees(b) = {}}
  <2>1. ToSet(orphans) \subseteq O
    OBVIOUS
  <2> HIDE DEF O
  <2>2. s1 \in Seq(B) /\ s2 \in Seq(O)
    BY <1>2, <1>3, <2>1
  <2>3. \A b \in ToSet(degrees) : \E i \in DOMAIN s1 : b = s1[i]
    <3>1. ToSet(degrees) \subseteq B /\ IsSeq(degrees) /\ DOMAIN k1 = DOMAIN degrees
      BY <1>2
    <3>2. /\ AlongPlaces(degrees, Sorted(k1)) \in Seq(B)
          /\ \A b \in ToSet(degrees) : \E i \in DOMAIN AlongPlaces(degrees, Sorted(k1)) :
               b = AlongPlaces(degrees, Sorted(k1))[i]
      BY <1>3, <3>1
    <3> QED
      BY <3>2
  <2>4. \A b \in ToSet(orphans) : \E i \in DOMAIN s2 : b = s2[i]
    BY <1>2, <1>3, <2>1
  <2> HIDE DEF s1, s2
  <2> QED
    BY <2>2, <2>3, <2>4 DEF O
<1> HIDE DEF s1, s2
<1>5. start \in Placement(B, C) /\ \A i \in DOMAIN s1 : \A c \in s1[i].claims : Handled(start, c)
  <2>1. /\ FoldLeft(PlaceDegree, << >>, s1) \in Seq(Credential(B, C))
        /\ \A i \in DOMAIN s1 : Notes(FoldLeft(PlaceDegree, << >>, s1), s1[i])
    BY <1>4, DegreesPlaced
  <2> QED
    BY <2>1 DEF Placement, Handled, Notes
<1> HIDE DEF start
<1> DEFINE placed == PlaceOrphans(start, s2, identities)
<1>6. /\ placed \in Placement(B, C) /\ \A c \in C : Handled(start, c) => Handled(placed, c)
      /\ \A i \in DOMAIN s2 : \A c \in s2[i].claims : Handled(placed, c)
  BY <1>4, <1>5, OrphansPlaced
<1> HIDE DEF placed
<1>7. \A b \in ToSet(degrees) : b.claims \subseteq C
  BY DEF Evidenced, IsBundle
<1>8. \A b \in ToSet(degrees) \cup ToSet(orphans) : \A c \in b.claims : Handled(placed, c)
  BY <1>4, <1>5, <1>6, <1>7
<1> QED
  BY <1>1, <1>6, <1>8 DEF placed

\* The clusters of some claims rest on them.
AreClusters(clusters, C) ==
  /\ IsSeq(clusters)
  /\ \A i \in DOMAIN clusters : ClaimsOf(clusters[i]) \subseteq C /\ clusters[i].alternatives \subseteq C

\* Clusters of bundles are clusters of claims.
LEMMA ClustersTyped ==
  ASSUME NEW B, NEW C, Evidenced(B, C), NEW clusters \in Seq(Cluster(B, C))
  PROVE  AreClusters(clusters, C)
<1>1. IsSeq(clusters) /\ \A i \in DOMAIN clusters : clusters[i] \in Cluster(B, C)
  BY SeqTyped
<1>2. \A x \in Cluster(B, C) : ClaimsOf(x) \subseteq C /\ x.alternatives \subseteq C
  <2> TAKE x \in Cluster(B, C)
  <2>1. ClaimsOf(x) \subseteq C
    BY ClusterClaims
  <2> QED
    BY <2>1 DEF Cluster
<1> QED
  BY <1>1, <1>2 DEF AreClusters

\* A sort of clusters makes up none, and loses none.
LEMMA StrongestFirstType ==
  ASSUME NEW clusters, IsSeq(clusters), NEW identities
  PROVE  /\ IsSeq(StrongestFirst(clusters, identities))
         /\ \A i \in DOMAIN StrongestFirst(clusters, identities) :
              StrongestFirst(clusters, identities)[i] \in ToSet(clusters)
         /\ ToSet(clusters) \subseteq ToSet(StrongestFirst(clusters, identities))
<1> DEFINE strength(x) == Max({BundleStrength(x.bundles[i], identities) : i \in DOMAIN x.bundles})
           key(x) == <<-strength(x)>> \o Signature(x)
           keys == Table([i \in DOMAIN clusters |-> key(clusters[i])])
           s == AlongPlaces(clusters, Sorted(keys))
<1>1. StrongestFirst(clusters, identities) = s
  BY DEF StrongestFirst, SortBy
<1>2. DOMAIN keys = DOMAIN clusters
  BY TableIs
<1> HIDE DEF keys
<1>3. /\ IsSeq(s) /\ DOMAIN s = DOMAIN clusters /\ \A i \in DOMAIN clusters : s[i] \in ToSet(clusters)
      /\ ToSet(clusters) \subseteq ToSet(s)
  BY <1>2, SortBySeq
<1> HIDE DEF s
<1> QED
  BY <1>1, <1>3

\* A bundle with its degrees only, ...
Real(b) == [b EXCEPT !.claims = @ \ Unreal(b)]

\* ... and the bundles that _education_clusters places.
Placed(bundles) == {Real(b) : b \in {d \in ToSet(bundles) : RealDegrees(d) # {}}}
                   \cup {b \in ToSet(bundles) : Degrees(b) = {}}

\* All of what _education_clusters returns is made of the claims, and of their bundles;
\* every claim of a bundle is on a credential, left over, or no degree.
LEMMA EducationType ==
  ASSUME NEW C, IsFiniteSet(C), NEW claimed, IsSeq(claimed), ToSet(claimed) \subseteq C, NEW identities
  PROVE  /\ AreClusters(EducationClusters(claimed, identities).clusters, C)
         /\ EducationClusters(claimed, identities).excluded \subseteq C
         /\ EducationClusters(claimed, identities).orphans \subseteq C
         /\ EducationClusters(claimed, identities).clusters
              \in Seq(Credential(Placed(SplitBundles(BuildBundles(claimed, Education))), C))
         /\ \A b \in ToSet(SplitBundles(BuildBundles(claimed, Education))) : \A c \in b.claims :
              \/ c \in EducationClusters(claimed, identities).excluded
              \/ Handled(EducationClusters(claimed, identities), c)
<1> DEFINE bundles == SplitBundles(BuildBundles(claimed, Education))
           isRegular == {i \in DOMAIN bundles : RealDegrees(bundles[i]) # {}}
           isOther == {i \in DOMAIN bundles : Degrees(bundles[i]) = {}}
           regular == Picked(bundles, isRegular)
           others == Picked(bundles, isOther)
           real == [i \in DOMAIN regular |-> Real(regular[i])]
           B == Placed(bundles)
           placed == Credentials(real, others, identities)
           education == EducationClusters(claimed, identities)
<1>1. education = EducationOf(bundles, placed, identities)
  BY DEF EducationClusters, Clustered, Filter, Real
<1>2. AreBundles(bundles, C)
  BY BuildBundlesType, SplitBundlesType
<1> HIDE DEF bundles
<1>3. /\ AreBundles(regular, C)
      /\ \A b \in ToSet(regular) : b \in ToSet(bundles) /\ RealDegrees(b) # {}
      /\ \A b \in ToSet(bundles) : RealDegrees(b) # {} => b \in ToSet(regular)
  <2>1. /\ isRegular \in SUBSET (DOMAIN bundles) /\ \A i \in isRegular : RealDegrees(bundles[i]) # {}
        /\ \A i \in DOMAIN bundles : RealDegrees(bundles[i]) # {} => i \in isRegular
    OBVIOUS
  <2> HIDE DEF isRegular
  <2>2. ToSet(regular) = {bundles[i] : i \in isRegular} /\ ToSet(regular) \subseteq ToSet(bundles)
    BY <1>2, <2>1, PickedSeq DEF AreBundles
  <2>3. \A b \in ToSet(bundles) : RealDegrees(b) # {} => b \in ToSet(regular)
    <3>1. \A b \in ToSet(bundles) : \E i \in DOMAIN bundles : b = bundles[i]
      BY DEF ToSet
    <3> QED
      BY <2>1, <2>2, <3>1
  <2> QED
    BY <1>2, <2>1, <2>2, <2>3, BundlesPicked
<1>4. /\ AreBundles(others, C)
      /\ \A b \in ToSet(others) : b \in ToSet(bundles) /\ Degrees(b) = {}
      /\ \A b \in ToSet(bundles) : Degrees(b) = {} => b \in ToSet(others)
  <2>1. /\ isOther \in SUBSET (DOMAIN bundles) /\ \A i \in isOther : Degrees(bundles[i]) = {}
        /\ \A i \in DOMAIN bundles : Degrees(bundles[i]) = {} => i \in isOther
    OBVIOUS
  <2> HIDE DEF isOther
  <2>2. ToSet(others) = {bundles[i] : i \in isOther} /\ ToSet(others) \subseteq ToSet(bundles)
    BY <1>2, <2>1, PickedSeq DEF AreBundles
  <2>3. \A b \in ToSet(bundles) : Degrees(b) = {} => b \in ToSet(others)
    <3>1. \A b \in ToSet(bundles) : \E i \in DOMAIN bundles : b = bundles[i]
      BY DEF ToSet
    <3> QED
      BY <2>1, <2>2, <3>1
  <2> QED
    BY <1>2, <2>1, <2>2, <2>3, BundlesPicked
<1> HIDE DEF regular, others
<1>5. IsSeq(real) /\ ToSet(real) \subseteq B /\ \A b \in ToSet(regular) : Real(b) \in ToSet(real)
  <2>1. Len(regular) \in Nat /\ DOMAIN regular = 1 .. Len(regular)
    BY <1>3, SeqFacts DEF AreBundles
  <2>2. \A i \in DOMAIN regular : real[i] \in B
    BY <1>3 DEF Placed, ToSet
  <2>3. real = [i \in 1 .. Len(regular) |-> real[i]] /\ DOMAIN real = DOMAIN regular
    BY <2>1
  <2>4. \A i \in DOMAIN regular : real[i] = Real(regular[i])
    OBVIOUS
  <2> HIDE DEF real, B
  <2>5. IsSeq(real)
    BY <2>1, <2>3, SeqMade
  <2>6. \A b \in ToSet(regular) : Real(b) \in ToSet(real)
    BY <2>3, <2>4 DEF ToSet
  <2> QED
    BY <2>2, <2>3, <2>5, <2>6 DEF ToSet
<1> HIDE DEF real
<1>6. Evidenced(B, C) /\ ToSet(others) \subseteq {b \in B : Degrees(b) = {}} /\ IsSeq(others)
  <2>1. \A b \in ToSet(bundles) : IsBundle(b, C) /\ IsBundle(Real(b), C)
    BY <1>2 DEF AreBundles, IsBundle, ToSet, Real
  <2>2. Evidenced(B, C)
    BY <2>1 DEF Evidenced, Placed
  <2> QED
    BY <1>4, <2>2 DEF AreBundles, Placed
<1> HIDE DEF B
<1>7. /\ placed \in Placement(B, C)
      /\ \A b \in ToSet(real) \cup ToSet(others) : \A c \in b.claims : Handled(placed, c)
  BY <1>5, <1>6, CredentialsType
<1> HIDE DEF placed
<1>8. placed.orphans \subseteq C /\ placed.clusters \in Seq(Credential(B, C))
  BY <1>7 DEF Placement
<1>9. /\ StrongestFirst(placed.clusters, identities) \in Seq(Credential(B, C))
      /\ \A c : Noted(placed.clusters, c) => Noted(StrongestFirst(placed.clusters, identities), c)
  <2> DEFINE s == StrongestFirst(placed.clusters, identities)
  <2>1. IsSeq(placed.clusters) /\ ToSet(placed.clusters) \subseteq Credential(B, C)
    BY <1>8, SeqTyped
  <2>2. /\ IsSeq(s) /\ \A i \in DOMAIN s : s[i] \in ToSet(placed.clusters)
        /\ ToSet(placed.clusters) \subseteq ToSet(s)
    BY <2>1, StrongestFirstType
  <2> HIDE DEF s
  <2>3. ToSet(s) \subseteq Credential(B, C)
    BY <2>1, <2>2 DEF ToSet
  <2>4. s \in Seq(Credential(B, C))
    BY <2>2, <2>3, SeqIn
  <2>5. \A i \in DOMAIN placed.clusters : \E k \in DOMAIN s : s[k] = placed.clusters[i]
    BY <2>2 DEF ToSet
  <2>6. \A c : Noted(placed.clusters, c) => Noted(s, c)
    BY <2>5 DEF Noted
  <2> QED
    BY <2>4, <2>6 DEF s
<1>10. UNION {Unreal(b) : b \in ToSet(bundles)} \subseteq C
  BY <1>2 DEF AreBundles, IsBundle, ToSet, Unreal, Degrees, RealDegrees, Of
<1> HIDE DEF education
<1>11. /\ education.clusters = StrongestFirst(placed.clusters, identities)
       /\ education.excluded = UNION {Unreal(b) : b \in ToSet(bundles)}
       /\ education.orphans = placed.orphans
  BY <1>1 DEF EducationOf
<1>12. /\ education.clusters \in Seq(Credential(B, C))
       /\ education.excluded \subseteq C /\ education.orphans \subseteq C
  BY <1>8, <1>9, <1>10, <1>11
<1>13. AreClusters(education.clusters, C)
  BY <1>6, <1>12, CredentialsAreClusters, ClustersTyped
<1>14. ASSUME NEW b \in ToSet(bundles), NEW c \in b.claims
       PROVE  c \in education.excluded \/ Handled(education, c)
  <2>1. ASSUME Handled(placed, c) PROVE Handled(education, c)
    BY <1>9, <1>11, <2>1 DEF Handled
  <2>2. CASE RealDegrees(b) # {}
    <3>1. c \in Unreal(b) => c \in education.excluded
      BY <1>11
    <3>2. c \notin Unreal(b) => c \in Real(b).claims
      <4>1. IsBundle(b, C)
        BY <1>2 DEF AreBundles, ToSet
      <4> QED
        BY <4>1 DEF Real, IsBundle
    <3>3. Real(b) \in ToSet(real)
      BY <1>3, <1>5, <2>2
    <3> QED
      BY <1>7, <2>1, <3>1, <3>2, <3>3
  <2>3. CASE Degrees(b) = {}
    BY <1>4, <1>7, <2>1, <2>3
  <2>4. CASE RealDegrees(b) = {} /\ Degrees(b) # {}
    <3>1. Unreal(b) = b.claims
      BY <2>4 DEF Unreal
    <3> QED
      BY <1>11, <3>1
  <2> QED
    BY <2>2, <2>3, <2>4
<1> QED
  BY <1>12, <1>13, <1>14 DEF education, B, bundles

\* So is all of what _employment_clusters returns; every claim of a bundle is in a cluster.
LEMMA EmploymentClustersType ==
  ASSUME NEW C, IsFiniteSet(C), NEW claimed, IsSeq(claimed), ToSet(claimed) \subseteq C
  PROVE  /\ AreClusters(EmploymentClusters(claimed), C)
         /\ \A b \in ToSet(EmploymentBundles(claimed)) : \A c \in b.claims :
              Taken(EmploymentClusters(claimed), c)
<1> DEFINE bundles == EmploymentBundles(claimed)
           B == ToSet(bundles)
<1>1. AreBundles(bundles, C)
  BY EmploymentBundlesType
<1>2. Evidenced(B, C) /\ bundles \in Seq(B)
  <2> HIDE DEF bundles
  <2> QED
    BY <1>1 DEF Evidenced, AreBundles, ToSet, IsSeq
<1>3. EmploymentClusters(claimed) = FoldLeft(PlaceRole, << >>, bundles)
  BY DEF EmploymentClusters
<1> HIDE DEF B, bundles
<1>4. /\ FoldLeft(PlaceRole, << >>, bundles) \in Seq(Cluster(B, C))
      /\ \A i \in DOMAIN bundles : Takes(FoldLeft(PlaceRole, << >>, bundles), bundles[i])
  BY <1>2, RolesPlaced
<1>5. \A b \in ToSet(bundles) : Takes(FoldLeft(PlaceRole, << >>, bundles), b)
  BY <1>4 DEF ToSet
<1>6. AreClusters(EmploymentClusters(claimed), C)
  BY <1>2, <1>3, <1>4, ClustersTyped
<1>7. \A b \in ToSet(bundles) : \A c \in b.claims : Taken(EmploymentClusters(claimed), c)
  BY <1>3, <1>5 DEF Takes
<1> QED
  BY <1>6, <1>7 DEF bundles

-----------------------------------------------------------------------------
(* Roles.                                                                   *)

\* The role that is called current is one of the roles.
LEMMA CurrentRoleType ==
  ASSUME NEW C, NEW clusters, AreClusters(clusters, C), clusters # << >>, NEW rank, NEW identities
  PROVE  CurrentRole(clusters, rank, identities) \in DOMAIN clusters
<1> DEFINE position(i) == [k \in 1 .. 10 |-> -rank[i][k]] \o Signature(clusters[i])
           secure(i) == /\ rank[i][1] = 1 /\ rank[i][3] = 1 /\ rank[i][10] >= Policy.review
                        /\ \A c \in ClaimsOf(clusters[i]) : identities[c.source] >= Policy.identityReview
           places == [i \in DOMAIN clusters |-> i]
           keys == Table([i \in DOMAIN places |-> position(places[i])])
           order == AlongPlaces(places, Sorted(keys))
           offices == Filter(order, secure)
<1>1. CurrentRole(clusters, rank, identities)
        = IF offices # << >> /\ rank[order[1]][3] = 0 THEN offices[1] ELSE order[1]
  BY DEF CurrentRole, SortBy
<1>2. Len(clusters) \in Nat /\ DOMAIN clusters = 1 .. Len(clusters)
  BY SeqFacts DEF AreClusters
<1>3. 1 \in DOMAIN clusters
  BY NotEmpty DEF AreClusters
<1>4. IsSeq(places) /\ DOMAIN places = DOMAIN clusters /\ ToSet(places) \subseteq DOMAIN clusters
  <2>1. places = [i \in 1 .. Len(clusters) |-> places[i]] /\ ToSet(places) \subseteq DOMAIN clusters
    BY <1>2 DEF ToSet
  <2> HIDE DEF places
  <2> QED
    BY <1>2, <2>1, SeqMade
<1> HIDE DEF places
<1>5. DOMAIN keys = DOMAIN places
  BY TableIs
<1> HIDE DEF keys
<1>6. /\ IsSeq(order) /\ DOMAIN order = DOMAIN clusters
      /\ \A k \in DOMAIN order : order[k] \in DOMAIN clusters
  BY <1>4, <1>5, SortBySeq
<1> HIDE DEF order
<1>7. order[1] \in DOMAIN clusters
  BY <1>2, <1>3, <1>6
<1>8. offices # << >> => offices[1] \in DOMAIN clusters
  <2> DEFINE at == {k \in DOMAIN order : secure(order[k])}
  <2>1. offices = Picked(order, at) /\ at \in SUBSET (DOMAIN order)
    BY DEF Filter
  <2> HIDE DEF at, offices
  <2>2. IsSeq(offices) /\ ToSet(offices) = {order[k] : k \in at}
    BY <1>6, <2>1, PickedSeq
  <2> SUFFICES ASSUME offices # << >> PROVE offices[1] \in DOMAIN clusters
    OBVIOUS
  <2>3. 1 \in DOMAIN offices
    BY <2>2, NotEmpty
  <2>4. offices[1] \in ToSet(offices)
    BY <2>3 DEF ToSet
  <2> QED
    BY <1>6, <2>1, <2>2, <2>4
<1> QED
  BY <1>1, <1>7, <1>8

\* A claim with an id of its source.
IsClaim(c) == {"n", "source", "field"} \subseteq DOMAIN c /\ c.n[1] = c.source

\* The names of some claims, and of those that are about a field.
LEMMA IdsOfSome ==
  ASSUME NEW A, NEW K, Ids(A) \subseteq K, NEW S, S \subseteq A
  PROVE  Ids(S) \subseteq K /\ \A f : Ids(Of(S, f)) \subseteq K
BY DEF Ids, Of

\* A role's decisions rest on the claims of the role, of its rivals, and the others.
LEMMA RoleDecisionsRest ==
  ASSUME NEW selected, NEW unresolved, NEW others, NEW invalid, NEW identities, NEW quality, NEW K,
         Ids(selected) \subseteq K, Ids(unresolved) \subseteq K, Ids(others) \subseteq K
  PROVE  \A f \in Volatile :
           Researched(RoleDecisions(selected, unresolved, others, invalid, identities, quality)[f], K)
<1> TAKE f \in Volatile
<1>1. PICK codes, over :
        RoleDecisions(selected, unresolved, others, invalid, identities, quality)[f]
          = [Decision(Of(selected, f), Of(unresolved, f), Of(others, f), codes, identities, quality)
               EXCEPT !.review = @ \/ over]
  BY DEF RoleDecisions
<1> DEFINE d == Decision(Of(selected, f), Of(unresolved, f), Of(others, f), codes, identities, quality)
<1>2. Researched(d, K)
  <2>1. Ids(Of(selected, f)) \subseteq K /\ Ids(Of(unresolved, f)) \subseteq K /\ Ids(Of(others, f)) \subseteq K
    BY IdsOfSome
  <2> QED
    BY <2>1, DecisionRests
<1> HIDE DEF d
<1>3. Researched([d EXCEPT !.review = @ \/ over], K)
  BY <1>2 DEF Researched, IsDecision, Undecided
<1> QED
  BY <1>1, <1>3 DEF d

\* A person's decisions about roles rest on the claims, whichever role is current.
LEMMA RolesClusteredRest ==
  ASSUME NEW C, NEW K, Ids(C) \subseteq K, NEW clusters, AreClusters(clusters, C),
         NEW historical, historical \subseteq C, NEW invalid, invalid \subseteq C,
         NEW withRelatives, withRelatives \subseteq C, NEW identities, NEW quality
  PROVE  \A f \in Volatile :
           Researched(RolesClustered(clusters, historical, invalid, withRelatives, identities,
                                     quality)[f], K)
<1>1. CASE clusters = << >>
  <2> TAKE f \in Volatile
  <2>1. RolesClustered(clusters, historical, invalid, withRelatives, identities, quality)[f]
          = Missing({}, Of(historical \cup invalid, f), {})
    BY <1>1 DEF RolesClustered
  <2>2. Ids(Of(historical \cup invalid, f)) \subseteq K /\ Ids({}) = {}
    BY DEF Ids, Of
  <2> QED
    BY <2>1, <2>2 DEF Missing, Researched, IsDecision, Undecided
<1>2. CASE clusters # << >>
  <2> DEFINE rank == Ranks(clusters, identities, quality)
             aside == historical \cup invalid \cup withRelatives
             winner == CurrentRole(clusters, rank, identities)
             unresolved == Unresolved(clusters, rank, winner)
             rest == DOMAIN clusters \ (unresolved \cup {winner})
             selected == ClaimsOf(clusters[winner])
             rivals == ClaimsIn(clusters, unresolved)
             others == ClaimsIn(clusters, rest) \cup (aside \ selected)
  <2>1. RolesClustered(clusters, historical, invalid, withRelatives, identities, quality)
          = RoleDecisions(selected, rivals, others, invalid, identities, quality)
    BY <1>2 DEF RolesClustered, RolesRanked, RolesDecided, RoleWon
  <2>2. winner \in DOMAIN clusters
    BY <1>2, CurrentRoleType
  <2>3. unresolved \subseteq DOMAIN clusters
    BY DEF Unresolved
  <2> HIDE DEF winner, unresolved, rank
  <2>4. selected \subseteq C /\ rivals \subseteq C /\ others \subseteq C
    <3>1. \A i \in DOMAIN clusters : ClaimsOf(clusters[i]) \subseteq C
      BY DEF AreClusters
    <3>2. \A places \in SUBSET (DOMAIN clusters) : ClaimsIn(clusters, places) \subseteq C
      BY <3>1 DEF ClaimsIn
    <3> QED
      BY <2>2, <2>3, <3>1, <3>2
  <2> HIDE DEF selected, rivals, others
  <2>5. Ids(selected) \subseteq K /\ Ids(rivals) \subseteq K /\ Ids(others) \subseteq K
    BY <2>4, IdsOfSome
  <2> QED
    BY <2>1, <2>5, RoleDecisionsRest
<1> QED
  BY <1>1, <1>2

\* What is said of roles rests on the claims.
LEMMA EmploymentRests ==
  ASSUME NEW claimed, IsSeq(claimed), \A c \in ToSet(claimed) : IsClaim(c), NEW K,
         Ids(ToSet(claimed)) \subseteq K, NEW seed, NEW identities, NEW quality
  PROVE  \A f \in Volatile :
           Researched(EmploymentDecisions(seed, claimed, identities, quality)[f], K)
<1> DEFINE bundles == ToSet(EmploymentBundles(claimed))
           ofRelatives(b) == \E c \in b.claims : c.field = "organisation" /\ "relative" \in Words[c.value]
           invalid == {c \in ToSet(claimed) : NoOrganisation(seed, bundles, c)}
           withRelatives == UNION {b.claims : b \in {d \in bundles : ofRelatives(d)}}
           valid == Filter(claimed, LAMBDA c : c \notin invalid \cup withRelatives)
           grounded == [i \in DOMAIN valid |-> TemporallyGrounded(valid[i])]
           historical == {c \in ToSet(grounded) : c.field \in Volatile /\ Historical(c)}
           C == ToSet(claimed) \cup {TemporallyGrounded(c) : c \in ToSet(claimed)}
           clusters == EmploymentClusters(grounded)
<1>1. EmploymentDecisions(seed, claimed, identities, quality)
        = RolesClustered(clusters, historical, invalid, withRelatives, identities, quality)
  BY DEF EmploymentDecisions, RolesOf, RolesWithout, RolesAmong
<1>2. Ids(C) \subseteq K
  <2> SUFFICES ASSUME NEW c \in ToSet(claimed) PROVE TemporallyGrounded(c).n = c.n
    BY DEF Ids
  <2>1. IsClaim(c)
    OBVIOUS
  <2> QED
    BY <2>1 DEF TemporallyGrounded, IsClaim
<1>3. IsFiniteSet(C)
  <2> DEFINE g == [c \in ToSet(claimed) |-> TemporallyGrounded(c)]
             S == ToSet(claimed)
  <2>1. IsFiniteSet(S)
    BY SeqFacts
  <2>2. IsFiniteSet({g[c] : c \in S})
    <3>1. DOMAIN g = S
      OBVIOUS
    <3> HIDE DEF g, S
    <3> QED
      BY <2>1, <3>1, ImageFinite
  <2>3. {g[c] : c \in S} = {TemporallyGrounded(c) : c \in S}
    OBVIOUS
  <2> HIDE DEF g, S
  <2>4. C = S \cup {TemporallyGrounded(c) : c \in S}
    BY DEF S
  <2> QED
    BY <2>1, <2>2, <2>3, <2>4, FS_Union
<1>4. AreBundles(EmploymentBundles(claimed), ToSet(claimed))
  BY EmploymentBundlesType
<1>5. invalid \subseteq ToSet(claimed) /\ withRelatives \subseteq ToSet(claimed)
  <2>1. \A b \in bundles : b.claims \subseteq ToSet(claimed)
    BY <1>4 DEF AreBundles, IsBundle, ToSet
  <2> HIDE DEF bundles, ofRelatives
  <2> QED
    BY <2>1
<1> HIDE DEF invalid, withRelatives
<1>6. IsSeq(valid) /\ ToSet(valid) \subseteq ToSet(claimed)
  <2> DEFINE places == {i \in DOMAIN claimed : claimed[i] \notin invalid \cup withRelatives}
  <2>1. valid = Picked(claimed, places) /\ places \in SUBSET (DOMAIN claimed)
    BY DEF Filter
  <2> HIDE DEF places, valid
  <2> QED
    BY <2>1, PickedSeq
<1> HIDE DEF valid
<1>7. IsSeq(grounded) /\ ToSet(grounded) \subseteq C
  <2>1. Len(valid) \in Nat /\ DOMAIN valid = 1 .. Len(valid)
    BY <1>6, SeqFacts
  <2>2. grounded = [i \in 1 .. Len(valid) |-> grounded[i]]
    BY <2>1
  <2>3. ToSet(grounded) \subseteq C
    BY <1>6 DEF ToSet
  <2> HIDE DEF grounded, C
  <2> QED
    BY <2>1, <2>2, <2>3, SeqMade
<1>8. historical \subseteq C /\ invalid \subseteq C /\ withRelatives \subseteq C
  BY <1>5, <1>7
<1> HIDE DEF grounded, historical, C
<1>9. AreClusters(clusters, C)
  BY <1>3, <1>7, EmploymentClustersType
<1> HIDE DEF clusters
<1> QED
  BY <1>1, <1>2, <1>8, <1>9, RolesClusteredRest

-----------------------------------------------------------------------------
(* Links.                                                                   *)

\* The strongest of some claims is one of them.
LEMMA StrongestType ==
  ASSUME NEW S, IsFiniteSet(S), S # {}, NEW order
  PROVE  Strongest(S, order) \in S
<1> DEFINE base == CHOOSE c \in S : TRUE
           stronger(c, best) == IF Precedes(order[c], order[best]) THEN c ELSE best
           pick == [T \in SUBSET S |-> CHOOSE x \in T : TRUE]
           step == [p \in S \X S |-> stronger(p[1], p[2])]
           Joins(D) == D = [T \in SUBSET S |->
                              IF T = {} THEN base
                              ELSE stronger(CHOOSE x \in T : TRUE, D[T \ {CHOOSE x \in T : TRUE}])]
           D == CHOOSE F : Joins(F)
<1>1. Strongest(S, order) = D[S]
  BY DEF Strongest, FoldSet, MapThenFoldSet
<1>2. base \in S
  OBVIOUS
<1>3. \A c, best \in S : step[<<c, best>>] = stronger(c, best) /\ stronger(c, best) \in S
  OBVIOUS
<1>4. step \in [S \X S -> S]
  BY <1>3
<1>5. \A T \in SUBSET S : T # {} => (CHOOSE x \in T : TRUE) \in T
  OBVIOUS
<1>6. Joins(D)
  <2>1. \A T \in SUBSET S : T # {} => pick[T] \in T
    OBVIOUS
  <2> HIDE DEF pick, step, base
  <2>2. PICK F \in [SUBSET S -> S] : Folds(F, S, pick, step, base)
    BY <1>2, <1>4, <2>1, FoldExists
  <2>3. ASSUME NEW T \in SUBSET S, T # {}
        PROVE  step[<<pick[T], F[T \ {pick[T]}]>>] = stronger(pick[T], F[T \ {pick[T]}])
    <3>1. pick[T] \in S /\ F[T \ {pick[T]}] \in S
      BY <2>1, <2>3
    <3> HIDE DEF stronger
    <3> QED
      BY <1>3, <3>1
  <2>4. F = [T \in SUBSET S |-> IF T = {} THEN base ELSE stronger(pick[T], F[T \ {pick[T]}])]
    <3>1. F = [T \in SUBSET S |-> IF T = {} THEN base ELSE step[<<pick[T], F[T \ {pick[T]}]>>]]
      BY <2>2 DEF Folds
    <3> HIDE DEF stronger
    <3> QED
      BY <2>3, <3>1
  <2>5. \A T \in SUBSET S : pick[T] = CHOOSE x \in T : TRUE
    BY DEF pick
  <2>6. Joins(F)
    <3> HIDE DEF stronger
    <3> QED
      BY <2>4, <2>5
  <2> HIDE DEF Joins
  <2> QED
    BY <2>6
<1> DEFINE good == {T \in SUBSET S : D[T] \in S}
<1>7. ASSUME NEW T \in SUBSET S, \A U \in SUBSET T : U # T => U \in good
      PROVE  T \in good
  <2> HIDE DEF D, base
  <2>1. CASE T = {}
    BY <1>2, <1>6, <2>1
  <2>2. CASE T # {}
    <3> DEFINE x == CHOOSE y \in T : TRUE
               U == T \ {x}
    <3>1. x \in T
      BY <2>2
    <3>2. D[T] = stronger(x, D[U])
      BY <1>6, <2>2
    <3> HIDE DEF x
    <3>3. U \in SUBSET T /\ U # T
      BY <3>1
    <3>4. D[U] \in S
      <4> HIDE DEF U
      <4>1. U \in good
        BY <1>7, <3>3
      <4> QED
        BY <4>1
    <3>5. D[T] \in S
      BY <3>1, <3>2, <3>4
    <3> QED
      BY <3>5
  <2> QED
    BY <2>1, <2>2
<1>8. S \in good
  <2> HIDE DEF good
  <2>1. \A T \in SUBSET S : (\A U \in SUBSET T : U # T => U \in good) => T \in good
    BY <1>7
  <2>2. \A T \in SUBSET S : T \in good
    BY <2>1, SubsetInduction
  <2> QED
    BY <2>2
<1> QED
  BY <1>1, <1>8

\* What is known of a link: it is the address of a source, or none.
Addresses(origins) == {0} \cup {Source[s].url : s \in origins}

\* A decision about a link.
LinkOf(d, K, origins) == Researched(d, K) /\ d.value \in Addresses(origins)

\* gifts has claims of the sources that contributed.
LEMMA LinkAmongType ==
  ASSUME NEW origins, origins \subseteq Int, IsFiniteSet(origins), NEW K,
         NEW gifts, DOMAIN gifts \subseteq origins,
         \A s \in DOMAIN gifts : \A f \in DOMAIN gifts[s] : gifts[s][f].n \in K,
         NEW order, NEW identities, NEW strength
  PROVE  LinkOf(LinkAmong(gifts, order, identities, strength), K, origins)
<1> DEFINE chosen(s) == {gifts[s][f] : f \in DOMAIN gifts[s]}
           worth(s) == Worth(gifts[s], strength)
           direct(s) == Max({Policy.directness[c.direct] : c \in chosen(s)})
           date(c) == IF c.asOf = Undated THEN Source[c.source].published ELSE c.asOf
           dated(s) == Max({EarlierFirst(date(c)) : c \in chosen(s)})
           reliable == {s \in DOMAIN gifts : /\ Source[s].authority >= Policy.directory
                                             /\ identities[s] >= Policy.identityMinimum}
           key(s) == <<-Cardinality(DOMAIN gifts[s]), -Source[s].authority, -direct(s), -identities[s],
                       -dated(s), -worth(s), Source[s].url>>
           givers == IF reliable # {} THEN reliable ELSE DOMAIN gifts
           keys == Table([i \in DOMAIN Ascending(givers) |-> key(Ascending(givers)[i])])
           winner == AlongPlaces(Ascending(givers), Sorted(keys))[1]
           reasons(confidence) == (IF confidence < Policy.review THEN {"LOW_CONFIDENCE"} ELSE {})
                                  \cup (IF reliable = {} THEN {"LOW_SOURCE_AUTHORITY"} ELSE {})
           link(confidence) ==
             [Undecided EXCEPT !.value = Source[winner].url, !.confidence = confidence,
                !.selected = Strongest(chosen(winner), order).n, !.support = Ids(chosen(winner)),
                !.review = reasons(confidence) # {}, !.reasons = reasons(confidence)]
           d == LinkAmong(gifts, order, identities, strength)
<1>1. CASE DOMAIN gifts = {}
  BY <1>1 DEF LinkAmong, LinkOf, Researched, IsDecision, Undecided, Addresses
<1>2. CASE DOMAIN gifts # {}
  <2>1. d = link(Worth(gifts[winner], strength) \div Cardinality(DOMAIN gifts[winner]))
    BY <1>2, ZenonT(30) DEF LinkAmong, SortBy
  <2>2. DOMAIN keys = DOMAIN Ascending(givers)
    <3> HIDE DEF key, givers
    <3> QED
      BY TableIs
  <2> HIDE DEF keys
  <2>3. givers \in SUBSET Int /\ IsFiniteSet(givers) /\ givers # {} /\ givers \subseteq DOMAIN gifts
    BY <1>2, FS_Subset
  <2> HIDE DEF givers
  <2>4. winner \in DOMAIN gifts
    BY <2>2, <2>3, FirstOfSorted
  <2> HIDE DEF winner, d
  <2>5. Ids(chosen(winner)) \subseteq K
    BY <2>4 DEF Ids
  <2>6. Source[winner].url \in Addresses(origins)
    BY <2>4 DEF Addresses
  <2> HIDE DEF chosen, reasons
  <2>7. LinkOf(d, K, origins)
    BY <2>1, <2>5, <2>6 DEF LinkOf, Researched, IsDecision, Undecided
  <2> QED
    BY <2>7 DEF d
<1> QED
  BY <1>1, <1>2

\* representative_profile_link returns the address of a source that contributed.
LEMMA RepresentativeLinkType ==
  ASSUME NEW claimed, IsFiniteSet(claimed), NEW origins, origins \subseteq Int, IsFiniteSet(origins),
         SourcesOf(claimed) \subseteq origins, NEW K, Ids(claimed) \subseteq K,
         NEW fields, NEW identities, NEW quality
  PROVE  LinkOf(RepresentativeLink(fields, claimed, identities, quality), K, origins)
<1> DEFINE strength == Table([c \in claimed |-> Strength(c, identities, quality.score)])
           order == Table([c \in claimed |-> <<-strength[c]>> \o TieKey(c)])
           gave(s, f) ==
             {c \in claimed : /\ c.source = s /\ c.n \in fields[f].support
                             /\ IdentityOf(c, identities) >= Policy.identityMinimum
                             /\ strength[c] >= Policy.selection}
           decided == {f \in DOMAIN fields : fields[f].value # 0}
           given(s) == [f \in {g \in decided : gave(s, g) # {}} |-> Strongest(gave(s, f), order)]
           gifts(s) == Table(given(s))
           givers == {s \in SourcesOf(claimed) : \E f \in decided : gave(s, f) # {}}
           all == [s \in givers |-> gifts(s)]
<1>1. RepresentativeLink(fields, claimed, identities, quality)
        = LinkAmong(Table(all), order, identities, strength)
  BY DEF RepresentativeLink
<1> HIDE DEF strength, order
<1>2. \A s, f : gave(s, f) \subseteq claimed /\ (gave(s, f) # {} => Strongest(gave(s, f), order) \in claimed)
  <2> TAKE s, f
  <2>1. gave(s, f) \subseteq claimed
    OBVIOUS
  <2> HIDE DEF gave
  <2> QED
    BY <2>1, FS_Subset, StrongestType
<1> HIDE DEF gave
<1>3. \A s : gifts(s) = given(s)
  BY TableIs
<1>4. DOMAIN all \subseteq origins
  OBVIOUS
<1>5. \A s \in DOMAIN all : \A f \in DOMAIN all[s] : all[s][f].n \in K
  <2> TAKE s \in DOMAIN all
  <2>1. all[s] = given(s)
    BY <1>3
  <2>2. \A f \in DOMAIN given(s) : given(s)[f] \in claimed
    BY <1>2
  <2> HIDE DEF all, given
  <2> QED
    BY <2>1, <2>2 DEF Ids
<1>6. Table(all) = all
  BY TableIs
<1> HIDE DEF all
<1> QED
  BY <1>1, <1>4, <1>5, <1>6, LinkAmongType

-----------------------------------------------------------------------------
(* Records.                                                                 *)

\* What is shown, and said to agree, is in K.
Rests(d, K) == IsDecision(d) /\ Shows(d) \cup d.agreeing \subseteq K

\* What research decided rests on the claims.
LEMMA ResearchedRests ==
  ASSUME NEW K, NEW d, Researched(d, K)
  PROVE  Rests(d, K)
BY DEF Researched, Rests, Shows

\* A decision about a credential rests on the claims.
LEMMA EducationDecisionRests ==
  ASSUME NEW C, NEW K, Ids(C) \subseteq K, NEW education, AreClusters(education.clusters, C),
         education.excluded \subseteq C, education.orphans \subseteq C,
         NEW i, education.clusters # << >> => i \in DOMAIN education.clusters,
         NEW f, NEW identities, NEW quality
  PROVE  Researched(EducationDecision(f, education, i, identities, quality), K)
<1> DEFINE empty == [bundles |-> << >>, alternatives |-> {}, ambiguous |-> FALSE]
           cluster == IF education.clusters = << >> THEN empty ELSE education.clusters[i]
           own == Of(cluster.alternatives, f)
           excluded == IF i = 1 THEN Of(education.excluded, f) ELSE {}
           orphans == IF i = 1 THEN Of(education.orphans, f) ELSE {}
           code(c, holds) == IF holds THEN {c} ELSE {}
           unclear == \E c \in excluded : QuotedKind(c) = "ambiguous"
           codes == code("EDUCATION_GROUPING_AMBIGUITY", cluster.ambiguous)
               \cup code("AMBIGUOUS_EDUCATION", unclear)
               \cup code("NON_DEGREE_EDUCATION", excluded # {} /\ ~unclear)
               \cup code("UNPAIRED_FACT", own # {})
               \cup code("ORPHAN_EDUCATION_FRAGMENT", orphans # {})
           others == own \cup excluded \cup orphans
<1>1. EducationDecision(f, education, i, identities, quality)
        = Decision(Of(ClaimsOf(cluster), f), {}, others, codes, identities, quality)
  BY DEF EducationDecision
<1>2. ClaimsOf(cluster) \subseteq C /\ cluster.alternatives \subseteq C
  <2>1. CASE education.clusters = << >>
    <3>1. cluster = empty
      BY <2>1
    <3>2. ClaimsOf(empty) = {} /\ empty.alternatives = {}
      BY DEF ClaimsOf
    <3> HIDE DEF empty, cluster
    <3> QED
      BY <3>1, <3>2
  <2>2. CASE education.clusters # << >>
    BY <2>2 DEF AreClusters
  <2> QED
    BY <2>1, <2>2
<1> HIDE DEF cluster
<1>3. others \subseteq C
  BY <1>2 DEF Of
<1>4. Ids(Of(ClaimsOf(cluster), f)) \subseteq K /\ Ids(others) \subseteq K /\ Ids({}) \subseteq K
  BY <1>2, <1>3 DEF Ids, Of
<1> HIDE DEF others, codes
<1> QED
  BY <1>1, <1>4, DecisionRests

\* The decisions of a record, before the spreadsheet is joined.
Found0(fields, K, origins) ==
  /\ \A f \in Fields : Researched(fields[f], K)
  /\ fields["profile_link"].value \in Addresses(origins)

\* The link joins the other decisions.
LEMMA LinkedType ==
  ASSUME NEW K, NEW origins, NEW fields, \A f \in Fields \ {"profile_link"} : Researched(fields[f], K),
         NEW evidence, NEW identities, NEW quality,
         LinkOf(RepresentativeLink(fields, evidence, identities, quality), K, origins)
  PROVE  Found0(Linked(fields, evidence, identities, quality), K, origins)
<1> DEFINE linked == [f \in Fields |->
             IF f = "profile_link" THEN RepresentativeLink(fields, evidence, identities, quality)
             ELSE fields[f]]
<1>1. Linked(fields, evidence, identities, quality) = linked
  BY TableIs DEF Linked
<1>2. "profile_link" \in Fields
  BY DEF Fields, ResearchFields
<1> QED
  BY <1>1, <1>2 DEF Found0, LinkOf

\* Where nothing is known, the claims that were not confirmed are named.
LEMMA UnconfirmedType ==
  ASSUME NEW K, NEW origins, NEW fields, Found0(fields, K, origins),
         NEW unconfirmed, Ids(unconfirmed) \subseteq K
  PROVE  Found0(WithUnconfirmed(fields, unconfirmed), K, origins)
<1> DEFINE more(f) == [fields[f] EXCEPT !.alternatives = @ \cup Ids(Of(unconfirmed, f)),
                                        !.reasons = @ \cup {"IDENTITY_CONTEXT_UNCONFIRMED"}]
           new == WithUnconfirmed(fields, unconfirmed)
<1>1. ASSUME NEW f \in Fields
      PROVE  Researched(more(f), K) /\ more(f).value = fields[f].value
  <2>1. Ids(Of(unconfirmed, f)) \subseteq K
    BY DEF Ids, Of
  <2>2. Researched(fields[f], K)
    BY DEF Found0
  <2> QED
    BY <2>1, <2>2 DEF Researched, IsDecision, Undecided
<1>2. \A f \in Fields : new[f] = fields[f] \/ new[f] = more(f)
  BY DEF WithUnconfirmed
<1>3. "profile_link" \in Fields
  BY DEF Fields, ResearchFields
<1> HIDE DEF more, new
<1>4. Found0(new, K, origins)
  BY <1>1, <1>2, <1>3 DEF Found0
<1> QED
  BY <1>4 DEF new

\* All of a record's decisions rest on the claims, ...
LEMMA DecisionsType ==
  ASSUME NEW C, NEW K, Ids(C) \subseteq K, NEW education, AreClusters(education.clusters, C),
         education.excluded \subseteq C, education.orphans \subseteq C,
         NEW i, education.clusters # << >> => i \in DOMAIN education.clusters,
         NEW employment, \A f \in Volatile : Researched(employment[f], K),
         NEW seed, NEW identities, NEW quality
  PROVE  \A f \in Fields \ {"profile_link"} :
           Researched(Decisions(i, seed, employment, education, identities, quality)[f], K)
<1> TAKE f \in Fields \ {"profile_link"}
<1> DEFINE d == Decisions(i, seed, employment, education, identities, quality)[f]
<1>1. /\ f = "full_name" => d = [Undecided EXCEPT !.value = seed.name, !.confidence = 1000]
      /\ f \in Volatile => d = employment[f]
      /\ f \in Education => d = EducationDecision(f, education, i, identities, quality)
      /\ f = "full_name" \/ f \in Volatile \/ f \in Education
  BY DEF Decisions, Fields, ResearchFields, Volatile, Education
<1>2. Researched([Undecided EXCEPT !.value = seed.name, !.confidence = 1000], K)
  BY DEF Researched, IsDecision, Undecided
<1>3. Researched(EducationDecision(f, education, i, identities, quality), K)
  BY EducationDecisionRests
<1> QED
  BY <1>1, <1>2, <1>3

\* ... all of a person's, and every link is the address of a source.
LEMMA DecidedType ==
  ASSUME NEW accepted, IsSeq(accepted), \A c \in ToSet(accepted) : IsClaim(c),
         NEW origins, origins \subseteq Int, IsFiniteSet(origins),
         SourcesOf(ToSet(accepted)) \subseteq origins, NEW K, Ids(ToSet(accepted)) \subseteq K,
         NEW unconfirmed, Ids(unconfirmed) \subseteq K, NEW seed, NEW identities, NEW quality
  PROVE  LET decided == Decided(seed, EmploymentDecisions(seed, accepted, identities, quality),
                                EducationClusters(accepted, identities), unconfirmed,
                                ToSet(accepted), identities, quality)
         IN /\ \E n \in Nat \ {0} : DOMAIN decided = 1 .. n
            /\ \A i \in DOMAIN decided : Found0(decided[i], K, origins)
<1> DEFINE employment == EmploymentDecisions(seed, accepted, identities, quality)
           education == EducationClusters(accepted, identities)
           C == ToSet(accepted)
           decided == Decided(seed, employment, education, unconfirmed, C, identities, quality)
           raw(i) == Table(Decisions(i, seed, employment, education, identities, quality))
           linked(i) == Linked(raw(i), C, identities, quality)
           n == Max({1, Len(education.clusters)})
<1>0. IsFiniteSet(C)
  BY SeqFacts
<1>1. \A f \in Volatile : Researched(employment[f], K)
  BY EmploymentRests
<1>2. /\ AreClusters(education.clusters, C) /\ education.excluded \subseteq C
      /\ education.orphans \subseteq C
  BY <1>0, EducationType
<1>3. /\ DOMAIN decided = 1 .. n
      /\ \A i \in 1 .. n :
           decided[i] = IF i = 1 THEN WithUnconfirmed(linked(i), unconfirmed) ELSE linked(i)
  BY DEF Decided
<1> HIDE DEF employment, education, decided
<1>4. /\ Len(education.clusters) \in Nat
      /\ DOMAIN education.clusters = 1 .. Len(education.clusters)
  BY <1>2, SeqFacts DEF AreClusters
<1>5. n \in Nat \ {0} /\ \A i \in 1 .. n : education.clusters # << >> => i \in DOMAIN education.clusters
  <2>1. n \in {1, Len(education.clusters)} /\ n >= 1
    <3> DEFINE m == Len(education.clusters)
    <3>1. n = Max({1, m})
      OBVIOUS
    <3>2. 1 \in Int /\ m \in Int
      BY <1>4
    <3> HIDE DEF m, n
    <3>3. n \in {1, m} /\ n >= 1
      BY <3>1, <3>2, MaxOfTwo
    <3> QED
      BY <3>3 DEF m
  <2> HIDE DEF n
  <2>2. n \in Nat \ {0}
    BY <1>4, <2>1
  <2>3. education.clusters # << >> => 1 \in DOMAIN education.clusters
    BY <1>2, NotEmpty DEF AreClusters
  <2> QED
    BY <1>4, <2>1, <2>2, <2>3
<1> HIDE DEF n
<1>6. ASSUME NEW i \in 1 .. n
      PROVE  Found0(decided[i], K, origins)
  <2>1. \A f \in Fields \ {"profile_link"} : Researched(raw(i)[f], K)
    <3>1. raw(i) = Decisions(i, seed, employment, education, identities, quality)
      BY TableIs
    <3>2. education.clusters # << >> => i \in DOMAIN education.clusters
      BY <1>5
    <3> HIDE DEF C, raw
    <3>3. Ids(C) \subseteq K
      BY DEF C
    <3> QED
      BY <1>1, <1>2, <3>1, <3>2, <3>3, DecisionsType
  <2> HIDE DEF raw
  <2>2. LinkOf(RepresentativeLink(raw(i), C, identities, quality), K, origins)
    BY <1>0, RepresentativeLinkType
  <2>3. Found0(linked(i), K, origins)
    BY <2>1, <2>2, LinkedType
  <2> HIDE DEF linked
  <2>4. Found0(WithUnconfirmed(linked(i), unconfirmed), K, origins)
    BY <2>3, UnconfirmedType
  <2> QED
    BY <1>3, <2>3, <2>4
<1>7. /\ \E m \in Nat \ {0} : DOMAIN decided = 1 .. m
      /\ \A i \in DOMAIN decided : Found0(decided[i], K, origins)
  BY <1>3, <1>5, <1>6
<1> QED
  BY <1>7 DEF decided, employment, education

-----------------------------------------------------------------------------
(* The spreadsheet joins.                                                   *)

\* The decisions about all fields rest on K, and the link that was found is in A.
Based(fields, K, A) ==
  /\ \A f \in Fields : Rests(fields[f], K)
  /\ Shown(fields, "profile_link") \in A

\* Attributes whose agreement is in K.
Agreeing(attributes, K) == IsSeq(attributes) /\ \A i \in DOMAIN attributes : attributes[i].agreeing \subseteq K

\* What agrees with the spreadsheet is a claim.
LEMMA SupplyType ==
  ASSUME NEW attributes, NEW K, Agreeing(attributes, K), NEW seed, NEW f
  PROVE  Supply(seed, attributes, f).agreeing \subseteq K
<1> DEFINE places == {i \in DOMAIN attributes : FieldFor(attributes[i].field) = f}
           supplied == Filter(attributes, LAMBDA a : FieldFor(a.field) = f)
<1>1. supplied = Picked(attributes, places)
  BY DEF Filter
<1>2. Supply(seed, attributes, f).agreeing = UNION {a.agreeing : a \in ToSet(supplied)}
  BY DEF Supply
<1> HIDE DEF supplied
<1>3. places \in SUBSET (DOMAIN attributes) /\ IsSeq(attributes)
  BY DEF Agreeing
<1> HIDE DEF places
<1>4. ToSet(supplied) = {attributes[i] : i \in places}
  BY <1>1, <1>3, PickedSeq
<1>5. \A a \in ToSet(supplied) : a.agreeing \subseteq K
  BY <1>3, <1>4 DEF Agreeing
<1> QED
  BY <1>2, <1>5

\* A decision that is kept as found rests on what it rested on, ...
LEMMA FoundRests ==
  ASSUME NEW K, NEW d, Rests(d, K), NEW status, NEW value, NEW researched, NEW confidence
  PROVE  LET new == Found(d, status, value, researched, confidence)
         IN Rests(new, K) /\ new.value = value /\ new.status = status /\ new.researched = researched
<1> DEFINE new == Found(d, status, value, researched, confidence)
<1>1. IsDecision(d)
  BY DEF Rests
<1>2. /\ DOMAIN new = DOMAIN d
      /\ new.support = d.support /\ new.conflicts = d.conflicts /\ new.alternatives = d.alternatives
      /\ new.agreeing = d.agreeing
      /\ new.value = value /\ new.status = status /\ new.researched = researched
  BY <1>1 DEF Found, IsDecision, Undecided
<1> HIDE DEF new
<1>3. Rests(new, K) /\ new.value = value /\ new.status = status /\ new.researched = researched
  BY <1>1, <1>2 DEF Rests, IsDecision, Shows
<1> QED
  BY <1>3 DEF new

\* ... so does one that gives way to the spreadsheet's value.
LEMMA AsSuppliedRests ==
  ASSUME NEW K, NEW d, Rests(d, K), NEW value, NEW researched
  PROVE  LET new == AsSupplied(d, value, researched)
         IN Rests(new, K) /\ new.value = value /\ new.status = "supplied" /\ new.researched = researched
<1> DEFINE found == Found(d, "supplied", value, researched, 0)
           new == [found EXCEPT !.confidence = 0]
<1>1. /\ Rests(found, K) /\ found.value = value /\ found.status = "supplied"
      /\ found.researched = researched
  BY FoundRests
<1> HIDE DEF found
<1>2. /\ DOMAIN new = DOMAIN found
      /\ new.support = found.support /\ new.conflicts = found.conflicts
      /\ new.alternatives = found.alternatives /\ new.agreeing = found.agreeing
      /\ new.value = found.value /\ new.status = found.status /\ new.researched = found.researched
  OBVIOUS
<1>3. AsSupplied(d, value, researched) = new
  BY DEF AsSupplied, found
<1> HIDE DEF new
<1> QED
  BY <1>1, <1>2, <1>3 DEF Rests, IsDecision, Shows

\* A decision beside the spreadsheet's values.
WithSupplied(d, supplied, agreeing) == [d EXCEPT !.supplied = supplied, !.agreeing = agreeing]

\* What stands beside a decision does not change what it rests on.
LEMMA BesideRests ==
  ASSUME NEW K, NEW d, Rests(d, K), NEW supplied, NEW agreeing, agreeing \subseteq K
  PROVE  /\ Rests(WithSupplied(d, supplied, agreeing), K)
         /\ WithSupplied(d, supplied, agreeing).value = d.value
         /\ WithSupplied(d, supplied, agreeing).status = d.status
         /\ WithSupplied(d, supplied, agreeing).researched = d.researched
<1> DEFINE new == [d EXCEPT !.supplied = supplied, !.agreeing = agreeing]
<1>1. IsDecision(d)
  BY DEF Rests
<1>2. /\ DOMAIN new = DOMAIN d
      /\ new.support = d.support /\ new.conflicts = d.conflicts /\ new.alternatives = d.alternatives
      /\ new.agreeing = agreeing
      /\ new.value = d.value /\ new.status = d.status /\ new.researched = d.researched
  BY <1>1 DEF IsDecision, Undecided
<1> HIDE DEF new
<1>3. Rests(new, K) /\ new.value = d.value /\ new.status = d.status /\ new.researched = d.researched
  BY <1>1, <1>2 DEF Rests, IsDecision, Shows
<1> QED
  BY <1>3 DEF new, WithSupplied

\* The spreadsheet joins the decisions: they rest on the same claims, and no link is blocked.
LEMMA AttachedType ==
  ASSUME NEW K, NEW A, NEW refused, NEW fields, \A f \in Fields : Rests(fields[f], K),
         NEW shown, shown["profile_link"] \in A, A \intersect refused = {},
         NEW supply, \A f \in Fields : supply[f].agreeing \subseteq K,
         NEW projected,
         "profile_link" \in projected => supply["profile_link"].values[1] \notin refused,
         NEW webName
  PROVE  LET new == Attached(fields, shown, supply, projected, webName)
         IN Based(new, K, A) /\ new["profile_link"].value \notin refused
<1> DEFINE nameMatches == webName.value # 0 /\ webName.value = shown["full_name"]
           nameFound == nameMatches /\ webName.support # {}
           researched(f) == IF f # "full_name" THEN shown[f]
                            ELSE IF nameFound THEN webName.value ELSE 0
           confidence(f) ==
             CASE f = "full_name" -> IF nameMatches THEN webName.confidence ELSE 0
               [] f # "full_name" /\ fields[f].researchConfidence # -1 -> fields[f].researchConfidence
               [] f # "full_name" /\ fields[f].researchConfidence = -1 -> fields[f].confidence
           decided(f) ==
             IF f \in projected THEN AsSupplied(fields[f], supply[f].values[1], researched(f))
             ELSE Found(fields[f], ProvenanceStatus(f, shown[f], supply[f], nameFound), shown[f],
                        researched(f), confidence(f))
           beside(f, decision) ==
             IF supply[f].values = << >> THEN decision
             ELSE [decision EXCEPT !.supplied = ToSet(supply[f].values), !.agreeing = supply[f].agreeing]
           made == [f \in Fields |-> beside(f, decided(f))]
           new == Attached(fields, shown, supply, projected, webName)
<1>1. new = made
  BY TableIs DEF Attached
<1>2. ASSUME NEW f \in Fields
      PROVE  /\ Rests(decided(f), K)
             /\ f \in projected => /\ decided(f).value = supply[f].values[1]
                                   /\ decided(f).status = "supplied"
             /\ f \notin projected => decided(f).value = shown[f]
             /\ decided(f).researched = researched(f)
  <2> HIDE DEF researched, confidence, nameFound
  <2>1. CASE f \in projected
    <3>1. decided(f) = AsSupplied(fields[f], supply[f].values[1], researched(f))
      BY <2>1
    <3> HIDE DEF decided
    <3> QED
      BY <2>1, <3>1, AsSuppliedRests
  <2>2. CASE f \notin projected
    <3> DEFINE status == ProvenanceStatus(f, shown[f], supply[f], nameFound)
    <3>1. decided(f) = Found(fields[f], status, shown[f], researched(f), confidence(f))
      BY <2>2
    <3> HIDE DEF decided, status
    <3> QED
      BY <2>2, <3>1, FoundRests
  <2> QED
    BY <2>1, <2>2
<1> HIDE DEF decided
<1>3. ASSUME NEW f \in Fields
      PROVE  /\ Rests(made[f], K) /\ made[f].value = decided(f).value
             /\ made[f].status = decided(f).status /\ made[f].researched = decided(f).researched
  <2>1. made[f] = beside(f, decided(f))
    OBVIOUS
  <2>2. CASE supply[f].values = << >>
    BY <1>2, <2>1, <2>2
  <2>3. CASE supply[f].values # << >>
    <3> DEFINE more == [decided(f) EXCEPT !.supplied = ToSet(supply[f].values),
                                          !.agreeing = supply[f].agreeing]
    <3>1. made[f] = more
      BY <2>1, <2>3
    <3>2. /\ Rests(more, K) /\ more.value = decided(f).value
          /\ more.status = decided(f).status /\ more.researched = decided(f).researched
      <4>1. more = WithSupplied(decided(f), ToSet(supply[f].values), supply[f].agreeing)
        BY DEF WithSupplied
      <4> HIDE DEF more
      <4> QED
        BY <1>2, <4>1, BesideRests
    <3> HIDE DEF more, made
    <3> QED
      BY <3>1, <3>2
  <2> QED
    BY <2>2, <2>3
<1> HIDE DEF made, new
<1>4. "profile_link" \in Fields /\ researched("profile_link") = shown["profile_link"]
  BY DEF Fields, ResearchFields
<1>5. Shown(made, "profile_link") \in A
  BY <1>2, <1>3, <1>4 DEF Shown
<1>6. made["profile_link"].value \notin refused
  BY <1>2, <1>3, <1>4
<1>7. Based(new, K, A) /\ new["profile_link"].value \notin refused
  BY <1>1, <1>3, <1>5, <1>6 DEF Based
<1> QED
  BY <1>7 DEF new

\* What is safe to show: based on K and A, with a link that is not blocked.
Safe(fields, K, A, refused) == Based(fields, K, A) /\ fields["profile_link"].value \notin refused

\* ... whatever the spreadsheet says, for attach_seed_provenance looks at the policy.
LEMMA AttachType ==
  ASSUME NEW K, NEW A, NEW refused, A \intersect refused = {},
         NEW fields, Based(fields, K, A),
         NEW attributes, Agreeing(attributes, K), NEW seed, NEW webName
  PROVE  Safe(AttachSeedProvenance(fields, seed, attributes, webName, refused), K, A, refused)
<1> DEFINE raw == [f \in Fields |-> Shown(fields, f)]
           shown == Table(raw)
           rawSupply == [f \in Fields |-> Supply(seed, attributes, f)]
           supply == Table(rawSupply)
           projected == Projected(shown, supply, refused)
           new == AttachSeedProvenance(fields, seed, attributes, webName, refused)
<1>1. new = Attached(fields, shown, supply, projected, webName)
  BY DEF AttachSeedProvenance
<1>2. shown = raw /\ supply = rawSupply
  BY TableIs
<1>3. "profile_link" \in Fields
  BY DEF Fields, ResearchFields
<1>4. shown["profile_link"] \in A
  BY <1>2, <1>3 DEF Based
<1>5. \A f \in Fields : supply[f].agreeing \subseteq K
  BY <1>2, SupplyType
<1>6. "profile_link" \in projected => supply["profile_link"].values[1] \notin refused
  <2> HIDE DEF shown, supply
  <2> QED
    BY DEF Projected
<1>7. \A f \in Fields : Rests(fields[f], K)
  BY DEF Based
<1> HIDE DEF shown, supply, projected, new
<1>8. Safe(new, K, A, refused)
  BY <1>1, <1>4, <1>5, <1>6, <1>7, AttachedType DEF Safe
<1> QED
  BY <1>8 DEF new

-----------------------------------------------------------------------------
(* Profiles.                                                                *)

\* The spreadsheet's own columns agree with claims only.
LEMMA SuppliedAttributesType ==
  ASSUME NEW seed, IsSeq(seed.attributes), NEW claimed, NEW origins, NEW K, Ids(claimed) \subseteq K
  PROVE  Agreeing(SuppliedAttributes(seed, claimed, origins), K)
<1> DEFINE about(a) == IF a.field \in DOMAIN Former THEN Former[a.field] ELSE FieldFor(a.field)
           judged(a, among) ==
             Judged(a, about(a), among, {c \in among : RawKey(c) = a.value}, origins)
           each(a) == judged(a, {c \in claimed : c.field = about(a)})
           all == [i \in DOMAIN seed.attributes |-> each(seed.attributes[i])]
<1>1. SuppliedAttributes(seed, claimed, origins) = all
  BY TableIs DEF SuppliedAttributes
<1>2. ASSUME NEW a, NEW field, NEW among, among \subseteq claimed, NEW same, same \subseteq claimed
      PROVE  Judged(a, field, among, same, origins).agreeing \subseteq K
  BY <1>2 DEF Judged, Ids
<1>3. \A a : each(a).agreeing \subseteq K
  <2> TAKE a
  <2> DEFINE among == {c \in claimed : c.field = about(a)}
             same == {c \in among : RawKey(c) = a.value}
  <2>1. among \subseteq claimed /\ same \subseteq claimed
    OBVIOUS
  <2>2. each(a) = Judged(a, about(a), among, same, origins)
    OBVIOUS
  <2> HIDE DEF among, same, each, about
  <2> QED
    BY <1>2, <2>1, <2>2
<1> HIDE DEF each
<1>4. Len(seed.attributes) \in Nat /\ DOMAIN seed.attributes = 1 .. Len(seed.attributes)
  BY SeqFacts
<1> DEFINE n == Len(seed.attributes)
<1>5. all = [i \in 1 .. n |-> all[i]]
  BY <1>4
<1>6. \A i \in DOMAIN all : all[i].agreeing \subseteq K
  BY <1>3
<1> HIDE DEF all, n
<1>7. IsSeq(all)
  BY <1>4, <1>5, SeqMade DEF n
<1> QED
  BY <1>1, <1>6, <1>7 DEF Agreeing

\* A stored record, and a stored profile.
IsRecord(r) == DOMAIN r = {"id", "fields", "scores", "reasons", "review"}

IsProfile(p) == DOMAIN p = {"fields", "records", "scores", "attributes", "review"}

\* What is stored rests on K, and its links are in A.
Stored(p, K, A) ==
  /\ IsProfile(p) /\ Based(p.fields, K, A) /\ Agreeing(p.attributes, K)
  /\ \A i \in DOMAIN p.records : IsRecord(p.records[i]) /\ Based(p.records[i].fields, K, A)

\* What research decided, as what is shown must be.
LEMMA FoundBased ==
  ASSUME NEW K, NEW origins, NEW fields, Found0(fields, K, origins)
  PROVE  Based(fields, K, Addresses(origins))
<1>1. \A f \in Fields : Rests(fields[f], K) /\ fields[f].status = "none"
  BY ResearchedRests DEF Found0, Researched
<1>2. Shown(fields, "profile_link") \in Addresses(origins)
  BY <1>1 DEF Shown, Found0, Fields, ResearchFields
<1> QED
  BY <1>1, <1>2 DEF Based

\* A record of a profile rests on the claims.
LEMMA RecordOfType ==
  ASSUME NEW K, NEW A, NEW refused, A \intersect refused = {}, NEW fields, Based(fields, K, A),
         NEW attributes, Agreeing(attributes, K), NEW seed, NEW webName
  PROVE  /\ IsRecord(RecordOf(fields, seed, attributes, webName, refused))
         /\ Based(RecordOf(fields, seed, attributes, webName, refused).fields, K, A)
<1> DEFINE attached == AttachSeedProvenance(fields, seed, attributes, webName, refused)
           record == RecordOf(fields, seed, attributes, webName, refused)
<1>1. DOMAIN record = {"id", "fields", "scores", "reasons", "review"} /\ record.fields = attached
  BY DEF RecordOf
<1>2. Based(attached, K, A)
  BY AttachType DEF Safe
<1> QED
  BY <1>1, <1>2 DEF IsRecord

\* So does a profile of such records.
LEMMA ProfileOfType ==
  ASSUME NEW K, NEW A, NEW attributes, Agreeing(attributes, K),
         NEW n \in Nat \ {0}, NEW records, records = [i \in 1 .. n |-> records[i]],
         \A i \in 1 .. n : IsRecord(records[i]) /\ Based(records[i].fields, K, A)
  PROVE  Stored(ProfileOf(records, attributes), K, A)
<1> DEFINE first == records[1].fields
           elsewhere(f) == UNION {records[i].fields[f].support \cup records[i].fields[f].alternatives :
                                    i \in 2 .. Len(records)}
           field(f) == IF f \notin Education THEN first[f]
                       ELSE [first[f] EXCEPT !.alternatives = @ \cup elsewhere(f)]
           made == [f \in Fields |-> field(f)]
           p == ProfileOf(records, attributes)
<1>1. IsSeq(records) /\ Len(records) = n /\ DOMAIN records = 1 .. n
  BY SeqMade
<1>2. /\ DOMAIN p = {"fields", "records", "scores", "attributes", "review"}
      /\ p.fields = made /\ p.records = records /\ p.attributes = attributes
  BY TableIs DEF ProfileOf
<1> HIDE DEF p
<1>3. \A f \in Fields : elsewhere(f) \subseteq K
  <2> TAKE f \in Fields
  <2>1. \A i \in 1 .. n : Rests(records[i].fields[f], K)
    BY DEF Based
  <2>2. \A i \in 2 .. Len(records) : i \in 1 .. n
    BY <1>1
  <2> QED
    BY <2>1, <2>2 DEF Rests, Shows
<1>4. Based(first, K, A)
  <2>1. 1 \in 1 .. n
    OBVIOUS
  <2> QED
    BY <2>1
<1> HIDE DEF first, elsewhere
<1>5. ASSUME NEW f \in Fields
      PROVE  Rests(made[f], K)
  <2>1. Rests(first[f], K)
    BY <1>4 DEF Based
  <2> DEFINE more == [first[f] EXCEPT !.alternatives = @ \cup elsewhere(f)]
  <2>2. Rests(more, K)
    BY <1>3, <2>1 DEF Rests, IsDecision, Undecided, Shows
  <2>3. made[f] = first[f] \/ made[f] = more
    OBVIOUS
  <2> HIDE DEF more, made
  <2> QED
    BY <2>1, <2>2, <2>3
<1>6. made["profile_link"] = first["profile_link"]
  BY DEF Fields, ResearchFields, Education
<1> HIDE DEF made
<1>7. Shown(made, "profile_link") \in A
  BY <1>4, <1>6 DEF Based, Shown
<1>8. Based(made, K, A)
  BY <1>5, <1>7 DEF Based
<1>9. Stored(p, K, A)
  BY <1>1, <1>2, <1>8 DEF Stored, IsProfile
<1> QED
  BY <1>9 DEF p

\* decided has the decisions of at least one record.
LEMMA RecordedType ==
  ASSUME NEW K, NEW origins, NEW refused, Addresses(origins) \intersect refused = {},
         NEW decided, NEW n \in Nat \ {0}, DOMAIN decided = 1 .. n,
         \A i \in DOMAIN decided : Found0(decided[i], K, origins),
         NEW attributes, Agreeing(attributes, K), NEW seed, NEW webName
  PROVE  Stored(Recorded(decided, seed, attributes, webName, refused), K, Addresses(origins))
<1> DEFINE A == Addresses(origins)
           raw == [i \in DOMAIN decided |-> RecordOf(decided[i], seed, attributes, webName, refused)]
<1>1. Recorded(decided, seed, attributes, webName, refused) = ProfileOf(raw, attributes)
  BY TableIs DEF Recorded
<1> HIDE DEF A
<1>2. \A i \in 1 .. n : IsRecord(raw[i]) /\ Based(raw[i].fields, K, A)
  <2> TAKE i \in 1 .. n
  <2>1. raw[i] = RecordOf(decided[i], seed, attributes, webName, refused)
    OBVIOUS
  <2>2. Based(decided[i], K, A)
    BY FoundBased DEF A
  <2>3. A \intersect refused = {}
    BY DEF A
  <2> HIDE DEF raw
  <2> QED
    BY <2>1, <2>2, <2>3, RecordOfType
<1>3. raw = [i \in 1 .. n |-> raw[i]]
  OBVIOUS
<1> HIDE DEF raw
<1> QED
  BY <1>1, <1>2, <1>3, ProfileOfType DEF A

\* The claims of some sources, by name.
IdsFrom(claimed, origins) == Ids({c \in claimed : c.source \in origins})

\* The sources that a policy leaves.
Left(origins, refused) == {s \in origins : Allowed(s, refused)}

\* What rests on some claims rests on more of them.
LEMMA StoredGrows ==
  ASSUME NEW p, NEW K, NEW A, Stored(p, K, A), NEW L, K \subseteq L, NEW B, A \subseteq B
  PROVE  Stored(p, L, B)
<1>1. \A fields : Based(fields, K, A) => Based(fields, L, B)
  BY DEF Based, Rests
<1>2. Agreeing(p.attributes, L)
  BY DEF Stored, Agreeing
<1> QED
  BY <1>1, <1>2 DEF Stored

\* What _profile returns rests on the accepted claims and those not confirmed.
LEMMA ProfileType ==
  ASSUME NEW seed, IsSeq(seed.attributes),
         NEW accepted, IsSeq(accepted), \A c \in ToSet(accepted) : IsClaim(c),
         NEW origins, origins \subseteq Int, IsFiniteSet(origins),
         NEW refused, Addresses(origins) \intersect refused = {},
         SourcesOf(ToSet(accepted)) \subseteq origins, NEW K, Ids(ToSet(accepted)) \subseteq K,
         NEW unconfirmed, Ids(unconfirmed) \subseteq K, NEW identities, NEW quality
  PROVE  Stored(Profile(seed, accepted, unconfirmed, origins, refused, identities, quality),
                K, Addresses(origins))
<1> DEFINE decided == Decided(seed, EmploymentDecisions(seed, accepted, identities, quality),
                              EducationClusters(accepted, identities), unconfirmed,
                              ToSet(accepted), identities, quality)
           attributes == SuppliedAttributes(seed, ToSet(accepted), origins)
           webName == Decision(Of(ToSet(accepted), "full_name"), {}, {}, {}, identities, quality)
<1>1. Profile(seed, accepted, unconfirmed, origins, refused, identities, quality)
        = Recorded(decided, seed, attributes, webName, refused)
  BY TableIs DEF Profile
<1>2. /\ \E n \in Nat \ {0} : DOMAIN decided = 1 .. n
      /\ \A i \in DOMAIN decided : Found0(decided[i], K, origins)
  BY DecidedType
<1>3. Agreeing(attributes, K)
  BY SuppliedAttributesType
<1> HIDE DEF decided, attributes, webName
<1> QED
  BY <1>1, <1>2, <1>3, RecordedType

\* What reconcile returns rests on claims of the sources that the policy leaves.
LEMMA ReconcileType ==
  ASSUME NEW seed, IsSeq(seed.attributes),
         NEW claimed, IsSeq(claimed), \A c \in ToSet(claimed) : IsClaim(c),
         NEW origins, origins \subseteq Int, IsFiniteSet(origins),
         NEW refused, Addresses(origins) \intersect refused = {}
  PROVE  Stored(Reconcile(seed, claimed, origins, refused),
                IdsFrom(ToSet(claimed), Left(origins, refused)), Addresses(Left(origins, refused)))
<1> DEFINE allowed == {s \in origins : Allowed(s, refused)}
           MayUse(c) == c.source \in allowed /\ EligibleForSource(c)
           places == {i \in DOMAIN claimed : MayUse(claimed[i])}
           usable == Picked(claimed, places)
           eligible == EligibleSources(seed, ToSet(usable), allowed)
           sure(c) == ~Source[c.source].rejected
                      /\ Min({c.relevance, Source[c.source].identity}) >= Policy.identityMinimum
           Accepts(c) == c.source \in eligible /\ sure(c)
           chosen == {i \in DOMAIN usable : Accepts(usable[i])}
           accepted == Picked(usable, chosen)
           unconfirmed == {c \in ToSet(usable) : c.source \notin eligible /\ sure(c)}
           K == IdsFrom(ToSet(claimed), allowed)
<1>1. Reconcile(seed, claimed, origins, refused) = ReconcileUsable(seed, usable, allowed, refused)
  BY DEF Reconcile, Filter
<1>2. ReconcileUsable(seed, usable, allowed, refused)
        = ReconcileAccepted(seed, accepted, unconfirmed, allowed, refused)
  BY DEF ReconcileUsable, ReconcileEligible, Filter
<1>3. PICK identities, quality :
        ReconcileAccepted(seed, accepted, unconfirmed, allowed, refused)
          = Profile(seed, accepted, unconfirmed, allowed, refused, identities, quality)
  BY DEF ReconcileAccepted
<1> HIDE DEF eligible, sure
<1>4. IsSeq(usable) /\ ToSet(usable) \subseteq ToSet(claimed)
      /\ \A c \in ToSet(usable) : c.source \in allowed
  <2>1. places \subseteq DOMAIN claimed /\ \A i \in places : claimed[i].source \in allowed
    OBVIOUS
  <2> HIDE DEF places, allowed
  <2> QED
    BY <2>1, FilterPlaces
<1> HIDE DEF usable
<1>5. IsSeq(accepted) /\ ToSet(accepted) \subseteq ToSet(usable)
  <2>1. chosen \subseteq DOMAIN usable
    OBVIOUS
  <2> HIDE DEF chosen
  <2> QED
    BY <1>4, <2>1, FilterPlaces
<1> HIDE DEF accepted
<1>6. unconfirmed \subseteq ToSet(usable)
  OBVIOUS
<1> HIDE DEF unconfirmed
<1>7. allowed \subseteq origins /\ allowed \subseteq Int /\ IsFiniteSet(allowed)
  BY FS_Subset
<1>8. Addresses(allowed) \intersect refused = {}
  BY <1>7 DEF Addresses
<1> HIDE DEF allowed
<1>9. SourcesOf(ToSet(accepted)) \subseteq allowed
  BY <1>4, <1>5 DEF SourcesOf
<1>10. Ids(ToSet(accepted)) \subseteq K /\ Ids(unconfirmed) \subseteq K
  BY <1>4, <1>5, <1>6 DEF Ids, IdsFrom
<1>11. \A c \in ToSet(accepted) : IsClaim(c)
  BY <1>4, <1>5
<1> HIDE DEF K
<1>12. Stored(Profile(seed, accepted, unconfirmed, allowed, refused, identities, quality),
              K, Addresses(allowed))
  BY <1>5, <1>7, <1>8, <1>9, <1>10, <1>11, ProfileType
<1> QED
  BY <1>1, <1>2, <1>3, <1>12 DEF K, allowed, Left

-----------------------------------------------------------------------------
(* What is stored, and what is shown of it.                                 *)

\* A stored result: its profile rests on its own claims.
IsResult(r) ==
  /\ r.sources \subseteq Int /\ IsFiniteSet(r.sources)
  /\ IsSeq(r.claims) /\ \A c \in ToSet(r.claims) : IsClaim(c)
  /\ Stored(r.profile, IdsFrom(ToSet(r.claims), r.sources), Addresses(r.sources))

\* So does what sanitize_result returns.
LEMMA SanitizeType ==
  ASSUME NEW r, IsResult(r), NEW seed, IsSeq(seed.attributes),
         NEW refused, Addresses(r.sources) \intersect refused = {}
  PROVE  Stored(Sanitize(r, seed, refused).profile,
                IdsFrom(ToSet(r.claims), Left(r.sources, refused)), Addresses(Left(r.sources, refused)))
<1> DEFINE allowed == {s \in r.sources : Allowed(s, refused)}
           places == {i \in DOMAIN r.claims :
                        /\ r.claims[i].source \in allowed
                        /\ r.claims[i].field = "profile_link" => r.claims[i].value \notin refused}
           claimed == Picked(r.claims, places)
           new == Reconcile(seed, claimed, allowed, refused)
           profile == Sanitize(r, seed, refused).profile
           K == IdsFrom(ToSet(r.claims), allowed)
           A == Addresses(allowed)
<1>1. (allowed = r.sources /\ profile = r.profile) \/ profile = new
  BY DEF Sanitize, Filter
<1> HIDE DEF profile
<1> HIDE DEF allowed
<1>2. CASE allowed = r.sources /\ profile = r.profile
  BY <1>2 DEF IsResult, profile, allowed, Left
<1>3. CASE profile = new
  <2> DEFINE still == Left(allowed, refused)
  <2>1. IsSeq(claimed) /\ ToSet(claimed) \subseteq ToSet(r.claims)
    <3>1. places \subseteq DOMAIN r.claims
      OBVIOUS
    <3> HIDE DEF places
    <3> QED
      BY <3>1, FilterPlaces DEF IsResult
  <2> HIDE DEF claimed
  <2>2. allowed \subseteq r.sources /\ allowed \subseteq Int /\ IsFiniteSet(allowed)
    BY FS_Subset DEF IsResult, allowed
  <2>3. A \intersect refused = {} /\ still \subseteq allowed
    BY <2>2 DEF Addresses, Left
  <2>4. Stored(new, IdsFrom(ToSet(claimed), still), Addresses(still))
    <3>1. \A c \in ToSet(claimed) : IsClaim(c)
      BY <2>1 DEF IsResult
    <3> QED
      BY <2>1, <2>2, <2>3, <3>1, ReconcileType
  <2> HIDE DEF new, still
  <2>5. IdsFrom(ToSet(claimed), still) \subseteq K /\ Addresses(still) \subseteq A
    BY <2>1, <2>3 DEF IdsFrom, Ids, Addresses
  <2> HIDE DEF K, A
  <2>6. Stored(profile, K, A)
    BY <1>3, <2>4, <2>5, StoredGrows
  <2> QED
    BY <2>6 DEF K, A, allowed, Left, profile
<1> QED
  BY <1>1, <1>2, <1>3 DEF profile

\* A stored profile that the spreadsheet joins is safe to show, ...
LEMMA JoinedType ==
  ASSUME NEW p, NEW K, NEW A, Stored(p, K, A), NEW refused, A \intersect refused = {},
         NEW seed, NEW attributes, Agreeing(attributes, K)
  PROVE  \A fields \in Profiles(Joined(p, seed, attributes, refused)) : Safe(fields, K, A, refused)
<1> DEFINE name(d) ==
             [d EXCEPT !.confidence = d.researchConfidence,
                       !.support = IF d.researchConfidence # 0 /\ d.status = "corroborated"
                                   THEN d.agreeing ELSE @]
           joined(fields) ==
             AttachSeedProvenance(fields, seed, attributes, name(fields["full_name"]), refused)
           with(part, fields) ==
             [part EXCEPT !.fields = fields, !.review = @ \/ SeedReviewReasons(fields) # {}]
           record(r, fields) == [with(r, fields) EXCEPT !.reasons = @ \cup SeedReviewReasons(fields)]
           raw == [i \in DOMAIN p.records |-> record(p.records[i], joined(p.records[i].fields))]
           records == Table(raw)
           whole == [with(p, joined(p.fields)) EXCEPT
                       !.records = records, !.attributes = attributes,
                       !.review = @ \/ \E i \in DOMAIN records : records[i].review]
           new == Joined(p, seed, attributes, refused)
<1>1. new = whole
  BY DEF Joined
<1>2. \A fields : Based(fields, K, A) => Safe(joined(fields), K, A, refused)
  <2> TAKE fields
  <2> HAVE Based(fields, K, A)
  <2> HIDE DEF name
  <2> QED
    BY AttachType
<1> HIDE DEF joined
<1>3. records = raw
  BY TableIs
<1> HIDE DEF records
<1>4. \A r, fields : IsRecord(r) => record(r, fields).fields = fields
  BY DEF IsRecord
<1>5. \A i \in DOMAIN records : Safe(records[i].fields, K, A, refused)
  <2> TAKE i \in DOMAIN records
  <2>1. records[i] = record(p.records[i], joined(p.records[i].fields)) /\ i \in DOMAIN p.records
    BY <1>3
  <2> HIDE DEF record
  <2>2. records[i].fields = joined(p.records[i].fields)
    BY <1>4, <2>1 DEF Stored
  <2> QED
    BY <1>2, <2>1, <2>2 DEF Stored
<1>6. whole.fields = joined(p.fields) /\ whole.records = records
  <2>1. DOMAIN with(p, joined(p.fields)) = {"fields", "records", "scores", "attributes", "review"}
        /\ with(p, joined(p.fields)).fields = joined(p.fields)
    BY DEF Stored, IsProfile
  <2> HIDE DEF with
  <2> QED
    BY <2>1
<1> HIDE DEF new, whole
<1>7. \A fields \in Profiles(new) : Safe(fields, K, A, refused)
  BY <1>1, <1>2, <1>5, <1>6 DEF Profiles, Stored
<1> QED
  BY <1>7 DEF new

\* ... all of what project_stored_seed returns is, ...
LEMMA ProjectType ==
  ASSUME NEW p, NEW K, NEW A, Stored(p, K, A), NEW refused, A \intersect refused = {},
         NEW seed, IsSeq(seed.attributes)
  PROVE  \A fields \in Profiles(ProjectStoredSeed(p, seed, refused)) : Safe(fields, K, A, refused)
<1> DEFINE attributes == IF p.attributes # << >> THEN p.attributes ELSE InputAttributes(seed)
<1>1. Agreeing(InputAttributes(seed), K)
  <2>1. Ids({}) \subseteq K
    BY DEF Ids
  <2> QED
    BY <2>1, SuppliedAttributesType DEF InputAttributes
<1>2. Agreeing(attributes, K)
  BY <1>1 DEF Stored
<1>3. ProjectStoredSeed(p, seed, refused) = Joined(p, seed, attributes, refused)
  BY DEF ProjectStoredSeed
<1> HIDE DEF attributes
<1> QED
  BY <1>2, <1>3, JoinedType

\* ... and what is shown of a person of whom nothing is stored.
LEMMA SuppliedFieldsType ==
  ASSUME NEW seed, IsSeq(seed.attributes), NEW K, NEW A, 0 \in A, NEW refused, A \intersect refused = {}
  PROVE  Safe(SuppliedFieldDecisions(seed, refused), K, A, refused)
<1> DEFINE nothing == [f \in Fields |-> Undecided]
           attributes == InputAttributes(seed)
<1>1. Rests(Undecided, K)
  BY DEF Rests, IsDecision, Undecided, Shows
<1>2. Shown(nothing, "profile_link") = 0
  BY DEF Shown, Undecided, Fields, ResearchFields
<1>3. Based(nothing, K, A)
  BY <1>1, <1>2 DEF Based
<1>4. Agreeing(attributes, K)
  <2>1. Ids({}) \subseteq K
    BY DEF Ids
  <2> QED
    BY <2>1, SuppliedAttributesType DEF InputAttributes
<1>5. SuppliedFieldDecisions(seed, refused)
        = AttachSeedProvenance(nothing, seed, attributes, Undecided, refused)
  BY DEF SuppliedFieldDecisions
<1> HIDE DEF nothing, attributes
<1> QED
  BY <1>3, <1>4, <1>5, AttachType

-----------------------------------------------------------------------------
(* Records show what was decided, and of which claims.                     *)

\* Whatever the score, _decision shows all the claims it was given.
LEMMA SettledKeeps ==
  ASSUME NEW value, NEW support, NEW against, NEW alternatives, NEW scored, NEW reasons
  PROVE  Ids(support \cup against \cup alternatives)
           \subseteq Shows(Settled(value, support, against, alternatives, scored, reasons))
<1> DEFINE d == Settled(value, support, against, alternatives, scored, reasons)
<1>1. CASE scored.score < Policy.selection
  <2>1. d.alternatives = Ids(support \cup against \cup alternatives)
    BY <1>1 DEF Settled, Undecided
  <2> HIDE DEF d
  <2> QED
    BY <2>1 DEF Shows, d
<1>2. CASE ~(scored.score < Policy.selection)
  <2>1. d.support = Ids(support) /\ d.conflicts = Ids(against) /\ d.alternatives = Ids(alternatives)
    BY <1>2 DEF Settled, Undecided
  <2> HIDE DEF d
  <2>2. Shows(d) = Ids(support) \cup Ids(against) \cup Ids(alternatives)
    BY <2>1 DEF Shows
  <2> QED
    BY <2>2 DEF Ids, d
<1> QED
  BY <1>1, <1>2

\* ... also when it has none for the field.
LEMMA DecisionKeeps ==
  ASSUME NEW relevant, NEW conflicts, NEW alternatives, NEW codes, NEW identities, NEW quality
  PROVE  /\ Ids(relevant \cup conflicts \cup alternatives)
              \subseteq Shows(Decision(relevant, conflicts, alternatives, codes, identities, quality))
         /\ IsDecision(Decision(relevant, conflicts, alternatives, codes, identities, quality))
<1> DEFINE d == Decision(relevant, conflicts, alternatives, codes, identities, quality)
           K == Ids(relevant) \cup Ids(conflicts) \cup Ids(alternatives)
<1>1. IsDecision(d)
  <2>1. Ids(relevant) \subseteq K /\ Ids(conflicts) \subseteq K /\ Ids(alternatives) \subseteq K
    OBVIOUS
  <2> HIDE DEF K, d
  <2>2. Researched(d, K)
    BY <2>1, DecisionRests DEF d
  <2> QED
    BY <2>2 DEF Researched
<1>2. CASE relevant = {}
  <2>1. d = Missing(conflicts, alternatives, codes)
    BY <1>2 DEF Decision
  <2>2. d.conflicts = Ids(conflicts) /\ d.alternatives = Ids(alternatives)
    BY <2>1 DEF Missing, Undecided
  <2> HIDE DEF d
  <2>3. Ids(conflicts) \cup Ids(alternatives) \subseteq Shows(d)
    BY <2>2 DEF Shows
  <2>4. Ids(relevant \cup conflicts \cup alternatives) = Ids(conflicts) \cup Ids(alternatives)
    BY <1>2 DEF Ids
  <2> QED
    BY <1>1, <2>3, <2>4 DEF d
<1>3. CASE relevant # {}
  <2> DEFINE value == ChosenValue(relevant, identities, quality.score)
             known == relevant \cup conflicts
             support == {c \in known : c.value = value}
             against == {c \in known : c.value # value}
  <2>1. support \cup against \cup alternatives = relevant \cup conflicts \cup alternatives
    <3> HIDE DEF value
    <3> QED
      OBVIOUS
  <2>2. PICK scored, reasons : d = Settled(value, support, against, alternatives, scored, reasons)
    <3>1. d = ValueDecision(value, known, alternatives, codes, identities, quality)
      BY <1>3 DEF Decision
    <3> HIDE DEF d
    <3> QED
      BY <3>1 DEF ValueDecision, Supported, ScoredDecision
  <2> HIDE DEF value, support, against, d
  <2>3. Ids(support \cup against \cup alternatives) \subseteq Shows(d)
    BY <2>2, SettledKeeps
  <2> QED
    BY <1>1, <2>1, <2>3 DEF d
<1> QED
  BY <1>2, <1>3

\* What is decided about a field of a credential is a decision, ...
LEMMA EducationDecided ==
  ASSUME NEW f, NEW education, NEW i, NEW identities, NEW quality
  PROVE  IsDecision(EducationDecision(f, education, i, identities, quality))
<1>1. PICK relevant, others, codes :
        EducationDecision(f, education, i, identities, quality)
          = Decision(relevant, {}, others, codes, identities, quality)
  BY DEF EducationDecision
<1> QED
  BY <1>1, DecisionKeeps

\* The same evidence, with more alternatives perhaps.
SameEvidence(new, old) ==
  /\ IsDecision(new) /\ new.support = old.support /\ new.conflicts = old.conflicts
  /\ old.alternatives \subseteq new.alternatives

\* The spreadsheet takes no evidence away.
LEMMA FoundKeeps ==
  ASSUME NEW d, IsDecision(d), NEW status, NEW value, NEW researched, NEW confidence
  PROVE  /\ SameEvidence(Found(d, status, value, researched, confidence), d)
         /\ SameEvidence(AsSupplied(d, value, researched), d)
<1>1. ASSUME NEW s, NEW c
      PROVE  SameEvidence(Found(d, s, value, researched, c), d)
  BY DEF Found, SameEvidence, IsDecision, Undecided
<1> DEFINE found == Found(d, "supplied", value, researched, 0)
           new == [found EXCEPT !.confidence = 0]
<1>2. SameEvidence(found, d)
  BY <1>1
<1>3. AsSupplied(d, value, researched) = new
  BY DEF AsSupplied
<1> HIDE DEF found
<1>4. SameEvidence(new, d)
  BY <1>2 DEF SameEvidence, IsDecision, Undecided
<1> HIDE DEF new
<1> QED
  BY <1>1, <1>3, <1>4

LEMMA AttachKeeps ==
  ASSUME NEW fields, NEW f \in Fields, IsDecision(fields[f]),
         NEW seed, NEW attributes, NEW webName, NEW refused
  PROVE  SameEvidence(AttachSeedProvenance(fields, seed, attributes, webName, refused)[f], fields[f])
<1> DEFINE shown == Table([g \in Fields |-> Shown(fields, g)])
           supply == Table([g \in Fields |-> Supply(seed, attributes, g)])
           projected == Projected(shown, supply, refused)
<1>1. AttachSeedProvenance(fields, seed, attributes, webName, refused)
        = Attached(fields, shown, supply, projected, webName)
  BY DEF AttachSeedProvenance
<1> HIDE DEF shown, supply, projected
<1> DEFINE nameMatches == webName.value # 0 /\ webName.value = shown["full_name"]
           nameFound == nameMatches /\ webName.support # {}
           researched(g) == IF g # "full_name" THEN shown[g]
                            ELSE IF nameFound THEN webName.value ELSE 0
           confidence(g) ==
             CASE g = "full_name" -> IF nameMatches THEN webName.confidence ELSE 0
               [] g # "full_name" /\ fields[g].researchConfidence # -1 -> fields[g].researchConfidence
               [] g # "full_name" /\ fields[g].researchConfidence = -1 -> fields[g].confidence
           decided(g) ==
             IF g \in projected THEN AsSupplied(fields[g], supply[g].values[1], researched(g))
             ELSE Found(fields[g], ProvenanceStatus(g, shown[g], supply[g], nameFound), shown[g],
                        researched(g), confidence(g))
           beside(g, decision) ==
             IF supply[g].values = << >> THEN decision
             ELSE [decision EXCEPT !.supplied = ToSet(supply[g].values), !.agreeing = supply[g].agreeing]
           made == [g \in Fields |-> beside(g, decided(g))]
<1>2. Attached(fields, shown, supply, projected, webName) = made
  BY TableIs DEF Attached
<1>3. SameEvidence(decided(f), fields[f])
  <2> HIDE DEF researched, confidence, nameFound
  <2> QED
    BY FoundKeeps
<1> HIDE DEF decided
<1>4. SameEvidence(beside(f, decided(f)), fields[f])
  <2> DEFINE more == [decided(f) EXCEPT !.supplied = ToSet(supply[f].values),
                                        !.agreeing = supply[f].agreeing]
  <2>1. SameEvidence(more, fields[f])
    BY <1>3 DEF SameEvidence, IsDecision, Undecided
  <2>2. beside(f, decided(f)) \in {decided(f), more}
    OBVIOUS
  <2> HIDE DEF more, beside
  <2> QED
    BY <1>3, <2>1, <2>2
<1> HIDE DEF beside
<1> QED
  BY <1>1, <1>2, <1>4

\* What a record decides of a field of a role or a credential, before its link is chosen.
FirstDecision(f, i, employment, education, identities, quality) ==
  IF f \in Volatile THEN employment[f] ELSE EducationDecision(f, education, i, identities, quality)

\* The link, and the claims that were not confirmed, take no evidence away; the first record
\* shows those too.
LEMMA DecidedKeeps ==
  ASSUME NEW seed, NEW employment, \A f \in Volatile : IsDecision(employment[f]), NEW education,
         NEW unconfirmed, NEW evidence, NEW identities, NEW quality, NEW f \in Context
  PROVE  LET decided == Decided(seed, employment, education, unconfirmed, evidence, identities, quality)
         IN /\ DOMAIN decided = 1 .. Max({1, Len(education.clusters)})
            /\ \A i \in DOMAIN decided :
                 SameEvidence(decided[i][f],
                              FirstDecision(f, i, employment, education, identities, quality))
            /\ 1 \in DOMAIN decided => Ids(Of(unconfirmed, f)) \subseteq Shows(decided[1][f])
<1> DEFINE decided == Decided(seed, employment, education, unconfirmed, evidence, identities, quality)
           raw(i) == Table(Decisions(i, seed, employment, education, identities, quality))
           linked(i) == Linked(raw(i), evidence, identities, quality)
           n == Max({1, Len(education.clusters)})
           first(i) == FirstDecision(f, i, employment, education, identities, quality)
<1>1. /\ DOMAIN decided = 1 .. n
      /\ \A i \in 1 .. n :
           decided[i] = IF i = 1 THEN WithUnconfirmed(linked(i), unconfirmed) ELSE linked(i)
  BY DEF Decided
<1> HIDE DEF decided, n
<1>2. f \in Fields \ {"profile_link", "full_name"} /\ (f \in Volatile \/ f \in Education)
  BY DEF Fields, ResearchFields, Education, Volatile, Context
<1>3. ASSUME NEW i
      PROVE  linked(i)[f] = first(i) /\ IsDecision(first(i))
  <2>1. raw(i)[f] = first(i)
    <3>1. raw(i) = Decisions(i, seed, employment, education, identities, quality)
      BY TableIs
    <3>2. Decisions(i, seed, employment, education, identities, quality)[f] = first(i)
      BY <1>2 DEF Decisions, FirstDecision, Volatile, Education
    <3> QED
      BY <3>1, <3>2
  <2> HIDE DEF raw
  <2>2. linked(i)[f] = raw(i)[f]
    <3> DEFINE whole == [g \in Fields |->
             IF g = "profile_link" THEN RepresentativeLink(raw(i), evidence, identities, quality)
             ELSE raw(i)[g]]
    <3>1. linked(i) = whole
      BY TableIs DEF Linked
    <3> QED
      BY <1>2, <3>1
  <2>3. IsDecision(first(i))
    <3>1. CASE f \in Volatile
      BY <3>1 DEF FirstDecision
    <3>2. CASE f \notin Volatile
      <4>1. IsDecision(EducationDecision(f, education, i, identities, quality))
        BY EducationDecided
      <4> QED
        BY <3>2, <4>1 DEF FirstDecision
    <3> QED
      BY <3>1, <3>2
  <2> QED
    BY <2>1, <2>2, <2>3
<1> HIDE DEF linked, first
<1>4. ASSUME NEW i
      PROVE  /\ SameEvidence(WithUnconfirmed(linked(i), unconfirmed)[f], first(i))
             /\ Ids(Of(unconfirmed, f)) \subseteq Shows(WithUnconfirmed(linked(i), unconfirmed)[f])
  <2> DEFINE d == linked(i)[f]
             more == [d EXCEPT !.alternatives = @ \cup Ids(Of(unconfirmed, f)),
                               !.reasons = @ \cup {"IDENTITY_CONTEXT_UNCONFIRMED"}]
             new == WithUnconfirmed(linked(i), unconfirmed)[f]
  <2>1. new = IF Of(unconfirmed, f) = {} THEN d ELSE more
    BY <1>2 DEF WithUnconfirmed
  <2>2. IsDecision(d) /\ d = first(i)
    BY <1>3
  <2> HIDE DEF d, new
  <2>3. SameEvidence(d, d)
    BY <2>2 DEF SameEvidence
  <2>4. SameEvidence(more, d) /\ Ids(Of(unconfirmed, f)) \subseteq more.alternatives
    BY <2>2 DEF SameEvidence, IsDecision, Undecided
  <2> HIDE DEF more
  <2>5. CASE Of(unconfirmed, f) = {}
    <3>1. new = d /\ Ids(Of(unconfirmed, f)) = {}
      BY <2>1, <2>5 DEF Ids
    <3> QED
      BY <2>2, <2>3, <3>1 DEF new
  <2>6. CASE Of(unconfirmed, f) # {}
    BY <2>1, <2>2, <2>4, <2>6 DEF Shows, new
  <2> QED
    BY <2>5, <2>6
<1>5. \A i : SameEvidence(linked(i)[f], first(i))
  BY <1>3 DEF SameEvidence
<1>6. \A i \in DOMAIN decided : SameEvidence(decided[i][f], first(i))
  BY <1>1, <1>4, <1>5
<1>7. 1 \in DOMAIN decided => Ids(Of(unconfirmed, f)) \subseteq Shows(decided[1][f])
  BY <1>1, <1>4
<1> QED
  BY <1>1, <1>6, <1>7 DEF decided, n, first

\* A decision is made of every field of a role.
EachRoleDecided(seed, accepted) ==
  \A f \in Volatile : \A identities, quality :
    IsDecision(EmploymentDecisions(seed, accepted, identities, quality)[f])

\* The records of a profile show what was decided, and its own fields of a role are those of
\* the first, which also shows the claims that were not confirmed.
RecordsKeep(profile, f, employment, education, unconfirmed, identities, quality) ==
  /\ DOMAIN profile.records = 1 .. Max({1, Len(education.clusters)})
  /\ \A i \in DOMAIN profile.records :
       SameEvidence(profile.records[i].fields[f],
                    FirstDecision(f, i, employment, education, identities, quality))
  /\ 1 \in DOMAIN profile.records =>
       Ids(Of(unconfirmed, f)) \subseteq Shows(profile.records[1].fields[f])
  /\ f \in Volatile => profile.fields[f] = profile.records[1].fields[f]

\* So do the records of a profile, and its own fields of a role are those of the first.
LEMMA ProfileKeeps ==
  ASSUME NEW seed, NEW accepted, EachRoleDecided(seed, accepted), NEW unconfirmed, NEW origins, NEW refused, NEW identities, NEW quality, NEW f \in Context
  PROVE  RecordsKeep(Profile(seed, accepted, unconfirmed, origins, refused, identities, quality), f,
                     EmploymentDecisions(seed, accepted, identities, quality),
                     EducationClusters(accepted, identities), unconfirmed, identities, quality)
<1> DEFINE employment == EmploymentDecisions(seed, accepted, identities, quality)
           education == EducationClusters(accepted, identities)
           n == Max({1, Len(education.clusters)})
           decided == Decided(seed, employment, education, unconfirmed, ToSet(accepted), identities, quality)
           attributes == SuppliedAttributes(seed, ToSet(accepted), origins)
           webName == Decision(Of(ToSet(accepted), "full_name"), {}, {}, {}, identities, quality)
           raw == [i \in DOMAIN decided |-> RecordOf(decided[i], seed, attributes, webName, refused)]
           profile == Profile(seed, accepted, unconfirmed, origins, refused, identities, quality)
           first(i) == FirstDecision(f, i, employment, education, identities, quality)
<1>0. f \in Fields
  BY DEF Fields, ResearchFields, Context, Volatile, Education
<1>1. profile = ProfileOf(raw, attributes)
  <2>1. profile = Recorded(decided, seed, attributes, webName, refused)
    BY TableIs DEF Profile
  <2> HIDE DEF decided, attributes, webName, profile
  <2>2. Recorded(decided, seed, attributes, webName, refused) = ProfileOf(raw, attributes)
    BY TableIs DEF Recorded
  <2> QED
    BY <2>1, <2>2
<1>2. /\ DOMAIN decided = 1 .. n
      /\ \A i \in DOMAIN decided : SameEvidence(decided[i][f], first(i))
      /\ 1 \in DOMAIN decided => Ids(Of(unconfirmed, f)) \subseteq Shows(decided[1][f])
  <2> HIDE DEF employment, education
  <2>1. \A g \in Volatile : IsDecision(employment[g])
    BY DEF EachRoleDecided, employment
  <2> QED
    BY <2>1, DecidedKeeps
<1> HIDE DEF decided, attributes, webName, profile, n, first
<1>3. ASSUME NEW i \in DOMAIN decided
      PROVE  SameEvidence(raw[i].fields[f], decided[i][f])
  <2>1. raw[i] = RecordOf(decided[i], seed, attributes, webName, refused)
    OBVIOUS
  <2> HIDE DEF raw
  <2>2. raw[i].fields = AttachSeedProvenance(decided[i], seed, attributes, webName, refused)
    BY <2>1 DEF RecordOf
  <2>3. IsDecision(decided[i][f])
    BY <1>2 DEF SameEvidence
  <2> QED
    BY <1>0, <2>2, <2>3, AttachKeeps
<1>4. DOMAIN raw = DOMAIN decided
  OBVIOUS
<1> HIDE DEF raw
<1>5. profile.records = raw /\ (f \in Volatile => profile.fields[f] = raw[1].fields[f])
  <2> DEFINE elsewhere(g) == UNION {raw[i].fields[g].support \cup raw[i].fields[g].alternatives :
                                      i \in 2 .. Len(raw)}
             field(g) == IF g \notin Education THEN raw[1].fields[g]
                         ELSE [raw[1].fields[g] EXCEPT !.alternatives = @ \cup elsewhere(g)]
             whole == [g \in Fields |-> field(g)]
  <2>1. profile.records = raw /\ profile.fields = whole
    BY <1>1, TableIs DEF ProfileOf
  <2>2. f \in Volatile => f \notin Education
    BY DEF Volatile, Education
  <2>3. whole[f] = field(f)
    BY <1>0
  <2> HIDE DEF whole, elsewhere
  <2> QED
    BY <2>1, <2>2, <2>3
<1>6. \A i \in DOMAIN raw : SameEvidence(raw[i].fields[f], first(i))
  BY <1>2, <1>3, <1>4 DEF SameEvidence
<1>7. 1 \in DOMAIN raw => Ids(Of(unconfirmed, f)) \subseteq Shows(raw[1].fields[f])
  <2> SUFFICES ASSUME 1 \in DOMAIN raw PROVE Ids(Of(unconfirmed, f)) \subseteq Shows(raw[1].fields[f])
    OBVIOUS
  <2>1. SameEvidence(raw[1].fields[f], decided[1][f])
    BY <1>3, <1>4
  <2> QED
    BY <1>2, <1>4, <2>1 DEF SameEvidence, Shows
<1> QED
  BY <1>2, <1>4, <1>5, <1>6, <1>7 DEF profile, n, first, RecordsKeep

\* A claim as it is made: as relevant as its page, with a wording that may be used of the page,
\* and a university of no degree in particular.  Degrees are numbered.
Proper(c) ==
  /\ c.relevance = Source[c.source].identity /\ EligibleForSource(c)
  /\ c.field = "university_name" => c.of = {}
  /\ c.field = "degree_type" => c.value \in Int

\* All the claims of a source, or none.
WholeSources(X, E) == \A x \in X, c \in E : c.source = x.source => c \in X

\* reconcile decides by the claims of the sources it accepts, all of them, and notes the other
\* claims that it was free to use.
LEMMA ReconcileChooses ==
  ASSUME NEW seed, NEW claimed, IsSeq(claimed), \A c \in ToSet(claimed) : IsClaim(c) /\ Proper(c),
         NEW origins, NEW refused
  PROVE  \E accepted, unconfirmed, allowed, identities, quality :
           /\ Reconcile(seed, claimed, origins, refused)
                = Profile(seed, accepted, unconfirmed, allowed, refused, identities, quality)
           /\ IsSeq(accepted) /\ ToSet(accepted) \subseteq ToSet(claimed)
           /\ WholeSources(ToSet(accepted), ToSet(claimed)) /\ EachRoleDecided(seed, accepted)
           /\ \A c \in ToSet(claimed) :
                /\ c.source \in origins /\ Allowed(c.source, refused) /\ ~Source[c.source].rejected
                /\ Min({c.relevance, Source[c.source].identity}) >= Policy.identityMinimum
                => c \in ToSet(accepted) \/ c \in unconfirmed
<1> DEFINE allowed == {s \in origins : Allowed(s, refused)}
           MayUse(d) == d.source \in allowed /\ EligibleForSource(d)
           places == {i \in DOMAIN claimed : MayUse(claimed[i])}
           usable == Picked(claimed, places)
           eligible == EligibleSources(seed, ToSet(usable), allowed)
           sure(d) == ~Source[d.source].rejected
                      /\ Min({d.relevance, Source[d.source].identity}) >= Policy.identityMinimum
           Accepts(d) == d.source \in eligible /\ sure(d)
           chosen == {i \in DOMAIN usable : Accepts(usable[i])}
           accepted == Picked(usable, chosen)
           unconfirmed == {d \in ToSet(usable) : d.source \notin eligible /\ sure(d)}
           E == ToSet(claimed)
           A == ToSet(accepted)
<1>1. Reconcile(seed, claimed, origins, refused) = ReconcileUsable(seed, usable, allowed, refused)
  BY DEF Reconcile, Filter
<1>2. ReconcileUsable(seed, usable, allowed, refused)
        = ReconcileAccepted(seed, accepted, unconfirmed, allowed, refused)
  BY DEF ReconcileUsable, ReconcileEligible, Filter
<1>3. PICK identities, quality :
        ReconcileAccepted(seed, accepted, unconfirmed, allowed, refused)
          = Profile(seed, accepted, unconfirmed, allowed, refused, identities, quality)
  BY DEF ReconcileAccepted
<1> HIDE DEF eligible
<1>4. IsSeq(usable) /\ ToSet(usable) = {d \in E : MayUse(d)}
  <2>1. places \in SUBSET (DOMAIN claimed)
    OBVIOUS
  <2>2. IsSeq(usable) /\ ToSet(usable) = {claimed[i] : i \in places}
    <3> HIDE DEF places
    <3> QED
      BY <2>1, PickedSeq
  <2> HIDE DEF usable, MayUse
  <2> QED
    BY <2>2 DEF ToSet
<1> HIDE DEF usable
<1>5. IsSeq(accepted) /\ A = {d \in ToSet(usable) : Accepts(d)}
  <2>1. chosen \in SUBSET (DOMAIN usable)
    OBVIOUS
  <2>2. IsSeq(accepted) /\ A = {usable[i] : i \in chosen}
    <3> HIDE DEF chosen
    <3> QED
      BY <1>4, <2>1, PickedSeq
  <2> HIDE DEF accepted, Accepts, A
  <2> QED
    BY <2>2 DEF ToSet
<1> HIDE DEF accepted
<1>6. WholeSources(A, E)
  <2> SUFFICES ASSUME NEW x \in A, NEW d \in E, d.source = x.source
               PROVE  d \in A
    BY DEF WholeSources
  <2>1. MayUse(x) /\ Accepts(x) /\ x \in E
    BY <1>4, <1>5
  <2>2. Proper(x) /\ Proper(d)
    BY <2>1
  <2>3. d.relevance = x.relevance /\ EligibleForSource(d)
    BY <2>2 DEF Proper
  <2>4. MayUse(d) /\ Accepts(d)
    BY <2>1, <2>3
  <2> QED
    BY <1>4, <1>5, <2>4
<1>7. A \subseteq E
  BY <1>4, <1>5
<1>8. ASSUME NEW c \in E, c.source \in origins, Allowed(c.source, refused), sure(c)
      PROVE  c \in A \/ c \in unconfirmed
  <2>1. c.source \in allowed
    BY <1>8
  <2>2. EligibleForSource(c)
    BY DEF Proper
  <2>3. c \in ToSet(usable) /\ sure(c)
    BY <1>4, <1>8, <2>1, <2>2
  <2> HIDE DEF sure, A
  <2> QED
    BY <1>5, <2>3
<1>9. EachRoleDecided(seed, accepted)
  <2> SUFFICES \A g \in Volatile : \A ids, qs :
                 IsDecision(EmploymentDecisions(seed, accepted, ids, qs)[g])
    BY DEF EachRoleDecided
  <2> TAKE g \in Volatile
  <2> TAKE ids, qs
  <2>1. \A x \in ToSet(accepted) : IsClaim(x)
    BY <1>7
  <2>2. Researched(EmploymentDecisions(seed, accepted, ids, qs)[g], Ids(A))
    BY <1>5, <2>1, EmploymentRests DEF A
  <2> QED
    BY <2>2 DEF Researched
<1>10. Reconcile(seed, claimed, origins, refused)
         = Profile(seed, accepted, unconfirmed, allowed, refused, identities, quality)
  BY <1>1, <1>2, <1>3
<1> HIDE DEF unconfirmed, allowed
<1> QED
  BY <1>5, <1>6, <1>7, <1>8, <1>9, <1>10

-----------------------------------------------------------------------------
(* A bundle is a statement that one page makes.                            *)

\* A bundle is a statement: all the claims of E about some fields that one page makes
\* under one label, or one statement alone.
StatementOf(b, E, fields) ==
  /\ b.claims = {c \in E : c.field \in fields /\ c.source = b.source /\ GroupOf(c) = b.group}
  /\ b.grouped = (b.group[1] # 0)

\* The label of a claim is the first of what tells its statement.
LEMMA GroupLabel ==
  ASSUME NEW c
  PROVE  IsSeq(GroupOf(c)) /\ Len(GroupOf(c)) # 0 /\ GroupOf(c)[1] = c.group
<1>1. CASE c.group # 0
  <2>1. GroupOf(c) = <<c.group>>
    BY <1>1 DEF GroupOf
  <2>2. Len(<<c.group>>) = 1 /\ <<c.group>>[1] = c.group
    OBVIOUS
  <2> QED
    BY <2>1, <2>2, OneSeq
<1>2. CASE c.group = 0
  <2> DEFINE t == <<0, FieldRank[c.field], c.value, c.raw, c.asOf, c.year, CurrentRank[c.current], c.quote>>
  <2>1. GroupOf(c) = t
    BY <1>2 DEF GroupOf
  <2>2. t[1] = 0 /\ t = [i \in 1 .. 8 |-> t[i]]
    OBVIOUS
  <2> HIDE DEF t
  <2>3. IsSeq(t) /\ Len(t) = 8
    BY <2>2, SeqMade
  <2> QED
    BY <1>2, <2>1, <2>2, <2>3
<1> QED
  BY <1>1, <1>2

\* _build_bundles leaves out no claim, and divides none of the statements.
LEMMA BuildBundlesState ==
  ASSUME NEW claimed, IsSeq(claimed), NEW fields
  PROVE  /\ \A b \in ToSet(BuildBundles(claimed, fields)) : StatementOf(b, ToSet(claimed), fields)
         /\ \A c \in ToSet(claimed) : c.field \in fields =>
              \E b \in ToSet(BuildBundles(claimed, fields)) : c \in b.claims
<1> DEFINE E == ToSet(claimed)
           places == {i \in DOMAIN claimed : claimed[i].field \in fields}
           kept == Picked(claimed, places)
           key(c) == <<c.source, GroupOf(c)>>
           t == [i \in DOMAIN kept |-> key(kept[i])]
           keys == Table(Distinct(Table(t)))
           bundle == [k \in DOMAIN keys |->
             [source |-> keys[k][1], group |-> keys[k][2], grouped |-> keys[k][2][1] # 0,
              claims |-> {c \in ToSet(kept) : key(c) = keys[k]}]]
<1>1. BuildBundles(claimed, fields) = bundle
  <2>1. BuildBundles(claimed, fields) = Table(bundle)
    BY DEF BuildBundles, Filter
  <2> HIDE DEF bundle
  <2> QED
    BY <2>1, TableIs
<1>2. IsSeq(kept) /\ ToSet(kept) = {c \in E : c.field \in fields}
  <2>1. places \in SUBSET (DOMAIN claimed) /\ {claimed[i] : i \in places} = {c \in E : c.field \in fields}
    BY DEF ToSet
  <2> HIDE DEF places
  <2> QED
    BY <2>1, PickedSeq
<1> HIDE DEF kept
<1>3. Len(kept) \in Nat /\ DOMAIN kept = 1 .. Len(kept)
  BY <1>2, SeqFacts
<1>4. IsSeq(t)
  <2>1. t = [i \in 1 .. Len(kept) |-> t[i]]
    BY <1>3
  <2> HIDE DEF t
  <2> QED
    BY <1>3, <2>1, SeqMade
<1>5. \A c \in ToSet(kept) : key(c) \in ToSet(t)
  BY DEF ToSet
<1>6. \A x \in ToSet(t) : \E c \in ToSet(kept) : x = key(c)
  BY DEF ToSet
<1>7. keys = Distinct(t)
  BY TableIs
<1> HIDE DEF t, keys
<1>8. ToSet(keys) = ToSet(t)
  BY <1>4, <1>7, DistinctSeq
<1>9. ASSUME NEW k \in DOMAIN keys
      PROVE  StatementOf(bundle[k], E, fields)
  <2> DEFINE b == bundle[k]
  <2>1. /\ b.source = keys[k][1] /\ b.group = keys[k][2] /\ b.grouped = (keys[k][2][1] # 0)
        /\ b.claims = {c \in ToSet(kept) : key(c) = keys[k]}
    OBVIOUS
  <2>2. PICK e \in ToSet(kept) : keys[k] = key(e)
    BY <1>6, <1>8 DEF ToSet
  <2>3. \A c : key(c) = keys[k] <=> c.source = keys[k][1] /\ GroupOf(c) = keys[k][2]
    BY <2>2
  <2> HIDE DEF b, key
  <2>4. b.claims = {c \in E : c.field \in fields /\ c.source = b.source /\ GroupOf(c) = b.group}
    BY <1>2, <2>1, <2>3
  <2> QED
    BY <2>1, <2>4 DEF StatementOf, b
<1>10. ASSUME NEW c \in E, c.field \in fields
       PROVE  \E b \in ToSet(bundle) : c \in b.claims
  <2>1. c \in ToSet(kept)
    BY <1>2, <1>10
  <2>2. PICK k \in DOMAIN keys : key(c) = keys[k]
    BY <1>5, <1>8, <2>1 DEF ToSet
  <2>3. bundle[k] \in ToSet(bundle) /\ c \in bundle[k].claims
    <3>1. bundle[k].claims = {d \in ToSet(kept) : key(d) = keys[k]} /\ k \in DOMAIN bundle
      OBVIOUS
    <3> HIDE DEF bundle, key
    <3> QED
      BY <2>1, <2>2, <3>1 DEF ToSet
  <2> HIDE DEF bundle
  <2> QED
    BY <2>3
<1>11. \A b \in ToSet(bundle) : \E k \in DOMAIN keys : b = bundle[k]
  BY DEF ToSet
<1> HIDE DEF bundle
<1> QED
  BY <1>1, <1>9, <1>10, <1>11

\* The claims of a statement share a page and a label; one that has no label has one value.
LEMMA OneStatementOf ==
  ASSUME NEW b, NEW E, NEW fields, StatementOf(b, E, fields), NEW c \in b.claims
  PROVE  /\ c.source = b.source /\ c.group = b.group[1] /\ c \in E /\ c.field \in fields
         /\ c.group = 0 => \A d \in b.claims : d.value = c.value
<1>1. c.source = b.source /\ GroupOf(c) = b.group /\ c \in E /\ c.field \in fields
  BY DEF StatementOf
<1>2. c.group = b.group[1]
  BY <1>1, GroupLabel
<1>3. ASSUME c.group = 0, NEW d \in b.claims
      PROVE  d.value = c.value
  <2>1. GroupOf(d) = GroupOf(c)
    BY <1>1 DEF StatementOf
  <2>2. d.group = 0
    BY <1>1, <1>2, <1>3, <2>1, GroupLabel
  <2>3. /\ GroupOf(c) = <<0, FieldRank[c.field], c.value, c.raw, c.asOf, c.year, CurrentRank[c.current], c.quote>>
        /\ GroupOf(d) = <<0, FieldRank[d.field], d.value, d.raw, d.asOf, d.year, CurrentRank[d.current], d.quote>>
    BY <1>3, <2>2 DEF GroupOf
  <2> QED
    BY <2>1, <2>3
<1> QED
  BY <1>1, <1>2, <1>3

-----------------------------------------------------------------------------
(* Degrees that a page lists apart do not support one record.              *)

\* A bundle as the page lists it, among the claims of E: one statement of one
\* source, with all the universities of the statement if it has a label.
Listing(b, E) ==
  \A c \in b.claims :
    /\ b.source = c.source /\ (c.group # 0 => b.grouped)
    /\ b.group \in Seq(ToSet(b.group)) /\ Len(b.group) # 0 /\ b.group[1] = c.group
    /\ c.group # 0 =>
         \A d \in Of(E, "university_name") : d.source = c.source /\ d.group = c.group => d \in b.claims

\* _build_bundles gives each statement a bundle.
LEMMA BuildBundlesListing ==
  ASSUME NEW claimed, IsSeq(claimed)
  PROVE  \A k \in DOMAIN BuildBundles(claimed, Education) :
           Listing(BuildBundles(claimed, Education)[k], ToSet(claimed))
<1> DEFINE E == ToSet(claimed)
<1> SUFFICES ASSUME NEW b, StatementOf(b, E, Education)
             PROVE  Listing(b, E)
  BY BuildBundlesState DEF ToSet
<1> SUFFICES ASSUME NEW c \in b.claims
             PROVE  /\ b.source = c.source /\ (c.group # 0 => b.grouped)
                    /\ b.group \in Seq(ToSet(b.group)) /\ Len(b.group) # 0 /\ b.group[1] = c.group
                    /\ c.group # 0 =>
                         \A d \in Of(E, "university_name") :
                           d.source = c.source /\ d.group = c.group => d \in b.claims
  BY DEF Listing
<1>1. c.source = b.source /\ GroupOf(c) = b.group /\ b.grouped = (b.group[1] # 0)
  BY DEF StatementOf
<1>2. ASSUME c.group # 0, NEW d \in Of(E, "university_name"), d.source = c.source, d.group = c.group
      PROVE  d \in b.claims
  <2>1. GroupOf(d) = GroupOf(c) /\ d.field \in Education /\ d \in E
    BY <1>2 DEF GroupOf, Of, Education
  <2> QED
    BY <1>1, <1>2, <2>1 DEF StatementOf
<1> QED
  BY <1>1, <1>2, GroupLabel DEF IsSeq

\* What the model says of a university is of no degree in particular.
OfNoDegree(E) == \A d \in Of(E, "university_name") : d.of = {}

\* Each part of a list of degrees has the universities of the list, ...
LEMMA SplitCompoundListing ==
  ASSUME NEW E, OfNoDegree(E), NEW b, Listing(b, E)
  PROVE  \A i \in DOMAIN SplitCompound(b) : Listing(SplitCompound(b)[i], E)
<1> DEFINE levels == ValuesOf(Of(b.claims, "degree_type"), "degree_type")
           own(level) == {c \in b.claims :
                       IF c.field = "degree_type" THEN c.value = level
                       ELSE c.of \subseteq AnyDegree \/ level \in c.of}
           part(level) == [source |-> b.source, group |-> b.group \o <<level>>,
                      grouped |-> TRUE, claims |-> own(level)]
           ordered == Ascending(levels)
           parts == [i \in DOMAIN ordered |-> part(ordered[i])]
<1>1. SplitCompound(b) = parts \/ SplitCompound(b) = <<b>>
  BY DEF SplitCompound
<1>2. ASSUME NEW level
      PROVE  Listing(part(level), E)
  <2> DEFINE p == part(level)
  <2>1. /\ p.source = b.source /\ p.group = b.group \o <<level>> /\ p.grouped
        /\ p.claims = own(level)
    OBVIOUS
  <2>2. own(level) \subseteq b.claims
        /\ \A d \in b.claims : d.field = "university_name" /\ d.of = {} => d \in own(level)
    OBVIOUS
  <2> HIDE DEF own, p
  <2>3. ASSUME NEW c \in p.claims
        PROVE  p.group \in Seq(ToSet(p.group)) /\ Len(p.group) # 0 /\ p.group[1] = c.group
    <3>1. /\ IsSeq(b.group) /\ Len(b.group) # 0 /\ b.group[1] = c.group
          /\ Len(b.group) \in Nat
      BY <2>1, <2>2, SeqFacts DEF Listing, IsSeq
    <3>2. IsSeq(p.group)
      BY <2>1, <3>1, OneSeq, ConcatSeq
    <3> DEFINE S == ToSet(b.group) \cup {level}
    <3>3. b.group \in Seq(S) /\ <<level>> \in Seq(S)
      BY <3>1, OneSeq, SeqIn
    <3> HIDE DEF S
    <3>4. Len(p.group) = Len(b.group) + Len(<<level>>) /\ p.group[1] = b.group[1]
      BY <2>1, <3>1, <3>3, ConcatProperties
    <3> QED
      BY <3>1, <3>2, <3>4 DEF IsSeq
  <2>4. \A c \in p.claims : c \in b.claims
    BY <2>1, <2>2
  <2>5. \A d \in Of(E, "university_name") : d \in b.claims => d \in p.claims
    BY <2>1, <2>2 DEF OfNoDegree, Of
  <2>6. Listing(p, E)
    BY <2>1, <2>3, <2>4, <2>5 DEF Listing
  <2> QED
    BY <2>6 DEF p
<1>3. \A i \in DOMAIN parts : Listing(parts[i], E)
  <2> HIDE DEF part
  <2> QED
    BY <1>2
<1>4. \A i \in DOMAIN <<b>> : Listing(<<b>>[i], E)
  OBVIOUS
<1> HIDE DEF parts
<1> QED
  BY <1>1, <1>3, <1>4

\* ... and so has each bundle that is placed.
LEMMA PlacedListing ==
  ASSUME NEW claimed, IsSeq(claimed), OfNoDegree(ToSet(claimed)), NEW C, IsFiniteSet(C), ToSet(claimed) \subseteq C
  PROVE  \A b \in Placed(SplitBundles(BuildBundles(claimed, Education))) : Listing(b, ToSet(claimed))
<1> DEFINE E == ToSet(claimed)
           built == BuildBundles(claimed, Education)
           seqs == [i \in DOMAIN built |-> SplitCompound(built[i])]
           bundles == SplitBundles(built)
<1>1. AreBundles(built, C)
  BY BuildBundlesType
<1>2. \A k \in DOMAIN built : Listing(built[k], E)
  BY BuildBundlesListing
<1> HIDE DEF built, E
<1>3. \A i \in DOMAIN seqs : AreBundles(seqs[i], C) /\ \A j \in DOMAIN seqs[i] : Listing(seqs[i][j], E)
  BY <1>1, <1>2, SplitCompoundType, SplitCompoundListing DEF AreBundles, E
<1>4. IsSeq(seqs)
  <2>1. Len(built) \in Nat /\ DOMAIN built = 1 .. Len(built)
    BY <1>1, SeqFacts DEF AreBundles
  <2>2. seqs = [i \in 1 .. Len(built) |-> seqs[i]]
    BY <2>1
  <2> HIDE DEF seqs
  <2> QED
    BY <2>1, <2>2, SeqMade
<1>5. bundles = Concatenated(seqs)
  BY DEF SplitBundles
<1> HIDE DEF seqs
<1>6. \A b \in ToSet(bundles) : Listing(b, E) /\ IsBundle(b, C)
  <2>1. \A b \in ToSet(bundles) : \E i \in DOMAIN seqs : b \in ToSet(seqs[i])
    BY <1>3, <1>4, <1>5, ConcatenatedSeq DEF AreBundles
  <2> QED
    BY <1>3, <2>1 DEF ToSet, AreBundles
<1> HIDE DEF bundles
<1>7. ASSUME NEW b \in ToSet(bundles), RealDegrees(b) # {}
      PROVE  Listing(Real(b), E)
  <2> DEFINE r == Real(b)
  <2>1. /\ r.source = b.source /\ r.group = b.group /\ r.grouped = b.grouped
        /\ r.claims = b.claims \ Unreal(b)
    BY <1>6 DEF Real, IsBundle
  <2>2. \A d \in Of(E, "university_name") : d \in b.claims => d \in r.claims
    BY <1>7, <2>1 DEF Unreal, Degrees, RealDegrees, Of
  <2> HIDE DEF r
  <2>3. Listing(b, E)
    BY <1>6
  <2>4. Listing(r, E)
    BY <2>1, <2>2, <2>3 DEF Listing
  <2> QED
    BY <2>4 DEF r
<1> QED
  BY <1>6, <1>7 DEF Placed, bundles, built, E

\* The claims of the statement that c is part of.
Listed(c, E) == {d \in E : d.source = c.source /\ d.group = c.group}

\* Degrees that no page lists apart, among the claims of E.
ApartDegrees(X, E) ==
  \A c, d \in X :
    c.source = d.source /\ c.group # 0 /\ d.group # 0
      => ~FieldConflicts(Listed(c, E), Listed(d, E), "university_name")

\* Whether universities conflict depends on the universities alone.
LEMMA SameUniversities ==
  ASSUME NEW S, NEW T, NEW U, NEW V,
         Of(S, "university_name") = Of(U, "university_name"),
         Of(T, "university_name") = Of(V, "university_name"),
         FieldConflicts(S, T, "university_name")
  PROVE  FieldConflicts(U, V, "university_name")
BY DEF FieldConflicts, FieldOverlaps, ValuesOf

\* Universities of one statement do not conflict with themselves.
LEMMA OneStatement ==
  ASSUME NEW S
  PROVE  ~FieldConflicts(S, S, "university_name")
BY DEF FieldConflicts, FieldOverlaps, ValuesOf

\* A bundle has the universities of each labelled statement in it.
LEMMA ListingUniversities ==
  ASSUME NEW E, NEW b, b.claims \subseteq E, Listing(b, E), NEW c \in b.claims, c.group # 0
  PROVE  Of(b.claims, "university_name") = Of(Listed(c, E), "university_name")
<1>1. ASSUME NEW u \in Of(b.claims, "university_name")
      PROVE  u \in Of(Listed(c, E), "university_name")
  <2>1. u \in b.claims /\ u.field = "university_name"
    BY DEF Of
  <2>2. b.source = u.source /\ b.group[1] = u.group /\ b.source = c.source /\ b.group[1] = c.group
    BY <2>1 DEF Listing
  <2> QED
    BY <2>1, <2>2 DEF Listed, Of
<1>2. ASSUME NEW u \in Of(Listed(c, E), "university_name")
      PROVE  u \in Of(b.claims, "university_name")
  <2>1. /\ u \in Of(E, "university_name") /\ u.field = "university_name"
        /\ u.source = c.source /\ u.group = c.group
    BY DEF Listed, Of
  <2>2. u \in b.claims
    BY <2>1 DEF Listing
  <2> QED
    BY <2>1, <2>2 DEF Of
<1> QED
  BY <1>1, <1>2

\* The degrees of a credential are listed apart by no page.
LEMMA CredentialApart ==
  ASSUME NEW E, NEW B, \A b \in B : b.claims \subseteq E /\ Listing(b, E),
         NEW x \in Credential(B, E)
  PROVE  ApartDegrees(Of(ClaimsOf(x), "degree_type"), E)
<1>1. x.bundles \in Seq(B) /\ KeptApart(x)
  BY DEF Credential, Cluster
<1>2. \A i \in DOMAIN x.bundles : x.bundles[i] \in B
  BY <1>1, LenProperties, ElementOfSeq
<1>3. ASSUME NEW a \in B, NEW b \in B, ~ListedApart(a, b), NEW c \in Degrees(a), NEW d \in Degrees(b),
             c.source = d.source, c.group # 0, d.group # 0
      PROVE  ~FieldConflicts(Listed(c, E), Listed(d, E), "university_name")
  <2>1. c \in a.claims /\ d \in b.claims
    BY DEF Degrees, Of
  <2>2. CASE c.group = d.group
    <3>1. Listed(c, E) = Listed(d, E)
      BY <1>3, <2>2 DEF Listed
    <3> QED
      BY <3>1, OneStatement
  <2>3. CASE c.group # d.group
    <3>1. /\ a.source = c.source /\ a.grouped /\ a.group[1] = c.group
          /\ b.source = d.source /\ b.grouped /\ b.group[1] = d.group
      BY <1>3, <2>1 DEF Listing
    <3>2. a.group # b.group /\ a.source = b.source
      BY <1>3, <2>3, <3>1
    <3>3. ~FieldConflicts(a.claims, b.claims, "university_name")
      BY <1>3, <3>1, <3>2 DEF ListedApart
    <3>4. /\ Of(a.claims, "university_name") = Of(Listed(c, E), "university_name")
          /\ Of(b.claims, "university_name") = Of(Listed(d, E), "university_name")
      BY <1>3, <2>1, ListingUniversities
    <3> QED
      BY <3>3, <3>4, SameUniversities
  <2> QED
    BY <2>2, <2>3
<1>4. ASSUME NEW c \in Of(ClaimsOf(x), "degree_type"), NEW d \in Of(ClaimsOf(x), "degree_type"),
             c.source = d.source, c.group # 0, d.group # 0
      PROVE  ~FieldConflicts(Listed(c, E), Listed(d, E), "university_name")
  <2>1. PICK i \in DOMAIN x.bundles : c \in Degrees(x.bundles[i])
    BY DEF Of, ClaimsOf, Degrees
  <2>2. PICK j \in DOMAIN x.bundles : d \in Degrees(x.bundles[j])
    BY DEF Of, ClaimsOf, Degrees
  <2>3. ~ListedApart(x.bundles[i], x.bundles[j])
    BY <1>1 DEF KeptApart
  <2> QED
    BY <1>2, <1>3, <1>4, <2>1, <2>2, <2>3
<1> QED
  BY <1>4 DEF ApartDegrees

\* The degrees of the i-th credential, if there is any.
DegreesOf(education, i) ==
  IF education.clusters = << >> THEN {} ELSE Of(ClaimsOf(education.clusters[i]), "degree_type")

\* They are claims, and no page lists them apart.
LEMMA EducationApart ==
  ASSUME NEW accepted, IsSeq(accepted), OfNoDegree(ToSet(accepted)), NEW identities, NEW i,
         EducationClusters(accepted, identities).clusters # << >>
           => i \in DOMAIN EducationClusters(accepted, identities).clusters
  PROVE  LET X == DegreesOf(EducationClusters(accepted, identities), i)
         IN X \subseteq ToSet(accepted) /\ ApartDegrees(X, ToSet(accepted))
<1> DEFINE education == EducationClusters(accepted, identities)
           E == ToSet(accepted)
           B == Placed(SplitBundles(BuildBundles(accepted, Education)))
           X == DegreesOf(education, i)
<1>1. IsFiniteSet(E)
  BY SeqFacts
<1>2. AreClusters(education.clusters, E) /\ education.clusters \in Seq(Credential(B, E))
  BY <1>1, EducationType
<1>3. \A b \in B : b.claims \subseteq E /\ Listing(b, E)
  <2>1. \A b \in B : Listing(b, E)
    BY <1>1, PlacedListing
  <2>2. AreBundles(SplitBundles(BuildBundles(accepted, Education)), E)
    BY <1>1, BuildBundlesType, SplitBundlesType
  <2>3. \A b \in ToSet(SplitBundles(BuildBundles(accepted, Education))) : IsBundle(b, E)
    BY <2>2 DEF AreBundles, ToSet
  <2>4. \A b \in B : b.claims \subseteq E
    BY <2>3 DEF Placed, Real, IsBundle
  <2> QED
    BY <2>1, <2>4
<1> HIDE DEF education, E, B
<1>4. CASE education.clusters = << >>
  <2>1. X = {}
    BY <1>4 DEF DegreesOf
  <2> QED
    BY <2>1 DEF ApartDegrees, education, E
<1>5. CASE education.clusters # << >>
  <2>1. i \in DOMAIN education.clusters
    BY <1>5 DEF education
  <2>2. education.clusters[i] \in Credential(B, E) /\ ClaimsOf(education.clusters[i]) \subseteq E
    BY <1>2, <2>1, SeqTyped DEF AreClusters
  <2>3. X = Of(ClaimsOf(education.clusters[i]), "degree_type")
    BY <1>5 DEF DegreesOf
  <2>4. ApartDegrees(X, E)
    BY <1>3, <2>2, <2>3, CredentialApart
  <2>5. X \subseteq E
    BY <2>2, <2>3 DEF Of
  <2> QED
    BY <2>4, <2>5 DEF education, E
<1> QED
  BY <1>4, <1>5

\* A decision supported by claims in K.
Supports(d, K) == IsDecision(d) /\ d.support \subseteq K

\* _decision: only claims for the field support a value.
LEMMA SettledSupport ==
  ASSUME NEW value, NEW support, NEW against, NEW alternatives, NEW scored, NEW reasons
  PROVE  Supports(Settled(value, support, against, alternatives, scored, reasons), Ids(support))
<1>1. CASE scored.score < Policy.selection
  BY <1>1 DEF Settled, Supports, IsDecision, Undecided
<1>2. CASE ~(scored.score < Policy.selection)
  BY <1>2 DEF Settled, Supports, IsDecision, Undecided
<1> QED
  BY <1>1, <1>2

LEMMA DecisionSupport ==
  ASSUME NEW relevant, NEW alternatives, NEW codes, NEW identities, NEW quality
  PROVE  Supports(Decision(relevant, {}, alternatives, codes, identities, quality), Ids(relevant))
<1>1. CASE relevant = {}
  <2>1. Supports(Missing({}, alternatives, codes), Ids(relevant))
    BY DEF Missing, Supports, IsDecision, Undecided
  <2> QED
    BY <1>1, <2>1 DEF Decision
<1>2. CASE relevant # {}
  <2> DEFINE value == ChosenValue(relevant, identities, quality.score)
             known == relevant \cup {}
             support == {c \in known : c.value = value}
             against == {c \in known : c.value # value}
  <2>1. Ids(support) \subseteq Ids(relevant)
    <3> HIDE DEF value
    <3> QED
      BY DEF Ids
  <2>2. PICK scored, reasons : Decision(relevant, {}, alternatives, codes, identities, quality)
                                 = Settled(value, support, against, alternatives, scored, reasons)
    <3>1. Decision(relevant, {}, alternatives, codes, identities, quality)
            = ValueDecision(value, known, alternatives, codes, identities, quality)
      BY <1>2 DEF Decision
    <3> QED
      BY <3>1 DEF ValueDecision, Supported, ScoredDecision
  <2> HIDE DEF value, known, support, against
  <2>3. Supports(Settled(value, support, against, alternatives, scored, reasons), Ids(support))
    BY SettledSupport
  <2> QED
    BY <2>1, <2>2, <2>3 DEF Supports
<1> QED
  BY <1>1, <1>2

\* A degree of a record is supported by the degrees of its credential alone.
LEMMA DegreeSupport ==
  ASSUME NEW education, NEW i, NEW identities, NEW quality
  PROVE  Supports(EducationDecision("degree_type", education, i, identities, quality),
                  Ids(DegreesOf(education, i)))
<1> DEFINE f == "degree_type"
           empty == [bundles |-> << >>, alternatives |-> {}, ambiguous |-> FALSE]
           cluster == IF education.clusters = << >> THEN empty ELSE education.clusters[i]
           own == Of(cluster.alternatives, f)
           excluded == IF i = 1 THEN Of(education.excluded, f) ELSE {}
           orphans == IF i = 1 THEN Of(education.orphans, f) ELSE {}
           code(c, holds) == IF holds THEN {c} ELSE {}
           unclear == \E c \in excluded : QuotedKind(c) = "ambiguous"
           codes == code("EDUCATION_GROUPING_AMBIGUITY", cluster.ambiguous)
               \cup code("AMBIGUOUS_EDUCATION", unclear)
               \cup code("NON_DEGREE_EDUCATION", excluded # {} /\ ~unclear)
               \cup code("UNPAIRED_FACT", own # {})
               \cup code("ORPHAN_EDUCATION_FRAGMENT", orphans # {})
           others == own \cup excluded \cup orphans
<1>1. EducationDecision("degree_type", education, i, identities, quality)
        = Decision(Of(ClaimsOf(cluster), "degree_type"), {}, others, codes, identities, quality)
  BY DEF EducationDecision
<1>2. Of(ClaimsOf(cluster), "degree_type") = DegreesOf(education, i)
  <2>1. CASE education.clusters = << >>
    <3>1. cluster = empty
      BY <2>1
    <3>2. Of(ClaimsOf(empty), "degree_type") = {}
      BY DEF ClaimsOf, Of
    <3> HIDE DEF empty, cluster
    <3> QED
      BY <2>1, <3>1, <3>2 DEF DegreesOf
  <2>2. CASE education.clusters # << >>
    BY <2>2 DEF DegreesOf
  <2> QED
    BY <2>1, <2>2
<1> HIDE DEF cluster, others, codes
<1> QED
  BY <1>1, <1>2, DecisionSupport

\* Each record is of one credential, if there is any.
LEMMA RecordCounts ==
  ASSUME NEW accepted, IsSeq(accepted), NEW identities,
         NEW i \in 1 .. Max({1, Len(EducationClusters(accepted, identities).clusters)}),
         EducationClusters(accepted, identities).clusters # << >>
  PROVE  i \in DOMAIN EducationClusters(accepted, identities).clusters
<1> DEFINE clusters == EducationClusters(accepted, identities).clusters
           C == ToSet(accepted)
<1>1. AreClusters(clusters, C)
  <2>1. IsFiniteSet(C)
    BY SeqFacts
  <2> QED
    BY <2>1, EducationType
<1> HIDE DEF clusters
<1>2. IsSeq(clusters) /\ Len(clusters) \in Nat /\ DOMAIN clusters = 1 .. Len(clusters)
  BY <1>1, SeqFacts DEF AreClusters
<1> DEFINE m == Len(clusters)
           n == Max({1, m})
<1>3. 1 \in DOMAIN clusters
  BY <1>2, NotEmpty DEF clusters
<1>4. n \in {1, m}
  <2>1. 1 \in Int /\ m \in Int
    BY <1>2
  <2> HIDE DEF m, n
  <2> QED
    BY <2>1, MaxOfTwo DEF n
<1>5. i \in 1 .. n
  BY DEF clusters
<1> HIDE DEF n, m
<1>6. m \in Nat /\ DOMAIN clusters = 1 .. m
  BY <1>2 DEF m
<1>7. i \in DOMAIN clusters
  BY <1>3, <1>4, <1>5, <1>6
<1> QED
  BY <1>7 DEF clusters

\* reconcile gives each record degrees that no page lists apart.
LEMMA ReconcileApart ==
  ASSUME NEW seed, NEW claimed, IsSeq(claimed), \A c \in ToSet(claimed) : IsClaim(c) /\ Proper(c),
         NEW origins, NEW refused
  PROVE  \A i \in DOMAIN Reconcile(seed, claimed, origins, refused).records :
           \E X \in SUBSET ToSet(claimed) :
             /\ Supports(Reconcile(seed, claimed, origins, refused).records[i].fields["degree_type"], Ids(X))
             /\ ApartDegrees(X, ToSet(claimed))
<1> DEFINE profile == Reconcile(seed, claimed, origins, refused)
           E == ToSet(claimed)
<1>1. PICK accepted, unconfirmed, allowed, identities, quality :
        /\ profile = Profile(seed, accepted, unconfirmed, allowed, refused, identities, quality)
        /\ IsSeq(accepted) /\ ToSet(accepted) \subseteq E
        /\ WholeSources(ToSet(accepted), E) /\ EachRoleDecided(seed, accepted)
  BY ReconcileChooses
<1> DEFINE A == ToSet(accepted)
           education == EducationClusters(accepted, identities)
           employment == EmploymentDecisions(seed, accepted, identities, quality)
<1> HIDE DEF profile
<1>2. OfNoDegree(A)
  BY <1>1 DEF OfNoDegree, Of, Proper
<1>3. ASSUME NEW c \in A
      PROVE  Of(Listed(c, A), "university_name") = Of(Listed(c, E), "university_name")
  BY <1>1 DEF Of, Listed, WholeSources
<1>4. "degree_type" \in Context /\ "degree_type" \notin Volatile
  BY DEF Context, Education, Volatile
<1>5. RecordsKeep(profile, "degree_type", employment, education, unconfirmed, identities, quality)
  BY <1>1, <1>4, ProfileKeeps
<1> HIDE DEF education, employment
<1>6. ASSUME NEW i \in DOMAIN profile.records
      PROVE  \E X \in SUBSET E : /\ Supports(profile.records[i].fields["degree_type"], Ids(X))
                                 /\ ApartDegrees(X, E)
  <2> DEFINE X == DegreesOf(education, i)
  <2>1. education.clusters # << >> => i \in DOMAIN education.clusters
    BY <1>1, <1>5, RecordCounts DEF RecordsKeep, education
  <2>2. X \subseteq A /\ ApartDegrees(X, A)
    BY <1>1, <1>2, <2>1, EducationApart DEF education
  <2>3. Supports(profile.records[i].fields["degree_type"], Ids(X))
    <3>1. SameEvidence(profile.records[i].fields["degree_type"],
                       EducationDecision("degree_type", education, i, identities, quality))
      BY <1>4, <1>5 DEF RecordsKeep, FirstDecision
    <3>2. Supports(EducationDecision("degree_type", education, i, identities, quality), Ids(X))
      BY DegreeSupport
    <3> QED
      BY <3>1, <3>2 DEF Supports, SameEvidence
  <2> HIDE DEF X, A, E
  <2>4. ApartDegrees(X, E)
    <3> SUFFICES ASSUME NEW c \in X, NEW d \in X, c.source = d.source, c.group # 0, d.group # 0,
                        FieldConflicts(Listed(c, E), Listed(d, E), "university_name")
                 PROVE  FALSE
      BY DEF ApartDegrees
    <3>1. ~FieldConflicts(Listed(c, A), Listed(d, A), "university_name")
      BY <2>2 DEF ApartDegrees
    <3>2. /\ Of(Listed(c, E), "university_name") = Of(Listed(c, A), "university_name")
          /\ Of(Listed(d, E), "university_name") = Of(Listed(d, A), "university_name")
      BY <1>3, <2>2
    <3> QED
      BY <3>1, <3>2, SameUniversities
  <2> QED
    BY <1>1, <2>2, <2>3, <2>4 DEF A, E
<1> QED
  BY <1>6 DEF profile

-----------------------------------------------------------------------------
(* What is known of a role or a credential is shown.                       *)

\* The subject that a page spells out with a degree has the degree beside it.
Accompanied(E) ==
  \A c \in E :
    \/ c.of \subseteq AnyDegree
    \/ \E d \in E : /\ d.field = "degree_type" /\ d.source = c.source /\ d.group = c.group
                   /\ d.value \in c.of

\* Degrees are numbered.
DegreesNumbered(E) == \A c \in Of(E, "degree_type") : c.value \in Int

\* A literal list is divided, and nothing of it is lost.
LEMMA SplitCompoundState ==
  ASSUME NEW E, IsFiniteSet(E), Accompanied(E), DegreesNumbered(E), NEW b, StatementOf(b, E, Education),
         NEW c \in b.claims
  PROVE  \E x \in ToSet(SplitCompound(b)) : c \in x.claims
<1> DEFINE levels == ValuesOf(Of(b.claims, "degree_type"), "degree_type")
           own(level) == {d \in b.claims :
                       IF d.field = "degree_type" THEN d.value = level
                       ELSE d.of \subseteq AnyDegree \/ level \in d.of}
           part(level) == [source |-> b.source, group |-> b.group \o <<level>>,
                      grouped |-> TRUE, claims |-> own(level)]
           ordered == Ascending(levels)
           parts == [i \in DOMAIN ordered |-> part(ordered[i])]
<1>1. SplitCompound(b) = <<b>> \/ (SplitCompound(b) = parts /\ Cardinality(levels) > 1)
  BY DEF SplitCompound
<1>2. CASE SplitCompound(b) = <<b>>
  BY <1>2, OneSeq
<1>3. CASE SplitCompound(b) = parts /\ Cardinality(levels) > 1
  <2>1. b.claims \subseteq E /\ \A d \in b.claims : d.source = b.source /\ d.group = b.group[1]
    BY OneStatementOf
  <2>2. IsFiniteSet(levels) /\ levels \in SUBSET Int
    <3> DEFINE D == Of(b.claims, "degree_type")
               value == [d \in D |-> d.value]
    <3>1. IsFiniteSet(D) /\ D \subseteq Of(E, "degree_type")
      BY <2>1, FS_Subset DEF Of
    <3>2. levels = {value[d] : d \in D}
      BY DEF ValuesOf, Of
    <3>3. DOMAIN value = D
      OBVIOUS
    <3>4. \A d \in D : value[d] \in Int
      BY <3>1 DEF DegreesNumbered
    <3> HIDE DEF levels, value, D
    <3> QED
      BY <3>1, <3>2, <3>3, <3>4, ImageFinite
  <2>3. /\ DOMAIN ordered = 1 .. Cardinality(levels) /\ Cardinality(levels) \in Nat
        /\ \A x \in levels : \E i \in DOMAIN ordered : ordered[i] = x
    <3> HIDE DEF levels
    <3> QED
      BY <2>2, AscendingType
  <2>4. \A i \in DOMAIN ordered : c \in own(ordered[i]) => \E x \in ToSet(parts) : c \in x.claims
    <3> SUFFICES ASSUME NEW i \in DOMAIN ordered, c \in own(ordered[i])
                 PROVE  \E x \in ToSet(parts) : c \in x.claims
      OBVIOUS
    <3>1. parts[i].claims = own(ordered[i]) /\ i \in DOMAIN parts
      OBVIOUS
    <3> HIDE DEF parts, own
    <3> QED
      BY <3>1 DEF ToSet
  <2>5. CASE c.field = "degree_type"
    <3>1. c.value \in levels
      BY <2>5 DEF ValuesOf, Of
    <3>2. c \in own(c.value)
      BY <2>5
    <3> HIDE DEF levels, own, parts, ordered
    <3> QED
      BY <1>3, <2>3, <2>4, <3>1, <3>2
  <2>6. CASE c.field # "degree_type" /\ c.of \subseteq AnyDegree
    <3>1. 1 \in DOMAIN ordered
      <4> HIDE DEF levels, ordered
      <4> QED
        BY <1>3, <2>3
    <3>2. c \in own(ordered[1])
      BY <2>6
    <3> HIDE DEF levels, own, parts, ordered
    <3> QED
      BY <1>3, <2>4, <3>1, <3>2
  <2>7. CASE c.field # "degree_type" /\ ~(c.of \subseteq AnyDegree)
    <3>1. PICK d \in E : /\ d.field = "degree_type" /\ d.source = c.source /\ d.group = c.group
                         /\ d.value \in c.of
      BY <2>1, <2>7 DEF Accompanied
    <3>2. c.group # 0
      <4> SUFFICES ASSUME c.group = 0 PROVE FALSE
        OBVIOUS
      <4>1. levels \subseteq {c.value}
        BY OneStatementOf DEF ValuesOf, Of
      <4> HIDE DEF levels
      <4>2. Cardinality(levels) <= 1
        <5>1. IsFiniteSet({c.value}) /\ Cardinality({c.value}) = 1
          BY FS_Singleton
        <5> QED
          BY <4>1, <5>1, FS_Subset
      <4> QED
        BY <1>3, <2>3, <4>2
    <3>3. d \in b.claims
      <4>1. GroupOf(d) = GroupOf(c)
        BY <3>1, <3>2 DEF GroupOf
      <4> QED
        BY <3>1, <4>1 DEF StatementOf, Education
    <3>4. d.value \in levels
      BY <3>1, <3>3 DEF ValuesOf, Of
    <3>5. c \in own(d.value)
      BY <2>7, <3>1
    <3> HIDE DEF levels, own, parts, ordered
    <3> QED
      BY <1>3, <2>3, <2>4, <3>4, <3>5
  <2> QED
    BY <2>5, <2>6, <2>7
<1> QED
  BY <1>1, <1>2, <1>3

\* Every claim about education is in one of the bundles that _education_clusters places.
LEMMA EducationBundles ==
  ASSUME NEW claimed, IsSeq(claimed), Accompanied(ToSet(claimed)), DegreesNumbered(ToSet(claimed)),
         NEW c \in ToSet(claimed), c.field \in Education
  PROVE  \E b \in ToSet(SplitBundles(BuildBundles(claimed, Education))) : c \in b.claims
<1> DEFINE E == ToSet(claimed)
           bundles == BuildBundles(claimed, Education)
           seqs == [i \in DOMAIN bundles |-> SplitCompound(bundles[i])]
<1>1. IsFiniteSet(E)
  BY SeqFacts
<1>2. AreBundles(bundles, E)
  BY BuildBundlesType
<1>3. PICK b \in ToSet(bundles) : StatementOf(b, E, Education) /\ c \in b.claims
  BY BuildBundlesState
<1> HIDE DEF bundles
<1>4. PICK i \in DOMAIN bundles : b = bundles[i]
  BY <1>3 DEF ToSet
<1>5. PICK x \in ToSet(SplitCompound(b)) : c \in x.claims
  BY <1>1, <1>3, SplitCompoundState
<1>6. IsSeq(seqs) /\ \A j \in DOMAIN seqs : IsSeq(seqs[j])
  <2>1. Len(bundles) \in Nat /\ DOMAIN bundles = 1 .. Len(bundles)
    BY <1>2, SeqFacts DEF AreBundles
  <2>2. seqs = [j \in 1 .. Len(bundles) |-> seqs[j]]
    BY <2>1
  <2>3. \A j \in DOMAIN seqs : IsSeq(seqs[j])
    BY <1>1, <1>2, SplitCompoundType DEF AreBundles
  <2> HIDE DEF seqs
  <2> QED
    BY <2>1, <2>2, <2>3, SeqMade
<1>7. seqs[i] = SplitCompound(b) /\ i \in DOMAIN seqs
  BY <1>4
<1>8. SplitBundles(bundles) = Concatenated(seqs)
  BY DEF SplitBundles
<1> HIDE DEF seqs
<1>9. x \in ToSet(Concatenated(seqs))
  BY <1>5, <1>6, <1>7, ConcatenatedSeq
<1> QED
  BY <1>5, <1>8, <1>9 DEF bundles

\* What goes into one job: every bundle that is joined is joined with the same ones.
Joint(bundles, together) ==
  \A i \in DOMAIN bundles :
    /\ together[i] \subseteq DOMAIN bundles /\ (together[i] # {} => i \in together[i])
    /\ \A j \in together[i] : together[j] = together[i]

\* _pair_bundles leaves no bundle out, and joins only those that go together.
LEMMA PairedBundlesState ==
  ASSUME NEW C, NEW bundles, AreBundles(bundles, C), NEW together, Joint(bundles, together)
  PROVE  /\ \A i \in DOMAIN bundles : \A c \in bundles[i].claims :
              \E b \in ToSet(PairedBundles(bundles, together)) : c \in b.claims
         /\ \A b \in ToSet(PairedBundles(bundles, together)) :
              \E i \in DOMAIN bundles :
                \/ b.claims = bundles[i].claims
                \/ b.claims = UNION {bundles[j].claims : j \in together[i]}
<1> DEFINE joined(i) == UNION {bundles[j].claims : j \in together[i]}
           inferred(i) == OneRole(joined(i))
           K == {i \in DOMAIN bundles : ~inferred(i)}
           R == {i \in DOMAIN bundles : inferred(i) /\ \A j \in together[i] : i <= j}
           kept == Ascending(K)
           leads == Ascending(R)
           role(i) == [bundles[i] EXCEPT !.grouped = TRUE, !.claims = joined(i)]
           s == [k \in DOMAIN kept |-> bundles[kept[k]]]
           t == [k \in DOMAIN leads |-> role(leads[k])]
<1>1. PairedBundles(bundles, together) = s \o t
  BY TableIs DEF PairedBundles
<1>2. IsSeq(bundles) /\ \A i \in DOMAIN bundles : DOMAIN bundles[i] = {"source", "group", "grouped", "claims"}
  BY DEF AreBundles, IsBundle
<1>3. \A i \in DOMAIN bundles : role(i).claims = joined(i)
  BY <1>2
<1>4. ASSUME NEW i \in DOMAIN bundles, inferred(i)
      PROVE  together[i] # {}
  <2> SUFFICES ASSUME together[i] = {} PROVE FALSE
    OBVIOUS
  <2>1. joined(i) = {}
    BY <1>4
  <2> HIDE DEF joined
  <2>2. ValuesOf({}, "organisation") = {}
    BY DEF ValuesOf, Of
  <2>3. Cardinality(ValuesOf({}, "organisation")) = 1
    BY <1>4, <2>1 DEF OneRole, Volatile
  <2> QED
    BY <2>2, <2>3, FS_EmptySet
<1>5. ASSUME NEW i \in DOMAIN bundles, inferred(i)
      PROVE  i \in together[i] /\ \E m \in R : together[m] = together[i]
  <2>1. together[i] # {} /\ together[i] \subseteq DOMAIN bundles /\ i \in together[i]
    BY <1>4, <1>5 DEF Joint
  <2>2. together[i] \in SUBSET Int /\ IsFiniteSet(together[i])
    BY <1>2, <2>1, PlacesFinite DEF IsSeq
  <2>3. PICK m \in together[i] : \A j \in together[i] : m <= j
    BY <2>1, <2>2, LeastExists
  <2>4. together[m] = together[i] /\ m \in DOMAIN bundles
    BY <2>1 DEF Joint
  <2>5. joined(m) = joined(i)
    BY <2>4
  <2> HIDE DEF joined
  <2> QED
    BY <1>5, <2>1, <2>3, <2>4, <2>5
<1>6. K \in SUBSET (DOMAIN bundles) /\ R \in SUBSET (DOMAIN bundles)
  OBVIOUS
<1>7. \A i \in DOMAIN bundles : ~inferred(i) => i \in K
  OBVIOUS
<1> HIDE DEF K, R, inferred
<1>8. K \in SUBSET Int /\ IsFiniteSet(K) /\ R \in SUBSET Int /\ IsFiniteSet(R)
  BY <1>2, <1>6, PlacesFinite DEF IsSeq
<1>9. /\ Cardinality(K) \in Nat /\ DOMAIN kept = 1 .. Cardinality(K)
      /\ \A k \in DOMAIN kept : kept[k] \in DOMAIN bundles
      /\ \A i \in K : \E k \in DOMAIN kept : kept[k] = i
  BY <1>6, <1>8, AscendingType
<1>10. /\ Cardinality(R) \in Nat /\ DOMAIN leads = 1 .. Cardinality(R)
       /\ \A k \in DOMAIN leads : leads[k] \in DOMAIN bundles
       /\ \A i \in R : \E k \in DOMAIN leads : leads[k] = i
  BY <1>6, <1>8, AscendingType
<1> HIDE DEF kept, leads, role
<1>11. IsSeq(s) /\ IsSeq(t)
  <2>1. s = [k \in 1 .. Cardinality(K) |-> s[k]] /\ t = [k \in 1 .. Cardinality(R) |-> t[k]]
    BY <1>9, <1>10
  <2> HIDE DEF s, t
  <2> QED
    BY <1>9, <1>10, <2>1, SeqMade
<1>12. /\ \A x \in ToSet(s) : \E i \in DOMAIN bundles : x = bundles[i]
       /\ \A x \in ToSet(t) : \E i \in DOMAIN bundles : x = role(i)
       /\ \A i \in K : bundles[i] \in ToSet(s)
       /\ \A i \in R : role(i) \in ToSet(t)
  BY <1>9, <1>10 DEF ToSet
<1> HIDE DEF s, t
<1>13. ToSet(s \o t) = ToSet(s) \cup ToSet(t)
  BY <1>11, ConcatSeq
<1>14. ASSUME NEW i \in DOMAIN bundles, NEW c \in bundles[i].claims
       PROVE  \E b \in ToSet(s \o t) : c \in b.claims
  <2>1. CASE inferred(i)
    <3>1. PICK m \in R : together[m] = together[i]
      BY <1>5, <2>1
    <3>2. i \in together[m]
      BY <1>5, <2>1, <3>1
    <3>3. c \in joined(m)
      BY <3>2
    <3> HIDE DEF joined
    <3> QED
      BY <1>3, <1>6, <1>12, <1>13, <3>3
  <2>2. CASE ~inferred(i)
    BY <1>7, <1>12, <1>13, <2>2
  <2> QED
    BY <2>1, <2>2
<1>15. \A b \in ToSet(s \o t) : \E i \in DOMAIN bundles : b.claims = bundles[i].claims \/ b.claims = joined(i)
  <2> HIDE DEF joined
  <2> QED
    BY <1>3, <1>12, <1>13
<1> QED
  BY <1>1, <1>14, <1>15

\* Every claim about a role is in a bundle of _employment_bundles, with claims of the
\* same page under the same label.
LEMMA EmploymentBundlesState ==
  ASSUME NEW claimed, IsSeq(claimed)
  PROVE  /\ \A c \in ToSet(claimed) : c.field \in Volatile =>
              \E b \in ToSet(EmploymentBundles(claimed)) : c \in b.claims
         /\ \A b \in ToSet(EmploymentBundles(claimed)) : \A c, d \in b.claims :
              c \in ToSet(claimed) /\ c.source = d.source /\ c.group = d.group
<1> DEFINE E == ToSet(claimed)
           bundles == BuildBundles(claimed, Volatile)
           about(j) == CHOOSE c \in bundles[j].claims : TRUE
           alone(j) == ~bundles[j].grouped /\ about(j).direct = "explicit"
           statement(c) == <<c.source, c.subject, c.quote, c.current = "no", c.year>>
           together == [i \in DOMAIN bundles |-> Together(bundles, i)]
<1>1. AreBundles(bundles, E)
  BY BuildBundlesType
<1>2. /\ \A b \in ToSet(bundles) : StatementOf(b, E, Volatile)
      /\ \A c \in E : c.field \in Volatile => \E b \in ToSet(bundles) : c \in b.claims
  BY BuildBundlesState
<1>3. EmploymentBundles(claimed) = PairedBundles(bundles, together)
  BY TableIs DEF EmploymentBundles, RoleBundles
<1> HIDE DEF bundles
<1>4. \A i \in DOMAIN bundles : together[i] = {j \in DOMAIN bundles :
        alone(i) /\ alone(j) /\ statement(about(j)) = statement(about(i))}
  BY DEF Together
<1> HIDE DEF together
<1>5. Joint(bundles, together)
  <2> HIDE DEF alone, statement
  <2> QED
    BY <1>4 DEF Joint
<1>6. ASSUME NEW i \in DOMAIN bundles, NEW c \in bundles[i].claims
      PROVE  /\ c \in E /\ c.source = about(i).source
             /\ \A d \in bundles[i].claims : c.source = d.source /\ c.group = d.group
             /\ alone(i) => c.group = 0
  <2>1. StatementOf(bundles[i], E, Volatile)
    BY <1>2 DEF ToSet
  <2>2. about(i) \in bundles[i].claims
    OBVIOUS
  <2>3. \A d \in bundles[i].claims : /\ d.source = bundles[i].source /\ d.group = bundles[i].group[1]
                                     /\ d \in E
    BY <2>1, OneStatementOf
  <2>4. alone(i) => bundles[i].group[1] = 0
    BY <2>1 DEF StatementOf
  <2> HIDE DEF E, about, alone
  <2> QED
    BY <2>2, <2>3, <2>4
<1>7. ASSUME NEW i \in DOMAIN bundles, NEW c \in UNION {bundles[j].claims : j \in together[i]}
      PROVE  c \in E /\ c.source = about(i).source /\ c.group = 0
  <2>1. PICK j \in together[i] : c \in bundles[j].claims
    OBVIOUS
  <2>2. j \in DOMAIN bundles /\ alone(j) /\ about(j).source = about(i).source
    <3> HIDE DEF about, alone
    <3>1. j \in DOMAIN bundles /\ alone(j) /\ statement(about(j)) = statement(about(i))
      <4> HIDE DEF statement
      <4> QED
        BY <1>4, <2>1
    <3> QED
      BY <3>1
  <2> HIDE DEF about, alone
  <2> QED
    BY <1>6, <2>1, <2>2
<1>8. \A i \in DOMAIN bundles : bundles[i] \in ToSet(bundles)
  BY DEF ToSet
<1>9. \A b \in ToSet(bundles) : \E i \in DOMAIN bundles : b = bundles[i]
  BY DEF ToSet
<1>10. ASSUME NEW b \in ToSet(PairedBundles(bundles, together)), NEW c \in b.claims, NEW d \in b.claims
       PROVE  c \in E /\ c.source = d.source /\ c.group = d.group
  <2> HIDE DEF E, about, alone, statement
  <2>1. PICK i \in DOMAIN bundles : \/ b.claims = bundles[i].claims
                                    \/ b.claims = UNION {bundles[j].claims : j \in together[i]}
    BY <1>1, <1>5, PairedBundlesState
  <2>2. CASE b.claims = bundles[i].claims
    BY <1>6, <2>2
  <2>3. CASE b.claims = UNION {bundles[j].claims : j \in together[i]}
    <3>1. /\ c \in UNION {bundles[j].claims : j \in together[i]}
          /\ d \in UNION {bundles[j].claims : j \in together[i]}
      BY <2>3
    <3>2. c \in E /\ c.source = about(i).source /\ c.group = 0
      BY <1>7, <3>1
    <3>3. d.source = about(i).source /\ d.group = 0
      BY <1>7, <3>1
    <3> QED
      BY <3>2, <3>3
  <2> QED
    BY <2>1, <2>2, <2>3
<1>11. ASSUME NEW c \in E, c.field \in Volatile
       PROVE  \E b \in ToSet(PairedBundles(bundles, together)) : c \in b.claims
  <2>1. PICK i \in DOMAIN bundles : c \in bundles[i].claims
    BY <1>2, <1>9, <1>11
  <2> HIDE DEF E
  <2> QED
    BY <1>1, <1>5, <2>1, PairedBundlesState
<1> QED
  BY <1>3, <1>10, <1>11

\* A role is decided of all the claims about roles.
LEMMA RoleDecisionsKeep ==
  ASSUME NEW selected, NEW unresolved, NEW others, NEW invalid, NEW identities, NEW quality,
         NEW c \in selected \cup unresolved \cup others, c.field \in Volatile
  PROVE  c.n \in Shows(RoleDecisions(selected, unresolved, others, invalid, identities, quality)[c.field])
<1> DEFINE f == c.field
           all == RoleDecisions(selected, unresolved, others, invalid, identities, quality)
<1>1. PICK codes, over :
        all[f] = [Decision(Of(selected, f), Of(unresolved, f), Of(others, f), codes, identities, quality)
                    EXCEPT !.review = @ \/ over]
  BY DEF RoleDecisions
<1> DEFINE d == Decision(Of(selected, f), Of(unresolved, f), Of(others, f), codes, identities, quality)
<1>2. Ids(Of(selected, f) \cup Of(unresolved, f) \cup Of(others, f)) \subseteq Shows(d) /\ IsDecision(d)
  BY DecisionKeeps
<1>3. c.n \in Ids(Of(selected, f) \cup Of(unresolved, f) \cup Of(others, f))
  BY DEF Ids, Of
<1>4. all[f] = [d EXCEPT !.review = @ \/ over]
  BY <1>1
<1> HIDE DEF d, all
<1>5. Shows(all[f]) = Shows(d)
  BY <1>2, <1>4 DEF Shows, IsDecision, Undecided
<1> QED
  BY <1>2, <1>3, <1>5 DEF all

\* Where there is a role, every claim of a role, and every claim that was set aside, is shown.
LEMMA RolesClusteredKeep ==
  ASSUME NEW clusters, clusters # << >>, NEW historical, NEW invalid, NEW withRelatives,
         NEW identities, NEW quality, NEW c, c.field \in Volatile,
         Taken(clusters, c) \/ c \in historical \cup invalid \cup withRelatives
  PROVE  c.n \in Shows(RolesClustered(clusters, historical, invalid, withRelatives,
                                      identities, quality)[c.field])
<1> DEFINE rank == Ranks(clusters, identities, quality)
           aside == historical \cup invalid \cup withRelatives
           winner == CurrentRole(clusters, rank, identities)
           unresolved == Unresolved(clusters, rank, winner)
           rest == DOMAIN clusters \ (unresolved \cup {winner})
           selected == ClaimsOf(clusters[winner])
           rivals == ClaimsIn(clusters, unresolved)
           others == ClaimsIn(clusters, rest) \cup (aside \ selected)
<1>1. RolesClustered(clusters, historical, invalid, withRelatives, identities, quality)
        = RoleDecisions(selected, rivals, others, invalid, identities, quality)
  BY DEF RolesClustered, RolesRanked, RolesDecided, RoleWon
<1>2. c \in selected \cup rivals \cup others
  <2> HIDE DEF winner, unresolved, rank
  <2>1. CASE Taken(clusters, c)
    <3>1. PICK i \in DOMAIN clusters : c \in ClaimsOf(clusters[i])
      BY <2>1 DEF Taken
    <3>2. i \in rest => c \in ClaimsIn(clusters, rest)
      BY <3>1 DEF ClaimsIn
    <3>3. i \in unresolved => c \in rivals
      BY <3>1 DEF ClaimsIn
    <3>4. i = winner => c \in selected
      BY <3>1
    <3>5. i \in rest \/ i \in unresolved \/ i = winner
      OBVIOUS
    <3> HIDE DEF rest, rivals, selected
    <3> QED
      BY <3>2, <3>3, <3>4, <3>5
  <2>2. CASE c \in aside
    <3> HIDE DEF rest, rivals, selected, aside
    <3> QED
      BY <2>2
  <2> QED
    BY <2>1, <2>2
<1> HIDE DEF selected, rivals, others
<1> QED
  BY <1>1, <1>2, RoleDecisionsKeep

\* Every claim about a role is shown; a claim of a role at a relative's business only where
\* another role is known.
LEMMA EmploymentKeeps ==
  ASSUME NEW claimed, IsSeq(claimed), \A c \in ToSet(claimed) : IsClaim(c),
         NEW seed, NEW identities, NEW quality, NEW c \in ToSet(claimed), c.field \in Volatile
  PROVE  \/ c.n \in Shows(EmploymentDecisions(seed, claimed, identities, quality)[c.field])
         \/ /\ \A f \in Volatile :
                 EmploymentDecisions(seed, claimed, identities, quality)[f].support = {}
            /\ \E d \in ToSet(claimed) : /\ d.source = c.source /\ d.group = c.group
                                         /\ d.field = "organisation" /\ "relative" \in Words[d.value]
<1> DEFINE bundles == ToSet(EmploymentBundles(claimed))
           ofRelatives(b) == \E d \in b.claims : d.field = "organisation" /\ "relative" \in Words[d.value]
           invalid == {d \in ToSet(claimed) : NoOrganisation(seed, bundles, d)}
           withRelatives == UNION {b.claims : b \in {d \in bundles : ofRelatives(d)}}
           places == {i \in DOMAIN claimed : claimed[i] \notin invalid \cup withRelatives}
           valid == Picked(claimed, places)
           grounded == [i \in DOMAIN valid |-> TemporallyGrounded(valid[i])]
           historical == {d \in ToSet(grounded) : d.field \in Volatile /\ Historical(d)}
           clusters == EmploymentClusters(grounded)
           decisions == EmploymentDecisions(seed, claimed, identities, quality)
<1>1. decisions = RolesClustered(clusters, historical, invalid, withRelatives, identities, quality)
  BY DEF EmploymentDecisions, RolesOf, RolesWithout, RolesAmong, Filter
<1>2. c \in withRelatives =>
        \E d \in ToSet(claimed) : /\ d.source = c.source /\ d.group = c.group
                                  /\ d.field = "organisation" /\ "relative" \in Words[d.value]
  <2> SUFFICES ASSUME c \in withRelatives
               PROVE  \E d \in ToSet(claimed) :
                        /\ d.source = c.source /\ d.group = c.group
                        /\ d.field = "organisation" /\ "relative" \in Words[d.value]
    OBVIOUS
  <2>1. PICK b \in bundles : c \in b.claims /\ ofRelatives(b)
    OBVIOUS
  <2>2. PICK d \in b.claims : d.field = "organisation" /\ "relative" \in Words[d.value]
    BY <2>1
  <2>3. d \in ToSet(claimed) /\ d.source = c.source /\ d.group = c.group
    BY <2>1, <2>2, EmploymentBundlesState
  <2> QED
    BY <2>2, <2>3
<1> HIDE DEF invalid, withRelatives, decisions
<1>3. IsSeq(valid) /\ ToSet(valid) = {claimed[i] : i \in places}
  <2>1. places \in SUBSET (DOMAIN claimed)
    OBVIOUS
  <2> HIDE DEF places
  <2> QED
    BY <2>1, PickedSeq
<1>4. c \in invalid \cup withRelatives \/ c \in ToSet(valid)
  <2>1. PICK i \in DOMAIN claimed : c = claimed[i]
    BY DEF ToSet
  <2>2. c \notin invalid \cup withRelatives => i \in places
    BY <2>1
  <2> HIDE DEF places, valid
  <2> QED
    BY <1>3, <2>1, <2>2
<1> HIDE DEF valid, places
<1>5. IsSeq(grounded)
  <2>1. Len(valid) \in Nat /\ DOMAIN valid = 1 .. Len(valid)
    BY <1>3, SeqFacts
  <2>2. grounded = [i \in 1 .. Len(valid) |-> grounded[i]]
    BY <2>1
  <2> HIDE DEF grounded
  <2> QED
    BY <2>1, <2>2, SeqMade
<1> DEFINE g == TemporallyGrounded(c)
<1>6. g.n = c.n /\ g.field = c.field
  BY DEF TemporallyGrounded, IsClaim
<1>7. c \in ToSet(valid) => g \in ToSet(grounded)
  BY DEF ToSet
<1> HIDE DEF grounded, g
<1>8. IsFiniteSet(ToSet(grounded))
  BY <1>5, SeqFacts
<1>9. c \in ToSet(valid) => Taken(clusters, g)
  <2> SUFFICES ASSUME c \in ToSet(valid) PROVE Taken(clusters, g)
    OBVIOUS
  <2>1. g \in ToSet(grounded) /\ g.field \in Volatile
    BY <1>6, <1>7
  <2>2. PICK b \in ToSet(EmploymentBundles(grounded)) : g \in b.claims
    BY <1>5, <2>1, EmploymentBundlesState
  <2> QED
    BY <1>5, <1>8, <2>2, EmploymentClustersType
<1> HIDE DEF clusters, historical
<1>10. CASE clusters # << >>
  <2>1. CASE c \in invalid \cup withRelatives
    BY <1>1, <1>10, <2>1, RolesClusteredKeep DEF decisions
  <2>2. CASE c \in ToSet(valid)
    <3>1. g.n \in Shows(decisions[g.field])
      BY <1>1, <1>6, <1>9, <1>10, <2>2, RolesClusteredKeep
    <3> QED
      BY <1>6, <3>1 DEF decisions
  <2> QED
    BY <1>4, <2>1, <2>2
<1>11. CASE clusters = << >>
  <2>1. \A f \in Volatile : decisions[f] = Missing({}, Of(historical \cup invalid, f), {})
    BY <1>1, <1>11 DEF RolesClustered
  <2>2. \A f \in Volatile : /\ decisions[f].support = {}
                            /\ decisions[f].alternatives = Ids(Of(historical \cup invalid, f))
    <3>1. \A x : Missing({}, x, {}).support = {} /\ Missing({}, x, {}).alternatives = Ids(x)
      BY DEF Missing, Undecided
    <3> QED
      BY <2>1, <3>1
  <2>3. c \notin ToSet(valid)
    BY <1>9, <1>11 DEF Taken
  <2>4. CASE c \in invalid
    <3>1. c.n \in Ids(Of(historical \cup invalid, c.field))
      BY <2>4 DEF Ids, Of
    <3> QED
      BY <2>2, <3>1 DEF Shows, decisions
  <2>5. CASE c \in withRelatives
    BY <1>2, <2>2, <2>5 DEF decisions
  <2> QED
    BY <1>4, <2>3, <2>4, <2>5
<1> QED
  BY <1>10, <1>11

\* There is a record for each credential, and one at least.
LEMMA SomeRecord ==
  ASSUME NEW accepted, IsSeq(accepted), NEW identities
  PROVE  LET clusters == EducationClusters(accepted, identities).clusters
         IN 1 \in 1 .. Max({1, Len(clusters)}) /\ DOMAIN clusters \subseteq 1 .. Max({1, Len(clusters)})
<1> DEFINE clusters == EducationClusters(accepted, identities).clusters
           m == Len(clusters)
           n == Max({1, m})
<1>1. AreClusters(clusters, ToSet(accepted))
  BY EducationType, SeqFacts
<1> HIDE DEF clusters
<1>2. m \in Nat /\ DOMAIN clusters = 1 .. m
  BY <1>1, SeqFacts DEF AreClusters
<1>3. n = Max({1, m}) /\ 1 \in Int /\ m \in Int
  BY <1>2
<1> HIDE DEF m, n
<1>4. n \in {1, m} /\ n >= 1 /\ n >= m
  BY <1>3, MaxOfTwo
<1>5. 1 \in 1 .. n /\ DOMAIN clusters \subseteq 1 .. n
  BY <1>2, <1>3, <1>4
<1> QED
  BY <1>5 DEF n, m, clusters

\* ... and every claim about education is shown of some credential, or beside the first.
LEMMA EducationKeeps ==
  ASSUME NEW accepted, IsSeq(accepted), Accompanied(ToSet(accepted)), DegreesNumbered(ToSet(accepted)),
         NEW identities, NEW quality, NEW c \in ToSet(accepted), c.field \in Education
  PROVE  LET education == EducationClusters(accepted, identities)
         IN \E i \in 1 .. Max({1, Len(education.clusters)}) :
              c.n \in Shows(EducationDecision(c.field, education, i, identities, quality))
<1> DEFINE C == ToSet(accepted)
           education == EducationClusters(accepted, identities)
           f == c.field
           n == Max({1, Len(education.clusters)})
<1>1. c \in education.excluded \/ Handled(education, c)
  <2>1. IsFiniteSet(C)
    BY SeqFacts
  <2>2. PICK b \in ToSet(SplitBundles(BuildBundles(accepted, Education))) : c \in b.claims
    BY EducationBundles
  <2> QED
    BY <2>1, <2>2, EducationType
<1> HIDE DEF education
<1>3. 1 \in 1 .. n /\ DOMAIN education.clusters \subseteq 1 .. n
  BY SomeRecord DEF education
<1> HIDE DEF n
<1> DEFINE empty == [bundles |-> << >>, alternatives |-> {}, ambiguous |-> FALSE]
           cluster(i) == IF education.clusters = << >> THEN empty ELSE education.clusters[i]
           excluded(i) == IF i = 1 THEN Of(education.excluded, f) ELSE {}
           orphans(i) == IF i = 1 THEN Of(education.orphans, f) ELSE {}
           others(i) == Of(cluster(i).alternatives, f) \cup excluded(i) \cup orphans(i)
           decision(i) == EducationDecision(f, education, i, identities, quality)
<1>4. ASSUME NEW i
      PROVE  \E codes :
               decision(i) = Decision(Of(ClaimsOf(cluster(i)), f), {}, others(i), codes, identities, quality)
  <2> DEFINE code(x, holds) == IF holds THEN {x} ELSE {}
             unclear == \E x \in excluded(i) : QuotedKind(x) = "ambiguous"
             all == code("EDUCATION_GROUPING_AMBIGUITY", cluster(i).ambiguous)
               \cup code("AMBIGUOUS_EDUCATION", unclear)
               \cup code("NON_DEGREE_EDUCATION", excluded(i) # {} /\ ~unclear)
               \cup code("UNPAIRED_FACT", Of(cluster(i).alternatives, f) # {})
               \cup code("ORPHAN_EDUCATION_FRAGMENT", orphans(i) # {})
  <2>1. decision(i) = Decision(Of(ClaimsOf(cluster(i)), f), {}, others(i), all, identities, quality)
    BY DEF EducationDecision
  <2> HIDE DEF decision, all, cluster, others
  <2> QED
    BY <2>1
<1>5. ASSUME NEW i, c \in Of(ClaimsOf(cluster(i)), f) \cup others(i)
      PROVE  c.n \in Shows(decision(i))
  <2>1. PICK codes : decision(i) = Decision(Of(ClaimsOf(cluster(i)), f), {}, others(i), codes, identities, quality)
    BY <1>4
  <2>2. c.n \in Ids(Of(ClaimsOf(cluster(i)), f) \cup {} \cup others(i))
    BY <1>5 DEF Ids
  <2> HIDE DEF cluster, others, decision
  <2> QED
    BY <2>1, <2>2, DecisionKeeps
<1>6. CASE c \in education.excluded \/ c \in education.orphans
  <2>1. c \in others(1)
    BY <1>6 DEF Of
  <2> HIDE DEF others, cluster, decision
  <2>2. c.n \in Shows(decision(1))
    BY <1>5, <2>1
  <2> QED
    BY <1>3, <2>2 DEF decision, education, n
<1>7. CASE Noted(education.clusters, c)
  <2>1. PICK k \in DOMAIN education.clusters :
          c \in ClaimsOf(education.clusters[k]) \cup education.clusters[k].alternatives
    BY <1>7 DEF Noted
  <2>2. education.clusters # << >>
    OBVIOUS
  <2>3. cluster(k) = education.clusters[k]
    BY <2>2
  <2>4. c \in Of(ClaimsOf(cluster(k)), f) \cup others(k)
    BY <2>1, <2>3 DEF Of
  <2> HIDE DEF others, cluster, decision
  <2>5. c.n \in Shows(decision(k)) /\ k \in 1 .. n
    BY <1>3, <1>5, <2>4
  <2> QED
    BY <2>5 DEF decision, education, n
<1> QED
  BY <1>1, <1>6, <1>7 DEF Handled

\* A title at a relative's business, where nothing else is known of a role.
AtARelatives(c, profile, E) ==
  /\ \A f \in Volatile : profile.fields[f].support = {}
  /\ \E d \in E : /\ d.source = c.source /\ d.group = c.group
                  /\ d.field = "organisation" /\ "relative" \in Words[d.value]

\* reconcile shows every claim about a role or a credential that it may use.
LEMMA ReconcileKeeps ==
  ASSUME NEW seed, NEW claimed, IsSeq(claimed), \A c \in ToSet(claimed) : IsClaim(c) /\ Proper(c),
         Accompanied(ToSet(claimed)), DegreesNumbered(ToSet(claimed)),
         NEW origins, SourcesOf(ToSet(claimed)) \subseteq origins, NEW refused,
         NEW c \in ToSet(claimed), Allowed(c.source, refused), ~Source[c.source].rejected,
         Min({c.relevance, Source[c.source].identity}) >= Policy.identityMinimum, c.field \in Context
  PROVE  LET profile == Reconcile(seed, claimed, origins, refused)
         IN \/ \E i \in DOMAIN profile.records : c.n \in Shows(profile.records[i].fields[c.field])
            \/ AtARelatives(c, profile, ToSet(claimed))
<1> DEFINE E == ToSet(claimed)
           profile == Reconcile(seed, claimed, origins, refused)
<1>1. PICK accepted, unconfirmed, allowed, identities, quality :
        /\ profile = Profile(seed, accepted, unconfirmed, allowed, refused, identities, quality)
        /\ IsSeq(accepted) /\ ToSet(accepted) \subseteq E
        /\ WholeSources(ToSet(accepted), E) /\ EachRoleDecided(seed, accepted)
        /\ c.source \in origins => c \in ToSet(accepted) \/ c \in unconfirmed
  BY ReconcileChooses
<1> DEFINE A == ToSet(accepted)
<1> HIDE DEF profile
<1>2. c \in A \/ c \in unconfirmed
  BY <1>1 DEF SourcesOf
<1>3. Accompanied(A) /\ DegreesNumbered(A)
  BY <1>1 DEF Accompanied, DegreesNumbered, Of, WholeSources
<1>4. \A x \in A : IsClaim(x)
  BY <1>1
<1>5. ASSUME NEW g \in Context
      PROVE  RecordsKeep(profile, g, EmploymentDecisions(seed, accepted, identities, quality),
                         EducationClusters(accepted, identities), unconfirmed, identities, quality)
  BY <1>1, ProfileKeeps
<1> HIDE DEF A, E
<1> DEFINE education == EducationClusters(accepted, identities)
           employment == EmploymentDecisions(seed, accepted, identities, quality)
           f == c.field
           n == Max({1, Len(education.clusters)})
           first(i) == FirstDecision(f, i, employment, education, identities, quality)
<1>6. ASSUME NEW g \in Context
      PROVE  /\ DOMAIN profile.records = 1 .. n
             /\ \A i \in 1 .. n :
                  SameEvidence(profile.records[i].fields[g],
                               FirstDecision(g, i, employment, education, identities, quality))
             /\ 1 \in 1 .. n => Ids(Of(unconfirmed, g)) \subseteq Shows(profile.records[1].fields[g])
             /\ g \in Volatile => profile.fields[g] = profile.records[1].fields[g]
  <2>1. RecordsKeep(profile, g, employment, education, unconfirmed, identities, quality)
    BY <1>5
  <2> HIDE DEF education, employment
  <2> QED
    BY <2>1 DEF RecordsKeep
<1>7. 1 \in 1 .. n
  BY <1>1, SomeRecord
<1>8. f \in Volatile \/ f \in Education
  BY DEF Context
<1> HIDE DEF n
<1>9. ASSUME NEW i \in 1 .. n, c.n \in Shows(first(i))
      PROVE  \E k \in DOMAIN profile.records : c.n \in Shows(profile.records[k].fields[f])
  <2>1. SameEvidence(profile.records[i].fields[f], first(i)) /\ i \in DOMAIN profile.records
    BY <1>6
  <2> HIDE DEF first
  <2> QED
    BY <1>9, <2>1 DEF SameEvidence, Shows
<1>10. CASE c \in unconfirmed
  <2>1. c.n \in Ids(Of(unconfirmed, f))
    BY <1>10 DEF Ids, Of
  <2> QED
    BY <1>6, <1>7, <2>1 DEF profile
<1>11. CASE c \in A /\ f \in Education
  <2>1. PICK i \in 1 .. n : c.n \in Shows(EducationDecision(f, education, i, identities, quality))
    BY <1>1, <1>3, <1>11, EducationKeeps DEF A, n
  <2>2. f \notin Volatile
    BY <1>11 DEF Volatile, Education
  <2>3. c.n \in Shows(first(i))
    BY <2>1, <2>2 DEF FirstDecision
  <2> HIDE DEF first
  <2> QED
    BY <1>9, <2>3 DEF profile
<1>12. CASE c \in A /\ f \in Volatile
  <2>1. \/ c.n \in Shows(employment[f])
        \/ /\ \A g \in Volatile : employment[g].support = {}
           /\ \E d \in A : /\ d.source = c.source /\ d.group = c.group
                           /\ d.field = "organisation" /\ "relative" \in Words[d.value]
    <3> HIDE DEF employment
    <3> QED
      BY <1>1, <1>4, <1>12, EmploymentKeeps DEF A, employment
  <2>2. CASE c.n \in Shows(employment[f])
    <3>1. c.n \in Shows(first(1))
      BY <1>12, <2>2 DEF FirstDecision
    <3> HIDE DEF first
    <3> QED
      BY <1>7, <1>9, <3>1 DEF profile
  <2>3. CASE /\ \A g \in Volatile : employment[g].support = {}
             /\ \E d \in A : /\ d.source = c.source /\ d.group = c.group
                             /\ d.field = "organisation" /\ "relative" \in Words[d.value]
    <3>1. ASSUME NEW g \in Volatile
          PROVE  profile.fields[g].support = {}
      <4>1. g \in Context
        BY DEF Context
      <4>2. profile.fields[g] = profile.records[1].fields[g]
            /\ SameEvidence(profile.records[1].fields[g], employment[g])
        BY <1>6, <1>7, <4>1 DEF FirstDecision
      <4> QED
        BY <2>3, <4>2 DEF SameEvidence
    <3>2. AtARelatives(c, profile, E)
      BY <1>1, <2>3, <3>1 DEF A, AtARelatives
    <3> QED
      BY <3>2 DEF profile, E
  <2> QED
    BY <2>1, <2>2, <2>3
<1> QED
  BY <1>2, <1>8, <1>10, <1>11, <1>12

-----------------------------------------------------------------------------
(* Claims are made of answers.                                              *)

\* Segments have words for levels.
IsWorded(segments) ==
  /\ IsSeq(segments)
  /\ \A k \in DOMAIN segments :
       IsSeq(segments[k].words) /\ ToSet(segments[k].words) \subseteq DOMAIN LevelOf

\* The wordings of a degree make a sequence, ...
LEMMA WordingsType ==
  ASSUME NEW segments, IsWorded(segments)
  PROVE  IsSeq(Wordings(segments)) /\ ToSet(Wordings(segments)) \subseteq DOMAIN LevelOf
<1> DEFINE lists == [i \in DOMAIN segments |-> segments[i].words]
           n == Len(segments)
<1>1. n \in Nat /\ DOMAIN segments = 1 .. n
  BY SeqFacts DEF IsWorded
<1>2. lists = [i \in 1 .. n |-> lists[i]]
      /\ \A i \in DOMAIN lists : IsSeq(lists[i]) /\ ToSet(lists[i]) \subseteq DOMAIN LevelOf
  BY <1>1 DEF IsWorded
<1>3. Wordings(segments) = Concatenated(lists)
  BY DEF Wordings
<1> HIDE DEF lists, n
<1> QED
  BY <1>1, <1>2, <1>3, SeqMade, ConcatenatedSeq

\* ... so do its levels, which are numbered, ...
LEMMA DegreeLevelsType ==
  ASSUME NEW segments, IsWorded(segments)
  PROVE  IsSeq(DegreeLevels(segments)) /\ ToSet(DegreeLevels(segments)) \subseteq Int
<1> DEFINE words == Wordings(segments)
           counts(w) == ~(w = "diploma" /\ Contains(words, "postgraduate_diploma"))
           places == {i \in DOMAIN words : counts(words[i])}
           kept == Picked(words, places)
           levels == [i \in DOMAIN kept |-> LevelOf[kept[i]]]
           n == Len(kept)
<1>1. DegreeLevels(segments) = Distinct(levels)
  BY DEF DegreeLevels, Filter
<1>2. IsSeq(words) /\ ToSet(words) \subseteq DOMAIN LevelOf
  BY WordingsType
<1>3. places \subseteq DOMAIN words
  OBVIOUS
<1> HIDE DEF places, words
<1>4. IsSeq(kept) /\ ToSet(kept) \subseteq DOMAIN LevelOf
  BY <1>2, <1>3, FilterPlaces
<1> HIDE DEF kept
<1>5. n \in Nat /\ DOMAIN kept = 1 .. n
  BY <1>4, SeqFacts
<1>6. levels = [i \in 1 .. n |-> levels[i]] /\ \A i \in 1 .. n : levels[i] \in Int
  <2>1. levels = [i \in 1 .. n |-> levels[i]]
    BY <1>5
  <2>2. \A i \in 1 .. n : levels[i] = LevelOf[kept[i]] /\ kept[i] \in DOMAIN LevelOf
    BY <1>4, <1>5 DEF ToSet
  <2>3. \A w \in DOMAIN LevelOf : LevelOf[w] \in Int
    BY DEF LevelOf
  <2> HIDE DEF levels, n
  <2> QED
    BY <2>1, <2>2, <2>3
<1> HIDE DEF levels, n
<1>7. IsSeq(levels) /\ ToSet(levels) \subseteq Int
  BY <1>5, <1>6, SeqMade DEF ToSet
<1> QED
  BY <1>1, <1>7, DistinctSeq

\* ... and so do the degrees it may be read as.
LEMMA DegreeCandidatesType ==
  ASSUME NEW q, IsWorded(q.segments), q.name \in Int
  PROVE  IsSeq(DegreeCandidates(q)) /\ \A k \in DOMAIN DegreeCandidates(q) : DegreeCandidates(q)[k].value \in Int
<1> DEFINE levels == DegreeLevels(q.segments)
           degree(level, subject) == Candidate(level, 1000, "academic_degree", q.label, subject)
           each == [i \in DOMAIN levels |-> degree(levels[i], CompoundSubject(q.segments, levels[i]))]
           numbered(candidates) == IsSeq(candidates)
                                   /\ \A x \in ToSet(candidates) : x.value \in Int
<1>1. IsSeq(levels) /\ ToSet(levels) \subseteq Int
  BY DegreeLevelsType
<1> HIDE DEF levels
<1>2. numbered(each)
  <2> DEFINE n == Len(levels)
  <2>1. n \in Nat /\ DOMAIN levels = 1 .. n
    BY <1>1, SeqFacts
  <2>2. each = [i \in 1 .. n |-> each[i]] /\ \A i \in 1 .. n : each[i].value \in Int
    <3>1. each = [i \in 1 .. n |-> each[i]]
      BY <2>1
    <3>2. \A i \in 1 .. n : each[i].value = levels[i] /\ levels[i] \in Int
      BY <1>1, <2>1 DEF Candidate, ToSet
    <3> HIDE DEF each, n
    <3> QED
      BY <3>1, <3>2
  <2> HIDE DEF each, n
  <2> QED
    BY <2>1, <2>2, SeqMade DEF ToSet
<1>3. numbered(NamedDegrees(q, levels))
  <2> DEFINE bare == Candidate(BachelorsDegree, 650, "academic_degree", 0, q.segments[1].subject)
             only == degree(levels[1], DegreeSubject(q.segments[1], levels[1]))
  <2>1. NamedDegrees(q, levels) \in {each, <<bare>>, <<only>>}
        /\ (NamedDegrees(q, levels) = <<only>> => levels # << >> \/ NamedDegrees(q, levels) = <<bare>>)
    BY DEF NamedDegrees
  <2>2. bare.value \in Int
    BY DEF Candidate, BachelorsDegree, LevelOf
  <2>3. levels # << >> => only.value \in Int
    BY <1>1, NotEmpty DEF Candidate, ToSet
  <2> HIDE DEF each, bare, only
  <2> QED
    BY <1>2, <2>1, <2>2, <2>3, OneSeq
<1> DEFINE unsure == Candidate(q.name, 550, ClassifyEducation(q), 0, 0)
           other == Candidate(q.name, 1000, ClassifyEducation(q), 0, 0)
<1>4. DegreeCandidates(q) \in {NamedDegrees(q, levels), <<unsure>>, <<other>>}
  BY DEF DegreeCandidates, levels
<1>5. unsure.value \in Int /\ other.value \in Int
  BY DEF Candidate
<1> HIDE DEF unsure, other
<1>6. numbered(DegreeCandidates(q))
  BY <1>3, <1>4, <1>5, OneSeq
<1> QED
  BY <1>6 DEF ToSet

\* What First passes over does not hold.
LEMMA FirstSilent ==
  ASSUME NEW rules, IsSeq(rules), NEW otherwise, \A k \in DOMAIN rules : rules[k][2] # otherwise,
         First(rules, otherwise) = otherwise
  PROVE  \A k \in DOMAIN rules : ~rules[k][1]
<1> DEFINE firing == {i \in DOMAIN rules : rules[i][1]}
<1>1. firing \in SUBSET Int /\ IsFiniteSet(firing)
  <2>1. firing \in SUBSET (DOMAIN rules) /\ rules \in Seq(ToSet(rules))
    BY DEF IsSeq
  <2> HIDE DEF firing
  <2> QED
    BY <2>1, PlacesFinite
<1>2. CASE firing # {}
  <2>1. \E x \in firing : \A y \in firing : x <= y
    <3> HIDE DEF firing
    <3> QED
      BY <1>1, <1>2, LeastExists
  <2>2. Min(firing) \in firing
    <3> HIDE DEF firing
    <3> QED
      BY <2>1 DEF Min
  <2>3. First(rules, otherwise) = rules[Min(firing)][2]
    BY <1>2 DEF First
  <2>4. Min(firing) \in DOMAIN rules
    BY <2>2
  <2> QED
    BY <2>3, <2>4
<1>3. CASE firing = {}
  BY <1>3
<1> QED
  BY <1>2, <1>3

\* An answer without a fault may be used of its page.
LEMMA FaultlessEligible ==
  ASSUME NEW s, NEW answer, NEW sites, Fault(s, answer, sites) = "none"
  PROVE  EligibleForSource([answer EXCEPT !.source = s])
<1> DEFINE expanded == /\ answer.subject = "expanded" /\ ~Source[s].rejected
                       /\ Source[s].anchored # {} /\ "subject" \in answer.literal
           eligible == EligibleForSource([answer EXCEPT !.source = s])
           rules == << <<answer.subject # "same" /\ ~expanded, "CLAIM_SUBJECT_MISMATCH">>,
              <<"quote" \notin answer.literal, "UNGROUNDED_EVIDENCE">>,
              <<"value" \notin answer.literal, "UNGROUNDED_VALUE">>,
              <<~eligible, "DISPUTED_CLAIM_IDENTITY_CONTEXT">>,
              <<answer.field = "profile_link" /\ answer.value \in sites, "SOURCE_POLICY_BLOCKED">>,
              <<answer.field = "profile_link" /\ "link" \notin answer.literal,
                "UNOBSERVED_PROFILE_LINK">> >>
<1>1. First(rules, "none") = "none"
  BY DEF Fault
<1> HIDE DEF expanded, eligible
<1>2. rules = [k \in 1 .. 6 |-> rules[k]] /\ rules[4][1] = ~eligible
      /\ \A k \in 1 .. 6 : rules[k][2] # "none"
  <2>1. rules = [k \in 1 .. 6 |-> rules[k]]
    OBVIOUS
  <2>2. rules[4][1] = ~eligible
    OBVIOUS
  <2>3. /\ rules[1][2] # "none" /\ rules[2][2] # "none" /\ rules[3][2] # "none"
        /\ rules[4][2] # "none" /\ rules[5][2] # "none" /\ rules[6][2] # "none"
    OBVIOUS
  <2> HIDE DEF rules
  <2>4. \A k \in 1 .. 6 : rules[k][2] # "none"
    BY <2>3
  <2> QED
    BY <2>1, <2>2, <2>4
<1> HIDE DEF rules
<1>3. IsSeq(rules) /\ DOMAIN rules = 1 .. 6
  BY <1>2, SeqMade
<1>4. ~rules[4][1]
  BY <1>1, <1>2, <1>3, FirstSilent
<1> QED
  BY <1>2, <1>4 DEF eligible

\* A claim that is made of an answer of a model.
MadeOf(c, s, i) ==
  /\ IsClaim(c) /\ c.source = s /\ c.relevance = Source[s].identity /\ c.n[1] = s /\ c.n[2] = i
  /\ c.raw = Answers[s][i].raw /\ c.near = Answers[s][i].near /\ c.names = Answers[s][i].names
  /\ c.field = "university_name" => c.of = {}
  /\ c.field = "degree_type" => c.value \in Int

\* The claims made of an answer about a source are claims of that source, with
\* a name for each; a subject comes with its degree.
LEMMA FromAnswerType ==
  ASSUME NEW s \in DOMAIN Answers, NEW i \in DOMAIN Answers[s]
  PROVE  /\ IsSeq(FromAnswer(s, i)) /\ \A c \in ToSet(FromAnswer(s, i)) : MadeOf(c, s, i)
         /\ \A c, d \in ToSet(FromAnswer(s, i)) : c.n = d.n => c = d
         /\ Accompanied(ToSet(FromAnswer(s, i)))
<1> DEFINE raw == Grounded(Answers[s][i])
           answer == [raw EXCEPT !.source = s, !.relevance = Source[s].identity]
           claim(j, candidate) ==
             [answer EXCEPT !.n = <<s, i, j>>, !.value = candidate.value, !.label = candidate.label,
                            !.certainty = candidate.certainty, !.kind = candidate.kind]
           subject(j, candidate, among) ==
             [claim(among + j, candidate) EXCEPT
                !.field = "subject", !.value = candidate.subject, !.kind = "none", !.label = 0,
                !.of = IF among > 1 THEN {candidate.value} ELSE AnyDegree]
           tail(j, candidate, among) == IF candidate.subject = 0 THEN << >>
                                        ELSE <<subject(j, candidate, among)>>
           both(j, candidate, among) == <<claim(j, candidate)>> \o tail(j, candidate, among)
           candidates == IF answer.field = "degree_type" THEN DegreeCandidates(answer.qualification)
                         ELSE <<Candidate(answer.value, 1000, "none", 0, 0)>>
           lists == [j \in DOMAIN candidates |-> both(j, candidates[j], Len(candidates))]
           said == {"n", "source", "relevance", "field", "raw", "value", "near", "names", "group", "of"}
<1>1. FromAnswer(s, i) = Concatenated(lists)
  BY DEF FromAnswer
<1>2. /\ said \subseteq DOMAIN Answers[s][i] /\ Answers[s][i].of = {}
      /\ IsWorded(Answers[s][i].qualification.segments) /\ Answers[s][i].qualification.name \in Int
  BY AnswersAssumption DEF IsWorded
<1>3. /\ DOMAIN answer = DOMAIN Answers[s][i] /\ answer.source = s
      /\ answer.qualification = Answers[s][i].qualification
      /\ answer.relevance = Source[s].identity /\ answer.raw = Answers[s][i].raw
      /\ answer.near = Answers[s][i].near /\ answer.names = Answers[s][i].names
      /\ answer.of = {}
  BY <1>2 DEF Grounded
<1> HIDE DEF raw, answer
<1>4. \A j, candidate :
        /\ DOMAIN claim(j, candidate) = DOMAIN Answers[s][i]
        /\ claim(j, candidate).n = <<s, i, j>> /\ claim(j, candidate).source = s
        /\ claim(j, candidate).relevance = Source[s].identity
        /\ claim(j, candidate).field = answer.field /\ claim(j, candidate).raw = Answers[s][i].raw
        /\ claim(j, candidate).of = {} /\ claim(j, candidate).near = Answers[s][i].near
        /\ claim(j, candidate).names = Answers[s][i].names
        /\ claim(j, candidate).value = candidate.value /\ claim(j, candidate).group = answer.group
  BY <1>2, <1>3
<1> HIDE DEF claim
<1>5. \A j, candidate, among :
        /\ DOMAIN subject(j, candidate, among) = DOMAIN Answers[s][i]
        /\ subject(j, candidate, among).n = <<s, i, among + j>>
        /\ subject(j, candidate, among).source = s
        /\ subject(j, candidate, among).relevance = Source[s].identity
        /\ subject(j, candidate, among).field = "subject"
        /\ subject(j, candidate, among).raw = Answers[s][i].raw
        /\ subject(j, candidate, among).near = Answers[s][i].near
        /\ subject(j, candidate, among).names = Answers[s][i].names
        /\ subject(j, candidate, among).group = answer.group
        /\ subject(j, candidate, among).of \in {{candidate.value}, AnyDegree}
  BY <1>2, <1>4
<1> HIDE DEF subject
<1>6. \A j, candidate, among :
        /\ IsSeq(tail(j, candidate, among))
        /\ \A c \in ToSet(tail(j, candidate, among)) :
             c = subject(j, candidate, among) /\ candidate.subject # 0
  BY OneSeq, NoneSeq
<1> HIDE DEF tail
<1>7. \A j, candidate, among :
        /\ IsSeq(both(j, candidate, among))
        /\ claim(j, candidate) \in ToSet(both(j, candidate, among))
        /\ \A c \in ToSet(both(j, candidate, among)) :
             c = claim(j, candidate) \/ (c = subject(j, candidate, among) /\ candidate.subject # 0)
  BY <1>6, OneSeq, ConcatSeq
<1> HIDE DEF both
<1>8. IsSeq(candidates)
      /\ \A j \in DOMAIN candidates :
           IF answer.field = "degree_type" THEN candidates[j].value \in Int
           ELSE candidates[j].subject = 0
  <2>1. CASE answer.field = "degree_type"
    BY <1>2, <1>3, <2>1, DegreeCandidatesType
  <2>2. CASE answer.field # "degree_type"
    <3> DEFINE only == Candidate(answer.value, 1000, "none", 0, 0)
    <3>1. candidates = <<only>> /\ only.subject = 0
      BY <2>2 DEF Candidate
    <3> HIDE DEF candidates, only
    <3> QED
      BY <2>2, <3>1, OneSeq DEF ToSet
  <2> QED
    BY <2>1, <2>2
<1> HIDE DEF candidates
<1> DEFINE n == Len(candidates)
<1>9. n \in Nat /\ DOMAIN candidates = 1 .. n
  BY <1>8, SeqFacts
<1>10. lists = [j \in 1 .. n |-> lists[j]] /\ DOMAIN lists = DOMAIN candidates
       /\ \A j \in DOMAIN lists : lists[j] = both(j, candidates[j], n)
  BY <1>9
<1> HIDE DEF lists, n
<1>11. IsSeq(lists) /\ \A j \in DOMAIN lists : IsSeq(lists[j])
  BY <1>7, <1>9, <1>10, SeqMade
<1>12. IsSeq(FromAnswer(s, i))
       /\ (\A c \in ToSet(FromAnswer(s, i)) : \E j \in 1 .. n :
             \/ c = claim(j, candidates[j])
             \/ c = subject(j, candidates[j], n) /\ candidates[j].subject # 0)
       /\ \A j \in 1 .. n : claim(j, candidates[j]) \in ToSet(FromAnswer(s, i))
  <2>1. IsSeq(FromAnswer(s, i))
        /\ (\A c \in ToSet(FromAnswer(s, i)) : \E j \in DOMAIN lists : c \in ToSet(lists[j]))
        /\ \A j \in DOMAIN lists : ToSet(lists[j]) \subseteq ToSet(FromAnswer(s, i))
    BY <1>1, <1>11, ConcatenatedSeq
  <2> QED
    BY <1>7, <1>9, <1>10, <2>1
<1>13. \A c \in ToSet(FromAnswer(s, i)) : MadeOf(c, s, i)
  <2> TAKE c \in ToSet(FromAnswer(s, i))
  <2>1. PICK j \in 1 .. n : c = claim(j, candidates[j]) \/ c = subject(j, candidates[j], n)
    BY <1>12
  <2>2. CASE c = claim(j, candidates[j])
    <3>1. /\ DOMAIN c = DOMAIN Answers[s][i] /\ c.n = <<s, i, j>> /\ c.source = s
          /\ c.relevance = Source[s].identity /\ c.field = answer.field
          /\ c.raw = Answers[s][i].raw /\ c.of = {} /\ c.near = Answers[s][i].near
          /\ c.names = Answers[s][i].names /\ c.value = candidates[j].value
      BY <1>4, <2>2
    <3>2. answer.field = "degree_type" => candidates[j].value \in Int
      BY <1>8, <1>9
    <3> QED
      BY <1>2, <3>1, <3>2 DEF MadeOf, IsClaim
  <2>3. CASE c = subject(j, candidates[j], n)
    <3>1. /\ DOMAIN c = DOMAIN Answers[s][i] /\ c.n = <<s, i, n + j>> /\ c.source = s
          /\ c.relevance = Source[s].identity /\ c.field = "subject"
          /\ c.raw = Answers[s][i].raw /\ c.near = Answers[s][i].near
          /\ c.names = Answers[s][i].names
      BY <1>5, <2>3
    <3> QED
      BY <1>2, <3>1 DEF MadeOf, IsClaim
  <2> QED
    BY <2>1, <2>2, <2>3
<1>14. \A c, d \in ToSet(FromAnswer(s, i)) : c.n = d.n => c = d
  <2> SUFFICES ASSUME NEW c \in ToSet(FromAnswer(s, i)), NEW d \in ToSet(FromAnswer(s, i)), c.n = d.n
               PROVE  c = d
    OBVIOUS
  <2>1. PICK j \in 1 .. n : c = claim(j, candidates[j]) \/ c = subject(j, candidates[j], n)
    BY <1>12
  <2>2. PICK k \in 1 .. n : d = claim(k, candidates[k]) \/ d = subject(k, candidates[k], n)
    BY <1>12
  <2>3. /\ c = claim(j, candidates[j]) => c.n[3] = j
        /\ c = subject(j, candidates[j], n) => c.n[3] = n + j
        /\ d = claim(k, candidates[k]) => d.n[3] = k
        /\ d = subject(k, candidates[k], n) => d.n[3] = n + k
    BY <1>4, <1>5
  <2>4. c.n[3] = d.n[3]
    OBVIOUS
  <2> QED
    BY <1>9, <2>1, <2>2, <2>3, <2>4
<1>15. Accompanied(ToSet(FromAnswer(s, i)))
  <2> SUFFICES ASSUME NEW c \in ToSet(FromAnswer(s, i)), ~(c.of \subseteq AnyDegree)
               PROVE  \E d \in ToSet(FromAnswer(s, i)) :
                        /\ d.field = "degree_type" /\ d.source = c.source /\ d.group = c.group
                        /\ d.value \in c.of
    BY DEF Accompanied
  <2>1. PICK j \in 1 .. n : c = claim(j, candidates[j])
                            \/ (c = subject(j, candidates[j], n) /\ candidates[j].subject # 0)
    BY <1>12
  <2> DEFINE d == claim(j, candidates[j])
  <2>2. c # claim(j, candidates[j])
    <3>1. claim(j, candidates[j]).of = {}
      BY <1>4
    <3> QED
      BY <3>1
  <2>3. c.of = {candidates[j].value} /\ c.source = s /\ c.group = answer.group
    BY <1>5, <2>1, <2>2
  <2>4. d.field = answer.field /\ d.source = s /\ d.group = answer.group /\ d.value = candidates[j].value
    BY <1>4
  <2>5. answer.field = "degree_type"
    BY <1>8, <1>9, <2>1, <2>2
  <2>6. d \in ToSet(FromAnswer(s, i))
    BY <1>12
  <2> HIDE DEF d
  <2> QED
    BY <2>3, <2>4, <2>5, <2>6
<1> QED
  BY <1>12, <1>13, <1>14, <1>15

\* A claim that an answer makes.
Told(c) ==
  /\ Proper(c)
  /\ \E s \in DOMAIN Answers : \E i \in DOMAIN Answers[s] : c \in ToSet(FromAnswer(s, i))

\* A claim of a source.
ClaimOf(c, s) == IsClaim(c) /\ c.source = s /\ Told(c)

\* A name is the name of one claim.
LEMMA OneName ==
  ASSUME NEW c, NEW d, Told(c), Told(d), c.n = d.n
  PROVE  c = d
<1>1. PICK s \in DOMAIN Answers : \E i \in DOMAIN Answers[s] : c \in ToSet(FromAnswer(s, i))
  BY DEF Told
<1>2. PICK i \in DOMAIN Answers[s] : c \in ToSet(FromAnswer(s, i))
  BY <1>1
<1>3. PICK t \in DOMAIN Answers : \E k \in DOMAIN Answers[t] : d \in ToSet(FromAnswer(t, k))
  BY DEF Told
<1>4. PICK k \in DOMAIN Answers[t] : d \in ToSet(FromAnswer(t, k))
  BY <1>3
<1>5. c.n[1] = s /\ c.n[2] = i /\ d.n[1] = t /\ d.n[2] = k
  BY <1>2, <1>4, FromAnswerType DEF MadeOf
<1>6. s = t /\ i = k
  BY <1>5
<1> QED
  BY <1>2, <1>4, <1>6, FromAnswerType

\* The claims of an answer without a fault are claims that an answer makes.
LEMMA FaultlessTold ==
  ASSUME NEW s \in DOMAIN Answers, NEW i \in DOMAIN Answers[s], NEW sites,
         Fault(s, Answers[s][i], sites) = "none"
  PROVE  /\ IsSeq(FromAnswer(s, i)) /\ \A c \in ToSet(FromAnswer(s, i)) : ClaimOf(c, s)
         /\ Accompanied(ToSet(FromAnswer(s, i)))
<1>1. /\ IsSeq(FromAnswer(s, i)) /\ \A c \in ToSet(FromAnswer(s, i)) : MadeOf(c, s, i)
      /\ Accompanied(ToSet(FromAnswer(s, i)))
  BY FromAnswerType
<1> DEFINE answer == Answers[s][i]
           placed == [answer EXCEPT !.source = s]
<1>2. EligibleForSource(placed)
  BY FaultlessEligible
<1>3. /\ placed.source = s /\ placed.near = answer.near /\ placed.names = answer.names
      /\ placed.raw = answer.raw
  BY AnswersAssumption
<1> HIDE DEF answer, placed
<1>4. ASSUME NEW c \in ToSet(FromAnswer(s, i))
      PROVE  ClaimOf(c, s)
  <2>1. MadeOf(c, s, i)
    BY <1>1
  <2>2. EligibleForSource(c)
    BY <1>2, <1>3, <2>1 DEF MadeOf, EligibleForSource, answer
  <2>3. Proper(c)
    BY <2>1, <2>2 DEF MadeOf, Proper
  <2> QED
    BY <2>1, <2>3 DEF MadeOf, ClaimOf, Told
<1> QED
  BY <1>1, <1>4

\* Claims of several answers, or of several pages, come with their degrees.
LEMMA AccompaniedTogether ==
  ASSUME NEW E, NEW Parts, E = UNION Parts, \A P \in Parts : Accompanied(P)
  PROVE  Accompanied(E)
BY DEF Accompanied

\* _deduplicate_claims keeps some of the claims: of those that say the same, the first.  So a
\* subject keeps a degree beside it.
LEMMA DeduplicateType ==
  ASSUME NEW claims_, IsSeq(claims_)
  PROVE  /\ IsSeq(DeduplicateClaims(claims_)) /\ ToSet(DeduplicateClaims(claims_)) \subseteq ToSet(claims_)
         /\ Accompanied(ToSet(claims_)) => Accompanied(ToSet(DeduplicateClaims(claims_)))
<1> DEFINE key(c) == <<c.source, c.field, c.raw, c.value, c.asOf, c.ended, c.year, c.current, c.group>>
           places == {i \in DOMAIN claims_ : \A j \in 1 .. i - 1 : key(claims_[j]) # key(claims_[i])}
<1>1. DeduplicateClaims(claims_) = Picked(claims_, places)
  BY DEF DeduplicateClaims
<1>2. places \subseteq DOMAIN claims_
  OBVIOUS
<1>3. DOMAIN claims_ = 1 .. Len(claims_) /\ Len(claims_) \in Nat
  BY SeqFacts
<1>4. ASSUME NEW i \in DOMAIN claims_
      PROVE  \E k \in places : key(claims_[k]) = key(claims_[i])
  <2> DEFINE same == {j \in DOMAIN claims_ : key(claims_[j]) = key(claims_[i])}
  <2>1. same \in SUBSET Int /\ IsFiniteSet(same) /\ same # {}
    <3>1. claims_ \in Seq(ToSet(claims_)) /\ same \in SUBSET (DOMAIN claims_)
      BY DEF IsSeq
    <3>2. i \in same
      OBVIOUS
    <3> HIDE DEF same
    <3> QED
      BY <3>1, <3>2, PlacesFinite
  <2>2. PICK k \in same : \A j \in same : k <= j
    <3> HIDE DEF same
    <3> QED
      BY <2>1, LeastExists
  <2> HIDE DEF key
  <2>3. ASSUME NEW j \in 1 .. k - 1
        PROVE  key(claims_[j]) # key(claims_[k])
    <3>1. j \in DOMAIN claims_ /\ ~(k <= j)
      BY <1>3
    <3> QED
      BY <2>2, <3>1
  <2> QED
    BY <2>2, <2>3
<1>5. \A c, d : key(c) = key(d) =>
        c.source = d.source /\ c.field = d.field /\ c.value = d.value /\ c.group = d.group
  OBVIOUS
<1> HIDE DEF places, key
<1>6. /\ IsSeq(DeduplicateClaims(claims_)) /\ ToSet(DeduplicateClaims(claims_)) \subseteq ToSet(claims_)
      /\ ToSet(DeduplicateClaims(claims_)) = {claims_[i] : i \in places}
  BY <1>1, <1>2, PickedSeq
<1>7. ASSUME Accompanied(ToSet(claims_)) PROVE Accompanied(ToSet(DeduplicateClaims(claims_)))
  <2> SUFFICES ASSUME NEW c \in ToSet(DeduplicateClaims(claims_)), ~(c.of \subseteq AnyDegree)
               PROVE  \E d \in ToSet(DeduplicateClaims(claims_)) :
                        /\ d.field = "degree_type" /\ d.source = c.source /\ d.group = c.group
                        /\ d.value \in c.of
    BY DEF Accompanied
  <2>1. PICK e \in ToSet(claims_) : /\ e.field = "degree_type" /\ e.source = c.source
                                   /\ e.group = c.group /\ e.value \in c.of
    BY <1>6, <1>7 DEF Accompanied
  <2>2. PICK i \in DOMAIN claims_ : e = claims_[i]
    BY DEF ToSet
  <2>3. PICK k \in places : key(claims_[k]) = key(claims_[i])
    BY <1>4
  <2>4. claims_[k] \in ToSet(DeduplicateClaims(claims_))
    BY <1>6
  <2>5. /\ claims_[k].source = e.source /\ claims_[k].field = e.field
        /\ claims_[k].value = e.value /\ claims_[k].group = e.group
    BY <1>5, <2>2, <2>3
  <2> QED
    BY <2>1, <2>4, <2>5
<1> QED
  BY <1>6, <1>7

\* validate_claims keeps some of the claims of the source, and of a subject a degree.
LEMMA ValidatedType ==
  ASSUME NEW s \in DOMAIN Answers, NEW given, given \subseteq DOMAIN Answers[s], NEW sites
  PROVE  /\ IsSeq(Validated(s, given, sites)) /\ \A c \in ToSet(Validated(s, given, sites)) : ClaimOf(c, s)
         /\ Accompanied(ToSet(Validated(s, given, sites)))
<1> DEFINE faultless == {i \in given : Fault(s, Answers[s][i], sites) = "none"}
           valid == Ascending(faultless)
           lists == [k \in DOMAIN valid |-> FromAnswer(s, valid[k])]
           n == Cardinality(faultless)
<1>1. faultless \in SUBSET Int /\ IsFiniteSet(faultless) /\ faultless \subseteq DOMAIN Answers[s]
  <2>1. Len(Answers[s]) \in Nat /\ DOMAIN Answers[s] = 1 .. Len(Answers[s])
    BY AnswersAssumption, SeqFacts
  <2>2. IsFiniteSet(1 .. Len(Answers[s]))
    <3>1. 1 \in Int /\ Len(Answers[s]) \in Int
      BY <2>1
    <3> QED
      BY <3>1, FS_Interval
  <2> QED
    BY <2>1, <2>2, FS_Subset
<1> HIDE DEF faultless
<1>2. n \in Nat /\ DOMAIN valid = 1 .. n /\ \A k \in DOMAIN valid : valid[k] \in faultless
  BY <1>1, AscendingType, FS_CardinalityType
<1> HIDE DEF valid
<1>3. lists = [k \in 1 .. n |-> lists[k]]
      /\ \A k \in DOMAIN lists : /\ IsSeq(lists[k]) /\ \A c \in ToSet(lists[k]) : ClaimOf(c, s)
                                 /\ Accompanied(ToSet(lists[k]))
  <2>1. \A i \in faultless : Fault(s, Answers[s][i], sites) = "none"
    BY DEF faultless
  <2> QED
    BY <1>1, <1>2, <2>1, FaultlessTold
<1> HIDE DEF lists, n
<1>4. /\ IsSeq(Concatenated(lists)) /\ \A c \in ToSet(Concatenated(lists)) : ClaimOf(c, s)
      /\ Accompanied(ToSet(Concatenated(lists)))
  <2> DEFINE Parts == {ToSet(lists[k]) : k \in DOMAIN lists}
  <2>1. IsSeq(lists)
    BY <1>2, <1>3, SeqMade
  <2>2. /\ IsSeq(Concatenated(lists))
        /\ \A x \in ToSet(Concatenated(lists)) : \E k \in DOMAIN lists : x \in ToSet(lists[k])
        /\ \A k \in DOMAIN lists : ToSet(lists[k]) \subseteq ToSet(Concatenated(lists))
    BY <1>3, <2>1, ConcatenatedSeq
  <2>3. ToSet(Concatenated(lists)) = UNION Parts
    BY <2>2
  <2>4. \A P \in Parts : Accompanied(P)
    BY <1>3
  <2> HIDE DEF Parts
  <2>5. Accompanied(ToSet(Concatenated(lists)))
    BY <2>3, <2>4, AccompaniedTogether
  <2> QED
    BY <1>3, <2>2, <2>5
<1>5. Validated(s, given, sites) = << >> \/ Validated(s, given, sites) = DeduplicateClaims(Concatenated(lists))
  BY DEF Validated, valid, lists, faultless
<1>6. Accompanied({})
  BY DEF Accompanied
<1> QED
  BY <1>4, <1>5, <1>6, NoneSeq, DeduplicateType

-----------------------------------------------------------------------------
(* The invariant, and that every step keeps it.                             *)

\* The pages of the person.
Pages == People[person].pages

\* claims are claims, of sources that have been read, and a subject has its degree beside it.
Collected ==
  /\ IsSeq(claims) /\ \A c \in ToSet(claims) : IsClaim(c) /\ Told(c) /\ c.source \in sources
  /\ Accompanied(ToSet(claims))

\* What is stored is a result about the pages of the person.
Kept == result # None => IsResult(result) /\ result.sources \subseteq Pages

\* The inductive invariant: claims are of pages that were read, and what is stored rests on them.
EvidenceInv ==
  /\ person \in DOMAIN People
  /\ done \subseteq sources /\ sources \subseteq Pages /\ hashes \subseteq HashesOf(sources)
  /\ blocked \subseteq People[person].sites
  /\ Collected /\ Kept

\* A person of whom nothing is read has no claims and no result.
LEMMA InitInv == Init => EvidenceInv
<1> SUFFICES ASSUME Init PROVE EvidenceInv
  OBVIOUS
<1>1. Collected
  <2>1. claims = << >>
    BY DEF Init
  <2> QED
    BY <2>1, NoneSeq DEF Collected, Accompanied
<1> QED
  BY <1>1 DEF Init, EvidenceInv, Kept, Pages

\* Claims that are joined are claims of the sources read.
LEMMA CollectsMore ==
  ASSUME Collected, NEW s \in DOMAIN Answers,
         NEW more, IsSeq(more), \A c \in ToSet(more) : ClaimOf(c, s), Accompanied(ToSet(more))
  PROVE  /\ IsSeq(DeduplicateClaims(claims \o more))
         /\ \A c \in ToSet(DeduplicateClaims(claims \o more)) : IsClaim(c) /\ Told(c) /\ c.source \in sources \cup {s}
         /\ Accompanied(ToSet(DeduplicateClaims(claims \o more)))
<1>1. IsSeq(claims \o more) /\ ToSet(claims \o more) = ToSet(claims) \cup ToSet(more)
  BY ConcatSeq DEF Collected
<1>2. Accompanied(ToSet(claims \o more))
  BY <1>1 DEF Collected, Accompanied
<1>3. /\ IsSeq(DeduplicateClaims(claims \o more))
      /\ ToSet(DeduplicateClaims(claims \o more)) \subseteq ToSet(claims \o more)
      /\ Accompanied(ToSet(DeduplicateClaims(claims \o more)))
  BY <1>1, <1>2, DeduplicateType
<1> QED
  BY <1>1, <1>3 DEF Collected, ClaimOf

\* A page is read: its claims join, ...
LEMMA ReadPageInv ==
  ASSUME EvidenceInv, NEW s \in Pages, ReadPage(s)
  PROVE  EvidenceInv'
<1>1. s \in DOMAIN Answers
  BY PeopleAssumption DEF EvidenceInv, Pages
<1> DEFINE more == ValidateClaims(s, blocked)
<1>2. IsSeq(more) /\ (\A c \in ToSet(more) : ClaimOf(c, s)) /\ Accompanied(ToSet(more))
  BY <1>1, ValidatedType DEF ValidateClaims
<1>3. claims' = claims \/ claims' = DeduplicateClaims(claims \o more)
  BY DEF ReadPage
<1>4. sources' = sources \cup {s}
  BY DEF ReadPage
<1> HIDE DEF more
<1>5. Collected'
  <2>1. CASE claims' = claims
    BY <1>4, <2>1 DEF EvidenceInv, Collected
  <2>2. CASE claims' = DeduplicateClaims(claims \o more)
    <3>1. /\ IsSeq(DeduplicateClaims(claims \o more))
          /\ \A c \in ToSet(DeduplicateClaims(claims \o more)) :
               IsClaim(c) /\ Told(c) /\ c.source \in sources \cup {s}
          /\ Accompanied(ToSet(DeduplicateClaims(claims \o more)))
      BY <1>1, <1>2, CollectsMore DEF EvidenceInv
    <3> QED
      BY <1>4, <2>2, <3>1 DEF Collected
  <2> QED
    BY <1>3, <2>1, <2>2
<1>6. hashes' \subseteq HashesOf(sources')
  BY <1>4 DEF ReadPage, EvidenceInv, HashesOf
<1> QED
  BY <1>5, <1>6 DEF ReadPage, EvidenceInv, Kept, Pages

\* ... or are lost with the process.
LEMMA CutShortInv ==
  ASSUME EvidenceInv, NEW s \in Pages, CutShort(s)
  PROVE  EvidenceInv'
<1>1. s \in DOMAIN Answers
  BY PeopleAssumption DEF EvidenceInv, Pages
<1> DEFINE given == DOMAIN Answers[s] \intersect {1}
           more == Validated(s, given, blocked)
<1>2. claims' = DeduplicateClaims(claims \o more) /\ sources' = sources \cup {s}
  BY DEF CutShort
<1>3. given \subseteq DOMAIN Answers[s]
  OBVIOUS
<1> HIDE DEF given
<1>4. IsSeq(more) /\ (\A c \in ToSet(more) : ClaimOf(c, s)) /\ Accompanied(ToSet(more))
  BY <1>1, <1>3, ValidatedType
<1> HIDE DEF more
<1>5. /\ IsSeq(DeduplicateClaims(claims \o more))
      /\ \A c \in ToSet(DeduplicateClaims(claims \o more)) :
           IsClaim(c) /\ Told(c) /\ c.source \in sources \cup {s}
      /\ Accompanied(ToSet(DeduplicateClaims(claims \o more)))
  BY <1>1, <1>4, CollectsMore DEF EvidenceInv
<1>6. Collected'
  BY <1>2, <1>5 DEF Collected
<1>7. hashes' \subseteq HashesOf(sources')
  BY <1>2 DEF CutShort, EvidenceInv, HashesOf
<1> QED
  BY <1>2, <1>6, <1>7 DEF CutShort, EvidenceInv, Kept, Pages

\* An address is not the name of a site that may be blocked.
LEMMA NoSiteIsAnAddress ==
  ASSUME person \in DOMAIN People, NEW S, S \subseteq Pages, NEW B, B \subseteq People[person].sites
  PROVE  Addresses(S) \intersect B = {} /\ S \subseteq Int /\ IsFiniteSet(S)
<1>1. /\ Pages \subseteq Int /\ IsFiniteSet(Pages) /\ 0 \notin People[person].sites
      /\ \A s \in Pages : Source[s].url \notin People[person].sites
  BY PeopleAssumption DEF Pages
<1> QED
  BY <1>1, FS_Subset DEF Addresses

\* A conclusion stores a result that rests on the claims of the sources.
LEMMA ConcludeInv ==
  ASSUME EvidenceInv, Conclude
  PROVE  EvidenceInv'
<1> DEFINE profile == Reconcile(Seed, claims, sources, blocked)
           r == [shown |-> TRUE, profile |-> profile, sources |-> sources, claims |-> claims,
                 blocked |-> blocked]
<1>1. result' = r
  BY DEF Conclude
<1>2. /\ Addresses(sources) \intersect blocked = {} /\ sources \subseteq Int /\ IsFiniteSet(sources)
      /\ IsSeq(Seed.attributes)
  BY NoSiteIsAnAddress, PeopleAssumption DEF EvidenceInv, Seed
<1>3. Stored(profile, IdsFrom(ToSet(claims), Left(sources, blocked)), Addresses(Left(sources, blocked)))
  BY <1>2, ReconcileType DEF EvidenceInv, Collected
<1>4. /\ IdsFrom(ToSet(claims), Left(sources, blocked)) \subseteq IdsFrom(ToSet(claims), sources)
      /\ Addresses(Left(sources, blocked)) \subseteq Addresses(sources)
  BY DEF IdsFrom, Ids, Addresses, Left
<1> HIDE DEF profile
<1>5. Stored(profile, IdsFrom(ToSet(claims), sources), Addresses(sources))
  BY <1>3, <1>4, StoredGrows
<1>6. IsResult(r) /\ r.sources \subseteq Pages
  BY <1>2, <1>5 DEF IsResult, EvidenceInv, Collected
<1> HIDE DEF r
<1>7. Kept'
  BY <1>1, <1>6 DEF Conclude, Kept, Pages
<1> QED
  BY <1>7 DEF Conclude, EvidenceInv, Collected, Pages

\* Every step keeps all of this.
LEMMA NextInv == EvidenceInv /\ [Next]_vars => EvidenceInv'
<1> SUFFICES ASSUME EvidenceInv, [Next]_vars PROVE EvidenceInv'
  OBVIOUS
<1>1. ASSUME NEW s \in Pages, ReadPage(s) PROVE EvidenceInv'
  BY <1>1, ReadPageInv
<1>2. ASSUME NEW s \in Pages, CutShort(s) PROVE EvidenceInv'
  BY <1>2, CutShortInv
<1>3. CASE Conclude
  BY <1>3, ConcludeInv
<1>4. ASSUME NEW site \in People[person].sites \ blocked, BlockSite(site) PROVE EvidenceInv'
  BY <1>4 DEF BlockSite, EvidenceInv, Collected, Kept, Pages
<1>5. CASE Open
  BY <1>5 DEF Open, EvidenceInv, Collected, Kept, Pages
<1>6. CASE UNCHANGED vars
  BY <1>6 DEF vars, EvidenceInv, Collected, Kept, Pages
<1> QED
  BY <1>1, <1>2, <1>3, <1>4, <1>5, <1>6 DEF Next, Pages

\* What Open shows is safe.
LEMMA OpenSafe ==
  ASSUME EvidenceInv, Open
  PROVE  NothingFromBlockedSources'
<1> DEFINE new == [shown |-> TRUE, blocked |-> blocked,
                   supplied |-> SuppliedFieldDecisions(Seed, blocked),
                   profile |-> ProjectStoredSeed(Sanitize(result, Seed, blocked).profile, Seed, blocked)]
           S == Left(result.sources, blocked)
           K == IdsFrom(ToSet(result.claims), S)
           A == Addresses(S)
<1>1. opened' = new
  BY DEF Open
<1>2. /\ IsResult(result) /\ result.sources \subseteq Pages /\ IsSeq(Seed.attributes)
      /\ blocked \subseteq People[person].sites /\ person \in DOMAIN People
  BY PeopleAssumption DEF Open, EvidenceInv, Kept, Seed
<1>3. Addresses(result.sources) \intersect blocked = {} /\ A \intersect blocked = {} /\ 0 \in A
  <2>1. S \subseteq Pages
    BY <1>2 DEF Left
  <2> HIDE DEF S
  <2>2. 0 \in A
    BY DEF Addresses
  <2> QED
    BY <1>2, <2>1, <2>2, NoSiteIsAnAddress
<1>4. Stored(Sanitize(result, Seed, blocked).profile, K, A)
  BY <1>2, <1>3, SanitizeType
<1>5. \A n \in K : Allowed(n[1], blocked)
  BY <1>2 DEF IdsFrom, Ids, Left, IsResult, IsClaim
<1> HIDE DEF S, K, A
<1>6. \A fields \in Profiles(new.profile) \cup {new.supplied} : Safe(fields, K, A, blocked)
  <2>1. \A fields \in Profiles(new.profile) : Safe(fields, K, A, blocked)
    BY <1>2, <1>3, <1>4, ProjectType
  <2>2. Safe(new.supplied, K, A, blocked)
    BY <1>2, <1>3, SuppliedFieldsType
  <2> QED
    BY <2>1, <2>2
<1>7. new.blocked = blocked
  OBVIOUS
<1> HIDE DEF new
<1>8. \A fields \in Profiles(new.profile) \cup {new.supplied} : \A f \in Fields :
        /\ \A n \in Shows(fields[f]) \cup fields[f].agreeing : Allowed(n[1], new.blocked)
        /\ f = "profile_link" => fields[f].value \notin new.blocked
  <2> TAKE fields \in Profiles(new.profile) \cup {new.supplied}
  <2> TAKE f \in Fields
  <2>1. Safe(fields, K, A, blocked)
    BY <1>6
  <2> QED
    BY <1>5, <1>7, <2>1 DEF Safe, Based, Rests
<1> QED
  BY <1>1, <1>8 DEF NothingFromBlockedSources, Profiles

\* Nothing that is shown rests on a source that the policy blocks.
THEOREM NothingBlockedIsShown == Spec => []NothingFromBlockedSources
<1>1. Init => NothingFromBlockedSources
  BY DEF Init, NothingFromBlockedSources
<1>2. ASSUME EvidenceInv, NothingFromBlockedSources, [Next]_vars
      PROVE  NothingFromBlockedSources'
  <2>1. CASE Open
    BY <1>2, <2>1, OpenSafe
  <2>2. CASE opened' = opened
    BY <1>2, <2>2 DEF NothingFromBlockedSources, Profiles
  <2>3. Open \/ opened' = opened
    BY <1>2 DEF Next, ReadPage, CutShort, Conclude, BlockSite, vars
  <2> QED
    BY <2>1, <2>2, <2>3
<1>3. EvidenceInv /\ NothingFromBlockedSources /\ [Next]_vars => NothingFromBlockedSources'
  BY <1>2
<1> QED
  BY <1>1, <1>3, InitInv, NextInv, PTL DEF Spec

\* What Conclude stores keeps degrees apart that a page lists apart.
LEMMA ConcludeApart ==
  ASSUME EvidenceInv, Conclude
  PROVE  ListedDegreesStayApart'
<1> DEFINE profile == Reconcile(Seed, claims, sources, blocked)
           r == [shown |-> TRUE, profile |-> profile, sources |-> sources, claims |-> claims,
                 blocked |-> blocked]
           E == ToSet(claims)
           support(i) == profile.records[i].fields["degree_type"].support
           named(n) == CHOOSE c \in E : c.n = n
           statement(c) == {d \in E : d.source = c.source /\ d.group = c.group}
<1>1. result' = r
  BY DEF Conclude
<1>2. IsSeq(claims) /\ \A c \in E : IsClaim(c) /\ Proper(c) /\ Told(c)
  BY DEF EvidenceInv, Collected, Told
<1>3. \A i \in DOMAIN profile.records :
        \E X \in SUBSET E : /\ Supports(profile.records[i].fields["degree_type"], Ids(X))
                            /\ ApartDegrees(X, E)
  BY <1>2, ReconcileApart
<1> HIDE DEF profile, E
<1>4. ASSUME NEW i \in DOMAIN profile.records,
             NEW c \in {named(n) : n \in support(i)}, NEW d \in {named(n) : n \in support(i)},
             c.source = d.source, c.group # 0, d.group # 0
      PROVE  ~FieldConflicts(statement(c), statement(d), "university_name")
  <2>1. PICK X \in SUBSET E : /\ Supports(profile.records[i].fields["degree_type"], Ids(X))
                              /\ ApartDegrees(X, E)
    BY <1>3
  <2>2. ASSUME NEW n \in support(i)
        PROVE  named(n) \in X
    <3>1. PICK x \in X : x.n = n
      BY <2>1 DEF Supports, Ids
    <3>2. x \in E
      OBVIOUS
    <3>3. named(n) \in E /\ named(n).n = n
      BY <3>1, <3>2
    <3> HIDE DEF named
    <3>4. named(n) = x
      BY <1>2, <3>1, <3>2, <3>3, OneName
    <3> QED
      BY <3>4
  <2>3. c \in X /\ d \in X
    <3>1. (\E n \in support(i) : c = named(n)) /\ (\E n \in support(i) : d = named(n))
      OBVIOUS
    <3> HIDE DEF support, named
    <3> QED
      BY <2>2, <3>1
  <2>4. ~FieldConflicts(Listed(c, E), Listed(d, E), "university_name")
    BY <1>4, <2>1, <2>3 DEF ApartDegrees
  <2> QED
    BY <2>4 DEF Listed
<1>5. ListedDegreesStayApart'
        <=> (result' # None => \A i \in DOMAIN result'.profile.records :
               \A c, d \in {CHOOSE e \in ToSet(result'.claims) : e.n = n :
                              n \in result'.profile.records[i].fields["degree_type"].support} :
                 c.source = d.source /\ c.group # 0 /\ d.group # 0
                   => ~FieldConflicts(
                         {e \in ToSet(result'.claims) : e.source = c.source /\ e.group = c.group},
                         {e \in ToSet(result'.claims) : e.source = d.source /\ e.group = d.group},
                         "university_name"))
  BY DEF ListedDegreesStayApart, ClaimNamed, Statement, FieldConflicts, FieldOverlaps, ValuesOf, Of,
         Equivalent, None
<1>6. result'.profile = profile /\ ToSet(result'.claims) = E
  BY <1>1 DEF E
<1> QED
  BY <1>4, <1>5, <1>6

\* Two degrees that one page lists apart, at two universities, never support one record.
THEOREM ListedDegreesKeptApart == Spec => []ListedDegreesStayApart
<1>1. Init => ListedDegreesStayApart
  BY DEF Init, ListedDegreesStayApart
<1>2. ASSUME EvidenceInv, ListedDegreesStayApart, [Next]_vars
      PROVE  ListedDegreesStayApart'
  <2>1. CASE Conclude
    BY <1>2, <2>1, ConcludeApart
  <2>2. CASE result' = result
    BY <1>2, <2>2 DEF ListedDegreesStayApart, ClaimNamed, Statement
  <2>3. Conclude \/ result' = result
    BY <1>2 DEF Next, ReadPage, CutShort, Open, BlockSite, vars
  <2> QED
    BY <2>1, <2>2, <2>3
<1>3. EvidenceInv /\ ListedDegreesStayApart /\ [Next]_vars => ListedDegreesStayApart'
  BY <1>2
<1> QED
  BY <1>1, <1>3, InitInv, NextInv, PTL DEF Spec

\* What Conclude stores shows whatever is known of a role or a credential.
LEMMA ConcludeShows ==
  ASSUME EvidenceInv, Conclude
  PROVE  RolesAndCredentialsStayVisible'
<1> DEFINE profile == Reconcile(Seed, claims, sources, blocked)
           r == [shown |-> TRUE, profile |-> profile, sources |-> sources, claims |-> claims,
                 blocked |-> blocked]
           E == ToSet(claims)
<1>1. result' = r
  BY DEF Conclude
<1>2. /\ IsSeq(claims) /\ \A c \in E : IsClaim(c) /\ Proper(c)
      /\ Accompanied(E) /\ SourcesOf(E) \subseteq sources
  BY DEF EvidenceInv, Collected, Told, SourcesOf
<1>3. DegreesNumbered(E)
  BY <1>2 DEF DegreesNumbered, Of, Proper
<1>4. ASSUME NEW c \in E, Allowed(c.source, blocked), ~Source[c.source].rejected,
             Min({c.relevance, Source[c.source].identity}) >= Policy.identityMinimum,
             c.field \in Context
      PROVE  \/ \E i \in DOMAIN profile.records : c.n \in Shows(profile.records[i].fields[c.field])
             \/ AtARelatives(c, profile, E)
  BY <1>2, <1>3, <1>4, ReconcileKeeps
<1> HIDE DEF profile, E
<1>5. RolesAndCredentialsStayVisible'
        <=> (result' # None =>
               \A c \in {d \in ToSet(result'.claims) :
                           /\ Allowed(d.source, result'.blocked) /\ EligibleForSource(d)
                           /\ ~Source[d.source].rejected
                           /\ Min({d.relevance, Source[d.source].identity}) >= Policy.identityMinimum} :
                 c.field \in Context
                 /\ ~(/\ \A f \in Volatile : result'.profile.fields[f].support = {}
                      /\ \E d \in ToSet(result'.claims) :
                           /\ d.source = c.source /\ d.group = c.group
                           /\ d.field = "organisation" /\ "relative" \in Words[d.value])
                 => \E fields \in {result'.profile.fields}
                                  \cup {result'.profile.records[i].fields : i \in DOMAIN result'.profile.records} :
                      c.n \in Shows(fields[c.field]))
  BY DEF RolesAndCredentialsStayVisible, Usable, OnlyAtARelatives, EvidenceShown, Profiles, None, Shows,
         Allowed, EligibleForSource
<1>6. result'.profile = profile /\ ToSet(result'.claims) = E /\ result'.blocked = blocked
  BY <1>1 DEF E
<1> QED
  BY <1>4, <1>5, <1>6 DEF AtARelatives

\* Whatever was grounded about a role or a credential is shown, as support, conflict or
\* alternative: only a title at a relative's business is not, where no role is known.
THEOREM WhatIsKnownIsShown == Spec => []RolesAndCredentialsStayVisible
<1>1. Init => RolesAndCredentialsStayVisible
  BY DEF Init, RolesAndCredentialsStayVisible
<1>2. ASSUME EvidenceInv, RolesAndCredentialsStayVisible, [Next]_vars
      PROVE  RolesAndCredentialsStayVisible'
  <2>1. CASE Conclude
    BY <1>2, <2>1, ConcludeShows
  <2>2. CASE result' = result
    BY <1>2, <2>2 DEF RolesAndCredentialsStayVisible, Usable, OnlyAtARelatives, EvidenceShown, Profiles
  <2>3. Conclude \/ result' = result
    BY <1>2 DEF Next, ReadPage, CutShort, Open, BlockSite, vars
  <2> QED
    BY <2>1, <2>2, <2>3
<1>3. EvidenceInv /\ RolesAndCredentialsStayVisible /\ [Next]_vars => RolesAndCredentialsStayVisible'
  BY <1>2
<1> QED
  BY <1>1, <1>3, InitInv, NextInv, PTL DEF Spec

=============================================================================
