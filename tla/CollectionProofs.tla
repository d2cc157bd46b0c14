--------------------------- MODULE CollectionProofs ---------------------------
(* What is known of finite sets, of sequences that are filtered, joined and  *)
(* sorted, of folds, and of totals: the facts that the proofs about the      *)
(* components need.                                                          *)
EXTENDS Totals, Ordering, FiniteSetTheorems, SequenceTheorems, WellFoundedInduction, TLAPS

-----------------------------------------------------------------------------
(* Numbers.                                                                  *)

\* The greater of two numbers.
LEMMA MaxOfTwo ==
  ASSUME NEW a \in Int, NEW b \in Int
  PROVE  /\ Max({a, b}) \in {a, b} /\ Max({a, b}) >= a /\ Max({a, b}) >= b
<1>1. \E x \in {a, b} : \A y \in {a, b} : x >= y
  OBVIOUS
<1> QED
  BY <1>1 DEF Max

\* The smaller of two.
LEMMA MinOfTwo ==
  ASSUME NEW a \in Int, NEW b \in Int
  PROVE  /\ Min({a, b}) \in {a, b} /\ Min({a, b}) <= a /\ Min({a, b}) <= b
<1>1. \E x \in {a, b} : \A y \in {a, b} : x =< y
  OBVIOUS
<1> QED
  BY <1>1 DEF Min

\* A finite set of integers has a greatest element: one above which least lies.
LEMMA MaxExists ==
  ASSUME NEW S \in SUBSET Int, IsFiniteSet(S), S # {}
  PROVE  Max(S) \in S /\ \A y \in S : Max(S) >= y
<1> DEFINE above(c) == {y \in S : y > c}
<1>1. IsWellFoundedOn(StrictSubsetOrdering(S), SUBSET S)
  BY FS_StrictSubsetOrderingWellFounded, FS_FiniteSubsetsOfFinite
<1>2. {above(c) : c \in S} \subseteq SUBSET S /\ {above(c) : c \in S} # {}
  OBVIOUS
<1>3. PICK s \in {above(c) : c \in S} :
        \A t \in {above(c) : c \in S} : <<t, s>> \notin StrictSubsetOrdering(S)
  BY <1>1, <1>2, WFMin
<1>4. PICK c \in S : s = above(c)
  BY <1>3
<1>5. ASSUME NEW y \in S, y > c
      PROVE  FALSE
  <2>0. y \in Int /\ c \in Int /\ S \subseteq Int
    OBVIOUS
  <2>1. /\ above(y) \subseteq above(c)
        /\ y \in above(c)
        /\ y \notin above(y)
    <3>1. above(y) \subseteq above(c)
      <4> SUFFICES ASSUME NEW z \in S, z > y PROVE z > c
        OBVIOUS
      <4> z \in Int
        BY <2>0
      <4> QED
        BY <1>5, <2>0
    <3>2. y \in above(c)
      BY <1>5
    <3>3. y \notin above(y)
      BY <2>0
    <3> QED
      BY <3>1, <3>2, <3>3
  <2>2. above(y) \in SUBSET S /\ above(c) \in SUBSET S
    OBVIOUS
  <2>3. <<above(y), above(c)>> \in StrictSubsetOrdering(S)
    <3> HIDE DEF above
    <3> QED
      BY <2>1, <2>2 DEF StrictSubsetOrdering
  <2> QED
    BY <1>3, <1>4, <2>3
<1>6. \E x \in S : \A y \in S : x >= y
  BY <1>5
<1> QED
  BY <1>6 DEF Max

\* And a least one.
LEMMA LeastExists ==
  ASSUME NEW S \in SUBSET Int, IsFiniteSet(S), S # {}
  PROVE  \E x \in S : \A y \in S : x <= y
<1> DEFINE N == {-x : x \in S}
           f == [x \in S |-> -x]
<1>0. S \subseteq Int
  OBVIOUS
<1>1. IsFiniteSet(N)
  <2>1. f \in Surjection(S, N)
    BY DEF Surjection
  <2> QED
    BY <2>1, FS_Surjection
<1>2. N \subseteq Int /\ N # {}
  <2>1. \A x \in S : -x \in Int
    BY <1>0
  <2>2. PICK x \in S : TRUE
    OBVIOUS
  <2>3. -x \in N
    OBVIOUS
  <2>4. N \subseteq Int
    BY <2>1
  <2> QED
    BY <2>3, <2>4
<1>3. Max(N) \in N /\ \A y \in N : Max(N) >= y
  <2> HIDE DEF N
  <2> QED
    BY <1>1, <1>2, MaxExists
<1>4. PICK x \in S : Max(N) = -x
  BY <1>3
<1>5. \A y \in S : x <= y
  <2> TAKE y \in S
  <2>1. -y \in N /\ x \in Int /\ y \in Int
    BY <1>0
  <2>2. -x >= -y
    BY <1>3, <1>4, <2>1
  <2> QED
    BY <2>1, <2>2
<1> QED
  BY <1>5

\* A finite set of numbers has an n-th one: with fewer than n places at or
\* below each, the last one would have n at or below it; with more, the one
\* before it would do.
LEMMA NthExists ==
  ASSUME NEW S \in SUBSET Int, IsFiniteSet(S), NEW n \in 1 .. Cardinality(S)
  PROVE  \E k \in S : Cardinality({j \in S : j <= k}) = n
<1> DEFINE upto(i) == {j \in S : j <= i}
           T == {i \in S : Cardinality(upto(i)) >= n}
<1> S \subseteq Int
  OBVIOUS
<1>0. \A U \in SUBSET S : IsFiniteSet(U) /\ Cardinality(U) \in Nat
  BY FS_Subset, FS_CardinalityType
<1>1. S # {}
  BY FS_EmptySet
<1>2. Max(S) \in T
  <2>1. Max(S) \in S /\ \A y \in S : Max(S) >= y
    BY <1>1, MaxExists
  <2>2. upto(Max(S)) = S
    BY <2>1
  <2> QED
    BY <2>1, <2>2, <1>0
<1>3. PICK i \in T : \A k \in T : i <= k
  <2>1. T \in SUBSET Int /\ IsFiniteSet(T) /\ T # {}
    BY <1>0, <1>2
  <2> HIDE DEF T
  <2> QED
    BY <2>1, LeastExists
<1>4. Cardinality(upto(i)) = n
  <2> SUFFICES ASSUME Cardinality(upto(i)) # n PROVE FALSE
    OBVIOUS
  <2> DEFINE below == {j \in S : j < i}
  <2>1. below = upto(i) \ {i} /\ i \in upto(i) /\ below \in SUBSET S /\ upto(i) \in SUBSET S
    <3>1. i \in S /\ i \in Int
      BY <1>3
    <3>2. \A j \in S : j \in Int /\ (j < i <=> j <= i /\ j # i)
      BY <3>1
    <3>3. below = upto(i) \ {i}
      BY <3>2
    <3>4. i \in upto(i)
      BY <3>1
    <3> QED
      BY <3>3, <3>4
  <2>2. Cardinality(below) = Cardinality(upto(i)) - 1
    <3>1. IsFiniteSet(upto(i))
      BY <1>0, <2>1
    <3> HIDE DEF below, upto
    <3> QED
      BY <2>1, <3>1, FS_RemoveElement
  <2>3. Cardinality(below) >= n
    <3>1. Cardinality(upto(i)) \in Nat /\ Cardinality(upto(i)) >= n
      BY <1>0, <1>3, <2>1
    <3> HIDE DEF below, upto
    <3> QED
      BY <2>2, <3>1
  <2>4. below # {} /\ IsFiniteSet(below)
    BY <2>3, <1>0, <2>1, FS_EmptySet
  <2>5. Max(below) \in below /\ \A y \in below : Max(below) >= y
    <3> HIDE DEF below
    <3> QED
      BY <2>1, <2>4, MaxExists
  <2>6. upto(Max(below)) = below
    <3>1. Max(below) \in Int /\ i \in Int /\ Max(below) < i /\ \A j \in S : j \in Int
      BY <1>3, <2>5
    <3>2. \A j \in S : j <= Max(below) <=> j < i
      <4> TAKE j \in S
      <4>1. j < i => j <= Max(below)
        BY <2>5, <3>1
      <4> QED
        BY <3>1, <4>1
    <3> QED
      BY <3>2
  <2>7. Max(below) \in T
    BY <2>3, <2>5, <2>6
  <2>8. i <= Max(below)
    <3> HIDE DEF T, below
    <3> QED
      BY <1>3, <2>7
  <2>9. Max(below) < i /\ Max(below) \in Int /\ i \in Int
    BY <1>3, <2>5
  <2> QED
    BY <2>8, <2>9
<1> QED
  BY <1>3, <1>4

-----------------------------------------------------------------------------
(* Induction.                                                                *)

\* What holds at 0, and at the next number whenever it holds at one, holds up
\* to L: there is no least number where it fails.
LEMMA CountingUp ==
  ASSUME NEW L \in Nat, NEW good, 0 \in good, \A n \in 1 .. L : n - 1 \in good => n \in good
  PROVE  \A n \in 0 .. L : n \in good
<1> DEFINE wrong == {n \in 0 .. L : n \notin good}
<1>1. SUFFICES ASSUME wrong # {} PROVE FALSE
  OBVIOUS
<1>2. IsFiniteSet(wrong)
  <2>1. IsFiniteSet(0 .. L)
    <3>1. 0 \in Int /\ L \in Int
      OBVIOUS
    <3> QED
      BY <3>1, FS_Interval
  <2> QED
    BY <2>1, FS_Subset
<1>3. PICK n \in wrong : \A m \in wrong : n <= m
  <2>1. wrong \in SUBSET Int
    OBVIOUS
  <2> HIDE DEF wrong
  <2> QED
    BY <1>1, <1>2, <2>1, LeastExists
<1>4. n \in 1 .. L /\ n - 1 \in 0 .. L /\ n - 1 \notin wrong
  BY <1>3
<1> QED
  BY <1>3, <1>4

\* What holds of a finite set whenever it holds of its strict subsets holds.
LEMMA SubsetInduction ==
  ASSUME NEW S, IsFiniteSet(S), NEW good,
         \A T \in SUBSET S : (\A U \in SUBSET T : U # T => U \in good) => T \in good
  PROVE  \A T \in SUBSET S : T \in good
<1> DEFINE wrong == {T \in SUBSET S : T \notin good}
<1>1. SUFFICES ASSUME wrong # {} PROVE FALSE
  OBVIOUS
<1>2. IsWellFoundedOn(StrictSubsetOrdering(S), SUBSET S)
  BY FS_StrictSubsetOrderingWellFounded, FS_FiniteSubsetsOfFinite
<1>3. PICK T \in wrong : \A U \in wrong : <<U, T>> \notin StrictSubsetOrdering(S)
  <2>1. wrong \subseteq SUBSET S
    OBVIOUS
  <2> HIDE DEF wrong
  <2> QED
    BY <1>1, <1>2, <2>1, WFMin
<1>4. \A U \in SUBSET T : U # T => U \in good
  <2> SUFFICES ASSUME NEW U \in SUBSET T, U # T, U \notin good PROVE FALSE
    OBVIOUS
  <2>1. U \in wrong /\ T \in SUBSET S /\ U \in SUBSET S
    OBVIOUS
  <2>2. <<U, T>> \in StrictSubsetOrdering(S)
    BY <2>1 DEF StrictSubsetOrdering
  <2> QED
    BY <1>3, <2>1, <2>2
<1> QED
  BY <1>4

-----------------------------------------------------------------------------
(* Folds.  The step of a fold is a function here: the values it folds over   *)
(* make a set V that the step does not leave.                                *)

\* D folds step over every subset of S, taking the elements that `pick` names.
Folds(D, S, pick, step, base) ==
  D = [T \in SUBSET S |-> IF T = {} THEN base ELSE step[<<pick[T], D[T \ {pick[T]}]>>]]

\* What two folds agree on.
LEMMA FoldsAgree ==
  ASSUME NEW S, IsFiniteSet(S), NEW pick, \A T \in SUBSET S : T # {} => pick[T] \in T,
         NEW step, NEW base, NEW A \in SUBSET S, NEW B \in SUBSET S,
         NEW D, Folds(D, A, pick, step, base), NEW E, Folds(E, B, pick, step, base)
  PROVE  \A T \in SUBSET A : T \in SUBSET B => D[T] = E[T]
<1> DEFINE good == {T \in SUBSET A : T \in SUBSET B => D[T] = E[T]}
<1>1. ASSUME NEW T \in SUBSET A, \A U \in SUBSET T : U # T => U \in good
      PROVE  T \in good
  <2> SUFFICES ASSUME T \in SUBSET B PROVE D[T] = E[T]
    OBVIOUS
  <2>1. CASE T = {}
    BY <2>1 DEF Folds
  <2>2. CASE T # {}
    <3> DEFINE U == T \ {pick[T]}
    <3>1. pick[T] \in T /\ U \in SUBSET T /\ U # T
      BY <2>2
    <3>2. D[U] = E[U]
      <4> HIDE DEF U
      <4> QED
        BY <1>1, <3>1
    <3>3. D[T] = step[<<pick[T], D[U]>>] /\ E[T] = step[<<pick[T], E[U]>>]
      BY <2>2 DEF Folds
    <3> QED
      BY <3>2, <3>3
  <2> QED
    BY <2>1, <2>2
<1>2. IsFiniteSet(A)
  BY FS_Subset
<1>3. \A T \in SUBSET A : T \in good
  <2> HIDE DEF good
  <2> QED
    BY <1>1, <1>2, SubsetInduction
<1> QED
  BY <1>3

\* There is a fold, and its values are in V: each subset has one, or there
\* would be a smallest without.
LEMMA FoldExists ==
  ASSUME NEW S, IsFiniteSet(S), NEW pick, \A T \in SUBSET S : T # {} => pick[T] \in T,
         NEW V, NEW base \in V, NEW step \in [S \X V -> V]
  PROVE  \E D \in [SUBSET S -> V] : Folds(D, S, pick, step, base)
<1> DEFINE fold(T) == CHOOSE D : Folds(D, T, pick, step, base) /\ D \in [SUBSET T -> V]
           good == {T \in SUBSET S : /\ Folds(fold(T), T, pick, step, base)
                                     /\ fold(T) \in [SUBSET T -> V]}
<1>1. ASSUME NEW T \in SUBSET S, \A U \in SUBSET T : U # T => U \in good
      PROVE  T \in good
  <2> DEFINE rest(U) == U \ {pick[U]}
             D == [U \in SUBSET T |-> IF U = {} THEN base
                                      ELSE step[<<pick[U], fold(rest(U))[rest(U)]>>]]
  <2>1. ASSUME NEW U \in SUBSET T, U # {}
        PROVE  /\ rest(U) \in SUBSET U /\ rest(U) \in good
               /\ fold(rest(U))[rest(U)] \in V /\ D[U] \in V
    <3>1. pick[U] \in U /\ pick[U] \in S /\ rest(U) \in SUBSET U /\ rest(U) # T /\ rest(U) \in SUBSET T
      BY <2>1
    <3>2. rest(U) \in good
      <4> HIDE DEF good, rest
      <4> QED
        BY <1>1, <3>1
    <3>3. fold(rest(U)) \in [SUBSET rest(U) -> V]
      BY <3>2
    <3>4. fold(rest(U))[rest(U)] \in V
      <4> HIDE DEF fold, rest
      <4> QED
        BY <3>3
    <3>5. D[U] = step[<<pick[U], fold(rest(U))[rest(U)]>>]
      <4> HIDE DEF fold, rest
      <4> QED
        BY <2>1 DEF D
    <3>6. D[U] \in V
      <4> HIDE DEF fold, rest, D
      <4> QED
        BY <3>1, <3>4, <3>5
    <3> QED
      BY <3>1, <3>2, <3>4, <3>6
  <2>2. D \in [SUBSET T -> V]
    <3>1. D[{}] = base
      <4> HIDE DEF fold, rest
      <4> QED
        BY DEF D
    <3>2. \A U \in SUBSET T : D[U] \in V
      <4> HIDE DEF D
      <4> QED
        BY <2>1, <3>1
    <3> HIDE DEF fold, rest
    <3> QED
      BY <3>2 DEF D
  <2>3. ASSUME NEW U \in SUBSET T, U # {}
        PROVE  D[rest(U)] = fold(rest(U))[rest(U)]
    <3> DEFINE R == rest(U)
               Q == rest(R)
    <3>1. R \in SUBSET U /\ R \in good /\ R \in SUBSET T /\ R \in SUBSET S
      BY <2>1, <2>3
    <3>2. Folds(fold(R), R, pick, step, base)
      BY <3>1
    <3>3. CASE R = {}
      <4>1. fold(R)[R] = base
        <5> HIDE DEF fold, R
        <5> QED
          BY <3>2, <3>3 DEF Folds
      <4>2. D[R] = base
        <5> HIDE DEF fold, R
        <5> QED
          BY <3>1, <3>3 DEF D
      <4> QED
        BY <4>1, <4>2
    <3>4. CASE R # {}
      <4>1. Q \in SUBSET R /\ Q \in good /\ Q \in SUBSET S
        <5> HIDE DEF R, good, rest, fold, D
        <5> QED
          BY <2>1, <3>1, <3>4
      <4>2. Folds(fold(Q), Q, pick, step, base)
        BY <4>1
      <4>3. fold(R)[R] = step[<<pick[R], fold(R)[Q]>>]
        <5>1. fold(R)[R] = step[<<pick[R], fold(R)[R \ {pick[R]}]>>]
          <6> HIDE DEF fold, R
          <6> QED
            BY <3>2, <3>4 DEF Folds
        <5> QED
          BY <5>1
      <4>4. fold(R)[Q] = fold(Q)[Q]
        <5> HIDE DEF fold, Q, R
        <5> QED
          BY <3>1, <3>2, <4>1, <4>2, FoldsAgree
      <4>5. D[R] = step[<<pick[R], fold(Q)[Q]>>]
        <5> HIDE DEF fold, R
        <5> QED
          BY <3>1, <3>4 DEF D, Q
      <4> QED
        BY <4>3, <4>4, <4>5
    <3> QED
      BY <3>3, <3>4
  <2>4. Folds(D, T, pick, step, base)
    <3>1. ASSUME NEW U \in SUBSET T
          PROVE  D[U] = IF U = {} THEN base ELSE step[<<pick[U], D[U \ {pick[U]}]>>]
      <4>1. CASE U = {}
        <5> HIDE DEF fold, rest
        <5> QED
          BY <4>1 DEF D
      <4>2. CASE U # {}
        <5>1. D[U] = step[<<pick[U], fold(rest(U))[rest(U)]>>]
          <6> HIDE DEF fold, rest
          <6> QED
            BY <4>2 DEF D
        <5>2. D[rest(U)] = fold(rest(U))[rest(U)]
          BY <2>3, <4>2
        <5>3. rest(U) = U \ {pick[U]}
          OBVIOUS
        <5> HIDE DEF D, fold, rest
        <5> QED
          BY <4>2, <5>1, <5>2, <5>3
      <4> QED
        BY <4>1, <4>2
    <3> HIDE DEF D
    <3> QED
      BY <2>2, <3>1 DEF Folds
  <2> HIDE DEF D
  <2>5. \E E : Folds(E, T, pick, step, base) /\ E \in [SUBSET T -> V]
    BY <2>2, <2>4
  <2> QED
    BY <2>5
<1>2. S \in good
  <2>1. S \in SUBSET S
    OBVIOUS
  <2> HIDE DEF good
  <2> QED
    BY <1>1, <2>1, SubsetInduction
<1> HIDE DEF fold
<1> QED
  BY <1>2

\* A left fold over L places takes them from the greatest down.
Steps(L, V) == [(1 .. L) \X V -> V]
LeftFolds(D, L, step, base) ==
  D = [T \in SUBSET (1 .. L) |-> IF T = {} THEN base ELSE step[<<Max(T), D[T \ {Max(T)}]>>]]

\* There is one, and its values are in V.
LEMMA LeftFoldExists ==
  ASSUME NEW L \in Nat, NEW V, NEW base \in V, NEW step \in Steps(L, V)
  PROVE  \E D \in [SUBSET (1 .. L) -> V] : LeftFolds(D, L, step, base)
<1> DEFINE S == 1 .. L
           pick == [T \in SUBSET S |-> Max(T)]
<1>1. IsFiniteSet(S)
  <2>1. 1 \in Int /\ L \in Int
    OBVIOUS
  <2> QED
    BY <2>1, FS_Interval
<1>2. \A T \in SUBSET S : T # {} => pick[T] \in T
  <2> TAKE T \in SUBSET S
  <2> HAVE T # {}
  <2>1. T \in SUBSET Int /\ IsFiniteSet(T)
    <3>1. IsFiniteSet(T)
      <4> HIDE DEF S
      <4> QED
        BY <1>1, FS_Subset
    <3> QED
      BY <3>1
  <2> QED
    BY <2>1, MaxExists
<1>3. PICK D \in [SUBSET S -> V] : Folds(D, S, pick, step, base)
  <2> HIDE DEF S, pick
  <2>1. step \in [S \X V -> V]
    BY DEF S, Steps
  <2> QED
    BY <1>1, <1>2, <2>1, FoldExists
<1>4. D = [T \in SUBSET S |-> IF T = {} THEN base ELSE step[<<Max(T), D[T \ {Max(T)}]>>]]
  <2>1. \A T \in SUBSET S : pick[T] = Max(T)
    OBVIOUS
  <2>2. D = [T \in SUBSET S |-> IF T = {} THEN base ELSE step[<<pick[T], D[T \ {pick[T]}]>>]]
    BY <1>3 DEF Folds
  <2> HIDE DEF S, pick
  <2> QED
    BY <2>1, <2>2
<1> QED
  BY <1>4 DEF LeftFolds

\* The last of n places, and those before it.
LEMMA UpTo ==
  ASSUME NEW L \in Nat, NEW n \in 1 .. L
  PROVE  /\ 1 .. n \in SUBSET (1 .. L) /\ 1 .. n # {}
         /\ Max(1 .. n) = n /\ (1 .. n) \ {n} = 1 .. n - 1
<1>1. 1 .. n \in SUBSET (1 .. L) /\ 1 .. n # {} /\ (1 .. n) \ {n} = 1 .. n - 1
  OBVIOUS
<1>2. IsFiniteSet(1 .. n)
  <2>1. 1 \in Int /\ n \in Int
    OBVIOUS
  <2> QED
    BY <2>1, FS_Interval
<1>3. Max(1 .. n) \in 1 .. n /\ \A m \in 1 .. n : Max(1 .. n) >= m
  <2>1. 1 .. n \in SUBSET Int
    OBVIOUS
  <2> QED
    BY <1>1, <1>2, <2>1, MaxExists
<1>4. n \in 1 .. n
  OBVIOUS
<1>5. Max(1 .. n) = n
  <2> DEFINE m == Max(1 .. n)
  <2>1. m \in 1 .. n /\ m >= n
    BY <1>3, <1>4
  <2> HIDE DEF m
  <2>2. m = n
    BY <2>1
  <2> QED
    BY <2>2 DEF m
<1> QED
  BY <1>1, <1>5

-----------------------------------------------------------------------------
(* Sequences.                                                                *)

\* A table is the function it tabulates.
LEMMA TableIs ==
  ASSUME NEW f
  PROVE  Table(f) = f
<1>1. \E g \in {f} : g = f
  OBVIOUS
<1> QED
  BY <1>1 DEF Table

\* The numbers of a finite set, each at its place.
LEMMA AscendingType ==
  ASSUME NEW S \in SUBSET Int, IsFiniteSet(S)
  PROVE  /\ Cardinality(S) \in Nat /\ Ascending(S) \in Seq(S) /\ Len(Ascending(S)) = Cardinality(S)
         /\ DOMAIN Ascending(S) = 1 .. Cardinality(S)
         /\ \A i \in 1 .. Cardinality(S) :
              Ascending(S)[i] \in S /\ Cardinality({y \in S : y <= Ascending(S)[i]}) = i
         /\ \A x \in S : \E i \in 1 .. Cardinality(S) : Ascending(S)[i] = x
<1> DEFINE upto(x) == {y \in S : y <= x}
<1>0. S \subseteq Int
  OBVIOUS
<1>1. Cardinality(S) \in Nat
  BY FS_CardinalityType
<1>2. ASSUME NEW i \in 1 .. Cardinality(S)
      PROVE  Ascending(S)[i] \in S /\ Cardinality(upto(Ascending(S)[i])) = i
  <2>1. \E x \in S : Cardinality(upto(x)) = i
    BY NthExists
  <2>2. Ascending(S)[i] = CHOOSE x \in S : Cardinality({y \in S : y <= x}) = i
    BY DEF Ascending
  <2> QED
    BY <2>1, <2>2
<1>3. Ascending(S) \in Seq(S) /\ Len(Ascending(S)) = Cardinality(S) /\ DOMAIN Ascending(S) = 1 .. Cardinality(S)
  <2>1. Ascending(S) \in [1 .. Cardinality(S) -> S]
    BY <1>2 DEF Ascending
  <2>2. Ascending(S) \in Seq(S)
    BY <1>1, <2>1, SeqDef
  <2> QED
    BY <1>1, <2>1, <2>2, LenProperties
<1>4. ASSUME NEW x \in S
      PROVE  \E i \in 1 .. Cardinality(S) : Ascending(S)[i] = x
  <2> DEFINE i == Cardinality(upto(x))
  <2>1. i \in 1 .. Cardinality(S)
    <3>1. IsFiniteSet(upto(x)) /\ Cardinality(upto(x)) <= Cardinality(S) /\ Cardinality(upto(x)) \in Nat
      BY FS_Subset, FS_CardinalityType
    <3>2. x \in upto(x)
      BY <1>0
    <3>3. Cardinality(upto(x)) # 0
      BY <3>1, <3>2, FS_EmptySet
    <3> QED
      BY <1>1, <3>1, <3>3
  <2> DEFINE z == Ascending(S)[i]
  <2>2. z \in S /\ Cardinality(upto(z)) = Cardinality(upto(x))
    BY <1>2, <2>1
  <2>3. ASSUME NEW a \in S, NEW b \in S, a < b
        PROVE  Cardinality(upto(a)) # Cardinality(upto(b))
    <3>1. a \in Int /\ b \in Int
      BY <1>0
    <3>2. upto(a) \in SUBSET upto(b)
      <4> SUFFICES ASSUME NEW y \in S, y <= a PROVE y <= b
        OBVIOUS
      <4>1. y \in Int
        BY <1>0
      <4> QED
        BY <2>3, <3>1, <4>1
    <3>3. b \in upto(b) /\ b \notin upto(a)
      BY <2>3, <3>1
    <3>4. IsFiniteSet(upto(b))
      BY FS_Subset
    <3> HIDE DEF upto
    <3>5. upto(a) # upto(b)
      BY <3>3
    <3> QED
      BY <3>2, <3>4, <3>5, FS_Subset
  <2>4. z = x
    <3>1. z \in Int /\ x \in Int
      BY <1>0, <2>2
    <3>2. ~(z < x) /\ ~(x < z)
      <4> HIDE DEF z, upto
      <4> QED
        BY <2>2, <2>3
    <3> HIDE DEF z
    <3> QED
      BY <3>1, <3>2
  <2> QED
    BY <2>1, <2>4
<1> QED
  BY <1>1, <1>2, <1>3, <1>4

\* The places of a sequence are finitely many numbers.
LEMMA PlacesFinite ==
  ASSUME NEW E, NEW s \in Seq(E), NEW places \in SUBSET (DOMAIN s)
  PROVE  places \in SUBSET Int /\ IsFiniteSet(places)
<1>1. DOMAIN s = 1 .. Len(s) /\ Len(s) \in Nat
  BY LenProperties
<1>2. IsFiniteSet(1 .. Len(s))
  <2>1. 1 \in Int /\ Len(s) \in Int
    BY <1>1
  <2> QED
    BY <2>1, FS_Interval
<1> QED
  BY <1>1, <1>2, FS_Subset

\* What is picked from a sequence is what it has at these places.
LEMMA PickedType ==
  ASSUME NEW E, NEW s \in Seq(E), NEW places \in SUBSET (DOMAIN s)
  PROVE  /\ Picked(s, places) \in Seq(E)
         /\ Len(Picked(s, places)) = Cardinality(places)
         /\ ToSet(Picked(s, places)) = {s[i] : i \in places}
<1> DEFINE ordered == Ascending(places)
<1>1. places \in SUBSET Int /\ IsFiniteSet(places)
  BY PlacesFinite
<1>2. /\ Cardinality(places) \in Nat /\ DOMAIN ordered = 1 .. Cardinality(places)
      /\ \A k \in DOMAIN ordered : ordered[k] \in places
      /\ \A i \in places : \E k \in DOMAIN ordered : ordered[k] = i
  BY <1>1, AscendingType
<1>3. Picked(s, places) = [k \in DOMAIN ordered |-> s[ordered[k]]]
  BY TableIs DEF Picked, AlongPlaces
<1> HIDE DEF ordered
<1>4. \A k \in DOMAIN ordered : s[ordered[k]] \in E
  BY <1>2, LenProperties, ElementOfSeq
<1>5. Picked(s, places) \in Seq(E) /\ Len(Picked(s, places)) = Cardinality(places)
  <2>1. Picked(s, places) \in [1 .. Cardinality(places) -> E]
    BY <1>2, <1>3, <1>4
  <2>2. Picked(s, places) \in Seq(E)
    BY <1>2, <2>1, SeqDef
  <2> QED
    BY <1>2, <2>1, <2>2, LenProperties
<1>6. ToSet(Picked(s, places)) = {s[i] : i \in places}
  <2>1. ToSet(Picked(s, places)) = {s[ordered[k]] : k \in DOMAIN ordered}
    BY <1>3 DEF ToSet
  <2> QED
    BY <1>2, <2>1
<1> QED
  BY <1>5, <1>6

\* What is known of a sequence over E.
LEMMA SeqTyped ==
  ASSUME NEW E, NEW s \in Seq(E)
  PROVE  /\ IsSeq(s) /\ ToSet(s) \subseteq E
         /\ Len(s) \in Nat /\ DOMAIN s = 1 .. Len(s) /\ \A i \in DOMAIN s : s[i] \in E
<1>1. Len(s) \in Nat /\ DOMAIN s = 1 .. Len(s) /\ s \in [1 .. Len(s) -> E]
  BY LenProperties
<1>2. s \in [1 .. Len(s) -> ToSet(s)]
  BY <1>1 DEF ToSet
<1>3. s \in Seq(ToSet(s))
  BY <1>1, <1>2, SeqDef
<1>4. \A i \in DOMAIN s : s[i] \in E
  BY <1>1
<1>5. ToSet(s) \subseteq E
  BY <1>4 DEF ToSet
<1>6. IsSeq(s)
  BY <1>3 DEF IsSeq
<1> QED
  BY <1>1, <1>4, <1>5, <1>6

\* What is known of a sequence of anything.
LEMMA SeqFacts ==
  ASSUME NEW s, IsSeq(s)
  PROVE  /\ Len(s) \in Nat /\ DOMAIN s = 1 .. Len(s) /\ s = [i \in 1 .. Len(s) |-> s[i]]
         /\ IsFiniteSet(ToSet(s))
<1>1. s \in Seq(ToSet(s))
  BY DEF IsSeq
<1>2. Len(s) \in Nat /\ DOMAIN s = 1 .. Len(s) /\ s \in [1 .. Len(s) -> ToSet(s)]
  BY <1>1, LenProperties
<1>3. IsFiniteSet(1 .. Len(s))
  <2>1. 1 \in Int /\ Len(s) \in Int
    BY <1>2
  <2> QED
    BY <2>1, FS_Interval
<1>4. s \in Surjection(1 .. Len(s), ToSet(s))
  BY <1>2 DEF Surjection, ToSet
<1> QED
  BY <1>2, <1>3, <1>4, FS_Surjection

\* Two sequences in a row.
LEMMA ConcatSeq ==
  ASSUME NEW s, NEW t, IsSeq(s), IsSeq(t)
  PROVE  IsSeq(s \o t) /\ ToSet(s \o t) = ToSet(s) \cup ToSet(t)
<1> DEFINE E == ToSet(s) \cup ToSet(t)
<1>1. /\ Len(s) \in Nat /\ DOMAIN s = 1 .. Len(s) /\ s = [i \in 1 .. Len(s) |-> s[i]]
      /\ Len(t) \in Nat /\ DOMAIN t = 1 .. Len(t) /\ t = [i \in 1 .. Len(t) |-> t[i]]
  BY SeqFacts
<1>2. s \in [1 .. Len(s) -> E] /\ t \in [1 .. Len(t) -> E]
  BY <1>1 DEF ToSet
<1>3. s \in Seq(E) /\ t \in Seq(E)
  <2> HIDE DEF E
  <2> QED
    BY <1>1, <1>2, SeqDef
<1>4. /\ s \o t \in Seq(E) /\ Len(s \o t) = Len(s) + Len(t)
      /\ \A i \in 1 .. Len(s) + Len(t) : (s \o t)[i] = IF i <= Len(s) THEN s[i] ELSE t[i - Len(s)]
  <2> HIDE DEF E
  <2> QED
    BY <1>3, ConcatProperties
<1>5. IsSeq(s \o t) /\ ToSet(s \o t) \subseteq E /\ DOMAIN (s \o t) = 1 .. Len(s) + Len(t)
  <2> HIDE DEF E
  <2> QED
    BY <1>4, SeqTyped
<1>6. ASSUME NEW x \in E PROVE x \in ToSet(s \o t)
  <2>1. CASE x \in ToSet(s)
    <3>1. PICK i \in 1 .. Len(s) : x = s[i]
      BY <1>1, <2>1 DEF ToSet
    <3>2. i \in 1 .. Len(s) + Len(t) /\ (s \o t)[i] = x
      BY <1>1, <1>4, <3>1
    <3> QED
      BY <1>5, <3>2 DEF ToSet
  <2>2. CASE x \in ToSet(t)
    <3>1. PICK i \in 1 .. Len(t) : x = t[i]
      BY <1>1, <2>2 DEF ToSet
    <3>2. i + Len(s) \in 1 .. Len(s) + Len(t) /\ (s \o t)[i + Len(s)] = x
      BY <1>1, <1>4, <3>1
    <3> QED
      BY <1>5, <3>2 DEF ToSet
  <2> QED
    BY <2>1, <2>2
<1> QED
  BY <1>5, <1>6

\* D takes these steps as long as it stays in V.
TakesSteps(D, L, V, step, base) ==
  /\ D[{}] = base
  /\ \A T \in SUBSET (1 .. L) :
       T # {} /\ D[T \ {Max(T)}] \in V => D[T] = step[<<Max(T), D[T \ {Max(T)}]>>]

\* It does, one place after the other.
LEMMA FoldUp ==
  ASSUME NEW L \in Nat, NEW V, NEW base \in V, NEW step \in Steps(L, V), NEW D,
         TakesSteps(D, L, V, step, base)
  PROVE  /\ D[1 .. L] \in V
         /\ \A n \in 1 .. L : D[1 .. n - 1] \in V /\ D[1 .. n] = step[<<n, D[1 .. n - 1]>>]
<1> DEFINE good == {n \in 0 .. L : D[1 .. n] \in V}
<1>1. 0 \in good
  <2>1. 1 .. 0 = {} /\ 0 \in 0 .. L
    OBVIOUS
  <2> QED
    BY <2>1 DEF TakesSteps
<1>2. \A n \in 1 .. L : D[1 .. n - 1] \in V => D[1 .. n] = step[<<n, D[1 .. n - 1]>>] /\ D[1 .. n] \in V
  <2> TAKE n \in 1 .. L
  <2> HAVE D[1 .. n - 1] \in V
  <2>1. /\ 1 .. n \in SUBSET (1 .. L) /\ 1 .. n # {}
        /\ Max(1 .. n) = n /\ (1 .. n) \ {n} = 1 .. n - 1
    BY UpTo
  <2>2. D[1 .. n] = step[<<n, D[1 .. n - 1]>>]
    <3> DEFINE T == 1 .. n
    <3>1. T \in SUBSET (1 .. L) /\ T # {} /\ D[T \ {Max(T)}] \in V
      BY <2>1
    <3> HIDE DEF T
    <3>2. D[T] = step[<<Max(T), D[T \ {Max(T)}]>>]
      BY <3>1 DEF TakesSteps
    <3> QED
      BY <2>1, <3>2 DEF T
  <2>3. <<n, D[1 .. n - 1]>> \in (1 .. L) \X V
    OBVIOUS
  <2> QED
    BY <2>2, <2>3 DEF Steps
<1>3. \A n \in 1 .. L : n - 1 \in good => n \in good
  <2> TAKE n \in 1 .. L
  <2>1. n \in 0 .. L /\ n - 1 \in 0 .. L
    OBVIOUS
  <2> QED
    BY <1>2, <2>1
<1>4. \A n \in 0 .. L : n \in good
  <2> HIDE DEF good
  <2> QED
    BY <1>1, <1>3, CountingUp
<1>5. \A n \in 1 .. L : D[1 .. n - 1] \in V
  BY <1>4
<1>6. L \in good
  <2> HIDE DEF good
  <2>1. L \in 0 .. L
    OBVIOUS
  <2> QED
    BY <1>4, <2>1
<1> QED
  BY <1>2, <1>5, <1>6

\* What it holds after each place.
Walks(at, D, L, V, step, base) ==
  /\ at \in [0 .. L -> V] /\ at[0] = base /\ at[L] = D[1 .. L]
  /\ \A n \in 1 .. L : at[n] = step[<<n, at[n - 1]>>]

LEMMA FoldSteps ==
  ASSUME NEW L \in Nat, NEW V, NEW base \in V, NEW step \in Steps(L, V), NEW D,
         TakesSteps(D, L, V, step, base)
  PROVE  \E at : Walks(at, D, L, V, step, base)
<1> DEFINE at == [n \in 0 .. L |-> D[1 .. n]]
<1>1. /\ D[1 .. L] \in V
      /\ \A n \in 1 .. L : D[1 .. n - 1] \in V /\ D[1 .. n] = step[<<n, D[1 .. n - 1]>>]
  BY FoldUp
<1>2. \A n \in 0 .. L : D[1 .. n] \in V
  <2> TAKE n \in 0 .. L
  <2>1. CASE n = L
    BY <1>1, <2>1
  <2>2. CASE n # L
    <3>1. n + 1 \in 1 .. L /\ n + 1 - 1 = n
      BY <2>2
    <3> DEFINE m == n + 1
    <3>2. m \in 1 .. L /\ m - 1 = n
      BY <3>1
    <3> HIDE DEF m
    <3>3. D[1 .. m - 1] \in V
      BY <1>1, <3>2
    <3> QED
      BY <3>2, <3>3
  <2> QED
    BY <2>1, <2>2
<1>3. 1 .. 0 = {} /\ 0 \in 0 .. L /\ L \in 0 .. L /\ \A n \in 1 .. L : n \in 0 .. L /\ n - 1 \in 0 .. L
  OBVIOUS
<1>4. at[0] = base
  BY <1>3 DEF TakesSteps
<1>5. at \in [0 .. L -> V] /\ at[L] = D[1 .. L]
  BY <1>2, <1>3
<1>6. \A n \in 1 .. L : at[n] = step[<<n, at[n - 1]>>]
  BY <1>1, <1>3
<1> HIDE DEF at
<1> QED
  BY <1>4, <1>5, <1>6 DEF Walks

\* What is held from then on: all that was brought.
LEMMA Gathered ==
  ASSUME NEW L \in Nat, NEW held, NEW brought,
         \A n \in 1 .. L : held[n - 1] \cup brought[n] \subseteq held[n]
  PROVE  held[0] \subseteq held[L] /\ \A n \in 1 .. L : brought[n] \subseteq held[L]
<1> DEFINE good == {n \in 0 .. L : /\ held[0] \subseteq held[n]
                                   /\ \A i \in 1 .. n : brought[i] \subseteq held[n]}
<1>1. 0 \in good
  OBVIOUS
<1>2. \A n \in 1 .. L : n - 1 \in good => n \in good
  <2> TAKE n \in 1 .. L
  <2> HAVE n - 1 \in good
  <2>1. n \in 0 .. L /\ n - 1 \in 0 .. L
    OBVIOUS
  <2>2. ASSUME NEW i \in 1 .. n
        PROVE  brought[i] \subseteq held[n]
    <3>1. i = n \/ i \in 1 .. n - 1
      OBVIOUS
    <3> QED
      BY <3>1
  <2> QED
    BY <2>1, <2>2
<1>3. L \in 0 .. L
  OBVIOUS
<1> HIDE DEF good
<1>4. L \in good
  BY <1>1, <1>2, <1>3, CountingUp
<1> QED
  BY <1>4 DEF good

\* Joined lists have the elements of the lists, and all of them.
LEMMA ConcatenatedType ==
  ASSUME NEW E, NEW seqs \in Seq(Seq(E))
  PROVE  /\ Concatenated(seqs) \in Seq(E)
         /\ \A i \in DOMAIN seqs : ToSet(seqs[i]) \subseteq ToSet(Concatenated(seqs))
<1> DEFINE L == Len(seqs)
           V == Seq(E)
           base == << >>
           step == [p \in (1 .. L) \X V |-> p[2] \o seqs[p[1]]]
           Joins(D) == D = [T \in SUBSET DOMAIN seqs |->
                              IF T = {} THEN base ELSE D[T \ {Max(T)}] \o seqs[Max(T)]]
           D == CHOOSE F : Joins(F)
<1>0. L \in Nat /\ DOMAIN seqs = 1 .. L /\ base \in V
  BY LenProperties
<1>1. Concatenated(seqs) = D[1 .. L]
  BY <1>0 DEF Concatenated, FoldLeft, MapThenFoldSet
<1>2. \A n \in 1 .. L, v \in V : step[<<n, v>>] = v \o seqs[n] /\ v \o seqs[n] \in V
  <2> TAKE n \in 1 .. L, v \in V
  <2>1. seqs[n] \in Seq(E)
    BY <1>0, ElementOfSeq
  <2> QED
    BY <2>1, ConcatProperties
<1>3. step \in Steps(L, V)
  BY <1>2 DEF Steps
<1>4. \A T \in SUBSET (1 .. L) : T # {} => Max(T) \in 1 .. L
  <2> TAKE T \in SUBSET (1 .. L)
  <2> HAVE T # {}
  <2>1. T \in SUBSET Int /\ IsFiniteSet(T)
    BY <1>0, PlacesFinite
  <2> QED
    BY <2>1, MaxExists
<1>5. PICK F \in [SUBSET (1 .. L) -> V] : LeftFolds(F, L, step, base)
  <2> HIDE DEF L, V, step, base
  <2> QED
    <3> HIDE DEF Joins
    <3>1. L \in Nat
      BY <1>0
    <3>2. base \in V
      BY <1>0
    <3>3. step \in Steps(L, V)
      BY <1>3
    <3> QED
      BY <3>1, <3>2, <3>3, LeftFoldExists
<1>6. Joins(F)
  <2>1. \A T \in SUBSET (1 .. L) : F[T \ {Max(T)}] \in V
    <3> HIDE DEF V, L, step, base
    <3> QED
      OBVIOUS
  <2>2. \A T \in SUBSET (1 .. L) : T # {} =>
          step[<<Max(T), F[T \ {Max(T)}]>>] = F[T \ {Max(T)}] \o seqs[Max(T)]
    <3> HIDE DEF V, L, step, base
    <3> QED
      BY <1>2, <1>4, <2>1
  <2> HIDE DEF V, L, step, base
  <2> QED
    BY <1>0, <1>5, <2>2 DEF LeftFolds
<1>7. Joins(D)
  <2> HIDE DEF Joins
  <2> QED
    BY <1>6
<1>8. TakesSteps(D, L, V, step, base)
  <2> HIDE DEF V, L, step, base, D
  <2> QED
    BY <1>0, <1>2, <1>4, <1>7 DEF TakesSteps
<1>9. PICK at \in [0 .. L -> V] :
        at[0] = base /\ at[L] = D[1 .. L] /\ \A n \in 1 .. L : at[n] = step[<<n, at[n - 1]>>]
  <2> HIDE DEF V, L, step, base, D
  <2>1. \E at : Walks(at, D, L, V, step, base)
    BY <1>0, <1>3, <1>8, FoldSteps
  <2> QED
    BY <2>1 DEF Walks
<1> HIDE DEF D
<1>10. D[1 .. L] \in V
  <2> HIDE DEF V, L
  <2>1. L \in 0 .. L
    BY <1>0
  <2> QED
    BY <1>9, <2>1
<1>11. \A n \in 1 .. L : ToSet(at[n]) = ToSet(at[n - 1]) \cup ToSet(seqs[n])
  <2> TAKE n \in 1 .. L
  <2> HIDE DEF L, step
  <2>1. n \in 0 .. L /\ n - 1 \in 0 .. L
    BY <1>0
  <2>2. at[n - 1] \in V /\ seqs[n] \in V
    BY <1>0, <1>9, <2>1, ElementOfSeq
  <2>3. at[n] = at[n - 1] \o seqs[n]
    BY <1>2, <1>9, <2>2
  <2>4. IsSeq(at[n - 1]) /\ IsSeq(seqs[n])
    BY <2>2, SeqTyped
  <2> QED
    BY <2>3, <2>4, ConcatSeq
<1>12. \A n \in 1 .. L : ToSet(seqs[n]) \subseteq ToSet(at[L])
  <2> DEFINE held == [n \in 0 .. L |-> ToSet(at[n])]
             brought == [n \in 1 .. L |-> ToSet(seqs[n])]
  <2> HIDE DEF L, V, step, base
  <2>1. \A n \in 1 .. L : n \in 0 .. L /\ n - 1 \in 0 .. L
    BY <1>0
  <2>2. L \in 0 .. L
    BY <1>0
  <2>3. \A n \in 1 .. L : held[n - 1] \cup brought[n] \subseteq held[n]
    BY <1>11, <2>1
  <2>4. held[L] = ToSet(at[L]) /\ \A n \in 1 .. L : brought[n] = ToSet(seqs[n])
    BY <2>2
  <2> HIDE DEF held, brought
  <2>5. \A n \in 1 .. L : brought[n] \subseteq held[L]
    BY <1>0, <2>3, Gathered
  <2> QED
    BY <2>4, <2>5
<1> QED
  BY <1>0, <1>1, <1>9, <1>10, <1>12

\* The greatest of some places is one of them.
LEMMA LastPlace ==
  ASSUME NEW L \in Nat, NEW T \in SUBSET (1 .. L), T # {}
  PROVE  Max(T) \in T /\ Max(T) \in 1 .. L
<1>1. IsFiniteSet(1 .. L)
  <2>1. 1 \in Int /\ L \in Int
    OBVIOUS
  <2> QED
    BY <2>1, FS_Interval
<1>2. IsFiniteSet(T)
  BY <1>1, FS_Subset
<1>3. T \in SUBSET Int
  OBVIOUS
<1> QED
  BY <1>2, <1>3, MaxExists

\* Insertion keeps the elements and adds one.
LEMMA InsertedType ==
  ASSUME NEW L \in Nat, NEW sorted \in Seq(1 .. L), NEW i \in 1 .. L, NEW keys
  PROVE  /\ Inserted(sorted, i, keys) \in Seq(1 .. L)
         /\ Len(Inserted(sorted, i, keys)) = Len(sorted) + 1
         /\ ToSet(sorted) \cup {i} \subseteq ToSet(Inserted(sorted, i, keys))
<1> DEFINE before == {j \in DOMAIN sorted : ~Precedes(keys[i], keys[sorted[j]])}
           n == Cardinality(before)
           N == Len(sorted)
           longer == [k \in 1 .. N + 1 |->
                        IF k <= n THEN sorted[k] ELSE IF k = n + 1 THEN i ELSE sorted[k - 1]]
<1>1. N \in Nat /\ DOMAIN sorted = 1 .. N /\ \A k \in 1 .. N : sorted[k] \in 1 .. L
  BY LenProperties, ElementOfSeq
<1>2. n \in 0 .. N
  <2>1. IsFiniteSet(1 .. N) /\ Cardinality(1 .. N) = N
    <3>1. 1 \in Int /\ N \in Int
      BY <1>1
    <3> HIDE DEF N
    <3> QED
      BY <1>1, <3>1, FS_Interval
  <2>2. before \in SUBSET (1 .. N)
    BY <1>1
  <2> HIDE DEF before, N
  <2>3. Cardinality(before) \in Nat /\ Cardinality(before) <= N
    BY <2>1, <2>2, FS_Subset, FS_CardinalityType
  <2> QED
    BY <1>1, <2>3
<1> HIDE DEF n, before, N
<1>3. \A k \in 1 .. N + 1 : longer[k] \in 1 .. L
  <2> TAKE k \in 1 .. N + 1
  <2>1. CASE k <= n
    BY <1>1, <1>2, <2>1
  <2>2. CASE k = n + 1
    BY <1>1, <1>2, <2>2
  <2>3. CASE k > n + 1
    <3>1. k - 1 \in 1 .. N
      BY <1>1, <1>2, <2>3
    <3> QED
      BY <1>1, <1>2, <2>3, <3>1
  <2> QED
    BY <1>1, <1>2, <2>1, <2>2, <2>3
<1>4. longer \in [1 .. N + 1 -> 1 .. L] /\ N + 1 \in Nat
  BY <1>1, <1>3
<1>5. longer \in Seq(1 .. L) /\ Len(longer) = N + 1
  <2>1. longer \in Seq(1 .. L)
    <3> HIDE DEF longer
    <3> QED
      BY <1>4, SeqDef
  <2>2. DOMAIN longer = 1 .. N + 1
    BY <1>4
  <2> HIDE DEF longer
  <2> QED
    BY <1>4, <2>1, <2>2, LenProperties
<1>6. Inserted(sorted, i, keys) = longer
  BY DEF Inserted, n, N, before
<1>7. ToSet(sorted) \cup {i} \subseteq ToSet(longer)
  <2>1. DOMAIN longer = 1 .. N + 1 /\ n + 1 \in 1 .. N + 1 /\ longer[n + 1] = i
    BY <1>1, <1>2
  <2>2. ASSUME NEW k \in 1 .. N
        PROVE  \E m \in 1 .. N + 1 : longer[m] = sorted[k]
    <3>1. CASE k <= n
      <4>1. k \in 1 .. N + 1 /\ longer[k] = sorted[k]
        BY <1>1, <1>2, <3>1
      <4> QED
        BY <4>1
    <3>2. CASE k > n
      <4>1. k + 1 \in 1 .. N + 1 /\ longer[k + 1] = sorted[k]
        BY <1>1, <1>2, <3>2
      <4> QED
        BY <4>1
    <3> QED
      BY <1>1, <1>2, <3>1, <3>2
  <2> HIDE DEF longer
  <2> QED
    BY <1>1, <2>1, <2>2 DEF ToSet
<1> QED
  BY <1>5, <1>6, <1>7 DEF N

\* A sort returns the places of the keys, and no others.
LEMMA SortedType ==
  ASSUME NEW L \in Nat, NEW keys, DOMAIN keys = 1 .. L
  PROVE  Sorted(keys) \in Seq(1 .. L) /\ Len(Sorted(keys)) = L /\ ToSet(Sorted(keys)) = 1 .. L
<1> DEFINE V == Seq(1 .. L)
           base == << >>
           step == [p \in (1 .. L) \X V |-> Inserted(p[2], p[1], keys)]
           Joins(D) == D = [T \in SUBSET DOMAIN [i \in DOMAIN keys |-> i] |->
                              IF T = {} THEN base
                              ELSE Table(Inserted(D[T \ {Max(T)}], [i \in DOMAIN keys |-> i][Max(T)], keys))]
           D == CHOOSE F : Joins(F)
<1>0. base \in V /\ DOMAIN [i \in DOMAIN keys |-> i] = 1 .. L
  OBVIOUS
<1>1. Sorted(keys) = D[1 .. L]
  BY <1>0 DEF Sorted, FoldLeft, MapThenFoldSet
<1>2. \A n \in 1 .. L, v \in V : /\ step[<<n, v>>] = Inserted(v, n, keys)
                                 /\ Inserted(v, n, keys) \in V
                                 /\ Len(Inserted(v, n, keys)) = Len(v) + 1
                                 /\ ToSet(v) \cup {n} \subseteq ToSet(Inserted(v, n, keys))
  BY InsertedType
<1>3. step \in Steps(L, V)
  BY <1>2 DEF Steps
<1>4. \A T \in SUBSET (1 .. L) : T # {} =>
        Max(T) \in 1 .. L /\ [i \in DOMAIN keys |-> i][Max(T)] = Max(T)
  BY LastPlace
<1>5. PICK F \in [SUBSET (1 .. L) -> V] : LeftFolds(F, L, step, base)
  <2> HIDE DEF V, step, base
  <2> QED
    BY <1>0, <1>3, LeftFoldExists
<1>6. Joins(F)
  <2>1. \A T \in SUBSET (1 .. L) : F[T \ {Max(T)}] \in V
    <3> HIDE DEF V, step, base
    <3> QED
      OBVIOUS
  <2>2. \A T \in SUBSET (1 .. L) : T # {} =>
          step[<<Max(T), F[T \ {Max(T)}]>>]
            = Table(Inserted(F[T \ {Max(T)}], [i \in DOMAIN keys |-> i][Max(T)], keys))
    <3> HIDE DEF V, step, base
    <3> QED
      BY <1>2, <1>4, <2>1, TableIs
  <2> HIDE DEF V, step, base
  <2> QED
    BY <1>0, <1>5, <2>2 DEF LeftFolds
<1>7. Joins(D)
  <2> HIDE DEF Joins
  <2> QED
    BY <1>6
<1>8. TakesSteps(D, L, V, step, base)
  <2> HIDE DEF V, step, base, D
  <2> QED
    BY <1>0, <1>2, <1>4, <1>7, TableIs DEF TakesSteps
<1>9. /\ D[1 .. L] \in V
      /\ \A n \in 1 .. L : D[1 .. n - 1] \in V /\ D[1 .. n] = step[<<n, D[1 .. n - 1]>>]
  <2> HIDE DEF V, step, base, D
  <2> QED
    BY <1>0, <1>3, <1>8, FoldUp
<1>10. Len(D[1 .. L]) = L /\ 1 .. L \subseteq ToSet(D[1 .. L])
  <2> DEFINE good == {n \in 0 .. L : Len(D[1 .. n]) = n /\ 1 .. n \subseteq ToSet(D[1 .. n])}
  <2> HIDE DEF V, step, D
  <2>1. 0 \in good
    <3>1. 1 .. 0 = {} /\ D[{}] = base /\ Len(base) = 0
      BY <1>8 DEF TakesSteps
    <3> QED
      BY <3>1
  <2>2. \A n \in 1 .. L : n - 1 \in good => n \in good
    <3> TAKE n \in 1 .. L
    <3> HAVE n - 1 \in good
    <3>1. /\ Len(D[1 .. n]) = Len(D[1 .. n - 1]) + 1
          /\ ToSet(D[1 .. n - 1]) \cup {n} \subseteq ToSet(D[1 .. n])
      <4> DEFINE v == D[1 .. n - 1]
      <4>1. v \in V /\ D[1 .. n] = step[<<n, v>>]
        BY <1>9
      <4> HIDE DEF v
      <4>2. Len(step[<<n, v>>]) = Len(v) + 1 /\ ToSet(v) \cup {n} \subseteq ToSet(step[<<n, v>>])
        BY <1>2, <4>1
      <4> QED
        BY <4>1, <4>2 DEF v
    <3> QED
      BY <3>1
  <2>3. L \in good
    <3> HIDE DEF good
    <3>1. L \in 0 .. L
      OBVIOUS
    <3> QED
      BY <2>1, <2>2, <3>1, CountingUp
  <2> QED
    BY <2>3
<1>11. ToSet(D[1 .. L]) \subseteq 1 .. L
  <2>1. D[1 .. L] \in Seq(1 .. L)
    BY <1>9
  <2> HIDE DEF D
  <2> QED
    BY <2>1, SeqTyped
<1> QED
  BY <1>1, <1>9, <1>10, <1>11

\* The places in order lead to elements of the sequence.
LEMMA SortByType ==
  ASSUME NEW E, NEW seq \in Seq(E), NEW keys, DOMAIN keys = DOMAIN seq
  PROVE  /\ AlongPlaces(seq, Sorted(keys)) \in Seq(E)
         /\ Len(AlongPlaces(seq, Sorted(keys))) = Len(seq)
         /\ \A k \in 1 .. Len(seq) : AlongPlaces(seq, Sorted(keys))[k] \in ToSet(seq)
         /\ ToSet(seq) \subseteq ToSet(AlongPlaces(seq, Sorted(keys)))
<1> DEFINE L == Len(seq)
           order == Sorted(keys)
<1>1. L \in Nat /\ DOMAIN seq = 1 .. L /\ \A k \in 1 .. L : seq[k] \in E
  BY LenProperties, ElementOfSeq
<1>2. order \in Seq(1 .. L) /\ Len(order) = L /\ ToSet(order) = 1 .. L
  <2> HIDE DEF L
  <2> QED
    BY <1>1, SortedType
<1>3. DOMAIN order = 1 .. L /\ \A k \in 1 .. L : order[k] \in 1 .. L
  <2> HIDE DEF L, order
  <2> QED
    BY <1>2, LenProperties, ElementOfSeq
<1>4. AlongPlaces(seq, order) = [k \in 1 .. L |-> seq[order[k]]]
  BY <1>3 DEF AlongPlaces
<1> HIDE DEF L, order
<1>5. AlongPlaces(seq, order) \in [1 .. L -> E]
  BY <1>1, <1>3, <1>4
<1>6. AlongPlaces(seq, order) \in Seq(E)
  BY <1>1, <1>5, SeqDef
<1>7. Len(AlongPlaces(seq, order)) = L
  BY <1>1, <1>5, <1>6, LenProperties
<1>8. \A k \in 1 .. L : AlongPlaces(seq, order)[k] \in ToSet(seq)
  BY <1>1, <1>3, <1>4 DEF ToSet
<1>9. ToSet(seq) \subseteq ToSet(AlongPlaces(seq, order))
  <2>1. \A i \in 1 .. L : \E k \in 1 .. L : order[k] = i
    BY <1>2, <1>3 DEF ToSet
  <2> DEFINE t == AlongPlaces(seq, order)
  <2>2. DOMAIN t = 1 .. L /\ \A k \in 1 .. L : t[k] = seq[order[k]]
    BY <1>4
  <2> HIDE DEF t
  <2>3. ASSUME NEW i \in 1 .. L
        PROVE  \E k \in 1 .. L : t[k] = seq[i]
    BY <2>1, <2>2
  <2>4. ToSet(seq) \subseteq ToSet(t)
    <3>1. ToSet(seq) = {seq[i] : i \in 1 .. L} /\ ToSet(t) = {t[k] : k \in 1 .. L}
      BY <1>1, <2>2 DEF ToSet
    <3> QED
      BY <2>3, <3>1
  <2> QED
    BY <2>4 DEF t
<1> QED
  BY <1>6, <1>7, <1>8, <1>9 DEF order, L

\* A function on 1 .. n is a sequence.
LEMMA SeqMade ==
  ASSUME NEW n \in Nat, NEW s, s = [i \in 1 .. n |-> s[i]]
  PROVE  IsSeq(s) /\ Len(s) = n /\ DOMAIN s = 1 .. n
<1>1. DOMAIN s = 1 .. n
  OBVIOUS
<1>2. s \in [1 .. n -> ToSet(s)]
  BY <1>1 DEF ToSet
<1>3. s \in Seq(ToSet(s))
  BY <1>2, SeqDef
<1> QED
  BY <1>1, <1>3, LenProperties DEF IsSeq

\* What lists that are joined hold, one of them held.
LEMMA ConcatenatedSeq ==
  ASSUME NEW seqs, IsSeq(seqs), \A i \in DOMAIN seqs : IsSeq(seqs[i])
  PROVE  /\ IsSeq(Concatenated(seqs))
         /\ \A x \in ToSet(Concatenated(seqs)) : \E i \in DOMAIN seqs : x \in ToSet(seqs[i])
         /\ \A i \in DOMAIN seqs : ToSet(seqs[i]) \subseteq ToSet(Concatenated(seqs))
<1> DEFINE E == UNION {ToSet(seqs[i]) : i \in DOMAIN seqs}
<1>1. \A i \in DOMAIN seqs : seqs[i] \in Seq(E)
  <2> TAKE i \in DOMAIN seqs
  <2>1. seqs[i] \in [1 .. Len(seqs[i]) -> ToSet(seqs[i])] /\ Len(seqs[i]) \in Nat
    <3>1. seqs[i] \in Seq(ToSet(seqs[i]))
      BY DEF IsSeq
    <3> QED
      BY <3>1, LenProperties
  <2>2. ToSet(seqs[i]) \subseteq E
    OBVIOUS
  <2>3. seqs[i] \in [1 .. Len(seqs[i]) -> E]
    <3> HIDE DEF E
    <3> QED
      BY <2>1, <2>2
  <2> QED
    BY <2>1, <2>3, SeqDef
<1>2. seqs \in Seq(Seq(E))
  <2>1. Len(seqs) \in Nat /\ DOMAIN seqs = 1 .. Len(seqs) /\ seqs = [i \in 1 .. Len(seqs) |-> seqs[i]]
    BY SeqFacts
  <2> HIDE DEF E
  <2>2. seqs \in [1 .. Len(seqs) -> Seq(E)]
    BY <1>1, <2>1
  <2> QED
    BY <2>1, <2>2, SeqDef
<1>3. /\ Concatenated(seqs) \in Seq(E)
      /\ \A i \in DOMAIN seqs : ToSet(seqs[i]) \subseteq ToSet(Concatenated(seqs))
  <2> HIDE DEF E
  <2> QED
    BY <1>2, ConcatenatedType
<1>4. IsSeq(Concatenated(seqs)) /\ ToSet(Concatenated(seqs)) \subseteq E
  <2> HIDE DEF E
  <2> QED
    BY <1>3, SeqTyped
<1> QED
  BY <1>3, <1>4

\* What is picked from a sequence, and that it is some of it.
LEMMA PickedSeq ==
  ASSUME NEW s, IsSeq(s), NEW places \in SUBSET (DOMAIN s)
  PROVE  /\ IsSeq(Picked(s, places)) /\ ToSet(Picked(s, places)) = {s[i] : i \in places}
         /\ ToSet(Picked(s, places)) \subseteq ToSet(s)
<1>1. s \in Seq(ToSet(s))
  BY DEF IsSeq
<1>2. Picked(s, places) \in Seq(ToSet(s)) /\ ToSet(Picked(s, places)) = {s[i] : i \in places}
  BY <1>1, PickedType
<1> QED
  BY <1>2, SeqTyped

\* A sort keeps the length and the elements.
LEMMA SortBySeq ==
  ASSUME NEW s, IsSeq(s), NEW keys, DOMAIN keys = DOMAIN s
  PROVE  /\ IsSeq(AlongPlaces(s, Sorted(keys))) /\ Len(AlongPlaces(s, Sorted(keys))) = Len(s)
         /\ DOMAIN AlongPlaces(s, Sorted(keys)) = DOMAIN s
         /\ \A k \in DOMAIN s : AlongPlaces(s, Sorted(keys))[k] \in ToSet(s)
         /\ ToSet(s) \subseteq ToSet(AlongPlaces(s, Sorted(keys)))
<1>1. s \in Seq(ToSet(s))
  BY DEF IsSeq
<1>2. Len(s) \in Nat /\ DOMAIN s = 1 .. Len(s)
  BY SeqFacts
<1>3. /\ AlongPlaces(s, Sorted(keys)) \in Seq(ToSet(s))
      /\ Len(AlongPlaces(s, Sorted(keys))) = Len(s)
      /\ \A k \in 1 .. Len(s) : AlongPlaces(s, Sorted(keys))[k] \in ToSet(s)
      /\ ToSet(s) \subseteq ToSet(AlongPlaces(s, Sorted(keys)))
  BY <1>1, SortByType
<1>4. IsSeq(AlongPlaces(s, Sorted(keys))) /\ DOMAIN AlongPlaces(s, Sorted(keys)) = 1 .. Len(s)
  BY <1>3, SeqTyped
<1> QED
  BY <1>2, <1>3, <1>4

\* A function takes finitely many values on a finite set.
LEMMA ImageFinite ==
  ASSUME NEW S, IsFiniteSet(S), NEW f, DOMAIN f = S
  PROVE  IsFiniteSet({f[x] : x \in S})
<1> DEFINE T == {f[x] : x \in S}
           g == [x \in S |-> f[x]]
<1>1. g \in Surjection(S, T)
  BY DEF Surjection
<1> HIDE DEF g, T
<1>2. IsFiniteSet(T)
  BY <1>1, FS_Surjection
<1> QED
  BY <1>2 DEF T

\* The first of some places, in whatever order, is one of them.
LEMMA FirstOfSorted ==
  ASSUME NEW S \in SUBSET Int, IsFiniteSet(S), S # {}, NEW keys, DOMAIN keys = DOMAIN Ascending(S)
  PROVE  AlongPlaces(Ascending(S), Sorted(keys))[1] \in S
<1> DEFINE order == Ascending(S)
<1>1. /\ Cardinality(S) \in Nat /\ order \in Seq(S) /\ DOMAIN order = 1 .. Cardinality(S)
  BY AscendingType
<1>2. Cardinality(S) # 0
  BY FS_EmptySet
<1>3. IsSeq(order) /\ ToSet(order) \subseteq S /\ 1 \in DOMAIN order
  <2> HIDE DEF order
  <2> QED
    BY <1>1, <1>2, SeqTyped
<1>4. AlongPlaces(order, Sorted(keys))[1] \in ToSet(order)
  <2>1. DOMAIN keys = DOMAIN order
    OBVIOUS
  <2> HIDE DEF order
  <2> QED
    BY <1>3, <2>1, SortBySeq
<1> QED
  BY <1>3, <1>4

\* A sequence, by what it holds.
LEMMA SeqIn ==
  ASSUME NEW s, IsSeq(s), NEW E, ToSet(s) \subseteq E
  PROVE  s \in Seq(E)
<1>1. Len(s) \in Nat /\ DOMAIN s = 1 .. Len(s) /\ s = [i \in 1 .. Len(s) |-> s[i]]
  BY SeqFacts
<1>2. s \in [1 .. Len(s) -> E]
  BY <1>1 DEF ToSet
<1> QED
  BY <1>1, <1>2, SeqDef

\* A sequence that is not empty has a first place.
LEMMA NotEmpty ==
  ASSUME NEW s, IsSeq(s), s # << >>
  PROVE  1 \in DOMAIN s
<1>1. s \in Seq(ToSet(s))
  BY DEF IsSeq
<1>2. Len(s) # 0
  BY <1>1, EmptySeq
<1> QED
  BY <1>2, SeqFacts

\* What is kept of a sequence, and that it is some of it.
LEMMA FilterPlaces ==
  ASSUME NEW s, IsSeq(s), NEW places, places \subseteq DOMAIN s
  PROVE  IsSeq(Picked(s, places)) /\ ToSet(Picked(s, places)) \subseteq ToSet(s)
         /\ \A x \in ToSet(Picked(s, places)) : \E i \in places : x = s[i]
BY PickedSeq

\* A sequence of one.
LEMMA OneSeq ==
  ASSUME NEW x
  PROVE  IsSeq(<<x>>) /\ ToSet(<<x>>) = {x}
<1>1. <<x>> \in Seq({x}) /\ Len(<<x>>) = 1 /\ <<x>>[1] = x
  OBVIOUS
<1>2. IsSeq(<<x>>) /\ ToSet(<<x>>) \subseteq {x} /\ DOMAIN <<x>> = 1 .. 1
  BY <1>1, SeqTyped
<1>3. x \in ToSet(<<x>>)
  BY <1>1, <1>2 DEF ToSet
<1> QED
  BY <1>2, <1>3

\* A sequence of nothing.
LEMMA NoneSeq == IsSeq(<< >>) /\ ToSet(<< >>) = {}
<1> DEFINE none == << >>
<1>1. none \in Seq({})
  OBVIOUS
<1> HIDE DEF none
<1>2. IsSeq(none) /\ ToSet(none) \subseteq {}
  BY <1>1, SeqTyped
<1> QED
  BY <1>2 DEF none

\* A sequence without its repetitions.
LEMMA DistinctSeq ==
  ASSUME NEW s, IsSeq(s)
  PROVE  IsSeq(Distinct(s)) /\ ToSet(Distinct(s)) = ToSet(s)
<1> DEFINE places == {i \in DOMAIN s : \A j \in 1 .. i - 1 : s[j] # s[i]}
<1>1. Distinct(s) = Picked(s, places)
  BY DEF Distinct
<1>2. places \subseteq DOMAIN s
  OBVIOUS
<1>3. \A i \in DOMAIN s : \E k \in places : s[k] = s[i]
  <2> TAKE i \in DOMAIN s
  <2> DEFINE same == {j \in DOMAIN s : s[j] = s[i]}
  <2>1. DOMAIN s = 1 .. Len(s) /\ Len(s) \in Nat
    BY SeqFacts
  <2>2. same \in SUBSET Int /\ IsFiniteSet(same) /\ same # {}
    <3>1. s \in Seq(ToSet(s)) /\ same \in SUBSET (DOMAIN s)
      BY DEF IsSeq
    <3>2. i \in same
      OBVIOUS
    <3> HIDE DEF same
    <3> QED
      BY <3>1, <3>2, PlacesFinite
  <2>3. PICK k \in same : \A j \in same : k <= j
    <3> HIDE DEF same
    <3> QED
      BY <2>2, LeastExists
  <2>4. ASSUME NEW j \in 1 .. k - 1
        PROVE  s[j] # s[k]
    <3>1. j \in DOMAIN s /\ ~(k <= j)
      BY <2>1
    <3> QED
      BY <2>3, <3>1
  <2> QED
    BY <2>3, <2>4
<1> HIDE DEF places
<1>4. IsSeq(Distinct(s)) /\ ToSet(Distinct(s)) = {s[i] : i \in places}
  BY <1>1, <1>2, PickedSeq
<1> QED
  BY <1>2, <1>3, <1>4 DEF ToSet

-----------------------------------------------------------------------------
(* Totals.                                                                   *)

\* The amounts of the members of S as columns of cells.
CellsOf(f, S) == UNION {{x} \X (1 .. f[x]) : x \in S}

\* A total is the number of cells of a bar chart with the columns f[x]: what is
\* known of cardinalities carries over to totals.  The chart is finite.
LEMMA CellsFinite ==
  ASSUME NEW S, IsFiniteSet(S), NEW f \in [S -> Nat]
  PROVE  IsFiniteSet(CellsOf(f, S))
<1> DEFINE column == [x \in S |-> {x} \X (1 .. f[x])]
           columns == {{x} \X (1 .. f[x]) : x \in S}
<1>1. column \in Surjection(S, columns)
  BY DEF Surjection
<1>2. IsFiniteSet(columns)
  BY <1>1, FS_Surjection
<1>3. \A T \in columns : IsFiniteSet(T)
  <2>1. ASSUME NEW x \in S
        PROVE  IsFiniteSet({x} \X (1 .. f[x]))
    <3>1. IsFiniteSet({x})
      BY FS_Singleton
    <3>2. IsFiniteSet(1 .. f[x])
      BY FS_Interval
    <3> QED
      BY <3>1, <3>2, FS_Product
  <2> QED
    BY <2>1
<1> QED
  BY <1>2, <1>3, FS_UNION DEF CellsOf

\* A chart has the cells of one of its columns, and those of the others.
LEMMA AddColumn ==
  ASSUME NEW S, IsFiniteSet(S), NEW f \in [S -> Nat], NEW T \in SUBSET S, NEW x \in T
  PROVE  Cardinality(CellsOf(f, T)) = f[x] + Cardinality(CellsOf(f, T \ {x}))
<1> DEFINE column == {x} \X (1 .. f[x])
           rest == CellsOf(f, T \ {x})
<1>1. CellsOf(f, T) = column \cup rest /\ column \cap rest = {}
  BY DEF CellsOf
<1>2. IsFiniteSet(column) /\ Cardinality(column) = f[x]
  <2>1. IsFiniteSet({x}) /\ Cardinality({x}) = 1
    BY FS_Singleton
  <2>2. IsFiniteSet(1 .. f[x]) /\ Cardinality(1 .. f[x]) = f[x]
    BY FS_Interval
  <2>3. IsFiniteSet(column) /\ Cardinality(column) = Cardinality({x}) * Cardinality(1 .. f[x])
    BY <2>1, <2>2, FS_Product
  <2> QED
    BY <2>1, <2>2, <2>3
<1>3. IsFiniteSet(rest)
  <2>1. rest \subseteq CellsOf(f, S)
    BY DEF CellsOf
  <2> QED
    BY <2>1, CellsFinite, FS_Subset
<1>4. Cardinality(column \cap rest) = 0
  BY <1>1, FS_EmptySet
<1>5. Cardinality(rest) \in Nat
  BY <1>3, FS_CardinalityType
<1>6. Cardinality(column \cup rest)
        = Cardinality(column) + Cardinality(rest) - Cardinality(column \cap rest)
  BY <1>2, <1>3, FS_Union
<1> QED
  BY <1>1, <1>2, <1>4, <1>5, <1>6

\* The recursion behind a total counts the cells: the count satisfies it, and
\* no other function does, since there is no smallest set where one differs.
LEMMA TotalIsCount ==
  ASSUME NEW S, IsFiniteSet(S), NEW f \in [S -> Nat]
  PROVE  Total(f) = Cardinality(CellsOf(f, S))
<1> DEFINE Sums(D) == D = [s \in SUBSET S |-> IF s = {} THEN 0 ELSE
                         f[CHOOSE x \in s : TRUE] + D[s \ {CHOOSE x \in s : TRUE}]]
           count == [s \in SUBSET S |-> Cardinality(CellsOf(f, s))]
<1>1. Total(f) = (CHOOSE D : Sums(D))[S]
  <2>1. DOMAIN f = S
    OBVIOUS
  <2> QED
    BY <2>1 DEF Total, MapThenSumSet, MapThenFoldSet
<1>2. Sums(count)
  <2>1. Cardinality(CellsOf(f, {})) = 0
    <3>1. CellsOf(f, {}) = {}
      BY DEF CellsOf
    <3> QED
      BY <3>1, FS_EmptySet
  <2>2. \A s \in SUBSET S : s # {} =>
          LET x == CHOOSE x \in s : TRUE
          IN  Cardinality(CellsOf(f, s)) = f[x] + count[s \ {x}]
    <3> TAKE s \in SUBSET S
    <3> HAVE s # {}
    <3> DEFINE x == CHOOSE y \in s : TRUE
    <3>1. x \in s
      OBVIOUS
    <3> HIDE DEF x
    <3>2. count[s \ {x}] = Cardinality(CellsOf(f, s \ {x}))
      OBVIOUS
    <3>3. Cardinality(CellsOf(f, s)) = f[x] + Cardinality(CellsOf(f, s \ {x}))
      BY <3>1, AddColumn
    <3> QED
      BY <3>2, <3>3 DEF x
  <2> QED
    BY <2>1, <2>2
<1>3. ASSUME NEW D, Sums(D)
      PROVE  D = count
  <2> DEFINE wrong == {s \in SUBSET S : D[s] # count[s]}
  <2>1. wrong = {}
    <3> SUFFICES ASSUME wrong # {} PROVE FALSE
      OBVIOUS
    <3>1. IsWellFoundedOn(StrictSubsetOrdering(S), SUBSET S)
      BY FS_StrictSubsetOrderingWellFounded, FS_FiniteSubsetsOfFinite
    <3>2. PICK s \in wrong : \A t \in wrong : <<t, s>> \notin StrictSubsetOrdering(S)
      BY <3>1, WFMin
    <3>3. s # {}
      BY <1>2, <1>3
    <3>4. PICK x \in s : /\ D[s] = f[x] + D[s \ {x}]
                         /\ count[s] = f[x] + count[s \ {x}]
      <4> DEFINE x == CHOOSE y \in s : TRUE
      <4>1. D[s] = f[x] + D[s \ {x}]
        BY <1>3, <3>3
      <4>2. count[s] = f[x] + count[s \ {x}]
        BY <1>2, <3>3
      <4> QED
        BY <3>3, <4>1, <4>2
    <3>5. s \ {x} \notin wrong
      <4>1. s \in SUBSET S /\ s \ {x} \in SUBSET S /\ s \ {x} # s
        OBVIOUS
      <4>2. <<s \ {x}, s>> \in StrictSubsetOrdering(S)
        BY <4>1 DEF StrictSubsetOrdering
      <4> QED
        BY <3>2, <4>2
    <3> QED
      BY <3>4, <3>5
  <2> QED
    BY <1>3, <2>1
<1> HIDE DEF Sums
<1>4. (CHOOSE D : Sums(D)) = count
  BY <1>2, <1>3
<1> QED
  BY <1>1, <1>4

-----------------------------------------------------------------------------
\* What the modules that total amounts need: totals are natural numbers, ...
LEMMA TotalType ==
  ASSUME NEW S, IsFiniteSet(S), NEW f \in [S -> Nat]
  PROVE  Total(f) \in Nat
BY TotalIsCount, CellsFinite, FS_CardinalityType

\* ... nothing adds up to nothing, ...
LEMMA TotalOfZeros ==
  ASSUME NEW S, IsFiniteSet(S), NEW f \in [S -> Nat], \A x \in S : f[x] = 0
  PROVE  Total(f) = 0
<1>1. CellsOf(f, S) = {}
  BY DEF CellsOf
<1> QED
  BY <1>1, TotalIsCount, FS_EmptySet

\* ... more, or larger, amounts add up to more, ...
LEMMA TotalGrows ==
  ASSUME NEW S, IsFiniteSet(S), NEW R \in SUBSET S,
         NEW f \in [R -> Nat], NEW g \in [S -> Nat], \A x \in R : f[x] <= g[x]
  PROVE  Total(f) <= Total(g)
<1>1. IsFiniteSet(R)
  BY FS_Subset
<1>2. CellsOf(f, R) \subseteq CellsOf(g, S)
  BY DEF CellsOf
<1>3. Cardinality(CellsOf(f, R)) <= Cardinality(CellsOf(g, S))
  BY <1>2, CellsFinite, FS_Subset
<1> QED
  BY <1>1, <1>3, TotalIsCount

\* ... one amount that changes changes the total by as much, ...
LEMMA TotalChanges ==
  ASSUME NEW S, IsFiniteSet(S), NEW f \in [S -> Nat], NEW g \in [S -> Nat],
         NEW x \in S, \A y \in S \ {x} : g[y] = f[y]
  PROVE  Total(g) = Total(f) + g[x] - f[x]
<1>1. CellsOf(f, S \ {x}) = CellsOf(g, S \ {x})
  BY DEF CellsOf
<1>2. Cardinality(CellsOf(f, S)) = f[x] + Cardinality(CellsOf(f, S \ {x}))
  BY AddColumn
<1>3. Cardinality(CellsOf(g, S)) = g[x] + Cardinality(CellsOf(g, S \ {x}))
  BY AddColumn
<1>4. Cardinality(CellsOf(f, S \ {x})) \in Nat
  <2>1. CellsOf(f, S \ {x}) \subseteq CellsOf(f, S)
    BY DEF CellsOf
  <2> QED
    BY <2>1, CellsFinite, FS_Subset, FS_CardinalityType
<1> QED
  BY <1>1, <1>2, <1>3, <1>4, TotalIsCount

\* ... and so does one that is added.
LEMMA TotalAdds ==
  ASSUME NEW S, IsFiniteSet(S), NEW x, x \notin S,
         NEW f \in [S -> Nat], NEW g \in [S \cup {x} -> Nat], \A y \in S : g[y] = f[y]
  PROVE  Total(g) = Total(f) + g[x]
<1>1. IsFiniteSet(S \cup {x})
  BY FS_AddElement
<1>2. (S \cup {x}) \ {x} = S
  OBVIOUS
<1>3. CellsOf(g, S) = CellsOf(f, S)
  BY DEF CellsOf
<1>4. Cardinality(CellsOf(g, S \cup {x})) = g[x] + Cardinality(CellsOf(g, S))
  BY <1>1, <1>2, AddColumn
<1> QED
  BY <1>1, <1>3, <1>4, TotalIsCount, TotalType
=============================================================================
