---------------------------- MODULE DataInduction ----------------------------
(***************************************************************************)
(* Least elements and induction, stated of sets instead of predicates: the *)
(* library's induction theorems take an operator, which the provers cannot *)
(* instantiate; a set they can.  And images and sums, stated of functions  *)
(* for the same reason.                                                    *)
(***************************************************************************)
EXTENDS Integers, Sequences, SequencesExt, FiniteSetsExt, FiniteSetTheorems, SequenceTheorems,
        TLAPS

\* A nonempty set of naturals has a least element: 0 .. m is minimal among
\* the finite sets 0 .. n, n in S, when m is.
LEMMA LeastNatural ==
  ASSUME NEW S \in SUBSET Nat, S # {}
  PROVE  \E m \in S : \A n \in S : m <= n
<1> DEFINE T == {0 .. m : m \in S}
<1>1. ASSUME NEW m \in S PROVE 0 .. m \in FiniteSubsetsOf(Nat)
  <2>1. IsFiniteSet(0 .. m)
    BY FS_Interval
  <2> QED BY <2>1 DEF FiniteSubsetsOf
<1>2. T \subseteq FiniteSubsetsOf(Nat) /\ T # {}
  BY <1>1
<1> HIDE DEF T
<1>3. PICK x \in T : \A y \in T : ~(<<y, x>> \in StrictSubsetOrdering(Nat))
  BY <1>2, FS_StrictSubsetOrderingWellFounded, WFMin
<1> USE DEF T
<1>4. PICK m \in S : x = 0 .. m
  OBVIOUS
<1>5. ASSUME NEW n \in S, n < m PROVE FALSE
  <2>1. 0 .. n \subseteq 0 .. m /\ m \in 0 .. m /\ m \notin 0 .. n
    BY <1>5
  <2>2. <<0 .. n, 0 .. m>> \in StrictSubsetOrdering(Nat)
    BY <2>1 DEF StrictSubsetOrdering
  <2> QED BY <2>2, <1>3, <1>4
<1> QED BY <1>5

\* A set of naturals that contains 0 and is closed under successor contains
\* every natural.
LEMMA NaturalInduction ==
  ASSUME NEW S, 0 \in S, \A n \in Nat : n \in S => n + 1 \in S
  PROVE  Nat \subseteq S
<1> SUFFICES ASSUME Nat \ S # {} PROVE FALSE
  OBVIOUS
<1>1. PICK m \in Nat \ S : \A n \in Nat \ S : m <= n
  BY LeastNatural
<1>2. m # 0 /\ m - 1 \in Nat /\ m - 1 \in S
  BY <1>1
<1> QED BY <1>2

\* The values of a function on a finite set are finitely many.
LEMMA FiniteValues ==
  ASSUME NEW f, IsFiniteSet(DOMAIN f)
  PROVE  IsFiniteSet({f[x] : x \in DOMAIN f})
<1> DEFINE T == {f[x] : x \in DOMAIN f}
<1>1. [x \in DOMAIN f |-> f[x]] \in Surjection(DOMAIN f, T)
  BY DEF Surjection
<1> QED BY <1>1, FS_Surjection

\* The sum of f over S.
SumOver(f, S) == MapThenSumSet(LAMBDA x : f[x], S)

\* A sum over a finite set is g of the set, when g is 0 of the empty set and
\* grows by f[x] with every element x.
GrowsBy(f, g, S) == g[{}] = 0 /\ \A T \in SUBSET S : \A x \in T : g[T] = f[x] + g[T \ {x}]

\* A function of the subsets that grows by some element of every one of them
\* is the sum.
SumsUp(f, sum, S) ==
  /\ sum[{}] = 0
  /\ \A T \in SUBSET S : T # {} => \E x \in T : sum[T] = f[x] + sum[T \ {x}]

\* What grows by every element of a set is what grows by some: there is one sum.
LEMMA SumsUpFact ==
  ASSUME NEW S, IsFiniteSet(S), NEW f, NEW g, GrowsBy(f, g, S), NEW sum, SumsUp(f, sum, S)
  PROVE  sum[S] = g[S]
<1>1. g[{}] = 0 /\ \A T \in SUBSET S : \A x \in T : g[T] = f[x] + g[T \ {x}]
  BY DEF GrowsBy
<1>2. /\ sum[{}] = 0
      /\ \A T \in SUBSET S : T # {} =>
           \E x \in T : sum[T] = f[x] + sum[T \ {x}]
  BY DEF SumsUp
<1> DEFINE Wrong == {T \in SUBSET S : sum[T] # g[T]}
           sizes == {Cardinality(T) : T \in Wrong}
<1>3. Wrong = {}
  <2> SUFFICES ASSUME Wrong # {} PROVE FALSE
    OBVIOUS
  <2>1. \A T \in SUBSET S : IsFiniteSet(T) /\ Cardinality(T) \in Nat
    BY FS_Subset, FS_CardinalityType
  <2>2. PICK n \in sizes : \A m \in sizes : n <= m
    <3>1. sizes \subseteq Nat /\ sizes # {}
      BY <2>1
    <3> HIDE DEF sizes
    <3> QED BY <3>1, LeastNatural
  <2>3. PICK T \in Wrong : Cardinality(T) = n
    OBVIOUS
  <2>4. T # {} /\ T \in SUBSET S
    <3>1. T \in SUBSET S /\ sum[T] # g[T]
      BY <2>3
    <3>2. sum[{}] = g[{}]
      BY <1>1, <1>2
    <3> QED BY <3>1, <3>2
  <2>5. PICK x \in T : sum[T] = f[x] + sum[T \ {x}]
    BY <1>2, <2>4
  <2>6. T \ {x} \in SUBSET S /\ Cardinality(T \ {x}) = Cardinality(T) - 1
    BY <2>1, <2>4, FS_RemoveElement
  <2>7. T \ {x} \notin Wrong
    <3> SUFFICES ASSUME T \ {x} \in Wrong PROVE FALSE
      OBVIOUS
    <3>1. Cardinality(T \ {x}) \in sizes
      OBVIOUS
    <3>2. n <= Cardinality(T \ {x})
      BY <2>2, <3>1
    <3>3. Cardinality(T) \in Nat
      BY <2>1, <2>4
    <3> HIDE DEF Wrong, sizes
    <3> QED BY <2>3, <2>6, <3>2, <3>3
  <2>8. sum[T] = g[T]
    <3>1. g[T] = f[x] + g[T \ {x}]
      BY <1>1, <2>4
    <3>2. sum[T \ {x}] = g[T \ {x}]
      BY <2>6, <2>7
    <3> QED BY <2>5, <3>1, <3>2
  <2> QED BY <2>3, <2>8
<1> QED BY <1>3

\* The sum of f over a finite set is the g that grows by f.
LEMMA SumFact ==
  ASSUME NEW S, IsFiniteSet(S), NEW f, NEW g, GrowsBy(f, g, S)
  PROVE  SumOver(f, S) = g[S]
<1>0. g[{}] = 0 /\ \A T \in SUBSET S : \A x \in T : g[T] = f[x] + g[T \ {x}]
  BY DEF GrowsBy
<1> DEFINE Sums(h) == h = [T \in SUBSET S |-> IF T = {} THEN 0
                                               ELSE f[CHOOSE x \in T : TRUE]
                                                      + h[T \ {CHOOSE x \in T : TRUE}]]
           sum == CHOOSE h : Sums(h)
           sums == [T \in SUBSET S |-> g[T]]
<1>1. SumOver(f, S) = sum[S]
  BY DEF SumOver, MapThenSumSet, MapThenFoldSet
<1>2. Sums(sums)
  <2>1. ASSUME NEW T \in SUBSET S, T # {}
        PROVE  g[T] = f[CHOOSE x \in T : TRUE] + sums[T \ {CHOOSE x \in T : TRUE}]
    <3>1. PICK x \in T : x = CHOOSE y \in T : TRUE
      BY <2>1
    <3>2. g[T] = f[x] + g[T \ {x}] /\ sums[T \ {x}] = g[T \ {x}]
      BY <1>0
    <3> QED BY <3>1, <3>2
  <2> QED BY <1>0, <2>1
<1>3. Sums(sum)
  BY <1>2
<1>4. SumsUp(f, sum, S)
  <2> HIDE DEF sum
  <2>1. \A T \in SUBSET S :
          sum[T] = IF T = {} THEN 0 ELSE f[CHOOSE x \in T : TRUE]
                                         + sum[T \ {CHOOSE x \in T : TRUE}]
    BY <1>3
  <2>2. \A T \in SUBSET S : T # {} => (CHOOSE x \in T : TRUE) \in T
    OBVIOUS
  <2> QED BY <2>1, <2>2 DEF SumsUp
<1> HIDE DEF sum
<1> QED BY <1>1, <1>4, SumsUpFact

\* What the elements of S add up to, each less one.
ExcessOver(f, S) == MapThenSumSet(LAMBDA x : f[x] - 1, S)
LessOne(f, S) == [x \in S |-> f[x] - 1]

\* And so it is for the values of f less one.
LEMMA ExcessFact ==
  ASSUME NEW S, IsFiniteSet(S), NEW f, NEW g, GrowsBy(LessOne(f, S), g, S)
  PROVE  ExcessOver(f, S) = g[S]
<1>0. PICK e : e = LessOne(f, S) /\ \A x \in S : e[x] = f[x] - 1
  BY DEF LessOne
<1>1. g[{}] = 0 /\ \A T \in SUBSET S : \A x \in T : g[T] = (f[x] - 1) + g[T \ {x}]
  BY <1>0 DEF GrowsBy
<1> DEFINE Sums(h) == h = [T \in SUBSET S |-> IF T = {} THEN 0
                                               ELSE (f[CHOOSE x \in T : TRUE] - 1)
                                                      + h[T \ {CHOOSE x \in T : TRUE}]]
           sum == CHOOSE h : Sums(h)
           sums == [T \in SUBSET S |-> g[T]]
<1>2. ExcessOver(f, S) = sum[S]
  BY DEF ExcessOver, MapThenSumSet, MapThenFoldSet
<1>3. Sums(sums)
  <2>1. ASSUME NEW T \in SUBSET S, T # {}
        PROVE  g[T] = (f[CHOOSE x \in T : TRUE] - 1) + sums[T \ {CHOOSE x \in T : TRUE}]
    <3>1. PICK x \in T : x = CHOOSE y \in T : TRUE
      BY <2>1
    <3>2. g[T] = (f[x] - 1) + g[T \ {x}] /\ sums[T \ {x}] = g[T \ {x}]
      BY <1>1
    <3> QED BY <3>1, <3>2
  <2> QED BY <1>1, <2>1
<1>4. Sums(sum)
  BY <1>3
<1>5. SumsUp(e, sum, S)
  <2> HIDE DEF sum
  <2>1. \A T \in SUBSET S :
          sum[T] = IF T = {} THEN 0 ELSE (f[CHOOSE x \in T : TRUE] - 1)
                                         + sum[T \ {CHOOSE x \in T : TRUE}]
    BY <1>4
  <2>2. \A T \in SUBSET S : T # {} => (CHOOSE x \in T : TRUE) \in T
    OBVIOUS
  <2>3. \A T \in SUBSET S : \A x \in T : e[x] = f[x] - 1
    BY <1>0
  <2> QED BY <2>1, <2>2, <2>3 DEF SumsUp
<1> HIDE DEF sum
<1>6. GrowsBy(e, g, S)
  BY <1>0
<1> QED BY <1>2, <1>5, <1>6, SumsUpFact

\* A nonempty set of numbers up to n has a greatest element, and Max is it.
LEMMA MaxFact ==
  ASSUME NEW n \in Nat, NEW S \in SUBSET (0 .. n), S # {}
  PROVE  Max(S) \in S /\ \A x \in S : x <= Max(S)
<1> DEFINE D == {n - x : x \in S}
<1>1. PICK d \in D : \A e \in D : d <= e
  <2>1. \A x \in S : x \in 0 .. n /\ n - x \in Nat
    OBVIOUS
  <2>1a. D \subseteq Nat /\ D # {}
    BY <2>1
  <2> HIDE DEF D
  <2> QED BY <2>1a, LeastNatural
<1>2. n - d \in S /\ \A x \in S : x <= n - d
  <2>1. PICK x \in S : d = n - x
    OBVIOUS
  <2>2. \A y \in S : n - y \in D
    OBVIOUS
  <2> QED BY <1>1, <2>1, <2>2
<1>3. \E m \in S : \A x \in S : m >= x
  BY <1>2
<1> QED BY <1>3 DEF Max

\* n steps, each from A to A; and h, the fold of the steps over every set of
\* numbers up to n, which takes the step of the greatest number last (the
\* equation of MapThenFoldSet).
Steps(n, A) == [1 .. n -> [A -> A]]
IsFold(h, n, A, base, step) ==
  /\ h \in [SUBSET (1 .. n) -> A]
  /\ \A S \in SUBSET (1 .. n) :
       h[S] = IF S = {} THEN base ELSE step[Max(S)][h[S \ {Max(S)}]]

\* There is such a fold.
LEMMA FoldExists ==
  ASSUME NEW n \in Nat, NEW A, NEW base \in A, NEW step \in Steps(n, A)
  PROVE  \E h : IsFold(h, n, A, base, step)
<1> USE DEF Steps
<1> DEFINE Solves(h, k) ==
             /\ h \in [SUBSET (1 .. k) -> A]
             /\ \A S \in SUBSET (1 .. k) :
                  h[S] = IF S = {} THEN base ELSE step[Max(S)][h[S \ {Max(S)}]]
           K == {k \in Nat : k <= n => \E h : Solves(h, k)}
<1> HIDE DEF Solves
<1>1. 0 \in K
  <2>1. Solves([S \in SUBSET (1 .. 0) |-> base], 0)
    BY DEF Solves
  <2> QED BY <2>1
<1>2. ASSUME NEW k \in Nat, k \in K PROVE k + 1 \in K
  <2> SUFFICES ASSUME k + 1 <= n PROVE \E h : Solves(h, k + 1)
    OBVIOUS
  <2>1. PICK h : Solves(h, k)
    BY <1>2
  <2> DEFINE g == [S \in SUBSET (1 .. k + 1) |->
                     IF k + 1 \in S THEN step[k + 1][h[S \ {k + 1}]] ELSE h[S]]
  <2>2. ASSUME NEW S \in SUBSET (1 .. k + 1), k + 1 \in S
        PROVE  /\ Max(S) = k + 1 /\ S \ {k + 1} \in SUBSET (1 .. k)
               /\ g[S] = step[Max(S)][g[S \ {Max(S)}]] /\ g[S] \in A
    <3>1. Max(S) \in S /\ \A x \in S : x <= Max(S)
      <4>1. k + 1 \in Nat /\ S \in SUBSET (0 .. (k + 1)) /\ S # {}
        BY <2>2
      <4> QED BY <4>1, MaxFact
    <3>2. Max(S) = k + 1 /\ S \ {k + 1} \in SUBSET (1 .. k)
      <4>1. \A x \in S : x \in Int /\ 1 <= x /\ x <= k + 1
        OBVIOUS
      <4> PICK m : m = Max(S)
        OBVIOUS
      <4>2. m \in S /\ k + 1 <= m
        BY <2>2, <3>1
      <4>3. m = k + 1
        BY <4>1, <4>2
      <4> QED BY <4>1, <4>3
    <3>3. g[S] = step[k + 1][h[S \ {k + 1}]] /\ g[S \ {k + 1}] = h[S \ {k + 1}]
      BY <2>2, <3>2
    <3>4. h[S \ {k + 1}] \in A
      BY <2>1, <3>2 DEF Solves
    <3>5. step[k + 1] \in [A -> A]
      OBVIOUS
    <3> HIDE DEF g
    <3> QED BY <3>2, <3>3, <3>4, <3>5
  <2>3. ASSUME NEW S \in SUBSET (1 .. k + 1), k + 1 \notin S
        PROVE  /\ g[S] = h[S] /\ g[S] \in A
               /\ g[S] = IF S = {} THEN base ELSE step[Max(S)][g[S \ {Max(S)}]]
    <3>1. S \in SUBSET (1 .. k) /\ S \in SUBSET (0 .. k)
      BY <2>3
    <3>2. g[S] = h[S] /\ \A T \in SUBSET S : g[T] = h[T]
      BY <2>3, <3>1
    <3>3. h[S] \in A /\ h[S] = IF S = {} THEN base ELSE step[Max(S)][h[S \ {Max(S)}]]
      BY <2>1, <3>1 DEF Solves
    <3> HIDE DEF g
    <3>4. S \ {Max(S)} \in SUBSET S
      OBVIOUS
    <3> QED BY <3>2, <3>3, <3>4
  <2>4. g \in [SUBSET (1 .. k + 1) -> A]
    <3>1. \A S \in SUBSET (1 .. k + 1) : g[S] \in A
      <4> HIDE DEF g
      <4> QED BY <2>2, <2>3
    <3> QED BY <3>1
  <2>5. Solves(g, k + 1)
    <3> HIDE DEF g
    <3> QED BY <2>2, <2>3, <2>4 DEF Solves
  <2> QED BY <2>5
<1>3. n \in K
  <2> HIDE DEF K
  <2> QED BY <1>1, <1>2, NaturalInduction
<1>4. \E h : Solves(h, n)
  BY <1>3
<1> QED BY <1>4 DEF Solves, IsFold

\* The greatest number up to k is k.
LEMMA MaxOfInterval ==
  ASSUME NEW k \in Nat \ {0}
  PROVE  Max(1 .. k) = k /\ (1 .. k) \ {k} = 1 .. k - 1 /\ 1 .. k # {}
<1>1. 1 .. k \in SUBSET (0 .. k) /\ k \in 1 .. k /\ k \in Nat
  OBVIOUS
<1>2. Max(1 .. k) \in 1 .. k /\ \A x \in 1 .. k : x <= Max(1 .. k)
  BY <1>1, MaxFact
<1> QED BY <1>1, <1>2

\* h satisfies the equation where its own values are in A; and r, the run of
\* the steps, one after the other from the base.
Folds(h, n, A, base, step) ==
  /\ h[{}] = base
  /\ \A S \in SUBSET (1 .. n) :
       S # {} /\ h[S \ {Max(S)}] \in A => h[S] = step[Max(S)][h[S \ {Max(S)}]]
IsRun(r, n, A, base, step) ==
  r \in [0 .. n -> A] /\ r[0] = base /\ \A k \in 1 .. n : r[k] = step[k][r[k - 1]]

\* A fold over the numbers up to n is where the run ends.
LEMMA FoldRun ==
  ASSUME NEW n \in Nat, NEW A, NEW base \in A, NEW step \in Steps(n, A),
         NEW h, Folds(h, n, A, base, step)
  PROVE  \E r : IsRun(r, n, A, base, step) /\ h[1 .. n] = r[n]
<1> USE DEF Steps, Folds
<1> DEFINE r == [k \in 0 .. n |-> h[1 .. k]]
           K == {k \in Nat : k <= n => r[k] \in A}
<1>1. r[0] = base /\ r[n] = h[1 .. n]
  <2>1. 1 .. 0 = {}
    OBVIOUS
  <2> QED BY <2>1
<1>2. ASSUME NEW k \in 1 .. n, r[k - 1] \in A
      PROVE  r[k] = step[k][r[k - 1]] /\ r[k] \in A
  <2>1. Max(1 .. k) = k /\ (1 .. k) \ {k} = 1 .. k - 1 /\ 1 .. k # {}
    <3>1. k \in Nat \ {0}
      OBVIOUS
    <3> QED BY <3>1, MaxOfInterval
  <2>2. r[k] = h[1 .. k] /\ r[k - 1] = h[1 .. k - 1] /\ 1 .. k \in SUBSET (1 .. n)
    OBVIOUS
  <2>3. step[k] \in [A -> A]
    OBVIOUS
  <2>4. h[1 .. k] = step[k][h[1 .. k - 1]] /\ h[1 .. k - 1] \in A
    <3> HIDE DEF r
    <3>1. h[1 .. k - 1] \in A
      BY <1>2, <2>2
    <3>2. (1 .. k) \ {Max(1 .. k)} = 1 .. k - 1
      BY <2>1
    <3>3. h[1 .. k] = step[Max(1 .. k)][h[1 .. k - 1]]
      BY <2>1, <2>2, <3>1, <3>2
    <3> QED BY <2>1, <3>1, <3>3
  <2> HIDE DEF r
  <2> QED BY <2>2, <2>3, <2>4
<1>3. Nat \subseteq K
  <2>1. 0 \in K
    BY <1>1
  <2>2. ASSUME NEW k \in Nat, k \in K PROVE k + 1 \in K
    <3> SUFFICES ASSUME k + 1 <= n PROVE r[k + 1] \in A
      OBVIOUS
    <3>1. k + 1 \in 1 .. n /\ r[(k + 1) - 1] = r[k] /\ r[k] \in A
      BY <2>2
    <3> HIDE DEF r, K
    <3> QED BY <1>2, <3>1
  <2> HIDE DEF K
  <2> QED BY <2>1, <2>2, NaturalInduction
<1>4. \A k \in 0 .. n : r[k] \in A
  <2> HIDE DEF r
  <2> QED BY <1>3
<1>5. r \in [0 .. n -> A]
  BY <1>4
<1>6. \A k \in 1 .. n : r[k] = step[k][r[k - 1]]
  <2> HIDE DEF r
  <2> QED BY <1>2, <1>4
<1> HIDE DEF r
<1> QED BY <1>1, <1>5, <1>6 DEF IsRun

\* Steps can be run.
LEMMA RunExists ==
  ASSUME NEW n \in Nat, NEW A, NEW base \in A, NEW step \in Steps(n, A)
  PROVE  \E r : IsRun(r, n, A, base, step)
<1>1. PICK h : IsFold(h, n, A, base, step)
  BY FoldExists
<1>2. Folds(h, n, A, base, step)
  <2>1. \A S \in SUBSET (1 .. n) :
          h[S] = IF S = {} THEN base ELSE step[Max(S)][h[S \ {Max(S)}]]
    BY <1>1 DEF IsFold
  <2> QED BY <2>1 DEF Folds
<1> QED BY <1>2, FoldRun

\* n blocks of numbers in a row: the k-th has len[k] numbers, after off[k].
Blocks(off, len, n) ==
  /\ off \in [1 .. n + 1 -> Nat] /\ len \in [1 .. n -> Nat] /\ off[1] = 0
  /\ \A k \in 1 .. n : off[k + 1] = off[k] + len[k]

\* The first k blocks end where the next begins, and every number up to there
\* is in one of them.
LEMMA BlocksFact ==
  ASSUME NEW n \in Nat, NEW off, NEW len, Blocks(off, len, n), NEW k \in 0 .. n
  PROVE  /\ \A l \in 1 .. k : off[l + 1] <= off[k + 1]
         /\ \A i \in 1 .. off[k + 1] : \E l \in 1 .. k : off[l] < i /\ i <= off[l + 1]
<1> DEFINE Ends(j) == \A l \in 1 .. j : off[l + 1] <= off[j + 1]
           Covers(j) == \A i \in 1 .. off[j + 1] : \E l \in 1 .. j : off[l] < i /\ i <= off[l + 1]
           K == {j \in Nat : j <= n => Ends(j) /\ Covers(j)}
<1>1. \A j \in 1 .. n + 1 : off[j] \in Nat
  BY DEF Blocks
<1>2. Ends(0) /\ Covers(0)
  BY DEF Blocks
<1>3. ASSUME NEW j \in Nat, j + 1 <= n, Ends(j), Covers(j)
      PROVE  Ends(j + 1) /\ Covers(j + 1)
  <2>1. /\ off[j + 1] \in Nat /\ off[(j + 1) + 1] \in Nat
        /\ off[j + 1] <= off[(j + 1) + 1]
    <3>1. j + 1 \in 1 .. n /\ j + 1 \in 1 .. n + 1 /\ (j + 1) + 1 \in 1 .. n + 1
      BY <1>3
    <3>2. len[j + 1] \in Nat /\ off[(j + 1) + 1] = off[j + 1] + len[j + 1]
      BY <3>1 DEF Blocks
    <3> QED BY <1>1, <3>1, <3>2
  <2>2. ASSUME NEW l \in 1 .. j + 1 PROVE off[l + 1] <= off[(j + 1) + 1]
    <3>1. CASE l = j + 1
      BY <2>1, <3>1
    <3>2. CASE l \in 1 .. j
      <4>1. off[l + 1] \in Nat /\ off[l + 1] <= off[j + 1]
        <5>1. l + 1 \in 1 .. n + 1
          BY <1>3, <3>2
        <5> QED BY <1>1, <1>3, <3>2, <5>1
      <4> QED BY <2>1, <4>1
    <3> QED BY <3>1, <3>2
  <2>3. ASSUME NEW i \in 1 .. off[(j + 1) + 1]
        PROVE  \E l \in 1 .. j + 1 : off[l] < i /\ i <= off[l + 1]
    <3>1. CASE i <= off[j + 1]
      <4>1. i \in 1 .. off[j + 1]
        BY <2>1, <3>1
      <4>2. PICK l \in 1 .. j : off[l] < i /\ i <= off[l + 1]
        BY <1>3, <4>1
      <4> QED BY <4>2
    <3>2. CASE off[j + 1] < i
      <4>1. j + 1 \in 1 .. j + 1
        BY <1>3
      <4> QED BY <2>1, <3>2, <4>1
    <3> QED BY <2>1, <3>1, <3>2
  <2> QED BY <2>2, <2>3
<1> HIDE DEF Ends, Covers
<1>4. Nat \subseteq K
  <2>1. 0 \in K
    BY <1>2
  <2>2. ASSUME NEW j \in Nat, j \in K PROVE j + 1 \in K
    <3>1. j <= j + 1
      OBVIOUS
    <3> QED BY <1>3, <2>2, <3>1
  <2> HIDE DEF K
  <2> QED BY <2>1, <2>2, NaturalInduction
<1>5. k \in Nat /\ k <= n
  OBVIOUS
<1>6. Ends(k) /\ Covers(k)
  BY <1>4, <1>5
<1> QED BY <1>6 DEF Ends, Covers

\* A number of a block, counted from the start of the first.
LEMMA WithinFact ==
  ASSUME NEW p \in Nat, NEW m \in Nat, NEW t \in Nat, p + m <= t, NEW j \in 1 .. m
  PROVE  p + j \in 1 .. t
OBVIOUS

\* lt is a strict total order on S; and s lists the elements of S in it.
Orders(lt, S) ==
  /\ \A x \in S : <<x, x>> \notin lt
  /\ \A x, y \in S : x = y \/ <<x, y>> \in lt \/ <<y, x>> \in lt
  /\ \A x, y, z \in S : <<x, y>> \in lt /\ <<y, z>> \in lt => <<x, z>> \in lt
Rank(lt, S, x) == Cardinality({y \in S : <<y, x>> \in lt})
Lists(s, lt, S) ==
  /\ s \in [1 .. Cardinality(S) -> S] /\ Cardinality(S) \in Nat
  /\ \A i, j \in 1 .. Cardinality(S) : i < j <=> <<s[i], s[j]>> \in lt
  /\ \A x \in S : \E i \in 1 .. Cardinality(S) : s[i] = x

\* The ranks of the elements are the numbers below their count, and order
\* the elements.
LEMMA RankFact ==
  ASSUME NEW S, IsFiniteSet(S), NEW lt, Orders(lt, S)
  PROVE  /\ Cardinality(S) \in Nat
         /\ \A x \in S : Rank(lt, S, x) \in 0 .. Cardinality(S) - 1
         /\ \A x, y \in S : <<x, y>> \in lt <=> Rank(lt, S, x) < Rank(lt, S, y)
         /\ \A i \in 1 .. Cardinality(S) : \E x \in S : Rank(lt, S, x) = i - 1
<1> DEFINE B(x) == {y \in S : <<y, x>> \in lt}
<1>1. PICK n \in Nat : n = Cardinality(S)
  BY FS_CardinalityType
<1>2. \A x \in S : Rank(lt, S, x) = Cardinality(B(x))
  BY DEF Rank
<1>3. ASSUME NEW x \in S PROVE IsFiniteSet(B(x)) /\ Cardinality(B(x)) \in 0 .. n - 1
  <2>1. B(x) \in SUBSET (S \ {x})
    BY DEF Orders
  <2>2. IsFiniteSet(S \ {x}) /\ Cardinality(S \ {x}) = n - 1
    BY <1>1, FS_RemoveElement
  <2>3. IsFiniteSet(B(x)) /\ Cardinality(B(x)) <= n - 1 /\ Cardinality(B(x)) \in Nat
    <3> HIDE DEF B
    <3> QED BY <2>1, <2>2, FS_Subset, FS_CardinalityType
  <2> QED BY <2>3
<1>4. ASSUME NEW x \in S, NEW y \in S, <<x, y>> \in lt
      PROVE  Cardinality(B(x)) < Cardinality(B(y))
  <2>1. B(x) \in SUBSET B(y) /\ x \in B(y) /\ x \notin B(x)
    BY <1>4 DEF Orders
  <2> HIDE DEF B
  <2>2. Cardinality(B(x)) <= Cardinality(B(y)) /\ Cardinality(B(x)) # Cardinality(B(y))
    BY <1>3, <2>1, FS_Subset
  <2>3. Cardinality(B(x)) \in 0 .. n - 1 /\ Cardinality(B(y)) \in 0 .. n - 1
    BY <1>3
  <2> QED BY <2>2, <2>3
<1> DEFINE f == [x \in S |-> Cardinality(B(x)) + 1]
<1>5. f \in Surjection(S, 1 .. n)
  <2>1. \A x \in S : f[x] \in 1 .. n
    <3> HIDE DEF B
    <3> QED BY <1>3
  <2>2. \A x, y \in S : f[x] = f[y] => x = y
    <3> HIDE DEF B
    <3> SUFFICES ASSUME NEW x \in S, NEW y \in S, f[x] = f[y], x # y PROVE FALSE
      OBVIOUS
    <3>1. Cardinality(B(x)) = Cardinality(B(y))
      BY <1>3
    <3>2. <<x, y>> \in lt \/ <<y, x>> \in lt
      BY DEF Orders
    <3>3. CASE <<x, y>> \in lt
      BY <1>3, <1>4, <3>1, <3>3
    <3>4. CASE <<y, x>> \in lt
      BY <1>3, <1>4, <3>1, <3>4
    <3> QED BY <3>2, <3>3, <3>4
  <2>3. f \in Injection(S, 1 .. n)
    <3> HIDE DEF B
    <3> QED BY <2>1, <2>2 DEF Injection, IsInjective
  <2>4. IsFiniteSet(1 .. n) /\ Cardinality(1 .. n) = n
    BY FS_Interval
  <2> HIDE DEF f
  <2> QED BY <1>1, <2>3, <2>4, FS_Injection
<1>6. \A i \in 1 .. n : \E x \in S : Cardinality(B(x)) = i - 1
  <2> HIDE DEF B
  <2> SUFFICES ASSUME NEW i \in 1 .. n PROVE \E x \in S : Cardinality(B(x)) = i - 1
    OBVIOUS
  <2>1. PICK x \in S : f[x] = i
    BY <1>5 DEF Surjection
  <2> QED BY <1>3, <2>1
<1>7. \A x, y \in S : <<x, y>> \in lt <=> Cardinality(B(x)) < Cardinality(B(y))
  <2> HIDE DEF B
  <2> SUFFICES ASSUME NEW x \in S, NEW y \in S, Cardinality(B(x)) < Cardinality(B(y))
               PROVE  <<x, y>> \in lt
    BY <1>4
  <2>1. Cardinality(B(x)) \in 0 .. n - 1 /\ Cardinality(B(y)) \in 0 .. n - 1
    BY <1>3
  <2>2. x # y /\ ~(<<y, x>> \in lt)
    BY <1>4, <2>1
  <2> QED BY <2>2 DEF Orders
<1> HIDE DEF B
<1> QED BY <1>1, <1>2, <1>3, <1>6, <1>7

\* A function that gives for every number up to the count of S the element
\* of that rank lists S.
LEMMA ListFact ==
  ASSUME NEW S, IsFiniteSet(S), NEW lt, Orders(lt, S), NEW s, NEW n, n = Cardinality(S),
         s = [i \in 1 .. n |-> s[i]],
         \A i \in 1 .. n : s[i] \in S /\ Rank(lt, S, s[i]) = i - 1
  PROVE  Lists(s, lt, S)
<1>1. /\ n \in Nat
      /\ \A x \in S : Rank(lt, S, x) \in 0 .. n - 1
      /\ \A x, y \in S : <<x, y>> \in lt <=> Rank(lt, S, x) < Rank(lt, S, y)
  BY RankFact
<1>2. s \in [1 .. n -> S]
  OBVIOUS
<1>3. \A i, j \in 1 .. n : i < j <=> <<s[i], s[j]>> \in lt
  BY <1>1
<1>4. ASSUME NEW x \in S PROVE \E i \in 1 .. n : s[i] = x
  <2>1. PICK i \in 1 .. n : i = Rank(lt, S, x) + 1
    BY <1>1
  <2>2. Rank(lt, S, s[i]) = Rank(lt, S, x) /\ s[i] \in S
    BY <1>1, <2>1
  <2>3. ~(<<s[i], x>> \in lt) /\ ~(<<x, s[i]>> \in lt)
    BY <1>1, <2>2
  <2> QED BY <2>2, <2>3 DEF Orders
<1> QED BY <1>1, <1>2, <1>3, <1>4 DEF Lists

\* What a list gives at a place follows what it gives before.
LEMMA ListedBefore ==
  ASSUME NEW S, NEW lt, Orders(lt, S), NEW s, Lists(s, lt, S),
         NEW i \in 1 .. Cardinality(S)
  PROVE  /\ s[i] \in S
         /\ {s[j] : j \in 1 .. i - 1} = {x \in S : <<x, s[i]>> \in lt}
<1>1. PICK n \in Nat : n = Cardinality(S)
  BY DEF Lists
<1>2. /\ s \in [1 .. n -> S] /\ i \in 1 .. n
      /\ \A j, k \in 1 .. n : j < k <=> <<s[j], s[k]>> \in lt
      /\ \A x \in S : \E j \in 1 .. n : s[j] = x
  BY <1>1 DEF Lists
<1>3. ASSUME NEW j \in 1 .. i - 1 PROVE s[j] \in S /\ <<s[j], s[i]>> \in lt
  BY <1>2
<1>4. ASSUME NEW x \in S, <<x, s[i]>> \in lt PROVE \E j \in 1 .. i - 1 : s[j] = x
  <2>1. PICK j \in 1 .. n : s[j] = x
    BY <1>2
  <2>2. j < i
    BY <1>2, <1>4, <2>1
  <2> QED BY <1>2, <2>1, <2>2
<1> QED BY <1>2, <1>3, <1>4

\* There is one list of a set.
LEMMA ListsUnique ==
  ASSUME NEW S, IsFiniteSet(S), NEW lt, Orders(lt, S), NEW s, Lists(s, lt, S),
         NEW t, Lists(t, lt, S)
  PROVE  s = t
<1>1. PICK n \in Nat : n = Cardinality(S)
  BY DEF Lists
<1>2. s \in [1 .. n -> S] /\ t \in [1 .. n -> S]
  BY <1>1 DEF Lists
<1>3. ASSUME NEW r, Lists(r, lt, S), NEW i \in 1 .. n
      PROVE  r[i] \in S /\ Rank(lt, S, r[i]) = i - 1
  <2>1. r[i] \in S /\ {r[j] : j \in 1 .. i - 1} = {x \in S : <<x, r[i]>> \in lt}
    BY <1>1, <1>3, ListedBefore
  <2> DEFINE f == [j \in 1 .. i - 1 |-> r[j]]
             T == {r[j] : j \in 1 .. i - 1}
  <2>2. f \in Bijection(1 .. i - 1, T)
    <3>1. \A j, k \in 1 .. i - 1 : r[j] = r[k] => j = k
      <4> SUFFICES ASSUME NEW j \in 1 .. i - 1, NEW k \in 1 .. i - 1, r[j] = r[k]
                   PROVE  j = k
        OBVIOUS
      <4>1. j \in 1 .. n /\ k \in 1 .. n /\ r[j] \in S
        BY <1>1, <1>3 DEF Lists
      <4>2. ~(j < k) /\ ~(k < j)
        BY <1>1, <1>3, <4>1 DEF Lists, Orders
      <4> QED BY <4>1, <4>2
    <3> QED BY <3>1 DEF Bijection, Injection, Surjection, IsInjective
  <2>3. IsFiniteSet(1 .. i - 1) /\ Cardinality(1 .. i - 1) = i - 1
    <3>1. i - 1 \in Int /\ 1 \in Int /\ (1 > i - 1 <=> i - 1 = 0)
      OBVIOUS
    <3> QED BY <3>1, FS_Interval
  <2>4. Cardinality(T) = i - 1
    <3>1. ExistsBijection(1 .. i - 1, T)
      BY <2>2 DEF ExistsBijection
    <3> HIDE DEF T, f
    <3> QED BY <2>3, <3>1, FS_Bijection
  <2> QED BY <2>1, <2>4 DEF Rank
<1>4. ASSUME NEW i \in 1 .. n PROVE s[i] = t[i]
  <2>1. /\ s[i] \in S /\ t[i] \in S
        /\ Rank(lt, S, s[i]) = i - 1 /\ Rank(lt, S, t[i]) = i - 1
    BY <1>3
  <2>2. ~(<<s[i], t[i]>> \in lt) /\ ~(<<t[i], s[i]>> \in lt)
    <3>1. ~(i - 1 < i - 1)
      OBVIOUS
    <3> QED BY <2>1, <3>1, RankFact
  <2> QED BY <2>1, <2>2 DEF Orders
<1> QED BY <1>2, <1>4

\* Corresponding parts of corresponding sets have as many elements.
LEMMA SameCount ==
  ASSUME NEW R, NEW P, NEW spot \in [R -> P],
         \A r, s \in R : spot[r] = spot[s] => r = s, \A p \in P : \E r \in R : spot[r] = p,
         NEW A \in SUBSET R, IsFiniteSet(A),
         NEW B \in SUBSET P, \A r \in R : r \in A <=> spot[r] \in B
  PROVE  IsFiniteSet(B) /\ Cardinality(A) = Cardinality(B)
<1> DEFINE g == [r \in A |-> spot[r]]
<1>1. g \in Injection(A, B) /\ g \in Surjection(A, B)
  <2>1. g \in [A -> B]
    OBVIOUS
  <2>2. \A r, s \in A : g[r] = g[s] => r = s
    OBVIOUS
  <2>3. \A p \in B : \E r \in A : g[r] = p
    OBVIOUS
  <2> HIDE DEF g
  <2> QED BY <2>1, <2>2, <2>3 DEF Injection, Surjection, IsInjective
<1> HIDE DEF g
<1>2. ExistsBijection(A, B)
  BY <1>1 DEF ExistsBijection, Bijection
<1> QED BY <1>2, FS_Bijection

\* Corresponding sets have as many elements.
LEMMA SameSize ==
  ASSUME NEW R, IsFiniteSet(R), NEW P, NEW spot \in [R -> P],
         \A r, s \in R : spot[r] = spot[s] => r = s, \A p \in P : \E r \in R : spot[r] = p
  PROVE  IsFiniteSet(P) /\ Cardinality(R) = Cardinality(P)
<1>1. spot \in Injection(R, P) /\ spot \in Surjection(R, P)
  BY DEF Injection, Surjection, IsInjective
<1>2. ExistsBijection(R, P)
  BY <1>1 DEF ExistsBijection, Bijection
<1> QED BY <1>2, FS_Bijection
\* flat is the concatenation of seqs: off[k] elements come before the k-th of them.
Lengths(seqs) == [k \in 1 .. Len(seqs) |-> Len(seqs[k])]
IsFlat(off, seqs, flat) ==
  /\ Blocks(off, Lengths(seqs), Len(seqs)) /\ off[Len(seqs) + 1] = Len(flat)
  /\ \A k \in 1 .. Len(seqs) : \A j \in 1 .. Len(seqs[k]) : flat[off[k] + j] = seqs[k][j]

\* FlattenSeq is what one gets by appending the sequences one after the other.
LEMMA FlattenRun ==
  ASSUME NEW T, NEW seqs \in Seq(Seq(T))
  PROVE  \E r \in [0 .. Len(seqs) -> Seq(T)] :
           /\ r[0] = << >> /\ FlattenSeq(seqs) = r[Len(seqs)]
           /\ \A k \in 1 .. Len(seqs) : r[k] = r[k - 1] \o seqs[k]
<1> DEFINE A == Seq(T)
           base == << >>
<1>1. PICK n \in Nat : n = Len(seqs)
  OBVIOUS
<1> DEFINE step == [k \in 1 .. n |-> [s \in A |-> s \o seqs[k]]]
           Solves(f) == f = [i \in 1 .. n |-> IF i = 1 THEN seqs[i] ELSE f[i - 1] \o seqs[i]]
           flatten == CHOOSE f : Solves(f)
<1>2. \A k \in 1 .. n : seqs[k] \in A
  BY <1>1
<1>3. PICK r : IsRun(r, n, A, base, step)
  <2>1. base \in A /\ step \in Steps(n, A)
    <3>1. \A k \in 1 .. n, s \in A : s \o seqs[k] \in A
      BY <1>2, ConcatProperties
    <3> QED BY <3>1 DEF Steps
  <2> HIDE DEF A, base, step
  <2> QED BY <2>1, RunExists
<1>4. /\ r \in [0 .. n -> A] /\ r[0] = base
      /\ \A k \in 1 .. n : r[k] = r[k - 1] \o seqs[k]
  <2>1. r \in [0 .. n -> A] /\ r[0] = base /\ \A k \in 1 .. n : r[k] = step[k][r[k - 1]]
    BY <1>3 DEF IsRun
  <2>2. ASSUME NEW k \in 1 .. n PROVE r[k] = r[k - 1] \o seqs[k]
    <3>1. r[k - 1] \in A
      <4> HIDE DEF A, step
      <4>1. k - 1 \in 0 .. n
        OBVIOUS
      <4> QED BY <2>1, <4>1
    <3> HIDE DEF A
    <3> QED BY <2>1, <3>1
  <2> QED BY <2>1, <2>2
<1> HIDE DEF step
<1>5. ASSUME n # 0 PROVE r[1] = seqs[1]
  <2>1. 1 \in 1 .. n /\ 1 - 1 = 0
    BY <1>5
  <2>2. r[1] = << >> \o seqs[1] /\ seqs[1] \in Seq(T)
    BY <1>2, <1>4, <2>1
  <2> QED BY <2>2, ConcatEmptySeq
<1>6. FlattenSeq(seqs) = r[n]
  <2>1. CASE n = 0
    <3>1. seqs = << >> /\ FlattenSeq(seqs) = seqs
      BY <1>1, <2>1, EmptySeq DEF FlattenSeq
    <3> QED BY <1>4, <2>1, <3>1
  <2>2. CASE n # 0
    <3>1. FlattenSeq(seqs) = flatten[n]
      BY <1>1, <2>2 DEF FlattenSeq
    <3>2. Solves(flatten)
      <4> DEFINE f == [i \in 1 .. n |-> r[i]]
      <4>1. Solves(f)
        <5>1. ASSUME NEW i \in 1 .. n, i # 1 PROVE r[i] = f[i - 1] \o seqs[i]
          <6>1. i - 1 \in 1 .. n
            BY <5>1
          <6> QED BY <1>4, <6>1
        <5> QED BY <1>5, <2>2, <5>1
      <4> HIDE DEF Solves, f
      <4> QED BY <4>1
    <3>3. /\ flatten[1] = seqs[1]
          /\ \A i \in 1 .. n : i # 1 => flatten[i] = flatten[i - 1] \o seqs[i]
      <4> HIDE DEF flatten
      <4>1. 1 \in 1 .. n
        BY <2>2
      <4> QED BY <3>2, <4>1
    <3> HIDE DEF flatten, Solves
    <3> DEFINE J == {k \in Nat : k + 1 <= n => flatten[k + 1] = r[k + 1]}
    <3>4. 0 \in J
      <4>1. flatten[0 + 1] = r[0 + 1]
        BY <1>5, <2>2, <3>3
      <4> QED BY <4>1
    <3>5. ASSUME NEW k \in Nat, k \in J PROVE k + 1 \in J
      <4> SUFFICES ASSUME (k + 1) + 1 <= n PROVE flatten[(k + 1) + 1] = r[(k + 1) + 1]
        OBVIOUS
      <4>1. flatten[k + 1] = r[k + 1]
        BY <3>5
      <4>2. (k + 1) + 1 \in 1 .. n /\ (k + 1) + 1 # 1 /\ ((k + 1) + 1) - 1 = k + 1
        OBVIOUS
      <4> HIDE DEF J
      <4> QED BY <1>4, <3>3, <4>1, <4>2
    <3>6. flatten[n] = r[n]
      <4>1. n - 1 \in Nat /\ (n - 1) + 1 = n /\ n <= n
        BY <2>2
      <4>2. n - 1 \in J
        <5> HIDE DEF J
        <5> QED BY <3>4, <3>5, <4>1, NaturalInduction
      <4> QED BY <4>1, <4>2
    <3> QED BY <3>1, <3>6
  <2> QED BY <2>1, <2>2
<1> QED BY <1>1, <1>4, <1>6

\* FlattenSeq is the concatenation.
LEMMA FlattenFact ==
  ASSUME NEW T, NEW seqs \in Seq(Seq(T))
  PROVE  FlattenSeq(seqs) \in Seq(T) /\ \E off : IsFlat(off, seqs, FlattenSeq(seqs))
<1>1. PICK n \in Nat : n = Len(seqs)
  OBVIOUS
<1>2. PICK r \in [0 .. n -> Seq(T)] :
        /\ r[0] = << >> /\ FlattenSeq(seqs) = r[n]
        /\ \A k \in 1 .. n : r[k] = r[k - 1] \o seqs[k]
  BY <1>1, FlattenRun
<1>3. PICK L : L = [k \in 0 .. n |-> Len(r[k])]
  OBVIOUS
<1>4. PICK off : off = [k \in 1 .. n + 1 |-> L[k - 1]]
  OBVIOUS
<1>5. PICK len : len = Lengths(seqs)
  OBVIOUS
<1>6. /\ L \in [0 .. n -> Nat] /\ L[0] = 0 /\ len \in [1 .. n -> Nat]
      /\ \A k \in 0 .. n : L[k] = Len(r[k])
      /\ \A k \in 1 .. n : len[k] = Len(seqs[k])
  <2>1. \A k \in 0 .. n : Len(r[k]) \in Nat
    OBVIOUS
  <2>2. \A k \in 1 .. n : Len(seqs[k]) \in Nat
    BY <1>1
  <2> QED BY <1>1, <1>2, <1>3, <1>5, <2>1, <2>2 DEF Lengths
<1>7. ASSUME NEW k \in 1 .. n
      PROVE  /\ L[k] = L[k - 1] + len[k]
             /\ \A i \in 1 .. L[k - 1] : r[k][i] = r[k - 1][i]
             /\ \A j \in 1 .. len[k] : r[k][L[k - 1] + j] = seqs[k][j]
  <2>1. k - 1 \in 0 .. n /\ k \in 0 .. n
    OBVIOUS
  <2>2. PICK a \in Seq(T) : a = r[k - 1]
    BY <2>1
  <2>3. PICK b \in Seq(T) : b = seqs[k]
    BY <1>1
  <2>4. PICK c \in Seq(T) : c = r[k]
    BY <2>1
  <2>5. c = a \o b
    BY <1>2, <2>2, <2>3, <2>4
  <2>6. /\ Len(c) = Len(a) + Len(b) /\ Len(a) \in Nat /\ Len(b) \in Nat
        /\ \A i \in 1 .. Len(a) + Len(b) : c[i] = IF i <= Len(a) THEN a[i] ELSE b[i - Len(a)]
    BY <2>5, ConcatProperties
  <2>7. L[k] = Len(c) /\ L[k - 1] = Len(a) /\ len[k] = Len(b)
    BY <1>6, <2>1, <2>2, <2>3, <2>4
  <2>8. /\ \A i \in 1 .. Len(a) : c[i] = a[i]
        /\ \A j \in 1 .. Len(b) : c[Len(a) + j] = b[j]
    <3>1. \A i \in 1 .. Len(a) : i \in 1 .. Len(a) + Len(b) /\ i <= Len(a)
      BY <2>6
    <3>2. \A j \in 1 .. Len(b) : /\ Len(a) + j \in 1 .. Len(a) + Len(b)
                                  /\ ~(Len(a) + j <= Len(a)) /\ (Len(a) + j) - Len(a) = j
      BY <2>6
    <3> QED BY <2>6, <3>1, <3>2
  <2> QED BY <2>2, <2>3, <2>4, <2>6, <2>7, <2>8
<1>8. Blocks(off, len, n) /\ off[n + 1] = L[n] /\ \A k \in 1 .. n : off[k] = L[k - 1]
  <2>1. \A k \in 1 .. n + 1 : k - 1 \in 0 .. n /\ off[k] = L[k - 1]
    BY <1>4
  <2>2. \A k \in 1 .. n : off[k + 1] = L[k] /\ off[k] = L[k - 1]
    <3>1. \A k \in 1 .. n : k + 1 \in 1 .. n + 1 /\ k \in 1 .. n + 1 /\ (k + 1) - 1 = k
      OBVIOUS
    <3> QED BY <2>1, <3>1
  <2>3. off \in [1 .. n + 1 -> Nat]
    BY <1>4, <1>6, <2>1
  <2>4. off[1] = 0 /\ off[n + 1] = L[n]
    <3>1. 1 \in 1 .. n + 1 /\ n + 1 \in 1 .. n + 1 /\ (n + 1) - 1 = n /\ 1 - 1 = 0
      OBVIOUS
    <3> QED BY <1>6, <2>1, <3>1
  <2> QED BY <1>6, <1>7, <2>2, <2>3, <2>4 DEF Blocks
<1> DEFINE Upto(k) == \A l \in 1 .. k : \A j \in 1 .. len[l] : r[k][off[l] + j] = seqs[l][j]
           K == {k \in Nat : k <= n => Upto(k)}
<1>9. \A k \in Nat : k \in K => k + 1 \in K
  <2> SUFFICES ASSUME NEW k \in Nat, k + 1 <= n, Upto(k) PROVE Upto(k + 1)
    <3> HIDE DEF Upto
    <3> QED OBVIOUS
  <2> HIDE DEF K
  <2> SUFFICES ASSUME NEW l \in 1 .. k + 1, NEW j \in 1 .. len[l]
               PROVE  r[k + 1][off[l] + j] = seqs[l][j]
    OBVIOUS
  <2>1. k + 1 \in 1 .. n /\ (k + 1) - 1 = k /\ k \in 0 .. n
    OBVIOUS
  <2>2. CASE l = k + 1
    <3>1. j \in 1 .. len[k + 1] /\ off[k + 1] = L[k]
      BY <1>8, <2>1, <2>2
    <3>2. r[k + 1][L[(k + 1) - 1] + j] = seqs[k + 1][j]
      BY <1>7, <2>1, <3>1
    <3> QED BY <2>1, <2>2, <3>1, <3>2
  <2>3. CASE l \in 1 .. k
    <3>1. l \in 1 .. n /\ len[l] \in Nat /\ off[l] \in Nat /\ off[l + 1] = off[l] + len[l]
      <4>1. l \in 1 .. n /\ l \in 1 .. n + 1
        BY <2>3
      <4> QED BY <1>8, <4>1 DEF Blocks
    <3>2. off[l + 1] <= off[k + 1]
      BY <1>8, <2>1, <2>3, BlocksFact
    <3>3. off[k + 1] = L[k]
      BY <1>8, <2>1
    <3>4. L[k] \in Nat
      BY <1>6, <2>1
    <3>5. off[l] + j \in 1 .. L[k]
      <4> PICK p, q, m, t : p = off[l] /\ q = off[l + 1] /\ m = len[l] /\ t = L[k]
        OBVIOUS
      <4>1. p \in Nat /\ m \in Nat /\ t \in Nat /\ q = p + m /\ q <= t
        BY <3>1, <3>2, <3>3, <3>4
      <4>2. j \in 1 .. m
        OBVIOUS
      <4>3. p + j \in 1 .. t
        BY <4>1, <4>2, WithinFact
      <4> QED BY <4>3
    <3>6. r[k + 1][off[l] + j] = r[k][off[l] + j]
      <4> PICK i : i = off[l] + j
        OBVIOUS
      <4>1. \A x \in 1 .. L[k] : r[k + 1][x] = r[k][x]
        BY <1>7, <2>1
      <4> QED BY <3>5, <4>1
    <3> QED BY <2>3, <3>6
  <2> QED BY <2>2, <2>3
<1>10. Upto(n)
  <2>1. 0 \in K
    OBVIOUS
  <2>2. n \in K
    <3> HIDE DEF K
    <3> QED BY <1>9, <2>1, NaturalInduction
  <2> QED BY <2>2
<1>11. IsFlat(off, seqs, r[n])
  <2>1. off[n + 1] = Len(r[n])
    BY <1>6, <1>8
  <2>2. \A k \in 1 .. n : \A j \in 1 .. Len(seqs[k]) : r[n][off[k] + j] = seqs[k][j]
    BY <1>6, <1>10
  <2> QED BY <1>1, <1>5, <1>8, <2>1, <2>2 DEF IsFlat
<1>12. r[n] \in Seq(T)
  BY <1>2
<1> QED BY <1>2, <1>11, <1>12
=============================================================================
