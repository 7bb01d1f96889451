------------------------- MODULE TrainingPackageProofs -------------------------
(***************************************************************************)
(* The data path from the artifacts to the vectors a training run reads.   *)
(* First the selection: the reader's batches are the rows in order, the    *)
(* eligible rows are distinct units, the sampler holds the soonest of what *)
(* it has met in bounded memory, and the queue of finish() seats whom the  *)
(* definition says; SelectionInv is the inductive invariant of the two     *)
(* passes.  Then the package: pooling, parts, alignment and loading.       *)
(***************************************************************************)
EXTENDS TrainingPackage, DataInduction, SequenceTheorems, TLAPS

\* EligibleRows goes through the rows, one after the other.
LEMMA EligibleRun ==
  ASSUME NEW rows \in Seq(UnitRow)
  PROVE  \E r \in [0 .. Len(rows) -> Seq(UnitRow)] :
           /\ r[0] = << >> /\ EligibleRows(rows) = r[Len(rows)]
           /\ \A k \in 1 .. Len(rows) :
                r[k] = IF Eligible(Artifact, modality, rows[k]) THEN Append(r[k - 1], rows[k])
                                                                ELSE r[k - 1]
<1> DEFINE n == Len(rows)
           A == Seq(UnitRow)
           base == << >>
           step == [i \in 1 .. n |-> [u \in A |-> IF Eligible(Artifact, modality, rows[i])
                                                    THEN Append(u, rows[i]) ELSE u]]
           Solves(h) == h = [S \in SUBSET (1 .. n) |->
                               IF S = {} THEN << >>
                               ELSE IF Eligible(Artifact, modality, rows[Max(S)])
                                 THEN Append(h[S \ {Max(S)}], rows[Max(S)])
                                 ELSE h[S \ {Max(S)}]]
           fold == CHOOSE h : Solves(h)
<1>1. n \in Nat /\ DOMAIN rows = 1 .. n /\ \A i \in 1 .. n : rows[i] \in UnitRow
  OBVIOUS
<1>2. EligibleRows(rows) = fold[1 .. n]
  BY <1>1 DEF EligibleRows, FoldLeft, MapThenFoldSet
<1>3. base \in A /\ step \in Steps(n, A)
  <2>1. \A i \in 1 .. n, u \in A : Append(u, rows[i]) \in A
    BY <1>1, AppendProperties
  <2> QED BY <2>1 DEF Steps
<1>4. \A S \in SUBSET (1 .. n) : S # {} => Max(S) \in 1 .. n
  <2> SUFFICES ASSUME NEW S \in SUBSET (1 .. n), S # {} PROVE Max(S) \in 1 .. n
    OBVIOUS
  <2>1. S \in SUBSET (0 .. n)
    BY <1>1
  <2> QED BY <1>1, <2>1, MaxFact
<1>5. Solves(fold)
  <2>1. PICK h : IsFold(h, n, A, base, step)
    <3> HIDE DEF n, A, step, base, Solves, fold
    <3> QED BY <1>1, <1>3, FoldExists
  <2>2. Solves(h)
    <3>1. ASSUME NEW S \in SUBSET (1 .. n), S # {}
          PROVE  step[Max(S)][h[S \ {Max(S)}]]
                   = IF Eligible(Artifact, modality, rows[Max(S)])
                       THEN Append(h[S \ {Max(S)}], rows[Max(S)]) ELSE h[S \ {Max(S)}]
      <4>1. h[S \ {Max(S)}] \in A
        BY <2>1 DEF IsFold
      <4> QED BY <1>4, <3>1, <4>1
    <3> HIDE DEF step, A, n
    <3> QED BY <2>1, <3>1 DEF IsFold
  <2> HIDE DEF Solves
  <2> QED BY <2>2
<1> HIDE DEF fold
<1>6. Folds(fold, n, A, base, step)
  BY <1>4, <1>5 DEF Folds
<1>7. PICK r : IsRun(r, n, A, base, step) /\ fold[1 .. n] = r[n]
  <2> HIDE DEF n, A, step, base, Solves
  <2> QED BY <1>1, <1>3, <1>6, FoldRun
<1>8. \A k \in 1 .. n : r[k] = IF Eligible(Artifact, modality, rows[k])
                                 THEN Append(r[k - 1], rows[k]) ELSE r[k - 1]
  <2>1. \A k \in 1 .. n : k - 1 \in 0 .. n /\ r[k - 1] \in A
    <3> HIDE DEF n, A, step, base, Solves
    <3> QED BY <1>1, <1>7 DEF IsRun
  <2> QED BY <1>7, <2>1 DEF IsRun
<1> HIDE DEF A
<1> QED BY <1>2, <1>7, <1>8 DEF A, IsRun

\* units are the rows at the indices I, each taken once.
Picks(pos, units, rows, I) ==
  /\ units \in Seq(UnitRow) /\ pos \in [1 .. Len(units) -> I]
  /\ \A j, k \in 1 .. Len(units) : pos[j] = pos[k] => j = k
  /\ \A i \in I : \E k \in 1 .. Len(units) : pos[k] = i
  /\ \A k \in 1 .. Len(units) : units[k] = rows[pos[k]]

\* One more row is picked.
LEMMA PickOne ==
  ASSUME NEW rows, NEW I, NEW units, NEW pos, Picks(pos, units, rows, I),
         NEW i, i \notin I, rows[i] \in UnitRow
  PROVE  \E p : Picks(p, Append(units, rows[i]), rows, I \cup {i})
<1>1. PICK n \in Nat : n = Len(units)
  BY DEF Picks
<1>2. PICK more \in Seq(UnitRow) : more = Append(units, rows[i])
  BY AppendProperties DEF Picks
<1>3. /\ Len(more) = n + 1 /\ more[n + 1] = rows[i]
      /\ \A k \in 1 .. n : more[k] = units[k]
  BY <1>1, <1>2, AppendProperties DEF Picks
<1>4. PICK p : p = [k \in 1 .. n + 1 |-> IF k = n + 1 THEN i ELSE pos[k]]
  OBVIOUS
<1>5. /\ pos \in [1 .. n -> I]
      /\ \A j, k \in 1 .. n : pos[j] = pos[k] => j = k
      /\ \A x \in I : \E k \in 1 .. n : pos[k] = x
      /\ \A k \in 1 .. n : units[k] = rows[pos[k]]
  BY <1>1 DEF Picks
<1>6. /\ p[n + 1] = i /\ \A k \in 1 .. n : p[k] = pos[k]
      /\ \A k \in 1 .. n + 1 : k = n + 1 \/ k \in 1 .. n
      /\ DOMAIN p = 1 .. n + 1 /\ n + 1 \in 1 .. n + 1
      /\ \A k \in 1 .. n : k \in 1 .. n + 1 /\ k # n + 1
  BY <1>4
<1>7. p \in [1 .. n + 1 -> I \cup {i}]
  <2>1. \A k \in 1 .. n + 1 : p[k] \in I \cup {i}
    BY <1>5, <1>6
  <2> QED BY <1>4, <2>1
<1>8. \A j, k \in 1 .. n + 1 : p[j] = p[k] => j = k
  BY <1>5, <1>6
<1>9. \A x \in I \cup {i} : \E k \in 1 .. n + 1 : p[k] = x
  BY <1>5, <1>6
<1>10. \A k \in 1 .. n + 1 : more[k] = rows[p[k]]
  BY <1>3, <1>5, <1>6
<1>11. Picks(p, more, rows, I \cup {i})
  BY <1>2, <1>3, <1>7, <1>8, <1>9, <1>10 DEF Picks
<1> QED BY <1>2, <1>11

\* EligibleRows picks the eligible rows.
EligibleAt(rows) == {i \in 1 .. Len(rows) : Eligible(Artifact, modality, rows[i])}
\* The eligible rows are picked from the rows in their order.
LEMMA EligiblePicks ==
  ASSUME NEW rows \in Seq(UnitRow)
  PROVE  \E pos : Picks(pos, EligibleRows(rows), rows, EligibleAt(rows))
<1>1. PICK n \in Nat : n = Len(rows)
  OBVIOUS
<1>2. PICK r \in [0 .. n -> Seq(UnitRow)] :
        /\ r[0] = << >> /\ EligibleRows(rows) = r[n]
        /\ \A k \in 1 .. n : r[k] = IF Eligible(Artifact, modality, rows[k])
                                      THEN Append(r[k - 1], rows[k]) ELSE r[k - 1]
  BY <1>1, EligibleRun
<1>3. PICK G : G = EligibleAt(rows)
  OBVIOUS
<1>4. ASSUME NEW k \in Nat, k + 1 <= n
      PROVE  /\ rows[k + 1] \in UnitRow
             /\ r[k + 1] = IF k + 1 \in G THEN Append(r[k], rows[k + 1]) ELSE r[k]
  <2>1. k + 1 \in 1 .. n /\ (k + 1) - 1 = k
    BY <1>4
  <2>2. k + 1 \in G <=> Eligible(Artifact, modality, rows[k + 1])
    BY <1>1, <1>3, <2>1 DEF EligibleAt
  <2> QED BY <1>1, <1>2, <2>1, <2>2
<1> DEFINE E(k) == {i \in G : i <= k}
           K == {k \in Nat : k <= n => \E pos : Picks(pos, r[k], rows, E(k))}
<1> HIDE DEF K
<1>5. \A i \in G : i \in Nat /\ 1 <= i /\ i <= n
  BY <1>1, <1>3 DEF EligibleAt
<1>6. 0 \in K
  <2>1. r[0] = << >> /\ Len(<< >>) = 0 /\ << >> \in Seq(UnitRow) /\ 1 .. 0 = {}
    BY <1>2
  <2>1a. E(0) = {}
    BY <1>5
  <2>2. PICK pos : pos = [k \in 1 .. 0 |-> k]
    OBVIOUS
  <2>3. pos \in [1 .. 0 -> E(0)]
    BY <2>1, <2>1a, <2>2
  <2> HIDE DEF E
  <2>4. Picks(pos, r[0], rows, E(0))
    BY <2>1, <2>1a, <2>3 DEF Picks
  <2> QED BY <2>4 DEF K
<1>7. ASSUME NEW k \in Nat, k \in K PROVE k + 1 \in K
  <2> SUFFICES ASSUME k + 1 <= n PROVE \E pos : Picks(pos, r[k + 1], rows, E(k + 1))
    <3> HIDE DEF E
    <3> QED BY DEF K
  <2>1. \E pos : Picks(pos, r[k], rows, E(k))
    <3>1. k <= n
      OBVIOUS
    <3> HIDE DEF E
    <3> QED BY <1>7, <3>1 DEF K
  <2>2. /\ k + 1 \notin E(k)
        /\ E(k + 1) = IF k + 1 \in G THEN E(k) \cup {k + 1} ELSE E(k)
    <3>1. ~(k + 1 <= k)
      OBVIOUS
    <3>2. \A i \in G : i <= k + 1 <=> i <= k \/ i = k + 1
      BY <1>5
    <3>3. k + 1 <= k + 1
      OBVIOUS
    <3> QED BY <3>1, <3>2, <3>3, Zenon
  <2> HIDE DEF E
  <2>3. PICK pos : Picks(pos, r[k], rows, E(k))
    BY <2>1
  <2>4. CASE k + 1 \in G
    <3>1. /\ E(k + 1) = E(k) \cup {k + 1} /\ k + 1 \notin E(k)
          /\ r[k + 1] = Append(r[k], rows[k + 1]) /\ rows[k + 1] \in UnitRow
      BY <1>4, <2>2, <2>4
    <3> PICK i, I, u : i = k + 1 /\ I = E(k) /\ u = r[k]
      OBVIOUS
    <3>2. Picks(pos, u, rows, I) /\ i \notin I /\ rows[i] \in UnitRow
      BY <2>3, <3>1
    <3>3. \E p : Picks(p, Append(u, rows[i]), rows, I \cup {i})
      BY <3>2, PickOne
    <3> QED BY <3>1, <3>3
  <2>5. CASE k + 1 \notin G
    BY <1>4, <2>2, <2>3, <2>5
  <2> QED BY <2>4, <2>5
<1>8. \E pos : Picks(pos, r[n], rows, E(n))
  <2> HIDE DEF E
  <2>1. n \in K
    BY <1>6, <1>7, NaturalInduction
  <2> QED BY <2>1 DEF K
<1>9. E(n) = G
  BY <1>5
<1> HIDE DEF E
<1> QED BY <1>2, <1>3, <1>8, <1>9

\* The bag is of the values, wherever they stand.
LEMMA BagMoved ==
  ASSUME NEW s, NEW I, NEW t, NEW J, IsFiniteSet(J), NEW f \in [J -> I],
         \A j, k \in J : f[j] = f[k] => j = k, \A i \in I : \E j \in J : f[j] = i,
         \A j \in J : t[j] = s[f[j]]
  PROVE  BagAt(t, J) = BagAt(s, I)
<1>1. {t[j] : j \in J} = {s[i] : i \in I}
  <2>1. \A j \in J : f[j] \in I
    OBVIOUS
  <2> QED BY <2>1
<1>2. ASSUME NEW v
      PROVE  Cardinality({j \in J : t[j] = v}) = Cardinality({i \in I : s[i] = v})
  <2>1. PICK A \in SUBSET J : A = {j \in J : t[j] = v}
    OBVIOUS
  <2>2. PICK B \in SUBSET I : B = {i \in I : s[i] = v}
    OBVIOUS
  <2>3. IsFiniteSet(A)
    BY FS_Subset
  <2>4. \A j \in J : j \in A <=> f[j] \in B
    BY <2>1, <2>2
  <2>5. Cardinality(A) = Cardinality(B)
    BY <2>3, <2>4, SameCount
  <2> QED BY <2>1, <2>2, <2>5
<1> QED BY <1>1, <1>2 DEF BagAt

\* The bags at two sets of positions add up.
LEMMA BagUnion2 ==
  ASSUME NEW s, NEW I, IsFiniteSet(I), NEW J, IsFiniteSet(J), I \cap J = {}
  PROVE  BagAt(s, I) (+) BagAt(s, J) = BagAt(s, I \cup J)
<1> DEFINE C(K, v) == {i \in K : s[i] = v}
           V(K) == {s[i] : i \in K}
<1>1. PICK a : a = BagAt(s, I)
  OBVIOUS
<1>2. PICK b : b = BagAt(s, J)
  OBVIOUS
<1>3. /\ a = [v \in V(I) |-> Cardinality(C(I, v))]
      /\ b = [v \in V(J) |-> Cardinality(C(J, v))]
      /\ BagAt(s, I \cup J) = [v \in V(I \cup J) |-> Cardinality(C(I \cup J, v))]
  BY <1>1, <1>2 DEF BagAt
<1>4. V(I) \cup V(J) = V(I \cup J)
  OBVIOUS
<1>5. ASSUME NEW v
      PROVE  /\ Cardinality(C(I, v)) \in Nat /\ Cardinality(C(J, v)) \in Nat
             /\ Cardinality(C(I \cup J, v)) = Cardinality(C(I, v)) + Cardinality(C(J, v))
             /\ v \notin V(I) => Cardinality(C(I, v)) = 0
             /\ v \notin V(J) => Cardinality(C(J, v)) = 0
  <2>1. /\ C(I, v) \in SUBSET I /\ C(J, v) \in SUBSET J /\ C(I, v) \cap C(J, v) = {}
        /\ C(I \cup J, v) = C(I, v) \cup C(J, v)
        /\ v \notin V(I) => C(I, v) = {}
        /\ v \notin V(J) => C(J, v) = {}
    OBVIOUS
  <2> HIDE DEF C, V
  <2>2. IsFiniteSet(C(I, v)) /\ IsFiniteSet(C(J, v))
    BY <2>1, FS_Subset
  <2>3. Cardinality(C(I, v)) \in Nat /\ Cardinality(C(J, v)) \in Nat
    BY <2>2, FS_CardinalityType
  <2>4. Cardinality(C(I, v) \cup C(J, v))
          = Cardinality(C(I, v)) + Cardinality(C(J, v)) - Cardinality(C(I, v) \cap C(J, v))
    BY <2>2, FS_Union
  <2>5. Cardinality(C(I, v) \cap C(J, v)) = 0
    BY <2>1, FS_EmptySet
  <2>6. Cardinality({}) = 0
    BY FS_EmptySet
  <2> QED BY <2>1, <2>3, <2>4, <2>5, <2>6
<1> HIDE DEF C, V
<1>6. a (+) b = [v \in V(I) \cup V(J) |-> (IF v \in V(I) THEN a[v] ELSE 0)
                                          + (IF v \in V(J) THEN b[v] ELSE 0)]
  BY <1>3 DEF (+)
<1>7. ASSUME NEW v \in V(I) \cup V(J)
      PROVE  (IF v \in V(I) THEN a[v] ELSE 0) + (IF v \in V(J) THEN b[v] ELSE 0)
               = Cardinality(C(I \cup J, v))
  <2>1. /\ v \in V(I) => a[v] = Cardinality(C(I, v))
        /\ v \in V(J) => b[v] = Cardinality(C(J, v))
    BY <1>3
  <2> PICK p, q : p = Cardinality(C(I, v)) /\ q = Cardinality(C(J, v))
    OBVIOUS
  <2>2. /\ p \in Nat /\ q \in Nat /\ Cardinality(C(I \cup J, v)) = p + q
        /\ v \notin V(I) => p = 0
        /\ v \notin V(J) => q = 0
    BY <1>5
  <2> QED BY <2>1, <2>2
<1> QED BY <1>1, <1>2, <1>3, <1>4, <1>6, <1>7

\* No position, no value.
LEMMA BagEmpty ==
  ASSUME NEW s
  PROVE  BagAt(s, {}) = EmptyBag
<1>1. {s[i] : i \in {}} = {}
  OBVIOUS
<1> QED BY <1>1 DEF BagAt, EmptyBag, SetToBag

\* A part of a sequence.
LEMMA PartFact ==
  ASSUME NEW T, NEW s \in Seq(T), NEW o \in Nat, NEW e \in Nat, o <= e, e <= Len(s)
  PROVE  /\ SubSeq(s, o + 1, e) \in Seq(T) /\ Len(SubSeq(s, o + 1, e)) = e - o
         /\ \A i \in 1 .. e - o : SubSeq(s, o + 1, e)[i] = s[o + i]
<1>1. \A i \in o + 1 .. e : s[i] \in T
  OBVIOUS
<1>2. o + 1 \in Int /\ e \in Int
  OBVIOUS
<1>3. PICK m \in Int : m = o + 1
  OBVIOUS
<1>4. /\ SubSeq(s, m, e) \in Seq(T) /\ Len(SubSeq(s, m, e)) = IF m <= e THEN e - m + 1 ELSE 0
      /\ \A i \in 1 .. e - m + 1 : SubSeq(s, m, e)[i] = s[m + i - 1]
  <2>1. \A i \in m .. e : s[i] \in T
    BY <1>1, <1>3
  <2> QED BY <2>1, SubSeqProperties
<1>5. /\ (IF m <= e THEN e - m + 1 ELSE 0) = e - o /\ e - m + 1 = e - o
      /\ \A i \in Int : m + i - 1 = o + i
  BY <1>3
<1> QED BY <1>3, <1>4, <1>5

\* Where the reader stands: off[k] rows lie before the k-th shard, and a
\* prefix run counts no row beyond the limit.
StandsAt(off, a, p, rd) ==
  LET n == Len(a.shards)
  IN  /\ IsFlat(off, a.shards, Rows(a))
      /\ rd \in [shard : 1 .. n + 1, offset : Nat, emitted : Nat]
      /\ rd.shard <= n => rd.offset <= Len(a.shards[rd.shard])
      /\ rd.shard = n + 1 => rd.offset = 0
      /\ IF p = "prefix" THEN rd.emitted = Least(RowLimit, off[rd.shard] + rd.offset)
                         ELSE rd.emitted = off[rd.shard] + rd.offset
ReaderFits(a, p, rd) == \E off : StandsAt(off, a, p, rd)

\* A reader at the start fits.
LEMMA ReaderStarts ==
  ASSUME NEW a, a.shards \in Seq(Seq(UnitRow)), NEW p
  PROVE  ReaderFits(a, p, AtStart)
<1>1. PICK off : IsFlat(off, a.shards, Rows(a))
  BY FlattenFact DEF Rows
<1>2. PICK n \in Nat : n = Len(a.shards)
  OBVIOUS
<1>3. off[1] = 0
  BY <1>1 DEF IsFlat, Blocks
<1>4. RowLimit \in Nat \ {0}
  BY InputsAssumption
<1>5. ASSUME 1 <= n PROVE Len(a.shards[1]) \in Nat
  BY <1>2, <1>5
<1>6. Least(RowLimit, 0) = 0
  BY <1>4 DEF Least
<1> QED BY <1>1, <1>2, <1>3, <1>5, <1>6 DEF ReaderFits, StandsAt, AtStart

\* What the reader has emitted is a prefix of the rows.
LEMMA ReaderWithin ==
  ASSUME NEW a, a.shards \in Seq(Seq(UnitRow)), NEW p, NEW rd, ReaderFits(a, p, rd)
  PROVE  /\ Rows(a) \in Seq(UnitRow) /\ rd.emitted \in 0 .. Len(Rows(a))
<1>1. PICK off : StandsAt(off, a, p, rd)
  BY DEF ReaderFits
<1>2. Rows(a) \in Seq(UnitRow)
  BY FlattenFact DEF Rows
<1>3. PICK n \in Nat : n = Len(a.shards)
  OBVIOUS
<1>4. PICK len : len = Lengths(a.shards)
  OBVIOUS
<1>5. /\ Blocks(off, len, n) /\ off[n + 1] = Len(Rows(a)) /\ rd.shard \in 1 .. n + 1
      /\ rd.offset \in Nat /\ rd.emitted \in Nat
      /\ rd.shard <= n => rd.offset <= Len(a.shards[rd.shard])
      /\ rd.shard = n + 1 => rd.offset = 0
      /\ rd.emitted = off[rd.shard] + rd.offset
           \/ rd.emitted = Least(RowLimit, off[rd.shard] + rd.offset)
  BY <1>1, <1>3, <1>4 DEF StandsAt, IsFlat
<1>6. PICK s : s = rd.shard
  OBVIOUS
<1>7. off[s] + rd.offset <= off[n + 1] /\ off[s] \in Nat /\ off[n + 1] \in Nat
  <2>1. off \in [1 .. n + 1 -> Nat]
    BY <1>5 DEF Blocks
  <2>2. CASE s = n + 1
    BY <1>5, <1>6, <2>1, <2>2
  <2>3. CASE s \in 1 .. n
    <3>1. off[s + 1] = off[s] + Len(a.shards[s])
      BY <1>3, <1>4, <1>5, <2>3 DEF Blocks, Lengths
    <3>2. off[s + 1] <= off[n + 1]
      <4>1. \A l \in 1 .. n : off[l + 1] <= off[n + 1]
        <5>1. n \in 0 .. n /\ Blocks(off, len, n)
          BY <1>5
        <5> QED BY <5>1, BlocksFact
      <4> QED BY <2>3, <4>1
    <3>3. Len(a.shards[s]) \in Nat /\ rd.offset <= Len(a.shards[s])
      BY <1>3, <1>5, <1>6, <2>3
    <3>4. s \in 1 .. n + 1 /\ n + 1 \in 1 .. n + 1
      BY <2>3
    <3>5. PICK x \in Nat : x = off[s]
      BY <2>1, <3>4
    <3>6. PICK z \in Nat : z = off[n + 1]
      BY <2>1, <3>4
    <3>7. PICK l \in Nat : l = Len(a.shards[s])
      BY <3>3
    <3>8. PICK o \in Nat : o = rd.offset
      BY <1>5
    <3>9. x + l <= z /\ o <= l
      BY <3>1, <3>2, <3>3, <3>5, <3>6, <3>7, <3>8
    <3>10. x + o <= z
      BY <3>9
    <3> QED BY <3>5, <3>6, <3>8, <3>10
  <2> QED BY <1>5, <1>6, <2>2, <2>3
<1>8. RowLimit \in Nat
  BY InputsAssumption
<1> QED BY <1>2, <1>5, <1>6, <1>7, <1>8 DEF Least

\* The next batch continues the prefix, and the reader fits after it.
LEMMA BatchFact ==
  ASSUME Artifact.shards \in Seq(Seq(UnitRow)), ReaderFits(Artifact, pass, reader), ~Drained
  PROVE  /\ NextRows \in Seq(UnitRow)
         /\ \A i \in 1 .. Len(NextRows) : NextRows[i] = Rows(Artifact)[reader.emitted + i]
         /\ Advanced.emitted = reader.emitted + Len(NextRows)
         /\ ReaderFits(Artifact, pass, Advanced)
<1>1. PICK off : StandsAt(off, Artifact, pass, reader)
  BY DEF ReaderFits
<1>2. PICK n \in Nat : n = Len(Artifact.shards)
  OBVIOUS
<1>3. PICK k \in 1 .. n : k = reader.shard
  BY <1>1, <1>2 DEF StandsAt, Drained
<1>4. PICK o \in Nat : o = reader.offset
  BY <1>1 DEF StandsAt
<1>5. PICK em \in Nat : em = reader.emitted
  BY <1>1 DEF StandsAt
<1>6. PICK shard \in Seq(UnitRow) : shard = Artifact.shards[k]
  BY <1>2
<1>7. PICK L \in Nat : L = Len(shard)
  BY LenProperties
<1>8. RowLimit \in Nat \ {0} /\ InputBatch \in Nat \ {0}
  BY InputsAssumption
<1>9. PICK x \in Nat : x = off[k]
  <2>1. off \in [1 .. n + 1 -> Nat] /\ k \in 1 .. n + 1
    BY <1>1, <1>2 DEF StandsAt, IsFlat, Blocks
  <2> QED BY <2>1
<1>10. off[k + 1] = x + L
  <2>1. off[k + 1] = off[k] + Lengths(Artifact.shards)[k]
    BY <1>1, <1>2 DEF StandsAt, IsFlat, Blocks
  <2>2. Lengths(Artifact.shards)[k] = L
    BY <1>2, <1>6, <1>7 DEF Lengths
  <2> QED BY <1>9, <2>1, <2>2
<1>11. o <= L /\ em = IF pass = "prefix" THEN Least(RowLimit, x + o) ELSE x + o
  <2>1. reader.shard <= n
    BY <1>3
  <2> QED BY <1>1, <1>2, <1>3, <1>4, <1>5, <1>6, <1>7, <1>9, <2>1 DEF StandsAt
<1>12. em = x + o /\ (pass = "prefix" => em < RowLimit)
  <2>1. pass = "prefix" => em < RowLimit
    BY <1>5, <1>8 DEF Drained
  <2> QED BY <1>8, <1>11, <2>1 DEF Least
<1>13. PICK e \in Nat : e = Least(o + InputBatch, L)
  BY <1>8 DEF Least
<1>14. o <= e /\ e <= L
  BY <1>8, <1>11, <1>13 DEF Least
<1>15. PICK batch \in Seq(UnitRow) : batch = SubSeq(shard, o + 1, e)
  BY <1>7, <1>14, PartFact
<1>16. Len(batch) = e - o /\ \A i \in 1 .. e - o : batch[i] = shard[o + i]
  BY <1>7, <1>14, <1>15, PartFact
<1>17. PICK m \in Nat : m = IF pass = "prefix" THEN Least(e - o, RowLimit - em) ELSE e - o
  <2>1. e - o \in Nat /\ (pass = "prefix" => RowLimit - em \in Nat)
    BY <1>8, <1>12, <1>14
  <2> QED BY <2>1 DEF Least
<1>18. m <= e - o /\ (pass = "prefix" => m <= RowLimit - em)
       /\ (m = e - o \/ (pass = "prefix" /\ m = RowLimit - em))
  BY <1>8, <1>12, <1>14, <1>17 DEF Least
<1>19. NextRows = IF pass = "prefix" THEN SubSeq(batch, 1, m) ELSE batch
  <2>1. Artifact.shards[reader.shard] = shard /\ reader.offset = o
    BY <1>3, <1>4, <1>6
  <2>2. NextRows = IF pass = "prefix"
                     THEN SubSeq(batch, 1, Least(Len(batch), RowLimit - reader.emitted)) ELSE batch
    BY <1>7, <1>13, <1>15, <2>1 DEF NextRows
  <2> QED BY <1>5, <1>16, <1>17, <2>2
<1>20. /\ NextRows \in Seq(UnitRow) /\ Len(NextRows) = m
       /\ \A i \in 1 .. m : NextRows[i] = shard[o + i]
  <2>1. CASE pass = "prefix"
    <3>1. m \in Nat /\ 0 <= m /\ m <= Len(batch) /\ 0 \in Nat
      BY <1>14, <1>16, <1>18
    <3>2. /\ SubSeq(batch, 0 + 1, m) \in Seq(UnitRow) /\ Len(SubSeq(batch, 0 + 1, m)) = m - 0
          /\ \A i \in 1 .. m - 0 : SubSeq(batch, 0 + 1, m)[i] = batch[0 + i]
      BY <3>1, PartFact
    <3>3. 0 + 1 = 1 /\ m - 0 = m /\ \A i \in 1 .. m : 0 + i = i /\ i \in 1 .. e - o
      BY <1>14, <1>18
    <3> QED BY <1>16, <1>19, <2>1, <3>2, <3>3
  <2>2. CASE pass # "prefix"
    BY <1>16, <1>17, <1>19, <2>2
  <2> QED BY <2>1, <2>2
<1>21. ASSUME NEW i \in 1 .. m PROVE NextRows[i] = Rows(Artifact)[em + i]
  <2>1. o + i \in 1 .. L /\ x + (o + i) = em + i
    BY <1>12, <1>14, <1>18
  <2>2. Rows(Artifact)[off[k] + (o + i)] = shard[o + i]
    BY <1>1, <1>2, <1>6, <1>7, <2>1 DEF StandsAt, IsFlat
  <2> QED BY <1>9, <1>20, <2>1, <2>2
<1>22. PICK rd : rd = Advanced
  OBVIOUS
<1>23. /\ rd \in [shard : 1 .. n + 1, offset : Nat, emitted : Nat] /\ rd.emitted = em + m
       /\ o + InputBatch >= L => rd.shard = k + 1 /\ rd.offset = 0
       /\ ~(o + InputBatch >= L) => rd.shard = k /\ rd.offset = o + InputBatch
  <2>1. PICK r : r = reader
    OBVIOUS
  <2>2. /\ r \in [shard : 1 .. n + 1, offset : Nat, emitted : Nat]
        /\ r.shard = k /\ r.offset = o /\ r.emitted = em
    BY <1>1, <1>2, <1>3, <1>4, <1>5, <2>1 DEF StandsAt
  <2>3. rd = IF r.offset + InputBatch >= L
               THEN [shard |-> r.shard + 1, offset |-> 0, emitted |-> r.emitted + m]
               ELSE [r EXCEPT !.offset = @ + InputBatch, !.emitted = @ + m]
    <3>1. PICK c : c = Len(NextRows)
      OBVIOUS
    <3>2. PICK d : d = Len(Artifact.shards[reader.shard])
      OBVIOUS
    <3>3. Advanced = IF r.offset + InputBatch >= d
               THEN [shard |-> r.shard + 1, offset |-> 0, emitted |-> r.emitted + c]
               ELSE [r EXCEPT !.offset = @ + InputBatch, !.emitted = @ + c]
      BY <2>1, <3>1, <3>2 DEF Advanced
    <3>4. c = m /\ d = L
      BY <1>3, <1>6, <1>7, <1>20, <3>1, <3>2
    <3> QED BY <1>22, <3>3, <3>4
  <2>4. PICK p \in Nat, q \in Nat : p = o + InputBatch /\ q = em + m
    BY <1>8
  <2>5. CASE o + InputBatch >= L
    <3>1. rd = [shard |-> r.shard + 1, offset |-> 0, emitted |-> q]
      BY <2>2, <2>3, <2>4, <2>5
    <3> QED BY <2>2, <2>4, <2>5, <3>1
  <2>6. CASE ~(o + InputBatch >= L)
    <3>1. rd = [r EXCEPT !.offset = p, !.emitted = q]
      BY <2>2, <2>3, <2>4, <2>6
    <3>2. rd \in [shard : 1 .. n + 1, offset : Nat, emitted : Nat]
          /\ rd.shard = r.shard /\ rd.offset = p /\ rd.emitted = q
      BY <2>2, <3>1
    <3> QED BY <2>2, <2>4, <2>6, <3>2
  <2> QED BY <2>5, <2>6
<1>24. rd.emitted = em + m
  BY <1>23
<1>25. StandsAt(off, Artifact, pass, rd)
  <2>1. IsFlat(off, Artifact.shards, Rows(Artifact))
    BY <1>1 DEF StandsAt
  <2>2. CASE o + InputBatch >= L
    <3>1. e = L
      BY <1>8, <1>11, <1>13, <2>2 DEF Least
    <3>2. em + m = IF pass = "prefix" THEN Least(RowLimit, (x + L) + 0) ELSE (x + L) + 0
      BY <1>8, <1>12, <1>14, <1>18, <3>1 DEF Least
    <3>3. rd.shard = k + 1 /\ rd.offset = 0 /\ rd.emitted = em + m
          /\ rd \in [shard : 1 .. n + 1, offset : Nat, emitted : Nat]
      BY <1>23, <2>2
    <3>4. k + 1 <= n => 0 <= Len(Artifact.shards[k + 1])
      BY <1>2
    <3>5. rd.shard = n + 1 => rd.offset = 0
      BY <3>3
    <3>6. rd.shard <= n => rd.offset <= Len(Artifact.shards[rd.shard])
      BY <3>3, <3>4
    <3>7. rd.emitted = IF pass = "prefix" THEN Least(RowLimit, off[rd.shard] + rd.offset)
                       ELSE off[rd.shard] + rd.offset
      BY <1>10, <3>2, <3>3
    <3> QED BY <1>2, <2>1, <3>3, <3>5, <3>6, <3>7 DEF StandsAt
  <2>3. CASE ~(o + InputBatch >= L)
    <3>1. e = o + InputBatch
      BY <1>8, <1>11, <1>13, <2>3 DEF Least
    <3>2. em + m = IF pass = "prefix" THEN Least(RowLimit, x + (o + InputBatch))
                   ELSE x + (o + InputBatch)
      BY <1>8, <1>12, <1>14, <1>18, <3>1 DEF Least
    <3>3. rd.shard = k /\ rd.offset = o + InputBatch /\ rd.emitted = em + m
          /\ rd \in [shard : 1 .. n + 1, offset : Nat, emitted : Nat]
      BY <1>8, <1>23, <2>3
    <3>4. o + InputBatch <= Len(Artifact.shards[k]) /\ k # n + 1
      BY <1>6, <1>7, <1>8, <2>3
    <3>5. rd.shard = n + 1 => rd.offset = 0
      BY <3>3, <3>4
    <3>6. rd.shard <= n => rd.offset <= Len(Artifact.shards[rd.shard])
      BY <3>3, <3>4
    <3>7. rd.emitted = IF pass = "prefix" THEN Least(RowLimit, off[rd.shard] + rd.offset)
                       ELSE off[rd.shard] + rd.offset
      BY <1>9, <3>2, <3>3
    <3> QED BY <1>2, <2>1, <3>3, <3>5, <3>6, <3>7 DEF StandsAt
  <2> QED BY <2>2, <2>3
<1> QED BY <1>5, <1>20, <1>21, <1>22, <1>24, <1>25 DEF ReaderFits

\* Units with different ids, and their order by priority.
Distinct(P) ==
  /\ P \subseteq UnitRow /\ IsFiniteSet(P)
  /\ \A u, v \in P : u.id = v.id => u = v
SoonerIn == {p \in UnitRow \X UnitRow : Sooner(p[1], p[2])}

\* The priority is a strict total order on such units.
LEMMA SoonerFact ==
  ASSUME NEW P, Distinct(P)
  PROVE  /\ \A u \in P : ~Sooner(u, u)
         /\ \A u, v \in P : u = v \/ Sooner(u, v) \/ Sooner(v, u)
         /\ \A u, v \in P : Sooner(u, v) => ~Sooner(v, u)
         /\ \A u, v, w \in P : Sooner(u, v) /\ Sooner(v, w) => Sooner(u, w)
<1>1. \A u \in P : u.id \in DOMAIN Priority /\ Priority[u.id] \in Nat
  BY InputsAssumption DEF Distinct, UnitRow
<1>2. \A u, v \in P : Priority[u.id] = Priority[v.id] => u = v
  BY <1>1, InputsAssumption DEF Distinct
<1> QED BY <1>1, <1>2 DEF Sooner

\* So it orders them.
LEMMA SoonerOrders ==
  ASSUME NEW P, Distinct(P)
  PROVE  /\ Orders(SoonerIn, P)
         /\ \A u, v \in P : <<u, v>> \in SoonerIn <=> Sooner(u, v)
<1>1. \A u, v \in P : <<u, v>> \in SoonerIn <=> Sooner(u, v)
  BY DEF SoonerIn, Distinct
<1> QED BY <1>1, SoonerFact DEF Orders

\* Parts of distinct units are distinct.
LEMMA DistinctPart ==
  ASSUME NEW P, Distinct(P), NEW Q \in SUBSET P
  PROVE  Distinct(Q)
BY FS_Subset DEF Distinct

\* Every other unit of a nonempty set is sooner than its latest.
LEMMA LatestFact ==
  ASSUME NEW P, Distinct(P), P # {}
  PROVE  Latest(P) \in P /\ \A v \in P : v = Latest(P) \/ Sooner(v, Latest(P))
<1>1. PICK n \in Nat : n = Cardinality(P)
  BY FS_CardinalityType DEF Distinct
<1>2. n # 0 /\ IsFiniteSet(P)
  BY <1>1, FS_EmptySet DEF Distinct
<1>3. Orders(SoonerIn, P) /\ \A u, v \in P : <<u, v>> \in SoonerIn <=> Sooner(u, v)
  BY SoonerOrders
<1>4. /\ \A x \in P : Rank(SoonerIn, P, x) \in 0 .. n - 1
      /\ \A x, y \in P : <<x, y>> \in SoonerIn <=> Rank(SoonerIn, P, x) < Rank(SoonerIn, P, y)
      /\ \A i \in 1 .. n : \E x \in P : Rank(SoonerIn, P, x) = i - 1
  BY <1>1, <1>2, <1>3, RankFact
<1>5. PICK x \in P : Rank(SoonerIn, P, x) = n - 1
  BY <1>2, <1>4
<1>6. \A v \in P : x = v \/ Sooner(v, x)
  <2> SUFFICES ASSUME NEW v \in P, x # v PROVE Sooner(v, x)
    OBVIOUS
  <2>1. ~(<<x, v>> \in SoonerIn)
    BY <1>4, <1>5
  <2> QED BY <1>3, <2>1 DEF Orders
<1> QED BY <1>6 DEF Latest

\* The heap holds the RowLimit soonest of the units met so far.
HeapFits(heap, P) ==
  /\ heap \subseteq P /\ Cardinality(heap) <= RowLimit
  /\ heap # P => /\ Cardinality(heap) = RowLimit
                 /\ \A w \in heap, v \in P \ heap : Sooner(w, v)

\* Keep lets in one more unit.
LEMMA KeepFact ==
  ASSUME NEW P, NEW u, u \notin P, Distinct(P \cup {u}), NEW heap, HeapFits(heap, P)
  PROVE  HeapFits(Keep(heap, u), P \cup {u})
<1>1. RowLimit \in Nat \ {0}
  BY InputsAssumption
<1>2. heap \subseteq P \cup {u} /\ u \notin heap /\ Distinct(heap)
  BY DistinctPart DEF HeapFits
<1>3. IsFiniteSet(heap) /\ Cardinality(heap) \in Nat /\ Cardinality(heap) <= RowLimit
  BY <1>2, FS_CardinalityType DEF HeapFits, Distinct
<1>4. IsFiniteSet(heap \cup {u}) /\ Cardinality(heap \cup {u}) = Cardinality(heap) + 1
  BY <1>2, <1>3, FS_AddElement
<1>5. /\ \A v, w \in P \cup {u} : v = w \/ Sooner(v, w) \/ Sooner(w, v)
      /\ \A v, w \in P \cup {u} : Sooner(v, w) => ~Sooner(w, v)
      /\ \A v, w, x \in P \cup {u} : Sooner(v, w) /\ Sooner(w, x) => Sooner(v, x)
  BY SoonerFact
<1>6. CASE Cardinality(heap) < RowLimit
  <2>1. heap = P /\ Keep(heap, u) = P \cup {u}
    BY <1>1, <1>3, <1>6 DEF HeapFits, Keep
  <2> QED BY <1>1, <1>3, <1>4, <1>6, <2>1 DEF HeapFits
<1>7. CASE ~(Cardinality(heap) < RowLimit)
  <2>1. Cardinality(heap) = RowLimit /\ heap # {}
    BY <1>1, <1>3, <1>7, FS_EmptySet
  <2>2. PICK last \in heap : last = Latest(heap) /\ \A v \in heap : v = last \/ Sooner(v, last)
    BY <1>2, <2>1, LatestFact
  <2>3. CASE Sooner(u, last)
    <3>1. Keep(heap, u) = (heap \ {last}) \cup {u}
      BY <1>7, <2>2, <2>3 DEF Keep
    <3>2. IsFiniteSet(heap \ {last}) /\ Cardinality(heap \ {last}) = RowLimit - 1
      BY <1>3, <2>1, <2>2, FS_RemoveElement
    <3>3. Cardinality((heap \ {last}) \cup {u}) = RowLimit
      BY <1>1, <1>2, <3>2, FS_AddElement
    <3>4. ASSUME NEW w \in (heap \ {last}) \cup {u},
                 NEW v \in (P \cup {u}) \ ((heap \ {last}) \cup {u})
          PROVE  Sooner(w, v)
      <4>1. w \in P \cup {u} /\ last \in P \cup {u} /\ v \in P \cup {u}
        BY <1>2
      <4>2. w = u \/ Sooner(w, last)
        BY <2>2
      <4>3. Sooner(w, last)
        BY <2>3, <4>2
      <4>4. v = last \/ Sooner(last, v)
        BY DEF HeapFits
      <4> QED BY <1>5, <4>1, <4>3, <4>4
    <3>5. (heap \ {last}) \cup {u} \subseteq P \cup {u}
      BY <1>2
    <3> QED BY <1>1, <3>1, <3>3, <3>4, <3>5 DEF HeapFits
  <2>4. CASE ~Sooner(u, last)
    <3>1. Keep(heap, u) = heap
      BY <1>7, <2>2, <2>4 DEF Keep
    <3>2. last \in P \cup {u} /\ last # u
      BY <1>2
    <3>3. Sooner(last, u)
      BY <1>5, <2>4, <3>2
    <3>4. ASSUME NEW w \in heap, NEW v \in (P \cup {u}) \ heap PROVE Sooner(w, v)
      <4>1. CASE v = u
        <5>1. w = last \/ Sooner(w, last)
          BY <2>2
        <5>2. w \in P \cup {u} /\ u \in P \cup {u}
          BY <1>2
        <5> QED BY <1>5, <3>2, <3>3, <4>1, <5>1, <5>2
      <4>2. CASE v # u
        BY <4>2 DEF HeapFits
      <4> QED BY <4>1, <4>2
    <3> QED BY <1>1, <1>2, <2>1, <3>1, <3>4 DEF HeapFits
  <2> QED BY <2>3, <2>4
<1> QED BY <1>6, <1>7

\* best has one unit of every kind met so far, the soonest.
BestFits(best, P, kind) ==
  /\ best \subseteq P
  /\ \A v, w \in best : kind[v] = kind[w] => v = w
  /\ \A w \in P : \E v \in best : kind[v] = kind[w] /\ (v = w \/ Sooner(v, w))

\* Improve lets in one more unit.
LEMMA ImproveFact ==
  ASSUME NEW P, NEW u, u \notin P, Distinct(P \cup {u}), NEW best, NEW kind,
         BestFits(best, P, kind), NEW rivals, rivals = {v \in best : kind[v] = kind[u]}
  PROVE  BestFits(Improve(best, u, rivals), P \cup {u}, kind)
<1>1. /\ \A v, w \in P \cup {u} : v = w \/ Sooner(v, w) \/ Sooner(w, v)
      /\ \A v, w, x \in P \cup {u} : Sooner(v, w) /\ Sooner(w, x) => Sooner(v, x)
  BY SoonerFact
<1>2. CASE \E v \in rivals : ~Sooner(u, v)
  <2>1. Improve(best, u, rivals) = best
    BY <1>2 DEF Improve
  <2>2. PICK v \in best : kind[v] = kind[u] /\ ~Sooner(u, v)
    BY <1>2
  <2>3. Sooner(v, u)
    BY <1>1, <2>2 DEF BestFits
  <2>4. \A w \in P \cup {u} : \E x \in best : kind[x] = kind[w] /\ (x = w \/ Sooner(x, w))
    <3>1. \A w \in P : \E x \in best : kind[x] = kind[w] /\ (x = w \/ Sooner(x, w))
      BY DEF BestFits
    <3> QED BY <2>2, <2>3, <3>1
  <2>5. best \subseteq P \cup {u} /\ \A x, w \in best : kind[x] = kind[w] => x = w
    BY DEF BestFits
  <2> QED BY <2>1, <2>4, <2>5 DEF BestFits
<1>3. CASE ~ \E v \in rivals : ~Sooner(u, v)
  <2>1. PICK new : new = (best \ rivals) \cup {u}
    OBVIOUS
  <2>2. Improve(best, u, rivals) = new
    BY <1>3, <2>1 DEF Improve
  <2>3. new \subseteq P \cup {u} /\ \A v, w \in new : kind[v] = kind[w] => v = w
    BY <2>1 DEF BestFits
  <2>4. ASSUME NEW w \in P \cup {u}
        PROVE  \E v \in new : kind[v] = kind[w] /\ (v = w \/ Sooner(v, w))
    <3>1. CASE w = u
      BY <2>1, <3>1
    <3>2. CASE w \in P
      <4>1. PICK v \in best : kind[v] = kind[w] /\ (v = w \/ Sooner(v, w))
        BY <3>2 DEF BestFits
      <4>2. CASE v \in rivals
        <5>1. Sooner(u, v) /\ kind[v] = kind[u] /\ v \in P
          BY <1>3, <4>2 DEF BestFits
        <5>2. Sooner(u, w)
          BY <1>1, <3>2, <4>1, <5>1
        <5> QED BY <2>1, <4>1, <5>1, <5>2
      <4>3. CASE v \notin rivals
        BY <2>1, <4>1, <4>3
      <4> QED BY <4>2, <4>3
    <3> QED BY <3>1, <3>2
  <2> QED BY <2>2, <2>3, <2>4 DEF BestFits
<1> QED BY <1>2, <1>3

\* The best of a kind leads it.
LEMMA BestLeads ==
  ASSUME NEW P, Distinct(P), NEW best, NEW kind, BestFits(best, P, kind)
  PROVE  best = {u \in P : \A v \in P : kind[v] = kind[u] => u = v \/ Sooner(u, v)}
<1>1. \A u, v \in P : Sooner(u, v) => ~Sooner(v, u)
  BY SoonerFact
<1>2. ASSUME NEW u \in best, NEW v \in P, kind[v] = kind[u] PROVE u = v \/ Sooner(u, v)
  BY <1>2 DEF BestFits
<1>3. ASSUME NEW u \in P, \A v \in P : kind[v] = kind[u] => u = v \/ Sooner(u, v)
      PROVE  u \in best
  <2>1. PICK v \in best : kind[v] = kind[u] /\ (v = u \/ Sooner(v, u))
    BY DEF BestFits
  <2>2. v \in P
    BY DEF BestFits
  <2> QED BY <1>1, <1>3, <2>1, <2>2
<1> QED BY <1>2, <1>3 DEF BestFits

\* What a sampler holds when it has met the units P.
Samplers == [heap : SUBSET UnitRow, stratum : SUBSET UnitRow, relation : SUBSET UnitRow]
StratumOf(act) == [u \in UnitRow |-> Stratum(act, u)]
RelationOf == [u \in UnitRow |-> u.rel]
SamplerFits(s, P, act, m) ==
  /\ s \in Samplers /\ HeapFits(s.heap, P) /\ BestFits(s.stratum, P, StratumOf(act))
  /\ m = "event_text" => BestFits(s.relation, P, RelationOf)

\* Add makes a sampler of a sampler.
LEMMA AddType ==
  ASSUME NEW s \in Samplers, NEW u \in UnitRow
  PROVE  Add(s, u) \in Samplers
<1>1. s.heap \subseteq UnitRow /\ s.stratum \subseteq UnitRow /\ s.relation \subseteq UnitRow
  BY DEF Samplers
<1>2. Keep(s.heap, u) \subseteq UnitRow
  BY <1>1 DEF Keep
<1>3. \A best \in SUBSET UnitRow : \A R : Improve(best, u, R) \subseteq UnitRow
  BY DEF Improve
<1> QED BY <1>1, <1>2, <1>3 DEF Add, Samplers

\* Add lets in one more unit.
LEMMA AddFact ==
  ASSUME NEW P, NEW u, u \notin P, Distinct(P \cup {u}),
         NEW s, SamplerFits(s, P, activity, modality)
  PROVE  SamplerFits(Add(s, u), P \cup {u}, activity, modality)
<1>1. u \in UnitRow /\ P \subseteq UnitRow
  BY DEF Distinct
<1>2. PICK t \in Samplers : t = Add(s, u)
  BY <1>1, AddType DEF SamplerFits
<1>3. /\ t.heap = Keep(s.heap, u)
      /\ t.stratum = Improve(s.stratum, u, {v \in s.stratum :
                                              Stratum(activity, v) = Stratum(activity, u)})
      /\ modality = "event_text" =>
           t.relation = Improve(s.relation, u, {v \in s.relation : v.rel = u.rel})
  BY <1>2 DEF Add
<1>4. HeapFits(t.heap, P \cup {u})
  BY <1>3, KeepFact DEF SamplerFits
<1>5. BestFits(t.stratum, P \cup {u}, StratumOf(activity))
  <2>1. PICK kind : kind = StratumOf(activity)
    OBVIOUS
  <2>2. PICK R : R = {v \in s.stratum : kind[v] = kind[u]}
    OBVIOUS
  <2>3. R = {v \in s.stratum : Stratum(activity, v) = Stratum(activity, u)}
    <3>1. \A v \in UnitRow : kind[v] = Stratum(activity, v)
      BY <2>1 DEF StratumOf
    <3>2. s.stratum \subseteq UnitRow
      BY DEF SamplerFits, Samplers
    <3> QED BY <1>1, <2>2, <3>1, <3>2
  <2>4. BestFits(s.stratum, P, kind)
    BY <2>1 DEF SamplerFits
  <2>5. BestFits(Improve(s.stratum, u, R), P \cup {u}, kind)
    BY <2>2, <2>4, ImproveFact
  <2> QED BY <1>3, <2>1, <2>3, <2>5
<1>6. ASSUME modality = "event_text" PROVE BestFits(t.relation, P \cup {u}, RelationOf)
  <2>1. PICK kind : kind = RelationOf
    OBVIOUS
  <2>2. PICK R : R = {v \in s.relation : kind[v] = kind[u]}
    OBVIOUS
  <2>3. R = {v \in s.relation : v.rel = u.rel}
    <3>1. \A v \in UnitRow : kind[v] = v.rel
      BY <2>1 DEF RelationOf
    <3>2. s.relation \subseteq UnitRow
      BY DEF SamplerFits, Samplers
    <3> QED BY <1>1, <2>2, <3>1, <3>2
  <2>4. BestFits(s.relation, P, kind)
    BY <1>6, <2>1 DEF SamplerFits
  <2>5. BestFits(Improve(s.relation, u, R), P \cup {u}, kind)
    BY <2>2, <2>4, ImproveFact
  <2> QED BY <1>3, <1>6, <2>1, <2>3, <2>5
<1> QED BY <1>2, <1>4, <1>5, <1>6 DEF SamplerFits

\* The units of a batch are added one after the other.
LEMMA AddRun ==
  ASSUME NEW units \in Seq(UnitRow), NEW s \in Samplers
  PROVE  \E r \in [0 .. Len(units) -> Samplers] :
           /\ r[0] = s /\ FoldLeft(Add, s, units) = r[Len(units)]
           /\ \A k \in 1 .. Len(units) : r[k] = Add(r[k - 1], units[k])
<1> DEFINE n == Len(units)
           A == Samplers
           step == [i \in 1 .. n |-> [t \in A |-> Add(t, units[i])]]
           Solves(h) == h = [S \in SUBSET (1 .. n) |->
                               IF S = {} THEN s
                               ELSE Add(h[S \ {Max(S)}], units[Max(S)])]
           fold == CHOOSE h : Solves(h)
<1>1. n \in Nat /\ DOMAIN units = 1 .. n /\ \A i \in 1 .. n : units[i] \in UnitRow
  OBVIOUS
<1>2. FoldLeft(Add, s, units) = fold[1 .. n]
  BY <1>1 DEF FoldLeft, MapThenFoldSet
<1>3. s \in A /\ step \in Steps(n, A)
  <2>1. \A i \in 1 .. n, t \in A : Add(t, units[i]) \in A
    BY <1>1, AddType
  <2> QED BY <2>1 DEF Steps
<1>4. \A S \in SUBSET (1 .. n) : S # {} => Max(S) \in 1 .. n
  <2> SUFFICES ASSUME NEW S \in SUBSET (1 .. n), S # {} PROVE Max(S) \in 1 .. n
    OBVIOUS
  <2>1. S \in SUBSET (0 .. n)
    BY <1>1
  <2> QED BY <1>1, <2>1, MaxFact
<1>5. Solves(fold)
  <2>1. PICK h : IsFold(h, n, A, s, step)
    <3> HIDE DEF n, A, step, Solves, fold
    <3> QED BY <1>1, <1>3, FoldExists
  <2>2. Solves(h)
    <3>1. ASSUME NEW S \in SUBSET (1 .. n), S # {}
          PROVE  step[Max(S)][h[S \ {Max(S)}]] = Add(h[S \ {Max(S)}], units[Max(S)])
      <4>1. h[S \ {Max(S)}] \in A
        BY <2>1 DEF IsFold
      <4> QED BY <1>4, <3>1, <4>1
    <3> HIDE DEF step, A, n
    <3> QED BY <2>1, <3>1 DEF IsFold
  <2> HIDE DEF Solves
  <2> QED BY <2>2
<1> HIDE DEF fold
<1>6. Folds(fold, n, A, s, step)
  BY <1>4, <1>5 DEF Folds
<1>7. PICK r : IsRun(r, n, A, s, step) /\ fold[1 .. n] = r[n]
  <2> HIDE DEF n, A, step, Solves
  <2> QED BY <1>1, <1>3, <1>6, FoldRun
<1>8. \A k \in 1 .. n : r[k] = Add(r[k - 1], units[k])
  <2>1. \A k \in 1 .. n : k - 1 \in 0 .. n /\ r[k - 1] \in A
    <3> HIDE DEF n, A, step, Solves
    <3> QED BY <1>1, <1>7 DEF IsRun
  <2> QED BY <1>7, <2>1 DEF IsRun
<1> HIDE DEF A
<1> QED BY <1>2, <1>7, <1>8 DEF A, IsRun

\* The sampler holds what it should after a batch of new units.
LEMMA AddBatch ==
  ASSUME NEW P, NEW units \in Seq(UnitRow), NEW s, SamplerFits(s, P, activity, modality),
         Distinct(P \cup {units[k] : k \in 1 .. Len(units)}),
         \A k \in 1 .. Len(units) : units[k] \notin P,
         \A j, k \in 1 .. Len(units) : units[j] = units[k] => j = k
  PROVE  SamplerFits(FoldLeft(Add, s, units), P \cup {units[k] : k \in 1 .. Len(units)},
                     activity, modality)
<1>1. PICK n \in Nat : n = Len(units)
  OBVIOUS
<1>2. PICK r \in [0 .. n -> Samplers] :
        /\ r[0] = s /\ FoldLeft(Add, s, units) = r[n]
        /\ \A k \in 1 .. n : r[k] = Add(r[k - 1], units[k])
  <2>1. s \in Samplers
    BY DEF SamplerFits
  <2>2. \E r \in [0 .. Len(units) -> Samplers] :
          /\ r[0] = s /\ FoldLeft(Add, s, units) = r[Len(units)]
          /\ \A k \in 1 .. Len(units) : r[k] = Add(r[k - 1], units[k])
    BY <2>1, AddRun
  <2> QED BY <1>1, <2>2
<1> DEFINE Q(k) == P \cup {units[i] : i \in 1 .. k}
           K == {k \in Nat : k <= n => SamplerFits(r[k], Q(k), activity, modality)}
<1>3. 0 \in K
  <2>1. Q(0) = P
    OBVIOUS
  <2> HIDE DEF Q
  <2> QED BY <1>2, <2>1
<1>4. ASSUME NEW k \in Nat, k \in K PROVE k + 1 \in K
  <2> SUFFICES ASSUME k + 1 <= n PROVE SamplerFits(r[k + 1], Q(k + 1), activity, modality)
    <3> HIDE DEF Q
    <3> QED OBVIOUS
  <2>1. k + 1 \in 1 .. n /\ (k + 1) - 1 = k /\ k <= n
    OBVIOUS
  <2>2. SamplerFits(r[k], Q(k), activity, modality)
    <3> HIDE DEF Q
    <3> QED BY <1>4, <2>1
  <2> HIDE DEF K
  <2>3. PICK u : u = units[k + 1]
    OBVIOUS
  <2>4. r[k + 1] = Add(r[k], u)
    BY <1>2, <2>1, <2>3
  <2>5. Q(k + 1) = Q(k) \cup {u}
    <3>1. \A i \in 1 .. (k + 1) : i = k + 1 \/ i \in 1 .. k
      OBVIOUS
    <3>2. 1 .. k \subseteq 1 .. (k + 1) /\ k + 1 \in 1 .. (k + 1)
      OBVIOUS
    <3> QED BY <2>3, <3>1, <3>2
  <2>6. u \notin Q(k)
    <3>1. u \notin P
      BY <1>1, <2>1, <2>3
    <3>2. \A i \in 1 .. k : i \in 1 .. n /\ i # k + 1
      BY <2>1
    <3> QED BY <1>1, <2>1, <2>3, <3>1, <3>2
  <2>7. Distinct(Q(k) \cup {u})
    <3>1. Q(k) \cup {u} \in SUBSET (P \cup {units[i] : i \in 1 .. n})
      <4>1. \A i \in 1 .. k : i \in 1 .. n
        BY <2>1
      <4> QED BY <2>1, <2>3, <4>1
    <3> HIDE DEF Q
    <3> QED BY <1>1, <3>1, DistinctPart
  <2> HIDE DEF Q
  <2> QED BY <2>2, <2>4, <2>5, <2>6, <2>7, AddFact
<1>5. SamplerFits(r[n], Q(n), activity, modality)
  <2>1. n \in K
    <3> HIDE DEF K
    <3> QED BY <1>3, <1>4, NaturalInduction
  <2> HIDE DEF Q
  <2> QED BY <2>1
<1> QED BY <1>1, <1>2, <1>5

\* What an opened artifact is known to be.
Sound(a, m) ==
  /\ a.shards \in Seq(Seq(UnitRow)) /\ IsFiniteSet(a.duplicates)
  /\ m = "node_text" => ReportHolds(a)
  /\ \A i, j \in 1 .. Len(Rows(a)) : i # j =>
       IF m = "event_text" THEN Rows(a)[i].id # Rows(a)[j].id
       ELSE /\ Rows(a)[i].loc # Rows(a)[j].loc
            /\ Rows(a)[i].id = Rows(a)[j].id => Duplicated(a, Rows(a)[i])

\* The eligible rows among the first e, and their units.
First(a, m, e) == {i \in 1 .. Len(Rows(a)) : i <= e /\ Eligible(a, m, Rows(a)[i])}
Met(a, m, e) == {Rows(a)[i] : i \in First(a, m, e)}

\* An artifact that a run opens is sound.
LEMMA OpenedSound ==
  ASSUME NEW s \in Sources, NEW m \in Modalities, IdentityHolds(s[m]),
         m = "node_text" => ReportHolds(s[m])
  PROVE  Sound(s[m], m)
<1>1. s[m].shards \in Seq(Seq(UnitRow)) /\ IsFiniteSet(s[m].duplicates)
  BY SourcesAssumption
<1>2. Rows(s[m]) \in Seq(UnitRow)
  BY <1>1, FlattenFact DEF Rows
<1>3. DOMAIN Rows(s[m]) = 1 .. Len(Rows(s[m]))
  BY <1>2, LenProperties
<1>4. \A i, j \in DOMAIN Rows(s[m]) : i # j =>
        IF m = "event_text" THEN Rows(s[m])[i].id # Rows(s[m])[j].id
        ELSE /\ Rows(s[m])[i].loc # Rows(s[m])[j].loc
             /\ Rows(s[m])[i].id = Rows(s[m])[j].id => Duplicated(s[m], Rows(s[m])[i])
  BY SourcesAssumption
<1> QED BY <1>1, <1>3, <1>4 DEF Sound

\* An eligible unit comes once: the rows of one tweet are duplicates, of
\* which one is canonical.
LEMMA EligibleOnce ==
  ASSUME NEW m \in Modalities, NEW a, Sound(a, m),
         NEW i \in 1 .. Len(Rows(a)), NEW j \in 1 .. Len(Rows(a)),
         Eligible(a, m, Rows(a)[i]), Eligible(a, m, Rows(a)[j]), Rows(a)[i].id = Rows(a)[j].id
  PROVE  i = j
<1> SUFFICES ASSUME i # j PROVE FALSE
  OBVIOUS
<1>1. m = "node_text" /\ Rows(a)[i].loc # Rows(a)[j].loc
      /\ Duplicated(a, Rows(a)[i]) /\ Duplicated(a, Rows(a)[j])
  BY DEF Sound, Modalities
<1>2. Rows(a)[i].loc \in CanonicalOf(a, Rows(a)[i]) /\ Rows(a)[j].loc \in CanonicalOf(a, Rows(a)[j])
  BY <1>1 DEF Eligible, IsCanonical
<1>3. PICK g \in a.duplicates : g.id = Rows(a)[i].id /\ g.canonical = Rows(a)[i].loc
  BY <1>2 DEF CanonicalOf
<1>4. PICK h \in a.duplicates : h.id = Rows(a)[j].id /\ h.canonical = Rows(a)[j].loc
  BY <1>2 DEF CanonicalOf
<1>5. g = h
  BY <1>1, <1>3, <1>4 DEF Sound, ReportHolds
<1> QED BY <1>1, <1>3, <1>4, <1>5

\* So the units met are distinct, as many as the eligible rows.
LEMMA MetFact ==
  ASSUME NEW m \in Modalities, NEW a, Sound(a, m), NEW e
  PROVE  /\ Distinct(Met(a, m, e)) /\ IsFiniteSet(First(a, m, e))
         /\ Cardinality(Met(a, m, e)) = Cardinality(First(a, m, e))
         /\ Cardinality(First(a, m, e)) \in Nat
<1>1. PICK R \in Seq(UnitRow) : R = Rows(a)
  BY FlattenFact DEF Rows, Sound
<1>2. PICK F \in SUBSET (1 .. Len(R)) : F = First(a, m, e)
  BY <1>1 DEF First
<1>3. IsFiniteSet(F) /\ Cardinality(F) \in Nat
  <2>1. IsFiniteSet(1 .. Len(R))
    BY FS_Interval
  <2> QED BY <2>1, FS_Subset, FS_CardinalityType
<1>4. \A i, j \in F : R[i].id = R[j].id => i = j
  BY <1>1, <1>2, EligibleOnce DEF First
<1>5. PICK f : f = [i \in F |-> R[i]]
  OBVIOUS
<1>6. PICK M : M = {R[i] : i \in F}
  OBVIOUS
<1>7. f \in Surjection(F, M) /\ f \in Injection(F, M)
  BY <1>4, <1>5, <1>6 DEF Surjection, Injection, IsInjective
<1>8. IsFiniteSet(M) /\ Cardinality(M) = Cardinality(F)
  BY <1>3, <1>7, FS_Surjection
<1>9. Distinct(M)
  BY <1>4, <1>6, <1>8 DEF Distinct
<1>10. M = Met(a, m, e)
  BY <1>1, <1>2, <1>6 DEF Met
<1> QED BY <1>2, <1>3, <1>8, <1>9, <1>10

\* The units of a batch are the units of the rows it emits, each once.
NewAt(a, m, e, f) == {i \in First(a, m, f) : i > e}
\* A batch gives the units that its rows add to those already emitted.
LEMMA BatchUnits ==
  ASSUME Sound(Artifact, modality), ReaderFits(Artifact, pass, reader), ~Drained
  PROVE  \E pos : Picks(pos, EligibleRows(NextRows), Rows(Artifact),
                        NewAt(Artifact, modality, reader.emitted, Advanced.emitted))
<1>1. PICK R \in Seq(UnitRow) : R = Rows(Artifact)
  BY FlattenFact DEF Rows, Sound
<1>2. PICK rows \in Seq(UnitRow) : rows = NextRows
  BY BatchFact DEF Sound
<1>3. PICK n \in Nat : n = Len(rows)
  OBVIOUS
<1>4. PICK e \in Nat : e = reader.emitted
  BY DEF ReaderFits, StandsAt
<1>5. /\ \A i \in 1 .. n : rows[i] = R[e + i]
      /\ Advanced.emitted = e + n
      /\ e + n <= Len(R)
  <2>1. ReaderFits(Artifact, pass, Advanced) /\ Artifact.shards \in Seq(Seq(UnitRow))
    BY BatchFact DEF Sound
  <2>2. Advanced.emitted \in 0 .. Len(Rows(Artifact))
    BY <2>1, ReaderWithin
  <2>3. Advanced.emitted = e + n /\ \A i \in 1 .. n : rows[i] = R[e + i]
    BY <1>1, <1>2, <1>3, <1>4, BatchFact DEF Sound
  <2> QED BY <1>1, <2>2, <2>3
<1>6. PICK pos : Picks(pos, EligibleRows(rows), rows, EligibleAt(rows))
  BY EligiblePicks
<1>7. PICK I : I = NewAt(Artifact, modality, e, e + n)
  OBVIOUS
<1>8. PICK J \in SUBSET (1 .. n) : J = EligibleAt(rows)
  BY <1>3 DEF EligibleAt
<1>9. /\ \A j \in J : e + j \in I
      /\ \A i \in I : i - e \in J /\ i \in Nat
  <2>1. ASSUME NEW j \in J PROVE e + j \in I
    <3>1. e + j \in 1 .. Len(R) /\ e + j <= e + n /\ e + j > e
      BY <1>5
    <3>2. Eligible(Artifact, modality, R[e + j])
      BY <1>5, <1>8 DEF EligibleAt
    <3> QED BY <1>1, <1>7, <3>1, <3>2 DEF NewAt, First
  <2>2. ASSUME NEW i \in I PROVE i - e \in J /\ i \in Nat
    <3>1. i \in 1 .. Len(R) /\ i > e /\ i <= e + n /\ Eligible(Artifact, modality, R[i])
      BY <1>1, <1>7 DEF NewAt, First
    <3>2. i - e \in 1 .. n /\ e + (i - e) = i
      BY <3>1
    <3>3. rows[i - e] = R[i]
      BY <1>5, <3>2
    <3> QED BY <1>3, <1>8, <3>1, <3>2, <3>3 DEF EligibleAt
  <2> QED BY <2>1, <2>2
<1>10. PICK units \in Seq(UnitRow) : units = EligibleRows(rows)
  BY <1>6 DEF Picks
<1>11. PICK c \in Nat : c = Len(units)
  OBVIOUS
<1>12. /\ pos \in [1 .. c -> J]
       /\ \A j, k \in 1 .. c : pos[j] = pos[k] => j = k
       /\ \A i \in J : \E k \in 1 .. c : pos[k] = i
       /\ \A k \in 1 .. c : units[k] = rows[pos[k]]
  BY <1>6, <1>8, <1>10, <1>11 DEF Picks
<1>13. PICK p : p = [k \in 1 .. c |-> e + pos[k]]
  OBVIOUS
<1>14. p \in [1 .. c -> I]
  BY <1>9, <1>12, <1>13
<1>15. \A k \in 1 .. c : pos[k] \in 1 .. n /\ p[k] = e + pos[k]
  BY <1>12, <1>13
<1>16. \A j, k \in 1 .. c : p[j] = p[k] => j = k
  BY <1>12, <1>15
<1>17. \A i \in I : \E k \in 1 .. c : p[k] = i
  <2> SUFFICES ASSUME NEW i \in I PROVE \E k \in 1 .. c : p[k] = i
    OBVIOUS
  <2>1. i - e \in J /\ i \in Nat
    BY <1>9
  <2>2. PICK k \in 1 .. c : pos[k] = i - e
    BY <1>12, <2>1
  <2>3. p[k] = e + (i - e)
    BY <1>15, <2>2
  <2> QED BY <2>1, <2>3
<1>18. \A k \in 1 .. c : units[k] = R[p[k]]
  <2> SUFFICES ASSUME NEW k \in 1 .. c PROVE units[k] = R[p[k]]
    OBVIOUS
  <2>1. PICK j \in 1 .. n : j = pos[k]
    BY <1>15
  <2>2. units[k] = rows[j] /\ p[k] = e + j /\ rows[j] = R[e + j]
    BY <1>5, <1>12, <1>15, <2>1
  <2> QED BY <2>2
<1>19. Picks(p, units, R, I)
  BY <1>11, <1>14, <1>16, <1>17, <1>18 DEF Picks
<1> QED BY <1>1, <1>2, <1>4, <1>5, <1>7, <1>10, <1>19

\* A batch in figures: how many units, which units, and that all are new.
LEMMA BatchAdds ==
  ASSUME modality \in Modalities, Sound(Artifact, modality), ReaderFits(Artifact, pass, reader),
         ~Drained, NEW units, units = EligibleRows(NextRows),
         NEW e, e = reader.emitted, NEW f, f = Advanced.emitted
  PROVE  /\ units \in Seq(UnitRow) /\ e \in Nat /\ f \in Nat /\ e <= f
         /\ First(Artifact, modality, f)
              = First(Artifact, modality, e) \cup NewAt(Artifact, modality, e, f)
         /\ First(Artifact, modality, e) \cap NewAt(Artifact, modality, e, f) = {}
         /\ IsFiniteSet(NewAt(Artifact, modality, e, f))
         /\ Cardinality(First(Artifact, modality, f))
              = Cardinality(First(Artifact, modality, e)) + Len(units)
         /\ Met(Artifact, modality, f)
              = Met(Artifact, modality, e) \cup {units[k] : k \in 1 .. Len(units)}
         /\ \A k \in 1 .. Len(units) : units[k] \notin Met(Artifact, modality, e)
         /\ \A j, k \in 1 .. Len(units) : units[j].id = units[k].id => j = k
         /\ BagAt([k \in DOMAIN units |-> units[k].node], DOMAIN units)
              = BagAt([i \in DOMAIN Rows(Artifact) |-> Rows(Artifact)[i].node],
                      NewAt(Artifact, modality, e, f))
<1>1. PICK R \in Seq(UnitRow) : R = Rows(Artifact)
  BY FlattenFact DEF Rows, Sound
<1>2. e \in Nat /\ f \in Nat /\ e <= f
  <2>1. f = e + Len(NextRows) /\ NextRows \in Seq(UnitRow)
    BY BatchFact DEF Sound
  <2>2. e \in Nat /\ Len(NextRows) \in Nat
    BY <2>1 DEF ReaderFits, StandsAt
  <2> QED BY <2>1, <2>2
<1>3. PICK F : F = First(Artifact, modality, e)
  OBVIOUS
<1>4. PICK G : G = First(Artifact, modality, f)
  OBVIOUS
<1>5. PICK I : I = NewAt(Artifact, modality, e, f)
  OBVIOUS
<1>6. G = F \cup I /\ F \cap I = {}
  BY <1>1, <1>2, <1>3, <1>4, <1>5 DEF NewAt, First
<1>7. IsFiniteSet(F) /\ IsFiniteSet(I) /\ \A i \in I : i \in DOMAIN R
  <2>1. PICK N : N = 1 .. Len(R)
    OBVIOUS
  <2>2. F \in SUBSET N /\ I \in SUBSET N /\ N = DOMAIN R
    BY <1>1, <1>3, <1>5, <2>1 DEF NewAt, First
  <2>3. IsFiniteSet(N)
    BY <2>1, FS_Interval
  <2> QED BY <2>2, <2>3, FS_Subset
<1>8. PICK pos : Picks(pos, units, R, I)
  BY <1>1, <1>5, BatchUnits
<1>9. PICK c \in Nat : c = Len(units)
  BY <1>8 DEF Picks
<1>10. PICK D : D = 1 .. c
  OBVIOUS
<1>11. /\ units \in Seq(UnitRow) /\ DOMAIN units = D
       /\ pos \in [D -> I]
       /\ \A j, k \in D : pos[j] = pos[k] => j = k
       /\ \A i \in I : \E k \in D : pos[k] = i
       /\ \A k \in D : units[k] = R[pos[k]]
  BY <1>8, <1>9, <1>10 DEF Picks
<1>12. IsFiniteSet(D) /\ Cardinality(D) = c /\ Cardinality(I) = c
  <2>1. IsFiniteSet(D) /\ Cardinality(D) = c
    <3>1. 1 \in Int /\ c \in Int /\ (1 > c <=> c = 0) /\ (c - 1) + 1 = c
      OBVIOUS
    <3> QED BY <1>10, <3>1, FS_Interval
  <2>2. /\ pos \in [D -> I]
        /\ \A j, k \in D : pos[j] = pos[k] => j = k
        /\ \A i \in I : \E k \in D : pos[k] = i
    BY <1>11
  <2>3. IsFiniteSet(D)
    BY <2>1
  <2>4. Cardinality(D) = Cardinality(I)
    BY <2>2, <2>3, SameSize
  <2> QED BY <2>1, <2>4
<1>13. Cardinality(G) = Cardinality(F) + c
  <2>1. Cardinality(F) \in Nat /\ Cardinality({}) = 0
    BY <1>7, FS_CardinalityType, FS_EmptySet
  <2>2. Cardinality(F \cup I) = Cardinality(F) + Cardinality(I) - Cardinality(F \cap I)
    BY <1>7, FS_Union
  <2>3. Cardinality(F \cap I) = 0
    BY <1>6, <2>1
  <2> QED BY <1>6, <1>12, <2>1, <2>2, <2>3
<1>14. \A i, j \in F \cup I : R[i].id = R[j].id => i = j
  BY <1>1, <1>4, <1>6, EligibleOnce DEF First
<1>15. {R[i] : i \in G} = {R[i] : i \in F} \cup {units[k] : k \in D}
  <2>1. \A k \in D : pos[k] \in I /\ units[k] = R[pos[k]]
    BY <1>11
  <2> QED BY <1>6, <1>11, <2>1
<1>16. \A k \in D : units[k] \notin {R[i] : i \in F}
  <2> SUFFICES ASSUME NEW k \in D, NEW i \in F, units[k] = R[i] PROVE FALSE
    OBVIOUS
  <2>1. pos[k] \in I /\ R[pos[k]] = R[i]
    BY <1>11
  <2>2. pos[k] = i
    BY <1>14, <2>1
  <2> QED BY <1>6, <2>1, <2>2
<1>17. \A j, k \in D : units[j].id = units[k].id => j = k
  <2> SUFFICES ASSUME NEW j \in D, NEW k \in D, units[j].id = units[k].id PROVE j = k
    OBVIOUS
  <2>1. pos[j] \in I /\ pos[k] \in I /\ R[pos[j]].id = R[pos[k]].id
    BY <1>11
  <2>2. pos[j] = pos[k]
    BY <1>14, <2>1
  <2> QED BY <1>11, <2>2
<1>18. BagAt([k \in DOMAIN units |-> units[k].node], DOMAIN units)
         = BagAt([i \in DOMAIN R |-> R[i].node], I)
  <2>1. PICK s : s = [i \in DOMAIN R |-> R[i].node]
    OBVIOUS
  <2>2. PICK t : t = [k \in DOMAIN units |-> units[k].node]
    OBVIOUS
  <2>3. \A j \in D : t[j] = s[pos[j]]
    <3>1. \A j \in D : pos[j] \in DOMAIN R
      BY <1>7, <1>11
    <3> QED BY <1>11, <2>1, <2>2, <3>1
  <2>4. BagAt(t, D) = BagAt(s, I)
    BY <1>11, <1>12, <2>3, BagMoved
  <2> QED BY <1>11, <2>1, <2>2, <2>4
<1>19. Met(Artifact, modality, f) = {R[i] : i \in G} /\ Met(Artifact, modality, e) = {R[i] : i \in F}
  BY <1>1, <1>3, <1>4 DEF Met
<1>20. /\ Met(Artifact, modality, f)
            = Met(Artifact, modality, e) \cup {units[k] : k \in 1 .. Len(units)}
       /\ \A k \in 1 .. Len(units) : units[k] \notin Met(Artifact, modality, e)
       /\ \A j, k \in 1 .. Len(units) : units[j].id = units[k].id => j = k
  BY <1>9, <1>10, <1>15, <1>16, <1>17, <1>19
<1>21. BagAt([k \in DOMAIN units |-> units[k].node], DOMAIN units)
         = BagAt([i \in DOMAIN Rows(Artifact) |-> Rows(Artifact)[i].node],
                 NewAt(Artifact, modality, e, f))
  BY <1>1, <1>5, <1>18
<1>22. /\ First(Artifact, modality, f)
            = First(Artifact, modality, e) \cup NewAt(Artifact, modality, e, f)
       /\ First(Artifact, modality, e) \cap NewAt(Artifact, modality, e, f) = {}
       /\ IsFiniteSet(NewAt(Artifact, modality, e, f))
       /\ Cardinality(First(Artifact, modality, f))
            = Cardinality(First(Artifact, modality, e)) + Len(units)
  BY <1>3, <1>4, <1>5, <1>6, <1>7, <1>9, <1>13
<1> QED BY <1>2, <1>11, <1>20, <1>21, <1>22

\* The canonical rows with a text among the first e.
CanonAt(a, e) ==
  {i \in 1 .. Len(Rows(a)) : i <= e /\ HasText(Rows(a)[i]) /\ IsCanonical(a, Rows(a)[i])}

\* A batch in figures: its canonical rows, and the bounds of its rows.
LEMMA BatchCanonical ==
  ASSUME modality = "node_text", Sound(Artifact, modality), ReaderFits(Artifact, pass, reader),
         ~Drained, NEW e, e = reader.emitted, NEW f, f = Advanced.emitted
  PROVE  /\ CanonicalSeen(NextRows) \in Nat
         /\ Cardinality(CanonAt(Artifact, f))
              = Cardinality(CanonAt(Artifact, e)) + CanonicalSeen(NextRows)
<1>1. PICK R \in Seq(UnitRow) : R = Rows(Artifact)
  BY FlattenFact DEF Rows, Sound
<1>2. PICK rows \in Seq(UnitRow) : rows = NextRows
  BY BatchFact DEF Sound
<1>3. PICK n \in Nat : n = Len(rows)
  OBVIOUS
<1>4. e \in Nat
  BY DEF ReaderFits, StandsAt
<1>5. /\ \A i \in 1 .. n : rows[i] = R[e + i]
      /\ f = e + n
      /\ e + n <= Len(R)
  <2>1. ReaderFits(Artifact, pass, Advanced) /\ Artifact.shards \in Seq(Seq(UnitRow))
    BY BatchFact DEF Sound
  <2>2. Advanced.emitted \in 0 .. Len(Rows(Artifact))
    BY <2>1, ReaderWithin
  <2>3. Advanced.emitted = e + n /\ \A i \in 1 .. n : rows[i] = R[e + i]
    BY <1>1, <1>2, <1>3, <1>4, BatchFact DEF Sound
  <2> QED BY <1>1, <2>2, <2>3
<1> DEFINE Canon(r) == HasText(r) /\ IsCanonical(Artifact, r)
<1>6. PICK J : J = {j \in 1 .. n : Canon(rows[j])}
  OBVIOUS
<1>7. PICK F : F = {i \in 1 .. Len(R) : i <= e /\ Canon(R[i])}
  OBVIOUS
<1>8. PICK G : G = {i \in 1 .. Len(R) : i <= f /\ Canon(R[i])}
  OBVIOUS
<1>9. PICK I : I = {i \in 1 .. Len(R) : i <= f /\ i > e /\ Canon(R[i])}
  OBVIOUS
<1>10. /\ CanonicalSeen(NextRows) = Cardinality(J)
       /\ F = CanonAt(Artifact, e) /\ G = CanonAt(Artifact, f)
  <2>1. DOMAIN rows = 1 .. n
    BY <1>3
  <2> QED BY <1>1, <1>2, <1>6, <1>7, <1>8, <2>1 DEF CanonicalSeen, CanonAt
<1> HIDE DEF Canon
<1>11. G = F \cup I /\ F \cap I = {}
  BY <1>3, <1>4, <1>5, <1>7, <1>8, <1>9
<1>12. IsFiniteSet(F) /\ IsFiniteSet(J)
  <2>1. PICK N, M : N = 1 .. Len(R) /\ M = 1 .. n
    OBVIOUS
  <2>2. IsFiniteSet(N) /\ IsFiniteSet(M)
    BY <2>1, FS_Interval
  <2>3. F \in SUBSET N /\ J \in SUBSET M
    BY <1>6, <1>7, <2>1
  <2> QED BY <2>2, <2>3, FS_Subset
<1>13. PICK shift : shift = [j \in J |-> e + j]
  OBVIOUS
<1>14. shift \in [J -> I] /\ (\A j, k \in J : shift[j] = shift[k] => j = k)
       /\ \A i \in I : \E j \in J : shift[j] = i
  <2>1. ASSUME NEW j \in J PROVE e + j \in I /\ shift[j] = e + j /\ j \in Int
    <3>1. j \in 1 .. n /\ Canon(rows[j])
      BY <1>6
    <3>2. e + j \in 1 .. Len(R) /\ e + j <= f /\ e + j > e
      BY <1>4, <1>5, <3>1
    <3>3. Canon(R[e + j])
      BY <1>5, <3>1
    <3> QED BY <1>9, <1>13, <3>1, <3>2, <3>3
  <2>2. ASSUME NEW i \in I PROVE i - e \in J /\ e + (i - e) = i
    <3>1. i \in 1 .. Len(R) /\ i <= f /\ i > e /\ Canon(R[i])
      BY <1>9
    <3>2. i - e \in 1 .. n /\ e + (i - e) = i
      BY <1>4, <1>5, <3>1
    <3>3. rows[i - e] = R[i]
      BY <1>5, <3>2
    <3> QED BY <1>6, <3>1, <3>2, <3>3
  <2>3. \A j, k \in J : shift[j] = shift[k] => j = k
    BY <1>4, <2>1
  <2>4. \A i \in I : \E j \in J : shift[j] = i
    BY <2>1, <2>2
  <2> QED BY <1>13, <2>1, <2>3, <2>4
<1>15. IsFiniteSet(I) /\ Cardinality(J) = Cardinality(I)
  BY <1>12, <1>14, SameSize
<1>16. Cardinality(G) = Cardinality(F) + Cardinality(J) /\ Cardinality(J) \in Nat
  <2>1. Cardinality(F) \in Nat /\ Cardinality(J) \in Nat /\ Cardinality({}) = 0
    BY <1>12, FS_CardinalityType, FS_EmptySet
  <2>2. Cardinality(F \cup I) = Cardinality(F) + Cardinality(I) - Cardinality(F \cap I)
    BY <1>12, <1>15, FS_Union
  <2>3. Cardinality(F \cap I) = 0
    BY <1>11, <2>1
  <2> QED BY <1>11, <1>15, <2>1, <2>2, <2>3
<1> QED BY <1>10, <1>16

\* When every declared duplicate has its canonical row with a text, no tweet
\* with a text is missed.
LEMMA NoneMissed ==
  ASSUME NEW a, Sound(a, "node_text"),
         Cardinality(CanonAt(a, Len(Rows(a)))) = Cardinality(a.duplicates),
         NEW row \in Range(Rows(a)), HasText(row)
  PROVE  \E u \in Population(a, "node_text") : u.id = row.id
<1>1. PICK R \in Seq(UnitRow) : R = Rows(a)
  BY FlattenFact DEF Rows, Sound
<1>2. PICK n \in Nat : n = Len(R)
  OBVIOUS
<1>3. PICK i0 \in 1 .. n : row = R[i0]
  BY <1>1, <1>2 DEF Range
<1>4. \A i \in 1 .. n : R[i] \in Range(Rows(a))
  BY <1>1, <1>2 DEF Range
<1>5. CASE ~Duplicated(a, row)
  <2>1. row \in Population(a, "node_text")
    BY <1>5 DEF Population, Eligible
  <2> QED BY <2>1
<1>6. CASE Duplicated(a, row)
  <2>1. PICK g \in a.duplicates : g.id = row.id
    BY <1>6 DEF Duplicated, CanonicalOf
  <2>2. PICK C : C = CanonAt(a, n)
    OBVIOUS
  <2>3. \A i \in C : i \in 1 .. n /\ HasText(R[i]) /\ IsCanonical(a, R[i])
    BY <1>1, <1>2, <2>2 DEF CanonAt
  <2>4. PICK f : f = [i \in C |-> CHOOSE h \in a.duplicates : h.id = R[i].id /\ h.canonical = R[i].loc]
    OBVIOUS
  <2>5. ASSUME NEW i \in C
        PROVE  f[i] \in a.duplicates /\ f[i].id = R[i].id /\ f[i].canonical = R[i].loc
    <3>1. \E h \in a.duplicates : h.id = R[i].id /\ h.canonical = R[i].loc
      BY <2>3 DEF IsCanonical, CanonicalOf
    <3> QED BY <2>4, <3>1
  <2>6. \A i, j \in C : f[i] = f[j] => i = j
    <3> SUFFICES ASSUME NEW i \in C, NEW j \in C, f[i] = f[j] PROVE i = j
      OBVIOUS
    <3>1. R[i].loc = R[j].loc
      BY <2>5
    <3> QED BY <1>1, <1>2, <2>3, <3>1 DEF Sound
  <2>7. PICK D : D = a.duplicates
    OBVIOUS
  <2>8. f \in Injection(C, D) /\ IsFiniteSet(D) /\ Cardinality(C) = Cardinality(D)
    <3>1. f \in [C -> D]
      BY <2>4, <2>5, <2>7
    <3>2. f \in Injection(C, D)
      BY <2>6, <3>1 DEF Injection, IsInjective
    <3>3. IsFiniteSet(D) /\ Cardinality(C) = Cardinality(D)
      BY <1>1, <1>2, <2>2, <2>7 DEF Sound
    <3> QED BY <3>2, <3>3
  <2>9. f \in Surjection(C, D)
    BY <2>8, FS_Injection
  <2>10. PICK i \in C : f[i] = g
    BY <2>1, <2>7, <2>9 DEF Surjection
  <2>11. R[i].id = row.id /\ HasText(R[i]) /\ IsCanonical(a, R[i]) /\ R[i] \in Range(Rows(a))
    BY <1>4, <2>1, <2>3, <2>5, <2>10
  <2>12. R[i] \in Population(a, "node_text")
    BY <2>11 DEF Population, Eligible
  <2> QED BY <2>11, <2>12
<1> QED BY <1>5, <1>6

\* InOrder lists distinct units by priority.
LEMMA SoonerList ==
  ASSUME NEW P, Distinct(P)
  PROVE  Lists(InOrder(P, Sooner), SoonerIn, P) /\ InOrder(P, Sooner) \in Seq(UnitRow)
<1>1. PICK n \in Nat : n = Cardinality(P)
  BY FS_CardinalityType DEF Distinct
<1>2. IsFiniteSet(P) /\ Orders(SoonerIn, P) /\ \A u, v \in P : <<u, v>> \in SoonerIn <=> Sooner(u, v)
  BY SoonerOrders DEF Distinct
<1>3. PICK s : s = InOrder(P, Sooner)
  OBVIOUS
<1>4. s = [i \in 1 .. n |-> CHOOSE x \in P : Cardinality({y \in P : Sooner(y, x)}) = i - 1]
  BY <1>1, <1>3 DEF InOrder
<1>5. ASSUME NEW i \in 1 .. n PROVE s[i] \in P /\ Rank(SoonerIn, P, s[i]) = i - 1
  <2>1. \A x \in P : Rank(SoonerIn, P, x) = Cardinality({y \in P : Sooner(y, x)})
    <3> SUFFICES ASSUME NEW x \in P
                 PROVE  Rank(SoonerIn, P, x) = Cardinality({y \in P : Sooner(y, x)})
      OBVIOUS
    <3>1. {y \in P : <<y, x>> \in SoonerIn} = {y \in P : Sooner(y, x)}
      BY <1>2
    <3> QED BY <3>1 DEF Rank
  <2>2. PICK x \in P : Rank(SoonerIn, P, x) = i - 1
    BY <1>1, <1>2, RankFact
  <2>3. s[i] \in P /\ Cardinality({y \in P : Sooner(y, s[i])}) = i - 1
    <3>1. Cardinality({y \in P : Sooner(y, x)}) = i - 1
      BY <2>1, <2>2
    <3>2. s[i] = CHOOSE z \in P : Cardinality({y \in P : Sooner(y, z)}) = i - 1
      BY <1>4
    <3> QED BY <3>1, <3>2
  <2> QED BY <2>1, <2>3
<1>6. s = [i \in 1 .. n |-> s[i]]
  BY <1>4
<1>7. Lists(s, SoonerIn, P)
  BY <1>1, <1>2, <1>5, <1>6, ListFact
<1>8. s \in Seq(UnitRow)
  <2>1. \A i \in 1 .. n : s[i] \in UnitRow
    BY <1>5 DEF Distinct
  <2> QED BY <1>6, <2>1
<1> QED BY <1>3, <1>7, <1>8

\* InOrder lists units of different relations by relation.
RelationIn == {p \in UnitRow \X UnitRow : p[1].rel < p[2].rel}
\* The relations of an edge, listed by name, are listed once each and in order.
LEMMA RelationList ==
  ASSUME NEW P, Distinct(P), \A u, v \in P : u.rel = v.rel => u = v
  PROVE  /\ Orders(RelationIn, P) /\ \A u, v \in P : <<u, v>> \in RelationIn <=> u.rel < v.rel
         /\ Lists(InOrder(P, LAMBDA u, v : u.rel < v.rel), RelationIn, P)
         /\ InOrder(P, LAMBDA u, v : u.rel < v.rel) \in Seq(UnitRow)
<1>1. PICK n \in Nat : n = Cardinality(P)
  BY FS_CardinalityType DEF Distinct
<1>2. IsFiniteSet(P) /\ \A u, v \in P : <<u, v>> \in RelationIn <=> u.rel < v.rel
  BY DEF Distinct, RelationIn
<1>3. Orders(RelationIn, P)
  <2>1. \A u \in P : u.rel \in Int
    BY DEF Distinct, UnitRow
  <2> QED BY <1>2, <2>1 DEF Orders
<1>4. PICK s : s = InOrder(P, LAMBDA u, v : u.rel < v.rel)
  OBVIOUS
<1>5. s = [i \in 1 .. n |-> CHOOSE x \in P : Cardinality({y \in P : y.rel < x.rel}) = i - 1]
  BY <1>1, <1>4 DEF InOrder
<1>6. ASSUME NEW i \in 1 .. n PROVE s[i] \in P /\ Rank(RelationIn, P, s[i]) = i - 1
  <2>1. \A x \in P : Rank(RelationIn, P, x) = Cardinality({y \in P : y.rel < x.rel})
    <3> SUFFICES ASSUME NEW x \in P
                 PROVE  Rank(RelationIn, P, x) = Cardinality({y \in P : y.rel < x.rel})
      OBVIOUS
    <3>1. {y \in P : <<y, x>> \in RelationIn} = {y \in P : y.rel < x.rel}
      BY <1>2
    <3> QED BY <3>1 DEF Rank
  <2>2. PICK x \in P : Rank(RelationIn, P, x) = i - 1
    BY <1>1, <1>2, <1>3, RankFact
  <2>3. s[i] \in P /\ Cardinality({y \in P : y.rel < s[i].rel}) = i - 1
    <3>1. Cardinality({y \in P : y.rel < x.rel}) = i - 1
      BY <2>1, <2>2
    <3>2. s[i] = CHOOSE z \in P : Cardinality({y \in P : y.rel < z.rel}) = i - 1
      BY <1>5
    <3> QED BY <3>1, <3>2
  <2> QED BY <2>1, <2>3
<1>7. s = [i \in 1 .. n |-> s[i]]
  <2> DEFINE C(i) == CHOOSE x \in P : Cardinality({y \in P : y.rel < x.rel}) = i - 1
  <2>1. s = [i \in 1 .. n |-> C(i)]
    BY <1>5
  <2> HIDE DEF C
  <2> QED BY <2>1
<1>8. Lists(s, RelationIn, P)
  BY <1>1, <1>2, <1>3, <1>6, <1>7, ListFact
<1>9. s \in Seq(UnitRow)
  <2>1. \A i \in 1 .. n : s[i] \in UnitRow
    BY <1>6 DEF Distinct
  <2> QED BY <1>7, <2>1
<1> QED BY <1>2, <1>3, <1>4, <1>8, <1>9

\* What stands before a place of a sequence; and what stands before a unit
\* where it first stands in three lists, one after the other.
Prior(q, i) == {q[j] : j \in 1 .. i - 1}
Follows(r, p, S, lt) ==
  /\ \A i \in 1 .. Len(r) : r[i] \in {p[j] : j \in 1 .. Len(p)} \cup S
  /\ {r[i] : i \in 1 .. Len(r)} = {p[j] : j \in 1 .. Len(p)} \cup S
  /\ \A i \in 1 .. Len(p) : r[i] = p[i] /\ Prior(r, i) = Prior(p, i)
  /\ \A i \in 1 .. Len(p) : i \in 1 .. Len(r)
  /\ \A x \in S : \E i \in 1 .. Len(r) :
       r[i] = x /\ Prior(r, i) = {p[j] : j \in 1 .. Len(p)} \cup {y \in S : <<y, x>> \in lt}
\* A sorted list that is appended comes after what was there, in order.
LEMMA ListedTwice ==
  ASSUME NEW T, NEW p \in Seq(T), NEW q \in Seq(T), NEW S, NEW lt, Orders(lt, S), Lists(q, lt, S)
  PROVE  p \o q \in Seq(T) /\ Follows(p \o q, p, S, lt)
<1>1. PICK n \in Nat : n = Len(p)
  OBVIOUS
<1>2. PICK c \in Nat : c = Cardinality(S)
  BY DEF Lists
<1>3. /\ q \in [1 .. c -> S] /\ \A x \in S : \E i \in 1 .. c : q[i] = x
  BY <1>2 DEF Lists
<1>4. Len(q) = c
  BY <1>3
<1>5. PICK r \in Seq(T) : r = p \o q
  BY ConcatProperties
<1>6. /\ Len(r) = n + c
      /\ \A i \in 1 .. n : r[i] = p[i]
      /\ \A i \in 1 .. c : r[n + i] = q[i]
  <2>1. /\ Len(r) = n + c
        /\ \A i \in 1 .. n + c : r[i] = IF i <= n THEN p[i] ELSE q[i - n]
    BY <1>1, <1>4, <1>5, ConcatProperties
  <2>2. \A i \in 1 .. n : i \in 1 .. n + c /\ i <= n
    OBVIOUS
  <2>3. \A i \in 1 .. c : n + i \in 1 .. n + c /\ ~(n + i <= n) /\ (n + i) - n = i
    OBVIOUS
  <2> QED BY <2>1, <2>2, <2>3
<1>7. \A i \in 1 .. n + c : i \in 1 .. n \/ \E j \in 1 .. c : i = n + j
  <2> SUFFICES ASSUME NEW i \in 1 .. n + c, i \notin 1 .. n PROVE \E j \in 1 .. c : i = n + j
    OBVIOUS
  <2>1. i - n \in 1 .. c /\ i = n + (i - n)
    OBVIOUS
  <2> QED BY <2>1
<1>8. \A i \in 1 .. n + c : r[i] \in {p[j] : j \in 1 .. n} \cup S
  <2> SUFFICES ASSUME NEW i \in 1 .. n + c PROVE r[i] \in {p[j] : j \in 1 .. n} \cup S
    OBVIOUS
  <2>1. CASE i \in 1 .. n
    BY <1>6, <2>1
  <2>2. CASE \E j \in 1 .. c : i = n + j
    <3>1. PICK j \in 1 .. c : i = n + j
      BY <2>2
    <3>2. r[i] = q[j] /\ q[j] \in S
      BY <1>3, <1>6, <3>1
    <3> QED BY <3>2
  <2> QED BY <1>7, <2>1, <2>2
<1>9. {r[i] : i \in 1 .. n + c} = {p[j] : j \in 1 .. n} \cup S
  <2>1. \A j \in 1 .. n : j \in 1 .. n + c
    OBVIOUS
  <2>2. \A x \in S : \E i \in 1 .. n + c : r[i] = x
    <3> SUFFICES ASSUME NEW x \in S PROVE \E i \in 1 .. n + c : r[i] = x
      OBVIOUS
    <3>1. PICK j \in 1 .. c : q[j] = x
      BY <1>3
    <3>2. n + j \in 1 .. n + c
      OBVIOUS
    <3> QED BY <1>6, <3>1, <3>2
  <2> QED BY <1>6, <1>8, <2>1, <2>2
<1>10. \A i \in 1 .. n : r[i] = p[i] /\ Prior(r, i) = Prior(p, i)
  <2> SUFFICES ASSUME NEW i \in 1 .. n PROVE Prior(r, i) = Prior(p, i)
    BY <1>6
  <2>1. \A j \in 1 .. i - 1 : j \in 1 .. n
    OBVIOUS
  <2>2. \A j \in 1 .. i - 1 : r[j] = p[j]
    BY <1>6, <2>1
  <2> QED BY <2>2 DEF Prior
<1>11. ASSUME NEW x \in S
       PROVE  \E i \in 1 .. n + c :
                r[i] = x /\ Prior(r, i) = {p[j] : j \in 1 .. n} \cup {y \in S : <<y, x>> \in lt}
  <2>1. PICK k \in 1 .. c : q[k] = x
    BY <1>3
  <2>2. n + k \in 1 .. n + c /\ r[n + k] = x
    BY <1>6, <2>1
  <2>3. {q[j] : j \in 1 .. k - 1} = {y \in S : <<y, x>> \in lt}
    BY <1>2, <2>1, ListedBefore
  <2>4. Prior(r, n + k) = {p[j] : j \in 1 .. n} \cup {q[j] : j \in 1 .. k - 1}
    <3>1. ASSUME NEW i \in 1 .. (n + k) - 1
          PROVE  r[i] \in {p[j] : j \in 1 .. n} \cup {q[j] : j \in 1 .. k - 1}
      <4>1. CASE i <= n
        <5>1. i \in 1 .. n
          BY <4>1
        <5>2. r[i] = p[i]
          BY <1>6, <5>1
        <5> QED BY <5>1, <5>2
      <4>2. CASE ~(i <= n)
        <5>1. i - n \in 1 .. k - 1 /\ i - n \in 1 .. c /\ n + (i - n) = i
          BY <4>2
        <5>2. r[i] = q[i - n]
          BY <1>6, <5>1
        <5> QED BY <5>1, <5>2
      <4> QED BY <4>1, <4>2
    <3>2. \A j \in 1 .. n : j \in 1 .. (n + k) - 1 /\ r[j] = p[j]
      BY <1>6
    <3>3. \A j \in 1 .. k - 1 : n + j \in 1 .. (n + k) - 1 /\ r[n + j] = q[j]
      BY <1>6
    <3>4. PICK A : A = {p[j] : j \in 1 .. n}
      OBVIOUS
    <3>5. PICK B : B = {q[j] : j \in 1 .. k - 1}
      OBVIOUS
    <3>6. PICK I : I = 1 .. (n + k) - 1
      OBVIOUS
    <3>7. \A y \in A : \E i \in I : r[i] = y
      <4> SUFFICES ASSUME NEW y \in A PROVE \E i \in I : r[i] = y
        OBVIOUS
      <4>1. PICK j \in 1 .. n : y = p[j]
        BY <3>4
      <4>2. j \in I /\ r[j] = p[j]
        BY <3>2, <3>6
      <4> QED BY <4>1, <4>2
    <3>8. \A y \in B : \E i \in I : r[i] = y
      <4> SUFFICES ASSUME NEW y \in B PROVE \E i \in I : r[i] = y
        OBVIOUS
      <4>1. PICK j \in 1 .. k - 1 : y = q[j]
        BY <3>5
      <4>2. n + j \in I /\ r[n + j] = q[j]
        BY <3>3, <3>6
      <4> QED BY <4>1, <4>2
    <3>9. \A i \in I : r[i] \in A \cup B
      BY <3>1, <3>4, <3>5, <3>6
    <3>10. {r[i] : i \in I} = A \cup B
      BY <3>7, <3>8, <3>9
    <3> QED BY <3>4, <3>5, <3>6, <3>10 DEF Prior
  <2> QED BY <2>2, <2>3, <2>4
<1>12. \A i \in 1 .. n : i \in 1 .. n + c
  OBVIOUS
<1>13. r \in Seq(T)
  OBVIOUS
<1>14. Follows(r, p, S, lt)
  BY <1>1, <1>6, <1>8, <1>9, <1>10, <1>11, <1>12 DEF Follows
<1> QED BY <1>5, <1>13, <1>14

\* Who comes before a unit in the queue for the seats: the relations that are
\* reserved, then the strata, then everybody.
Turn(P, reserved, strata, u) ==
  IF u \in reserved THEN {v \in reserved : v.rel < u.rel}
  ELSE IF u \in strata THEN reserved \cup {v \in strata : Sooner(v, u)}
  ELSE reserved \cup strata \cup {v \in P : Sooner(v, u)}
ReservedOf(s, m) == IF ForceCoverage /\ m = "event_text" THEN s.relation ELSE {}

\* The parts of the queue.
LEMMA SamplerParts ==
  ASSUME NEW P, Distinct(P), NEW s, NEW act, NEW m, SamplerFits(s, P, act, m)
  PROVE  /\ Distinct(ReservedOf(s, m)) /\ Distinct(s.stratum) /\ Distinct(s.heap)
         /\ ReservedOf(s, m) \subseteq P /\ s.stratum \subseteq P /\ s.heap \subseteq P
         /\ \A u, v \in ReservedOf(s, m) : u.rel = v.rel => u = v
<1>1. s.stratum \subseteq P /\ s.heap \subseteq P
  BY DEF SamplerFits, HeapFits, BestFits
<1>2. CASE ForceCoverage /\ m = "event_text"
  <2>1. PICK r : r = s.relation
    OBVIOUS
  <2>2. BestFits(r, P, RelationOf) /\ ReservedOf(s, m) = r
    BY <1>2, <2>1 DEF SamplerFits, ReservedOf
  <2>3. r \subseteq P /\ \A v, w \in r : RelationOf[v] = RelationOf[w] => v = w
    BY <2>2 DEF BestFits
  <2>4. \A v \in r : v \in UnitRow
    BY <2>3 DEF Distinct
  <2>5. \A v, w \in r : v.rel = w.rel => v = w
    BY <2>3, <2>4 DEF RelationOf
  <2> QED BY <1>1, <2>2, <2>3, <2>5, DistinctPart
<1>3. CASE ~(ForceCoverage /\ m = "event_text")
  <2>1. ReservedOf(s, m) = {}
    BY <1>3 DEF ReservedOf
  <2> QED BY <1>1, <2>1, DistinctPart
<1> QED BY <1>2, <1>3

\* The queue has the units of its parts, and before the first place of a unit
\* stand those whose turn is before.
LEMMA QueueFact ==
  ASSUME modality \in Modalities, NEW P, Distinct(P),
         SamplerFits(sampler, P, activity, modality),
         NEW R, R = ReservedOf(sampler, modality), NEW S, S = sampler.stratum,
         NEW H, H = sampler.heap
  PROVE  /\ Queue \in Seq(UnitRow)
         /\ \A i \in 1 .. Len(Queue) : Queue[i] \in R \cup S \cup H
         /\ \A u \in R \cup S \cup H : \E i \in 1 .. Len(Queue) :
              Queue[i] = u /\ Prior(Queue, i) = Turn(P, R, S, u)
<1>1. /\ Distinct(R) /\ Distinct(S) /\ Distinct(H) /\ R \subseteq P /\ S \subseteq P /\ H \subseteq P
      /\ \A u, v \in R : u.rel = v.rel => u = v
  BY SamplerParts
<1>2. PICK p1 : p1 = IF Forced THEN InOrder(sampler.relation, LAMBDA u, v : u.rel < v.rel) ELSE << >>
  OBVIOUS
<1>3. /\ p1 \in Seq(UnitRow) /\ {p1[i] : i \in 1 .. Len(p1)} = R
      /\ \A u \in R : \E i \in 1 .. Len(p1) :
           p1[i] = u /\ Prior(p1, i) = {v \in R : v.rel < u.rel}
  <2>1. CASE Forced
    <3>1. sampler.relation = R
      BY <2>1 DEF Forced, ReservedOf
    <3>2. p1 = InOrder(R, LAMBDA u, v : u.rel < v.rel)
      BY <1>2, <2>1, <3>1
    <3>3. /\ Orders(RelationIn, R) /\ \A u, v \in R : <<u, v>> \in RelationIn <=> u.rel < v.rel
          /\ Lists(p1, RelationIn, R) /\ p1 \in Seq(UnitRow)
      BY <1>1, <3>2, RelationList
    <3>4. PICK c \in Nat : c = Cardinality(R)
      BY <3>3 DEF Lists
    <3>5. p1 \in [1 .. c -> R] /\ \A x \in R : \E i \in 1 .. c : p1[i] = x
      BY <3>3, <3>4 DEF Lists
    <3>6. Len(p1) = c
      BY <3>3, <3>5
    <3>7. {p1[i] : i \in 1 .. c} = R
      BY <3>5
    <3>8. ASSUME NEW u \in R
          PROVE  \E i \in 1 .. c : p1[i] = u /\ Prior(p1, i) = {v \in R : v.rel < u.rel}
      <4>1. PICK i \in 1 .. c : p1[i] = u
        BY <3>5
      <4>2. {p1[j] : j \in 1 .. i - 1} = {x \in R : <<x, p1[i]>> \in RelationIn}
        BY <3>3, <3>4, ListedBefore
      <4>3. {x \in R : <<x, u>> \in RelationIn} = {v \in R : v.rel < u.rel}
        BY <3>3
      <4> QED BY <4>1, <4>2, <4>3 DEF Prior
    <3> QED BY <3>3, <3>6, <3>7, <3>8
  <2>2. CASE ~Forced
    <3>1. R = {} /\ p1 = << >>
      BY <1>2, <2>2 DEF Forced, ReservedOf
    <3>2. p1 \in Seq(UnitRow) /\ Len(p1) = 0
      BY <3>1
    <3>3. {p1[i] : i \in 1 .. Len(p1)} = {}
      BY <3>2
    <3> QED BY <3>1, <3>2, <3>3
  <2> QED BY <2>1, <2>2
<1>4. PICK a : a = InOrder(S, Sooner)
  OBVIOUS
<1>5. PICK b : b = InOrder(H, Sooner)
  OBVIOUS
<1>6. /\ Lists(a, SoonerIn, S) /\ a \in Seq(UnitRow) /\ Orders(SoonerIn, S)
      /\ \A u, v \in S : <<u, v>> \in SoonerIn <=> Sooner(u, v)
  BY <1>1, <1>4, SoonerList, SoonerOrders
<1>7. /\ Lists(b, SoonerIn, H) /\ b \in Seq(UnitRow) /\ Orders(SoonerIn, H)
      /\ \A u, v \in H : <<u, v>> \in SoonerIn <=> Sooner(u, v)
  BY <1>1, <1>5, SoonerList, SoonerOrders
<1>8. PICK p2 : p2 = p1 \o a
  OBVIOUS
<1>9. /\ p2 \in Seq(UnitRow)
      /\ {p2[i] : i \in 1 .. Len(p2)} = {p1[j] : j \in 1 .. Len(p1)} \cup S
      /\ \A i \in 1 .. Len(p1) : p2[i] = p1[i] /\ Prior(p2, i) = Prior(p1, i)
      /\ \A i \in 1 .. Len(p1) : i \in 1 .. Len(p2)
      /\ \A x \in S : \E i \in 1 .. Len(p2) :
              /\ p2[i] = x
              /\ Prior(p2, i) = {p1[j] : j \in 1 .. Len(p1)} \cup {y \in S : <<y, x>> \in SoonerIn}
  <2>1. p1 \in Seq(UnitRow) /\ a \in Seq(UnitRow) /\ Orders(SoonerIn, S) /\ Lists(a, SoonerIn, S)
    BY <1>3, <1>6
  <2>2. p2 \in Seq(UnitRow) /\ Follows(p2, p1, S, SoonerIn)
    BY <1>8, <2>1, ListedTwice
  <2> QED BY <2>2 DEF Follows
<1>10. {p2[i] : i \in 1 .. Len(p2)} = R \cup S
  BY <1>3, <1>9
<1>11. PICK q : q = p2 \o b
  OBVIOUS
<1>12. /\ q \in Seq(UnitRow)
       /\ \A i \in 1 .. Len(q) : q[i] \in {p2[j] : j \in 1 .. Len(p2)} \cup H
       /\ \A i \in 1 .. Len(p2) : q[i] = p2[i] /\ Prior(q, i) = Prior(p2, i)
       /\ \A i \in 1 .. Len(p2) : i \in 1 .. Len(q)
       /\ \A x \in H : \E i \in 1 .. Len(q) :
              /\ q[i] = x
              /\ Prior(q, i) = {p2[j] : j \in 1 .. Len(p2)} \cup {y \in H : <<y, x>> \in SoonerIn}
  <2>1. p2 \in Seq(UnitRow) /\ b \in Seq(UnitRow) /\ Orders(SoonerIn, H) /\ Lists(b, SoonerIn, H)
    BY <1>7, <1>9
  <2>2. q \in Seq(UnitRow) /\ Follows(q, p2, H, SoonerIn)
    BY <1>11, <2>1, ListedTwice
  <2> QED BY <2>2 DEF Follows
<1>13. Queue = q
  BY <1>2, <1>4, <1>5, <1>8, <1>11 DEF Queue
<1>14. ASSUME NEW u \in R \cup S \cup H
       PROVE  \E i \in 1 .. Len(q) : q[i] = u /\ Prior(q, i) = Turn(P, R, S, u)
  <2>1. CASE u \in R
    <3>1. PICK i \in 1 .. Len(p1) : p1[i] = u /\ Prior(p1, i) = {v \in R : v.rel < u.rel}
      BY <1>3, <2>1
    <3>2. i \in 1 .. Len(p2) /\ p2[i] = u /\ Prior(p2, i) = {v \in R : v.rel < u.rel}
      BY <1>9, <3>1
    <3>3. i \in 1 .. Len(q) /\ q[i] = u /\ Prior(q, i) = {v \in R : v.rel < u.rel}
      BY <1>12, <3>2
    <3> QED BY <2>1, <3>3 DEF Turn
  <2>2. CASE u \notin R /\ u \in S
    <3>1. PICK i \in 1 .. Len(p2) :
            p2[i] = u /\ Prior(p2, i) = {p1[j] : j \in 1 .. Len(p1)} \cup {y \in S : <<y, u>> \in SoonerIn}
      BY <1>9, <2>2
    <3>2. {y \in S : <<y, u>> \in SoonerIn} = {y \in S : Sooner(y, u)}
      BY <1>6, <2>2
    <3>3. Prior(p2, i) = R \cup {y \in S : Sooner(y, u)}
      BY <1>3, <3>1, <3>2
    <3>4. i \in 1 .. Len(q) /\ q[i] = u /\ Prior(q, i) = R \cup {y \in S : Sooner(y, u)}
      BY <1>12, <3>1, <3>3
    <3> QED BY <2>2, <3>4 DEF Turn
  <2>3. CASE u \notin R /\ u \notin S
    <3>1. u \in H
      BY <2>3
    <3>2. PICK i \in 1 .. Len(q) :
            q[i] = u /\ Prior(q, i) = {p2[j] : j \in 1 .. Len(p2)} \cup {y \in H : <<y, u>> \in SoonerIn}
      BY <1>12, <3>1
    <3>3. {y \in H : <<y, u>> \in SoonerIn} = {y \in P : Sooner(y, u)}
      <4>1. HeapFits(H, P)
        BY DEF SamplerFits
      <4>2. \A y \in P : Sooner(y, u) => y \in H
        BY <1>1, <3>1, <4>1, SoonerFact DEF HeapFits
      <4> QED BY <1>1, <1>7, <3>1, <4>2
    <3>4. Prior(q, i) = R \cup S \cup {y \in P : Sooner(y, u)}
      BY <1>10, <3>2, <3>3
    <3> QED BY <2>3, <3>2, <3>4 DEF Turn
  <2> QED BY <2>1, <2>2, <2>3
<1>15. \A i \in 1 .. Len(q) : q[i] \in R \cup S \cup H
  BY <1>10, <1>12
<1> QED BY <1>12, <1>13, <1>14, <1>15

\* A unit is not before itself.
LEMMA TurnFact ==
  ASSUME NEW P, Distinct(P), NEW R \in SUBSET P, NEW S \in SUBSET P, NEW u \in P
  PROVE  /\ Turn(P, R, S, u) \subseteq P /\ u \notin Turn(P, R, S, u)
         /\ IsFiniteSet(Turn(P, R, S, u)) /\ Cardinality(Turn(P, R, S, u)) \in Nat
         /\ Cardinality(P) \in Nat /\ Cardinality(Turn(P, R, S, u)) < Cardinality(P)
<1>1. Turn(P, R, S, u) \subseteq P
  BY DEF Turn
<1>2. u \notin Turn(P, R, S, u)
  <2>1. ~Sooner(u, u) /\ ~(u.rel < u.rel)
    <3>1. u.rel \in Int
      BY DEF Distinct, UnitRow
    <3> QED BY <3>1, SoonerFact
  <2> QED BY <2>1 DEF Turn
<1>3. PICK T : T = Turn(P, R, S, u)
  OBVIOUS
<1>4. IsFiniteSet(P)
  BY DEF Distinct
<1>5. T \subseteq P \ {u}
  BY <1>1, <1>2, <1>3
<1>6. IsFiniteSet(P \ {u}) /\ Cardinality(P \ {u}) = Cardinality(P) - 1
  BY <1>4, FS_RemoveElement
<1>7. IsFiniteSet(T) /\ Cardinality(T) <= Cardinality(P \ {u})
  BY <1>5, <1>6, FS_Subset
<1>8. Cardinality(T) \in Nat /\ Cardinality(P) \in Nat
  BY <1>4, <1>7, FS_CardinalityType
<1>9. Cardinality(T) < Cardinality(P)
  BY <1>6, <1>7, <1>8
<1> QED BY <1>1, <1>2, <1>3, <1>7, <1>8, <1>9

\* The units that get a seat.
Seated(P, R, S) == {u \in P : Cardinality(Turn(P, R, S, u)) < RowLimit}

\* The units that finish() takes from its queue are the seated ones.
LEMMA SeatFact ==
  ASSUME modality \in Modalities, NEW P, Distinct(P),
         SamplerFits(sampler, P, activity, modality), seen.eligible = Cardinality(P),
         NEW R, R = ReservedOf(sampler, modality), NEW S, S = sampler.stratum
  PROVE  Finish = InOrder(Seated(P, R, S), Sooner)
<1>1. PICK H : H = sampler.heap
  OBVIOUS
<1>2. R \subseteq P /\ S \subseteq P /\ H \subseteq P
  BY <1>1, SamplerParts
<1>3. PICK q : q = Queue
  OBVIOUS
<1>4. /\ q \in Seq(UnitRow)
      /\ \A i \in 1 .. Len(q) : q[i] \in R \cup S \cup H
      /\ \A u \in R \cup S \cup H : \E i \in 1 .. Len(q) :
           q[i] = u /\ Prior(q, i) = Turn(P, R, S, u)
  BY <1>1, <1>3, QueueFact
<1>5. PICK c \in Nat : c = Cardinality(P)
  BY FS_CardinalityType DEF Distinct
<1>6. PICK l \in Nat : l = Least(RowLimit, c)
  BY InputsAssumption DEF Least
<1>7. PICK t : t = {i \in 1 .. Len(q) : Cardinality(Prior(q, i)) < l}
  OBVIOUS
<1>8. Finish = InOrder({q[i] : i \in t}, Sooner)
  <2>1. DOMAIN q = 1 .. Len(q)
    BY <1>4
  <2>2. \A i \in 1 .. Len(q) : Cardinality(Prior(q, i)) = Cardinality({q[j] : j \in 1 .. i - 1})
    BY DEF Prior
  <2>3. t = {i \in DOMAIN q : Cardinality({q[j] : j \in 1 .. i - 1}) < Least(RowLimit, seen.eligible)}
    BY <1>5, <1>6, <1>7, <2>1 DEF Prior
  <2> QED BY <1>3, <2>3 DEF Finish
<1>9. RowLimit \in Nat /\ IsFiniteSet(P)
  BY InputsAssumption DEF Distinct
<1>10. ASSUME NEW i \in 1 .. Len(q)
       PROVE  IsFiniteSet(Prior(q, i)) /\ Cardinality(Prior(q, i)) \in Nat
  <2>1. \A j \in 1 .. i - 1 : j \in 1 .. Len(q)
    BY <1>4
  <2>2. Prior(q, i) \subseteq P
    BY <1>2, <1>4, <2>1 DEF Prior
  <2> QED BY <1>9, <2>2, FS_Subset, FS_CardinalityType
<1>11. \A u \in P : /\ u \notin Turn(P, R, S, u) /\ IsFiniteSet(Turn(P, R, S, u))
                    /\ Cardinality(Turn(P, R, S, u)) \in Nat /\ Cardinality(Turn(P, R, S, u)) < c
  BY <1>2, <1>5, TurnFact
<1>12. ASSUME NEW u \in Seated(P, R, S) PROVE \E i \in t : q[i] = u
  <2>1. u \in P /\ Cardinality(Turn(P, R, S, u)) < RowLimit
    BY DEF Seated
  <2>2. CASE u \in R \cup S \cup H
    <3>1. PICK i \in 1 .. Len(q) : q[i] = u /\ Prior(q, i) = Turn(P, R, S, u)
      BY <1>4, <2>2
    <3>2. PICK k \in Nat : k = Cardinality(Turn(P, R, S, u))
      BY <1>11, <2>1
    <3>3. k < RowLimit /\ k < c
      BY <1>11, <2>1, <3>2
    <3>4. k < l
      BY <1>6, <1>9, <3>3 DEF Least
    <3>5. i \in t
      BY <1>7, <3>1, <3>2, <3>4
    <3> QED BY <3>1, <3>5
  <2>3. CASE u \notin R \cup S \cup H
    <3>1. HeapFits(H, P)
      BY <1>1 DEF SamplerFits
    <3>2. Cardinality(H) = RowLimit /\ \A w \in H : Sooner(w, u)
      BY <2>1, <2>3, <3>1 DEF HeapFits
    <3>3. H \subseteq Turn(P, R, S, u)
      BY <1>2, <2>3, <3>2 DEF Turn
    <3>4. Cardinality(H) <= Cardinality(Turn(P, R, S, u))
      BY <1>11, <2>1, <3>3, FS_Subset
    <3>5. Cardinality(Turn(P, R, S, u)) \in Nat
      BY <1>11, <2>1
    <3> QED BY <1>9, <2>1, <3>2, <3>4, <3>5
  <2> QED BY <2>2, <2>3
<1>13. ASSUME NEW i \in t PROVE q[i] \in Seated(P, R, S)
  <2>1. i \in 1 .. Len(q) /\ Cardinality(Prior(q, i)) < l
    BY <1>7
  <2>2. PICK u : u = q[i]
    OBVIOUS
  <2>3. u \in R \cup S \cup H /\ u \in P
    BY <1>2, <1>4, <2>1, <2>2
  <2>4. PICK j \in 1 .. Len(q) : q[j] = u /\ Prior(q, j) = Turn(P, R, S, u)
    BY <1>4, <2>3
  <2>5. ~(i < j)
    <3> SUFFICES ASSUME i < j PROVE FALSE
      OBVIOUS
    <3>1. i \in 1 .. j - 1
      BY <2>1, <2>4
    <3>2. u \in Prior(q, j)
      BY <2>2, <3>1 DEF Prior
    <3> QED BY <1>11, <2>3, <2>4, <3>2
  <2>6. Prior(q, j) \subseteq Prior(q, i)
    <3>1. \A k \in 1 .. j - 1 : k \in 1 .. i - 1
      BY <2>1, <2>4, <2>5
    <3> QED BY <3>1 DEF Prior
  <2>7. Cardinality(Prior(q, j)) <= Cardinality(Prior(q, i))
    BY <1>10, <2>1, <2>6, FS_Subset
  <2>8. Cardinality(Prior(q, j)) \in Nat /\ Cardinality(Prior(q, i)) \in Nat
    BY <1>10, <2>1, <2>4
  <2>9. l <= RowLimit
    BY <1>6, <1>9 DEF Least
  <2>10. Cardinality(Turn(P, R, S, u)) < RowLimit
    BY <1>9, <2>1, <2>4, <2>7, <2>8, <2>9
  <2> QED BY <2>2, <2>3, <2>10 DEF Seated
<1>14. {q[i] : i \in t} = Seated(P, R, S)
  BY <1>12, <1>13
<1> QED BY <1>8, <1>14

\* So the selection lists the seated units, each once.
Fills(s, P) ==
  /\ s \in Seq(UnitRow) /\ Range(s) = P
  /\ \A i, j \in DOMAIN s : s[i].id = s[j].id => i = j
\* Distinct units in the order of the sampler are a selection of all of them.
LEMMA InOrderFills ==
  ASSUME NEW P, Distinct(P)
  PROVE  Fills(InOrder(P, Sooner), P)
<1>1. PICK s : s = InOrder(P, Sooner)
  OBVIOUS
<1>2. Lists(s, SoonerIn, P) /\ s \in Seq(UnitRow)
  BY <1>1, SoonerList
<1>3. PICK c \in Nat : c = Cardinality(P)
  BY <1>2 DEF Lists
<1>4. /\ s \in [1 .. c -> P]
      /\ \A i, j \in 1 .. c : i < j <=> <<s[i], s[j]>> \in SoonerIn
      /\ \A x \in P : \E i \in 1 .. c : s[i] = x
  BY <1>2, <1>3 DEF Lists
<1>5. Range(s) = P
  BY <1>4 DEF Range
<1>6. ASSUME NEW i \in 1 .. c, NEW j \in 1 .. c, s[i].id = s[j].id PROVE i = j
  <2>1. s[i] = s[j]
    BY <1>4, <1>6 DEF Distinct
  <2>2. ~(i < i) /\ ~(j < j)
    OBVIOUS
  <2>3. ~(i < j) /\ ~(j < i)
    BY <1>4, <2>1, <2>2
  <2> QED BY <2>3
<1>7. DOMAIN s = 1 .. c
  BY <1>4
<1> QED BY <1>1, <1>2, <1>5, <1>6, <1>7 DEF Fills

\* What the sampler finishes with is the selection that the reserved and free seats define.
LEMMA FinishFact ==
  ASSUME modality \in Modalities, NEW P, Distinct(P),
         SamplerFits(sampler, P, activity, modality), seen.eligible = Cardinality(P)
  PROVE  Fills(Finish, Seated(P, ReservedOf(sampler, modality), sampler.stratum))
<1>1. PICK R : R = ReservedOf(sampler, modality)
  OBVIOUS
<1>2. PICK S : S = sampler.stratum
  OBVIOUS
<1>3. PICK Q : Q = Seated(P, R, S)
  OBVIOUS
<1>4. Finish = InOrder(Q, Sooner)
  BY <1>1, <1>2, <1>3, SeatFact
<1>5. Q \in SUBSET P
  BY <1>3 DEF Seated
<1>6. Fills(InOrder(Q, Sooner), Q)
  BY <1>5, DistinctPart, InOrderFills
<1> QED BY <1>1, <1>2, <1>3, <1>4, <1>6

\* The sample by definition, in the same terms.
LEMMA SampleIs ==
  ASSUME NEW a, NEW m, Distinct(Population(a, m)), NEW s,
         SamplerFits(s, Population(a, m), Actors(a, m), m)
  PROVE  Sample(a, m) = Seated(Population(a, m), ReservedOf(s, m), s.stratum)
<1>1. PICK P : P = Population(a, m)
  OBVIOUS
<1>2. PICK act : act = Actors(a, m)
  OBVIOUS
<1>3. P \subseteq UnitRow
  BY <1>1 DEF Distinct
<1>4. PICK S : S = s.stratum
  OBVIOUS
<1>5. S = Leaders(P, LAMBDA u : Stratum(act, u))
  <2>1. BestFits(S, P, StratumOf(act))
    BY <1>1, <1>2, <1>4 DEF SamplerFits
  <2>2. PICK k : k = StratumOf(act)
    OBVIOUS
  <2>3. S = {u \in P : \A v \in P : k[v] = k[u] => u = v \/ Sooner(u, v)}
    BY <1>1, <2>1, <2>2, BestLeads
  <2>4. \A u \in P : k[u] = Stratum(act, u)
    BY <1>3, <2>2 DEF StratumOf
  <2>5. S = {u \in P : \A v \in P : Stratum(act, v) = Stratum(act, u) => u = v \/ Sooner(u, v)}
    BY <2>3, <2>4
  <2> QED BY <2>5 DEF Leaders
<1>6. PICK R : R = ReservedOf(s, m)
  OBVIOUS
<1>7. R = IF ForceCoverage /\ m = "event_text" THEN Leaders(P, LAMBDA u : u.rel) ELSE {}
  <2>1. CASE ForceCoverage /\ m = "event_text"
    <3>1. R = s.relation
      BY <1>6, <2>1 DEF ReservedOf
    <3>2. BestFits(R, P, RelationOf)
      BY <1>1, <2>1, <3>1 DEF SamplerFits
    <3>3. PICK k : k = RelationOf
      OBVIOUS
    <3>4. R = {u \in P : \A v \in P : k[v] = k[u] => u = v \/ Sooner(u, v)}
      BY <1>1, <3>2, <3>3, BestLeads
    <3>5. \A u \in P : k[u] = u.rel
      BY <1>3, <3>3 DEF RelationOf
    <3>6. R = {u \in P : \A v \in P : v.rel = u.rel => u = v \/ Sooner(u, v)}
      BY <3>4, <3>5
    <3> QED BY <2>1, <3>6 DEF Leaders
  <2>2. CASE ~(ForceCoverage /\ m = "event_text")
    BY <1>6, <2>2 DEF ReservedOf
  <2> QED BY <2>1, <2>2
<1> DEFINE Place(u) == IF u \in R THEN <<0, u.rel>>
                       ELSE <<IF u \in S \ R THEN 1 ELSE 2, Priority[u.id]>>
           place == [u \in P |-> Place(u)]
           Ahead(v, u) == \/ place[v][1] < place[u][1]
                          \/ place[v][1] = place[u][1] /\ place[v][2] < place[u][2]
<1>8. Sample(a, m) = {u \in P : Cardinality({v \in P : Ahead(v, u)}) < RowLimit}
  BY <1>1, <1>2, <1>5, <1>7 DEF Sample
<1>9. R \subseteq P /\ S \subseteq P
  BY <1>1, <1>4, <1>6, SamplerParts
<1>10. \A u \in P : u.rel \in Int /\ Priority[u.id] \in Nat
  BY <1>3, InputsAssumption DEF UnitRow
<1>11. ASSUME NEW u \in P, NEW v \in P
       PROVE  Ahead(v, u) <=> v \in Turn(P, R, S, u)
  <2>1. place[u] = Place(u) /\ place[v] = Place(v)
    OBVIOUS
  <2>2. PICK x \in Int : x = u.rel
    BY <1>10
  <2>3. PICK y \in Int : y = v.rel
    BY <1>10
  <2>4. PICK f \in Int : f = Priority[u.id]
    BY <1>10
  <2>5. PICK g \in Int : g = Priority[v.id]
    BY <1>10
  <2>6. Sooner(v, u) <=> g < f
    BY <2>4, <2>5 DEF Sooner
  <2>7. /\ place[u][1] = IF u \in R THEN 0 ELSE IF u \in S THEN 1 ELSE 2
        /\ place[u][2] = IF u \in R THEN x ELSE f
        /\ place[v][1] = IF v \in R THEN 0 ELSE IF v \in S THEN 1 ELSE 2
        /\ place[v][2] = IF v \in R THEN y ELSE g
    BY <2>1, <2>2, <2>3, <2>4, <2>5
  <2> HIDE DEF place, Place
  <2>8. CASE u \in R
    <3>1. v \in Turn(P, R, S, u) <=> v \in R /\ y < x
      BY <2>2, <2>3, <2>8 DEF Turn
    <3> QED BY <2>7, <2>8, <3>1
  <2>9. CASE u \notin R /\ u \in S
    <3>1. v \in Turn(P, R, S, u) <=> v \in R \/ (v \in S /\ g < f)
      BY <2>6, <2>9 DEF Turn
    <3> QED BY <2>7, <2>9, <3>1
  <2>10. CASE u \notin R /\ u \notin S
    <3>1. v \in Turn(P, R, S, u) <=> v \in R \/ v \in S \/ g < f
      BY <2>6, <2>10 DEF Turn
    <3> QED BY <2>7, <2>10, <3>1
  <2> QED BY <2>8, <2>9, <2>10
<1> HIDE DEF Ahead
<1>12. ASSUME NEW u \in P PROVE {v \in P : Ahead(v, u)} = Turn(P, R, S, u)
  <2>1. Turn(P, R, S, u) \subseteq P
    BY <1>9 DEF Turn
  <2> QED BY <1>11, <2>1
<1>13. Sample(a, m) = Seated(P, R, S)
  BY <1>8, <1>12 DEF Seated
<1> QED BY <1>1, <1>4, <1>6, <1>13

\* The actors of the eligible rows among the first e.
ActorsAt(a, m, e) == BagAt([i \in DOMAIN Rows(a) |-> Rows(a)[i].node], First(a, m, e))

\* Before the first row nothing is met.
LEMMA NothingMet ==
  ASSUME NEW a, a.shards \in Seq(Seq(UnitRow)), NEW m, NEW act
  PROVE  /\ First(a, m, 0) = {} /\ Met(a, m, 0) = {} /\ CanonAt(a, 0) = {}
         /\ ActorsAt(a, m, 0) = EmptyBag /\ SamplerFits(NoSample, {}, act, m)
         /\ Fills(<< >>, {}) /\ Cardinality(First(a, m, 0)) = 0 /\ Cardinality(CanonAt(a, 0)) = 0
<1>1. Rows(a) \in Seq(UnitRow)
  BY FlattenFact DEF Rows
<1>2. \A i \in 1 .. Len(Rows(a)) : ~(i <= 0)
  BY <1>1
<1>3. First(a, m, 0) = {} /\ CanonAt(a, 0) = {}
  BY <1>2 DEF First, CanonAt
<1>4. Met(a, m, 0) = {}
  BY <1>3 DEF Met
<1>5. ActorsAt(a, m, 0) = EmptyBag
  BY <1>3, BagEmpty DEF ActorsAt
<1>6. Cardinality({}) = 0
  BY FS_EmptySet
<1>7. SamplerFits(NoSample, {}, act, m)
  <2>1. NoSample \in Samplers /\ NoSample.heap = {} /\ NoSample.stratum = {} /\ NoSample.relation = {}
    BY DEF NoSample, Samplers
  <2>2. HeapFits({}, {})
    BY <1>6, InputsAssumption DEF HeapFits
  <2>3. \A kind : BestFits({}, {}, kind)
    BY DEF BestFits
  <2> QED BY <2>1, <2>2, <2>3 DEF SamplerFits
<1>8. Fills(<< >>, {})
  BY DEF Fills, Range
<1> QED BY <1>3, <1>4, <1>5, <1>6, <1>7, <1>8

\* A scan that reconciles has met what it is to select from.
LEMMA ScanEnds ==
  ASSUME modality \in Modalities, Sound(Artifact, modality), ReaderFits(Artifact, pass, reader),
         seen.total = reader.emitted, ScanReconciles
  PROVE  /\ Met(Artifact, modality, reader.emitted)
              = IF pass = "prefix" THEN Prefix(Artifact, modality) ELSE Population(Artifact, modality)
         /\ pass # "prefix" => reader.emitted = Len(Rows(Artifact))
<1>1. PICK R \in Seq(UnitRow) : R = Rows(Artifact)
  BY FlattenFact DEF Rows, Sound
<1>2. PICK n \in Nat : n = Len(R)
  OBVIOUS
<1>3. PICK e : e = reader.emitted
  OBVIOUS
<1>4. e = IF pass = "prefix" THEN Least(RowLimit, n) ELSE n
  BY <1>1, <1>2, <1>3 DEF ScanReconciles, Wanted, TotalRows
<1>5. e \in Nat /\ e <= n
  BY <1>4, InputsAssumption DEF Least
<1>6. Met(Artifact, modality, e)
        = {R[i] : i \in {i \in 1 .. n : i <= e /\ Eligible(Artifact, modality, R[i])}}
  BY <1>1, <1>2 DEF Met, First
<1>7. Range(R) = {R[i] : i \in 1 .. n} /\ Len(R) = n
  BY <1>1, <1>2 DEF Range
<1>8. Population(Artifact, modality) = {u \in Range(R) : Eligible(Artifact, modality, u)}
  BY <1>1 DEF Population
<1>9. CASE pass = "prefix"
  <2>1. e = Least(RowLimit, n)
    BY <1>4, <1>9
  <2>2. PICK s : s = SubSeq(R, 1, e)
    OBVIOUS
  <2>3. s \in Seq(UnitRow) /\ Len(s) = e /\ \A i \in 1 .. e : s[i] = R[i]
    <3>1. /\ SubSeq(R, 0 + 1, e) \in Seq(UnitRow) /\ Len(SubSeq(R, 0 + 1, e)) = e - 0
          /\ \A i \in 1 .. e - 0 : SubSeq(R, 0 + 1, e)[i] = R[0 + i]
      BY <1>2, <1>5, PartFact
    <3>2. e - 0 = e /\ \A i \in 1 .. e : 0 + i = i
      BY <1>5
    <3> QED BY <2>2, <3>1, <3>2
  <2>4. Range(s) = {R[i] : i \in 1 .. e}
    BY <2>3 DEF Range
  <2>5. Prefix(Artifact, modality) = Range(s) \cap Population(Artifact, modality)
    BY <1>1, <1>2, <2>1, <2>2 DEF Prefix, TotalRows
  <2>6. \A i : (i \in 1 .. n /\ i <= e) <=> i \in 1 .. e
    BY <1>5
  <2>7. ASSUME NEW u PROVE u \in Met(Artifact, modality, e) <=> u \in Prefix(Artifact, modality)
    <3>1. u \in Met(Artifact, modality, e)
            <=> \E i \in 1 .. n : i <= e /\ Eligible(Artifact, modality, R[i]) /\ u = R[i]
      BY <1>6
    <3>2. u \in Prefix(Artifact, modality)
            <=> (\E i \in 1 .. e : u = R[i]) /\ (\E i \in 1 .. n : u = R[i])
                  /\ Eligible(Artifact, modality, u)
      BY <1>7, <1>8, <2>4, <2>5
    <3> QED BY <2>6, <3>1, <3>2
  <2> QED BY <1>3, <1>9, <2>7
<1>10. CASE pass # "prefix"
  <2>1. e = n
    BY <1>4, <1>10
  <2>2. \A i \in 1 .. n : i <= e
    BY <2>1
  <2>3. Met(Artifact, modality, e) = Population(Artifact, modality)
    BY <1>6, <1>7, <1>8, <2>2
  <2> QED BY <1>1, <1>2, <1>3, <1>10, <2>1, <2>3
<1> QED BY <1>9, <1>10

\* The first pass counts the actors of the population.
LEMMA WholeActors ==
  ASSUME NEW a, a.shards \in Seq(Seq(UnitRow)), NEW m
  PROVE  ActorsAt(a, m, Len(Rows(a))) = Actors(a, m)
<1>1. PICK R \in Seq(UnitRow) : R = Rows(a)
  BY FlattenFact DEF Rows
<1>2. DOMAIN R = 1 .. Len(R) /\ \A i \in 1 .. Len(R) : i <= Len(R)
  BY <1>1
<1>3. First(a, m, Len(R)) = {i \in DOMAIN R : Eligible(a, m, R[i])}
  BY <1>1, <1>2 DEF First
<1> QED BY <1>1, <1>3 DEF ActorsAt, Actors

\* A prefix run appends the new units.
LEMMA FillsMore ==
  ASSUME NEW P, NEW c, Fills(c, P), NEW units \in Seq(UnitRow),
         Distinct(P \cup {units[k] : k \in 1 .. Len(units)}),
         \A k \in 1 .. Len(units) : units[k] \notin P,
         \A j, k \in 1 .. Len(units) : units[j].id = units[k].id => j = k
  PROVE  Fills(c \o units, P \cup {units[k] : k \in 1 .. Len(units)})
<1>1. c \in Seq(UnitRow) /\ \A i, j \in 1 .. Len(c) : c[i].id = c[j].id => i = j
  BY DEF Fills
<1>2. PICK n \in Nat : n = Len(c)
  BY <1>1
<1>3. PICK k \in Nat : k = Len(units)
  OBVIOUS
<1>4. PICK r \in Seq(UnitRow) : r = c \o units
  <2>1. c \o units \in Seq(UnitRow)
    BY <1>1, ConcatProperties
  <2> QED BY <2>1
<1>5. Len(r) = n + k /\ \A i \in 1 .. n + k : r[i] = IF i <= n THEN c[i] ELSE units[i - n]
  <2>1. /\ Len(r) = Len(c) + Len(units)
        /\ \A i \in 1 .. Len(c) + Len(units) :
             r[i] = IF i <= Len(c) THEN c[i] ELSE units[i - Len(c)]
    BY <1>1, <1>4, ConcatProperties
  <2>2. n + k = Len(c) + Len(units)
    BY <1>2, <1>3
  <2>3. PICK D : D = 1 .. n + k
    OBVIOUS
  <2>4. D = 1 .. Len(c) + Len(units)
    BY <2>2, <2>3
  <2>5. \A i \in D : r[i] = IF i <= n THEN c[i] ELSE units[i - n]
    BY <1>2, <2>1, <2>4
  <2> QED BY <2>1, <2>2, <2>3, <2>5
<1>6. PICK Q : Q = {units[j] : j \in 1 .. k}
  OBVIOUS
<1>7. P = {c[i] : i \in 1 .. n}
  <2>1. P = {c[i] : i \in DOMAIN c}
    BY DEF Fills, Range
  <2>2. DOMAIN c = 1 .. n
    BY <1>1, <1>2
  <2> QED BY <2>1, <2>2
<1>8. \A i \in 1 .. n : i \in 1 .. n + k /\ r[i] = c[i] /\ c[i] \in P
  <2>1. \A i \in 1 .. n : i \in 1 .. n + k /\ i <= n
    OBVIOUS
  <2>2. ASSUME NEW i \in 1 .. n PROVE r[i] = c[i]
    BY <1>5, <2>1
  <2> QED BY <1>7, <2>1, <2>2
<1>9. \A j \in 1 .. k : n + j \in 1 .. n + k /\ r[n + j] = units[j] /\ units[j] \in Q
  <2>1. \A j \in 1 .. k : n + j \in 1 .. n + k /\ ~(n + j <= n) /\ (n + j) - n = j
    OBVIOUS
  <2> QED BY <1>5, <1>6, <2>1
<1>10. \A i \in 1 .. n + k : i \in 1 .. n \/ \E j \in 1 .. k : i = n + j
  <2> SUFFICES ASSUME NEW i \in 1 .. n + k, i \notin 1 .. n PROVE \E j \in 1 .. k : i = n + j
    OBVIOUS
  <2>1. i - n \in 1 .. k /\ i = n + (i - n)
    OBVIOUS
  <2> QED BY <2>1
<1>11. PICK D : D = 1 .. n + k
  OBVIOUS
<1>12. {r[i] : i \in D} = P \cup Q
  <2>1. ASSUME NEW i \in D PROVE r[i] \in P \cup Q
    <3>1. CASE i \in 1 .. n
      BY <1>8, <3>1
    <3>2. CASE \E j \in 1 .. k : i = n + j
      BY <1>9, <3>2
    <3> QED BY <1>10, <1>11, <3>1, <3>2
  <2>2. \A u \in P : \E i \in D : r[i] = u
    BY <1>7, <1>8, <1>11
  <2>3. ASSUME NEW u \in Q PROVE \E i \in D : r[i] = u
    <3>1. PICK j \in 1 .. k : units[j] = u
      BY <1>6, <2>3
    <3>2. n + j \in D /\ r[n + j] = u
      BY <1>9, <1>11, <3>1
    <3> QED BY <3>2
  <2> QED BY <2>1, <2>2, <2>3
<1>13. DOMAIN r = D
  BY <1>5, <1>11
<1>14. Range(r) = P \cup Q
  BY <1>12, <1>13 DEF Range
<1>15. ASSUME NEW i \in D, NEW j \in D, r[i].id = r[j].id PROVE i = j
  <2>1. \A u, v \in P \cup Q : u.id = v.id => u = v
    BY <1>3, <1>6 DEF Distinct
  <2>2. \A u \in Q : u \notin P
    BY <1>3, <1>6
  <2>3. r[i] = r[j]
    BY <1>12, <1>15, <2>1
  <2>4. CASE i \in 1 .. n /\ j \in 1 .. n
    BY <1>1, <1>2, <1>8, <1>15, <2>4
  <2>5. CASE i \in 1 .. n /\ j \notin 1 .. n
    <3>1. PICK y \in 1 .. k : j = n + y
      BY <1>10, <1>11, <2>5
    <3>2. r[j] \in Q /\ r[i] \in P
      BY <1>8, <1>9, <2>5, <3>1
    <3> QED BY <2>2, <2>3, <3>2
  <2>6. CASE i \notin 1 .. n /\ j \in 1 .. n
    <3>1. PICK x \in 1 .. k : i = n + x
      BY <1>10, <1>11, <2>6
    <3>2. r[i] \in Q /\ r[j] \in P
      BY <1>8, <1>9, <2>6, <3>1
    <3> QED BY <2>2, <2>3, <3>2
  <2>7. CASE i \notin 1 .. n /\ j \notin 1 .. n
    <3>1. PICK x \in 1 .. k : i = n + x
      BY <1>10, <1>11, <2>7
    <3>2. PICK y \in 1 .. k : j = n + y
      BY <1>10, <1>11, <2>7
    <3>3. units[x].id = units[y].id
      BY <1>9, <1>15, <3>1, <3>2
    <3>4. x = y
      BY <1>3, <3>3
    <3> QED BY <3>1, <3>2, <3>4
  <2> QED BY <2>4, <2>5, <2>6, <2>7
<1> QED BY <1>3, <1>4, <1>6, <1>13, <1>14, <1>15 DEF Fills

\* The inductive invariant of the selection: what a scan has seen, counted,
\* kept and chosen so far, what the passes hand to each other, and that a
\* selection made is right.
SelectionType ==
  /\ source \in Sources /\ mode \in Modes /\ modality \in Modalities
  /\ seen \in [total : Nat, canonical : Nat, eligible : Nat, first : Nat]
  /\ DOMAIN chosen = Modalities
  /\ stage \in {"open", "scan"} => /\ pass \in {"prefix", "count", "sample"}
                                   /\ pass = "prefix" <=> mode = "mock"

ScanFits ==
  stage = "scan" =>
    /\ Sound(Artifact, modality) /\ ReaderFits(Artifact, pass, reader)
    /\ seen.total = reader.emitted
    /\ seen.eligible = Cardinality(First(Artifact, modality, reader.emitted))
    /\ modality = "node_text" => seen.canonical = Cardinality(CanonAt(Artifact, reader.emitted))
    /\ pass = "prefix" => Fills(chosen[modality], Met(Artifact, modality, reader.emitted))
    /\ pass = "count" => activity = ActorsAt(Artifact, modality, reader.emitted)
    /\ pass = "sample" =>
         /\ activity = Actors(Artifact, modality)
         /\ SamplerFits(sampler, Met(Artifact, modality, reader.emitted), activity, modality)

OpenFits ==
  stage = "open" => /\ pass = "prefix" => chosen[modality] = << >>
                    /\ pass = "count" => activity = EmptyBag
                    /\ pass = "sample" => activity = Actors(Artifact, modality)

RightFor(c, md, a, m) ==
  /\ Fills(c, IF md = "mock" THEN Prefix(a, m) ELSE Sample(a, m))
  /\ md = "qwen" => \A row \in Range(Rows(a)) :
                      HasText(row) => \E u \in Population(a, m) : u.id = row.id

DoneFits ==
  /\ stage \in {"open", "scan"} /\ modality = "node_text" => chosen["event_text"] = << >>
  /\ stage \in {"open", "scan"} /\ modality = "event_text" =>
       RightFor(chosen["node_text"], mode, source["node_text"], "node_text")
  /\ stage \notin {"open", "scan", "failed"} =>
       \A m \in Modalities : RightFor(chosen[m], mode, source[m], m)

SelectionInv == SelectionType /\ ScanFits /\ OpenFits /\ DoneFits

\* It holds at first.
LEMMA SelectionInit ==
  ASSUME InputInit
  PROVE  SelectionInv
<1>1. /\ source \in Sources /\ mode \in Modes /\ modality = "node_text" /\ pass = FirstPass
      /\ stage = "open" /\ seen = NoneSeen /\ activity = EmptyBag
      /\ chosen = [m \in Modalities |-> << >>]
  BY DEF InputInit
<1>2. mode \in {"mock", "qwen"}
  BY <1>1, InputsAssumption
<1>3. SelectionType
  BY <1>1, <1>2 DEF SelectionType, Modalities, NoneSeen, FirstPass
<1>4. ScanFits
  BY <1>1 DEF ScanFits
<1>5. OpenFits
  BY <1>1, <1>2 DEF OpenFits, Modalities, FirstPass
<1>6. DoneFits
  BY <1>1 DEF DoneFits, Modalities
<1> QED BY <1>3, <1>4, <1>5, <1>6 DEF SelectionInv

\* Opening a source starts a scan that has seen nothing.
LEMMA OpenKeeps ==
  ASSUME SelectionInv, Open
  PROVE  SelectionInv'
<1>1. /\ stage = "open" /\ stage' = (IF Openable THEN "scan" ELSE "failed")
      /\ reader' = AtStart /\ seen' = [NoneSeen EXCEPT !.first = seen.eligible]
      /\ sampler' = NoSample /\ source' = source /\ mode' = mode /\ modality' = modality
      /\ pass' = pass /\ activity' = activity /\ chosen' = chosen
  BY DEF Open
<1>2. SelectionType /\ OpenFits /\ DoneFits
  BY DEF SelectionInv
<1>3. PICK a : a = Artifact
  OBVIOUS
<1>4. PICK m \in Modalities : m = modality
  BY <1>2 DEF SelectionType
<1>5. Artifact' = a /\ modality' = m
  BY <1>1, <1>3, <1>4 DEF Artifact
<1>6. seen.eligible \in Nat
  BY <1>2 DEF SelectionType
<1>7. /\ seen'.total = 0 /\ seen'.canonical = 0 /\ seen'.eligible = 0
      /\ seen' \in [total : Nat, canonical : Nat, eligible : Nat, first : Nat]
  BY <1>1, <1>6 DEF NoneSeen
<1>8. SelectionType'
  BY <1>1, <1>2, <1>7 DEF SelectionType
<1>9. ScanFits'
  <2> SUFFICES ASSUME stage' = "scan" PROVE ScanFits'
    BY DEF ScanFits
  <2>1. Openable
    BY <1>1
  <2>2. source \in Sources /\ IdentityHolds(source[m]) /\ a = source[m]
        /\ (m = "node_text" => ReportHolds(source[m]))
    BY <1>2, <1>3, <1>4, <2>1 DEF Openable, Artifact, SelectionType
  <2>3. Sound(a, m)
    BY <2>2, OpenedSound
  <2>4. a.shards \in Seq(Seq(UnitRow))
    BY <2>3 DEF Sound
  <2>5. ReaderFits(a, pass, AtStart)
    BY <2>4, ReaderStarts
  <2>6. AtStart.emitted = 0
    BY DEF AtStart
  <2>7. /\ Met(a, m, 0) = {} /\ ActorsAt(a, m, 0) = EmptyBag
        /\ Fills(<< >>, {}) /\ Cardinality(First(a, m, 0)) = 0 /\ Cardinality(CanonAt(a, 0)) = 0
    BY <2>4, NothingMet
  <2>8. SamplerFits(NoSample, {}, activity, m)
    BY <2>4, NothingMet
  <2>9. reader'.emitted = 0
    BY <1>1, <2>6
  <2>10. pass' = "prefix" => Fills(chosen'[m], Met(a, m, 0))
    BY <1>1, <1>2, <1>4, <2>7 DEF OpenFits
  <2>11. pass' = "count" => activity' = ActorsAt(a, m, 0)
    BY <1>1, <1>2, <1>4, <2>7 DEF OpenFits
  <2>12. pass' = "sample" =>
           activity' = Actors(a, m) /\ SamplerFits(sampler', Met(a, m, 0), activity', m)
    BY <1>1, <1>2, <1>3, <1>4, <2>7, <2>8 DEF OpenFits
  <2> QED BY <1>1, <1>5, <1>7, <2>3, <2>5, <2>7, <2>9, <2>10, <2>11, <2>12 DEF ScanFits
<1>10. OpenFits'
  BY <1>1 DEF OpenFits
<1>11. DoneFits'
  <2>1. stage' = "scan" \/ stage' = "failed"
    BY <1>1
  <2> QED BY <1>1, <1>2, <2>1 DEF DoneFits
<1> QED BY <1>8, <1>9, <1>10, <1>11 DEF SelectionInv

\* A batch extends everything by the units of its rows.
LEMMA ReadBatchKeeps ==
  ASSUME SelectionInv, ReadBatch
  PROVE  SelectionInv'
<1>1. PICK units : units = EligibleRows(NextRows)
  OBVIOUS
<1>2. /\ stage = "scan" /\ ~Drained /\ BatchHolds(modality, NextRows)
      /\ seen' = [seen EXCEPT !.total = @ + Len(NextRows), !.eligible = @ + Len(units),
                              !.canonical = @ + CanonicalSeen(NextRows)]
      /\ activity' = (IF pass # "count" THEN activity
                      ELSE activity (+) BagAt([i \in DOMAIN units |-> units[i].node], DOMAIN units))
      /\ sampler' = (IF pass = "sample" THEN FoldLeft(Add, sampler, units) ELSE sampler)
      /\ chosen' = (IF pass = "prefix" THEN [chosen EXCEPT ![modality] = @ \o units] ELSE chosen)
      /\ reader' = Advanced
      /\ source' = source /\ mode' = mode /\ stage' = stage /\ modality' = modality /\ pass' = pass
  BY <1>1 DEF ReadBatch
<1>3. SelectionType /\ ScanFits /\ DoneFits
  BY DEF SelectionInv
<1>4. PICK a : a = Artifact
  OBVIOUS
<1>5. PICK m \in Modalities : m = modality
  BY <1>3 DEF SelectionType
<1>6. Artifact' = a /\ modality' = m
  BY <1>2, <1>4, <1>5 DEF Artifact
<1>7. PICK e : e = reader.emitted
  OBVIOUS
<1>8. PICK f : f = Advanced.emitted
  OBVIOUS
<1>9. /\ Sound(a, m) /\ ReaderFits(a, pass, reader) /\ seen.total = e
      /\ seen.eligible = Cardinality(First(a, m, e))
      /\ m = "node_text" => seen.canonical = Cardinality(CanonAt(a, e))
      /\ pass = "prefix" => Fills(chosen[m], Met(a, m, e))
      /\ pass = "count" => activity = ActorsAt(a, m, e)
      /\ pass = "sample" => activity = Actors(a, m) /\ SamplerFits(sampler, Met(a, m, e), activity, m)
  BY <1>2, <1>3, <1>4, <1>5, <1>7 DEF ScanFits
<1>10. a.shards \in Seq(Seq(UnitRow))
  BY <1>9 DEF Sound
<1>11. NextRows \in Seq(UnitRow) /\ f = e + Len(NextRows) /\ ReaderFits(a, pass, Advanced)
  BY <1>2, <1>4, <1>7, <1>8, <1>9, <1>10, BatchFact
<1>12. /\ units \in Seq(UnitRow) /\ e \in Nat /\ f \in Nat
       /\ First(a, m, f) = First(a, m, e) \cup NewAt(a, m, e, f)
       /\ First(a, m, e) \cap NewAt(a, m, e, f) = {} /\ IsFiniteSet(NewAt(a, m, e, f))
       /\ Cardinality(First(a, m, f)) = Cardinality(First(a, m, e)) + Len(units)
       /\ Met(a, m, f) = Met(a, m, e) \cup {units[k] : k \in 1 .. Len(units)}
       /\ \A k \in 1 .. Len(units) : units[k] \notin Met(a, m, e)
       /\ \A j, k \in 1 .. Len(units) : units[j].id = units[k].id => j = k
       /\ BagAt([k \in DOMAIN units |-> units[k].node], DOMAIN units)
            = BagAt([i \in DOMAIN Rows(a) |-> Rows(a)[i].node], NewAt(a, m, e, f))
  BY <1>1, <1>2, <1>4, <1>5, <1>7, <1>8, <1>9, BatchAdds
<1>13. Distinct(Met(a, m, f)) /\ IsFiniteSet(First(a, m, e))
  BY <1>5, <1>9, MetFact
<1>14. CanonicalSeen(NextRows) \in Nat
  <2>1. CASE m = "node_text"
    BY <1>2, <1>4, <1>5, <1>7, <1>8, <1>9, <2>1, BatchCanonical
  <2>2. CASE m # "node_text"
    BY <1>5, <2>2 DEF CanonicalSeen, Modalities
  <2> QED BY <2>1, <2>2
<1>15. Len(NextRows) \in Nat /\ Len(units) \in Nat
  BY <1>11, <1>12
<1>16. seen \in [total : Nat, canonical : Nat, eligible : Nat, first : Nat]
  BY <1>3 DEF SelectionType
<1>17. /\ seen' \in [total : Nat, canonical : Nat, eligible : Nat, first : Nat]
       /\ seen'.total = seen.total + Len(NextRows)
       /\ seen'.eligible = seen.eligible + Len(units)
       /\ seen'.canonical = seen.canonical + CanonicalSeen(NextRows)
  <2>1. PICK x \in Nat : x = Len(NextRows)
    BY <1>15
  <2>2. PICK y \in Nat : y = Len(units)
    BY <1>15
  <2>3. PICK z \in Nat : z = CanonicalSeen(NextRows)
    BY <1>14
  <2>4. seen' = [seen EXCEPT !.total = @ + x, !.eligible = @ + y, !.canonical = @ + z]
    BY <1>2, <2>1, <2>2, <2>3
  <2>5. /\ seen'.total = seen.total + x /\ seen'.eligible = seen.eligible + y
        /\ seen'.canonical = seen.canonical + z /\ seen'.first = seen.first
    BY <1>16, <2>4
  <2>6. /\ seen.total + x \in Nat /\ seen.eligible + y \in Nat
        /\ seen.canonical + z \in Nat /\ seen.first \in Nat
    BY <1>16
  <2>7. seen' \in [total : Nat, canonical : Nat, eligible : Nat, first : Nat]
    BY <1>16, <2>4, <2>6
  <2> QED BY <2>1, <2>2, <2>3, <2>5, <2>7
<1>18. DOMAIN chosen' = Modalities /\ \A n \in Modalities : n # m => chosen'[n] = chosen[n]
  BY <1>2, <1>3, <1>5 DEF SelectionType
<1>19. SelectionType'
  BY <1>2, <1>3, <1>17, <1>18 DEF SelectionType
<1>20. ScanFits'
  <2>1. reader' = Advanced /\ reader'.emitted = f
    BY <1>2, <1>8
  <2>2. seen'.total = f
    BY <1>9, <1>11, <1>17
  <2>3. seen'.eligible = Cardinality(First(a, m, f))
    BY <1>9, <1>12, <1>17
  <2>4. m = "node_text" => seen'.canonical = Cardinality(CanonAt(a, f))
    BY <1>2, <1>4, <1>5, <1>7, <1>8, <1>9, <1>17, BatchCanonical
  <2>5. Distinct(Met(a, m, e) \cup {units[k] : k \in 1 .. Len(units)})
    BY <1>12, <1>13
  <2>6. pass' = "prefix" => Fills(chosen'[m], Met(a, m, f))
    <3> SUFFICES ASSUME pass = "prefix" PROVE Fills(chosen'[m], Met(a, m, f))
      BY <1>2
    <3>1. chosen'[m] = chosen[m] \o units
      BY <1>2, <1>3, <1>5 DEF SelectionType
    <3>2. PICK P : P = Met(a, m, e)
      OBVIOUS
    <3>3. PICK c : c = chosen[m]
      OBVIOUS
    <3>4. Fills(c, P)
      BY <1>9, <3>2, <3>3
    <3>5. \A k \in 1 .. Len(units) : units[k] \notin P
      BY <1>12, <3>2
    <3>6. Distinct(P \cup {units[k] : k \in 1 .. Len(units)})
      BY <2>5, <3>2
    <3>7. \A j, k \in 1 .. Len(units) : units[j].id = units[k].id => j = k
      BY <1>12
    <3>8. units \in Seq(UnitRow)
      BY <1>12
    <3>9. Fills(c \o units, P \cup {units[k] : k \in 1 .. Len(units)})
      BY <3>4, <3>5, <3>6, <3>7, <3>8, FillsMore
    <3> QED BY <1>12, <3>1, <3>2, <3>3, <3>9
  <2>7. pass' = "count" => activity' = ActorsAt(a, m, f)
    <3> SUFFICES ASSUME pass = "count" PROVE activity' = ActorsAt(a, m, f)
      BY <1>2
    <3>1. PICK s : s = [i \in DOMAIN Rows(a) |-> Rows(a)[i].node]
      OBVIOUS
    <3>2. PICK I : I = First(a, m, e)
      OBVIOUS
    <3>3. PICK J : J = NewAt(a, m, e, f)
      OBVIOUS
    <3>4. activity' = BagAt(s, I) (+) BagAt(s, J)
      BY <1>2, <1>9, <1>12, <3>1, <3>2, <3>3 DEF ActorsAt
    <3>5. IsFiniteSet(I) /\ IsFiniteSet(J) /\ I \cap J = {} /\ First(a, m, f) = I \cup J
      BY <1>12, <1>13, <3>2, <3>3
    <3>6. BagAt(s, I) (+) BagAt(s, J) = BagAt(s, I \cup J)
      BY <3>5, BagUnion2
    <3> QED BY <3>1, <3>4, <3>5, <3>6 DEF ActorsAt
  <2>8. pass' = "sample" =>
          activity' = Actors(a, m) /\ SamplerFits(sampler', Met(a, m, f), activity', m)
    <3> SUFFICES ASSUME pass = "sample"
                 PROVE  activity' = Actors(a, m) /\ SamplerFits(sampler', Met(a, m, f), activity', m)
      BY <1>2
    <3>1. PICK P : P = Met(a, m, e)
      OBVIOUS
    <3>2. SamplerFits(sampler, P, activity, modality)
      BY <1>5, <1>9, <3>1
    <3>3. PICK s : s = sampler
      OBVIOUS
    <3>4. \A j, k \in 1 .. Len(units) : units[j] = units[k] => j = k
      BY <1>12
    <3>5. \A k \in 1 .. Len(units) : units[k] \notin P
      BY <1>12, <3>1
    <3>6. Distinct(P \cup {units[k] : k \in 1 .. Len(units)}) /\ units \in Seq(UnitRow)
      BY <1>12, <2>5, <3>1
    <3>7. SamplerFits(FoldLeft(Add, s, units), P \cup {units[k] : k \in 1 .. Len(units)},
                      activity, modality)
      BY <3>2, <3>3, <3>4, <3>5, <3>6, AddBatch
    <3>8. sampler' = FoldLeft(Add, s, units) /\ activity' = activity
      BY <1>2, <3>3
    <3> QED BY <1>5, <1>9, <1>12, <3>1, <3>7, <3>8
  <2> QED BY <1>2, <1>6, <1>9, <1>11, <2>1, <2>2, <2>3, <2>4, <2>6, <2>7, <2>8 DEF ScanFits
<1>21. OpenFits'
  BY <1>2 DEF OpenFits
<1>22. DoneFits'
  <2>1. m = "event_text" => chosen'["node_text"] = chosen["node_text"]
    BY <1>18 DEF Modalities
  <2>2. m = "node_text" => chosen'["event_text"] = chosen["event_text"]
    BY <1>18 DEF Modalities
  <2> QED BY <1>2, <1>3, <1>5, <2>1, <2>2 DEF DoneFits
<1> QED BY <1>19, <1>20, <1>21, <1>22 DEF SelectionInv

\* The first pass hands the activity of the whole population to the second.
LEMMA CountedKeeps ==
  ASSUME SelectionInv, Counted
  PROVE  SelectionInv'
<1>1. /\ stage = "scan" /\ ScanReconciles /\ pass = "count" /\ stage' = "open" /\ pass' = "sample"
      /\ source' = source /\ mode' = mode /\ modality' = modality /\ reader' = reader
      /\ seen' = seen /\ activity' = activity /\ chosen' = chosen
  BY DEF Counted
<1>2. SelectionType /\ ScanFits /\ DoneFits
  BY DEF SelectionInv
<1>3. PICK a : a = Artifact
  OBVIOUS
<1>4. PICK m \in Modalities : m = modality
  BY <1>2 DEF SelectionType
<1>5. Artifact' = a /\ modality' = m
  BY <1>1, <1>3, <1>4 DEF Artifact
<1>6. /\ Sound(a, m) /\ ReaderFits(a, pass, reader) /\ seen.total = reader.emitted
      /\ activity = ActorsAt(a, m, reader.emitted)
  BY <1>1, <1>2, <1>3, <1>4 DEF ScanFits
<1>7. reader.emitted = Len(Rows(a))
  BY <1>1, <1>3, <1>4, <1>6, ScanEnds
<1>8. activity = Actors(a, m)
  BY <1>6, <1>7, WholeActors DEF Sound
<1>9. SelectionType'
  BY <1>1, <1>2 DEF SelectionType
<1>10. OpenFits'
  BY <1>1, <1>5, <1>8 DEF OpenFits
<1>11. ScanFits' /\ DoneFits'
  BY <1>1, <1>2 DEF ScanFits, DoneFits
<1> QED BY <1>9, <1>10, <1>11 DEF SelectionInv

\* What is selected at the end of a scan is right.
LEMMA SelectedRight ==
  ASSUME SelectionInv, stage = "scan", ScanReconciles, pass # "count"
  PROVE  RightFor(IF pass = "sample" THEN Finish ELSE chosen[modality],
                  mode, source[modality], modality)
<1>1. SelectionType /\ ScanFits
  BY DEF SelectionInv
<1>2. PICK a : a = Artifact
  OBVIOUS
<1>3. PICK m \in Modalities : m = modality
  BY <1>1 DEF SelectionType
<1>4. PICK e : e = reader.emitted
  OBVIOUS
<1>5. source[modality] = a
  BY <1>2 DEF Artifact
<1>6. /\ Sound(a, m) /\ ReaderFits(a, pass, reader) /\ seen.total = e
      /\ seen.eligible = Cardinality(First(a, m, e))
      /\ m = "node_text" => seen.canonical = Cardinality(CanonAt(a, e))
      /\ pass = "prefix" => Fills(chosen[m], Met(a, m, e))
      /\ pass = "sample" => activity = Actors(a, m) /\ SamplerFits(sampler, Met(a, m, e), activity, m)
  BY <1>1, <1>2, <1>3, <1>4 DEF ScanFits
<1>7. /\ Met(a, m, e) = (IF pass = "prefix" THEN Prefix(a, m) ELSE Population(a, m))
      /\ pass # "prefix" => e = Len(Rows(a))
  BY <1>2, <1>3, <1>4, <1>6, ScanEnds
<1>8. /\ pass = "prefix" \/ pass = "sample"
      /\ pass = "prefix" <=> mode = "mock"
  BY <1>1 DEF SelectionType
<1>9. CASE pass = "prefix"
  <2>1. mode = "mock" /\ mode # "qwen" /\ pass # "sample"
    BY <1>8, <1>9
  <2>2. Fills(chosen[m], Prefix(a, m))
    BY <1>6, <1>7, <1>9
  <2> QED BY <1>3, <1>5, <2>1, <2>2 DEF RightFor
<1>10. CASE pass = "sample"
  <2>1. mode # "mock" /\ pass # "prefix"
    BY <1>8, <1>10
  <2>2. PICK P : P = Population(a, m)
    OBVIOUS
  <2>3. Met(a, m, e) = P /\ e = Len(Rows(a))
    BY <1>7, <2>1, <2>2
  <2>4. Distinct(P) /\ Cardinality(P) = Cardinality(First(a, m, e))
    BY <1>3, <1>6, <2>3, MetFact
  <2>5. SamplerFits(sampler, P, activity, modality) /\ activity = Actors(a, m)
    BY <1>3, <1>6, <1>10, <2>3
  <2>6. Fills(Finish, Seated(P, ReservedOf(sampler, modality), sampler.stratum))
    BY <1>3, <1>6, <2>4, <2>5, FinishFact
  <2>7. Sample(a, m) = Seated(P, ReservedOf(sampler, m), sampler.stratum)
    BY <1>3, <2>2, <2>4, <2>5, SampleIs
  <2>8. Fills(Finish, Sample(a, m))
    BY <1>3, <2>6, <2>7
  <2>9. ASSUME NEW row \in Range(Rows(a)), HasText(row)
        PROVE  \E u \in Population(a, m) : u.id = row.id
    <3>1. CASE m = "event_text"
      <4>1. row \in Population(a, m)
        BY <2>9, <3>1 DEF Population, Eligible
      <4> QED BY <4>1
    <3>2. CASE m = "node_text"
      <4>1. seen.total = TotalRows(Artifact)
        BY <1>2, <1>6, <2>3 DEF TotalRows
      <4>2. seen.canonical = Cardinality(a.duplicates)
        BY <1>2, <1>3, <3>2, <4>1 DEF ScanReconciles, Groups
      <4>3. Cardinality(CanonAt(a, Len(Rows(a)))) = Cardinality(a.duplicates)
        BY <1>6, <2>3, <3>2, <4>2
      <4> QED BY <1>6, <2>9, <3>2, <4>3, NoneMissed
    <3> QED BY <3>1, <3>2 DEF Modalities
  <2> QED BY <1>3, <1>5, <1>10, <2>1, <2>8, <2>9 DEF RightFor
<1> QED BY <1>8, <1>9, <1>10

\* So the selection of a modality is done when its scan ends.
LEMMA SelectedKeeps ==
  ASSUME SelectionInv, Selected
  PROVE  SelectionInv'
<1>1. /\ stage = "scan" /\ ScanReconciles /\ pass # "count"
      /\ source' = source /\ mode' = mode
  BY DEF Selected
<1>2. SelectionType /\ DoneFits
  BY DEF SelectionInv
<1>3. PICK c : c = IF pass = "sample" THEN Finish ELSE chosen[modality]
  OBVIOUS
<1>4. RightFor(c, mode, source[modality], modality)
  BY <1>1, <1>3, SelectedRight
<1>5. mode \in {"mock", "qwen"} /\ modality \in Modalities /\ DOMAIN chosen = Modalities
  BY <1>2, InputsAssumption DEF SelectionType
<1>6. CASE pass = "sample" /\ SampleRefused
  <2>1. /\ stage' = "failed" /\ modality' = modality /\ pass' = pass /\ seen' = seen
        /\ activity' = activity /\ chosen' = chosen
    BY <1>6 DEF Selected
  <2> QED BY <1>1, <1>2, <2>1 DEF SelectionInv, SelectionType, ScanFits, OpenFits, DoneFits
<1>7. CASE ~(pass = "sample" /\ SampleRefused)
  <2>1. /\ chosen' = (IF pass = "sample" THEN [chosen EXCEPT ![modality] = Finish] ELSE chosen)
        /\ stage' = (IF modality = "node_text" THEN "open" ELSE "chunk")
        /\ modality' = (IF modality = "node_text" THEN "event_text" ELSE "node_text")
        /\ pass' = FirstPass /\ seen' = NoneSeen /\ activity' = EmptyBag
    BY <1>7 DEF Selected
  <2>2. /\ DOMAIN chosen' = Modalities /\ chosen'[modality] = c
        /\ \A m \in Modalities : m # modality => chosen'[m] = chosen[m]
    BY <1>3, <1>5, <2>1
  <2>3. FirstPass = IF mode = "mock" THEN "prefix" ELSE "count"
    BY DEF FirstPass
  <2>4. SelectionType'
    BY <1>1, <1>2, <1>5, <2>1, <2>2, <2>3 DEF SelectionType, Modalities, NoneSeen
  <2>5. ScanFits'
    BY <2>1 DEF ScanFits
  <2>6. modality = "node_text" => chosen'["event_text"] = << >>
    BY <1>1, <1>2, <2>2 DEF DoneFits, Modalities
  <2>7. OpenFits'
    BY <2>1, <2>3, <2>6 DEF OpenFits
  <2>8. CASE modality = "node_text"
    <3>1. stage' = "open" /\ modality' = "event_text"
      BY <2>1, <2>8
    <3>2. RightFor(chosen'["node_text"], mode', source'["node_text"], "node_text")
      BY <1>1, <1>4, <2>2, <2>8
    <3>3. DoneFits'
      BY <3>1, <3>2 DEF DoneFits
    <3> QED BY <2>4, <2>5, <2>7, <3>3 DEF SelectionInv
  <2>9. CASE modality = "event_text"
    <3>1. stage' = "chunk"
      BY <2>1, <2>9
    <3>2. RightFor(chosen'["event_text"], mode', source'["event_text"], "event_text")
      BY <1>1, <1>4, <2>2, <2>9
    <3>3. RightFor(chosen'["node_text"], mode', source'["node_text"], "node_text")
      BY <1>1, <1>2, <2>2, <2>9 DEF DoneFits, Modalities
    <3>4. DoneFits'
      BY <3>1, <3>2, <3>3 DEF DoneFits, Modalities
    <3> QED BY <2>4, <2>5, <2>7, <3>4 DEF SelectionInv
  <2> QED BY <1>5, <2>8, <2>9 DEF Modalities
<1> QED BY <1>6, <1>7

\* After the selection nothing of it changes.
LEMMA SelectionStays ==
  ASSUME SelectionInv, stage' \notin {"open", "scan"},
         stage \notin {"open", "scan"} \/ stage' = "failed",
         stage = "failed" => stage' = "failed",
         source' = source, mode' = mode, modality' \in Modalities, seen' = seen, chosen' = chosen
  PROVE  SelectionInv'
<1>1. SelectionType'
  BY DEF SelectionInv, SelectionType
<1>2. ScanFits' /\ OpenFits'
  BY DEF ScanFits, OpenFits
<1>3. DoneFits'
  BY DEF SelectionInv, DoneFits
<1> QED BY <1>1, <1>2, <1>3 DEF SelectionInv

\* Every step of the pipeline keeps the invariant.
LEMMA SelectionStep ==
  ASSUME SelectionInv, InputStep
  PROVE  SelectionInv'
<1>1. modality \in Modalities
  BY DEF SelectionInv, SelectionType
<1>2. CASE Open
  BY <1>2, OpenKeeps
<1>3. CASE ReadBatch
  BY <1>3, ReadBatchKeeps
<1>4. CASE Counted
  BY <1>4, CountedKeeps
<1>5. CASE Selected
  BY <1>5, SelectedKeeps
<1>6. CASE BadBatch \/ ScanRejected
  BY <1>1, <1>6, SelectionStays DEF BadBatch, ScanRejected
<1>7. CASE StartChunk \/ EncodeBatch \/ OutOfMemory
  BY <1>1, <1>7, SelectionStays DEF StartChunk, EncodeBatch, OutOfMemory
<1>8. CASE StoreChunk
  <2>1. /\ stage = "encode" /\ stage' \in {"encoded", "chunk", "failed"} /\ modality' \in Modalities
        /\ source' = source /\ mode' = mode /\ seen' = seen /\ chosen' = chosen
    BY <1>1, <1>8 DEF StoreChunk, Modalities
  <2> QED BY <2>1, SelectionStays
<1> QED BY <1>2, <1>3, <1>4, <1>5, <1>6, <1>7, <1>8 DEF InputStep

\* It says that the selection is exact.
LEMMA SelectionImplies ==
  ASSUME SelectionInv
  PROVE  SelectionExact
<1> SUFFICES ASSUME JustSelected, NEW m \in Modalities
             PROVE  /\ Range(chosen[m]) = (IF mode = "mock" THEN Prefix(source[m], m)
                                                            ELSE Sample(source[m], m))
                    /\ \A i, j \in DOMAIN chosen[m] : chosen[m][i].id = chosen[m][j].id => i = j
                    /\ mode = "qwen" =>
                         \A row \in Range(Rows(source[m])) :
                           HasText(row) => \E u \in Population(source[m], m) : u.id = row.id
  BY DEF SelectionExact
<1>1. stage = "chunk"
  BY DEF JustSelected
<1>2. RightFor(chosen[m], mode, source[m], m)
  BY <1>1 DEF SelectionInv, DoneFits
<1> QED BY <1>2 DEF RightFor, Fills

(***************************************************************************)
(* The whole job: the packaging keeps the selection.                       *)
(***************************************************************************)
\* A step that leaves the variables of the selection alone keeps its invariant.
LEMMA SelectionSame ==
  ASSUME SelectionInv, UNCHANGED inputVars
  PROVE  SelectionInv'
<1>1. /\ source' = source /\ mode' = mode /\ stage' = stage /\ modality' = modality
      /\ pass' = pass /\ reader' = reader /\ seen' = seen /\ activity' = activity
      /\ sampler' = sampler /\ chosen' = chosen
  BY DEF inputVars
<1>2. SelectionType'
  BY <1>1 DEF SelectionInv, SelectionType
<1>3. ScanFits'
  BY <1>1 DEF SelectionInv, ScanFits, Artifact
<1>4. OpenFits'
  BY <1>1 DEF SelectionInv, OpenFits, Artifact
<1>5. DoneFits'
  BY <1>1 DEF SelectionInv, DoneFits
<1> QED BY <1>2, <1>3, <1>4, <1>5 DEF SelectionInv

\* The inductive invariant of the selection holds of the whole job: no step
\* of the packaging touches what the scans have seen and chosen.
THEOREM SelectionInvariant == Spec => []SelectionInv
<1>1. Init => SelectionInv
  BY SelectionInit DEF Init
<1>2. SelectionInv /\ [Next]_vars => SelectionInv'
  <2> SUFFICES ASSUME SelectionInv, [Next]_vars PROVE SelectionInv'
    OBVIOUS
  <2>1. modality \in Modalities
    BY DEF SelectionInv, SelectionType
  <2>2. CASE Encode
    BY <2>2, SelectionStep DEF Encode
  <2>3. CASE PoolNodes \/ PoolEdges
    <3>1. /\ stage \in {"encoded", "nodesPooled"} /\ stage' \in {"nodesPooled", "pooled", "failed"}
          /\ source' = source /\ mode' = mode /\ modality' = modality /\ seen' = seen
          /\ chosen' = chosen
      BY <2>3 DEF PoolNodes, PoolEdges
    <3> QED BY <2>1, <3>1, SelectionStays
  <2>4. CASE Align \/ Export \/ Resume
    <3>1. /\ stage \in {"pooled", "aligned", "done"}
          /\ stage' \in {"aligned", "failed", "done", "encoded"}
          /\ source' = source /\ mode' = mode /\ modality' = modality /\ seen' = seen
          /\ chosen' = chosen
      BY <2>4 DEF Align, Export, Resume
    <3> QED BY <2>1, <3>1, SelectionStays
  <2>5. CASE Republish \/ Assemble
    BY <2>5, SelectionSame DEF Republish, Assemble
  <2>6. CASE UNCHANGED vars
    BY <2>6, SelectionSame DEF vars
  <2> QED BY <2>2, <2>3, <2>4, <2>5, <2>6 DEF Next
<1> QED BY <1>1, <1>2, PTL DEF Spec

\* For all artifacts, batches and limits: what the batched, two-pass scan in
\* bounded memory selects is what the definition says of the whole artifact,
\* every unit once and no tweet missed (_stratified_selection,
\* DeterministicStratifiedSampler, NodeTextEligibilityProcessor).
THEOREM SelectionIsExact == Spec => []SelectionExact
<1>1. SelectionInv => SelectionExact
  BY SelectionImplies
<1> QED BY <1>1, SelectionInvariant, PTL

\* Keys in Python's order of tuples; the two kinds, and the order as a set.
Pair == Int \X Int
Quad == Int \X Int \X Int \X Int
BeforeIn == {p \in (Pair \X Pair) \cup (Quad \X Quad) : Before(p[1], p[2])}

\* What the order is, of pairs and of quadruples.
LEMMA BeforePair ==
  ASSUME NEW k \in Pair, NEW l \in Pair
  PROVE  Before(k, l) <=> k[1] < l[1] \/ (k[1] = l[1] /\ k[2] < l[2])
<1>1. PICK a \in Int, b \in Int : k = <<a, b>>
  BY DEF Pair
<1>2. PICK c \in Int, d \in Int : l = <<c, d>>
  BY DEF Pair
<1>3. DOMAIN k = 1 .. 2
  BY <1>1
<1>4. 1 .. 2 = {1, 2} /\ 1 .. 1 - 1 = {} /\ 1 .. 2 - 1 = {1}
  OBVIOUS
<1>5. Before(k, l) <=> \E i \in {1, 2} : k[i] < l[i] /\ \A j \in 1 .. i - 1 : k[j] = l[j]
  BY <1>3, <1>4 DEF Before
<1> QED BY <1>4, <1>5

\* The same of quadruples.
LEMMA BeforeQuad ==
  ASSUME NEW k \in Quad, NEW l \in Quad
  PROVE  Before(k, l) <=> \/ k[1] < l[1]
                          \/ k[1] = l[1] /\ k[2] < l[2]
                          \/ k[1] = l[1] /\ k[2] = l[2] /\ k[3] < l[3]
                          \/ k[1] = l[1] /\ k[2] = l[2] /\ k[3] = l[3] /\ k[4] < l[4]
<1>1. PICK a \in Int, b \in Int, c \in Int, d \in Int : k = <<a, b, c, d>>
  BY DEF Quad
<1>3. DOMAIN k = 1 .. 4
  BY <1>1
<1>4. /\ 1 .. 4 = {1, 2, 3, 4} /\ 1 .. 1 - 1 = {} /\ 1 .. 2 - 1 = {1}
      /\ 1 .. 3 - 1 = {1, 2} /\ 1 .. 4 - 1 = {1, 2, 3}
  OBVIOUS
<1> DEFINE At(i) == k[i] < l[i] /\ \A j \in 1 .. i - 1 : k[j] = l[j]
<1>5. Before(k, l) <=> \E i \in {1, 2, 3, 4} : At(i)
  BY <1>3, <1>4 DEF Before
<1>6. /\ At(1) <=> k[1] < l[1]
      /\ At(2) <=> k[1] = l[1] /\ k[2] < l[2]
  BY <1>4
<1>7. At(3) <=> k[1] = l[1] /\ k[2] = l[2] /\ k[3] < l[3]
  BY <1>4
<1>8. At(4) <=> k[1] = l[1] /\ k[2] = l[2] /\ k[3] = l[3] /\ k[4] < l[4]
  BY <1>4
<1> HIDE DEF At
<1> QED BY <1>5, <1>6, <1>7, <1>8

\* It is a strict total order on keys of one kind.
LEMMA BeforeOrders ==
  ASSUME NEW S, S \subseteq Pair \/ S \subseteq Quad
  PROVE  Orders(BeforeIn, S) /\ \A k, l \in S : <<k, l>> \in BeforeIn <=> Before(k, l)
<1>1. ASSUME NEW k \in S, NEW l \in S PROVE <<k, l>> \in BeforeIn <=> Before(k, l)
  BY DEF BeforeIn
<1>2. CASE S \subseteq Pair
  <2>1. \A k, l \in S : Before(k, l) <=> k[1] < l[1] \/ (k[1] = l[1] /\ k[2] < l[2])
    BY <1>2, BeforePair
  <2>2. \A k \in S : k[1] \in Int /\ k[2] \in Int
    BY <1>2 DEF Pair
  <2>3. \A k, l \in S : k[1] = l[1] /\ k[2] = l[2] => k = l
    BY <1>2 DEF Pair
  <2> QED BY <1>1, <2>1, <2>2, <2>3 DEF Orders
<1>3. CASE S \subseteq Quad
  <2>1. \A k, l \in S : Before(k, l) <=>
          \/ k[1] < l[1]
          \/ k[1] = l[1] /\ k[2] < l[2]
          \/ k[1] = l[1] /\ k[2] = l[2] /\ k[3] < l[3]
          \/ k[1] = l[1] /\ k[2] = l[2] /\ k[3] = l[3] /\ k[4] < l[4]
    BY <1>3, BeforeQuad
  <2>2. \A k \in S : k[1] \in Int /\ k[2] \in Int /\ k[3] \in Int /\ k[4] \in Int
    BY <1>3 DEF Quad
  <2>3. \A k, l \in S : k[1] = l[1] /\ k[2] = l[2] /\ k[3] = l[3] /\ k[4] = l[4] => k = l
    BY <1>3 DEF Quad
  <2> QED BY <1>1, <2>1, <2>2, <2>3 DEF Orders
<1> QED BY <1>1, <1>2, <1>3

\* Sorted keys are a list of them.
LEMMA SortedList ==
  ASSUME NEW S, IsFiniteSet(S), S \subseteq Pair \/ S \subseteq Quad
  PROVE  Lists(Sorted(S), BeforeIn, S) /\ Sorted(S) \in Seq(S)
<1>1. PICK n \in Nat : n = Cardinality(S)
  BY FS_CardinalityType
<1>2. Orders(BeforeIn, S) /\ \A k, l \in S : <<k, l>> \in BeforeIn <=> Before(k, l)
  BY BeforeOrders
<1>4. PICK s : s = Sorted(S)
  OBVIOUS
<1>5. s = [i \in 1 .. n |-> CHOOSE x \in S : Cardinality({y \in S : Before(y, x)}) = i - 1]
  BY <1>1, <1>4 DEF Sorted, InOrder
<1>6. ASSUME NEW i \in 1 .. n PROVE s[i] \in S /\ Rank(BeforeIn, S, s[i]) = i - 1
  <2>1. \A x \in S : Rank(BeforeIn, S, x) = Cardinality({y \in S : Before(y, x)})
    <3> SUFFICES ASSUME NEW x \in S
                 PROVE  Rank(BeforeIn, S, x) = Cardinality({y \in S : Before(y, x)})
      OBVIOUS
    <3>1. {y \in S : <<y, x>> \in BeforeIn} = {y \in S : Before(y, x)}
      BY <1>2
    <3> QED BY <3>1 DEF Rank
  <2>2. PICK x \in S : Rank(BeforeIn, S, x) = i - 1
    BY <1>1, <1>2, RankFact
  <2>3. s[i] \in S /\ Cardinality({y \in S : Before(y, s[i])}) = i - 1
    <3>1. Cardinality({y \in S : Before(y, x)}) = i - 1
      BY <2>1, <2>2
    <3>2. s[i] = CHOOSE z \in S : Cardinality({y \in S : Before(y, z)}) = i - 1
      BY <1>5
    <3> QED BY <3>1, <3>2
  <2> QED BY <2>1, <2>3
<1>7. s = [i \in 1 .. n |-> s[i]]
  <2> DEFINE C(i) == CHOOSE x \in S : Cardinality({y \in S : Before(y, x)}) = i - 1
  <2>1. s = [i \in 1 .. n |-> C(i)]
    BY <1>5
  <2> HIDE DEF C
  <2> QED BY <2>1
<1>8. Lists(s, BeforeIn, S)
  BY <1>1, <1>2, <1>6, <1>7, ListFact
<1>9. s \in Seq(S)
  BY <1>1, <1>6, <1>7
<1> QED BY <1>4, <1>8, <1>9

\* An element of a sorted set is found behind those before it.
LEMMA SortedAt ==
  ASSUME NEW S, IsFiniteSet(S), S \subseteq Pair \/ S \subseteq Quad, NEW x \in S
  PROVE  /\ Cardinality({y \in S : Before(y, x)}) + 1 \in 1 .. Cardinality(S)
         /\ Sorted(S)[Cardinality({y \in S : Before(y, x)}) + 1] = x
<1>1. PICK n \in Nat : n = Cardinality(S)
  BY FS_CardinalityType
<1>2. Orders(BeforeIn, S) /\ \A k, l \in S : <<k, l>> \in BeforeIn <=> Before(k, l)
  BY BeforeOrders
<1>3. PICK s : s = Sorted(S) /\ Lists(s, BeforeIn, S)
  BY SortedList
<1>4. PICK i \in 1 .. n : s[i] = x
  BY <1>1, <1>3 DEF Lists
<1>5. {s[j] : j \in 1 .. i - 1} = {y \in S : Before(y, x)}
  <2>1. {s[j] : j \in 1 .. i - 1} = {y \in S : <<y, s[i]>> \in BeforeIn}
    BY <1>1, <1>2, <1>3, ListedBefore
  <2> QED BY <1>2, <1>4, <2>1
<1>6. \A j, k \in 1 .. i - 1 : s[j] = s[k] => j = k
  <2>1. \A j, k \in 1 .. n : j < k <=> <<s[j], s[k]>> \in BeforeIn
    BY <1>1, <1>3 DEF Lists
  <2>2. \A j \in 1 .. n : s[j] \in S
    BY <1>1, <1>3 DEF Lists
  <2>3. \A j \in 1 .. n : <<s[j], s[j]>> \notin BeforeIn
    BY <1>2, <2>2 DEF Orders
  <2>4. ASSUME NEW j \in 1 .. i - 1, NEW k \in 1 .. i - 1, s[j] = s[k] PROVE j = k
    <3>1. j \in 1 .. n /\ k \in 1 .. n
      OBVIOUS
    <3>2. ~(j < k) /\ ~(k < j)
      BY <2>1, <2>3, <2>4, <3>1
    <3> QED BY <3>2
  <2> QED BY <2>4
<1>7. Cardinality({y \in S : Before(y, x)}) = i - 1
  <2> DEFINE T == {s[j] : j \in 1 .. i - 1}
             f == [j \in 1 .. i - 1 |-> s[j]]
  <2>1. f \in [1 .. i - 1 -> T] /\ \A j, k \in 1 .. i - 1 : f[j] = f[k] => j = k
    BY <1>6
  <2>2. \A t \in T : \E j \in 1 .. i - 1 : f[j] = t
    OBVIOUS
  <2>3. IsFiniteSet(1 .. i - 1) /\ Cardinality(1 .. i - 1) = i - 1
    BY FS_Interval
  <2>4. PICK I : I = 1 .. i - 1
    OBVIOUS
  <2> HIDE DEF T, f
  <2>5. Cardinality(I) = Cardinality(T)
    BY <2>1, <2>2, <2>3, <2>4, SameSize
  <2> QED BY <1>5, <2>3, <2>4, <2>5 DEF T
<1> QED BY <1>1, <1>3, <1>4, <1>7

\* Blocks that each list a part of S, in the order of the parts, list S when
\* they are put one after the other.
Tiles(seqs, lt, S, part) ==
  /\ seqs \in Seq(Seq(S))
  /\ \A k \in 1 .. Len(seqs) : Lists(seqs[k], lt, part[k]) /\ part[k] \subseteq S
  /\ \A k, l \in 1 .. Len(seqs) : k < l => \A x \in part[k] : \A y \in part[l] : <<x, y>> \in lt
  /\ \A x \in S : \E k \in 1 .. Len(seqs) : x \in part[k]

\* Sorted pieces that cover a set in order make a list of it.
LEMMA TilesList ==
  ASSUME NEW S, IsFiniteSet(S), NEW lt, Orders(lt, S), NEW seqs, NEW part,
         Tiles(seqs, lt, S, part), NEW flat \in Seq(S), NEW off, IsFlat(off, seqs, flat)
  PROVE  Lists(flat, lt, S)
<1>1. PICK n \in Nat : n = Len(seqs)
  BY DEF Tiles
<1>2. PICK N \in Nat : N = Len(flat) /\ DOMAIN flat = 1 .. N
  OBVIOUS
<1>3. PICK len : len = Lengths(seqs)
  OBVIOUS
<1>4. /\ len \in [1 .. n -> Nat] /\ off \in [1 .. n + 1 -> Nat] /\ off[1] = 0
      /\ off[n + 1] = N /\ \A k \in 1 .. n : off[k + 1] = off[k] + len[k]
  BY <1>1, <1>2, <1>3 DEF IsFlat, Blocks
<1>5. \A k \in 1 .. n : \A j \in 1 .. len[k] : flat[off[k] + j] = seqs[k][j]
  BY <1>1, <1>3 DEF IsFlat, Lengths
<1>6. ASSUME NEW k \in 1 .. n
      PROVE  /\ len[k] = Cardinality(part[k]) /\ seqs[k] \in [1 .. len[k] -> part[k]]
             /\ \A i, j \in 1 .. len[k] : i < j <=> <<seqs[k][i], seqs[k][j]>> \in lt
             /\ \A x \in part[k] : \E i \in 1 .. len[k] : seqs[k][i] = x
             /\ part[k] \subseteq S
  <2>1. Lists(seqs[k], lt, part[k]) /\ part[k] \subseteq S /\ seqs[k] \in Seq(S)
    BY <1>1 DEF Tiles
  <2>2. len[k] = Len(seqs[k])
    BY <1>1, <1>3 DEF Lengths
  <2>3. PICK c \in Nat : c = Cardinality(part[k]) /\ seqs[k] \in [1 .. c -> part[k]]
    BY <2>1 DEF Lists
  <2>4. Len(seqs[k]) = c
    BY <2>1, <2>3
  <2> QED BY <2>1, <2>2, <2>3, <2>4 DEF Lists
<1>7. ASSUME NEW i \in 1 .. N
      PROVE  \E k \in 1 .. n : \E j \in 1 .. len[k] :
               i = off[k] + j /\ flat[i] = seqs[k][j] /\ flat[i] \in part[k]
  <2>1. Blocks(off, len, n)
    BY <1>4 DEF Blocks
  <2>2. n \in 0 .. n
    OBVIOUS
  <2>3. i \in 1 .. off[n + 1]
    BY <1>4
  <2>4. PICK k \in 1 .. n : off[k] < i /\ i <= off[k + 1]
    BY <2>1, <2>2, <2>3, BlocksFact
  <2>5. PICK o \in Nat : o = off[k]
    BY <1>4
  <2>6. PICK m \in Nat : m = len[k]
    BY <1>4
  <2>7. off[k + 1] = o + m
    BY <1>4, <2>5, <2>6
  <2>8. i - o \in 1 .. m /\ i = o + (i - o)
    BY <2>4, <2>5, <2>7
  <2>9. flat[i] = seqs[k][i - o]
    BY <1>5, <2>5, <2>6, <2>8
  <2>10. seqs[k][i - o] \in part[k]
    BY <1>6, <2>6, <2>8
  <2> QED BY <2>5, <2>6, <2>8, <2>9, <2>10
<1>8. ASSUME NEW i \in 1 .. N, NEW j \in 1 .. N, i < j PROVE <<flat[i], flat[j]>> \in lt
  <2>1. PICK k \in 1 .. n : \E a \in 1 .. len[k] :
               i = off[k] + a /\ flat[i] = seqs[k][a] /\ flat[i] \in part[k]
    BY <1>7
  <2>2. PICK a \in 1 .. len[k] : i = off[k] + a /\ flat[i] = seqs[k][a] /\ flat[i] \in part[k]
    BY <2>1
  <2>3. PICK l \in 1 .. n : \E b \in 1 .. len[l] :
               j = off[l] + b /\ flat[j] = seqs[l][b] /\ flat[j] \in part[l]
    BY <1>7
  <2>4. PICK b \in 1 .. len[l] : j = off[l] + b /\ flat[j] = seqs[l][b] /\ flat[j] \in part[l]
    BY <2>3
  <2>5. CASE k = l
    <3>1. off[k] \in Nat
      BY <1>4
    <3>2. len[k] \in Nat
      BY <1>4
    <3>3. a < b
      BY <1>8, <2>2, <2>4, <2>5, <3>1, <3>2
    <3> QED BY <1>6, <2>2, <2>4, <2>5, <3>3
  <2>6. CASE k < l
    BY <1>1, <2>2, <2>4, <2>6 DEF Tiles
  <2>7. CASE l < k
    <3>1. Blocks(off, len, n)
      BY <1>4 DEF Blocks
    <3>2. k - 1 \in 0 .. n /\ l \in 1 .. k - 1
      BY <2>7
    <3>3. off[l + 1] <= off[(k - 1) + 1]
      BY <3>1, <3>2, BlocksFact
    <3>4. (k - 1) + 1 = k
      OBVIOUS
    <3>5. PICK o \in Nat : o = off[k]
      BY <1>4
    <3>6. PICK p \in Nat : p = off[l]
      BY <1>4
    <3>7. PICK m \in Nat : m = len[l]
      BY <1>4
    <3>8. p + m <= o
      BY <1>4, <3>3, <3>4, <3>5, <3>6, <3>7
    <3>9. a \in Nat /\ a > 0
      <4>1. len[k] \in Nat
        BY <1>4
      <4> QED BY <4>1
    <3>10. b \in 1 .. m
      BY <3>7
    <3>11. i = o + a /\ j = p + b
      BY <2>2, <2>4, <3>5, <3>6
    <3>12. b \in Nat /\ b <= m
      BY <3>10
    <3>13. j <= o /\ o < i
      BY <3>8, <3>9, <3>11, <3>12
    <3>14. i \in Int /\ j \in Int
      OBVIOUS
    <3> QED BY <1>8, <3>13, <3>14
  <2> QED BY <2>5, <2>6, <2>7
<1>9. ASSUME NEW i \in 1 .. N PROVE flat[i] \in S
  BY <1>2
<1>10. \A i, j \in 1 .. N : i < j <=> <<flat[i], flat[j]>> \in lt
  <2>1. ASSUME NEW i \in 1 .. N, NEW j \in 1 .. N, <<flat[i], flat[j]>> \in lt, ~(i < j)
        PROVE  FALSE
    <3>1. i = j \/ j < i
      BY <2>1
    <3>2. <<flat[i], flat[i]>> \in lt
      BY <1>8, <1>9, <2>1, <3>1 DEF Orders
    <3> QED BY <1>9, <3>2 DEF Orders
  <2> QED BY <1>8, <2>1
<1>11. ASSUME NEW x \in S PROVE \E i \in 1 .. N : flat[i] = x
  <2>1. PICK k \in 1 .. n : x \in part[k]
    BY <1>1 DEF Tiles
  <2>2. PICK j \in 1 .. len[k] : seqs[k][j] = x
    BY <1>6, <2>1
  <2>3. flat[off[k] + j] = x
    BY <1>5, <2>2
  <2>4. PICK o \in Nat : o = off[k]
    BY <1>4
  <2>5. PICK m \in Nat : m = len[k]
    BY <1>4
  <2>6. off[k + 1] = o + m /\ off[k + 1] <= N
    <3>1. Blocks(off, len, n)
      BY <1>4 DEF Blocks
    <3>2. n \in 0 .. n
      OBVIOUS
    <3>3. off[k + 1] <= off[n + 1]
      BY <3>1, <3>2, BlocksFact
    <3> QED BY <1>4, <2>4, <2>5, <3>3
  <2>7. o + j \in 1 .. N
    BY <2>5, <2>6
  <2> QED BY <2>3, <2>4, <2>7
<1>12. N = Cardinality(S)
  <2>1. PICK I : I = 1 .. N /\ IsFiniteSet(I) /\ Cardinality(I) = N
    BY FS_Interval
  <2>2. \A i, j \in I : flat[i] = flat[j] => i = j
    <3>1. ASSUME NEW i \in 1 .. N, NEW j \in 1 .. N, flat[i] = flat[j] PROVE i = j
      <4>1. <<flat[i], flat[j]>> \notin lt /\ <<flat[j], flat[i]>> \notin lt
        BY <1>9, <3>1 DEF Orders
      <4> QED BY <1>10, <4>1
    <3> QED BY <2>1, <3>1
  <2>3. flat \in [I -> S] /\ \A x \in S : \E i \in I : flat[i] = x
    BY <1>2, <1>11, <2>1
  <2>4. Cardinality(I) = Cardinality(S)
    BY <2>1, <2>2, <2>3, SameSize
  <2> QED BY <2>1, <2>4
<1> QED BY <1>2, <1>10, <1>11, <1>12 DEF Lists

\* Published edges are finitely many keys.
LEMMA EdgeSets ==
  ASSUME NEW edges \in Publications
  PROVE  /\ edges \subseteq Quad /\ IsFiniteSet(edges)
         /\ \A e \in edges : e[1] \in Snapshots /\ e[2] \in Relations /\ e[1] \in Int /\ e[2] \in Int
<1>1. edges \subseteq Snapshots \X Relations \X Nodes \X Nodes
  BY PackageAssumption
<1>2. \A S \in {Snapshots, Nodes, Relations} : IsFiniteSet(S) /\ S = 0 .. Cardinality(S) - 1
  BY InputsAssumption
<1>3. \A S \in {Snapshots, Nodes, Relations} : S \subseteq Int
  <2> SUFFICES ASSUME NEW S \in {Snapshots, Nodes, Relations} PROVE S \subseteq Int
    OBVIOUS
  <2>1. PICK n \in Nat : n = Cardinality(S)
    BY <1>2, FS_CardinalityType
  <2>2. S = 0 .. n - 1
    BY <1>2, <2>1
  <2> QED BY <2>2
<1>4. IsFiniteSet(edges)
  <2> DEFINE D == (Snapshots \X Relations) \X (Nodes \X Nodes)
             g == [p \in D |-> <<p[1][1], p[1][2], p[2][1], p[2][2]>>]
  <2>1. IsFiniteSet(Snapshots \X Relations) /\ IsFiniteSet(Nodes \X Nodes)
    BY <1>2, FS_Product
  <2>2. IsFiniteSet(D)
    BY <2>1, FS_Product
  <2>3. IsFiniteSet({g[p] : p \in DOMAIN g})
    BY <2>2, FiniteValues
  <2>4. ASSUME NEW e \in edges PROVE e \in {g[p] : p \in DOMAIN g}
    <3>1. PICK a \in Snapshots, b \in Relations, c \in Nodes, d \in Nodes : e = <<a, b, c, d>>
      BY <1>1
    <3>2. <<<<a, b>>, <<c, d>>>> \in D
      OBVIOUS
    <3>3. g[<<<<a, b>>, <<c, d>>>>] = <<a, b, c, d>>
      BY <3>2
    <3> QED BY <3>1, <3>2, <3>3
  <2> QED BY <2>3, <2>4, FS_Subset
<1> QED BY <1>1, <1>3, <1>4 DEF Quad

\* The edges of one part, and the part as a list of them.
PartOf(edges, s, r) == {e \in edges : e[1] = s /\ e[2] = r}

\* A part is a list of its edges.
LEMMA PartList ==
  ASSUME NEW edges \in Publications, NEW s, NEW r
  PROVE  /\ Part(edges, s, r) \in Seq(edges)
         /\ Lists(Part(edges, s, r), BeforeIn, PartOf(edges, s, r))
         /\ IsFiniteSet(PartOf(edges, s, r)) /\ PartOf(edges, s, r) \subseteq edges
<1>1. PICK P : P = PartOf(edges, s, r)
  OBVIOUS
<1>2. P \subseteq edges /\ P \subseteq Quad /\ IsFiniteSet(P)
  BY <1>1, EdgeSets, FS_Subset DEF PartOf
<1>3. Lists(Sorted(P), BeforeIn, P) /\ Sorted(P) \in Seq(P)
  BY <1>2, SortedList
<1>4. Part(edges, s, r) = Sorted(P)
  BY <1>1 DEF Part, PartOf
<1>5. Sorted(P) \in Seq(edges)
  BY <1>2, <1>3
<1> QED BY <1>1, <1>2, <1>3, <1>4, <1>5

\* Read part after part, the edges come in the order of their keys.
LEMMA PhysicalIsSorted ==
  ASSUME NEW edges \in Publications
  PROVE  PhysicalOrder(edges) = Sorted(edges)
<1>1. edges \subseteq Quad /\ IsFiniteSet(edges) /\ \A e \in edges : e[1] \in Int /\ e[2] \in Int
  BY EdgeSets
<1>2. PICK Keys : Keys = {<<e[1], e[2]>> : e \in edges}
  OBVIOUS
<1>3. Keys \subseteq Pair /\ IsFiniteSet(Keys)
  <2> DEFINE g == [e \in edges |-> <<e[1], e[2]>>]
  <2>1. IsFiniteSet({g[e] : e \in DOMAIN g})
    BY <1>1, FiniteValues
  <2> QED BY <1>1, <1>2, <2>1 DEF Pair
<1>4. PICK p \in Seq(Keys) : p = Parts(edges) /\ Lists(p, BeforeIn, Keys)
  BY <1>2, <1>3, SortedList DEF Parts
<1>5. PICK n \in Nat : n = Len(p) /\ DOMAIN p = 1 .. n
  OBVIOUS
<1>6. PICK seqs : seqs = [i \in 1 .. n |-> Part(edges, p[i][1], p[i][2])]
  OBVIOUS
<1>7. PICK part : part = [i \in 1 .. n |-> PartOf(edges, p[i][1], p[i][2])]
  OBVIOUS
<1>8. \A i \in 1 .. n : /\ seqs[i] \in Seq(edges) /\ Lists(seqs[i], BeforeIn, part[i])
                        /\ part[i] \subseteq edges
  BY <1>6, <1>7, PartList
<1>9. seqs \in Seq(Seq(edges)) /\ Len(seqs) = n
  BY <1>6, <1>8
<1>10. n = Cardinality(Keys) /\ \A i, j \in 1 .. n : i < j <=> <<p[i], p[j]>> \in BeforeIn
  <2>1. PICK c \in Nat : c = Cardinality(Keys) /\ p \in [1 .. c -> Keys]
    BY <1>4 DEF Lists
  <2>2. c = n
    BY <1>5, <2>1
  <2> QED BY <1>4, <2>1, <2>2 DEF Lists
<1>11. \A i, j \in 1 .. n : i < j => \A x \in part[i] : \A y \in part[j] : <<x, y>> \in BeforeIn
  <2> SUFFICES ASSUME NEW i \in 1 .. n, NEW j \in 1 .. n, i < j,
                      NEW x \in part[i], NEW y \in part[j]
               PROVE  <<x, y>> \in BeforeIn
    OBVIOUS
  <2>1. p[i] \in Pair /\ p[j] \in Pair
    BY <1>3, <1>5
  <2>2. Before(p[i], p[j])
    <3>1. <<p[i], p[j]>> \in BeforeIn
      BY <1>10
    <3> QED BY <3>1 DEF BeforeIn
  <2>3. p[i][1] < p[j][1] \/ (p[i][1] = p[j][1] /\ p[i][2] < p[j][2])
    BY <2>1, <2>2, BeforePair
  <2>4. /\ x \in edges /\ x[1] = p[i][1] /\ x[2] = p[i][2]
        /\ y \in edges /\ y[1] = p[j][1] /\ y[2] = p[j][2]
    BY <1>7 DEF PartOf
  <2>5. x \in Quad /\ y \in Quad
    BY <1>1, <2>4
  <2>6. Before(x, y)
    BY <2>3, <2>4, <2>5, BeforeQuad
  <2> QED BY <2>5, <2>6 DEF BeforeIn
<1>12. ASSUME NEW x \in edges PROVE \E i \in 1 .. n : x \in part[i]
  <2>1. <<x[1], x[2]>> \in Keys
    BY <1>2
  <2>2. PICK i \in 1 .. n : p[i] = <<x[1], x[2]>>
    BY <1>4, <1>10, <2>1 DEF Lists
  <2>3. x \in part[i]
    BY <1>7, <2>2 DEF PartOf
  <2> QED BY <2>3
<1>13. Orders(BeforeIn, edges)
  BY <1>1, BeforeOrders
<1>14. Tiles(seqs, BeforeIn, edges, part)
  BY <1>8, <1>9, <1>11, <1>12 DEF Tiles
<1>15. PICK flat \in Seq(edges) : /\ flat = FlattenSeq(seqs)
                                  /\ \E off : IsFlat(off, seqs, flat)
  BY <1>9, FlattenFact
<1>16. Lists(flat, BeforeIn, edges)
  BY <1>1, <1>13, <1>14, <1>15, TilesList
<1>17. Lists(Sorted(edges), BeforeIn, edges)
  BY <1>1, SortedList
<1>18. flat = Sorted(edges)
  BY <1>1, <1>13, <1>16, <1>17, ListsUnique
<1>19. PhysicalOrder(edges) = flat
  BY <1>4, <1>5, <1>6, <1>15 DEF PhysicalOrder
<1> QED BY <1>18, <1>19

\* The number the loader gives an edge is its place in that order.
LEMMA PartPlace ==
  ASSUME NEW edges \in Publications, NEW s \in Int, NEW r \in Int,
         NEW i \in 1 .. Len(Part(edges, s, r))
  PROVE  /\ PartStart(edges, s, r) + i \in 1 .. Cardinality(edges)
         /\ Sorted(edges)[PartStart(edges, s, r) + i] = Part(edges, s, r)[i]
<1>1. edges \subseteq Quad /\ IsFiniteSet(edges) /\ \A e \in edges : e[1] \in Int /\ e[2] \in Int
  BY EdgeSets
<1>2. PICK P : P = PartOf(edges, s, r)
  OBVIOUS
<1>3. PICK q \in Seq(edges) : q = Part(edges, s, r) /\ Lists(q, BeforeIn, P)
  BY <1>2, PartList
<1>4. IsFiniteSet(P) /\ P \subseteq edges
  BY <1>2, PartList
<1>5. PICK c \in Nat : c = Cardinality(P) /\ q \in [1 .. c -> P]
  BY <1>3 DEF Lists
<1>6. i \in 1 .. c
  BY <1>3, <1>5
<1>7. PICK x \in P : x = q[i]
  BY <1>5, <1>6
<1>8. x \in edges /\ x \in Quad /\ x[1] = s /\ x[2] = r
  BY <1>1, <1>2, <1>4, <1>7 DEF PartOf
<1>9. Cardinality({y \in P : Before(y, x)}) = i - 1
  <2>1. P \subseteq Quad
    BY <1>1, <1>4
  <2>2. PICK d : d = Cardinality({y \in P : Before(y, x)}) + 1
    OBVIOUS
  <2>3. d \in 1 .. c /\ Sorted(P)[d] = x
    BY <1>4, <1>5, <1>7, <2>1, <2>2, SortedAt
  <2>4. Sorted(P) = q
    BY <1>2, <1>3 DEF Part, PartOf
  <2>5. Orders(BeforeIn, P) /\ \A j, k \in 1 .. c : j < k <=> <<q[j], q[k]>> \in BeforeIn
    BY <1>3, <1>5, <2>1, BeforeOrders DEF Lists
  <2>6. <<x, x>> \notin BeforeIn
    BY <1>7, <2>5 DEF Orders
  <2>7. ~(d < i) /\ ~(i < d)
    BY <1>6, <1>7, <2>3, <2>4, <2>5, <2>6
  <2>8. {y \in P : Before(y, x)} \subseteq P
    OBVIOUS
  <2>9. Cardinality({y \in P : Before(y, x)}) \in Nat
    BY <1>4, <2>8, FS_Subset, FS_CardinalityType
  <2> QED BY <1>6, <2>2, <2>3, <2>7, <2>9
<1>10. PICK A : A = {e \in edges : Before(<<e[1], e[2]>>, <<s, r>>)}
  OBVIOUS
<1>11. PICK B : B = {y \in P : Before(y, x)}
  OBVIOUS
<1>12. {y \in edges : Before(y, x)} = A \cup B /\ A \cap B = {}
  <2>1. ASSUME NEW y \in edges
        PROVE  /\ Before(y, x) <=> \/ Before(<<y[1], y[2]>>, <<s, r>>)
                                   \/ y \in P /\ Before(y, x)
               /\ Before(<<y[1], y[2]>>, <<s, r>>) => y \notin P
    <3>1. y \in Quad /\ y[1] \in Int /\ y[2] \in Int
      BY <1>1
    <3>2. PICK k \in Pair : k = <<y[1], y[2]>>
      BY <3>1 DEF Pair
    <3>3. PICK l \in Pair : l = <<s, r>>
      BY DEF Pair
    <3>4. Before(k, l) <=> y[1] < s \/ (y[1] = s /\ y[2] < r)
      BY <3>2, <3>3, BeforePair
    <3>5. y \in P <=> y[1] = s /\ y[2] = r
      BY <1>2 DEF PartOf
    <3>6. Before(y, x) => y[1] < s \/ (y[1] = s /\ y[2] < r) \/ (y[1] = s /\ y[2] = r)
      BY <1>8, <3>1, BeforeQuad
    <3>7. y[1] < s \/ (y[1] = s /\ y[2] < r) => Before(y, x)
      BY <1>8, <3>1, BeforeQuad
    <3> QED BY <3>1, <3>2, <3>3, <3>4, <3>5, <3>6, <3>7
  <2> QED BY <1>4, <1>10, <1>11, <2>1
<1>13. IsFiniteSet(A) /\ IsFiniteSet(B)
  BY <1>1, <1>4, <1>10, <1>11, FS_Subset
<1>14. PICK a \in Nat : a = Cardinality(A)
  BY <1>13, FS_CardinalityType
<1>15. Cardinality({y \in edges : Before(y, x)}) = a + (i - 1)
  <2>1. Cardinality(A \cup B) = Cardinality(A) + Cardinality(B) - Cardinality(A \cap B)
    BY <1>13, FS_Union
  <2>2. Cardinality(A \cap B) = 0 /\ Cardinality(B) = i - 1
    BY <1>9, <1>11, <1>12, FS_EmptySet
  <2>3. Cardinality(A \cup B) = a + (i - 1)
    BY <1>6, <1>14, <2>1, <2>2
  <2> QED BY <1>12, <2>3
<1>16. PICK d : d = Cardinality({y \in edges : Before(y, x)}) + 1
  OBVIOUS
<1>17. d \in 1 .. Cardinality(edges) /\ Sorted(edges)[d] = x
  BY <1>1, <1>8, <1>16, SortedAt
<1>18. d = a + i
  BY <1>6, <1>14, <1>15, <1>16
<1>19. PartStart(edges, s, r) = a
  BY <1>10, <1>14 DEF PartStart
<1> QED BY <1>3, <1>7, <1>17, <1>18, <1>19

\* The edges of a snapshot as the loader should number them: each once, in
\* order, with its place among all edges.
Numbered(list, edges, s) ==
  /\ DOMAIN list = 1 .. Len(list)
  /\ [i \in DOMAIN list |-> list[i].key] = Sorted({e \in edges : e[1] = s})
  /\ \A i \in DOMAIN list : /\ list[i].at \in 1 .. Cardinality(edges)
                            /\ list[i].key = Sorted(edges)[list[i].at]

\* The loader numbers them so.
LEMMA SnapshotFact ==
  ASSUME NEW pkg, pkg.edges \in Publications, NEW s \in Snapshots
  PROVE  Numbered(SnapshotEdges(pkg, s), pkg.edges, s)
<1>1. PICK edges \in Publications : edges = pkg.edges
  OBVIOUS
<1>2. /\ edges \subseteq Quad /\ IsFiniteSet(edges)
      /\ \A e \in edges : e[1] \in Int /\ e[2] \in Relations
  BY EdgeSets
<1>3. PICK R \in Nat : R = Cardinality(Relations) /\ Relations = 0 .. R - 1
  <2>1. IsFiniteSet(Relations) /\ Relations = 0 .. Cardinality(Relations) - 1
    BY InputsAssumption
  <2> QED BY <2>1, FS_CardinalityType
<1>4. s \in Int
  <2>1. IsFiniteSet(Snapshots) /\ Snapshots = 0 .. Cardinality(Snapshots) - 1
    BY InputsAssumption
  <2>2. PICK n \in Nat : n = Cardinality(Snapshots)
    BY <2>1, FS_CardinalityType
  <2> QED BY <2>1, <2>2
<1>5. PICK S : S = {e \in edges : e[1] = s}
  OBVIOUS
<1>6. S \subseteq edges /\ S \subseteq Quad /\ IsFiniteSet(S)
  BY <1>2, <1>5, FS_Subset
<1>7. PICK all : all = Sorted(edges)
  OBVIOUS
<1>8. PICK D : D = 1 .. Cardinality(edges)
  OBVIOUS
<1> DEFINE Rec == {x \in [key : S, at : D] : x.key = all[x.at]}
           list(k) == LET part == Part(edges, s, k - 1)
                      IN  [i \in DOMAIN part |-> [key |-> part[i], at |-> PartStart(edges, s, k - 1) + i]]
<1>9. PICK recs : recs = [k \in 1 .. R |-> list(k)]
  OBVIOUS
<1>10. PICK seqs : seqs = [k \in 1 .. R |-> Part(edges, s, k - 1)]
  OBVIOUS
<1>11. PICK part : part = [k \in 1 .. R |-> PartOf(edges, s, k - 1)]
  OBVIOUS
<1>12. SnapshotEdges(pkg, s) = FlattenSeq(recs)
  BY <1>1, <1>3, <1>9 DEF SnapshotEdges
<1>13. ASSUME NEW k \in 1 .. R
       PROVE  /\ seqs[k] \in Seq(S) /\ Lists(seqs[k], BeforeIn, part[k]) /\ part[k] \subseteq S
              /\ recs[k] \in Seq(Rec) /\ Len(recs[k]) = Len(seqs[k])
              /\ \A i \in 1 .. Len(seqs[k]) : recs[k][i].key = seqs[k][i]
  <2>1. k - 1 \in Int
    OBVIOUS
  <2>2. PICK q \in Seq(edges) : q = Part(edges, s, k - 1)
    BY PartList
  <2>3. Lists(q, BeforeIn, part[k])
    BY <1>11, <2>2, PartList
  <2>4. part[k] \subseteq S
    BY <1>5, <1>11 DEF PartOf
  <2>5. PICK n \in Nat : n = Len(q) /\ DOMAIN q = 1 .. n
    OBVIOUS
  <2>6. \A i \in 1 .. n : q[i] \in S
    <3>1. PICK c \in Nat : c = Cardinality(part[k]) /\ q \in [1 .. c -> part[k]]
      BY <2>3 DEF Lists
    <3>2. c = n
      BY <2>5, <3>1
    <3> QED BY <2>4, <3>1, <3>2
  <2>7. q \in Seq(S)
    BY <2>5, <2>6
  <2>8. PICK p : p = PartStart(edges, s, k - 1)
    OBVIOUS
  <2>9. \A i \in 1 .. n : p + i \in D /\ all[p + i] = q[i]
    <3>1. ASSUME NEW i \in 1 .. n PROVE p + i \in D /\ all[p + i] = q[i]
      <4>1. i \in 1 .. Len(Part(edges, s, k - 1))
        BY <2>2, <2>5
      <4> QED BY <1>4, <1>7, <1>8, <2>1, <2>2, <2>8, <4>1, PartPlace
    <3> QED BY <3>1
  <2>10. recs[k] = [i \in 1 .. n |-> [key |-> q[i], at |-> p + i]]
    BY <1>9, <2>2, <2>5, <2>8
  <2>11. \A i \in 1 .. n : recs[k][i] \in Rec /\ recs[k][i].key = q[i]
    BY <2>6, <2>9, <2>10
  <2>12. recs[k] \in Seq(Rec) /\ Len(recs[k]) = n
    <3> HIDE DEF Rec
    <3> QED BY <2>10, <2>11
  <2>13. seqs[k] = q
    BY <1>10, <2>2
  <2> QED BY <2>3, <2>4, <2>5, <2>7, <2>11, <2>12, <2>13
<1> HIDE DEF Rec, list
<1>14. recs \in Seq(Seq(Rec)) /\ Len(recs) = R /\ seqs \in Seq(Seq(S)) /\ Len(seqs) = R
  <2>1. recs = [k \in 1 .. R |-> recs[k]] /\ seqs = [k \in 1 .. R |-> seqs[k]]
    BY <1>9, <1>10
  <2>2. (\A k \in 1 .. R : recs[k] \in Seq(Rec)) /\ \A k \in 1 .. R : seqs[k] \in Seq(S)
    BY <1>13
  <2>3. recs \in Seq(Seq(Rec)) /\ Len(recs) = R
    BY <2>1, <2>2
  <2>4. seqs \in Seq(Seq(S)) /\ Len(seqs) = R
    BY <2>1, <2>2
  <2> QED BY <2>3, <2>4
<1>15. PICK flat \in Seq(Rec) : flat = FlattenSeq(recs) /\ \E off : IsFlat(off, recs, flat)
  BY <1>14, FlattenFact
<1>16. PICK off : IsFlat(off, recs, flat)
  BY <1>15
<1>17. PICK N \in Nat : N = Len(flat) /\ DOMAIN flat = 1 .. N
  OBVIOUS
<1>18. \A i \in 1 .. N : /\ flat[i].key \in S /\ flat[i].at \in D
                         /\ flat[i].key = all[flat[i].at]
  BY <1>17 DEF Rec
<1>19. PICK keys : keys = [i \in 1 .. N |-> flat[i].key]
  OBVIOUS
<1>20. keys \in Seq(S) /\ Len(keys) = N
  BY <1>18, <1>19
<1>21. IsFlat(off, seqs, keys)
  <2>1. PICK len : len = Lengths(recs)
    OBVIOUS
  <2>2. len = Lengths(seqs) /\ \A k \in 1 .. R : len[k] = Len(seqs[k])
    BY <1>13, <1>14, <2>1 DEF Lengths
  <2>3. Blocks(off, len, R) /\ off[R + 1] = N
    BY <1>14, <1>16, <1>17, <2>1 DEF IsFlat
  <2>4. ASSUME NEW k \in 1 .. R, NEW j \in 1 .. Len(seqs[k])
        PROVE  keys[off[k] + j] = seqs[k][j]
    <3>1. flat[off[k] + j] = recs[k][j]
      <4>1. j \in 1 .. Len(recs[k])
        BY <1>13
      <4> QED BY <1>14, <1>16, <4>1 DEF IsFlat
    <3>2. recs[k][j].key = seqs[k][j]
      BY <1>13
    <3>3. PICK o \in Nat : o = off[k]
      BY <2>3 DEF Blocks
    <3>4. PICK m \in Nat : m = len[k]
      BY <2>3 DEF Blocks
    <3>5. off[k + 1] = o + m /\ off[k + 1] <= N
      <4>1. R \in 0 .. R
        OBVIOUS
      <4>2. off[k + 1] <= off[R + 1]
        BY <2>3, <4>1, BlocksFact
      <4>3. off[k + 1] = off[k] + len[k]
        BY <2>3 DEF Blocks
      <4> QED BY <2>3, <3>3, <3>4, <4>2, <4>3
    <3>6. j \in 1 .. m
      BY <2>2, <3>4
    <3>7. o + j \in 1 .. N
      BY <3>5, <3>6
    <3> QED BY <1>19, <3>1, <3>2, <3>3, <3>7
  <2> QED BY <1>14, <1>20, <2>2, <2>3, <2>4 DEF IsFlat
<1>22. Orders(BeforeIn, S)
  BY <1>6, BeforeOrders
<1>23. \A k, l \in 1 .. R : k < l => \A x \in part[k] : \A y \in part[l] : <<x, y>> \in BeforeIn
  <2> SUFFICES ASSUME NEW k \in 1 .. R, NEW l \in 1 .. R, k < l, NEW x \in part[k], NEW y \in part[l]
               PROVE  <<x, y>> \in BeforeIn
    OBVIOUS
  <2>1. /\ x \in edges /\ x[1] = s /\ x[2] = k - 1
        /\ y \in edges /\ y[1] = s /\ y[2] = l - 1
    BY <1>11 DEF PartOf
  <2>2. x \in Quad /\ y \in Quad
    BY <1>2, <2>1
  <2>3. Before(x, y)
    BY <2>1, <2>2, BeforeQuad
  <2> QED BY <2>2, <2>3 DEF BeforeIn
<1>24. ASSUME NEW x \in S PROVE \E k \in 1 .. R : x \in part[k]
  <2>1. x \in edges /\ x[1] = s /\ x[2] \in 0 .. R - 1
    BY <1>2, <1>3, <1>5
  <2>2. x[2] + 1 \in 1 .. R /\ (x[2] + 1) - 1 = x[2]
    BY <2>1
  <2>3. x \in part[x[2] + 1]
    BY <1>11, <2>1, <2>2 DEF PartOf
  <2> QED BY <2>2, <2>3
<1>25. Tiles(seqs, BeforeIn, S, part)
  BY <1>13, <1>14, <1>23, <1>24 DEF Tiles
<1>26. Lists(keys, BeforeIn, S)
  BY <1>6, <1>20, <1>21, <1>22, <1>25, TilesList
<1>27. Lists(Sorted(S), BeforeIn, S)
  BY <1>6, SortedList
<1>28. keys = Sorted(S)
  BY <1>6, <1>22, <1>26, <1>27, ListsUnique
<1>29. flat = SnapshotEdges(pkg, s)
  BY <1>12, <1>15
<1> QED BY <1>1, <1>5, <1>7, <1>8, <1>17, <1>18, <1>19, <1>28, <1>29 DEF Numbered

\* Multiples of the size of a shard, and the number of shards.
LEMMA ShardMultiples ==
  ASSUME NEW s \in Nat \ {0}, NEW n \in Nat, NEW q, q = (n + s - 1) \div s
  PROVE  /\ q \in Nat /\ n <= q * s /\ (n > 0 => q # 0)
         /\ \A c \in Nat : c < q => c * s \in Nat /\ c * s < n
<1>1. n + s - 1 \in Nat
  OBVIOUS
<1>2. ASSUME NEW m \in Nat
      PROVE  m \div s \in Nat /\ (m \div s) * s <= m /\ m < (m \div s) * s + s
  BY Z3T(60)
<1>3. /\ q \in Nat /\ q * s <= n + s - 1 /\ n + s - 1 < q * s + s
  BY <1>1, <1>2
<1>4. q * s \in Nat
  BY <1>3
<1>5. n <= q * s
  BY <1>3, <1>4
<1>6. n > 0 => q # 0
  BY <1>5
<1>7. ASSUME NEW c \in Nat, c < q PROVE c * s \in Nat /\ c * s < n
  <2>1. c * s \in Nat
    OBVIOUS
  <2>2. c * s + s <= q * s
    <3>1. PICK d \in Nat : q = c + 1 + d
      <4>1. q - c - 1 \in Nat /\ q = c + 1 + (q - c - 1)
        BY <1>3, <1>7
      <4> QED BY <4>1
    <3>2. (c + 1 + d) * s = c * s + s + d * s /\ d * s \in Nat
      BY Z3
    <3> QED BY <2>1, <3>1, <3>2
  <2> QED BY <1>3, <1>4, <2>1, <2>2
<1> QED BY <1>3, <1>5, <1>6, <1>7

\* Where the k-th chunk of a modality ends.
EndOf(m, k) == Least(k * ShardSize, Len(chosen[m]))

\* The chunks cover the selected units one after the other.
ChunksFit(m) ==
  /\ ChunkCount(m) \in Nat \ {0}
  /\ EndOf(m, 0) = 0 /\ EndOf(m, ChunkCount(m)) = Len(chosen[m])
  /\ \A k \in 1 .. ChunkCount(m) :
       /\ EndOf(m, k - 1) \in Nat /\ EndOf(m, k) \in Nat
       /\ EndOf(m, k - 1) <= EndOf(m, k) /\ EndOf(m, k) <= Len(chosen[m])
       /\ Chunk(m, k) \in Seq(UnitRow) /\ Len(Chunk(m, k)) = EndOf(m, k) - EndOf(m, k - 1)
       /\ \A i \in 1 .. EndOf(m, k) - EndOf(m, k - 1) :
            Chunk(m, k)[i] = chosen[m][EndOf(m, k - 1) + i]

\* They do, whatever the shard size.
LEMMA ChunkFact ==
  ASSUME NEW m, chosen[m] \in Seq(UnitRow)
  PROVE  ChunksFit(m)
<1>1. PICK u \in Seq(UnitRow) : u = chosen[m]
  OBVIOUS
<1>2. PICK n \in Nat : n = Len(u)
  OBVIOUS
<1>3. PICK s \in Nat \ {0} : s = ShardSize
  BY InputsAssumption
<1>4. PICK q : q = ChunkCount(m)
  OBVIOUS
<1>5. q \in Nat \ {0} /\ n <= q * s /\ \A c \in Nat : c < q => c * s \in Nat /\ c * s <= n
  <2>1. CASE u = << >>
    <3>1. q = 1 /\ n = 0
      BY <1>1, <1>2, <1>4, <2>1 DEF ChunkCount
    <3>2. \A c \in Nat : c < q => c = 0
      BY <3>1
    <3>3. 0 * s = 0 /\ q * s = s
      BY <3>1
    <3> QED BY <3>1, <3>2, <3>3
  <2>2. CASE u # << >>
    <3>1. q = (n + s - 1) \div s
      BY <1>1, <1>2, <1>3, <1>4, <2>2 DEF ChunkCount
    <3>2. n > 0
      BY <1>2, <2>2
    <3>3. q \in Nat /\ n <= q * s /\ q # 0 /\ \A c \in Nat : c < q => c * s \in Nat /\ c * s < n
      BY <3>1, <3>2, ShardMultiples
    <3>4. ASSUME NEW c \in Nat, c < q PROVE c * s \in Nat /\ c * s <= n
      <4>1. PICK p \in Nat : p = c * s /\ p < n
        BY <3>3, <3>4
      <4> QED BY <4>1
    <3> QED BY <3>3, <3>4
  <2> QED BY <2>1, <2>2
<1>6. PICK e : e = [k \in 0 .. q |-> EndOf(m, k)]
  OBVIOUS
<1>7. \A k \in 0 .. q : e[k] = Least(k * s, n)
  BY <1>1, <1>2, <1>3, <1>6 DEF EndOf
<1>8. ASSUME NEW k \in 0 .. q, k < q PROVE e[k] = k * s /\ k * s \in Nat /\ k * s <= n
  <2>1. k * s \in Nat /\ k * s <= n
    BY <1>5, <1>8
  <2> QED BY <1>7, <2>1 DEF Least
<1>9. e[q] = n
  <2>1. q * s \in Nat
    BY <1>5
  <2>2. q \in 0 .. q
    BY <1>5
  <2> QED BY <1>5, <1>7, <2>1, <2>2 DEF Least
<1>10. ASSUME NEW k \in 1 .. q
       PROVE  /\ e[k - 1] \in Nat /\ e[k] \in Nat /\ e[k - 1] <= e[k] /\ e[k] <= n
              /\ e[k - 1] = (k - 1) * s
  <2>1. k - 1 \in 0 .. q /\ k - 1 < q /\ k \in 0 .. q
    BY <1>5
  <2>2. e[k - 1] = (k - 1) * s /\ (k - 1) * s \in Nat /\ (k - 1) * s <= n
    BY <1>8, <2>1
  <2>3. k * s = (k - 1) * s + s
    BY Z3
  <2>4. k * s \in Nat
    OBVIOUS
  <2>5. e[k] = Least(k * s, n)
    BY <1>7, <2>1
  <2>6. PICK a \in Nat : a = (k - 1) * s
    BY <2>2
  <2>7. PICK b \in Nat : b = k * s
    BY <2>4
  <2>8. b = a + s /\ a <= n /\ e[k - 1] = a /\ e[k] = IF b < n THEN b ELSE n
    BY <2>2, <2>3, <2>5, <2>6, <2>7 DEF Least
  <2> HIDE <2>2
  <2>9. e[k - 1] \in Nat /\ e[k] \in Nat /\ e[k - 1] <= e[k] /\ e[k] <= n
    BY <2>8
  <2> QED BY <2>2, <2>9
<1>11. ASSUME NEW k \in 1 .. q
       PROVE  /\ Chunk(m, k) \in Seq(UnitRow) /\ Len(Chunk(m, k)) = e[k] - e[k - 1]
              /\ \A i \in 1 .. e[k] - e[k - 1] : Chunk(m, k)[i] = u[e[k - 1] + i]
  <2>1. PICK a \in Nat, b \in Nat : a = e[k - 1] /\ b = e[k] /\ a <= b /\ b <= n
    BY <1>10
  <2>2. Chunk(m, k) = SubSeq(u, a + 1, b)
    <3>1. k \in 0 .. q
      OBVIOUS
    <3>2. b = Least(k * s, n) /\ a = (k - 1) * s
      BY <1>7, <1>10, <2>1, <3>1
    <3> QED BY <1>1, <1>2, <1>3, <3>2 DEF Chunk
  <2>3. a <= b /\ b <= Len(u)
    BY <1>2, <2>1
  <2>4. PICK c \in Seq(UnitRow) : c = SubSeq(u, a + 1, b)
    BY <2>3, PartFact
  <2>5. Len(c) = b - a /\ \A i \in 1 .. b - a : c[i] = u[a + i]
    BY <2>3, <2>4, PartFact
  <2> QED BY <2>1, <2>2, <2>4, <2>5
<1>12. /\ EndOf(m, 0) = e[0] /\ EndOf(m, q) = e[q]
       /\ \A k \in 1 .. q : EndOf(m, k) = e[k] /\ EndOf(m, k - 1) = e[k - 1]
  <2>1. 0 \in 0 .. q /\ q \in 0 .. q /\ \A k \in 1 .. q : k \in 0 .. q /\ k - 1 \in 0 .. q
    BY <1>5
  <2> QED BY <1>6, <2>1
<1>13. e[0] = 0
  <2>1. 0 \in 0 .. q /\ 0 < q /\ 0 * s = 0
    BY <1>5
  <2> QED BY <1>8, <2>1
<1>14. ASSUME NEW k \in 1 .. q
       PROVE
         /\ EndOf(m, k - 1) \in Nat /\ EndOf(m, k) \in Nat
         /\ EndOf(m, k - 1) <= EndOf(m, k) /\ EndOf(m, k) <= n
         /\ Chunk(m, k) \in Seq(UnitRow) /\ Len(Chunk(m, k)) = EndOf(m, k) - EndOf(m, k - 1)
         /\ \A i \in 1 .. EndOf(m, k) - EndOf(m, k - 1) : Chunk(m, k)[i] = u[EndOf(m, k - 1) + i]
  <2>1. EndOf(m, k) = e[k] /\ EndOf(m, k - 1) = e[k - 1]
    BY <1>12
  <2>2. e[k - 1] \in Nat /\ e[k] \in Nat /\ e[k - 1] <= e[k] /\ e[k] <= n
    BY <1>10
  <2> QED BY <1>11, <2>1, <2>2
<1> QED BY <1>1, <1>2, <1>4, <1>5, <1>9, <1>12, <1>13, <1>14 DEF ChunksFit

\* Bags of texts.
TextBags == UNION {[V -> Nat] : V \in SUBSET (Unusable \cup DOMAIN TextLevel)}

\* Bags of texts add up to bags of texts.
LEMMA TextBagFact ==
  /\ EmptyBag \in TextBags
  /\ \A b, d \in TextBags : b (+) d \in TextBags
<1>1. EmptyBag \in [{} -> Nat]
  BY DEF EmptyBag, SetToBag
<1>2. EmptyBag \in TextBags
  BY <1>1 DEF TextBags
<1>3. ASSUME NEW b \in TextBags, NEW d \in TextBags PROVE b (+) d \in TextBags
  <2>1. PICK V \in SUBSET (Unusable \cup DOMAIN TextLevel) : b \in [V -> Nat]
    BY DEF TextBags
  <2>2. PICK W \in SUBSET (Unusable \cup DOMAIN TextLevel) : d \in [W -> Nat]
    BY DEF TextBags
  <2>3. b (+) d = [v \in V \cup W |-> (IF v \in V THEN b[v] ELSE 0) + (IF v \in W THEN d[v] ELSE 0)]
    BY <2>1, <2>2 DEF (+)
  <2>4. \A v \in V \cup W : (IF v \in V THEN b[v] ELSE 0) + (IF v \in W THEN d[v] ELSE 0) \in Nat
    BY <2>1, <2>2
  <2>5. b (+) d \in [V \cup W -> Nat]
    BY <2>3, <2>4
  <2>6. V \cup W \in SUBSET (Unusable \cup DOMAIN TextLevel)
    OBVIOUS
  <2> QED BY <2>5, <2>6 DEF TextBags
<1> QED BY <1>2, <1>3

\* Texts at some positions are a bag of texts.
LEMMA BagAtText ==
  ASSUME NEW I, IsFiniteSet(I), NEW s, \A i \in I : s[i] \in Unusable \cup DOMAIN TextLevel
  PROVE  BagAt(s, I) \in TextBags
<1>1. PICK V : V = {s[i] : i \in I}
  OBVIOUS
<1>2. \A v : Cardinality({i \in I : s[i] = v}) \in Nat
  <2> SUFFICES ASSUME NEW v PROVE Cardinality({i \in I : s[i] = v}) \in Nat
    OBVIOUS
  <2>1. IsFiniteSet({i \in I : s[i] = v})
    BY FS_Subset
  <2> QED BY <2>1, FS_CardinalityType
<1>3. BagAt(s, I) \in [V -> Nat]
  BY <1>1, <1>2 DEF BagAt
<1>4. V \in SUBSET (Unusable \cup DOMAIN TextLevel)
  BY <1>1
<1> QED BY <1>3, <1>4 DEF TextBags

\* Deltas of bags of texts; the merge adds them up in their order.
Deltas(seq) ==
  /\ Len(seq) \in Nat /\ DOMAIN seq = 1 .. Len(seq)
  /\ \A i \in 1 .. Len(seq) : \A k \in DOMAIN seq[i] : seq[i][k] \in TextBags

TotalOf(key, seq) ==
  FoldLeft(LAMBDA b, d : IF key \in DOMAIN d THEN b (+) d[key] ELSE b, EmptyBag, seq)

AddsUp(r, key, seq) ==
  /\ r \in [0 .. Len(seq) -> TextBags]
  /\ r[0] = EmptyBag /\ TotalOf(key, seq) = r[Len(seq)]
  /\ \A k \in 1 .. Len(seq) :
       r[k] = IF key \in DOMAIN seq[k] THEN r[k - 1] (+) seq[k][key] ELSE r[k - 1]

\* The total of a key is where the adding up ends.
LEMMA TotalRun ==
  ASSUME NEW seq, Deltas(seq), NEW key
  PROVE  \E r : AddsUp(r, key, seq)
<1> DEFINE n == Len(seq)
           A == TextBags
           base == EmptyBag
           step == [i \in 1 .. n |-> [b \in A |-> IF key \in DOMAIN seq[i] THEN b (+) seq[i][key]
                                                                          ELSE b]]
           Solves(h) == h = [S \in SUBSET (1 .. n) |->
                               IF S = {} THEN EmptyBag
                               ELSE IF key \in DOMAIN seq[Max(S)]
                                 THEN h[S \ {Max(S)}] (+) seq[Max(S)][key]
                                 ELSE h[S \ {Max(S)}]]
           fold == CHOOSE h : Solves(h)
<1>1. n \in Nat /\ DOMAIN seq = 1 .. n
  BY DEF Deltas
<1>2. TotalOf(key, seq) = fold[1 .. n]
  BY <1>1 DEF TotalOf, FoldLeft, MapThenFoldSet
<1>3. base \in A /\ step \in Steps(n, A)
  <2>1. \A i \in 1 .. n : \A b \in A : key \in DOMAIN seq[i] => b (+) seq[i][key] \in A
    BY TextBagFact DEF Deltas
  <2> QED BY <2>1, TextBagFact DEF Steps
<1>4. \A S \in SUBSET (1 .. n) : S # {} => Max(S) \in 1 .. n
  <2> SUFFICES ASSUME NEW S \in SUBSET (1 .. n), S # {} PROVE Max(S) \in 1 .. n
    OBVIOUS
  <2>1. S \in SUBSET (0 .. n)
    BY <1>1
  <2> QED BY <1>1, <2>1, MaxFact
<1>5. Solves(fold)
  <2>1. PICK h : IsFold(h, n, A, base, step)
    <3> HIDE DEF n, A, step, base, Solves, fold
    <3> QED BY <1>1, <1>3, FoldExists
  <2>2. Solves(h)
    <3>1. ASSUME NEW S \in SUBSET (1 .. n), S # {}
          PROVE  step[Max(S)][h[S \ {Max(S)}]]
                   = IF key \in DOMAIN seq[Max(S)]
                       THEN h[S \ {Max(S)}] (+) seq[Max(S)][key] ELSE h[S \ {Max(S)}]
      <4>1. h[S \ {Max(S)}] \in A
        BY <2>1 DEF IsFold
      <4> QED BY <1>4, <3>1, <4>1
    <3> HIDE DEF step, A, n
    <3> QED BY <2>1, <3>1 DEF IsFold
  <2> HIDE DEF Solves
  <2> QED BY <2>2
<1> HIDE DEF fold
<1>6. Folds(fold, n, A, base, step)
  BY <1>4, <1>5 DEF Folds
<1>7. PICK r : IsRun(r, n, A, base, step) /\ fold[1 .. n] = r[n]
  <2> HIDE DEF n, A, step, base, Solves
  <2> QED BY <1>1, <1>3, <1>6, FoldRun
<1>8. \A k \in 1 .. n : r[k] = IF key \in DOMAIN seq[k] THEN r[k - 1] (+) seq[k][key]
                                                       ELSE r[k - 1]
  <2>1. \A k \in 1 .. n : k - 1 \in 0 .. n /\ r[k - 1] \in A
    <3> HIDE DEF n, A, step, base, Solves
    <3> QED BY <1>1, <1>7 DEF IsRun
  <2> QED BY <1>7, <2>1 DEF IsRun
<1> HIDE DEF A
<1> QED BY <1>2, <1>7, <1>8 DEF A, IsRun, AddsUp

\* The texts of a modality by the number of their unit, the keys of its units,
\* and what its shards hold.
TextAt(m) == [i \in DOMAIN chosen[m] |-> chosen[m][i].text]
KeysOf(m) == {GroupKey(m, chosen[m][i]) : i \in DOMAIN chosen[m]}
StoredRows(m, c) ==
  UnitTable(Chunk(m, c), [i \in 1 .. Len(Chunk(m, c)) |-> Chunk(m, c)[i].text])
FullyStored(m) ==
  chosen[m] \in Seq(UnitRow) /\ stored[m] = [c \in 1 .. ChunkCount(m) |-> StoredRows(m, c)]

\* The delta of a shard has the texts of its chunk under their keys.
DeltaHolds(m, d, a, b) ==
  /\ DOMAIN d = {GroupKey(m, chosen[m][i]) : i \in a + 1 .. b}
  /\ \A k \in DOMAIN d :
       /\ d[k] = BagAt(TextAt(m), {i \in a + 1 .. b : GroupKey(m, chosen[m][i]) = k})
       /\ d[k] \in TextBags

\* It does, for every chunk.
LEMMA DeltaFact ==
  ASSUME NEW m, chosen[m] \in Seq(UnitRow), NEW c \in 1 .. ChunkCount(m)
  PROVE  DeltaHolds(m, Delta(m, StoredRows(m, c)), EndOf(m, c - 1), EndOf(m, c))
<1>1. PICK u \in Seq(UnitRow) : u = chosen[m]
  OBVIOUS
<1>2. PICK n \in Nat : n = Len(u) /\ DOMAIN u = 1 .. n
  OBVIOUS
<1>3. ChunksFit(m)
  BY ChunkFact
<1>4. PICK a \in Nat, b \in Nat : a = EndOf(m, c - 1) /\ b = EndOf(m, c) /\ a <= b /\ b <= n
  BY <1>1, <1>2, <1>3 DEF ChunksFit
<1>5. PICK chunk \in Seq(UnitRow) : chunk = Chunk(m, c)
  BY <1>3 DEF ChunksFit
<1>6. Len(chunk) = b - a /\ \A i \in 1 .. b - a : chunk[i] = u[a + i]
  BY <1>1, <1>3, <1>4, <1>5 DEF ChunksFit
<1>7. PICK l \in Nat : l = b - a /\ a + l = b
  BY <1>4
<1>8. PICK rows : rows = StoredRows(m, c)
  OBVIOUS
<1>9. rows = [i \in 1 .. l |-> <<chunk[i], chunk[i].text>>]
  BY <1>5, <1>6, <1>7, <1>8 DEF StoredRows, UnitTable
<1>10. ASSUME NEW i \in 1 .. l
       PROVE  /\ rows[i][1] = u[a + i] /\ rows[i][2] = u[a + i].text
              /\ a + i \in a + 1 .. b /\ a + i \in 1 .. n
  <2>1. chunk[i] = u[a + i]
    BY <1>6, <1>7
  <2>2. a + i \in a + 1 .. b /\ a + i \in 1 .. n
    <3>1. i \in Nat /\ 1 <= i /\ i <= l
      OBVIOUS
    <3>2. a + i \in Nat /\ a + 1 <= a + i /\ a + i <= b /\ 1 <= a + i
      BY <1>7, <3>1
    <3>3. a + i <= n
      BY <1>4, <3>2
    <3> QED BY <3>2, <3>3
  <2> QED BY <1>9, <2>1, <2>2
<1>11. ASSUME NEW j \in a + 1 .. b PROVE j - a \in 1 .. l /\ a + (j - a) = j /\ j \in 1 .. n
  <2>1. j \in Int /\ a + 1 <= j /\ j <= b
    OBVIOUS
  <2>2. 1 <= j - a /\ j - a <= l /\ a + (j - a) = j /\ 1 <= j
    BY <1>7, <2>1
  <2>3. j <= n
    BY <1>4, <2>1
  <2> QED BY <2>1, <2>2, <2>3
<1>12. PICK vectors : vectors = [i \in 1 .. l |-> rows[i][2]]
  OBVIOUS
<1>13. PICK keys : keys = {GroupKey(m, rows[i][1]) : i \in 1 .. l}
  OBVIOUS
<1>14. PICK d : d = Delta(m, rows)
  OBVIOUS
<1>15. d = [k \in keys |-> BagAt(vectors, {i \in 1 .. l : GroupKey(m, rows[i][1]) = k})]
  <2>1. DOMAIN rows = 1 .. l
    BY <1>9
  <2> QED BY <1>12, <1>13, <1>14, <2>1 DEF Delta
<1>16. keys = {GroupKey(m, u[i]) : i \in a + 1 .. b}
  <2>1. ASSUME NEW k \in keys PROVE k \in {GroupKey(m, u[i]) : i \in a + 1 .. b}
    <3>1. PICK i \in 1 .. l : k = GroupKey(m, rows[i][1])
      BY <1>13
    <3> QED BY <1>10, <3>1
  <2>2. ASSUME NEW k \in {GroupKey(m, u[i]) : i \in a + 1 .. b} PROVE k \in keys
    <3>1. PICK j \in a + 1 .. b : k = GroupKey(m, u[j])
      OBVIOUS
    <3>2. rows[j - a][1] = u[j] /\ j - a \in 1 .. l
      BY <1>10, <1>11
    <3> QED BY <1>13, <3>1, <3>2
  <2> QED BY <2>1, <2>2
<1>17. PICK texts : texts = TextAt(m)
  OBVIOUS
<1>18. \A i \in 1 .. n : texts[i] = u[i].text /\ u[i].text \in Unusable \cup DOMAIN TextLevel
  <2>1. \A i \in 1 .. n : texts[i] = u[i].text
    BY <1>1, <1>2, <1>17 DEF TextAt
  <2>2. \A i \in 1 .. n : u[i] \in UnitRow
    BY <1>2
  <2> QED BY <2>1, <2>2 DEF UnitRow
<1>19. ASSUME NEW k \in keys
       PROVE  /\ d[k] = BagAt(texts, {i \in a + 1 .. b : GroupKey(m, u[i]) = k})
              /\ d[k] \in TextBags
  <2>1. PICK J : J = {i \in 1 .. l : GroupKey(m, rows[i][1]) = k}
    OBVIOUS
  <2>2. PICK I : I = {i \in a + 1 .. b : GroupKey(m, u[i]) = k}
    OBVIOUS
  <2>3. IsFiniteSet(J)
    <3>1. IsFiniteSet(1 .. l)
      BY FS_Interval
    <3> QED BY <2>1, <3>1, FS_Subset
  <2>4. PICK f : f = [j \in J |-> a + j]
    OBVIOUS
  <2>5. ASSUME NEW j \in J PROVE a + j \in I /\ vectors[j] = texts[a + j]
    <3>1. j \in 1 .. l
      BY <2>1
    <3> QED BY <1>10, <1>12, <1>18, <2>1, <2>2, <3>1
  <2>6. f \in [J -> I] /\ \A j \in J : vectors[j] = texts[f[j]]
    BY <2>4, <2>5
  <2>7. \A j, k2 \in J : f[j] = f[k2] => j = k2
    <3>1. \A j \in J : j \in Int
      BY <2>1
    <3> QED BY <2>4, <3>1
  <2>8. ASSUME NEW i \in I PROVE \E j \in J : f[j] = i
    <3>1. i \in a + 1 .. b /\ GroupKey(m, u[i]) = k
      BY <2>2
    <3>2. i - a \in 1 .. l /\ a + (i - a) = i
      BY <1>11, <3>1
    <3>3. i - a \in J
      BY <1>10, <2>1, <3>1, <3>2
    <3> QED BY <2>4, <3>2, <3>3
  <2>9. BagAt(vectors, J) = BagAt(texts, I)
    BY <2>3, <2>6, <2>7, <2>8, BagMoved
  <2>10. IsFiniteSet(I) /\ \A i \in I : i \in 1 .. n
    <3>1. IsFiniteSet(a + 1 .. b)
      BY FS_Interval
    <3>2. \A i \in I : i \in a + 1 .. b
      BY <2>2
    <3>3. IsFiniteSet(I)
      BY <3>1, <3>2, FS_Subset
    <3> QED BY <1>11, <3>2, <3>3
  <2>11. BagAt(texts, I) \in TextBags
    BY <1>18, <2>10, BagAtText
  <2> QED BY <1>15, <2>1, <2>2, <2>9, <2>11
<1>20. DOMAIN d = keys
  BY <1>15
<1>21. DeltaHolds(m, d, a, b)
  <2>1. DOMAIN d = {GroupKey(m, chosen[m][i]) : i \in a + 1 .. b}
    BY <1>1, <1>16, <1>20
  <2>2. ASSUME NEW k \in DOMAIN d
        PROVE  /\ d[k] = BagAt(TextAt(m), {i \in a + 1 .. b : GroupKey(m, chosen[m][i]) = k})
               /\ d[k] \in TextBags
    BY <1>1, <1>17, <1>19, <1>20
  <2> QED BY <2>1, <2>2 DEF DeltaHolds
<1> QED BY <1>4, <1>8, <1>14, <1>21

\* The deltas of a modality, and their total for every key.
DeltasOf(m) == [i \in DOMAIN stored[m] |-> Delta(m, stored[m][i])]

\* There is one delta for every chunk.
LEMMA DeltasFact ==
  ASSUME NEW m, FullyStored(m)
  PROVE  /\ Len(DeltasOf(m)) = ChunkCount(m) /\ Deltas(DeltasOf(m))
         /\ \A c \in 1 .. ChunkCount(m) :
              DeltaHolds(m, DeltasOf(m)[c], EndOf(m, c - 1), EndOf(m, c))
<1>1. PICK q \in Nat : q = ChunkCount(m)
  BY ChunkFact DEF ChunksFit, FullyStored
<1>2. PICK seq : seq = DeltasOf(m)
  OBVIOUS
<1>3. seq = [c \in 1 .. q |-> Delta(m, StoredRows(m, c))]
  BY <1>1, <1>2 DEF DeltasOf, FullyStored
<1>4. ASSUME NEW c \in 1 .. q PROVE DeltaHolds(m, seq[c], EndOf(m, c - 1), EndOf(m, c))
  BY <1>1, <1>3, DeltaFact DEF FullyStored
<1>5. Len(seq) = q /\ DOMAIN seq = 1 .. q
  BY <1>3
<1>6. \A c \in 1 .. q : \A k \in DOMAIN seq[c] : seq[c][k] \in TextBags
  BY <1>4 DEF DeltaHolds
<1> QED BY <1>1, <1>2, <1>4, <1>5, <1>6 DEF Deltas

\* The keys of the deltas are the keys of the units.
LEMMA DeltaKeys ==
  ASSUME NEW m, FullyStored(m)
  PROVE  UNION {DOMAIN DeltasOf(m)[i] : i \in DOMAIN DeltasOf(m)} = KeysOf(m)
<1>1. PICK u \in Seq(UnitRow) : u = chosen[m]
  BY DEF FullyStored
<1>2. PICK n \in Nat : n = Len(u) /\ DOMAIN u = 1 .. n
  OBVIOUS
<1>3. PICK q \in Nat \ {0} : q = ChunkCount(m)
  BY <1>1, ChunkFact DEF ChunksFit
<1>4. PICK seq : seq = DeltasOf(m) /\ DOMAIN seq = 1 .. q
  BY <1>3, DeltasFact DEF Deltas
<1>5. PICK e : e = [k \in 0 .. q |-> EndOf(m, k)]
  OBVIOUS
<1>6. /\ e[0] = 0 /\ e[q] = n
      /\ \A k \in 1 .. q : e[k - 1] \in Nat /\ e[k] \in Nat /\ e[k - 1] <= e[k] /\ e[k] <= n
  <2>1. 0 \in 0 .. q /\ q \in 0 .. q /\ \A k \in 1 .. q : k \in 0 .. q /\ k - 1 \in 0 .. q
    BY <1>3
  <2>2. \A k \in 0 .. q : e[k] = EndOf(m, k)
    BY <1>5
  <2>3. ChunksFit(m)
    BY <1>1, ChunkFact
  <2>4. /\ EndOf(m, 0) = 0 /\ EndOf(m, q) = n
        /\ \A k \in 1 .. q : /\ EndOf(m, k - 1) \in Nat /\ EndOf(m, k) \in Nat
                             /\ EndOf(m, k - 1) <= EndOf(m, k) /\ EndOf(m, k) <= n
    BY <1>1, <1>2, <1>3, <2>3 DEF ChunksFit
  <2> QED BY <2>1, <2>2, <2>4
<1>7. ASSUME NEW k \in 1 .. q
      PROVE  DOMAIN seq[k] = {GroupKey(m, u[i]) : i \in e[k - 1] + 1 .. e[k]}
  <2>1. k \in 0 .. q /\ k - 1 \in 0 .. q
    BY <1>3
  <2>2. e[k - 1] = EndOf(m, k - 1) /\ e[k] = EndOf(m, k)
    BY <1>5, <2>1
  <2>3. DeltaHolds(m, seq[k], EndOf(m, k - 1), EndOf(m, k))
    BY <1>3, <1>4, DeltasFact
  <2> QED BY <1>1, <2>2, <2>3 DEF DeltaHolds
<1> DEFINE Found(k) == \A i \in 1 .. e[k] : \E c \in 1 .. k : GroupKey(m, u[i]) \in DOMAIN seq[c]
           K == {k \in Nat : k <= q => Found(k)}
<1>8. 0 \in K
  BY <1>6
<1>9. ASSUME NEW k \in Nat, k \in K PROVE k + 1 \in K
  <2> SUFFICES ASSUME k + 1 <= q, NEW i \in 1 .. e[k + 1]
               PROVE  \E c \in 1 .. k + 1 : GroupKey(m, u[i]) \in DOMAIN seq[c]
    OBVIOUS
  <2>1. k + 1 \in 1 .. q /\ (k + 1) - 1 = k
    OBVIOUS
  <2>2. e[k] \in Nat /\ e[k + 1] \in Nat
    BY <1>6, <2>1
  <2>3. CASE i \in 1 .. e[k]
    <3>1. PICK c \in 1 .. k : GroupKey(m, u[i]) \in DOMAIN seq[c]
      BY <1>9, <2>1, <2>3
    <3>2. c \in 1 .. k + 1
      OBVIOUS
    <3> QED BY <3>1, <3>2
  <2>4. CASE i \in e[k] + 1 .. e[k + 1]
    <3>1. GroupKey(m, u[i]) \in DOMAIN seq[k + 1]
      BY <1>7, <2>1, <2>4
    <3> QED BY <3>1
  <2> QED BY <2>2, <2>3, <2>4
<1> HIDE DEF K, Found
<1>10. q \in K
  BY <1>8, <1>9, NaturalInduction
<1>11. Found(q)
  BY <1>10, <1>3 DEF K
<1>12. ASSUME NEW k \in KeysOf(m) PROVE \E c \in 1 .. q : k \in DOMAIN seq[c]
  <2>1. PICK i \in 1 .. n : k = GroupKey(m, u[i])
    BY <1>1, <1>2 DEF KeysOf
  <2> QED BY <1>6, <1>11, <2>1 DEF Found
<1>13. ASSUME NEW c \in 1 .. q, NEW k \in DOMAIN seq[c] PROVE k \in KeysOf(m)
  <2>1. PICK i \in e[c - 1] + 1 .. e[c] : k = GroupKey(m, u[i])
    BY <1>7
  <2>2. i \in 1 .. n
    <3>1. e[c - 1] \in Nat /\ e[c] \in Nat /\ e[c] <= n
      BY <1>6
    <3> QED BY <3>1
  <2> QED BY <1>1, <1>2, <2>1, <2>2 DEF KeysOf
<1> QED BY <1>4, <1>12, <1>13

\* The total of a key is the bag of its texts.
LEMMA TotalFact ==
  ASSUME NEW m, FullyStored(m), NEW key
  PROVE  TotalOf(key, DeltasOf(m)) = TextsOf(m, key) /\ TextsOf(m, key) \in TextBags
<1>1. PICK u \in Seq(UnitRow) : u = chosen[m]
  BY DEF FullyStored
<1>2. PICK n \in Nat : n = Len(u) /\ DOMAIN u = 1 .. n
  OBVIOUS
<1>3. PICK q \in Nat \ {0} : q = ChunkCount(m)
  BY <1>1, ChunkFact DEF ChunksFit
<1>4. PICK seq : seq = DeltasOf(m) /\ Len(seq) = q /\ Deltas(seq)
  BY <1>3, DeltasFact
<1>5. PICK r \in [0 .. q -> TextBags] :
        /\ r[0] = EmptyBag /\ TotalOf(key, seq) = r[q]
        /\ \A k \in 1 .. q : r[k] = IF key \in DOMAIN seq[k] THEN r[k - 1] (+) seq[k][key] ELSE r[k - 1]
  <2>1. PICK r : AddsUp(r, key, seq)
    BY <1>4, TotalRun
  <2> QED BY <1>4, <2>1 DEF AddsUp
<1>6. PICK texts : texts = TextAt(m)
  OBVIOUS
<1>7. PICK I : I = [e \in 0 .. n |-> {i \in 1 .. n : i <= e /\ GroupKey(m, u[i]) = key}]
  OBVIOUS
<1>8. PICK e : e = [k \in 0 .. q |-> EndOf(m, k)]
  OBVIOUS
<1>9. /\ e[0] = 0 /\ e[q] = n
      /\ \A k \in 1 .. q : e[k - 1] \in Nat /\ e[k] \in Nat /\ e[k - 1] <= e[k] /\ e[k] <= n
  <2>1. 0 \in 0 .. q /\ q \in 0 .. q /\ \A k \in 1 .. q : k \in 0 .. q /\ k - 1 \in 0 .. q
    BY <1>3
  <2>2. \A k \in 0 .. q : e[k] = EndOf(m, k)
    BY <1>8
  <2>3. ChunksFit(m)
    BY <1>1, ChunkFact
  <2>4. /\ EndOf(m, 0) = 0 /\ EndOf(m, q) = n
        /\ \A k \in 1 .. q : /\ EndOf(m, k - 1) \in Nat /\ EndOf(m, k) \in Nat
                             /\ EndOf(m, k - 1) <= EndOf(m, k) /\ EndOf(m, k) <= n
    BY <1>1, <1>2, <1>3, <2>3 DEF ChunksFit
  <2> QED BY <2>1, <2>2, <2>4
<1> DEFINE K == {k \in Nat : k <= q => r[k] = BagAt(texts, I[e[k]])}
<1>10. 0 \in K
  <2>1. I[0] = {}
    <3>1. 0 \in 0 .. n /\ \A i \in 1 .. n : ~(i <= 0)
      OBVIOUS
    <3> QED BY <1>7, <3>1
  <2> QED BY <1>5, <1>9, <2>1, BagEmpty
<1>11. ASSUME NEW k \in Nat, k \in K PROVE k + 1 \in K
  <2> SUFFICES ASSUME k + 1 <= q PROVE r[k + 1] = BagAt(texts, I[e[k + 1]])
    OBVIOUS
  <2>1. k + 1 \in 1 .. q /\ (k + 1) - 1 = k /\ k <= q
    OBVIOUS
  <2>2. r[k] = BagAt(texts, I[e[k]])
    BY <1>11, <2>1
  <2>3. PICK a \in Nat, b \in Nat : a = e[k] /\ b = e[k + 1] /\ a <= b /\ b <= n
    <3>1. e[(k + 1) - 1] \in Nat /\ e[k + 1] \in Nat /\ e[(k + 1) - 1] <= e[k + 1] /\ e[k + 1] <= n
      BY <1>9, <2>1
    <3> QED BY <2>1, <3>1
  <2>4. DeltaHolds(m, seq[k + 1], a, b)
    <3>1. DeltaHolds(m, seq[k + 1], EndOf(m, (k + 1) - 1), EndOf(m, k + 1))
      BY <1>3, <1>4, <2>1, DeltasFact
    <3>2. k \in 0 .. q /\ k + 1 \in 0 .. q
      BY <2>1
    <3>3. a = EndOf(m, k) /\ b = EndOf(m, k + 1)
      BY <1>8, <2>3, <3>2
    <3> QED BY <2>1, <3>1, <3>3
  <2>5. PICK J : J = {i \in a + 1 .. b : GroupKey(m, u[i]) = key}
    OBVIOUS
  <2>6. I[b] = I[a] \cup J /\ I[a] \cap J = {}
    <3>1. a \in 0 .. n /\ b \in 0 .. n
      BY <2>3
    <3>2. /\ I[a] = {i \in 1 .. n : i <= a /\ GroupKey(m, u[i]) = key}
          /\ I[b] = {i \in 1 .. n : i <= b /\ GroupKey(m, u[i]) = key}
      BY <1>7, <3>1
    <3>3. \A i \in 1 .. n : i <= b <=> i <= a \/ i \in a + 1 .. b
      BY <2>3
    <3>4. \A i \in a + 1 .. b : i \in 1 .. n /\ ~(i <= a)
      BY <2>3
    <3>5. ASSUME NEW i PROVE i \in I[b] <=> i \in I[a] \/ i \in J
      <4>1. i \in I[b] <=> i \in 1 .. n /\ i <= b /\ GroupKey(m, u[i]) = key
        BY <3>2
      <4>2. i \in I[a] <=> i \in 1 .. n /\ i <= a /\ GroupKey(m, u[i]) = key
        BY <3>2
      <4>3. i \in J <=> i \in a + 1 .. b /\ GroupKey(m, u[i]) = key
        BY <2>5
      <4> QED BY <3>3, <3>4, <4>1, <4>2, <4>3
    <3>6. ASSUME NEW i \in J PROVE i \notin I[a]
      BY <2>5, <3>2, <3>4
    <3>7. PICK x, y : x = I[a] /\ y = I[b]
      OBVIOUS
    <3>8. y = x \cup J /\ x \cap J = {}
      BY <3>5, <3>6, <3>7
    <3> QED BY <3>7, <3>8
  <2>7. IsFiniteSet(I[a]) /\ IsFiniteSet(J)
    <3>1. a + 1 \in Int /\ b \in Int /\ 1 \in Int /\ n \in Int
      OBVIOUS
    <3>2. a \in 0 .. n
      BY <2>3
    <3>3. I[a] \subseteq 1 .. n
      BY <1>7, <3>2
    <3>4. IsFiniteSet(1 .. n)
      BY <3>1, FS_Interval
    <3>5. IsFiniteSet(a + 1 .. b)
      BY <3>1, FS_Interval
    <3>6. J \subseteq a + 1 .. b
      BY <2>5
    <3>7. IsFiniteSet(I[a])
      BY <3>3, <3>4, FS_Subset
    <3> QED BY <3>5, <3>6, <3>7, FS_Subset
  <2>8. CASE key \in DOMAIN seq[k + 1]
    <3>1. seq[k + 1][key] = BagAt(texts, J)
      BY <1>1, <1>6, <2>4, <2>5, <2>8 DEF DeltaHolds
    <3>2. r[k + 1] = r[k] (+) seq[k + 1][key]
      BY <1>5, <2>1, <2>8
    <3>3. BagAt(texts, I[a]) (+) BagAt(texts, J) = BagAt(texts, I[a] \cup J)
      BY <2>6, <2>7, BagUnion2
    <3> QED BY <2>2, <2>3, <2>6, <3>1, <3>2, <3>3
  <2>9. CASE key \notin DOMAIN seq[k + 1]
    <3>1. r[k + 1] = r[k]
      BY <1>5, <2>1, <2>9
    <3>2. J = {}
      BY <1>1, <2>4, <2>5, <2>9 DEF DeltaHolds
    <3>3. I[b] = I[a]
      BY <2>6, <3>2
    <3> QED BY <2>2, <2>3, <3>1, <3>3
  <2> QED BY <2>8, <2>9
<1> HIDE DEF K
<1>12. q \in K
  BY <1>10, <1>11, NaturalInduction
<1>13. r[q] = BagAt(texts, I[n])
  BY <1>3, <1>9, <1>12 DEF K
<1>14. I[n] = {i \in 1 .. n : GroupKey(m, u[i]) = key}
  <2>1. n \in 0 .. n /\ \A i \in 1 .. n : i <= n
    OBVIOUS
  <2> QED BY <1>7, <2>1
<1>15. TextsOf(m, key) = BagAt(texts, I[n])
  BY <1>1, <1>2, <1>6, <1>14 DEF TextsOf, TextAt
<1>16. r[q] \in TextBags
  BY <1>3, <1>5
<1> QED BY <1>4, <1>5, <1>13, <1>15, <1>16

\* The merged groups as they should be: every key once, in order, with its texts.
KeyList(groups) == [i \in 1 .. Len(groups) |-> groups[i].key]
Merged(groups, m) ==
  /\ groups \in Seq([key : KeysOf(m), total : TextBags])
  /\ Lists(KeyList(groups), BeforeIn, KeysOf(m))
  /\ \A i \in 1 .. Len(groups) : groups[i].total = TextsOf(m, groups[i].key)

\* The keys of a modality are finitely many, all of one kind.
LEMMA KeysFact ==
  ASSUME NEW m \in Modalities, chosen[m] \in Seq(UnitRow)
  PROVE  /\ IsFiniteSet(KeysOf(m))
         /\ m = "node_text" => KeysOf(m) \subseteq Pair
         /\ m = "event_text" => KeysOf(m) \subseteq Quad
<1>1. PICK u \in Seq(UnitRow) : u = chosen[m]
  OBVIOUS
<1>2. PICK n \in Nat : n = Len(u) /\ DOMAIN u = 1 .. n
  OBVIOUS
<1>3. KeysOf(m) = {GroupKey(m, u[i]) : i \in 1 .. n}
  BY <1>1, <1>2 DEF KeysOf
<1>4. IsFiniteSet(KeysOf(m))
  <2> DEFINE g == [i \in 1 .. n |-> GroupKey(m, u[i])]
  <2>1. IsFiniteSet(1 .. n)
    BY FS_Interval
  <2>2. IsFiniteSet({g[i] : i \in DOMAIN g})
    BY <2>1, FiniteValues
  <2>3. {g[i] : i \in DOMAIN g} = {GroupKey(m, u[i]) : i \in 1 .. n}
    OBVIOUS
  <2> QED BY <1>3, <2>2, <2>3
<1>5. ASSUME NEW i \in 1 .. n
      PROVE  /\ m = "node_text" => GroupKey(m, u[i]) \in Pair
             /\ m = "event_text" => GroupKey(m, u[i]) \in Quad
  <2>1. PICK x : x = u[i] /\ x \in UnitRow
    BY <1>2
  <2>2. x.snap \in Int /\ x.rel \in Int /\ x.node \in Int /\ x.dst \in Int
    BY <2>1 DEF UnitRow
  <2> QED BY <2>1, <2>2 DEF GroupKey, Pair, Quad
<1> QED BY <1>3, <1>4, <1>5

\* The merge gives them so.
LEMMA MergedFact ==
  ASSUME NEW m \in Modalities, FullyStored(m)
  PROVE  Merged(MergedGroups(m), m)
<1>1. PICK K : K = KeysOf(m)
  OBVIOUS
<1>2. IsFiniteSet(K) /\ (K \subseteq Pair \/ K \subseteq Quad)
  BY <1>1, KeysFact DEF FullyStored, Modalities
<1>3. PICK keys \in Seq(K) : keys = Sorted(K) /\ Lists(keys, BeforeIn, K)
  BY <1>2, SortedList
<1>4. PICK n \in Nat : n = Len(keys) /\ DOMAIN keys = 1 .. n
  OBVIOUS
<1>5. PICK groups : groups = MergedGroups(m)
  OBVIOUS
<1>6. groups = [i \in 1 .. n |-> [key |-> keys[i], total |-> TotalOf(keys[i], DeltasOf(m))]]
  <2> DEFINE seq == DeltasOf(m)
             sorted == Sorted(UNION {DOMAIN seq[i] : i \in DOMAIN seq})
  <2>1. groups = [i \in DOMAIN sorted |-> [key |-> sorted[i], total |-> TotalOf(sorted[i], seq)]]
    BY <1>5 DEF MergedGroups, TotalOf, DeltasOf
  <2>2. keys = sorted
    <3>1. K = UNION {DOMAIN seq[i] : i \in DOMAIN seq}
      BY <1>1, DeltaKeys
    <3> QED BY <1>3, <3>1
  <2> HIDE DEF sorted, seq
  <2>3. groups = [i \in 1 .. n |-> [key |-> sorted[i], total |-> TotalOf(sorted[i], seq)]]
    BY <1>4, <2>1, <2>2
  <2> QED BY <2>2, <2>3 DEF seq
<1>7. ASSUME NEW i \in 1 .. n
      PROVE  /\ groups[i].key = keys[i] /\ keys[i] \in K
             /\ groups[i].total = TextsOf(m, keys[i]) /\ TextsOf(m, keys[i]) \in TextBags
  <2>1. keys[i] \in K
    BY <1>4
  <2>2. groups[i] = [key |-> keys[i], total |-> TotalOf(keys[i], DeltasOf(m))]
    BY <1>6
  <2> QED BY <2>1, <2>2, TotalFact
<1>8. groups \in Seq([key : K, total : TextBags]) /\ Len(groups) = n
  <2>1. \A i \in 1 .. n : groups[i] \in [key : K, total : TextBags]
    <3>1. ASSUME NEW i \in 1 .. n PROVE groups[i] \in [key : K, total : TextBags]
      <4>1. groups[i] = [key |-> keys[i], total |-> TotalOf(keys[i], DeltasOf(m))]
        BY <1>6
      <4>2. keys[i] \in K /\ TotalOf(keys[i], DeltasOf(m)) \in TextBags
        BY <1>7, TotalFact
      <4> QED BY <4>1, <4>2
    <3> QED BY <3>1
  <2>2. DOMAIN groups = 1 .. n /\ groups = [i \in 1 .. n |-> groups[i]]
    BY <1>6, Zenon
  <2>3. groups \in [1 .. n -> [key : K, total : TextBags]]
    BY <2>1, <2>2
  <2> QED BY <2>2, <2>3
<1>9. KeyList(groups) = keys
  <2>1. KeyList(groups) = [i \in 1 .. n |-> keys[i]]
    BY <1>7, <1>8 DEF KeyList
  <2> QED BY <1>4, <2>1
<1> QED BY <1>1, <1>3, <1>5, <1>7, <1>8, <1>9 DEF Merged

\* A key without a unit has no texts.
LEMMA NoTexts ==
  ASSUME NEW m, NEW key, key \notin KeysOf(m)
  PROVE  TextsOf(m, key) = EmptyBag
<1>1. {i \in DOMAIN chosen[m] : GroupKey(m, chosen[m][i]) = key} = {}
  BY DEF KeysOf
<1> QED BY <1>1, BagEmpty DEF TextsOf

\* The node array has for every snapshot and node the texts of its key.
NodeRight(node) ==
  \A s \in Snapshots : \A n \in Nodes : Available(node[<<s, n>>]) = TextsOf("node_text", <<s, n>>)

\* It has, when every chunk is stored.
LEMMA NodeFact ==
  ASSUME FullyStored("node_text")
  PROVE  NodeRight(NodeArray(MergedGroups("node_text")))
<1> DEFINE m == "node_text"
<1>1. PICK groups : groups = MergedGroups(m)
  OBVIOUS
<1>2. Merged(groups, m)
  BY <1>1, MergedFact DEF Modalities
<1>3. DOMAIN groups = 1 .. Len(groups) /\ Len(groups) \in Nat
  BY <1>2 DEF Merged
<1> SUFFICES ASSUME NEW s \in Snapshots, NEW n \in Nodes
             PROVE  Available(NodeArray(groups)[<<s, n>>]) = TextsOf(m, <<s, n>>)
  BY <1>1 DEF NodeRight
<1>4. PICK k : k = <<s, n>>
  OBVIOUS
<1>5. NodeArray(groups)[k] = IF \E i \in DOMAIN groups : groups[i].key = k
                               THEN Mean((CHOOSE g \in Range(groups) : g.key = k).total) ELSE Zero
  BY <1>4 DEF NodeArray
<1>6. CASE \E i \in DOMAIN groups : groups[i].key = k
  <2>1. PICK g : g = CHOOSE x \in Range(groups) : x.key = k
    OBVIOUS
  <2>2. g \in Range(groups) /\ g.key = k
    <3>1. \E x \in Range(groups) : x.key = k
      BY <1>6 DEF Range
    <3> QED BY <2>1, <3>1
  <2>3. PICK i \in 1 .. Len(groups) : g = groups[i]
    BY <1>3, <2>2 DEF Range
  <2>4. g.total = TextsOf(m, k)
    BY <1>2, <2>2, <2>3 DEF Merged
  <2>5. NodeArray(groups)[k] = Mean(g.total)
    BY <1>5, <1>6, <2>1
  <2> QED BY <1>4, <2>4, <2>5 DEF Mean, Available
<1>7. CASE ~ \E i \in DOMAIN groups : groups[i].key = k
  <2>1. k \notin KeysOf(m)
    <3> SUFFICES ASSUME k \in KeysOf(m) PROVE FALSE
      OBVIOUS
    <3>1. PICK i \in 1 .. Cardinality(KeysOf(m)) : KeyList(groups)[i] = k
      BY <1>2 DEF Merged, Lists
    <3>2. PICK c \in Nat : c = Cardinality(KeysOf(m)) /\ KeyList(groups) \in [1 .. c -> KeysOf(m)]
      BY <1>2 DEF Merged, Lists
    <3>3. DOMAIN KeyList(groups) = 1 .. Len(groups)
      BY DEF KeyList
    <3>4. i \in 1 .. Len(groups)
      BY <3>1, <3>2, <3>3
    <3>5. groups[i].key = k
      BY <3>1, <3>4 DEF KeyList
    <3> QED BY <1>3, <1>7, <3>4, <3>5
  <2>2. NodeArray(groups)[k] = Zero
    BY <1>5, <1>7
  <2> QED BY <1>4, <2>1, <2>2, NoTexts DEF Zero, Available
<1> QED BY <1>6, <1>7

\* The merge join: what it works on, its step, and a run of it over the edges.
Group == [key : Quad, total : TextBags]
Vec == {Zero} \cup {Mean(t) : t \in TextBags}
JoinStates == [left : Seq(Group), out : Seq(Vec), stray : BOOLEAN]
JoinStart(groups) == [left |-> groups, out |-> << >>, stray |-> FALSE]
JoinStep(acc, e) ==
  IF acc.left = << >> \/ Before(e, Head(acc.left).key)
    THEN [acc EXCEPT !.out = Append(@, Zero)]
  ELSE IF Head(acc.left).key = e
    THEN [acc EXCEPT !.out = Append(@, Mean(Head(acc.left).total)), !.left = Tail(@)]
  ELSE [acc EXCEPT !.stray = TRUE]
JoinsBy(r, groups, edges) ==
  /\ r \in [0 .. Len(edges) -> JoinStates]
  /\ r[0] = JoinStart(groups) /\ Join(groups, edges) = r[Len(edges)]
  /\ \A k \in 1 .. Len(edges) : r[k] = JoinStep(r[k - 1], edges[k])

\* A step of the join stays in its states.
LEMMA JoinStepType ==
  ASSUME NEW acc \in JoinStates, NEW e
  PROVE  JoinStep(acc, e) \in JoinStates
<1>1. PICK left \in Seq(Group), out \in Seq(Vec), stray \in BOOLEAN :
        acc = [left |-> left, out |-> out, stray |-> stray]
  BY DEF JoinStates
<1>2. Zero \in Vec
  BY DEF Vec
<1>3. CASE left = << >> \/ Before(e, Head(left).key)
  <2>1. JoinStep(acc, e) = [left |-> left, out |-> Append(out, Zero), stray |-> stray]
    BY <1>1, <1>3 DEF JoinStep
  <2>2. Append(out, Zero) \in Seq(Vec)
    BY <1>2
  <2> QED BY <2>1, <2>2 DEF JoinStates
<1>4. CASE ~(left = << >> \/ Before(e, Head(left).key)) /\ Head(left).key = e
  <2>1. Head(left) \in Group /\ Tail(left) \in Seq(Group)
    BY <1>4
  <2>2. Mean(Head(left).total) \in Vec
    BY <2>1 DEF Group, Vec
  <2>3. JoinStep(acc, e) = [left |-> Tail(left), out |-> Append(out, Mean(Head(left).total)),
                            stray |-> stray]
    BY <1>1, <1>4 DEF JoinStep
  <2>4. Append(out, Mean(Head(left).total)) \in Seq(Vec)
    BY <2>2
  <2> QED BY <2>1, <2>3, <2>4 DEF JoinStates
<1>5. CASE ~(left = << >> \/ Before(e, Head(left).key)) /\ Head(left).key # e
  <2>1. JoinStep(acc, e) = [left |-> left, out |-> out, stray |-> TRUE]
    BY <1>1, <1>5 DEF JoinStep
  <2> QED BY <2>1 DEF JoinStates
<1> QED BY <1>3, <1>4, <1>5

\* The join is where its run ends.
LEMMA JoinRun ==
  ASSUME NEW groups \in Seq(Group), NEW edges \in Seq(Quad)
  PROVE  \E r : JoinsBy(r, groups, edges)
<1> DEFINE n == Len(edges)
           A == JoinStates
           base == JoinStart(groups)
           step == [i \in 1 .. n |-> [b \in A |-> JoinStep(b, edges[i])]]
           Solves(h) == h = [S \in SUBSET (1 .. n) |->
                               IF S = {} THEN JoinStart(groups)
                               ELSE JoinStep(h[S \ {Max(S)}], edges[Max(S)])]
           fold == CHOOSE h : Solves(h)
<1>1. n \in Nat /\ DOMAIN edges = 1 .. n
  OBVIOUS
<1>2. Join(groups, edges) = fold[1 .. n]
  BY <1>1 DEF Join, JoinStart, JoinStep, FoldLeft, MapThenFoldSet
<1>3. base \in A /\ step \in Steps(n, A)
  <2>1. \A i \in 1 .. n : \A b \in A : JoinStep(b, edges[i]) \in A
    BY JoinStepType
  <2>2. base \in A
    BY DEF JoinStart, JoinStates
  <2> HIDE DEF A, base
  <2> QED BY <2>1, <2>2 DEF Steps
<1>4. \A S \in SUBSET (1 .. n) : S # {} => Max(S) \in 1 .. n
  <2> SUFFICES ASSUME NEW S \in SUBSET (1 .. n), S # {} PROVE Max(S) \in 1 .. n
    OBVIOUS
  <2>1. S \in SUBSET (0 .. n)
    BY <1>1
  <2> QED BY <1>1, <2>1, MaxFact
<1>5. Solves(fold)
  <2>1. PICK h : IsFold(h, n, A, base, step)
    <3> HIDE DEF n, A, step, base, Solves, fold
    <3> QED BY <1>1, <1>3, FoldExists
  <2>2. Solves(h)
    <3>1. ASSUME NEW S \in SUBSET (1 .. n), S # {}
          PROVE  step[Max(S)][h[S \ {Max(S)}]] = JoinStep(h[S \ {Max(S)}], edges[Max(S)])
      <4>1. h[S \ {Max(S)}] \in A
        BY <2>1 DEF IsFold
      <4> HIDE DEF A
      <4> QED BY <1>4, <3>1, <4>1
    <3> HIDE DEF step, A, n
    <3> QED BY <2>1, <3>1 DEF IsFold
  <2> HIDE DEF Solves
  <2> QED BY <2>2
<1> HIDE DEF fold
<1>6. Folds(fold, n, A, base, step)
  BY <1>4, <1>5 DEF Folds
<1>7. PICK r : IsRun(r, n, A, base, step) /\ fold[1 .. n] = r[n]
  <2> HIDE DEF n, A, step, base, Solves
  <2> QED BY <1>1, <1>3, <1>6, FoldRun
<1>8. \A k \in 1 .. n : r[k] = JoinStep(r[k - 1], edges[k])
  <2>1. \A k \in 1 .. n : k - 1 \in 0 .. n /\ r[k - 1] \in A
    <3> HIDE DEF n, A, step, base, Solves
    <3> QED BY <1>1, <1>7 DEF IsRun
  <2> HIDE DEF A
  <2> QED BY <1>7, <2>1 DEF IsRun
<1> HIDE DEF A
<1> QED BY <1>2, <1>7, <1>8 DEF A, IsRun, JoinsBy

\* The vector of an edge: of the group with its key, or none.
VectorOf(v, e, groups) ==
  \/ \E j \in 1 .. Len(groups) : groups[j].key = e /\ v = Mean(groups[j].total)
  \/ v = Zero /\ \A j \in 1 .. Len(groups) : groups[j].key # e

\* The join after k edges: the groups it has taken are those of edges it has
\* passed, and every edge it has passed has its vector.
Joined(acc, k, groups, edges) ==
  /\ Len(acc.out) = k /\ \A i \in 1 .. k : VectorOf(acc.out[i], edges[i], groups)
  /\ \E c \in 0 .. Len(groups) :
       /\ Len(acc.left) = Len(groups) - c
       /\ \A j \in 1 .. Len(groups) - c : acc.left[j] = groups[c + j]
       /\ \A j \in 1 .. c : \E i \in 1 .. k : groups[j].key = edges[i]

\* Groups and edges, each in the order of their keys.
Ascending(groups, edges) ==
  /\ groups \in Seq(Group) /\ edges \in Seq(Quad)
  /\ \A i, j \in 1 .. Len(groups) : i < j => Before(groups[i].key, groups[j].key)
  /\ \A i, j \in 1 .. Len(edges) : i < j => edges[i] # edges[j]

\* No key is before itself, nor before one that is before it.
LEMMA BeforeStrict ==
  ASSUME NEW k \in Quad, NEW l \in Quad, Before(k, l)
  PROVE  k # l /\ ~Before(l, k)
<1>1. /\ k[1] \in Int /\ k[2] \in Int /\ k[3] \in Int /\ k[4] \in Int
      /\ l[1] \in Int /\ l[2] \in Int /\ l[3] \in Int /\ l[4] \in Int
  BY DEF Quad
<1>2. Before(k, l) <=> \/ k[1] < l[1]
                       \/ k[1] = l[1] /\ k[2] < l[2]
                       \/ k[1] = l[1] /\ k[2] = l[2] /\ k[3] < l[3]
                       \/ k[1] = l[1] /\ k[2] = l[2] /\ k[3] = l[3] /\ k[4] < l[4]
  BY BeforeQuad
<1>3. Before(l, k) <=> \/ l[1] < k[1]
                       \/ l[1] = k[1] /\ l[2] < k[2]
                       \/ l[1] = k[1] /\ l[2] = k[2] /\ l[3] < k[3]
                       \/ l[1] = k[1] /\ l[2] = k[2] /\ l[3] = k[3] /\ l[4] < k[4]
  BY BeforeQuad
<1> QED BY <1>1, <1>2, <1>3

\* One more edge keeps the join so.
LEMMA JoinedNext ==
  ASSUME NEW groups, NEW edges, Ascending(groups, edges), NEW acc \in JoinStates,
         NEW k \in Nat, k + 1 <= Len(edges), Joined(acc, k, groups, edges),
         ~JoinStep(acc, edges[k + 1]).stray
  PROVE  Joined(JoinStep(acc, edges[k + 1]), k + 1, groups, edges)
<1>1. PICK n \in Nat : n = Len(groups) /\ DOMAIN groups = 1 .. n
  BY DEF Ascending
<1>2. /\ \A j \in 1 .. n : groups[j] \in Group /\ groups[j].key \in Quad
      /\ \A i, j \in 1 .. n : i < j => Before(groups[i].key, groups[j].key)
  <2>1. \A j \in 1 .. n : groups[j] \in Group
    BY <1>1 DEF Ascending
  <2> QED BY <1>1, <2>1 DEF Ascending, Group
<1>3. PICK e \in Quad : e = edges[k + 1] /\ \A i \in 1 .. k : edges[i] # e
  <2>1. PICK l \in Nat : l = Len(edges)
    BY DEF Ascending
  <2>2. k + 1 \in 1 .. l /\ \A i \in 1 .. k : i \in 1 .. l /\ i < k + 1
    BY <2>1
  <2>3. edges[k + 1] \in Quad
    BY <2>1, <2>2 DEF Ascending
  <2>4. \A i \in 1 .. k : edges[i] # edges[k + 1]
    BY <2>1, <2>2 DEF Ascending
  <2> QED BY <2>3, <2>4
<1>4. PICK left \in Seq(Group), out \in Seq(Vec), stray \in BOOLEAN :
        acc = [left |-> left, out |-> out, stray |-> stray]
  BY DEF JoinStates
<1>5. Len(out) = k /\ \A i \in 1 .. k : VectorOf(out[i], edges[i], groups)
  BY <1>4 DEF Joined
<1>6. PICK c \in 0 .. n :
        /\ Len(left) = n - c /\ \A j \in 1 .. n - c : left[j] = groups[c + j]
        /\ \A j \in 1 .. c : \E i \in 1 .. k : groups[j].key = edges[i]
  BY <1>1, <1>4 DEF Joined
<1>7. \A j \in 1 .. c : groups[j].key # e
  BY <1>3, <1>6
<1>8. \A j \in 1 .. c : \E i \in 1 .. k + 1 : groups[j].key = edges[i]
  <2> SUFFICES ASSUME NEW j \in 1 .. c PROVE \E i \in 1 .. k + 1 : groups[j].key = edges[i]
    OBVIOUS
  <2>1. PICK i \in 1 .. k : groups[j].key = edges[i]
    BY <1>6
  <2>2. i \in 1 .. k + 1
    OBVIOUS
  <2> QED BY <2>1, <2>2
<1>9. ASSUME NEW v, VectorOf(v, e, groups)
      PROVE  /\ Len(Append(out, v)) = k + 1
             /\ \A i \in 1 .. k + 1 : VectorOf(Append(out, v)[i], edges[i], groups)
  <2>1. \A i \in 1 .. k : Append(out, v)[i] = out[i]
    BY <1>5
  <2>2. Append(out, v)[k + 1] = v /\ Len(Append(out, v)) = k + 1
    BY <1>5
  <2>3. \A i \in 1 .. k + 1 : i \in 1 .. k \/ i = k + 1
    OBVIOUS
  <2> QED BY <1>3, <1>5, <1>9, <2>1, <2>2, <2>3
<1>10. PICK new : new = JoinStep(acc, e)
  OBVIOUS
<1>11. CASE left = << >> \/ Before(e, Head(left).key)
  <2>1. new.left = left /\ new.out = Append(out, Zero)
    BY <1>4, <1>10, <1>11 DEF JoinStep
  <2>2. ASSUME NEW j \in 1 .. n PROVE groups[j].key # e
    <3>1. CASE j <= c
      BY <1>7, <3>1
    <3>2. CASE c + 1 <= j
      <4>1. c + 1 \in 1 .. n /\ n - c \in Nat /\ 1 \in 1 .. n - c
        BY <3>2
      <4>2. Head(left) = groups[c + 1] /\ left # << >>
        BY <1>6, <4>1
      <4>3. Before(e, groups[c + 1].key)
        BY <1>11, <4>2
      <4>4. CASE j = c + 1
        BY <1>2, <4>1, <4>3, <4>4, BeforeStrict
      <4>5. CASE c + 1 < j
        <5>1. Before(groups[c + 1].key, groups[j].key)
          BY <1>2, <4>1, <4>5
        <5> QED BY <1>2, <4>1, <4>3, <5>1, BeforeStrict
      <4> QED BY <3>2, <4>4, <4>5
    <3> QED BY <3>1, <3>2
  <2>3. VectorOf(Zero, e, groups)
    BY <1>1, <2>2 DEF VectorOf
  <2>4. /\ Len(new.out) = k + 1
        /\ \A i \in 1 .. k + 1 : VectorOf(new.out[i], edges[i], groups)
    BY <1>9, <2>1, <2>3
  <2>5. /\ Len(new.left) = n - c /\ \A j \in 1 .. n - c : new.left[j] = groups[c + j]
        /\ \A j \in 1 .. c : \E i \in 1 .. k + 1 : groups[j].key = edges[i]
    BY <1>6, <1>8, <2>1
  <2> QED BY <1>1, <1>3, <1>10, <2>4, <2>5 DEF Joined
<1>12. CASE ~(left = << >> \/ Before(e, Head(left).key)) /\ Head(left).key = e
  <2>1. new.left = Tail(left) /\ new.out = Append(out, Mean(Head(left).total))
    BY <1>4, <1>10, <1>12 DEF JoinStep
  <2>2. c + 1 \in 0 .. n /\ c + 1 \in 1 .. n /\ 1 \in 1 .. n - c
    <3>1. Len(left) # 0
      BY <1>12
    <3> QED BY <1>6, <3>1
  <2>3. Head(left) = groups[c + 1]
    BY <1>6, <1>12, <2>2
  <2>4. VectorOf(Mean(Head(left).total), e, groups)
    BY <1>1, <1>12, <2>2, <2>3 DEF VectorOf
  <2>5. /\ Len(Tail(left)) = n - (c + 1)
        /\ \A j \in 1 .. n - (c + 1) : Tail(left)[j] = groups[(c + 1) + j]
    <3>1. Len(Tail(left)) = n - (c + 1)
      BY <1>6, <1>12
    <3>2. ASSUME NEW j \in 1 .. n - (c + 1) PROVE Tail(left)[j] = groups[(c + 1) + j]
      <4>1. Tail(left)[j] = left[j + 1]
        BY <1>6, <1>12
      <4>2. j + 1 \in 1 .. n - c /\ c + (j + 1) = (c + 1) + j
        OBVIOUS
      <4> QED BY <1>6, <4>1, <4>2
    <3> QED BY <3>1, <3>2
  <2>6. \A j \in 1 .. c + 1 : \E i \in 1 .. k + 1 : groups[j].key = edges[i]
    <3>1. groups[c + 1].key = edges[k + 1] /\ k + 1 \in 1 .. k + 1
      BY <1>3, <1>12, <2>3
    <3>2. \A j \in 1 .. c + 1 : j \in 1 .. c \/ j = c + 1
      OBVIOUS
    <3> QED BY <1>8, <3>1, <3>2
  <2>7. /\ Len(new.out) = k + 1
        /\ \A i \in 1 .. k + 1 : VectorOf(new.out[i], edges[i], groups)
    BY <1>9, <2>1, <2>4
  <2>8. PICK d \in 0 .. n :
          /\ Len(new.left) = n - d /\ \A j \in 1 .. n - d : new.left[j] = groups[d + j]
          /\ \A j \in 1 .. d : \E i \in 1 .. k + 1 : groups[j].key = edges[i]
    BY <2>1, <2>2, <2>5, <2>6
  <2> QED BY <1>1, <1>3, <1>10, <2>7, <2>8 DEF Joined
<1>13. CASE ~(left = << >> \/ Before(e, Head(left).key)) /\ Head(left).key # e
  <2>1. new.stray = TRUE
    BY <1>4, <1>10, <1>13 DEF JoinStep
  <2> QED BY <1>3, <1>10, <2>1
<1> QED BY <1>11, <1>12, <1>13

\* Without a stray group the join has passed every edge so.
LEMMA JoinedAll ==
  ASSUME NEW groups, NEW edges, Ascending(groups, edges), ~Join(groups, edges).stray
  PROVE  Joined(Join(groups, edges), Len(edges), groups, edges)
<1>1. PICK n \in Nat : n = Len(edges)
  BY DEF Ascending
<1>2. PICK g \in Nat : g = Len(groups) /\ groups \in Seq(Group)
  BY DEF Ascending
<1>3. PICK r : /\ r \in [0 .. n -> JoinStates]
               /\ r[0] = JoinStart(groups) /\ Join(groups, edges) = r[n]
               /\ \A k \in 1 .. n : r[k] = JoinStep(r[k - 1], edges[k])
  <2>1. PICK r : JoinsBy(r, groups, edges)
    BY JoinRun DEF Ascending
  <2> QED BY <1>1, <2>1 DEF JoinsBy
<1>4. ASSUME NEW k \in Nat, k + 1 <= n
      PROVE  /\ r[k] \in JoinStates /\ r[k + 1] \in JoinStates
             /\ r[k + 1] = JoinStep(r[k], edges[k + 1])
  <2>1. k \in 0 .. n /\ k + 1 \in 0 .. n /\ k + 1 \in 1 .. n /\ (k + 1) - 1 = k
    BY <1>4
  <2> QED BY <1>3, <2>1
\* a stray group is never taken back
<1>5. ASSUME NEW k \in Nat, k + 1 <= n, r[k].stray PROVE r[k + 1].stray
  <2>1. PICK left \in Seq(Group), out \in Seq(Vec), stray \in BOOLEAN :
          r[k] = [left |-> left, out |-> out, stray |-> stray]
    BY <1>4, <1>5 DEF JoinStates
  <2> QED BY <1>4, <1>5, <2>1 DEF JoinStep
<1> DEFINE K == {k \in Nat : k <= n => r[k].stray \/ Joined(r[k], k, groups, edges)}
<1>6. 0 \in K
  <2>1. r[0].left = groups /\ r[0].out = << >>
    BY <1>3 DEF JoinStart
  <2>2. /\ Len(r[0].out) = 0 /\ 0 \in 0 .. g
        /\ Len(r[0].left) = g - 0 /\ \A j \in 1 .. g - 0 : r[0].left[j] = groups[0 + j]
    BY <1>2, <2>1
  <2> QED BY <1>2, <2>2 DEF Joined
<1>7. ASSUME NEW k \in Nat, k \in K PROVE k + 1 \in K
  <2> SUFFICES ASSUME k + 1 <= n, ~r[k + 1].stray PROVE Joined(r[k + 1], k + 1, groups, edges)
    OBVIOUS
  <2>1. Joined(r[k], k, groups, edges)
    BY <1>5, <1>7
  <2>2. r[k] \in JoinStates /\ r[k + 1] = JoinStep(r[k], edges[k + 1])
    BY <1>4
  <2> QED BY <1>1, <2>1, <2>2, JoinedNext
<1> HIDE DEF K
<1>8. n \in K
  BY <1>6, <1>7, NaturalInduction
<1> QED BY <1>1, <1>3, <1>8 DEF K

\* The vectors of edges have, in the order of the keys, the texts of theirs.
EdgeRight(vectors, over) ==
  /\ Len(vectors) = Cardinality(over)
  /\ \A i \in 1 .. Cardinality(over) :
       Available(vectors[i]) = TextsOf("event_text", Sorted(over)[i])

\* They have, over the edges the graph run published.
LEMMA EdgeFact ==
  ASSUME FullyStored("event_text"), NEW edges \in Publications,
         ~Join(MergedGroups("event_text"), PhysicalOrder(edges)).stray
  PROVE  EdgeRight(Join(MergedGroups("event_text"), PhysicalOrder(edges)).out, edges)
<1> DEFINE m == "event_text"
<1>1. PICK groups : groups = MergedGroups(m) /\ Merged(groups, m)
  BY MergedFact DEF Modalities
<1>2. edges \subseteq Quad /\ IsFiniteSet(edges)
  BY EdgeSets
<1>3. PICK n \in Nat : n = Cardinality(edges)
  BY <1>2, FS_CardinalityType
<1>4. PICK phys : phys = PhysicalOrder(edges) /\ phys = Sorted(edges)
  BY PhysicalIsSorted
<1>5. phys \in Seq(edges) /\ phys \in [1 .. n -> edges]
      /\ \A i, j \in 1 .. n : i < j <=> <<phys[i], phys[j]>> \in BeforeIn
  BY <1>2, <1>3, <1>4, SortedList DEF Lists
<1>6. Len(phys) = n
  BY <1>5
<1>7. PICK K : K = KeysOf(m) /\ K \subseteq Quad /\ IsFiniteSet(K)
  <2>1. chosen[m] \in Seq(UnitRow) /\ m \in Modalities
    BY DEF FullyStored, Modalities
  <2> QED BY <2>1, KeysFact
<1>8. PICK c \in Nat : c = Len(groups)
  BY <1>1 DEF Merged
<1>9. /\ \A i \in 1 .. c : /\ groups[i].key \in K /\ groups[i].total \in TextBags
                            /\ groups[i].total = TextsOf(m, groups[i].key)
                            /\ groups[i] \in Group
      /\ groups \in Seq(Group)
  <2>1. groups \in Seq([key : K, total : TextBags])
    BY <1>1, <1>7 DEF Merged
  <2>2. \A i \in 1 .. c : groups[i] \in [key : K, total : TextBags]
    <3>1. PICK R : R = [key : K, total : TextBags]
      OBVIOUS
    <3>2. groups \in Seq(R)
      BY <2>1, <3>1
    <3>3. \A i \in 1 .. c : groups[i] \in R
      BY <1>8, <3>2
    <3> QED BY <3>1, <3>3
  <2>3. \A i \in 1 .. c : groups[i].total = TextsOf(m, groups[i].key)
    BY <1>1, <1>8 DEF Merged
  <2>4. \A i \in 1 .. c : groups[i] \in Group
    BY <1>7, <2>2 DEF Group
  <2>5. groups = [i \in 1 .. c |-> groups[i]]
    <3>1. PICK R : groups \in Seq(R)
      BY <2>1
    <3> QED BY <1>8, <3>1
  <2>6. groups \in Seq(Group)
    BY <2>4, <2>5
  <2> QED BY <2>2, <2>3, <2>4, <2>6
<1>10. PICK keys : keys = KeyList(groups) /\ keys = [i \in 1 .. c |-> groups[i].key]
  BY <1>8 DEF KeyList
<1>11. PICK k \in Nat : /\ k = Cardinality(K) /\ keys \in [1 .. k -> K]
                        /\ \A i, j \in 1 .. k : i < j <=> <<keys[i], keys[j]>> \in BeforeIn
                        /\ \A x \in K : \E i \in 1 .. k : keys[i] = x
  BY <1>1, <1>7, <1>10 DEF Merged, Lists
<1>12. k = c
  <2>1. DOMAIN keys = 1 .. c /\ DOMAIN keys = 1 .. k
    BY <1>10, <1>11
  <2> QED BY <2>1
<1>13. Ascending(groups, phys)
  <2>1. ASSUME NEW i \in 1 .. c, NEW j \in 1 .. c, i < j
        PROVE  Before(groups[i].key, groups[j].key)
    <3>1. <<groups[i].key, groups[j].key>> \in BeforeIn
      BY <1>10, <1>11, <1>12, <2>1
    <3> QED BY <3>1 DEF BeforeIn
  <2>2. ASSUME NEW i \in 1 .. n, NEW j \in 1 .. n, i < j PROVE phys[i] # phys[j]
    <3>1. phys[i] \in Quad /\ phys[j] \in Quad
      BY <1>2, <1>5
    <3>2. <<phys[i], phys[j]>> \in BeforeIn
      BY <1>5, <2>2
    <3>3. Before(phys[i], phys[j])
      BY <3>2 DEF BeforeIn
    <3> QED BY <3>1, <3>3, BeforeStrict
  <2>3. phys \in Seq(Quad)
    <3>1. \A i \in 1 .. n : phys[i] \in Quad
      BY <1>2, <1>5
    <3>2. phys = [i \in 1 .. n |-> phys[i]]
      BY <1>5
    <3> QED BY <3>1, <3>2
  <2> QED BY <1>6, <1>8, <1>9, <2>1, <2>2, <2>3 DEF Ascending
<1>14. PICK join : join = Join(groups, phys)
  OBVIOUS
<1>15. Len(join.out) = n /\ \A i \in 1 .. n : VectorOf(join.out[i], phys[i], groups)
  <2>1. ~Join(groups, phys).stray
    BY <1>1, <1>4
  <2>2. Joined(join, n, groups, phys)
    BY <1>6, <1>13, <1>14, <2>1, JoinedAll
  <2> QED BY <2>2 DEF Joined
<1>16. ASSUME NEW i \in 1 .. n PROVE Available(join.out[i]) = TextsOf(m, phys[i])
  <2>1. CASE \E j \in 1 .. c : groups[j].key = phys[i] /\ join.out[i] = Mean(groups[j].total)
    <3>1. PICK j \in 1 .. c : groups[j].key = phys[i] /\ join.out[i] = Mean(groups[j].total)
      BY <2>1
    <3>2. groups[j].total = TextsOf(m, phys[i])
      BY <1>9, <3>1
    <3> QED BY <3>1, <3>2 DEF Mean, Available
  <2>2. CASE join.out[i] = Zero /\ \A j \in 1 .. c : groups[j].key # phys[i]
    <3>1. phys[i] \notin K
      BY <1>10, <1>11, <1>12, <2>2
    <3>2. TextsOf(m, phys[i]) = EmptyBag
      BY <1>7, <3>1, NoTexts
    <3> QED BY <2>2, <3>2 DEF Zero, Available
  <2> QED BY <1>8, <1>15, <2>1, <2>2 DEF VectorOf
<1> QED BY <1>1, <1>3, <1>4, <1>14, <1>15, <1>16 DEF EdgeRight

(***************************************************************************)
(* The inductive invariant of the rest of the path: what the shards hold   *)
(* while the chunks are encoded and once they all are, and what the pooled *)
(* arrays and the packages hold.                                           *)
(***************************************************************************)
FirstStored(m, k) == stored[m] = [c \in 1 .. k |-> StoredRows(m, c)]

StoreFits ==
  /\ DOMAIN stored = Modalities
  /\ stage \in {"open", "scan"} => \A m \in Modalities : stored[m] = << >>
  /\ stage \in {"chunk", "encode"} =>
       /\ \E k \in 0 .. ChunkCount(modality) - 1 : FirstStored(modality, k)
       /\ modality = "node_text" => stored["event_text"] = << >>
       /\ modality = "event_text" => FullyStored("node_text")
  /\ stage \in {"encoded", "nodesPooled", "pooled", "aligned", "done"} =>
       \A m \in Modalities : FullyStored(m)

EncoderFits ==
  stage = "encode" =>
    /\ encoder \in [cursor : 0 .. Len(Units), batch : Nat, retries : Nat,
                    out : Seq(Unusable \cup DOMAIN TextLevel)]
    /\ Len(encoder.out) = encoder.cursor
    /\ \A i \in 1 .. encoder.cursor : encoder.out[i] = Units[i].text

Pooled(p) == /\ p = [node |-> p.node, edge |-> p.edge, over |-> p.over]
             /\ NodeRight(p.node) /\ EdgeRight(p.edge, p.over)

Packaged(pkg) ==
  /\ pkg.edges \in Publications /\ NodeRight(pkg.node) /\ EdgeRight(pkg.edge, pkg.over)
  /\ pkg.config \in [E : {ExpectedE}, passed : BOOLEAN]
  /\ pkg.config.passed => Len(pkg.edge) = ExpectedE

PackFits ==
  /\ graph \in Publications
  /\ stage \in {"open", "scan", "chunk", "encode"} =>
       pooled = Absent /\ exported = Absent /\ assembled = Absent
  /\ stage = "encoded" => pooled = Absent \/ Pooled(pooled)
  /\ stage \in {"nodesPooled", "pooled", "aligned", "done"} => Pooled(pooled)
  /\ exported = Absent \/ exported.config = Absent
  /\ assembled = Absent \/ Packaged(assembled)

Stages == {"open", "scan", "chunk", "encode", "encoded", "nodesPooled", "pooled", "aligned",
           "done", "failed"}

LoadedInv == stage \in Stages /\ StoreFits /\ EncoderFits /\ PackFits

\* Outside the scans what is selected does not change: nor do the texts of a
\* key, and what is right with respect to them stays right.
LEMMA RightSame ==
  ASSUME chosen' = chosen, NEW p, NEW q
  PROVE  /\ NodeRight(p)' <=> NodeRight(p)
         /\ EdgeRight(p, q)' <=> EdgeRight(p, q)
<1>1. \A m, key : TextsOf(m, key)' = TextsOf(m, key)
  BY DEF TextsOf
<1> QED BY <1>1 DEF NodeRight, EdgeRight

\* Nor do the chunks and their rows.
LEMMA ChunksSame ==
  ASSUME chosen' = chosen, NEW m, NEW k
  PROVE  /\ ChunkCount(m)' = ChunkCount(m) /\ Chunk(m, k)' = Chunk(m, k)
         /\ StoredRows(m, k)' = StoredRows(m, k)
<1>1. ChunkCount(m)' = ChunkCount(m)
  BY DEF ChunkCount
<1>2. Chunk(m, k)' = Chunk(m, k)
  BY DEF Chunk
<1> QED BY <1>1, <1>2 DEF StoredRows

\* What is stored stays as complete as it is.
LEMMA StoredSame ==
  ASSUME chosen' = chosen, NEW m, stored'[m] = stored[m]
  PROVE  /\ FullyStored(m)' <=> FullyStored(m)
         /\ \A k \in Nat : FirstStored(m, k)' <=> FirstStored(m, k)
<1>1. ChunkCount(m)' = ChunkCount(m) /\ \A c : StoredRows(m, c)' = StoredRows(m, c)
  BY ChunksSame
<1>2. (stored[m])' = stored[m] /\ (chosen[m])' = chosen[m]
  OBVIOUS
<1> QED BY <1>1, <1>2 DEF FullyStored, FirstStored

\* What the scans have selected are sequences of units.
LEMMA ChosenUnits ==
  ASSUME SelectionInv, stage \notin {"open", "scan", "failed"}, NEW m \in Modalities
  PROVE  chosen[m] \in Seq(UnitRow)
BY DEF SelectionInv, DoneFits, RightFor, Fills

\* A selection that is not empty has at least one chunk.
LEMMA SomeChunk ==
  ASSUME NEW u \in Seq(UnitRow), u # << >>
  PROVE  (Len(u) + ShardSize - 1) \div ShardSize \in Nat \ {0}
<1>1. PICK n \in Nat \ {0} : n = Len(u)
  OBVIOUS
<1>2. PICK s \in Nat \ {0} : s = ShardSize
  BY InputsAssumption
<1>3. n + s - 1 \in Nat /\ n + s - 1 >= s
  OBVIOUS
<1>4. (n + s - 1) \div s \in Nat /\ (n + s - 1) \div s # 0
  BY <1>3
<1> QED BY <1>1, <1>2, <1>4

\* The invariant holds at first.
LEMMA LoadedInit ==
  ASSUME Init
  PROVE  LoadedInv
<1>1. /\ stage = "open" /\ stored = [m \in Modalities |-> << >>]
      /\ graph \in Publications /\ pooled = Absent /\ exported = Absent /\ assembled = Absent
  BY DEF Init, InputInit
<1> QED BY <1>1 DEF LoadedInv, Stages, StoreFits, EncoderFits, PackFits

\* The packages are not touched before the pooling.
LEMMA PackStays ==
  ASSUME PackFits, UNCHANGED packageVars, stage \in {"open", "scan", "chunk", "encode"},
         stage' \in {"open", "scan", "chunk", "encode", "encoded", "failed"}
  PROVE  PackFits'
<1>1. /\ graph' = graph /\ pooled' = pooled /\ exported' = exported /\ assembled' = assembled
  BY DEF packageVars
<1>2. pooled = Absent /\ exported = Absent /\ assembled = Absent /\ graph \in Publications
  BY DEF PackFits
<1> QED BY <1>1, <1>2 DEF PackFits

\* The steps of the scans.
LEMMA LoadedScan ==
  ASSUME LoadedInv, SelectionInv', UNCHANGED packageVars,
         Open \/ ReadBatch \/ BadBatch \/ ScanRejected \/ Counted \/ Selected
  PROVE  LoadedInv'
<1>1. /\ stage \in {"open", "scan"} /\ stage' \in {"open", "scan", "chunk", "failed"}
      /\ stage' = "chunk" => modality' = "node_text"
      /\ stored' = stored
  <2>1. CASE Open \/ ReadBatch \/ BadBatch \/ ScanRejected \/ Counted
    BY <2>1 DEF Open, ReadBatch, BadBatch, ScanRejected, Counted
  <2>2. CASE Selected
    BY <2>2 DEF Selected
  <2> QED BY <2>1, <2>2
<1>2. /\ DOMAIN stored = Modalities /\ \A m \in Modalities : stored[m] = << >>
  BY <1>1 DEF LoadedInv, StoreFits
<1>3. StoreFits'
  <2>1. ASSUME stage' = "chunk"
        PROVE  /\ modality' = "node_text" /\ stored'["node_text"] = << >>
               /\ stored'["event_text"] = << >>
               /\ (\E k \in 0 .. ChunkCount(modality) - 1 : FirstStored(modality, k))'
    <3>1. modality' = "node_text" /\ stored'["node_text"] = << >> /\ stored'["event_text"] = << >>
      BY <1>1, <1>2, <2>1 DEF Modalities
    <3>2. chosen'["node_text"] \in Seq(UnitRow)
      BY <2>1 DEF SelectionInv, DoneFits, RightFor, Fills, Modalities
    <3>3. ChunkCount("node_text")' \in Nat \ {0}
      BY <3>2, SomeChunk DEF ChunkCount
    <3>4. FirstStored("node_text", 0)'
      BY <3>1 DEF FirstStored
    <3>5. 0 \in 0 .. ChunkCount("node_text")' - 1
      BY <3>3
    <3> QED BY <3>1, <3>4, <3>5
  <2> QED BY <1>1, <1>2, <2>1 DEF StoreFits
<1>4. EncoderFits' /\ stage' \in Stages
  BY <1>1 DEF EncoderFits, Stages
<1>5. PackFits'
  BY <1>1, PackStays DEF LoadedInv
<1> QED BY <1>3, <1>4, <1>5 DEF LoadedInv

\* The steps of the encoder, up to the storing of a chunk.
LEMMA LoadedEncode ==
  ASSUME LoadedInv, SelectionInv, UNCHANGED packageVars, StartChunk \/ EncodeBatch \/ OutOfMemory
  PROVE  LoadedInv'
<1>1. /\ stage \in {"chunk", "encode"} /\ stage' \in {"encode", "failed"}
      /\ modality' = modality /\ chosen' = chosen /\ stored' = stored
  BY DEF StartChunk, EncodeBatch, OutOfMemory
<1>2. PICK m \in Modalities : m = modality
  BY DEF SelectionInv, SelectionType
<1>3. PICK k \in Nat : k < ChunkCount(m) /\ FirstStored(m, k)
  <2>1. chosen[m] \in Seq(UnitRow)
    BY <1>1, ChosenUnits
  <2>2. ChunkCount(m) \in Nat
    BY <2>1, ChunkFact DEF ChunksFit
  <2> QED BY <1>1, <1>2, <2>2 DEF LoadedInv, StoreFits
<1>4. PICK units \in Seq(UnitRow) : units = Units
  <2>1. chosen[m] \in Seq(UnitRow)
    BY <1>1, ChosenUnits
  <2>2. Len(stored[m]) = k
    BY <1>3 DEF FirstStored
  <2>3. k + 1 \in 1 .. ChunkCount(m)
    BY <1>3, <2>1, ChunkFact DEF ChunksFit
  <2>4. Chunk(m, k + 1) \in Seq(UnitRow)
    BY <2>1, <2>3, ChunkFact DEF ChunksFit
  <2> QED BY <1>2, <2>2, <2>4 DEF Units
<1>5. Units' = units
  BY <1>1, <1>4, ChunksSame DEF Units, Chunk
<1>6. StoreFits'
  <2>1. ChunkCount(modality)' = ChunkCount(modality)
    BY <1>1, ChunksSame DEF ChunkCount
  <2>2. /\ (FullyStored("node_text"))' <=> FullyStored("node_text")
        /\ FirstStored(m, k)' <=> FirstStored(m, k)
    BY <1>1, StoredSame
  <2> QED BY <1>1, <1>2, <1>3, <2>1, <2>2 DEF LoadedInv, StoreFits, FirstStored
<1>7. EncoderFits'
  <2>1. PICK n \in Nat : n = Len(units) /\ DOMAIN units = 1 .. n
    OBVIOUS
  <2> DEFINE T == Unusable \cup DOMAIN TextLevel
  <2>2. CASE StartChunk
    <3>1. /\ encoder' = [cursor |-> 0, batch |-> Least(EncoderBatch, n), retries |-> 0, out |-> << >>]
          /\ Least(EncoderBatch, n) \in Nat
      BY <1>4, <2>1, <2>2, InputsAssumption DEF StartChunk, Least
    <3> QED BY <1>5, <2>1, <3>1 DEF EncoderFits
  <2>3. CASE EncodeBatch \/ OutOfMemory
    <3>1. PICK c \in 0 .. n, b \in Nat, r \in Nat, out \in Seq(T) :
            /\ encoder = [cursor |-> c, batch |-> b, retries |-> r, out |-> out]
            /\ Len(out) = c /\ \A i \in 1 .. c : out[i] = units[i].text
      <4>1. stage = "encode"
        BY <2>3 DEF EncodeBatch, OutOfMemory
      <4> QED BY <1>4, <2>1, <4>1 DEF LoadedInv, EncoderFits
    <3>2. CASE OutOfMemory
      <4>1. b \div 2 \in Nat /\ r + 1 \in Nat
        OBVIOUS
      <4>2. \/ encoder' = encoder
            \/ encoder' = [cursor |-> c, batch |-> b \div 2, retries |-> r + 1, out |-> out]
        BY <3>1, <3>2 DEF OutOfMemory
      <4> QED BY <1>5, <2>1, <3>1, <4>1, <4>2 DEF EncoderFits
    <3>3. CASE EncodeBatch
      <4>1. PICK d \in Nat : d = Least(c + b, n) /\ c <= d /\ d <= n
        BY <2>1, <3>1 DEF Least
      <4>2. PICK cur \in Seq(UnitRow) : /\ cur = SubSeq(units, c + 1, d) /\ Len(cur) = d - c
                                        /\ \A i \in 1 .. d - c : cur[i] = units[c + i]
        <5>1. c \in Nat /\ d <= Len(units)
          BY <2>1, <4>1
        <5>2. /\ SubSeq(units, c + 1, d) \in Seq(UnitRow) /\ Len(SubSeq(units, c + 1, d)) = d - c
              /\ \A i \in 1 .. d - c : SubSeq(units, c + 1, d)[i] = units[c + i]
          BY <4>1, <5>1, PartFact
        <5> QED BY <5>2
      <4>3. cur = Current
        BY <1>4, <2>1, <3>1, <4>1, <4>2 DEF Current
      <4>4. PICK l \in Nat : l = d - c
        BY <4>1
      <4>5. Len(cur) = l /\ \A i \in 1 .. l : cur[i] = units[c + i]
        BY <4>2, <4>4
      <4>6. PICK texts : texts = [i \in 1 .. l |-> cur[i].text]
        OBVIOUS
      <4>7. \A i \in 1 .. l : texts[i] = units[c + i].text /\ texts[i] \in T
        <5>1. \A i \in 1 .. l : cur[i] \in UnitRow
          BY <4>5
        <5> QED BY <4>5, <4>6, <5>1 DEF UnitRow
      <4>8. texts \in Seq(T) /\ Len(texts) = l
        BY <4>6, <4>7
      <4>9. PICK new \in Seq(T) : new = out \o texts
        <5> HIDE DEF T
        <5>1. out \in Seq(T) /\ texts \in Seq(T)
          BY <3>1, <4>8
        <5>2. out \o texts \in Seq(T)
          BY <5>1
        <5> QED BY <5>2
      <4>10. Len(new) = d /\ \A i \in 1 .. d : new[i] = units[i].text
        <5>1. Len(new) = d
          <6>1. Len(new) = c + l
            <7> HIDE DEF T
            <7>1. out \in Seq(T) /\ texts \in Seq(T)
              BY <3>1, <4>8
            <7>2. Len(out \o texts) = Len(out) + Len(texts)
              BY <7>1
            <7> QED BY <3>1, <4>8, <4>9, <7>2
          <6> QED BY <4>1, <4>4, <6>1
        <5>2. ASSUME NEW i \in 1 .. d PROVE new[i] = units[i].text
          <6>1. CASE i <= c
            <7> HIDE DEF T
            <7>1. new[i] = out[i]
              BY <3>1, <4>8, <4>9, <6>1
            <7> QED BY <3>1, <6>1, <7>1
          <6>2. CASE c < i
            <7>1. i - c \in 1 .. l /\ c + (i - c) = i
              BY <4>4, <6>2
            <7>2. new[i] = texts[i - c]
              <8> HIDE DEF T
              <8>1. out \in Seq(T) /\ texts \in Seq(T) /\ Len(out) = c /\ Len(texts) = l
                BY <3>1, <4>8
              <8>2. \A j \in 1 .. Len(texts) : (out \o texts)[Len(out) + j] = texts[j]
                BY <8>1
              <8> QED BY <4>9, <7>1, <8>1, <8>2
            <7> QED BY <4>7, <7>1, <7>2
          <6> QED BY <6>1, <6>2
        <5> QED BY <5>1, <5>2
      <4>11. encoder' = [cursor |-> d, batch |-> b, retries |-> 0, out |-> new]
        <5>1. DOMAIN cur = 1 .. l
          BY <4>2, <4>5
        <5>2. c + l = d
          BY <4>4
        <5> QED BY <3>1, <3>3, <4>3, <4>5, <4>6, <4>9, <5>1, <5>2 DEF EncodeBatch
      <4>12. d \in 0 .. n
        BY <4>1
      <4> QED BY <1>5, <2>1, <4>10, <4>11, <4>12 DEF EncoderFits
    <3> QED BY <2>3, <3>2, <3>3
  <2> QED BY <2>2, <2>3
<1>8. PackFits'
  BY <1>1, PackStays DEF LoadedInv
<1>9. stage' \in Stages
  BY <1>1 DEF Stages
<1> QED BY <1>6, <1>7, <1>8, <1>9 DEF LoadedInv

\* The storing of a chunk.
LEMMA LoadedStore ==
  ASSUME LoadedInv, SelectionInv, UNCHANGED packageVars, StoreChunk
  PROVE  LoadedInv'
<1>1. /\ stage = "encode" /\ stage' \in {"chunk", "encoded", "failed"} /\ chosen' = chosen
  BY DEF StoreChunk
<1>2. PICK m \in Modalities : m = modality
  BY DEF SelectionInv, SelectionType
<1>3. \A x \in Modalities : chosen[x] \in Seq(UnitRow) /\ ChunksFit(x)
  BY <1>1, ChosenUnits, ChunkFact
<1>4. PICK q \in Nat \ {0} : q = ChunkCount(m)
  BY <1>3 DEF ChunksFit
<1>5. PICK k \in Nat : k < q /\ FirstStored(m, k)
  BY <1>1, <1>2, <1>4 DEF LoadedInv, StoreFits
<1>6. stored[m] = [c \in 1 .. k |-> StoredRows(m, c)] /\ Len(stored[m]) = k
  BY <1>5 DEF FirstStored
<1>7. k + 1 \in 1 .. q
  BY <1>4, <1>5
<1>8. PICK units \in Seq(UnitRow) : units = Chunk(m, k + 1) /\ units = Units
  BY <1>2, <1>3, <1>4, <1>6, <1>7 DEF ChunksFit, Units
<1>9. PICK n \in Nat : n = Len(units) /\ DOMAIN units = 1 .. n
  OBVIOUS
<1>10. encoder.out = [i \in 1 .. n |-> units[i].text]
  <2>1. /\ encoder \in [cursor : 0 .. n, batch : Nat, retries : Nat,
                        out : Seq(Unusable \cup DOMAIN TextLevel)]
        /\ Len(encoder.out) = encoder.cursor
        /\ \A i \in 1 .. encoder.cursor : encoder.out[i] = units[i].text
    BY <1>1, <1>8, <1>9 DEF LoadedInv, EncoderFits
  <2>2. PICK T : encoder.out \in Seq(T)
    BY <2>1
  <2>3. encoder.cursor \in 0 .. n /\ encoder.cursor >= n
    BY <1>8, <1>9, <2>1 DEF StoreChunk, Encoded
  <2>4. encoder.cursor = n
    BY <2>3
  <2> QED BY <2>1, <2>2, <2>4
<1>11. UnitTable(Units, encoder.out) = StoredRows(m, k + 1)
  BY <1>8, <1>9, <1>10 DEF StoredRows
<1>12. CASE stage' = "failed"
  <2>1. stored' = stored
    BY <1>12 DEF StoreChunk
  <2>2. StoreFits'
    BY <1>12, <2>1 DEF StoreFits, LoadedInv
  <2>3. EncoderFits' /\ PackFits'
    BY <1>1, <1>12, PackStays DEF EncoderFits, LoadedInv
  <2> QED BY <1>12, <2>2, <2>3 DEF LoadedInv, Stages
<1>13. CASE stage' # "failed"
  <2> DEFINE next == [c \in 1 .. k + 1 |-> StoredRows(m, c)]
             last == k + 1 = q
  <2>1. Append(stored[m], StoredRows(m, k + 1)) = next
    <3> DEFINE R(c) == StoredRows(m, c)
    <3>1. stored[m] = [c \in 1 .. k |-> R(c)]
      BY <1>6
    <3> HIDE DEF R
    <3>2. Append(stored[m], R(k + 1)) = [c \in 1 .. k + 1 |-> R(c)]
      BY <1>6, <3>1
    <3> QED BY <3>2 DEF R
  <2>2. /\ stored' = [stored EXCEPT ![m] = Append(@, StoredRows(m, k + 1))]
        /\ stage' = IF last /\ m = "event_text" THEN "encoded" ELSE "chunk"
        /\ modality' = IF last THEN "event_text" ELSE m
    BY <1>2, <1>4, <1>6, <1>11, <1>13 DEF StoreChunk
  <2>3. DOMAIN stored = Modalities
    BY DEF LoadedInv, StoreFits
  <2>4. /\ DOMAIN stored' = Modalities /\ stored'[m] = next
        /\ \A x \in Modalities \ {m} : stored'[x] = stored[x]
    BY <2>1, <2>2, <2>3
  <2>5. /\ m = "node_text" => stored["event_text"] = << >>
        /\ m = "event_text" => FullyStored("node_text")
    BY <1>1, <1>2 DEF LoadedInv, StoreFits
  <2>6. FirstStored(m, k + 1)'
    <3>1. \A c : StoredRows(m, c)' = StoredRows(m, c)
      BY <1>1, ChunksSame
    <3> QED BY <2>4, <3>1 DEF FirstStored
  <2>7. \A x \in Modalities : ChunkCount(x)' = ChunkCount(x) /\ ChunkCount(x) \in Nat \ {0}
    BY <1>1, <1>3, ChunksSame DEF ChunksFit
  <2>8. last => FullyStored(m)'
    <3>1. ASSUME last PROVE ChunkCount(m)' = k + 1 /\ chosen'[m] \in Seq(UnitRow)
      BY <1>1, <1>3, <1>4, <2>7, <3>1
    <3> QED BY <2>6, <3>1 DEF FullyStored, FirstStored
  <2>9. m = "event_text" => FullyStored("node_text")'
    <3>1. ASSUME m = "event_text" PROVE stored'["node_text"] = stored["node_text"]
      BY <2>4, <3>1 DEF Modalities
    <3> QED BY <1>1, <2>5, <3>1, StoredSame
  <2>10. StoreFits'
    <3>1. CASE ~last
      <4>1. stage' = "chunk" /\ modality' = m
        BY <2>2, <3>1
      <4>2. k + 1 \in 0 .. ChunkCount(m)' - 1
        BY <1>4, <1>5, <2>7, <3>1
      <4>3. m = "node_text" => stored'["event_text"] = << >>
        BY <2>4, <2>5 DEF Modalities
      <4> QED BY <2>4, <2>6, <2>9, <4>1, <4>2, <4>3 DEF StoreFits
    <3>2. CASE last /\ m = "node_text"
      <4>1. stage' = "chunk" /\ modality' = "event_text"
        BY <2>2, <3>2
      <4>2. stored'["event_text"] = << >>
        BY <2>4, <2>5, <3>2 DEF Modalities
      <4>3. FirstStored("event_text", 0)'
        BY <4>2 DEF FirstStored
      <4>4. 0 \in 0 .. ChunkCount("event_text")' - 1
        BY <2>7 DEF Modalities
      <4> QED BY <2>4, <2>8, <3>2, <4>1, <4>3, <4>4 DEF StoreFits
    <3>3. CASE last /\ m = "event_text"
      <4>1. stage' = "encoded"
        BY <2>2, <3>3
      <4> QED BY <2>4, <2>8, <2>9, <3>3, <4>1 DEF StoreFits, Modalities
    <3> QED BY <1>2, <3>1, <3>2, <3>3 DEF Modalities
  <2>11. EncoderFits' /\ PackFits' /\ stage' \in Stages
    BY <1>1, PackStays DEF EncoderFits, LoadedInv, Stages
  <2> QED BY <2>10, <2>11 DEF LoadedInv
<1> QED BY <1>12, <1>13

\* The pooled arrays and the packages stay as right as they are.
LEMMA PackSame ==
  ASSUME chosen' = chosen
  PROVE  /\ pooled' = pooled => (Pooled(pooled)' <=> Pooled(pooled))
         /\ assembled' = assembled => (Packaged(assembled)' <=> Packaged(assembled))
BY RightSame DEF Pooled, Packaged

\* What was stored stays stored through the pooling and the packaging.
LEMMA StoreStays ==
  ASSUME LoadedInv, chosen' = chosen, stored' = stored,
         stage \in {"encoded", "nodesPooled", "pooled", "aligned", "done"},
         stage' \in {"encoded", "nodesPooled", "pooled", "aligned", "done", "failed"}
  PROVE  StoreFits' /\ EncoderFits' /\ stage' \in Stages
<1>1. DOMAIN stored = Modalities /\ \A m \in Modalities : FullyStored(m)
  BY DEF LoadedInv, StoreFits
<1>2. \A m \in Modalities : FullyStored(m)'
  BY <1>1, StoredSame
<1>3. StoreFits'
  BY <1>1, <1>2 DEF StoreFits
<1> QED BY <1>3 DEF EncoderFits, Stages

\* The pooling.
LEMMA LoadedPool ==
  ASSUME LoadedInv, PoolNodes \/ PoolEdges
  PROVE  LoadedInv'
<1>1. /\ chosen' = chosen /\ stored' = stored /\ graph' = graph
      /\ exported' = exported /\ assembled' = assembled
      /\ stage \in {"encoded", "nodesPooled"} /\ stage' \in {"nodesPooled", "pooled", "failed"}
  BY DEF PoolNodes, PoolEdges
<1>2. StoreFits' /\ EncoderFits' /\ stage' \in Stages
  BY <1>1, StoreStays
<1>3. \A m \in Modalities : FullyStored(m)
  BY <1>1 DEF LoadedInv, StoreFits
<1>4. /\ graph \in Publications
      /\ exported = Absent \/ exported.config = Absent
      /\ assembled = Absent \/ Packaged(assembled)
  BY DEF LoadedInv, PackFits
<1>5. assembled' = Absent \/ Packaged(assembled)'
  BY <1>1, <1>4, PackSame
<1>6. CASE PoolNodes
  <2>1. PICK node : node = NodeArray(MergedGroups("node_text")) /\ NodeRight(node)
    BY <1>3, NodeFact DEF Modalities
  <2>2. /\ stage = "encoded" /\ stage' = "nodesPooled"
        /\ pooled' = IF pooled = Absent THEN [node |-> node, edge |-> << >>, over |-> {}]
                                        ELSE [pooled EXCEPT !.node = node]
    BY <1>6, <2>1 DEF PoolNodes
  <2>3. pooled = Absent \/ Pooled(pooled)
    BY <2>2 DEF LoadedInv, PackFits
  <2>4. Pooled(pooled')
    <3>1. CASE pooled = Absent
      <4>1. EdgeRight(<< >>, {})
        BY FS_EmptySet DEF EdgeRight
      <4> QED BY <2>1, <2>2, <3>1, <4>1 DEF Pooled
    <3>2. CASE pooled # Absent
      <4>1. /\ pooled = [node |-> pooled.node, edge |-> pooled.edge, over |-> pooled.over]
            /\ EdgeRight(pooled.edge, pooled.over)
        BY <2>3, <3>2 DEF Pooled
      <4>2. pooled' = [node |-> node, edge |-> pooled.edge, over |-> pooled.over]
        BY <2>2, <3>2, <4>1
      <4> QED BY <2>1, <4>1, <4>2 DEF Pooled
    <3> QED BY <3>1, <3>2
  <2>5. Pooled(pooled)'
    BY <1>1, <2>4, RightSame DEF Pooled
  <2> QED BY <1>1, <1>2, <1>4, <1>5, <2>2, <2>5 DEF LoadedInv, PackFits
<1>7. CASE PoolEdges
  <2>1. stage = "nodesPooled" /\ Pooled(pooled)
    BY <1>7 DEF PoolEdges, LoadedInv, PackFits
  <2>2. PICK join : join = Join(MergedGroups("event_text"), PhysicalOrder(graph))
    OBVIOUS
  <2>3. CASE stage' = "failed"
    BY <1>1, <1>2, <1>4, <1>5, <2>3 DEF LoadedInv, PackFits
  <2>4. CASE stage' # "failed"
    <3>1. /\ ~join.stray /\ stage' = "pooled"
          /\ pooled' = [pooled EXCEPT !.edge = join.out, !.over = graph]
      BY <1>7, <2>2, <2>4 DEF PoolEdges
    <3>2. EdgeRight(join.out, graph)
      BY <1>3, <1>4, <2>2, <3>1, EdgeFact DEF Modalities
    <3>3. pooled' = [node |-> pooled.node, edge |-> join.out, over |-> graph]
      BY <2>1, <3>1 DEF Pooled
    <3>4. Pooled(pooled')
      BY <2>1, <3>2, <3>3 DEF Pooled
    <3>5. Pooled(pooled)'
      BY <1>1, <3>4, RightSame DEF Pooled
    <3> QED BY <1>1, <1>2, <1>4, <1>5, <3>1, <3>5 DEF LoadedInv, PackFits
  <2> QED BY <2>3, <2>4
<1> QED BY <1>6, <1>7

\* The alignment, the packages, and the graph published again.
LEMMA LoadedPack ==
  ASSUME LoadedInv, Align \/ Export \/ Resume \/ Republish \/ Assemble
  PROVE  LoadedInv'
<1>1. /\ chosen' = chosen /\ stored' = stored /\ pooled' = pooled
      /\ stage \in {"nodesPooled", "pooled", "aligned", "done"}
      /\ stage' \in {"encoded", "nodesPooled", "pooled", "aligned", "done", "failed"}
  BY DEF Align, Export, Resume, Republish, Assemble, inputVars, packageVars
<1>2. StoreFits' /\ EncoderFits' /\ stage' \in Stages
  BY <1>1, StoreStays
<1>3. /\ graph \in Publications
      /\ exported = Absent \/ exported.config = Absent
      /\ assembled = Absent \/ Packaged(assembled)
      /\ Pooled(pooled)
  BY <1>1 DEF LoadedInv, PackFits
<1>4. Pooled(pooled)'
  BY <1>1, <1>3, PackSame
<1>5. graph' \in Publications
  <2>1. CASE Republish
    BY <2>1 DEF Republish
  <2>2. CASE Align \/ Export \/ Resume \/ Assemble
    BY <1>3, <2>2 DEF Align, Export, Resume, Assemble, packageVars
  <2> QED BY <2>1, <2>2
<1>6. exported' = Absent \/ exported'.config = Absent
  <2>1. CASE Export
    BY <1>3, <2>1 DEF Export, PackageOf
  <2>2. CASE Align \/ Resume \/ Republish \/ Assemble
    BY <1>3, <2>2 DEF Align, Resume, Republish, Assemble, packageVars
  <2> QED BY <2>1, <2>2
<1>7. assembled' = Absent \/ Packaged(assembled)'
  <2>1. CASE Assemble
    <3> DEFINE pkg == PackageOf([E |-> ExpectedE])
    <3>1. PICK p \in BOOLEAN : p <=> SmokeShapesHold(pkg)
      OBVIOUS
    <3>2. assembled' = [pkg EXCEPT !.config = [E |-> ExpectedE, passed |-> SmokeShapesHold(pkg)]]
      BY <2>1 DEF Assemble
    <3>3. assembled' = [edges |-> graph, node |-> pooled.node, edge |-> pooled.edge,
                        over |-> pooled.over,
                        config |-> [E |-> ExpectedE, passed |-> SmokeShapesHold(pkg)]]
      BY <3>2 DEF PackageOf
    <3>4. SmokeShapesHold(pkg) \in BOOLEAN
      BY DEF SmokeShapesHold
    <3>5. SmokeShapesHold(pkg) => Len(pooled.edge) = ExpectedE
      BY DEF SmokeShapesHold, PackageOf
    <3>6. Packaged(assembled')
      <4> HIDE DEF pkg
      <4> QED BY <1>3, <3>3, <3>4, <3>5 DEF Packaged, Pooled
    <3> QED BY <1>1, <3>6, RightSame DEF Packaged
  <2>2. CASE Align \/ Export \/ Resume \/ Republish
    <3>1. assembled' = assembled
      BY <2>2 DEF Align, Export, Resume, Republish, packageVars
    <3> QED BY <1>1, <1>3, <3>1, PackSame
  <2> QED BY <2>1, <2>2
<1>8. PackFits'
  <2>1. stage' \notin {"open", "scan", "chunk", "encode"}
    BY <1>1
  <2> QED BY <1>4, <1>5, <1>6, <1>7, <2>1 DEF PackFits
<1> QED BY <1>2, <1>8 DEF LoadedInv

\* The invariant says that a package that is loaded is exact.
LEMMA LoadedImplies ==
  ASSUME LoadedInv
  PROVE  LoadedExact
<1>1. /\ exported = Absent \/ exported.config = Absent
      /\ assembled = Absent \/ Packaged(assembled)
  BY DEF LoadedInv, PackFits
<1>2. ~Loadable(exported)
  BY <1>1 DEF Loadable
<1>3. ASSUME assembled # Absent, assembled.config.passed, assembled.edges = assembled.over
      PROVE  Loadable(assembled)
  <2>1. Packaged(assembled)
    BY <1>1, <1>3
  <2>2. /\ assembled.config \in [E : {ExpectedE}, passed : BOOLEAN]
        /\ Len(assembled.edge) = Cardinality(assembled.edges)
        /\ Len(assembled.edge) = ExpectedE
    BY <1>3, <2>1 DEF Packaged, EdgeRight
  <2>3. assembled.config # Absent /\ assembled.config.E = ExpectedE
    BY <2>2, PackageAssumption
  <2> QED BY <1>3, <2>2, <2>3 DEF Loadable
<1>4. ASSUME Loadable(assembled), NEW s \in Snapshots, NEW batch,
             batch = SnapshotBatch(assembled, s)
      PROVE  /\ \A n \in Nodes : batch.node[n] = TextsOf("node_text", <<s, n>>)
             /\ [i \in DOMAIN batch.edge |-> batch.edge[i].key]
                  = Sorted({e \in assembled.edges : e[1] = s})
             /\ assembled.edges = assembled.over =>
                  \A i \in DOMAIN batch.edge :
                    batch.edge[i].text = TextsOf("event_text", batch.edge[i].key)
  <2>1. Packaged(assembled)
    BY <1>1, <1>4 DEF Loadable
  <2>2. PICK list : list = SnapshotEdges(assembled, s)
    OBVIOUS
  <2>3. Numbered(list, assembled.edges, s)
    BY <2>1, <2>2, SnapshotFact DEF Packaged
  <2>4. batch = [node |-> [n \in Nodes |-> Available(assembled.node[<<s, n>>])],
                 edge |-> [i \in DOMAIN list |->
                             [key |-> list[i].key, text |-> Available(assembled.edge[list[i].at])]]]
    BY <1>4, <2>2 DEF SnapshotBatch
  <2>5. ASSUME NEW n \in Nodes PROVE batch.node[n] = TextsOf("node_text", <<s, n>>)
    BY <2>1, <2>4 DEF Packaged, NodeRight
  <2>6. DOMAIN batch.edge = DOMAIN list
    BY <2>4
  <2>7. ASSUME NEW i \in DOMAIN list
        PROVE  batch.edge[i].key = list[i].key
               /\ batch.edge[i].text = Available(assembled.edge[list[i].at])
    BY <2>4
  <2>8. [i \in DOMAIN batch.edge |-> batch.edge[i].key] = Sorted({e \in assembled.edges : e[1] = s})
    <3>1. [i \in DOMAIN batch.edge |-> batch.edge[i].key] = [i \in DOMAIN list |-> list[i].key]
      BY <2>6, <2>7
    <3> QED BY <2>3, <3>1 DEF Numbered
  <2>9. ASSUME assembled.edges = assembled.over, NEW i \in DOMAIN list
        PROVE  batch.edge[i].text = TextsOf("event_text", batch.edge[i].key)
    <3>1. PICK at : at = list[i].at
      OBVIOUS
    <3>2. /\ at \in 1 .. Cardinality(assembled.over)
          /\ list[i].key = Sorted(assembled.over)[at]
      BY <2>3, <2>9, <3>1 DEF Numbered
    <3>3. Available(assembled.edge[at]) = TextsOf("event_text", Sorted(assembled.over)[at])
      BY <2>1, <3>2 DEF Packaged, EdgeRight
    <3> QED BY <2>7, <3>1, <3>2, <3>3
  <2> QED BY <2>5, <2>6, <2>8, <2>9
<1> QED BY <1>2, <1>3, <1>4 DEF LoadedExact

\* With the invariant of the selection, it is inductive.
THEOREM LoadedInvariant == Spec => []LoadedInv
<1>1. Init => LoadedInv
  BY LoadedInit
<1>2. LoadedInv /\ SelectionInv /\ SelectionInv' /\ [Next]_vars => LoadedInv'
  <2> SUFFICES ASSUME LoadedInv, SelectionInv, SelectionInv', [Next]_vars PROVE LoadedInv'
    OBVIOUS
  <2>1. CASE Encode
    <3>1. InputStep /\ UNCHANGED packageVars
      BY <2>1 DEF Encode
    <3>2. CASE Open \/ ReadBatch \/ BadBatch \/ ScanRejected \/ Counted \/ Selected
      BY <3>1, <3>2, LoadedScan
    <3>3. CASE StartChunk \/ EncodeBatch \/ OutOfMemory
      BY <3>1, <3>3, LoadedEncode
    <3>4. CASE StoreChunk
      BY <3>1, <3>4, LoadedStore
    <3> QED BY <3>1, <3>2, <3>3, <3>4 DEF InputStep
  <2>2. CASE PoolNodes \/ PoolEdges
    BY <2>2, LoadedPool
  <2>3. CASE Align \/ Export \/ Resume \/ Republish \/ Assemble
    BY <2>3, LoadedPack
  <2>4. CASE UNCHANGED vars
    <3>1. /\ stage' = stage /\ modality' = modality /\ chosen' = chosen /\ encoder' = encoder
          /\ stored' = stored /\ graph' = graph /\ pooled' = pooled /\ exported' = exported
          /\ assembled' = assembled
      BY <2>4 DEF vars, inputVars, packageVars
    <3>2. StoreFits'
      <4>1. /\ ChunkCount(modality)' = ChunkCount(modality)
            /\ \A k : FirstStored(modality, k)' <=> FirstStored(modality, k)
        <5>1. /\ \A m, c : StoredRows(m, c)' = StoredRows(m, c)
              /\ \A m : ChunkCount(m)' = ChunkCount(m)
          BY <3>1, ChunksSame
        <5>2. \A m : \A k : FirstStored(m, k)' <=> FirstStored(m, k)
          BY <3>1, <5>1 DEF FirstStored
        <5> QED BY <3>1, <5>1, <5>2
      <4>2. \A m : FullyStored(m)' <=> FullyStored(m)
        BY <3>1, StoredSame
      <4> QED BY <3>1, <4>1, <4>2 DEF LoadedInv, StoreFits
    <3>3. EncoderFits'
      <4>1. Units' = Units
        BY <3>1 DEF Units, Chunk
      <4> QED BY <3>1, <4>1 DEF LoadedInv, EncoderFits
    <3>4. PackFits'
      BY <3>1, PackSame DEF LoadedInv, PackFits
    <3> QED BY <3>1, <3>2, <3>3, <3>4 DEF LoadedInv
  <2> QED BY <2>1, <2>2, <2>3, <2>4 DEF Next
<1> QED BY <1>1, <1>2, SelectionInvariant, PTL DEF Spec

\* For all artifacts, shard sizes, batches and graphs: every vector the loader
\* hands out is the mean of the selected texts of its key, every edge of a
\* snapshot comes once and in order, and a package that passed validation over
\* the edges it was pooled for is one the loader takes (TDMECInputDataset,
\* align_graph_and_text, aggregate_event_edges, finalize_node_text).
THEOREM LoadedIsExact == Spec => []LoadedExact
BY LoadedImplies, LoadedInvariant, PTL
=============================================================================
