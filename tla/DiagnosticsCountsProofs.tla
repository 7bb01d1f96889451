----------------------- MODULE DiagnosticsCountsProofs -------------------------
(***************************************************************************)
(* Theorems about the reports of DiagnosticsCounts, for all workbooks,     *)
(* chunk sizes and sequences of sessions.  The inductive invariant is      *)
(* CountsInv: what is committed, restored from its JSON state, is what one *)
(* pass over the records before the committed position gives, and the same *)
(* holds of the session in memory; so the reports are those of one pass    *)
(* (CutsInvisibleHolds).  What one pass gives follows from what each       *)
(* record adds: a counter that is increased by the keys of every record    *)
(* counts the records that have a key, a set that grows by them is their   *)
(* union (CounterFact, GatherFact, TallyFact).  What a report derives from *)
(* its counters follows from sums over them: a quantile is the value at a  *)
(* rank of the sorted sizes (QuantileFact), the groups of a kind are those *)
(* of the records that share a key (GroupsFact).  All four reports are     *)
(* their definitions over all records (CountsExactHolds).                  *)
(***************************************************************************)
EXTENDS DiagnosticsCounts, DataInduction

(***************************************************************************)
(* Counters, unions and sums over the records seen so far.                 *)
(***************************************************************************)
\* Of every key of the first k records, the number of records that have it.
Having(K, x, k) == {i \in 1 .. k : x \in K[i]}
KeysUpto(K, k) == UNION {K[i] : i \in 1 .. k}
Counted(K, k) == [x \in KeysUpto(K, k) |-> Cardinality(Having(K, x, k))]

\* A set of records is finite, and grows by the next record if that belongs to it.
LEMMA HavingFact ==
  ASSUME NEW K, NEW x, NEW k \in Nat
  PROVE  /\ IsFiniteSet(Having(K, x, k)) /\ Cardinality(Having(K, x, k)) \in Nat
         /\ Cardinality(Having(K, x, k + 1))
              = Cardinality(Having(K, x, k)) + (IF x \in K[k + 1] THEN 1 ELSE 0)
<1>1. \A j \in Nat : IsFiniteSet(Having(K, x, j)) /\ Cardinality(Having(K, x, j)) \in Nat
  <2> SUFFICES ASSUME NEW j \in Nat
               PROVE  IsFiniteSet(Having(K, x, j)) /\ Cardinality(Having(K, x, j)) \in Nat
    OBVIOUS
  <2>1. IsFiniteSet(1 .. j) /\ Having(K, x, j) \subseteq 1 .. j
    BY FS_Interval DEF Having
  <2> QED BY <2>1, FS_Subset, FS_CardinalityType
<1>2. CASE x \in K[k + 1]
  <2>1. Having(K, x, k + 1) = Having(K, x, k) \cup {k + 1} /\ k + 1 \notin Having(K, x, k)
    BY <1>2 DEF Having
  <2> QED BY <1>1, <1>2, <2>1, FS_AddElement
<1>3. CASE x \notin K[k + 1]
  <2>1. Having(K, x, k + 1) = Having(K, x, k)
    <3>1. \A i \in 1 .. (k + 1) : i \in 1 .. k \/ i = k + 1
      OBVIOUS
    <3>2. 1 .. k \subseteq 1 .. (k + 1)
      OBVIOUS
    <3> QED BY <1>3, <3>1, <3>2 DEF Having
  <2> QED BY <1>1, <1>3, <2>1
<1> QED BY <1>1, <1>2, <1>3

\* Counting the keys of the next record gives the count of one record more.
LEMMA CountedStep ==
  ASSUME NEW K, NEW k \in Nat
  PROVE  Inc(Counted(K, k), K[k + 1]) = Counted(K, k + 1)
<1> DEFINE c == Counted(K, k)
           S == K[k + 1]
<1>1. Inc(c, S) = [x \in KeysUpto(K, k) \cup S |->
                     (IF x \in KeysUpto(K, k) THEN c[x] ELSE 0) + (IF x \in S THEN 1 ELSE 0)]
  <2>1. DOMAIN SetToBag(S) = S /\ \A x \in S : SetToBag(S)[x] = 1
    BY DEF SetToBag
  <2>2. DOMAIN c = KeysUpto(K, k)
    BY DEF Counted
  <2> HIDE DEF c, S
  <2> QED BY <2>1, <2>2 DEF Inc, (+)
<1>2. KeysUpto(K, k + 1) = KeysUpto(K, k) \cup S
  <2>1. \A i \in 1 .. (k + 1) : i \in 1 .. k \/ i = k + 1
    OBVIOUS
  <2>2. 1 .. k \subseteq 1 .. (k + 1) /\ k + 1 \in 1 .. (k + 1)
    OBVIOUS
  <2> QED BY <2>1, <2>2 DEF KeysUpto
<1>3. \A x \in KeysUpto(K, k) : c[x] = Cardinality(Having(K, x, k))
  BY DEF Counted
<1>4. ASSUME NEW x, x \notin KeysUpto(K, k) PROVE Cardinality(Having(K, x, k)) = 0
  <2>1. Having(K, x, k) = {}
    BY <1>4 DEF Having, KeysUpto
  <2> QED BY <2>1, FS_EmptySet
<1>5. \A x \in KeysUpto(K, k) \cup S :
        (IF x \in KeysUpto(K, k) THEN c[x] ELSE 0) + (IF x \in S THEN 1 ELSE 0)
          = Cardinality(Having(K, x, k + 1))
  <2> SUFFICES ASSUME NEW x
               PROVE  (IF x \in KeysUpto(K, k) THEN c[x] ELSE 0) + (IF x \in S THEN 1 ELSE 0)
                        = Cardinality(Having(K, x, k + 1))
    OBVIOUS
  <2>1. (IF x \in KeysUpto(K, k) THEN c[x] ELSE 0) = Cardinality(Having(K, x, k))
    BY <1>3, <1>4
  <2> HIDE DEF c
  <2> QED BY <2>1, HavingFact
<1> HIDE DEF c, S
<1>6. Inc(c, S) = [x \in KeysUpto(K, k) \cup S |-> Cardinality(Having(K, x, k + 1))]
  BY <1>1, <1>5
<1> QED BY <1>2, <1>6 DEF Counted, c, S

\* c counts the keys of n records one after the other.
CountsKeys(c, K, n) == c[0] = EmptyBag /\ \A k \in 1 .. n : c[k] = Inc(c[k - 1], K[k])

\* A counter that is increased by the keys of every record counts the records with each key.
LEMMA CounterFact ==
  ASSUME NEW n \in Nat, NEW K, NEW c, CountsKeys(c, K, n)
  PROVE  \A k \in 0 .. n : c[k] = Counted(K, k)
<1> DEFINE G == {k \in Nat : k <= n => c[k] = Counted(K, k)}
<1>1. 0 \in G
  <2>1. KeysUpto(K, 0) = {}
    BY DEF KeysUpto
  <2>2. Counted(K, 0) = [x \in {} |-> Cardinality(Having(K, x, 0))]
    BY <2>1 DEF Counted
  <2>3. EmptyBag = [x \in {} |-> 1]
    BY DEF EmptyBag, SetToBag
  <2>4. Counted(K, 0) = EmptyBag
    BY <2>2, <2>3
  <2> QED BY <2>4 DEF CountsKeys
<1>2. ASSUME NEW k \in Nat, k \in G PROVE k + 1 \in G
  <2> SUFFICES ASSUME k + 1 <= n PROVE c[k + 1] = Counted(K, k + 1)
    OBVIOUS
  <2>1. k + 1 \in 1 .. n /\ (k + 1) - 1 = k
    OBVIOUS
  <2>2. c[k] = Counted(K, k)
    BY <1>2
  <2>3. c[k + 1] = Inc(c[k], K[k + 1])
    BY <2>1 DEF CountsKeys
  <2> HIDE DEF G
  <2> QED BY <2>2, <2>3, CountedStep
<1>3. Nat \subseteq G
  <2> HIDE DEF G
  <2> QED BY <1>1, <1>2, NaturalInduction
<1> QED BY <1>3

\* A counter says of every key how many records have it.
LEMMA CountedCopies ==
  ASSUME NEW K, NEW k \in Nat, NEW x
  PROVE  CountOf(x, Counted(K, k)) = Cardinality(Having(K, x, k))
<1>1. DOMAIN Counted(K, k) = KeysUpto(K, k)
  BY DEF Counted
<1>2. CASE x \in KeysUpto(K, k)
  BY <1>1, <1>2 DEF CountOf, Counted
<1>3. CASE x \notin KeysUpto(K, k)
  <2>1. Having(K, x, k) = {}
    BY <1>3 DEF Having, KeysUpto
  <2> QED BY <1>1, <1>3, <2>1, FS_EmptySet DEF CountOf
<1> QED BY <1>2, <1>3

(***************************************************************************)
(* One pass over records: the state after every one of them.               *)
(***************************************************************************)
IsPass(p, R, n) == p = [k \in 0 .. n |-> IF k = 0 THEN Fresh ELSE Observe(p[k - 1], R[k])]
PassOf(R) == CHOOSE p : IsPass(p, R, Len(R))

\* A pass over any records exists.
LEMMA PassExists ==
  ASSUME NEW R, NEW n \in Nat
  PROVE  \E p : IsPass(p, R, n)
<1> DEFINE G == {k \in Nat : \E p : IsPass(p, R, k)}
<1>1. 0 \in G
  <2>1. IsPass([k \in 0 .. 0 |-> Fresh], R, 0)
    BY DEF IsPass
  <2> QED BY <2>1
<1>2. ASSUME NEW k \in Nat, k \in G PROVE k + 1 \in G
  <2>1. PICK p : IsPass(p, R, k)
    BY <1>2
  <2>2. PICK q : q = [j \in 0 .. k + 1 |-> IF j = k + 1 THEN Observe(p[k], R[k + 1]) ELSE p[j]]
    OBVIOUS
  <2>3. q[0] = Fresh /\ DOMAIN q = 0 .. (k + 1)
    BY <2>1, <2>2 DEF IsPass
  <2>4. ASSUME NEW j \in 0 .. k + 1, j # 0 PROVE q[j] = Observe(q[j - 1], R[j])
    <3>1. j - 1 \in 0 .. k /\ j - 1 \in 0 .. k + 1 /\ j - 1 # k + 1
      BY <2>4
    <3>2. q[j - 1] = p[j - 1]
      BY <2>2, <3>1
    <3>3. CASE j = k + 1
      BY <2>2, <3>2, <3>3
    <3>4. CASE j # k + 1
      <4>1. j \in 0 .. k
        BY <3>4
      <4>2. p[j] = Observe(p[j - 1], R[j])
        BY <2>1, <2>4, <4>1 DEF IsPass
      <4> QED BY <2>2, <3>2, <3>4, <4>2
    <3> QED BY <3>3, <3>4
  <2>5. IsPass(q, R, k + 1)
    <3>1. \A j \in 0 .. k + 1 : q[j] = IF j = 0 THEN Fresh ELSE Observe(q[j - 1], R[j])
      BY <2>3, <2>4
    <3>2. q = [j \in 0 .. k + 1 |-> q[j]]
      BY <2>2
    <3> QED BY <3>1, <3>2 DEF IsPass
  <2> QED BY <2>5
<1> HIDE DEF G
<1>3. n \in G
  BY <1>1, <1>2, NaturalInduction
<1> QED BY <1>3 DEF G

\* A pass starts fresh and observes the records one after the other.
LEMMA PassFact ==
  ASSUME NEW R, Len(R) \in Nat
  PROVE  /\ PassOf(R)[0] = Fresh
         /\ \A k \in 1 .. Len(R) : PassOf(R)[k] = Observe(PassOf(R)[k - 1], R[k])
<1>1. PICK p : p = PassOf(R)
  OBVIOUS
<1>2. IsPass(p, R, Len(R))
  BY <1>1, PassExists DEF PassOf
<1> QED BY <1>1, <1>2 DEF IsPass

Observing(m, seq) == FoldLeft(Observe, m, seq)

\* Observing a sequence of records is observing the records one after the other.
LEMMA ObserveRun ==
  ASSUME NEW m, NEW seq, Len(seq) \in Nat, DOMAIN seq = 1 .. Len(seq)
  PROVE  \E r : /\ r[0] = m /\ Observing(m, seq) = r[Len(seq)]
                /\ \A k \in 1 .. Len(seq) : r[k] = Observe(r[k - 1], seq[k])
<1>1. PICK n \in Nat : n = Len(seq)
  OBVIOUS
<1> DEFINE Next1(h, S) == IF S = {} THEN m ELSE Observe(h[S \ {Max(S)}], seq[Max(S)])
           Solves(h, k) == h = [S \in SUBSET (1 .. k) |-> Next1(h, S)]
           fold == CHOOSE h : Solves(h, n)
           K == {k \in Nat : \E h : Solves(h, k)}
<1>2. Observing(m, seq) = fold[1 .. n]
  BY <1>1 DEF Observing, FoldLeft, MapThenFoldSet
<1> HIDE DEF fold
<1>3. \A k \in Nat : \A S \in SUBSET (1 .. k) :
        S # {} => /\ Max(S) \in S /\ \A x \in S : x <= Max(S)
                  /\ S \ {Max(S)} \in SUBSET (1 .. k)
  <2> SUFFICES ASSUME NEW k \in Nat, NEW S \in SUBSET (1 .. k), S # {}
               PROVE  Max(S) \in S /\ \A x \in S : x <= Max(S)
    OBVIOUS
  <2>1. S \in SUBSET (0 .. k)
    OBVIOUS
  <2> QED BY <2>1, MaxFact
<1>4. 0 \in K
  <2>1. PICK h : h = [S \in SUBSET (1 .. 0) |-> m]
    OBVIOUS
  <2>2. Solves(h, 0)
    <3>1. SUBSET (1 .. 0) = {{}}
      OBVIOUS
    <3> QED BY <2>1, <3>1
  <2> QED BY <2>2
<1>5. ASSUME NEW k \in Nat, k \in K PROVE k + 1 \in K
  <2>1. PICK h : Solves(h, k)
    BY <1>5
  <2>2. PICK g : g = [S \in SUBSET (1 .. k + 1) |->
                       IF k + 1 \in S THEN Observe(h[S \ {k + 1}], seq[k + 1]) ELSE h[S]]
    OBVIOUS
  <2>3. \A S \in SUBSET (1 .. k) : S \in SUBSET (1 .. k + 1) /\ k + 1 \notin S /\ g[S] = h[S]
    <3>1. ASSUME NEW S \in SUBSET (1 .. k) PROVE S \in SUBSET (1 .. k + 1) /\ k + 1 \notin S
      OBVIOUS
    <3> QED BY <2>2, <3>1
  <2>4. ASSUME NEW S \in SUBSET (1 .. k + 1), k + 1 \in S PROVE g[S] = Next1(g, S)
    <3>1. Max(S) = k + 1
      <4>1. k + 1 \in Nat
        OBVIOUS
      <4>2. Max(S) \in S /\ \A x \in S : x <= Max(S)
        BY <1>3, <2>4, <4>1
      <4>3. \A x \in S : x \in Int /\ x <= k + 1
        OBVIOUS
      <4> PICK x : x = Max(S)
        OBVIOUS
      <4>4. x \in S /\ k + 1 <= x
        BY <2>4, <4>2
      <4> QED BY <4>3, <4>4
    <3>2. S \ {k + 1} \in SUBSET (1 .. k)
      OBVIOUS
    <3>3. g[S] = Observe(h[S \ {k + 1}], seq[k + 1]) /\ g[S \ {k + 1}] = h[S \ {k + 1}]
      BY <2>2, <2>3, <2>4, <3>2
    <3> QED BY <2>4, <3>1, <3>3
  <2>5. ASSUME NEW S \in SUBSET (1 .. k + 1), k + 1 \notin S PROVE g[S] = Next1(g, S)
    <3>1. S \in SUBSET (1 .. k)
      BY <2>5
    <3>2. h[S] = Next1(h, S) /\ g[S] = h[S]
      BY <2>1, <2>3, <3>1
    <3>3. CASE S = {}
      BY <3>2, <3>3
    <3>4. CASE S # {}
      <4>1. S \ {Max(S)} \in SUBSET (1 .. k)
        BY <1>3, <3>1, <3>4
      <4>2. g[S \ {Max(S)}] = h[S \ {Max(S)}]
        BY <2>3, <4>1
      <4> QED BY <3>2, <3>4, <4>2
    <3> QED BY <3>3, <3>4
  <2>6. Solves(g, k + 1)
    <3>1. g = [S \in SUBSET (1 .. k + 1) |-> g[S]]
      BY <2>2
    <3> HIDE DEF Next1
    <3>2. \A S \in SUBSET (1 .. k + 1) : g[S] = Next1(g, S)
      BY <2>4, <2>5
    <3> QED BY <3>1, <3>2
  <2> HIDE DEF Solves
  <2> QED BY <2>6
<1>6. Solves(fold, n)
  <2>1. n \in K
    <3> HIDE DEF K
    <3> QED BY <1>4, <1>5, NaturalInduction
  <2>2. \E h : Solves(h, n)
    BY <2>1
  <2> HIDE DEF Solves
  <2> QED BY <2>2 DEF fold
<1>7. PICK r : r = [k \in 0 .. n |-> fold[1 .. k]]
  OBVIOUS
<1>8. r[0] = m /\ r[n] = fold[1 .. n]
  <2>1. 1 .. 0 = {} /\ {} \in SUBSET (1 .. n)
    OBVIOUS
  <2>2. fold[{}] = m
    BY <1>6, <2>1
  <2> QED BY <1>7, <2>1, <2>2
<1>9. ASSUME NEW k \in 1 .. n PROVE r[k] = Observe(r[k - 1], seq[k])
  <2>1. k \in Nat \ {0} /\ k \in 0 .. n /\ k - 1 \in 0 .. n
    OBVIOUS
  <2>2. Max(1 .. k) = k /\ (1 .. k) \ {k} = 1 .. k - 1 /\ 1 .. k # {}
    BY <2>1, MaxOfInterval
  <2>3. 1 .. k \in SUBSET (1 .. n)
    OBVIOUS
  <2>4. fold[1 .. k] = Next1(fold, 1 .. k)
    <3> PICK S : S = 1 .. k
      OBVIOUS
    <3> HIDE DEF Next1
    <3> QED BY <1>6, <2>3
  <2>5. fold[1 .. k] = Observe(fold[1 .. k - 1], seq[k])
    BY <2>2, <2>4
  <2> QED BY <1>7, <2>1, <2>5
<1> QED BY <1>1, <1>2, <1>8, <1>9

(***************************************************************************)
(* Where the records of a chunk are among all records.                     *)
(***************************************************************************)
LEMMA SumsAssociate ==
  ASSUME NEW x \in Int, NEW y \in Int, NEW z \in Int
  PROVE  (x + y) + z = x + (y + z)
OBVIOUS

\* Blocks a + 1, a + 2, ... of off are the blocks of own, moved.
LEMMA BlocksPart ==
  ASSUME NEW n \in Nat, NEW off, NEW len, Blocks(off, len, n),
         NEW a \in Nat, NEW d \in Nat, a + d <= n, NEW own, NEW part, Blocks(own, part, d),
         \A k \in 1 .. d : part[k] = len[a + k]
  PROVE  /\ off[a + 1] \in Nat
         /\ \A k \in 1 .. d + 1 : own[k] \in Nat /\ off[a + k] = off[a + 1] + own[k]
<1>1. /\ off \in [1 .. n + 1 -> Nat] /\ own \in [1 .. d + 1 -> Nat] /\ own[1] = 0
      /\ \A k \in 1 .. n : off[k + 1] = off[k] + len[k] /\ len[k] \in Nat
      /\ \A k \in 1 .. d : own[k + 1] = own[k] + part[k]
  BY DEF Blocks
<1>2. a + 1 \in 1 .. n + 1
  OBVIOUS
<1> PICK o \in Nat : o = off[a + 1]
  BY <1>1, <1>2
<1> DEFINE G == {k \in Nat : k <= d => off[a + (k + 1)] = o + own[k + 1]}
<1>3. 0 \in G
  BY <1>1
<1>4. ASSUME NEW k \in Nat, k \in G PROVE k + 1 \in G
  <2> SUFFICES ASSUME k + 1 <= d PROVE off[a + ((k + 1) + 1)] = o + own[(k + 1) + 1]
    OBVIOUS
  <2>1. k + 1 \in 1 .. d /\ k + 1 \in 1 .. d + 1 /\ a + (k + 1) \in 1 .. n
    OBVIOUS
  <2>2. off[a + (k + 1)] = o + own[k + 1]
    BY <1>4
  <2> PICK l \in Nat : l = len[a + (k + 1)]
    BY <1>1, <2>1
  <2> PICK w \in Nat : w = own[k + 1]
    BY <1>1, <2>1
  <2>3. own[(k + 1) + 1] = w + l
    BY <1>1, <2>1
  <2>4. off[(a + (k + 1)) + 1] = (o + w) + l
    BY <1>1, <2>1, <2>2
  <2>5. (a + (k + 1)) + 1 = a + ((k + 1) + 1) /\ (o + w) + l = o + (w + l)
    OBVIOUS
  <2> QED BY <2>3, <2>4, <2>5
<1>5. Nat \subseteq G
  <2> HIDE DEF G
  <2> QED BY <1>3, <1>4, NaturalInduction
<1>6. ASSUME NEW k \in 1 .. d + 1 PROVE own[k] \in Nat /\ off[a + k] = o + own[k]
  <2>1. k - 1 \in Nat /\ k - 1 <= d /\ (k - 1) + 1 = k
    OBVIOUS
  <2>2. k - 1 \in G
    BY <1>5, <2>1
  <2>3. off[a + ((k - 1) + 1)] = o + own[(k - 1) + 1]
    BY <2>1, <2>2
  <2> QED BY <1>1, <2>1, <2>3
<1> QED BY <1>6

\* A number up to the end of the blocks is in one of them.
LEMMA BlockOf ==
  ASSUME NEW d \in Nat, NEW own, NEW part, Blocks(own, part, d), NEW x \in 1 .. own[d + 1]
  PROVE  \E l \in 1 .. d : \E j \in 1 .. part[l] : x = own[l] + j
<1>1. \A i \in 1 .. own[d + 1] : \E l \in 1 .. d : own[l] < i /\ i <= own[l + 1]
  <2>1. d \in 0 .. d
    OBVIOUS
  <2> QED BY <2>1, BlocksFact
<1>2. PICK l \in 1 .. d : own[l] < x /\ x <= own[l + 1]
  BY <1>1
<1>3. own[l] \in Nat /\ part[l] \in Nat /\ own[l + 1] = own[l] + part[l]
  BY DEF Blocks
<1> PICK p \in Nat, q \in Nat : p = own[l] /\ q = part[l]
  BY <1>3
<1>4. x \in Int /\ p < x /\ x <= p + q
  BY <1>2, <1>3
<1>5. x - p \in 1 .. q /\ x = p + (x - p)
  BY <1>4
<1> QED BY <1>5

\* A part of a sequence of sequences, flattened, is the same part of the whole.
IsPart(part, W, a, d, T) ==
  /\ W \in Seq(Seq(T)) /\ part \in Seq(Seq(T)) /\ a + d <= Len(W) /\ Len(part) = d
  /\ \A i \in 1 .. d : part[i] = W[a + i]

\* Records of consecutive rows, flattened, are a segment of all records, flattened.
LEMMA SegmentFact ==
  ASSUME NEW T, NEW W, NEW off, IsFlat(off, W, FlattenSeq(W)),
         NEW a \in Nat, NEW d \in Nat, NEW part, IsPart(part, W, a, d, T)
  PROVE  /\ off[a + 1] \in Nat
         /\ FlattenSeq(part) \in Seq(T)
         /\ off[a + d + 1] = off[a + 1] + Len(FlattenSeq(part))
         /\ \A x \in 1 .. Len(FlattenSeq(part)) :
              FlattenSeq(part)[x] = FlattenSeq(W)[off[a + 1] + x]
<1>1. PICK n \in Nat : n = Len(W) /\ a + d <= n
  BY DEF IsPart
<1>2. PICK F : F = FlattenSeq(W)
  OBVIOUS
<1>3. PICK f : f \in Seq(T) /\ f = FlattenSeq(part) /\ Len(f) \in Nat
  BY FlattenFact DEF IsPart
<1>4. PICK own : IsFlat(own, part, f)
  BY <1>3, FlattenFact DEF IsPart
<1>5. PICK len : len = Lengths(W)
  OBVIOUS
<1>6. PICK mine : mine = Lengths(part)
  OBVIOUS
<1>7. /\ Blocks(off, len, n) /\ Blocks(own, mine, d) /\ own[d + 1] = Len(f)
      /\ \A k \in 1 .. n : \A j \in 1 .. Len(W[k]) : F[off[k] + j] = W[k][j]
      /\ \A k \in 1 .. d : \A j \in 1 .. Len(part[k]) : f[own[k] + j] = part[k][j]
  BY <1>1, <1>2, <1>4, <1>5, <1>6 DEF IsFlat, IsPart
<1>8. \A k \in 1 .. d : a + k \in 1 .. n
  BY <1>1
<1>9. \A k \in 1 .. d : part[k] = W[a + k] /\ mine[k] = Len(part[k]) /\ mine[k] = len[a + k]
  BY <1>1, <1>5, <1>6, <1>8 DEF Lengths, IsPart
<1>10. /\ off[a + 1] \in Nat
       /\ \A k \in 1 .. d + 1 : own[k] \in Nat /\ off[a + k] = off[a + 1] + own[k]
  <2>1. a + d <= n /\ \A k \in 1 .. d : mine[k] = len[a + k]
    BY <1>1, <1>9
  <2>2. Blocks(off, len, n) /\ Blocks(own, mine, d)
    BY <1>7
  <2> QED BY <2>1, <2>2, BlocksPart
<1> PICK o \in Nat : o = off[a + 1]
  BY <1>10
<1>11. off[a + d + 1] = o + Len(f)
  <2>1. d + 1 \in 1 .. d + 1 /\ a + (d + 1) = a + d + 1
    OBVIOUS
  <2> QED BY <1>7, <1>10, <2>1
<1>12. ASSUME NEW x \in 1 .. Len(f) PROVE f[x] = F[o + x]
  <2>1. PICK l \in 1 .. d : \E j \in 1 .. mine[l] : x = own[l] + j
    <3>1. x \in 1 .. own[d + 1]
      BY <1>7
    <3>2. Blocks(own, mine, d)
      BY <1>7
    <3> QED BY <3>1, <3>2, BlockOf
  <2>2. PICK j \in 1 .. mine[l] : x = own[l] + j
    BY <2>1
  <2>3. j \in 1 .. Len(part[l]) /\ part[l] = W[a + l] /\ a + l \in 1 .. n
    BY <1>8, <1>9
  <2>4. f[x] = part[l][j]
    BY <1>7, <2>2, <2>3
  <2>5. F[off[a + l] + j] = part[l][j]
    BY <1>7, <2>3
  <2>6. off[a + l] + j = o + x
    <3>1. l \in 1 .. d + 1
      OBVIOUS
    <3>2. PICK p \in Nat : p = own[l] /\ off[a + l] = o + p
      BY <1>10, <3>1
    <3>3. j \in Int
      OBVIOUS
    <3>4. (o + p) + j = o + (p + j)
      BY <3>3, SumsAssociate
    <3> QED BY <2>2, <3>2, <3>4
  <2> QED BY <2>4, <2>5, <2>6
<1> QED BY <1>2, <1>3, <1>10, <1>11, <1>12

(***************************************************************************)
(* The records of the workbooks, and their places.                         *)
(***************************************************************************)
LEMMA ShortSequences ==
  ASSUME NEW S, NEW x \in S, NEW y \in S, NEW z \in S
  PROVE  << >> \in Seq(S) /\ <<x>> \in Seq(S) /\ <<x, y, z>> \in Seq(S)
OBVIOUS

\* A function on 1 .. n with values in S is a sequence of S.
LEMMA SequenceOf ==
  ASSUME NEW S, NEW n \in Nat, NEW g, g = [i \in 1 .. n |-> g[i]], \A i \in 1 .. n : g[i] \in S
  PROVE  g \in Seq(S) /\ Len(g) = n
OBVIOUS

Datasets == {"A", "B"}
Kinds == {"mention", "retweet", "reply", "quote"}
TargetType == Kinds \X Names
RecordShape ==
  [dataset : Datasets, file : Int, row : Int, time : Times, author : Names, id : Names,
   text : DOMAIN Quality, relation : Kinds \cup {""}, target : Names]
RecordType == {r \in RecordShape : r.dataset = "B" => r.relation = ""}

\* An account is a name.
LEMMA AccountType ==
  ASSUME NEW cell \in Cells
  PROVE  AccountOf(cell) \in Names
BY CountsAssumption DEF AccountOf, Cells

\* A relation to an account is a sequence of targets, empty or of one.
LEMMA NamingType ==
  ASSUME NEW relation \in Kinds, NEW account \in Names
  PROVE  Naming(relation, account) \in Seq(TargetType)
<1>1. PICK t \in TargetType : t = <<relation, account>>
  BY DEF TargetType
<1>2. <<t>> \in Seq(TargetType) /\ << >> \in Seq(TargetType)
  BY ShortSequences
<1>3. Naming(relation, account) = IF account = "" THEN << >> ELSE <<t>>
  BY <1>1 DEF Naming
<1> QED BY <1>2, <1>3

\* The targets of a row of dataset A are relations to names.
LEMMA TargetsType ==
  ASSUME NEW row \in Rows
  PROVE  Targets(row) \in Seq(TargetType)
<1>1. /\ "mention" \in Kinds /\ "retweet" \in Kinds /\ "reply" \in Kinds /\ "quote" \in Kinds
  BY DEF Kinds
<1>2. PICK mentions \in Seq(Cells) : mentions = row.mentions
  BY DEF Rows
<1>3. PICK a : a = [i \in DOMAIN mentions |-> Naming("mention", AccountOf(mentions[i]))]
  OBVIOUS
<1>4. PICK b : b = <<Naming("retweet", StatusAccount(row.retweet)),
                     Naming("reply", StatusAccount(row.reply)),
                     Naming("quote", StatusAccount(row.quote))>>
  OBVIOUS
<1> PICK S : S = Seq(TargetType)
  OBVIOUS
<1>5. a \in Seq(S)
  <2>1. PICK n \in Nat : n = Len(mentions) /\ DOMAIN mentions = 1 .. n
    OBVIOUS
  <2>2. \A i \in 1 .. n : a[i] \in S
    <3>1. \A i \in 1 .. n : mentions[i] \in Cells
      BY <2>1
    <3>2. \A i \in 1 .. n : AccountOf(mentions[i]) \in Names
      BY <3>1, AccountType
    <3> QED BY <1>1, <1>3, <2>1, <3>2, NamingType
  <2>3. a = [i \in 1 .. n |-> a[i]]
    BY <1>3, <2>1
  <2> QED BY <2>2, <2>3, SequenceOf
<1>6. b \in Seq(S)
  <2>1. \A s \in Statuses : StatusAccount(s) \in Names
    BY AccountType DEF StatusAccount, Statuses
  <2>2. row.retweet \in Statuses /\ row.reply \in Statuses /\ row.quote \in Statuses
    BY DEF Rows
  <2>3. /\ Naming("retweet", StatusAccount(row.retweet)) \in S
        /\ Naming("reply", StatusAccount(row.reply)) \in S
        /\ Naming("quote", StatusAccount(row.quote)) \in S
    <3>1. /\ StatusAccount(row.retweet) \in Names /\ StatusAccount(row.reply) \in Names
          /\ StatusAccount(row.quote) \in Names
      BY <2>1, <2>2
    <3> QED BY <1>1, <3>1, NamingType
  <2> QED BY <1>4, <2>3, ShortSequences
<1>7. a \o b \in Seq(S)
  BY <1>5, <1>6, ConcatProperties
<1>8. Targets(row) = FlattenSeq(a \o b)
  BY <1>2, <1>3, <1>4 DEF Targets
<1>9. a \o b \in Seq(Seq(TargetType))
  BY <1>7
<1> QED BY <1>8, <1>9, FlattenFact

\* A record with fields of their types is a record.
LEMMA RecordIn ==
  ASSUME NEW d \in Datasets, NEW f \in Int, NEW n \in Int, NEW t \in Times, NEW a \in Names,
         NEW i \in Names, NEW x \in DOMAIN Quality, NEW k \in Kinds \cup {""}, NEW g \in Names,
         d = "B" => k = ""
  PROVE  [dataset |-> d, file |-> f, row |-> n, time |-> t, author |-> a, id |-> i,
          text |-> x, relation |-> k, target |-> g] \in RecordType
<1>1. PICK r : r = [dataset |-> d, file |-> f, row |-> n, time |-> t, author |-> a, id |-> i,
                    text |-> x, relation |-> k, target |-> g]
  OBVIOUS
<1>2. r \in RecordShape /\ r.dataset = d /\ r.relation = k
  BY <1>1 DEF RecordShape
<1> QED BY <1>1, <1>2 DEF RecordType

\* What a row gives is a sequence of records.
LEMMA RowRecordsType ==
  ASSUME NEW book \in Books, NEW i \in 1 .. Len(book.rows)
  PROVE  RowRecords(book, i) \in Seq(RecordType)
<1>1. PICK row \in Rows : row = book.rows[i]
  BY DEF Books
<1>2. PICK number \in Int : number = i + 1
  OBVIOUS
<1>3. PICK r \in RecordType : r = Record(book, i)
  <2>1. /\ book.dataset \in Datasets /\ book.name \in Int
        /\ row.time \in Times /\ row.user \in Cells /\ row.id \in Names
        /\ row.text \in DOMAIN Quality
    BY DEF Books, Rows, Datasets
  <2>2. PICK author \in Names : author = AccountOf(row.user)
    BY <2>1, AccountType
  <2>3. "" \in Names
    BY CountsAssumption
  <2>4. Record(book, i) = [dataset |-> book.dataset, file |-> book.name, row |-> number,
                           time |-> row.time, author |-> author, id |-> row.id,
                           text |-> row.text, relation |-> "", target |-> ""]
    BY <1>1, <1>2, <2>2 DEF Record
  <2>5. Record(book, i) \in RecordType
    <3>1. "" \in Kinds \cup {""}
      OBVIOUS
    <3> PICK d \in Datasets, f \in Int, t \in Times, a \in Names, x \in DOMAIN Quality :
           /\ d = book.dataset /\ f = book.name /\ t = row.time /\ a = row.id /\ x = row.text
      BY <2>1
    <3>2. Record(book, i) = [dataset |-> d, file |-> f, row |-> number, time |-> t,
                             author |-> author, id |-> a, text |-> x, relation |-> "",
                             target |-> ""]
      BY <2>4
    <3>3. [dataset |-> d, file |-> f, row |-> number, time |-> t, author |-> author, id |-> a,
           text |-> x, relation |-> "", target |-> ""] \in RecordType
      BY <2>3, <3>1, RecordIn
    <3> QED BY <3>2, <3>3
  <2> QED BY <2>5
<1>4. PICK t \in Seq(TargetType) :
        t = IF book.dataset = "A" THEN Targets(row) ELSE << >>
  <2>1. << >> \in Seq(TargetType)
    OBVIOUS
  <2> QED BY <2>1, TargetsType
<1>5. PICK n \in Nat : n = Len(t) /\ DOMAIN t = 1 .. n
  OBVIOUS
<1>6. PICK g : g = [k \in DOMAIN t |-> [r EXCEPT !.relation = t[k][1], !.target = t[k][2]]]
  OBVIOUS
<1>7. g \in Seq(RecordType)
  <2>1. ASSUME NEW k \in 1 .. n PROVE g[k] \in RecordType
    <3>1. t[k] \in TargetType
      BY <1>5
    <3>2. t[k][1] \in Kinds \cup {""} /\ t[k][2] \in Names
      BY <3>1 DEF TargetType
    <3>3. g[k] = [r EXCEPT !.relation = t[k][1], !.target = t[k][2]]
      BY <1>5, <1>6
    <3>4. book.dataset # "B"
      <4> SUFFICES ASSUME book.dataset = "B" PROVE FALSE
        OBVIOUS
      <4>1. t = << >>
        BY <1>4
      <4> QED BY <1>5, <4>1
    <3>5. r \in RecordShape /\ r.dataset # "B"
      BY <1>3, <3>4 DEF RecordType, Record
    <3>6. g[k] \in RecordShape /\ g[k].dataset = r.dataset
      BY <3>2, <3>3, <3>5 DEF RecordShape
    <3> QED BY <3>5, <3>6 DEF RecordType
  <2>2. g = [k \in 1 .. n |-> g[k]]
    BY <1>5, <1>6
  <2> QED BY <2>1, <2>2, SequenceOf
<1>8. <<r>> \in Seq(RecordType)
  BY ShortSequences
<1>9. RowRecords(book, i) = IF t = << >> THEN <<r>> ELSE g
  BY <1>1, <1>3, <1>4, <1>6 DEF RowRecords
<1> QED BY <1>7, <1>8, <1>9

\* The rows of a workbook, and what its records are.
RowsOf(book) == [i \in 1 .. Len(book.rows) |-> RowRecords(book, i)]
BooksOf(bs) == [b \in DOMAIN bs |-> Records(bs[b], 0, Len(bs[b].rows))]
RecordsOf(bs) == FlattenSeq(BooksOf(bs))

PartOf(book, from, to) == [i \in 1 .. to - from |-> RowRecords(book, from + i)]

\* The records of a range of rows are those of its rows, flattened.
LEMMA RowsPart ==
  ASSUME NEW book \in Books, NEW from \in Nat, NEW to \in Nat, from <= to, to <= Len(book.rows)
  PROVE  /\ IsPart(PartOf(book, from, to), RowsOf(book), from, to - from, RecordType)
         /\ Records(book, from, to) = FlattenSeq(PartOf(book, from, to))
<1>1. PICK n \in Nat : n = Len(book.rows)
  BY DEF Books
<1>2. PICK d \in Nat : d = to - from /\ from + d <= n
  BY <1>1
<1>3. PICK p : p = PartOf(book, from, to)
  OBVIOUS
<1>4. PICK W : W = RowsOf(book)
  OBVIOUS
<1> PICK S : S = Seq(RecordType)
  OBVIOUS
<1>5. \A i \in 1 .. d : from + i \in 1 .. n
  BY <1>2
<1>6. W = [i \in 1 .. n |-> W[i]] /\ \A i \in 1 .. n : W[i] \in S /\ W[i] = RowRecords(book, i)
  BY <1>1, <1>4, RowRecordsType DEF RowsOf
<1>7. p = [i \in 1 .. d |-> p[i]] /\ \A i \in 1 .. d : p[i] = W[from + i] /\ p[i] \in S
  BY <1>2, <1>3, <1>5, <1>6 DEF PartOf
<1>8. W \in Seq(S) /\ Len(W) = n /\ p \in Seq(S) /\ Len(p) = d
  BY <1>6, <1>7, SequenceOf
<1> QED BY <1>2, <1>3, <1>4, <1>7, <1>8 DEF IsPart, Records, PartOf

\* The records of a range of rows are a sequence of records.
LEMMA RecordsType ==
  ASSUME NEW book \in Books, NEW from \in Nat, NEW to \in Nat, from <= to, to <= Len(book.rows)
  PROVE  Records(book, from, to) \in Seq(RecordType)
BY RowsPart, FlattenFact DEF IsPart

\* The number of records before row + 1 of a workbook of its own, and of all.
Inside(book, row) == Len(Records(book, 0, row))
Position(bs, b, row) ==
  Len(FlattenSeq([i \in 1 .. b - 1 |-> BooksOf(bs)[i]])) + Inside(bs[b], row)

\* The records between two rows are those between their places in the workbook.
ChunkInside(part, book, from, to, whole) ==
  /\ Inside(book, from) \in Nat /\ Inside(book, to) = Inside(book, from) + Len(part)
  /\ Inside(book, from) + Len(part) <= Len(whole)
  /\ part \in Seq(RecordType) /\ whole \in Seq(RecordType)
  /\ \A x \in 1 .. Len(part) : part[x] = whole[Inside(book, from) + x]

\* The records of a range of rows are a segment of those of the workbook.
LEMMA InsideFact ==
  ASSUME NEW book \in Books, NEW from \in Nat, NEW to \in Nat, from <= to, to <= Len(book.rows)
  PROVE  ChunkInside(Records(book, from, to), book, from, to, Records(book, 0, Len(book.rows)))
<1>p. PICK part : part = Records(book, from, to)
  OBVIOUS
<1>w. PICK whole : whole = Records(book, 0, Len(book.rows))
  OBVIOUS
<1>1. PICK n \in Nat : n = Len(book.rows)
  BY DEF Books
<1>2. PICK W : W = RowsOf(book)
  OBVIOUS
<1>3. /\ IsPart(PartOf(book, 0, n), W, 0, n, RecordType) /\ whole = FlattenSeq(PartOf(book, 0, n))
      /\ n - 0 = n
  BY <1>w, <1>1, <1>2, RowsPart
<1>4. W = PartOf(book, 0, n) /\ W \in Seq(Seq(RecordType)) /\ Len(W) = n
  <2>1. \A i \in 1 .. n : 0 + i = i
    OBVIOUS
  <2>2. PartOf(book, 0, n) = [i \in 1 .. n |-> RowRecords(book, i)]
    BY <2>1 DEF PartOf
  <2> QED BY <1>1, <1>2, <1>3, <2>2 DEF RowsOf, IsPart
<1>5. PICK off : IsFlat(off, W, whole)
  BY <1>3, <1>4, FlattenFact
<1>6. whole = FlattenSeq(W)
  BY <1>3, <1>4
<1>7. ASSUME NEW k \in Nat, k <= n PROVE Inside(book, k) = off[k + 1] /\ off[k + 1] \in Nat
  <2>1. /\ IsPart(PartOf(book, 0, k), W, 0, k - 0, RecordType)
        /\ Records(book, 0, k) = FlattenSeq(PartOf(book, 0, k))
    BY <1>1, <1>2, <1>7, RowsPart
  <2>2. k - 0 = k /\ 0 + k + 1 = k + 1 /\ 0 + 1 = 1
    OBVIOUS
  <2>3. /\ off[1] \in Nat /\ FlattenSeq(PartOf(book, 0, k)) \in Seq(RecordType)
        /\ off[k + 1] = off[1] + Len(FlattenSeq(PartOf(book, 0, k)))
    <3> PICK p : p = PartOf(book, 0, k)
      OBVIOUS
    <3>1. IsPart(p, W, 0, k, RecordType) /\ IsFlat(off, W, FlattenSeq(W)) /\ 0 \in Nat
      BY <1>5, <1>6, <2>1, <2>2
    <3>2. /\ off[0 + 1] \in Nat /\ FlattenSeq(p) \in Seq(RecordType)
          /\ off[0 + k + 1] = off[0 + 1] + Len(FlattenSeq(p))
      BY <3>1, SegmentFact
    <3> QED BY <2>2, <3>2
  <2>4. off[1] = 0
    BY <1>5 DEF IsFlat, Blocks
  <2> QED BY <2>1, <2>3, <2>4 DEF Inside
<1>8. PICK d \in Nat : d = to - from /\ from + d = to
  OBVIOUS
<1>9. IsPart(PartOf(book, from, to), W, from, d, RecordType)
      /\ part = FlattenSeq(PartOf(book, from, to))
  BY <1>p, <1>2, <1>8, RowsPart
<1>10. /\ part \in Seq(RecordType) /\ off[from + 1] \in Nat
       /\ off[from + d + 1] = off[from + 1] + Len(part)
       /\ \A x \in 1 .. Len(part) : part[x] = whole[off[from + 1] + x]
  BY <1>5, <1>6, <1>9, SegmentFact
<1>11. Inside(book, from) = off[from + 1] /\ Inside(book, to) = off[to + 1]
  BY <1>1, <1>7
<1>12. off[from + 1] + Len(part) <= Len(whole)
  <2>1. off[n + 1] = Len(whole) /\ Blocks(off, Lengths(W), n)
    BY <1>4, <1>5 DEF IsFlat
  <2>2. off[to + 1] <= off[n + 1]
    <3>1. CASE to = 0
      <4>1. off[1] = 0 /\ off[n + 1] \in Nat
        BY <2>1 DEF Blocks
      <4> QED BY <3>1, <4>1
    <3>2. CASE to # 0
      <4>1. to \in 1 .. n /\ n \in 0 .. n
        BY <1>1, <3>2
      <4> QED BY <2>1, <4>1, BlocksFact
    <3> QED BY <3>1, <3>2
  <2> QED BY <1>8, <1>10, <2>1, <2>2
<1>13. whole \in Seq(RecordType)
  BY <1>w, <1>1, RecordsType
<1> QED BY <1>p, <1>w, <1>8, <1>10, <1>11, <1>12, <1>13 DEF ChunkInside

\* The records of all workbooks, one workbook after the other: off[b] of them
\* are before workbook b.
InBooks(bs, off, R) ==
  /\ R \in Seq(RecordType) /\ Len(R) \in Nat
  /\ off \in [1 .. Len(bs) + 1 -> Nat] /\ off[1] = 0 /\ off[Len(bs) + 1] = Len(R)
  /\ \A b \in 1 .. Len(bs) :
       LET whole == Records(bs[b], 0, Len(bs[b].rows)) IN
       /\ off[b + 1] = off[b] + Len(whole) /\ off[b + 1] <= Len(R)
       /\ \A j \in 1 .. Len(whole) : R[off[b] + j] = whole[j]
  /\ \A b \in 1 .. Len(bs) + 1 : Position(bs, b, 0) = off[b]
  /\ \A b \in 1 .. Len(bs), row \in Nat : Position(bs, b, row) = off[b] + Inside(bs[b], row)

\* No records come before the first row.
LEMMA NoneInside ==
  ASSUME NEW book
  PROVE  Records(book, 0, 0) = << >> /\ Inside(book, 0) = 0
<1>1. [i \in 1 .. 0 - 0 |-> RowRecords(book, 0 + i)] = << >>
  OBVIOUS
<1>2. FlattenSeq(<< >>) = << >>
  BY DEF FlattenSeq
<1>3. Records(book, 0, 0) = << >>
  BY <1>1, <1>2 DEF Records
<1> QED BY <1>3 DEF Inside

\* The records of all workbooks are those of each, one after the other.
LEMMA BooksFact ==
  ASSUME NEW bs \in Seq(Books)
  PROVE  \E off : InBooks(bs, off, RecordsOf(bs))
<1>1. PICK n \in Nat : n = Len(bs) /\ DOMAIN bs = 1 .. n
  OBVIOUS
<1>2. PICK W : W = BooksOf(bs)
  OBVIOUS
<1>3. PICK whole : whole = [b \in 1 .. n |-> Records(bs[b], 0, Len(bs[b].rows))]
  OBVIOUS
<1> PICK S : S = Seq(RecordType)
  OBVIOUS
<1>4. W = [b \in 1 .. n |-> W[b]] /\ \A b \in 1 .. n : W[b] \in S /\ W[b] = whole[b]
  <2>1. ASSUME NEW b \in 1 .. n PROVE Records(bs[b], 0, Len(bs[b].rows)) \in S
    <3>1. PICK book \in Books : book = bs[b]
      BY <1>1
    <3>2. 0 \in Nat /\ Len(book.rows) \in Nat /\ 0 <= Len(book.rows)
      BY DEF Books
    <3> QED BY <3>1, <3>2, RecordsType
  <2> QED BY <1>1, <1>2, <1>3, <2>1 DEF BooksOf
<1>5. W \in Seq(S) /\ Len(W) = n
  BY <1>4, SequenceOf
<1>6. PICK R : R = RecordsOf(bs) /\ R = FlattenSeq(W)
  BY <1>2 DEF RecordsOf
<1>7. PICK off : IsFlat(off, W, R) /\ R \in Seq(RecordType)
  BY <1>5, <1>6, FlattenFact
<1>8. /\ off \in [1 .. n + 1 -> Nat] /\ off[1] = 0 /\ off[n + 1] = Len(R)
      /\ \A b \in 1 .. n : off[b + 1] = off[b] + Len(W[b])
      /\ \A b \in 1 .. n : \A j \in 1 .. Len(W[b]) : R[off[b] + j] = W[b][j]
      /\ Blocks(off, Lengths(W), n)
  BY <1>5, <1>7 DEF IsFlat, Blocks, Lengths
<1>9. ASSUME NEW b \in 1 .. n PROVE off[b + 1] <= Len(R)
  <2>1. n \in 0 .. n
    OBVIOUS
  <2>2. off[b + 1] <= off[n + 1]
    BY <1>8, <2>1, BlocksFact
  <2> QED BY <1>8, <2>2
<1>10. ASSUME NEW b \in 1 .. n + 1
       PROVE  Len(FlattenSeq([i \in 1 .. b - 1 |-> W[i]])) = off[b]
  <2>1. PICK p : p = [i \in 1 .. b - 1 |-> W[i]]
    OBVIOUS
  <2>2. PICK d \in Nat : d = b - 1 /\ 0 + d <= n /\ 0 + d + 1 = b
    OBVIOUS
  <2>3. p = [i \in 1 .. d |-> p[i]] /\ \A i \in 1 .. d : p[i] \in S /\ p[i] = W[0 + i]
    <3>1. \A i \in 1 .. d : i \in 1 .. n /\ 0 + i = i
      BY <2>2
    <3> QED BY <1>4, <2>1, <2>2, <3>1
  <2>4. p \in Seq(S) /\ Len(p) = d
    BY <2>3, SequenceOf
  <2>5. IsPart(p, W, 0, d, RecordType)
    BY <1>5, <2>2, <2>3, <2>4 DEF IsPart
  <2>6. off[0 + 1] \in Nat /\ off[0 + d + 1] = off[0 + 1] + Len(FlattenSeq(p))
    <3>1. IsFlat(off, W, FlattenSeq(W)) /\ 0 \in Nat
      BY <1>6, <1>7
    <3> QED BY <2>5, <3>1, SegmentFact
  <2>7. FlattenSeq(p) \in Seq(RecordType)
    BY <2>5, FlattenFact DEF IsPart
  <2>8. Len(FlattenSeq(p)) \in Nat
    <3> PICK f \in Seq(RecordType) : f = FlattenSeq(p)
      BY <2>7
    <3> QED OBVIOUS
  <2> QED BY <1>8, <2>1, <2>2, <2>6, <2>8
<1>11. ASSUME NEW b \in 1 .. n + 1, NEW row
       PROVE  Position(bs, b, row) = off[b] + Inside(bs[b], row)
  BY <1>2, <1>10 DEF Position
<1>12. ASSUME NEW b \in 1 .. n + 1 PROVE Position(bs, b, 0) = off[b]
  <2>1. Inside(bs[b], 0) = 0
    BY NoneInside
  <2>2. Position(bs, b, 0) = off[b] + 0
    BY <1>11, <2>1
  <2>3. off[b] \in Nat
    BY <1>8
  <2> QED BY <2>2, <2>3
<1>13. \A b \in 1 .. n : W[b] = Records(bs[b], 0, Len(bs[b].rows))
  BY <1>3, <1>4
<1>14. Len(R) \in Nat /\ \A b \in 1 .. n : b \in 1 .. n + 1
  BY <1>7
<1>15. InBooks(bs, off, R)
  <2>1. /\ \A b \in 1 .. n + 1 : Position(bs, b, 0) = off[b]
        /\ \A b \in 1 .. n, row \in Nat : Position(bs, b, row) = off[b] + Inside(bs[b], row)
    BY <1>11, <1>12, <1>14
  <2>2. \A b \in 1 .. n :
          LET w == Records(bs[b], 0, Len(bs[b].rows)) IN
          /\ off[b + 1] = off[b] + Len(w) /\ off[b + 1] <= Len(R)
          /\ \A j \in 1 .. Len(w) : R[off[b] + j] = w[j]
    BY <1>8, <1>9, <1>13
  <2> QED BY <1>1, <1>7, <1>8, <1>14, <2>1, <2>2 DEF InBooks
<1> QED BY <1>6, <1>15

\* The records of a chunk are those between the places of its ends.
ChunkAt(part, p, R) ==
  /\ part \in Seq(RecordType) /\ p \in Nat /\ p + Len(part) <= Len(R)
  /\ \A x \in 1 .. Len(part) : part[x] = R[p + x]

\* The records of a chunk are those at its position among all, and end where the next starts.
LEMMA PositionFact ==
  ASSUME NEW bs \in Seq(Books), NEW b \in 1 .. Len(bs), NEW row \in Nat, NEW to \in Nat,
         row <= to, to <= Len(bs[b].rows), NEW part, part = Records(bs[b], row, to)
  PROVE  /\ ChunkAt(part, Position(bs, b, row), RecordsOf(bs))
         /\ Position(bs, b, to) = Position(bs, b, row) + Len(part)
<1>1. PICK off : InBooks(bs, off, RecordsOf(bs))
  BY BooksFact
<1>2. PICK R : R = RecordsOf(bs)
  OBVIOUS
<1>3. PICK book \in Books : book = bs[b]
  OBVIOUS
<1>4. PICK whole : whole = Records(book, 0, Len(book.rows))
  OBVIOUS
<1>5. /\ Inside(book, row) \in Nat /\ Inside(book, to) = Inside(book, row) + Len(part)
      /\ Inside(book, row) + Len(part) <= Len(whole)
      /\ part \in Seq(RecordType) /\ whole \in Seq(RecordType)
      /\ \A x \in 1 .. Len(part) : part[x] = whole[Inside(book, row) + x]
  <2>1. to <= Len(book.rows) /\ part = Records(book, row, to)
    BY <1>3
  <2>2. ChunkInside(part, book, row, to, whole)
    BY <1>4, <2>1, InsideFact
  <2> QED BY <2>2 DEF ChunkInside
<1>6. /\ off[b] \in Nat /\ off[b + 1] = off[b] + Len(whole) /\ off[b + 1] <= Len(R)
      /\ Len(R) \in Nat
      /\ \A j \in 1 .. Len(whole) : R[off[b] + j] = whole[j]
      /\ Position(bs, b, row) = off[b] + Inside(book, row)
      /\ Position(bs, b, to) = off[b] + Inside(book, to)
  <2>1. b \in 1 .. Len(bs) + 1
    OBVIOUS
  <2> QED BY <1>1, <1>2, <1>3, <1>4, <2>1 DEF InBooks
<1>7. Len(part) \in Nat /\ Len(whole) \in Nat
  BY <1>5
<1>8. PICK o \in Nat, q \in Nat, l \in Nat, w \in Nat :
        o = off[b] /\ q = Inside(book, row) /\ l = Len(part) /\ w = Len(whole)
  BY <1>5, <1>6, <1>7
<1>9. Position(bs, b, row) = o + q /\ Position(bs, b, to) = (o + q) + l
  <2>1. Position(bs, b, to) = o + (q + l)
    BY <1>5, <1>6, <1>8
  <2>2. o + (q + l) = (o + q) + l
    OBVIOUS
  <2> QED BY <1>6, <1>8, <2>1, <2>2
<1>10. (o + q) + l <= Len(R) /\ o + q \in Nat
  <2>1. q + l <= w /\ o + w <= Len(R)
    BY <1>5, <1>6, <1>8
  <2> QED BY <1>6, <2>1
<1>11. ASSUME NEW x \in 1 .. l PROVE part[x] = R[(o + q) + x]
  <2>1. q + x \in 1 .. w /\ o + (q + x) = (o + q) + x
    BY <1>5, <1>8
  <2>2. part[x] = whole[q + x]
    BY <1>5, <1>8
  <2>3. whole[q + x] = R[o + (q + x)]
    BY <1>6, <1>8, <2>1
  <2> QED BY <2>1, <2>2, <2>3
<1> QED BY <1>2, <1>5, <1>8, <1>9, <1>10, <1>11 DEF ChunkAt

\* The workbooks follow one another, from the first record to the last.
LEMMA PositionEnds ==
  ASSUME NEW bs \in Seq(Books)
  PROVE  /\ Position(bs, 1, 0) = 0 /\ Position(bs, Len(bs) + 1, 0) = Len(RecordsOf(bs))
         /\ \A b \in 1 .. Len(bs) : Position(bs, b + 1, 0) = Position(bs, b, Len(bs[b].rows))
<1>1. PICK off : InBooks(bs, off, RecordsOf(bs))
  BY BooksFact
<1>2. ASSUME NEW b \in 1 .. Len(bs)
      PROVE  Position(bs, b + 1, 0) = Position(bs, b, Len(bs[b].rows))
  <2>1. bs[b] \in Books
    OBVIOUS
  <2>2. Len(bs[b].rows) \in Nat /\ b + 1 \in 1 .. Len(bs) + 1
    BY <2>1 DEF Books
  <2> QED BY <1>1, <2>2 DEF InBooks, Inside
<1>3. 1 \in 1 .. Len(bs) + 1 /\ Len(bs) + 1 \in 1 .. Len(bs) + 1
  OBVIOUS
<1> QED BY <1>1, <1>2, <1>3 DEF InBooks

(***************************************************************************)
(* What goes through the JSON states comes back as it was.                 *)
(***************************************************************************)
IsMap(f) == f = [x \in DOMAIN f |-> f[x]]

\* A counter that is written as pairs and read again is the same counter.
LEMMA RestoredWritten ==
  ASSUME NEW c, IsMap(c)
  PROVE  Restored(Written(c)) = c
<1>1. PICK pairs : pairs = Written(c)
  OBVIOUS
<1>2. /\ \A p \in pairs : p[1] \in DOMAIN c /\ p[2] = c[p[1]]
      /\ \A key \in DOMAIN c : \E p \in pairs : p[1] = key
  <2>1. ASSUME NEW p \in pairs PROVE p[1] \in DOMAIN c /\ p[2] = c[p[1]]
    <3>1. PICK key \in DOMAIN c : p = <<key, c[key]>>
      BY <1>1 DEF Written
    <3>2. p[1] = key /\ p[2] = c[key]
      BY <3>1
    <3> QED BY <3>2
  <2>2. ASSUME NEW key \in DOMAIN c PROVE \E p \in pairs : p[1] = key
    <3>1. <<key, c[key]>> \in pairs /\ <<key, c[key]>>[1] = key
      BY <1>1 DEF Written
    <3> QED BY <3>1
  <2> QED BY <2>1, <2>2
<1>2a. {p[1] : p \in pairs} = DOMAIN c
  <2>1. \A x \in {p[1] : p \in pairs} : x \in DOMAIN c
    BY <1>2
  <2>2. \A x \in DOMAIN c : x \in {p[1] : p \in pairs}
    BY <1>2
  <2> QED BY <2>1, <2>2
<1>3. ASSUME NEW key \in DOMAIN c PROVE (CHOOSE p \in pairs : p[1] = key)[2] = c[key]
  <2>1. \E p \in pairs : p[1] = key
    BY <1>2
  <2>2. PICK q \in pairs : q = (CHOOSE p \in pairs : p[1] = key) /\ q[1] = key
    BY <2>1
  <2> QED BY <1>2, <2>2
<1>4. Restored(pairs) = [key \in DOMAIN c |-> c[key]]
  BY <1>2a, <1>3 DEF Restored
<1> QED BY <1>1, <1>4 DEF IsMap

\* An accumulator whose counters are maps.
Storable(x, C) == IsMap(x) /\ \A f \in DOMAIN x : f \in C => IsMap(x[f])

\* An accumulator whose counters are written and read again is the same.
LEMMA RestoreFact ==
  ASSUME NEW x, NEW C, Storable(x, C), NEW s,
         s = [f \in DOMAIN x |-> IF f \in C THEN Written(x[f]) ELSE x[f]]
  PROVE  [f \in DOMAIN s |-> IF f \in C THEN Restored(s[f]) ELSE s[f]] = x
<1>1. DOMAIN s = DOMAIN x
  OBVIOUS
<1>2. ASSUME NEW f \in DOMAIN x PROVE (IF f \in C THEN Restored(s[f]) ELSE s[f]) = x[f]
  BY RestoredWritten DEF Storable
<1>3. [f \in DOMAIN s |-> IF f \in C THEN Restored(s[f]) ELSE s[f]] = [f \in DOMAIN x |-> x[f]]
  BY <1>1, <1>2
<1> QED BY <1>3 DEF Storable, IsMap

StorableAcc(acc) == IsMap(acc) /\ \A a \in DOMAIN acc : Storable(acc[a], Counters[a])

\* FromState undoes ToState on accumulators whose counters are functions.
LEMMA StateRestored ==
  ASSUME NEW acc, StorableAcc(acc)
  PROVE  FromState(ToState(acc)) = acc
<1>1. PICK s : s = ToState(acc)
  OBVIOUS
<1>2. DOMAIN s = DOMAIN acc
  BY <1>1 DEF ToState
<1>3. ASSUME NEW a \in DOMAIN acc
      PROVE  [f \in DOMAIN s[a] |-> IF f \in Counters[a] THEN Restored(s[a][f]) ELSE s[a][f]]
               = acc[a]
  <2>1. PICK x, C, t : x = acc[a] /\ C = Counters[a] /\ t = s[a]
    OBVIOUS
  <2>2. t = [f \in DOMAIN x |-> IF f \in C THEN Written(x[f]) ELSE x[f]]
    BY <1>1, <2>1 DEF ToState
  <2>3. Storable(x, C)
    BY <2>1 DEF StorableAcc
  <2>4. [f \in DOMAIN t |-> IF f \in C THEN Restored(t[f]) ELSE t[f]] = x
    BY <2>2, <2>3, RestoreFact
  <2> QED BY <2>1, <2>4
<1>4. FromState(s) = [a \in DOMAIN acc |-> acc[a]]
  BY <1>2, <1>3 DEF FromState
<1> QED BY <1>1, <1>4 DEF StorableAcc, IsMap

\* Counters stay maps.
LEMMA IncMap ==
  ASSUME NEW c, NEW S
  PROVE  IsMap(Inc(c, S)) /\ IsMap(EmptyBag)
BY DEF IsMap, Inc, (+), EmptyBag, SetToBag

\* The counters of the calendar accumulator are functions, at first and after any record.
LEMMA CalendarStorable ==
  ASSUME NEW c, NEW r
  PROVE  /\ Storable(ObserveCalendar(c, r), CalendarCounters)
         /\ Storable(NothingObserved.calendar, CalendarCounters)
<1>1. ASSUME NEW x, NEW a, NEW b, NEW d, NEW e, NEW g, IsMap(b), IsMap(e),
             x = [rows |-> a, reasons |-> b, span |-> d, counts |-> e, nodes |-> g]
      PROVE  Storable(x, CalendarCounters)
  <2>1. IsMap(x)
    BY <1>1 DEF IsMap
  <2>2. x["reasons"] = b /\ x["counts"] = e
    BY <1>1
  <2> QED BY <1>1, <2>1, <2>2 DEF Storable, CalendarCounters
<1>2. Storable(ObserveCalendar(c, r), CalendarCounters)
  BY <1>1, IncMap DEF ObserveCalendar
<1>3. Storable(NothingObserved.calendar, CalendarCounters)
  BY <1>1, IncMap DEF NothingObserved
<1> QED BY <1>2, <1>3

\* The counters of the dedup accumulator are functions, at first and after any record.
LEMMA DedupStorable ==
  ASSUME NEW c, NEW r
  PROVE  /\ Storable(ObserveDedup(c, r), DedupCounters)
         /\ Storable(NothingObserved.dedup, DedupCounters)
<1>1. ASSUME NEW x, NEW a, NEW b, NEW d, IsMap(b), IsMap(d),
             x = [rows |-> a, byFile |-> b, bySnapshot |-> d]
      PROVE  Storable(x, DedupCounters)
  <2>1. IsMap(x)
    BY <1>1 DEF IsMap
  <2>2. x["byFile"] = b /\ x["bySnapshot"] = d
    BY <1>1
  <2> QED BY <1>1, <2>1, <2>2 DEF Storable, DedupCounters
<1>2. Storable(ObserveDedup(c, r), DedupCounters)
  BY <1>1, IncMap DEF ObserveDedup
<1>3. Storable(NothingObserved.dedup, DedupCounters)
  BY <1>1, IncMap DEF NothingObserved
<1> QED BY <1>2, <1>3

\* The counters of the text accumulator are functions, at first and after any record.
LEMMA TextStorable ==
  ASSUME NEW c, NEW r
  PROVE  /\ Storable(ObserveText(c, r), TextCounters)
         /\ Storable(NothingObserved.text, TextCounters)
<1>1. ASSUME NEW x, NEW a, NEW b, NEW d, NEW e, NEW f, NEW g,
             IsMap(b), IsMap(d), IsMap(e), IsMap(f),
             x = [rows |-> a, quality |-> b, chars |-> d, snapshots |-> e, relations |-> f,
                  examples |-> g]
      PROVE  Storable(x, TextCounters)
  <2>1. IsMap(x)
    BY <1>1 DEF IsMap
  <2>2. x["quality"] = b /\ x["chars"] = d /\ x["snapshots"] = e /\ x["relations"] = f
    BY <1>1
  <2> QED BY <1>1, <2>1, <2>2 DEF Storable, TextCounters
<1>2. Storable(ObserveText(c, r), TextCounters)
  <2>1. \E a, b, d, e, f, g :
          ObserveText(c, r) = [rows |-> a, quality |-> Inc(c.quality, b), chars |-> Inc(c.chars, d),
                               snapshots |-> Inc(c.snapshots, e),
                               relations |-> Inc(c.relations, f), examples |-> g]
    BY Zenon DEF ObserveText
  <2> QED BY <1>1, <2>1, IncMap
<1>3. Storable(NothingObserved.text, TextCounters)
  BY <1>1, IncMap DEF NothingObserved
<1> QED BY <1>2, <1>3

\* The counters of the coverage accumulator are functions, at first and after any record.
LEMMA CoverageStorable ==
  ASSUME NEW c, NEW r
  PROVE  /\ Storable(ObserveCoverage(c, r), CoverageCounters)
         /\ Storable(NothingObserved.coverage, CoverageCounters)
<1>1. ASSUME NEW x, NEW a, NEW b, NEW d, NEW e, NEW f, NEW g, NEW h, NEW i, NEW j,
             IsMap(b), IsMap(g), IsMap(h), IsMap(i), IsMap(j),
             x = [rows |-> a, fates |-> b, struct |-> d, text |-> e, active |-> f,
                  nodeTexts |-> g, edges |-> h, available |-> i, edgeTexts |-> j]
      PROVE  Storable(x, CoverageCounters)
  <2>1. IsMap(x)
    BY <1>1 DEF IsMap
  <2>2. /\ x["fates"] = b /\ x["nodeTexts"] = g /\ x["edges"] = h /\ x["available"] = i
        /\ x["edgeTexts"] = j
    BY <1>1
  <2> QED BY <1>1, <2>1, <2>2 DEF Storable, CoverageCounters
<1>2. Storable(ObserveCoverage(c, r), CoverageCounters)
  BY <1>1, IncMap DEF ObserveCoverage
<1>3. Storable(NothingObserved.coverage, CoverageCounters)
  BY <1>1, IncMap DEF NothingObserved
<1> QED BY <1>2, <1>3

\* The accumulators of a pass can be stored after every record.
Observed(m, q, r) ==
  /\ q.acc = [calendar |-> ObserveCalendar(m.acc.calendar, r),
              dedup |-> ObserveDedup(m.acc.dedup, r),
              text |-> ObserveText(m.acc.text, r),
              coverage |-> ObserveCoverage(m.acc.coverage, r)]
  /\ q.tables = StoreOccurrences(m.tables, r)

\* What a session holds: its place, and what the pass q has seen.
Holds(m, book, row, q) == m = [book |-> book, row |-> row, acc |-> q.acc, tables |-> q.tables]

\* Observing a record changes accumulators and tables, and leaves the position alone.
LEMMA ObserveFact ==
  ASSUME NEW m, NEW book, NEW row, NEW q, Holds(m, book, row, q), NEW r
  PROVE  /\ Observed(q, Observe(m, r), r)
         /\ Holds(Observe(m, r), book, row, Observe(m, r))
<1>1. PICK acc, tables : acc = q.acc /\ tables = q.tables
  OBVIOUS
<1>2. m = [book |-> book, row |-> row, acc |-> acc, tables |-> tables]
  BY <1>1 DEF Holds
<1>3. m.acc = acc /\ m.tables = tables
  BY <1>2
<1>4. PICK new : new = [calendar |-> ObserveCalendar(acc.calendar, r),
                        dedup |-> ObserveDedup(acc.dedup, r),
                        text |-> ObserveText(acc.text, r),
                        coverage |-> ObserveCoverage(acc.coverage, r)]
  OBVIOUS
<1>5. PICK stored : stored = StoreOccurrences(tables, r)
  OBVIOUS
<1>6. Observe(m, r) = [m EXCEPT !.acc = new, !.tables = stored]
  BY <1>3, <1>4, <1>5 DEF Observe
<1>7. Observe(m, r) = [book |-> book, row |-> row, acc |-> new, tables |-> stored]
  BY <1>2, <1>6
<1> QED BY <1>1, <1>4, <1>5, <1>7 DEF Holds, Observed

\* Accumulators are storable when each of the four is.
LEMMA AccStorable ==
  ASSUME NEW acc, NEW a, NEW b, NEW c, NEW d,
         acc = [calendar |-> a, dedup |-> b, text |-> c, coverage |-> d],
         Storable(a, CalendarCounters), Storable(b, DedupCounters),
         Storable(c, TextCounters), Storable(d, CoverageCounters)
  PROVE  StorableAcc(acc)
<1>1. IsMap(acc)
  BY DEF IsMap
<1>2. /\ DOMAIN acc = {"calendar", "dedup", "text", "coverage"}
      /\ acc["calendar"] = a /\ acc["dedup"] = b /\ acc["text"] = c /\ acc["coverage"] = d
  OBVIOUS
<1>3. /\ Counters["calendar"] = CalendarCounters /\ Counters["dedup"] = DedupCounters
      /\ Counters["text"] = TextCounters /\ Counters["coverage"] = CoverageCounters
  BY DEF Counters
<1> QED BY <1>1, <1>2, <1>3 DEF StorableAcc

\* What a pass has seen is storable, and came from the step before by one record.
LEMMA PassStorable ==
  ASSUME NEW R, Len(R) \in Nat, NEW k \in 0 .. Len(R)
  PROVE  /\ Holds(PassOf(R)[k], 1, 0, PassOf(R)[k])
         /\ StorableAcc(PassOf(R)[k].acc)
         /\ k # 0 => Observed(PassOf(R)[k - 1], PassOf(R)[k], R[k])
<1>1. PICK p : p = PassOf(R)
  OBVIOUS
<1>2. PICK n \in Nat : n = Len(R)
  OBVIOUS
<1>3. p[0] = Fresh /\ \A j \in 1 .. n : p[j] = Observe(p[j - 1], R[j])
  BY <1>1, <1>2, PassFact
<1> DEFINE G == {j \in Nat : j <= n => Holds(p[j], 1, 0, p[j])}
<1>4. 0 \in G
  BY <1>3 DEF Holds, Fresh
<1>5. ASSUME NEW j \in Nat, j \in G PROVE j + 1 \in G
  <2> SUFFICES ASSUME j + 1 <= n PROVE Holds(p[j + 1], 1, 0, p[j + 1])
    OBVIOUS
  <2>1. j + 1 \in 1 .. n /\ (j + 1) - 1 = j
    OBVIOUS
  <2>2. Holds(p[j], 1, 0, p[j])
    BY <1>5
  <2>3. p[j + 1] = Observe(p[j], R[j + 1])
    BY <1>3, <2>1
  <2> QED BY <2>2, <2>3, ObserveFact
<1>6. Nat \subseteq G
  <2> HIDE DEF G
  <2> QED BY <1>4, <1>5, NaturalInduction
<1>7. Holds(p[k], 1, 0, p[k])
  BY <1>2, <1>6
<1>8. ASSUME k # 0 PROVE Observed(p[k - 1], p[k], R[k])
  <2>1. k \in 1 .. n /\ k - 1 \in Nat /\ k - 1 <= n
    BY <1>2, <1>8
  <2>2. Holds(p[k - 1], 1, 0, p[k - 1])
    BY <1>6, <2>1
  <2>3. p[k] = Observe(p[k - 1], R[k])
    BY <1>3, <2>1
  <2> QED BY <2>2, <2>3, ObserveFact
<1>9. StorableAcc(p[k].acc)
  <2>1. CASE k = 0
    <3>1. p[k].acc = NothingObserved
      BY <1>3, <2>1 DEF Fresh
    <3>2. NothingObserved = [calendar |-> NothingObserved.calendar,
                             dedup |-> NothingObserved.dedup, text |-> NothingObserved.text,
                             coverage |-> NothingObserved.coverage]
      BY DEF NothingObserved
    <3>3. /\ Storable(NothingObserved.calendar, CalendarCounters)
          /\ Storable(NothingObserved.dedup, DedupCounters)
          /\ Storable(NothingObserved.text, TextCounters)
          /\ Storable(NothingObserved.coverage, CoverageCounters)
      BY CalendarStorable, DedupStorable, TextStorable, CoverageStorable
    <3> QED BY <3>1, <3>2, <3>3, AccStorable
  <2>2. CASE k # 0
    <3> PICK m, r : m = p[k - 1] /\ r = R[k]
      OBVIOUS
    <3>1. p[k].acc = [calendar |-> ObserveCalendar(m.acc.calendar, r),
                      dedup |-> ObserveDedup(m.acc.dedup, r),
                      text |-> ObserveText(m.acc.text, r),
                      coverage |-> ObserveCoverage(m.acc.coverage, r)]
      BY <1>8, <2>2 DEF Observed
    <3>2. /\ Storable(ObserveCalendar(m.acc.calendar, r), CalendarCounters)
          /\ Storable(ObserveDedup(m.acc.dedup, r), DedupCounters)
          /\ Storable(ObserveText(m.acc.text, r), TextCounters)
          /\ Storable(ObserveCoverage(m.acc.coverage, r), CoverageCounters)
      BY CalendarStorable, DedupStorable, TextStorable, CoverageStorable
    <3> QED BY <3>1, <3>2, AccStorable
  <2> QED BY <2>1, <2>2
<1> QED BY <1>1, <1>7, <1>8, <1>9

(***************************************************************************)
(* The invariant: what is committed is a pass over the records before the  *)
(* committed place.                                                        *)
(***************************************************************************)
LEMMA ChunkFact ==
  ASSUME NEW R, Len(R) \in Nat, NEW part, NEW p, ChunkAt(part, p, R),
         NEW m, NEW book, NEW row, Holds(m, book, row, PassOf(R)[p])
  PROVE  /\ p + Len(part) \in 0 .. Len(R)
         /\ Holds(Observing(m, part), book, row, PassOf(R)[p + Len(part)])
<1>1. part \in Seq(RecordType) /\ p \in Nat
  BY DEF ChunkAt
<1>2. PICK n \in Nat : n = Len(part) /\ DOMAIN part = 1 .. n
  BY <1>1
<1>3. PICK l \in Nat : l = Len(R) /\ p + n <= l
  BY <1>2 DEF ChunkAt
<1>4. PICK r : /\ r[0] = m /\ Observing(m, part) = r[n]
               /\ \A k \in 1 .. n : r[k] = Observe(r[k - 1], part[k])
  <2>1. Len(part) \in Nat /\ DOMAIN part = 1 .. Len(part)
    BY <1>1
  <2>2. PICK f : f = Observing(m, part)
    OBVIOUS
  <2>3. \E r : /\ r[0] = m /\ f = r[Len(part)]
               /\ \A k \in 1 .. Len(part) : r[k] = Observe(r[k - 1], part[k])
    BY <2>1, <2>2, ObserveRun
  <2> QED BY <1>2, <2>2, <2>3
<1>5. PICK q : q = PassOf(R)
  OBVIOUS
<1>6. \A k \in 1 .. l : Observed(q[k - 1], q[k], R[k])
  BY <1>3, <1>5, PassStorable
<1>7. \A k \in 1 .. n : part[k] = R[p + k]
  BY <1>2 DEF ChunkAt
<1> DEFINE G == {k \in Nat : k <= n => Holds(r[k], book, row, q[p + k])}
<1>8. 0 \in G
  <2>1. p + 0 = p
    BY <1>1
  <2> QED BY <1>4, <1>5, <2>1
<1>9. ASSUME NEW k \in Nat, k \in G PROVE k + 1 \in G
  <2> SUFFICES ASSUME k + 1 <= n PROVE Holds(r[k + 1], book, row, q[p + (k + 1)])
    OBVIOUS
  <2>1. /\ k + 1 \in 1 .. n /\ (k + 1) - 1 = k
        /\ p + (k + 1) \in 1 .. l /\ (p + (k + 1)) - 1 = p + k
    BY <1>1, <1>3
  <2>2. Holds(r[k], book, row, q[p + k])
    BY <1>9
  <2>3. r[k + 1] = Observe(r[k], R[p + (k + 1)])
    BY <1>4, <1>7, <2>1
  <2>4. /\ Observed(q[p + k], r[k + 1], R[p + (k + 1)])
        /\ Holds(r[k + 1], book, row, r[k + 1])
    BY <2>2, <2>3, ObserveFact
  <2>5. Observed(q[p + k], q[p + (k + 1)], R[p + (k + 1)])
    BY <1>6, <2>1
  <2>6. r[k + 1].acc = q[p + (k + 1)].acc /\ r[k + 1].tables = q[p + (k + 1)].tables
    BY <2>4, <2>5 DEF Observed
  <2> QED BY <2>4, <2>6 DEF Holds
<1>10. n \in G
  <2> HIDE DEF G
  <2> QED BY <1>8, <1>9, NaturalInduction
<1> QED BY <1>1, <1>2, <1>3, <1>4, <1>5, <1>10

\* A chunk ends between its first row and the last row of the workbook.
LEMMA ChunkEndFact ==
  ASSUME NEW n \in Nat, NEW row \in 0 .. n, NEW S \in SUBSET (row + 1 .. n)
  PROVE  Min(S \cup {n}) \in row .. n
<1>1. S \cup {n} \in SUBSET Nat /\ S \cup {n} # {} /\ \A i \in S \cup {n} : i \in row .. n
  OBVIOUS
<1>2. PICK T : T = S \cup {n}
  OBVIOUS
<1>3. PICK i \in T : \A j \in T : i <= j
  BY <1>1, <1>2, LeastNatural
<1>4. Min(T) \in T
  BY <1>3 DEF Min
<1> QED BY <1>1, <1>2, <1>4

\* A place in the workbooks, and the pass over the records before it.
AtRow(bs, b, row) ==
  /\ b \in 1 .. Len(bs) + 1 /\ row \in Nat
  /\ IF b = Len(bs) + 1 THEN row = 0 ELSE row <= Len(bs[b].rows)
Seen(bs, b, row) == PassOf(RecordsOf(bs))[Position(bs, b, row)]

\* A row in a workbook is a position of the pass, and what was seen there is storable.
LEMMA SeenFact ==
  ASSUME NEW bs \in Seq(Books), NEW b, NEW row, AtRow(bs, b, row)
  PROVE  /\ Len(RecordsOf(bs)) \in Nat
         /\ Position(bs, b, row) \in 0 .. Len(RecordsOf(bs))
         /\ StorableAcc(Seen(bs, b, row).acc)
<1>1. PICK n \in Nat : n = Len(bs)
  OBVIOUS
<1>2. PICK R : R = RecordsOf(bs)
  OBVIOUS
<1>3. Len(R) \in Nat
  BY <1>2, BooksFact DEF InBooks
<1>4. Position(bs, b, row) \in 0 .. Len(R)
  <2>1. CASE b = n + 1
    <3>1. row = 0
      BY <1>1, <2>1 DEF AtRow
    <3> QED BY <1>1, <1>2, <1>3, <2>1, <3>1, PositionEnds
  <2>2. CASE b # n + 1
    <3>1. b \in 1 .. Len(bs) /\ row \in Nat /\ row <= Len(bs[b].rows) /\ row <= row
      BY <1>1, <2>2 DEF AtRow
    <3>2. ChunkAt(Records(bs[b], row, row), Position(bs, b, row), R)
      BY <1>2, <3>1, PositionFact
    <3>3. PICK part : part \in Seq(RecordType) /\ Position(bs, b, row) + Len(part) <= Len(R)
                      /\ Position(bs, b, row) \in Nat
      BY <3>2 DEF ChunkAt
    <3> QED BY <1>3, <3>3
  <2> QED BY <2>1, <2>2
<1> QED BY <1>2, <1>3, <1>4, PassStorable DEF Seen

\* The inductive invariant: the database holds the counters of one pass over
\* the records before its position, so does a session, and the reports of a
\* sealed run are those of one pass over all records.
CountsInv ==
  /\ books \in Inputs
  /\ \E b, row :
       /\ AtRow(books, b, row)
       /\ db = [book |-> b, row |-> row, acc |-> ToState(Seen(books, b, row).acc),
                tables |-> Seen(books, b, row).tables]
       /\ pc # "down" => Holds(mem, b, row, Seen(books, b, row))
       /\ pc = "sealed" => b = Len(books) + 1
  /\ pc = "sealed" => reports = ReportsOf(PassOf(AllRecords)[Len(AllRecords)])

\* The inputs are sequences of workbooks, and AllRecords is their records.
LEMMA BooksType ==
  ASSUME books \in Inputs
  PROVE  books \in Seq(Books) /\ AllRecords = RecordsOf(books)
BY InputsAssumption DEF AllRecords, RecordsOf, BooksOf

\* The invariant holds initially: nothing is seen before the first row.
LEMMA CountsInit == Init => CountsInv
<1> SUFFICES ASSUME Init PROVE CountsInv
  OBVIOUS
<1>1. books \in Inputs /\ books \in Seq(Books)
  BY BooksType DEF Init
<1>2. AtRow(books, 1, 0)
  <2>1. 1 \in 1 .. Len(books) + 1 /\ 0 \in Nat
    BY <1>1
  <2>2. 1 # Len(books) + 1 => 0 <= Len(books[1].rows)
    <3> SUFFICES ASSUME 1 # Len(books) + 1 PROVE 0 <= Len(books[1].rows)
      OBVIOUS
    <3>1. books[1] \in Books
      BY <1>1
    <3> QED BY <3>1 DEF Books
  <2> QED BY <2>1, <2>2 DEF AtRow
<1>3. Seen(books, 1, 0) = Fresh
  <2>1. Position(books, 1, 0) = 0 /\ Len(RecordsOf(books)) \in Nat
    BY <1>1, <1>2, PositionEnds, SeenFact
  <2> QED BY <2>1, PassFact DEF Seen
<1>4. db = [book |-> 1, row |-> 0, acc |-> ToState(NothingObserved), tables |-> EmptyTables]
  <2> PICK f, t : f = NothingObserved /\ t = EmptyTables
    OBVIOUS
  <2>1. Fresh = [book |-> 1, row |-> 0, acc |-> f, tables |-> t]
    BY DEF Fresh
  <2>2. db = [Fresh EXCEPT !.acc = ToState(@)]
    BY DEF Init
  <2>3. db = [Fresh EXCEPT !.acc = ToState(f)]
    BY <2>1, <2>2
  <2> QED BY <2>1, <2>3
<1>5. Fresh.acc = NothingObserved /\ Fresh.tables = EmptyTables
  BY DEF Fresh
<1>6. pc = "down"
  BY DEF Init
<1> QED BY <1>1, <1>2, <1>3, <1>4, <1>5, <1>6 DEF CountsInv

\* What a commit writes is what the session holds.
LEMMA StoredFact ==
  ASSUME NEW m, NEW b, NEW row, NEW q, Holds(m, b, row, q)
  PROVE  [m EXCEPT !.acc = ToState(@)]
           = [book |-> b, row |-> row, acc |-> ToState(q.acc), tables |-> q.tables]
<1>1. PICK x, y : x = q.acc /\ y = q.tables
  OBVIOUS
<1>2. m = [book |-> b, row |-> row, acc |-> x, tables |-> y]
  BY <1>1 DEF Holds
<1>3. [m EXCEPT !.acc = ToState(@)] = [m EXCEPT !.acc = ToState(x)]
  BY <1>2
<1>4. [m EXCEPT !.acc = ToState(x)]
        = [book |-> b, row |-> row, acc |-> ToState(x), tables |-> y]
  BY <1>2
<1> QED BY <1>1, <1>3, <1>4

\* A session that reloads what was committed holds what the pass had seen there.
LEMMA OpenedFact ==
  ASSUME NEW d, NEW b, NEW row, NEW q, StorableAcc(q.acc),
         d = [book |-> b, row |-> row, acc |-> ToState(q.acc), tables |-> q.tables]
  PROVE  Holds([d EXCEPT !.acc = FromState(@)], b, row, q)
<1>1. PICK x, y, s : x = q.acc /\ y = q.tables /\ s = ToState(q.acc)
  OBVIOUS
<1>2. d = [book |-> b, row |-> row, acc |-> s, tables |-> y]
  BY <1>1
<1>3. [d EXCEPT !.acc = FromState(@)] = [d EXCEPT !.acc = FromState(s)]
  BY <1>2
<1>4. FromState(s) = x
  BY <1>1, StateRestored
<1>5. [d EXCEPT !.acc = FromState(s)] = [book |-> b, row |-> row, acc |-> x, tables |-> y]
  BY <1>2, <1>4
<1> QED BY <1>1, <1>3, <1>5 DEF Holds

\* The reports say only what was seen, not where the session is.
LEMMA ReportsFact ==
  ASSUME NEW m, NEW b, NEW row, NEW q, Holds(m, b, row, q)
  PROVE  ReportsOf(m) = ReportsOf(q)
<1>1. m.acc = q.acc /\ m.tables = q.tables
  BY DEF Holds
<1> QED BY <1>1 DEF ReportsOf

\* A chunk takes a session from its place to a later one.
LEMMA ConsumedFact ==
  ASSUME books \in Seq(Books), NEW b, NEW row, AtRow(books, b, row),
         Holds(mem, b, row, Seen(books, b, row)), mem.book <= Len(books)
  PROVE  \E c, to : /\ AtRow(books, c, to)
                    /\ Holds(Consumed, c, to, Seen(books, c, to))
<1>1. mem.book = b /\ mem.row = row
  BY DEF Holds
<1>2. PICK k \in Nat : k = Len(books)
  OBVIOUS
<1>3. b \in 1 .. k /\ row \in Nat /\ row <= Len(books[b].rows)
  BY <1>1, <1>2 DEF AtRow
<1>4. PICK book \in Books : book = books[b]
  BY <1>2, <1>3
<1>5. PICK n \in Nat : n = Len(book.rows)
  BY DEF Books
<1>6. PICK to \in row .. n : to = ChunkEnd
  <2>1. PICK S : S = {i \in row + 1 .. n : Len(Records(book, row, i)) >= ChunkSize}
    OBVIOUS
  <2>2. ChunkEnd = Min(S \cup {n})
    BY <1>1, <1>4, <1>5, <2>1 DEF ChunkEnd
  <2>3. S \in SUBSET (row + 1 .. n) /\ row \in 0 .. n
    BY <1>3, <1>4, <1>5, <2>1
  <2> QED BY <2>2, <2>3, ChunkEndFact
<1>7. PICK part : part = Records(book, row, to)
  OBVIOUS
<1>8. PICK R : R = RecordsOf(books)
  OBVIOUS
<1>9. Len(R) \in Nat
  BY <1>8, SeenFact
<1>10. /\ ChunkAt(part, Position(books, b, row), R)
       /\ Position(books, b, to) = Position(books, b, row) + Len(part)
  <2>1. /\ b \in 1 .. Len(books) /\ to \in Nat /\ row <= to /\ to <= Len(books[b].rows)
        /\ part = Records(books[b], row, to)
    BY <1>2, <1>3, <1>4, <1>5, <1>7
  <2> QED BY <1>3, <1>8, <2>1, PositionFact
<1>11. PICK m : m = Observing(mem, part)
  OBVIOUS
<1>12. Holds(m, b, row, Seen(books, b, to))
  BY <1>8, <1>9, <1>10, <1>11, ChunkFact DEF Seen
<1>13. PICK q : q = Seen(books, b, to)
  OBVIOUS
<1>14. Consumed = IF to = n THEN [m EXCEPT !.book = @ + 1, !.row = 0] ELSE [m EXCEPT !.row = to]
  BY <1>1, <1>4, <1>5, <1>6, <1>7, <1>11 DEF Consumed, Observing
<1>15. PICK x, y : x = q.acc /\ y = q.tables
  OBVIOUS
<1>16. m = [book |-> b, row |-> row, acc |-> x, tables |-> y]
  BY <1>12, <1>13, <1>15 DEF Holds
<1>17. CASE to = n
  <2>1. Consumed = [book |-> b + 1, row |-> 0, acc |-> x, tables |-> y]
    <3>1. Consumed = [[m EXCEPT !.book = b + 1] EXCEPT !.row = 0]
      BY <1>14, <1>16, <1>17
    <3> QED BY <1>16, <3>1
  <2>2. Seen(books, b + 1, 0) = q
    BY <1>2, <1>3, <1>4, <1>5, <1>13, <1>17, PositionEnds DEF Seen
  <2>3. AtRow(books, b + 1, 0)
    <3>1. b + 1 \in 1 .. Len(books) + 1 /\ 0 \in Nat
      BY <1>2, <1>3
    <3>2. ASSUME b + 1 # Len(books) + 1 PROVE 0 <= Len(books[b + 1].rows)
      <4>1. books[b + 1] \in Books
        BY <1>2, <1>3, <3>2
      <4> QED BY <4>1 DEF Books
    <3> QED BY <3>1, <3>2 DEF AtRow
  <2> QED BY <1>15, <2>1, <2>2, <2>3 DEF Holds
<1>18. CASE to # n
  <2>1. Consumed = [book |-> b, row |-> to, acc |-> x, tables |-> y]
    BY <1>14, <1>16, <1>18
  <2>2. AtRow(books, b, to)
    BY <1>2, <1>3, <1>4, <1>5 DEF AtRow
  <2> QED BY <1>13, <1>15, <2>1, <2>2 DEF Holds
<1> QED BY <1>17, <1>18

\* Every step keeps the invariant: a chunk continues the pass, a reload restores it, a kill
\* falls back on what was committed.
LEMMA CountsStep == CountsInv /\ [Next]_vars => CountsInv'
<1> SUFFICES ASSUME CountsInv, [Next]_vars PROVE CountsInv'
  OBVIOUS
<1>1. books \in Inputs /\ books \in Seq(Books) /\ AllRecords = RecordsOf(books)
  BY BooksType DEF CountsInv
<1>2. PICK b, row :
        /\ AtRow(books, b, row)
        /\ db = [book |-> b, row |-> row, acc |-> ToState(Seen(books, b, row).acc),
                 tables |-> Seen(books, b, row).tables]
        /\ pc # "down" => Holds(mem, b, row, Seen(books, b, row))
        /\ pc = "sealed" => b = Len(books) + 1
  BY DEF CountsInv
<1>3. CASE Open
  <2>1. Holds(mem', b, row, Seen(books, b, row))
    <3>1. StorableAcc(Seen(books, b, row).acc)
      BY <1>1, <1>2, SeenFact
    <3> QED BY <1>2, <1>3, <3>1, OpenedFact DEF Open
  <2>2. UNCHANGED <<books, db>> /\ pc' = "run"
    BY <1>3 DEF Open
  <2>3. AtRow(books, b, row)' /\ (books \in Inputs)'
    BY <1>1, <1>2, <2>2 DEF AtRow
  <2> QED BY <1>2, <2>1, <2>2, <2>3 DEF CountsInv, AtRow, Seen
<1>4. CASE CommitChunk
  <2>1. PICK c, to : AtRow(books, c, to) /\ Holds(Consumed, c, to, Seen(books, c, to))
    BY <1>1, <1>2, <1>4, ConsumedFact DEF CommitChunk
  <2>2. mem' = Consumed /\ db' = [mem' EXCEPT !.acc = ToState(@)] /\ UNCHANGED <<books, pc, reports>>
        /\ pc = "run"
    BY <1>4 DEF CommitChunk
  <2>3. Holds(mem', c, to, Seen(books, c, to))
    BY <2>1, <2>2
  <2>4. db' = [book |-> c, row |-> to, acc |-> ToState(Seen(books, c, to).acc),
               tables |-> Seen(books, c, to).tables]
    BY <2>2, <2>3, StoredFact
  <2> QED BY <1>1, <2>1, <2>2, <2>3, <2>4 DEF CountsInv, AtRow, Seen
<1>5. CASE Lost
  <2>1. UNCHANGED <<books, db>> /\ pc' = "down"
    BY <1>5 DEF Lost
  <2> QED BY <1>1, <1>2, <2>1 DEF CountsInv, AtRow, Seen
<1>6. CASE Seal
  <2>1. UNCHANGED <<books, db, mem>> /\ pc = "run" /\ pc' = "sealed" /\ reports' = ReportsOf(mem)
        /\ mem.book > Len(books)
    BY <1>6 DEF Seal
  <2>2. Holds(mem, b, row, Seen(books, b, row))
    BY <1>2, <2>1
  <2>3. b = Len(books) + 1 /\ row = 0
    <3>1. mem.book = b
      BY <2>2 DEF Holds
    <3>2. PICK k \in Nat : k = Len(books)
      BY <1>1
    <3> QED BY <1>2, <2>1, <3>1, <3>2 DEF AtRow
  <2>4. Seen(books, b, row) = PassOf(AllRecords)[Len(AllRecords)]
    BY <1>1, <2>3, PositionEnds DEF Seen
  <2>5. reports' = ReportsOf(PassOf(AllRecords)[Len(AllRecords)])
    BY <2>1, <2>2, <2>4, ReportsFact
  <2>6. AllRecords' = AllRecords
    BY <2>1 DEF AllRecords
  <2> QED BY <1>1, <1>2, <2>1, <2>2, <2>3, <2>5, <2>6 DEF CountsInv, AtRow, Seen
<1>7. CASE UNCHANGED vars
  <2>1. UNCHANGED <<books, db, mem, pc, reports>>
    BY <1>7 DEF vars
  <2>2. AllRecords' = AllRecords
    BY <2>1 DEF AllRecords
  <2> QED BY <1>1, <1>2, <2>1, <2>2 DEF CountsInv, AtRow, Seen
<1> QED BY <1>3, <1>4, <1>5, <1>6, <1>7 DEF Next

\* What is committed and what a session holds is always what one pass has seen so far.
LEMMA CountsInductive == Spec => []CountsInv
BY CountsInit, CountsStep, PTL DEF Spec

\* What the pass says when it is over is what observing all records says.
LEMMA WholePass ==
  ASSUME books \in Seq(Books), AllRecords = RecordsOf(books)
  PROVE  /\ Len(AllRecords) \in Nat
         /\ Holds(Observing(Fresh, AllRecords), 1, 0, PassOf(AllRecords)[Len(AllRecords)])
<1>1. PICK R : R = AllRecords
  OBVIOUS
<1>2. R \in Seq(RecordType) /\ Len(R) \in Nat
  BY <1>1, BooksFact DEF InBooks
<1>3. ChunkAt(R, 0, R)
  BY <1>2 DEF ChunkAt
<1>4. Holds(Fresh, 1, 0, PassOf(R)[0])
  BY <1>2, PassFact DEF Holds, Fresh
<1>5. 0 + Len(R) = Len(R)
  BY <1>2
<1> QED BY <1>1, <1>2, <1>3, <1>4, <1>5, ChunkFact

\* Whatever chunks and sessions a run is cut into, the reports are those of
\* one pass over all records (_consume_chunk, to_state, from_state).
THEOREM CutsInvisibleHolds == Spec => []CutsInvisible
<1>1. CountsInv => CutsInvisible
  <2> SUFFICES ASSUME CountsInv, pc = "sealed"
               PROVE  reports = ReportsOf(Observing(Fresh, AllRecords))
    BY DEF CutsInvisible, Observing
  <2>1. books \in Seq(Books) /\ AllRecords = RecordsOf(books)
    BY BooksType DEF CountsInv
  <2>2. reports = ReportsOf(PassOf(AllRecords)[Len(AllRecords)])
    BY DEF CountsInv
  <2> QED BY <2>1, <2>2, WholePass, ReportsFact
<1> QED BY <1>1, CountsInductive, PTL

(***************************************************************************)
(* What every accumulator keeps of rows, and what unions keep.             *)
(***************************************************************************)
\* Rows are tallied one after the other, the accepted ones are those of good.
TalliesRows(t, R, good, n) ==
  /\ t[0] = NoRows /\ good \in SUBSET (1 .. n)
  /\ \A k \in 1 .. n : t[k] = IF k \in good THEN Tally(t[k - 1], R[k], TRUE)
                                            ELSE Tally(t[k - 1], R[k], FALSE)

RowsAre(rows, R, good, n) ==
  /\ rows.inspected = n /\ rows.accepted = Cardinality(good)
  /\ rows.accepted + rows.rejected = rows.inspected
  /\ rows.files = {R[i].file : i \in 1 .. n}

\* The rows of an accumulator count the records seen, accepted and rejected, and their files.
LEMMA TallyFact ==
  ASSUME NEW n \in Nat, NEW R, NEW good, NEW t, TalliesRows(t, R, good, n)
  PROVE  RowsAre(t[n], R, good, n)
<1>1. PICK K : K = [i \in 1 .. n |-> IF i \in good THEN {0} ELSE {}]
  OBVIOUS
<1> DEFINE H(k) == Cardinality(Having(K, 0, k))
           Inv(k) == /\ t[k].inspected = k /\ t[k].accepted = H(k)
                     /\ t[k].rejected = k - H(k)
                     /\ t[k].files = {R[i].file : i \in 1 .. k}
           G == {k \in Nat : k <= n => Inv(k)}
<1>2. 0 \in G
  <2>1. Having(K, 0, 0) = {} /\ {R[i].file : i \in 1 .. 0} = {}
    BY DEF Having
  <2>2. H(0) = 0
    BY <2>1, FS_EmptySet
  <2>3. t[0] = NoRows
    BY DEF TalliesRows
  <2>4. NoRows.inspected = 0 /\ NoRows.accepted = 0 /\ NoRows.rejected = 0 /\ NoRows.files = {}
    BY DEF NoRows
  <2> QED BY <2>1, <2>2, <2>3, <2>4
<1>3. ASSUME NEW k \in Nat, k \in G PROVE k + 1 \in G
  <2> SUFFICES ASSUME k + 1 <= n PROVE Inv(k + 1)
    OBVIOUS
  <2>1. k + 1 \in 1 .. n /\ (k + 1) - 1 = k
    OBVIOUS
  <2>2. t[k + 1] = IF k + 1 \in good THEN Tally(t[k], R[k + 1], TRUE)
                                     ELSE Tally(t[k], R[k + 1], FALSE)
    BY <2>1 DEF TalliesRows
  <2>3. Inv(k)
    BY <1>3
  <2>4. H(k + 1) = H(k) + (IF k + 1 \in good THEN 1 ELSE 0) /\ H(k) \in Nat
    <3>1. 0 \in K[k + 1] <=> k + 1 \in good
      BY <1>1, <2>1
    <3> QED BY <3>1, HavingFact
  <2>5. {R[i].file : i \in 1 .. (k + 1)} = {R[i].file : i \in 1 .. k} \cup {R[k + 1].file}
    <3>1. 1 .. (k + 1) = (1 .. k) \cup {k + 1}
      OBVIOUS
    <3> QED BY <3>1
  <2> HIDE DEF H
  <2> QED BY <2>2, <2>3, <2>4, <2>5 DEF Tally
<1>4. n \in G
  <2> HIDE DEF G
  <2> QED BY <1>2, <1>3, NaturalInduction
<1>5. Having(K, 0, n) = good
  <2>1. \A i \in 1 .. n : 0 \in K[i] <=> i \in good
    BY <1>1
  <2> QED BY <2>1 DEF Having, TalliesRows
<1>6. H(n) \in Nat
  BY HavingFact
<1> QED BY <1>4, <1>5, <1>6 DEF RowsAre

\* A set that the keys of n records are added to.
Gathers(u, K, n) == u[0] = {} /\ \A k \in 1 .. n : u[k] = u[k - 1] \cup K[k]

\* A set that grows by the keys of every record is their union.
LEMMA GatherFact ==
  ASSUME NEW n \in Nat, NEW K, NEW u, Gathers(u, K, n)
  PROVE  u[n] = UNION {K[i] : i \in 1 .. n}
<1> DEFINE G == {k \in Nat : k <= n => u[k] = UNION {K[i] : i \in 1 .. k}}
<1>1. 0 \in G
  <2>1. UNION {K[i] : i \in 1 .. 0} = {}
    OBVIOUS
  <2> QED BY <2>1 DEF Gathers
<1>2. ASSUME NEW k \in Nat, k \in G PROVE k + 1 \in G
  <2> SUFFICES ASSUME k + 1 <= n PROVE u[k + 1] = UNION {K[i] : i \in 1 .. (k + 1)}
    OBVIOUS
  <2>1. k + 1 \in 1 .. n /\ (k + 1) - 1 = k
    OBVIOUS
  <2>2. u[k + 1] = u[k] \cup K[k + 1] /\ u[k] = UNION {K[i] : i \in 1 .. k}
    BY <1>2, <2>1 DEF Gathers
  <2>3. 1 .. (k + 1) = (1 .. k) \cup {k + 1}
    OBVIOUS
  <2> QED BY <2>2, <2>3
<1> HIDE DEF G
<1>3. n \in G
  BY <1>1, <1>2, NaturalInduction
<1> QED BY <1>3 DEF G

\* Pairing the elements of a set with something fixed does not change their number.
LEMMA PairedFact ==
  ASSUME NEW B, IsFiniteSet(B), NEW f, DOMAIN f = B, \A x, y \in B : f[x] = f[y] => x = y
  PROVE  Cardinality({f[x] : x \in B}) = Cardinality(B) /\ IsFiniteSet({f[x] : x \in B})
<1>1. PICK A : A = {f[x] : x \in B}
  OBVIOUS
<1>2. PICK g : g = [x \in B |-> f[x]]
  OBVIOUS
<1>3. g \in Bijection(B, A)
  <2>1. g \in Injection(B, A) /\ g \in Surjection(B, A)
    BY <1>1, <1>2 DEF Injection, Surjection, IsInjective
  <2> QED BY <2>1 DEF Bijection
<1>4. ExistsBijection(B, A)
  BY <1>3 DEF ExistsBijection
<1> QED BY <1>1, <1>4, FS_Bijection

(***************************************************************************)
(* The calendar report.                                                    *)
(***************************************************************************)
LEMMA QuartersFact == \E n \in Int : Quarters = 0 .. n /\ n = Len(Starts) - 2
<1>1. Starts \in Seq(Int)
  BY CountsAssumption
<1>2. PICK l \in Nat : l = Len(Starts)
  BY <1>1
<1> QED BY <1>2 DEF Quarters

\* Every instant is in a quarter of the calendar or in none.
LEMMA SnapshotType ==
  ASSUME NEW at
  PROVE  /\ AssignSnapshot(at) \in Quarters \cup {NoQuarter}
         /\ NoQuarter \notin Quarters /\ Quarters \subseteq Nat
<1>1. PICK n \in Int : Quarters = 0 .. n
  BY QuartersFact
<1>2. AssignSnapshot(at) \in Quarters \cup {NoQuarter}
  BY DEF AssignSnapshot
<1> QED BY <1>1, <1>2 DEF NoQuarter

\* A time is classified once; what is in range has a quarter, nothing else has.
LEMMA ClassifyFact ==
  ASSUME NEW time \in Times
  PROVE  /\ Classify(time).at \in Int
         /\ Classify(time).sid \in Quarters \cup {NoQuarter}
         /\ Classify(time).reason = "IN_RANGE" <=> Classify(time).sid # NoQuarter
<1>1. time.at \in Int /\ time.kind \in {"missing", "text", "nan", "date", "number"}
  BY DEF Times
<1>2. ASSUME NEW reason, reason # "IN_RANGE"
      PROVE  /\ Rejected(reason).at \in Int /\ Rejected(reason).sid = NoQuarter
             /\ Rejected(reason).reason # "IN_RANGE"
  BY <1>2 DEF Rejected
<1>3. ASSUME NEW at \in Int
      PROVE  /\ InCalendar(at).at \in Int
             /\ InCalendar(at).sid \in Quarters \cup {NoQuarter}
             /\ InCalendar(at).reason = "IN_RANGE" <=> InCalendar(at).sid # NoQuarter
  BY <1>3, SnapshotType DEF InCalendar
<1>4. CASE time.kind = "missing"
  <2>1. Classify(time) = Rejected("MISSING")
    BY <1>4 DEF Classify
  <2> QED BY <1>2, <2>1
<1>5. CASE time.kind = "text"
  <2>1. Classify(time) = Rejected("UNPARSABLE")
    BY <1>5 DEF Classify
  <2> QED BY <1>2, <2>1
<1>6. CASE time.kind = "nan"
  <2>1. Classify(time) = Rejected("CORRUPT")
    BY <1>6 DEF Classify
  <2> QED BY <1>2, <2>1
<1>7. CASE time.kind = "date"
  <2>1. Classify(time) = InCalendar(time.at)
    BY <1>7 DEF Classify
  <2> QED BY <1>1, <1>3, <2>1
<1>8. CASE time.kind = "number"
  <2>1. PICK at : at = IF time.at > Millis THEN time.at \div 1000 ELSE time.at
    OBVIOUS
  <2>2. at \in Int
    BY <1>1, <2>1
  <2>3. Classify(time) = IF at < MinEpoch \/ at > MaxEpoch THEN Rejected("OUTLIER")
                                                         ELSE InCalendar(at)
    BY <1>8, <2>1 DEF Classify
  <2> QED BY <1>2, <1>3, <2>2, <2>3
<1> QED BY <1>1, <1>4, <1>5, <1>6, <1>7, <1>8

\* Keeping the extremes of what is known keeps the extremes of all instants.
AtEnds(span, I) ==
  \/ I = {} /\ span = {}
  \/ \E lo, hi \in I : span = {lo, hi} /\ \A u \in I : lo <= u /\ u <= hi

\* Minimum and maximum of a set of integers are the elements that bound it.
LEMMA MinMaxOfThree ==
  ASSUME NEW S \in SUBSET Int, NEW a \in S, NEW b \in S, \A x \in S : a <= x /\ x <= b
  PROVE  Min(S) = a /\ Max(S) = b
<1>1. Min(S) \in S /\ \A x \in S : Min(S) <= x
  BY DEF Min
<1>2. Max(S) \in S /\ \A x \in S : Max(S) >= x
  BY DEF Max
<1>3. PICK l \in S, h \in S : l = Min(S) /\ h = Max(S)
  BY <1>1, <1>2
<1> QED BY <1>1, <1>2, <1>3

\* The two ends of a set and one more instant give the ends of the larger set.
LEMMA EndsStep ==
  ASSUME NEW I \in SUBSET Int, NEW span, AtEnds(span, I), NEW t \in Int
  PROVE  AtEnds(Extremes(span \cup {t}), I \cup {t})
<1>1. PICK J : J = I \cup {t}
  OBVIOUS
<1>2. ASSUME NEW S \in SUBSET J, NEW a \in S, NEW b \in S, \A x \in J : a <= x /\ x <= b
      PROVE  AtEnds(Extremes(S), J)
  <2>1. Min(S) = a /\ Max(S) = b
    BY <1>1, <1>2, MinMaxOfThree
  <2>2. Extremes(S) = {a, b}
    BY <2>1 DEF Extremes, When
  <2> QED BY <1>2, <2>2 DEF AtEnds
<1>3. CASE I = {}
  <2>1. span = {}
    BY <1>3 DEF AtEnds
  <2>2. {t} \in SUBSET J /\ t \in {t} /\ \A x \in J : t <= x /\ x <= t
    BY <1>1, <1>3
  <2>3. AtEnds(Extremes({t}), J)
    BY <1>2, <2>2
  <2>4. span \cup {t} = {t}
    BY <2>1
  <2> QED BY <1>1, <2>3, <2>4
<1>4. CASE I # {}
  <2>1. PICK lo, hi \in I : span = {lo, hi} /\ \A u \in I : lo <= u /\ u <= hi
    BY <1>4 DEF AtEnds
  <2>2. PICK S : S = span \cup {t} /\ S \in SUBSET J
    <3>1. span \cup {t} \in SUBSET J
      BY <1>1, <2>1
    <3> QED BY <3>1
  <2>3. lo \in S /\ hi \in S /\ t \in S /\ lo \in Int /\ hi \in Int
    BY <2>1, <2>2
  <2>4. \E a, b \in S : \A x \in J : a <= x /\ x <= b
    <3>1. CASE t < lo
      <4>1. \A x \in J : t <= x /\ x <= hi
        BY <1>1, <2>1, <2>3, <3>1
      <4> QED BY <2>3, <4>1
    <3>2. CASE lo <= t /\ t <= hi
      <4>1. \A x \in J : lo <= x /\ x <= hi
        BY <1>1, <2>1, <2>3, <3>2
      <4> QED BY <2>3, <4>1
    <3>3. CASE hi < t
      <4>1. \A x \in J : lo <= x /\ x <= t
        BY <1>1, <2>1, <2>3, <3>3
      <4> QED BY <2>3, <4>1
    <3> QED BY <2>3, <3>1, <3>2, <3>3
  <2> QED BY <1>1, <1>2, <2>2, <2>4
<1> QED BY <1>3, <1>4

\* The empty quarters, and the range between the busy ones.
EmptyAre(e, busy) ==
  /\ \A s \in Quarters :
       /\ s \in e.internal <=>
            s \notin busy /\ (\E k \in busy : k < s) /\ (\E k \in busy : k > s)
       /\ s \in e.leading <=> ~ \E k \in busy : k <= s
  /\ e.trailing = Quarters \ (busy \cup e.internal \cup e.leading)

\* The empty quarters are those before, after and between the busy ones.
LEMMA EmptyFact ==
  ASSUME NEW c, NEW busy \in SUBSET Quarters,
         \A s \in Quarters :
           s \in busy <=> CountOf(<<"A", s>>, c.counts) + CountOf(<<"B", s>>, c.counts) # 0
  PROVE  /\ EmptyAre(EmptyQuarters(c), busy)
         /\ EmptyQuarters(c).leading \subseteq Quarters
<1>1. PICK n \in Int : Quarters = 0 .. n
  BY QuartersFact
<1>2. PICK l : l = {s \in Quarters : \A k \in 0 .. s : k \notin busy}
  OBVIOUS
<1>3. PICK t : t = {s \in Quarters \ l : \A k \in Quarters : k >= s => k \notin busy}
  OBVIOUS
<1>4. PICK i : i = {s \in Quarters \ (l \cup t) : s \notin busy}
  OBVIOUS
<1>5. EmptyQuarters(c) = [leading |-> l, trailing |-> t, internal |-> i]
  <2>1. \A s \in Quarters : \A k \in 0 .. s : k \in Quarters
    BY <1>1
  <2>2. l = {s \in Quarters :
               \A k \in 0 .. s :
                 CountOf(<<"A", k>>, c.counts) + CountOf(<<"B", k>>, c.counts) = 0}
    BY <1>2, <2>1
  <2>3. t = {s \in Quarters \ l :
               \A k \in Quarters :
                 k >= s => CountOf(<<"A", k>>, c.counts) + CountOf(<<"B", k>>, c.counts) = 0}
    BY <1>3
  <2>4. i = {s \in Quarters \ (l \cup t) :
               CountOf(<<"A", s>>, c.counts) + CountOf(<<"B", s>>, c.counts) = 0}
    BY <1>4
  <2> QED BY <2>2, <2>3, <2>4 DEF EmptyQuarters
<1>6. ASSUME NEW s \in Quarters PROVE s \in l <=> ~ \E k \in busy : k <= s
  BY <1>1, <1>2
<1>7. ASSUME NEW s \in Quarters PROVE s \in t <=> s \notin l /\ ~ \E k \in busy : k >= s
  BY <1>1, <1>3
<1>8. ASSUME NEW s \in Quarters
      PROVE  s \in i <=> s \notin busy /\ (\E k \in busy : k < s) /\ (\E k \in busy : k > s)
  BY <1>1, <1>4, <1>6, <1>7
<1>9. t = Quarters \ (busy \cup i \cup l)
  <2>1. ASSUME NEW s \in Quarters PROVE s \in t <=> s \notin busy /\ s \notin i /\ s \notin l
    BY <1>1, <1>4, <1>6, <1>7
  <2>2. t \subseteq Quarters
    BY <1>3
  <2> QED BY <2>1, <2>2
<1>10. l \subseteq Quarters
  BY <1>2
<1> HIDE DEF NoQuarter
<1> QED BY <1>5, <1>6, <1>8, <1>9, <1>10 DEF EmptyAre

\* The candidate range goes from the first busy quarter to the last.
LEMMA RangeFact ==
  ASSUME NEW e, NEW busy \in SUBSET Quarters, EmptyAre(e, busy), NEW span,
         span = Quarters \ (e.leading \cup e.trailing),
         NEW candidate,
         candidate = IF span = {} THEN << >> ELSE <<Min(span), Max(span), Cardinality(span)>>
  PROVE  /\ \A first, last \in busy : (\A k \in busy : first <= k /\ k <= last) =>
              candidate = <<first, last, last - first + 1>>
         /\ busy = {} => candidate = << >>
<1>1. PICK n \in Int : Quarters = 0 .. n
  BY QuartersFact
<1>2. PICK l, t, i : l = e.leading /\ t = e.trailing /\ i = e.internal
  OBVIOUS
<1>3. ASSUME NEW s \in Quarters
      PROVE  s \in span <=> s \in busy \/ ((\E k \in busy : k < s) /\ (\E k \in busy : k > s))
  <2>1. s \in i <=> s \notin busy /\ (\E k \in busy : k < s) /\ (\E k \in busy : k > s)
    BY <1>2 DEF EmptyAre
  <2>2. s \in l <=> ~ \E k \in busy : k <= s
    BY <1>2 DEF EmptyAre
  <2>3. s \in t <=> s \notin busy /\ s \notin i /\ s \notin l
    BY <1>2 DEF EmptyAre
  <2>4. s \in span <=> s \notin l /\ s \notin t
    BY <1>2
  <2>5. s \in Int
    BY <1>1
  <2> QED BY <1>1, <2>1, <2>2, <2>3, <2>4, <2>5
<1>4. ASSUME NEW first \in busy, NEW last \in busy, \A k \in busy : first <= k /\ k <= last
      PROVE  candidate = <<first, last, last - first + 1>>
  <2>1. first \in Int /\ last \in Int /\ first <= last /\ \A k \in busy : k \in Int
    BY <1>1, <1>4
  <2>2. span = first .. last
    <3>1. ASSUME NEW s \in Quarters PROVE s \in span <=> first <= s /\ s <= last
      BY <1>1, <1>3, <1>4, <2>1
    <3>2. span \subseteq Quarters /\ first .. last \subseteq Quarters
      BY <1>1
    <3>3. \A s \in Quarters : s \in first .. last <=> first <= s /\ s <= last
      BY <1>1, <2>1
    <3> QED BY <3>1, <3>2, <3>3
  <2>3. span \in SUBSET Int /\ first \in span /\ last \in span
        /\ \A x \in span : first <= x /\ x <= last
    BY <2>1, <2>2
  <2>4. Min(span) = first /\ Max(span) = last
    BY <2>3, MinMaxOfThree
  <2>5. Cardinality(span) = last - first + 1
    <3>1. Cardinality(first .. last) = IF first > last THEN 0 ELSE last - first + 1
      BY <2>1, FS_Interval
    <3>2. ~ (first > last)
      BY <2>1
    <3>3. Cardinality(first .. last) = last - first + 1
      BY <3>1, <3>2, Zenon
    <3> QED BY <2>2, <3>3, Zenon
  <2>6. span # {}
    BY <2>3
  <2> QED BY <2>4, <2>5, <2>6
<1>5. ASSUME busy = {} PROVE candidate = << >>
  <2>1. span \subseteq Quarters
    OBVIOUS
  <2>2. span = {}
    BY <1>3, <1>5, <2>1
  <2> QED BY <2>2
<1> QED BY <1>4, <1>5

\* The ends of the ends are the ends.
LEMMA EndsStill ==
  ASSUME NEW I \in SUBSET Int, NEW span, AtEnds(span, I)
  PROVE  Extremes(span) = span
<1>1. CASE I = {}
  BY <1>1 DEF AtEnds, Extremes, When
<1>2. CASE I # {}
  <2>1. PICK lo, hi \in I : span = {lo, hi} /\ \A u \in I : lo <= u /\ u <= hi
    BY <1>2 DEF AtEnds
  <2>2. span \in SUBSET Int /\ lo \in span /\ hi \in span /\ \A x \in span : lo <= x /\ x <= hi
    BY <2>1
  <2>3. Min(span) = lo /\ Max(span) = hi
    BY <2>2, MinMaxOfThree
  <2> QED BY <2>1, <2>2, <2>3 DEF Extremes, When
<1> QED BY <1>1, <1>2

\* The ends of a set of instants are what the report gives.
LEMMA EndsFact ==
  ASSUME NEW I \in SUBSET Int, NEW span, AtEnds(span, I)
  PROVE  span = {t \in I : (\A u \in I : t <= u) \/ (\A u \in I : t >= u)}
<1>1. CASE I = {}
  BY <1>1 DEF AtEnds
<1>2. CASE I # {}
  <2>1. PICK lo, hi \in I : span = {lo, hi} /\ \A u \in I : lo <= u /\ u <= hi
    BY <1>2 DEF AtEnds
  <2>2. ASSUME NEW t \in I
        PROVE  (\A u \in I : t <= u) \/ (\A u \in I : t >= u) <=> t = lo \/ t = hi
    BY <2>1
  <2> QED BY <2>1, <2>2
<1> QED BY <1>1, <1>2

IsRecords(all, n) == n \in Nat /\ all \in Seq(RecordType) /\ Len(all) = n

\* The fields of all records have their types.
LEMMA RecordsFact ==
  ASSUME NEW all, NEW n, IsRecords(all, n)
  PROVE  /\ n \in Nat /\ DOMAIN all = 1 .. n
         /\ \A i \in 1 .. n :
              /\ all[i].dataset \in Datasets /\ all[i].time \in Times
              /\ all[i].author \in Names /\ all[i].id \in Names
              /\ all[i].text \in DOMAIN Quality /\ all[i].relation \in Kinds \cup {""}
              /\ all[i].target \in Names /\ all[i].file \in Int /\ all[i].row \in Int
              /\ all[i].dataset = "B" => all[i].relation = ""
<1>1. n \in Nat /\ DOMAIN all = 1 .. n /\ \A i \in 1 .. n : all[i] \in RecordType
  BY DEF IsRecords
<1>2. ASSUME NEW r \in RecordType
      PROVE  /\ r.dataset \in Datasets /\ r.time \in Times /\ r.author \in Names
             /\ r.id \in Names /\ r.text \in DOMAIN Quality /\ r.relation \in Kinds \cup {""}
             /\ r.target \in Names /\ r.file \in Int /\ r.row \in Int
             /\ r.dataset = "B" => r.relation = ""
  BY DEF RecordType, RecordShape
<1> QED BY <1>1, <1>2

\* The states of the calendar accumulator over n records.
CalendarRun(a, all, n) ==
  /\ a[0] = NothingObserved.calendar
  /\ \A k \in 1 .. n : a[k] = ObserveCalendar(a[k - 1], all[k])

InRange(all, i) == Classify(all[i].time).reason = "IN_RANGE"
CountKeys(all, i) ==
  When(InRange(all, i), {<<all[i].dataset, Classify(all[i].time).sid>>})
NodeKeys(all, i) ==
  When(InRange(all, i) /\ Mapped(all[i].author),
       {<<all[i].dataset, Classify(all[i].time).sid, all[i].author>>})
InstantKeys(all, i) == When(Parsed(Classify(all[i].time)), {Classify(all[i].time).at})

CalendarGives(a, all, n) ==
  /\ a[0].rows = NoRows /\ a[0].reasons = EmptyBag /\ a[0].span = {}
  /\ a[0].counts = EmptyBag /\ a[0].nodes = {}
  /\ \A k \in 1 .. n :
       /\ a[k].rows = IF InRange(all, k) THEN Tally(a[k - 1].rows, all[k], TRUE)
                                        ELSE Tally(a[k - 1].rows, all[k], FALSE)
       /\ a[k].reasons = Inc(a[k - 1].reasons, {Classify(all[k].time).reason})
       /\ a[k].span = Extremes(a[k - 1].span \cup InstantKeys(all, k))
       /\ a[k].counts = Inc(a[k - 1].counts, CountKeys(all, k))
       /\ a[k].nodes = a[k - 1].nodes \cup NodeKeys(all, k)

\* What a record does to every field of the calendar accumulator.
LEMMA CalendarFields ==
  ASSUME NEW a, NEW all, NEW n \in Nat, CalendarRun(a, all, n)
  PROVE  CalendarGives(a, all, n)
<1>1. /\ a[0].rows = NoRows /\ a[0].reasons = EmptyBag /\ a[0].span = {}
      /\ a[0].counts = EmptyBag /\ a[0].nodes = {}
  BY DEF CalendarRun, NothingObserved
<1>2. ASSUME NEW k \in 1 .. n
      PROVE  /\ a[k].rows = IF InRange(all, k) THEN Tally(a[k - 1].rows, all[k], TRUE)
                                              ELSE Tally(a[k - 1].rows, all[k], FALSE)
             /\ a[k].reasons = Inc(a[k - 1].reasons, {Classify(all[k].time).reason})
             /\ a[k].span = Extremes(a[k - 1].span \cup InstantKeys(all, k))
             /\ a[k].counts = Inc(a[k - 1].counts, CountKeys(all, k))
             /\ a[k].nodes = a[k - 1].nodes \cup NodeKeys(all, k)
  <2>1. PICK c : c = a[k - 1]
    OBVIOUS
  <2>2. a[k] = ObserveCalendar(c, all[k])
    BY <2>1 DEF CalendarRun
  <2>3. ObserveCalendar(c, all[k]) =
          [rows |-> IF InRange(all, k) THEN Tally(c.rows, all[k], TRUE)
                                       ELSE Tally(c.rows, all[k], FALSE),
           reasons |-> Inc(c.reasons, {Classify(all[k].time).reason}),
           span |-> Extremes(c.span \cup InstantKeys(all, k)),
           counts |-> Inc(c.counts, CountKeys(all, k)),
           nodes |-> c.nodes \cup NodeKeys(all, k)]
    BY DEF ObserveCalendar, InRange, InstantKeys, CountKeys, NodeKeys, Tally
  <2>4. PICK x1, x2, x3, x4, x5 :
          /\ x1 = IF InRange(all, k) THEN Tally(c.rows, all[k], TRUE)
                                    ELSE Tally(c.rows, all[k], FALSE)
          /\ x2 = Inc(c.reasons, {Classify(all[k].time).reason})
          /\ x3 = Extremes(c.span \cup InstantKeys(all, k))
          /\ x4 = Inc(c.counts, CountKeys(all, k))
          /\ x5 = c.nodes \cup NodeKeys(all, k)
    OBVIOUS
  <2>5. a[k] = [rows |-> x1, reasons |-> x2, span |-> x3, counts |-> x4, nodes |-> x5]
    BY <2>2, <2>3, <2>4
  <2>6. /\ a[k].rows = x1 /\ a[k].reasons = x2 /\ a[k].span = x3 /\ a[k].counts = x4
        /\ a[k].nodes = x5
    BY <2>5
  <2> QED BY <2>1, <2>4, <2>6
<1> QED BY <1>1, <1>2 DEF CalendarGives

\* What the fields of the accumulator are when n records have been seen.
CalendarSees(c, all, n) ==
  /\ RowsAre(c.rows, all, {i \in 1 .. n : InRange(all, i)}, n)
  /\ \A x : CountOf(x, c.reasons) = Cardinality({i \in 1 .. n : Classify(all[i].time).reason = x})
  /\ AtEnds(c.span, UNION {InstantKeys(all, i) : i \in 1 .. n})
  /\ \A x : CountOf(x, c.counts) = Cardinality({i \in 1 .. n : x \in CountKeys(all, i)})
  /\ c.nodes = UNION {NodeKeys(all, i) : i \in 1 .. n}

\* A counter of n records says how many have a key.
LEMMA CounterSays ==
  ASSUME NEW n \in Nat, NEW K, NEW c, CountsKeys(c, K, n)
  PROVE  \A x : CountOf(x, c[n]) = Cardinality({i \in 1 .. n : x \in K[i]})
<1>1. c[n] = Counted(K, n)
  BY CounterFact
<1>2. \A x : CountOf(x, Counted(K, n)) = Cardinality(Having(K, x, n))
  BY CountedCopies
<1> QED BY <1>1, <1>2 DEF Having

\* Instants are integers.
LEMMA InstantsType ==
  ASSUME NEW all, NEW n, IsRecords(all, n), NEW k \in 0 .. n
  PROVE  UNION {InstantKeys(all, i) : i \in 1 .. k} \in SUBSET Int
<1>1. ASSUME NEW i \in 1 .. n PROVE InstantKeys(all, i) \subseteq Int
  <2>1. Classify(all[i].time).at \in Int
    BY RecordsFact, ClassifyFact
  <2> QED BY <2>1 DEF InstantKeys, When
<1>2. n \in Nat
  BY RecordsFact
<1>3. \A i \in 1 .. k : i \in 1 .. n
  BY <1>2
<1> QED BY <1>1, <1>3

\* The accumulator keeps the first and the last instant of all it has seen.
LEMMA CalendarSpan ==
  ASSUME NEW all, NEW n, IsRecords(all, n), NEW a, CalendarRun(a, all, n)
  PROVE  AtEnds(a[n].span, UNION {InstantKeys(all, i) : i \in 1 .. n})
<1>1. n \in Nat
  BY RecordsFact
<1>2. PICK s : s = [k \in 0 .. n |-> a[k].span]
  OBVIOUS
<1>3. PICK K : K = [i \in 1 .. n |-> InstantKeys(all, i)]
  OBVIOUS
<1>4. s[0] = {} /\ \A k \in 1 .. n : s[k] = Extremes(s[k - 1] \cup K[k])
  <2>0. a[0].span = {} /\ \A k \in 1 .. n : a[k].span = Extremes(a[k - 1].span \cup InstantKeys(all, k))
    <3>1. CalendarGives(a, all, n)
      BY <1>1, CalendarFields
    <3> QED BY <3>1 DEF CalendarGives
  <2>1. \A k \in 1 .. n : k \in 0 .. n /\ k - 1 \in 0 .. n
    BY <1>1
  <2>2. 0 \in 0 .. n
    BY <1>1
  <2> QED BY <1>2, <1>3, <2>0, <2>1, <2>2
<1> DEFINE I(k) == UNION {K[i] : i \in 1 .. k}
           G == {k \in Nat : k <= n => AtEnds(s[k], I(k))}
<1>5. ASSUME NEW k \in 0 .. n PROVE I(k) \in SUBSET Int
  <2>1. \A i \in 1 .. k : K[i] = InstantKeys(all, i)
    BY <1>1, <1>3
  <2>2. I(k) = UNION {InstantKeys(all, i) : i \in 1 .. k}
    BY <2>1
  <2> QED BY <2>2, InstantsType
<1>6. 0 \in G
  <2>1. I(0) = {}
    OBVIOUS
  <2>2. AtEnds({}, {})
    BY DEF AtEnds
  <2> HIDE DEF I
  <2> QED BY <1>4, <2>1, <2>2
<1>7. ASSUME NEW k \in Nat, k \in G PROVE k + 1 \in G
  <2> SUFFICES ASSUME k + 1 <= n PROVE AtEnds(s[k + 1], I(k + 1))
    OBVIOUS
  <2>1. k + 1 \in 1 .. n /\ (k + 1) - 1 = k /\ k \in 0 .. n
    BY <1>1
  <2>2. AtEnds(s[k], I(k))
    BY <1>1, <1>7, <2>1
  <2>3. I(k + 1) = I(k) \cup K[k + 1]
    <3>1. 1 .. (k + 1) = (1 .. k) \cup {k + 1}
      OBVIOUS
    <3> QED BY <3>1
  <2>4. s[k + 1] = Extremes(s[k] \cup K[k + 1])
    BY <1>4, <2>1
  <2>5. I(k) \in SUBSET Int
    BY <1>5, <2>1
  <2>6. K[k + 1] = {} \/ \E t \in Int : K[k + 1] = {t}
    <3>1. Classify(all[k + 1].time).at \in Int
      BY <2>1, RecordsFact, ClassifyFact
    <3>2. K[k + 1] = InstantKeys(all, k + 1)
      BY <1>3, <2>1
    <3> QED BY <3>1, <3>2 DEF InstantKeys, When
  <2> HIDE DEF I
  <2>7. CASE K[k + 1] = {}
    <3>1. s[k] \cup {} = s[k] /\ I(k) \cup {} = I(k)
      OBVIOUS
    <3>2. Extremes(s[k]) = s[k]
      BY <2>2, <2>5, EndsStill
    <3> QED BY <2>2, <2>3, <2>4, <2>7, <3>1, <3>2
  <2>8. CASE \E t \in Int : K[k + 1] = {t}
    BY <2>2, <2>3, <2>4, <2>5, <2>8, EndsStep
  <2> QED BY <2>6, <2>7, <2>8
<1>8. n \in G
  <2> HIDE DEF G
  <2> QED BY <1>1, <1>6, <1>7, NaturalInduction
<1>9. AtEnds(s[n], I(n))
  BY <1>1, <1>8
<1>10. I(n) = UNION {InstantKeys(all, i) : i \in 1 .. n} /\ s[n] = a[n].span
  BY <1>1, <1>2, <1>3
<1> QED BY <1>9, <1>10

\* After n records the calendar accumulator holds their reasons, counts, nodes and ends.
LEMMA CalendarSeen ==
  ASSUME NEW all, NEW n, IsRecords(all, n), NEW a, CalendarRun(a, all, n)
  PROVE  CalendarSees(a[n], all, n)
<1>1. n \in Nat
  BY RecordsFact
<1>2. \A k \in 1 .. n : k \in 0 .. n /\ k - 1 \in 0 .. n
  BY <1>1
<1>3. 0 \in 0 .. n /\ n \in 0 .. n
  BY <1>1
<1>4. RowsAre(a[n].rows, all, {i \in 1 .. n : InRange(all, i)}, n)
  <2>0. a[0].rows = NoRows /\ \A k \in 1 .. n :
          a[k].rows = IF InRange(all, k) THEN Tally(a[k - 1].rows, all[k], TRUE)
                                         ELSE Tally(a[k - 1].rows, all[k], FALSE)
    <3>1. CalendarGives(a, all, n)
      BY <1>1, CalendarFields
    <3> QED BY <3>1 DEF CalendarGives
  <2>1. PICK t : t = [k \in 0 .. n |-> a[k].rows]
    OBVIOUS
  <2>2. PICK good : good = {i \in 1 .. n : InRange(all, i)}
    OBVIOUS
  <2>3. ASSUME NEW k \in 1 .. n 
        PROVE  t[k] = IF k \in good THEN Tally(t[k - 1], all[k], TRUE)
                                    ELSE Tally(t[k - 1], all[k], FALSE)
    <3>1. t[k] = IF InRange(all, k) THEN Tally(t[k - 1], all[k], TRUE)
                                    ELSE Tally(t[k - 1], all[k], FALSE)
      BY <1>2, <2>0, <2>1
    <3>2. InRange(all, k) <=> k \in good
      BY <2>2
    <3> QED BY <3>1, <3>2
  <2>4. TalliesRows(t, all, good, n)
    BY <1>3, <2>0, <2>1, <2>2, <2>3 DEF TalliesRows
  <2> QED BY <1>1, <1>3, <2>1, <2>2, <2>4, TallyFact
<1>5. \A x : CountOf(x, a[n].reasons)
               = Cardinality({i \in 1 .. n : Classify(all[i].time).reason = x})
  <2>0. a[0].reasons = EmptyBag /\ \A k \in 1 .. n : a[k].reasons = Inc(a[k - 1].reasons, {Classify(all[k].time).reason})
    <3>1. CalendarGives(a, all, n)
      BY <1>1, CalendarFields
    <3> QED BY <3>1 DEF CalendarGives
  <2>1. PICK c : c = [k \in 0 .. n |-> a[k].reasons]
    OBVIOUS
  <2>2. PICK K : K = [i \in 1 .. n |-> {Classify(all[i].time).reason}]
    OBVIOUS
  <2>3. CountsKeys(c, K, n)
    BY <1>2, <1>3, <2>0, <2>1, <2>2 DEF CountsKeys
  <2>4. \A x : CountOf(x, c[n]) = Cardinality({i \in 1 .. n : x \in K[i]})
    BY <1>1, <2>3, CounterSays
  <2>5. ASSUME NEW x
        PROVE  {i \in 1 .. n : x \in K[i]} = {i \in 1 .. n : Classify(all[i].time).reason = x}
    BY <2>2
  <2> QED BY <1>3, <2>1, <2>4, <2>5
<1>6. \A x : CountOf(x, a[n].counts) = Cardinality({i \in 1 .. n : x \in CountKeys(all, i)})
  <2>0. a[0].counts = EmptyBag /\ \A k \in 1 .. n : a[k].counts = Inc(a[k - 1].counts, CountKeys(all, k))
    <3>1. CalendarGives(a, all, n)
      BY <1>1, CalendarFields
    <3> QED BY <3>1 DEF CalendarGives
  <2>1. PICK c : c = [k \in 0 .. n |-> a[k].counts]
    OBVIOUS
  <2>2. PICK K : K = [i \in 1 .. n |-> CountKeys(all, i)]
    OBVIOUS
  <2>3. CountsKeys(c, K, n)
    BY <1>2, <1>3, <2>0, <2>1, <2>2 DEF CountsKeys
  <2>4. \A x : CountOf(x, c[n]) = Cardinality({i \in 1 .. n : x \in K[i]})
    BY <1>1, <2>3, CounterSays
  <2>5. ASSUME NEW x
        PROVE  {i \in 1 .. n : x \in K[i]} = {i \in 1 .. n : x \in CountKeys(all, i)}
    BY <2>2
  <2> QED BY <1>3, <2>1, <2>4, <2>5
<1>7. a[n].nodes = UNION {NodeKeys(all, i) : i \in 1 .. n}
  <2>0. a[0].nodes = {} /\ \A k \in 1 .. n : a[k].nodes = a[k - 1].nodes \cup NodeKeys(all, k)
    <3>1. CalendarGives(a, all, n)
      BY <1>1, CalendarFields
    <3> QED BY <3>1 DEF CalendarGives
  <2>1. PICK u : u = [k \in 0 .. n |-> a[k].nodes]
    OBVIOUS
  <2>2. PICK K : K = [i \in 1 .. n |-> NodeKeys(all, i)]
    OBVIOUS
  <2>3. Gathers(u, K, n)
    BY <1>2, <1>3, <2>0, <2>1, <2>2 DEF Gathers
  <2>4. u[n] = UNION {K[i] : i \in 1 .. n}
    BY <1>1, <2>3, GatherFact
  <2> QED BY <1>3, <2>1, <2>2, <2>4
<1> QED BY <1>4, <1>5, <1>6, <1>7, CalendarSpan DEF CalendarSees

\* The records of a quarter; and those of a dataset among them.
InQuarter(all, s) == {i \in DOMAIN all : Label(all[i]) = s}
OfDataset(all, s, d) == {i \in InQuarter(all, s) : all[i].dataset = d}
Busy(all) == {s \in Quarters : InQuarter(all, s) # {}}
Instants(all) ==
  {Classify(all[i].time).at : i \in {i \in DOMAIN all : Parsed(Classify(all[i].time))}}

\* The records counted under a dataset and quarter are those of them.
LEMMA CalendarRecords ==
  ASSUME NEW all, NEW n, IsRecords(all, n), NEW s \in Quarters, NEW d \in Datasets
  PROVE  /\ {i \in 1 .. n : <<d, s>> \in CountKeys(all, i)} = OfDataset(all, s, d)
         /\ IsFiniteSet(OfDataset(all, s, d)) /\ Cardinality(OfDataset(all, s, d)) \in Nat
<1>1. n \in Nat /\ DOMAIN all = 1 .. n
  BY RecordsFact
<1>2. ASSUME NEW i \in 1 .. n
      PROVE  <<d, s>> \in CountKeys(all, i) <=> Label(all[i]) = s /\ all[i].dataset = d
  <2>1. /\ InRange(all, i) <=> Classify(all[i].time).sid # NoQuarter
        /\ Label(all[i]) = Classify(all[i].time).sid
    BY RecordsFact, ClassifyFact DEF InRange, Label
  <2>2. s # NoQuarter
    BY SnapshotType
  <2> QED BY <2>1, <2>2 DEF CountKeys, When
<1>3. {i \in 1 .. n : <<d, s>> \in CountKeys(all, i)} = OfDataset(all, s, d)
  BY <1>1, <1>2 DEF OfDataset, InQuarter
<1>4. IsFiniteSet(1 .. n) /\ OfDataset(all, s, d) \subseteq 1 .. n
  BY <1>1, FS_Interval DEF OfDataset, InQuarter
<1>5. IsFiniteSet(OfDataset(all, s, d))
  BY <1>4, FS_Subset
<1> QED BY <1>3, <1>5, FS_CardinalityType

NodesIn(nodes, s, d) == {x \in nodes : x[1] = d /\ x[2] = s}
AuthorsIn(all, s, d) == {all[i].author : i \in OfDataset(all, s, d)} \cap NodeMap

\* The nodes kept under a dataset and quarter are the authors there that are in the node map.
LEMMA CalendarNodes ==
  ASSUME NEW all, NEW n, IsRecords(all, n), NEW s \in Quarters, NEW d \in Datasets,
         NEW nodes, nodes = UNION {NodeKeys(all, i) : i \in 1 .. n}
  PROVE  Cardinality(NodesIn(nodes, s, d)) = Cardinality(AuthorsIn(all, s, d))
<1>1. n \in Nat /\ DOMAIN all = 1 .. n
  BY RecordsFact
<1>2. PICK B : B = {all[i].author : i \in OfDataset(all, s, d)} \cap NodeMap
  OBVIOUS
<1>3. IsFiniteSet(B)
  <2>1. PICK f : f = [i \in OfDataset(all, s, d) |-> all[i].author]
    OBVIOUS
  <2>2. IsFiniteSet({f[i] : i \in DOMAIN f})
    <3>1. IsFiniteSet(OfDataset(all, s, d))
      BY CalendarRecords
    <3>2. IsFiniteSet(DOMAIN f)
      BY <2>1, <3>1
    <3> QED BY <3>2, FiniteValues
  <2>3. B \subseteq {f[i] : i \in DOMAIN f}
    BY <1>2, <2>1
  <2> QED BY <2>2, <2>3, FS_Subset
<1>4. PICK f : f = [x \in B |-> <<d, s, x>>]
  OBVIOUS
<1>5. \A x, y \in B : f[x] = f[y] => x = y
  BY <1>4
<1>6. ASSUME NEW i \in 1 .. n
      PROVE  \A x : x \in NodeKeys(all, i) /\ x[1] = d /\ x[2] = s
                      <=> i \in OfDataset(all, s, d) /\ all[i].author \in NodeMap
                          /\ x = <<d, s, all[i].author>>
  <2>1. /\ InRange(all, i) <=> Classify(all[i].time).sid # NoQuarter
        /\ Label(all[i]) = Classify(all[i].time).sid
    BY RecordsFact, ClassifyFact DEF InRange, Label
  <2>2. s # NoQuarter
    BY SnapshotType
  <2>3. PICK e, q, m : e = all[i].dataset /\ q = Classify(all[i].time).sid /\ m = all[i].author
    OBVIOUS
  <2>4. NodeKeys(all, i) = IF q # NoQuarter /\ m \in NodeMap THEN {<<e, q, m>>} ELSE {}
    BY <2>1, <2>3 DEF NodeKeys, When, Mapped
  <2>5. i \in OfDataset(all, s, d) <=> q = s /\ e = d
    BY <1>1, <2>1, <2>3 DEF OfDataset, InQuarter
  <2>6. <<e, q, m>>[1] = e /\ <<e, q, m>>[2] = q
    OBVIOUS
  <2> QED BY <2>2, <2>3, <2>4, <2>5, <2>6
<1>7. {x \in nodes : x[1] = d /\ x[2] = s} = {f[x] : x \in B}
  <2>1. ASSUME NEW x \in nodes, x[1] = d, x[2] = s PROVE x \in {f[y] : y \in B}
    <3>1. PICK i \in 1 .. n : x \in NodeKeys(all, i)
      OBVIOUS
    <3>2. all[i].author \in B /\ x = <<d, s, all[i].author>>
      BY <1>2, <1>6, <2>1, <3>1
    <3> QED BY <1>4, <3>2
  <2>2. ASSUME NEW y \in B PROVE f[y] \in nodes /\ f[y][1] = d /\ f[y][2] = s
    <3>1. PICK i \in OfDataset(all, s, d) : y = all[i].author
      BY <1>2
    <3>2. i \in 1 .. n /\ f[y] = <<d, s, all[i].author>> /\ all[i].author \in NodeMap
      BY <1>1, <1>2, <1>4, <3>1 DEF OfDataset, InQuarter
    <3> QED BY <1>6, <3>2
  <2> QED BY <2>1, <2>2
<1>8. DOMAIN f = B
  BY <1>4
<1>9. Cardinality({f[x] : x \in B}) = Cardinality(B)
  BY <1>3, <1>5, <1>8, PairedFact
<1> QED BY <1>2, <1>7, <1>9 DEF NodesIn, AuthorsIn

\* A quarter has a record exactly when one of its two counts is not zero.
LEMMA CalendarBusy ==
  ASSUME NEW all, NEW n, IsRecords(all, n), NEW c, CalendarSees(c, all, n), NEW s \in Quarters
  PROVE  /\ \A d \in Datasets : CountOf(<<d, s>>, c.counts) = Cardinality(OfDataset(all, s, d))
         /\ s \in Busy(all) <=> CountOf(<<"A", s>>, c.counts) + CountOf(<<"B", s>>, c.counts) # 0
<1>1. ASSUME NEW d \in Datasets
      PROVE  CountOf(<<d, s>>, c.counts) = Cardinality(OfDataset(all, s, d))
  <2>1. CountOf(<<d, s>>, c.counts)
          = Cardinality({i \in 1 .. n : <<d, s>> \in CountKeys(all, i)})
    BY DEF CalendarSees
  <2> QED BY <2>1, CalendarRecords
<1>2. "A" \in Datasets /\ "B" \in Datasets
  BY DEF Datasets
<1>3. PICK x \in Nat, y \in Nat :
        x = Cardinality(OfDataset(all, s, "A")) /\ y = Cardinality(OfDataset(all, s, "B"))
  BY <1>2, CalendarRecords
<1>4. /\ x = 0 <=> OfDataset(all, s, "A") = {}
      /\ y = 0 <=> OfDataset(all, s, "B") = {}
  BY <1>2, <1>3, CalendarRecords, FS_EmptySet
<1>5. InQuarter(all, s) = OfDataset(all, s, "A") \cup OfDataset(all, s, "B")
  <2>1. \A i \in InQuarter(all, s) : all[i].dataset \in Datasets
    BY RecordsFact DEF InQuarter
  <2> QED BY <2>1 DEF OfDataset, Datasets
<1>6. s \in Busy(all) <=> InQuarter(all, s) # {}
  BY DEF Busy
<1>7. s \in Busy(all) <=> x # 0 \/ y # 0
  BY <1>4, <1>5, <1>6
<1>8. CountOf(<<"A", s>>, c.counts) = x /\ CountOf(<<"B", s>>, c.counts) = y
  BY <1>1, <1>2, <1>3
<1>9. x + y # 0 <=> x # 0 \/ y # 0
  OBVIOUS
<1> QED BY <1>1, <1>7, <1>8, <1>9

\* The instants kept are the first and the last of all parsed ones.
LEMMA CalendarInstants ==
  ASSUME NEW all, NEW n, IsRecords(all, n), NEW c, CalendarSees(c, all, n)
  PROVE  c.span = {t \in Instants(all) : \/ \A u \in Instants(all) : t <= u
                                         \/ \A u \in Instants(all) : t >= u}
<1>1. n \in Nat /\ DOMAIN all = 1 .. n
  BY RecordsFact
<1>2. UNION {InstantKeys(all, i) : i \in 1 .. n} = Instants(all)
  <2>1. \A i \in 1 .. n : InstantKeys(all, i) = IF Parsed(Classify(all[i].time))
                                                  THEN {Classify(all[i].time).at} ELSE {}
    BY DEF InstantKeys, When
  <2>2. PICK J : J = {i \in 1 .. n : Parsed(Classify(all[i].time))}
    OBVIOUS
  <2>3. PICK f : f = [i \in 1 .. n |-> Classify(all[i].time).at]
    OBVIOUS
  <2>4. \A i \in 1 .. n : InstantKeys(all, i) = IF i \in J THEN {f[i]} ELSE {}
    BY <2>1, <2>2, <2>3
  <2>5. Instants(all) = {f[i] : i \in J}
    BY <1>1, <2>2, <2>3 DEF Instants
  <2>6. J \subseteq 1 .. n
    BY <2>2
  <2> QED BY <2>4, <2>5, <2>6
<1>3. Instants(all) \in SUBSET Int
  <2>1. n \in 0 .. n
    BY <1>1
  <2> QED BY <1>2, <2>1, InstantsType
<1>4. AtEnds(c.span, Instants(all))
  BY <1>2 DEF CalendarSees
<1> QED BY <1>3, <1>4, EndsFact

\* The calendar report of what was seen is its definition over all records.
LEMMA CalendarReported ==
  ASSUME NEW all, NEW n, IsRecords(all, n), NEW c, CalendarSees(c, all, n)
  PROVE  CalendarExact(CalendarReport(c), all)
<1>1. n \in Nat /\ DOMAIN all = 1 .. n /\ Len(all) = n
  BY RecordsFact DEF IsRecords
<1>2. PICK rep : rep = CalendarReport(c)
  OBVIOUS
<1>3. /\ rep.rows = c.rows /\ rep.reasons = c.reasons /\ rep.instants = c.span
      /\ rep.empty = EmptyQuarters(c)
      /\ \E span : /\ span = Quarters \ (EmptyQuarters(c).leading \cup EmptyQuarters(c).trailing)
                   /\ rep.candidate = IF span = {} THEN << >>
                                      ELSE <<Min(span), Max(span), Cardinality(span)>>
      /\ rep.perQuarter =
           [s \in Quarters |-> [d \in {"A", "B"} |->
              [records |-> CountOf(<<d, s>>, c.counts),
               nodes |-> Cardinality({x \in c.nodes : x[1] = d /\ x[2] = s})]]]
  BY <1>2 DEF CalendarReport
<1>4. /\ rep.rows.inspected = Len(all)
      /\ rep.rows.accepted = Cardinality({i \in DOMAIN all : Label(all[i]) # NoQuarter})
      /\ rep.rows.accepted + rep.rows.rejected = rep.rows.inspected
      /\ rep.rows.files = {all[i].file : i \in DOMAIN all}
  <2>1. RowsAre(rep.rows, all, {i \in 1 .. n : InRange(all, i)}, n)
    BY <1>3 DEF CalendarSees
  <2>2. \A i \in 1 .. n : InRange(all, i) <=> Label(all[i]) # NoQuarter
    BY RecordsFact, ClassifyFact DEF InRange, Label
  <2>3. {i \in 1 .. n : InRange(all, i)} = {i \in DOMAIN all : Label(all[i]) # NoQuarter}
    BY <1>1, <2>2
  <2> QED BY <1>1, <2>1, <2>3 DEF RowsAre
<1>5. ASSUME NEW i \in DOMAIN all
      PROVE  CountOf(Classify(all[i].time).reason, rep.reasons)
               = Cardinality({j \in DOMAIN all :
                                Classify(all[j].time).reason = Classify(all[i].time).reason})
  BY <1>1, <1>3 DEF CalendarSees
<1>6. rep.instants = {t \in Instants(all) : \/ \A u \in Instants(all) : t <= u
                                            \/ \A u \in Instants(all) : t >= u}
  BY <1>3, CalendarInstants
<1>7. ASSUME NEW s \in Quarters, NEW d \in {"A", "B"}
      PROVE  rep.perQuarter[s][d] =
               [records |-> Cardinality(OfDataset(all, s, d)),
                nodes |-> Cardinality({all[i].author : i \in OfDataset(all, s, d)} \cap NodeMap)]
  <2>1. d \in Datasets
    BY DEF Datasets
  <2>2. CountOf(<<d, s>>, c.counts) = Cardinality(OfDataset(all, s, d))
    BY <2>1, CalendarBusy
  <2>3. Cardinality({x \in c.nodes : x[1] = d /\ x[2] = s})
          = Cardinality({all[i].author : i \in OfDataset(all, s, d)} \cap NodeMap)
    <3>1. PICK nodes : nodes = c.nodes /\ nodes = UNION {NodeKeys(all, i) : i \in 1 .. n}
      BY DEF CalendarSees
    <3>2. Cardinality(NodesIn(nodes, s, d)) = Cardinality(AuthorsIn(all, s, d))
      BY <2>1, <3>1, CalendarNodes
    <3> QED BY <3>1, <3>2 DEF NodesIn, AuthorsIn
  <2>4. rep.perQuarter[s][d] =
          [records |-> CountOf(<<d, s>>, c.counts),
           nodes |-> Cardinality({x \in c.nodes : x[1] = d /\ x[2] = s})]
    BY <1>3
  <2> QED BY <2>2, <2>3, <2>4
<1>8. Busy(all) \in SUBSET Quarters
  BY DEF Busy
<1>9. EmptyAre(rep.empty, Busy(all))
  <2>1. \A s \in Quarters :
          s \in Busy(all) <=> CountOf(<<"A", s>>, c.counts) + CountOf(<<"B", s>>, c.counts) # 0
    BY CalendarBusy
  <2> QED BY <1>3, <1>8, <2>1, EmptyFact
<1>10. /\ \A first, last \in Busy(all) : (\A k \in Busy(all) : first <= k /\ k <= last) =>
            rep.candidate = <<first, last, last - first + 1>>
       /\ Busy(all) = {} => rep.candidate = << >>
  BY <1>3, <1>8, <1>9, RangeFact
<1>11. RowsExact(rep.rows, all, LAMBDA r : Label(r) # NoQuarter)
  BY <1>4 DEF RowsExact, Number, Which
<1>12. CalendarExact(rep, all)
  BY <1>5, <1>6, <1>7, <1>9, <1>10, <1>11
     DEF CalendarExact, Number, Which, EmptyAre, Busy, InQuarter, OfDataset, Instants
<1> QED BY <1>2, <1>12

\* A record is given to each of the four accumulators and to the tables.
LEMMA ObservedParts ==
  ASSUME NEW m, NEW q, NEW r, Observed(m, q, r)
  PROVE  /\ q.acc.calendar = ObserveCalendar(m.acc.calendar, r)
         /\ q.acc.dedup = ObserveDedup(m.acc.dedup, r)
         /\ q.acc.text = ObserveText(m.acc.text, r)
         /\ q.acc.coverage = ObserveCoverage(m.acc.coverage, r)
         /\ q.tables = StoreOccurrences(m.tables, r)
<1>1. PICK a, b, c, d : /\ a = ObserveCalendar(m.acc.calendar, r)
                        /\ b = ObserveDedup(m.acc.dedup, r)
                        /\ c = ObserveText(m.acc.text, r)
                        /\ d = ObserveCoverage(m.acc.coverage, r)
  OBVIOUS
<1>2. q.acc = [calendar |-> a, dedup |-> b, text |-> c, coverage |-> d]
      /\ q.tables = StoreOccurrences(m.tables, r)
  BY <1>1 DEF Observed
<1>3. q.acc.calendar = a /\ q.acc.dedup = b /\ q.acc.text = c /\ q.acc.coverage = d
  BY <1>2
<1> QED BY <1>1, <1>2, <1>3

\* The accumulators of the pass.
LEMMA PassSees ==
  ASSUME CountsInv, pc = "sealed"
  PROVE  \E q, n : /\ IsRecords(AllRecords, n) /\ q = PassOf(AllRecords)
                   /\ reports = ReportsOf(q[n])
                   /\ q[0].acc = NothingObserved /\ q[0].tables = EmptyTables
                   /\ \A k \in 1 .. n : Observed(q[k - 1], q[k], AllRecords[k])
<1>1. PICK R : R = AllRecords
  OBVIOUS
<1>2. R \in Seq(RecordType) /\ Len(R) \in Nat
  BY <1>1, BooksType, BooksFact DEF InBooks, CountsInv
<1>3. PICK n \in Nat : n = Len(R)
  BY <1>2
<1>4. PICK q : q = PassOf(R)
  OBVIOUS
<1>5. IsRecords(R, n)
  BY <1>2, <1>3 DEF IsRecords
<1>6. q[0].acc = NothingObserved /\ q[0].tables = EmptyTables
  BY <1>2, <1>4, PassFact DEF Fresh
<1>7. \A k \in 1 .. n : Observed(q[k - 1], q[k], R[k])
  BY <1>2, <1>3, <1>4, PassStorable
<1>8. reports = ReportsOf(q[n])
  BY <1>1, <1>3, <1>4 DEF CountsInv
<1> QED BY <1>1, <1>4, <1>5, <1>6, <1>7, <1>8

\* The calendar report of a sealed run is right.
THEOREM CalendarCountsHolds == Spec => []CalendarCounts
<1>1. CountsInv => CalendarCounts
  <2> SUFFICES ASSUME CountsInv, pc = "sealed"
               PROVE  CalendarExact(reports.calendar, AllRecords)
    BY DEF CalendarCounts
  <2>1. PICK q, n : /\ IsRecords(AllRecords, n) /\ reports = ReportsOf(q[n])
                    /\ q[0].acc = NothingObserved
                    /\ \A k \in 1 .. n : Observed(q[k - 1], q[k], AllRecords[k])
    BY PassSees
  <2>2. n \in Nat
    BY <2>1 DEF IsRecords
  <2>3. PICK a : a = [k \in 0 .. n |-> q[k].acc.calendar]
    OBVIOUS
  <2>4. CalendarRun(a, AllRecords, n)
    <3>1. a[0] = NothingObserved.calendar
      BY <2>1, <2>2, <2>3
    <3>2. ASSUME NEW k \in 1 .. n PROVE a[k] = ObserveCalendar(a[k - 1], AllRecords[k])
      <4>1. k \in 0 .. n /\ k - 1 \in 0 .. n
        BY <2>2
      <4>2. q[k].acc.calendar = ObserveCalendar(q[k - 1].acc.calendar, AllRecords[k])
        BY <2>1, ObservedParts
      <4> QED BY <2>3, <4>1, <4>2
    <3> QED BY <3>1, <3>2 DEF CalendarRun
  <2>5. CalendarSees(a[n], AllRecords, n)
    BY <2>1, <2>4, CalendarSeen
  <2>6. reports.calendar = CalendarReport(a[n])
    <3>1. reports.calendar = CalendarReport(q[n].acc.calendar)
      BY <2>1 DEF ReportsOf
    <3>2. n \in 0 .. n
      BY <2>2
    <3> QED BY <2>3, <3>1, <3>2
  <2> QED BY <2>1, <2>5, <2>6, CalendarReported
<1> QED BY <1>1, CountsInductive, PTL

(***************************************************************************)
(* The coverage report.                                                    *)
(***************************************************************************)
CoverageRun(a, all, n) ==
  /\ a[0] = NothingObserved.coverage
  /\ \A k \in 1 .. n : a[k] = ObserveCoverage(a[k - 1], all[k])

Covered(all, i) == CoverageFate(all[i]) = "accepted"
Linked(all, i) == Covered(all, i) /\ all[i].dataset = "A"
Writing(all, i) == Covered(all, i) /\ NodeText(all[i])

FateKeys(all, i) == When(~ Covered(all, i), {CoverageFate(all[i])})
LinkedKeys(all, i) == When(Linked(all, i), {<<Label(all[i]), all[i].author>>})
WritingKeys(all, i) == When(Writing(all, i), {<<Label(all[i]), all[i].author>>})
ActiveKeys(all, i) == When(Covered(all, i) /\ (Linked(all, i) \/ NodeText(all[i])),
                           {<<Label(all[i]), all[i].author>>})
EdgeKeys(all, i) == When(Linked(all, i), {<<Label(all[i]), all[i].relation>>})
EdgeTextKeys(all, i) ==
  When(Linked(all, i) /\ EdgeText(all[i]), {<<Label(all[i]), all[i].relation>>})
TextKeys(all, i) == When(Linked(all, i), {<<Label(all[i]), EdgeText(all[i])>>})

CoverageGives(a, all, n) ==
  /\ a[0].rows = NoRows /\ a[0].fates = EmptyBag /\ a[0].struct = {} /\ a[0].text = {}
  /\ a[0].active = {} /\ a[0].nodeTexts = EmptyBag /\ a[0].edges = EmptyBag
  /\ a[0].available = EmptyBag
  /\ \A k \in 1 .. n :
       /\ a[k].rows = IF Covered(all, k) THEN Tally(a[k - 1].rows, all[k], TRUE)
                                         ELSE Tally(a[k - 1].rows, all[k], FALSE)
       /\ a[k].fates = Inc(a[k - 1].fates, FateKeys(all, k))
       /\ a[k].struct = a[k - 1].struct \cup LinkedKeys(all, k)
       /\ a[k].text = a[k - 1].text \cup WritingKeys(all, k)
       /\ a[k].active = a[k - 1].active \cup ActiveKeys(all, k)
       /\ a[k].nodeTexts = Inc(a[k - 1].nodeTexts, WritingKeys(all, k))
       /\ a[k].edges = Inc(a[k - 1].edges, EdgeKeys(all, k))
       /\ a[k].available = Inc(a[k - 1].available, TextKeys(all, k))

\* What a record does to every field of the coverage accumulator.
LEMMA CoverageFields ==
  ASSUME NEW a, NEW all, NEW n \in Nat, CoverageRun(a, all, n)
  PROVE  CoverageGives(a, all, n)
<1>1. /\ a[0].rows = NoRows /\ a[0].fates = EmptyBag /\ a[0].struct = {} /\ a[0].text = {}
      /\ a[0].active = {} /\ a[0].nodeTexts = EmptyBag /\ a[0].edges = EmptyBag
      /\ a[0].available = EmptyBag
  BY DEF CoverageRun, NothingObserved
<1>2. ASSUME NEW k \in 1 .. n
      PROVE  /\ a[k].rows = IF Covered(all, k) THEN Tally(a[k - 1].rows, all[k], TRUE)
                                               ELSE Tally(a[k - 1].rows, all[k], FALSE)
             /\ a[k].fates = Inc(a[k - 1].fates, FateKeys(all, k))
             /\ a[k].struct = a[k - 1].struct \cup LinkedKeys(all, k)
             /\ a[k].text = a[k - 1].text \cup WritingKeys(all, k)
             /\ a[k].active = a[k - 1].active \cup ActiveKeys(all, k)
             /\ a[k].nodeTexts = Inc(a[k - 1].nodeTexts, WritingKeys(all, k))
             /\ a[k].edges = Inc(a[k - 1].edges, EdgeKeys(all, k))
             /\ a[k].available = Inc(a[k - 1].available, TextKeys(all, k))
  <2>1. PICK v : v = a[k - 1]
    OBVIOUS
  <2>2. a[k] = ObserveCoverage(v, all[k])
    BY <2>1 DEF CoverageRun
  <2>3. ObserveCoverage(v, all[k]) =
          [rows |-> Tally(v.rows, all[k], Covered(all, k)),
           fates |-> Inc(v.fates, FateKeys(all, k)),
           struct |-> v.struct \cup LinkedKeys(all, k),
           text |-> v.text \cup WritingKeys(all, k),
           active |-> v.active \cup ActiveKeys(all, k),
           nodeTexts |-> Inc(v.nodeTexts, WritingKeys(all, k)),
           edges |-> Inc(v.edges, EdgeKeys(all, k)),
           available |-> Inc(v.available, TextKeys(all, k)),
           edgeTexts |-> Inc(v.edgeTexts, EdgeTextKeys(all, k))]
    BY Zenon DEF ObserveCoverage, FateKeys, LinkedKeys, WritingKeys, ActiveKeys, EdgeKeys, TextKeys,
                 EdgeTextKeys, Covered, Linked, Writing
  <2>4. Tally(v.rows, all[k], Covered(all, k))
          = IF Covered(all, k) THEN Tally(v.rows, all[k], TRUE) ELSE Tally(v.rows, all[k], FALSE)
    BY DEF Tally
  <2>5. PICK x1, x2, x3, x4, x5, x6, x7, x8, x9 :
          /\ x1 = Tally(v.rows, all[k], Covered(all, k))
          /\ x2 = Inc(v.fates, FateKeys(all, k))
          /\ x3 = v.struct \cup LinkedKeys(all, k)
          /\ x4 = v.text \cup WritingKeys(all, k)
          /\ x5 = v.active \cup ActiveKeys(all, k)
          /\ x6 = Inc(v.nodeTexts, WritingKeys(all, k))
          /\ x7 = Inc(v.edges, EdgeKeys(all, k))
          /\ x8 = Inc(v.available, TextKeys(all, k))
          /\ x9 = Inc(v.edgeTexts, EdgeTextKeys(all, k))
    OBVIOUS
  <2>6. a[k] = [rows |-> x1, fates |-> x2, struct |-> x3, text |-> x4, active |-> x5,
                nodeTexts |-> x6, edges |-> x7, available |-> x8, edgeTexts |-> x9]
    BY <2>2, <2>3, <2>5
  <2>7. /\ a[k].rows = x1 /\ a[k].fates = x2 /\ a[k].struct = x3 /\ a[k].text = x4
        /\ a[k].active = x5 /\ a[k].nodeTexts = x6 /\ a[k].edges = x7 /\ a[k].available = x8
    BY <2>6
  <2> QED BY <2>1, <2>4, <2>5, <2>7
<1> QED BY <1>1, <1>2 DEF CoverageGives

\* A counter among the fields of an accumulator, and a set among them.
FieldCounts(a, f, K, n) ==
  a[0][f] = EmptyBag /\ \A k \in 1 .. n : a[k][f] = Inc(a[k - 1][f], K[k])
FieldGathers(a, f, K, n) ==
  a[0][f] = {} /\ \A k \in 1 .. n : a[k][f] = a[k - 1][f] \cup K[k]

\* What a counter says of n records.
Says(c, K, n) == \A x : CountOf(x, c) = Cardinality({i \in 1 .. n : x \in K[i]})

\* A field that is a counter, after n records: CounterFact, of a field.
LEMMA FieldCounter ==
  ASSUME NEW n \in Nat, NEW a, NEW f, NEW K, FieldCounts(a, f, K, n)
  PROVE  /\ a[n][f] = Counted(K, n)
         /\ Says(a[n][f], K, n)
<1>1. PICK c : c = [k \in 0 .. n |-> a[k][f]]
  OBVIOUS
<1>2. \A k \in 1 .. n : k \in 0 .. n /\ k - 1 \in 0 .. n
  OBVIOUS
<1>3. 0 \in 0 .. n /\ n \in 0 .. n
  OBVIOUS
<1>4. CountsKeys(c, K, n)
  BY <1>1, <1>2, <1>3 DEF CountsKeys, FieldCounts
<1>5. c[n] = Counted(K, n)
  BY <1>3, <1>4, CounterFact
<1>6. \A x : CountOf(x, c[n]) = Cardinality({i \in 1 .. n : x \in K[i]})
  BY <1>4, CounterSays
<1>7. Says(c[n], K, n)
  BY <1>6 DEF Says
<1> QED BY <1>1, <1>3, <1>5, <1>7

\* A field that is a set, after n records: GatherFact, of a field.
LEMMA FieldSet ==
  ASSUME NEW n \in Nat, NEW a, NEW f, NEW K, FieldGathers(a, f, K, n)
  PROVE  a[n][f] = UNION {K[i] : i \in 1 .. n}
<1>1. PICK u : u = [k \in 0 .. n |-> a[k][f]]
  OBVIOUS
<1>2. \A k \in 1 .. n : k \in 0 .. n /\ k - 1 \in 0 .. n
  OBVIOUS
<1>3. 0 \in 0 .. n /\ n \in 0 .. n
  OBVIOUS
<1>4. Gathers(u, K, n)
  BY <1>1, <1>2, <1>3 DEF Gathers, FieldGathers
<1>5. u[n] = UNION {K[i] : i \in 1 .. n}
  BY <1>4, GatherFact
<1> QED BY <1>1, <1>3, <1>5

\* The field rows, after n records: TallyFact, of a field.
LEMMA FieldRows ==
  ASSUME NEW n \in Nat, NEW a, NEW all, NEW good \in SUBSET (1 .. n), a[0].rows = NoRows,
         \A k \in 1 .. n : a[k].rows = IF k \in good THEN Tally(a[k - 1].rows, all[k], TRUE)
                                                     ELSE Tally(a[k - 1].rows, all[k], FALSE)
  PROVE  RowsAre(a[n].rows, all, good, n)
<1>1. PICK t : t = [k \in 0 .. n |-> a[k].rows]
  OBVIOUS
<1>2. \A k \in 1 .. n : k \in 0 .. n /\ k - 1 \in 0 .. n
  OBVIOUS
<1>3. 0 \in 0 .. n /\ n \in 0 .. n
  OBVIOUS
<1>4. TalliesRows(t, all, good, n)
  BY <1>1, <1>2, <1>3 DEF TalliesRows
<1> QED BY <1>1, <1>3, <1>4, TallyFact

CoverageSees(v, all, n) ==
  /\ RowsAre(v.rows, all, {i \in 1 .. n : Covered(all, i)}, n)
  /\ \A x : CountOf(x, v.fates) = Cardinality({i \in 1 .. n : x \in FateKeys(all, i)})
  /\ v.struct = UNION {LinkedKeys(all, i) : i \in 1 .. n}
  /\ v.text = UNION {WritingKeys(all, i) : i \in 1 .. n}
  /\ v.active = UNION {ActiveKeys(all, i) : i \in 1 .. n}
  /\ v.nodeTexts = Counted([i \in 1 .. n |-> WritingKeys(all, i)], n)
  /\ \A x : CountOf(x, v.edges) = Cardinality({i \in 1 .. n : x \in EdgeKeys(all, i)})
  /\ \A x : CountOf(x, v.available) = Cardinality({i \in 1 .. n : x \in TextKeys(all, i)})

\* After n records the coverage accumulator holds the fates, pairs and edges of them.
LEMMA CoverageSeen ==
  ASSUME NEW all, NEW n \in Nat, NEW a, CoverageRun(a, all, n)
  PROVE  CoverageSees(a[n], all, n)
<1>1. CoverageGives(a, all, n)
  BY CoverageFields
<1>2. RowsAre(a[n].rows, all, {i \in 1 .. n : Covered(all, i)}, n)
  <2>1. PICK good : good = {i \in 1 .. n : Covered(all, i)} /\ good \in SUBSET (1 .. n)
    OBVIOUS
  <2>2. /\ a[0].rows = NoRows
        /\ \A k \in 1 .. n :
             a[k].rows = IF k \in good THEN Tally(a[k - 1].rows, all[k], TRUE)
                                       ELSE Tally(a[k - 1].rows, all[k], FALSE)
    BY <1>1, <2>1 DEF CoverageGives
  <2> QED BY <2>1, <2>2, FieldRows
<1>3. \A x : CountOf(x, a[n].fates) = Cardinality({i \in 1 .. n : x \in FateKeys(all, i)})
  <2>1. PICK K : K = [i \in 1 .. n |-> FateKeys(all, i)]
    OBVIOUS
  <2>2. FieldCounts(a, "fates", K, n)
    BY <1>1, <2>1 DEF CoverageGives, FieldCounts
  <2>3. Says(a[n]["fates"], K, n)
    BY <2>2, FieldCounter
  <2>4. \A x : {i \in 1 .. n : x \in K[i]} = {i \in 1 .. n : x \in FateKeys(all, i)}
    BY <2>1
  <2> QED BY <2>3, <2>4 DEF Says
<1>4. a[n].struct = UNION {LinkedKeys(all, i) : i \in 1 .. n}
  <2>1. PICK K : K = [i \in 1 .. n |-> LinkedKeys(all, i)]
    OBVIOUS
  <2>2. FieldGathers(a, "struct", K, n)
    BY <1>1, <2>1 DEF CoverageGives, FieldGathers
  <2>3. a[n]["struct"] = UNION {K[i] : i \in 1 .. n}
    BY <2>2, FieldSet
  <2> QED BY <2>1, <2>3
<1>5. a[n].text = UNION {WritingKeys(all, i) : i \in 1 .. n}
  <2>1. PICK K : K = [i \in 1 .. n |-> WritingKeys(all, i)]
    OBVIOUS
  <2>2. FieldGathers(a, "text", K, n)
    BY <1>1, <2>1 DEF CoverageGives, FieldGathers
  <2>3. a[n]["text"] = UNION {K[i] : i \in 1 .. n}
    BY <2>2, FieldSet
  <2> QED BY <2>1, <2>3
<1>6. a[n].active = UNION {ActiveKeys(all, i) : i \in 1 .. n}
  <2>1. PICK K : K = [i \in 1 .. n |-> ActiveKeys(all, i)]
    OBVIOUS
  <2>2. FieldGathers(a, "active", K, n)
    BY <1>1, <2>1 DEF CoverageGives, FieldGathers
  <2>3. a[n]["active"] = UNION {K[i] : i \in 1 .. n}
    BY <2>2, FieldSet
  <2> QED BY <2>1, <2>3
<1>7. a[n].nodeTexts = Counted([i \in 1 .. n |-> WritingKeys(all, i)], n)
  <2>1. PICK K : K = [i \in 1 .. n |-> WritingKeys(all, i)]
    OBVIOUS
  <2>2. FieldCounts(a, "nodeTexts", K, n)
    BY <1>1, <2>1 DEF CoverageGives, FieldCounts
  <2>3. a[n]["nodeTexts"] = Counted(K, n)
    BY <2>2, FieldCounter
  <2> QED BY <2>1, <2>3
<1>8. \A x : CountOf(x, a[n].edges) = Cardinality({i \in 1 .. n : x \in EdgeKeys(all, i)})
  <2>1. PICK K : K = [i \in 1 .. n |-> EdgeKeys(all, i)]
    OBVIOUS
  <2>2. FieldCounts(a, "edges", K, n)
    BY <1>1, <2>1 DEF CoverageGives, FieldCounts
  <2>3. Says(a[n]["edges"], K, n)
    BY <2>2, FieldCounter
  <2>4. \A x : {i \in 1 .. n : x \in K[i]} = {i \in 1 .. n : x \in EdgeKeys(all, i)}
    BY <2>1
  <2> QED BY <2>3, <2>4 DEF Says
<1>9. \A x : CountOf(x, a[n].available) = Cardinality({i \in 1 .. n : x \in TextKeys(all, i)})
  <2>1. PICK K : K = [i \in 1 .. n |-> TextKeys(all, i)]
    OBVIOUS
  <2>2. FieldCounts(a, "available", K, n)
    BY <1>1, <2>1 DEF CoverageGives, FieldCounts
  <2>3. Says(a[n]["available"], K, n)
    BY <2>2, FieldCounter
  <2>4. \A x : {i \in 1 .. n : x \in K[i]} = {i \in 1 .. n : x \in TextKeys(all, i)}
    BY <2>1
  <2> QED BY <2>3, <2>4 DEF Says
<1> QED BY <1>2, <1>3, <1>4, <1>5, <1>6, <1>7, <1>8, <1>9 DEF CoverageSees

\* The second of the pairs whose first is s.
Pairing(K, J, l, m, n) ==
  \A i \in 1 .. n : K[i] = IF i \in J THEN {<<l[i], m[i]>>} ELSE {}
Paired(K, n) == UNION {K[i] : i \in 1 .. n}
SecondsAt(J, l, m, n, s) == {m[i] : i \in {j \in 1 .. n : j \in J /\ l[j] = s}}

\* The second members of the pairs of a quarter are those of its records.
LEMMA PairsAtFact ==
  ASSUME NEW n \in Nat, NEW J, NEW l, NEW m, NEW K, Pairing(K, J, l, m, n), NEW s
  PROVE  NodesAt(Paired(K, n), s) = SecondsAt(J, l, m, n, s)
<1>1. PICK pairs : pairs = Paired(K, n) /\ pairs = UNION {K[i] : i \in 1 .. n}
  BY DEF Paired
<1>2. ASSUME NEW p \in pairs, p[1] = s
      PROVE  p[2] \in {m[i] : i \in {j \in 1 .. n : j \in J /\ l[j] = s}}
  <2>1. PICK i \in 1 .. n : p \in K[i]
    BY <1>1
  <2>2. i \in J /\ p = <<l[i], m[i]>>
    BY <2>1 DEF Pairing
  <2>3. p[1] = l[i] /\ p[2] = m[i]
    BY <2>2
  <2> QED BY <1>2, <2>2, <2>3
<1>3. ASSUME NEW i \in 1 .. n, i \in J, l[i] = s PROVE m[i] \in NodesAt(pairs, s)
  <2>1. PICK p : p = <<l[i], m[i]>>
    OBVIOUS
  <2>2. p \in pairs
    BY <1>1, <1>3, <2>1 DEF Pairing
  <2>3. p[1] = s /\ p[2] = m[i]
    BY <1>3, <2>1
  <2> QED BY <2>2, <2>3 DEF NodesAt
<1>4. NodesAt(pairs, s) \subseteq {m[i] : i \in {j \in 1 .. n : j \in J /\ l[j] = s}}
  BY <1>2 DEF NodesAt
<1>5. {m[i] : i \in {j \in 1 .. n : j \in J /\ l[j] = s}} \subseteq NodesAt(pairs, s)
  BY <1>3
<1> QED BY <1>1, <1>4, <1>5 DEF SecondsAt

\* Two sets: what is in one, in the other, in both, makes up their union.
LEMMA PartsOfUnion ==
  ASSUME NEW A, NEW B, IsFiniteSet(A), IsFiniteSet(B)
  PROVE  Cardinality(A \ B) + Cardinality(B \ A) + Cardinality(A \cap B) = Cardinality(A \cup B)
<1>1. IsFiniteSet(A \cap B)
  BY FS_Intersection
<1>2. PICK a \in Nat, b \in Nat, c \in Nat :
        a = Cardinality(A) /\ b = Cardinality(B) /\ c = Cardinality(A \cap B)
  BY <1>1, FS_CardinalityType
<1>3. Cardinality(A \ B) = a - c
  BY <1>2, FS_Difference
<1>4. Cardinality(B \ A) = b - c
  <2>1. Cardinality(B \ A) = b - Cardinality(B \cap A)
    BY <1>2, FS_Difference
  <2>2. B \cap A = A \cap B
    OBVIOUS
  <2> QED BY <1>2, <2>1, <2>2
<1>5. Cardinality(A \cup B) = a + b - c
  BY <1>2, FS_Union
<1>6. (a - c) + (b - c) + c = a + b - c
  OBVIOUS
<1> QED BY <1>2, <1>3, <1>4, <1>5, <1>6

\* The records of a quarter that are kept; the nodes with edges and with texts.
KeptAt(all, s) == {i \in DOMAIN all : CoverageFate(all[i]) = "accepted" /\ Label(all[i]) = s}
LinkedAt(all, s) == {all[i].author : i \in {i \in KeptAt(all, s) : all[i].dataset = "A"}}
WritingAt(all, s) == {all[i].author : i \in {i \in KeptAt(all, s) : NodeText(all[i])}}

\* The nodes of a quarter by structure, by text and by either are the authors of its records.
LEMMA CoverageNodes ==
  ASSUME NEW all, NEW n, IsRecords(all, n), NEW v, CoverageSees(v, all, n), NEW s
  PROVE  /\ NodesAt(v.struct, s) = LinkedAt(all, s)
         /\ NodesAt(v.text, s) = WritingAt(all, s)
         /\ NodesAt(v.active, s) = LinkedAt(all, s) \cup WritingAt(all, s)
         /\ NodesAt(v.struct \cup v.text, s) = LinkedAt(all, s) \cup WritingAt(all, s)
<1>1. n \in Nat /\ DOMAIN all = 1 .. n
  BY RecordsFact
<1>2. PICK l, m : l = [i \in 1 .. n |-> Label(all[i])] /\ m = [i \in 1 .. n |-> all[i].author]
  OBVIOUS
<1>3. NodesAt(v.struct, s) = LinkedAt(all, s)
  <2>1. PICK J : J = {i \in 1 .. n : Linked(all, i)}
    OBVIOUS
  <2>2. PICK K : K = [i \in 1 .. n |-> LinkedKeys(all, i)]
    OBVIOUS
  <2>3. Pairing(K, J, l, m, n)
    BY <1>2, <2>1, <2>2 DEF LinkedKeys, When, Pairing
  <2>4. NodesAt(Paired(K, n), s) = SecondsAt(J, l, m, n, s)
    BY <1>1, <2>3, PairsAtFact
  <2>5. v.struct = Paired(K, n)
    BY <2>2 DEF CoverageSees, Paired
  <2>6. SecondsAt(J, l, m, n, s) = LinkedAt(all, s)
    BY <1>1, <1>2, <2>1 DEF SecondsAt, LinkedAt, KeptAt, Linked, Covered
  <2> QED BY <2>4, <2>5, <2>6
<1>4. NodesAt(v.text, s) = WritingAt(all, s)
  <2>1. PICK J : J = {i \in 1 .. n : Writing(all, i)}
    OBVIOUS
  <2>2. PICK K : K = [i \in 1 .. n |-> WritingKeys(all, i)]
    OBVIOUS
  <2>3. Pairing(K, J, l, m, n)
    BY <1>2, <2>1, <2>2 DEF WritingKeys, When, Pairing
  <2>4. NodesAt(Paired(K, n), s) = SecondsAt(J, l, m, n, s)
    BY <1>1, <2>3, PairsAtFact
  <2>5. v.text = Paired(K, n)
    BY <2>2 DEF CoverageSees, Paired
  <2>6. SecondsAt(J, l, m, n, s) = WritingAt(all, s)
    BY <1>1, <1>2, <2>1 DEF SecondsAt, WritingAt, KeptAt, Writing, Covered
  <2> QED BY <2>4, <2>5, <2>6
<1>5. v.active = v.struct \cup v.text
  <2>1. ASSUME NEW i \in 1 .. n
        PROVE  ActiveKeys(all, i) = LinkedKeys(all, i) \cup WritingKeys(all, i)
    BY DEF ActiveKeys, LinkedKeys, WritingKeys, Linked, Writing, When
  <2> QED BY <2>1 DEF CoverageSees
<1>6. NodesAt(v.struct \cup v.text, s) = NodesAt(v.struct, s) \cup NodesAt(v.text, s)
  BY DEF NodesAt
<1> QED BY <1>3, <1>4, <1>5, <1>6

\* The nodes of a quarter are finitely many.
LEMMA CoverageFinite ==
  ASSUME NEW all, NEW n, IsRecords(all, n), NEW s
  PROVE  /\ IsFiniteSet(LinkedAt(all, s)) /\ IsFiniteSet(WritingAt(all, s))
<1>1. n \in Nat /\ DOMAIN all = 1 .. n
  BY RecordsFact
<1>2. PICK f : f = [i \in 1 .. n |-> all[i].author]
  OBVIOUS
<1>3. IsFiniteSet({f[i] : i \in DOMAIN f})
  <2>1. IsFiniteSet(1 .. n)
    BY <1>1, FS_Interval
  <2>2. IsFiniteSet(DOMAIN f)
    BY <1>2, <2>1
  <2> QED BY <2>2, FiniteValues
<1>4. LinkedAt(all, s) \subseteq {f[i] : i \in DOMAIN f}
  BY <1>1, <1>2 DEF LinkedAt, KeptAt
<1>5. WritingAt(all, s) \subseteq {f[i] : i \in DOMAIN f}
  BY <1>1, <1>2 DEF WritingAt, KeptAt
<1> QED BY <1>3, <1>4, <1>5, FS_Subset

\* What the counters of edges say of a quarter.
EdgesSay(v, all, s) ==
  /\ CountOf(<<s, TRUE>>, v.available) = Cardinality({i \in KeptAt(all, s) : EdgeText(all[i])})
  /\ \A rel \in Relations :
       /\ CountOf(<<s, rel>>, v.edges)
            = Cardinality({i \in KeptAt(all, s) : all[i].relation = rel})
       /\ LinkedAt(all, s) = {} => CountOf(<<s, rel>>, v.edges) = 0

\* The edges of a quarter, all of them and those with text, are counted once each.
LEMMA CoverageCounted ==
  ASSUME NEW all, NEW n, IsRecords(all, n), NEW v, CoverageSees(v, all, n), NEW s
  PROVE  EdgesSay(v, all, s)
<1>1. n \in Nat /\ DOMAIN all = 1 .. n
  BY RecordsFact
<1>2. {i \in 1 .. n : <<s, TRUE>> \in TextKeys(all, i)}
        = {i \in KeptAt(all, s) : EdgeText(all[i])}
  <2>1. ASSUME NEW i \in 1 .. n
        PROVE  <<s, TRUE>> \in TextKeys(all, i)
                 <=> Linked(all, i) /\ Label(all[i]) = s /\ EdgeText(all[i])
    <3>1. PICK b : b = <<Label(all[i]), EdgeText(all[i])>>
      OBVIOUS
    <3>2. b = <<s, TRUE>> <=> Label(all[i]) = s /\ EdgeText(all[i])
      BY <3>1, Zenon DEF EdgeText
    <3> QED BY <3>1, <3>2 DEF TextKeys, When
  <2>2. \A i \in 1 .. n : EdgeText(all[i]) => all[i].dataset = "A"
    BY DEF EdgeText
  <2> QED BY <1>1, <2>1, <2>2 DEF KeptAt, Linked, Covered
<1>3. ASSUME NEW rel \in Relations
      PROVE  {i \in 1 .. n : <<s, rel>> \in EdgeKeys(all, i)}
               = {i \in KeptAt(all, s) : all[i].relation = rel}
  <2>1. rel # ""
    BY CountsAssumption
  <2>2. \A i \in 1 .. n : all[i].relation = rel => all[i].dataset = "A"
    BY <2>1, RecordsFact DEF Datasets
  <2>3. \A i \in 1 .. n : <<s, rel>> \in EdgeKeys(all, i)
                            <=> Linked(all, i) /\ Label(all[i]) = s /\ all[i].relation = rel
    BY DEF EdgeKeys, When
  <2> QED BY <1>1, <2>2, <2>3 DEF KeptAt, Linked, Covered
<1>4. ASSUME NEW rel \in Relations, LinkedAt(all, s) = {}
      PROVE  Cardinality({i \in KeptAt(all, s) : all[i].relation = rel}) = 0
  <2>1. rel # ""
    BY CountsAssumption
  <2>2. \A i \in 1 .. n : all[i].relation = rel => all[i].dataset = "A"
    BY <2>1, RecordsFact DEF Datasets
  <2>3. {i \in KeptAt(all, s) : all[i].relation = rel} = {}
    BY <1>1, <1>4, <2>2 DEF LinkedAt, KeptAt
  <2> QED BY <2>3, FS_EmptySet
<1>5. CountOf(<<s, TRUE>>, v.available)
        = Cardinality({i \in 1 .. n : <<s, TRUE>> \in TextKeys(all, i)})
  BY DEF CoverageSees
<1>6. \A rel : CountOf(<<s, rel>>, v.edges)
                 = Cardinality({i \in 1 .. n : <<s, rel>> \in EdgeKeys(all, i)})
  BY DEF CoverageSees
<1> QED BY <1>2, <1>3, <1>4, <1>5, <1>6 DEF EdgesSay

\* The texts of a node, of all nodes of a quarter the most.
TextsOf(all, s, m) ==
  Cardinality({i \in DOMAIN all : /\ CoverageFate(all[i]) = "accepted" /\ Label(all[i]) = s
                                  /\ NodeText(all[i]) /\ all[i].author = m})
MostTexts(v, s) ==
  Max({0} \cup {v.nodeTexts[x] : x \in {k \in DOMAIN v.nodeTexts : k[1] = s}})

\* No node has more texts in a quarter than the most that is reported.
LEMMA CoverageMost ==
  ASSUME NEW all, NEW n, IsRecords(all, n), NEW v, CoverageSees(v, all, n), NEW s,
         NEW m \in WritingAt(all, s)
  PROVE  TextsOf(all, s, m) <= MostTexts(v, s)
<1>1. n \in Nat /\ DOMAIN all = 1 .. n
  BY RecordsFact
<1>2. PICK K : K = [i \in 1 .. n |-> WritingKeys(all, i)] /\ v.nodeTexts = Counted(K, n)
  BY DEF CoverageSees
<1>3. PICK c : c = v.nodeTexts /\ DOMAIN c = KeysUpto(K, n)
               /\ \A x \in DOMAIN c : c[x] = Cardinality(Having(K, x, n))
  BY <1>2 DEF Counted
<1>4. PICK p : p = <<s, m>>
  OBVIOUS
<1>5. \A i \in 1 .. n : p \in K[i] <=> Writing(all, i) /\ Label(all[i]) = s /\ all[i].author = m
  BY <1>2, <1>4 DEF WritingKeys, When
<1>6. p \in DOMAIN c /\ p[1] = s
  <2>1. PICK i \in 1 .. n : Writing(all, i) /\ Label(all[i]) = s /\ all[i].author = m
    BY <1>1 DEF WritingAt, KeptAt, Writing, Covered
  <2>2. p \in K[i]
    BY <1>5, <2>1
  <2> QED BY <1>3, <1>4, <2>2 DEF KeysUpto
<1>7. TextsOf(all, s, m) = c[p]
  <2>1. Having(K, p, n) = {i \in DOMAIN all : /\ CoverageFate(all[i]) = "accepted"
                                              /\ Label(all[i]) = s
                                              /\ NodeText(all[i]) /\ all[i].author = m}
    BY <1>1, <1>5 DEF Having, Writing, Covered
  <2> QED BY <1>3, <1>6, <2>1 DEF TextsOf
<1>8. ASSUME NEW x \in DOMAIN c PROVE c[x] \in 0 .. n
  <2>1. Having(K, x, n) \subseteq 1 .. n /\ IsFiniteSet(1 .. n) /\ Cardinality(1 .. n) = n
    <3>1. Cardinality(1 .. n) = (IF 1 > n THEN 0 ELSE n - 1 + 1) /\ IsFiniteSet(1 .. n)
      BY <1>1, FS_Interval
    <3>2. (IF 1 > n THEN 0 ELSE n - 1 + 1) = n
      BY <1>1
    <3> QED BY <3>1, <3>2 DEF Having
  <2>2. Cardinality(Having(K, x, n)) <= n
    BY <2>1, FS_Subset
  <2>3. Cardinality(Having(K, x, n)) \in Nat
    BY <1>1, HavingFact
  <2> QED BY <1>1, <1>3, <2>2, <2>3
<1>9. PICK S : S = {0} \cup {c[x] : x \in {k \in DOMAIN c : k[1] = s}}
  OBVIOUS
<1>10. S \in SUBSET (0 .. n) /\ S # {} /\ c[p] \in S
  BY <1>1, <1>6, <1>8, <1>9
<1>11. c[p] <= Max(S)
  BY <1>1, <1>10, MaxFact
<1> QED BY <1>3, <1>7, <1>9, <1>11 DEF MostTexts

\* What the report says of a quarter.
QuarterSays(rep, all, s) ==
  /\ rep.perSnapshot[s].structureOnly = Cardinality(LinkedAt(all, s) \ WritingAt(all, s))
  /\ rep.perSnapshot[s].textOnly = Cardinality(WritingAt(all, s) \ LinkedAt(all, s))
  /\ rep.perSnapshot[s].structureOnly + rep.perSnapshot[s].textOnly
       + rep.perSnapshot[s].both = rep.perSnapshot[s].active
  /\ rep.perSnapshot[s].withText = Cardinality({i \in KeptAt(all, s) : EdgeText(all[i])})
  /\ \A m \in WritingAt(all, s) : TextsOf(all, s, m) <= rep.perSnapshot[s].mostTexts
  /\ \A rel \in Relations :
       /\ rep.perSnapshot[s].edges[rel]
            = Cardinality({i \in KeptAt(all, s) : all[i].relation = rel})
       /\ s \in rep.relationEmpty[rel] <=> rep.perSnapshot[s].edges[rel] = 0
  /\ s \in rep.empty <=> LinkedAt(all, s) \cup WritingAt(all, s) = {}

\* The coverage report of what was seen is its definition over all records.
LEMMA CoverageReported ==
  ASSUME NEW all, NEW n, IsRecords(all, n), NEW v, CoverageSees(v, all, n)
  PROVE  CoverageExact(CoverageReport(v), all)
<1>1. n \in Nat /\ DOMAIN all = 1 .. n /\ Len(all) = n
  BY RecordsFact DEF IsRecords
<1>2. PICK rep : rep = CoverageReport(v)
  OBVIOUS
<1>3. rep.rows = v.rows /\ rep.fates = v.fates
  BY <1>2 DEF CoverageReport
<1>4. ASSUME NEW s \in Quarters
      PROVE  /\ rep.perSnapshot[s].structureOnly
                  = Cardinality(NodesAt(v.struct, s) \ NodesAt(v.text, s))
             /\ rep.perSnapshot[s].textOnly
                  = Cardinality(NodesAt(v.text, s) \ NodesAt(v.struct, s))
             /\ rep.perSnapshot[s].both
                  = Cardinality(NodesAt(v.struct, s) \cap NodesAt(v.text, s))
             /\ rep.perSnapshot[s].active = Cardinality(NodesAt(v.active, s))
             /\ rep.perSnapshot[s].withText = CountOf(<<s, TRUE>>, v.available)
             /\ rep.perSnapshot[s].mostTexts = MostTexts(v, s)
             /\ \A rel \in Relations :
                  /\ rep.perSnapshot[s].edges[rel] = CountOf(<<s, rel>>, v.edges)
                  /\ s \in rep.relationEmpty[rel] <=> CountOf(<<s, rel>>, v.edges) = 0
             /\ s \in rep.empty <=> /\ \A rel \in Relations : CountOf(<<s, rel>>, v.edges) = 0
                                    /\ NodesAt(v.struct \cup v.text, s) = {}
  BY <1>2 DEF CoverageReport, MostTexts
<1>5. /\ rep.rows.inspected = Len(all)
      /\ rep.rows.accepted = Cardinality({i \in DOMAIN all : CoverageFate(all[i]) = "accepted"})
      /\ rep.rows.accepted + rep.rows.rejected = rep.rows.inspected
      /\ rep.rows.files = {all[i].file : i \in DOMAIN all}
  <2>1. RowsAre(rep.rows, all, {i \in 1 .. n : Covered(all, i)}, n)
    BY <1>3 DEF CoverageSees
  <2>2. {i \in 1 .. n : Covered(all, i)} = {i \in DOMAIN all : CoverageFate(all[i]) = "accepted"}
    BY <1>1 DEF Covered
  <2> QED BY <1>1, <2>1, <2>2 DEF RowsAre
<1>6. ASSUME NEW f \in {"missing", "invalid", "outside", "loop"}
      PROVE  CountOf(f, rep.fates) = Cardinality({i \in DOMAIN all : CoverageFate(all[i]) = f})
  <2>1. f # "accepted"
    OBVIOUS
  <2>2. \A i \in 1 .. n : f \in FateKeys(all, i) <=> CoverageFate(all[i]) = f
    BY <2>1 DEF FateKeys, When, Covered
  <2>3. {i \in 1 .. n : f \in FateKeys(all, i)} = {i \in DOMAIN all : CoverageFate(all[i]) = f}
    BY <1>1, <2>2
  <2>4. CountOf(f, v.fates) = Cardinality({i \in 1 .. n : f \in FateKeys(all, i)})
    BY DEF CoverageSees
  <2> QED BY <1>3, <2>3, <2>4
<1>7. ASSUME NEW s \in Quarters PROVE QuarterSays(rep, all, s)
  <2>1. PICK L, W : L = LinkedAt(all, s) /\ W = WritingAt(all, s)
    OBVIOUS
  <2>2. /\ NodesAt(v.struct, s) = L /\ NodesAt(v.text, s) = W /\ NodesAt(v.active, s) = L \cup W
        /\ NodesAt(v.struct \cup v.text, s) = L \cup W
    BY <2>1, CoverageNodes
  <2>3. IsFiniteSet(L) /\ IsFiniteSet(W)
    BY <2>1, CoverageFinite
  <2>4. /\ rep.perSnapshot[s].structureOnly = Cardinality(L \ W)
        /\ rep.perSnapshot[s].textOnly = Cardinality(W \ L)
        /\ rep.perSnapshot[s].both = Cardinality(L \cap W)
        /\ rep.perSnapshot[s].active = Cardinality(L \cup W)
    BY <1>4, <2>2
  <2>5. rep.perSnapshot[s].structureOnly + rep.perSnapshot[s].textOnly
          + rep.perSnapshot[s].both = rep.perSnapshot[s].active
    BY <2>3, <2>4, PartsOfUnion
  <2> EdgesSay(v, all, s)
    BY CoverageCounted
  <2>6. rep.perSnapshot[s].withText = Cardinality({i \in KeptAt(all, s) : EdgeText(all[i])})
    BY <1>4 DEF EdgesSay
  <2>7. ASSUME NEW m \in WritingAt(all, s)
        PROVE  TextsOf(all, s, m) <= rep.perSnapshot[s].mostTexts
    <3>1. TextsOf(all, s, m) <= MostTexts(v, s)
      BY CoverageMost
    <3> QED BY <1>4, <3>1
  <2>8. ASSUME NEW rel \in Relations
        PROVE  /\ rep.perSnapshot[s].edges[rel]
                    = Cardinality({i \in KeptAt(all, s) : all[i].relation = rel})
               /\ s \in rep.relationEmpty[rel] <=> rep.perSnapshot[s].edges[rel] = 0
    BY <1>4 DEF EdgesSay
  <2>9. s \in rep.empty <=> L \cup W = {}
    <3>1. L = {} => \A rel \in Relations : CountOf(<<s, rel>>, v.edges) = 0
      BY <2>1 DEF EdgesSay
    <3>2. s \in rep.empty <=> /\ \A rel \in Relations : CountOf(<<s, rel>>, v.edges) = 0
                              /\ NodesAt(v.struct \cup v.text, s) = {}
      BY <1>4
    <3>3. L \cup W = {} => L = {}
      OBVIOUS
    <3> QED BY <2>2, <3>1, <3>2, <3>3, Zenon
  <2> QED BY <2>1, <2>4, <2>5, <2>6, <2>7, <2>8, <2>9 DEF QuarterSays
<1>8. RowsExact(rep.rows, all, LAMBDA r : CoverageFate(r) = "accepted")
  BY <1>5 DEF RowsExact, Number, Which
<1>9. ASSUME NEW s
      PROVE  /\ LinkedAt(all, s) = {all[i].author : i \in Which(all, LAMBDA r :
                  (CoverageFate(r) = "accepted" /\ Label(r) = s) /\ r.dataset = "A")}
             /\ WritingAt(all, s) = {all[i].author : i \in Which(all, LAMBDA r :
                  (CoverageFate(r) = "accepted" /\ Label(r) = s) /\ NodeText(r))}
             /\ {i \in KeptAt(all, s) : EdgeText(all[i])} = Which(all, LAMBDA r :
                  (CoverageFate(r) = "accepted" /\ Label(r) = s) /\ EdgeText(r))
             /\ \A m : TextsOf(all, s, m) = Cardinality(Which(all, LAMBDA r :
                  /\ CoverageFate(r) = "accepted" /\ Label(r) = s
                  /\ NodeText(r) /\ r.author = m))
             /\ \A rel : {i \in KeptAt(all, s) : all[i].relation = rel} = Which(all, LAMBDA r :
                  (CoverageFate(r) = "accepted" /\ Label(r) = s) /\ r.relation = rel)
  BY DEF LinkedAt, WritingAt, KeptAt, TextsOf, Which
<1>10. CoverageExact(rep, all)
  <2>1. ASSUME NEW s \in Quarters, NEW L, NEW W, L = LinkedAt(all, s), W = WritingAt(all, s)
        PROVE  /\ rep.perSnapshot[s].structureOnly = Cardinality(L \ W)
               /\ rep.perSnapshot[s].textOnly = Cardinality(W \ L)
               /\ rep.perSnapshot[s].structureOnly + rep.perSnapshot[s].textOnly
                    + rep.perSnapshot[s].both = rep.perSnapshot[s].active
               /\ s \in rep.empty <=> L \cup W = {}
    BY <1>7, <2>1 DEF QuarterSays
  <2>2. ASSUME NEW s \in Quarters
        PROVE  rep.perSnapshot[s].withText = Cardinality(Which(all, LAMBDA r :
                  (CoverageFate(r) = "accepted" /\ Label(r) = s) /\ EdgeText(r)))
    BY <1>7, <1>9 DEF QuarterSays
  <2>3. ASSUME NEW s \in Quarters, NEW m \in WritingAt(all, s)
        PROVE  Cardinality(Which(all, LAMBDA r :
                  (CoverageFate(r) = "accepted" /\ Label(r) = s)
                    /\ NodeText(r) /\ r.author = m)) <= rep.perSnapshot[s].mostTexts
    BY <1>7 DEF QuarterSays, TextsOf, Which
  <2>4. ASSUME NEW s \in Quarters, NEW rel \in Relations
        PROVE  /\ rep.perSnapshot[s].edges[rel] = Cardinality(Which(all, LAMBDA r :
                    (CoverageFate(r) = "accepted" /\ Label(r) = s) /\ r.relation = rel))
               /\ s \in rep.relationEmpty[rel] <=> rep.perSnapshot[s].edges[rel] = 0
    <3>1. /\ rep.perSnapshot[s].edges[rel]
               = Cardinality({i \in KeptAt(all, s) : all[i].relation = rel})
          /\ s \in rep.relationEmpty[rel] <=> rep.perSnapshot[s].edges[rel] = 0
      BY <1>7 DEF QuarterSays
    <3>2. {i \in KeptAt(all, s) : all[i].relation = rel} = Which(all, LAMBDA r :
             (CoverageFate(r) = "accepted" /\ Label(r) = s) /\ r.relation = rel)
      BY DEF KeptAt, Which
    <3> QED BY <3>1, <3>2, Zenon
  <2>5. ASSUME NEW f \in {"missing", "invalid", "outside", "loop"}
        PROVE  CountOf(f, rep.fates) = Cardinality(Which(all, LAMBDA r : CoverageFate(r) = f))
    BY <1>6 DEF Which
  <2>6. ASSUME NEW s \in Quarters
        PROVE  LET authors(P(_)) == {all[i].author : i \in Which(all, LAMBDA r :
                                (CoverageFate(r) = "accepted" /\ Label(r) = s) /\ P(r))}
                   linked  == authors(LAMBDA r : r.dataset = "A")
                   writing == authors(NodeText)
                   quarter == rep.perSnapshot[s]
               IN  /\ quarter.structureOnly = Cardinality(linked \ writing)
                   /\ quarter.textOnly = Cardinality(writing \ linked)
                   /\ quarter.structureOnly + quarter.textOnly + quarter.both = quarter.active
                   /\ \A n_1 \in writing :
                        Cardinality(Which(all, LAMBDA r :
                          (CoverageFate(r) = "accepted" /\ Label(r) = s)
                            /\ NodeText(r) /\ r.author = n_1)) <= quarter.mostTexts
                   /\ s \in rep.empty <=> linked \cup writing = {}
    <3>1. PICK L, W : L = LinkedAt(all, s) /\ W = WritingAt(all, s)
      OBVIOUS
    <3>2. /\ L = {all[i].author : i \in Which(all, LAMBDA r :
                    (CoverageFate(r) = "accepted" /\ Label(r) = s) /\ r.dataset = "A")}
          /\ W = {all[i].author : i \in Which(all, LAMBDA r :
                    (CoverageFate(r) = "accepted" /\ Label(r) = s) /\ NodeText(r))}
      BY <1>9, <3>1
    <3>3. /\ rep.perSnapshot[s].structureOnly = Cardinality(L \ W)
          /\ rep.perSnapshot[s].textOnly = Cardinality(W \ L)
          /\ rep.perSnapshot[s].structureOnly + rep.perSnapshot[s].textOnly
               + rep.perSnapshot[s].both = rep.perSnapshot[s].active
          /\ s \in rep.empty <=> L \cup W = {}
      BY <2>1, <3>1
    <3>4. \A m \in W : Cardinality(Which(all, LAMBDA r :
                  (CoverageFate(r) = "accepted" /\ Label(r) = s)
                    /\ NodeText(r) /\ r.author = m)) <= rep.perSnapshot[s].mostTexts
      BY <2>3, <3>1
    <3> QED BY <3>2, <3>3, <3>4, Zenon
  <2> QED BY <1>8, <2>2, <2>4, <2>5, <2>6, Zenon DEF CoverageExact, Number
<1> QED BY <1>2, <1>10

\* The coverage report of a sealed run is right, whatever the workbooks, the
\* chunks and the sessions were.
THEOREM CoverageCountsHolds == Spec => []CoverageCounts
<1>1. CountsInv => CoverageCounts
  <2> SUFFICES ASSUME CountsInv, pc = "sealed"
               PROVE  CoverageExact(reports.coverage, AllRecords)
    BY DEF CoverageCounts
  <2>1. PICK q, n : /\ IsRecords(AllRecords, n) /\ reports = ReportsOf(q[n])
                    /\ q[0].acc = NothingObserved
                    /\ \A k \in 1 .. n : Observed(q[k - 1], q[k], AllRecords[k])
    BY PassSees
  <2>2. n \in Nat
    BY <2>1 DEF IsRecords
  <2>3. PICK a : a = [k \in 0 .. n |-> q[k].acc.coverage]
    OBVIOUS
  <2>4. CoverageRun(a, AllRecords, n)
    <3>1. a[0] = NothingObserved.coverage
      BY <2>1, <2>2, <2>3
    <3>2. ASSUME NEW k \in 1 .. n PROVE a[k] = ObserveCoverage(a[k - 1], AllRecords[k])
      <4>1. k \in 0 .. n /\ k - 1 \in 0 .. n
        BY <2>2
      <4>2. q[k].acc.coverage = ObserveCoverage(q[k - 1].acc.coverage, AllRecords[k])
        BY <2>1, ObservedParts
      <4> QED BY <2>3, <4>1, <4>2
    <3> QED BY <3>1, <3>2 DEF CoverageRun
  <2>5. CoverageSees(a[n], AllRecords, n)
    BY <2>2, <2>4, CoverageSeen
  <2>6. reports.coverage = CoverageReport(a[n])
    <3>1. reports.coverage = CoverageReport(q[n].acc.coverage)
      BY <2>1 DEF ReportsOf
    <3>2. n \in 0 .. n
      BY <2>2
    <3> QED BY <2>3, <3>1, <3>2
  <2> QED BY <2>1, <2>5, <2>6, CoverageReported
<1> QED BY <1>1, CountsInductive, PTL

(***************************************************************************)
(* Counters of values: sums over them, ranks and quantiles.                *)
(***************************************************************************)
\* The records of I by value, and how many there are of each.
ValuesOf(size, I) == {size[i] : i \in I}
Valued(size, I, T) == {i \in I : size[i] \in T}
CountsOf(size, I) == [l \in ValuesOf(size, I) |-> Cardinality({i \in I : size[i] = l})]

\* Finitely many records have finitely many values.
LEMMA ValuesFinite ==
  ASSUME NEW I, IsFiniteSet(I), NEW size
  PROVE  IsFiniteSet(ValuesOf(size, I))
<1>1. PICK f : f = [i \in I |-> size[i]]
  OBVIOUS
<1>2. DOMAIN f = I /\ ValuesOf(size, I) = {f[i] : i \in DOMAIN f}
  BY <1>1 DEF ValuesOf
<1> QED BY <1>2, FiniteValues

\* The records with some of the values are finitely many.
LEMMA ValuedFinite ==
  ASSUME NEW I, IsFiniteSet(I), NEW size, NEW T
  PROVE  IsFiniteSet(Valued(size, I, T)) /\ Cardinality(Valued(size, I, T)) \in Nat
<1>1. Valued(size, I, T) \in SUBSET I
  BY DEF Valued
<1> QED BY <1>1, FS_Subset, FS_CardinalityType

CountsAs(c, size, I) ==
  \A l \in ValuesOf(size, I) : c[l] = Cardinality({i \in I : size[i] = l})

\* The counts of some values add up to the number of records that have them.
LEMMA SumOfCounts ==
  ASSUME NEW I, IsFiniteSet(I), NEW size, NEW D \in SUBSET ValuesOf(size, I),
         NEW c, CountsAs(c, size, I)
  PROVE  SumOver(c, D) = Cardinality(Valued(size, I, D))
<1>1. IsFiniteSet(D)
  BY ValuesFinite, FS_Subset
<1>2. PICK g : g = [T \in SUBSET D |-> Cardinality(Valued(size, I, T))]
  OBVIOUS
<1>3. g[{}] = 0
  <2>1. Valued(size, I, {}) = {}
    BY DEF Valued
  <2> QED BY <1>2, <2>1, FS_EmptySet
<1>4. ASSUME NEW T \in SUBSET D, NEW x \in T PROVE g[T] = c[x] + g[T \ {x}]
  <2>1. PICK A, B : A = {i \in I : size[i] = x} /\ B = Valued(size, I, T \ {x})
    OBVIOUS
  <2>2. Valued(size, I, T) = A \cup B /\ A \cap B = {} /\ A = Valued(size, I, {x})
    BY <2>1 DEF Valued
  <2>3. IsFiniteSet(A) /\ IsFiniteSet(B) /\ Cardinality(A) \in Nat /\ Cardinality(B) \in Nat
    BY <2>1, <2>2, ValuedFinite
  <2>4. Cardinality(A \cup B) = Cardinality(A) + Cardinality(B) - Cardinality(A \cap B)
    BY <2>3, FS_Union
  <2>5. Cardinality(A \cap B) = 0
    BY <2>2, FS_EmptySet
  <2>6. c[x] = Cardinality(A)
    BY <2>1 DEF CountsAs
  <2>7. T \ {x} \in SUBSET D
    OBVIOUS
  <2>8. g[T] = Cardinality(A \cup B) /\ g[T \ {x}] = Cardinality(B)
    BY <1>2, <2>1, <2>2, <2>7
  <2> QED BY <2>3, <2>4, <2>5, <2>6, <2>8
<1>5. GrowsBy(c, g, D)
  BY <1>3, <1>4 DEF GrowsBy
<1>6. SumOver(c, D) = g[D]
  BY <1>1, <1>5, SumFact
<1> QED BY <1>2, <1>6

\* All values together: all records.
LEMMA SumOfAll ==
  ASSUME NEW I, IsFiniteSet(I), NEW size, NEW c, c = CountsOf(size, I)
  PROVE  SumOver(c, DOMAIN c) = Cardinality(I)
<1>1. DOMAIN c = ValuesOf(size, I)
  BY DEF CountsOf
<1>2. Valued(size, I, ValuesOf(size, I)) = I
  BY DEF Valued, ValuesOf
<1>3. SumOver(c, ValuesOf(size, I)) = Cardinality(Valued(size, I, ValuesOf(size, I)))
  <2>1. CountsAs(c, size, I)
    BY DEF CountsOf, CountsAs
  <2> QED BY <2>1, SumOfCounts
<1> QED BY <1>1, <1>2, <1>3

\* The values at or below l, of which there are as many as records.
Below(size, I, l) == {i \in I : size[i] <= l}
Under(size, I, l) == {i \in I : size[i] < l}

\* The running total of a counter at a size is the number of records up to it.
LEMMA RunningTotal ==
  ASSUME NEW I, IsFiniteSet(I), NEW size, NEW c, c = CountsOf(size, I), NEW l
  PROVE  SumOver(c, {k \in DOMAIN c : k <= l}) = Cardinality(Below(size, I, l))
<1>1. DOMAIN c = ValuesOf(size, I)
  BY DEF CountsOf
<1>2. PICK D : D = {k \in DOMAIN c : k <= l}
  OBVIOUS
<1>3. D \in SUBSET ValuesOf(size, I)
  BY <1>1, <1>2
<1>4. Valued(size, I, D) = Below(size, I, l)
  BY <1>1, <1>2 DEF Valued, ValuesOf, Below
<1>5. SumOver(c, D) = Cardinality(Valued(size, I, D))
  <2>1. CountsAs(c, size, I)
    BY DEF CountsOf, CountsAs
  <2> QED BY <1>3, <2>1, SumOfCounts
<1> QED BY <1>2, <1>4, <1>5

\* The length of a rank is the value at that rank of the sorted values.
RankIs(l, size, I, rank) ==
  Cardinality(Under(size, I, l)) <= rank /\ rank < Cardinality(Below(size, I, l))

\* A nonempty finite set of naturals has a greatest element.
LEMMA GreatestNatural ==
  ASSUME NEW S \in SUBSET Nat, IsFiniteSet(S), S # {}
  PROVE  \E m \in S : \A x \in S : x <= m
<1>1. Cardinality(S) \in Nat
  BY FS_CardinalityType
<1> DEFINE U == {n \in Nat : \E x \in S : n <= x}
<1>2. \E b \in Nat : \A x \in S : x <= b
  <2> DEFINE G == {k \in Nat : \A T \in SUBSET S : Cardinality(T) = k =>
                                 \E b \in Nat : \A x \in T : x <= b}
  <2>1. 0 \in G
    <3>1. ASSUME NEW T \in SUBSET S, Cardinality(T) = 0 PROVE T = {}
      BY <3>1, FS_Subset, FS_EmptySet
    <3> QED BY <3>1
  <2>2. ASSUME NEW k \in Nat, k \in G PROVE k + 1 \in G
    <3>1. ASSUME NEW T \in SUBSET S, Cardinality(T) = k + 1
          PROVE  \E b \in Nat : \A x \in T : x <= b
      <4>1. IsFiniteSet(T)
        BY FS_Subset
      <4>2. PICK y \in T : TRUE
        <5>1. Cardinality(T) # 0
          BY <3>1
        <5> QED BY <5>1, FS_EmptySet
      <4>3. Cardinality(T \ {y}) = k
        <5>1. Cardinality(T \ {y}) = Cardinality(T) - 1
          BY <4>1, <4>2, FS_RemoveElement
        <5> QED BY <3>1, <5>1
      <4>4. PICK b \in Nat : \A x \in T \ {y} : x <= b
        BY <2>2, <4>3
      <4>5. \A x \in T : x <= IF y <= b THEN b ELSE y
        BY <4>4
      <4> QED BY <4>5
    <3> QED BY <3>1
  <2>3. Nat \subseteq G
    BY <2>1, <2>2, NaturalInduction
  <2> QED BY <1>1, <2>3
<1>3. PICK b \in Nat : \A x \in S : x <= b
  BY <1>2
<1>4. S \in SUBSET (0 .. b)
  BY <1>3
<1> QED BY <1>4, MaxFact

\* The minimum of a set of naturals is the element that bounds it below.
LEMMA MinIs ==
  ASSUME NEW S \in SUBSET Nat, NEW a \in S, \A x \in S : a <= x
  PROVE  Min(S) = a
<1>1. Min(S) \in S /\ \A x \in S : Min(S) <= x
  BY DEF Min
<1>2. PICK l \in S : l = Min(S)
  BY <1>1
<1> QED BY <1>1, <1>2

\* The first size at which the running total passes a rank is at that rank of the sorted sizes.
LEMMA LengthAtFact ==
  ASSUME NEW I, IsFiniteSet(I), NEW size, ValuesOf(size, I) \in SUBSET Nat,
         NEW c, c = CountsOf(size, I), NEW rank \in Nat, rank < Cardinality(I)
  PROVE  RankIs(LengthAt(c, rank), size, I, rank)
<1>1. DOMAIN c = ValuesOf(size, I) /\ \A i \in I : size[i] \in ValuesOf(size, I)
  BY DEF CountsOf, ValuesOf
<1>2. PICK A : A = {l \in DOMAIN c : SumOver(c, {k \in DOMAIN c : k <= l}) > rank}
  OBVIOUS
<1>3. \A l \in ValuesOf(size, I) : l \in A <=> rank < Cardinality(Below(size, I, l))
  <2>1. ASSUME NEW l \in ValuesOf(size, I)
        PROVE  l \in A <=> rank < Cardinality(Below(size, I, l))
    <3>1. SumOver(c, {k \in DOMAIN c : k <= l}) = Cardinality(Below(size, I, l))
      BY RunningTotal
    <3>2. Cardinality(Below(size, I, l)) \in Nat
      <4>1. Below(size, I, l) \in SUBSET I
        BY DEF Below
      <4> QED BY <4>1, FS_Subset, FS_CardinalityType
    <3> QED BY <1>1, <1>2, <3>1, <3>2
  <2> QED BY <2>1
<1>4. A \in SUBSET Nat
  BY <1>1, <1>2
<1>5. ValuesOf(size, I) # {}
  <2>1. Cardinality(I) # 0
    <3>1. Cardinality(I) \in Nat
      BY FS_CardinalityType
    <3> QED BY <3>1
  <2>2. I # {}
    BY <2>1, FS_EmptySet
  <2> QED BY <1>1, <2>2
<1>6. A # {}
  <2>1. PICK l \in ValuesOf(size, I) : \A x \in ValuesOf(size, I) : x <= l
    BY <1>5, ValuesFinite, GreatestNatural
  <2>2. Below(size, I, l) = I
    BY <1>1, <2>1 DEF Below
  <2> QED BY <1>3, <2>1, <2>2
<1>7. PICK m \in A : \A x \in A : m <= x
  BY <1>4, <1>6, LeastNatural
<1>8. LengthAt(c, rank) = m
  <2>1. LengthAt(c, rank) = Min(A)
    BY <1>2 DEF LengthAt, SumOver
  <2>2. Min(A) = m
    BY <1>4, <1>7, MinIs
  <2> QED BY <2>1, <2>2
<1>9. m \in ValuesOf(size, I) /\ m \in Nat
  BY <1>1, <1>2, <1>4
<1>10. rank < Cardinality(Below(size, I, m))
  BY <1>3, <1>9
<1>11. Cardinality(Under(size, I, m)) <= rank
  <2>1. CASE Under(size, I, m) = {}
    BY <2>1, FS_EmptySet
  <2>2. CASE Under(size, I, m) # {}
    <3>1. PICK V : V = {x \in ValuesOf(size, I) : x < m}
      OBVIOUS
    <3>2. V \in SUBSET Nat /\ V # {} /\ V \in SUBSET ValuesOf(size, I)
      BY <1>1, <2>2, <3>1 DEF Under
    <3>3. IsFiniteSet(V)
      BY <3>2, ValuesFinite, FS_Subset
    <3>4. PICK l \in V : \A x \in V : x <= l
      BY <3>2, <3>3, GreatestNatural
    <3>5. Below(size, I, l) = Under(size, I, m)
      <4>1. ASSUME NEW i \in I PROVE size[i] <= l <=> size[i] < m
        <5>1. size[i] \in ValuesOf(size, I) /\ size[i] \in Nat /\ l \in Nat /\ l < m
          BY <1>1, <3>1, <3>2, <3>4
        <5>2. size[i] < m => size[i] <= l
          BY <3>1, <3>4, <5>1
        <5> QED BY <1>9, <5>1, <5>2
      <4> QED BY <4>1 DEF Below, Under
    <3>6. l \notin A
      BY <1>4, <1>7, <1>9, <3>1, <3>2, <3>4
    <3>7. ~ (rank < Cardinality(Below(size, I, l)))
      BY <1>3, <3>2, <3>4, <3>6
    <3>8. Cardinality(Under(size, I, m)) \in Nat
      <4>1. Under(size, I, m) \in SUBSET I
        BY DEF Under
      <4> QED BY <4>1, FS_Subset, FS_CardinalityType
    <3> QED BY <3>5, <3>7, <3>8
  <2> QED BY <2>1, <2>2
<1> QED BY <1>8, <1>10, <1>11 DEF RankIs

\* Where a quantile lies between the ranks.
LEMMA QuantileRank ==
  ASSUME NEW m \in Nat, NEW p \in Nat, NEW q \in Nat, 0 < p, p < q
  PROVE  /\ (m * p) \div q \in 0 .. m
         /\ (m * p) % q = m * p - ((m * p) \div q) * q
         /\ (m * p) % q # 0 => (m * p) \div q + 1 <= m
<1>1. PICK x \in Nat : x = m * p
  OBVIOUS
<1>2. PICK d, r : d = x \div q /\ r = x % q
  OBVIOUS
<1>3. d \in Nat /\ r \in 0 .. (q - 1) /\ x = d * q + r
  BY <1>2
<1>4. x <= m * q
  BY <1>1
<1>5. ASSUME d >= m + 1 PROVE FALSE
  <2>1. d * q >= (m + 1) * q
    BY <1>3, <1>5
  <2>2. (m + 1) * q = m * q + q
    OBVIOUS
  <2>3. m * q \in Nat /\ d * q \in Nat
    BY <1>3
  <2> QED BY <1>3, <1>4, <2>1, <2>2, <2>3
<1>6. ASSUME r # 0, d = m PROVE FALSE
  <2>1. m * q \in Nat
    OBVIOUS
  <2> QED BY <1>3, <1>4, <1>6, <2>1
<1>7. d * q \in Nat
  BY <1>3
<1> QED BY <1>1, <1>2, <1>3, <1>5, <1>6, <1>7

\* The maximum of a set of naturals is the element that bounds it above.
LEMMA MaxIs ==
  ASSUME NEW S \in SUBSET Nat, NEW a \in S, \A x \in S : x <= a
  PROVE  Max(S) = a
<1>1. Max(S) \in S /\ \A x \in S : Max(S) >= x
  BY DEF Max
<1>2. PICK l \in S : l = Max(S)
  BY <1>1
<1> QED BY <1>1, <1>2

\* Quantiles are fractions between 0 and 1, and there is room for an example.
LEMMA QuantilesFact ==
  /\ \A q \in Quantiles : q[1] \in Nat /\ q[2] \in Nat /\ 0 < q[1] /\ q[1] < q[2]
  /\ ExampleLimit \in Nat /\ ExampleLimit > 0
<1>1. Quantiles \subseteq Nat \X Nat /\ (\A q \in Quantiles : 0 < q[1] /\ q[1] < q[2])
  BY CountsAssumption
<1>2. ExampleLimit \in Nat /\ ExampleLimit > 0
  <2>1. {ChunkSize, ExampleLimit} \subseteq Nat \ {0}
    BY CountsAssumption
  <2> QED BY <2>1
<1> QED BY <1>1, <1>2

\* One quantile of the counts of a nonempty set of records.
LEMMA QuantileFact ==
  ASSUME NEW I, IsFiniteSet(I), NEW size \in [I -> Nat], NEW c, c = CountsOf(size, I),
         NEW n, n = Cardinality(I), n > 0, NEW q \in Quantiles,
         NEW value, value = CounterQuantile(c, q),
         NEW low, low = ((n - 1) * q[1]) \div q[2]
  PROVE  /\ value[3] = (n - 1) * q[1] - low * q[2]
         /\ RankIs(value[1], size, I, low)
         /\ RankIs(value[2], size, I, IF value[3] = 0 THEN low ELSE low + 1)
<1>1. n \in Nat /\ n - 1 \in Nat
  BY FS_CardinalityType
<1>2. PICK x, y, z : x = q[1] /\ y = q[2] /\ z = (n - 1) * x
  OBVIOUS
<1>3. x \in Nat /\ y \in Nat /\ 0 < x /\ x < y
  BY <1>2, QuantilesFact
<1>4. SumOver(c, DOMAIN c) = n
  BY SumOfAll
<1>5. PICK high : high = IF z % y = 0 THEN low ELSE low + 1
  OBVIOUS
<1>6. value = <<LengthAt(c, low), LengthAt(c, high), z % y>>
  BY <1>2, <1>4, <1>5 DEF CounterQuantile, SumOver
<1>7. value[1] = LengthAt(c, low) /\ value[2] = LengthAt(c, high) /\ value[3] = z % y
  BY <1>6
<1>8. low = z \div y
  BY <1>2
<1>9. /\ z \div y \in 0 .. (n - 1) /\ z % y = z - (z \div y) * y
      /\ z % y # 0 => (z \div y) + 1 <= n - 1
  <2>1. PICK m \in Nat : m = n - 1
    BY <1>1
  <2>2. z = m * x
    BY <1>2, <2>1
  <2> QED BY <1>3, <2>1, <2>2, QuantileRank
<1>10. low \in Nat /\ low < n /\ high \in Nat /\ high < n
  BY <1>1, <1>5, <1>8, <1>9
<1>11. ValuesOf(size, I) \in SUBSET Nat
  BY DEF ValuesOf
<1>12. RankIs(LengthAt(c, low), size, I, low) /\ RankIs(LengthAt(c, high), size, I, high)
  BY <1>10, <1>11, LengthAtFact
<1> QED BY <1>2, <1>5, <1>7, <1>8, <1>9, <1>12

\* What is said of a nonempty set of records, or of none.
LEMMA SummaryFact ==
  ASSUME NEW I, IsFiniteSet(I), NEW size \in [I -> Nat], NEW c, c = CountsOf(size, I)
  PROVE  SummaryExact(Summary(c), size)
<1>1. DOMAIN size = I /\ DOMAIN c = ValuesOf(size, I)
  BY DEF CountsOf
<1>2. PICK n \in Nat : n = Cardinality(I)
  BY FS_CardinalityType
<1>3. CASE I = {}
  <2>1. DOMAIN c = {} /\ n = 0
    BY <1>1, <1>2, <1>3, FS_EmptySet DEF ValuesOf
  <2>2. Summary(c) = << >>
    BY <2>1 DEF Summary
  <2>3. Cardinality(DOMAIN size) = 0
    BY <1>1, <1>2, <2>1
  <2> QED BY <2>2, <2>3 DEF SummaryExact
<1>4. CASE I # {}
  <2>1. n > 0
    BY <1>2, <1>4, FS_EmptySet
  <2>2. ValuesOf(size, I) \in SUBSET Nat /\ ValuesOf(size, I) # {}
        /\ \A i \in I : size[i] \in ValuesOf(size, I)
    BY <1>4 DEF ValuesOf
  <2>3. PICK Q : Q = [q \in Quantiles |-> CounterQuantile(c, q)]
    OBVIOUS
  <2>4. PICK top : top = Max(DOMAIN c)
    OBVIOUS
  <2>5. PICK s : s = Summary(c)
    OBVIOUS
  <2>6. s = <<Q, top>>
    BY <1>1, <2>2, <2>3, <2>4, <2>5 DEF Summary
  <2>7. s # << >> /\ s[1] = Q /\ s[2] = top
    BY <2>6
  <2>8. AtRank(top, size, n - 1)
    <3>1. PICK m \in ValuesOf(size, I) : \A x \in ValuesOf(size, I) : x <= m
      BY <2>2, ValuesFinite, GreatestNatural
    <3>2. top = m
      BY <1>1, <2>2, <2>4, <3>1, MaxIs
    <3>3. PICK j \in I : size[j] = m
      BY <3>1 DEF ValuesOf
    <3>4. {i \in DOMAIN size : size[i] <= m} = I
      BY <1>1, <2>2, <3>1
    <3>5. PICK U : U = {i \in DOMAIN size : size[i] < m}
      OBVIOUS
    <3>6. U \in SUBSET (I \ {j})
      BY <1>1, <2>2, <3>1, <3>3, <3>5
    <3>7. IsFiniteSet(I \ {j}) /\ Cardinality(I \ {j}) = n - 1
      <4>1. Cardinality(I \ {j}) = Cardinality(I) - 1 /\ IsFiniteSet(I \ {j})
        BY <3>3, FS_RemoveElement
      <4> QED BY <1>2, <4>1
    <3>8. Cardinality(U) <= n - 1
      BY <3>6, <3>7, FS_Subset
    <3> QED BY <1>2, <3>2, <3>4, <3>5, <3>8 DEF AtRank
  <2>9. ASSUME NEW q \in Quantiles
        PROVE  LET low == ((n - 1) * q[1]) \div q[2]
                   value == s[1][q]
               IN  /\ value[3] = (n - 1) * q[1] - low * q[2]
                   /\ AtRank(value[1], size, low)
                   /\ AtRank(value[2], size, IF value[3] = 0 THEN low ELSE low + 1)
    <3>1. PICK value, low : value = CounterQuantile(c, q) /\ low = ((n - 1) * q[1]) \div q[2]
      OBVIOUS
    <3>2. /\ value[3] = (n - 1) * q[1] - low * q[2]
          /\ RankIs(value[1], size, I, low)
          /\ RankIs(value[2], size, I, IF value[3] = 0 THEN low ELSE low + 1)
      BY <1>2, <2>1, <3>1, QuantileFact
    <3>3. s[1][q] = value
      BY <2>3, <2>7, <3>1
    <3>4. ASSUME NEW l, NEW r PROVE RankIs(l, size, I, r) <=> AtRank(l, size, r)
      BY <1>1 DEF RankIs, AtRank, Under, Below
    <3> QED BY <3>1, <3>2, <3>3, <3>4
  <2>10. Cardinality(DOMAIN size) = n
    BY <1>1, <1>2
  <2>11. SummaryExact(s, size)
    BY <2>1, <2>7, <2>8, <2>9, <2>10 DEF SummaryExact
  <2> QED BY <2>5, <2>11
<1> QED BY <1>3, <1>4

\* Sequences that end with a size, and what comes before it.
LEMMA AppendParts ==
  ASSUME NEW T, NEW g \in Seq(T), NEW x \in T
  PROVE  Front(Append(g, x)) = g /\ Last(Append(g, x)) = x
<1>1. PICK n \in Nat : n = Len(g)
  OBVIOUS
<1>2. PICK a : a = Append(g, x)
  OBVIOUS
<1>3. /\ a \in Seq(T) /\ Len(a) = n + 1 /\ a[n + 1] = x
      /\ \A i \in 1 .. n : a[i] = g[i]
  BY <1>1, <1>2, AppendProperties
<1>4. PICK f : f = SubSeq(a, 1, n)
  OBVIOUS
<1>5. \A i \in 1 .. n : a[i] \in T
  BY <1>1, <1>3, ElementOfSeq
<1>6. f \in Seq(T) /\ Len(f) = n /\ \A i \in 1 .. n : f[i] = a[i]
  <2>1. /\ SubSeq(a, 1, n) \in Seq(T)
        /\ Len(SubSeq(a, 1, n)) = IF 1 <= n THEN n - 1 + 1 ELSE 0
        /\ \A i \in 1 .. n - 1 + 1 : SubSeq(a, 1, n)[i] = a[1 + i - 1]
    BY <1>5, SubSeqProperties
  <2>2. (IF 1 <= n THEN n - 1 + 1 ELSE 0) = n /\ n - 1 + 1 = n /\ \A i \in 1 .. n : 1 + i - 1 = i
    OBVIOUS
  <2> QED BY <1>4, <2>1, <2>2
<1>7. f = g
  BY <1>1, <1>3, <1>6, SeqEqual
<1>8. Len(a) - 1 = n
  BY <1>3
<1> QED BY <1>2, <1>3, <1>4, <1>7, <1>8 DEF Front, Last

\* Every record of J has one key, which is key[i] followed by size[i].
Keyed(K, J, key, size, n) ==
  /\ \A i \in 1 .. n : K[i] = IF i \in J THEN {Append(key[i], size[i])} ELSE {}
  /\ \A i \in J : /\ Front(Append(key[i], size[i])) = key[i]
                  /\ Last(Append(key[i], size[i])) = size[i]
AtKey(J, key, g) == {i \in J : key[i] = g}
KeysIn(J, key) == {key[i] : i \in J}
FrontsOf(c) == {Front(k) : k \in DOMAIN c}

\* The sizes counted under a key are those of the records with the key.
LEMMA UnderFact ==
  ASSUME NEW n \in Nat, NEW J \in SUBSET (1 .. n), NEW K, NEW key, NEW size,
         Keyed(K, J, key, size, n), NEW c, c = Counted(K, n), NEW g
  PROVE  /\ FrontsOf(c) = KeysIn(J, key)
         /\ SizesUnder(c, g) = CountsOf(size, AtKey(J, key, g))
<1>1. PICK a : a = [i \in J |-> Append(key[i], size[i])]
  OBVIOUS
<1>2. \A i \in J : Front(a[i]) = key[i] /\ Last(a[i]) = size[i] /\ a[i] = Append(key[i], size[i])
  BY <1>1 DEF Keyed
<1>3. \A i \in 1 .. n : K[i] = IF i \in J THEN {a[i]} ELSE {}
  BY <1>1 DEF Keyed
<1>4. DOMAIN c = {a[i] : i \in J} /\ \A x \in DOMAIN c : c[x] = Cardinality(Having(K, x, n))
  <2>1. DOMAIN c = KeysUpto(K, n) /\ \A x \in DOMAIN c : c[x] = Cardinality(Having(K, x, n))
    BY DEF Counted
  <2>2. \A x : x \in KeysUpto(K, n) <=> \E i \in J : x = a[i]
    BY <1>3 DEF KeysUpto
  <2> QED BY <2>1, <2>2
<1>5. FrontsOf(c) = KeysIn(J, key)
  <2>1. \A i \in J : a[i] \in DOMAIN c /\ Front(a[i]) = key[i]
    BY <1>2, <1>4
  <2>2. \A k \in DOMAIN c : \E i \in J : Front(k) = key[i]
    <3>1. ASSUME NEW k \in DOMAIN c PROVE \E i \in J : Front(k) = key[i]
      <4>1. PICK i \in J : k = a[i]
        BY <1>4
      <4> QED BY <1>2, <4>1
    <3> QED BY <3>1
  <2>3. FrontsOf(c) \subseteq KeysIn(J, key)
    BY <2>2 DEF FrontsOf, KeysIn
  <2>4. \A x \in KeysIn(J, key) : x \in FrontsOf(c)
    BY <2>1 DEF FrontsOf, KeysIn
  <2> QED BY <2>3, <2>4
<1>6. PICK S, I : S = {k \in DOMAIN c : Front(k) = g} /\ I = AtKey(J, key, g)
  OBVIOUS
<1>7. I \in SUBSET J /\ \A i \in J : i \in I <=> key[i] = g
  BY <1>6 DEF AtKey
<1>8. S = {a[i] : i \in I}
  BY <1>2, <1>4, <1>6, <1>7
<1>9. {Last(k) : k \in S} = ValuesOf(size, I)
  <2>1. \A i \in I : a[i] \in S /\ Last(a[i]) = size[i]
    BY <1>2, <1>7, <1>8
  <2>2. \A k \in S : \E i \in I : Last(k) = size[i]
    <3>1. ASSUME NEW k \in S PROVE \E i \in I : Last(k) = size[i]
      <4>1. PICK i \in I : k = a[i]
        BY <1>8
      <4> QED BY <2>1, <4>1
    <3> QED BY <3>1
  <2>3. {Last(k) : k \in S} \subseteq {size[i] : i \in I}
    BY <2>2
  <2>4. \A i \in I : size[i] \in {Last(k) : k \in S}
    BY <2>1
  <2> QED BY <2>3, <2>4 DEF ValuesOf
<1>10. ASSUME NEW l \in ValuesOf(size, I)
       PROVE  c[Append(g, l)] = Cardinality({i \in I : size[i] = l})
  <2>1. PICK j \in I : size[j] = l
    BY DEF ValuesOf
  <2>2. j \in J /\ key[j] = g /\ a[j] = Append(g, l)
    BY <1>2, <1>7, <2>1
  <2>3. c[a[j]] = Cardinality(Having(K, a[j], n))
    BY <1>4, <2>2
  <2>4. Having(K, a[j], n) = {i \in J : a[i] = a[j]}
    BY <1>3 DEF Having
  <2>5. \A i \in J : a[i] = a[j] <=> i \in I /\ size[i] = l
    <3>1. ASSUME NEW i \in J, a[i] = a[j] PROVE i \in I /\ size[i] = l
      BY <1>2, <1>7, <2>1, <2>2, <3>1
    <3>2. ASSUME NEW i \in J, i \in I, size[i] = l PROVE a[i] = a[j]
      BY <1>2, <1>7, <2>1, <2>2, <3>2
    <3> QED BY <3>1, <3>2
  <2>6. {i \in J : a[i] = a[j]} = {i \in I : size[i] = l}
    BY <1>7, <2>5
  <2> QED BY <2>2, <2>3, <2>4, <2>6
<1>11. SizesUnder(c, g) = [l \in ValuesOf(size, I) |-> c[Append(g, l)]]
  BY <1>6, <1>9 DEF SizesUnder
<1>12. SizesUnder(c, g) = CountsOf(size, I)
  BY <1>10, <1>11 DEF CountsOf
<1> QED BY <1>5, <1>6, <1>12

\* What the summaries say of the records of every key.
SummariesOf(c) == [g \in FrontsOf(c) |-> Summary(SizesUnder(c, g))]
SummaryUnder(S, g) == IF g \in DOMAIN S THEN S[g] ELSE << >>
Summarised(S, J, key, size) ==
  /\ DOMAIN S = KeysIn(J, key)
  /\ \A g : SummaryExact(SummaryUnder(S, g), [i \in AtKey(J, key, g) |-> size[i]])

\* The summary under every key is that of the records with the key, and there is no other.
LEMMA SummariesFact ==
  ASSUME NEW n \in Nat, NEW J \in SUBSET (1 .. n), NEW K, NEW key, NEW size,
         Keyed(K, J, key, size, n), \A i \in J : size[i] \in Nat
  PROVE  Summarised(SummariesOf(Counted(K, n)), J, key, size)
<1>1. PICK c : c = Counted(K, n)
  OBVIOUS
<1>2. PICK S : S = SummariesOf(c)
  OBVIOUS
<1>3. DOMAIN S = KeysIn(J, key)
  <2>1. FrontsOf(c) = KeysIn(J, key)
    BY <1>1, UnderFact
  <2>2. DOMAIN S = FrontsOf(c)
    BY <1>2 DEF SummariesOf
  <2> QED BY <2>1, <2>2
<1>4. ASSUME NEW g PROVE SummaryExact(SummaryUnder(S, g), [i \in AtKey(J, key, g) |-> size[i]])
  <2>1. PICK I : I = AtKey(J, key, g)
    OBVIOUS
  <2>2. I \in SUBSET J /\ IsFiniteSet(I)
    <3>1. I \in SUBSET J /\ I \in SUBSET (1 .. n)
      BY <2>1 DEF AtKey
    <3>2. IsFiniteSet(1 .. n)
      BY FS_Interval
    <3> QED BY <3>1, <3>2, FS_Subset
  <2>3. PICK sz : sz = [i \in I |-> size[i]]
    OBVIOUS
  <2>4. sz \in [I -> Nat]
    BY <2>2, <2>3
  <2>5. SizesUnder(c, g) = CountsOf(size, I)
    BY <1>1, <2>1, UnderFact
  <2>6. CountsOf(size, I) = CountsOf(sz, I)
    <3>1. ValuesOf(size, I) = ValuesOf(sz, I)
      BY <2>3 DEF ValuesOf
    <3>2. \A l : {i \in I : size[i] = l} = {i \in I : sz[i] = l}
      BY <2>3
    <3> QED BY <3>1, <3>2 DEF CountsOf
  <2>7. PICK s : s = CountsOf(sz, I)
    OBVIOUS
  <2>8. SummaryExact(Summary(s), sz)
    BY <2>2, <2>4, <2>7, SummaryFact
  <2>9. SummaryUnder(S, g) = Summary(s)
    <3>1. CASE g \in DOMAIN S
      <4>1. S[g] = Summary(SizesUnder(c, g))
        BY <1>2, <3>1 DEF SummariesOf
      <4> QED BY <2>5, <2>6, <2>7, <3>1, <4>1 DEF SummaryUnder
    <3>2. CASE g \notin DOMAIN S
      <4>1. I = {}
        BY <1>3, <2>1, <3>2 DEF AtKey, KeysIn
      <4>2. DOMAIN s = {}
        BY <2>7, <4>1 DEF CountsOf, ValuesOf
      <4> QED BY <3>2, <4>2 DEF SummaryUnder, Summary
    <3> QED BY <3>1, <3>2
  <2> QED BY <2>1, <2>3, <2>8, <2>9
<1> QED BY <1>1, <1>2, <1>3, <1>4 DEF Summarised

(***************************************************************************)
(* The text report.                                                        *)
(***************************************************************************)
TextRun(a, all, n) ==
  /\ a[0] = NothingObserved.text
  /\ \A k \in 1 .. n : a[k] = ObserveText(a[k - 1], all[k])

HasText(all, i) == Quality[all[i].text] \notin {"null", "empty"}
SizeOf(all, i) == TextSize[all[i].text]
QualityKeys(all, i) == {<<all[i].dataset, Quality[all[i].text]>>}
CharKeys(all, i) == When(HasText(all, i), {<<all[i].dataset, SizeOf(all, i)>>})
SnapshotKeys(all, i) ==
  When(HasText(all, i), {<<all[i].dataset, Label(all[i]), SizeOf(all, i)>>})
RelationKeys(all, i) ==
  When(HasText(all, i) /\ all[i].relation # "", {<<all[i].relation, SizeOf(all, i)>>})
Shown(all, i) == <<all[i].text, Label(all[i]), all[i].relation>>
Good(all, i, d) == all[i].dataset = d /\ Quality[all[i].text] = "ok"

TextGives(a, all, n) ==
  /\ a[0].rows = NoRows /\ a[0].quality = EmptyBag /\ a[0].chars = EmptyBag
  /\ a[0].snapshots = EmptyBag /\ a[0].relations = EmptyBag
  /\ a[0].examples = [d \in Datasets |-> << >>]
  /\ \A k \in 1 .. n :
       /\ a[k].rows = IF HasText(all, k) THEN Tally(a[k - 1].rows, all[k], TRUE)
                                         ELSE Tally(a[k - 1].rows, all[k], FALSE)
       /\ a[k].quality = Inc(a[k - 1].quality, QualityKeys(all, k))
       /\ a[k].chars = Inc(a[k - 1].chars, CharKeys(all, k))
       /\ a[k].snapshots = Inc(a[k - 1].snapshots, SnapshotKeys(all, k))
       /\ a[k].relations = Inc(a[k - 1].relations, RelationKeys(all, k))
       /\ a[k].examples =
            IF Quality[all[k].text] = "ok"
                 /\ Len(a[k - 1].examples[all[k].dataset]) < ExampleLimit
              THEN [a[k - 1].examples EXCEPT ![all[k].dataset] = Append(@, Shown(all, k))]
              ELSE a[k - 1].examples

\* What a record does to every field of the text accumulator.
LEMMA TextFields ==
  ASSUME NEW a, NEW all, NEW n \in Nat, TextRun(a, all, n)
  PROVE  TextGives(a, all, n)
<1>1. /\ a[0].rows = NoRows /\ a[0].quality = EmptyBag /\ a[0].chars = EmptyBag
      /\ a[0].snapshots = EmptyBag /\ a[0].relations = EmptyBag
      /\ a[0].examples = [d \in Datasets |-> << >>]
  BY DEF TextRun, NothingObserved, Datasets
<1>2. ASSUME NEW k \in 1 .. n
      PROVE  /\ a[k].rows = IF HasText(all, k) THEN Tally(a[k - 1].rows, all[k], TRUE)
                                               ELSE Tally(a[k - 1].rows, all[k], FALSE)
             /\ a[k].quality = Inc(a[k - 1].quality, QualityKeys(all, k))
             /\ a[k].chars = Inc(a[k - 1].chars, CharKeys(all, k))
             /\ a[k].snapshots = Inc(a[k - 1].snapshots, SnapshotKeys(all, k))
             /\ a[k].relations = Inc(a[k - 1].relations, RelationKeys(all, k))
             /\ a[k].examples =
                  IF Quality[all[k].text] = "ok"
                       /\ Len(a[k - 1].examples[all[k].dataset]) < ExampleLimit
                    THEN [a[k - 1].examples EXCEPT ![all[k].dataset] = Append(@, Shown(all, k))]
                    ELSE a[k - 1].examples
  <2>1. PICK v : v = a[k - 1]
    OBVIOUS
  <2>2. a[k] = ObserveText(v, all[k])
    BY <2>1 DEF TextRun
  <2>3. ObserveText(v, all[k]) =
          [rows |-> Tally(v.rows, all[k], HasText(all, k)),
           quality |-> Inc(v.quality, QualityKeys(all, k)),
           chars |-> Inc(v.chars, CharKeys(all, k)),
           snapshots |-> Inc(v.snapshots, SnapshotKeys(all, k)),
           relations |-> Inc(v.relations, RelationKeys(all, k)),
           examples |-> IF Quality[all[k].text] = "ok"
                             /\ Len(v.examples[all[k].dataset]) < ExampleLimit
                          THEN [v.examples EXCEPT ![all[k].dataset] = Append(@, Shown(all, k))]
                          ELSE v.examples]
    BY Zenon DEF ObserveText, QualityKeys, CharKeys, SnapshotKeys, RelationKeys, HasText, SizeOf,
                 Shown
  <2>4. Tally(v.rows, all[k], HasText(all, k))
          = IF HasText(all, k) THEN Tally(v.rows, all[k], TRUE) ELSE Tally(v.rows, all[k], FALSE)
    BY DEF Tally
  <2>5. PICK x1, x2, x3, x4, x5, x6 :
          /\ x1 = Tally(v.rows, all[k], HasText(all, k))
          /\ x2 = Inc(v.quality, QualityKeys(all, k))
          /\ x3 = Inc(v.chars, CharKeys(all, k))
          /\ x4 = Inc(v.snapshots, SnapshotKeys(all, k))
          /\ x5 = Inc(v.relations, RelationKeys(all, k))
          /\ x6 = IF Quality[all[k].text] = "ok"
                       /\ Len(v.examples[all[k].dataset]) < ExampleLimit
                    THEN [v.examples EXCEPT ![all[k].dataset] = Append(@, Shown(all, k))]
                    ELSE v.examples
    OBVIOUS
  <2>6. a[k] = [rows |-> x1, quality |-> x2, chars |-> x3, snapshots |-> x4, relations |-> x5,
                examples |-> x6]
    BY <2>2, <2>3, <2>5
  <2>7. /\ a[k].rows = x1 /\ a[k].quality = x2 /\ a[k].chars = x3 /\ a[k].snapshots = x4
        /\ a[k].relations = x5 /\ a[k].examples = x6
    BY <2>6
  <2> QED BY <2>1, <2>4, <2>5, <2>7
<1> QED BY <1>1, <1>2 DEF TextGives

\* The first good texts of a dataset are kept, no more than the limit.
FirstGood(all, n, d) ==
  {i \in 1 .. n : Good(all, i, d) /\ Cardinality({j \in 1 .. n : Good(all, j, d) /\ j < i})
                                       < ExampleLimit}
ShownIn(all, I) == {Shown(all, i) : i \in I}

\* A sequence that is extended has one more value.
LEMMA RangeOfAppend ==
  ASSUME NEW T, NEW s \in Seq(T), NEW x \in T
  PROVE  Range(Append(s, x)) = Range(s) \cup {x}
<1>1. PICK l \in Nat : l = Len(s)
  OBVIOUS
<1>2. PICK a : a = Append(s, x)
  OBVIOUS
<1>3. /\ a \in Seq(T) /\ Len(a) = l + 1 /\ a[l + 1] = x
      /\ \A i \in 1 .. l : a[i] = s[i]
  BY <1>1, <1>2, AppendProperties
<1>4. DOMAIN a = 1 .. (l + 1) /\ DOMAIN s = 1 .. l
  BY <1>1, <1>3
<1>5. 1 .. (l + 1) = (1 .. l) \cup {l + 1}
  BY <1>1
<1>6. {a[i] : i \in 1 .. (l + 1)} = {s[i] : i \in 1 .. l} \cup {x}
  <2>1. \A i \in 1 .. (l + 1) : a[i] \in {s[j] : j \in 1 .. l} \cup {x}
    BY <1>3, <1>5
  <2>2. \A i \in 1 .. l : s[i] \in {a[j] : j \in 1 .. (l + 1)}
    BY <1>3, <1>5
  <2>3. x \in {a[j] : j \in 1 .. (l + 1)}
    BY <1>3, <1>5
  <2> QED BY <2>1, <2>2, <2>3
<1>7. Range(a) = {a[i] : i \in DOMAIN a} /\ Range(s) = {s[i] : i \in DOMAIN s}
  BY DEF Range
<1> QED BY <1>2, <1>4, <1>6, <1>7

\* One step of the examples of a dataset: while there are fewer than the limit.
ShowsNext(e, f, good, x) ==
  f = IF good /\ Len(e) < ExampleLimit THEN Append(e, x) ELSE e

\* A good text is appended to the examples of its dataset while there is room.
LEMMA ExampleStep ==
  ASSUME NEW all, NEW n \in Nat, NEW a, TextGives(a, all, n), NEW T, NEW d \in Datasets,
         NEW k \in 1 .. n, all[k].dataset \in Datasets,
         a[k - 1].examples \in [Datasets -> Seq(T)], Shown(all, k) \in T
  PROVE  /\ a[k].examples \in [Datasets -> Seq(T)]
         /\ ShowsNext(a[k - 1].examples[d], a[k].examples[d], Good(all, k, d), Shown(all, k))
<1>1. PICK x, y, c, s : x = a[k - 1].examples /\ y = a[k].examples /\ c = all[k].dataset
                        /\ s = Shown(all, k)
  OBVIOUS
<1>2. y = IF Quality[all[k].text] = "ok" /\ Len(x[c]) < ExampleLimit
            THEN [x EXCEPT ![c] = Append(x[c], s)] ELSE x
  BY <1>1 DEF TextGives
<1>3. x[c] \in Seq(T) /\ x[d] \in Seq(T)
  BY <1>1
<1>4. Append(x[c], s) \in Seq(T)
  BY <1>1, <1>3, AppendProperties
<1>5. y \in [Datasets -> Seq(T)]
  BY <1>1, <1>2, <1>4
<1>6. CASE c = d
  <2>1. Good(all, k, d) <=> Quality[all[k].text] = "ok"
    BY <1>1, <1>6 DEF Good
  <2>2. PICK z : z = Append(x[d], s)
    OBVIOUS
  <2>3. y = IF Good(all, k, d) /\ Len(x[d]) < ExampleLimit THEN [x EXCEPT ![d] = z] ELSE x
    BY <1>2, <1>6, <2>1, <2>2
  <2>4. y[d] = IF Good(all, k, d) /\ Len(x[d]) < ExampleLimit THEN z ELSE x[d]
    BY <1>1, <2>3
  <2> QED BY <1>1, <1>5, <2>2, <2>4 DEF ShowsNext
<1>7. CASE c # d
  <2>1. ~ Good(all, k, d)
    BY <1>1, <1>7 DEF Good
  <2>2. PICK z : z = Append(x[c], s)
    OBVIOUS
  <2>3. y = [x EXCEPT ![c] = z] \/ y = x
    BY <1>2, <2>2
  <2>4. y[d] = x[d]
    BY <1>1, <1>7, <2>3
  <2> QED BY <1>1, <1>5, <2>1, <2>4 DEF ShowsNext
<1> QED BY <1>6, <1>7

\* The examples of a dataset are its first good texts.
LEMMA ExamplesFact ==
  ASSUME NEW all, NEW n \in Nat, NEW a, TextGives(a, all, n), NEW d \in Datasets,
         \A k \in 1 .. n : all[k].dataset \in Datasets
  PROVE  Range(a[n].examples[d]) = ShownIn(all, FirstGood(all, n, d))
<1>1. PICK K : K = [i \in 1 .. n |-> IF Good(all, i, d) THEN {0} ELSE {}]
  OBVIOUS
<1>2. PICK T : T = {Shown(all, i) : i \in 1 .. n}
  OBVIOUS
<1>3. PICK h : h = [k \in 0 .. n |-> Cardinality(Having(K, 0, k))]
  OBVIOUS
<1>4. h[0] = 0
  <2>1. Having(K, 0, 0) = {}
    BY DEF Having
  <2> QED BY <1>3, <2>1, FS_EmptySet
<1>5. ASSUME NEW k \in 1 .. n
      PROVE  h[k] = h[k - 1] + (IF Good(all, k, d) THEN 1 ELSE 0) /\ h[k - 1] \in Nat
  <2>1. k - 1 \in Nat /\ (k - 1) + 1 = k /\ k - 1 \in 0 .. n /\ k \in 0 .. n
    OBVIOUS
  <2>2. 0 \in K[k] <=> Good(all, k, d)
    BY <1>1
  <2> QED BY <1>3, <2>1, <2>2, HavingFact
<1>6. PICK x : x = [k \in 0 .. n |-> a[k].examples]
  OBVIOUS
<1>7. ExampleLimit \in Nat /\ ExampleLimit > 0
  BY QuantilesFact
<1> DEFINE First(k) == {i \in 1 .. k : Good(all, i, d) /\ h[i - 1] < ExampleLimit}
           Inv(k) == /\ x[k] \in [Datasets -> Seq(T)]
                     /\ Len(x[k][d]) = IF h[k] < ExampleLimit THEN h[k] ELSE ExampleLimit
                     /\ Range(x[k][d]) = ShownIn(all, First(k))
           G == {k \in Nat : k <= n => Inv(k)}
<1>8. 0 \in G
  <2>1. x[0] = [c \in Datasets |-> << >>]
    BY <1>6 DEF TextGives
  <2>2. x[0][d] = << >> /\ x[0] \in [Datasets -> Seq(T)]
    BY <2>1
  <2>3. First(0) = {}
    OBVIOUS
  <2>4. ShownIn(all, {}) = {}
    BY DEF ShownIn
  <2>5. Range(<< >>) = {}
    BY DEF Range
  <2>6. Len(<< >>) = 0
    OBVIOUS
  <2> HIDE DEF First
  <2> QED BY <1>4, <1>7, <2>2, <2>3, <2>4, <2>5, <2>6
<1>9. ASSUME NEW k \in Nat, k \in G PROVE k + 1 \in G
  <2> SUFFICES ASSUME k + 1 <= n PROVE Inv(k + 1)
    OBVIOUS
  <2>1. k + 1 \in 1 .. n /\ (k + 1) - 1 = k /\ k \in 0 .. n /\ k + 1 \in 0 .. n
    OBVIOUS
  <2>2. Inv(k)
    BY <1>9
  <2>3. PICK g, s : g = Good(all, k + 1, d) /\ s = Shown(all, k + 1)
    OBVIOUS
  <2>4. s \in T
    BY <1>2, <2>1, <2>3
  <2>5. x[k + 1] \in [Datasets -> Seq(T)] /\ ShowsNext(x[k][d], x[k + 1][d], g, s)
    <3>1. PICK j \in 1 .. n : j = k + 1 /\ j - 1 = k
      BY <2>1
    <3>2. a[j - 1].examples \in [Datasets -> Seq(T)] /\ Shown(all, j) \in T
      BY <1>6, <2>1, <2>2, <2>3, <2>4, <3>1
    <3>3. /\ a[j].examples \in [Datasets -> Seq(T)]
          /\ ShowsNext(a[j - 1].examples[d], a[j].examples[d], Good(all, j, d), Shown(all, j))
      BY <3>2, ExampleStep
    <3> QED BY <1>6, <2>1, <2>3, <3>1, <3>3
  <2>6. h[k + 1] = h[k] + (IF g THEN 1 ELSE 0) /\ h[k] \in Nat
    BY <1>5, <2>1, <2>3
  <2>7. PICK e, f : e = x[k][d] /\ f = x[k + 1][d] /\ e \in Seq(T)
    BY <2>2
  <2>8. First(k + 1) = First(k) \cup (IF g /\ h[k] < ExampleLimit THEN {k + 1} ELSE {})
    <3>1. 1 .. (k + 1) = (1 .. k) \cup {k + 1}
      OBVIOUS
    <3> QED BY <2>1, <2>3, <3>1
  <2>9. \A A : ShownIn(all, A \cup {k + 1}) = ShownIn(all, A) \cup {s}
               /\ ShownIn(all, A \cup {}) = ShownIn(all, A)
    BY <2>3 DEF ShownIn
  <2> HIDE DEF First
  <2>10. CASE g /\ h[k] < ExampleLimit
    <3>1. Len(e) = h[k] /\ Len(e) < ExampleLimit
      BY <2>2, <2>7, <2>10
    <3>2. f = Append(e, s)
      BY <2>5, <2>7, <2>10, <3>1 DEF ShowsNext
    <3>3. Len(f) = Len(e) + 1
      BY <2>4, <2>7, <3>2, AppendProperties
    <3>4. Range(f) = Range(e) \cup {s}
      BY <2>4, <2>7, <3>2, RangeOfAppend
    <3>5. First(k + 1) = First(k) \cup {k + 1}
      BY <2>8, <2>10
    <3>6. Range(f) = ShownIn(all, First(k + 1))
      BY <2>2, <2>7, <2>9, <3>4, <3>5
    <3>7. Len(f) = IF h[k + 1] < ExampleLimit THEN h[k + 1] ELSE ExampleLimit
      BY <1>7, <2>6, <2>10, <3>1, <3>3
    <3> QED BY <2>5, <2>7, <3>6, <3>7
  <2>11. CASE ~ (g /\ h[k] < ExampleLimit)
    <3>1. f = e
      BY <1>7, <2>2, <2>5, <2>6, <2>7, <2>11 DEF ShowsNext
    <3>2. First(k + 1) = First(k)
      BY <2>8, <2>11
    <3>3. Len(e) = IF h[k + 1] < ExampleLimit THEN h[k + 1] ELSE ExampleLimit
      BY <1>7, <2>2, <2>6, <2>7, <2>11
    <3> QED BY <2>2, <2>5, <2>7, <3>1, <3>2, <3>3
  <2> QED BY <2>10, <2>11
<1>10. n \in G
  <2> HIDE DEF G
  <2> QED BY <1>8, <1>9, NaturalInduction
<1>11. First(n) = FirstGood(all, n, d)
  <2>1. ASSUME NEW i \in 1 .. n
        PROVE  h[i - 1] = Cardinality({j \in 1 .. n : Good(all, j, d) /\ j < i})
    <3>1. Having(K, 0, i - 1) = {j \in 1 .. n : Good(all, j, d) /\ j < i}
      <4>1. \A j \in 1 .. (i - 1) : j \in 1 .. n /\ (0 \in K[j] <=> Good(all, j, d))
        BY <1>1
      <4>2. \A j \in 1 .. n : j \in 1 .. (i - 1) <=> j < i
        OBVIOUS
      <4> QED BY <4>1, <4>2 DEF Having
    <3>2. i - 1 \in 0 .. n
      OBVIOUS
    <3> QED BY <1>3, <3>1, <3>2
  <2> QED BY <2>1 DEF FirstGood
<1>12. x[n] = a[n].examples
  BY <1>6
<1> HIDE DEF First
<1>13. Range(x[n][d]) = ShownIn(all, First(n))
  BY <1>10
<1> QED BY <1>11, <1>12, <1>13

\* What the fields of the accumulator are when n records have been seen.
TextSees(x, all, n) ==
  /\ RowsAre(x.rows, all, {i \in 1 .. n : HasText(all, i)}, n)
  /\ \A y : CountOf(y, x.quality) = Cardinality({i \in 1 .. n : y \in QualityKeys(all, i)})
  /\ x.chars = Counted([i \in 1 .. n |-> CharKeys(all, i)], n)
  /\ x.snapshots = Counted([i \in 1 .. n |-> SnapshotKeys(all, i)], n)
  /\ x.relations = Counted([i \in 1 .. n |-> RelationKeys(all, i)], n)
  /\ \A d \in Datasets : Range(x.examples[d]) = ShownIn(all, FirstGood(all, n, d))
  /\ DOMAIN x.examples = Datasets

\* There are examples of the two datasets and of nothing else.
LEMMA ExamplesDomain ==
  ASSUME NEW all, NEW n \in Nat, NEW a, TextGives(a, all, n)
  PROVE  DOMAIN a[n].examples = Datasets
<1> DEFINE G == {k \in Nat : k <= n => DOMAIN a[k].examples = Datasets}
<1>1. 0 \in G
  BY DEF TextGives
<1>2. ASSUME NEW k \in Nat, k \in G PROVE k + 1 \in G
  <2> SUFFICES ASSUME k + 1 <= n PROVE DOMAIN a[k + 1].examples = Datasets
    OBVIOUS
  <2>1. k + 1 \in 1 .. n /\ (k + 1) - 1 = k
    OBVIOUS
  <2>2. PICK x, y, c, z : x = a[k].examples /\ y = a[k + 1].examples
                          /\ c = all[k + 1].dataset /\ z = Append(x[c], Shown(all, k + 1))
    OBVIOUS
  <2>3. y = [x EXCEPT ![c] = z] \/ y = x
    BY <2>1, <2>2 DEF TextGives
  <2>4. DOMAIN x = Datasets
    BY <1>2, <2>2
  <2> QED BY <2>2, <2>3, <2>4
<1>3. n \in G
  <2> HIDE DEF G
  <2> QED BY <1>1, <1>2, NaturalInduction
<1> QED BY <1>3

\* After n records the text accumulator holds the qualities, sizes and examples of them.
LEMMA TextSeen ==
  ASSUME NEW all, NEW n, IsRecords(all, n), NEW a, TextRun(a, all, n)
  PROVE  TextSees(a[n], all, n)
<1>0. n \in Nat
  BY RecordsFact
<1>1. TextGives(a, all, n)
  BY <1>0, TextFields
<1>2. RowsAre(a[n].rows, all, {i \in 1 .. n : HasText(all, i)}, n)
  <2>1. PICK good : good = {i \in 1 .. n : HasText(all, i)} /\ good \in SUBSET (1 .. n)
    OBVIOUS
  <2>2. /\ a[0].rows = NoRows
        /\ \A k \in 1 .. n :
             a[k].rows = IF k \in good THEN Tally(a[k - 1].rows, all[k], TRUE)
                                       ELSE Tally(a[k - 1].rows, all[k], FALSE)
    BY <1>1, <2>1 DEF TextGives
  <2> QED BY <1>0, <2>1, <2>2, FieldRows
<1>3. \A y : CountOf(y, a[n].quality) = Cardinality({i \in 1 .. n : y \in QualityKeys(all, i)})
  <2>1. PICK K : K = [i \in 1 .. n |-> QualityKeys(all, i)]
    OBVIOUS
  <2>2. FieldCounts(a, "quality", K, n)
    BY <1>1, <2>1 DEF TextGives, FieldCounts
  <2>3. Says(a[n]["quality"], K, n)
    BY <1>0, <2>2, FieldCounter
  <2>4. \A x : {i \in 1 .. n : x \in K[i]} = {i \in 1 .. n : x \in QualityKeys(all, i)}
    BY <2>1
  <2> QED BY <2>3, <2>4 DEF Says
<1>4. a[n].chars = Counted([i \in 1 .. n |-> CharKeys(all, i)], n)
  <2>1. PICK K : K = [i \in 1 .. n |-> CharKeys(all, i)]
    OBVIOUS
  <2>2. FieldCounts(a, "chars", K, n)
    BY <1>1, <2>1 DEF TextGives, FieldCounts
  <2>3. a[n]["chars"] = Counted(K, n)
    BY <1>0, <2>2, FieldCounter
  <2> QED BY <2>1, <2>3
<1>5. a[n].snapshots = Counted([i \in 1 .. n |-> SnapshotKeys(all, i)], n)
  <2>1. PICK K : K = [i \in 1 .. n |-> SnapshotKeys(all, i)]
    OBVIOUS
  <2>2. FieldCounts(a, "snapshots", K, n)
    BY <1>1, <2>1 DEF TextGives, FieldCounts
  <2>3. a[n]["snapshots"] = Counted(K, n)
    BY <1>0, <2>2, FieldCounter
  <2> QED BY <2>1, <2>3
<1>6. a[n].relations = Counted([i \in 1 .. n |-> RelationKeys(all, i)], n)
  <2>1. PICK K : K = [i \in 1 .. n |-> RelationKeys(all, i)]
    OBVIOUS
  <2>2. FieldCounts(a, "relations", K, n)
    BY <1>1, <2>1 DEF TextGives, FieldCounts
  <2>3. a[n]["relations"] = Counted(K, n)
    BY <1>0, <2>2, FieldCounter
  <2> QED BY <2>1, <2>3
<1>7. \A d \in Datasets : Range(a[n].examples[d]) = ShownIn(all, FirstGood(all, n, d))
  BY <1>0, <1>1, RecordsFact, ExamplesFact
<1>8. DOMAIN a[n].examples = Datasets
  BY <1>0, <1>1, ExamplesDomain
<1> QED BY <1>2, <1>3, <1>4, <1>5, <1>6, <1>7, <1>8 DEF TextSees

Sizes(all, A) == [i \in A |-> TextSize[all[i].text]]
Texted(all) == {i \in DOMAIN all : HasText(all, i)}
TextsIn(all, d) == {i \in Texted(all) : all[i].dataset = d}
OfSnapshot(all, d, s) == {i \in Texted(all) : all[i].dataset = d /\ Label(all[i]) = s}
OfRelation(all, rel) == {i \in Texted(all) : all[i].relation = rel}

\* Sizes are naturals.
LEMMA SizesType ==
  ASSUME NEW all, NEW n, IsRecords(all, n), NEW i \in 1 .. n
  PROVE  SizeOf(all, i) \in Nat
<1>1. TextSize \in [DOMAIN Quality -> Nat]
  BY CountsAssumption
<1>2. all[i].text \in DOMAIN Quality
  BY RecordsFact
<1> QED BY <1>1, <1>2 DEF SizeOf

\* A key of one part and a size, put together and taken apart.
LEMMA PairParts ==
  ASSUME NEW x, NEW y
  PROVE  Append(<<x>>, y) = <<x, y>> /\ Front(Append(<<x>>, y)) = <<x>> /\ Last(Append(<<x>>, y)) = y
<1>1. PICK T : T = {x, y}
  OBVIOUS
<1>2. <<x>> \in Seq(T) /\ y \in T
  BY <1>1
<1>3. Append(<<x>>, y) = <<x, y>>
  <2>1. PICK a, b : a = Append(<<x>>, y) /\ b = <<x, y>>
    OBVIOUS
  <2>2. a \in Seq(T) /\ Len(a) = 2 /\ a[1] = x /\ a[2] = y
    BY <1>2, <2>1, AppendProperties
  <2>3. b \in Seq(T) /\ Len(b) = 2 /\ b[1] = x /\ b[2] = y
    BY <1>1, <2>1
  <2>4. \A i \in 1 .. 2 : i = 1 \/ i = 2
    OBVIOUS
  <2> QED BY <2>1, <2>2, <2>3, <2>4, SeqEqual
<1> QED BY <1>2, <1>3, AppendParts

\* A key of two parts and a size, put together and taken apart.
LEMMA TripleParts ==
  ASSUME NEW x, NEW y, NEW z
  PROVE  /\ Append(<<x, y>>, z) = <<x, y, z>>
         /\ Front(Append(<<x, y>>, z)) = <<x, y>> /\ Last(Append(<<x, y>>, z)) = z
<1>1. PICK T : T = {x, y, z}
  OBVIOUS
<1>2. <<x, y>> \in Seq(T) /\ z \in T
  BY <1>1
<1>3. Append(<<x, y>>, z) = <<x, y, z>>
  <2>1. PICK a, b, c : a = Append(<<x, y>>, z) /\ b = <<x, y, z>> /\ c = <<x, y>>
    OBVIOUS
  <2>2. c \in Seq(T) /\ Len(c) = 2 /\ c[1] = x /\ c[2] = y /\ a = Append(c, z)
    BY <1>2, <2>1
  <2>3. a \in Seq(T) /\ Len(a) = 3 /\ a[1] = x /\ a[2] = y /\ a[3] = z
    <3>1. /\ a \in Seq(T) /\ Len(a) = Len(c) + 1 /\ a[Len(c) + 1] = z
          /\ \A i \in 1 .. Len(c) : a[i] = c[i]
      <4>1. c \in Seq(T) /\ z \in T /\ a = Append(c, z)
        BY <1>2, <2>2
      <4> HIDE <2>1, <2>2
      <4> QED BY <4>1, AppendProperties, Zenon
    <3>2. Len(c) + 1 = 3 /\ 1 \in 1 .. Len(c) /\ 2 \in 1 .. Len(c)
      BY <2>2
    <3> QED BY <2>2, <3>1, <3>2
  <2>4. b \in Seq(T) /\ Len(b) = 3 /\ b[1] = x /\ b[2] = y /\ b[3] = z
    BY <1>1, <2>1
  <2>5. \A i \in 1 .. 3 : i = 1 \/ i = 2 \/ i = 3
    OBVIOUS
  <2> QED BY <2>1, <2>3, <2>4, <2>5, SeqEqual
<1> QED BY <1>2, <1>3, AppendParts

DatasetsSummed(S, all) ==
  \A d : SummaryExact(SummaryUnder(S, <<d>>), Sizes(all, TextsIn(all, d)))

\* The summaries per dataset are those of its texts.
LEMMA DatasetsSummary ==
  ASSUME NEW all, NEW n, IsRecords(all, n), NEW x, TextSees(x, all, n)
  PROVE  DatasetsSummed(SummariesOf(x.chars), all)
<1>1. n \in Nat /\ DOMAIN all = 1 .. n
  BY RecordsFact
<1>2. PICK K, J, key, size : /\ K = [i \in 1 .. n |-> CharKeys(all, i)]
                             /\ J = {i \in 1 .. n : HasText(all, i)}
                             /\ key = [i \in 1 .. n |-> <<all[i].dataset>>]
                             /\ size = [i \in 1 .. n |-> SizeOf(all, i)]
  OBVIOUS
<1>3. J \in SUBSET (1 .. n) /\ \A i \in J : size[i] \in Nat
  BY <1>2, SizesType
<1>4. ASSUME NEW i \in 1 .. n
      PROVE  /\ K[i] = IF i \in J THEN {Append(key[i], size[i])} ELSE {}
             /\ Front(Append(key[i], size[i])) = key[i] /\ Last(Append(key[i], size[i])) = size[i]
  <2>1. PICK d, s : d = all[i].dataset /\ s = size[i]
    OBVIOUS
  <2>2. key[i] = <<d>>
    BY <1>2, <2>1
  <2>3. K[i] = IF i \in J THEN {<<d, s>>} ELSE {}
    BY <1>2, <2>1 DEF CharKeys, When
  <2>4. /\ Append(<<d>>, s) = <<d, s>>
        /\ Front(Append(<<d>>, s)) = <<d>> /\ Last(Append(<<d>>, s)) = s
    BY PairParts
  <2> QED BY <2>1, <2>2, <2>3, <2>4, Zenon
<1>5. Keyed(K, J, key, size, n)
  BY <1>3, <1>4 DEF Keyed
<1>6. x.chars = Counted(K, n)
  BY <1>2 DEF TextSees
<1>7. Summarised(SummariesOf(Counted(K, n)), J, key, size)
  BY <1>1, <1>3, <1>5, SummariesFact
<1>8. PICK S : S = SummariesOf(x.chars)
  OBVIOUS
<1>9. ASSUME NEW d PROVE SummaryExact(SummaryUnder(S, <<d>>), Sizes(all, TextsIn(all, d)))
  <2>1. SummaryExact(SummaryUnder(S, <<d>>), [i \in AtKey(J, key, <<d>>) |-> size[i]])
    BY <1>6, <1>7, <1>8 DEF Summarised
  <2>2. \A i \in 1 .. n : key[i] = <<d>> <=> all[i].dataset = d
    BY <1>2
  <2>3. AtKey(J, key, <<d>>) = TextsIn(all, d)
    BY <1>1, <1>2, <2>2 DEF AtKey, TextsIn, Texted
  <2>4. \A i \in TextsIn(all, d) : size[i] = TextSize[all[i].text]
    BY <1>1, <1>2 DEF TextsIn, Texted, SizeOf
  <2>5. [i \in AtKey(J, key, <<d>>) |-> size[i]] = Sizes(all, TextsIn(all, d))
    BY <2>3, <2>4 DEF Sizes
  <2> QED BY <2>1, <2>5
<1> QED BY <1>8, <1>9 DEF DatasetsSummed

SnapshotsSummed(S, all) ==
  \A i \in Texted(all) :
    SummaryExact(S[<<all[i].dataset, Label(all[i])>>],
                 Sizes(all, OfSnapshot(all, all[i].dataset, Label(all[i]))))

\* The summaries per dataset and quarter are those of their texts.
LEMMA SnapshotsSummary ==
  ASSUME NEW all, NEW n, IsRecords(all, n), NEW x, TextSees(x, all, n)
  PROVE  SnapshotsSummed(SummariesOf(x.snapshots), all)
<1>1. n \in Nat /\ DOMAIN all = 1 .. n
  BY RecordsFact
<1>2. PICK K, J, key, size : /\ K = [i \in 1 .. n |-> SnapshotKeys(all, i)]
                             /\ J = {i \in 1 .. n : HasText(all, i)}
                             /\ key = [i \in 1 .. n |-> <<all[i].dataset, Label(all[i])>>]
                             /\ size = [i \in 1 .. n |-> SizeOf(all, i)]
  OBVIOUS
<1>3. J \in SUBSET (1 .. n) /\ \A i \in J : size[i] \in Nat
  BY <1>2, SizesType
<1>4. ASSUME NEW i \in 1 .. n
      PROVE  /\ K[i] = IF i \in J THEN {Append(key[i], size[i])} ELSE {}
             /\ Front(Append(key[i], size[i])) = key[i] /\ Last(Append(key[i], size[i])) = size[i]
  <2>1. PICK d, l, s : d = all[i].dataset /\ l = Label(all[i]) /\ s = size[i]
    OBVIOUS
  <2>2. key[i] = <<d, l>>
    BY <1>2, <2>1
  <2>3. K[i] = IF i \in J THEN {<<d, l, s>>} ELSE {}
    <3>1. K[i] = SnapshotKeys(all, i) /\ (i \in J <=> HasText(all, i)) /\ s = SizeOf(all, i)
      BY <1>2, <2>1
    <3>2. SnapshotKeys(all, i) = IF HasText(all, i) THEN {<<d, l, s>>} ELSE {}
      BY <2>1, <3>1 DEF SnapshotKeys, When
    <3> QED BY <3>1, <3>2
  <2>4. /\ Append(<<d, l>>, s) = <<d, l, s>>
        /\ Front(Append(<<d, l>>, s)) = <<d, l>> /\ Last(Append(<<d, l>>, s)) = s
    BY TripleParts
  <2> QED BY <2>1, <2>2, <2>3, <2>4, Zenon
<1>5. Keyed(K, J, key, size, n)
  BY <1>3, <1>4 DEF Keyed
<1>6. x.snapshots = Counted(K, n)
  BY <1>2 DEF TextSees
<1>7. Summarised(SummariesOf(Counted(K, n)), J, key, size)
  BY <1>1, <1>3, <1>5, SummariesFact
<1>8. PICK S : S = SummariesOf(x.snapshots)
  OBVIOUS
<1>9. ASSUME NEW j \in Texted(all), NEW d, NEW l, d = all[j].dataset, l = Label(all[j])
      PROVE  SummaryExact(S[<<d, l>>], Sizes(all, OfSnapshot(all, d, l)))
  <2>1. SummaryExact(SummaryUnder(S, <<d, l>>), [i \in AtKey(J, key, <<d, l>>) |-> size[i]])
    BY <1>6, <1>7, <1>8 DEF Summarised
  <2>2. \A i \in 1 .. n : key[i] = <<d, l>> <=> all[i].dataset = d /\ Label(all[i]) = l
    BY <1>2
  <2>3. AtKey(J, key, <<d, l>>) = OfSnapshot(all, d, l)
    BY <1>1, <1>2, <2>2 DEF AtKey, OfSnapshot, Texted
  <2>4. \A i \in OfSnapshot(all, d, l) : size[i] = TextSize[all[i].text]
    BY <1>1, <1>2 DEF OfSnapshot, Texted, SizeOf
  <2>5. [i \in AtKey(J, key, <<d, l>>) |-> size[i]] = Sizes(all, OfSnapshot(all, d, l))
    BY <2>3, <2>4 DEF Sizes
  <2>6. <<d, l>> \in DOMAIN S
    <3>1. j \in J /\ key[j] = <<d, l>>
      BY <1>1, <1>2, <1>9 DEF Texted
    <3> QED BY <1>6, <1>7, <1>8, <3>1 DEF Summarised, KeysIn
  <2> QED BY <2>1, <2>5, <2>6 DEF SummaryUnder
<1> QED BY <1>8, <1>9 DEF SnapshotsSummed

RelationsSummed(S, all) ==
  \A i \in Texted(all) : all[i].relation # "" =>
    SummaryExact(S[<<all[i].relation>>], Sizes(all, OfRelation(all, all[i].relation)))

\* The summaries per relation are those of its texts.
LEMMA RelationsSummary ==
  ASSUME NEW all, NEW n, IsRecords(all, n), NEW x, TextSees(x, all, n)
  PROVE  RelationsSummed(SummariesOf(x.relations), all)
<1>1. n \in Nat /\ DOMAIN all = 1 .. n
  BY RecordsFact
<1>2. PICK K, J, key, size : /\ K = [i \in 1 .. n |-> RelationKeys(all, i)]
                             /\ J = {i \in 1 .. n : HasText(all, i) /\ all[i].relation # ""}
                             /\ key = [i \in 1 .. n |-> <<all[i].relation>>]
                             /\ size = [i \in 1 .. n |-> SizeOf(all, i)]
  OBVIOUS
<1>3. J \in SUBSET (1 .. n) /\ \A i \in J : size[i] \in Nat
  BY <1>2, SizesType
<1>4. ASSUME NEW i \in 1 .. n
      PROVE  /\ K[i] = IF i \in J THEN {Append(key[i], size[i])} ELSE {}
             /\ Front(Append(key[i], size[i])) = key[i] /\ Last(Append(key[i], size[i])) = size[i]
  <2>1. PICK d, s : d = all[i].relation /\ s = size[i]
    OBVIOUS
  <2>2. key[i] = <<d>>
    BY <1>2, <2>1
  <2>3. K[i] = IF i \in J THEN {<<d, s>>} ELSE {}
    <3>1. /\ K[i] = RelationKeys(all, i) /\ (i \in J <=> HasText(all, i) /\ d # "")
          /\ s = SizeOf(all, i)
      BY <1>2, <2>1
    <3>2. RelationKeys(all, i) = IF HasText(all, i) /\ d # "" THEN {<<d, s>>} ELSE {}
      BY <2>1, <3>1 DEF RelationKeys, When
    <3> QED BY <3>1, <3>2
  <2>4. /\ Append(<<d>>, s) = <<d, s>>
        /\ Front(Append(<<d>>, s)) = <<d>> /\ Last(Append(<<d>>, s)) = s
    BY PairParts
  <2> QED BY <2>1, <2>2, <2>3, <2>4, Zenon
<1>5. Keyed(K, J, key, size, n)
  BY <1>3, <1>4 DEF Keyed
<1>6. x.relations = Counted(K, n)
  BY <1>2 DEF TextSees
<1>7. Summarised(SummariesOf(Counted(K, n)), J, key, size)
  BY <1>1, <1>3, <1>5, SummariesFact
<1>8. PICK S : S = SummariesOf(x.relations)
  OBVIOUS
<1>9. ASSUME NEW j \in Texted(all), NEW rel, rel = all[j].relation, rel # ""
      PROVE  SummaryExact(S[<<rel>>], Sizes(all, OfRelation(all, rel)))
  <2>1. SummaryExact(SummaryUnder(S, <<rel>>), [i \in AtKey(J, key, <<rel>>) |-> size[i]])
    BY <1>6, <1>7, <1>8 DEF Summarised
  <2>2. \A i \in 1 .. n : key[i] = <<rel>> <=> all[i].relation = rel
    BY <1>2
  <2>3. AtKey(J, key, <<rel>>) = OfRelation(all, rel)
    BY <1>1, <1>2, <1>9, <2>2 DEF AtKey, OfRelation, Texted
  <2>4. \A i \in OfRelation(all, rel) : size[i] = TextSize[all[i].text]
    BY <1>1, <1>2 DEF OfRelation, Texted, SizeOf
  <2>5. [i \in AtKey(J, key, <<rel>>) |-> size[i]] = Sizes(all, OfRelation(all, rel))
    BY <2>3, <2>4 DEF Sizes
  <2>6. <<rel>> \in DOMAIN S
    <3>1. j \in J /\ key[j] = <<rel>>
      BY <1>1, <1>2, <1>9 DEF Texted
    <3> QED BY <1>6, <1>7, <1>8, <3>1 DEF Summarised, KeysIn
  <2> QED BY <2>1, <2>5, <2>6 DEF SummaryUnder
<1> QED BY <1>8, <1>9 DEF RelationsSummed

\* A text that is neither missing nor empty is blank or good.
LEMMA KeptTexts ==
  ASSUME NEW all, NEW n, IsRecords(all, n), NEW i \in 1 .. n
  PROVE  HasText(all, i) <=> Quality[all[i].text] \in {"blank", "ok"}
<1>1. Quality \in [DOMAIN Quality -> {"null", "empty", "blank", "ok"}]
  BY CountsAssumption
<1>2. all[i].text \in DOMAIN Quality
  BY RecordsFact
<1>3. Quality[all[i].text] \in {"null", "empty", "blank", "ok"}
  BY <1>1, <1>2
<1> QED BY <1>3 DEF HasText

\* The good texts of a dataset, and the first of them.
GoodOf(all, d) == {i \in DOMAIN all : Good(all, i, d)}
FirstOf(all, d) ==
  {i \in GoodOf(all, d) : Cardinality({j \in GoodOf(all, d) : j < i}) < ExampleLimit}

\* The first good texts among n records are the first among all.
LEMMA FirstFact ==
  ASSUME NEW all, NEW n, IsRecords(all, n), NEW d
  PROVE  FirstGood(all, n, d) = FirstOf(all, d)
<1>1. DOMAIN all = 1 .. n
  BY RecordsFact
<1>2. \A i : {j \in 1 .. n : Good(all, j, d) /\ j < i} = {j \in GoodOf(all, d) : j < i}
  BY <1>1 DEF GoodOf
<1>3. \A i : i \in GoodOf(all, d) <=> i \in 1 .. n /\ Good(all, i, d)
  BY <1>1 DEF GoodOf
<1> QED BY <1>2, <1>3 DEF FirstGood, FirstOf

\* The text report of what was seen is its definition over all records.
LEMMA TextReported ==
  ASSUME NEW all, NEW n, IsRecords(all, n), NEW x, TextSees(x, all, n)
  PROVE  TextExact(TextReport(x), all)
<1>1. n \in Nat /\ DOMAIN all = 1 .. n /\ Len(all) = n
  BY RecordsFact DEF IsRecords
<1>2. PICK rep : rep = TextReport(x)
  OBVIOUS
<1>3. /\ rep.rows = x.rows /\ rep.quality = x.quality
      /\ rep.perDataset = SummariesOf(x.chars) /\ rep.perSnapshot = SummariesOf(x.snapshots)
      /\ rep.perRelation = SummariesOf(x.relations)
      /\ rep.examples = [d \in DOMAIN x.examples |-> Range(x.examples[d])]
  <2>1. PICK x1, x2, x3, x4, x5, x6 :
          /\ x1 = x.rows /\ x2 = x.quality /\ x3 = SummariesOf(x.chars)
          /\ x4 = SummariesOf(x.snapshots) /\ x5 = SummariesOf(x.relations)
          /\ x6 = [d \in DOMAIN x.examples |-> Range(x.examples[d])]
    OBVIOUS
  <2>2. TextReport(x) =
          [rows |-> x.rows, quality |-> x.quality, perDataset |-> SummariesOf(x.chars),
           perSnapshot |-> SummariesOf(x.snapshots), perRelation |-> SummariesOf(x.relations),
           examples |-> [d \in DOMAIN x.examples |-> Range(x.examples[d])]]
    BY Zenon DEF TextReport, SummariesOf, FrontsOf
  <2>3. rep = [rows |-> x1, quality |-> x2, perDataset |-> x3, perSnapshot |-> x4,
               perRelation |-> x5, examples |-> x6]
    BY <1>2, <2>1, <2>2
  <2>4. /\ rep.rows = x1 /\ rep.quality = x2 /\ rep.perDataset = x3 /\ rep.perSnapshot = x4
        /\ rep.perRelation = x5 /\ rep.examples = x6
    BY <2>3
  <2> QED BY <2>1, <2>4
<1>4. \A i \in DOMAIN all : HasText(all, i) <=> Quality[all[i].text] \in {"blank", "ok"}
  BY <1>1, KeptTexts
<1>5. RowsExact(rep.rows, all, LAMBDA r : Quality[r.text] \in {"blank", "ok"})
  <2>1. RowsAre(rep.rows, all, {i \in 1 .. n : HasText(all, i)}, n)
    BY <1>3 DEF TextSees
  <2>2. {i \in 1 .. n : HasText(all, i)}
          = {i \in DOMAIN all : Quality[all[i].text] \in {"blank", "ok"}}
    BY <1>1, <1>4
  <2>3. /\ rep.rows.inspected = Len(all)
        /\ rep.rows.accepted
             = Cardinality({i \in DOMAIN all : Quality[all[i].text] \in {"blank", "ok"}})
        /\ rep.rows.accepted + rep.rows.rejected = rep.rows.inspected
        /\ rep.rows.files = {all[i].file : i \in DOMAIN all}
    BY <1>1, <2>1, <2>2 DEF RowsAre
  <2> QED BY <2>3 DEF RowsExact, Number, Which
<1>6. ASSUME NEW d
      PROVE  /\ TextsIn(all, d) = Which(all, LAMBDA r :
                  Quality[r.text] \in {"blank", "ok"} /\ r.dataset = d)
             /\ GoodOf(all, d) = Which(all, LAMBDA r : r.dataset = d /\ Quality[r.text] = "ok")
             /\ \A l : OfSnapshot(all, d, l) = Which(all, LAMBDA r :
                  Quality[r.text] \in {"blank", "ok"} /\ (r.dataset = d /\ Label(r) = l))
  BY <1>4 DEF TextsIn, OfSnapshot, Texted, Which, GoodOf, Good
<1>7. ASSUME NEW rel
      PROVE  OfRelation(all, rel) = Which(all, LAMBDA r :
                  Quality[r.text] \in {"blank", "ok"} /\ r.relation = rel)
  BY <1>4 DEF OfRelation, Texted, Which
<1>8. ASSUME NEW d \in {"A", "B"}
      PROVE  LET good == Which(all, LAMBDA r : r.dataset = d /\ Quality[r.text] = "ok")
                 first == {i \in good : Cardinality({j \in good : j < i}) < ExampleLimit}
             IN  /\ SummaryExact(IF <<d>> \in DOMAIN rep.perDataset THEN rep.perDataset[<<d>>]
                                                                    ELSE << >>,
                                 [i \in Which(all, LAMBDA r :
                                      Quality[r.text] \in {"blank", "ok"} /\ r.dataset = d)
                                    |-> TextSize[all[i].text]])
                 /\ rep.examples[d]
                      = {<<all[i].text, Label(all[i]), all[i].relation>> : i \in first}
                 /\ \A k \in Range(Quality) :
                      CountOf(<<d, k>>, rep.quality) = Cardinality(Which(all, LAMBDA r :
                         r.dataset = d /\ Quality[r.text] = k))
  <2>1. SummaryExact(SummaryUnder(rep.perDataset, <<d>>), Sizes(all, TextsIn(all, d)))
    <3>1. DatasetsSummed(rep.perDataset, all)
      BY <1>3, DatasetsSummary
    <3> QED BY <3>1 DEF DatasetsSummed
  <2>2. SummaryExact(IF <<d>> \in DOMAIN rep.perDataset THEN rep.perDataset[<<d>>] ELSE << >>,
                     [i \in Which(all, LAMBDA r :
                          Quality[r.text] \in {"blank", "ok"} /\ r.dataset = d)
                        |-> TextSize[all[i].text]])
    BY <1>6, <2>1, Zenon DEF SummaryUnder, Sizes
  <2>3. PICK good : good = GoodOf(all, d)
    OBVIOUS
  <2>4. good = Which(all, LAMBDA r : r.dataset = d /\ Quality[r.text] = "ok")
    BY <2>3 DEF GoodOf, Good, Which
  <2>5. rep.examples[d] = ShownIn(all, FirstOf(all, d))
    <3>1. d \in Datasets /\ d \in DOMAIN x.examples
      BY DEF TextSees, Datasets
    <3>2. Range(x.examples[d]) = ShownIn(all, FirstGood(all, n, d))
      BY <3>1 DEF TextSees
    <3>3. rep.examples[d] = Range(x.examples[d])
      BY <1>3, <3>1
    <3> QED BY <3>2, <3>3, FirstFact
  <2>6. rep.examples[d] = {<<all[i].text, Label(all[i]), all[i].relation>> :
                             i \in {i \in good : Cardinality({j \in good : j < i}) < ExampleLimit}}
    BY <2>3, <2>5, Zenon DEF ShownIn, Shown, FirstOf
  <2>7. ASSUME NEW k
        PROVE  CountOf(<<d, k>>, rep.quality) = Cardinality(Which(all, LAMBDA r :
                         r.dataset = d /\ Quality[r.text] = k))
    <3>1. CountOf(<<d, k>>, x.quality) = Cardinality({i \in 1 .. n : <<d, k>> \in QualityKeys(all, i)})
      BY DEF TextSees
    <3>2. {i \in 1 .. n : <<d, k>> \in QualityKeys(all, i)}
            = {i \in DOMAIN all : all[i].dataset = d /\ Quality[all[i].text] = k}
      <4>1. \A i : <<d, k>> \in QualityKeys(all, i) <=> all[i].dataset = d /\ Quality[all[i].text] = k
        BY DEF QualityKeys
      <4> QED BY <1>1, <4>1
    <3> QED BY <1>3, <3>1, <3>2 DEF Which
  <2> QED BY <2>2, <2>4, <2>6, <2>7, Zenon DEF Which
<1>9. ASSUME NEW i \in Which(all, LAMBDA r : Quality[r.text] \in {"blank", "ok"})
      PROVE  LET r == all[i] IN
             /\ SummaryExact(rep.perSnapshot[<<r.dataset, Label(r)>>],
                  [j \in Which(all, LAMBDA o : Quality[o.text] \in {"blank", "ok"}
                                         /\ (o.dataset = r.dataset /\ Label(o) = Label(r)))
                     |-> TextSize[all[j].text]])
             /\ r.relation # "" => SummaryExact(rep.perRelation[<<r.relation>>],
                  [j \in Which(all, LAMBDA o : Quality[o.text] \in {"blank", "ok"}
                                         /\ o.relation = r.relation)
                     |-> TextSize[all[j].text]])
  <2>1. i \in Texted(all)
    BY <1>4, <1>9 DEF Which, Texted
  <2>2. PICK d, l, rel : d = all[i].dataset /\ l = Label(all[i]) /\ rel = all[i].relation
    OBVIOUS
  <2>3. SummaryExact(rep.perSnapshot[<<d, l>>], Sizes(all, OfSnapshot(all, d, l)))
    <3>1. SnapshotsSummed(rep.perSnapshot, all)
      BY <1>3, SnapshotsSummary
    <3> QED BY <2>1, <2>2, <3>1 DEF SnapshotsSummed
  <2>4. rel # "" => SummaryExact(rep.perRelation[<<rel>>], Sizes(all, OfRelation(all, rel)))
    <3>1. RelationsSummed(rep.perRelation, all)
      BY <1>3, RelationsSummary
    <3> QED BY <2>1, <2>2, <3>1 DEF RelationsSummed
  <2>5. SummaryExact(rep.perSnapshot[<<d, l>>],
          [j \in Which(all, LAMBDA o : Quality[o.text] \in {"blank", "ok"}
                                         /\ (o.dataset = d /\ Label(o) = l))
             |-> TextSize[all[j].text]])
    BY <1>6, <2>3, Zenon DEF Sizes
  <2>6. rel # "" => SummaryExact(rep.perRelation[<<rel>>],
          [j \in Which(all, LAMBDA o : Quality[o.text] \in {"blank", "ok"} /\ o.relation = rel)
             |-> TextSize[all[j].text]])
    BY <1>7, <2>4, Zenon DEF Sizes
  <2> QED BY <2>2, <2>5, <2>6, Zenon DEF Which
<1>10. TextExact(rep, all)
  BY <1>5, <1>8, <1>9, Zenon DEF TextExact, Number
<1> QED BY <1>2, <1>10

\* The text report of a sealed run is right: exact quantiles and maxima for every
\* workbook, chunk size and session history.
THEOREM TextCountsHolds == Spec => []TextCounts
<1>1. CountsInv => TextCounts
  <2> SUFFICES ASSUME CountsInv, pc = "sealed"
               PROVE  TextExact(reports.text, AllRecords)
    BY DEF TextCounts
  <2>1. PICK q, n : /\ IsRecords(AllRecords, n) /\ reports = ReportsOf(q[n])
                    /\ q[0].acc = NothingObserved
                    /\ \A k \in 1 .. n : Observed(q[k - 1], q[k], AllRecords[k])
    BY PassSees
  <2>2. n \in Nat
    BY <2>1 DEF IsRecords
  <2>3. PICK a : a = [k \in 0 .. n |-> q[k].acc.text]
    OBVIOUS
  <2>4. TextRun(a, AllRecords, n)
    <3>1. a[0] = NothingObserved.text
      BY <2>1, <2>2, <2>3
    <3>2. ASSUME NEW k \in 1 .. n PROVE a[k] = ObserveText(a[k - 1], AllRecords[k])
      <4>1. k \in 0 .. n /\ k - 1 \in 0 .. n
        BY <2>2
      <4>2. q[k].acc.text = ObserveText(q[k - 1].acc.text, AllRecords[k])
        BY <2>1, ObservedParts
      <4> QED BY <2>3, <4>1, <4>2
    <3> QED BY <3>1, <3>2 DEF TextRun
  <2>5. TextSees(a[n], AllRecords, n)
    BY <2>1, <2>4, TextSeen
  <2>6. reports.text = TextReport(a[n])
    <3>1. reports.text = TextReport(q[n].acc.text)
      BY <2>1 DEF ReportsOf
    <3>2. n \in 0 .. n
      BY <2>2
    <3> QED BY <2>3, <3>1, <3>2
  <2> QED BY <2>1, <2>5, <2>6, TextReported
<1> QED BY <1>1, CountsInductive, PTL

(***************************************************************************)
(* Groups of records, from the table of their occurrences.                 *)
(***************************************************************************)
LEMMA LeastInteger ==
  ASSUME NEW S \in SUBSET Int, IsFiniteSet(S), S # {}
  PROVE  \E m \in S : \A x \in S : m <= x
<1>1. Cardinality(S) \in Nat
  BY FS_CardinalityType
<1> DEFINE G == {k \in Nat : \A T \in SUBSET S : Cardinality(T) = k /\ T # {} =>
                               \E m \in T : \A x \in T : m <= x}
<1>2. 0 \in G
  <2>1. ASSUME NEW T \in SUBSET S, Cardinality(T) = 0 PROVE T = {}
    BY <2>1, FS_Subset, FS_EmptySet
  <2> QED BY <2>1
<1>3. ASSUME NEW k \in Nat, k \in G PROVE k + 1 \in G
  <2>1. ASSUME NEW T \in SUBSET S, Cardinality(T) = k + 1, T # {}
        PROVE  \E m \in T : \A x \in T : m <= x
    <3>1. PICK y \in T : y \in Int
      BY <2>1
    <3>2. Cardinality(T \ {y}) = k
      <4>1. IsFiniteSet(T)
        BY FS_Subset
      <4>2. Cardinality(T \ {y}) = Cardinality(T) - 1
        BY <3>1, <4>1, FS_RemoveElement
      <4> QED BY <2>1, <4>2
    <3>3. CASE T \ {y} = {}
      <4>1. \A x \in T : x = y
        BY <3>3
      <4> QED BY <3>1, <4>1
    <3>4. CASE T \ {y} # {}
      <4>1. PICK m \in T \ {y} : \A x \in T \ {y} : m <= x
        BY <1>3, <3>2, <3>4
      <4>2. m \in Int
        OBVIOUS
      <4>3. CASE m <= y
        BY <4>1, <4>3
      <4>4. CASE ~ (m <= y)
        <5>1. \A x \in T : y <= x
          BY <3>1, <4>1, <4>2, <4>4
        <5> QED BY <3>1, <5>1
      <4> QED BY <4>3, <4>4
    <3> QED BY <3>3, <3>4
  <2> QED BY <2>1
<1>4. Cardinality(S) \in G
  <2> HIDE DEF G
  <2> QED BY <1>1, <1>2, <1>3, NaturalInduction
<1> QED BY <1>4

\* The records of I have the same value, or more than one.
LEMMA AlikeFact ==
  ASSUME NEW I, IsFiniteSet(I), I # {}, NEW v
  PROVE  /\ Cardinality(ValuesOf(v, I)) = 1 <=> \A i, j \in I : v[i] = v[j]
         /\ Cardinality(ValuesOf(v, I)) > 1 <=> \E i, j \in I : v[i] # v[j]
         /\ (\E i, j \in I : v[i] # v[j]) => Cardinality(I) >= 2
<1>1. PICK V : V = ValuesOf(v, I)
  OBVIOUS
<1>2. IsFiniteSet(V) /\ V # {} /\ \A i \in I : v[i] \in V
  BY <1>1, ValuesFinite DEF ValuesOf
<1>3. PICK m \in Nat : m = Cardinality(V)
  BY <1>2, FS_CardinalityType
<1>4. m # 0
  BY <1>2, <1>3, FS_EmptySet
<1>5. m = 1 <=> \E x : V = {x}
  BY <1>2, <1>3, FS_Singleton
<1>6. (\E x : V = {x}) <=> \A i, j \in I : v[i] = v[j]
  <2>1. ASSUME NEW x, V = {x} PROVE \A i, j \in I : v[i] = v[j]
    BY <1>2, <2>1
  <2>2. ASSUME \A i, j \in I : v[i] = v[j] PROVE \E x : V = {x}
    <3>1. PICK i \in I : TRUE
      OBVIOUS
    <3>2. V = {v[i]}
      BY <1>1, <2>2, <3>1 DEF ValuesOf
    <3> QED BY <3>2
  <2> QED BY <2>1, <2>2
<1>7. ASSUME NEW i \in I, NEW j \in I, v[i] # v[j] PROVE Cardinality(I) >= 2
  <2>1. i # j
    BY <1>7
  <2>2. IsFiniteSet({i}) /\ Cardinality({i}) = 1
    BY FS_Singleton
  <2>3. Cardinality({i} \cup {j}) = 2
    <3>1. j \notin {i}
      BY <2>1
    <3>2. Cardinality({i} \cup {j}) = Cardinality({i}) + 1
      BY <2>2, <3>1, FS_AddElement
    <3> QED BY <2>2, <3>2
  <2>4. {i} \cup {j} \in SUBSET I
    OBVIOUS
  <2>5. Cardinality({i} \cup {j}) <= Cardinality(I)
    BY <2>4, FS_Subset
  <2>6. Cardinality(I) \in Nat
    BY FS_CardinalityType
  <2> QED BY <2>3, <2>5, <2>6
<1>8. m = 1 <=> \A i, j \in I : v[i] = v[j]
  BY <1>5, <1>6
<1>9. m > 1 <=> \E i, j \in I : v[i] # v[j]
  BY <1>3, <1>4, <1>8
<1> QED BY <1>1, <1>3, <1>7, <1>8, <1>9

\* The first of some records, by file and then by row.
Precedes(o, p) == o.file < p.file \/ (o.file = p.file /\ o.row < p.row)

\* Finitely many records have one that no other precedes in file and row: the choice of the
\* canonical one is never undefined.
LEMMA FirstExists ==
  ASSUME NEW I, IsFiniteSet(I), I # {}, NEW occ,
         \A i \in I : occ[i].file \in Int /\ occ[i].row \in Int
  PROVE  \E i \in I : \A j \in I : ~ Precedes(occ[j], occ[i])
<1>1. PICK f, r : f = [i \in I |-> occ[i].file] /\ r = [i \in I |-> occ[i].row]
  OBVIOUS
<1>2. PICK a \in ValuesOf(f, I) : \A x \in ValuesOf(f, I) : a <= x
  <2>1. ValuesOf(f, I) \in SUBSET Int /\ ValuesOf(f, I) # {} /\ IsFiniteSet(ValuesOf(f, I))
    BY <1>1, ValuesFinite DEF ValuesOf
  <2> QED BY <2>1, LeastInteger
<1>3. PICK A : A = {i \in I : f[i] = a}
  OBVIOUS
<1>4. A \in SUBSET I /\ A # {} /\ IsFiniteSet(A)
  <2>1. A \in SUBSET I /\ A # {}
    BY <1>2, <1>3 DEF ValuesOf
  <2> QED BY <2>1, FS_Subset
<1>5. PICK b \in ValuesOf(r, A) : \A x \in ValuesOf(r, A) : b <= x
  <2>1. \A i \in A : r[i] \in Int
    BY <1>1, <1>4
  <2>2. ValuesOf(r, A) \in SUBSET Int /\ ValuesOf(r, A) # {}
    BY <1>4, <2>1 DEF ValuesOf
  <2>3. IsFiniteSet(ValuesOf(r, A))
    BY <1>4, ValuesFinite
  <2> QED BY <2>2, <2>3, LeastInteger
<1>6. PICK i \in A : r[i] = b
  BY <1>5 DEF ValuesOf
<1>7. ASSUME NEW j \in I PROVE ~ Precedes(occ[j], occ[i])
  <2>1. occ[i].file = a /\ occ[i].row = b /\ occ[j].file = f[j] /\ occ[j].row = r[j]
    BY <1>1, <1>3, <1>4, <1>6
  <2>2. a <= f[j] /\ a \in Int /\ f[j] \in Int /\ b \in Int /\ r[j] \in Int
    <3>1. f[j] \in ValuesOf(f, I)
      BY DEF ValuesOf
    <3> QED BY <1>2, <1>4, <2>1, <3>1
  <2>3. f[j] = a => b <= r[j]
    <3>1. f[j] = a => r[j] \in ValuesOf(r, A)
      BY <1>3 DEF ValuesOf
    <3> QED BY <1>5, <3>1
  <2>4. ~ (f[j] < a) /\ ~ (f[j] = a /\ r[j] < b)
    BY <2>2, <2>3
  <2> QED BY <2>1, <2>4 DEF Precedes
<1> QED BY <1>4, <1>7

\* The occurrences of a kind are those of the records of J, each under its key.
Occurs(c, kind, J, key, occ) ==
  /\ {o \in DOMAIN c : o.kind = kind} = ValuesOf(occ, J)
  /\ CountsAs(c, occ, J)
  /\ \A i \in J : occ[i].key = key[i] /\ occ[i].file \in Int /\ occ[i].row \in Int

\* What is said of a group, and of all groups of the kind.
GroupIs(gr, J, key, occ, g) ==
  LET members == AtKey(J, key, g)
      alike   == \A i, j \in members : occ[i].content = occ[j].content
      twice   == Cardinality(members) >= 2
  IN  /\ g \in gr.concordant <=> twice /\ alike
      /\ g \in gr.discordant <=> ~ alike
      /\ g \in gr.cross <=> \E i, j \in members : occ[i].file # occ[j].file
      /\ twice => \E i \in members :
           /\ gr.canonical[g] = <<occ[i].file, occ[i].row>>
           /\ \A j \in members : ~ Precedes(occ[j], occ[i])
      /\ gr.multiplicity[Cardinality(members)] =
           Cardinality({h \in KeysIn(J, key) :
                          Cardinality(AtKey(J, key, h)) = Cardinality(members)})

GroupsAre(gr, J, key, occ) ==
  /\ gr.groups = Cardinality(KeysIn(J, key))
  /\ gr.rows = Cardinality(J)
  /\ gr.extra = gr.rows - gr.groups
  /\ \A g \in KeysIn(J, key) : GroupIs(gr, J, key, occ, g)

\* The parts of the report of a kind.
GroupParts(gr, c, kind, all, of, count, repeated) ==
  /\ all = {o \in DOMAIN c : o.kind = kind}
  /\ of = [g \in {o.key : o \in all} |-> {o \in all : o.key = g}]
  /\ count = [g \in {o.key : o \in all} |-> SumOver(c, of[g])]
  /\ repeated = {g \in {o.key : o \in all} : count[g] >= 2}
  /\ gr.groups = Cardinality({o.key : o \in all})
  /\ gr.rows = SumOver(count, {o.key : o \in all})
  /\ gr.concordant = {g \in repeated : Cardinality({o.content : o \in of[g]}) = 1}
  /\ gr.discordant = repeated \ gr.concordant
  /\ gr.cross = {g \in repeated : Cardinality({o.file : o \in of[g]}) > 1}
  /\ gr.extra = ExcessOver(count, repeated)
  /\ gr.canonical =
       [g \in repeated |->
          <<(CHOOSE o \in of[g] : \A p \in of[g] : ~ Precedes(p, o)).file,
            (CHOOSE o \in of[g] : \A p \in of[g] : ~ Precedes(p, o)).row>>]
  /\ gr.multiplicity =
       [m \in {count[g] : g \in {o.key : o \in all}} |->
          Cardinality({g \in {o.key : o \in all} : count[g] = m})]

\* The report of a kind has the parts that its definition names.
LEMMA GroupPartsFact ==
  ASSUME NEW c, NEW kind
  PROVE  \E all, of, count, repeated :
           GroupParts(ClassifyGroups(c, kind), c, kind, all, of, count, repeated)
<1> DEFINE all      == {o \in DOMAIN c : o.kind = kind}
           groups   == {o.key : o \in all}
           of       == [g \in groups |-> {o \in all : o.key = g}]
           count    == [g \in groups |-> MapThenSumSet(LAMBDA o : c[o], of[g])]
           repeated == {g \in groups : count[g] >= 2}
           concordant == {g \in repeated : Cardinality({o.content : o \in of[g]}) = 1}
           Before(o, p) == o.file < p.file \/ (o.file = p.file /\ o.row < p.row)
           canonical(g) == CHOOSE o \in of[g] : \A p \in of[g] : ~ Before(p, o)
<1>1. ClassifyGroups(c, kind) =
        [groups |-> Cardinality(groups), rows |-> MapThenSumSet(LAMBDA g : count[g], groups),
         concordant |-> concordant, discordant |-> repeated \ concordant,
         cross |-> {g \in repeated : Cardinality({o.file : o \in of[g]}) > 1},
         extra |-> MapThenSumSet(LAMBDA g : count[g] - 1, repeated),
         canonical |-> [g \in repeated |-> <<canonical(g).file, canonical(g).row>>],
         multiplicity |-> [n \in {count[g] : g \in groups} |->
                             Cardinality({g \in groups : count[g] = n})]]
  BY Zenon DEF ClassifyGroups
<1>2. PICK x1, x2, x3, x4, x5, x6, x7, x8 :
        /\ x1 = Cardinality(groups) /\ x2 = MapThenSumSet(LAMBDA g : count[g], groups)
        /\ x3 = concordant /\ x4 = repeated \ concordant
        /\ x5 = {g \in repeated : Cardinality({o.file : o \in of[g]}) > 1}
        /\ x6 = MapThenSumSet(LAMBDA g : count[g] - 1, repeated)
        /\ x7 = [g \in repeated |-> <<canonical(g).file, canonical(g).row>>]
        /\ x8 = [n \in {count[g] : g \in groups} |-> Cardinality({g \in groups : count[g] = n})]
  BY Zenon
<1>3. PICK gr : gr = ClassifyGroups(c, kind)
  OBVIOUS
<1>4. gr = [groups |-> x1, rows |-> x2, concordant |-> x3, discordant |-> x4, cross |-> x5,
            extra |-> x6, canonical |-> x7, multiplicity |-> x8]
  BY <1>1, <1>2, <1>3, Zenon
<1>5. /\ gr.groups = x1 /\ gr.rows = x2 /\ gr.concordant = x3 /\ gr.discordant = x4
      /\ gr.cross = x5 /\ gr.extra = x6 /\ gr.canonical = x7 /\ gr.multiplicity = x8
  <2> HIDE DEF all, groups, of, count, repeated, concordant
  <2> QED BY <1>4
<1>6. GroupParts(gr, c, kind, all, of, count, repeated)
  BY <1>2, <1>5, Zenon DEF GroupParts, SumOver, ExcessOver, Precedes
<1> QED BY <1>3, <1>6

\* The sums of a kind: as many rows as records, the repeated ones beyond the first.
LEMMA GroupSums ==
  ASSUME NEW J, IsFiniteSet(J), NEW key, NEW count, count = CountsOf(key, J),
         NEW repeated, repeated = {g \in DOMAIN count : count[g] >= 2}
  PROVE  /\ SumOver(count, DOMAIN count) = Cardinality(J)
         /\ ExcessOver(count, repeated) = Cardinality(J) - Cardinality(DOMAIN count)
<1>1. SumOver(count, DOMAIN count) = Cardinality(J)
  BY SumOfAll
<1>2. PICK D : D = DOMAIN count /\ D = ValuesOf(key, J) /\ IsFiniteSet(D)
  BY ValuesFinite DEF CountsOf
<1>3. CountsAs(count, key, J)
  BY DEF CountsAs, CountsOf
<1>4. PICK single : single = D \ repeated
  OBVIOUS
<1>5. /\ repeated \in SUBSET D /\ single \in SUBSET D
      /\ repeated \cup single = D /\ repeated \cap single = {}
  BY <1>2, <1>4
<1>6. \A T \in SUBSET D : /\ IsFiniteSet(T) /\ Cardinality(T) \in Nat
                          /\ Cardinality(Valued(key, J, T)) \in Nat
                          /\ IsFiniteSet(Valued(key, J, T))
  BY <1>2, FS_Subset, FS_CardinalityType, ValuedFinite
<1>7. \A T \in SUBSET D : SumOver(count, T) = Cardinality(Valued(key, J, T))
  <2>1. ASSUME NEW T \in SUBSET D PROVE SumOver(count, T) = Cardinality(Valued(key, J, T))
    <3>1. T \in SUBSET ValuesOf(key, J)
      BY <1>2
    <3> QED BY <1>3, <3>1, SumOfCounts
  <2> QED BY <2>1
<1>8. \A x \in D : count[x] \in Nat /\ count[x] >= 1
  <2>1. ASSUME NEW x \in D PROVE count[x] \in Nat /\ count[x] >= 1
    <3>1. PICK A : A = {i \in J : key[i] = x} /\ A \in SUBSET J
      OBVIOUS
    <3>2. A # {}
      BY <1>2, <3>1 DEF ValuesOf
    <3>3. IsFiniteSet(A) /\ Cardinality(A) \in Nat
      BY <3>1, FS_Subset, FS_CardinalityType
    <3>4. Cardinality(A) # 0
      BY <3>2, <3>3, FS_EmptySet
    <3>5. count[x] = Cardinality(A)
      BY <1>2, <1>3, <3>1 DEF CountsAs
    <3> QED BY <3>3, <3>4, <3>5
  <2> QED BY <2>1
<1>9. Cardinality(Valued(key, J, single)) = Cardinality(single)
  <2>1. PICK g : g = [T \in SUBSET single |-> Cardinality(T)]
    OBVIOUS
  <2>2. g[{}] = 0
    BY <2>1, FS_EmptySet
  <2>3. ASSUME NEW T \in SUBSET single, NEW x \in T PROVE g[T] = count[x] + g[T \ {x}]
    <3>1. x \in D /\ ~ (count[x] >= 2)
      BY <1>2, <1>4
    <3>2. count[x] = 1
      BY <1>8, <3>1
    <3>3. IsFiniteSet(T) /\ Cardinality(T) \in Nat
      BY <1>5, <1>6
    <3>4. Cardinality(T \ {x}) = Cardinality(T) - 1
      BY <3>3, FS_RemoveElement
    <3>5. g[T] = Cardinality(T) /\ g[T \ {x}] = Cardinality(T \ {x})
      BY <2>1
    <3> QED BY <3>2, <3>3, <3>4, <3>5
  <2>4. GrowsBy(count, g, single)
    BY <2>2, <2>3 DEF GrowsBy
  <2>5. SumOver(count, single) = g[single]
    BY <1>5, <1>6, <2>4, SumFact
  <2>6. g[single] = Cardinality(single)
    BY <2>1
  <2> QED BY <1>5, <1>7, <2>5, <2>6
<1>10. ExcessOver(count, repeated)
         = Cardinality(Valued(key, J, repeated)) - Cardinality(repeated)
  <2>1. PICK g : g = [T \in SUBSET repeated |->
                        Cardinality(Valued(key, J, T)) - Cardinality(T)]
    OBVIOUS
  <2>2. g[{}] = 0
    <3>1. Valued(key, J, {}) = {}
      BY DEF Valued
    <3> QED BY <2>1, <3>1, FS_EmptySet
  <2>3. PICK e : e = LessOne(count, repeated) /\ \A x \in repeated : e[x] = count[x] - 1
    <3>1. \A x \in repeated : LessOne(count, repeated)[x] = count[x] - 1
      BY DEF LessOne
    <3> QED BY <3>1
  <2>4. ASSUME NEW T \in SUBSET repeated, NEW x \in T PROVE g[T] = e[x] + g[T \ {x}]
    <3>1. x \in D /\ T \in SUBSET D /\ T \ {x} \in SUBSET D /\ e[x] = count[x] - 1
      BY <1>5, <2>3
    <3>2. PICK A, B : A = Valued(key, J, {x}) /\ B = Valued(key, J, T \ {x})
      OBVIOUS
    <3>3. Valued(key, J, T) = A \cup B /\ A \cap B = {}
      BY <3>2 DEF Valued
    <3>4. IsFiniteSet(A) /\ IsFiniteSet(B) /\ Cardinality(A) \in Nat /\ Cardinality(B) \in Nat
      BY <3>2, ValuedFinite
    <3>5. Cardinality(A \cup B) = Cardinality(A) + Cardinality(B) - Cardinality(A \cap B)
      BY <3>4, FS_Union
    <3>6. Cardinality(A \cap B) = 0
      BY <3>3, FS_EmptySet
    <3>7. count[x] = Cardinality(A)
      <4>1. A = {i \in J : key[i] = x}
        BY <3>2 DEF Valued
      <4> QED BY <1>2, <1>3, <3>1, <4>1 DEF CountsAs
    <3>8. Cardinality(T \ {x}) = Cardinality(T) - 1 /\ Cardinality(T) \in Nat
      BY <1>6, <3>1, FS_RemoveElement
    <3>9. g[T] = Cardinality(A \cup B) - Cardinality(T)
      BY <2>1, <3>3
    <3>10. g[T \ {x}] = Cardinality(B) - Cardinality(T \ {x})
      BY <2>1, <3>2
    <3> QED BY <3>1, <3>4, <3>5, <3>6, <3>7, <3>8, <3>9, <3>10
  <2>5. GrowsBy(LessOne(count, repeated), g, repeated)
    BY <2>2, <2>3, <2>4 DEF GrowsBy
  <2>6. ExcessOver(count, repeated) = g[repeated]
    BY <1>5, <1>6, <2>5, ExcessFact
  <2>7. g[repeated] = Cardinality(Valued(key, J, repeated)) - Cardinality(repeated)
    BY <2>1
  <2> QED BY <2>6, <2>7
<1>11. PICK A, B : A = Valued(key, J, repeated) /\ B = Valued(key, J, single)
  OBVIOUS
<1>12. A \cup B = J /\ A \cap B = {}
  <2>1. \A i \in J : key[i] \in D
    BY <1>2 DEF ValuesOf
  <2> QED BY <1>5, <1>11, <2>1 DEF Valued
<1>13. Cardinality(J) = Cardinality(A) + Cardinality(B)
  <2>1. IsFiniteSet(A) /\ IsFiniteSet(B)
    BY <1>5, <1>6, <1>11
  <2>2. Cardinality(A \cup B) = Cardinality(A) + Cardinality(B) - Cardinality(A \cap B)
    BY <2>1, FS_Union
  <2>3. Cardinality(A \cap B) = 0
    BY <1>12, FS_EmptySet
  <2>4. PICK a \in Nat, b \in Nat : a = Cardinality(A) /\ b = Cardinality(B)
    BY <1>5, <1>6, <1>11
  <2>5. a + b - 0 = a + b
    OBVIOUS
  <2> QED BY <1>12, <2>2, <2>3, <2>4, <2>5, Zenon
<1>14. Cardinality(D) = Cardinality(repeated) + Cardinality(single)
  <2>1. IsFiniteSet(repeated) /\ IsFiniteSet(single)
    BY <1>5, <1>6
  <2>2. Cardinality(repeated \cup single)
          = Cardinality(repeated) + Cardinality(single) - Cardinality(repeated \cap single)
    BY <2>1, FS_Union
  <2>3. Cardinality(repeated \cap single) = 0
    BY <1>5, FS_EmptySet
  <2>4. PICK a \in Nat, b \in Nat : a = Cardinality(repeated) /\ b = Cardinality(single)
    BY <1>5, <1>6
  <2>5. a + b - 0 = a + b
    OBVIOUS
  <2> QED BY <1>5, <2>2, <2>3, <2>4, <2>5, Zenon
<1>15. /\ Cardinality(A) \in Nat /\ Cardinality(B) \in Nat
       /\ Cardinality(repeated) \in Nat /\ Cardinality(single) \in Nat
  BY <1>5, <1>6, <1>11
<1>16. ExcessOver(count, repeated) = Cardinality(J) - Cardinality(D)
  BY <1>9, <1>10, <1>11, <1>13, <1>14, <1>15
<1> QED BY <1>1, <1>2, <1>16

\* When the table holds the occurrences of some records, its groups are those of the records.
LEMMA GroupsFact ==
  ASSUME NEW J, IsFiniteSet(J), NEW key, NEW occ, NEW c, NEW kind, Occurs(c, kind, J, key, occ)
  PROVE  GroupsAre(ClassifyGroups(c, kind), J, key, occ)
<1>1. PICK gr, all, of, count, repeated :
        gr = ClassifyGroups(c, kind) /\ GroupParts(gr, c, kind, all, of, count, repeated)
  BY GroupPartsFact
<1>2. /\ all = ValuesOf(occ, J) /\ CountsAs(c, occ, J)
      /\ \A i \in J : occ[i].key = key[i] /\ occ[i].file \in Int /\ occ[i].row \in Int
  BY <1>1 DEF GroupParts, Occurs
<1>3. PICK groups : groups = KeysIn(J, key) /\ groups = {o.key : o \in all}
  <2>1. \A o \in all : \E i \in J : o.key = key[i]
    BY <1>2 DEF ValuesOf
  <2>2. \A i \in J : \E o \in all : o.key = key[i]
    BY <1>2 DEF ValuesOf
  <2>3. {o.key : o \in all} = {key[i] : i \in J}
    BY <2>1, <2>2
  <2> QED BY <2>3 DEF KeysIn
<1>4. /\ of = [g \in groups |-> {o \in all : o.key = g}]
      /\ count = [g \in groups |-> SumOver(c, of[g])]
      /\ repeated = {g \in groups : count[g] >= 2}
      /\ gr.groups = Cardinality(groups) /\ gr.rows = SumOver(count, groups)
  BY <1>1, <1>3 DEF GroupParts
<1>5. \A g \in groups : of[g] = ValuesOf(occ, AtKey(J, key, g))
  <2>1. ASSUME NEW g \in groups PROVE of[g] = ValuesOf(occ, AtKey(J, key, g))
    <3>1. \A o : o \in of[g] <=> o \in all /\ o.key = g
      BY <1>4
    <3>2. \A o : o \in ValuesOf(occ, AtKey(J, key, g)) <=> \E i \in J : key[i] = g /\ o = occ[i]
      BY DEF ValuesOf, AtKey
    <3>3. \A o : o \in all <=> \E i \in J : o = occ[i]
      BY <1>2 DEF ValuesOf
    <3>4. \A o : o \in of[g] <=> o \in ValuesOf(occ, AtKey(J, key, g))
      BY <1>2, <3>1, <3>2, <3>3
    <3>5. of[g] \subseteq ValuesOf(occ, AtKey(J, key, g))
      BY <3>4
    <3>6. ValuesOf(occ, AtKey(J, key, g)) \subseteq of[g]
      BY <3>4
    <3> QED BY <3>5, <3>6
  <2> QED BY <2>1
<1>6. \A g \in groups : count[g] = Cardinality(AtKey(J, key, g))
  <2>1. ASSUME NEW g \in groups PROVE count[g] = Cardinality(AtKey(J, key, g))
    <3>1. PICK D : D = of[g] /\ D \in SUBSET ValuesOf(occ, J)
      BY <1>2, <1>4
    <3>2. SumOver(c, D) = Cardinality(Valued(occ, J, D))
      BY <1>2, <3>1, SumOfCounts
    <3>3. \A i \in J : occ[i] \in D <=> key[i] = g
      BY <1>2, <1>4, <3>1 DEF ValuesOf
    <3>4. Valued(occ, J, D) = AtKey(J, key, g)
      BY <3>3 DEF Valued, AtKey
    <3>5. count[g] = SumOver(c, of[g])
      BY <1>4
    <3> QED BY <3>1, <3>2, <3>4, <3>5
  <2> QED BY <2>1
<1>7. count = CountsOf(key, J) /\ DOMAIN count = groups
  <2>1. groups = ValuesOf(key, J)
    BY <1>3 DEF KeysIn, ValuesOf
  <2>2. \A g : AtKey(J, key, g) = {i \in J : key[i] = g}
    BY DEF AtKey
  <2> QED BY <1>4, <1>6, <2>1, <2>2 DEF CountsOf
<1>8. gr.rows = Cardinality(J) /\ gr.extra = Cardinality(J) - Cardinality(groups)
  <2>1. repeated = {g \in DOMAIN count : count[g] >= 2}
    BY <1>4, <1>7
  <2>2. /\ SumOver(count, DOMAIN count) = Cardinality(J)
        /\ ExcessOver(count, repeated) = Cardinality(J) - Cardinality(DOMAIN count)
    BY <1>7, <2>1, GroupSums
  <2>3. gr.extra = ExcessOver(count, repeated)
    BY <1>1 DEF GroupParts
  <2> QED BY <1>4, <1>7, <2>2, <2>3
<1>9. ASSUME NEW g \in groups PROVE GroupIs(gr, J, key, occ, g)
  <2>1. PICK I : I = AtKey(J, key, g) /\ I \in SUBSET J /\ IsFiniteSet(I)
    <3>1. AtKey(J, key, g) \in SUBSET J
      BY DEF AtKey
    <3> QED BY <3>1, FS_Subset
  <2>2. I # {}
    BY <1>3, <2>1 DEF KeysIn, AtKey
  <2>3. of[g] = ValuesOf(occ, I) /\ count[g] = Cardinality(I)
    BY <1>5, <1>6, <2>1
  <2>4. g \in repeated <=> Cardinality(I) >= 2
    BY <1>4, <2>3
  <2>5. PICK con, fil : con = [i \in I |-> occ[i].content] /\ fil = [i \in I |-> occ[i].file]
    OBVIOUS
  <2>6. {o.content : o \in of[g]} = ValuesOf(con, I) /\ {o.file : o \in of[g]} = ValuesOf(fil, I)
    <3>1. \A o : o \in of[g] <=> \E i \in I : o = occ[i]
      BY <2>3 DEF ValuesOf
    <3>2. {o.content : o \in of[g]} = {con[i] : i \in I}
      <4>1. \A o \in of[g] : \E i \in I : o.content = con[i]
        BY <2>5, <3>1
      <4>2. \A i \in I : \E o \in of[g] : o.content = con[i]
        BY <2>5, <3>1
      <4> QED BY <4>1, <4>2
    <3>3. {o.file : o \in of[g]} = {fil[i] : i \in I}
      <4>1. \A o \in of[g] : \E i \in I : o.file = fil[i]
        BY <2>5, <3>1
      <4>2. \A i \in I : \E o \in of[g] : o.file = fil[i]
        BY <2>5, <3>1
      <4> QED BY <4>1, <4>2
    <3> QED BY <3>2, <3>3 DEF ValuesOf
  <2>7. /\ Cardinality(ValuesOf(con, I)) = 1
             <=> \A i, j \in I : occ[i].content = occ[j].content
        /\ (\E i, j \in I : occ[i].content # occ[j].content) => Cardinality(I) >= 2
    <3>1. /\ Cardinality(ValuesOf(con, I)) = 1 <=> \A i, j \in I : con[i] = con[j]
          /\ (\E i, j \in I : con[i] # con[j]) => Cardinality(I) >= 2
      BY <2>1, <2>2, AlikeFact
    <3>2. \A i \in I : con[i] = occ[i].content
      BY <2>5
    <3> QED BY <3>1, <3>2
  <2>8. /\ Cardinality(ValuesOf(fil, I)) > 1 <=> \E i, j \in I : occ[i].file # occ[j].file
        /\ (\E i, j \in I : occ[i].file # occ[j].file) => Cardinality(I) >= 2
    <3>1. /\ Cardinality(ValuesOf(fil, I)) > 1 <=> \E i, j \in I : fil[i] # fil[j]
          /\ (\E i, j \in I : fil[i] # fil[j]) => Cardinality(I) >= 2
      BY <2>1, <2>2, AlikeFact
    <3>2. \A i \in I : fil[i] = occ[i].file
      BY <2>5
    <3> QED BY <3>1, <3>2
  <2>9. g \in gr.concordant
          <=> Cardinality(I) >= 2 /\ \A i, j \in I : occ[i].content = occ[j].content
    <3>1. gr.concordant = {h \in repeated : Cardinality({o.content : o \in of[h]}) = 1}
      BY <1>1 DEF GroupParts
    <3>2. g \in gr.concordant <=> g \in repeated /\ Cardinality(ValuesOf(con, I)) = 1
      BY <2>6, <3>1
    <3> QED BY <2>4, <2>7, <3>2
  <2>10. g \in gr.discordant <=> ~ \A i, j \in I : occ[i].content = occ[j].content
    <3>1. gr.discordant = repeated \ gr.concordant
      BY <1>1 DEF GroupParts
    <3>2. g \in gr.discordant <=> g \in repeated /\ g \notin gr.concordant
      BY <3>1
    <3> QED BY <2>4, <2>7, <2>9, <3>2, Zenon
  <2>11. g \in gr.cross <=> \E i, j \in I : occ[i].file # occ[j].file
    <3>1. gr.cross = {h \in repeated : Cardinality({o.file : o \in of[h]}) > 1}
      BY <1>1 DEF GroupParts
    <3>2. g \in gr.cross <=> g \in repeated /\ Cardinality(ValuesOf(fil, I)) > 1
      BY <2>6, <3>1
    <3> QED BY <2>4, <2>8, <3>2
  <2>12. ASSUME Cardinality(I) >= 2
         PROVE  \E i \in I : /\ gr.canonical[g] = <<occ[i].file, occ[i].row>>
                             /\ \A j \in I : ~ Precedes(occ[j], occ[i])
    <3>1. PICK k \in I : \A j \in I : ~ Precedes(occ[j], occ[k])
      BY <1>2, <2>1, <2>2, FirstExists
    <3>2. PICK S : S = of[g]
      OBVIOUS
    <3>3. \A o : o \in S <=> \E i \in I : o = occ[i]
      BY <2>3, <3>2 DEF ValuesOf
    <3>4. PICK o : o = CHOOSE q \in S : \A p \in S : ~ Precedes(p, q)
      OBVIOUS
    <3>5. \E q \in S : \A p \in S : ~ Precedes(p, q)
      BY <3>1, <3>3
    <3>6. o \in S /\ \A p \in S : ~ Precedes(p, o)
      BY <3>4, <3>5
    <3>7. PICK i \in I : o = occ[i]
      BY <3>3, <3>6
    <3>8. \A j \in I : ~ Precedes(occ[j], occ[i])
      BY <3>3, <3>6, <3>7
    <3>9. gr.canonical = [h \in repeated |->
            <<(CHOOSE q \in of[h] : \A p \in of[h] : ~ Precedes(p, q)).file,
              (CHOOSE q \in of[h] : \A p \in of[h] : ~ Precedes(p, q)).row>>]
      BY <1>1, Zenon DEF GroupParts
    <3>10. g \in repeated
      BY <2>4, <2>12
    <3>11. gr.canonical[g] = <<o.file, o.row>>
      BY <3>2, <3>4, <3>9, <3>10
    <3> QED BY <3>7, <3>8, <3>11
  <2>13. gr.multiplicity[Cardinality(I)]
           = Cardinality({h \in KeysIn(J, key) :
                            Cardinality(AtKey(J, key, h)) = Cardinality(I)})
    <3>1. gr.multiplicity = [m \in {count[h] : h \in groups} |->
                               Cardinality({h \in groups : count[h] = m})]
      BY <1>1, <1>3 DEF GroupParts
    <3>2. gr.multiplicity[count[g]] = Cardinality({h \in groups : count[h] = count[g]})
      BY <3>1
    <3>3. {h \in groups : count[h] = count[g]}
            = {h \in KeysIn(J, key) : Cardinality(AtKey(J, key, h)) = Cardinality(I)}
      BY <1>3, <1>6, <2>3
    <3> QED BY <2>3, <3>2, <3>3
  <2> QED BY <2>1, <2>9, <2>10, <2>11, <2>12, <2>13, Zenon DEF GroupIs
<1>10. GroupsAre(gr, J, key, occ)
  BY <1>3, <1>4, <1>8, <1>9, Zenon DEF GroupsAre
<1> QED BY <1>1, <1>10

(***************************************************************************)
(* The dedup report.                                                       *)
(***************************************************************************)
DedupRun(a, t, all, n) ==
  /\ a[0] = NothingObserved.dedup /\ t[0] = EmptyTables
  /\ \A k \in 1 .. n : /\ a[k] = ObserveDedup(a[k - 1], all[k])
                       /\ t[k] = StoreOccurrences(t[k - 1], all[k])

Accepted(all, i) == DedupEffect(all[i]) = "accepted"
FileKeys(all, i) == {<<all[i].file, DedupEffect(all[i])>>}
LabelKeys(all, i) == When(Accepted(all, i), {Label(all[i])})
UserKeys(all, i) == When(all[i].author # "", {all[i].author})
OccurrenceKeys(all, i) ==
  When(Accepted(all, i), {Occurrence(all[i], key) : key \in GroupKeys(all[i])})

DedupGives(a, t, all, n) ==
  /\ a[0].rows = NoRows /\ a[0].byFile = EmptyBag /\ a[0].bySnapshot = EmptyBag
  /\ t[0].users = EmptyBag /\ t[0].occurrences = EmptyBag
  /\ \A k \in 1 .. n :
       /\ a[k].rows = IF Accepted(all, k) THEN Tally(a[k - 1].rows, all[k], TRUE)
                                          ELSE Tally(a[k - 1].rows, all[k], FALSE)
       /\ a[k].byFile = Inc(a[k - 1].byFile, FileKeys(all, k))
       /\ a[k].bySnapshot = Inc(a[k - 1].bySnapshot, LabelKeys(all, k))
       /\ t[k].users = Inc(t[k - 1].users, UserKeys(all, k))
       /\ t[k].occurrences = Inc(t[k - 1].occurrences, OccurrenceKeys(all, k))

\* What a record does to every field of the dedup accumulator and to its tables.
LEMMA DedupFields ==
  ASSUME NEW a, NEW t, NEW all, NEW n \in Nat, DedupRun(a, t, all, n)
  PROVE  DedupGives(a, t, all, n)
<1>1. /\ a[0].rows = NoRows /\ a[0].byFile = EmptyBag /\ a[0].bySnapshot = EmptyBag
      /\ t[0].users = EmptyBag /\ t[0].occurrences = EmptyBag
  BY DEF DedupRun, NothingObserved, EmptyTables
<1>2. ASSUME NEW k \in 1 .. n
      PROVE  /\ a[k].rows = IF Accepted(all, k) THEN Tally(a[k - 1].rows, all[k], TRUE)
                                                ELSE Tally(a[k - 1].rows, all[k], FALSE)
             /\ a[k].byFile = Inc(a[k - 1].byFile, FileKeys(all, k))
             /\ a[k].bySnapshot = Inc(a[k - 1].bySnapshot, LabelKeys(all, k))
             /\ t[k].users = Inc(t[k - 1].users, UserKeys(all, k))
             /\ t[k].occurrences = Inc(t[k - 1].occurrences, OccurrenceKeys(all, k))
  <2>1. PICK v, w : v = a[k - 1] /\ w = t[k - 1]
    OBVIOUS
  <2>2. a[k] = ObserveDedup(v, all[k]) /\ t[k] = StoreOccurrences(w, all[k])
    BY <2>1 DEF DedupRun
  <2>3. ObserveDedup(v, all[k]) =
          [rows |-> Tally(v.rows, all[k], Accepted(all, k)),
           byFile |-> Inc(v.byFile, FileKeys(all, k)),
           bySnapshot |-> Inc(v.bySnapshot, LabelKeys(all, k))]
    BY Zenon DEF ObserveDedup, FileKeys, LabelKeys, Accepted
  <2>4. StoreOccurrences(w, all[k]) =
          [users |-> Inc(w.users, UserKeys(all, k)),
           occurrences |-> Inc(w.occurrences, OccurrenceKeys(all, k))]
    BY Zenon DEF StoreOccurrences, UserKeys, OccurrenceKeys, Accepted
  <2>5. Tally(v.rows, all[k], Accepted(all, k))
          = IF Accepted(all, k) THEN Tally(v.rows, all[k], TRUE) ELSE Tally(v.rows, all[k], FALSE)
    BY DEF Tally
  <2>6. PICK x1, x2, x3, y1, y2 :
          /\ x1 = Tally(v.rows, all[k], Accepted(all, k))
          /\ x2 = Inc(v.byFile, FileKeys(all, k)) /\ x3 = Inc(v.bySnapshot, LabelKeys(all, k))
          /\ y1 = Inc(w.users, UserKeys(all, k))
          /\ y2 = Inc(w.occurrences, OccurrenceKeys(all, k))
    OBVIOUS
  <2>7. /\ a[k] = [rows |-> x1, byFile |-> x2, bySnapshot |-> x3]
        /\ t[k] = [users |-> y1, occurrences |-> y2]
    BY <2>2, <2>3, <2>4, <2>6
  <2>8. /\ a[k].rows = x1 /\ a[k].byFile = x2 /\ a[k].bySnapshot = x3
        /\ t[k].users = y1 /\ t[k].occurrences = y2
    BY <2>7
  <2> QED BY <2>1, <2>5, <2>6, <2>8
<1> QED BY <1>1, <1>2 DEF DedupGives

\* What the fields and the tables are when n records have been seen.
DedupSees(d, t, all, n) ==
  /\ RowsAre(d.rows, all, {i \in 1 .. n : Accepted(all, i)}, n)
  /\ \A x : CountOf(x, d.byFile) = Cardinality({i \in 1 .. n : x \in FileKeys(all, i)})
  /\ \A x : CountOf(x, d.bySnapshot) = Cardinality({i \in 1 .. n : x \in LabelKeys(all, i)})
  /\ t.users = Counted([i \in 1 .. n |-> UserKeys(all, i)], n)
  /\ t.occurrences = Counted([i \in 1 .. n |-> OccurrenceKeys(all, i)], n)

\* After n records accumulator and tables hold the effects, users and occurrences of them.
LEMMA DedupSeen ==
  ASSUME NEW all, NEW n \in Nat, NEW a, NEW t, DedupRun(a, t, all, n)
  PROVE  DedupSees(a[n], t[n], all, n)
<1>1. DedupGives(a, t, all, n)
  BY DedupFields
<1>2. RowsAre(a[n].rows, all, {i \in 1 .. n : Accepted(all, i)}, n)
  <2>1. PICK good : good = {i \in 1 .. n : Accepted(all, i)} /\ good \in SUBSET (1 .. n)
    OBVIOUS
  <2>2. /\ a[0].rows = NoRows
        /\ \A k \in 1 .. n :
             a[k].rows = IF k \in good THEN Tally(a[k - 1].rows, all[k], TRUE)
                                       ELSE Tally(a[k - 1].rows, all[k], FALSE)
    BY <1>1, <2>1 DEF DedupGives
  <2> QED BY <2>1, <2>2, FieldRows
<1>3. \A x : CountOf(x, a[n].byFile) = Cardinality({i \in 1 .. n : x \in FileKeys(all, i)})
  <2>1. PICK K : K = [i \in 1 .. n |-> FileKeys(all, i)]
    OBVIOUS
  <2>2. FieldCounts(a, "byFile", K, n)
    BY <1>1, <2>1 DEF DedupGives, FieldCounts
  <2>3. Says(a[n]["byFile"], K, n)
    BY <2>2, FieldCounter
  <2>4. \A x : {i \in 1 .. n : x \in K[i]} = {i \in 1 .. n : x \in FileKeys(all, i)}
    BY <2>1
  <2> QED BY <2>3, <2>4 DEF Says
<1>4. \A x : CountOf(x, a[n].bySnapshot) = Cardinality({i \in 1 .. n : x \in LabelKeys(all, i)})
  <2>1. PICK K : K = [i \in 1 .. n |-> LabelKeys(all, i)]
    OBVIOUS
  <2>2. FieldCounts(a, "bySnapshot", K, n)
    BY <1>1, <2>1 DEF DedupGives, FieldCounts
  <2>3. Says(a[n]["bySnapshot"], K, n)
    BY <2>2, FieldCounter
  <2>4. \A x : {i \in 1 .. n : x \in K[i]} = {i \in 1 .. n : x \in LabelKeys(all, i)}
    BY <2>1
  <2> QED BY <2>3, <2>4 DEF Says
<1>5. t[n].users = Counted([i \in 1 .. n |-> UserKeys(all, i)], n)
  <2>1. PICK K : K = [i \in 1 .. n |-> UserKeys(all, i)]
    OBVIOUS
  <2>2. FieldCounts(t, "users", K, n)
    BY <1>1, <2>1 DEF DedupGives, FieldCounts
  <2>3. t[n]["users"] = Counted(K, n)
    BY <2>2, FieldCounter
  <2> QED BY <2>1, <2>3
<1>6. t[n].occurrences = Counted([i \in 1 .. n |-> OccurrenceKeys(all, i)], n)
  <2>1. PICK K : K = [i \in 1 .. n |-> OccurrenceKeys(all, i)]
    OBVIOUS
  <2>2. FieldCounts(t, "occurrences", K, n)
    BY <1>1, <2>1 DEF DedupGives, FieldCounts
  <2>3. t[n]["occurrences"] = Counted(K, n)
    BY <2>2, FieldCounter
  <2> QED BY <2>1, <2>3
<1> QED BY <1>2, <1>3, <1>4, <1>5, <1>6 DEF DedupSees

\* The key of a record among the groups of a kind, if it has one.
HasKey(r, kind) ==
  \/ kind = "full_row"
  \/ kind = "tweet_id" /\ r.dataset = "B"
  \/ kind \in {"composite", "user_timestamp"} /\ r.dataset # "B"
KeyOf(r, kind) ==
  IF kind = "full_row" THEN WholeRow(r)
  ELSE IF kind = "tweet_id" THEN <<r.id>>
  ELSE IF kind = "composite" THEN <<r.author, r.time>> \o Content(r)
  ELSE <<r.author, r.time>>

\* A record has one key of a kind or none.
LEMMA GroupKeysFact ==
  ASSUME NEW r, NEW kind \in GroupKinds
  PROVE  \A k : k \in GroupKeys(r) /\ k[1] = kind
                  <=> HasKey(r, kind) /\ k = <<kind, KeyOf(r, kind)>>
<1>1. PICK w, i, c, u : /\ w = WholeRow(r) /\ i = <<r.id>>
                        /\ c = <<r.author, r.time>> \o Content(r) /\ u = <<r.author, r.time>>
  OBVIOUS
<1>2. GroupKeys(r) = {<<"full_row", w>>} \cup
        (IF r.dataset = "B" THEN {<<"tweet_id", i>>}
         ELSE {<<"composite", c>>, <<"user_timestamp", u>>})
  BY <1>1, Zenon DEF GroupKeys
<1>3. KeyOf(r, kind) = IF kind = "full_row" THEN w ELSE IF kind = "tweet_id" THEN i
                       ELSE IF kind = "composite" THEN c ELSE u
  BY <1>1, Zenon DEF KeyOf
<1>4. kind \in {"tweet_id", "composite", "user_timestamp", "full_row"}
  BY DEF GroupKinds
<1>5. PICK v : v = KeyOf(r, kind)
  OBVIOUS
<1>6. CASE kind = "full_row"
  BY <1>2, <1>3, <1>5, <1>6 DEF HasKey
<1>7. CASE kind = "tweet_id"
  BY <1>2, <1>3, <1>5, <1>7 DEF HasKey
<1>8. CASE kind = "composite"
  BY <1>2, <1>3, <1>5, <1>8 DEF HasKey
<1>9. CASE kind = "user_timestamp"
  BY <1>2, <1>3, <1>5, <1>9 DEF HasKey
<1> QED BY <1>4, <1>6, <1>7, <1>8, <1>9

\* The records of a kind, their keys and their occurrences.
KindOf(all, kind) == {i \in DOMAIN all : Accepted(all, i) /\ HasKey(all[i], kind)}
KindKeys(all, kind) == [i \in DOMAIN all |-> KeyOf(all[i], kind)]
KindRows(all, kind) ==
  [i \in DOMAIN all |-> Occurrence(all[i], <<kind, KeyOf(all[i], kind)>>)]

\* The fields of an occurrence.
LEMMA OccurrenceFields ==
  ASSUME NEW r, NEW kind, NEW key
  PROVE  /\ Occurrence(r, <<kind, key>>).kind = kind /\ Occurrence(r, <<kind, key>>).key = key
         /\ Occurrence(r, <<kind, key>>).file = r.file /\ Occurrence(r, <<kind, key>>).row = r.row
         /\ Occurrence(r, <<kind, key>>).content = Content(r)
<1>1. PICK k, c : k = <<kind, key>> /\ c = Content(r)
  OBVIOUS
<1>2. PICK o : o = [kind |-> kind, key |-> key, file |-> r.file, row |-> r.row, content |-> c]
  OBVIOUS
<1>3. k[1] = kind /\ k[2] = key
  BY <1>1
<1>4. Occurrence(r, k) = o
  BY <1>1, <1>2, <1>3 DEF Occurrence
<1>5. o.kind = kind /\ o.key = key /\ o.file = r.file /\ o.row = r.row /\ o.content = c
  BY <1>2
<1> QED BY <1>1, <1>4, <1>5

\* The table holds, of every kind, an occurrence of each accepted record that has a key of it.
LEMMA OccursFact ==
  ASSUME NEW all, NEW n, IsRecords(all, n), NEW d, NEW t, DedupSees(d, t, all, n),
         NEW kind \in GroupKinds
  PROVE  /\ Occurs(t.occurrences, kind, KindOf(all, kind), KindKeys(all, kind),
                   KindRows(all, kind))
         /\ IsFiniteSet(KindOf(all, kind))
<1>1. n \in Nat /\ DOMAIN all = 1 .. n
  BY RecordsFact
<1>2. PICK J, key, occ : /\ J = KindOf(all, kind) /\ key = KindKeys(all, kind)
                         /\ occ = KindRows(all, kind)
  OBVIOUS
<1>3. PICK K, c : K = [i \in 1 .. n |-> OccurrenceKeys(all, i)] /\ c = t.occurrences
                  /\ c = Counted(K, n)
  BY DEF DedupSees
<1>4. /\ J \in SUBSET (1 .. n)
      /\ \A i \in 1 .. n : i \in J <=> Accepted(all, i) /\ HasKey(all[i], kind)
  BY <1>1, <1>2 DEF KindOf
<1>5. \A i \in 1 .. n : occ[i] = Occurrence(all[i], <<kind, key[i]>>) /\ key[i] = KeyOf(all[i], kind)
  BY <1>1, <1>2 DEF KindKeys, KindRows
<1>6. \A i \in 1 .. n : /\ occ[i].kind = kind /\ occ[i].key = key[i]
                        /\ occ[i].file = all[i].file /\ occ[i].row = all[i].row
  <2>1. ASSUME NEW i \in 1 .. n
        PROVE  /\ occ[i].kind = kind /\ occ[i].key = key[i]
               /\ occ[i].file = all[i].file /\ occ[i].row = all[i].row
    <3>1. PICK v : v = key[i]
      OBVIOUS
    <3>2. occ[i] = Occurrence(all[i], <<kind, v>>)
      BY <1>5, <3>1
    <3>3. /\ Occurrence(all[i], <<kind, v>>).kind = kind
          /\ Occurrence(all[i], <<kind, v>>).key = v
          /\ Occurrence(all[i], <<kind, v>>).file = all[i].file
          /\ Occurrence(all[i], <<kind, v>>).row = all[i].row
      BY OccurrenceFields
    <3> QED BY <3>1, <3>2, <3>3
  <2> QED BY <2>1
<1>7. \A i \in 1 .. n : \A o : o \in K[i] /\ o.kind = kind <=> i \in J /\ o = occ[i]
  <2>1. ASSUME NEW i \in 1 .. n, NEW o, o \in K[i], o.kind = kind PROVE i \in J /\ o = occ[i]
    <3>1. Accepted(all, i) /\ \E k \in GroupKeys(all[i]) : o = Occurrence(all[i], k)
      BY <1>3, <2>1 DEF OccurrenceKeys, When
    <3>2. PICK k \in GroupKeys(all[i]) : o = Occurrence(all[i], k)
      BY <3>1
    <3>3. o.kind = k[1]
      BY <3>2 DEF Occurrence
    <3>4. HasKey(all[i], kind) /\ k = <<kind, KeyOf(all[i], kind)>>
      BY <2>1, <3>2, <3>3, GroupKeysFact
    <3> QED BY <1>4, <1>5, <3>1, <3>2, <3>4
  <2>2. ASSUME NEW i \in J PROVE occ[i] \in K[i] /\ occ[i].kind = kind
    <3>1. i \in 1 .. n /\ Accepted(all, i) /\ HasKey(all[i], kind)
      BY <1>4
    <3>2. <<kind, key[i]>> \in GroupKeys(all[i])
      BY <1>5, <3>1, GroupKeysFact
    <3>3. occ[i] \in {Occurrence(all[i], k) : k \in GroupKeys(all[i])}
      BY <1>5, <3>1, <3>2
    <3> QED BY <1>3, <1>6, <3>1, <3>3 DEF OccurrenceKeys, When
  <2> QED BY <2>1, <2>2
<1>8. DOMAIN c = KeysUpto(K, n) /\ \A x \in DOMAIN c : c[x] = Cardinality(Having(K, x, n))
  BY <1>3 DEF Counted
<1>9. {o \in DOMAIN c : o.kind = kind} = ValuesOf(occ, J)
  <2>1. \A o : o \in DOMAIN c <=> \E i \in 1 .. n : o \in K[i]
    BY <1>8 DEF KeysUpto
  <2>2. \A o : o \in DOMAIN c /\ o.kind = kind <=> \E i \in J : o = occ[i]
    <3>1. ASSUME NEW o, o \in DOMAIN c, o.kind = kind PROVE \E i \in J : o = occ[i]
      BY <1>7, <2>1, <3>1
    <3>2. ASSUME NEW i \in J PROVE occ[i] \in DOMAIN c /\ occ[i].kind = kind
      BY <1>4, <1>7, <2>1
    <3> QED BY <3>1, <3>2
  <2> QED BY <2>2 DEF ValuesOf
<1>10. CountsAs(c, occ, J)
  <2>1. ASSUME NEW i \in J PROVE c[occ[i]] = Cardinality({j \in J : occ[j] = occ[i]})
    <3>1. PICK o : o = occ[i] /\ o.kind = kind /\ o \in K[i]
      BY <1>4, <1>7
    <3>2. \A j \in 1 .. n : o \in K[j] <=> j \in J /\ o = occ[j]
      BY <1>7, <3>1
    <3>3. Having(K, o, n) = {j \in J : occ[j] = o}
      BY <1>4, <3>2 DEF Having
    <3>4. o \in DOMAIN c
      BY <1>4, <1>8, <3>1 DEF KeysUpto
    <3> QED BY <1>8, <3>1, <3>3, <3>4
  <2>2. ASSUME NEW l \in ValuesOf(occ, J) PROVE c[l] = Cardinality({j \in J : occ[j] = l})
    <3>1. PICK i \in J : l = occ[i]
      BY DEF ValuesOf
    <3> QED BY <2>1, <3>1
  <2> QED BY <2>2 DEF CountsAs
<1>11. \A i \in J : occ[i].key = key[i] /\ occ[i].file \in Int /\ occ[i].row \in Int
  BY <1>4, <1>6, RecordsFact
<1>12. IsFiniteSet(J)
  <2>1. PICK A : A = 1 .. n /\ IsFiniteSet(A)
    <3>1. n \in Int /\ 1 \in Int
      BY <1>1
    <3> QED BY <3>1, FS_Interval
  <2> QED BY <1>4, <2>1, FS_Subset
<1> QED BY <1>2, <1>3, <1>9, <1>10, <1>11, <1>12 DEF Occurs

\* How many users there are with every number of records.
UsersAre(users, all) ==
  \A m \in DOMAIN users :
    users[m] = Cardinality({u \in {all[i].author : i \in DOMAIN all} \ {""} :
                              Cardinality({i \in DOMAIN all : all[i].author = u}) = m})

\* The users with a number of records are counted once each.
LEMMA UsersFact ==
  ASSUME NEW all, NEW n, IsRecords(all, n), NEW d, NEW t, DedupSees(d, t, all, n)
  PROVE  UsersAre([m \in {t.users[u] : u \in DOMAIN t.users} |->
                     Cardinality({u \in DOMAIN t.users : t.users[u] = m})], all)
<1>1. n \in Nat /\ DOMAIN all = 1 .. n
  BY RecordsFact
<1>2. PICK K, c : K = [i \in 1 .. n |-> UserKeys(all, i)] /\ c = t.users /\ c = Counted(K, n)
  BY DEF DedupSees
<1>3. DOMAIN c = KeysUpto(K, n) /\ \A x \in DOMAIN c : c[x] = Cardinality(Having(K, x, n))
  BY <1>2 DEF Counted
<1>4. \A i \in 1 .. n : \A u : u \in K[i] <=> u # "" /\ all[i].author = u
  BY <1>2 DEF UserKeys, When
<1>5. DOMAIN c = {all[i].author : i \in DOMAIN all} \ {""}
  <2>1. \A u : u \in DOMAIN c <=> \E i \in 1 .. n : u \in K[i]
    BY <1>3 DEF KeysUpto
  <2>2. \A u : u \in DOMAIN c <=> u # "" /\ \E i \in 1 .. n : all[i].author = u
    BY <1>4, <2>1
  <2> QED BY <1>1, <2>2
<1>6. \A u \in DOMAIN c : c[u] = Cardinality({i \in DOMAIN all : all[i].author = u})
  <2>1. ASSUME NEW u \in DOMAIN c
        PROVE  c[u] = Cardinality({i \in DOMAIN all : all[i].author = u})
    <3>1. u # ""
      BY <1>5
    <3>2. Having(K, u, n) = {i \in DOMAIN all : all[i].author = u}
      BY <1>1, <1>4, <3>1 DEF Having
    <3> QED BY <1>3, <3>2
  <2> QED BY <2>1
<1>7. PICK users : users = [m \in {c[u] : u \in DOMAIN c} |-> Cardinality({u \in DOMAIN c : c[u] = m})]
  OBVIOUS
<1>8. ASSUME NEW m \in DOMAIN users
      PROVE  users[m] = Cardinality({u \in {all[i].author : i \in DOMAIN all} \ {""} :
                              Cardinality({i \in DOMAIN all : all[i].author = u}) = m})
  <2>1. {u \in DOMAIN c : c[u] = m}
          = {u \in {all[i].author : i \in DOMAIN all} \ {""} :
               Cardinality({i \in DOMAIN all : all[i].author = u}) = m}
    BY <1>5, <1>6
  <2>2. users[m] = Cardinality({u \in DOMAIN c : c[u] = m})
    BY <1>7
  <2> QED BY <2>1, <2>2
<1>9. UsersAre(users, all)
  BY <1>8 DEF UsersAre
<1> QED BY <1>2, <1>7, <1>9

\* The keys of the accepted records in a kind, and the records of every key.
KeysOfKind(all, kind) ==
  [i \in {i \in DOMAIN all : Accepted(all, i)} |->
     {k[2] : k \in {g \in GroupKeys(all[i]) : g[1] = kind}}]
MembersOf(keys) ==
  [g \in UNION {keys[i] : i \in DOMAIN keys} |-> {i \in DOMAIN keys : g \in keys[i]}]

MembersAre(members, J, key) ==
  /\ DOMAIN members = KeysIn(J, key)
  /\ \A g \in DOMAIN members : members[g] = AtKey(J, key, g)
  /\ UNION {members[g] : g \in DOMAIN members} = J

\* The definition groups the records of a kind as their keys do.
LEMMA MembersFact ==
  ASSUME NEW all, NEW kind \in GroupKinds
  PROVE  MembersAre(MembersOf(KeysOfKind(all, kind)), KindOf(all, kind), KindKeys(all, kind))
<1>1. PICK J, key, keys, members :
        /\ J = KindOf(all, kind) /\ key = KindKeys(all, kind)
        /\ keys = KeysOfKind(all, kind) /\ members = MembersOf(keys)
  OBVIOUS
<1>2. /\ DOMAIN keys = {i \in DOMAIN all : Accepted(all, i)}
      /\ \A i \in DOMAIN keys : keys[i] = {k[2] : k \in {g \in GroupKeys(all[i]) : g[1] = kind}}
  BY <1>1 DEF KeysOfKind
<1>3. \A i \in J : i \in DOMAIN all /\ i \in DOMAIN keys /\ HasKey(all[i], kind)
  BY <1>1, <1>2 DEF KindOf
<1>4. \A i \in DOMAIN keys : i \in DOMAIN all /\ (HasKey(all[i], kind) => i \in J)
  BY <1>1, <1>2 DEF KindOf
<1>5. \A i \in DOMAIN keys : \A g : g \in keys[i] <=> i \in J /\ g = key[i]
  <2>1. ASSUME NEW i \in DOMAIN keys, NEW g, g \in keys[i] PROVE i \in J /\ g = key[i]
    <3>1. PICK k \in GroupKeys(all[i]) : k[1] = kind /\ g = k[2]
      BY <1>2, <2>1
    <3>2. PICK v : v = KeyOf(all[i], kind)
      OBVIOUS
    <3>3. HasKey(all[i], kind) /\ k = <<kind, v>>
      BY <3>1, <3>2, GroupKeysFact
    <3>4. key[i] = v
      BY <1>1, <1>4, <3>2 DEF KindKeys
    <3> QED BY <1>4, <3>1, <3>3, <3>4
  <2>2. ASSUME NEW i \in DOMAIN keys, i \in J PROVE key[i] \in keys[i]
    <3>1. PICK v : v = KeyOf(all[i], kind)
      OBVIOUS
    <3>2. HasKey(all[i], kind) /\ key[i] = v
      BY <1>1, <1>3, <2>2, <3>1 DEF KindKeys
    <3>3. PICK k : k = <<kind, v>> /\ k[1] = kind /\ k[2] = v
      <4>1. <<kind, v>>[1] = kind /\ <<kind, v>>[2] = v
        OBVIOUS
      <4> QED BY <4>1
    <3>4. k \in GroupKeys(all[i])
      BY <3>1, <3>2, <3>3, GroupKeysFact
    <3> QED BY <1>2, <3>2, <3>3, <3>4
  <2> QED BY <2>1, <2>2
<1>6. /\ DOMAIN members = UNION {keys[i] : i \in DOMAIN keys}
      /\ \A g \in DOMAIN members : members[g] = {i \in DOMAIN keys : g \in keys[i]}
  BY <1>1 DEF MembersOf
<1>7. DOMAIN members = KeysIn(J, key)
  <2>1. \A g : g \in DOMAIN members <=> \E i \in J : g = key[i]
    BY <1>3, <1>5, <1>6
  <2> QED BY <2>1 DEF KeysIn
<1>8. \A g \in DOMAIN members : members[g] = AtKey(J, key, g)
  <2>1. ASSUME NEW g \in DOMAIN members PROVE members[g] = AtKey(J, key, g)
    <3>1. \A i : i \in members[g] <=> i \in J /\ key[i] = g
      BY <1>3, <1>5, <1>6
    <3> QED BY <1>6, <3>1 DEF AtKey
  <2> QED BY <2>1
<1>9. UNION {members[g] : g \in DOMAIN members} = J
  <2>1. \A g \in DOMAIN members : members[g] \subseteq J
    BY <1>8 DEF AtKey
  <2>2. \A i \in J : \E g \in DOMAIN members : i \in members[g]
    BY <1>7, <1>8 DEF KeysIn, AtKey
  <2> QED BY <2>1, <2>2
<1>10. MembersAre(members, J, key)
  BY <1>7, <1>8, <1>9 DEF MembersAre
<1> QED BY <1>1, <1>10

\* What is said of a kind, in the words of the report's definition.
KindExact(groups, all, members) ==
  /\ groups.groups = Cardinality(DOMAIN members)
  /\ groups.rows = Cardinality(UNION {members[g] : g \in DOMAIN members})
  /\ groups.extra = groups.rows - groups.groups
  /\ \A g \in DOMAIN members :
       LET alike == \A i, j \in members[g] : Content(all[i]) = Content(all[j])
           twice == Cardinality(members[g]) >= 2
       IN  /\ g \in groups.concordant <=> twice /\ alike
           /\ g \in groups.discordant <=> ~alike
           /\ g \in groups.cross <=> \E i, j \in members[g] : all[i].file # all[j].file
           /\ twice => \E i \in members[g] :
                /\ groups.canonical[g] = <<all[i].file, all[i].row>>
                /\ \A j \in members[g] :
                     \/ all[i].file < all[j].file
                     \/ all[i].file = all[j].file /\ all[i].row <= all[j].row
           /\ groups.multiplicity[Cardinality(members[g])] =
                Cardinality({h \in DOMAIN members :
                               Cardinality(members[h]) = Cardinality(members[g])})

\* The report of a kind is its definition over all records.
LEMMA KindReported ==
  ASSUME NEW all, NEW n, IsRecords(all, n), NEW d, NEW t, DedupSees(d, t, all, n),
         NEW kind \in GroupKinds
  PROVE  KindExact(ClassifyGroups(t.occurrences, kind), all, MembersOf(KeysOfKind(all, kind)))
<1>1. PICK J, key, occ, members, gr :
        /\ J = KindOf(all, kind) /\ key = KindKeys(all, kind) /\ occ = KindRows(all, kind)
        /\ members = MembersOf(KeysOfKind(all, kind))
        /\ gr = ClassifyGroups(t.occurrences, kind)
  OBVIOUS
<1>2. Occurs(t.occurrences, kind, J, key, occ) /\ IsFiniteSet(J)
  BY <1>1, OccursFact
<1>3. GroupsAre(gr, J, key, occ)
  BY <1>1, <1>2, GroupsFact
<1>4. MembersAre(members, J, key)
  BY <1>1, MembersFact
<1>5. n \in Nat /\ DOMAIN all = 1 .. n /\ J \in SUBSET (1 .. n)
  <2>1. n \in Nat /\ DOMAIN all = 1 .. n
    BY RecordsFact
  <2> QED BY <1>1, <2>1 DEF KindOf
<1>6. \A i \in 1 .. n : all[i].file \in Int /\ all[i].row \in Int
  BY RecordsFact
<1>7. ASSUME NEW i \in J
      PROVE  /\ occ[i].content = Content(all[i])
             /\ occ[i].file = all[i].file /\ occ[i].row = all[i].row
  <2>1. PICK v : v = KeyOf(all[i], kind)
    OBVIOUS
  <2>2. occ[i] = Occurrence(all[i], <<kind, v>>)
    BY <1>1, <1>5, <2>1 DEF KindRows
  <2>3. /\ Occurrence(all[i], <<kind, v>>).content = Content(all[i])
        /\ Occurrence(all[i], <<kind, v>>).file = all[i].file
        /\ Occurrence(all[i], <<kind, v>>).row = all[i].row
    BY OccurrenceFields
  <2> QED BY <2>2, <2>3
<1>8. \A i, j \in J : ~ Precedes(occ[j], occ[i]) =>
        \/ all[i].file < all[j].file
        \/ all[i].file = all[j].file /\ all[i].row <= all[j].row
  <2>1. \A i, j \in J : ~ Precedes(occ[j], occ[i]) =>
          ~ (all[j].file < all[i].file \/ (all[j].file = all[i].file /\ all[j].row < all[i].row))
    BY <1>7, Zenon DEF Precedes
  <2>2. \A a, b, x, y \in Int :
          ~ (a < b \/ (a = b /\ x < y)) => (b < a \/ (b = a /\ y <= x))
    <3>1. ASSUME NEW a \in Int, NEW b \in Int, NEW x \in Int, NEW y \in Int,
                 ~ (a < b \/ (a = b /\ x < y))
          PROVE  b < a \/ (b = a /\ y <= x)
      BY <3>1
    <3> QED BY <3>1
  <2> QED BY <1>5, <1>6, <2>1, <2>2
<1>9. /\ gr.groups = Cardinality(DOMAIN members)
      /\ gr.rows = Cardinality(UNION {members[g] : g \in DOMAIN members})
      /\ gr.extra = gr.rows - gr.groups
  BY <1>3, <1>4 DEF GroupsAre, MembersAre
<1>10. ASSUME NEW g \in DOMAIN members
       PROVE  LET alike == \A i, j \in members[g] : Content(all[i]) = Content(all[j])
                  twice == Cardinality(members[g]) >= 2
              IN  /\ g \in gr.concordant <=> twice /\ alike
                  /\ g \in gr.discordant <=> ~alike
                  /\ g \in gr.cross <=> \E i, j \in members[g] : all[i].file # all[j].file
                  /\ twice => \E i \in members[g] :
                       /\ gr.canonical[g] = <<all[i].file, all[i].row>>
                       /\ \A j \in members[g] :
                            \/ all[i].file < all[j].file
                            \/ all[i].file = all[j].file /\ all[i].row <= all[j].row
                  /\ gr.multiplicity[Cardinality(members[g])] =
                       Cardinality({h \in DOMAIN members :
                                      Cardinality(members[h]) = Cardinality(members[g])})
  <2>1. PICK I : I = members[g] /\ I = AtKey(J, key, g) /\ I \in SUBSET J
    <3>1. members[g] = AtKey(J, key, g)
      BY <1>4 DEF MembersAre
    <3> QED BY <3>1 DEF AtKey
  <2>2. GroupIs(gr, J, key, occ, g)
    BY <1>3, <1>4 DEF GroupsAre, MembersAre
  <2>3. (\A i, j \in I : Content(all[i]) = Content(all[j]))
          <=> \A i, j \in I : occ[i].content = occ[j].content
    BY <1>7, <2>1
  <2>4. (\E i, j \in I : all[i].file # all[j].file)
          <=> \E i, j \in I : occ[i].file # occ[j].file
    BY <1>7, <2>1
  <2>5. /\ g \in gr.concordant
             <=> Cardinality(I) >= 2 /\ \A i, j \in I : occ[i].content = occ[j].content
        /\ g \in gr.discordant <=> ~ \A i, j \in I : occ[i].content = occ[j].content
        /\ g \in gr.cross <=> \E i, j \in I : occ[i].file # occ[j].file
        /\ Cardinality(I) >= 2 => \E i \in I :
             /\ gr.canonical[g] = <<occ[i].file, occ[i].row>>
             /\ \A j \in I : ~ Precedes(occ[j], occ[i])
        /\ gr.multiplicity[Cardinality(I)] =
             Cardinality({h \in KeysIn(J, key) :
                            Cardinality(AtKey(J, key, h)) = Cardinality(I)})
    BY <2>1, <2>2, Zenon DEF GroupIs
  <2>6. ASSUME Cardinality(I) >= 2
        PROVE  \E i \in I :
                 /\ gr.canonical[g] = <<all[i].file, all[i].row>>
                 /\ \A j \in I : \/ all[i].file < all[j].file
                                 \/ all[i].file = all[j].file /\ all[i].row <= all[j].row
    <3>1. PICK i \in I : /\ gr.canonical[g] = <<occ[i].file, occ[i].row>>
                         /\ \A j \in I : ~ Precedes(occ[j], occ[i])
      BY <2>5, <2>6
    <3>2. i \in J /\ \A j \in I : j \in J
      BY <2>1
    <3>3. gr.canonical[g] = <<all[i].file, all[i].row>>
      BY <1>7, <3>1, <3>2
    <3>4. \A j \in I : \/ all[i].file < all[j].file
                       \/ all[i].file = all[j].file /\ all[i].row <= all[j].row
      BY <1>8, <3>1, <3>2
    <3> QED BY <3>3, <3>4
  <2>7. {h \in KeysIn(J, key) : Cardinality(AtKey(J, key, h)) = Cardinality(I)}
          = {h \in DOMAIN members : Cardinality(members[h]) = Cardinality(I)}
    BY <1>4 DEF MembersAre
  <2>8. /\ g \in gr.concordant
             <=> Cardinality(I) >= 2 /\ \A i, j \in I : Content(all[i]) = Content(all[j])
        /\ g \in gr.discordant <=> ~ \A i, j \in I : Content(all[i]) = Content(all[j])
        /\ g \in gr.cross <=> \E i, j \in I : all[i].file # all[j].file
    BY <2>3, <2>4, <2>5, Zenon
  <2>9. gr.multiplicity[Cardinality(I)] =
          Cardinality({h \in DOMAIN members : Cardinality(members[h]) = Cardinality(I)})
    BY <2>5, <2>7, Zenon
  <2> QED BY <2>1, <2>6, <2>8, <2>9, Zenon
<1>11. KindExact(gr, all, members)
  BY <1>9, <1>10, Zenon DEF KindExact
<1> QED BY <1>1, <1>11

\* The dedup report of what was seen is its definition over all records.
LEMMA DedupReported ==
  ASSUME NEW all, NEW n, IsRecords(all, n), NEW d, NEW t, DedupSees(d, t, all, n)
  PROVE  DedupExact(DedupReport(d, t), all)
<1>1. n \in Nat /\ DOMAIN all = 1 .. n /\ Len(all) = n
  BY RecordsFact DEF IsRecords
<1>2. PICK rep : rep = DedupReport(d, t)
  OBVIOUS
<1>3. /\ rep.rows = d.rows /\ rep.byFile = d.byFile /\ rep.bySnapshot = d.bySnapshot
      /\ rep.groups = [k \in GroupKinds |-> ClassifyGroups(t.occurrences, k)]
      /\ rep.users = [m \in {t.users[u] : u \in DOMAIN t.users} |->
                        Cardinality({u \in DOMAIN t.users : t.users[u] = m})]
  <2>1. PICK x1, x2, x3, x4, x5 :
          /\ x1 = d.rows /\ x2 = d.byFile /\ x3 = d.bySnapshot
          /\ x4 = [k \in GroupKinds |-> ClassifyGroups(t.occurrences, k)]
          /\ x5 = [m \in {t.users[u] : u \in DOMAIN t.users} |->
                     Cardinality({u \in DOMAIN t.users : t.users[u] = m})]
    OBVIOUS
  <2>2. rep = [rows |-> x1, byFile |-> x2, bySnapshot |-> x3, groups |-> x4, users |-> x5]
    BY <1>2, <2>1, Zenon DEF DedupReport
  <2>3. /\ rep.rows = x1 /\ rep.byFile = x2 /\ rep.bySnapshot = x3
        /\ rep.groups = x4 /\ rep.users = x5
    BY <2>2
  <2> QED BY <2>1, <2>3
<1>4. RowsExact(rep.rows, all, LAMBDA r : DedupEffect(r) = "accepted")
  <2>1. RowsAre(rep.rows, all, {i \in 1 .. n : Accepted(all, i)}, n)
    BY <1>3 DEF DedupSees
  <2>2. {i \in 1 .. n : Accepted(all, i)} = {i \in DOMAIN all : DedupEffect(all[i]) = "accepted"}
    BY <1>1 DEF Accepted
  <2>3. /\ rep.rows.inspected = Len(all)
        /\ rep.rows.accepted = Cardinality({i \in DOMAIN all : DedupEffect(all[i]) = "accepted"})
        /\ rep.rows.accepted + rep.rows.rejected = rep.rows.inspected
        /\ rep.rows.files = {all[i].file : i \in DOMAIN all}
    BY <1>1, <2>1, <2>2 DEF RowsAre
  <2> QED BY <2>3 DEF RowsExact, Number, Which
<1>5. ASSUME NEW kind \in GroupKinds
      PROVE  KindExact(rep.groups[kind], all, MembersOf(KeysOfKind(all, kind)))
  <2>1. rep.groups[kind] = ClassifyGroups(t.occurrences, kind)
    BY <1>3
  <2> QED BY <2>1, KindReported
<1>6. UsersAre(rep.users, all)
  BY <1>3, UsersFact
<1>7. ASSUME NEW i \in DOMAIN all, NEW f, NEW e
      PROVE  CountOf(<<f, e>>, rep.byFile)
               = Cardinality({j \in DOMAIN all : all[j].file = f /\ DedupEffect(all[j]) = e})
  <2>1. CountOf(<<f, e>>, d.byFile) = Cardinality({j \in 1 .. n : <<f, e>> \in FileKeys(all, j)})
    BY DEF DedupSees
  <2>2. \A j : <<f, e>> \in FileKeys(all, j) <=> all[j].file = f /\ DedupEffect(all[j]) = e
    BY DEF FileKeys
  <2>3. {j \in 1 .. n : <<f, e>> \in FileKeys(all, j)}
          = {j \in DOMAIN all : all[j].file = f /\ DedupEffect(all[j]) = e}
    BY <1>1, <2>2
  <2> QED BY <1>3, <2>1, <2>3
<1>8. ASSUME NEW s
      PROVE  CountOf(s, rep.bySnapshot)
               = Cardinality({j \in DOMAIN all : DedupEffect(all[j]) = "accepted" /\ Label(all[j]) = s})
  <2>1. CountOf(s, d.bySnapshot) = Cardinality({j \in 1 .. n : s \in LabelKeys(all, j)})
    BY DEF DedupSees
  <2>2. \A j : s \in LabelKeys(all, j) <=> DedupEffect(all[j]) = "accepted" /\ Label(all[j]) = s
    BY DEF LabelKeys, Accepted, When
  <2>3. {j \in 1 .. n : s \in LabelKeys(all, j)}
          = {j \in DOMAIN all : DedupEffect(all[j]) = "accepted" /\ Label(all[j]) = s}
    BY <1>1, <2>2
  <2> QED BY <1>3, <2>1, <2>3
<1>9. ASSUME NEW kind \in GroupKinds
      PROVE  LET keys    == [i \in Which(all, LAMBDA r : DedupEffect(r) = "accepted") |->
                               {k[2] : k \in {g \in GroupKeys(all[i]) : g[1] = kind}}]
                 members == [g \in UNION {keys[i] : i \in DOMAIN keys} |->
                               {i \in DOMAIN keys : g \in keys[i]}]
             IN  KindExact(rep.groups[kind], all, members)
  BY <1>5, Zenon DEF MembersOf, KeysOfKind, Accepted, Which
<1>10. \A m \in DOMAIN rep.users :
         rep.users[m] = Cardinality({u \in {all[i].author : i \in DOMAIN all} \ {""} :
                                       Number(all, LAMBDA r : r.author = u) = m})
  BY <1>6, Zenon DEF UsersAre, Number, Which
<1>11. \A i \in DOMAIN all :
         LET f == all[i].file  e == DedupEffect(all[i]) IN
         CountOf(<<f, e>>, rep.byFile) = Number(all, LAMBDA r : r.file = f /\ DedupEffect(r) = e)
  <2>1. ASSUME NEW i \in DOMAIN all
        PROVE  CountOf(<<all[i].file, DedupEffect(all[i])>>, rep.byFile)
                 = Cardinality({j \in DOMAIN all :
                      all[j].file = all[i].file /\ DedupEffect(all[j]) = DedupEffect(all[i])})
    BY <1>7
  <2> QED BY <2>1, Zenon DEF Number, Which
<1>12. \A s \in Quarters \cup {NoQuarter} :
         CountOf(s, rep.bySnapshot)
           = Number(all, LAMBDA r : DedupEffect(r) = "accepted" /\ Label(r) = s)
  BY <1>8, Zenon DEF Number, Which
<1>13. DedupExact(rep, all)
  BY <1>4, <1>9, <1>10, <1>11, <1>12, Zenon DEF DedupExact, KindExact
<1> QED BY <1>2, <1>13

\* The dedup report of a sealed run is right: groups, concordant and discordant ones,
\* canonical rows and user activity, for every workbook, chunk size and session history.
THEOREM DedupCountsHolds == Spec => []DedupCounts
<1>1. CountsInv => DedupCounts
  <2> SUFFICES ASSUME CountsInv, pc = "sealed"
               PROVE  DedupExact(reports.dedup, AllRecords)
    BY DEF DedupCounts
  <2>1. PICK q, n : /\ IsRecords(AllRecords, n) /\ reports = ReportsOf(q[n])
                    /\ q[0].acc = NothingObserved /\ q[0].tables = EmptyTables
                    /\ \A k \in 1 .. n : Observed(q[k - 1], q[k], AllRecords[k])
    BY PassSees
  <2>2. n \in Nat
    BY <2>1 DEF IsRecords
  <2>3. PICK a, t : /\ a = [k \in 0 .. n |-> q[k].acc.dedup]
                    /\ t = [k \in 0 .. n |-> q[k].tables]
    OBVIOUS
  <2>4. DedupRun(a, t, AllRecords, n)
    <3>1. a[0] = NothingObserved.dedup /\ t[0] = EmptyTables
      BY <2>1, <2>2, <2>3
    <3>2. ASSUME NEW k \in 1 .. n
          PROVE  /\ a[k] = ObserveDedup(a[k - 1], AllRecords[k])
                 /\ t[k] = StoreOccurrences(t[k - 1], AllRecords[k])
      <4>1. k \in 0 .. n /\ k - 1 \in 0 .. n
        BY <2>2
      <4>2. /\ q[k].acc.dedup = ObserveDedup(q[k - 1].acc.dedup, AllRecords[k])
            /\ q[k].tables = StoreOccurrences(q[k - 1].tables, AllRecords[k])
        BY <2>1, ObservedParts
      <4> QED BY <2>3, <4>1, <4>2
    <3> QED BY <3>1, <3>2 DEF DedupRun
  <2>5. DedupSees(a[n], t[n], AllRecords, n)
    BY <2>2, <2>4, DedupSeen
  <2>6. reports.dedup = DedupReport(a[n], t[n])
    <3>1. reports.dedup = DedupReport(q[n].acc.dedup, q[n].tables)
      BY <2>1 DEF ReportsOf
    <3>2. n \in 0 .. n
      BY <2>2
    <3> QED BY <2>3, <3>1, <3>2
  <2> QED BY <2>1, <2>5, <2>6, DedupReported
<1> QED BY <1>1, CountsInductive, PTL

\* What a run checks in one property: where the chunks are cut and the sessions end
\* changes no report, and the four reports are the ones of all the records at once.
THEOREM CountsExactHolds == Spec => []CountsExact
<1>1. CutsInvisible /\ CalendarCounts /\ DedupCounts /\ TextCounts /\ CoverageCounts
        => CountsExact
  BY DEF CountsExact
<1> QED BY <1>1, CutsInvisibleHolds, CalendarCountsHolds, DedupCountsHolds, TextCountsHolds,
           CoverageCountsHolds, PTL

=============================================================================
