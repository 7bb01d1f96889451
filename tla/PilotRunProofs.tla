--------------------------- MODULE PilotRunProofs ---------------------------
(***************************************************************************)
(* Proofs about PilotRun: for every set of workbooks, every version of     *)
(* them and every sequence of sessions, kills, replaced workbooks, lost    *)
(* caches and rotten parts, the parts of a file are of one content; and,   *)
(* as long as the operator keeps to one chunk size, a checkpoint is true,  *)
(* and a run that has passed is a partition of its rows, with reports that *)
(* are about these and nothing else on disk.                               *)
(***************************************************************************)
EXTENDS PilotRun, DataInduction, FiniteSetTheorems, TLAPS

(***************************************************************************)
(* The inductive invariant.                                                *)
(***************************************************************************)
\* A session past its sources, and inside a file.
InFile == {"chunk", "excluded", "save"}
Verified == {"process", "finalize", "validate"} \cup InFile

Sums == {"none"} \cup UNION {Versions(f) : f \in Files}
AnyPart == [v : Sums \cup {"garbled"}, rows : SUBSET (1 .. MaxRows)]
AnyEntry == [made : BOOLEAN, n : AnyPart, x : AnyPart]

\* TypeOK in the parts that steps disturb separately, with what EXCEPT needs.
SourceTypes ==
  /\ version \in [Files -> Sums] /\ cache \in [Files -> Sums]
  /\ sums \in [Files -> Sums] /\ mem \in [Files -> Sums]
  /\ \A f \in Files : /\ version[f] \in Versions(f)
                      /\ {cache[f], sums[f], mem[f]} \subseteq Versions(f) \cup {"none"}

PartTypes ==
  /\ npart \in [Files -> [Chunks -> AnyPart]] /\ xpart \in [Files -> [Chunks -> AnyPart]]
  /\ ckpt \in [Files -> [Chunks -> AnyEntry]]
  /\ \A f \in Files, c \in Chunks :
       {npart[f][c], xpart[f][c], ckpt[f][c].n, ckpt[f][c].x} \subseteq Part(f)

ReportTypes ==
  /\ \A d \in reports.duplicates : d.count >= 2
  /\ \A a \in reports.accounts : a.retained \in 0 .. a.count
  /\ \A s \in reports.snapshots : s[1] \in 0 .. (SnapshotCount - 1) /\ s[2] > 0
  /\ validation.passed \in BOOLEAN /\ validation.files \subseteq Files

SessionTypes ==
  /\ pc \in PCs /\ files \subseteq Files /\ size \in ChunkSizes
  /\ todo \subseteq files /\ file \in Files /\ chunk \in 0 .. MaxRows

Types == SourceTypes /\ PartTypes /\ ReportTypes /\ SessionTypes

\* What is recorded stays recorded, a session works on copies that are what is
\* recorded, and the parts were written from these.
SourcesInv ==
  /\ pc \in {"sources"} \cup Verified => \A f \in Files : sums[f] \in {"none", mem[f]}
  /\ pc = "sources" => \A f \in files \ todo : mem[f] = cache[f] /\ mem[f] # "none"
  /\ pc \in Verified => \A f \in files : cache[f] = sums[f] /\ sums[f] # "none"
  /\ pc \in InFile => file \in files \ todo
  /\ pc \in {"excluded", "save"} => chunk < NChunks(file)
  /\ pc \in {"finalize", "validate"} => todo = {}
  /\ OneVersion

\* The parts of a chunk of the recorded content, when the chunk size is size.
RowsAt(f, c) ==
  {i \in DOMAIN Source[f][sums[f]] : c * size < i /\ i <= (c + 1) * size}
KeptAt(f, c) == {i \in RowsAt(f, c) : Status(Source[f][sums[f]][i]) = "retained"}
NormalizedAt(f, c) == [v |-> sums[f], rows |-> KeptAt(f, c)]
ExcludedAt(f, c) == [v |-> sums[f], rows |-> RowsAt(f, c) \ KeptAt(f, c)]

\* On disk are such parts, or rotten ones, and every one a checkpoint lists.
ChunkTrue(f, c) ==
  IF sums[f] = "none"
  THEN npart[f][c] = NoPart /\ xpart[f][c] = NoPart /\ ~ckpt[f][c].made
  ELSE /\ npart[f][c] \in {NoPart, Garbled, NormalizedAt(f, c)}
       /\ xpart[f][c] \in {NoPart, Garbled, ExcludedAt(f, c)}
       /\ ckpt[f][c].made => /\ ckpt[f][c].n = NormalizedAt(f, c)
                             /\ ckpt[f][c].x = ExcludedAt(f, c)
                             /\ npart[f][c] # NoPart /\ xpart[f][c] # NoPart

\* Every chunk of a file has its entry.
Covered(f) == /\ sums[f] # "none"
              /\ \A c \in Chunks : c * size < Len(Source[f][sums[f]]) => ckpt[f][c].made

PartsInv ==
  /\ \A f \in Files, c \in Chunks : ChunkTrue(f, c)
  /\ pc \in {"excluded", "save"} => npart[file][chunk] = NormalizedAt(file, chunk)
  /\ pc = "save" => xpart[file][chunk] = ExcludedAt(file, chunk)
  /\ pc \in InFile => \A c \in Chunks : c < chunk => ckpt[file][c].made
  /\ pc \in Verified => \A f \in files \ todo : (pc \in InFile /\ f = file) \/ Covered(f)
  /\ validation.passed => \A f \in validation.files : Covered(f)

\* The operator keeps to one chunk size.
OneChunkSize == \E s : ChunkSizes = {s}

IInv == Types /\ SourcesInv /\ (OneChunkSize => PartsInv)

-----------------------------------------------------------------------------
(***************************************************************************)
(* Lemmas about the chunks, the calendar and finite sets.                  *)
(***************************************************************************)
\* A larger multiple is larger by a size at least.
LEMMA Multiples ==
  ASSUME NEW s \in Nat \ {0}, NEW a \in Nat, NEW b \in Nat
  PROVE  /\ a * s \in Nat /\ (a + 1) * s = a * s + s
         /\ a < b => (a + 1) * s <= b * s
<1>1. a * s \in Nat /\ b * s \in Nat /\ (a + 1) * s = a * s + s
  OBVIOUS
<1>2. ASSUME a < b PROVE (a + 1) * s <= b * s
  <2>1. PICK k \in Nat : b = (a + 1) + k
    <3>1. b - (a + 1) \in Nat /\ b = (a + 1) + (b - (a + 1))
      BY <1>2
    <3> QED BY <3>1
  <2>2. b * s = (a + 1) * s + k * s /\ k * s \in Nat
    BY <2>1, Z3
  <2> QED BY <2>1, <2>2, <1>1
<1> QED BY <1>1, <1>2

\* A row belongs to one chunk, the chunks are as many as the rows at most, and
\* the ones below NChunks are those that begin before the last row.
LEMMA ChunkFact ==
  ASSUME NEW s \in Nat \ {0}, NEW n \in Nat
  PROVE  /\ (n + s - 1) \div s \in 0 .. n
         /\ \A c \in Nat : c < (n + s - 1) \div s <=> c * s < n
         /\ \A i \in 1 .. n : \E c \in 0 .. (n - 1) :
              \A d \in Nat : (d * s < i /\ i <= (d + 1) * s) <=> d = c
<1>1. ASSUME NEW m \in Nat
      PROVE  /\ m \div s \in Nat /\ m \div s <= m
             /\ (m \div s) * s <= m /\ m < (m \div s) * s + s
  BY Z3T(60)
<1>2. n + s - 1 \in Nat
  OBVIOUS
<1>3. PICK q \in Nat : /\ q = (n + s - 1) \div s
                       /\ q * s <= n + s - 1 /\ n + s - 1 < q * s + s
  BY <1>1, <1>2
<1>4. ASSUME NEW c \in Nat PROVE c < q <=> c * s < n
  <2>1. c * s \in Nat /\ q * s \in Nat /\ (c + 1) * s = c * s + s
    BY Multiples
  <2>2. c < q => c * s < n
    <3>1. c < q => c * s + s <= q * s
      BY <2>1, Multiples
    <3> QED BY <1>3, <2>1, <3>1
  <2>3. ~(c < q) => c * s >= n
    <3>1. ~(c < q) => c * s >= q * s
      <4>1. q < c => q * s + s <= c * s
        BY Multiples
      <4> QED BY <4>1, <2>1
    <3> QED BY <1>3, <2>1, <3>1
  <2> QED BY <2>1, <2>2, <2>3
<1>5. q \in 0 .. n
  <2>1. ~(n < q)
    <3>1. n * s >= n
      BY Z3
    <3> QED BY <1>4, <3>1
  <2> QED BY <2>1
<1>6. ASSUME NEW i \in 1 .. n
      PROVE  \E c \in 0 .. (n - 1) : \A d \in Nat : (d * s < i /\ i <= (d + 1) * s) <=> d = c
  <2>1. PICK c \in Nat : c <= i - 1 /\ c * s <= i - 1 /\ i - 1 < c * s + s
    BY <1>1, i - 1 \in Nat
  <2>2. ASSUME NEW d \in Nat PROVE (d * s < i /\ i <= (d + 1) * s) <=> d = c
    <3>1. /\ c * s \in Nat /\ d * s \in Nat
          /\ (c + 1) * s = c * s + s /\ (d + 1) * s = d * s + s
          /\ (c < d => (c + 1) * s <= d * s) /\ (d < c => (d + 1) * s <= c * s)
      BY Multiples
    <3> QED BY <2>1, <3>1
  <2> QED BY <2>1, <2>2
<1> QED BY <1>3, <1>4, <1>5, <1>6

\* A version of a workbook: no more rows than MaxRows.
LEMMA VersionFact ==
  ASSUME NEW f \in Files, NEW v \in Versions(f)
  PROVE  /\ v \notin {"none", "garbled"} /\ v \in Sums
         /\ Len(Source[f][v]) \in 0 .. MaxRows
         /\ DOMAIN Source[f][v] = 1 .. Len(Source[f][v])
         /\ \A i \in DOMAIN Source[f][v] : Source[f][v][i] \in Row
<1>1. Source[f][v] \in Seq(Row) /\ Len(Source[f][v]) <= MaxRows /\ v \notin {"none", "garbled"}
  BY SourceAssumption
<1>2. Len(Source[f][v]) \in Nat
  BY <1>1
<1> QED BY <1>1, <1>2, FilesAssumption DEF Sums

\* The calendar: AssignSnapshot finds the snapshot whose quarter a time is in.
LEMMA CalendarFact ==
  /\ \A s \in 0 .. SnapshotCount :
       QuarterStart(Quarter[s]) = 3 * (QuarterIndex(FirstQuarter) + s)
  /\ \A time \in Int :
       AssignSnapshot(time) # NoSnapshot <=> \E s \in 0 .. (SnapshotCount - 1) : InSnapshot(time, s)
  /\ \A time \in Int :
       AssignSnapshot(time) # NoSnapshot => AssignSnapshot(time) \in 0 .. (SnapshotCount - 1)
  /\ \A time \in Int, s \in 0 .. (SnapshotCount - 1) :
       AssignSnapshot(time) = s <=> InSnapshot(time, s)
  /\ AssignSnapshot(NoTime) = NoSnapshot
<1> DEFINE G(s) == <<2017 + ((s + 3) \div 4), ((s + 3) % 4) + 1>>
           g == [s \in 0 .. SnapshotCount |-> G(s)]
<1>1. \A s \in 1 .. SnapshotCount : G(s) = AddQuarter(G(s - 1))
  BY DEF AddQuarter, SnapshotCount
<1>2. G(0) = FirstQuarter
  BY DEF FirstQuarter
<1> HIDE DEF G
<1>3. g = [s \in 0 .. SnapshotCount |-> IF s = 0 THEN FirstQuarter ELSE AddQuarter(g[s - 1])]
  <2>1. \A s \in 0 .. SnapshotCount :
          G(s) = IF s = 0 THEN FirstQuarter ELSE AddQuarter(g[s - 1])
    BY <1>1, <1>2 DEF SnapshotCount
  <2> QED BY <2>1
<1>4. /\ Quarter[0] = FirstQuarter
      /\ \A s \in 1 .. SnapshotCount : Quarter[s] = AddQuarter(Quarter[s - 1])
  <2>1. PICK q : q = [s \in 0 .. SnapshotCount |-> IF s = 0 THEN FirstQuarter
                                                          ELSE AddQuarter(q[s - 1])]
                 /\ q = Quarter
    BY <1>3 DEF Quarter
  <2>2. \A s \in 0 .. SnapshotCount :
          q[s] = IF s = 0 THEN FirstQuarter ELSE AddQuarter(q[s - 1])
    BY <2>1
  <2> QED BY <2>1, <2>2 DEF SnapshotCount
<1>5. \A s \in 0 .. SnapshotCount : Quarter[s] = G(s)
  <2> DEFINE S == {s \in Nat : s <= SnapshotCount => Quarter[s] = G(s)}
  <2>1. 0 \in S
    BY <1>2, <1>4 DEF SnapshotCount
  <2>2. ASSUME NEW n \in Nat, n \in S PROVE n + 1 \in S
    <3> SUFFICES ASSUME n + 1 <= SnapshotCount PROVE Quarter[n + 1] = G(n + 1)
      OBVIOUS
    <3>1. n + 1 \in 1 .. SnapshotCount /\ (n + 1) - 1 = n /\ Quarter[n] = G(n)
      BY <2>2 DEF SnapshotCount
    <3>2. Quarter[n + 1] = AddQuarter(Quarter[n])
      BY <1>4, <3>1
    <3>3. G(n + 1) = AddQuarter(G(n))
      BY <1>1, <3>1
    <3> QED BY <3>1, <3>2, <3>3
  <2> HIDE DEF S
  <2>3. Nat \subseteq S
    BY <2>1, <2>2, NaturalInduction
  <2> QED BY <2>3 DEF S, SnapshotCount
<1>6. \A s \in 0 .. SnapshotCount :
        QuarterStart(Quarter[s]) = 3 * (QuarterIndex(FirstQuarter) + s)
  <2> SUFFICES ASSUME NEW s \in 0 .. SnapshotCount
               PROVE  QuarterStart(G(s)) = 3 * (QuarterIndex(FirstQuarter) + s)
    <3>1. \A s \in 0 .. SnapshotCount : QuarterStart(Quarter[s]) = QuarterStart(G(s))
      BY <1>5
    <3> QED BY <3>1
  <2>1. QuarterStart(G(s)) = 12 * (2017 + ((s + 3) \div 4)) + 3 * ((s + 3) % 4)
    BY DEF QuarterStart, G
  <2>2. 4 * ((s + 3) \div 4) + ((s + 3) % 4) = s + 3
    OBVIOUS
  <2> QED BY <2>1, <2>2 DEF QuarterIndex, FirstQuarter
<1>7. \A time \in Int, s \in 0 .. (SnapshotCount - 1) :
        InSnapshot(time, s) <=> time \div 3 - QuarterIndex(FirstQuarter) = s
  <2> SUFFICES ASSUME NEW time \in Int, NEW s \in 0 .. (SnapshotCount - 1)
               PROVE  InSnapshot(time, s) <=> time \div 3 - QuarterIndex(FirstQuarter) = s
    OBVIOUS
  <2>1. s \in 0 .. SnapshotCount /\ s + 1 \in 0 .. SnapshotCount
    BY DEF SnapshotCount
  <2>2. InSnapshot(time, s) <=> /\ 3 * (QuarterIndex(FirstQuarter) + s) <= time
                                /\ time < 3 * (QuarterIndex(FirstQuarter) + (s + 1))
    BY <1>6, <2>1 DEF InSnapshot
  <2> QED BY <2>2 DEF QuarterIndex, FirstQuarter
<1>8. AssignSnapshot(NoTime) = NoSnapshot
  BY DEF AssignSnapshot, NoTime, NoSnapshot, QuarterIndex, FirstQuarter, SnapshotCount
<1>9. \A time \in Int :
        /\ AssignSnapshot(time) # NoSnapshot
             <=> time \div 3 - QuarterIndex(FirstQuarter) \in 0 .. (SnapshotCount - 1)
        /\ AssignSnapshot(time) # NoSnapshot
             => AssignSnapshot(time) \in 0 .. (SnapshotCount - 1)
  BY DEF AssignSnapshot, NoSnapshot, SnapshotCount
<1>10. \A time \in Int, s \in 0 .. (SnapshotCount - 1) :
         AssignSnapshot(time) = s <=> time \div 3 - QuarterIndex(FirstQuarter) = s
  BY DEF AssignSnapshot, NoSnapshot, SnapshotCount
<1> QED BY <1>6, <1>7, <1>8, <1>9, <1>10

\* What is retained, as the code finds out, is what ought to be.
LEMMA RetainedFact ==
  ASSUME NEW row \in Row
  PROVE  Status(row) = "retained" <=> Retainable(row)
<1>1. row.time \in Int
  BY DEF Row
<1>2. Retainable(row) <=> /\ row.id # "invalid" /\ row.user \in Universe
                          /\ AssignSnapshot(row.time) # NoSnapshot
  BY <1>1, CalendarFact DEF Retainable
<1> QED BY <1>2, UniverseAssumption, CalendarFact DEF Status

-----------------------------------------------------------------------------
(***************************************************************************)
(* What is reported of finitely many records.                              *)
(***************************************************************************)
\* The reports of a finite set of records have the types TypeOK says.
LEMMA ReportsFact ==
  ASSUME NEW R, IsFiniteSet(R)
  PROVE  /\ \A d \in DuplicateReport(R) : d.count >= 2
         /\ \A a \in AccountReport(R) : a.retained \in 0 .. a.count
         /\ \A s \in SnapshotReport(R) : s[1] \in 0 .. (SnapshotCount - 1) /\ s[2] > 0
<1>1. \A T \in SUBSET R : IsFiniteSet(T) /\ Cardinality(T) \in Nat
  BY FS_Subset, FS_CardinalityType
<1>2. ASSUME NEW d \in DuplicateReport(R) PROVE d.count >= 2
  <2> DEFINE withId(id) == {r \in R : Record(r.cells).id = id}
             ids == {Record(r.cells).id : r \in R} \ {"none"}
             type(id) == IF Cardinality({Record(r.cells) : r \in withId(id)}) = 1
                         THEN "exact_duplicate" ELSE "conflicting_id"
             first(id) == CHOOSE r \in withId(id) : \A s \in withId(id) : Before(r, s)
             canonical(id) == <<first(id).file, first(id).row>>
  <2>1. DuplicateReport(R)
          = {[id |-> id, type |-> type(id), count |-> Cardinality(withId(id)),
              canonical |-> canonical(id)] : id \in {i \in ids : Cardinality(withId(i)) > 1}}
    BY DEF DuplicateReport
  <2>2. \A id : withId(id) \in SUBSET R
    OBVIOUS
  <2> HIDE DEF withId, type, canonical
  <2>3. PICK id : Cardinality(withId(id)) > 1 /\ d.count = Cardinality(withId(id))
    BY <2>1
  <2>4. Cardinality(withId(id)) \in Nat
    BY <1>1, <2>2
  <2> QED BY <2>3, <2>4
<1>3. ASSUME NEW a \in AccountReport(R) PROVE a.retained \in 0 .. a.count
  <2> DEFINE by(u) == {r \in R : Record(r.cells).user = u}
             kept(u) == {r \in by(u) : Status(r.cells) = "retained"}
             matched(u) == \E r \in by(u) : HasNode(r.cells)
  <2>1. AccountReport(R)
          = {[account |-> u, count |-> Cardinality(by(u)), matched |-> matched(u),
              retained |-> Cardinality(kept(u))] :
             u \in {Record(r.cells).user : r \in R} \ {"none"}}
    BY DEF AccountReport
  <2>2. \A u : by(u) \in SUBSET R /\ kept(u) \in SUBSET by(u) /\ kept(u) \in SUBSET R
    OBVIOUS
  <2> HIDE DEF by, kept, matched
  <2>3. PICK u : a.count = Cardinality(by(u)) /\ a.retained = Cardinality(kept(u))
    BY <2>1
  <2>4. /\ Cardinality(kept(u)) \in Nat /\ Cardinality(by(u)) \in Nat
        /\ Cardinality(kept(u)) <= Cardinality(by(u))
    BY <1>1, <2>2, FS_Subset
  <2> QED BY <2>3, <2>4
<1>4. ASSUME NEW s \in SnapshotReport(R)
      PROVE  s[1] \in 0 .. (SnapshotCount - 1) /\ s[2] > 0
  <2> DEFINE retained == {r \in R : Status(r.cells) = "retained"}
             at(n) == {r \in retained : AssignSnapshot(r.cells.time) = n}
  <2>1. PICK r \in retained : s = << AssignSnapshot(r.cells.time),
                                    Cardinality(at(AssignSnapshot(r.cells.time))) >>
    BY DEF SnapshotReport
  <2>2. at(AssignSnapshot(r.cells.time)) \in SUBSET R /\ r \in at(AssignSnapshot(r.cells.time))
    OBVIOUS
  <2>3. AssignSnapshot(r.cells.time) \in 0 .. (SnapshotCount - 1)
    BY DEF Status, AssignSnapshot
  <2> HIDE DEF at, retained
  <2>4. PICK T : T = at(AssignSnapshot(r.cells.time))
    OBVIOUS
  <2>5. Cardinality(T) \in Nat /\ Cardinality(T) # 0
    BY <1>1, <2>2, <2>4, FS_EmptySet
  <2> QED BY <2>1, <2>3, <2>4, <2>5
<1> QED BY <1>2, <1>3, <1>4

\* There are finitely many records on disk.
LEMMA RecordsFinite ==
  ASSUME PartTypes
  PROVE  IsFiniteSet(Records)
<1> DEFINE D == ((Files \X Chunks) \X (1 .. MaxRows))
<1>1. IsFiniteSet(D)
  <2>1. IsFiniteSet(Files) /\ IsFiniteSet(Chunks) /\ IsFiniteSet(1 .. MaxRows)
    BY FS_Interval, FilesAssumption DEF Files, Chunks
  <2> QED BY <2>1, FS_Product
<1>2. ASSUME NEW parts \in [Files -> [Chunks -> AnyPart]], NEW kind
      PROVE  IsFiniteSet(RecordsIn(parts, kind))
  <2> DEFINE g == [p \in D |-> [file |-> p[1][1], row |-> p[2], kind |-> kind,
                                chunk |-> p[1][2],
                                cells |-> Source[p[1][1]][parts[p[1][1]][p[1][2]].v][p[2]]]]
  <2>1. IsFiniteSet({g[p] : p \in DOMAIN g})
    BY <1>1, FiniteValues
  <2>2. RecordsIn(parts, kind) \subseteq {g[p] : p \in DOMAIN g}
    <3> DEFINE rec(f, c, i) == [file |-> f, row |-> i, kind |-> kind, chunk |-> c,
                                cells |-> Source[f][parts[f][c].v][i]]
    <3>1. RecordsIn(parts, kind)
            = UNION {{rec(f, c, i) : i \in parts[f][c].rows} : f \in Files, c \in Chunks}
      BY DEF RecordsIn
    <3> SUFFICES ASSUME NEW f \in Files, NEW c \in Chunks, NEW i \in parts[f][c].rows
                 PROVE  rec(f, c, i) \in {g[p] : p \in DOMAIN g}
      <4> HIDE DEF rec, g
      <4> QED BY <3>1
    <3>2. i \in 1 .. MaxRows
      BY DEF AnyPart
    <3>3. <<<<f, c>>, i>> \in D
      BY <3>2
    <3>4. g[<<<<f, c>>, i>>] = [file |-> f, row |-> i, kind |-> kind, chunk |-> c,
                                cells |-> Source[f][parts[f][c].v][i]]
      BY <3>3
    <3> QED BY <3>3, <3>4
  <2> QED BY <2>1, <2>2, FS_Subset
<1>3. /\ IsFiniteSet(RecordsIn(npart, "normalized"))
      /\ IsFiniteSet(RecordsIn(xpart, "excluded"))
  BY <1>2 DEF PartTypes
<1> QED BY <1>3, FS_Union DEF Records

-----------------------------------------------------------------------------
(***************************************************************************)
(* What steps keep.                                                        *)
(***************************************************************************)
\* One part, or one entry, is replaced.
LEMMA PutFact ==
  ASSUME NEW S, NEW p \in [Files -> [Chunks -> S]], NEW f \in Files, NEW c \in Chunks,
         NEW e \in S
  PROVE  /\ [p EXCEPT ![f][c] = e] \in [Files -> [Chunks -> S]]
         /\ \A g \in Files, d \in Chunks :
              [p EXCEPT ![f][c] = e][g][d] = IF g = f /\ d = c THEN e ELSE p[g][d]
<1> QED OBVIOUS

\* One content is replaced by another of the same file.
LEMMA ContentFact ==
  ASSUME NEW m \in [Files -> Sums], NEW f \in Files, NEW v \in Versions(f) \cup {"none"}
  PROVE  /\ [m EXCEPT ![f] = v] \in [Files -> Sums]
         /\ \A g \in Files : [m EXCEPT ![f] = v][g] = IF g = f THEN v ELSE m[g]
<1>1. v \in Sums
  BY DEF Sums
<1> QED BY <1>1

\* Parts, and what is not there.
LEMMA PartFact ==
  /\ Garbled # NoPart /\ NoPart.v = "none" /\ Garbled.v = "garbled"
  /\ NoPart.rows = {} /\ Garbled.rows = {}
  /\ NoPart \in AnyPart /\ NoEntry \in AnyEntry /\ ~NoEntry.made
  /\ NoEntry.n = NoPart /\ NoEntry.x = NoPart
  /\ \A f \in Files : /\ NoPart \in Part(f) /\ Garbled \in Part(f)
                      /\ Part(f) \subseteq AnyPart
<1>1. "none" \in Sums /\ \A f \in Files : Versions(f) \subseteq Sums
  BY DEF Sums
<1>2. /\ Garbled # NoPart /\ NoPart.v = "none" /\ Garbled.v = "garbled"
      /\ NoPart.rows = {} /\ Garbled.rows = {}
  BY DEF NoPart, Garbled
<1>3. NoPart \in AnyPart
  BY <1>1 DEF NoPart, AnyPart
<1>4. NoEntry \in AnyEntry /\ ~NoEntry.made /\ NoEntry.n = NoPart /\ NoEntry.x = NoPart
  BY <1>3 DEF NoEntry, AnyEntry
<1>5. \A f \in Files : NoPart \in Part(f) /\ Garbled \in Part(f)
  BY DEF Part, NoPart, Garbled
<1>6. \A f \in Files : Part(f) \subseteq AnyPart
  BY <1>1 DEF Part, AnyPart
<1> QED BY <1>2, <1>3, <1>4, <1>5, <1>6

\* Parts that are not touched stay what they are, also when the content of
\* another file, or of a file without parts, is recorded.
LEMMA PartsStay ==
  ASSUME PartTypes, OneVersion, size \in ChunkSizes, size' \in ChunkSizes,
         UNCHANGED <<ckpt, npart, xpart>>,
         \A f \in Files : sums'[f] = sums[f] \/ sums[f] = "none"
  PROVE  /\ PartTypes' /\ OneVersion'
         /\ OneChunkSize => /\ size' = size
                            /\ \A f \in Files, c \in Chunks : ChunkTrue(f, c) => ChunkTrue(f, c)'
                            /\ \A f \in Files : Covered(f) => Covered(f)'
<1>1. PartTypes'
  BY DEF PartTypes
<1>2. OneVersion'
  BY DEF OneVersion
<1>3. ASSUME OneChunkSize
      PROVE  /\ size' = size
             /\ \A f \in Files, c \in Chunks : ChunkTrue(f, c) => ChunkTrue(f, c)'
             /\ \A f \in Files : Covered(f) => Covered(f)'
  <2>1. size' = size
    BY <1>3 DEF OneChunkSize
  <2>2. ASSUME NEW f \in Files, NEW c \in Chunks, sums[f] # "none"
        PROVE  /\ NormalizedAt(f, c)' = NormalizedAt(f, c)
               /\ ExcludedAt(f, c)' = ExcludedAt(f, c)
    BY <2>1, <2>2 DEF NormalizedAt, ExcludedAt, KeptAt, RowsAt
  <2>3. ASSUME NEW f \in Files, NEW c \in Chunks, ChunkTrue(f, c) PROVE ChunkTrue(f, c)'
    <3>1. CASE sums[f] = "none"
      BY <2>3, <3>1 DEF ChunkTrue
    <3>2. CASE sums[f] # "none"
      BY <2>2, <2>3, <3>2 DEF ChunkTrue
    <3> QED BY <3>1, <3>2
  <2>4. ASSUME NEW f \in Files, Covered(f) PROVE Covered(f)'
    BY <2>1, <2>4 DEF Covered
  <2> QED BY <2>1, <2>3, <2>4
<1> QED BY <1>1, <1>2, <1>3

\* An empty run directory.
LEMMA InitInv == Init => IInv
<1> SUFFICES ASSUME Init PROVE IInv
  OBVIOUS
<1>1. /\ version \in [Files -> UNION {Versions(f) : f \in Files}]
      /\ \A f \in Files : version[f] \in Versions(f)
      /\ cache = [f \in Files |-> "none"] /\ sums = [f \in Files |-> "none"]
      /\ mem = [f \in Files |-> "none"]
      /\ ckpt = [f \in Files |-> [c \in Chunks |-> NoEntry]]
      /\ npart = [f \in Files |-> [c \in Chunks |-> NoPart]]
      /\ xpart = [f \in Files |-> [c \in Chunks |-> NoPart]]
      /\ reports = NoReports /\ validation = NoValidation
      /\ pc = "down" /\ files = {} /\ size \in ChunkSizes /\ todo = {} /\ file = 1 /\ chunk = 0
  BY ChunkAssumption DEF Init
<1>2. SourceTypes
  BY <1>1 DEF SourceTypes, Sums
<1>3. PartTypes
  <2>1. npart \in [Files -> [Chunks -> AnyPart]] /\ xpart \in [Files -> [Chunks -> AnyPart]]
        /\ ckpt \in [Files -> [Chunks -> AnyEntry]]
    BY <1>1, PartFact
  <2> QED BY <1>1, <2>1, PartFact DEF PartTypes
<1>4. ReportTypes
  BY <1>1 DEF ReportTypes, NoReports, NoValidation
<1>5. SessionTypes
  BY <1>1, FilesAssumption DEF SessionTypes, PCs, Files
<1>6. SourcesInv
  BY <1>1, PartFact DEF SourcesInv, Verified, InFile, OneVersion
<1>7. PartsInv
  BY <1>1, PartFact DEF PartsInv, ChunkTrue, Verified, InFile, NoValidation
<1> QED BY <1>2, <1>3, <1>4, <1>5, <1>6, <1>7 DEF IInv, Types

\* A session that ends, fails or is killed leaves everything true; what it has
\* recorded by then is what it had found recorded, or new.
LEMMA LeaveInv ==
  ASSUME IInv, NEW p \in {"down", "failed"}, Leave(p),
         version' = version, UNCHANGED <<ckpt, npart, xpart, validation>>, ReportTypes',
         cache' \in [Files -> Sums],
         \A f \in Files : cache'[f] \in Versions(f) \cup {"none"},
         sums' = sums \/ (pc = "sources" /\ sums' = mem)
  PROVE  IInv'
<1>1. /\ pc' = p /\ files' = {} /\ size' \in ChunkSizes /\ todo' = {} /\ file' = 1
      /\ chunk' = 0 /\ mem' = [f \in Files |-> "none"]
  BY ChunkAssumption DEF Leave
<1>2. /\ SourceTypes /\ PartTypes /\ SessionTypes /\ SourcesInv
      /\ (OneChunkSize => PartsInv)
  BY DEF IInv, Types
<1>3. \A f \in Files : sums'[f] = sums[f] \/ sums[f] = "none"
  BY <1>2 DEF SourcesInv
<1>4. SourceTypes'
  <2>1. mem' \in [Files -> Sums] /\ \A f \in Files : mem'[f] = "none"
    BY <1>1 DEF Sums
  <2> QED BY <1>2, <2>1 DEF SourceTypes
<1>5. SessionTypes'
  BY <1>1, FilesAssumption DEF SessionTypes, PCs, Files
<1>6. /\ PartTypes' /\ OneVersion'
      /\ OneChunkSize => /\ size' = size
                         /\ \A f \in Files, c \in Chunks : ChunkTrue(f, c) => ChunkTrue(f, c)'
                         /\ \A f \in Files : Covered(f) => Covered(f)'
  BY <1>1, <1>2, <1>3, PartsStay DEF SourcesInv, SessionTypes
<1>7. SourcesInv'
  BY <1>1, <1>6 DEF SourcesInv, Verified, InFile
<1>8. OneChunkSize => PartsInv'
  BY <1>1, <1>2, <1>6 DEF PartsInv, Verified, InFile, ReportTypes
<1> QED BY <1>4, <1>5, <1>6, <1>7, <1>8 DEF IInv, Types

\* A session starts from what is recorded.
LEMMA StartInv ==
  ASSUME IInv, NEW fs \in (SUBSET Files) \ {{}}, NEW s \in ChunkSizes, Start(fs, s)
  PROVE  IInv'
<1>1. /\ pc = "down" /\ pc' = "sources" /\ files' = fs /\ size' = s /\ mem' = sums /\ todo' = fs
      /\ UNCHANGED <<version, cache, sums, ckpt, npart, xpart, reports, validation, file, chunk>>
  BY DEF Start, durable
<1>2. /\ SourceTypes /\ PartTypes /\ ReportTypes /\ SessionTypes /\ SourcesInv
      /\ (OneChunkSize => PartsInv)
  BY DEF IInv, Types
<1>3. SourceTypes' /\ ReportTypes' /\ SessionTypes'
  BY <1>1, <1>2 DEF SourceTypes, ReportTypes, SessionTypes, PCs
<1>4. /\ PartTypes' /\ OneVersion'
      /\ OneChunkSize => /\ size' = size
                         /\ \A f \in Files, c \in Chunks : ChunkTrue(f, c) => ChunkTrue(f, c)'
                         /\ \A f \in Files : Covered(f) => Covered(f)'
  BY <1>1, <1>2, PartsStay DEF SourcesInv, SessionTypes
<1>5. SourcesInv'
  BY <1>1, <1>4 DEF SourcesInv, Verified, InFile
<1>6. OneChunkSize => PartsInv'
  BY <1>1, <1>2, <1>4 DEF PartsInv, Verified, InFile, ReportTypes
<1> QED BY <1>3, <1>4, <1>5, <1>6 DEF IInv, Types

\* What is fetched is a content of the file.
LEMMA FetchedFact ==
  ASSUME SourceTypes, NEW f \in Files
  PROVE  Fetched(f) \in Versions(f) /\ Fetched(f) # "none"
<1>1. Fetched(f) \in Versions(f)
  BY DEF Fetched, SourceTypes
<1> QED BY <1>1, VersionFact

\* A copy is fetched that is what is recorded, or of which nothing is.
LEMMA FetchSourceInv ==
  ASSUME IInv, NEW f \in Files, FetchSource(f)
  PROVE  IInv'
<1>1. PICK v : v = Fetched(f)
  OBVIOUS
<1>2. /\ pc = "sources" /\ pc' = "sources" /\ f \in todo /\ mem[f] \in {"none", v}
      /\ cache' = [cache EXCEPT ![f] = v] /\ mem' = [mem EXCEPT ![f] = v]
      /\ todo' = todo \ {f}
      /\ UNCHANGED <<version, sums, ckpt, npart, xpart, reports, validation, files, size,
                     file, chunk>>
  BY <1>1 DEF FetchSource, Fetch, Recorded, durable, session
<1>3. /\ SourceTypes /\ PartTypes /\ ReportTypes /\ SessionTypes /\ SourcesInv
      /\ (OneChunkSize => PartsInv)
  BY DEF IInv, Types
<1>4. v \in Versions(f) /\ v # "none"
  BY <1>1, <1>3, FetchedFact
<1>5. /\ cache' \in [Files -> Sums] /\ mem' \in [Files -> Sums]
      /\ \A g \in Files : /\ cache'[g] = IF g = f THEN v ELSE cache[g]
                          /\ mem'[g] = IF g = f THEN v ELSE mem[g]
  BY <1>2, <1>3, <1>4, ContentFact DEF SourceTypes
<1>6. SourceTypes' /\ ReportTypes' /\ SessionTypes'
  BY <1>2, <1>3, <1>4, <1>5 DEF SourceTypes, ReportTypes, SessionTypes
<1>7. /\ PartTypes' /\ OneVersion'
      /\ OneChunkSize => /\ size' = size
                         /\ \A g \in Files, c \in Chunks : ChunkTrue(g, c) => ChunkTrue(g, c)'
                         /\ \A g \in Files : Covered(g) => Covered(g)'
  BY <1>2, <1>3, PartsStay DEF SourcesInv, SessionTypes
<1>8. SourcesInv'
  BY <1>2, <1>3, <1>4, <1>5, <1>7 DEF SourcesInv, Verified, InFile, SessionTypes
<1>9. OneChunkSize => PartsInv'
  BY <1>2, <1>3, <1>7 DEF PartsInv, Verified, InFile, ReportTypes
<1> QED BY <1>6, <1>7, <1>8, <1>9 DEF IInv, Types

\* Another content than the recorded one ends the session.
LEMMA RefuseDriftInv ==
  ASSUME IInv, NEW f \in Files, RefuseDrift(f)
  PROVE  IInv'
<1>1. /\ Leave("failed") /\ cache' = [cache EXCEPT ![f] = Fetched(f)]
      /\ UNCHANGED <<version, sums, ckpt, npart, xpart, reports, validation>>
  BY DEF RefuseDrift, Fetch, durable
<1>2. SourceTypes /\ ReportTypes
  BY DEF IInv, Types
<1>3. Fetched(f) \in Versions(f)
  BY <1>2, FetchedFact
<1>4. cache' \in [Files -> Sums] /\ \A g \in Files : cache'[g] \in Versions(g) \cup {"none"}
  BY <1>1, <1>2, <1>3, ContentFact DEF SourceTypes
<1>5. ReportTypes'
  BY <1>1, <1>2 DEF ReportTypes
<1> QED BY <1>1, <1>4, <1>5, LeaveInv

\* The steps that leave a session and touch neither sources nor parts.
LEMMA EndInv ==
  ASSUME IInv, \/ SourcesMissing
               \/ FinalizeFails
               \/ Exit
               \/ Crash
  PROVE  IInv'
<1>1. PICK p \in {"down", "failed"} :
        /\ Leave(p) /\ UNCHANGED <<version, cache, ckpt, npart, xpart, reports, validation>>
        /\ sums' = sums \/ (pc = "sources" /\ sums' = mem)
  BY DEF SourcesMissing, FinalizeFails, Exit, Crash, durable
<1>2. SourceTypes /\ ReportTypes
  BY DEF IInv, Types
<1>3. ReportTypes' /\ cache' \in [Files -> Sums]
      /\ \A g \in Files : cache'[g] \in Versions(g) \cup {"none"}
  BY <1>1, <1>2 DEF ReportTypes, SourceTypes
<1> QED BY <1>1, <1>3, LeaveInv

\* The checksums are recorded when every copy is what they say.
LEMMA SourcesVerifiedInv ==
  ASSUME IInv, SourcesVerified
  PROVE  IInv'
<1>1. /\ pc = "sources" /\ pc' = "process" /\ todo = {} /\ sums' = mem /\ todo' = files
      /\ UNCHANGED <<version, cache, ckpt, npart, xpart, reports, validation, files, size, mem,
                     file, chunk>>
  BY DEF SourcesVerified, session
<1>2. /\ SourceTypes /\ PartTypes /\ ReportTypes /\ SessionTypes /\ SourcesInv
      /\ (OneChunkSize => PartsInv)
  BY DEF IInv, Types
<1>3. SourceTypes' /\ ReportTypes' /\ SessionTypes'
  BY <1>1, <1>2 DEF SourceTypes, ReportTypes, SessionTypes, PCs
<1>4. \A f \in Files : sums'[f] = sums[f] \/ sums[f] = "none"
  BY <1>1, <1>2 DEF SourcesInv
<1>5. /\ PartTypes' /\ OneVersion'
      /\ OneChunkSize => /\ size' = size
                         /\ \A f \in Files, c \in Chunks : ChunkTrue(f, c) => ChunkTrue(f, c)'
                         /\ \A f \in Files : Covered(f) => Covered(f)'
  BY <1>1, <1>2, <1>4, PartsStay DEF SourcesInv, SessionTypes
<1>6. SourcesInv'
  BY <1>1, <1>2, <1>5 DEF SourcesInv, Verified, InFile, SessionTypes
<1>7. OneChunkSize => PartsInv'
  BY <1>1, <1>2, <1>5 DEF PartsInv, Verified, InFile, ReportTypes
<1> QED BY <1>3, <1>5, <1>6, <1>7 DEF IInv, Types

\* A step inside a session that only moves on: the files it has behind it are
\* covered by then.
LEMMA MoveInv ==
  ASSUME IInv, pc \in Verified, pc' \in (Verified \ {"excluded", "save"}) \cup {"done"},
         UNCHANGED <<version, cache, sums, ckpt, npart, xpart, files, size, mem>>,
         ReportTypes', SessionTypes',
         pc' \in InFile => file' \in files \ todo',
         pc' \in {"finalize", "validate"} => todo' = {},
         OneChunkSize => /\ pc' \in InFile => \A c \in Chunks : c < chunk' => ckpt[file'][c].made
                         /\ pc' \in Verified => \A f \in files \ todo' :
                              (pc' \in InFile /\ f = file') \/ Covered(f)
                         /\ validation'.passed => \A f \in validation'.files : Covered(f)
  PROVE  IInv'
<1>1. /\ SourceTypes /\ PartTypes /\ SessionTypes /\ SourcesInv
      /\ (OneChunkSize => PartsInv)
  BY DEF IInv, Types
<1>2. SourceTypes'
  BY <1>1 DEF SourceTypes
<1>3. /\ PartTypes' /\ OneVersion'
      /\ OneChunkSize => /\ \A f \in Files, c \in Chunks : ChunkTrue(f, c) => ChunkTrue(f, c)'
                         /\ \A f \in Files : Covered(f) => Covered(f)'
  BY <1>1, PartsStay DEF SourcesInv, SessionTypes
<1>4. SourcesInv'
  BY <1>1, <1>3 DEF SourcesInv, Verified, InFile
<1>5. OneChunkSize => PartsInv'
  <2> SUFFICES ASSUME OneChunkSize PROVE PartsInv'
    OBVIOUS
  <2>1. validation'.files \subseteq Files /\ files \subseteq Files
    BY <1>1 DEF ReportTypes, SessionTypes
  <2> QED BY <1>1, <1>3, <2>1 DEF PartsInv, Verified, InFile
<1> QED BY <1>2, <1>3, <1>4, <1>5 DEF IInv, Types

\* A file begins at its first chunk.
LEMMA BeginFileInv ==
  ASSUME IInv, NEW f \in Files, BeginFile(f)
  PROVE  IInv'
<1>1. /\ pc = "process" /\ pc' = "chunk" /\ f \in todo /\ todo' = todo \ {f}
      /\ file' = f /\ chunk' = 0
      /\ UNCHANGED <<version, cache, sums, ckpt, npart, xpart, reports, validation, files, size,
                     mem>>
  BY DEF BeginFile, durable, session
<1>2. ReportTypes /\ SessionTypes /\ (OneChunkSize => PartsInv)
  BY DEF IInv, Types
<1>3. ReportTypes' /\ SessionTypes'
  BY <1>1, <1>2, FilesAssumption DEF ReportTypes, SessionTypes, PCs
<1>4. f \in files \ todo'
  BY <1>1, <1>2 DEF SessionTypes
<1>5. \A c \in Chunks : ~(c < 0)
  BY DEF Chunks
<1>6. OneChunkSize => /\ \A g \in files \ todo' : g = f \/ Covered(g)
                      /\ validation.passed => \A g \in validation.files : Covered(g)
  BY <1>1, <1>2 DEF PartsInv, Verified, InFile
<1> QED BY <1>1, <1>3, <1>4, <1>5, <1>6, MoveInv DEF Verified, InFile

\* In a file: its chunks are those that begin before its last row.
LEMMA InFileFact ==
  ASSUME IInv, pc \in InFile
  PROVE  /\ file \in files \ todo /\ file \in Files /\ sums[file] \in Versions(file)
         /\ sums[file] # "none" /\ cache[file] = sums[file]
         /\ \A c \in Chunks : c < NChunks(file) <=> c * size < Len(Source[file][sums[file]])
         /\ NChunks(file) \in 0 .. MaxRows
         /\ chunk < NChunks(file) => chunk \in Chunks /\ chunk + 1 \in 0 .. MaxRows
<1>1. SourceTypes /\ SessionTypes /\ SourcesInv
  BY DEF IInv, Types
<1>2. /\ file \in files \ todo /\ file \in Files /\ sums[file] # "none"
      /\ cache[file] = sums[file] /\ sums[file] \in Versions(file)
  BY <1>1 DEF SourcesInv, SourceTypes, SessionTypes, Verified
<1>3. PICK n : n = Len(Source[file][sums[file]]) /\ n \in 0 .. MaxRows
  BY <1>2, VersionFact
<1>4. size \in Nat \ {0} /\ n \in Nat /\ MaxRows \in Nat
  BY <1>1, <1>3, ChunkAssumption, FilesAssumption DEF SessionTypes
<1>5. PICK q : q = NChunks(file)
  OBVIOUS
<1>6. q \in 0 .. n /\ \A c \in Nat : c < q <=> c * size < n
  <2>1. q = (n + size - 1) \div size
    BY <1>2, <1>3, <1>5 DEF NChunks, Rows
  <2> QED BY <1>4, <2>1, ChunkFact
<1>7. NChunks(file) \in 0 .. MaxRows
  <2>1. q \in 0 .. MaxRows
    BY <1>3, <1>4, <1>6
  <2> QED BY <1>5, <2>1
<1>8. \A c \in Chunks : c < NChunks(file) <=> c * size < n
  BY <1>5, <1>6 DEF Chunks
<1>9. chunk < NChunks(file) => chunk \in Chunks /\ chunk + 1 \in 0 .. MaxRows
  BY <1>1, <1>4, <1>7 DEF SessionTypes, Chunks
<1> QED BY <1>2, <1>3, <1>7, <1>8, <1>9

\* What a session writes of a chunk is what the recorded content has there.
LEMMA EntryFact ==
  ASSUME IInv, pc \in InFile, chunk < NChunks(file)
  PROVE  /\ Entry.made /\ Entry.n = NormalizedAt(file, chunk) /\ Entry.x = ExcludedAt(file, chunk)
         /\ Entry.n \in Part(file) /\ Entry.x \in Part(file) /\ Entry \in AnyEntry
         /\ Entry.n.v = sums[file] /\ Entry.x.v = sums[file]
         /\ Entry.n \notin {NoPart, Garbled} /\ Entry.x \notin {NoPart, Garbled}
<1>1. /\ file \in Files /\ sums[file] \in Versions(file) /\ cache[file] = sums[file]
  BY InFileFact
<1>2. /\ sums[file] \notin {"none", "garbled"}
      /\ DOMAIN Source[file][sums[file]] \subseteq 1 .. MaxRows
  BY <1>1, VersionFact, FilesAssumption
<1>3. Rows(file) = Source[file][sums[file]]
  BY <1>1 DEF Rows
<1>4. ChunkRows = RowsAt(file, chunk) /\ RetainedRows = KeptAt(file, chunk)
  BY <1>3 DEF ChunkRows, RowsAt, RetainedRows, KeptAt
<1>5. /\ Entry.made /\ Entry.n = NormalizedAt(file, chunk) /\ Entry.x = ExcludedAt(file, chunk)
      /\ Entry = [made |-> TRUE, n |-> Entry.n, x |-> Entry.x]
  BY <1>1, <1>4 DEF Entry, NormalizedAt, ExcludedAt
<1>6. RowsAt(file, chunk) \subseteq 1 .. MaxRows /\ KeptAt(file, chunk) \subseteq 1 .. MaxRows
  BY <1>2 DEF RowsAt, KeptAt
<1>7. NormalizedAt(file, chunk) \in Part(file) /\ ExcludedAt(file, chunk) \in Part(file)
  BY <1>1, <1>6 DEF NormalizedAt, ExcludedAt, Part
<1>8. Entry \in AnyEntry
  BY <1>1, <1>5, <1>7, PartFact DEF AnyEntry
<1>9. /\ NormalizedAt(file, chunk).v = sums[file] /\ ExcludedAt(file, chunk).v = sums[file]
  BY DEF NormalizedAt, ExcludedAt
<1> QED BY <1>2, <1>5, <1>7, <1>8, <1>9, PartFact

\* A chunk is passed over that has its entry.
LEMMA SkipChunkInv ==
  ASSUME IInv, SkipChunk
  PROVE  IInv'
<1>1. /\ pc = "chunk" /\ pc' = "chunk" /\ chunk < NChunks(file) /\ chunk' = chunk + 1
      /\ ckpt[file][chunk].made
      /\ UNCHANGED <<version, cache, sums, ckpt, npart, xpart, reports, validation, files, size,
                     mem, todo, file>>
  BY DEF SkipChunk, ChunkValid, NextChunk, durable, session
<1>2. ReportTypes /\ SessionTypes /\ (OneChunkSize => PartsInv)
  BY DEF IInv, Types
<1>3. file \in files \ todo /\ chunk' \in 0 .. MaxRows
  BY <1>1, InFileFact DEF InFile
<1>4. ReportTypes' /\ SessionTypes'
  BY <1>1, <1>2, <1>3 DEF ReportTypes, SessionTypes
<1>5. OneChunkSize => \A c \in Chunks : c < chunk' => ckpt[file][c].made
  <2>1. \A c \in Chunks : c < chunk + 1 => c < chunk \/ c = chunk
    BY <1>2 DEF SessionTypes, Chunks
  <2> QED BY <1>1, <1>2, <2>1 DEF PartsInv, InFile
<1>6. OneChunkSize => /\ \A g \in files \ todo : g = file \/ Covered(g)
                      /\ validation.passed => \A g \in validation.files : Covered(g)
  BY <1>1, <1>2 DEF PartsInv, Verified, InFile
<1> QED BY <1>1, <1>3, <1>4, <1>5, <1>6, MoveInv DEF Verified, InFile

\* A file is covered when all its chunks are behind.
LEMMA EndFileInv ==
  ASSUME IInv, EndFile
  PROVE  IInv'
<1>1. /\ pc = "chunk" /\ pc' = "process" /\ chunk >= NChunks(file) /\ file' = 1 /\ chunk' = 0
      /\ UNCHANGED <<version, cache, sums, ckpt, npart, xpart, reports, validation, files, size,
                     mem, todo>>
  BY DEF EndFile, durable, session
<1>2. ReportTypes /\ SessionTypes /\ (OneChunkSize => PartsInv)
  BY DEF IInv, Types
<1>3. ReportTypes' /\ SessionTypes'
  BY <1>1, <1>2, FilesAssumption DEF ReportTypes, SessionTypes, PCs, Files
<1>4. /\ sums[file] # "none" /\ NChunks(file) \in 0 .. MaxRows
      /\ \A c \in Chunks : c < NChunks(file) <=> c * size < Len(Source[file][sums[file]])
  BY <1>1, InFileFact DEF InFile
<1>5. OneChunkSize => Covered(file)
  <2>1. \A c \in Chunks : c < NChunks(file) => c < chunk
    BY <1>1, <1>2, <1>4, FilesAssumption DEF SessionTypes, Chunks
  <2> QED BY <1>1, <1>2, <1>4, <2>1 DEF PartsInv, InFile, Covered
<1>6. OneChunkSize => /\ \A g \in files \ todo : Covered(g)
                      /\ validation.passed => \A g \in validation.files : Covered(g)
  BY <1>1, <1>2, <1>5 DEF PartsInv, Verified, InFile
<1> QED BY <1>1, <1>3, <1>6, MoveInv DEF Verified, InFile

\* When no file is left, all are covered.
LEMMA EndProcessInv ==
  ASSUME IInv, EndProcess
  PROVE  IInv'
<1>1. /\ pc = "process" /\ pc' = "finalize" /\ todo = {}
      /\ UNCHANGED <<version, cache, sums, ckpt, npart, xpart, reports, validation, files, size,
                     mem, todo, file, chunk>>
  BY DEF EndProcess, Goto, durable, session
<1>2. ReportTypes /\ SessionTypes /\ (OneChunkSize => PartsInv)
  BY DEF IInv, Types
<1>3. ReportTypes' /\ SessionTypes'
  BY <1>1, <1>2 DEF ReportTypes, SessionTypes, PCs
<1>4. OneChunkSize => /\ \A g \in files \ todo : Covered(g)
                      /\ validation.passed => \A g \in validation.files : Covered(g)
  BY <1>1, <1>2 DEF PartsInv, Verified, InFile
<1> QED BY <1>1, <1>3, <1>4, MoveInv DEF Verified, InFile

\* A part is written: what is on disk of a chunk is still what the recorded
\* content has there.
LEMMA WritePartInv ==
  ASSUME IInv, WriteNormalized \/ WriteExcluded
  PROVE  IInv'
<1>1. /\ \/ /\ pc = "chunk" /\ chunk < NChunks(file) /\ pc' = "excluded"
            /\ npart' = [npart EXCEPT ![file][chunk] = Entry.n] /\ xpart' = xpart
         \/ /\ pc = "excluded" /\ pc' = "save"
            /\ xpart' = [xpart EXCEPT ![file][chunk] = Entry.x] /\ npart' = npart
      /\ UNCHANGED <<version, cache, sums, ckpt, reports, validation, files, size, mem, todo,
                     file, chunk>>
  BY DEF WriteNormalized, WriteExcluded, Goto, session
<1>2. /\ SourceTypes /\ PartTypes /\ ReportTypes /\ SessionTypes /\ SourcesInv
      /\ (OneChunkSize => PartsInv)
  BY DEF IInv, Types
<1>3. pc \in InFile /\ chunk < NChunks(file)
  BY <1>1, <1>2 DEF InFile, SourcesInv
<1>4. PICK n, x : n = Entry.n /\ x = Entry.x
  OBVIOUS
<1>5. /\ file \in Files /\ chunk \in Chunks /\ sums[file] # "none"
      /\ n = NormalizedAt(file, chunk) /\ x = ExcludedAt(file, chunk)
      /\ n \in Part(file) /\ x \in Part(file) /\ n \in AnyPart /\ x \in AnyPart
      /\ n.v = sums[file] /\ x.v = sums[file] /\ n # NoPart /\ x # NoPart
  BY <1>3, <1>4, EntryFact, InFileFact, PartFact
<1>6. /\ npart' \in [Files -> [Chunks -> AnyPart]] /\ xpart' \in [Files -> [Chunks -> AnyPart]]
      /\ \A f \in Files, c \in Chunks :
           /\ npart'[f][c] = IF pc = "chunk" /\ f = file /\ c = chunk THEN n ELSE npart[f][c]
           /\ xpart'[f][c] = IF pc = "excluded" /\ f = file /\ c = chunk THEN x ELSE xpart[f][c]
  <2>1. npart \in [Files -> [Chunks -> AnyPart]] /\ xpart \in [Files -> [Chunks -> AnyPart]]
    BY <1>2 DEF PartTypes
  <2>2. CASE pc = "chunk"
    <3>1. npart' = [npart EXCEPT ![file][chunk] = n] /\ xpart' = xpart
      BY <1>1, <1>4, <2>2
    <3>2. /\ npart' \in [Files -> [Chunks -> AnyPart]]
          /\ \A f \in Files, c \in Chunks :
               npart'[f][c] = IF f = file /\ c = chunk THEN n ELSE npart[f][c]
      BY <1>5, <2>1, <3>1, PutFact
    <3> QED BY <2>1, <2>2, <3>1, <3>2
  <2>3. CASE pc = "excluded"
    <3>1. xpart' = [xpart EXCEPT ![file][chunk] = x] /\ npart' = npart
      BY <1>1, <1>4, <2>3
    <3>2. /\ xpart' \in [Files -> [Chunks -> AnyPart]]
          /\ \A f \in Files, c \in Chunks :
               xpart'[f][c] = IF f = file /\ c = chunk THEN x ELSE xpart[f][c]
      BY <1>5, <2>1, <3>1, PutFact
    <3> QED BY <2>1, <2>3, <3>1, <3>2
  <2> QED BY <1>1, <2>2, <2>3
<1>7. SourceTypes' /\ ReportTypes' /\ SessionTypes'
  BY <1>1, <1>2 DEF SourceTypes, ReportTypes, SessionTypes, PCs
<1>8. PartTypes'
  <2>1. ASSUME NEW f \in Files, NEW c \in Chunks
        PROVE  npart'[f][c] \in Part(f) /\ xpart'[f][c] \in Part(f)
    BY <1>2, <1>5, <1>6 DEF PartTypes
  <2> QED BY <1>1, <1>2, <1>6, <2>1 DEF PartTypes
<1>9. SourcesInv'
  <2>1. OneVersion'
    BY <1>1, <1>2, <1>5, <1>6 DEF SourcesInv, OneVersion
  <2>2. NChunks(file)' = NChunks(file)
    BY <1>1 DEF NChunks, Rows
  <2> QED BY <1>1, <1>2, <1>3, <2>1, <2>2 DEF SourcesInv, Verified, InFile
<1>10. OneChunkSize => PartsInv'
  <2> SUFFICES ASSUME OneChunkSize PROVE PartsInv'
    OBVIOUS
  <2>1. \A f \in Files, c \in Chunks : /\ NormalizedAt(f, c)' = NormalizedAt(f, c)
                                       /\ ExcludedAt(f, c)' = ExcludedAt(f, c)
    BY <1>1 DEF NormalizedAt, ExcludedAt, KeptAt, RowsAt
  <2>2. \A f \in Files, c \in Chunks : ChunkTrue(f, c)'
    BY <1>1, <1>2, <1>5, <1>6, <2>1 DEF PartsInv, ChunkTrue
  <2>3. \A f : Covered(f)' = Covered(f)
    BY <1>1 DEF Covered
  <2>4. /\ npart'[file][chunk] = NormalizedAt(file, chunk)
        /\ pc' = "save" => xpart'[file][chunk] = ExcludedAt(file, chunk)
    BY <1>1, <1>2, <1>5, <1>6 DEF PartsInv
  <2>5. npart'[file'][chunk'] = NormalizedAt(file, chunk)'
        /\ (pc' = "save" => xpart'[file'][chunk'] = ExcludedAt(file, chunk)')
    BY <1>1, <1>5, <2>1, <2>4
  <2> QED BY <1>1, <1>2, <2>2, <2>3, <2>5 DEF PartsInv, Verified, InFile
<1> QED BY <1>7, <1>8, <1>9, <1>10 DEF IInv, Types

\* The entry of a chunk is saved when both its parts are on disk.
LEMMA SaveChunkInv ==
  ASSUME IInv, SaveChunk
  PROVE  IInv'
<1>1. /\ pc = "save" /\ pc' = "chunk" /\ chunk' = chunk + 1
      /\ ckpt' = [ckpt EXCEPT ![file][chunk] = Entry]
      /\ UNCHANGED <<version, cache, sums, npart, xpart, reports, validation, files, size, mem,
                     todo, file>>
  BY DEF SaveChunk, NextChunk, session
<1>2. /\ SourceTypes /\ PartTypes /\ ReportTypes /\ SessionTypes /\ SourcesInv
      /\ (OneChunkSize => PartsInv)
  BY DEF IInv, Types
<1>3. pc \in InFile /\ chunk < NChunks(file)
  BY <1>1, <1>2 DEF InFile, SourcesInv
<1>4. PICK e : e = Entry
  OBVIOUS
<1>5. /\ file \in Files /\ file \in files \ todo /\ chunk \in Chunks /\ chunk + 1 \in 0 .. MaxRows
      /\ sums[file] # "none" /\ e.made /\ e \in AnyEntry
      /\ e.n = NormalizedAt(file, chunk) /\ e.x = ExcludedAt(file, chunk)
      /\ e.n \in Part(file) /\ e.x \in Part(file) /\ e.n # NoPart /\ e.x # NoPart
  BY <1>3, <1>4, EntryFact, InFileFact
<1>6. /\ ckpt' \in [Files -> [Chunks -> AnyEntry]]
      /\ \A f \in Files, c \in Chunks :
           ckpt'[f][c] = IF f = file /\ c = chunk THEN e ELSE ckpt[f][c]
  BY <1>1, <1>2, <1>4, <1>5, PutFact DEF PartTypes
<1>7. SourceTypes' /\ ReportTypes' /\ SessionTypes'
  BY <1>1, <1>2, <1>5 DEF SourceTypes, ReportTypes, SessionTypes, PCs
<1>8. PartTypes'
  BY <1>1, <1>2, <1>5, <1>6 DEF PartTypes
<1>9. SourcesInv'
  <2>1. OneVersion'
    BY <1>1, <1>2 DEF SourcesInv, OneVersion
  <2> QED BY <1>1, <1>2, <2>1 DEF SourcesInv, Verified, InFile
<1>10. OneChunkSize => PartsInv'
  <2> SUFFICES ASSUME OneChunkSize PROVE PartsInv'
    OBVIOUS
  <2>1. \A f \in Files, c \in Chunks : /\ NormalizedAt(f, c)' = NormalizedAt(f, c)
                                       /\ ExcludedAt(f, c)' = ExcludedAt(f, c)
    BY <1>1 DEF NormalizedAt, ExcludedAt, KeptAt, RowsAt
  <2>2. \A f \in Files, c \in Chunks : ChunkTrue(f, c)'
    BY <1>1, <1>2, <1>5, <1>6, <2>1 DEF PartsInv, ChunkTrue
  <2>3. \A f \in Files : Covered(f) => Covered(f)'
    BY <1>1, <1>5, <1>6 DEF Covered
  <2>4. \A c \in Chunks : c < chunk' => ckpt'[file][c].made
    <3>1. \A c \in Chunks : c < chunk + 1 => c < chunk \/ c = chunk
      BY <1>2 DEF SessionTypes, Chunks
    <3> QED BY <1>1, <1>2, <1>5, <1>6, <3>1 DEF PartsInv, InFile
  <2>5. files \subseteq Files /\ validation.files \subseteq Files
    BY <1>2 DEF SessionTypes, ReportTypes
  <2> QED BY <1>1, <1>2, <2>2, <2>3, <2>4, <2>5 DEF PartsInv, Verified, InFile
<1> QED BY <1>7, <1>8, <1>9, <1>10 DEF IInv, Types

\* The reports are of the records on disk, which are finitely many.
LEMMA FinalizeInv ==
  ASSUME IInv, Finalize
  PROVE  IInv'
<1>1. /\ pc = "finalize"
      /\ reports' = [duplicates |-> DuplicateReport(Records),
                     accounts |-> AccountReport(Records),
                     unmatched |-> UnmatchedReport(Records),
                     snapshots |-> SnapshotReport(Records)]
      /\ UNCHANGED <<version, cache, sums, ckpt, npart, xpart, validation>>
      /\ \/ pc' = "validate" /\ UNCHANGED <<files, size, mem, todo, file, chunk>>
         \/ Leave("failed")
  BY DEF Finalize, Goto, session
<1>2. /\ SourceTypes /\ PartTypes /\ ReportTypes /\ SessionTypes /\ SourcesInv
      /\ (OneChunkSize => PartsInv)
  BY DEF IInv, Types
<1>3. ReportTypes'
  <2>1. PICK R : R = Records
    OBVIOUS
  <2>2. IsFiniteSet(R)
    BY <1>2, <2>1, RecordsFinite
  <2>3. /\ reports'.duplicates = DuplicateReport(R) /\ reports'.accounts = AccountReport(R)
        /\ reports'.snapshots = SnapshotReport(R)
    BY <1>1, <2>1
  <2> QED BY <1>1, <1>2, <2>2, <2>3, ReportsFact DEF ReportTypes
<1>4. CASE Leave("failed")
  BY <1>1, <1>2, <1>3, <1>4, LeaveInv DEF SourceTypes
<1>5. CASE pc' = "validate" /\ UNCHANGED <<files, size, mem, todo, file, chunk>>
  <2>1. SessionTypes' /\ todo' = {}
    BY <1>1, <1>2, <1>5 DEF SessionTypes, PCs, SourcesInv
  <2>2. OneChunkSize => /\ \A g \in files \ todo' : Covered(g)
                        /\ validation.passed => \A g \in validation.files : Covered(g)
    BY <1>1, <1>2, <1>5 DEF PartsInv, Verified, InFile
  <2> QED BY <1>1, <1>3, <1>5, <2>1, <2>2, MoveInv DEF Verified, InFile
<1> QED BY <1>1, <1>4, <1>5

\* A session that passes has all its files covered.
LEMMA ValidateInv ==
  ASSUME IInv, Validate
  PROVE  IInv'
<1>1. /\ pc = "validate" /\ pc' = "done"
      /\ validation' = [passed |-> Balances, files |-> files]
      /\ UNCHANGED <<version, cache, sums, ckpt, npart, xpart, reports, files, size, mem, todo,
                     file, chunk>>
  BY DEF Validate, Goto, session
<1>2. /\ ReportTypes /\ SessionTypes /\ SourcesInv /\ (OneChunkSize => PartsInv)
  BY DEF IInv, Types
<1>3. validation'.passed \in BOOLEAN /\ validation'.files = files
  BY <1>1 DEF Balances
<1>4. ReportTypes' /\ SessionTypes'
  BY <1>1, <1>2, <1>3 DEF ReportTypes, SessionTypes, PCs
<1>5. OneChunkSize => \A g \in validation'.files : Covered(g)
  BY <1>1, <1>2, <1>3 DEF PartsInv, SourcesInv, Verified, InFile
<1> QED BY <1>1, <1>4, <1>5, MoveInv DEF Verified, InFile

\* Between sessions workbooks and copies may change: nothing is said of them.
LEMMA SourcesChangeInv ==
  ASSUME IInv, \/ \E f \in Files : \E v \in Versions(f) : ReplaceSource(f, v)
               \/ LoseCache
  PROVE  IInv'
<1>1. /\ pc = "down" /\ pc' = "down"
      /\ UNCHANGED <<sums, ckpt, npart, xpart, reports, validation, files, size, mem, todo,
                     file, chunk>>
      /\ \/ \E f \in Files : \E v \in Versions(f) : version' = [version EXCEPT ![f] = v]
                                                    /\ cache' = cache
         \/ cache' = [f \in Files |-> "none"] /\ version' = version
  BY DEF ReplaceSource, LoseCache, Goto, durable, session
<1>2. /\ SourceTypes /\ PartTypes /\ ReportTypes /\ SessionTypes /\ SourcesInv
      /\ (OneChunkSize => PartsInv)
  BY DEF IInv, Types
<1>3. SourceTypes'
  <2>1. CASE cache' = [f \in Files |-> "none"] /\ version' = version
    <3>1. cache' \in [Files -> Sums] /\ \A f \in Files : cache'[f] = "none"
      BY <2>1 DEF Sums
    <3> QED BY <1>1, <1>2, <2>1, <3>1 DEF SourceTypes
  <2>2. ASSUME NEW f \in Files, NEW v \in Versions(f),
               version' = [version EXCEPT ![f] = v], cache' = cache
        PROVE  SourceTypes'
    <3>1. /\ version' \in [Files -> Sums]
          /\ \A g \in Files : version'[g] = IF g = f THEN v ELSE version[g]
      BY <1>2, <2>2, ContentFact DEF SourceTypes
    <3> QED BY <1>1, <1>2, <2>2, <3>1 DEF SourceTypes
  <2> QED BY <1>1, <2>1, <2>2
<1>4. ReportTypes' /\ SessionTypes'
  BY <1>1, <1>2 DEF ReportTypes, SessionTypes
<1>5. /\ PartTypes' /\ OneVersion'
      /\ OneChunkSize => /\ \A f \in Files, c \in Chunks : ChunkTrue(f, c) => ChunkTrue(f, c)'
                         /\ \A f \in Files : Covered(f) => Covered(f)'
  BY <1>1, <1>2, PartsStay DEF SourcesInv, SessionTypes
<1>6. SourcesInv'
  BY <1>1, <1>5 DEF SourcesInv, Verified, InFile
<1>7. OneChunkSize => PartsInv'
  BY <1>1, <1>2, <1>5 DEF PartsInv, Verified, InFile, ReportTypes
<1> QED BY <1>3, <1>4, <1>5, <1>6, <1>7 DEF IInv, Types

\* A part that is on disk may rot between sessions.
LEMMA RotPartInv ==
  ASSUME IInv, NEW f \in Files, NEW c \in Chunks, RotPart(f, c)
  PROVE  IInv'
<1>1. /\ pc = "down" /\ pc' = "down"
      /\ \/ npart[f][c] # NoPart /\ npart' = [npart EXCEPT ![f][c] = Garbled] /\ xpart' = xpart
         \/ xpart[f][c] # NoPart /\ xpart' = [xpart EXCEPT ![f][c] = Garbled] /\ npart' = npart
      /\ UNCHANGED <<version, cache, sums, ckpt, reports, validation, files, size, mem, todo,
                     file, chunk>>
  BY DEF RotPart, Goto, session
<1>2. /\ SourceTypes /\ PartTypes /\ ReportTypes /\ SessionTypes /\ SourcesInv
      /\ (OneChunkSize => PartsInv)
  BY DEF IInv, Types
<1>3. /\ npart \in [Files -> [Chunks -> AnyPart]] /\ xpart \in [Files -> [Chunks -> AnyPart]]
      /\ Garbled \in AnyPart
  BY <1>2, PartFact DEF PartTypes
<1>4. /\ npart' \in [Files -> [Chunks -> AnyPart]] /\ xpart' \in [Files -> [Chunks -> AnyPart]]
      /\ \A g \in Files, d \in Chunks :
           /\ npart'[g][d] = npart[g][d] \/ (npart'[g][d] = Garbled /\ npart[g][d] # NoPart)
           /\ xpart'[g][d] = xpart[g][d] \/ (xpart'[g][d] = Garbled /\ xpart[g][d] # NoPart)
  <2>1. CASE npart[f][c] # NoPart /\ npart' = [npart EXCEPT ![f][c] = Garbled] /\ xpart' = xpart
    <3>1. /\ npart' \in [Files -> [Chunks -> AnyPart]]
          /\ \A g \in Files, d \in Chunks :
               npart'[g][d] = IF g = f /\ d = c THEN Garbled ELSE npart[g][d]
      BY <1>3, <2>1, PutFact
    <3> QED BY <1>3, <2>1, <3>1
  <2>2. CASE xpart[f][c] # NoPart /\ xpart' = [xpart EXCEPT ![f][c] = Garbled] /\ npart' = npart
    <3>1. /\ xpart' \in [Files -> [Chunks -> AnyPart]]
          /\ \A g \in Files, d \in Chunks :
               xpart'[g][d] = IF g = f /\ d = c THEN Garbled ELSE xpart[g][d]
      BY <1>3, <2>2, PutFact
    <3> QED BY <1>3, <2>2, <3>1
  <2> QED BY <1>1, <2>1, <2>2
<1>5. SourceTypes' /\ ReportTypes' /\ SessionTypes'
  BY <1>1, <1>2 DEF SourceTypes, ReportTypes, SessionTypes
<1>6. PartTypes'
  <2>1. ASSUME NEW g \in Files, NEW d \in Chunks
        PROVE  npart'[g][d] \in Part(g) /\ xpart'[g][d] \in Part(g)
    BY <1>2, <1>4, PartFact DEF PartTypes
  <2> QED BY <1>1, <1>2, <1>4, <2>1 DEF PartTypes
<1>7. SourcesInv'
  <2>1. ASSUME NEW g \in Files, NEW d \in Chunks
        PROVE  {npart'[g][d].v, xpart'[g][d].v} \subseteq {"none", "garbled", sums[g]}
    <3>1. {npart[g][d].v, xpart[g][d].v} \subseteq {"none", "garbled", sums[g]}
      BY <1>2 DEF SourcesInv, OneVersion
    <3> QED BY <1>4, <3>1, PartFact
  <2>2. OneVersion'
    BY <1>1, <2>1 DEF OneVersion
  <2> QED BY <1>1, <1>2, <2>2 DEF SourcesInv, Verified, InFile
<1>8. OneChunkSize => PartsInv'
  <2> SUFFICES ASSUME OneChunkSize PROVE PartsInv'
    OBVIOUS
  <2>1. \A g \in Files, d \in Chunks : /\ NormalizedAt(g, d)' = NormalizedAt(g, d)
                                       /\ ExcludedAt(g, d)' = ExcludedAt(g, d)
    BY <1>1 DEF NormalizedAt, ExcludedAt, KeptAt, RowsAt
  <2>2. \A g \in Files, d \in Chunks : ChunkTrue(g, d)'
    BY <1>1, <1>2, <1>4, <2>1, PartFact DEF PartsInv, ChunkTrue
  <2>3. \A g : Covered(g)' = Covered(g)
    BY <1>1 DEF Covered
  <2> QED BY <1>1, <1>2, <2>2, <2>3 DEF PartsInv, Verified, InFile
<1> QED BY <1>5, <1>6, <1>7, <1>8 DEF IInv, Types

\* Nothing happens.
LEMMA StutterInv ==
  ASSUME IInv, UNCHANGED vars
  PROVE  IInv'
<1>1. UNCHANGED <<version, cache, sums, ckpt, npart, xpart, reports, validation,
                  pc, files, size, mem, todo, file, chunk>>
  BY DEF vars, session
<1>2. /\ SourceTypes /\ PartTypes /\ ReportTypes /\ SessionTypes /\ SourcesInv
      /\ (OneChunkSize => PartsInv)
  BY DEF IInv, Types
<1>3. SourceTypes' /\ PartTypes' /\ ReportTypes' /\ SessionTypes'
  BY <1>1, <1>2 DEF SourceTypes, PartTypes, ReportTypes, SessionTypes
<1>4. SourcesInv'
  BY <1>1, <1>2 DEF SourcesInv, OneVersion, NChunks, Rows
<1>5. OneChunkSize => PartsInv'
  <2>1. /\ \A f, c : NormalizedAt(f, c)' = NormalizedAt(f, c)
        /\ \A f, c : ExcludedAt(f, c)' = ExcludedAt(f, c)
    BY <1>1 DEF NormalizedAt, ExcludedAt, KeptAt, RowsAt
  <2>2. ASSUME NEW f \in Files
        PROVE  /\ \A c \in Chunks : ChunkTrue(f, c) => ChunkTrue(f, c)'
               /\ Covered(f) => Covered(f)'
    <3>1. \A c \in Chunks : ChunkTrue(f, c) => ChunkTrue(f, c)'
      BY <1>1, <2>1 DEF ChunkTrue
    <3>2. Covered(f) => Covered(f)'
      BY <1>1 DEF Covered
    <3> QED BY <3>1, <3>2
  <2>3. ASSUME PartsInv PROVE PartsInv'
    <3>1. \A f \in Files, c \in Chunks : ChunkTrue(f, c)'
      BY <2>2, <2>3 DEF PartsInv
    <3>2. /\ validation.passed => \A f \in validation.files : Covered(f)'
          /\ pc \in Verified => \A f \in files \ todo : (pc \in InFile /\ f = file) \/ Covered(f)'
      BY <1>2, <2>2, <2>3 DEF PartsInv, ReportTypes, SessionTypes
    <3> QED BY <1>1, <2>1, <2>3, <3>1, <3>2 DEF PartsInv
  <2> QED BY <1>2, <2>3
<1> QED BY <1>3, <1>4, <1>5 DEF IInv, Types

\* Every step keeps the invariant.
LEMMA NextInv ==
  ASSUME IInv, [Next]_vars
  PROVE  IInv'
<1>1. CASE \E fs \in (SUBSET Files) \ {{}}, s \in ChunkSizes : Start(fs, s)
  BY <1>1, StartInv
<1>2. CASE Sources
  BY <1>2, FetchSourceInv, RefuseDriftInv, SourcesVerifiedInv DEF Sources
<1>3. CASE Process
  BY <1>3, BeginFileInv, SkipChunkInv, WritePartInv, SaveChunkInv, EndFileInv, EndProcessInv
     DEF Process
<1>4. CASE Publish
  BY <1>4, EndInv, FinalizeInv, ValidateInv DEF Publish
<1>5. CASE Exit
  BY <1>5, EndInv
<1>6. CASE Disturbance
  <2>1. CASE Crash \/ SourcesMissing
    BY <2>1, EndInv
  <2>2. CASE \/ LoseCache
             \/ \E f \in Files : \E v \in Versions(f) : ReplaceSource(f, v)
    BY <2>2, SourcesChangeInv
  <2>3. CASE \E f \in Files : \E c \in Chunks : RotPart(f, c)
    BY <2>3, RotPartInv
  <2> QED BY <1>6, <2>1, <2>2, <2>3 DEF Disturbance
<1>7. CASE UNCHANGED vars
  BY <1>7, StutterInv
<1> QED BY <1>1, <1>2, <1>3, <1>4, <1>5, <1>6, <1>7 DEF Next, Step

-----------------------------------------------------------------------------
(***************************************************************************)
(* The theorems.                                                           *)
(***************************************************************************)
\* The invariant holds in every reachable state of PilotPipeline.
THEOREM Inductive == Spec => []IInv
<1>1. Init => IInv
  BY InitInv
<1>2. IInv /\ [Next]_vars => IInv'
  BY NextInv
<1> QED BY <1>1, <1>2, PTL DEF Spec

\* Types; reported groups, accounts and snapshots are possible ones.
THEOREM TypeCorrect == Spec => []TypeOK
<1>1. IInv => TypeOK
  BY DEF IInv, Types, SourceTypes, PartTypes, ReportTypes, SessionTypes, AnyEntry, TypeOK
<1> QED BY <1>1, Inductive, PTL

\* Whatever workbooks are replaced and whatever copies are lost between
\* sessions, the parts _normalize_file writes of a file are of the one content
\* whose checksum manifest.json records.
THEOREM PartsAreOfOneVersion == Spec => []OneVersion
<1>1. IInv => OneVersion
  BY DEF IInv, SourcesInv
<1> QED BY <1>1, Inductive, PTL

\* When chunk_size stays what it was, a chunk that a checkpoint calls done has
\* its two parts on disk with the recorded checksums, or one that rotted: also
\* after kills between the three writes, and while parts are written again.
THEOREM CheckpointIsTrue ==
  ASSUME OneChunkSize
  PROVE  Spec => []CheckpointTrue
<1>1. IInv => CheckpointTrue
  <2> SUFFICES ASSUME IInv, NEW f \in Files, NEW c \in Chunks, ckpt[f][c].made
               PROVE  /\ npart[f][c] \in {ckpt[f][c].n, Garbled}
                      /\ xpart[f][c] \in {ckpt[f][c].x, Garbled}
    BY DEF CheckpointTrue
  <2>1. ChunkTrue(f, c)
    BY DEF IInv, PartsInv
  <2> QED BY <2>1 DEF ChunkTrue
<1> QED BY <1>1, Inductive, PTL

\* The parts that hold row i of a covered file are those of its one chunk.
LEMMA PartsOfRow ==
  ASSUME IInv, PartsInv, NEW f \in Files, Covered(f), Intact(f),
         NEW i \in DOMAIN Source[f][sums[f]]
  PROVE  \E c \in Chunks : PartsWith(f, i) = {<<Kind(SourceRow(f, i)), c>>}
<1>1. /\ size \in Nat \ {0} /\ sums[f] \in Versions(f) /\ sums[f] # "none"
      /\ \A d \in Chunks : ChunkTrue(f, d)
      /\ \A d \in Chunks : d * size < Len(Source[f][sums[f]]) => ckpt[f][d].made
  BY ChunkAssumption DEF IInv, Types, SourceTypes, SessionTypes, PartsInv, Covered
<1>2. PICK v \in Versions(f) : v = sums[f] /\ v # "none"
  BY <1>1
<1>3. PICK n \in 0 .. MaxRows : /\ n = Len(Source[f][v]) /\ DOMAIN Source[f][v] = 1 .. n
                                /\ i \in 1 .. n /\ Source[f][v][i] \in Row
  BY <1>2, VersionFact
<1>4. n \in Nat /\ (0 .. (n - 1)) \subseteq Chunks /\ Chunks \subseteq Nat
  BY <1>3, FilesAssumption DEF Chunks
<1>5. PICK c \in 0 .. (n - 1) : \A d \in Nat : (d * size < i /\ i <= (d + 1) * size) <=> d = c
  BY <1>1, <1>3, <1>4, ChunkFact
<1>6. c \in Chunks /\ c * size < n /\ i \in RowsAt(f, c)
  <2>1. c * size < i /\ i <= (c + 1) * size /\ c * size \in Nat
    BY <1>1, <1>4, <1>5, Multiples
  <2> QED BY <1>2, <1>3, <1>4, <2>1 DEF RowsAt
<1>7. \A d \in Chunks : i \in RowsAt(f, d) => d = c
  BY <1>4, <1>5 DEF RowsAt
<1>8. i \in KeptAt(f, c) <=> Kind(SourceRow(f, i)) = "normalized"
  BY <1>2, <1>3, <1>6, RetainedFact DEF KeptAt, Kind, SourceRow
<1>9. ASSUME NEW d \in Chunks
      PROVE  /\ i \in npart[f][d].rows => d = c /\ i \in KeptAt(f, c)
             /\ i \in xpart[f][d].rows => d = c /\ i \notin KeptAt(f, c)
  <2>1. /\ npart[f][d] = NoPart \/ npart[f][d] = NormalizedAt(f, d)
        /\ xpart[f][d] = NoPart \/ xpart[f][d] = ExcludedAt(f, d)
    BY <1>1 DEF ChunkTrue, Intact
  <2>2. /\ i \in npart[f][d].rows => i \in KeptAt(f, d)
        /\ i \in xpart[f][d].rows => i \in RowsAt(f, d) \ KeptAt(f, d)
    BY <2>1, PartFact DEF NormalizedAt, ExcludedAt
  <2>3. KeptAt(f, d) \subseteq RowsAt(f, d)
    BY DEF KeptAt
  <2> QED BY <1>7, <2>2, <2>3
<1>10. npart[f][c].rows = KeptAt(f, c) /\ xpart[f][c].rows = RowsAt(f, c) \ KeptAt(f, c)
  <2>1. npart[f][c] = NormalizedAt(f, c) /\ xpart[f][c] = ExcludedAt(f, c)
    BY <1>1, <1>2, <1>3, <1>6 DEF ChunkTrue, Intact
  <2> QED BY <2>1 DEF NormalizedAt, ExcludedAt
<1>11. PartsWith(f, i) = {<<Kind(SourceRow(f, i)), c>>}
  <2>1. CASE i \in KeptAt(f, c)
    <3>1. /\ {d \in Chunks : i \in npart[f][d].rows} = {c}
          /\ {d \in Chunks : i \in xpart[f][d].rows} = {}
      BY <1>6, <1>9, <1>10, <2>1
    <3> QED BY <1>8, <2>1, <3>1 DEF PartsWith
  <2>2. CASE i \notin KeptAt(f, c)
    <3>1. /\ {d \in Chunks : i \in npart[f][d].rows} = {}
          /\ {d \in Chunks : i \in xpart[f][d].rows} = {c}
      BY <1>6, <1>9, <1>10, <2>2
    <3>2. Kind(SourceRow(f, i)) = "excluded"
      BY <1>8, <2>2 DEF Kind
    <3> QED BY <3>1, <3>2 DEF PartsWith
  <2> QED BY <2>1, <2>2
<1> QED BY <1>6, <1>11

\* When chunk_size stays what it was, a run whose gates have passed has every
\* row of its input files in exactly one part, of the kind its cells call for.
THEOREM PassedIsAPartition ==
  ASSUME OneChunkSize
  PROVE  Spec => []PassedIsPartition
<1>1. IInv => PassedIsPartition
  <2> SUFFICES ASSUME IInv, validation.passed, NEW f \in validation.files, Intact(f),
                      NEW i \in DOMAIN Source[f][sums[f]]
               PROVE  \E c \in Chunks : PartsWith(f, i) = {<<Kind(SourceRow(f, i)), c>>}
    BY DEF PassedIsPartition
  <2>1. PartsInv /\ Covered(f) /\ f \in Files
    BY DEF IInv, PartsInv, Types, ReportTypes
  <2> QED BY <2>1, PartsOfRow
<1> QED BY <1>1, Inductive, PTL

-----------------------------------------------------------------------------
(***************************************************************************)
(* The reports.  When a session passes its gates, the records it has read  *)
(* are as many as the rows of its files; as the parts of these hold each   *)
(* row once, there are no others: records and rows correspond one to one,  *)
(* and what is counted of the ones can be counted of the others.           *)
(***************************************************************************)
\* The row a record is of.
Spot(r) == <<r.file, r.row>>

\* Records and rows of the session's files correspond.
RecordsAreRows ==
  /\ \A r \in Records : Spot(r) \in RunRows /\ r.cells = Cells(Spot(r))
  /\ \A r, s \in Records : Spot(r) = Spot(s) => r = s
  /\ \A p \in RunRows : \E r \in Records : Spot(r) = p

\* The tables are of the records that are on disk.
ReportsOf(R) == [duplicates |-> DuplicateReport(R), accounts |-> AccountReport(R),
                 unmatched |-> UnmatchedReport(R), snapshots |-> SnapshotReport(R)]

ReadInv ==
  /\ pc \in {"validate", "done"} => reports = ReportsOf(Records)
  /\ pc = "validate" => ~Unreadable
  /\ pc = "done" /\ validation.passed => RecordsAreRows

\* The records of parts of one kind.
LEMMA InRecords ==
  ASSUME NEW parts, NEW kind, NEW r
  PROVE  r \in RecordsIn(parts, kind) <=>
           \E f \in Files, c \in Chunks : \E i \in parts[f][c].rows :
             r = [file |-> f, row |-> i, kind |-> kind, chunk |-> c,
                  cells |-> Source[f][parts[f][c].v][i]]
<1> DEFINE rec(f, c, i) == [file |-> f, row |-> i, kind |-> kind, chunk |-> c,
                            cells |-> Source[f][parts[f][c].v][i]]
           of(f, c) == {rec(f, c, i) : i \in parts[f][c].rows}
<1>1. RecordsIn(parts, kind) = UNION {of(f, c) : f \in Files, c \in Chunks}
  BY DEF RecordsIn
<1>2. \A f, c : r \in of(f, c) <=> \E i \in parts[f][c].rows : r = rec(f, c, i)
  OBVIOUS
<1>3. r \in RecordsIn(parts, kind) <=> \E f \in Files, c \in Chunks : r \in of(f, c)
  <2> HIDE DEF of
  <2> QED BY <1>1
<1>4. r \in RecordsIn(parts, kind) <=>
        \E f \in Files, c \in Chunks : \E i \in parts[f][c].rows : r = rec(f, c, i)
  <2> HIDE DEF of, rec
  <2> QED BY <1>2, <1>3
<1> QED BY <1>4

\* A record on disk is of a row of the recorded content of its file, in the
\* chunk and of the kind that row belongs to.
LEMMA RecordFact ==
  ASSUME IInv, PartsInv, ~Unreadable, NEW r \in Records
  PROVE  /\ r.file \in Files /\ r.chunk \in Chunks /\ sums[r.file] # "none"
         /\ r.row \in RowsAt(r.file, r.chunk)
         /\ r.cells = SourceRow(r.file, r.row)
         /\ r = [file |-> r.file, row |-> r.row, chunk |-> r.chunk, cells |-> r.cells,
                 kind |-> IF r.row \in KeptAt(r.file, r.chunk) THEN "normalized" ELSE "excluded"]
<1>1. \A f \in Files, c \in Chunks : npart[f][c] # Garbled /\ xpart[f][c] # Garbled
  <2> SUFFICES ASSUME NEW f \in Files, NEW c \in Chunks,
                      npart[f][c] = Garbled \/ xpart[f][c] = Garbled
               PROVE  FALSE
    OBVIOUS
  <2>1. <<TRUE, f, c>> \in BOOLEAN \X Files \X Chunks /\ <<FALSE, f, c>> \in BOOLEAN \X Files \X Chunks
    OBVIOUS
  <2>2. <<TRUE, f, c>> \in Rotten \/ <<FALSE, f, c>> \in Rotten
    BY <2>1 DEF Rotten
  <2> QED BY <2>2 DEF Unreadable
<1>2. \A f \in Files, c \in Chunks : ChunkTrue(f, c)
  BY DEF PartsInv
<1> DEFINE rec(parts, kind, f, c, i) == [file |-> f, row |-> i, kind |-> kind, chunk |-> c,
                                         cells |-> Source[f][parts[f][c].v][i]]
<1>3. CASE r \in RecordsIn(npart, "normalized")
  <2>1. PICK f \in Files, c \in Chunks : \E i \in npart[f][c].rows :
               r = rec(npart, "normalized", f, c, i)
    BY <1>3, InRecords
  <2>2. PICK i \in npart[f][c].rows : r = rec(npart, "normalized", f, c, i)
    BY <2>1
  <2>3. npart[f][c] = NormalizedAt(f, c) /\ sums[f] # "none"
    BY <1>1, <1>2, <2>2, PartFact DEF ChunkTrue
  <2>4. i \in KeptAt(f, c) /\ npart[f][c].v = sums[f] /\ i \in RowsAt(f, c)
    BY <2>2, <2>3 DEF NormalizedAt, KeptAt
  <2> QED BY <2>2, <2>3, <2>4 DEF SourceRow
<1>4. CASE r \in RecordsIn(xpart, "excluded")
  <2>1. PICK f \in Files, c \in Chunks : \E i \in xpart[f][c].rows :
               r = rec(xpart, "excluded", f, c, i)
    BY <1>4, InRecords
  <2>2. PICK i \in xpart[f][c].rows : r = rec(xpart, "excluded", f, c, i)
    BY <2>1
  <2>3. xpart[f][c] = ExcludedAt(f, c) /\ sums[f] # "none"
    BY <1>1, <1>2, <2>2, PartFact DEF ChunkTrue
  <2>4. i \in RowsAt(f, c) \ KeptAt(f, c) /\ xpart[f][c].v = sums[f]
    BY <2>2, <2>3 DEF ExcludedAt
  <2> QED BY <2>2, <2>3, <2>4 DEF SourceRow
<1> QED BY <1>3, <1>4 DEF Records

\* The other way round: rows of a part are records.
LEMMA RecordOfRow ==
  ASSUME NEW f \in Files, NEW c \in Chunks, NEW i \in npart[f][c].rows \cup xpart[f][c].rows
  PROVE  \E r \in Records : Spot(r) = <<f, i>>
<1>1. ASSUME NEW parts, NEW kind, i \in parts[f][c].rows
      PROVE  \E r \in RecordsIn(parts, kind) : Spot(r) = <<f, i>>
  <2>1. PICK r : r = [file |-> f, row |-> i, kind |-> kind, chunk |-> c,
                      cells |-> Source[f][parts[f][c].v][i]]
    OBVIOUS
  <2> QED BY <1>1, <2>1, InRecords DEF Spot
<1> QED BY <1>1 DEF Records

\* A row is in one chunk, one of those that the run goes through.
LEMMA RowChunk ==
  ASSUME Types, NEW f \in Files, sums[f] # "none", NEW i \in DOMAIN Source[f][sums[f]]
  PROVE  \E c \in Chunks : /\ c * size < Len(Source[f][sums[f]])
                           /\ c < (Len(Source[f][sums[f]]) + size - 1) \div size
                           /\ \A d \in Chunks : i \in RowsAt(f, d) <=> d = c
<1>1. /\ size \in Nat \ {0} /\ sums[f] \in Versions(f)
  BY ChunkAssumption DEF Types, SourceTypes, SessionTypes
<1>2. PICK v \in Versions(f) : v = sums[f]
  BY <1>1
<1>3. PICK n \in 0 .. MaxRows : /\ n = Len(Source[f][v]) /\ DOMAIN Source[f][v] = 1 .. n
                                /\ i \in 1 .. n
  BY <1>2, VersionFact
<1>4. n \in Nat /\ (0 .. (n - 1)) \subseteq Chunks /\ Chunks \subseteq Nat
  BY <1>3, FilesAssumption DEF Chunks
<1>5. PICK c \in 0 .. (n - 1) : \A d \in Nat : (d * size < i /\ i <= (d + 1) * size) <=> d = c
  BY <1>1, <1>3, <1>4, ChunkFact
<1>6. c \in Chunks /\ c * size < n
  <2>1. c * size < i /\ c * size \in Nat
    BY <1>1, <1>4, <1>5, Multiples
  <2> QED BY <1>3, <1>4, <2>1
<1>7. c < (n + size - 1) \div size
  BY <1>1, <1>4, <1>6, ChunkFact
<1>8. \A d \in Chunks : i \in RowsAt(f, d) <=> d = c
  BY <1>2, <1>3, <1>4, <1>5 DEF RowsAt
<1> QED BY <1>2, <1>3, <1>6, <1>7, <1>8

\* The rows of some files.
RowsOf(fs) == {p \in fs \X (1 .. MaxRows) : p[2] \in DOMAIN Source[p[1]][sums[p[1]]]}

\* What is known of the files of a session that evaluates its gates.
LEMMA GateFact ==
  ASSUME IInv, PartsInv, pc = "validate"
  PROVE  /\ size \in Nat \ {0} /\ files \subseteq Files /\ IsFiniteSet(RowsOf(files))
         /\ \A f \in files : /\ cache[f] = sums[f] /\ sums[f] \in Versions(f)
                             /\ sums[f] # "none" /\ Covered(f)
         /\ \A f \in Files, c \in Chunks : ChunkTrue(f, c)
<1>1. size \in Nat \ {0} /\ files \subseteq Files
  BY ChunkAssumption DEF IInv, Types, SessionTypes
<1>2. IsFiniteSet(RowsOf(files))
  <2>1. IsFiniteSet(Files) /\ IsFiniteSet(1 .. MaxRows)
    BY FS_Interval, FilesAssumption DEF Files
  <2>2. RowsOf(files) \subseteq Files \X (1 .. MaxRows)
    BY <1>1 DEF RowsOf
  <2> QED BY <2>1, <2>2, FS_Product, FS_Subset
<1>3. \A f \in files : cache[f] = sums[f] /\ sums[f] # "none" /\ Covered(f)
  BY DEF IInv, SourcesInv, PartsInv, Verified, InFile
<1>4. \A f \in files : sums[f] \in Versions(f)
  BY <1>1, <1>3 DEF IInv, Types, SourceTypes
<1> QED BY <1>1, <1>2, <1>3, <1>4 DEF PartsInv

\* The entry of a chunk counts its rows.
LEMMA EntryCount ==
  ASSUME IInv, PartsInv, pc = "validate",
         NEW k \in DOMAIN RowsOfEntries
  PROVE  /\ k[1] \in files /\ k[2] \in Chunks /\ IsFiniteSet(RowsAt(k[1], k[2]))
         /\ RowsOfEntries[k] = Cardinality(RowsAt(k[1], k[2]))
<1>1. /\ k \in files \X Chunks /\ k[2] < NChunks(k[1])
      /\ RowsOfEntries[k] = Cardinality(ckpt[k[1]][k[2]].n.rows)
                            + Cardinality(ckpt[k[1]][k[2]].x.rows)
  BY DEF RowsOfEntries
<1>2. PICK f \in files, c \in Chunks : k = <<f, c>> /\ f = k[1] /\ c = k[2]
  BY <1>1
<1>3. /\ f \in Files /\ size \in Nat \ {0} /\ sums[f] \in Versions(f) /\ sums[f] # "none"
      /\ cache[f] = sums[f] /\ Covered(f) /\ ChunkTrue(f, c)
  BY <1>2, GateFact
<1>4. PICK n \in 0 .. MaxRows : n = Len(Source[f][sums[f]]) /\ DOMAIN Source[f][sums[f]] = 1 .. n
  BY <1>3, VersionFact
<1>5. n \in Nat /\ c \in Nat
  BY FilesAssumption DEF Chunks
<1>6. c * size < n
  <2>1. c < (n + size - 1) \div size
    BY <1>1, <1>2, <1>3, <1>4 DEF NChunks, Rows
  <2> QED BY <1>3, <1>5, <2>1, ChunkFact
<1>7. ckpt[f][c].n.rows = KeptAt(f, c) /\ ckpt[f][c].x.rows = RowsAt(f, c) \ KeptAt(f, c)
  BY <1>3, <1>4, <1>6 DEF Covered, ChunkTrue, NormalizedAt, ExcludedAt
<1>8. IsFiniteSet(RowsAt(f, c))
  <2>1. IsFiniteSet(1 .. n)
    BY FS_Interval, <1>5
  <2>2. RowsAt(f, c) \subseteq 1 .. n
    BY <1>4 DEF RowsAt
  <2> QED BY <2>1, <2>2, FS_Subset
<1>9. PICK R, K : R = RowsAt(f, c) /\ K = KeptAt(f, c)
  OBVIOUS
<1>10. K \subseteq R
  BY <1>9 DEF KeptAt
<1>11. Cardinality(K) + Cardinality(R \ K) = Cardinality(R)
  <2>1. IsFiniteSet(R) /\ IsFiniteSet(K) /\ IsFiniteSet(R \ K)
    BY <1>8, <1>9, <1>10, FS_Subset
  <2>2. R = K \cup (R \ K) /\ K \cap (R \ K) = {}
    BY <1>10
  <2>3. PICK L, I : L = R \ K /\ I = K \cap L
    OBVIOUS
  <2>4. K \cup L = R /\ Cardinality(I) = 0
    BY <2>2, <2>3, FS_EmptySet
  <2>5. Cardinality(K \cup L) = Cardinality(K) + Cardinality(L) - Cardinality(I)
    BY <2>1, <2>3, FS_Union
  <2>6. Cardinality(R) = Cardinality(K) + Cardinality(L) - Cardinality(I)
    BY <2>4, <2>5
  <2>7. Cardinality(K) \in Nat /\ Cardinality(L) \in Nat
    BY <2>1, <2>3, FS_CardinalityType
  <2>8. Cardinality(K) + Cardinality(L) = Cardinality(R)
    BY <2>4, <2>6, <2>7
  <2> QED BY <2>3, <2>8
<1> QED BY <1>1, <1>2, <1>7, <1>8, <1>9, <1>11

\* rows_in is the number of rows of the session's files.
LEMMA RowsInFact ==
  ASSUME IInv, PartsInv, pc = "validate"
  PROVE  RowsIn = Cardinality(RowsOf(files))
<1>1. PICK R : R = RowsOf(files)
  OBVIOUS
<1>2. PICK rows : rows = RowsOfEntries
  OBVIOUS
<1>3. PICK at : at = [k \in DOMAIN rows |->
                        {p \in R : p[1] = k[1] /\ p[2] \in RowsAt(k[1], k[2])}]
  OBVIOUS
<1>4. IsFiniteSet(R)
  BY <1>1, GateFact
<1>5. \A k \in DOMAIN rows : at[k] \in SUBSET R /\ IsFiniteSet(at[k])
                             /\ rows[k] = Cardinality(at[k])
  <2> SUFFICES ASSUME NEW k \in DOMAIN rows
               PROVE  at[k] \in SUBSET R /\ IsFiniteSet(at[k]) /\ rows[k] = Cardinality(at[k])
    OBVIOUS
  <2>1. PICK f \in files, c \in Chunks : /\ f = k[1] /\ c = k[2] /\ IsFiniteSet(RowsAt(f, c))
                                         /\ rows[k] = Cardinality(RowsAt(f, c))
    BY <1>2, EntryCount
  <2>2. f \in Files /\ sums[f] \in Versions(f)
    BY GateFact
  <2>3. \A i \in RowsAt(f, c) : <<f, i>> \in R
    <3>1. DOMAIN Source[f][sums[f]] \subseteq 1 .. MaxRows
      BY <2>2, VersionFact, FilesAssumption
    <3> QED BY <1>1, <3>1 DEF RowsOf, RowsAt
  <2>4. at[k] = {p \in R : p[1] = f /\ p[2] \in RowsAt(f, c)}
    BY <1>3, <2>1
  <2>5. PICK A : A = RowsAt(f, c)
    OBVIOUS
  <2>6. PICK spot : spot = [i \in A |-> <<f, i>>]
    OBVIOUS
  <2>7. /\ spot \in [A -> at[k]]
        /\ \A r, s \in A : spot[r] = spot[s] => r = s
    BY <2>3, <2>4, <2>5, <2>6
  <2>8. \A p \in at[k] : \E r \in A : spot[r] = p
    <3> SUFFICES ASSUME NEW p \in at[k] PROVE \E r \in A : spot[r] = p
      OBVIOUS
    <3>1. p = <<p[1], p[2]>> /\ p[1] = f /\ p[2] \in A
      BY <1>1, <2>4, <2>5 DEF RowsOf
    <3> QED BY <2>6, <3>1
  <2>9. IsFiniteSet(at[k]) /\ Cardinality(A) = Cardinality(at[k])
    BY <2>1, <2>5, <2>7, <2>8, SameCount
  <2> QED BY <2>1, <2>4, <2>5, <2>9
<1>6. \A p \in R : \E k \in DOMAIN rows : \A l \in DOMAIN rows : p \in at[l] <=> l = k
  <2> SUFFICES ASSUME NEW p \in R
               PROVE  \E k \in DOMAIN rows : \A l \in DOMAIN rows : p \in at[l] <=> l = k
    OBVIOUS
  <2>1. PICK f \in files, i \in 1 .. MaxRows : /\ p = <<f, i>> /\ f = p[1] /\ i = p[2]
                                               /\ i \in DOMAIN Source[f][sums[f]]
    BY <1>1 DEF RowsOf
  <2>2. f \in Files /\ sums[f] # "none" /\ cache[f] = sums[f] /\ Types
    BY GateFact DEF IInv
  <2>3. PICK c \in Chunks : /\ c < NChunks(f)
                            /\ \A d \in Chunks : i \in RowsAt(f, d) <=> d = c
    BY <2>1, <2>2, RowChunk DEF NChunks, Rows
  <2>4. <<f, c>> \in DOMAIN rows /\ \A l \in DOMAIN rows : l = <<l[1], l[2]>> /\ l[2] \in Chunks
    BY <1>2, <2>3 DEF RowsOfEntries
  <2>5. \A l \in DOMAIN rows : p \in at[l] <=> l = <<f, c>>
    <3> SUFFICES ASSUME NEW l \in DOMAIN rows PROVE p \in at[l] <=> l = <<f, c>>
      OBVIOUS
    <3>1. p \in at[l] <=> f = l[1] /\ i \in RowsAt(l[1], l[2])
      BY <1>3, <2>1
    <3> QED BY <2>3, <2>4, <3>1
  <2> QED BY <2>4, <2>5
<1>7. PICK D : D = DOMAIN rows
  OBVIOUS
<1>8. IsFiniteSet(D)
  <2>1. IsFiniteSet(Files) /\ IsFiniteSet(Chunks)
    BY FS_Interval, FilesAssumption DEF Files, Chunks
  <2>2. D \subseteq Files \X Chunks
    BY <1>2, <1>7, GateFact DEF RowsOfEntries
  <2> QED BY <2>1, <2>2, FS_Product, FS_Subset
<1>9. PICK of : of = [T \in SUBSET D |-> {p \in R : \E k \in T : p \in at[k]}]
  OBVIOUS
<1>10. PICK g : g = [T \in SUBSET D |-> Cardinality(of[T])]
  OBVIOUS
<1>11. g[{}] = 0
  <2>1. of[{}] = {}
    BY <1>9
  <2> QED BY <1>10, <2>1, FS_EmptySet
<1>12. \A T \in SUBSET D : \A x \in T : g[T] = rows[x] + g[T \ {x}]
  <2> SUFFICES ASSUME NEW T \in SUBSET D, NEW x \in T PROVE g[T] = rows[x] + g[T \ {x}]
    OBVIOUS
  <2>1. of[T] = at[x] \cup of[T \ {x}] /\ at[x] \cap of[T \ {x}] = {}
    BY <1>5, <1>6, <1>7, <1>9
  <2>2. IsFiniteSet(at[x]) /\ rows[x] = Cardinality(at[x])
    BY <1>5, <1>7
  <2>3. IsFiniteSet(of[T \ {x}])
    <3>1. of[T \ {x}] \in SUBSET R
      BY <1>9
    <3> QED BY <1>4, <3>1, FS_Subset
  <2>4. /\ Cardinality(at[x] \cup of[T \ {x}])
             = Cardinality(at[x]) + Cardinality(of[T \ {x}]) - Cardinality(at[x] \cap of[T \ {x}])
        /\ Cardinality(at[x]) \in Nat /\ Cardinality(of[T \ {x}]) \in Nat
    BY <2>2, <2>3, FS_Union, FS_CardinalityType
  <2>5. Cardinality(at[x] \cap of[T \ {x}]) = 0
    BY <2>1, FS_EmptySet
  <2>6. g[T] = Cardinality(of[T]) /\ g[T \ {x}] = Cardinality(of[T \ {x}])
    BY <1>10
  <2> QED BY <2>1, <2>2, <2>4, <2>5, <2>6
<1>13. SumOver(rows, D) = g[D]
  <2>1. GrowsBy(rows, g, D)
    BY <1>11, <1>12 DEF GrowsBy
  <2> QED BY <1>8, <2>1, SumFact
<1>14. g[D] = Cardinality(R)
  <2>1. of[D] = R
    BY <1>6, <1>7, <1>9
  <2> QED BY <1>10, <2>1
<1>15. RowsIn = SumOver(RowsOfEntries, DOMAIN RowsOfEntries)
  BY DEF RowsIn, SumOver
<1> QED BY <1>1, <1>2, <1>7, <1>13, <1>14, <1>15

\* When the rows balance, the records are those of the session's files, and
\* each row of these has one.
LEMMA BalancedFact ==
  ASSUME IInv, PartsInv, ~Unreadable, pc = "validate", Balances
  PROVE  /\ \A r \in Records : Spot(r) \in RowsOf(files) /\ r.cells = SourceRow(r.file, r.row)
         /\ \A r, s \in Records : Spot(r) = Spot(s) => r = s
         /\ \A p \in RowsOf(files) : \E r \in Records : Spot(r) = p
<1>1. PICK R, Q : R = Records /\ Q = RowsOf(files)
  OBVIOUS
<1>2. IsFiniteSet(R) /\ IsFiniteSet(Q) /\ Cardinality(R) = Cardinality(Q)
  BY <1>1, RecordsFinite, GateFact, RowsInFact DEF Balances, IInv, Types
<1>3. PICK spot : spot = [r \in R |-> Spot(r)]
  OBVIOUS
<1>4. PICK P : P = {spot[r] : r \in R}
  OBVIOUS
<1>5. \A r, s \in R : spot[r] = spot[s] => r = s
  <2> SUFFICES ASSUME NEW r \in R, NEW s \in R, Spot(r) = Spot(s) PROVE r = s
    BY <1>3
  <2>1. r.file = s.file /\ r.row = s.row
    BY DEF Spot
  <2>2. /\ r.file \in Files /\ sums[r.file] # "none" /\ r.chunk \in Chunks /\ s.chunk \in Chunks
        /\ r.row \in RowsAt(r.file, r.chunk) /\ s.row \in RowsAt(s.file, s.chunk)
        /\ r.row \in DOMAIN Source[r.file][sums[r.file]]
    BY <1>1, RecordFact DEF RowsAt
  <2>3. r.chunk = s.chunk
    BY <2>1, <2>2, RowChunk DEF IInv
  <2>4. r.cells = s.cells
    BY <1>1, <2>1, RecordFact
  <2>5. /\ r = [file |-> r.file, row |-> r.row, chunk |-> r.chunk, cells |-> r.cells,
                kind |-> IF r.row \in KeptAt(r.file, r.chunk) THEN "normalized" ELSE "excluded"]
        /\ s = [file |-> s.file, row |-> s.row, chunk |-> s.chunk, cells |-> s.cells,
                kind |-> IF s.row \in KeptAt(s.file, s.chunk) THEN "normalized" ELSE "excluded"]
    BY <1>1, RecordFact
  <2> QED BY <2>1, <2>3, <2>4, <2>5
<1>6. IsFiniteSet(P) /\ Cardinality(R) = Cardinality(P)
  <2>1. /\ spot \in [R -> P] /\ \A p \in P : \E r \in R : spot[r] = p
        /\ \A r \in R : r \in R <=> spot[r] \in P
    BY <1>3, <1>4
  <2> QED BY <1>2, <1>5, <2>1, SameCount
<1>7. Q \subseteq P
  <2> SUFFICES ASSUME NEW p \in Q PROVE \E r \in R : Spot(r) = p
    BY <1>3, <1>4
  <2>1. PICK f \in files, i \in 1 .. MaxRows : /\ p = <<f, i>> /\ f = p[1] /\ i = p[2]
                                               /\ i \in DOMAIN Source[f][sums[f]]
    BY <1>1 DEF RowsOf
  <2>2. f \in Files /\ sums[f] # "none" /\ Covered(f) /\ Types
    BY GateFact DEF IInv
  <2>3. PICK c \in Chunks : /\ c * size < Len(Source[f][sums[f]])
                            /\ i \in RowsAt(f, c)
    BY <2>1, <2>2, RowChunk
  <2>4. ckpt[f][c].made /\ ChunkTrue(f, c)
    BY <2>2, <2>3, GateFact DEF Covered
  <2>5. npart[f][c] # Garbled /\ xpart[f][c] # Garbled
    <3>1. <<TRUE, f, c>> \notin Rotten /\ <<FALSE, f, c>> \notin Rotten
      BY DEF Unreadable
    <3> QED BY <2>2, <3>1 DEF Rotten
  <2>6. npart[f][c] = NormalizedAt(f, c) /\ xpart[f][c] = ExcludedAt(f, c)
    BY <2>2, <2>4, <2>5 DEF ChunkTrue
  <2>7. i \in npart[f][c].rows \cup xpart[f][c].rows
    BY <2>3, <2>6 DEF NormalizedAt, ExcludedAt
  <2> QED BY <1>1, <2>1, <2>2, <2>7, RecordOfRow
<1>8. P = Q
  BY <1>2, <1>6, <1>7, FS_Subset
<1> QED BY <1>1, <1>3, <1>4, <1>5, <1>8, RecordFact

\* Who does not read or judge the parts says nothing of the reports.
LEMMA OtherRead ==
  ASSUME pc' \notin {"validate", "done"}
  PROVE  ReadInv'
<1> QED BY DEF ReadInv

\* Each step keeps ReadInv.
LEMMA NextRead ==
  ASSUME IInv, OneChunkSize, ReadInv, [Next]_vars
  PROVE  ReadInv'
<1>1. PartsInv
  BY DEF IInv
<1>2. CASE Finalize
  <2>1. /\ ~Unreadable /\ reports' = ReportsOf(Records) /\ UNCHANGED <<npart, xpart>>
        /\ pc' = "validate" \/ pc' = "failed"
    BY <1>2 DEF Finalize, Goto, Leave, ReportsOf
  <2>2. Records' = Records /\ Unreadable' = Unreadable
    BY <2>1 DEF Records, RecordsIn, Unreadable, Rotten
  <2>3. ReportsOf(Records)' = ReportsOf(Records)
    BY <2>2
  <2> QED BY <2>1, <2>2, <2>3 DEF ReadInv
<1>3. CASE Validate
  <2>1. /\ pc = "validate" /\ pc' = "done"
        /\ validation' = [passed |-> Balances, files |-> files]
        /\ UNCHANGED <<sums, npart, xpart, reports>>
    BY <1>3 DEF Validate, Goto
  <2>2. Records' = Records /\ RunRows' = RowsOf(files) /\ reports' = reports
    BY <2>1 DEF Records, RecordsIn, RunRows, RowsOf
  <2>3. \A p : Cells(p)' = SourceRow(p[1], p[2])
    BY <2>1 DEF Cells, SourceRow
  <2>4. ReportsOf(Records)' = ReportsOf(Records) /\ reports = ReportsOf(Records) /\ ~Unreadable
    BY <2>1, <2>2 DEF ReadInv
  <2>5. ASSUME validation'.passed PROVE RecordsAreRows'
    <3>1. Balances
      BY <2>1, <2>5
    <3>2. /\ \A r \in Records : Spot(r) \in RowsOf(files) /\ r.cells = SourceRow(r.file, r.row)
          /\ \A r, s \in Records : Spot(r) = Spot(s) => r = s
          /\ \A p \in RowsOf(files) : \E r \in Records : Spot(r) = p
      BY <1>1, <2>1, <2>4, <3>1, BalancedFact
    <3>3. \A r : Cells(Spot(r))' = SourceRow(r.file, r.row)
      BY <2>3 DEF Spot
    <3> QED BY <2>2, <3>2, <3>3 DEF RecordsAreRows
  <2> QED BY <2>1, <2>2, <2>4, <2>5 DEF ReadInv
<1>4. CASE UNCHANGED vars
  <2>1. UNCHANGED <<sums, npart, xpart, reports, validation, pc>>
    BY <1>4 DEF vars
  <2>2. /\ Records' = Records /\ Unreadable' = Unreadable /\ RunRows' = RunRows
        /\ \A p : Cells(p)' = Cells(p)
    BY <2>1 DEF Records, RecordsIn, Unreadable, Rotten, RunRows, Cells, SourceRow
  <2>3. ReportsOf(Records)' = ReportsOf(Records)
    BY <2>2
  <2>4. RecordsAreRows' <=> RecordsAreRows
    BY <2>2 DEF RecordsAreRows
  <2> QED BY <2>1, <2>2, <2>3, <2>4 DEF ReadInv
<1>5. CASE \/ \E fs \in (SUBSET Files) \ {{}}, s \in ChunkSizes : Start(fs, s)
           \/ Sources \/ Process \/ FinalizeFails \/ Exit \/ Disturbance
  <2>1. CASE Sources \/ \E fs \in (SUBSET Files) \ {{}}, s \in ChunkSizes : Start(fs, s)
    BY <2>1, OtherRead DEF Start, Sources, FetchSource, Fetch, RefuseDrift, Leave, SourcesVerified
  <2>2. CASE Process
    BY <2>2, OtherRead DEF Process, BeginFile, SkipChunk, NextChunk, WriteNormalized, Goto,
                           WriteExcluded, SaveChunk, EndFile, EndProcess
  <2>3. CASE FinalizeFails \/ Exit
    BY <2>3, OtherRead DEF FinalizeFails, Exit, Leave
  <2>4. CASE Disturbance
    BY <2>4, OtherRead DEF Disturbance, Crash, SourcesMissing, LoseCache, ReplaceSource, RotPart,
                           Leave, Goto
  <2> QED BY <1>5, <2>1, <2>2, <2>3, <2>4
<1> QED BY <1>2, <1>3, <1>4, <1>5 DEF Next, Step, Publish

\* The second layer of the invariant.
THEOREM InductiveRead ==
  ASSUME OneChunkSize
  PROVE  Spec => []ReadInv
<1>1. Init => ReadInv
  BY DEF Init, ReadInv
<1>2. IInv /\ ReadInv /\ [Next]_vars => ReadInv'
  BY NextRead
<1> QED BY <1>1, <1>2, Inductive, PTL DEF Spec

-----------------------------------------------------------------------------
(***************************************************************************)
(* What the reports say of the rows.                                       *)
(***************************************************************************)
\* Records and rows that correspond are as many, and finitely many.
LEMMA CountFact ==
  ASSUME RecordsAreRows, IsFiniteSet(Records), NEW A \in SUBSET Records,
         NEW B \in SUBSET RunRows, \A r \in Records : r \in A <=> Spot(r) \in B
  PROVE  IsFiniteSet(A) /\ IsFiniteSet(B) /\ Cardinality(A) = Cardinality(B)
<1>1. PICK R, P : R = Records /\ P = RunRows
  OBVIOUS
<1>2. PICK spot : spot = [r \in R |-> Spot(r)]
  OBVIOUS
<1>3. /\ spot \in [R -> P] /\ \A r, s \in R : spot[r] = spot[s] => r = s
      /\ \A p \in P : \E r \in R : spot[r] = p
      /\ \A r \in R : r \in A <=> spot[r] \in B
  BY <1>1, <1>2 DEF RecordsAreRows
<1>4. IsFiniteSet(A)
  BY FS_Subset
<1> QED BY <1>1, <1>3, <1>4, SameCount

\* The rows of a run that has passed.
LEMMA RunRowFact ==
  ASSUME IInv, PartsInv, validation.passed, NEW p \in RunRows
  PROVE  Cells(p) \in Row /\ p[1] \in Nat /\ p[2] \in Nat
<1>1. /\ p[1] \in validation.files /\ p[2] \in 1 .. MaxRows
      /\ p[2] \in DOMAIN Source[p[1]][sums[p[1]]]
  BY DEF RunRows
<1>2. p[1] \in Files /\ sums[p[1]] # "none"
  BY <1>1 DEF IInv, Types, ReportTypes, PartsInv, Covered
<1>3. sums[p[1]] \in Versions(p[1])
  BY <1>2 DEF IInv, Types, SourceTypes
<1>4. Cells(p) \in Row
  BY <1>1, <1>2, <1>3, VersionFact DEF Cells, SourceRow
<1> QED BY <1>1, <1>2, <1>4, FilesAssumption DEF Files

\* Of records there is a first one.
LEMMA FirstFact ==
  ASSUME NEW W, W # {}, \A r \in W : r.file \in Nat /\ r.row \in Nat
  PROVE  \E c \in W : \A s \in W : Before(c, s)
<1>1. PICK F : F = {r.file : r \in W}
  OBVIOUS
<1>2. PICK f \in F : \A g \in F : f <= g
  BY <1>1, LeastNatural
<1>3. PICK I : I = {r.row : r \in {s \in W : s.file = f}}
  OBVIOUS
<1>4. PICK i \in I : \A j \in I : i <= j
  <2>1. I \subseteq Nat /\ I # {}
    BY <1>1, <1>3
  <2> QED BY <2>1, LeastNatural
<1>5. PICK c \in W : c.file = f /\ c.row = i
  BY <1>3
<1>6. ASSUME NEW s \in W PROVE Before(c, s)
  <2>1. f <= s.file /\ f \in Nat /\ s.file \in Nat
    BY <1>1, <1>2
  <2>2. s.file = f => i <= s.row
    BY <1>3, <1>4
  <2> QED BY <1>5, <2>1, <2>2 DEF Before
<1> QED BY <1>5, <1>6

\* The duplicates: an id of several rows has one entry, which counts them,
\* begins with the first and is exact when they agree.
LEMMA DuplicatesFact ==
  ASSUME RecordsAreRows, IsFiniteSet(Records),
         \A q \in RunRows : q[1] \in Nat /\ q[2] \in Nat,
         NEW p \in RunRows, Record(Cells(p)).id # "none",
         NEW entries, entries = {d \in DuplicateReport(Records) : d.id = Cells(p).id}
  PROVE  IF SameId(p) = {p} THEN entries = {}
         ELSE /\ Cardinality(entries) = 1
              /\ \A d \in entries :
                   /\ d.count = Cardinality(SameId(p))
                   /\ \/ d.canonical[1] < p[1]
                      \/ d.canonical[1] = p[1] /\ d.canonical[2] <= p[2]
                   /\ d.type = "exact_duplicate"
                        <=> \A q \in SameId(p) : Record(Cells(q)) = Record(Cells(p))
<1>1. PICK id : id = Record(Cells(p)).id /\ id = Cells(p).id /\ id # "none"
  BY DEF Record
<1>2. PICK R, P, S : R = Records /\ P = RunRows /\ S = SameId(p)
  OBVIOUS
<1> DEFINE withId(i) == {r \in R : Record(r.cells).id = i}
           ids == {Record(r.cells).id : r \in R} \ {"none"}
           type(i) == IF Cardinality({Record(r.cells) : r \in withId(i)}) = 1
                      THEN "exact_duplicate" ELSE "conflicting_id"
           first(i) == CHOOSE r \in withId(i) : \A s \in withId(i) : Before(r, s)
           canonical(i) == <<first(i).file, first(i).row>>
           entry(i) == [id |-> i, type |-> type(i), count |-> Cardinality(withId(i)),
                        canonical |-> canonical(i)]
<1>3. DuplicateReport(R) = {entry(i) : i \in {j \in ids : Cardinality(withId(j)) > 1}}
  BY DEF DuplicateReport
<1>4. PICK W : W = withId(id)
  OBVIOUS
<1>5. W \subseteq R /\ \A r \in R : r \in W <=> Record(r.cells).id = id
  BY <1>4
<1>6. S \subseteq P /\ p \in S /\ \A q \in P : q \in S <=> Record(Cells(q)).id = id
  BY <1>1, <1>2 DEF SameId
<1>7. \A r \in R : Spot(r) \in P /\ r.cells = Cells(Spot(r)) /\ (r \in W <=> Spot(r) \in S)
  BY <1>2, <1>6, <1>5 DEF RecordsAreRows
<1>8. IsFiniteSet(W) /\ IsFiniteSet(S) /\ Cardinality(W) = Cardinality(S)
  BY <1>2, <1>6, <1>7, <1>5, CountFact
<1>9. PICK t \in W : Spot(t) = p
  BY <1>2, <1>6, <1>7 DEF RecordsAreRows
<1>10. entries = IF Cardinality(W) > 1 THEN {entry(id)} ELSE {}
  <2>1. id \in ids
    BY <1>1, <1>9, <1>5
  <2>2. \A i : entry(i).id = i
    OBVIOUS
  <2>3. entries = {d \in DuplicateReport(R) : d.id = id}
    BY <1>1, <1>2
  <2> HIDE DEF entry, withId, ids
  <2>4. entries = {entry(i) : i \in {j \in ids : Cardinality(withId(j)) > 1 /\ j = id}}
    BY <1>3, <2>2, <2>3
  <2>5. Cardinality(withId(id)) = Cardinality(W)
    BY <1>4
  <2> QED BY <2>1, <2>4, <2>5
<1>11. Cardinality(S) \in Nat /\ Cardinality(S) # 0 /\ (Cardinality(S) = 1 <=> S = {p})
  <2>1. Cardinality(S) = 1 <=> \E x : S = {x}
    BY <1>8, FS_Singleton
  <2>2. Cardinality(S) # 0
    BY <1>6, <1>8, FS_EmptySet
  <2>3. Cardinality(S) \in Nat
    BY <1>8, FS_CardinalityType
  <2>4. (\E x : S = {x}) <=> S = {p}
    <3>1. \A x : S = {x} => x = p
      BY <1>6
    <3> QED BY <3>1, Zenon
  <2> QED BY <2>1, <2>2, <2>3, <2>4
<1>12. CASE S = {p}
  BY <1>2, <1>8, <1>10, <1>11, <1>12
<1>13. CASE S # {p}
  <2>1. entries = {entry(id)}
    <3>1. Cardinality(W) > 1
      BY <1>8, <1>11, <1>13
    <3> HIDE DEF entry
    <3> QED BY <1>10, <3>1
  <2>2. Cardinality(entries) = 1
    BY <2>1, FS_Singleton
  <2>3. entry(id).count = Cardinality(S)
    BY <1>4, <1>8
  <2>4. PICK c : c = first(id) /\ c \in W /\ \A s \in W : Before(c, s)
    <3>1. \A r \in W : r.file \in Nat /\ r.row \in Nat
      BY <1>2, <1>7, <1>5 DEF Spot
    <3>2. \E c \in W : \A s \in W : Before(c, s)
      BY <1>9, <3>1, FirstFact
    <3>3. first(id) = CHOOSE r \in W : \A s \in W : Before(r, s)
      BY <1>4
    <3> HIDE DEF first, withId
    <3> QED BY <3>2, <3>3
  <2>5. LET d == entry(id) IN \/ d.canonical[1] < p[1]
                              \/ d.canonical[1] = p[1] /\ d.canonical[2] <= p[2]
    <3>1. entry(id).canonical = <<c.file, c.row>>
      BY <2>4
    <3>2. Before(c, t) /\ t.file = p[1] /\ t.row = p[2]
      BY <1>9, <2>4 DEF Spot
    <3> HIDE DEF entry
    <3> QED BY <3>1, <3>2 DEF Before
  <2>6. entry(id).type = "exact_duplicate" <=> \A q \in S : Record(Cells(q)) = Record(Cells(p))
    <3>1. PICK V : V = {Record(r.cells) : r \in W}
      OBVIOUS
    <3>2. entry(id).type = "exact_duplicate" <=> Cardinality(V) = 1
      BY <1>4, <3>1
    <3>3. IsFiniteSet(V)
      <4>1. PICK f : f = [r \in W |-> Record(r.cells)]
        OBVIOUS
      <4>2. V = {f[r] : r \in DOMAIN f} /\ DOMAIN f = W
        BY <3>1, <4>1
      <4> QED BY <1>8, <4>2, FiniteValues
    <3>4. Cardinality(V) = 1 <=> \E x : V = {x}
      BY <3>3, FS_Singleton
    <3>5. Record(Cells(p)) \in V
      BY <1>7, <1>9, <1>5, <3>1
    <3>6. \A q \in S : Record(Cells(q)) \in V
      <4>1. \A q \in S : \E r \in W : Spot(r) = q
        BY <1>2, <1>6, <1>7 DEF RecordsAreRows
      <4> QED BY <1>7, <1>5, <3>1, <4>1
    <3>7. \A x \in V : \E q \in S : x = Record(Cells(q))
      BY <1>7, <1>5, <3>1
    <3>8. (\E x : V = {x}) <=> \A q \in S : Record(Cells(q)) = Record(Cells(p))
      BY <3>5, <3>6, <3>7
    <3> QED BY <3>2, <3>4, <3>8
  <2> QED BY <1>2, <1>13, <2>1, <2>2, <2>3, <2>5, <2>6
<1> QED BY <1>12, <1>13

\* The accounts: an account of a row has its entry, and is unmatched when it
\* has no node index or no row with a time.
LEMMA AccountsFact ==
  ASSUME RecordsAreRows, IsFiniteSet(Records), \A q \in RunRows : Cells(q) \in Row,
         NEW a \in {Record(Cells(p)).user : p \in RunRows} \ {"none"}
  PROVE  /\ a \in UnmatchedReport(Records)
              <=> a \notin Universe \/ \A p \in RowsOfUser(a) : Cells(p).time = NoTime
         /\ \E r \in AccountReport(Records) :
              /\ r.account = a /\ r.count = Cardinality(RowsOfUser(a))
              /\ r.retained = Cardinality({p \in RowsOfUser(a) : Retainable(Cells(p))})
<1>1. PICK R, P, S : R = Records /\ P = RunRows /\ S = RowsOfUser(a)
  OBVIOUS
<1> DEFINE by(u) == {r \in R : Record(r.cells).user = u}
           kept(u) == {r \in by(u) : Status(r.cells) = "retained"}
           matched(u) == \E r \in by(u) : HasNode(r.cells)
           entry(u) == [account |-> u, count |-> Cardinality(by(u)), matched |-> matched(u),
                        retained |-> Cardinality(kept(u))]
           users == {Record(r.cells).user : r \in R} \ {"none"}
<1>2. AccountReport(R) = {entry(u) : u \in users}
  BY DEF AccountReport
<1>3. PICK A, K : A = by(a) /\ K = kept(a)
  OBVIOUS
<1>4. PICK B : B = {p \in S : Retainable(Cells(p))}
  OBVIOUS
<1>5. S \subseteq P /\ \A q \in P : q \in S <=> Record(Cells(q)).user = a
  BY <1>1 DEF RowsOfUser
<1>6. \A r \in R : Spot(r) \in P /\ r.cells = Cells(Spot(r)) /\ r.cells \in Row
  BY <1>1 DEF RecordsAreRows
<1>7. A \subseteq R /\ \A r \in R : r \in A <=> Spot(r) \in S
  BY <1>3, <1>5, <1>6
<1>8. K \subseteq R /\ \A r \in R : r \in K <=> Spot(r) \in B
  BY <1>3, <1>4, <1>6, <1>7, RetainedFact
<1>9. Cardinality(A) = Cardinality(S)
  BY <1>1, <1>5, <1>7, CountFact
<1>10. Cardinality(K) = Cardinality(B)
  <2>1. B \subseteq P
    BY <1>4, <1>5
  <2> QED BY <1>1, <1>8, <2>1, CountFact
<1>11. a \in users
  <2>1. PICK p \in P : Record(Cells(p)).user = a
    BY <1>1
  <2>2. PICK r \in R : Spot(r) = p
    BY <1>1 DEF RecordsAreRows
  <2> QED BY <1>6, <2>1, <2>2
<1>12. \E r \in AccountReport(R) :
         /\ r.account = a /\ r.count = Cardinality(S) /\ r.retained = Cardinality(B)
  <2>1. entry(a).account = a /\ entry(a).count = Cardinality(S) /\ entry(a).retained = Cardinality(B)
    BY <1>3, <1>9, <1>10
  <2> HIDE DEF entry, users
  <2> QED BY <1>2, <1>11, <2>1
<1>13. a \in UnmatchedReport(R) <=> ~matched(a)
  <2>1. \A u : entry(u).account = u /\ entry(u).matched = matched(u)
    OBVIOUS
  <2>2. UnmatchedReport(R) = {r.account : r \in {s \in AccountReport(R) : ~s.matched}}
    BY DEF UnmatchedReport
  <2> HIDE DEF entry, users, matched
  <2>3. entry(a).account = a /\ (entry(a).matched <=> matched(a))
    BY <2>1
  <2>4. \A r \in AccountReport(R) : r.account = a => r = entry(a)
    BY <1>2, <2>1
  <2>5. entry(a) \in AccountReport(R)
    BY <1>2, <1>11
  <2> QED BY <2>2, <2>3, <2>4, <2>5
<1>14. ~matched(a) <=> a \notin Universe \/ \A p \in S : Cells(p).time = NoTime
  <2>1. ASSUME NEW row \in Row, Record(row).user = a
        PROVE  HasNode(row) <=> a \in Universe /\ row.time # NoTime
    <3>1. row.id # "invalid" /\ row.user # "invalid" /\ row.user = a
      BY <2>1 DEF Record
    <3>2. Status(row) = "rejected" <=> row.time = NoTime
      BY <3>1 DEF Status
    <3> QED BY <3>1, <3>2 DEF HasNode
  <2>2. \A r \in A : HasNode(r.cells) <=> a \in Universe /\ r.cells.time # NoTime
    BY <1>3, <1>6, <2>1
  <2>3. matched(a) <=> \E r \in A : HasNode(r.cells)
    BY <1>3
  <2>4. (\E r \in A : r.cells.time # NoTime) <=> \E p \in S : Cells(p).time # NoTime
    <3>1. \A r \in A : Spot(r) \in S /\ r.cells = Cells(Spot(r))
      BY <1>6, <1>7
    <3>2. \A p \in S : \E r \in A : Spot(r) = p
      BY <1>1, <1>5, <1>7 DEF RecordsAreRows
    <3> QED BY <3>1, <3>2
  <2>5. A # {}
    BY <1>3, <1>11
  <2> HIDE DEF matched
  <2> QED BY <2>2, <2>3, <2>4
<1> QED BY <1>1, <1>4, <1>12, <1>13, <1>14

\* The snapshots: one is listed with the number of its rows when it has any.
LEMMA SnapshotsFact ==
  ASSUME RecordsAreRows, IsFiniteSet(Records), \A q \in RunRows : Cells(q) \in Row,
         NEW s \in 0 .. (SnapshotCount - 1),
         NEW S, S = {p \in RunRows : Retainable(Cells(p)) /\ InSnapshot(Cells(p).time, s)}
  PROVE  Cardinality(S) > 0 <=> <<s, Cardinality(S)>> \in SnapshotReport(Records)
<1>1. PICK R, P : R = Records /\ P = RunRows
  OBVIOUS
<1> DEFINE kept == {r \in R : Status(r.cells) = "retained"}
           at(t) == {r \in kept : AssignSnapshot(r.cells.time) = t}
<1>2. SnapshotReport(R)
        = {<<t, Cardinality(at(t))>> : t \in {AssignSnapshot(r.cells.time) : r \in kept}}
  BY DEF SnapshotReport
<1>3. PICK A : A = at(s)
  OBVIOUS
<1>4. A \subseteq R /\ \A r \in R : r \in A <=> Spot(r) \in S
  <2> SUFFICES ASSUME NEW r \in R PROVE r \in A <=> Spot(r) \in S
    BY <1>3
  <2>1. Spot(r) \in P /\ r.cells = Cells(Spot(r)) /\ r.cells \in Row
    BY <1>1 DEF RecordsAreRows
  <2>2. Status(r.cells) = "retained" <=> Retainable(Cells(Spot(r)))
    BY <2>1, RetainedFact
  <2>3. AssignSnapshot(r.cells.time) = s <=> InSnapshot(Cells(Spot(r)).time, s)
    <3>1. r.cells.time \in Int
      BY <2>1 DEF Row
    <3> QED BY <2>1, <3>1, CalendarFact
  <2> QED BY <1>1, <1>3, <2>1, <2>2, <2>3
<1>5. IsFiniteSet(A) /\ Cardinality(A) = Cardinality(S)
  BY <1>1, <1>4, CountFact
<1>6. Cardinality(A) \in Nat /\ (Cardinality(A) = 0 <=> A = {})
  BY <1>5, FS_CardinalityType, FS_EmptySet
<1>7. <<s, Cardinality(A)>> \in SnapshotReport(R) <=> A # {}
  <2>1. A # {} <=> s \in {AssignSnapshot(r.cells.time) : r \in kept}
    BY <1>3
  <2> HIDE DEF at, kept
  <2> QED BY <1>2, <1>3, <2>1
<1> QED BY <1>1, <1>5, <1>6, <1>7

\* When chunk_size stays what it was, the reports of a run whose gates have
\* passed are about the rows of its input files, each once, and about nothing
\* else on disk: duplicates, accounts, unmatched accounts and snapshots.
THEOREM ReportsAreExact ==
  ASSUME OneChunkSize
  PROVE  Spec => []ReportsExact
<1>1. ASSUME IInv, ReadInv PROVE ReportsExact
  <2> SUFFICES ASSUME pc = "done", validation.passed PROVE ReportsExact
    BY DEF ReportsExact
  <2>1. /\ reports = ReportsOf(Records) /\ RecordsAreRows /\ PartsInv
        /\ IsFiniteSet(Records)
    BY <1>1, RecordsFinite DEF ReadInv, IInv, Types
  <2>2. \A q \in RunRows : Cells(q) \in Row /\ q[1] \in Nat /\ q[2] \in Nat
    BY <1>1, <2>1, RunRowFact
  <2>3. /\ reports.duplicates = DuplicateReport(Records)
        /\ reports.accounts = AccountReport(Records)
        /\ reports.unmatched = UnmatchedReport(Records)
        /\ reports.snapshots = SnapshotReport(Records)
    BY <2>1 DEF ReportsOf
  <2>4. ASSUME NEW p \in {q \in RunRows : Record(Cells(q)).id # "none"},
               NEW entries, entries = {d \in reports.duplicates : d.id = Cells(p).id}
        PROVE  IF SameId(p) = {p} THEN entries = {}
               ELSE /\ Cardinality(entries) = 1
                    /\ \A d \in entries :
                         /\ d.count = Cardinality(SameId(p))
                         /\ \/ d.canonical[1] < p[1]
                            \/ d.canonical[1] = p[1] /\ d.canonical[2] <= p[2]
                         /\ d.type = "exact_duplicate"
                              <=> \A q \in SameId(p) : Record(Cells(q)) = Record(Cells(p))
    BY <2>1, <2>2, <2>3, <2>4, DuplicatesFact
  <2>5. ASSUME NEW a \in {Record(Cells(p)).user : p \in RunRows} \ {"none"}
        PROVE  /\ a \in reports.unmatched
                    <=> a \notin Universe \/ \A p \in RowsOfUser(a) : Cells(p).time = NoTime
               /\ \E r \in reports.accounts :
                    /\ r.account = a /\ r.count = Cardinality(RowsOfUser(a))
                    /\ r.retained = Cardinality({p \in RowsOfUser(a) : Retainable(Cells(p))})
    BY <2>1, <2>2, <2>3, AccountsFact
  <2>6. ASSUME NEW s \in 0 .. (SnapshotCount - 1), NEW S,
               S = {p \in RunRows : Retainable(Cells(p)) /\ InSnapshot(Cells(p).time, s)}
        PROVE  Cardinality(S) > 0 <=> <<s, Cardinality(S)>> \in reports.snapshots
    BY <2>1, <2>2, <2>3, <2>6, SnapshotsFact
  <2> QED BY <2>4, <2>5, <2>6, Zenon DEF ReportsExact
<1> QED BY <1>1, Inductive, InductiveRead, PTL
=============================================================================
