------------------------- MODULE GraphIngestProofs -------------------------
(***************************************************************************)
(* Proofs about GraphIngest: for every number of workbooks, versions,      *)
(* rows, accounts and snapshots, every chunk size and every sequence of    *)
(* sessions, kills and replacements, the shapes hold, the tables hold rows *)
(* of the recorded contents only, a published graph is the aggregate of    *)
(* the events, and a session that passes its gates has written the tables, *)
(* and features that follow from them, to its files.                       *)
(***************************************************************************)
EXTENDS GraphIngest, DataInduction

USE FilesAssumption, BoundAssumption

(***************************************************************************)
(* The inductive invariant.                                                *)
(***************************************************************************)
\* The stages of a session.
Verified == {"tweets", "events", "mark", "export", "edges", "parts", "x", "mask",
             "graph", "vertices", "label", "validate"}
Aggregated == {"parts", "x", "mask", "graph", "vertices", "label", "validate"}

\* TypeOK in the parts that steps disturb separately, with what EXCEPT needs.
SourceTypes == version \in SumsOf /\ (\A f \in Files : version[f] # "none") /\ cache \in SumsOf

DbTypes ==
  /\ db = [sums |-> db.sums, chunks |-> db.chunks, events |-> db.events,
           tweets |-> db.tweets, edges |-> db.edges, status |-> db.status]
  /\ db.sums \in SumsOf /\ db.chunks \subseteq Files \X Chunks
  /\ \A e \in db.events : e \in EventOf
  /\ \A t \in db.tweets : t \in [file : Files, row : 1 .. MaxRows, author : Universe,
                                 snapshot : Snapshots]
  /\ IsFiniteSet(db.events)
  /\ \A r \in EdgeRecords(db.edges) : r \in EdgeRecord
  /\ db.status \in {"none", "UNVALIDATED", "PUBLISHED"}

GraphTypes ==
  /\ graph = [vertices |-> graph.vertices, edges |-> graph.edges]
  /\ graph.vertices \subseteq Universe
  /\ \A r \in DOMAIN graph.edges : r \in EdgeRecord /\ graph.edges[r] \in Nat \ {0}

OutTypes ==
  /\ out = [events |-> out.events, parts |-> out.parts, x |-> out.x, mask |-> out.mask]
  /\ OutputsOK(out)

RecordTypes == /\ manifest \in SumsOf \cup {Absent}
               /\ report = Absent \/ report.passed \in BOOLEAN

SessionTypes ==
  /\ pc \in Between \cup Verified \cup {"setup", "verify"}
  /\ files \subseteq Files /\ sync \in BOOLEAN /\ chunk \in 0 .. MaxRows /\ mem \in SumsOf

Types == /\ SourceTypes /\ DbTypes /\ GraphTypes /\ OutTypes
         /\ RecordTypes /\ SessionTypes

\* What is still to be done belongs to the stage.
WorkInv ==
  /\ pc \in {"verify", "tweets", "events", "mark"} => todo \subseteq files
  /\ pc = "parts" => todo \subseteq Parts
  /\ pc = "label" => todo \subseteq Relations
  /\ pc \notin {"verify", "tweets", "events", "mark", "parts", "label"} => todo = {}
  /\ pc \in {"events", "mark"} => ReadChunk

\* The manifest, if any, has a checksum of the workbook.
OnRecord(f) == manifest # Absent /\ manifest[f] # "none"

\* Once recorded a checksum stays, in the manifest, in memory and in the table.
SumsInv ==
  /\ \A f \in Files : OnRecord(f) => db.sums[f] = manifest[f]
  /\ pc \notin Between => \A f \in Files :
       /\ OnRecord(f) => mem[f] = manifest[f]
       /\ mem[f] # "none" /\ pc # "setup" => db.sums[f] = mem[f]
  /\ pc = "setup" => mem = IF manifest = Absent THEN NoSums ELSE manifest

\* The copies a session reads are the ones it has verified and recorded.
CopiesInv ==
  /\ pc = "verify" => \A f \in files \ todo : mem[f] # "none" /\ cache[f] = mem[f]
  /\ pc \in Verified => /\ manifest = mem
                        /\ \A f \in files : mem[f] # "none" /\ cache[f] = mem[f]

\* Tweets, events and marked chunks are those of the recorded contents.
TweetsInv ==
  \A t \in db.tweets :
    /\ OnRecord(t.file) /\ t.row \in DOMAIN Ingested(t.file)
    /\ Authored(Ingested(t.file)[t.row])
    /\ t.author = Ingested(t.file)[t.row].author

EventsInv ==
  \A e \in db.events :
    /\ OnRecord(e.file) /\ e.row \in DOMAIN Ingested(e.file)
    /\ e.sig \in Signatures(Ingested(e.file)[e.row])
    /\ \E t \in db.tweets : t.file = e.file /\ t.row = e.row

HasTweets(f, c) ==
  \A i \in DOMAIN Ingested(f) :
    (i - 1) \div ChunkSize = c /\ Authored(Ingested(f)[i]) =>
      \E t \in db.tweets : t.file = f /\ t.row = i

HasEvents(f, c) ==
  \A i \in DOMAIN Ingested(f) :
    (i - 1) \div ChunkSize = c /\ Authored(Ingested(f)[i]) =>
      \A s \in Signatures(Ingested(f)[i]) : \E e \in db.events : e.sig = s

ChunksInv ==
  /\ \A fc \in db.chunks : /\ OnRecord(fc[1])
                           /\ HasTweets(fc[1], fc[2]) /\ HasEvents(fc[1], fc[2])
  /\ pc \in {"events", "mark"} => HasTweets(Min(todo), chunk)
  /\ pc = "mark" => HasEvents(Min(todo), chunk)

\* The edges table follows the events, and the graph the edges table.
InGraph(rs) == SetToBag({r \in EdgeRecords(db.edges) : r.key.relation \in rs})

GraphInv ==
  /\ pc \in Aggregated => db.edges = CountBy(db.events)
  /\ pc = "vertices" => graph = NoGraph
  /\ pc = "label" => /\ graph.vertices = Universe
                     /\ graph.edges = InGraph({k.relation : k \in DOMAIN db.edges} \ todo)
  /\ db.status = "PUBLISHED" =>
       pc \in Between \cup {"validate"} /\ PublishedGraph

IInv == /\ Types
        /\ WorkInv /\ SumsInv /\ CopiesInv
        /\ TweetsInv /\ EventsInv /\ ChunksInv /\ GraphInv

-----------------------------------------------------------------------------
\* The least element of a set of naturals.
LEMMA MinFact ==
  ASSUME NEW S \in SUBSET Nat, S # {}
  PROVE  Min(S) \in S /\ \A n \in S : Min(S) <= n
<1> QED BY LeastNatural DEF Min

\* A row that is kept has a time in the calendar.
LEMMA AuthoredFact ==
  ASSUME NEW row \in Row, Authored(row)
  PROVE  row.at \in Nat /\ Snapshot(row.at) \in Snapshots /\ row.author \in Universe
<1> QED BY DEF Authored, Snapshot, Snapshots, Row

\* A signature names accounts of the universe, a relation and the time of its
\* row, which has an author and a snapshot.
LEMMA SignatureFact ==
  ASSUME NEW row \in Row, NEW s \in Signatures(row)
  PROVE  /\ Authored(row) /\ s.at = row.at /\ s.author = row.author
         /\ s \in SignatureOf /\ s.target # s.author
<1>1. Authored(row)
  BY DEF Signatures
<1>2. PICK t \in Targets(row) : s = Signature(row, t)
  BY <1>1 DEF Signatures
<1>3. t[1] \in Relations /\ t[2] \in Universe /\ t[2] # row.author
  BY DEF Targets, Relations
<1>4. row.at \in Nat /\ row.author \in Universe /\ row.text \in STRING
  BY <1>1, AuthoredFact DEF Row
<1> DEFINE text == IF row.text = "invalid" THEN "" ELSE row.text
<1>5. s = [author |-> row.author, at |-> row.at, text |-> text,
           relation |-> t[1], target |-> t[2]]
  BY <1>2 DEF Signature
<1>6. text \in {""} \cup STRING
  BY <1>4
<1> HIDE DEF text
<1>7. s.author = row.author /\ s.at = row.at /\ s.target = t[2]
  BY <1>5
<1>8. s \in SignatureOf
  BY <1>3, <1>4, <1>5, <1>6 DEF SignatureOf
<1> QED BY <1>1, <1>3, <1>7, <1>8

\* The signatures of a row are finitely many.
LEMMA SignaturesFinite ==
  ASSUME NEW row \in Row
  PROVE  IsFiniteSet(Signatures(row))
<1>1. IsFiniteSet(Relations \X Universe)
  <2>1. IsFiniteSet(Relations)
    BY FS_Interval, 0 \in Int, 3 \in Int DEF Relations
  <2> QED BY <2>1, FS_Product, UniverseAssumption
<1>2. Targets(row) \subseteq Relations \X Universe
  BY DEF Targets, Relations, Row
<1>3. IsFiniteSet(Targets(row))
  BY <1>1, <1>2, FS_Subset
<1> DEFINE g == [t \in Targets(row) |-> Signature(row, t)]
<1>4. IsFiniteSet({g[t] : t \in DOMAIN g})
  BY <1>3, FiniteValues
<1>5. {g[t] : t \in DOMAIN g} = {Signature(row, t) : t \in Targets(row)}
  OBVIOUS
<1> QED BY <1>4, <1>5, FS_EmptySet DEF Signatures

\* The contents of a version: its rows are rows, and no more than MaxRows.
LEMMA VersionFact ==
  ASSUME NEW f \in Files, NEW v \in Versions(f)
  PROVE  /\ v # "none"
         /\ Len(Source[f][v]) \in 0 .. MaxRows
         /\ DOMAIN Source[f][v] = 1 .. Len(Source[f][v])
         /\ \A i \in DOMAIN Source[f][v] : Source[f][v][i] \in Row
<1>1. Source[f][v] \in Seq(Row) /\ Len(Source[f][v]) <= MaxRows /\ v # "none"
  BY SourceAssumption
<1>2. Len(Source[f][v]) \in Nat
  BY <1>1
<1> QED BY <1>1, <1>2

\* A row belongs to one of the chunks, and the chunks are as many as the rows
\* at most.
LEMMA ChunkFact ==
  ASSUME NEW n \in Nat
  PROVE  /\ (n + ChunkSize - 1) \div ChunkSize \in 0 .. n
         /\ \A i \in 1 .. n : (i - 1) \div ChunkSize \in 0 .. ((n + ChunkSize - 1) \div ChunkSize - 1)
<1> QED BY Z3T(60)

\* Checksums of the workbooks: none to begin with, and one replaced at a time.
LEMMA SumsFact ==
  /\ NoSums \in SumsOf /\ \A f \in Files : NoSums[f] = "none"
  /\ Absent \notin SumsOf
  /\ \A m \in SumsOf : /\ DOMAIN m = Files
                       /\ \A f \in Files : m[f] \in Versions(f) \cup {"none"}
  /\ \A m \in SumsOf : \A f \in Files : \A v \in Versions(f) \cup {"none"} :
       /\ [m EXCEPT ![f] = v] \in SumsOf
       /\ \A g \in Files : [m EXCEPT ![f] = v][g] = IF g = f THEN v ELSE m[g]
<1> DEFINE V == {"none"} \cup UNION {Versions(f) : f \in Files}
<1>1. \A m : m \in SumsOf <=> m \in [Files -> V] /\ \A f \in Files : m[f] \in Versions(f) \cup {"none"}
  BY DEF SumsOf
<1>2. \A f \in Files : Versions(f) \cup {"none"} \subseteq V
  OBVIOUS
<1>3. Absent \notin [Files -> V]
  BY AbsentAssumption
<1> HIDE DEF V
<1>4. NoSums \in SumsOf /\ \A f \in Files : NoSums[f] = "none"
  BY <1>1, <1>2 DEF NoSums
<1>5. \A m \in SumsOf : /\ DOMAIN m = Files
                        /\ \A f \in Files : m[f] \in Versions(f) \cup {"none"}
  BY <1>1
<1>6. ASSUME NEW m \in SumsOf, NEW f \in Files, NEW v \in Versions(f) \cup {"none"}
      PROVE  /\ [m EXCEPT ![f] = v] \in SumsOf
             /\ \A g \in Files : [m EXCEPT ![f] = v][g] = IF g = f THEN v ELSE m[g]
  BY <1>1, <1>2
<1> QED BY <1>1, <1>3, <1>4, <1>5, <1>6

\* The events of a chunk: one for each signature of its rows, of a row of the
\* chunk that has the signature.
LEMMA ChunkEventsFact ==
  ASSUME NEW f \in Files, cache[f] \in Versions(f), NEW c
  PROVE  /\ IsFiniteSet(ChunkEvents(f, c))
         /\ \A e \in ChunkEvents(f, c) :
              /\ e \in EventOf /\ e.file = f /\ e.row \in ChunkRows(f, c)
              /\ e.sig \in Signatures(Rows(f)[e.row])
         /\ \A i \in ChunkRows(f, c) : \A s \in Signatures(Rows(f)[i]) :
              \E e \in ChunkEvents(f, c) : e.sig = s
<1> DEFINE S == UNION {Signatures(Rows(f)[i]) : i \in ChunkRows(f, c)}
           With(s) == {i \in ChunkRows(f, c) : s \in Signatures(Rows(f)[i])}
           event == [s \in S |-> [sig |-> s, file |-> f, row |-> Min(With(s))]]
<1>1. /\ Len(Rows(f)) \in 0 .. MaxRows /\ DOMAIN Rows(f) = 1 .. Len(Rows(f))
      /\ \A i \in DOMAIN Rows(f) : Rows(f)[i] \in Row
  BY VersionFact DEF Rows
<1>2. /\ ChunkRows(f, c) \subseteq 1 .. Len(Rows(f))
      /\ ChunkRows(f, c) \subseteq Nat \ {0}
      /\ ChunkRows(f, c) \subseteq 1 .. MaxRows
      /\ \A i \in ChunkRows(f, c) : Rows(f)[i] \in Row
  BY <1>1 DEF ChunkRows
<1>3. ChunkEvents(f, c) = {event[s] : s \in DOMAIN event}
  BY DEF ChunkEvents
<1>4. IsFiniteSet(S)
  <2> DEFINE sigs == [i \in ChunkRows(f, c) |-> Signatures(Rows(f)[i])]
  <2>1. IsFiniteSet(1 .. Len(Rows(f)))
    BY <1>1, FS_Interval
  <2>2. IsFiniteSet(ChunkRows(f, c))
    BY <1>2, <2>1, FS_Subset
  <2>3. IsFiniteSet({sigs[i] : i \in DOMAIN sigs})
    BY <2>2, FiniteValues
  <2>4. \A T \in {sigs[i] : i \in DOMAIN sigs} : IsFiniteSet(T)
    BY <1>2, SignaturesFinite
  <2>5. S = UNION {sigs[i] : i \in DOMAIN sigs}
    OBVIOUS
  <2> HIDE DEF sigs
  <2> QED BY <2>3, <2>4, <2>5, FS_UNION
<1>5. IsFiniteSet(ChunkEvents(f, c))
  <2>1. DOMAIN event = S
    OBVIOUS
  <2> HIDE DEF event, S
  <2> QED BY <1>3, <1>4, <2>1, FiniteValues
<1>6. ASSUME NEW s \in S
      PROVE  /\ event[s].sig = s /\ event[s].file = f /\ event[s].row \in With(s)
             /\ event[s] = [sig |-> s, file |-> f, row |-> event[s].row]
  <2>1. With(s) \in SUBSET Nat /\ With(s) # {}
    BY <1>2
  <2>2. Min(With(s)) \in With(s)
    <3> HIDE DEF With
    <3> QED BY <2>1, MinFact
  <2> HIDE DEF With, S
  <2> QED BY <2>2
<1>7. ASSUME NEW s \in S
      PROVE  event[s] \in EventOf
  <2>1. /\ event[s].row \in ChunkRows(f, c)
        /\ s \in Signatures(Rows(f)[event[s].row])
    BY <1>6
  <2>2. s \in SignatureOf
    BY <1>2, <2>1, SignatureFact
  <2>3. event[s] = [sig |-> s, file |-> f, row |-> event[s].row]
    BY <1>6
  <2>4. event[s].row \in 1 .. MaxRows
    BY <1>2, <2>1
  <2> HIDE DEF event, S
  <2> QED BY <2>2, <2>3, <2>4 DEF EventOf
<1>8. ASSUME NEW e \in ChunkEvents(f, c)
      PROVE  /\ e \in EventOf /\ e.file = f /\ e.row \in ChunkRows(f, c)
             /\ e.sig \in Signatures(Rows(f)[e.row])
  <2>1. PICK s \in S : e = event[s]
    BY <1>3
  <2> HIDE DEF event, S
  <2> QED BY <1>6, <1>7, <2>1
<1>9. ASSUME NEW i \in ChunkRows(f, c), NEW s \in Signatures(Rows(f)[i])
      PROVE  \E e \in ChunkEvents(f, c) : e.sig = s
  <2>1. s \in S /\ s \in DOMAIN event
    OBVIOUS
  <2>2. event[s] \in ChunkEvents(f, c)
    BY <1>3, <2>1
  <2> QED BY <1>6, <2>1, <2>2
<1> QED BY <1>5, <1>8, <1>9

\* Edges aggregated from events of the calendar: typed keys, positive counts.
LEMMA CountByFact ==
  ASSUME NEW events, IsFiniteSet(events),
         \A e \in events : e \in EventOf /\ Snapshot(e.sig.at) \in Snapshots
  PROVE  /\ \A k \in DOMAIN CountBy(events) : k \in KeyOf
         /\ \A r \in EdgeRecords(CountBy(events)) : r \in EdgeRecord
<1>1. DOMAIN CountBy(events) = {EdgeKey(e) : e \in events}
  BY DEF CountBy
<1>2. ASSUME NEW e \in events PROVE EdgeKey(e) \in KeyOf
  BY DEF EdgeKey, KeyOf, EventOf, SignatureOf
<1>3. ASSUME NEW k \in DOMAIN CountBy(events) PROVE CountBy(events)[k] \in Nat \ {0}
  <2> DEFINE with == {e \in events : EdgeKey(e) = k}
  <2>1. CountBy(events)[k] = Cardinality(with) /\ with # {} /\ with \in SUBSET events
    BY <1>1 DEF CountBy
  <2> HIDE DEF with
  <2>2. IsFiniteSet(with)
    BY <2>1, FS_Subset
  <2> QED BY <2>1, <2>2, FS_CardinalityType, FS_EmptySet
<1> DEFINE edges == CountBy(events)
<1>4. \A k \in DOMAIN edges : k \in KeyOf /\ edges[k] \in Nat \ {0}
  BY <1>1, <1>2, <1>3
<1> HIDE DEF edges
<1>5. \A r \in EdgeRecords(edges) : r \in EdgeRecord
  BY <1>4 DEF EdgeRecords, EdgeRecord
<1> QED BY <1>4, <1>5 DEF edges

\* An edge belongs to one part of the output.
LEMMA PartFact ==
  ASSUME NEW k \in KeyOf
  PROVE  PartOf(k) \in Parts /\ PartOf(k) = 4 * k.snapshot + k.relation
<1> QED BY DEF KeyOf, PartOf, Parts, Snapshots, Relations

\* The records of an aggregate are those of the published graph.
LEMMA AggregateFact ==
  ASSUME NEW events
  PROVE  EdgeRecords(CountBy(events)) =
           {[key |-> EdgeKey(e),
             count |-> Cardinality({d \in events : EdgeKey(d) = EdgeKey(e)})] : e \in events}
<1> DEFINE edges == CountBy(events)
           Count(k) == Cardinality({d \in events : EdgeKey(d) = k})
<1>1. DOMAIN edges = {EdgeKey(e) : e \in events}
  BY DEF CountBy
<1>2. \A e \in events : edges[EdgeKey(e)] = Count(EdgeKey(e))
  BY DEF CountBy
<1> HIDE DEF edges, Count
<1>3. EdgeRecords(edges) = {[key |-> EdgeKey(e), count |-> Count(EdgeKey(e))] : e \in events}
  BY <1>1, <1>2 DEF EdgeRecords
<1> QED BY <1>3 DEF edges, Count

\* Adding the edges of one more label to the bag of those of other labels.
LEMMA AddLabel ==
  ASSUME NEW S, NEW T, S \cap T = {}
  PROVE  SetToBag(S) (+) SetToBag(T) = SetToBag(S \cup T)
<1> QED BY DEF SetToBag, (+)

-----------------------------------------------------------------------------
(***************************************************************************)
(* What the invariant says of tables that a step leaves alone.             *)
(***************************************************************************)
\* Empty stores, and no session.
LEMMA InitInv == Init => IInv
<1> SUFFICES ASSUME Init PROVE IInv
  OBVIOUS
<1>1. CountBy({}) = [k \in {} |-> 0] /\ EdgeRecords(NoEdges) = {}
  BY DEF CountBy, NoEdges, EdgeRecords
<1>2. SourceTypes
  <2>1. \A f \in Files : version[f] \in Versions(f) /\ version[f] # "none"
    BY VersionFact DEF Init
  <2>2. version \in SumsOf
    BY <2>1 DEF Init, SumsOf
  <2> QED BY <2>1, <2>2, SumsFact DEF Init, SourceTypes
<1>3. DbTypes
  BY <1>1, SumsFact, FS_EmptySet DEF Init, DbTypes, NoTables
<1>4. GraphTypes
  BY DEF Init, GraphTypes, NoGraph, EmptyBag, SetToBag
<1>5. OutTypes
  BY DEF Init, OutTypes, OutputsOK, NoOutputs
<1>6. RecordTypes /\ SessionTypes
  BY SumsFact DEF Init, RecordTypes, SessionTypes, Between
<1>7. WorkInv /\ SumsInv /\ CopiesInv
  BY DEF Init, WorkInv, SumsInv, CopiesInv, OnRecord, Between, Verified
<1>8. TweetsInv /\ EventsInv /\ ChunksInv
  BY DEF Init, TweetsInv, EventsInv, ChunksInv, NoTables
<1>9. GraphInv
  BY DEF Init, GraphInv, NoTables, Aggregated
<1> QED BY <1>2, <1>3, <1>4, <1>5, <1>6, <1>7, <1>8, <1>9 DEF IInv, Types

\* The rows in the tables stay rows of the recorded contents, whatever is
\* recorded besides.
LEMMA TablesStay ==
  ASSUME IInv,
         \A f \in Files : OnRecord(f) => OnRecord(f)' /\ manifest'[f] = manifest[f],
         db'.tweets = db.tweets, db'.events = db.events, db'.chunks = db.chunks
  PROVE  /\ TweetsInv' /\ EventsInv'
         /\ \A fc \in db'.chunks : /\ OnRecord(fc[1])'
                                   /\ HasTweets(fc[1], fc[2])' /\ HasEvents(fc[1], fc[2])'
<1>1. /\ \A t \in db.tweets : t.file \in Files
      /\ \A e \in db.events : e.file \in Files
      /\ \A fc \in db.chunks : fc[1] \in Files
  BY DEF IInv, Types, DbTypes, EventOf
<1>2. TweetsInv /\ EventsInv /\ ChunksInv
  BY DEF IInv
<1>3. \A f \in Files : OnRecord(f) => Ingested(f)' = Ingested(f)
  BY DEF Ingested
<1>4. TweetsInv'
  BY <1>1, <1>2, <1>3 DEF TweetsInv
<1>5. EventsInv'
  BY <1>1, <1>2, <1>3 DEF EventsInv
<1>6. ASSUME NEW fc \in db'.chunks
      PROVE  OnRecord(fc[1])' /\ HasTweets(fc[1], fc[2])' /\ HasEvents(fc[1], fc[2])'
  <2>1. /\ fc[1] \in Files /\ OnRecord(fc[1])
        /\ HasTweets(fc[1], fc[2]) /\ HasEvents(fc[1], fc[2])
    BY <1>1, <1>2 DEF ChunksInv
  <2> QED BY <1>3, <2>1 DEF HasTweets, HasEvents
<1> QED BY <1>4, <1>5, <1>6

\* A session that ends or is killed leaves everything true, as long as it
\* leaves tables, graph and manifest alone.
LEMMA LeaveInv ==
  ASSUME IInv, NEW p \in Between, Leave(p), cache' \in SumsOf, OutTypes', RecordTypes',
         UNCHANGED <<version, db, graph, manifest>>
  PROVE  IInv'
<1>1. /\ SourceTypes /\ DbTypes /\ GraphTypes /\ SessionTypes /\ SumsInv /\ GraphInv
  BY DEF IInv, Types
<1>2. /\ pc' = p /\ mem' = NoSums /\ todo' = {} /\ chunk' = 0
      /\ files' \subseteq Files /\ sync' \in BOOLEAN
  BY <1>1 DEF Leave, SessionTypes
<1>3. SourceTypes' /\ DbTypes' /\ GraphTypes'
  BY <1>1 DEF SourceTypes, DbTypes, GraphTypes
<1>4. SessionTypes'
  BY <1>2, SumsFact DEF SessionTypes
<1>5. WorkInv' /\ SumsInv' /\ CopiesInv'
  BY <1>1, <1>2 DEF WorkInv, SumsInv, CopiesInv, OnRecord, Between, Verified
<1>6. TweetsInv' /\ EventsInv' /\ ChunksInv'
  <2>1. \A f \in Files : OnRecord(f) => OnRecord(f)' /\ manifest'[f] = manifest[f]
    BY DEF OnRecord
  <2> QED BY <2>1, <1>2, TablesStay DEF ChunksInv, Between
<1>7. GraphInv'
  BY <1>1, <1>2 DEF GraphInv, PublishedGraph, Between, Aggregated
<1> QED BY <1>3, <1>4, <1>5, <1>6, <1>7 DEF IInv, Types

\* A step of a session that has verified its workbooks keeps the checksums.
LEMMA VerifiedStep ==
  ASSUME IInv, pc \in Verified, pc' \in Verified, chunk' \in 0 .. MaxRows,
         UNCHANGED <<version, cache, records, session, mem>>, db'.sums = db.sums
  PROVE  SourceTypes' /\ RecordTypes' /\ SessionTypes' /\ SumsInv' /\ CopiesInv'
<1>1. SourceTypes /\ RecordTypes /\ SessionTypes /\ SumsInv /\ CopiesInv
  BY DEF IInv, Types
<1>2. UNCHANGED <<version, cache, manifest, report, files, sync, mem>>
  BY DEF records, session
<1>3. SourceTypes' /\ RecordTypes' /\ SessionTypes'
  BY <1>1, <1>2 DEF SourceTypes, RecordTypes, SessionTypes
<1>4. SumsInv'
  BY <1>1, <1>2 DEF SumsInv, OnRecord, Verified, Between
<1>5. CopiesInv'
  BY <1>1, <1>2 DEF CopiesInv, Verified
<1> QED BY <1>3, <1>4, <1>5

\* And one that also leaves rows and marks alone keeps the tables true.
LEMMA PublishStep ==
  ASSUME IInv, pc \in Verified, pc' \in Verified \ {"events", "mark"}, chunk' \in 0 .. MaxRows,
         UNCHANGED <<version, cache, records, session, mem>>, db'.sums = db.sums,
         db'.tweets = db.tweets, db'.events = db.events, db'.chunks = db.chunks,
         DbTypes', GraphTypes', OutTypes', WorkInv', GraphInv'
  PROVE  IInv'
<1>1. SourceTypes' /\ RecordTypes' /\ SessionTypes' /\ SumsInv' /\ CopiesInv'
  BY VerifiedStep
<1>2. \A f \in Files : OnRecord(f) => OnRecord(f)' /\ manifest'[f] = manifest[f]
  BY DEF OnRecord, records
<1>3. TweetsInv' /\ EventsInv' /\ ChunksInv'
  BY <1>2, TablesStay DEF ChunksInv
<1> QED BY <1>1, <1>3 DEF IInv, Types

-----------------------------------------------------------------------------
(***************************************************************************)
(* The steps.                                                              *)
(***************************************************************************)
\* A session begins with the manifest it finds and a database for its run.
LEMMA SetupInv ==
  ASSUME IInv, NEW fs \in FileLists, NEW s \in Syncs, Setup(fs, s)
  PROVE  IInv'
<1>1. /\ pc \in Between /\ files' = fs /\ sync' = s
      /\ mem' = IF manifest = Absent THEN NoSums ELSE manifest
      /\ db' = [db EXCEPT !.status = "UNVALIDATED"]
      /\ pc' = "setup" /\ todo' = {} /\ chunk' = 0
      /\ UNCHANGED <<version, cache, graph, out, manifest, report>>
  BY DEF Setup, UpsertRun, Goto, records
<1>2. /\ SourceTypes /\ DbTypes /\ GraphTypes /\ OutTypes /\ RecordTypes /\ SumsInv
  BY DEF IInv, Types
<1>3. SourceTypes' /\ GraphTypes' /\ OutTypes' /\ RecordTypes'
  BY <1>1, <1>2 DEF SourceTypes, GraphTypes, OutTypes, OutputsOK, RecordTypes
<1>4. db' = [sums |-> db.sums, chunks |-> db.chunks, events |-> db.events,
             tweets |-> db.tweets, edges |-> db.edges, status |-> "UNVALIDATED"]
  BY <1>1, <1>2 DEF DbTypes
<1>5. DbTypes'
  BY <1>2, <1>4 DEF DbTypes
<1>6. SessionTypes'
  BY <1>1, <1>2, SumsFact DEF SessionTypes, RecordTypes
<1>7. WorkInv' /\ CopiesInv'
  BY <1>1 DEF WorkInv, CopiesInv, Verified
<1>8. SumsInv'
  <2>1. ASSUME NEW f \in Files, OnRecord(f)
        PROVE  mem'[f] = manifest'[f] /\ db'.sums[f] = manifest'[f]
    BY <1>1, <1>2, <1>4, <2>1 DEF SumsInv, OnRecord
  <2> QED BY <1>1, <2>1 DEF SumsInv, OnRecord
<1>9. TweetsInv' /\ EventsInv' /\ ChunksInv'
  <2>1. \A f \in Files : OnRecord(f) => OnRecord(f)' /\ manifest'[f] = manifest[f]
    BY <1>1 DEF OnRecord
  <2> QED BY <2>1, <1>1, <1>4, TablesStay DEF ChunksInv
<1>10. GraphInv'
  BY <1>1, <1>4 DEF GraphInv, Aggregated
<1> QED BY <1>3, <1>5, <1>6, <1>7, <1>8, <1>9, <1>10 DEF IInv, Types

\* Setup flushes the memory it has restored from the manifest.
LEMMA SetupFlushInv ==
  ASSUME IInv, SetupFlush
  PROVE  IInv'
<1>1. /\ pc = "setup" /\ manifest' = mem
      /\ pc' = "verify" /\ todo' = files /\ chunk' = 0
      /\ UNCHANGED <<version, cache, db, graph, out, report, files, sync, mem>>
  BY DEF SetupFlush, Goto, stores, session
<1>2. /\ SourceTypes /\ DbTypes /\ GraphTypes /\ OutTypes /\ RecordTypes /\ SessionTypes
      /\ SumsInv /\ GraphInv
  BY DEF IInv, Types
<1>3. SourceTypes' /\ DbTypes' /\ GraphTypes' /\ OutTypes'
  BY <1>1, <1>2 DEF SourceTypes, DbTypes, GraphTypes, OutTypes, OutputsOK
<1>4. RecordTypes' /\ SessionTypes'
  BY <1>1, <1>2 DEF RecordTypes, SessionTypes
<1>5. WorkInv' /\ CopiesInv'
  BY <1>1 DEF WorkInv, CopiesInv, Verified
<1>6. \A f \in Files : OnRecord(f) => OnRecord(f)' /\ manifest'[f] = manifest[f]
  BY <1>1, <1>2, SumsFact DEF OnRecord, SumsInv, SessionTypes
<1>7. \A f \in Files : OnRecord(f)' => OnRecord(f)
  BY <1>1, <1>2, SumsFact DEF OnRecord, SumsInv
<1>8. SumsInv'
  <2>1. ASSUME NEW f \in Files
        PROVE  /\ OnRecord(f)' => db'.sums[f] = manifest'[f]
               /\ mem'[f] # "none" => db'.sums[f] = mem'[f]
    <3>1. OnRecord(f) => db.sums[f] = manifest[f]
      BY <1>2 DEF SumsInv
    <3>2. mem[f] # "none" => OnRecord(f)
      BY <1>1, <1>2, SumsFact DEF SumsInv, OnRecord
    <3> QED BY <1>1, <1>6, <1>7, <3>1, <3>2
  <2> QED BY <1>1, <2>1 DEF SumsInv, OnRecord
<1>9. TweetsInv' /\ EventsInv' /\ ChunksInv'
  BY <1>1, <1>6, TablesStay DEF ChunksInv
<1>10. GraphInv'
  BY <1>1, <1>2 DEF GraphInv, Aggregated, Between
<1> QED BY <1>3, <1>4, <1>5, <1>8, <1>9, <1>10 DEF IInv, Types

\* A file that passes is fetched, recorded in memory and in source_files.
LEMMA VerifyFileInv ==
  ASSUME IInv, VerifyFile
  PROVE  IInv'
<1> DEFINE f == Min(todo)
           v == Fetched(f)
<1>1. /\ pc = "verify" /\ todo # {} /\ cache' = [cache EXCEPT ![f] = v]
      /\ mem[f] \in {"none", v} /\ mem' = [mem EXCEPT ![f] = v]
      /\ db' = [db EXCEPT !.sums[f] = v] /\ todo' = todo \ {f}
      /\ pc' = pc /\ chunk' = chunk
      /\ UNCHANGED <<version, graph, out, manifest, report, files, sync>>
  BY DEF VerifyFile, Recorded, UpsertSourceFile, records, session
<1>2. /\ SourceTypes /\ DbTypes /\ GraphTypes /\ OutTypes /\ RecordTypes /\ SessionTypes
      /\ WorkInv /\ SumsInv /\ CopiesInv /\ GraphInv
  BY DEF IInv, Types
<1>3. todo \subseteq files /\ files \subseteq Files
  BY <1>1, <1>2 DEF WorkInv, SessionTypes
<1>4. f \in todo /\ f \in files /\ f \in Files
  BY <1>1, <1>3, MinFact DEF Files
<1>5. v \in Versions(f) /\ v # "none"
  BY <1>2, <1>4, SumsFact, VersionFact DEF Fetched, SourceTypes
<1> HIDE DEF f, v
<1>6. /\ cache' \in SumsOf /\ mem' \in SumsOf
      /\ \A g \in Files : cache'[g] = IF g = f THEN v ELSE cache[g]
      /\ \A g \in Files : mem'[g] = IF g = f THEN v ELSE mem[g]
  <2>1. \A m \in SumsOf : /\ [m EXCEPT ![f] = v] \in SumsOf
                          /\ \A g \in Files : [m EXCEPT ![f] = v][g] = IF g = f THEN v ELSE m[g]
    BY <1>4, <1>5, SumsFact
  <2>2. cache \in SumsOf /\ mem \in SumsOf
    BY <1>2 DEF SourceTypes, SessionTypes
  <2> QED BY <1>1, <2>1, <2>2
<1>7. db' = [sums |-> [db.sums EXCEPT ![f] = v], chunks |-> db.chunks,
             events |-> db.events, tweets |-> db.tweets, edges |-> db.edges,
             status |-> db.status]
  BY <1>1, <1>2 DEF DbTypes
<1>8. /\ db'.sums \in SumsOf
      /\ \A g \in Files : db'.sums[g] = IF g = f THEN v ELSE db.sums[g]
  BY <1>2, <1>4, <1>5, <1>7, SumsFact DEF DbTypes
<1>9. SourceTypes' /\ GraphTypes' /\ OutTypes' /\ RecordTypes' /\ SessionTypes'
  BY <1>1, <1>2, <1>6 DEF SourceTypes, GraphTypes, OutTypes, OutputsOK, RecordTypes, SessionTypes
<1>10. DbTypes'
  BY <1>2, <1>7, <1>8 DEF DbTypes
<1>11. WorkInv'
  BY <1>1, <1>3 DEF WorkInv
<1>12. SumsInv'
  <2>1. ASSUME NEW g \in Files
        PROVE  /\ OnRecord(g) => db'.sums[g] = manifest[g] /\ mem'[g] = manifest[g]
               /\ mem'[g] # "none" => db'.sums[g] = mem'[g]
    BY <1>1, <1>2, <1>6, <1>8 DEF SumsInv, OnRecord, Between
  <2> QED BY <1>1, <2>1 DEF SumsInv, OnRecord
<1>13. CopiesInv'
  BY <1>1, <1>2, <1>3, <1>5, <1>6 DEF CopiesInv, Verified
<1>14. TweetsInv' /\ EventsInv' /\ ChunksInv'
  <2>1. \A g \in Files : OnRecord(g) => OnRecord(g)' /\ manifest'[g] = manifest[g]
    BY <1>1 DEF OnRecord
  <2> QED BY <2>1, <1>1, <1>7, TablesStay DEF ChunksInv
<1>15. GraphInv'
  BY <1>1, <1>2, <1>7 DEF GraphInv, Aggregated, Between
<1> QED BY <1>9, <1>10, <1>11, <1>12, <1>13, <1>14, <1>15 DEF IInv, Types

\* A file that fails is fetched and ends the session: the tables stay.
LEMMA RefuseFileInv ==
  ASSUME IInv, RefuseFile
  PROVE  IInv'
<1>1. /\ pc = "verify" /\ todo # {} /\ Leave("down")
      /\ cache' = [cache EXCEPT ![Min(todo)] = Fetched(Min(todo))]
      /\ UNCHANGED <<version, db, graph, out, manifest, report>>
  BY DEF RefuseFile, stores, records
<1>2. SourceTypes /\ OutTypes /\ RecordTypes /\ todo \subseteq Files
  BY <1>1 DEF IInv, Types, WorkInv, SessionTypes
<1>3. Min(todo) \in todo /\ Min(todo) \in Files
  <2>1. todo \in SUBSET Nat
    BY <1>2 DEF Files
  <2> QED BY <1>1, <1>2, <2>1, MinFact
<1>4. cache' \in SumsOf
  BY <1>1, <1>2, <1>3, SumsFact DEF SourceTypes, Fetched
<1>5. OutTypes' /\ RecordTypes'
  BY <1>1, <1>2 DEF OutTypes, OutputsOK, RecordTypes
<1> QED BY <1>1, <1>4, <1>5, LeaveInv DEF Between

\* The manifest is flushed when every file has passed.
LEMMA VerifyFlushInv ==
  ASSUME IInv, VerifyFlush
  PROVE  IInv'
<1>1. /\ pc = "verify" /\ todo = {} /\ manifest' = mem
      /\ pc' = "tweets" /\ todo' = files /\ chunk' = 0
      /\ UNCHANGED <<version, cache, db, graph, out, report, files, sync, mem>>
  BY DEF VerifyFlush, Goto, stores, session
<1>2. /\ SourceTypes /\ DbTypes /\ GraphTypes /\ OutTypes /\ RecordTypes /\ SessionTypes
      /\ SumsInv /\ CopiesInv /\ GraphInv
  BY DEF IInv, Types
<1>3. SourceTypes' /\ DbTypes' /\ GraphTypes' /\ OutTypes'
  BY <1>1, <1>2 DEF SourceTypes, DbTypes, GraphTypes, OutTypes, OutputsOK
<1>4. RecordTypes' /\ SessionTypes'
  BY <1>1, <1>2 DEF RecordTypes, SessionTypes, Verified
<1>5. WorkInv' /\ CopiesInv'
  BY <1>1, <1>2 DEF WorkInv, CopiesInv, Verified
<1>6. \A f \in Files : OnRecord(f) => OnRecord(f)' /\ manifest'[f] = manifest[f]
  BY <1>1, <1>2, SumsFact DEF OnRecord, SumsInv, SessionTypes, Between
<1>7. SumsInv'
  BY <1>1, <1>2, SumsFact DEF SumsInv, Between, OnRecord, SessionTypes
<1>8. TweetsInv' /\ EventsInv' /\ ChunksInv'
  BY <1>1, <1>6, TablesStay DEF ChunksInv
<1>9. GraphInv'
  BY <1>1, <1>2 DEF GraphInv, Aggregated, Between
<1> QED BY <1>3, <1>4, <1>5, <1>7, <1>8, <1>9 DEF IInv, Types

\* The workbook being read: the session has verified it, what it reads is what
\* the run has on record, and the chunks are within bounds.
LEMMA CurrentFile ==
  ASSUME IInv, pc \in {"tweets", "events", "mark"}, todo # {}
  PROVE  /\ Min(todo) \in todo /\ Min(todo) \in Files /\ todo \subseteq Files
         /\ OnRecord(Min(todo)) /\ cache[Min(todo)] \in Versions(Min(todo))
         /\ Rows(Min(todo)) = Ingested(Min(todo))
         /\ NChunks(Min(todo)) \in 0 .. MaxRows
         /\ \A i \in DOMAIN Rows(Min(todo)) :
              Rows(Min(todo))[i] \in Row /\ i \in 1 .. MaxRows
<1> DEFINE f == Min(todo)
<1>1. /\ todo \subseteq files /\ files \subseteq Files /\ cache \in SumsOf
      /\ manifest = mem /\ mem \in SumsOf
      /\ \A g \in files : mem[g] # "none" /\ cache[g] = mem[g]
  BY DEF IInv, Types, WorkInv, SessionTypes, SourceTypes, CopiesInv, Verified
<1>2. todo \in SUBSET Nat
  BY <1>1 DEF Files
<1>3. f \in todo /\ f \in files /\ f \in Files
  BY <1>1, <1>2, MinFact
<1> HIDE DEF f
<1>4. /\ OnRecord(f) /\ cache[f] \in Versions(f) /\ manifest[f] = cache[f]
  BY <1>1, <1>3, SumsFact DEF OnRecord
<1>5. /\ Len(Rows(f)) \in 0 .. MaxRows /\ DOMAIN Rows(f) = 1 .. Len(Rows(f))
      /\ \A i \in DOMAIN Rows(f) : Rows(f)[i] \in Row
  BY <1>3, <1>4, VersionFact DEF Rows
<1>6. NChunks(f) \in 0 .. MaxRows
  <2>1. NChunks(f) \in 0 .. Len(Rows(f))
    BY <1>5, ChunkFact DEF NChunks
  <2> QED BY <1>5, <2>1
<1>7. Rows(f) = Ingested(f)
  BY <1>4 DEF Rows, Ingested
<1> QED BY <1>1, <1>3, <1>4, <1>5, <1>6, <1>7 DEF f

\* After its last chunk a file is done.
LEMMA NextFileInv ==
  ASSUME IInv, NextFile
  PROVE  IInv'
<1>1. /\ pc = "tweets" /\ pc' = "tweets" /\ todo' \subseteq todo /\ chunk' = 0
      /\ UNCHANGED <<version, cache, db, graph, out, records, session, mem, files>>
  BY DEF NextFile, Goto, stores, session
<1>2. DbTypes /\ GraphTypes /\ OutTypes /\ WorkInv /\ GraphInv
  BY DEF IInv, Types
<1>3. DbTypes' /\ GraphTypes' /\ OutTypes'
  BY <1>1, <1>2 DEF DbTypes, GraphTypes, OutTypes, OutputsOK
<1>4. WorkInv' /\ GraphInv'
  BY <1>1, <1>2 DEF WorkInv, GraphInv, Aggregated, Between
<1> QED BY <1>1, <1>3, <1>4, PublishStep DEF Verified

\* A marked chunk is passed over: its rows are in the tables.
LEMMA SkipChunkInv ==
  ASSUME IInv, SkipChunk
  PROVE  IInv'
<1>1. /\ pc = "tweets" /\ pc' = "tweets" /\ todo' = todo /\ chunk' = chunk + 1
      /\ todo # {} /\ chunk < NChunks(Min(todo))
      /\ UNCHANGED <<version, cache, db, graph, out, records, session, mem, files>>
  BY DEF SkipChunk, ReadChunk, stores, session
<1>2. DbTypes /\ GraphTypes /\ OutTypes /\ SessionTypes /\ WorkInv /\ GraphInv
  BY DEF IInv, Types
<1>3. DbTypes' /\ GraphTypes' /\ OutTypes'
  BY <1>1, <1>2 DEF DbTypes, GraphTypes, OutTypes, OutputsOK
<1>4. chunk' \in 0 .. MaxRows
  BY <1>1, <1>2, CurrentFile DEF SessionTypes
<1>5. WorkInv' /\ GraphInv'
  BY <1>1, <1>2 DEF WorkInv, GraphInv, Aggregated, Between
<1> QED BY <1>1, <1>3, <1>4, <1>5, PublishStep DEF Verified

\* The first commit of a chunk adds the tweets that are not there yet.
LEMMA InsertTweetsInv ==
  ASSUME IInv, InsertTweets
  PROVE  IInv'
<1> PICK f, c : f = Min(todo) /\ c = chunk
  OBVIOUS
<1> DEFINE kept == {j \in ChunkRows(f, c) : Authored(Rows(f)[j])}
           new == {Tweet(f, i) : i \in kept}
<1>1. /\ pc = "tweets" /\ pc' = "events" /\ todo # {} /\ ReadChunk
      /\ db' = [db EXCEPT !.tweets = @ \cup new]
      /\ UNCHANGED <<version, cache, graph, out, records, session, mem, files, todo, chunk,
                     manifest>>
  BY DEF InsertTweets, InsertTweetsIgnore, ReadChunk, session, records
<1>2. DbTypes /\ GraphTypes /\ OutTypes /\ SessionTypes /\ WorkInv /\ GraphInv
      /\ TweetsInv /\ EventsInv /\ ChunksInv
  BY DEF IInv, Types
<1>3. /\ f \in Files /\ OnRecord(f) /\ Rows(f) = Ingested(f)
      /\ \A i \in DOMAIN Rows(f) : Rows(f)[i] \in Row /\ i \in 1 .. MaxRows
  BY <1>1, CurrentFile
<1>4. \A i \in kept : /\ i \in DOMAIN Ingested(f) /\ i \in 1 .. MaxRows
                      /\ Authored(Ingested(f)[i])
                      /\ Ingested(f)[i].author \in Universe
                      /\ Snapshot(Ingested(f)[i].at) \in Snapshots
  BY <1>3, AuthoredFact DEF ChunkRows
<1> HIDE DEF kept
<1>5. ASSUME NEW t \in new
      PROVE  /\ t \in [file : Files, row : 1 .. MaxRows, author : Universe,
                       snapshot : Snapshots]
             /\ t.file = f /\ t.row \in kept /\ t.author = Ingested(f)[t.row].author
  BY <1>3, <1>4 DEF Tweet
<1>6. ASSUME NEW i \in kept
      PROVE  \E t \in new : t.file = f /\ t.row = i
  <2>1. Tweet(f, i) \in new
    OBVIOUS
  <2> QED BY <2>1 DEF Tweet
<1> HIDE DEF new
<1>7. db' = [sums |-> db.sums, chunks |-> db.chunks, events |-> db.events,
             tweets |-> db.tweets \cup new, edges |-> db.edges, status |-> db.status]
  BY <1>1, <1>2 DEF DbTypes
<1>8. DbTypes' /\ GraphTypes' /\ OutTypes'
  BY <1>1, <1>2, <1>5, <1>7 DEF DbTypes, GraphTypes, OutTypes, OutputsOK
<1>9. SourceTypes' /\ RecordTypes' /\ SessionTypes' /\ SumsInv' /\ CopiesInv'
  BY <1>1, <1>2, <1>7, VerifiedStep DEF Verified, SessionTypes
<1>10. WorkInv'
  BY <1>1, <1>2 DEF WorkInv, ReadChunk, NChunks, Rows
<1>11. \A g : OnRecord(g)' = OnRecord(g) /\ Ingested(g)' = Ingested(g)
  BY <1>1 DEF OnRecord, Ingested
<1>12. TweetsInv'
  BY <1>2, <1>3, <1>4, <1>5, <1>7, <1>11 DEF TweetsInv
<1>13. EventsInv'
  BY <1>2, <1>7, <1>11 DEF EventsInv
<1>14. ChunksInv'
  <2>1. \A g, d : HasTweets(g, d) => HasTweets(g, d)'
    BY <1>7, <1>11 DEF HasTweets
  <2>2. \A g, d : HasEvents(g, d) => HasEvents(g, d)'
    BY <1>7, <1>11 DEF HasEvents
  <2>3. HasTweets(f, c)'
    <3>1. ASSUME NEW i \in DOMAIN Ingested(f), (i - 1) \div ChunkSize = c,
                 Authored(Ingested(f)[i])
          PROVE  \E t \in db.tweets \cup new : t.file = f /\ t.row = i
      <4>1. i \in kept
        BY <1>3, <3>1 DEF kept, ChunkRows
      <4> QED BY <1>6, <4>1
    <3> QED BY <1>7, <1>11, <3>1 DEF HasTweets
  <2>4. Min(todo') = f /\ chunk' = c
    BY <1>1
  <2> QED BY <1>1, <1>2, <1>7, <1>11, <2>1, <2>2, <2>3, <2>4 DEF ChunksInv
<1>15. GraphInv'
  BY <1>1, <1>2, <1>7 DEF GraphInv, Aggregated, Between
<1> QED BY <1>8, <1>9, <1>10, <1>12, <1>13, <1>14, <1>15 DEF IInv, Types

\* The second adds the events whose signature is not there yet.
LEMMA InsertEventsInv ==
  ASSUME IInv, InsertEvents
  PROVE  IInv'
<1> PICK f, c : f = Min(todo) /\ c = chunk
  OBVIOUS
<1> DEFINE found == ChunkEvents(f, c)
           new == {e \in found : \A d \in db.events : d.sig # e.sig}
<1>1. /\ pc = "events" /\ pc' = "mark" /\ todo # {} /\ ReadChunk
      /\ db' = [db EXCEPT !.events = @ \cup new]
      /\ UNCHANGED <<version, cache, graph, out, records, session, mem, files, todo, chunk,
                     manifest>>
  BY DEF InsertEvents, InsertEventsIgnore, ReadChunk, session, records, IInv, WorkInv
<1>2. DbTypes /\ GraphTypes /\ OutTypes /\ SessionTypes /\ WorkInv /\ GraphInv
      /\ TweetsInv /\ EventsInv /\ ChunksInv
  BY DEF IInv, Types
<1>3. /\ f \in Files /\ OnRecord(f) /\ Rows(f) = Ingested(f) /\ cache[f] \in Versions(f)
  BY <1>1, CurrentFile
<1>4. HasTweets(f, c)
  BY <1>1, <1>2 DEF ChunksInv
<1>5. /\ IsFiniteSet(found)
      /\ \A e \in found : /\ e \in EventOf /\ e.file = f /\ e.row \in ChunkRows(f, c)
                          /\ e.sig \in Signatures(Ingested(f)[e.row])
      /\ \A i \in ChunkRows(f, c) : \A s \in Signatures(Ingested(f)[i]) :
           \E e \in found : e.sig = s
  BY <1>3, ChunkEventsFact
<1> HIDE DEF found
<1>6. IsFiniteSet(db.events \cup new)
  BY <1>2, <1>5, FS_Subset, FS_Union DEF DbTypes
<1>7. \A e \in new : e \in found
  OBVIOUS
<1>8. \A e \in found : \E d \in db.events \cup new : d.sig = e.sig
  OBVIOUS
<1> HIDE DEF new
<1>9. db' = [sums |-> db.sums, chunks |-> db.chunks, events |-> db.events \cup new,
             tweets |-> db.tweets, edges |-> db.edges, status |-> db.status]
  BY <1>1, <1>2 DEF DbTypes
<1>10. DbTypes' /\ GraphTypes' /\ OutTypes'
  BY <1>1, <1>2, <1>5, <1>6, <1>7, <1>9 DEF DbTypes, GraphTypes, OutTypes, OutputsOK
<1>11. SourceTypes' /\ RecordTypes' /\ SessionTypes' /\ SumsInv' /\ CopiesInv'
  BY <1>1, <1>2, <1>9, VerifiedStep DEF Verified, SessionTypes
<1>12. WorkInv'
  BY <1>1, <1>2 DEF WorkInv, ReadChunk, NChunks, Rows
<1>13. \A g : OnRecord(g)' = OnRecord(g) /\ Ingested(g)' = Ingested(g)
  BY <1>1 DEF OnRecord, Ingested
<1>14. TweetsInv'
  BY <1>2, <1>9, <1>13 DEF TweetsInv
<1>15. ASSUME NEW e \in new
       PROVE  /\ OnRecord(e.file) /\ e.row \in DOMAIN Ingested(e.file)
              /\ e.sig \in Signatures(Ingested(e.file)[e.row])
              /\ \E t \in db.tweets : t.file = e.file /\ t.row = e.row
  <2>1. /\ e.file = f /\ e.row \in DOMAIN Ingested(f)
        /\ (e.row - 1) \div ChunkSize = c
        /\ e.sig \in Signatures(Ingested(f)[e.row])
    BY <1>3, <1>5, <1>7 DEF ChunkRows
  <2>2. Authored(Ingested(f)[e.row])
    BY <2>1 DEF Signatures
  <2> QED BY <1>3, <1>4, <2>1, <2>2 DEF HasTweets
<1>16. EventsInv'
  BY <1>2, <1>9, <1>13, <1>15 DEF EventsInv
<1>17. ChunksInv'
  <2>1. \A g, d : HasTweets(g, d) => HasTweets(g, d)'
    BY <1>9, <1>13 DEF HasTweets
  <2>2. \A g, d : HasEvents(g, d) => HasEvents(g, d)'
    BY <1>9, <1>13 DEF HasEvents
  <2>3. HasEvents(f, c)'
    <3>1. ASSUME NEW i \in DOMAIN Ingested(f), (i - 1) \div ChunkSize = c,
                 NEW s \in Signatures(Ingested(f)[i])
          PROVE  \E e \in db.events \cup new : e.sig = s
      <4>1. i \in ChunkRows(f, c)
        BY <1>3, <3>1 DEF ChunkRows
      <4> QED BY <1>5, <1>8, <4>1
    <3> QED BY <1>9, <1>13, <3>1 DEF HasEvents
  <2>4. Min(todo') = f /\ chunk' = c
    BY <1>1
  <2> QED BY <1>1, <1>2, <1>4, <1>9, <1>13, <2>1, <2>2, <2>3, <2>4 DEF ChunksInv
<1>18. GraphInv'
  BY <1>1, <1>2, <1>9 DEF GraphInv, Aggregated, Between
<1> QED BY <1>10, <1>11, <1>12, <1>14, <1>16, <1>17, <1>18 DEF IInv, Types

\* The third marks a chunk whose tweets and events the tables hold.
LEMMA MarkChunkInv ==
  ASSUME IInv, MarkChunk
  PROVE  IInv'
<1> PICK f, c : f = Min(todo) /\ c = chunk
  OBVIOUS
<1>1. /\ pc = "mark" /\ pc' = "tweets" /\ chunk' = c + 1
      /\ db' = [db EXCEPT !.chunks = @ \cup {<<f, c>>}]
      /\ UNCHANGED <<version, cache, graph, out, records, session, mem, files, todo, manifest>>
  BY DEF MarkChunk, RecordChunk, session, records
<1>2. DbTypes /\ GraphTypes /\ OutTypes /\ SessionTypes /\ WorkInv /\ GraphInv
      /\ TweetsInv /\ EventsInv /\ ChunksInv
  BY DEF IInv, Types
<1>3. todo # {} /\ c < NChunks(f)
  BY <1>1, <1>2 DEF WorkInv, ReadChunk
<1>4. f \in Files /\ OnRecord(f) /\ NChunks(f) \in 0 .. MaxRows
  BY <1>1, <1>3, CurrentFile
<1>5. HasTweets(f, c) /\ HasEvents(f, c)
  BY <1>1, <1>2 DEF ChunksInv
<1>6. db' = [sums |-> db.sums, chunks |-> db.chunks \cup {<<f, c>>}, events |-> db.events,
             tweets |-> db.tweets, edges |-> db.edges, status |-> db.status]
  BY <1>1, <1>2 DEF DbTypes
<1>7. c \in Chunks /\ chunk' \in 0 .. MaxRows
  BY <1>1, <1>2, <1>3, <1>4 DEF SessionTypes, Chunks
<1>8. DbTypes' /\ GraphTypes' /\ OutTypes'
  <2>1. GraphTypes' /\ OutTypes'
    BY <1>1, <1>2 DEF GraphTypes, OutTypes, OutputsOK
  <2>2. db'.chunks \subseteq Files \X Chunks
    BY <1>2, <1>4, <1>6, <1>7 DEF DbTypes
  <2>3. DbTypes'
    BY <1>2, <1>6, <2>2 DEF DbTypes
  <2> QED BY <2>1, <2>3
<1>9. SourceTypes' /\ RecordTypes' /\ SessionTypes' /\ SumsInv' /\ CopiesInv'
  BY <1>1, <1>6, <1>7, VerifiedStep DEF Verified
<1>10. WorkInv'
  BY <1>1, <1>2 DEF WorkInv
<1>11. \A g : OnRecord(g)' = OnRecord(g) /\ Ingested(g)' = Ingested(g)
  BY <1>1 DEF OnRecord, Ingested
<1>12. TweetsInv' /\ EventsInv'
  BY <1>2, <1>6, <1>11 DEF TweetsInv, EventsInv
<1>13. \A g, d : /\ HasTweets(g, d) => HasTweets(g, d)'
                 /\ HasEvents(g, d) => HasEvents(g, d)'
  BY <1>6, <1>11 DEF HasTweets, HasEvents
<1>14. ChunksInv'
  BY <1>1, <1>2, <1>4, <1>5, <1>6, <1>11, <1>13 DEF ChunksInv
<1>15. GraphInv'
  BY <1>1, <1>2, <1>6 DEF GraphInv, Aggregated, Between
<1> QED BY <1>8, <1>9, <1>10, <1>12, <1>14, <1>15 DEF IInv, Types

\* The steps that go on to the next stage and change nothing else.
LEMMA StageInv ==
  ASSUME IInv, Processed \/ PartsWritten
  PROVE  IInv'
<1>1. /\ pc \in {"tweets", "parts"} /\ pc' \in {"export", "x"} /\ todo' = {} /\ chunk' = 0
      /\ pc' = "x" => pc = "parts"
      /\ UNCHANGED <<version, cache, db, graph, out, records, session, mem, files>>
  BY DEF Processed, PartsWritten, Goto, stores, session
<1>2. DbTypes /\ GraphTypes /\ OutTypes /\ WorkInv /\ GraphInv
  BY DEF IInv, Types
<1>3. DbTypes' /\ GraphTypes' /\ OutTypes'
  BY <1>1, <1>2 DEF DbTypes, GraphTypes, OutTypes, OutputsOK
<1>4. WorkInv' /\ GraphInv'
  BY <1>1, <1>2 DEF WorkInv, GraphInv, Aggregated, Between
<1> QED BY <1>1, <1>3, <1>4, PublishStep DEF Verified

\* An event is of the calendar, and its key is one of the edges.
LEMMA EventsFact ==
  ASSUME IInv
  PROVE  /\ IsFiniteSet(db.events)
         /\ \A e \in db.events : e \in EventOf /\ Snapshot(e.sig.at) \in Snapshots
<1>1. /\ IsFiniteSet(db.events) /\ (\A e \in db.events : e \in EventOf)
      /\ EventsInv /\ manifest \in SumsOf \cup {Absent}
  BY DEF IInv, Types, DbTypes, RecordTypes
<1>2. ASSUME NEW e \in db.events PROVE Snapshot(e.sig.at) \in Snapshots
  <2>1. /\ e.file \in Files /\ OnRecord(e.file) /\ e.row \in DOMAIN Ingested(e.file)
        /\ e.sig \in Signatures(Ingested(e.file)[e.row])
    BY <1>1 DEF EventsInv, EventOf
  <2>2. manifest[e.file] \in Versions(e.file)
    BY <1>1, <2>1, SumsFact DEF OnRecord
  <2>3. Ingested(e.file)[e.row] \in Row
    BY <2>1, <2>2, VersionFact DEF Ingested
  <2> QED BY <2>1, <2>3, SignatureFact, AuthoredFact
<1> QED BY <1>1, <1>2

\* The edges are counted from all events.
LEMMA RebuildEdgesInv ==
  ASSUME IInv, RebuildEdges
  PROVE  IInv'
<1> DEFINE edges == CountBy(db.events)
<1>1. /\ pc = "edges" /\ db' = [db EXCEPT !.edges = edges]
      /\ pc' = "parts" /\ todo' = {p \in Parts : PartRows(db'.edges, p) # {}} /\ chunk' = 0
      /\ UNCHANGED <<version, cache, graph, out, records, session, mem>>
  BY DEF RebuildEdges, Goto
<1>2. DbTypes /\ GraphTypes /\ OutTypes /\ WorkInv /\ GraphInv
  BY DEF IInv, Types
<1>3. \A r \in EdgeRecords(edges) : r \in EdgeRecord
  BY EventsFact, CountByFact
<1>4. db' = [sums |-> db.sums, chunks |-> db.chunks, events |-> db.events,
             tweets |-> db.tweets, edges |-> edges, status |-> db.status]
  BY <1>1, <1>2 DEF DbTypes
<1>5. GraphInv'
  BY <1>1, <1>2, <1>4 DEF GraphInv, Between
<1> HIDE DEF edges
<1>6. DbTypes' /\ GraphTypes' /\ OutTypes' /\ WorkInv'
  BY <1>1, <1>2, <1>3, <1>4 DEF DbTypes, GraphTypes, OutTypes, OutputsOK, WorkInv
<1> QED BY <1>1, <1>4, <1>5, <1>6, PublishStep DEF Verified

\* The steps that write one of the files.
LEMMA WriteInv ==
  ASSUME IInv, pc \in Verified \ {"validate"}, pc' \in Verified \ {"events", "mark"},
         pc' \in Aggregated => pc \in Aggregated, pc' \notin {"vertices", "label"},
         WorkInv', OutTypes', chunk' \in 0 .. MaxRows,
         UNCHANGED <<version, cache, db, graph, records, session, mem>>
  PROVE  IInv'
<1>1. DbTypes /\ GraphTypes /\ GraphInv
  BY DEF IInv, Types
<1>2. DbTypes' /\ GraphTypes' /\ GraphInv'
  BY <1>1 DEF DbTypes, GraphTypes, GraphInv, PublishedGraph, Verified, Between
<1> QED BY <1>2, PublishStep

\* The exported events are the events of the table.
LEMMA ExportEventsInv ==
  ASSUME IInv, ExportEvents
  PROVE  IInv'
<1>1. /\ pc = "export" /\ out' = [out EXCEPT !["events"] = db.events]
      /\ pc' = "edges" /\ todo' = {} /\ chunk' = 0
      /\ UNCHANGED <<version, cache, db, graph, records, session, mem>>
  BY DEF ExportEvents, Publish, Goto
<1>2. DbTypes /\ OutTypes
  BY DEF IInv, Types
<1>3. out' = [events |-> db.events, parts |-> out.parts, x |-> out.x, mask |-> out.mask]
  BY <1>1, <1>2 DEF OutTypes
<1>4. OutTypes'
  BY <1>2, <1>3 DEF OutTypes, OutputsOK, DbTypes
<1>5. WorkInv'
  BY <1>1 DEF WorkInv
<1> QED BY <1>1, <1>4, <1>5, WriteInv DEF Verified, Aggregated

\* A part file holds the edges of its part.
LEMMA WritePartInv ==
  ASSUME IInv, WritePart
  PROVE  IInv'
<1> PICK p : p = Min(todo)
  OBVIOUS
<1> DEFINE rows == PartRows(db.edges, p)
<1>1. /\ pc = "parts" /\ todo # {}
      /\ out' = [out EXCEPT !["parts"] = [out.parts EXCEPT ![p] = rows]]
      /\ pc' = "parts" /\ todo' = todo \ {p} /\ chunk' = chunk
      /\ UNCHANGED <<version, cache, db, graph, records, session, mem>>
  BY DEF WritePart, Publish
<1>2. DbTypes /\ OutTypes /\ SessionTypes /\ todo \subseteq Parts
  BY <1>1 DEF IInv, Types, WorkInv
<1>3. p \in Parts
  <2>1. todo \in SUBSET Nat
    BY <1>2 DEF Parts
  <2> QED BY <1>1, <1>2, <2>1, MinFact
<1>4. \A r \in rows : r \in EdgeRecord /\ PartOf(r.key) = p
  BY <1>2 DEF PartRows, DbTypes
<1> HIDE DEF rows
<1>5. out' = [events |-> out.events, parts |-> [out.parts EXCEPT ![p] = rows],
              x |-> out.x, mask |-> out.mask]
  BY <1>1, <1>2 DEF OutTypes
<1>6. OutTypes'
  <2>1. /\ DOMAIN out'.parts = Parts
        /\ \A q \in Parts : out'.parts[q] = IF q = p THEN rows ELSE out.parts[q]
    BY <1>2, <1>3, <1>5 DEF OutTypes, OutputsOK
  <2> QED BY <1>2, <1>4, <1>5, <2>1 DEF OutTypes, OutputsOK
<1>7. WorkInv'
  BY <1>1, <1>2 DEF WorkInv
<1> QED BY <1>1, <1>2, <1>6, <1>7, WriteInv DEF Verified, SessionTypes

\* Active slots are those of tweets and events of the calendar.
LEMMA SlotsFact ==
  ASSUME IInv
  PROVE  ActiveSlots(db.edges, db.tweets) \subseteq Snapshots \X Universe
<1>1. DbTypes
  BY DEF IInv, Types
<1>2. \A k \in DOMAIN db.edges : k \in KeyOf
  <2>1. ASSUME NEW k \in DOMAIN db.edges
        PROVE  [key |-> k, count |-> db.edges[k]] \in EdgeRecord
    BY <1>1 DEF DbTypes, EdgeRecords
  <2> QED BY <2>1 DEF EdgeRecord
<1> QED BY <1>1, <1>2 DEF ActiveSlots, DbTypes, KeyOf

\* The features are saved from the tables as they are.
LEMMA SaveXInv ==
  ASSUME IInv, SaveX
  PROVE  IInv'
<1> DEFINE x == Features(db.edges, db.tweets)
<1>1. /\ pc = "x" /\ out' = [out EXCEPT !["x"] = x]
      /\ pc' = "mask" /\ todo' = {} /\ chunk' = 0
      /\ UNCHANGED <<version, cache, db, graph, records, session, mem>>
  BY DEF SaveX, Publish, Goto
<1>2. OutTypes
  BY DEF IInv, Types
<1>3. DOMAIN x \subseteq Snapshots \X Universe
  BY SlotsFact DEF Features
<1> HIDE DEF x
<1>4. out' = [events |-> out.events, parts |-> out.parts, x |-> x, mask |-> out.mask]
  BY <1>1, <1>2 DEF OutTypes
<1>5. OutTypes'
  BY <1>2, <1>3, <1>4 DEF OutTypes, OutputsOK
<1>6. WorkInv'
  BY <1>1 DEF WorkInv
<1> QED BY <1>1, <1>5, <1>6, WriteInv DEF Verified, Aggregated

\* The mask is saved from the same tables.
LEMMA SaveMaskInv ==
  ASSUME IInv, SaveMask
  PROVE  IInv'
<1> DEFINE slots == ActiveSlots(db.edges, db.tweets)
<1>1. /\ pc = "mask" /\ out' = [out EXCEPT !["mask"] = slots]
      /\ pc' \in {"graph", "validate"} /\ todo' = {} /\ chunk' = 0
      /\ UNCHANGED <<version, cache, db, graph, records, session, mem>>
  BY DEF SaveMask, Publish, Goto
<1>2. OutTypes
  BY DEF IInv, Types
<1>3. slots \subseteq Snapshots \X Universe
  BY SlotsFact
<1> HIDE DEF slots
<1>4. out' = [events |-> out.events, parts |-> out.parts, x |-> out.x, mask |-> slots]
  BY <1>1, <1>2 DEF OutTypes
<1>5. OutTypes'
  BY <1>2, <1>3, <1>4 DEF OutTypes, OutputsOK
<1>6. WorkInv'
  BY <1>1 DEF WorkInv
<1> QED BY <1>1, <1>5, <1>6, WriteInv DEF Verified, Aggregated

\* The graph is dropped, with all an earlier session has put in it.
LEMMA ResetGraphInv ==
  ASSUME IInv, ResetGraph
  PROVE  IInv'
<1>1. /\ pc = "graph" /\ graph' = NoGraph
      /\ pc' = "vertices" /\ todo' = {} /\ chunk' = 0
      /\ UNCHANGED <<version, cache, db, out, records, session, mem>>
  BY DEF ResetGraph, Goto
<1>2. DbTypes /\ OutTypes /\ GraphInv
  BY DEF IInv, Types
<1>3. DbTypes' /\ OutTypes' /\ GraphTypes' /\ WorkInv'
  BY <1>1, <1>2 DEF DbTypes, OutTypes, OutputsOK, GraphTypes, NoGraph, EmptyBag, SetToBag, WorkInv
<1>4. GraphInv'
  BY <1>1, <1>2 DEF GraphInv, Between, Aggregated
<1> QED BY <1>1, <1>3, <1>4, PublishStep DEF Verified

\* Records of edges and the labels they have.
LEMMA LabelFact ==
  ASSUME IInv
  PROVE  /\ {k.relation : k \in DOMAIN db.edges} \subseteq Relations
         /\ \A r \in EdgeRecords(db.edges) :
              /\ r.key.relation \in {k.relation : k \in DOMAIN db.edges}
              /\ {r.key.src, r.key.dst} \subseteq Universe
<1>1. DbTypes
  BY DEF IInv, Types
<1>2. ASSUME NEW r \in EdgeRecords(db.edges)
      PROVE  /\ r.key \in DOMAIN db.edges /\ r.key \in KeyOf
             /\ {r.key.src, r.key.dst} \subseteq Universe
  BY <1>1 DEF DbTypes, EdgeRecords, EdgeRecord, KeyOf
<1>3. ASSUME NEW k \in DOMAIN db.edges
      PROVE  k \in KeyOf /\ k.relation \in Relations
  <2>1. [key |-> k, count |-> db.edges[k]] \in EdgeRecords(db.edges)
    BY DEF EdgeRecords
  <2> QED BY <1>2, <2>1 DEF KeyOf
<1> QED BY <1>2, <1>3

\* Every account of the universe is a vertex of the graph.
LEMMA MergeVerticesInv ==
  ASSUME IInv, MergeVertices
  PROVE  IInv'
<1> DEFINE labels == {k.relation : k \in DOMAIN db.edges}
<1>1. /\ pc = "vertices" /\ graph' = [graph EXCEPT !.vertices = @ \cup Universe]
      /\ pc' = "label" /\ todo' = labels /\ chunk' = 0
      /\ UNCHANGED <<version, cache, db, out, records, session, mem>>
  BY DEF MergeVertices, UpsertVertices, Goto
<1>2. DbTypes /\ OutTypes /\ GraphInv
  BY DEF IInv, Types
<1>3. graph = NoGraph
  BY <1>1, <1>2 DEF GraphInv
<1>4. graph' = [vertices |-> Universe, edges |-> EmptyBag]
  BY <1>1, <1>3 DEF NoGraph
<1>5. DbTypes' /\ OutTypes' /\ GraphTypes'
  <2>1. DbTypes' /\ OutTypes'
    BY <1>1, <1>2 DEF DbTypes, OutTypes, OutputsOK
  <2>2. DOMAIN EmptyBag = {}
    BY DEF EmptyBag, SetToBag
  <2>3. GraphTypes'
    BY <1>4, <2>2 DEF GraphTypes
  <2> QED BY <2>1, <2>3
<1>6. WorkInv'
  BY <1>1, LabelFact DEF WorkInv
<1>7. GraphInv'
  <2>1. {r \in EdgeRecords(db'.edges) :
           r.key.relation \in {k.relation : k \in DOMAIN db'.edges} \ todo'} = {}
    BY <1>1
  <2>2. graph'.edges = InGraph({k.relation : k \in DOMAIN db.edges} \ todo)'
    <3>1. graph'.edges = SetToBag({})
      BY <1>4 DEF EmptyBag
    <3> QED BY <2>1, <3>1 DEF InGraph
  <2> QED BY <1>1, <1>2, <1>4, <2>2 DEF GraphInv, Between, Aggregated
<1> QED BY <1>1, <1>5, <1>6, <1>7, PublishStep DEF Verified

\* The edges of one label are created, none of which was there.
LEMMA CreateEdgesInv ==
  ASSUME IInv, CreateEdges
  PROVE  IInv'
<1> PICK m, labels : m = Min(todo) /\ labels = {k.relation : k \in DOMAIN db.edges}
  OBVIOUS
<1> DEFINE Old == {r \in EdgeRecords(db.edges) : r.key.relation \in labels \ todo}
           New == {r \in EdgeRecords(db.edges) : r.key.relation = m}
<1>1. /\ pc = "label" /\ todo # {}
      /\ graph' = [graph EXCEPT !.edges = @ (+)
           SetToBag({r \in EdgeRecords(db.edges) :
             /\ r.key.relation = m
             /\ {r.key.src, r.key.dst} \subseteq graph.vertices})]
      /\ pc' = "label" /\ todo' = todo \ {m} /\ chunk' = chunk
      /\ UNCHANGED <<version, cache, db, out, records, session, mem>>
  BY DEF CreateEdges, SyncEdges
<1>2. DbTypes /\ OutTypes /\ GraphTypes /\ SessionTypes /\ GraphInv /\ todo \subseteq Relations
  BY <1>1 DEF IInv, Types, WorkInv
<1>3. m \in todo
  <2>1. todo \in SUBSET Nat
    BY <1>2 DEF Relations
  <2> QED BY <1>1, <2>1, MinFact
<1>4. graph.vertices = Universe /\ graph.edges = SetToBag(Old)
  BY <1>1, <1>2 DEF GraphInv, InGraph
<1>5. {r \in EdgeRecords(db.edges) :
         /\ r.key.relation = m
         /\ {r.key.src, r.key.dst} \subseteq graph.vertices} = New
  BY <1>4, LabelFact
<1>6. graph' = [vertices |-> Universe, edges |-> SetToBag(Old) (+) SetToBag(New)]
  BY <1>1, <1>2, <1>4, <1>5 DEF GraphTypes
<1>7. /\ Old \cap New = {}
      /\ Old \cup New = {r \in EdgeRecords(db.edges) : r.key.relation \in labels \ (todo \ {m})}
  BY <1>3, LabelFact
<1>8. graph' = [vertices |-> Universe, edges |-> SetToBag(Old \cup New)]
  BY <1>6, <1>7, AddLabel
<1>9. GraphTypes'
  <2>1. \A r \in Old \cup New : r \in EdgeRecord
    BY <1>2 DEF DbTypes
  <2> HIDE DEF Old, New
  <2> QED BY <1>8, <2>1 DEF GraphTypes, SetToBag
<1>10. DbTypes' /\ OutTypes' /\ WorkInv'
  BY <1>1, <1>2 DEF DbTypes, OutTypes, OutputsOK, WorkInv
<1>11. GraphInv'
  <2>1. graph'.edges = InGraph({k.relation : k \in DOMAIN db.edges} \ todo)'
    <3>1. {r \in EdgeRecords(db'.edges) :
             r.key.relation \in {k.relation : k \in DOMAIN db'.edges} \ todo'} = Old \cup New
      <4>1. /\ db'.edges = db.edges /\ todo' = todo \ {m}
            /\ {k.relation : k \in DOMAIN db'.edges} = labels
        BY <1>1
      <4> QED BY <1>7, <4>1
    <3> HIDE DEF Old, New
    <3> QED BY <1>8, <3>1 DEF InGraph
  <2> QED BY <1>1, <1>2, <1>8, <2>1 DEF GraphInv, Between, Aggregated
<1> QED BY <1>1, <1>2, <1>9, <1>10, <1>11, PublishStep DEF Verified, SessionTypes

\* When all labels are through, the graph is the published one.
LEMMA MarkPublishedInv ==
  ASSUME IInv, MarkPublished
  PROVE  IInv'
<1>1. /\ pc = "label" /\ todo = {} /\ db' = [db EXCEPT !.status = "PUBLISHED"]
      /\ pc' = "validate" /\ todo' = {} /\ chunk' = 0
      /\ UNCHANGED <<version, cache, graph, out, records, session, mem>>
  BY DEF MarkPublished, UpsertRun, Goto
<1>2. DbTypes /\ OutTypes /\ GraphTypes /\ GraphInv
  BY DEF IInv, Types
<1>3. db' = [sums |-> db.sums, chunks |-> db.chunks, events |-> db.events,
             tweets |-> db.tweets, edges |-> db.edges, status |-> "PUBLISHED"]
  BY <1>1, <1>2 DEF DbTypes
<1>4. DbTypes' /\ OutTypes' /\ GraphTypes' /\ WorkInv'
  BY <1>1, <1>2, <1>3 DEF DbTypes, OutTypes, OutputsOK, GraphTypes, WorkInv
<1>5. db.edges = CountBy(db.events) /\ graph.vertices = Universe
  BY <1>1, <1>2 DEF GraphInv, Aggregated
<1>6. graph.edges = SetToBag(EdgeRecords(CountBy(db.events)))
  <2>1. EdgeRecords(db.edges) = {r \in EdgeRecords(db.edges) :
                                   r.key.relation \in {k.relation : k \in DOMAIN db.edges} \ todo}
    BY <1>1, LabelFact
  <2>2. graph.edges = SetToBag(EdgeRecords(db.edges))
    BY <1>1, <1>2, <2>1 DEF GraphInv, InGraph
  <2> QED BY <1>5, <2>2
<1>7. PublishedGraph'
  <2> DEFINE Edges(events) ==
        {[key |-> EdgeKey(e),
          count |-> Cardinality({d \in events : EdgeKey(d) = EdgeKey(e)})] : e \in events}
  <2>1. graph'.edges = SetToBag(Edges(db'.events)) /\ graph'.vertices = Universe
    <3>1. db'.events = db.events /\ graph' = graph
      BY <1>1, <1>3
    <3>2. EdgeRecords(CountBy(db.events)) = Edges(db.events)
      BY AggregateFact
    <3> HIDE DEF Edges
    <3> QED BY <1>5, <1>6, <3>1, <3>2
  <2> QED BY <2>1 DEF PublishedGraph
<1>8. GraphInv'
  BY <1>1, <1>3, <1>5, <1>7 DEF GraphInv, Aggregated
<1> QED BY <1>1, <1>3, <1>4, <1>8, PublishStep DEF Verified

\* Validation reports, and changes nothing it reports on.
LEMMA ValidateInv ==
  ASSUME IInv, Validate
  PROVE  IInv'
<1>1. /\ pc = "validate" /\ Leave("done")
      /\ \E b \in BOOLEAN : report' = [passed |-> b]
      /\ UNCHANGED <<version, cache, db, graph, out, manifest>>
  BY DEF Validate, stores, FileGates
<1>2. SourceTypes /\ OutTypes /\ RecordTypes
  BY DEF IInv, Types
<1>3. cache' \in SumsOf /\ OutTypes' /\ RecordTypes'
  BY <1>1, <1>2 DEF SourceTypes, OutTypes, OutputsOK, RecordTypes
<1> QED BY <1>1, <1>3, LeaveInv DEF Between

\* A killed session leaves what it had committed.
LEMMA CrashInv ==
  ASSUME IInv, Crash
  PROVE  IInv'
<1>1. /\ Leave("down")
      /\ \/ out' = out \/ out' = [out EXCEPT !["x"] = Absent]
         \/ out' = [out EXCEPT !["mask"] = Absent]
      /\ UNCHANGED <<version, cache, db, graph, manifest, report>>
  BY DEF Crash, records
<1>2. SourceTypes /\ OutTypes /\ RecordTypes
  BY DEF IInv, Types
<1>3. OutTypes'
  <2>1. CASE out' = out
    BY <1>2, <2>1 DEF OutTypes, OutputsOK
  <2>2. CASE out' = [out EXCEPT !["x"] = Absent]
    <3>1. out' = [events |-> out.events, parts |-> out.parts, x |-> Absent, mask |-> out.mask]
      BY <1>2, <2>2 DEF OutTypes
    <3> QED BY <1>2, <3>1 DEF OutTypes, OutputsOK
  <2>3. CASE out' = [out EXCEPT !["mask"] = Absent]
    <3>1. out' = [events |-> out.events, parts |-> out.parts, x |-> out.x, mask |-> Absent]
      BY <1>2, <2>3 DEF OutTypes
    <3> QED BY <1>2, <3>1 DEF OutTypes, OutputsOK
  <2> QED BY <1>1, <2>1, <2>2, <2>3
<1>4. cache' \in SumsOf /\ RecordTypes'
  BY <1>1, <1>2 DEF SourceTypes, RecordTypes
<1> QED BY <1>1, <1>3, <1>4, LeaveInv DEF Between

\* Between sessions workbooks and copies may change: no session reads them.
LEMMA BetweenInv ==
  ASSUME IInv, LoseCache \/ \E f \in Files : ReplaceSource(f)
  PROVE  IInv'
<1>1. /\ pc \in Between
      /\ UNCHANGED <<db, graph, out, manifest, report, pc, files, sync, mem, todo, chunk>>
  BY DEF LoseCache, ReplaceSource, stores, records, session
<1>2. /\ SourceTypes /\ DbTypes /\ GraphTypes /\ OutTypes /\ RecordTypes /\ SessionTypes
      /\ WorkInv /\ SumsInv /\ CopiesInv /\ GraphInv
  BY DEF IInv, Types
<1>3. SourceTypes'
  <2>1. CASE LoseCache
    BY <1>2, <2>1, SumsFact DEF LoseCache, SourceTypes
  <2>2. ASSUME NEW f \in Files, ReplaceSource(f) PROVE SourceTypes'
    <3>1. PICK v \in Versions(f) : version' = [version EXCEPT ![f] = v] /\ cache' = cache
      BY <2>2 DEF ReplaceSource
    <3>2. /\ version' \in SumsOf
          /\ \A g \in Files : version'[g] = IF g = f THEN v ELSE version[g]
      <4>1. version \in SumsOf /\ v \in Versions(f) \cup {"none"}
        BY <1>2 DEF SourceTypes
      <4>2. /\ [version EXCEPT ![f] = v] \in SumsOf
            /\ \A g \in Files : [version EXCEPT ![f] = v][g] = IF g = f THEN v ELSE version[g]
        BY <4>1, SumsFact
      <4> QED BY <3>1, <4>2
    <3> QED BY <1>2, <3>1, <3>2, VersionFact DEF SourceTypes
  <2> QED BY <2>1, <2>2
<1>4. DbTypes' /\ GraphTypes' /\ OutTypes' /\ RecordTypes' /\ SessionTypes'
  BY <1>1, <1>2 DEF DbTypes, GraphTypes, OutTypes, OutputsOK, RecordTypes, SessionTypes
<1>5. WorkInv' /\ SumsInv' /\ CopiesInv' /\ GraphInv'
  BY <1>1, <1>2 DEF WorkInv, SumsInv, CopiesInv, GraphInv, PublishedGraph, OnRecord,
                    Between, Verified, Aggregated
<1>6. TweetsInv' /\ EventsInv' /\ ChunksInv'
  <2>1. \A f \in Files : OnRecord(f) => OnRecord(f)' /\ manifest'[f] = manifest[f]
    BY <1>1 DEF OnRecord
  <2> QED BY <1>1, <2>1, TablesStay DEF ChunksInv, Between
<1> QED BY <1>3, <1>4, <1>5, <1>6 DEF IInv, Types

-----------------------------------------------------------------------------
(***************************************************************************)
(* The theorems.                                                           *)
(***************************************************************************)
\* Every step of every session, and of the environment, keeps the invariant.
LEMMA NextInv ==
  ASSUME IInv, [Next]_vars
  PROVE  IInv'
<1>1. CASE Step
  BY <1>1, SetupFlushInv, VerifyFileInv, RefuseFileInv, VerifyFlushInv, NextFileInv,
     SkipChunkInv, InsertTweetsInv, InsertEventsInv, MarkChunkInv, StageInv,
     ExportEventsInv, RebuildEdgesInv, WritePartInv, SaveXInv, SaveMaskInv,
     ResetGraphInv, MergeVerticesInv, CreateEdgesInv, MarkPublishedInv, ValidateInv
  DEF Step
<1>2. CASE Disturbance
  BY <1>2, CrashInv, BetweenInv DEF Disturbance
<1>3. CASE \E fs \in FileLists, s \in Syncs : Setup(fs, s)
  BY <1>3, SetupInv
<1>4. CASE UNCHANGED vars
  <2>1. UNCHANGED <<version, cache, db, graph, out, manifest, report, pc, files, sync, mem,
                    todo, chunk>>
    BY <1>4 DEF vars, stores, records, session
  <2>2. Types'
    BY <2>1 DEF IInv, Types, SourceTypes, DbTypes, GraphTypes, OutTypes, OutputsOK,
                RecordTypes, SessionTypes
  <2>3. WorkInv' /\ SumsInv' /\ CopiesInv'
    BY <2>1 DEF IInv, WorkInv, ReadChunk, NChunks, Rows, SumsInv, CopiesInv, OnRecord
  <2>4. TweetsInv' /\ EventsInv' /\ ChunksInv'
    <3>1. \A f \in Files : OnRecord(f) => OnRecord(f)' /\ manifest'[f] = manifest[f]
      BY <2>1 DEF OnRecord
    <3>2. \A g, d : /\ HasTweets(g, d) => HasTweets(g, d)'
                    /\ HasEvents(g, d) => HasEvents(g, d)'
      BY <2>1 DEF HasTweets, HasEvents, Ingested
    <3> QED BY <2>1, <3>1, <3>2, TablesStay DEF IInv, ChunksInv
  <2>5. GraphInv'
    BY <2>1 DEF IInv, GraphInv, InGraph, PublishedGraph
  <2> QED BY <2>2, <2>3, <2>4, <2>5 DEF IInv
<1> QED BY <1>1, <1>2, <1>3, <1>4 DEF Next

\* The inductive invariant holds throughout.
THEOREM Inductive == Spec => []IInv
<1> QED BY InitInv, NextInv, PTL DEF Spec

\* Every table, file and record keeps the shape the code gives it.
THEOREM TypeCorrect == Spec => []TypeOK
<1>1. ASSUME IInv PROVE TypeOK
  <2>1. /\ Types /\ WorkInv
    BY <1>1 DEF IInv
  <2>2. todo \subseteq Files \cup Parts \cup Relations
    BY <2>1 DEF WorkInv, Types, SessionTypes
  <2> QED BY <2>1, <2>2 DEF TypeOK, Types, SourceTypes, DbTypes, GraphTypes, OutTypes,
                            RecordTypes, SessionTypes
<1> QED BY <1>1, Inductive, PTL

\* Whatever kills, repetitions and replaced workbooks came before, the tables
\* hold rows of the one recorded content of each workbook, a marked chunk is in
\* them whole, and no event is there before its tweet.
THEOREM TablesAreExact == Spec => []TablesExact
<1>1. ASSUME IInv PROVE TablesExact
  <2>1. DbTypes /\ SumsInv /\ TweetsInv /\ EventsInv /\ ChunksInv
    BY <1>1 DEF IInv, Types
  <2> QED BY <2>1 DEF TablesExact, DbTypes, SumsInv, TweetsInv, EventsInv, ChunksInv,
                      HasTweets, HasEvents
<1> QED BY <1>1, Inductive, PTL

\* A run marked PUBLISHED has every account and every edge of its events in the
\* AGE graph exactly once, with its count.
THEOREM GraphIsPublished == Spec => []PublishedGraph
<1>1. ASSUME IInv PROVE PublishedGraph
  BY <1>1 DEF IInv, GraphInv, PublishedGraph
<1> QED BY <1>1, Inductive, PTL

-----------------------------------------------------------------------------
(***************************************************************************)
(* What a session writes, stage after stage, until it validates.           *)
(***************************************************************************)
\* The stages after each of the files of publish.
Exported == {"edges", "parts", "x", "mask", "graph", "vertices", "label", "validate", "done"}
Divided == Exported \ {"edges", "parts"}
Described == Divided \ {"x"}
Masked == Described \ {"mask"}

\* Tweet and events of a row are in the tables.
HasRow(f, i) ==
  Authored(Ingested(f)[i]) =>
    /\ \E t \in db.tweets : t.file = f /\ t.row = i
    /\ \A s \in Signatures(Ingested(f)[i]) : \E e \in db.events : e.sig = s

\* The rows behind the place process_files is at are in the tables.
RowsInv ==
  /\ pc \in {"tweets", "events", "mark"} =>
       /\ \A f \in files \ todo : \A i \in DOMAIN Ingested(f) : HasRow(f, i)
       /\ todo # {} => \A c \in 0 .. (chunk - 1) : \A i \in DOMAIN Ingested(Min(todo)) :
                         (i - 1) \div ChunkSize = c => HasRow(Min(todo), i)
  /\ pc \in {"export"} \cup Exported =>
       \A f \in files : \A i \in DOMAIN Ingested(f) : HasRow(f, i)

\* The files behind the place publish is at are those of the tables.
OutInv ==
  /\ pc \in Exported => out.events = db.events
  /\ pc \in Exported \ {"edges"} => db.edges = CountBy(db.events)
  /\ pc = "parts" => \A p \in Parts \ todo : PartRows(db.edges, p) \in {{}, out.parts[p]}
  /\ pc \in Divided => \A p \in Parts : PartRows(db.edges, p) \in {{}, out.parts[p]}
  /\ pc \in Described => out.x = Features(db.edges, db.tweets)
  /\ pc \in Masked => out.mask = ActiveSlots(db.edges, db.tweets)

\* A row stays in the tables.
LEMMA RowsStay ==
  ASSUME manifest' = manifest, db.tweets \subseteq db'.tweets, db.events \subseteq db'.events
  PROVE  /\ \A f : Ingested(f)' = Ingested(f)
         /\ \A f, i : HasRow(f, i) => HasRow(f, i)'
<1>1. \A f : Ingested(f)' = Ingested(f)
  BY DEF Ingested
<1>2. ASSUME NEW f, NEW i, HasRow(f, i) PROVE HasRow(f, i)'
  <2>1. Authored(Ingested(f)[i])' = Authored(Ingested(f)[i])
    BY <1>1
  <2>2. Signatures(Ingested(f)[i])' = Signatures(Ingested(f)[i])
    BY <1>1
  <2> QED BY <1>2, <2>1, <2>2 DEF HasRow
<1> QED BY <1>1, <1>2

\* The rows of a chunk that has its tweets and events.
LEMMA RowsOfChunk ==
  ASSUME NEW f, NEW c, HasTweets(f, c), HasEvents(f, c)
  PROVE  \A i \in DOMAIN Ingested(f) : (i - 1) \div ChunkSize = c => HasRow(f, i)
<1> QED BY DEF HasTweets, HasEvents, HasRow

\* In a stage that is not of process_files or publish nothing is said.
LEMMA OtherStages ==
  ASSUME pc' \notin {"tweets", "events", "mark", "export"} \cup Exported
  PROVE  RowsInv' /\ OutInv'
<1> QED BY DEF RowsInv, OutInv, Exported, Divided, Described, Masked

\* A stage of process_files says nothing of files.
LEMMA NoFilesYet ==
  ASSUME pc' \in {"tweets", "events", "mark", "export"}
  PROVE  OutInv'
<1> QED BY DEF OutInv, Exported, Divided, Described, Masked

\* A stage of publish changes no row.
LEMMA PublishKeepsRows ==
  ASSUME RowsInv, pc \in {"export"} \cup Exported, pc' \in {"export"} \cup Exported,
         UNCHANGED <<files, manifest>>, db'.tweets = db.tweets, db'.events = db.events
  PROVE  RowsInv'
<1>1. \A f \in files : \A i \in DOMAIN Ingested(f) : HasRow(f, i)
  BY DEF RowsInv
<1>2. \A f \in files' : \A i \in DOMAIN Ingested(f)' : HasRow(f, i)'
  BY <1>1, RowsStay
<1>3. pc' \notin {"tweets", "events", "mark"}
  BY DEF Exported
<1> QED BY <1>2, <1>3 DEF RowsInv

\* A step of publish that changes neither events, tweets nor edges, nor a
\* file: those it has passed are what they were.
LEMMA FilesStay ==
  ASSUME RowsInv, OutInv, pc \in {"export"} \cup Exported, pc' \in {"export"} \cup Exported,
         UNCHANGED <<files, manifest, out>>,
         db'.tweets = db.tweets, db'.events = db.events, db'.edges = db.edges,
         pc' \in Exported => pc \in Exported,
         pc' \in Exported \ {"edges"} => pc \in Exported \ {"edges"},
         pc' = "parts" => pc = "parts" /\ todo' = todo,
         pc' \in Divided => pc \in Divided \/ (pc = "parts" /\ todo = {}),
         pc' \in Described => pc \in Described,
         pc' \in Masked => pc \in Masked
  PROVE  RowsInv' /\ OutInv'
<1>1. RowsInv'
  BY PublishKeepsRows
<1>2. pc' = "parts" => \A p \in Parts \ todo' : PartRows(db.edges, p) \in {{}, out.parts[p]}
  BY DEF OutInv
<1>3. pc' \in Divided => \A p \in Parts : PartRows(db.edges, p) \in {{}, out.parts[p]}
  BY DEF OutInv
<1>4. /\ pc' \in Exported => out.events = db.events
      /\ pc' \in Exported \ {"edges"} => db.edges = CountBy(db.events)
      /\ pc' \in Described => out.x = Features(db.edges, db.tweets)
      /\ pc' \in Masked => out.mask = ActiveSlots(db.edges, db.tweets)
  BY DEF OutInv
<1>5. OutInv'
  BY <1>2, <1>3, <1>4 DEF OutInv
<1> QED BY <1>1, <1>5

\* The steps of process_files: at the beginning nothing is behind.
LEMMA VerifyFlushRows ==
  ASSUME VerifyFlush
  PROVE  RowsInv' /\ OutInv'
<1>1. pc' = "tweets" /\ todo' = files /\ files' = files /\ chunk' = 0
  BY DEF VerifyFlush, Goto, session
<1>2. files' \ todo' = {} /\ 0 .. (chunk' - 1) = {}
  BY <1>1
<1>3. RowsInv'
  BY <1>1, <1>2 DEF RowsInv, Exported
<1> QED BY <1>1, <1>3, NoFilesYet

\* The last chunk of a file is behind: the whole file is.
LEMMA NextFileRows ==
  ASSUME IInv, RowsInv, NextFile
  PROVE  RowsInv' /\ OutInv'
<1>1. /\ pc = "tweets" /\ todo # {} /\ chunk = NChunks(Min(todo))
      /\ pc' = "tweets" /\ todo' = todo \ {Min(todo)} /\ chunk' = 0
      /\ UNCHANGED <<db, manifest, files>>
  BY DEF NextFile, Goto, session, stores, records
<1>2. PICK f \in Files : f = Min(todo)
  BY <1>1, CurrentFile
<1>3. cache[f] \in Versions(f) /\ Rows(f) = Ingested(f)
  BY <1>1, <1>2, CurrentFile
<1>4. \A i \in DOMAIN Ingested(f) : HasRow(f, i)
  <2> SUFFICES ASSUME NEW i \in DOMAIN Ingested(f) PROVE HasRow(f, i)
    OBVIOUS
  <2>1. PICK v \in Versions(f) : v = cache[f] /\ Ingested(f) = Source[f][v]
    BY <1>3 DEF Rows
  <2>2. PICK n \in Nat : n = Len(Source[f][v]) /\ DOMAIN Ingested(f) = 1 .. n
    BY <2>1, VersionFact, FilesAssumption
  <2>3. chunk = (n + ChunkSize - 1) \div ChunkSize
    BY <1>1, <1>2, <2>1, <2>2 DEF NChunks, Rows
  <2>4. (i - 1) \div ChunkSize \in 0 .. (chunk - 1)
    BY <2>2, <2>3, ChunkFact
  <2> QED BY <1>1, <1>2, <2>4 DEF RowsInv
<1>5. \A g \in files' \ todo' : \A i \in DOMAIN Ingested(g)' : HasRow(g, i)'
  <2>1. \A g \in files \ todo' : \A i \in DOMAIN Ingested(g) : HasRow(g, i)
    BY <1>1, <1>2, <1>4 DEF RowsInv
  <2> QED BY <1>1, <2>1, RowsStay
<1>6. 0 .. (chunk' - 1) = {}
  BY <1>1
<1>7. RowsInv'
  BY <1>1, <1>5, <1>6 DEF RowsInv, Exported
<1> QED BY <1>1, <1>7, NoFilesYet

\* A chunk that has its tweets and events is behind.
LEMMA ChunkRowsBehind ==
  ASSUME IInv, RowsInv, SkipChunk \/ MarkChunk
  PROVE  RowsInv' /\ OutInv'
<1>1. /\ pc \in {"tweets", "mark"} /\ ReadChunk /\ pc' = "tweets" /\ todo' = todo
      /\ chunk' = chunk + 1 /\ chunk \in 0 .. MaxRows
      /\ db'.tweets = db.tweets /\ db'.events = db.events
      /\ UNCHANGED <<manifest, files>>
  <2>1. chunk \in 0 .. MaxRows /\ (pc = "mark" => ReadChunk) /\ DbTypes
    BY DEF IInv, Types, SessionTypes, WorkInv
  <2> QED BY <2>1 DEF SkipChunk, MarkChunk, RecordChunk, DbTypes, session, stores, records
<1>2. HasTweets(Min(todo), chunk) /\ HasEvents(Min(todo), chunk)
  <2>1. CASE SkipChunk
    <3>1. <<Min(todo), chunk>> \in db.chunks
      BY <2>1 DEF SkipChunk, ChunkDone
    <3> QED BY <3>1 DEF IInv, ChunksInv
  <2>2. CASE MarkChunk
    BY <2>2 DEF MarkChunk, IInv, ChunksInv
  <2> QED BY <2>1, <2>2
<1>3. \A c \in 0 .. (chunk' - 1) : \A i \in DOMAIN Ingested(Min(todo)) :
        (i - 1) \div ChunkSize = c => HasRow(Min(todo), i)
  <2>1. \A c \in 0 .. (chunk - 1) : \A i \in DOMAIN Ingested(Min(todo)) :
          (i - 1) \div ChunkSize = c => HasRow(Min(todo), i)
    BY <1>1 DEF RowsInv, ReadChunk
  <2>2. \A c \in 0 .. (chunk' - 1) : c = chunk \/ c \in 0 .. (chunk - 1)
    BY <1>1, FilesAssumption
  <2> QED BY <1>2, <2>1, <2>2, RowsOfChunk
<1>4. /\ \A g \in files' \ todo' : \A i \in DOMAIN Ingested(g)' : HasRow(g, i)'
      /\ \A c \in 0 .. (chunk' - 1) : \A i \in DOMAIN Ingested(Min(todo))' :
           (i - 1) \div ChunkSize = c => HasRow(Min(todo), i)'
  <2>1. \A g \in files \ todo : \A i \in DOMAIN Ingested(g) : HasRow(g, i)
    BY <1>1 DEF RowsInv
  <2>2. Min(todo)' = Min(todo)
    BY <1>1
  <2> QED BY <1>1, <1>3, <2>1, <2>2, RowsStay
<1>5. RowsInv'
  BY <1>1, <1>4 DEF RowsInv, Exported
<1> QED BY <1>1, <1>5, NoFilesYet

\* Tweets and events are added: the rows behind stay.
LEMMA InsertRows ==
  ASSUME IInv, RowsInv, InsertTweets \/ InsertEvents
  PROVE  RowsInv' /\ OutInv'
<1>1. /\ pc \in {"tweets", "events"} /\ pc' \in {"events", "mark"}
      /\ db.tweets \subseteq db'.tweets /\ db.events \subseteq db'.events
      /\ UNCHANGED <<manifest, files, todo, chunk>>
  <2>1. DbTypes
    BY DEF IInv, Types
  <2>2. CASE InsertTweets
    BY <2>1, <2>2 DEF InsertTweets, InsertTweetsIgnore, DbTypes, session, records
  <2>3. CASE InsertEvents
    BY <2>1, <2>3 DEF InsertEvents, InsertEventsIgnore, DbTypes, session, records
  <2> QED BY <2>2, <2>3
<1>2. /\ \A g \in files' \ todo' : \A i \in DOMAIN Ingested(g)' : HasRow(g, i)'
      /\ todo # {} => \A c \in 0 .. (chunk' - 1) : \A i \in DOMAIN Ingested(Min(todo))' :
           (i - 1) \div ChunkSize = c => HasRow(Min(todo), i)'
  <2>1. /\ \A g \in files \ todo : \A i \in DOMAIN Ingested(g) : HasRow(g, i)
        /\ todo # {} => \A c \in 0 .. (chunk - 1) : \A i \in DOMAIN Ingested(Min(todo)) :
             (i - 1) \div ChunkSize = c => HasRow(Min(todo), i)
    BY <1>1 DEF RowsInv
  <2>2. Min(todo)' = Min(todo)
    BY <1>1
  <2> QED BY <1>1, <2>1, <2>2, RowsStay
<1>3. RowsInv'
  BY <1>1, <1>2 DEF RowsInv, Exported
<1> QED BY <1>1, <1>3, NoFilesYet

\* All files are behind.
LEMMA ProcessedRows ==
  ASSUME IInv, RowsInv, Processed
  PROVE  RowsInv' /\ OutInv'
<1>1. /\ pc = "tweets" /\ todo = {} /\ pc' = "export"
      /\ UNCHANGED <<db, manifest, files>>
  BY DEF Processed, Goto, session, stores, records
<1>2. \A g \in files : \A i \in DOMAIN Ingested(g) : HasRow(g, i)
  BY <1>1 DEF RowsInv
<1>3. \A g \in files' : \A i \in DOMAIN Ingested(g)' : HasRow(g, i)'
  BY <1>1, <1>2, RowsStay
<1>4. RowsInv'
  BY <1>1, <1>3 DEF RowsInv, Exported
<1> QED BY <1>1, <1>4, NoFilesYet

\* The events are exported.
LEMMA ExportEventsOut ==
  ASSUME IInv, RowsInv, OutInv, ExportEvents
  PROVE  RowsInv' /\ OutInv'
<1>1. /\ pc = "export" /\ pc' = "edges" /\ UNCHANGED <<db, manifest, files>>
      /\ out' = [out EXCEPT !["events"] = db.events]
  BY DEF ExportEvents, Publish, Goto, session, records
<1>2. out'.events = db.events
  BY <1>1 DEF IInv, Types, OutTypes
<1>3. RowsInv'
  BY <1>1, PublishKeepsRows DEF Exported
<1>4. OutInv'
  BY <1>1, <1>2 DEF OutInv, Exported, Divided, Described, Masked
<1> QED BY <1>3, <1>4

\* The edges are aggregated; parts without edges need no file.
LEMMA RebuildEdgesOut ==
  ASSUME IInv, RowsInv, OutInv, RebuildEdges
  PROVE  RowsInv' /\ OutInv'
<1>1. /\ pc = "edges" /\ pc' = "parts" /\ UNCHANGED <<out, manifest, files>>
      /\ db' = [db EXCEPT !.edges = CountBy(db.events)]
      /\ todo' = {p \in Parts : PartRows(db'.edges, p) # {}}
  BY DEF RebuildEdges, Goto, session, records
<1>2. /\ db'.edges = CountBy(db.events)
      /\ db'.events = db.events /\ db'.tweets = db.tweets
  BY <1>1 DEF IInv, Types, DbTypes
<1>3. RowsInv'
  BY <1>1, <1>2, PublishKeepsRows DEF Exported
<1>4. \A p \in Parts \ todo' : PartRows(db'.edges, p) = {}
  BY <1>1
<1>5. out'.events = db'.events
  BY <1>1, <1>2 DEF OutInv, Exported
<1>6. OutInv'
  BY <1>1, <1>2, <1>4, <1>5 DEF OutInv, Exported, Divided, Described, Masked
<1> QED BY <1>3, <1>6

\* One more part is written.
LEMMA WritePartOut ==
  ASSUME IInv, RowsInv, OutInv, WritePart
  PROVE  RowsInv' /\ OutInv'
<1>1. PICK p : p = Min(todo)
  OBVIOUS
<1>2. /\ pc = "parts" /\ pc' = "parts" /\ UNCHANGED <<db, manifest, files>>
      /\ out' = [out EXCEPT !["parts"] = [out.parts EXCEPT ![p] = PartRows(db.edges, p)]]
      /\ todo' = todo \ {p}
  BY <1>1 DEF WritePart, Publish, session, records
<1>3. DOMAIN out.parts = Parts
  BY DEF IInv, Types, OutTypes, OutputsOK
<1>4. /\ out'.parts = [out.parts EXCEPT ![p] = PartRows(db.edges, p)]
      /\ out'.events = out.events
  BY <1>2 DEF IInv, Types, OutTypes
<1>5. /\ \A q \in Parts \ todo : PartRows(db.edges, q) \in {{}, out.parts[q]}
      /\ out.events = db.events /\ db.edges = CountBy(db.events)
  BY <1>2 DEF OutInv, Exported
<1>6. \A q \in Parts \ todo' : PartRows(db.edges, q) \in {{}, out'.parts[q]}
  BY <1>2, <1>3, <1>4, <1>5
<1>7. RowsInv'
  BY <1>2, PublishKeepsRows DEF Exported
<1>8. OutInv'
  BY <1>2, <1>4, <1>5, <1>6 DEF OutInv, Exported, Divided, Described, Masked
<1> QED BY <1>7, <1>8

\* Features, then mask, are saved.
LEMMA SaveOut ==
  ASSUME IInv, RowsInv, OutInv, SaveX \/ SaveMask
  PROVE  RowsInv' /\ OutInv'
<1>1. /\ UNCHANGED <<db, manifest, files>>
      /\ \/ /\ pc = "x" /\ pc' = "mask"
            /\ out' = [out EXCEPT !["x"] = Features(db.edges, db.tweets)]
         \/ /\ pc = "mask" /\ pc' \in {"graph", "validate"}
            /\ out' = [out EXCEPT !["mask"] = ActiveSlots(db.edges, db.tweets)]
  BY DEF SaveX, SaveMask, Publish, Goto, session, records
<1>2. /\ out'.events = out.events /\ out'.parts = out.parts
      /\ IF pc = "x" THEN out'.x = Features(db.edges, db.tweets)
                     ELSE out'.x = out.x /\ out'.mask = ActiveSlots(db.edges, db.tweets)
  BY <1>1 DEF IInv, Types, OutTypes
<1>3. /\ out.events = db.events /\ db.edges = CountBy(db.events)
      /\ \A p \in Parts : PartRows(db.edges, p) \in {{}, out.parts[p]}
      /\ pc = "mask" => out.x = Features(db.edges, db.tweets)
  BY <1>1 DEF OutInv, Exported, Divided, Described
<1>4. RowsInv'
  BY <1>1, PublishKeepsRows DEF Exported
<1>5. OutInv'
  BY <1>1, <1>2, <1>3 DEF OutInv, Exported, Divided, Described, Masked
<1> QED BY <1>4, <1>5

\* The graph, the gates and the environment leave the files alone.
LEMMA OtherOut ==
  ASSUME IInv, RowsInv, OutInv,
         \/ PartsWritten \/ ResetGraph \/ MergeVertices \/ CreateEdges \/ MarkPublished
         \/ Validate
  PROVE  RowsInv' /\ OutInv'
<1>1. /\ UNCHANGED <<files, manifest, out>>
      /\ db'.tweets = db.tweets /\ db'.events = db.events /\ db'.edges = db.edges
  <2>1. CASE PartsWritten \/ ResetGraph \/ MergeVertices \/ CreateEdges \/ Validate
    BY <2>1 DEF PartsWritten, ResetGraph, MergeVertices, CreateEdges, Validate, Goto, Leave,
       session, records, stores
  <2>2. CASE MarkPublished
    BY <2>2 DEF MarkPublished, UpsertRun, Goto, session, records, IInv, Types, DbTypes
  <2> QED BY <2>1, <2>2
<1>2. \/ pc = "parts" /\ todo = {} /\ pc' = "x"
      \/ pc \in Masked /\ pc' \in Masked
  BY DEF PartsWritten, ResetGraph, MergeVertices, CreateEdges, MarkPublished, Validate, Goto,
     Leave, Exported, Divided, Described, Masked
<1>3. CASE pc = "parts" /\ todo = {} /\ pc' = "x"
  BY <1>1, <1>3, FilesStay DEF Exported, Divided, Described, Masked
<1>4. CASE pc \in Masked /\ pc' \in Masked
  BY <1>1, <1>4, FilesStay DEF Exported, Divided, Described, Masked
<1> QED BY <1>2, <1>3, <1>4

\* Between sessions workbooks and copies change, and nothing else.
LEMMA BetweenOut ==
  ASSUME RowsInv, OutInv, LoseCache \/ (\E f \in Files : ReplaceSource(f)) \/ UNCHANGED vars
  PROVE  RowsInv' /\ OutInv'
<1>1. UNCHANGED <<db, out, manifest, files, pc, todo, chunk>>
  BY DEF LoseCache, ReplaceSource, vars, stores, records, session
<1>2. RowsInv'
  <2>1. /\ \A f : Ingested(f)' = Ingested(f)
        /\ \A f, i : HasRow(f, i) => HasRow(f, i)'
    BY <1>1, RowsStay
  <2>2. Min(todo)' = Min(todo)
    BY <1>1
  <2>3. pc \in {"tweets", "events", "mark"} =>
          /\ \A f \in files \ todo : \A i \in DOMAIN Ingested(f) : HasRow(f, i)'
          /\ todo # {} => \A c \in 0 .. (chunk - 1) : \A i \in DOMAIN Ingested(Min(todo)) :
                            (i - 1) \div ChunkSize = c => HasRow(Min(todo), i)'
    BY <2>1, <2>2 DEF RowsInv
  <2>4. pc \in {"export"} \cup Exported =>
          \A f \in files : \A i \in DOMAIN Ingested(f) : HasRow(f, i)'
    BY <2>1 DEF RowsInv
  <2> QED BY <1>1, <2>1, <2>2, <2>3, <2>4 DEF RowsInv
<1>3. OutInv'
  BY <1>1 DEF OutInv
<1> QED BY <1>2, <1>3

\* Every step keeps rows and files.
LEMMA NextOut ==
  ASSUME IInv, RowsInv, OutInv, [Next]_vars
  PROVE  RowsInv' /\ OutInv'
<1>1. CASE \/ \E fs \in FileLists, s \in Syncs : Setup(fs, s)
           \/ SetupFlush \/ VerifyFile \/ RefuseFile \/ Crash
  <2>1. pc' \in {"setup", "verify", "down"}
    BY <1>1 DEF Setup, SetupFlush, VerifyFile, RefuseFile, Crash, Goto, Leave
  <2> QED BY <2>1, OtherStages DEF Exported
<1>2. CASE VerifyFlush \/ NextFile \/ Processed
  BY <1>2, VerifyFlushRows, NextFileRows, ProcessedRows
<1>3. CASE SkipChunk \/ MarkChunk
  BY <1>3, ChunkRowsBehind
<1>4. CASE InsertTweets \/ InsertEvents
  BY <1>4, InsertRows
<1>5. CASE ExportEvents \/ RebuildEdges \/ WritePart
  BY <1>5, ExportEventsOut, RebuildEdgesOut, WritePartOut
<1>6. CASE SaveX \/ SaveMask
  BY <1>6, SaveOut
<1>7. CASE \/ PartsWritten \/ ResetGraph \/ MergeVertices \/ CreateEdges \/ MarkPublished
           \/ Validate
  BY <1>7, OtherOut
<1>8. CASE LoseCache \/ (\E f \in Files : ReplaceSource(f)) \/ UNCHANGED vars
  BY <1>8, BetweenOut
<1> QED BY <1>1, <1>2, <1>3, <1>4, <1>5, <1>6, <1>7, <1>8 DEF Next, Step, Disturbance

\* Rows and files are as the place in the session says, throughout.
THEOREM InductiveOut == Spec => [](RowsInv /\ OutInv)
<1>1. Init => RowsInv /\ OutInv
  BY DEF Init, RowsInv, OutInv, Exported, Divided, Described, Masked
<1>2. IInv /\ (RowsInv /\ OutInv) /\ [Next]_vars => (RowsInv /\ OutInv)'
  BY NextOut
<1> QED BY <1>1, <1>2, Inductive, PTL DEF Spec

\* Strengths and degrees, which the code computes from the edges, are counts of
\* events.
LEMMA StrengthFact ==
  ASSUME NEW events, IsFiniteSet(events), NEW ks \in SUBSET {EdgeKey(e) : e \in events}
  PROVE  Strength(CountBy(events), ks) = Cardinality({e \in events : EdgeKey(e) \in ks})
<1> DEFINE counts == CountBy(events)
           having(T) == {e \in events : EdgeKey(e) \in T}
           size == [T \in SUBSET ks |-> Cardinality(having(T))]
<1>1. IsFiniteSet(ks)
  <2> DEFINE key == [e \in events |-> EdgeKey(e)]
  <2>1. IsFiniteSet({key[e] : e \in DOMAIN key})
    BY FiniteValues
  <2>2. ks \subseteq {key[e] : e \in DOMAIN key}
    OBVIOUS
  <2> QED BY <2>1, <2>2, FS_Subset
<1>2. size[{}] = 0
  BY FS_EmptySet
<1>3. ASSUME NEW T \in SUBSET ks, NEW k \in T
      PROVE  size[T] = counts[k] + size[T \ {k}]
  <2> DEFINE one == {e \in events : EdgeKey(e) = k}
             rest == having(T \ {k})
  <2>1. /\ size[T] = Cardinality(having(T)) /\ size[T \ {k}] = Cardinality(rest)
        /\ counts[k] = Cardinality(one)
    BY DEF CountBy
  <2>2. having(T) = one \cup rest /\ one \cap rest = {}
    OBVIOUS
  <2>3. IsFiniteSet(one) /\ IsFiniteSet(rest)
    BY FS_Subset
  <2> HIDE DEF one, rest, having, size, counts
  <2>4. Cardinality(one \cup rest) = Cardinality(one) + Cardinality(rest)
    <3>1. Cardinality(one \cap rest) = 0
      BY <2>2, FS_EmptySet
    <3>2. Cardinality(one) \in Nat /\ Cardinality(rest) \in Nat
      BY <2>3, FS_CardinalityType
    <3>3. Cardinality(one \cup rest)
            = Cardinality(one) + Cardinality(rest) - Cardinality(one \cap rest)
      BY <2>3, FS_Union
    <3> QED BY <3>1, <3>2, <3>3
  <2> QED BY <2>1, <2>2, <2>4
<1>4. Strength(CountBy(events), ks) = SumOver(counts, ks)
  BY DEF Strength, SumOver
<1> HIDE DEF counts
<1>5. SumOver(counts, ks) = size[ks]
  <2> HIDE DEF size
  <2>1. GrowsBy(counts, size, ks)
    BY <1>2, <1>3 DEF GrowsBy
  <2> QED BY <1>1, <2>1, SumFact
<1> QED BY <1>4, <1>5

\* The parts on disk list the keys of the events, each in its part; a part of
\* an earlier publication that has no edges any more lists none of them.
LEMMA PartsListKeys ==
  ASSUME IInv, OutInv, pc = "done", NEW p \in Parts, NEW k \in {EdgeKey(e) : e \in db.events}
  PROVE  PartOf(k) = p <=> \E r \in out.parts[p] : r.key = k
<1>1. db.edges = CountBy(db.events) /\ PartRows(db.edges, p) \in {{}, out.parts[p]}
  BY DEF OutInv, Exported, Divided
<1>2. \A r \in out.parts[p] : PartOf(r.key) = p
  BY DEF IInv, Types, OutTypes, OutputsOK
<1>3. DOMAIN db.edges = {EdgeKey(e) : e \in db.events}
  BY <1>1 DEF CountBy
<1>4. PartOf(k) = p => \E r \in PartRows(db.edges, p) : r.key = k
  <2> DEFINE row == [key |-> k, count |-> db.edges[k]]
  <2>1. row \in EdgeRecords(db.edges) /\ row.key = k
    BY <1>3 DEF EdgeRecords
  <2> HIDE DEF row
  <2> QED BY <2>1 DEF PartRows
<1> QED BY <1>1, <1>2, <1>4

\* What SlotExact says of the features of a slot in one relation.
SlotOf(slot, events, tweets, s, n, r) ==
  LET of == {e \in events : Snapshot(e.sig.at) = s}
  IN  /\ slot.tweets = Cardinality({t \in tweets : t.snapshot = s /\ t.author = n})
      /\ slot.outStrength[r] =
           Cardinality({e \in of : e.sig.relation = r /\ e.sig.author = n})
      /\ slot.inDegree[r] =
           Cardinality({e.sig.author : e \in {d \in of :
                          d.sig.relation = r /\ d.sig.target = n}})

\* The features of a slot are those of its tweets and events.
LEMMA SlotFact ==
  ASSUME NEW events, IsFiniteSet(events), NEW tweets, NEW s, NEW n,
         <<s, n>> \in ActiveSlots(CountBy(events), tweets), NEW r \in Relations
  PROVE  SlotOf(Features(CountBy(events), tweets)[<<s, n>>], events, tweets, s, n, r)
<1> DEFINE edges == CountBy(events)
           of == {e \in events : Snapshot(e.sig.at) = s}
           slot == Features(edges, tweets)[<<s, n>>]
<1>1. DOMAIN edges = {EdgeKey(e) : e \in events}
  BY DEF CountBy
<1>2. /\ slot.tweets = TweetCount(tweets, s, n)
      /\ slot.outStrength[r] = Strength(edges, From(edges, s, r, n))
      /\ slot.inDegree[r] = Cardinality({k.src : k \in Into(edges, s, r, n)})
  <2>1. <<s, n>> \in ActiveSlots(edges, tweets)
    OBVIOUS
  <2> HIDE DEF edges
  <2>2. Features(edges, tweets)[<<s, n>>] =
          [outDegree |-> [q \in Relations |-> Cardinality({k.dst : k \in From(edges, s, q, n)})],
           inDegree |-> [q \in Relations |-> Cardinality({k.src : k \in Into(edges, s, q, n)})],
           outStrength |-> [q \in Relations |-> Strength(edges, From(edges, s, q, n))],
           inStrength |-> [q \in Relations |-> Strength(edges, Into(edges, s, q, n))],
           tweets |-> TweetCount(tweets, s, n)]
    BY <2>1 DEF Features
  <2> QED BY <2>2
<1>3. /\ From(edges, s, r, n) = {k \in {EdgeKey(e) : e \in events} :
                                   k.snapshot = s /\ k.relation = r /\ k.src = n}
      /\ Into(edges, s, r, n) = {k \in {EdgeKey(e) : e \in events} :
                                   k.snapshot = s /\ k.relation = r /\ k.dst = n}
  <2> HIDE DEF edges
  <2> QED BY <1>1 DEF From, Into
<1>4. \A e \in events : /\ EdgeKey(e).snapshot = Snapshot(e.sig.at)
                        /\ EdgeKey(e).relation = e.sig.relation
                        /\ EdgeKey(e).src = e.sig.author /\ EdgeKey(e).dst = e.sig.target
  BY DEF EdgeKey
<1>5. slot.outStrength[r] = Cardinality({e \in of : e.sig.relation = r /\ e.sig.author = n})
  <2> DEFINE ks == From(edges, s, r, n)
  <2>1. ks \in SUBSET {EdgeKey(e) : e \in events}
    BY <1>3
  <2>2. {e \in events : EdgeKey(e) \in ks}
          = {e \in of : e.sig.relation = r /\ e.sig.author = n}
    BY <1>3, <1>4
  <2>3. Strength(edges, ks) = Cardinality({e \in events : EdgeKey(e) \in ks})
    BY <2>1, StrengthFact
  <2> QED BY <1>2, <2>2, <2>3
<1>6. slot.inDegree[r] = Cardinality({e.sig.author : e \in {d \in of : d.sig.relation = r
                                                                      /\ d.sig.target = n}})
  <2>1. {k.src : k \in Into(edges, s, r, n)}
          = {e.sig.author : e \in {d \in of : d.sig.relation = r /\ d.sig.target = n}}
    BY <1>3, <1>4
  <2> QED BY <1>2, <2>1
<1>7. slot.tweets = Cardinality({t \in tweets : t.snapshot = s /\ t.author = n})
  BY <1>2 DEF TweetCount
<1> QED BY <1>5, <1>6, <1>7 DEF SlotOf

\* A session that ends with its gates passed has ingested its workbooks whole,
\* and the files of publish are those of the tables: every event, every edge in
\* its part, and for every account and snapshot the features and the mask that
\* its tweets and events call for.
THEOREM ValidatedIsExact == Spec => []ValidatedExact
<1>1. ASSUME IInv, RowsInv, OutInv PROVE ValidatedExact
  <2> SUFFICES ASSUME pc = "done" PROVE ValidatedExact
    BY DEF ValidatedExact
  <2>1. /\ out.events = db.events /\ db.edges = CountBy(db.events)
        /\ out.x = Features(db.edges, db.tweets)
        /\ out.mask = ActiveSlots(db.edges, db.tweets)
    BY <1>1 DEF OutInv, Exported, Divided, Described, Masked
  <2>2. \A f \in files : \A i \in DOMAIN Ingested(f) : HasRow(f, i)
    BY <1>1 DEF RowsInv, Exported
  <2>3. \A p \in Parts : \A k \in {EdgeKey(e) : e \in db.events} :
          PartOf(k) = p <=> \E r \in out.parts[p] : r.key = k
    BY <1>1, PartsListKeys
  <2>4. out.mask = DOMAIN out.x
    BY <2>1 DEF Features
  <2>5. ASSUME NEW s \in Snapshots, NEW n \in Universe
        PROVE  <<s, n>> \in out.mask <=>
                 \/ {t \in db.tweets : t.snapshot = s /\ t.author = n} # {}
                 \/ \E e \in {d \in db.events : Snapshot(d.sig.at) = s} :
                      n \in {e.sig.author, e.sig.target}
    <3>1. DOMAIN db.edges = {EdgeKey(e) : e \in db.events}
      BY <2>1 DEF CountBy
    <3>2. \A e \in db.events : /\ EdgeKey(e).snapshot = Snapshot(e.sig.at)
                              /\ EdgeKey(e).src = e.sig.author
                              /\ EdgeKey(e).dst = e.sig.target
      BY DEF EdgeKey
    <3>3. <<s, n>> \in ActiveSlots(db.edges, db.tweets) <=>
            \/ \E t \in db.tweets : t.snapshot = s /\ t.author = n
            \/ \E k \in DOMAIN db.edges : k.snapshot = s /\ n \in {k.src, k.dst}
      BY DEF ActiveSlots
    <3> QED BY <2>1, <3>1, <3>2, <3>3
  <2>6. ASSUME NEW s \in Snapshots, NEW n \in Universe, <<s, n>> \in out.mask,
               NEW r \in Relations
        PROVE  SlotOf(out.x[<<s, n>>], db.events, db.tweets, s, n, r)
    <3>1. IsFiniteSet(db.events)
      BY <1>1, EventsFact
    <3>2. <<s, n>> \in ActiveSlots(CountBy(db.events), db.tweets)
      BY <2>1, <2>6
    <3>3. SlotOf(Features(CountBy(db.events), db.tweets)[<<s, n>>], db.events, db.tweets, s, n, r)
      BY <3>1, <3>2, SlotFact
    <3> QED BY <2>1, <3>3
  <2>7. ASSUME NEW s \in Snapshots, NEW n \in Universe
        PROVE  SlotExact(s, n)
    <3>1. 0 \in Relations
      BY DEF Relations
    <3> DEFINE of == {e \in db.events : Snapshot(e.sig.at) = s}
               tweets == {t \in db.tweets : t.snapshot = s /\ t.author = n}
               Sent(r) == Cardinality({e \in of : e.sig.relation = r /\ e.sig.author = n})
               Senders(r) == Cardinality({e.sig.author : e \in {d \in of :
                                         d.sig.relation = r /\ d.sig.target = n}})
    <3>2. ASSUME <<s, n>> \in out.mask, NEW r \in Relations
          PROVE  /\ out.x[<<s, n>>].tweets = Cardinality(tweets)
                 /\ out.x[<<s, n>>].outStrength[r] = Sent(r)
                 /\ out.x[<<s, n>>].inDegree[r] = Senders(r)
      BY <2>6, <3>2, Zenon DEF SlotOf
    <3>3. <<s, n>> \in out.mask =>
            /\ out.x[<<s, n>>].tweets = Cardinality(tweets)
            /\ \A r \in Relations : /\ out.x[<<s, n>>].outStrength[r] = Sent(r)
                                    /\ out.x[<<s, n>>].inDegree[r] = Senders(r)
      <4> HIDE DEF Sent, Senders, tweets
      <4> QED BY <3>1, <3>2
    <3>4. <<s, n>> \in out.mask <=>
            tweets # {} \/ \E e \in of : n \in {e.sig.author, e.sig.target}
      BY <2>5
    <3> QED BY <3>3, <3>4, Zenon DEF SlotExact
  <2> QED BY <2>1, <2>2, <2>3, <2>4, <2>7 DEF ValidatedExact, HasRow
<1> QED BY <1>1, Inductive, InductiveOut, PTL
=============================================================================
