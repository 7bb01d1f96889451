---------------------------- MODULE GraphIngest ----------------------------
(***************************************************************************)
(* One run of the Dataset A graph builder                                  *)
(* (src/src/tdmec_graph/pipeline.py): GraphPipeline.run is called with the *)
(* same run id again and again, over changing lists of workbooks, and      *)
(* killed at any point.  Rows become authored tweets and relation events   *)
(* in PostgreSQL, chunk by chunk; publish exports them, aggregates them    *)
(* into edges, features and an AGE graph, and validate judges the result.  *)
(* The state is spread over three stores that fail apart: the tables (one  *)
(* commit per repository call), the AGE graph and the output directory.    *)
(*                                                                         *)
(* Data: a file is its place in the order of names; a cell is one value,   *)
(* or "invalid" when it does not parse; a time is a month, three months to *)
(* a snapshot; an account stands for its node index.  A signature is the   *)
(* fields it hashes, a checksum equality of contents, and log1p, which is  *)
(* injective, is left off the counts.  The canonical configuration, the    *)
(* chunk size and the node map agree in all sessions, no two of which run  *)
(* at a time.  Left out: what no later step reads of the manifest (stages, *)
(* accounting, summary, checksums of the outputs just written), and the    *)
(* outputs that only describe others (names, calendar, duplicate report).  *)
(***************************************************************************)
EXTENDS Integers, Sequences, FiniteSets, FiniteSetsExt, Bags

CONSTANTS
  NFiles,     \* source workbooks
  Source,     \* rows of each workbook, for each version it may have
  Size,       \* and its size in bytes
  MaxRows,    \* rows of the longest workbook
  Universe,   \* accounts that have a node index
  NSnapshots, \* quarters of the calendar
  ChunkSize,  \* rows per chunk
  FileLists,  \* lists of input files an operator may give
  Syncs,      \* values of sync_age in use
  Absent      \* content of a path that does not exist

Files == 1 .. NFiles
Chunks == 0 .. (MaxRows - 1)
Versions(f) == DOMAIN Source[f]
NoTime == -1
Row == [author : STRING, at : Int, text : STRING, mentions : SUBSET STRING,
        retweet : STRING, reply : STRING, quote : STRING]

\* Relation ids in canonical order: mention, retweet, reply, quote.
Relations == 0 .. 3
Snapshots == 0 .. (NSnapshots - 1)

ASSUME FilesAssumption == NFiles \in Nat \ {0} /\ MaxRows \in Nat \ {0}
ASSUME SourceAssumption ==
  /\ DOMAIN Source = Files /\ DOMAIN Size = Files
  /\ \A f \in Files :
       /\ Versions(f) # {} /\ "none" \notin Versions(f)
       /\ Size[f] \in [Versions(f) -> Nat]
       /\ \A v \in Versions(f) : /\ Source[f][v] \in Seq(Row)
                                 /\ Len(Source[f][v]) <= MaxRows
ASSUME UniverseAssumption ==
  IsFiniteSet(Universe) /\ Universe \cap {"invalid", "none"} = {}
ASSUME BoundAssumption ==
  /\ NSnapshots \in Nat \ {0} /\ ChunkSize \in Nat \ {0}
  /\ FileLists \subseteq (SUBSET Files) \ {{}} /\ Syncs \subseteq BOOLEAN
ASSUME AbsentAssumption ==
  Absent \notin [Files -> {"none"} \cup UNION {Versions(f) : f \in Files}]

VARIABLES
  version,    \* content of each workbook at its source
  cache,      \* content of its copy in the download cache
  db,         \* the tables of the run: source_files, file_chunks, events,
              \* authored_tweets, edges, and the status in runs
  graph,      \* the AGE graph: its vertices and a bag of its edges
  out,        \* what publish has written below the run root
  manifest,   \* manifest.json: its source_checksums
  report,     \* validation_report.json
  pc,
  files,      \* this session's workbooks
  sync,       \* and sync_age
  mem,        \* and its source_checksums, in memory
  todo,       \* files, parts or relations it has still to go through
  chunk       \* index of the next chunk of the first of these files

stores == <<db, graph, out>>
records == <<manifest, report>>
session == <<files, sync>>
vars == <<version, cache, stores, records, pc, session, mem, todo, chunk>>

(***************************************************************************)
(* Rows (iter_graph_events_from_rows).                                     *)
(***************************************************************************)
\* The months before the first quarter are outside the calendar.
Snapshot(at) == (at \div 3) - 1

\* Mutant of Authored: a row outside the calendar is kept.
AuthoredAnytime(row) == row.author \in Universe /\ row.at # NoTime

Authored(row) == /\ row.author \in Universe
                 /\ row.at # NoTime /\ Snapshot(row.at) \in Snapshots

\* Targets outside the universe and self-loops make no event.
Targets(row) ==
  {t \in ({0} \X row.mentions)
           \cup {<<1, row.retweet>>, <<2, row.reply>>, <<3, row.quote>>} :
     t[2] \in Universe \ {row.author}}

\* composite_signature, whose text is empty unless its quality is ok.
Signature(row, t) ==
  [author |-> row.author, at |-> row.at,
   text |-> IF row.text = "invalid" THEN "" ELSE row.text,
   relation |-> t[1], target |-> t[2]]

Signatures(row) ==
  IF Authored(row) THEN {Signature(row, t) : t \in Targets(row)} ELSE {}

Rows(f) == Source[f][cache[f]]
ChunkRows(f, c) == {i \in DOMAIN Rows(f) : (i - 1) \div ChunkSize = c}
NChunks(f) == (Len(Rows(f)) + ChunkSize - 1) \div ChunkSize

Tweet(f, i) == [file |-> f, row |-> i, author |-> Rows(f)[i].author,
                snapshot |-> Snapshot(Rows(f)[i].at)]

\* Of the rows of a chunk with the same signature the first is inserted.
ChunkEvents(f, c) ==
  {[sig |-> s, file |-> f,
    row |-> Min({i \in ChunkRows(f, c) : s \in Signatures(Rows(f)[i])})] :
     s \in UNION {Signatures(Rows(f)[i]) : i \in ChunkRows(f, c)}}

(***************************************************************************)
(* Aggregation (rebuild_edges_from_events, edges_to_records) and features  *)
(* (build_structural_tensors).                                             *)
(***************************************************************************)
EdgeKey(e) == [snapshot |-> Snapshot(e.sig.at), relation |-> e.sig.relation,
               src |-> e.sig.author, dst |-> e.sig.target]

CountBy(events) ==
  [k \in {EdgeKey(e) : e \in events} |->
     Cardinality({e \in events : EdgeKey(e) = k})]

EdgeRecords(edges) == {[key |-> k, count |-> edges[k]] : k \in DOMAIN edges}

\* One file per snapshot and relation that has edges, in this order.
Parts == 0 .. (4 * NSnapshots - 1)
PartOf(k) == 4 * k.snapshot + k.relation
PartRows(edges, p) == {r \in EdgeRecords(edges) : PartOf(r.key) = p}

From(edges, s, r, n) ==
  {k \in DOMAIN edges : k.snapshot = s /\ k.relation = r /\ k.src = n}
Into(edges, s, r, n) ==
  {k \in DOMAIN edges : k.snapshot = s /\ k.relation = r /\ k.dst = n}
Strength(edges, ks) == MapThenSumSet(LAMBDA k : edges[k], ks)
TweetCount(tweets, s, n) == Cardinality({t \in tweets : t.snapshot = s /\ t.author = n})

\* Mutant of ActiveSlots: a node that is only a target stays inactive.
SourceSlots(edges, tweets) ==
  {<<k.snapshot, k.src>> : k \in DOMAIN edges} \cup {<<t.snapshot, t.author>> : t \in tweets}

\* struct_active_mask: tweets, outgoing or incoming edges.
ActiveSlots(edges, tweets) ==
  {<<k.snapshot, k.src>> : k \in DOMAIN edges}
  \cup {<<k.snapshot, k.dst>> : k \in DOMAIN edges}
  \cup {<<t.snapshot, t.author>> : t \in tweets}

\* X_struct: the rows of inactive slots are zero and not listed.
Features(edges, tweets) ==
  [sn \in ActiveSlots(edges, tweets) |->
     LET s == sn[1]  n == sn[2]
     IN  [outDegree |-> [r \in Relations |-> Cardinality({k.dst : k \in From(edges, s, r, n)})],
          inDegree |-> [r \in Relations |-> Cardinality({k.src : k \in Into(edges, s, r, n)})],
          outStrength |-> [r \in Relations |-> Strength(edges, From(edges, s, r, n))],
          inStrength |-> [r \in Relations |-> Strength(edges, Into(edges, s, r, n))],
          tweets |-> TweetCount(tweets, s, n)]]

(***************************************************************************)
(* Initial state and helpers of the actions.                               *)
(***************************************************************************)
NoSums == [f \in Files |-> "none"]
NoEdges == CountBy({})
NoTables == [sums |-> NoSums, chunks |-> {}, events |-> {}, tweets |-> {},
             edges |-> NoEdges, status |-> "none"]
NoGraph == [vertices |-> {}, edges |-> EmptyBag]
NoOutputs == [events |-> Absent, parts |-> [p \in Parts |-> {}],
              x |-> Absent, mask |-> Absent]
Between == {"down", "done"}

Init == /\ version \in [Files -> UNION {Versions(f) : f \in Files}]
        /\ \A f \in Files : version[f] \in Versions(f)
        /\ cache = NoSums
        /\ db = NoTables
        /\ graph = NoGraph /\ out = NoOutputs
        /\ manifest = Absent /\ report = Absent
        /\ pc = "down" /\ files = {} /\ sync = TRUE
        /\ mem = NoSums /\ todo = {} /\ chunk = 0

Leave(p) == /\ pc' = p /\ mem' = NoSums /\ todo' = {} /\ chunk' = 0
            /\ files' = IF p = "done" THEN files ELSE {}
            /\ sync' = IF p = "done" THEN sync ELSE TRUE

Goto(p, work) == pc' = p /\ todo' = work /\ chunk' = 0

(***************************************************************************)
(* The calls of tdmec_db, each committed when it returns.                  *)
(***************************************************************************)
UpsertRun(status) == [db EXCEPT !.status = status]

UpsertSourceFile(f, v) == [db EXCEPT !.sums[f] = v]

ChunkDone(f, c) == <<f, c>> \in db.chunks

RecordChunk(f, c) == [db EXCEPT !.chunks = @ \cup {<<f, c>>}]

InsertTweetsIgnore(tweets) == [db EXCEPT !.tweets = @ \cup tweets]

\* ON CONFLICT (run_id, signature) DO NOTHING: the event there keeps its row.
InsertEventsIgnore(events) ==
  [db EXCEPT !.events = @ \cup {e \in events : \A d \in db.events : d.sig # e.sig}]

UpsertVertices(accounts) == [graph EXCEPT !.vertices = @ \cup accounts]

\* CREATE adds an edge whatever there is; MATCH drops one without both vertices.
SyncEdges(relation) ==
  [graph EXCEPT !.edges = @ (+)
     SetToBag({r \in EdgeRecords(db.edges) :
                 /\ r.key.relation = relation
                 /\ {r.key.src, r.key.dst} \subseteq graph.vertices})]

\* neighbor_query of the source of one edge finds something.
Answered(k) == \E r \in DOMAIN graph.edges :
  /\ r.key.snapshot = k.snapshot /\ r.key.relation = k.relation /\ r.key.src = k.src

(***************************************************************************)
(* setup and verify_sources.                                               *)
(***************************************************************************)
\* Mutant of Setup: the row of the run is inserted and never updated.
SetupOnce(fs, s) ==
  /\ pc \in Between
  /\ files' = fs /\ sync' = s
  /\ mem' = IF manifest = Absent THEN NoSums ELSE manifest
  /\ db' = IF db.status = "none" THEN UpsertRun("UNVALIDATED") ELSE db
  /\ Goto("setup", {})
  /\ UNCHANGED <<version, cache, graph, out, records>>

\* load_or_init, upsert_run; nodes and snapshots are the same every time.
Setup(fs, s) ==
  /\ pc \in Between
  /\ files' = fs /\ sync' = s
  /\ mem' = IF manifest = Absent THEN NoSums ELSE manifest
  /\ db' = UpsertRun("UNVALIDATED")
  /\ Goto("setup", {})
  /\ UNCHANGED <<version, cache, graph, out, records>>

SetupFlush == /\ pc = "setup"
              /\ manifest' = mem
              /\ Goto("verify", files)
              /\ UNCHANGED <<version, cache, stores, report, session, mem>>

\* DownloadCache.get: a copy of the right size is not fetched again.
Fetched(f) == IF cache[f] # "none" /\ Size[f][cache[f]] = Size[f][version[f]]
              THEN cache[f] ELSE version[f]

\* Mutant of Recorded: the checksum of the last session does not count.
RecordedAny(f) == TRUE

\* The content read now is the one this run has recorded, if any.
Recorded(f) == mem[f] \in {"none", Fetched(f)}

VerifyFile == /\ pc = "verify" /\ todo # {}
              /\ LET f == Min(todo) IN
                   /\ cache' = [cache EXCEPT ![f] = Fetched(f)]
                   /\ Recorded(f)
                   /\ mem' = [mem EXCEPT ![f] = Fetched(f)]
                   /\ db' = UpsertSourceFile(f, Fetched(f))
                   /\ todo' = todo \ {f}
              /\ UNCHANGED <<version, graph, out, records, pc, session, chunk>>

RefuseFile == /\ pc = "verify" /\ todo # {}
              /\ LET f == Min(todo) IN
                   /\ cache' = [cache EXCEPT ![f] = Fetched(f)]
                   /\ ~Recorded(f)
              /\ Leave("down")
              /\ UNCHANGED <<version, stores, records>>

VerifyFlush == /\ pc = "verify" /\ todo = {}
               /\ manifest' = mem
               /\ Goto("tweets", files)
               /\ UNCHANGED <<version, cache, stores, report, session, mem>>

(***************************************************************************)
(* process_files: three commits per chunk that is not marked.              *)
(***************************************************************************)
ReadChunk == todo # {} /\ chunk < NChunks(Min(todo))

\* The next chunk of the file, or the next file.
NextFile == /\ pc = "tweets" /\ todo # {} /\ chunk = NChunks(Min(todo))
            /\ Goto("tweets", todo \ {Min(todo)})
            /\ UNCHANGED <<version, cache, stores, records, session, mem>>

SkipChunk == /\ pc = "tweets" /\ ReadChunk /\ ChunkDone(Min(todo), chunk)
             /\ chunk' = chunk + 1
             /\ UNCHANGED <<version, cache, stores, records, pc, session, mem, todo>>

InsertTweets == /\ pc = "tweets" /\ ReadChunk /\ ~ChunkDone(Min(todo), chunk)
                /\ LET f == Min(todo) IN
                     db' = InsertTweetsIgnore(
                             {Tweet(f, i) : i \in {j \in ChunkRows(f, chunk) :
                                                     Authored(Rows(f)[j])}})
                /\ pc' = "events"
                /\ UNCHANGED <<version, cache, graph, out, records, session, mem,
                               todo, chunk>>

InsertEvents == /\ pc = "events"
                /\ db' = InsertEventsIgnore(ChunkEvents(Min(todo), chunk))
                /\ pc' = "mark"
                /\ UNCHANGED <<version, cache, graph, out, records, session, mem,
                               todo, chunk>>

MarkChunk == /\ pc = "mark"
             /\ db' = RecordChunk(Min(todo), chunk)
             /\ pc' = "tweets" /\ chunk' = chunk + 1
             /\ UNCHANGED <<version, cache, graph, out, records, session, mem, todo>>

Processed == /\ pc = "tweets" /\ todo = {}
             /\ Goto("export", {})
             /\ UNCHANGED <<version, cache, stores, records, session, mem>>

(***************************************************************************)
(* publish: the files.  Parquet files are replaced atomically; np.save     *)
(* writes in place, so a kill may leave a torn array, which is no array.   *)
(***************************************************************************)
Publish(field, content) ==
  /\ out' = [out EXCEPT ![field] = content]
  /\ UNCHANGED <<version, cache, graph, records, session, mem>>

ExportEvents == /\ pc = "export"
                /\ Publish("events", db.events)
                /\ Goto("edges", {}) /\ UNCHANGED db

RebuildEdges == /\ pc = "edges"
                /\ db' = [db EXCEPT !.edges = CountBy(db.events)]
                /\ Goto("parts", {p \in Parts : PartRows(db'.edges, p) # {}})
                /\ UNCHANGED <<version, cache, graph, out, records, session, mem>>

WritePart == /\ pc = "parts" /\ todo # {}
             /\ LET p == Min(todo) IN
                  /\ Publish("parts", [out.parts EXCEPT ![p] = PartRows(db.edges, p)])
                  /\ todo' = todo \ {p}
             /\ UNCHANGED <<db, pc, chunk>>

PartsWritten == /\ pc = "parts" /\ todo = {}
                /\ Goto("x", {})
                /\ UNCHANGED <<version, cache, stores, records, session, mem>>

SaveX == /\ pc = "x"
         /\ Publish("x", Features(db.edges, db.tweets))
         /\ Goto("mask", {}) /\ UNCHANGED db

SaveMask == /\ pc = "mask"
            /\ Publish("mask", ActiveSlots(db.edges, db.tweets))
            /\ Goto(IF sync THEN "graph" ELSE "validate", {}) /\ UNCHANGED db

(***************************************************************************)
(* publish: the AGE graph, and the status of the run.                      *)
(***************************************************************************)
\* Mutant of ResetGraph: a graph that exists is not dropped, and cannot be made.
CreateGraph == /\ pc = "graph" /\ graph = NoGraph
               /\ Goto("vertices", {})
               /\ UNCHANGED <<version, cache, stores, records, session, mem>>

ResetGraph == /\ pc = "graph"
              /\ graph' = NoGraph
              /\ Goto("vertices", {})
              /\ UNCHANGED <<version, cache, db, out, records, session, mem>>

MergeVertices == /\ pc = "vertices"
                 /\ graph' = UpsertVertices(Universe)
                 /\ Goto("label", {k.relation : k \in DOMAIN db.edges})
                 /\ UNCHANGED <<version, cache, db, out, records, session, mem>>

\* One batch per label.
CreateEdges ==
  /\ pc = "label" /\ todo # {}
  /\ graph' = SyncEdges(Min(todo))
  /\ todo' = todo \ {Min(todo)}
  /\ UNCHANGED <<version, cache, db, out, records, pc, session, mem, chunk>>

MarkPublished == /\ pc = "label" /\ todo = {}
                 /\ db' = UpsertRun("PUBLISHED")
                 /\ Goto("validate", {})
                 /\ UNCHANGED <<version, cache, graph, out, records, session, mem>>

(***************************************************************************)
(* validate.                                                               *)
(***************************************************************************)
FileGates == /\ DOMAIN out.x \subseteq out.mask
             /\ \A p \in Parts : \A r \in out.parts[p] : r.key.src # r.key.dst
             /\ out.events # {}

Validate == /\ pc = "validate"
            /\ \E k \in DOMAIN db.edges \cup {Absent} :
                 /\ k = Absent <=> (db.edges = NoEdges \/ ~sync)
                 /\ report' = [passed |-> FileGates /\ (sync => k # Absent /\ Answered(k))]
            /\ Leave("done")
            /\ UNCHANGED <<version, cache, stores, manifest>>

(***************************************************************************)
(* The environment: kills, replaced workbooks, a cache that is lost (it is *)
(* under /tmp by default).  A workbook matters only when it is fetched, so *)
(* it is replaced between sessions.                                        *)
(***************************************************************************)
Crash == /\ pc \notin Between
         /\ out' \in {out} \cup (IF pc \in {"x", "mask"} THEN {[out EXCEPT ![pc] = Absent]} ELSE {})
         /\ Leave("down")
         /\ UNCHANGED <<version, cache, db, graph, records>>

ReplaceSource(f) == /\ pc \in Between
                    /\ \E v \in Versions(f) : version' = [version EXCEPT ![f] = v]
                    /\ UNCHANGED <<cache, stores, records, pc, session, mem, todo, chunk>>

LoseCache == /\ pc \in Between
             /\ cache' = NoSums
             /\ UNCHANGED <<version, stores, records, pc, session, mem, todo, chunk>>

Step == \/ SetupFlush \/ VerifyFile \/ RefuseFile \/ VerifyFlush
        \/ NextFile \/ SkipChunk \/ InsertTweets \/ InsertEvents \/ MarkChunk
        \/ Processed \/ ExportEvents \/ RebuildEdges \/ WritePart
        \/ PartsWritten \/ SaveX \/ SaveMask \/ ResetGraph
        \/ MergeVertices \/ CreateEdges \/ MarkPublished
        \/ Validate

Disturbance == Crash \/ LoseCache \/ \E f \in Files : ReplaceSource(f)

Next == \/ \E fs \in FileLists, s \in Syncs : Setup(fs, s)
        \/ Step \/ Disturbance

Spec == Init /\ [][Next]_vars

-----------------------------------------------------------------------------
(***************************************************************************)
(* Properties.                                                             *)
(***************************************************************************)
SignatureOf == [author : Universe, at : Nat, text : {""} \cup STRING,
                relation : Relations, target : Universe]
EventOf == [sig : SignatureOf, file : Files, row : 1 .. MaxRows]
KeyOf == [snapshot : Snapshots, relation : Relations, src : Universe, dst : Universe]
EdgeRecord == [key : KeyOf, count : Nat \ {0}]
SumsOf == {m \in [Files -> {"none"} \cup UNION {Versions(f) : f \in Files}] :
             \A f \in Files : m[f] \in Versions(f) \cup {"none"}}

OutputsOK(o) ==
  /\ o.events = Absent \/ \A e \in o.events : e \in EventOf
  /\ DOMAIN o.parts = Parts
  /\ \A p \in Parts : \A r \in o.parts[p] : r \in EdgeRecord /\ PartOf(r.key) = p
  /\ o.mask = Absent \/ o.mask \subseteq Snapshots \X Universe
  /\ o.x = Absent \/ DOMAIN o.x \subseteq Snapshots \X Universe

\* Every table, file and record has the shape the code gives it.
TypeOK ==
  /\ version \in SumsOf /\ cache \in SumsOf /\ db.sums \in SumsOf
  /\ db.chunks \subseteq Files \X Chunks
  /\ \A e \in db.events : e \in EventOf
  /\ \A t \in db.tweets : t \in [file : Files, row : 1 .. MaxRows, author : Universe,
                                 snapshot : Snapshots]
  /\ \A r \in EdgeRecords(db.edges) : r \in EdgeRecord
  /\ db.status \in {"none", "UNVALIDATED", "PUBLISHED"}
  /\ graph.vertices \subseteq Universe
  /\ \A r \in DOMAIN graph.edges : r \in EdgeRecord /\ graph.edges[r] \in Nat \ {0}
  /\ OutputsOK(out) /\ mem \in SumsOf
  /\ manifest \in SumsOf \cup {Absent}
  /\ report = Absent \/ report.passed \in BOOLEAN
  /\ files \subseteq Files /\ sync \in BOOLEAN /\ chunk \in 0 .. MaxRows
  /\ todo \subseteq Files \cup Parts \cup Relations

\* The content of a workbook the run has ingested, on the record of manifest.json.
Ingested(f) == Source[f][manifest[f]]

\* Whatever kills and repetitions came before, the tables hold rows of one
\* content of each workbook, the recorded one; a marked chunk is in them whole;
\* and no event is in them before the tweet it belongs to.
TablesExact ==
  /\ \A t \in db.tweets :
       /\ db.sums[t.file] = manifest[t.file]
       /\ Authored(Ingested(t.file)[t.row]) /\ Ingested(t.file)[t.row].author = t.author
  /\ \A e \in db.events :
       /\ e.sig \in Signatures(Ingested(e.file)[e.row])
       /\ \E t \in db.tweets : t.file = e.file /\ t.row = e.row
  /\ \A fc \in db.chunks : \A i \in DOMAIN Ingested(fc[1]) :
       (i - 1) \div ChunkSize = fc[2] /\ Authored(Ingested(fc[1])[i]) =>
         /\ \E t \in db.tweets : t.file = fc[1] /\ t.row = i
         /\ \A s \in Signatures(Ingested(fc[1])[i]) : \E e \in db.events : e.sig = s

\* A run whose status is PUBLISHED has, in its AGE graph, every account and
\* every edge of its events exactly once, with its count.
PublishedGraph ==
  db.status = "PUBLISHED" =>
    /\ graph.vertices = Universe
    /\ graph.edges = SetToBag({[key |-> EdgeKey(e),
                                count |-> Cardinality({d \in db.events :
                                                         EdgeKey(d) = EdgeKey(e)})] :
                                 e \in db.events})

\* Mask and features of an account in a snapshot follow from its tweets and
\* from the events it sends and receives.
SlotExact(s, n) ==
  LET of == {e \in db.events : Snapshot(e.sig.at) = s}
      tweets == {t \in db.tweets : t.snapshot = s /\ t.author = n}
  IN  /\ <<s, n>> \in out.mask <=>
           tweets # {} \/ \E e \in of : n \in {e.sig.author, e.sig.target}
      /\ <<s, n>> \in out.mask =>
           /\ out.x[<<s, n>>].tweets = Cardinality(tweets)
           /\ \A r \in Relations :
                /\ out.x[<<s, n>>].outStrength[r] =
                     Cardinality({e \in of : e.sig.relation = r /\ e.sig.author = n})
                /\ out.x[<<s, n>>].inDegree[r] =
                     Cardinality({e.sig.author : e \in {d \in of :
                                    d.sig.relation = r /\ d.sig.target = n}})

\* A session that ends with all gates passed has ingested its workbooks whole;
\* its files are those of the tables: every event once, every
\* part, and features and mask that follow from the events and tweets.
ValidatedExact ==
  pc = "done" /\ report.passed =>
    /\ \A f \in files : \A i \in DOMAIN Ingested(f) : Authored(Ingested(f)[i]) =>
         /\ \E t \in db.tweets : t.file = f /\ t.row = i
         /\ \A s \in Signatures(Ingested(f)[i]) : \E e \in db.events : e.sig = s
    /\ out.events = db.events
    /\ \A p \in Parts : \A k \in {EdgeKey(e) : e \in db.events} :
         PartOf(k) = p <=> \E r \in out.parts[p] : r.key = k
    /\ out.mask = DOMAIN out.x
    /\ \A s \in Snapshots, n \in Universe : SlotExact(s, n)

(***************************************************************************)
(* Liveness.  A session runs until it ends or is killed; the operator      *)
(* keeps starting the run over all workbooks, with the AGE graph.          *)
(***************************************************************************)
Fairness == WF_vars(Step) /\ SF_vars(Setup(Files, TRUE))

FairSpec == Spec /\ Fairness

\* A recorded workbook has been replaced: every session over it refuses it.
Drifted == manifest # Absent /\ \E f \in Files : ~(manifest[f] \in {"none", Fetched(f)})

Passed == pc = "done" /\ files = Files /\ sync /\ report.passed

\* Once nothing disturbs it any more, the run is validated over all workbooks
\* again and again, whatever was left half done, unless one has been replaced.
EventuallyValidated ==
  <>[][~Disturbance]_vars => []<>(Passed \/ Drifted)
=============================================================================
