------------------------------ MODULE PilotRun ------------------------------
(***************************************************************************)
(* One run directory of the Dataset B pilot                                *)
(* (src/src/tdmec_pilot/pipeline.py): PilotPipeline.run is called with the *)
(* same run id again and again, over changing lists of input files, and    *)
(* killed at any point.  Each chunk of a workbook becomes a normalised     *)
(* part and an excluded part, then an entry of the file's checkpoint; the  *)
(* reports and the gates are computed from whatever parts are on disk.     *)
(*                                                                         *)
(* Data: a file is its place in the order of names, a row the four cells   *)
(* that are judged; what a cell contains is one value, or "invalid" when   *)
(* it does not parse, and a time is a month.  A part is the rows it was    *)
(* written from, and a checksum equality of parts.  The canonical          *)
(* configuration and the node map agree in all sessions, and workbooks     *)
(* have the expected schema and no time that is the text "nan";            *)
(* input_files and chunk_size are free, for the configuration hash does    *)
(* not cover them.  The outputs of manifest.json and checksums.json are    *)
(* left out: a session registers and verifies the checksums of the files   *)
(* it has just read or written.                                            *)
(***************************************************************************)
EXTENDS Integers, Sequences, FiniteSetsExt

CONSTANTS
  NFiles,     \* source workbooks
  Source,     \* rows of each workbook, for each version it may have
  Size,       \* and its size in bytes
  MaxRows,    \* rows of the longest workbook
  Universe,   \* accounts that have a node index
  ChunkSizes, \* chunk sizes an operator may configure
  MaxRotten   \* bound: parts that are rotten at the same time

Files == 1 .. NFiles
Chunks == 0 .. (MaxRows - 1)
Versions(f) == DOMAIN Source[f] \* standing for the checksums of its contents
NoTime == -1
Row == [id : STRING, user : STRING, time : Int, text : STRING]

ASSUME FilesAssumption == NFiles \in Nat \ {0} /\ MaxRows \in Nat \ {0}
ASSUME SourceAssumption ==
  /\ DOMAIN Source = Files /\ DOMAIN Size = Files
  /\ \A f \in Files :
       /\ Versions(f) # {} /\ Versions(f) \cap {"none", "garbled"} = {}
       /\ Source[f] \in [Versions(f) -> Seq(Row)] /\ Size[f] \in [Versions(f) -> Nat]
       /\ \A v \in Versions(f) : Len(Source[f][v]) <= MaxRows
ASSUME UniverseAssumption == "invalid" \notin Universe
ASSUME ChunkAssumption ==
  ChunkSizes # {} /\ ChunkSizes \subseteq Nat \ {0} /\ MaxRotten \in Nat

VARIABLES
  version,    \* content of each workbook at its source
  cache,      \* content of its copy in the download cache
  sums,       \* source_checksums of manifest.json
  ckpt,       \* checkpoints/<file>.json, per chunk
  npart,      \* normalized_records/source_file=<file>/part-<chunk>
  xpart,      \* excluded_records/part-<file>-<chunk>
  reports,    \* the four tables finalize writes
  validation, \* validation_report.json
  pc,
  files,      \* this session's input_files
  size,       \* and chunk_size
  mem,        \* its source_checksums, in memory
  todo,       \* files it has not reached
  file, chunk \* where it is in which file

durable == <<sums, ckpt, npart, xpart, reports, validation>>
session == <<files, size>>
vars == <<version, cache, sums, ckpt, npart, xpart, reports, validation,
          pc, files, size, mem, todo, file, chunk>>

(***************************************************************************)
(* Rows (_transform_row).                                                  *)
(***************************************************************************)
SnapshotCount == 35
NoSnapshot == -1
FirstQuarter == <<2017, 4>>

QuarterIndex(q) == q[1] * 4 + (q[2] - 1)

\* Mutant of AssignSnapshot: times before the first quarter are let through.
AssignSnapshotOpen(time) ==
  LET s == time \div 3 - QuarterIndex(FirstQuarter)
  IN  IF s < SnapshotCount THEN s ELSE NoSnapshot

\* A time is 12 * year + month - 1.
AssignSnapshot(time) ==
  LET s == time \div 3 - QuarterIndex(FirstQuarter)
  IN  IF s \in 0 .. (SnapshotCount - 1) THEN s ELSE NoSnapshot

Status(row) ==
  IF "invalid" \in {row.id, row.user} \/ row.time = NoTime THEN "rejected"
  ELSE IF row.user \notin Universe \/ AssignSnapshot(row.time) = NoSnapshot
       THEN "excluded" ELSE "retained"

\* The cells a record keeps: the first one that is rejected ends it.
Record(row) ==
  IF row.id = "invalid" THEN [id |-> "none", user |-> "none", time |-> NoTime, text |-> "none"]
  ELSE IF row.user = "invalid" THEN [row EXCEPT !.user = "none", !.time = NoTime, !.text = "none"]
  ELSE IF row.time = NoTime THEN [row EXCEPT !.text = "none"]
  ELSE row

HasNode(row) == row.user \in Universe /\ Status(row) # "rejected"

(***************************************************************************)
(* Parts and their records.                                                *)
(***************************************************************************)
NoPart == [v |-> "none", rows |-> {}]
Garbled == [v |-> "garbled", rows |-> {}]
NoEntry == [made |-> FALSE, n |-> NoPart, x |-> NoPart]
NoReports == [duplicates |-> {}, accounts |-> {}, unmatched |-> {}, snapshots |-> {}]
NoValidation == [passed |-> FALSE, files |-> {}]

\* The records on disk: file, row number, the part each is in, and the row.
RecordsIn(parts, kind) ==
  UNION {{[file |-> f, row |-> i, kind |-> kind, chunk |-> c,
           cells |-> Source[f][parts[f][c].v][i]] : i \in parts[f][c].rows} :
         f \in Files, c \in Chunks}

Records == RecordsIn(npart, "normalized") \cup RecordsIn(xpart, "excluded")

Before(r, s) == r.file < s.file \/ (r.file = s.file /\ r.row <= s.row)

\* DuplicateTracker.duplicate_report, and the same of any set of records.
DuplicateReport(records) ==
  LET withId(id) == {r \in records : Record(r.cells).id = id}
      ids == {Record(r.cells).id : r \in records} \ {"none"}
  IN  {[id |-> id,
        type |-> IF Cardinality({Record(r.cells) : r \in withId(id)}) = 1
                 THEN "exact_duplicate" ELSE "conflicting_id",
        count |-> Cardinality(withId(id)),
        canonical |-> LET c == CHOOSE r \in withId(id) :
                                 \A s \in withId(id) : Before(r, s)
                      IN  <<c.file, c.row>>] :
       id \in {i \in ids : Cardinality(withId(i)) > 1}}

AccountReport(records) ==
  LET by(a) == {r \in records : Record(r.cells).user = a}
  IN  {[account |-> a, count |-> Cardinality(by(a)),
        matched |-> \E r \in by(a) : HasNode(r.cells),
        retained |-> Cardinality({r \in by(a) : Status(r.cells) = "retained"})] :
       a \in {Record(r.cells).user : r \in records} \ {"none"}}

UnmatchedReport(records) ==
  {a.account : a \in {b \in AccountReport(records) : ~b.matched}}

SnapshotReport(records) ==
  LET retained == {r \in records : Status(r.cells) = "retained"}
      at(s) == {r \in retained : AssignSnapshot(r.cells.time) = s}
  IN  {<<s, Cardinality(at(s))>> : s \in {AssignSnapshot(r.cells.time) : r \in retained}}

(***************************************************************************)
(* Control.                                                                *)
(***************************************************************************)
Goto(p) == pc' = p /\ UNCHANGED <<version, session, mem, todo, file, chunk>>

Leave(p) == /\ pc' = p
            /\ files' = {} /\ size' = (CHOOSE s \in ChunkSizes : TRUE)
            /\ mem' = [f \in Files |-> "none"]
            /\ todo' = {} /\ file' = 1 /\ chunk' = 0

Init == /\ version \in {v \in [Files -> UNION {Versions(f) : f \in Files}] :
                          \A f \in Files : v[f] \in Versions(f)}
        /\ cache = [f \in Files |-> "none"]
        /\ sums = [f \in Files |-> "none"]
        /\ ckpt = [f \in Files |-> [c \in Chunks |-> NoEntry]]
        /\ npart = [f \in Files |-> [c \in Chunks |-> NoPart]]
        /\ xpart = [f \in Files |-> [c \in Chunks |-> NoPart]]
        /\ reports = NoReports /\ validation = NoValidation
        /\ pc = "down"
        /\ files = {} /\ size = (CHOOSE s \in ChunkSizes : TRUE)
        /\ mem = [f \in Files |-> "none"]
        /\ todo = {} /\ file = 1 /\ chunk = 0

(***************************************************************************)
(* P00 and P01: the session and its sources.                               *)
(***************************************************************************)
Start(fs, s) == /\ pc = "down"
                /\ files' = fs /\ size' = s /\ mem' = sums /\ todo' = fs
                /\ pc' = "sources"
                /\ UNCHANGED <<version, cache, durable, file, chunk>>

\* DownloadCache.get: a copy of the right size is not fetched again.
Fetched(f) == IF cache[f] # "none" /\ Size[f][cache[f]] = Size[f][version[f]]
              THEN cache[f] ELSE version[f]

Fetch(f) == /\ pc = "sources" /\ f \in todo
            /\ cache' = [cache EXCEPT ![f] = Fetched(f)]
            /\ UNCHANGED <<version, durable>>

\* Mutant of Recorded: another content is taken for the recorded one.
RecordedAny(f) == TRUE

\* The file is not recorded with another checksum.
Recorded(f) == mem[f] \in {"none", Fetched(f)}

FetchSource(f) == /\ Fetch(f) /\ Recorded(f)
                  /\ mem' = [mem EXCEPT ![f] = Fetched(f)]
                  /\ todo' = todo \ {f}
                  /\ UNCHANGED <<pc, session, file, chunk>>

RefuseDrift(f) == Fetch(f) /\ ~Recorded(f) /\ Leave("failed")

\* The files that are left are not at the source; the others are recorded.
SourcesMissing == /\ pc = "sources" /\ todo # {}
                  /\ sums' = mem
                  /\ Leave("failed")
                  /\ UNCHANGED <<version, cache, ckpt, npart, xpart, reports, validation>>

SourcesVerified == /\ pc = "sources" /\ todo = {}
                   /\ sums' = mem
                   /\ pc' = "process" /\ todo' = files
                   /\ UNCHANGED <<version, cache, ckpt, npart, xpart, reports,
                                  validation, session, mem, file, chunk>>

(***************************************************************************)
(* P10: the chunks of one file after the other, in the order of the list.  *)
(***************************************************************************)
Rows(f) == Source[f][cache[f]]

\* Mutant of NChunks: a last chunk that is not full is not counted.
FullChunks(f) == Len(Rows(f)) \div size

NChunks(f) == (Len(Rows(f)) + size - 1) \div size

ChunkRows == {i \in DOMAIN Rows(file) : chunk * size < i /\ i <= (chunk + 1) * size}

RetainedRows == {i \in ChunkRows : Status(Rows(file)[i]) = "retained"}

\* Mutant of ChunkValid: only the normalised part is verified.
ChunkHalfValid(f, c) == ckpt[f][c].made /\ npart[f][c] = ckpt[f][c].n

\* Both parts are on disk and have the checksums of the entry.
ChunkValid(f, c) == /\ ckpt[f][c].made
                    /\ npart[f][c] = ckpt[f][c].n /\ xpart[f][c] = ckpt[f][c].x

BeginFile(f) == /\ pc = "process" /\ f \in todo
                /\ todo' = todo \ {f} /\ file' = f /\ chunk' = 0
                /\ pc' = "chunk"
                /\ UNCHANGED <<version, cache, durable, session, mem>>

NextChunk == /\ pc' = "chunk" /\ chunk' = chunk + 1
             /\ UNCHANGED <<version, cache, session, mem, todo, file>>

SkipChunk == /\ pc = "chunk" /\ chunk < NChunks(file) /\ ChunkValid(file, chunk)
             /\ NextChunk /\ UNCHANGED durable

Entry == [made |-> TRUE,
          n |-> [v |-> cache[file], rows |-> RetainedRows],
          x |-> [v |-> cache[file], rows |-> ChunkRows \ RetainedRows]]

\* Mutant of WriteNormalized: the checkpoint is saved before the parts.
WriteNormalizedLast ==
  /\ pc = "chunk" /\ chunk < NChunks(file) /\ ~ChunkValid(file, chunk)
  /\ npart' = [npart EXCEPT ![file][chunk] = Entry.n]
  /\ ckpt' = [ckpt EXCEPT ![file][chunk] = Entry]
  /\ Goto("excluded")
  /\ UNCHANGED <<cache, sums, xpart, reports, validation>>

WriteNormalized ==
  /\ pc = "chunk" /\ chunk < NChunks(file) /\ ~ChunkValid(file, chunk)
  /\ npart' = [npart EXCEPT ![file][chunk] = Entry.n]
  /\ Goto("excluded")
  /\ UNCHANGED <<cache, sums, ckpt, xpart, reports, validation>>

WriteExcluded ==
  /\ pc = "excluded"
  /\ xpart' = [xpart EXCEPT ![file][chunk] = Entry.x]
  /\ Goto("save")
  /\ UNCHANGED <<cache, sums, ckpt, npart, reports, validation>>

SaveChunk == /\ pc = "save"
             /\ ckpt' = [ckpt EXCEPT ![file][chunk] = Entry]
             /\ NextChunk
             /\ UNCHANGED <<sums, npart, xpart, reports, validation>>

EndFile == /\ pc = "chunk" /\ chunk >= NChunks(file)
           /\ pc' = "process" /\ file' = 1 /\ chunk' = 0
           /\ UNCHANGED <<version, cache, durable, session, mem, todo>>

EndProcess == /\ pc = "process" /\ todo = {}
              /\ Goto("finalize") /\ UNCHANGED <<cache, durable>>

(***************************************************************************)
(* finalize and P11.                                                       *)
(***************************************************************************)
Rotten == {k \in BOOLEAN \X Files \X Chunks :
             (IF k[1] THEN npart ELSE xpart)[k[2]][k[3]] = Garbled}

Unreadable == Rotten # {}

FinalizeFails == /\ pc = "finalize" /\ Unreadable
                 /\ Leave("failed") /\ UNCHANGED <<version, cache, durable>>

\* The statistics of text lengths have no minimum without a text.
HasText == \E r \in Records : Status(r.cells) # "rejected"

\* The four tables, which nothing reads before Validate, then the statistics.
Finalize == /\ pc = "finalize" /\ ~Unreadable
            /\ reports' = [duplicates |-> DuplicateReport(Records),
                           accounts |-> AccountReport(Records),
                           unmatched |-> UnmatchedReport(Records),
                           snapshots |-> SnapshotReport(Records)]
            /\ IF HasText THEN Goto("validate") ELSE Leave("failed") /\ UNCHANGED version
            /\ UNCHANGED <<cache, sums, ckpt, npart, xpart, validation>>

\* rows_in of the chunks this session has written or skipped.
RowsOfEntries == [k \in {e \in files \X Chunks : e[2] < NChunks(e[1])} |->
                    Cardinality(ckpt[k[1]][k[2]].n.rows) + Cardinality(ckpt[k[1]][k[2]].x.rows)]

RowsIn == MapThenSumSet(LAMBDA k : RowsOfEntries[k], DOMAIN RowsOfEntries)

\* Mutant of Balances: the gate is not evaluated.
BalancesAnyhow == TRUE

\* row_accounting_balances; the other gates hold of what was just read.
Balances == RowsIn = Cardinality(Records)

Validate == /\ pc = "validate"
            /\ validation' = [passed |-> Balances, files |-> files]
            /\ Goto("done")
            /\ UNCHANGED <<cache, sums, ckpt, npart, xpart, reports>>

Exit == /\ pc \in {"done", "failed"}
        /\ Leave("down") /\ UNCHANGED <<version, cache, durable>>

(***************************************************************************)
(* The environment: kills, and between sessions replaced workbooks, a lost *)
(* cache (it is under /tmp by default) and parts that rot.                 *)
(***************************************************************************)
Crash == /\ pc \notin {"down", "done", "failed"}
         /\ Leave("down") /\ UNCHANGED <<version, cache, durable>>

ReplaceSource(f, v) == /\ pc = "down"
                       /\ version' = [version EXCEPT ![f] = v]
                       /\ UNCHANGED <<cache, durable, pc, session, mem, todo, file, chunk>>

LoseCache == /\ pc = "down"
             /\ cache' = [f \in Files |-> "none"]
             /\ Goto("down") /\ UNCHANGED durable

RotPart(f, c) == /\ pc = "down" /\ Cardinality(Rotten) < MaxRotten
                 /\ \/ npart[f][c] # NoPart
                       /\ npart' = [npart EXCEPT ![f][c] = Garbled] /\ UNCHANGED xpart
                    \/ xpart[f][c] # NoPart
                       /\ xpart' = [xpart EXCEPT ![f][c] = Garbled] /\ UNCHANGED npart
                 /\ Goto("down")
                 /\ UNCHANGED <<cache, sums, ckpt, reports, validation>>

Sources == \/ \E f \in Files : FetchSource(f) \/ RefuseDrift(f)
           \/ SourcesVerified

Process == \/ \E f \in Files : BeginFile(f)
           \/ SkipChunk \/ WriteNormalized \/ WriteExcluded \/ SaveChunk
           \/ EndFile \/ EndProcess

Publish == FinalizeFails \/ Finalize \/ Validate

Step == Sources \/ Process \/ Publish \/ Exit

Disturbance == \/ Crash \/ SourcesMissing \/ LoseCache
               \/ \E f \in Files : \/ \E v \in Versions(f) : ReplaceSource(f, v)
                                   \/ \E c \in Chunks : RotPart(f, c)

Next == \/ \E fs \in (SUBSET Files) \ {{}}, s \in ChunkSizes : Start(fs, s)
        \/ Step \/ Disturbance

Spec == Init /\ [][Next]_vars

(***************************************************************************)
(* Properties.                                                             *)
(***************************************************************************)
Part(f) == [v : Versions(f) \cup {"none", "garbled"}, rows : SUBSET (1 .. MaxRows)]
PCs == {"down", "sources", "process", "chunk", "excluded", "save", "finalize",
        "validate", "done", "failed"}

\* The types; duplicate groups are of two records at least, an account has no
\* more retained records than records, and no snapshot outside the calendar
\* is reported (retained_snapshot_in_range).
TypeOK ==
  /\ \A f \in Files :
       /\ version[f] \in Versions(f)
       /\ {cache[f], sums[f], mem[f]} \subseteq Versions(f) \cup {"none"}
       /\ \A c \in Chunks :
            /\ ckpt[f][c].made \in BOOLEAN
            /\ {npart[f][c], xpart[f][c], ckpt[f][c].n, ckpt[f][c].x} \subseteq Part(f)
  /\ \A d \in reports.duplicates : d.count >= 2
  /\ \A a \in reports.accounts : a.retained \in 0 .. a.count
  /\ \A s \in reports.snapshots : s[1] \in 0 .. (SnapshotCount - 1) /\ s[2] > 0
  /\ validation.passed \in BOOLEAN /\ validation.files \subseteq Files
  /\ pc \in PCs /\ files \subseteq Files /\ size \in ChunkSizes
  /\ todo \subseteq files /\ file \in Files /\ chunk \in 0 .. MaxRows

\* boundary_table, which says what snapshot a month is in independently of
\* assign_snapshot.
AddQuarter(q) == IF q[2] = 4 THEN <<q[1] + 1, 1>> ELSE <<q[1], q[2] + 1>>

Quarter[s \in 0 .. SnapshotCount] ==
  IF s = 0 THEN FirstQuarter ELSE AddQuarter(Quarter[s - 1])

QuarterStart(q) == 12 * q[1] + 3 * (q[2] - 1)

InSnapshot(time, s) == /\ QuarterStart(Quarter[s]) <= time
                       /\ time < QuarterStart(Quarter[s + 1])

Retainable(row) == /\ row.id # "invalid" /\ row.user \in Universe
                   /\ \E s \in 0 .. (SnapshotCount - 1) : InSnapshot(row.time, s)

Kind(row) == IF Retainable(row) THEN "normalized" ELSE "excluded"

SourceRow(f, i) == Source[f][sums[f]][i]

Intact(f) == \A c \in Chunks : Garbled \notin {npart[f][c], xpart[f][c]}

PartsWith(f, i) ==
  {<<"normalized", c>> : c \in {d \in Chunks : i \in npart[f][d].rows}}
    \cup {<<"excluded", c>> : c \in {d \in Chunks : i \in xpart[f][d].rows}}

\* "no duplication" (src/docs/data/08_dataset_b_pilot_implementation.md:79):
\* when the gates of a session have passed, every row of every input file is
\* in exactly one part, of the kind its cells call for, whatever kills,
\* resumes and repairs led there and whatever sessions follow.
PassedIsPartition ==
  validation.passed =>
    \A f \in {g \in validation.files : Intact(g)} :
      \A i \in DOMAIN Source[f][sums[f]] :
        \E c \in Chunks : PartsWith(f, i) = {<<Kind(SourceRow(f, i)), c>>}

\* The parts of a file come from one content, the one whose checksum the
\* manifest records, over all sessions, lost caches and replaced workbooks.
OneVersion ==
  \A f \in Files, c \in Chunks :
    {npart[f][c].v, xpart[f][c].v} \subseteq {"none", "garbled", sums[f]}

\* What a checkpoint calls done is on disk, unless it rotted since: both
\* parts, with the recorded checksums, also while they are written again.
CheckpointTrue ==
  \A f \in Files, c \in Chunks :
    ckpt[f][c].made => /\ npart[f][c] \in {ckpt[f][c].n, Garbled}
                       /\ xpart[f][c] \in {ckpt[f][c].x, Garbled}

RunRows == {p \in validation.files \X (1 .. MaxRows) :
              p[2] \in DOMAIN Source[p[1]][sums[p[1]]]}

Cells(p) == SourceRow(p[1], p[2])

RowsOfUser(a) == {p \in RunRows : Record(Cells(p)).user = a}

SameId(p) == {q \in RunRows : Record(Cells(q)).id = Record(Cells(p)).id}

\* When the gates pass, the reports are about the rows of the input files and
\* nothing else on disk: every id that occurs twice is reported, as exact
\* just when all its rows agree, with its first row as canonical; an account
\* is unmatched just when it has no node index or no row of it has a valid
\* time; the snapshots count the rows between their boundaries.
ReportsExact ==
  pc = "done" /\ validation.passed =>
    /\ \A p \in {q \in RunRows : Record(Cells(q)).id # "none"} :
         LET entries == {d \in reports.duplicates : d.id = Cells(p).id}
         IN  IF SameId(p) = {p} THEN entries = {}
             ELSE /\ Cardinality(entries) = 1
                  /\ \A d \in entries :
                       /\ d.count = Cardinality(SameId(p))
                       /\ \/ d.canonical[1] < p[1]
                          \/ d.canonical[1] = p[1] /\ d.canonical[2] <= p[2]
                       /\ d.type = "exact_duplicate"
                            <=> \A q \in SameId(p) : Record(Cells(q)) = Record(Cells(p))
    /\ \A a \in {Record(Cells(p)).user : p \in RunRows} \ {"none"} :
         /\ a \in reports.unmatched
              <=> a \notin Universe \/ \A p \in RowsOfUser(a) : Cells(p).time = NoTime
         /\ \E r \in reports.accounts :
              /\ r.account = a /\ r.count = Cardinality(RowsOfUser(a))
              /\ r.retained = Cardinality({p \in RowsOfUser(a) : Retainable(Cells(p))})
    /\ \A s \in 0 .. (SnapshotCount - 1) :
         LET n == Cardinality({p \in RunRows : /\ Retainable(Cells(p))
                                               /\ InSnapshot(Cells(p).time, s)})
         IN  n > 0 <=> <<s, n>> \in reports.snapshots

(***************************************************************************)
(* Liveness.  A process that runs keeps running, and the operator keeps    *)
(* running all files; disturbances come to an end.                         *)
(***************************************************************************)
Fairness == WF_vars(Step) /\ SF_vars(\E s \in ChunkSizes : Start(Files, s))

FairSpec == Spec /\ Fairness

\* A workbook whose content is not the recorded one any more.
Drifted == \E f \in Files : sums[f] \notin {"none", Fetched(f)}

\* Without a row that parses finalize fails.
Parsable == \E f \in Files : \A v \in Versions(f) :
              \E i \in DOMAIN Source[f][v] : Status(Source[f][v][i]) # "rejected"

\* A run directory that is no longer disturbed passes its gates over all files
\* again and again, whatever kills and rotten parts it has seen, unless a
\* workbook has drifted for good.
EventuallyPassed ==
  Parsable /\ <>[][~Disturbance]_vars =>
    []<>(validation.passed /\ validation.files = Files) \/ <>[]Drifted
=============================================================================
