------------------------- MODULE DiagnosticsRunProofs -------------------------
(***************************************************************************)
(* The safety properties of DiagnosticsRun for every set of source files,  *)
(* every layout of their records, all chunk sizes, contents and numbers of *)
(* reports.                                                                *)
(***************************************************************************)
EXTENDS DiagnosticsRun, DataInduction

(***************************************************************************)
(* The inductive invariant.                                                *)
(***************************************************************************)
\* TypeOK in the parts that steps disturb separately, with what EXCEPT needs.
MirrorTypes == /\ ckptFile.made \in BOOLEAN /\ ckptFile.files \in ProgressOf
               /\ accFile \in BOOLEAN

DbTypes ==
  /\ db = [made |-> db.made, snapshot |-> db.snapshot, files |-> db.files, acc |-> db.acc]
  /\ db.made \in BOOLEAN /\ db.snapshot \in BOOLEAN
  /\ db.files \in ProgressOf /\ Counted(db.acc)

SealTypes ==
  /\ DOMAIN reports = Reports
  /\ \A n \in Reports : reports[n].made \in BOOLEAN /\ Counted(reports[n].acc)
  /\ manifest \in [made : BOOLEAN, complete : BOOLEAN, sources : SUBSET Files]

ObjectTypes == mode \in Modes /\ chunkSize \in ChunkSizes /\ files \in ProgressOf

CallTypes ==
  /\ version \in [Files -> Versions]
  /\ pc \in Between \cup {"unlink", "ready", "loop", "file", "mirrorCheckpoint",
                          "mirrorAccumulators", "finish", "seal", "remove"}
  /\ wanted \in SUBSET Files /\ required \in BOOLEAN /\ todo \in SUBSET wanted
  /\ file \in Files /\ next \in Nat \ {0}
  /\ Counted(acc)
  /\ then \in {"loop", "file"}

Types == MirrorTypes /\ DbTypes /\ SealTypes /\ ObjectTypes /\ CallTypes

\* A checkpoint: a file that was never begun has no progress, none is ahead of
\* its records and a complete one has reached the last.
Plausible(progress) ==
  \A f \in Files : /\ progress[f].last <= LastRow(f)
                   /\ progress[f].sum = "none" => progress[f].last = 0 /\ ~progress[f].complete
                   /\ progress[f].complete => progress[f].last = LastRow(f)

Running == pc \in {"loop", "file", "mirrorCheckpoint", "mirrorAccumulators",
                   "finish", "seal", "remove"}

\* The transaction is consistent in itself.
DbInv == db.snapshot => /\ db.made
                        /\ Plausible(db.files) /\ Matches(db.acc, db.files, Files)

\* The mirror is behind the transaction, and equal to it in what is complete.
MirrorInv ==
  /\ ~ckptFile.made => ckptFile.files = NoProgress
  /\ db.snapshot /\ ckptFile.made =>
       \A f \in Files : /\ ckptFile.files[f].last <= db.files[f].last
                        /\ ckptFile.files[f].complete => ckptFile.files[f] = db.files[f]

\* A checkpoint file without a database is that of a sealed run.
SealInv ==
  ckptFile.made /\ ~db.made =>
    /\ \A n \in Reports : reports[n].acc = reports[1].acc
    /\ manifest.complete =>
         \A f \in manifest.sources : \E v \in Versions :
           \A i \in Records(f) : reports[1].acc[f][i] = v
    /\ \A f \in Files : ckptFile.files[f].complete =>
         Matches(reports[1].acc, ckptFile.files, {f})

\* What the objects of a constructed pipeline hold.
ReadyInv ==
  /\ pc = "unlink" => mode = "restart" /\ files = NoProgress
  /\ pc = "ready" => files \in {NoProgress, ckptFile.files}
  /\ pc = "ready" /\ mode = "restart" => ~db.made /\ files = NoProgress

\* A running call: memory is consistent, and its files have the content that
\* is recorded.
CallInv ==
  Running =>
    /\ db.made
    /\ Plausible(files) /\ Matches(acc, files, Files)
    /\ \A f \in wanted : files[f].sum \in {"none", version[f]}
    /\ mode = "restart" =>
         \A f \in todo : files[f].last = 0 /\ ~files[f].complete

\* Memory and the transaction differ at most in the files begun since.
CommitInv ==
  Running =>
    /\ db.snapshot =>
         /\ acc = db.acc
         /\ \A f \in Files : /\ files[f].last = db.files[f].last
                             /\ files[f].complete = db.files[f].complete
                             /\ files[f].complete => files[f] = db.files[f]
    /\ ~db.snapshot => /\ ~ckptFile.made
                       /\ \A f \in Files : ~files[f].complete
                       /\ pc = "file" \/ (pc = "loop" /\ todo # {})

\* The records before the next one are exactly those of the rows recorded.
Reading == \/ pc = "file"
           \/ pc \in {"mirrorCheckpoint", "mirrorAccumulators"} /\ then = "file"

ReadInv ==
  Reading =>
    /\ file \in wanted \ todo
    /\ files[file].sum = version[file] /\ ~files[file].complete
    /\ next <= Len(SourceRow[file]) + 1
    /\ \A i \in Records(file) : i < next <=> SourceRow[file][i] <= files[file].last

\* Between a commit and its mirrors memory is what was committed.
MirrorPending ==
  pc = "mirrorCheckpoint" => files = db.files

\* The reports that are written are of the accumulators.
ReportsInv ==
  /\ pc = "seal" => \A n \in Reports : n < next => reports[n].acc = acc
  /\ pc = "remove" => /\ \A n \in Reports : reports[n].acc = acc
                      /\ manifest.complete => AllComplete(files, wanted)
                      /\ manifest.sources \subseteq wanted

IInv == /\ Types
        /\ DbInv /\ MirrorInv /\ SealInv
        /\ ReadyInv /\ CallInv /\ CommitInv /\ ReadInv /\ MirrorPending /\ ReportsInv

-----------------------------------------------------------------------------
USE ChunkAssumption, ReportsAssumption, VersionsAssumption, RequiresAssumption

(***************************************************************************)
(* Records and rows.                                                       *)
(***************************************************************************)
\* The records of a file are numbered from 1, in the order of their rows.
LEMMA RowFacts ==
  ASSUME NEW f \in Files
  PROVE  /\ Len(SourceRow[f]) \in Nat /\ Records(f) = 1 .. Len(SourceRow[f])
         /\ LastRow(f) \in Nat
         /\ \A i \in Records(f) : /\ SourceRow[f][i] \in Nat /\ SourceRow[f][i] > 1
                                  /\ SourceRow[f][i] <= LastRow(f)
<1>1. SourceRow[f] \in Seq(Nat \ {0, 1})
  BY SourceAssumption
<1>2. Len(SourceRow[f]) \in Nat /\ Records(f) = 1 .. Len(SourceRow[f])
  BY <1>1 DEF Records
<1>3. \A i \in Records(f) : SourceRow[f][i] \in Nat /\ SourceRow[f][i] > 1
  BY <1>1, <1>2
<1>4. CASE SourceRow[f] = << >>
  BY <1>2, <1>3, <1>4 DEF LastRow
<1>5. CASE SourceRow[f] # << >>
  <2>1. Len(SourceRow[f]) \in Records(f)
    BY <1>1, <1>2, <1>5
  <2> QED BY <1>2, <1>3, <1>5, <2>1, SourceAssumption DEF LastRow
<1> QED BY <1>4, <1>5

\* Reading resumes at the first record behind the recorded row: exactly the
\* records before it are of that row or an earlier one.
LEMMA FirstAfterExact ==
  ASSUME NEW f \in Files, NEW row \in Nat
  PROVE  /\ FirstAfter(f, row) \in 1 .. Len(SourceRow[f]) + 1
         /\ \A i \in Records(f) : i < FirstAfter(f, row) <=> SourceRow[f][i] <= row
<1> DEFINE P(i) == /\ \A j \in 1 .. (i - 1) : SourceRow[f][j] <= row
                   /\ i \in Records(f) => SourceRow[f][i] > row
           S == {i \in 1 .. Len(SourceRow[f]) + 1 : i \in Records(f) => SourceRow[f][i] > row}
<1>1. S \in SUBSET Nat /\ Len(SourceRow[f]) + 1 \in S
  BY RowFacts
<1>2. PICK m \in S : \A n \in S : m <= n
  <2> HIDE DEF S
  <2> QED BY <1>1, LeastNatural
<1>3. ASSUME NEW j \in 1 .. (m - 1) PROVE SourceRow[f][j] <= row
  <2>1. j \in Records(f) /\ j \notin S
    BY <1>1, <1>2, RowFacts
  <2> QED BY <2>1, RowFacts
<1>4. m \in 1 .. Len(SourceRow[f]) + 1 /\ P(m)
  BY <1>2, <1>3
<1> DEFINE e == FirstAfter(f, row)
<1>5. e \in 1 .. Len(SourceRow[f]) + 1 /\ P(e)
  BY <1>4 DEF FirstAfter
<1> HIDE DEF e
<1>6. ASSUME NEW i \in Records(f), i < e PROVE SourceRow[f][i] <= row
  BY <1>5, <1>6, RowFacts
<1>7. ASSUME NEW i \in Records(f), e <= i PROVE SourceRow[f][i] > row
  <2>1. e \in Records(f) /\ SourceRow[f][e] <= SourceRow[f][i]
    BY <1>5, <1>7, RowFacts, SourceAssumption
  <2> QED BY <2>1, <1>5, RowFacts
<1>8. ASSUME NEW i \in Records(f) PROVE i < e <=> SourceRow[f][i] <= row
  <2>1. e \in Nat /\ i \in Nat /\ SourceRow[f][i] \in Nat
    BY <1>5, RowFacts
  <2> QED BY <2>1, <1>6, <1>7
<1> QED BY <1>5, <1>8 DEF e

\* A chunk ends with a record, and with the last one of its workbook row.
LEMMA ChunkEndExact ==
  ASSUME NEW f \in Files, NEW i \in Records(f), NEW size \in ChunkSizes
  PROVE  /\ ChunkEnd(f, i, size) \in Records(f) /\ ChunkEnd(f, i, size) >= i
         /\ \A j \in Records(f) : j <= ChunkEnd(f, i, size) <=>
              SourceRow[f][j] <= SourceRow[f][ChunkEnd(f, i, size)]
<1> DEFINE S == ChunkEnds(f, i, size)
           e == ChunkEnd(f, i, size)
<1>1. S \in SUBSET Nat /\ Len(SourceRow[f]) \in S
  BY RowFacts DEF ChunkEnds
<1>2. \E m \in S : \A n \in S : m <= n
  <2> HIDE DEF S
  <2> QED BY <1>1, LeastNatural
<1>3. e \in S
  BY <1>2 DEF ChunkEnd
<1>4. /\ e \in Records(f) /\ e >= i
      /\ e = Len(SourceRow[f]) \/ SourceRow[f][e + 1] # SourceRow[f][e]
  BY <1>3 DEF ChunkEnds
<1> HIDE DEF e
<1>5. ASSUME NEW j \in Records(f) PROVE j <= e <=> SourceRow[f][j] <= SourceRow[f][e]
  <2>1. CASE j <= e
    BY <2>1, <1>4, SourceAssumption
  <2>2. CASE j > e
    <3>1. e + 1 \in Records(f) /\ SourceRow[f][e] <= SourceRow[f][e + 1]
      BY <2>2, <1>4, RowFacts, SourceAssumption
    <3>2. SourceRow[f][e + 1] <= SourceRow[f][j] /\ SourceRow[f][e] # SourceRow[f][e + 1]
      BY <2>2, <1>4, <3>1, RowFacts, SourceAssumption
    <3> QED BY <2>2, <1>4, <3>1, <3>2, RowFacts
  <2> QED BY <2>1, <2>2, <1>4, RowFacts
<1> QED BY <1>4, <1>5 DEF e

-----------------------------------------------------------------------------
(***************************************************************************)
(* What is known of the values that steps build.                           *)
(***************************************************************************)
\* A checkpoint without progress is plausible, and counts nothing.
LEMMA FreshFacts ==
  /\ NoProgress \in ProgressOf /\ Plausible(NoProgress)
  /\ Counted(NothingCounted) /\ Matches(NothingCounted, NoProgress, Files)
  /\ \A f \in Files : NoProgress[f].last = 0 /\ ~NoProgress[f].complete
                      /\ NoProgress[f].sum = "none"
<1>1. NoProgress \in ProgressOf
  BY DEF NoProgress, ProgressOf
<1>2. \A f \in Files : NoProgress[f].last = 0 /\ ~NoProgress[f].complete
                       /\ NoProgress[f].sum = "none"
  BY DEF NoProgress
<1>3. Plausible(NoProgress)
  <2>1. ASSUME NEW f \in Files PROVE 0 <= LastRow(f)
    BY RowFacts
  <2> QED BY <1>2, <2>1 DEF Plausible
<1>4. Counted(NothingCounted)
  BY DEF NothingCounted, Counted
<1>5. Matches(NothingCounted, NoProgress, Files)
  BY <1>2, RowFacts DEF Matches, NothingCounted
<1> QED BY <1>1, <1>2, <1>3, <1>4, <1>5

\* The values of a constructor that nobody has called.
LEMMA DefaultFacts ==
  /\ (CHOOSE s \in ChunkSizes : TRUE) \in ChunkSizes
  /\ (CHOOSE f \in Files : TRUE) \in Files
  BY SourceAssumption

\* A database that is not there says nothing false.
LEMMA InitInv == Init => IInv
<1> SUFFICES ASSUME Init PROVE IInv
  OBVIOUS
<1> USE DEF Init, Between
<1>1. MirrorTypes
  BY FreshFacts DEF MirrorTypes, NoCheckpointFile
<1>2. DbTypes
  BY FreshFacts DEF DbTypes, NoDatabase
<1>3. SealTypes
  BY FreshFacts DEF SealTypes, NoReport, NoManifest
<1>4. ObjectTypes
  BY FreshFacts, DefaultFacts DEF ObjectTypes, Modes
<1>5. CallTypes
  BY FreshFacts, DefaultFacts DEF CallTypes
<1>6. DbInv /\ MirrorInv /\ SealInv
  BY DEF DbInv, MirrorInv, SealInv, NoDatabase, NoCheckpointFile
<1>7. ReadyInv /\ CallInv /\ CommitInv /\ ReadInv /\ MirrorPending /\ ReportsInv
  BY DEF ReadyInv, CallInv, CommitInv, ReadInv, Reading, MirrorPending,
     ReportsInv, Running
<1> QED BY <1>1, <1>2, <1>3, <1>4, <1>5, <1>6, <1>7 DEF IInv, Types

-----------------------------------------------------------------------------
(***************************************************************************)
(* Every action keeps the inductive invariant.                             *)
(***************************************************************************)
\* The end of a call, whatever ends it, changes nothing in memory or on disk
\* that is looked at before the next constructor.
LEMMA LeaveInv ==
  ASSUME IInv, NEW p \in Between, Leave(p), DbTypes', DbInv', MirrorInv', SealInv',
         MirrorTypes', SealTypes'
  PROVE  IInv'
<1> USE DEF Leave, Between
<1>1. ObjectTypes'
  BY FreshFacts, DefaultFacts DEF ObjectTypes, Modes
<1>2. CallTypes'
  BY FreshFacts, DefaultFacts DEF CallTypes, IInv, Types
<1>3. /\ ReadyInv' /\ CallInv' /\ CommitInv' /\ ReadInv'
      /\ MirrorPending' /\ ReportsInv'
  BY DEF ReadyInv, CallInv, CommitInv, ReadInv, Reading, MirrorPending,
     ReportsInv, Running
<1> QED BY <1>1, <1>2, <1>3 DEF IInv, Types

\* A step that changes no file keeps what is known of the files.
LEMMA DiskUnchanged ==
  ASSUME IInv, UNCHANGED durable
  PROVE  /\ MirrorTypes' /\ DbTypes' /\ SealTypes'
         /\ DbInv' /\ MirrorInv' /\ SealInv'
<1> USE DEF durable, IInv, Types
<1>1. MirrorTypes' /\ DbTypes' /\ SealTypes'
  BY DEF MirrorTypes, DbTypes, SealTypes
<1>2. DbInv' /\ MirrorInv' /\ SealInv'
  BY DEF DbInv, MirrorInv, SealInv
<1> QED BY <1>1, <1>2

\* A constructor reads the checkpoint file, or begins to remove the run.
LEMMA ConstructInv ==
  ASSUME IInv, NEW m \in Modes, NEW s \in ChunkSizes, Construct(m, s)
  PROVE  IInv'
<1> USE DEF Construct, Between, call
<1>1. ObjectTypes' /\ CallTypes'
  BY FreshFacts DEF ObjectTypes, CallTypes, MirrorTypes, IInv, Types
<1>2. ReadyInv'
  BY DEF ReadyInv, Modes, durable
<1>3. CallInv' /\ CommitInv' /\ ReadInv' /\ MirrorPending' /\ ReportsInv'
  BY DEF CallInv, CommitInv, ReadInv, Reading, MirrorPending,
     ReportsInv, Running
<1> QED BY <1>1, <1>2, <1>3, DiskUnchanged DEF IInv, Types

\* A restart removes the checkpoint file before anything that it vouches for.
LEMMA UnlinkInv ==
  ASSUME IInv, Unlink
  PROVE  IInv'
<1>1. pc = "unlink" /\ Goto("unlink") /\ UNCHANGED files
  BY DEF Unlink
<1>2. ckptFile' = ckptFile \/ ckptFile' = NoCheckpointFile
  BY DEF Unlink
<1>3. accFile' \in {accFile, FALSE} /\ UNCHANGED manifest
  BY DEF Unlink
<1>4. db' = db \/ (db' = NoDatabase /\ ~ckptFile.made /\ UNCHANGED ckptFile)
  BY DEF Unlink
<1>5. \/ UNCHANGED reports
      \/ /\ ~ckptFile.made /\ UNCHANGED ckptFile
         /\ \E n \in Reports : reports' = [reports EXCEPT ![n] = NoReport]
  BY DEF Unlink
<1>6. MirrorTypes'
  <2>1. accFile' \in BOOLEAN
    BY <1>3 DEF MirrorTypes, IInv, Types
  <2>2. CASE ckptFile' = ckptFile
    BY <2>1, <2>2 DEF MirrorTypes, IInv, Types
  <2>3. CASE ckptFile' = NoCheckpointFile
    BY <2>1, <2>3, FreshFacts DEF MirrorTypes, NoCheckpointFile
  <2> QED BY <2>2, <2>3, <1>2
<1>7. DbTypes'
  <2>1. CASE db' = db
    BY <2>1 DEF DbTypes, IInv, Types
  <2>2. CASE db' = NoDatabase
    BY <2>2, FreshFacts DEF DbTypes, NoDatabase
  <2> QED BY <2>1, <2>2, <1>4
<1>8. SealTypes'
  <2>1. CASE UNCHANGED reports
    BY <2>1, <1>3 DEF SealTypes, IInv, Types
  <2>2. ASSUME NEW m \in Reports, reports' = [reports EXCEPT ![m] = NoReport]
        PROVE  SealTypes'
    <3>1. ASSUME NEW n \in Reports
          PROVE  reports'[n] = IF n = m THEN NoReport ELSE reports[n]
      BY <2>2 DEF SealTypes, IInv, Types
    <3>2. NoReport.made \in BOOLEAN /\ Counted(NoReport.acc)
      BY FreshFacts DEF NoReport
    <3> QED BY <2>2, <3>1, <3>2, <1>3 DEF SealTypes, IInv, Types
  <2> QED BY <2>1, <2>2, <1>5
<1>9. ObjectTypes' /\ CallTypes'
  BY <1>1 DEF Goto, object, call, ObjectTypes, CallTypes, IInv, Types
<1>10. DbInv'
  BY <1>4 DEF DbInv, NoDatabase, IInv
<1>11. MirrorInv'
  BY <1>2, <1>4 DEF MirrorInv, NoDatabase, NoCheckpointFile, IInv
<1>12. SealInv'
  BY <1>2, <1>3, <1>4, <1>5 DEF SealInv, NoDatabase, NoCheckpointFile, IInv
<1>13. ReadyInv'
  BY <1>1 DEF ReadyInv, Goto, object, IInv
<1>14. CallInv' /\ CommitInv' /\ ReadInv' /\ MirrorPending' /\ ReportsInv'
  BY <1>1 DEF Goto, CallInv, CommitInv, ReadInv, Reading, MirrorPending,
     ReportsInv, Running
<1> QED BY <1>6, <1>7, <1>8, <1>9, <1>10, <1>11, <1>12, <1>13, <1>14 DEF IInv, Types

\* Then the restarted run is as a new one.
LEMMA UnlinkEndsInv ==
  ASSUME IInv, UnlinkEnds
  PROVE  IInv'
<1> USE DEF UnlinkEnds, Goto, object, call, IInv, Types
<1>1. MirrorTypes' /\ DbTypes'
  BY DEF MirrorTypes, DbTypes
<1>2. SealTypes'
  BY DEF SealTypes, NoManifest
<1>3. ObjectTypes' /\ CallTypes'
  BY DEF ObjectTypes, CallTypes
<1>4. DbInv' /\ MirrorInv' /\ SealInv'
  BY DEF DbInv, MirrorInv, SealInv
<1>5. ReadyInv'
  BY DEF ReadyInv
<1>6. CallInv' /\ CommitInv' /\ ReadInv' /\ MirrorPending' /\ ReportsInv'
  BY DEF CallInv, CommitInv, ReadInv, Reading, MirrorPending,
     ReportsInv, Running
<1> QED BY <1>1, <1>2, <1>3, <1>4, <1>5, <1>6

\* Opening SQLite creates the file and keeps what it holds.
LEMMA OpensFacts ==
  ASSUME IInv, NEW fs, Opens(fs)
  PROVE  /\ MirrorTypes' /\ DbTypes' /\ SealTypes'
         /\ DbInv' /\ MirrorInv' /\ SealInv'
         /\ db'.made /\ db'.snapshot = db.snapshot
         /\ db'.files = db.files /\ db'.acc = db.acc
<1> USE DEF Opens, IInv, Types
<1>1. MirrorTypes' /\ SealTypes'
  BY DEF MirrorTypes, SealTypes
<1>2. DbTypes' /\ db'.made /\ db'.snapshot = db.snapshot
      /\ db'.files = db.files /\ db'.acc = db.acc
  BY DEF DbTypes
<1>3. DbInv' /\ MirrorInv' /\ SealInv'
  BY <1>2 DEF DbInv, MirrorInv, SealInv
<1> QED BY <1>1, <1>2, <1>3

\* What starts a call over an empty database is a new run.
LEMMA OpenFreshInv ==
  ASSUME IInv, NEW fs \in (SUBSET Files) \ {{}}, NEW q \in Requires, OpenFresh(fs, q)
  PROVE  IInv'
<1>1. pc = "ready" /\ Opens(fs) /\ ~db.snapshot /\ ~ckptFile.made /\ ~accFile
  BY DEF OpenFresh, Opens
<1>2. /\ pc' = "loop" /\ wanted' = fs /\ required' = q /\ todo' = fs
      /\ acc' = NothingCounted /\ files' = files
      /\ UNCHANGED <<version, mode, chunkSize, file, next, then, ckptFile>>
  BY DEF OpenFresh, Opens, Begin, object
<1>3. files = NoProgress
  BY <1>1 DEF IInv, ReadyInv, MirrorInv
<1>4. ObjectTypes'
  BY <1>2 DEF ObjectTypes, IInv, Types
<1>5. CallTypes'
  BY <1>2, FreshFacts DEF CallTypes, IInv, Types
<1>6. ReadyInv' /\ ReadInv' /\ MirrorPending' /\ ReportsInv'
  BY <1>2 DEF ReadyInv, ReadInv, Reading, MirrorPending, ReportsInv
<1>7. CallInv'
  <2>1. Plausible(files') /\ Matches(acc', files', Files)
    BY <1>2, <1>3, FreshFacts
  <2>2. \A f \in Files : files'[f].sum = "none" /\ files'[f].last = 0 /\ ~files'[f].complete
    BY <1>2, <1>3, FreshFacts
  <2> QED BY <1>1, <1>2, <2>1, <2>2, OpensFacts DEF CallInv, Running
<1>8. CommitInv'
  <2>1. \A f \in Files : ~files'[f].complete
    BY <1>2, <1>3, FreshFacts
  <2>2. ~db'.snapshot
    BY <1>1, OpensFacts
  <2> QED BY <1>1, <1>2, <2>1, <2>2 DEF CommitInv
<1> QED BY <1>1, <1>4, <1>5, <1>6, <1>7, <1>8, OpensFacts DEF IInv, Types

\* What starts a call over a snapshot continues exactly from it.
LEMMA OpenSnapshotInv ==
  ASSUME IInv, NEW fs \in (SUBSET Files) \ {{}}, NEW q \in Requires, OpenSnapshot(fs, q)
  PROVE  IInv'
<1>1. pc = "ready" /\ Opens(fs) /\ db.snapshot /\ ~Drifted(db.files, fs)
  BY DEF OpenSnapshot, Opens
<1>2. /\ pc' = "loop" /\ wanted' = fs /\ required' = q /\ todo' = fs
      /\ acc' = db.acc /\ files' = db.files
      /\ UNCHANGED <<version, mode, chunkSize, file, next, then>>
  BY DEF OpenSnapshot, Begin, object
<1>3. mode # "restart"
  BY <1>1 DEF IInv, ReadyInv, DbInv
<1>4. ObjectTypes'
  BY <1>2 DEF ObjectTypes, DbTypes, IInv, Types
<1>5. CallTypes'
  BY <1>2 DEF CallTypes, DbTypes, IInv, Types
<1>6. ReadyInv' /\ ReadInv' /\ MirrorPending' /\ ReportsInv'
  BY <1>2 DEF ReadyInv, ReadInv, Reading, MirrorPending, ReportsInv
<1>7. CallInv'
  <2>1. Plausible(files') /\ Matches(acc', files', Files)
    BY <1>1, <1>2 DEF IInv, DbInv
  <2>2. \A f \in fs : files'[f].sum \in {"none", version[f]}
    BY <1>1, <1>2 DEF Drifted
  <2> QED BY <1>1, <1>2, <1>3, <2>1, <2>2, OpensFacts DEF CallInv, Running
<1>8. CommitInv'
  BY <1>1, <1>2, OpensFacts DEF CommitInv
<1> QED BY <1>1, <1>4, <1>5, <1>6, <1>7, <1>8, OpensFacts DEF IInv, Types

\* All ways to open a call.
LEMMA OpenInv ==
  ASSUME IInv, Open
  PROVE  IInv'
<1>1. PICK fs \in (SUBSET Files) \ {{}} :
        \/ Reload(fs) \/ RefuseDrift(fs) \/ RefuseLegacy(fs) \/ RefuseSnapshot(fs)
        \/ \E q \in Requires : OpenFresh(fs, q) \/ OpenSnapshot(fs, q)
  BY DEF Open
<1>2. CASE Reload(fs) \/ RefuseDrift(fs)
  <2>1. PICK p \in Between : Leave(p) /\ UNCHANGED durable
    BY <1>2 DEF Reload, RefuseDrift, Between
  <2> QED BY <2>1, DiskUnchanged, LeaveInv
<1>3. CASE RefuseLegacy(fs) \/ RefuseSnapshot(fs)
  <2>1. Opens(fs) /\ Leave("refused")
    BY <1>3 DEF RefuseLegacy, RefuseSnapshot
  <2>2. "refused" \in Between
    BY DEF Between
  <2> QED BY <2>1, <2>2, OpensFacts, LeaveInv
<1> QED BY <1>1, <1>2, <1>3, OpenFreshInv, OpenSnapshotInv

\* A complete file is passed over.
LEMMA SkipFileInv ==
  ASSUME IInv, NEW f \in Files, SkipFile(f)
  PROVE  IInv'
<1> USE DEF SkipFile
<1>1. ObjectTypes' /\ CallTypes'
  BY DEF ObjectTypes, CallTypes, object, IInv, Types
<1>2. ReadyInv' /\ ReadInv' /\ MirrorPending' /\ ReportsInv'
  BY DEF ReadyInv, ReadInv, Reading, MirrorPending, ReportsInv
<1>3. CallInv'
  BY DEF CallInv, Running, durable, object, IInv
<1>4. CommitInv'
  BY DEF CommitInv, Running, durable, IInv, CallTypes, Types
<1> QED BY <1>1, <1>2, <1>3, <1>4, DiskUnchanged DEF IInv, Types

\* Reading a file begins behind what was recorded of it, with the content it
\* has, which is the one recorded.
LEMMA BeginFileInv ==
  ASSUME IInv, NEW f \in Files, BeginFile(f)
  PROVE  IInv'
<1> DEFINE s == IF files[f].sum = "none" THEN version[f] ELSE files[f].sum
<1>1. /\ pc = "loop" /\ f \in todo /\ todo' = todo \ {f} /\ file' = f /\ pc' = "file"
      /\ UNCHANGED <<version, mode, chunkSize, wanted, required, acc, then>>
      /\ UNCHANGED durable
  BY DEF BeginFile, object
<1>2. files \in ProgressOf /\ version \in [Files -> Versions]
  BY DEF IInv, Types, ObjectTypes, CallTypes
<1>3. /\ files' \in ProgressOf
      /\ \A g \in Files : /\ files'[g].last = files[g].last
                          /\ files'[g].complete = files[g].complete
                          /\ g # f => files'[g] = files[g]
      /\ files'[f].sum = s
  BY <1>2 DEF BeginFile, ProgressOf
<1>4. f \in wanted /\ s = version[f]
  BY <1>1 DEF IInv, Types, CallTypes, CallInv, Running
<1>5. ~files[f].complete
  BY <1>1 DEF BeginFile, IInv, CallInv, Running, ObjectTypes, Modes, Types
<1>6. /\ next' \in 1 .. Len(SourceRow[f]) + 1
      /\ \A i \in Records(f) : i < next' <=> SourceRow[f][i] <= files[f].last
  <2>1. next' = FirstAfter(f, files[f].last)
    BY <1>1 DEF BeginFile, IInv, CallInv, Running, ObjectTypes, Modes, Types
  <2>2. files[f].last \in Nat
    BY <1>2 DEF ProgressOf
  <2> QED BY <2>1, <2>2, FirstAfterExact
<1>7. ObjectTypes' /\ CallTypes'
  BY <1>1, <1>3, <1>6, RowFacts DEF ObjectTypes, CallTypes, IInv, Types
<1>8. ReadyInv' /\ MirrorPending' /\ ReportsInv'
  BY <1>1 DEF ReadyInv, MirrorPending, ReportsInv
<1>9. ReadInv'
  BY <1>1, <1>3, <1>4, <1>5, <1>6, RowFacts DEF ReadInv
<1>10. CallInv'
  <2>1. Plausible(files')
    BY <1>1, <1>3, <1>4, <1>2, <1>5, VersionsAssumption DEF Plausible, IInv, CallInv, Running
  <2>2. Matches(acc', files', Files)
    <3>1. files[f].sum = "none" => \A i \in Records(f) : ~(SourceRow[f][i] <= files[f].last)
      BY <1>1, RowFacts DEF IInv, CallInv, Running, Plausible
    <3> QED BY <1>1, <1>3, <3>1 DEF Matches, IInv, CallInv, Running
  <2>3. wanted \subseteq Files /\ todo \subseteq Files
    BY DEF IInv, Types, CallTypes
  <2>4. \A g \in wanted' : files'[g].sum \in {"none", version'[g]}
    BY <1>1, <1>3, <1>4, <2>3 DEF CallInv, Running, IInv
  <2>5. mode' = "restart" => \A g \in todo' : files'[g].last = 0 /\ ~files'[g].complete
    BY <1>1, <1>3, <2>3 DEF CallInv, Running, IInv
  <2> QED BY <1>1, <2>1, <2>2, <2>4, <2>5 DEF CallInv, Running, durable, IInv
<1>11. CommitInv'
  BY <1>1, <1>3, <1>5 DEF CommitInv, Running, durable, IInv
<1> QED BY <1>1, <1>7, <1>8, <1>9, <1>10, <1>11, DiskUnchanged DEF IInv, Types

\* A commit replaces snapshot, checkpoint and accumulators together: what
\* holds of memory holds of the transaction, which has only moved on.
LEMMA CommitInvs ==
  ASSUME IInv, Running, pc \in {"loop", "file"},
         NEW progress \in ProgressOf, NEW counted, Counted(counted),
         CommitSnapshot(progress, counted),
         Plausible(progress), Matches(counted, progress, Files),
         \A f \in Files : /\ files[f].last <= progress[f].last
                          /\ files[f].complete => progress[f] = files[f],
         \A f \in wanted : progress[f].sum \in {"none", version[f]},
         mode = "restart" => \A f \in todo : progress[f].last = 0 /\ ~progress[f].complete,
         then' \in {"loop", "file"}, next' \in Nat \ {0},
         UNCHANGED <<version, ckptFile, accFile, reports, manifest, object, wanted,
                     required, todo, file>>,
         ReadInv'
  PROVE  IInv'
<1>1. /\ db' = [made |-> TRUE, snapshot |-> TRUE, files |-> progress, acc |-> counted]
      /\ files' = progress /\ acc' = counted /\ pc' = "mirrorCheckpoint"
  BY DEF CommitSnapshot
<1>2. db'.made /\ db'.snapshot /\ db'.files = progress /\ db'.acc = counted
  BY <1>1
<1>3. MirrorTypes' /\ SealTypes'
  BY DEF MirrorTypes, SealTypes, IInv, Types
<1>4. DbTypes'
  BY <1>1 DEF DbTypes
<1>5. ObjectTypes' /\ CallTypes'
  BY <1>1 DEF ObjectTypes, CallTypes, object, IInv, Types
<1>6. DbInv'
  BY <1>2 DEF DbInv
<1>7. MirrorInv'
  <2>1. ckptFile.made => db.snapshot
    BY DEF CommitInv, IInv
  <2>2. ASSUME ckptFile.made, NEW f \in Files
        PROVE  /\ ckptFile.files[f].last <= progress[f].last
               /\ ckptFile.files[f].complete => ckptFile.files[f] = progress[f]
    <3>1. /\ ckptFile.files[f].last <= db.files[f].last
          /\ ckptFile.files[f].complete => ckptFile.files[f] = db.files[f]
      BY <2>1, <2>2 DEF MirrorInv, IInv
    <3>2. /\ files[f].last = db.files[f].last
          /\ files[f].complete = db.files[f].complete
          /\ files[f].complete => files[f] = db.files[f]
      BY <2>1, <2>2 DEF CommitInv, IInv
    <3>3. /\ ckptFile.files[f].last \in Nat /\ db.files[f].last \in Nat
          /\ progress[f].last \in Nat
      BY DEF MirrorTypes, DbTypes, ProgressOf, IInv, Types
    <3> QED BY <3>1, <3>2, <3>3
  <2> QED BY <1>2, <2>2 DEF MirrorInv, IInv
<1>8. SealInv'
  BY <1>2 DEF SealInv
<1>9. ReadyInv' /\ ReportsInv' /\ MirrorPending'
  BY <1>1, <1>2 DEF ReadyInv, ReportsInv, MirrorPending
<1>10. CallInv'
  BY <1>1, <1>2 DEF CallInv, object
<1>11. CommitInv'
  BY <1>1, <1>2 DEF CommitInv
<1> QED BY <1>3, <1>4, <1>5, <1>6, <1>7, <1>8, <1>9, <1>10, <1>11 DEF IInv, Types

\* A chunk counts each of its records once, and moves the recorded row to
\* the row of the last of them.
LEMMA CommitChunkInv ==
  ASSUME IInv, CommitChunk
  PROVE  IInv'
<1> DEFINE row == SourceRow[file]
<1>1. /\ pc = "file" /\ next \in Records(file) /\ Forward
      /\ CommitSnapshot(Marked, Consumed) /\ next' = End + 1 /\ then' = "file"
      /\ UNCHANGED <<version, ckptFile, accFile, reports, manifest, object,
                     wanted, required, todo, file>>
  BY DEF CommitChunk
<1>2. /\ file \in Files /\ wanted \subseteq Files /\ todo \subseteq Files
      /\ files \in ProgressOf /\ version \in [Files -> Versions] /\ Counted(acc)
      /\ chunkSize \in ChunkSizes
  BY DEF IInv, Types, ObjectTypes, CallTypes
<1>3. /\ file \in wanted \ todo
      /\ files[file].sum = version[file] /\ ~files[file].complete
      /\ \A i \in Records(file) : i < next <=> row[i] <= files[file].last
  BY <1>1 DEF IInv, ReadInv, Reading
<1>4. /\ Plausible(files) /\ Matches(acc, files, Files)
      /\ \A f \in wanted : files[f].sum \in {"none", version[f]}
      /\ mode = "restart" => \A f \in todo : files[f].last = 0 /\ ~files[f].complete
  BY <1>1 DEF IInv, CallInv, Running
<1>5. /\ End \in Records(file) /\ End >= next
      /\ \A j \in Records(file) : j <= End <=> row[j] <= row[End]
  BY <1>1, <1>2, ChunkEndExact DEF End
<1>6. row[End] \in Nat /\ End \in Nat /\ Records(file) = 1 .. Len(row)
      /\ row[End] <= LastRow(file)
  BY <1>2, <1>5, RowFacts
<1>7. /\ Marked \in ProgressOf
      /\ Marked[file].last = row[End] /\ Marked[file].sum = files[file].sum
      /\ Marked[file].complete = files[file].complete
      /\ \A f \in Files : f # file => Marked[f] = files[f]
  BY <1>2, <1>6 DEF Marked, ProgressOf
<1> HIDE DEF row
<1>8. /\ DOMAIN Consumed = Files
      /\ \A f \in Files : f # file => Consumed[f] = acc[f]
      /\ Consumed[file] = [i \in Records(file) |->
            IF i \in next .. End THEN Observe(acc[file][i], version[file]) ELSE acc[file][i]]
  BY <1>2 DEF Consumed, Counted
<1>9. \A i \in Records(file) :
        Consumed[file][i] = IF row[i] <= row[End] THEN version[file] ELSE "none"
  <2> SUFFICES ASSUME NEW i \in Records(file)
               PROVE  Consumed[file][i] = IF row[i] <= row[End] THEN version[file] ELSE "none"
    OBVIOUS
  <2>1. acc[file][i] = IF row[i] <= files[file].last THEN version[file] ELSE "none"
    BY <1>2, <1>3, <1>4 DEF Matches, row
  <2>2. i \in Nat /\ next \in Nat /\ (i < next <=> row[i] <= files[file].last)
        /\ (i <= End <=> row[i] <= row[End])
    BY <1>1, <1>3, <1>5, <1>6
  <2>3. CASE i < next
    BY <2>1, <2>2, <2>3, <1>5, <1>6, <1>8
  <2>4. CASE i \in next .. End
    BY <2>1, <2>2, <2>4, <1>5, <1>6, <1>8 DEF Observe
  <2>5. CASE i > End
    BY <2>1, <2>2, <2>5, <1>5, <1>6, <1>8
  <2> QED BY <2>2, <2>3, <2>4, <2>5, <1>6
<1>10. Counted(Consumed)
  <2>1. \A i \in Records(file) : Consumed[file][i] \in Versions \cup {"none", "twice"}
    BY <1>2, <1>9
  <2>2. Consumed[file] \in [Records(file) -> Versions \cup {"none", "twice"}]
    BY <1>8, <2>1
  <2> QED BY <1>2, <1>8, <2>2 DEF Counted
<1>11. Matches(Consumed, Marked, Files)
  BY <1>2, <1>3, <1>4, <1>7, <1>8, <1>9 DEF Matches, row
<1>12. Plausible(Marked)
  <2>1. version[file] # "none"
    BY <1>2
  <2>2. /\ Marked[file].last <= LastRow(file)
        /\ Marked[file].sum # "none" /\ ~Marked[file].complete
    BY <1>3, <1>6, <1>7, <2>1
  <2>3. ASSUME NEW f \in Files, f # file
        PROVE  /\ Marked[f].last <= LastRow(f)
               /\ Marked[f].sum = "none" => Marked[f].last = 0 /\ ~Marked[f].complete
               /\ Marked[f].complete => Marked[f].last = LastRow(f)
    BY <1>4, <1>7, <2>3 DEF Plausible
  <2> QED BY <2>2, <2>3 DEF Plausible
<1>13. files[file].last <= row[End]
  BY <1>1 DEF Forward, row
<1>14. \A f \in Files : /\ files[f].last <= Marked[f].last
                        /\ files[f].complete => Marked[f] = files[f]
  <2>1. \A f \in Files : files[f].last \in Nat
    BY <1>2 DEF ProgressOf
  <2>2. ASSUME NEW f \in Files, f # file
        PROVE  files[f].last <= Marked[f].last /\ Marked[f] = files[f]
    BY <1>7, <2>1, <2>2
  <2>3. files[file].last <= Marked[file].last /\ ~files[file].complete
    BY <1>3, <1>7, <1>13
  <2> QED BY <2>2, <2>3
<1>15. \A f \in wanted : Marked[f].sum \in {"none", version[f]}
  BY <1>2, <1>4, <1>7
<1>16. mode = "restart" => \A f \in todo : Marked[f].last = 0 /\ ~Marked[f].complete
  BY <1>2, <1>3, <1>4, <1>7
<1>17. ReadInv'
  <2>1. files' = Marked /\ file' = file /\ next' = End + 1
    BY <1>1 DEF CommitSnapshot
  <2>2. \A i \in Records(file) : i < End + 1 <=> row[i] <= Marked[file].last
    BY <1>5, <1>6, <1>7
  <2>3. End + 1 <= Len(row) + 1
    BY <1>5, <1>6
  <2> QED BY <1>1, <1>3, <1>7, <2>1, <2>2, <2>3 DEF ReadInv, row
<1>18. next' \in Nat \ {0}
  BY <1>1, <1>6, <1>5
<1> QED BY <1>1, <1>7, <1>10, <1>11, <1>12, <1>14, <1>15, <1>16, <1>17, <1>18,
           CommitInvs DEF Running

\* A file is completed when every record of it is committed.
LEMMA CommitFileInv ==
  ASSUME IInv, CommitFile
  PROVE  IInv'
<1>1. /\ pc = "file" /\ next \notin Records(file)
      /\ CommitSnapshot(Finished, acc) /\ then' = "loop" /\ next' = next
      /\ UNCHANGED <<version, ckptFile, accFile, reports, manifest, object,
                     wanted, required, todo, file>>
  BY DEF CommitFile
<1>2. /\ file \in Files /\ wanted \subseteq Files /\ todo \subseteq Files
      /\ files \in ProgressOf /\ version \in [Files -> Versions] /\ Counted(acc)
      /\ next \in Nat \ {0}
  BY DEF IInv, Types, ObjectTypes, CallTypes
<1>3. /\ file \in wanted \ todo
      /\ files[file].sum = version[file] /\ ~files[file].complete
      /\ next <= Len(SourceRow[file]) + 1
      /\ \A i \in Records(file) : i < next <=> SourceRow[file][i] <= files[file].last
  BY <1>1 DEF IInv, ReadInv, Reading
<1>4. /\ Plausible(files) /\ Matches(acc, files, Files)
      /\ \A f \in wanted : files[f].sum \in {"none", version[f]}
      /\ mode = "restart" => \A f \in todo : files[f].last = 0 /\ ~files[f].complete
  BY <1>1 DEF IInv, CallInv, Running
<1>5. \A f \in Files : files[f].last \in Nat /\ LastRow(f) \in Nat
  BY <1>2, RowFacts DEF ProgressOf
<1>6. files[file].last = LastRow(file)
  <2>1. next = Len(SourceRow[file]) + 1
    BY <1>1, <1>2, <1>3, RowFacts
  <2>2. LastRow(file) <= files[file].last
    <3>1. CASE SourceRow[file] = << >>
      BY <1>2, <1>5, <3>1 DEF LastRow
    <3>2. CASE SourceRow[file] # << >>
      <4>1. Len(SourceRow[file]) \in Records(file)
        BY <1>2, <3>2, RowFacts, SourceAssumption
      <4> QED BY <1>2, <1>3, <2>1, <3>2, <4>1, RowFacts DEF LastRow
    <3> QED BY <3>1, <3>2
  <2> QED BY <1>2, <1>4, <1>5, <2>2 DEF Plausible
<1>7. /\ Finished \in ProgressOf
      /\ Finished[file].last = files[file].last /\ Finished[file].sum = files[file].sum
      /\ Finished[file].complete
      /\ \A f \in Files : f # file => Finished[f] = files[f]
  BY <1>2 DEF Finished, ProgressOf
<1>8. Plausible(Finished)
  <2>1. version[file] # "none"
    BY <1>2
  <2>2. /\ Finished[file].last = LastRow(file) /\ Finished[file].sum # "none"
        /\ Finished[file].last <= LastRow(file)
    BY <1>2, <1>3, <1>5, <1>6, <1>7, <2>1
  <2>3. ASSUME NEW f \in Files, f # file
        PROVE  /\ Finished[f].last <= LastRow(f)
               /\ Finished[f].sum = "none" => Finished[f].last = 0 /\ ~Finished[f].complete
               /\ Finished[f].complete => Finished[f].last = LastRow(f)
    BY <1>4, <1>7, <2>3 DEF Plausible
  <2> QED BY <2>2, <2>3 DEF Plausible
<1>9. \A f \in Files : Finished[f].last = files[f].last /\ Finished[f].sum = files[f].sum
  BY <1>7
<1>10. Matches(acc, Finished, Files)
  BY <1>4, <1>9 DEF Matches
<1>11. \A f \in Files : /\ files[f].last <= Finished[f].last
                        /\ files[f].complete => Finished[f] = files[f]
  <2>1. ASSUME NEW f \in Files PROVE files[f].last <= Finished[f].last
    <3>1. files[f].last \in Nat /\ Finished[f].last = files[f].last
      BY <1>5, <1>9
    <3> QED BY <3>1
  <2>2. ASSUME NEW f \in Files, files[f].complete PROVE Finished[f] = files[f]
    BY <1>3, <1>7, <2>2
  <2> QED BY <2>1, <2>2
<1>12. \A f \in wanted : Finished[f].sum \in {"none", version[f]}
  BY <1>2, <1>4, <1>9
<1>13. mode = "restart" => \A f \in todo : Finished[f].last = 0 /\ ~Finished[f].complete
  BY <1>2, <1>3, <1>4, <1>7
<1>14. ReadInv'
  BY <1>1 DEF ReadInv, Reading, CommitSnapshot
<1> QED BY <1>1, <1>2, <1>7, <1>8, <1>10, <1>11, <1>12, <1>13, <1>14,
           CommitInvs DEF Running

\* The first mirror: the checkpoint file becomes what was committed.
LEMMA MirrorCheckpointInv ==
  ASSUME IInv, MirrorCheckpoint
  PROVE  IInv'
<1>1. /\ pc = "mirrorCheckpoint" /\ ckptFile' = [made |-> TRUE, files |-> files]
      /\ pc' = "mirrorAccumulators"
      /\ UNCHANGED <<accFile, db, reports, manifest, files>>
      /\ UNCHANGED <<version, object, call>>
  BY DEF MirrorCheckpoint, Goto
<1>2. db.made /\ db.snapshot /\ files = db.files
  BY <1>1 DEF IInv, CallInv, CommitInv, MirrorPending, Running
<1>3. files \in ProgressOf
  BY DEF IInv, Types, ObjectTypes
<1>4. MirrorTypes'
  BY <1>1, <1>3 DEF MirrorTypes, IInv, Types
<1>5. DbTypes' /\ SealTypes' /\ ObjectTypes' /\ CallTypes'
  BY <1>1 DEF DbTypes, SealTypes, ObjectTypes, CallTypes, object, call, IInv, Types
<1>6. DbInv' /\ SealInv' /\ MirrorPending' /\ ReportsInv' /\ ReadyInv'
  BY <1>1, <1>2 DEF DbInv, SealInv, MirrorPending, ReportsInv, ReadyInv, IInv
<1>7. MirrorInv'
  BY <1>1, <1>2, <1>3 DEF MirrorInv, ProgressOf
<1>8. CallInv'
  BY <1>1 DEF CallInv, Running, object, call, IInv
<1>9. CommitInv'
  BY <1>1, <1>2 DEF CommitInv, Running, call, IInv
<1>10. ReadInv'
  BY <1>1 DEF ReadInv, Reading, call, IInv
<1> QED BY <1>4, <1>5, <1>6, <1>7, <1>8, <1>9, <1>10 DEF IInv, Types

\* The second one says nothing that is looked into.
LEMMA MirroredInv ==
  ASSUME IInv, Mirrored, Goto(then) \/ Goto("finish")
  PROVE  IInv'
<1>1. /\ pc = "mirrorAccumulators" /\ accFile' = TRUE
      /\ pc' \in {then, "finish"}
      /\ UNCHANGED <<ckptFile, db, reports, manifest, files>>
      /\ UNCHANGED <<version, object, call>>
  BY DEF Mirrored, Goto
<1>2. db.snapshot /\ then \in {"loop", "file"}
  BY <1>1 DEF IInv, CommitInv, Running, CallTypes, Types
<1>3. MirrorTypes'
  BY <1>1 DEF MirrorTypes, IInv, Types
<1>4. DbTypes' /\ SealTypes' /\ ObjectTypes'
  BY <1>1 DEF DbTypes, SealTypes, ObjectTypes, object, IInv, Types
<1>5. CallTypes'
  BY <1>1, <1>2 DEF CallTypes, call, IInv, Types
<1>6. DbInv' /\ SealInv' /\ MirrorInv' /\ MirrorPending' /\ ReportsInv' /\ ReadyInv'
  BY <1>1, <1>2 DEF DbInv, SealInv, MirrorInv, MirrorPending, ReportsInv, ReadyInv, IInv
<1>7. CallInv'
  BY <1>1, <1>2 DEF CallInv, Running, object, call, IInv
<1>8. CommitInv'
  BY <1>1, <1>2 DEF CommitInv, Running, call, IInv
<1>9. ReadInv'
  BY <1>1, <1>2 DEF ReadInv, Reading, call, IInv
<1> QED BY <1>3, <1>4, <1>5, <1>6, <1>7, <1>8, <1>9 DEF IInv, Types

\* With no file left the call goes on to sealing.
LEMMA LoopEndsInv ==
  ASSUME IInv, LoopEnds
  PROVE  IInv'
<1>1. /\ pc = "loop" /\ todo = {} /\ pc' = "finish"
      /\ UNCHANGED durable /\ UNCHANGED <<files, version, object, call>>
  BY DEF LoopEnds, Goto
<1>2. db.snapshot
  BY <1>1 DEF IInv, CommitInv, Running, DbTypes, Types
<1>3. ObjectTypes' /\ CallTypes'
  BY <1>1 DEF ObjectTypes, CallTypes, object, call, IInv, Types
<1>4. ReadyInv' /\ ReadInv' /\ MirrorPending' /\ ReportsInv'
  BY <1>1 DEF ReadyInv, ReadInv, Reading, MirrorPending, ReportsInv
<1>5. CallInv'
  BY <1>1 DEF CallInv, Running, durable, object, call, IInv
<1>6. CommitInv'
  BY <1>1, <1>2 DEF CommitInv, Running, durable, call, IInv
<1> QED BY <1>1, <1>3, <1>4, <1>5, <1>6, DiskUnchanged DEF IInv, Types

\* Sealing writes the reports from the first one on.
LEMMA BeginSealInv ==
  ASSUME IInv, BeginSeal
  PROVE  IInv'
<1>1. /\ pc = "finish" /\ pc' = "seal" /\ next' = 1
      /\ UNCHANGED durable
      /\ UNCHANGED <<version, object, files, wanted, required, todo, file, acc, then>>
  BY DEF BeginSeal
<1>2. ObjectTypes' /\ CallTypes'
  BY <1>1 DEF ObjectTypes, CallTypes, object, IInv, Types
<1>3. ReadyInv' /\ ReadInv' /\ MirrorPending'
  BY <1>1 DEF ReadyInv, ReadInv, Reading, MirrorPending
<1>4. ReportsInv'
  BY <1>1 DEF ReportsInv, Reports
<1>5. CallInv'
  BY <1>1 DEF CallInv, Running, durable, object, IInv
<1>6. CommitInv'
  BY <1>1 DEF CommitInv, Running, durable, IInv
<1> QED BY <1>1, <1>2, <1>3, <1>4, <1>5, <1>6, DiskUnchanged DEF IInv, Types

\* Each report is of the accumulators, and the earlier ones stay so.
LEMMA WriteReportInv ==
  ASSUME IInv, WriteReport
  PROVE  IInv'
<1>1. /\ pc = "seal" /\ pc' = pc /\ next \in Reports /\ next' = next + 1
      /\ reports' = [reports EXCEPT ![next] = [made |-> TRUE, acc |-> acc]]
      /\ UNCHANGED <<ckptFile, accFile, db, manifest>>
      /\ UNCHANGED <<version, object, files, wanted, required, todo, file, acc, then>>
  BY DEF WriteReport
<1>2. DOMAIN reports = Reports /\ Counted(acc) /\ db.made
  BY <1>1 DEF IInv, Types, SealTypes, CallTypes, CallInv, Running
<1>3. \A n \in Reports : reports'[n] = IF n = next THEN [made |-> TRUE, acc |-> acc]
                                                   ELSE reports[n]
  BY <1>1, <1>2
<1>4. SealTypes'
  <2>1. reports'[next].made \in BOOLEAN /\ Counted(reports'[next].acc)
    BY <1>1, <1>2, <1>3
  <2>2. ASSUME NEW n \in Reports, n # next
        PROVE  reports'[n].made \in BOOLEAN /\ Counted(reports'[n].acc)
    BY <1>3, <2>2 DEF SealTypes, IInv, Types
  <2> QED BY <1>1, <1>2, <2>1, <2>2 DEF SealTypes, IInv, Types
<1>5. MirrorTypes' /\ DbTypes' /\ ObjectTypes'
  BY <1>1 DEF MirrorTypes, DbTypes, ObjectTypes, object, IInv, Types
<1>6. CallTypes'
  BY <1>1 DEF CallTypes, Reports, IInv, Types
<1>7. DbInv' /\ MirrorInv' /\ SealInv'
  BY <1>1, <1>2 DEF DbInv, MirrorInv, SealInv, IInv
<1>8. ReadyInv' /\ ReadInv' /\ MirrorPending'
  BY <1>1 DEF ReadyInv, ReadInv, Reading, MirrorPending
<1>9. ReportsInv'
  <2>1. ASSUME NEW n \in Reports, n < next + 1 PROVE reports'[n].acc = acc
    <3>1. CASE n = next
      BY <1>3, <3>1
    <3>2. CASE n # next
      BY <1>1, <1>3, <2>1, <3>2 DEF ReportsInv, Reports, IInv
    <3> QED BY <3>1, <3>2
  <2> QED BY <1>1, <2>1 DEF ReportsInv
<1>10. CallInv'
  BY <1>1 DEF CallInv, Running, object, IInv
<1>11. CommitInv'
  BY <1>1 DEF CommitInv, Running, IInv
<1> QED BY <1>4, <1>5, <1>6, <1>7, <1>8, <1>9, <1>10, <1>11 DEF IInv, Types

\* The manifest is written over reports that agree.
LEMMA WriteManifestInv ==
  ASSUME IInv, WriteManifest
  PROVE  IInv'
<1>1. /\ pc = "seal" /\ pc' = "remove" /\ next \notin Reports
      /\ manifest' = [made |-> TRUE, complete |-> AllComplete(files, wanted),
                      sources |-> wanted \ todo]
      /\ UNCHANGED <<ckptFile, accFile, db, reports, files>>
      /\ UNCHANGED <<version, object, call>>
  BY DEF WriteManifest, Goto
<1>2. /\ wanted \subseteq Files /\ next \in Nat \ {0} /\ db.made
      /\ \A f \in Files : files[f].complete \in BOOLEAN
  BY <1>1 DEF IInv, Types, CallTypes, ObjectTypes, ProgressOf, CallInv, Running
<1>3. MirrorTypes' /\ DbTypes' /\ ObjectTypes' /\ CallTypes'
  BY <1>1 DEF MirrorTypes, DbTypes, ObjectTypes, CallTypes, object, call, IInv, Types
<1>4. SealTypes'
  <2>1. AllComplete(files, wanted) \in BOOLEAN
    BY DEF AllComplete
  <2> QED BY <1>1, <1>2, <2>1 DEF SealTypes, IInv, Types
<1>5. DbInv' /\ MirrorInv' /\ SealInv'
  BY <1>1, <1>2 DEF DbInv, MirrorInv, SealInv, IInv
<1>6. ReadyInv' /\ ReadInv' /\ MirrorPending'
  BY <1>1 DEF ReadyInv, ReadInv, Reading, MirrorPending
<1>7. ReportsInv'
  <2>1. \A n \in Reports : n < next
    BY <1>1, <1>2 DEF Reports
  <2> QED BY <1>1, <2>1 DEF ReportsInv, AllComplete, call, IInv
<1>8. CallInv'
  BY <1>1 DEF CallInv, Running, object, call, IInv
<1>9. CommitInv'
  BY <1>1 DEF CommitInv, Running, call, IInv
<1> QED BY <1>3, <1>4, <1>5, <1>6, <1>7, <1>8, <1>9 DEF IInv, Types

\* With the manifest written the reports agree, and they hold every record of
\* the files that are complete, from the content that is recorded.
LEMMA ReportsExact ==
  ASSUME IInv, pc = "remove"
  PROVE  /\ \A n \in Reports : reports[n].acc = acc
         /\ manifest.complete =>
              \A f \in manifest.sources : \E v \in Versions :
                \A i \in Records(f) : acc[f][i] = v
<1>1. /\ files \in ProgressOf
      /\ \A n \in Reports : reports[n].acc = acc
      /\ manifest.complete => AllComplete(files, wanted)
      /\ manifest.sources \subseteq wanted /\ wanted \subseteq Files
  BY DEF IInv, Types, CallTypes, ObjectTypes, ReportsInv
<1>2. Plausible(files) /\ Matches(acc, files, Files)
  BY DEF IInv, CallInv, Running
<1>3. ASSUME manifest.complete, NEW f \in manifest.sources
      PROVE  \E v \in Versions : \A i \in Records(f) : acc[f][i] = v
  <2>1. f \in Files /\ files[f].complete
    BY <1>1, <1>3 DEF AllComplete
  <2>2. files[f].sum \in Versions /\ files[f].last = LastRow(f)
    BY <1>1, <1>2, <2>1 DEF Plausible, ProgressOf
  <2>3. \A i \in Records(f) : acc[f][i] = files[f].sum
    BY <1>2, <2>1, <2>2, RowFacts DEF Matches
  <2> QED BY <2>2, <2>3
<1> QED BY <1>1, <1>3

\* The database is removed when what it said is in the reports.
LEMMA RemoveDatabaseInv ==
  ASSUME IInv, RemoveDatabase
  PROVE  IInv'
<1>1. /\ pc = "remove" /\ db' = NoDatabase /\ Leave("idle")
      /\ UNCHANGED <<ckptFile, accFile, reports, manifest>>
  BY DEF RemoveDatabase
<1>2. /\ files \in ProgressOf /\ acc = db.acc /\ db.snapshot
      /\ \A n \in Reports : reports[n].acc = acc
  BY <1>1 DEF IInv, Types, ObjectTypes, DbTypes, ReportsInv, CommitInv, Running
<1>3. 1 \in Reports
  BY DEF Reports
<1>4. MirrorTypes' /\ SealTypes'
  BY <1>1 DEF MirrorTypes, SealTypes, IInv, Types
<1>5. DbTypes'
  BY <1>1, FreshFacts DEF DbTypes, NoDatabase
<1>6. DbInv' /\ MirrorInv'
  BY <1>1 DEF DbInv, MirrorInv, NoDatabase, IInv
<1>7. manifest.complete =>
        \A f \in manifest.sources : \E v \in Versions :
          \A i \in Records(f) : reports[1].acc[f][i] = v
  BY <1>1, <1>2, <1>3, ReportsExact
<1>8. ASSUME ckptFile.made, NEW f \in Files, ckptFile.files[f].complete
      PROVE  Matches(reports[1].acc, ckptFile.files, {f})
  <2>1. ckptFile.files[f] = db.files[f]
    BY <1>2, <1>8 DEF IInv, MirrorInv
  <2>2. db.snapshot => Matches(db.acc, db.files, Files)
    BY DEF IInv, DbInv
  <2> QED BY <1>2, <1>3, <2>1, <2>2 DEF Matches
<1>9. SealInv'
  BY <1>1, <1>2, <1>3, <1>7, <1>8 DEF SealInv
<1>10. "idle" \in Between
  BY DEF Between
<1> QED BY <1>1, <1>4, <1>5, <1>6, <1>9, <1>10, LeaveInv

\* A source file is replaced while no call runs.
LEMMA ReplaceSourceInv ==
  ASSUME IInv, NEW f \in Files, ReplaceSource(f)
  PROVE  IInv'
<1>1. /\ pc \in Between /\ pc' = pc
      /\ \E v \in Versions : version' = [version EXCEPT ![f] = v]
      /\ UNCHANGED durable /\ UNCHANGED <<object, files, call>>
  BY DEF ReplaceSource
<1>2. version' \in [Files -> Versions]
  BY <1>1 DEF IInv, Types, CallTypes
<1>3. ObjectTypes' /\ CallTypes'
  BY <1>1, <1>2 DEF ObjectTypes, CallTypes, object, call, IInv, Types
<1>4. /\ ReadyInv' /\ CallInv' /\ CommitInv' /\ ReadInv'
      /\ MirrorPending' /\ ReportsInv'
  BY <1>1 DEF ReadyInv, CallInv, CommitInv, ReadInv, Reading, MirrorPending,
     ReportsInv, Running, Between
<1> QED BY <1>1, <1>3, <1>4, DiskUnchanged DEF IInv, Types

\* Every step of every process, and every kill, keeps the invariant.
LEMMA NextInv == IInv /\ [Next]_vars => IInv'
<1> SUFFICES ASSUME IInv, [Next]_vars PROVE IInv'
  OBVIOUS
<1>1. CASE Open
  BY <1>1, OpenInv
<1>2. CASE Unlink \/ UnlinkEnds \/ Loop
  BY <1>2, UnlinkInv, UnlinkEndsInv, SkipFileInv, BeginFileInv, CommitChunkInv,
     CommitFileInv, LoopEndsInv DEF Loop
<1>3. CASE MirrorCheckpoint \/ MirrorAccumulators \/ Interrupt
  BY <1>3, MirrorCheckpointInv, MirroredInv DEF MirrorAccumulators, Interrupt
<1>4. CASE Incomplete \/ CommitFails \/ MirrorFails \/ Crash
  <2>1. PICK p \in Between : Leave(p) /\ UNCHANGED durable
    BY <1>4 DEF Incomplete, CommitFails, MirrorFails, Crash, Between
  <2> QED BY <2>1, DiskUnchanged, LeaveInv
<1>5. CASE BeginSeal \/ WriteReport \/ WriteManifest \/ RemoveDatabase
  BY <1>5, BeginSealInv, WriteReportInv, WriteManifestInv, RemoveDatabaseInv
<1>6. CASE \E m \in Modes, s \in ChunkSizes : Construct(m, s)
  BY <1>6, ConstructInv
<1>7. CASE \E f \in Files : ReplaceSource(f)
  BY <1>7, ReplaceSourceInv
<1>8. CASE UNCHANGED vars
  <2>1. UNCHANGED durable /\ UNCHANGED <<version, pc, object, files, call>>
    BY <1>8 DEF vars, durable, object, call
  <2>2. ObjectTypes' /\ CallTypes'
    BY <2>1 DEF ObjectTypes, CallTypes, object, call, IInv, Types
  <2>3. /\ ReadyInv' /\ CallInv' /\ CommitInv' /\ ReadInv'
        /\ MirrorPending' /\ ReportsInv'
    BY <2>1 DEF ReadyInv, CallInv, CommitInv, ReadInv, Reading, MirrorPending,
       ReportsInv, Running, durable, object, call, IInv
  <2> QED BY <2>1, <2>2, <2>3, DiskUnchanged DEF IInv, Types
<1> QED BY <1>1, <1>2, <1>3, <1>4, <1>5, <1>6, <1>7, <1>8
        DEF Next, Progress, Seal, Disturbance

\* The inductive invariant holds in every reachable state.
THEOREM Inductive == Spec => []IInv
  BY InitInv, NextInv, PTL DEF Spec

-----------------------------------------------------------------------------
(***************************************************************************)
(* The properties.                                                         *)
(***************************************************************************)
\* Every reachable state is well typed.
THEOREM TypeCorrect == Spec => []TypeOK
<1>1. IInv => TypeOK
  BY DEF IInv, Types, MirrorTypes, DbTypes, SealTypes, ObjectTypes, CallTypes, TypeOK
<1> QED BY <1>1, Inductive, PTL

\* "No double counting": committed accumulators and committed checkpoint say
\* the same of every record, whatever resumed, failed or was killed.
THEOREM SnapshotIsExact == Spec => []SnapshotExact
<1>1. IInv => SnapshotExact
  BY DEF IInv, DbInv, Plausible, SnapshotExact
<1> QED BY <1>1, Inductive, PTL

\* The JSON mirrors never run ahead of the transaction.
THEOREM MirrorsAreBehind == Spec => []MirrorsFollow
<1>1. IInv => MirrorsFollow
  BY DEF IInv, MirrorInv, MirrorsFollow
<1> QED BY <1>1, Inductive, PTL

\* The reports of a sealed run agree, and count every record of every listed
\* file once, from one content of it, when the manifest calls it complete.
THEOREM SealedIsExact == Spec => []SealedExact
<1>1. 1 \in Reports
  BY DEF Reports
<1>2. ASSUME IInv, Sealed PROVE SealedExact
  BY <1>2 DEF IInv, SealInv, Sealed, SealedExact
<1>3. ASSUME IInv, pc = "remove" PROVE SealedExact
  BY <1>1, <1>3, ReportsExact DEF SealedExact
<1>4. IInv => SealedExact
  BY <1>2, <1>3 DEF SealedExact
<1> QED BY <1>4, Inductive, PTL

\* What the checkpoint file calls complete is in the reports a sealed reload
\* returns.
THEOREM ReloadIsSound == Spec => []ReloadSound
<1>1. IInv => ReloadSound
  BY DEF IInv, SealInv, Sealed, ReloadSound
<1> QED BY <1>1, Inductive, PTL

\* The steps that change the database.
LEMMA DatabaseSteps ==
  ASSUME [Next]_vars, db' # db
  PROVE  \/ Unlink \/ CommitChunk \/ CommitFile \/ RemoveDatabase
         \/ \E fs \in SUBSET Files : Opens(fs)
<1>1. ASSUME Open PROVE \E fs \in SUBSET Files : Opens(fs)
  BY <1>1 DEF Open, Reload, RefuseDrift, RefuseLegacy, RefuseSnapshot,
     OpenFresh, OpenSnapshot, durable
<1>2. ASSUME Loop PROVE CommitChunk \/ CommitFile
  BY <1>2 DEF Loop, SkipFile, BeginFile, LoopEnds, durable
<1>3. ASSUME Seal PROVE RemoveDatabase
  BY <1>3 DEF Seal, Incomplete, BeginSeal, WriteReport, WriteManifest, durable
<1>4. ~UnlinkEnds /\ ~MirrorCheckpoint /\ ~MirrorAccumulators /\ ~Disturbance
  BY DEF UnlinkEnds, MirrorCheckpoint, MirrorAccumulators, Mirrored, Disturbance,
     CommitFails, MirrorFails, Interrupt, Crash, ReplaceSource, durable
<1>5. ~\E m \in Modes, s \in ChunkSizes : Construct(m, s)
  BY DEF Construct, durable
<1>6. ~UNCHANGED vars
  BY DEF vars
<1> QED BY <1>1, <1>2, <1>3, <1>4, <1>5, <1>6 DEF Next, Progress

\* Only a restart, and sealing, take back what was committed.
THEOREM CommittedRowsAreKept == Spec => CommittedIsKept
<1> DEFINE Kept == db.snapshot =>
             \/ db'.snapshot /\ \A f \in Files : db'.files[f].last >= db.files[f].last
             \/ mode = "restart" /\ pc = "unlink"
             \/ pc = "remove"
<1>1. ASSUME IInv PROVE /\ \A f \in Files : db.files[f].last \in Nat
                        /\ file \in Files /\ files \in ProgressOf
  BY <1>1 DEF IInv, Types, DbTypes, ObjectTypes, CallTypes, ProgressOf
<1>2. ASSUME IInv, Unlink \/ RemoveDatabase PROVE Kept
  BY <1>2 DEF Unlink, RemoveDatabase, IInv, ReadyInv
<1>3. ASSUME IInv, NEW fs \in SUBSET Files, Opens(fs) PROVE Kept
  <2>1. db'.snapshot = db.snapshot /\ db'.files = db.files
    BY <1>3, OpensFacts
  <2> QED BY <2>1, <1>1, <1>3
<1>4. ASSUME IInv, pc = "file", NEW progress, NEW counted, CommitSnapshot(progress, counted),
             \A f \in Files : files[f].last <= progress[f].last
      PROVE  Kept
  <2>1. db'.snapshot /\ db'.files = progress
    BY <1>4 DEF CommitSnapshot
  <2>2. db.snapshot => \A f \in Files : files[f].last = db.files[f].last
    BY <1>4 DEF IInv, CommitInv, Running
  <2>3. db.snapshot => \A f \in Files : progress[f].last >= db.files[f].last
    BY <1>4, <2>2
  <2> QED BY <2>1, <2>3
<1>5. ASSUME IInv, CommitChunk PROVE Kept
  <2>1. Marked[file].last = SourceRow[file][End] /\ Forward
        /\ \A f \in Files : f # file => Marked[f] = files[f]
    BY <1>1, <1>5 DEF CommitChunk, Marked, ProgressOf
  <2>2. \A f \in Files : files[f].last \in Nat
    BY <1>1, <1>5 DEF ProgressOf
  <2>3. ASSUME NEW f \in Files PROVE files[f].last <= Marked[f].last
    <3>1. CASE f = file
      BY <2>1, <3>1 DEF Forward
    <3>2. CASE f # file
      BY <2>1, <2>2, <3>2
    <3> QED BY <3>1, <3>2
  <2> QED BY <1>4, <1>5, <2>3 DEF CommitChunk
<1>6. ASSUME IInv, CommitFile PROVE Kept
  <2>1. \A f \in Files : files[f].last \in Nat /\ Finished[f].last = files[f].last
    BY <1>1, <1>6 DEF Finished, ProgressOf
  <2>2. ASSUME NEW f \in Files PROVE files[f].last <= Finished[f].last
    BY <2>1
  <2> QED BY <1>4, <1>6, <2>2 DEF CommitFile
<1>7. ASSUME IInv, [Next]_vars PROVE Kept \/ UNCHANGED vars
  <2>1. CASE db' = db
    BY <2>1, <1>1, <1>7
  <2>2. CASE db' # db
    BY <2>2, <1>2, <1>3, <1>5, <1>6, <1>7, DatabaseSteps
  <2> QED BY <2>1, <2>2
<1> QED BY <1>7, Inductive, PTL DEF Spec, CommittedIsKept
=============================================================================
