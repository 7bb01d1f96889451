--------------------------- MODULE DiagnosticsRun ---------------------------
(***************************************************************************)
(* One run directory of the Phase 2 diagnostics                            *)
(* (src/src/tdmec_diagnostics/pipeline.py, checkpoint.py,                  *)
(* transaction_state.py): DiagnosticsPipeline objects are constructed and  *)
(* called one after the other over changing lists of source files, and     *)
(* interrupted, failed or killed at any point.  A chunk of records, the    *)
(* accumulators that counted it and the checkpoint that says so commit in  *)
(* one SQLite transaction; two JSON mirrors follow it; the reports and the *)
(* manifest seal the run and the database is then removed.                 *)
(*                                                                         *)
(* Data: a record is its place in its file; the accumulators (calendar,    *)
(* dedup with its SQLite rows, text length, coverage) are what has been    *)
(* counted of each record.  Scientific configurations agree in all         *)
(* sessions (others are refused before anything is written); chunk_size,   *)
(* which is no part of them, is chosen anew.  Checkpoints are enabled.     *)
(* The human summaries, which nothing reads, are left out.                 *)
(***************************************************************************)
EXTENDS Naturals, Sequences

CONSTANTS
  Files,        \* source files
  SourceRow,    \* per file: the workbook row each of its records comes from
  ChunkSizes,   \* chunk sizes an operator may configure
  Versions,     \* contents a source file may have: its checksums
  NReports,     \* number of JSON reports
  Requires      \* values of require_complete in use

Records(f) == DOMAIN SourceRow[f]
\* What a completed file is recorded to have reached; 0 in a file of no record.
LastRow(f) == IF SourceRow[f] = << >> THEN 0 ELSE SourceRow[f][Len(SourceRow[f])]
Reports == 1 .. NReports
Modes == {"resume", "restart"}

\* Adapters yield records in the order of their workbook rows; row 1 is the
\* header.
ASSUME SourceAssumption ==
  /\ Files # {} /\ DOMAIN SourceRow = Files
  /\ \A f \in Files :
       /\ SourceRow[f] \in Seq(Nat \ {0, 1})
       /\ \A i, j \in Records(f) : i <= j => SourceRow[f][i] <= SourceRow[f][j]
ASSUME ChunkAssumption == ChunkSizes # {} /\ ChunkSizes \subseteq Nat \ {0}
ASSUME ReportsAssumption == NReports \in Nat \ {0}
ASSUME VersionsAssumption == Versions \cap {"none", "twice"} = {}
ASSUME RequiresAssumption == Requires \subseteq BOOLEAN

VARIABLES
  version,    \* content of each source file: its sha256_file
  ckptFile,   \* diagnostics_checkpoint.json, [made, files]
  accFile,    \* accumulator_state.json exists
  db,         \* the SQLite file, [made, snapshot, files, acc]
  reports,    \* the JSON reports, each [made, acc]
  manifest,   \* execution_manifest.json, [made, complete, sources]
  pc,
  mode,       \* the object's resume_mode
  chunkSize,  \* and chunk_size
  files,      \* and checkpoint.files
  wanted,     \* the files of the call
  required,   \* its require_complete
  todo,       \* files it has not reached
  file, next, \* the file it reads and the next record of it
  acc,        \* its accumulators
  then        \* where a commit returns to

durable == <<ckptFile, accFile, db, reports, manifest>>
object == <<mode, chunkSize>>
call == <<wanted, required, todo, file, next, acc, then>>
vars == <<version, ckptFile, accFile, db, reports, manifest, pc, mode,
          chunkSize, files, wanted, required, todo, file, next, acc, then>>

(***************************************************************************)
(* Progress and accumulators.                                              *)
(***************************************************************************)
\* A file without a FileCheckpoint has sum "none".
NoProgress == [f \in Files |-> [sum |-> "none", last |-> 0, complete |-> FALSE]]

NothingCounted == [f \in Files |-> [i \in Records(f) |-> "none"]]

NoCheckpointFile == [made |-> FALSE, files |-> NoProgress]
NoDatabase == [made |-> FALSE, snapshot |-> FALSE,
               files |-> NoProgress, acc |-> NothingCounted]
NoReport == [made |-> FALSE, acc |-> NothingCounted]
NoManifest == [made |-> FALSE, complete |-> FALSE, sources |-> {}]

\* What the accumulators know of a record after they observe it once more.
Observe(known, v) == IF known = "none" THEN v ELSE "twice"

\* Mutant of ChunkEnds: a chunk may end within a workbook row.
ChunkEndsAnywhere(f, i, size) ==
  {j \in Records(f) : j >= i /\ (j = Len(SourceRow[f]) \/ j - i + 1 >= size)}

\* _iter_source_row_chunks: the records from next on, up to the first one
\* that fills the chunk and is the last of its workbook row.
ChunkEnds(f, i, size) ==
  {j \in Records(f) :
     /\ j >= i
     /\ \/ j = Len(SourceRow[f])
        \/ j - i + 1 >= size /\ SourceRow[f][j + 1] # SourceRow[f][j]}

ChunkEnd(f, i, size) ==
  CHOOSE j \in ChunkEnds(f, i, size) : \A k \in ChunkEnds(f, i, size) : j <= k

\* The first record that start_after_source_row leaves.
FirstAfter(f, row) ==
  CHOOSE i \in 1 .. Len(SourceRow[f]) + 1 :
    /\ \A j \in 1 .. (i - 1) : SourceRow[f][j] <= row
    /\ i \in Records(f) => SourceRow[f][i] > row

AllComplete(progress, fs) == \A f \in fs : progress[f].complete

\* Mutant of Drifted: checksums are not compared.
NeverDrifted(progress, fs) == FALSE

\* A checkpointed file whose checksum is no longer the recorded one.
Drifted(progress, fs) == \E f \in fs : progress[f].sum \notin {"none", version[f]}

(***************************************************************************)
(* Control.                                                                *)
(***************************************************************************)
Goto(p) == pc' = p /\ UNCHANGED <<version, object, call>>

\* run_on_files returns, raises or is killed: its locals are gone, and so is
\* the pipeline object, which every caller in the repository calls once.
Leave(p) == /\ pc' = p
            /\ mode' = "resume" /\ chunkSize' = CHOOSE s \in ChunkSizes : TRUE
            /\ files' = NoProgress
            /\ wanted' = {} /\ required' = TRUE /\ todo' = {}
            /\ file' = CHOOSE f \in Files : TRUE
            /\ next' = 1 /\ acc' = NothingCounted /\ then' = "loop"
            /\ UNCHANGED version

Between == {"down", "idle", "refused"}

Init == /\ version \in [Files -> Versions]
        /\ ckptFile = NoCheckpointFile /\ accFile = FALSE /\ db = NoDatabase
        /\ reports = [n \in Reports |-> NoReport] /\ manifest = NoManifest
        /\ pc = "down" /\ mode = "resume"
        /\ chunkSize = CHOOSE s \in ChunkSizes : TRUE
        /\ files = NoProgress
        /\ wanted = {} /\ required = TRUE /\ todo = {}
        /\ file = CHOOSE f \in Files : TRUE
        /\ next = 1 /\ acc = NothingCounted /\ then = "loop"

(***************************************************************************)
(* DiagnosticsPipeline.__post_init__.                                      *)
(***************************************************************************)
\* Mutant of Construct: a restart deletes nothing.
ConstructKeeping(m, s) ==
  /\ pc \in Between
  /\ mode' = m /\ chunkSize' = s
  /\ files' = IF ~db.made THEN ckptFile.files ELSE NoProgress
  /\ pc' = "ready"
  /\ UNCHANGED <<version, durable, call>>

Construct(m, s) ==
  /\ pc \in Between
  /\ mode' = m /\ chunkSize' = s
  /\ files' = IF m = "resume" /\ ~db.made THEN ckptFile.files ELSE NoProgress
  /\ pc' = IF m = "restart" THEN "unlink" ELSE "ready"
  /\ UNCHANGED <<version, durable, call>>

\* _restart_run_state: one unlink after the other, in this order.
Unlink ==
  /\ pc = "unlink"
  /\ \/ /\ ckptFile.made
        /\ ckptFile' = NoCheckpointFile
        /\ UNCHANGED <<accFile, db, reports, manifest>>
     \/ /\ ~ckptFile.made /\ accFile
        /\ accFile' = FALSE
        /\ UNCHANGED <<ckptFile, db, reports, manifest>>
     \/ /\ ~ckptFile.made /\ ~accFile /\ db.made
        /\ db' = NoDatabase
        /\ UNCHANGED <<ckptFile, accFile, reports, manifest>>
     \/ /\ ~ckptFile.made /\ ~accFile /\ ~db.made
        /\ \E n \in Reports : /\ reports[n].made
                              /\ reports' = [reports EXCEPT ![n] = NoReport]
        /\ UNCHANGED <<ckptFile, accFile, db, manifest>>
  /\ Goto("unlink") /\ UNCHANGED files

UnlinkEnds ==
  /\ pc = "unlink"
  /\ ~ckptFile.made /\ ~accFile /\ ~db.made /\ \A n \in Reports : ~reports[n].made
  /\ manifest' = NoManifest
  /\ Goto("ready")
  /\ UNCHANGED <<ckptFile, accFile, db, reports, files>>

(***************************************************************************)
(* run_on_files: the sealed reload, or the transaction state.              *)
(***************************************************************************)
Reloadable(fs) == /\ ~db.made
                  /\ AllComplete(files, fs)
                  /\ manifest.made /\ \A n \in Reports : reports[n].made

Reload(fs) == /\ pc = "ready"
              /\ Reloadable(fs) /\ ~Drifted(files, fs)
              /\ Leave("idle") /\ UNCHANGED durable

RefuseDrift(fs) == /\ pc = "ready"
                   /\ ~db.made /\ Drifted(files, fs)
                   /\ Leave("refused") /\ UNCHANGED durable

\* Mutant of Opens: the database is created anew.
OpensAnew(fs) == /\ pc = "ready"
                 /\ ~Reloadable(fs) /\ (db.made \/ ~Drifted(files, fs))
                 /\ db' = [NoDatabase EXCEPT !.made = TRUE]
                 /\ UNCHANGED <<ckptFile, accFile, reports, manifest>>

\* Opening SQLite creates the file, before it is looked into.
Opens(fs) == /\ pc = "ready"
             /\ ~Reloadable(fs) /\ (db.made \/ ~Drifted(files, fs))
             /\ db' = [db EXCEPT !.made = TRUE]
             /\ UNCHANGED <<ckptFile, accFile, reports, manifest>>

\* "unsealed legacy checkpoint state has no transactional authority"
RefuseLegacy(fs) == /\ Opens(fs)
                    /\ ~db.snapshot /\ (ckptFile.made \/ accFile)
                    /\ Leave("refused")

Begin(fs, q) == /\ pc' = "loop"
                /\ wanted' = fs /\ required' = q /\ todo' = fs
                /\ UNCHANGED <<version, object, file, next, then>>

OpenFresh(fs, q) == /\ Opens(fs)
                    /\ ~db.snapshot /\ ~ckptFile.made /\ ~accFile
                    /\ ~Drifted(files, fs)
                    /\ Begin(fs, q) /\ acc' = NothingCounted
                    /\ UNCHANGED files

\* Mutant of OpenSnapshot: the accumulators start from nothing.
OpenProgressOnly(fs, q) == /\ Opens(fs)
                           /\ db.snapshot /\ ~Drifted(db.files, fs)
                           /\ files' = db.files
                           /\ Begin(fs, q) /\ acc' = NothingCounted

OpenSnapshot(fs, q) == /\ Opens(fs)
                       /\ db.snapshot /\ ~Drifted(db.files, fs)
                       /\ files' = db.files
                       /\ Begin(fs, q) /\ acc' = db.acc

RefuseSnapshot(fs) == /\ Opens(fs)
                      /\ IF db.snapshot THEN Drifted(db.files, fs)
                         ELSE ~ckptFile.made /\ ~accFile /\ Drifted(files, fs)
                      /\ Leave("refused")

(***************************************************************************)
(* The loop over the files, in the order of the caller's list.             *)
(***************************************************************************)
SkipFile(f) == /\ pc = "loop" /\ f \in todo
               /\ files[f].complete /\ mode = "resume"
               /\ todo' = todo \ {f}
               /\ UNCHANGED <<version, durable, pc, object, files, wanted,
                              required, file, next, acc, then>>

BeginFile(f) ==
  /\ pc = "loop" /\ f \in todo
  /\ ~(files[f].complete /\ mode = "resume")
  /\ todo' = todo \ {f}
  /\ file' = f
  /\ next' = FirstAfter(f, IF mode = "resume" THEN files[f].last ELSE 0)
  /\ files' = [files EXCEPT ![f].sum = IF @ = "none" THEN version[f] ELSE @]
  /\ pc' = "file"
  /\ UNCHANGED <<version, durable, object, wanted, required, acc, then>>

End == ChunkEnd(file, next, chunkSize)

\* mark_chunk
Marked == [files EXCEPT ![file].last = SourceRow[file][End]]

Consumed ==
  [acc EXCEPT ![file] = [i \in Records(file) |->
                           IF i \in next .. End THEN Observe(@[i], version[file])
                                                ELSE @[i]]]

CommitSnapshot(progress, counted) ==
  /\ db' = [made |-> TRUE, snapshot |-> TRUE, files |-> progress, acc |-> counted]
  /\ files' = progress /\ acc' = counted
  /\ pc' = "mirrorCheckpoint"

\* A chunk whose last row is behind the recorded one is refused by mark_chunk.
Forward == SourceRow[file][End] >= files[file].last

CommitChunk == /\ pc = "file" /\ next \in Records(file) /\ Forward
               /\ CommitSnapshot(Marked, Consumed)
               /\ next' = End + 1 /\ then' = "file"
               /\ UNCHANGED <<version, ckptFile, accFile, reports, manifest,
                              object, wanted, required, todo, file>>

Finished == [files EXCEPT ![file].complete = TRUE]

\* Mutant of CommitFile: the run ends with its first file.
CommitOnlyFile == /\ pc = "file" /\ next \notin Records(file)
                  /\ CommitSnapshot(Finished, acc)
                  /\ then' = "finish"
                  /\ UNCHANGED <<version, ckptFile, accFile, reports, manifest,
                                 object, wanted, required, todo, file, next>>

CommitFile == /\ pc = "file" /\ next \notin Records(file)
              /\ CommitSnapshot(Finished, acc)
              /\ then' = "loop"
              /\ UNCHANGED <<version, ckptFile, accFile, reports, manifest,
                             object, wanted, required, todo, file, next>>

\* Mutant of CommitFails: the mirror was published before the commit.
CommitFailsMirrored == /\ pc = "file" /\ next \in Records(file)
                       /\ ckptFile' = [made |-> TRUE, files |-> Marked]
                       /\ Leave("idle")
                       /\ UNCHANGED <<accFile, db, reports, manifest>>

\* Reading, consuming, marking or committing raises: the transaction is
\* rolled back.
CommitFails == /\ pc = "file"
               /\ Leave("idle") /\ UNCHANGED durable

(***************************************************************************)
(* _publish_checkpoint_mirrors, after the commit.                          *)
(***************************************************************************)
MirrorCheckpoint == /\ pc = "mirrorCheckpoint"
                    /\ ckptFile' = [made |-> TRUE, files |-> files]
                    /\ Goto("mirrorAccumulators")
                    /\ UNCHANGED <<accFile, db, reports, manifest, files>>

Mirrored == /\ pc = "mirrorAccumulators"
            /\ accFile' = TRUE
            /\ UNCHANGED <<ckptFile, db, reports, manifest, files>>

MirrorAccumulators == Mirrored /\ Goto(then)

\* interrupt_after_chunks and interrupt_after_files.
Interrupt == Mirrored /\ Goto("finish")

MirrorFails == /\ pc \in {"mirrorCheckpoint", "mirrorAccumulators"}
               /\ Leave("idle") /\ UNCHANGED durable

LoopEnds == /\ pc = "loop" /\ todo = {}
            /\ Goto("finish") /\ UNCHANGED <<durable, files>>

(***************************************************************************)
(* Sealing: the reports, the manifest, then the database is removed.       *)
(***************************************************************************)
Incomplete == /\ pc = "finish"
              /\ required /\ ~AllComplete(files, wanted)
              /\ Leave("idle") /\ UNCHANGED durable

BeginSeal == /\ pc = "finish"
             /\ ~required \/ AllComplete(files, wanted)
             /\ pc' = "seal" /\ next' = 1 \* now the next report
             /\ UNCHANGED <<version, durable, object, files, wanted, required,
                            todo, file, acc, then>>

\* Mutant of WriteReport: a report that exists is not written again.
WriteMissingReport ==
  /\ pc = "seal" /\ next \in Reports
  /\ reports' = IF reports[next].made THEN reports
                ELSE [reports EXCEPT ![next] = [made |-> TRUE, acc |-> acc]]
  /\ next' = next + 1
  /\ UNCHANGED <<version, ckptFile, accFile, db, manifest, pc, object,
                 files, wanted, required, todo, file, acc, then>>

WriteReport == /\ pc = "seal" /\ next \in Reports
               /\ reports' = [reports EXCEPT ![next] = [made |-> TRUE, acc |-> acc]]
               /\ next' = next + 1
               /\ UNCHANGED <<version, ckptFile, accFile, db, manifest, pc, object,
                              files, wanted, required, todo, file, acc, then>>

\* source_files lists the files the loop has visited.
WriteManifest == /\ pc = "seal" /\ next \notin Reports
                 /\ manifest' = [made |-> TRUE,
                                 complete |-> AllComplete(files, wanted),
                                 sources |-> wanted \ todo]
                 /\ Goto("remove")
                 /\ UNCHANGED <<ckptFile, accFile, db, reports, files>>

RemoveDatabase == /\ pc = "remove"
                  /\ db' = NoDatabase
                  /\ Leave("idle")
                  /\ UNCHANGED <<ckptFile, accFile, reports, manifest>>

(***************************************************************************)
(* The environment.  A source file is replaced between two calls.          *)
(***************************************************************************)
Crash == /\ pc \notin Between
         /\ Leave("down") /\ UNCHANGED durable

ReplaceSource(f) == /\ pc \in Between
                    /\ \E v \in Versions : version' = [version EXCEPT ![f] = v]
                    /\ UNCHANGED <<durable, pc, object, files, call>>

Open == \E fs \in (SUBSET Files) \ {{}} :
          \/ Reload(fs) \/ RefuseDrift(fs) \/ RefuseLegacy(fs) \/ RefuseSnapshot(fs)
          \/ \E q \in Requires : OpenFresh(fs, q) \/ OpenSnapshot(fs, q)

Loop == \/ \E f \in Files : SkipFile(f) \/ BeginFile(f)
        \/ CommitChunk \/ CommitFile \/ LoopEnds

Seal == Incomplete \/ BeginSeal \/ WriteReport \/ WriteManifest \/ RemoveDatabase

Progress == \/ Unlink \/ UnlinkEnds \/ Loop
            \/ MirrorCheckpoint \/ MirrorAccumulators \/ Seal

Disturbance == \/ CommitFails \/ MirrorFails \/ Interrupt \/ Crash
               \/ \E f \in Files : ReplaceSource(f)

Next == \/ \E m \in Modes, s \in ChunkSizes : Construct(m, s)
        \/ Open \/ Progress \/ Disturbance

Spec == Init /\ [][Next]_vars

-----------------------------------------------------------------------------
(***************************************************************************)
(* Properties.                                                             *)
(***************************************************************************)
ProgressOf == [Files -> [sum : Versions \cup {"none"}, last : Nat, complete : BOOLEAN]]

Counted(a) ==
  /\ DOMAIN a = Files
  /\ \A f \in Files : a[f] \in [Records(f) -> Versions \cup {"none", "twice"}]

TypeOK ==
  /\ version \in [Files -> Versions]
  /\ ckptFile.made \in BOOLEAN /\ ckptFile.files \in ProgressOf
  /\ accFile \in BOOLEAN
  /\ db.made \in BOOLEAN /\ db.snapshot \in BOOLEAN
  /\ db.files \in ProgressOf /\ Counted(db.acc)
  /\ \A n \in Reports : reports[n].made \in BOOLEAN /\ Counted(reports[n].acc)
  /\ manifest \in [made : BOOLEAN, complete : BOOLEAN, sources : SUBSET Files]
  /\ pc \in Between \cup {"unlink", "ready", "loop", "file", "mirrorCheckpoint",
                          "mirrorAccumulators", "finish", "seal", "remove"}
  /\ mode \in Modes /\ chunkSize \in ChunkSizes
  /\ files \in ProgressOf
  /\ wanted \in SUBSET Files /\ required \in BOOLEAN /\ todo \in SUBSET wanted
  /\ file \in Files /\ next \in Nat \ {0}
  /\ Counted(acc)
  /\ then \in {"loop", "file"}

\* What is counted is exactly the records up to the recorded source row, each
\* once and all of the recorded content of the file.
Matches(counted, progress, fs) ==
  \A f \in fs : \A i \in Records(f) :
    counted[f][i] = IF SourceRow[f][i] <= progress[f].last THEN progress[f].sum
                                                           ELSE "none"

\* The committed accumulators and the committed checkpoint say the same of
\* every record, across resumes with other chunk sizes and file lists, failed
\* commits and kills ("no double counting", pipeline.py:387).
SnapshotExact ==
  db.snapshot => /\ Matches(db.acc, db.files, Files)
                 /\ \A f \in Files : db.files[f].complete =>
                                       db.files[f].last = LastRow(f)

\* What a call may take for a sealed run.
Sealed == /\ ~db.made /\ ckptFile.made
          /\ manifest.made /\ \A n \in Reports : reports[n].made

\* All reports of a run that is sealed or about to be agree, and when the
\* manifest calls the run complete they count every record of every listed
\* file once, from one content of the file.
SealedExact ==
  Sealed \/ pc = "remove" => \A n \in Reports :
    /\ reports[n].acc = reports[1].acc
    /\ manifest.complete =>
         \A f \in manifest.sources : \E v \in Versions :
           \A i \in Records(f) : reports[n].acc[f][i] = v

\* The sealed reload trusts the checkpoint file: whatever it says of a file,
\* complete or not, holds of the reports that are returned.
ReloadSound ==
  Sealed =>
    \A f \in Files : ckptFile.files[f].complete =>
      Matches(reports[1].acc, ckptFile.files, {f})

\* The mirrors are never ahead of the transaction that is their authority.
MirrorsFollow ==
  db.snapshot /\ ckptFile.made =>
    \A f \in Files : /\ ckptFile.files[f].last <= db.files[f].last
                     /\ ckptFile.files[f].complete => db.files[f].complete

\* "Completed files and committed source rows are not reprocessed": only a
\* restart takes back what was committed, and sealing, which SealedExact is
\* about.
CommittedIsKept ==
  [][db.snapshot =>
       \/ db'.snapshot /\ \A f \in Files : db'.files[f].last >= db.files[f].last
       \/ mode = "restart" /\ pc = "unlink"
       \/ pc = "remove"]_vars

\* "The working SQLite file is removed only after all final reports and
\* required JSON checkpoint artifacts are sealed successfully"
\* (src/docs/implementation/phase2_implementation_report.md:80).
CheckpointSealed ==
  pc = "idle" /\ Sealed /\ manifest.complete =>
    AllComplete(ckptFile.files, manifest.sources)

(***************************************************************************)
(* Liveness.  A process that runs keeps running; the operator keeps        *)
(* running all files in resume mode, and in restart mode after a refusal,  *)
(* as its message says.  Failures, kills and replaced sources come to an   *)
(* end.                                                                    *)
(***************************************************************************)
Fairness ==
  /\ WF_vars(Progress) /\ WF_vars(Open)
  /\ SF_vars(pc # "refused" /\ \E s \in ChunkSizes : Construct("resume", s))
  /\ SF_vars(pc = "refused" /\ \E s \in ChunkSizes : Construct("restart", s))

FairSpec == Spec /\ Fairness

\* A run that is no longer disturbed is sealed again and again.
EventuallySealed == <>[][~Disturbance]_vars => []<>Sealed
=============================================================================
