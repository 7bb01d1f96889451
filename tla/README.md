# Verification of community-evolution-modeling in TLA+

The repository prepares social-network workbooks (normalisation, diagnostics,
graph construction), embeds their texts with a language model, and trains a
community model on the result. Its long-running jobs execute on machines that
are switched off under them (Kaggle sessions), over data that takes days, so its
core promise is the same everywhere: **a job that was interrupted at any point
can be started again, and what it finally publishes is what one undisturbed run
would have published**. This directory models the jobs that carry this promise,
checks them with TLC, and proves their safety with TLAPS, from the files a kill leaves
behind to the vectors a training run reads.

Paths below are relative to the repository; `src/tdmec_embeddings/...` stands for
the Python package of that name.

## 1. Inventory

| component | state it keeps | operations | correct when |
|---|---|---|---|
| embedding unit writer (`tdmec_embeddings/file_writer.py`) | one Parquet shard and one JSON sidecar per batch; checkpoint, manifest and checksums per modality; `_checkpoint` in memory | open (fresh, existing, refused), recover orphan shards, repair, validate, `write_batch`, `is_batch_committed`, `complete` | whatever it records is on disk; intact shards are never touched; it seals only complete modalities |
| staged jobs (`staged.py`, `run_embedding_job.py`) | none of their own | a lane over a range of batches, the coverage check | any order and number of lanes, checks and sealing jobs gives one sealed modality |
| run pipeline (`pipeline.py`) | the run root, the final manifest, `all_checksums.json` | write and seal both modalities, pool both, publish | the final manifest stands over sealed, agreeing modalities |
| run recovery (`run_recovery.py`) | none (reads the run root) | assess, prepare, replace an incomplete run | completed runs are never deleted; incomplete ones can always be left |
| pooling (`pooling.py`) | one delta per shard, a pooling checkpoint and the pooled arrays per modality | open, recover deltas, prepare deltas, merge, seal | every unit shard is pooled once, and nothing else |
| export, pilot job (`export.py`, `pilot.py`, `run_pilot_embedding.py`) | the package directory | validate, copy, refuse to overwrite | a package is complete and of one run |
| sources, eligibility, sampling, alignment (`file_sources.py`, `eligibility.py`, `sampling.py`, `alignment.py`, `assemble_tdmec_input.py`) | a bounded heap per stratum | classify rows, select units, align | the selection is a function of the set of units and the seed |
| encoders (`qwen_encoder.py`, `mock_encoder.py`, ...) | model, statistics | encode with shrinking batches | every text once, in order |
| diagnostics run (`tdmec_diagnostics/pipeline.py`, `checkpoint.py`, `transaction_state.py`) | a SQLite file (snapshot, deduplication rows), two JSON mirrors, five reports, a manifest; progress and accumulators in memory | construct (resume, restart), reload, open, read chunks, commit, mirror, seal, remove the database | every record of every file is counted exactly once, from one content of the file |
| diagnostics accumulators (`calendar_diag.py`, `dedup_diag.py`, `text_length_diag.py`, `coverage_diag.py`, ...) | histograms and tallies | observe, serialise, load | loading what was serialised continues the same count |
| diagnostics adapters (`adapters.py`, `streaming.py`, `workbook_io.py`, ...) | position in a workbook | yield records from a row on | a stream restarted after a row continues it |
| diagnostics reports (`reports.py`, `status.py`, `privacy.py`, ...) | status record | build, scan, promote | reports hold no private text; a status is promoted only on evidence |
| graph ingestion (`tdmec_graph/`, `tdmec_db/`) | PostgreSQL tables scoped by run id, chunk checkpoints; an AGE graph; output files, manifest, validation report | verify sources, ingest chunks, aggregate, publish, validate | each event is one row; graph and files are the aggregate of all rows |
| pilot normalisation (`tdmec_pilot/`) | Parquet parts and checkpoints per chunk, node map | normalise, resume, finalise | parts cover the source once |
| model (`tdmec_model/`) | the loader's edge offsets; tensors | load a package; train, evaluate | every edge and node gets its own vector; the rest is numerical |
| contracts (`tdmec/`) | none | validate artifacts | a bad artifact has a finding |
| discovery (`tdmec_discovery/`) | a download cache and its index | list, download, describe | a cached file is the remote one |
| scripts, notebooks | none | call the above | - |

**How they interact.** The repository has no threads of its own and no messages:
components interact through files and through the process that calls them. The
writer hands a modality to pooling through `checksums/<modality>.json` alone;
pooling hands over through its arrays; run recovery decides from the files of
all of them whether a root is empty, incomplete or completed, and deletes it or
not; the export reads what is left. In diagnostics the SQLite database is the
authority, the JSON mirrors follow it, and after sealing, when the database is
gone, a mirror becomes the authority. The graph pipeline writes to three stores
that fail apart (tables, AGE graph, run directory) and leaves the edges that
the embedding run reads three times: to align the events, to pool them and to
package the result. Graph and text meet again only in the loader of the model,
which finds the vector of an edge by its number. What is hard, in all of these, is

* a process killed between two publications (`os.replace`, `COMMIT`, `unlink`,
  every directory of an `rmtree`), and the next one that must make sense of it;
* sessions that follow each other with other flags, other chunk sizes, other
  selections or other source files, which the compatibility hashes do not cover;
* files that rot, and a repair that must not touch the sound ones;
* steps that fail half-way, and refusals that leave something behind;
* whether such a history ever ends in a published result.

`PROJECT.json` lists these hazards at their lines, with the properties that
would catch them, or why none does.

## 2. Modules

| module | models |
|---|---|
| `BatchLedger` | the abstract promise of a writer: durable values that are committed once, lost only to damage, sealed when complete |
| `EmbeddingWriter` | the writer and the three jobs that open it, file by file |
| `EmbeddingWriterProofs` | theorems: safety, and that the writer implements the ledger |
| `EmbeddingRun` | a run root: recovery, both modalities, pooling, final manifest, export |
| `EmbeddingRunProofs` | theorems about it |
| `DiagnosticsRun` | a diagnostics run directory |
| `DiagnosticsRunProofs` | theorems about it |
| `PilotRun` | a run directory of the Dataset B pilot: sources, chunks, parts, checkpoints, reports, gates |
| `PilotRunProofs` | theorems about it, the calendar and the row accounting among them |
| `GraphIngest` | a run id of the graph builder: tables, AGE graph, run directory |
| `GraphIngestProofs` | theorems about it |
| `DataInduction` | lemmas the proofs share: least elements, induction over the naturals, images and sums of finite sets, folds over sequences, blocks of a flattened sequence, ranks and ordered lists |
| `EmbeddingInputs` | what an embedding run reads, selects and encodes |
| `TrainingPackage` | extends it by pooling, alignment, packaging and loading: composition with the published graph |
| `TrainingPackageProofs` | theorems: the selection is exact, and so is what the loader gives |
| `DiagnosticsCounts` | what the diagnostics count, through every save and reload |
| `DiagnosticsCountsProofs` | theorems: cuts are invisible, all four reports are exact |
| `MC...` | instances for TLC: named values of the constants |

### EmbeddingWriter

The durable files are `shardDir`, `shard`, `sidecar`, `ckpt`, `manifest` and
`checksums`; `mem` is `self._checkpoint`; `pc`, `then` and `target` are the
place in the code; `job`, `scope` and `repair` are what the session was started
with. Every `_atomic_write_*` and every `os.replace` is a step of its own and
`Crash` may come between any two, which loses everything but the files.

* `OpenFresh`, `OpenExisting`, `OpenRefused`, `Load` are the branches of
  `__init__`; `RecoverOrphan`, `QuarantineOrphan...`, `RecoverFails`,
  `RecoverDone` the loop of `_recover_orphan_shards`; `RepairEntry...`,
  `CheckPasses`, `CheckFails` are `_repair_invalid_committed` and
  `_validate_all_committed`; `FlushCheckpoint`, `FlushManifest`,
  `FlushChecksums` are `_flush_state`, with `then` as its return address.
* `WriteShard`, `WriteSidecar`, `WriteEmpty` are `write_batch`; `ReplayFails` is
  `is_batch_committed` on a batch whose files rotted.
* `LaneEnds`, `VerifyEnds`, `ReuseCompleted`, `Complete`, `CompleteFails` are how
  the three jobs end. A lane may end before its range does (wall-clock budget).
* `RotShard`, `RotSidecar` are damage at rest, in the two forms the code tells
  apart: a file that reads but does not verify, and one that does not read.
  `rot` is a history variable: which batches are damaged and not made good.

What the encoder returns for a batch is any member of `Vectors`: nothing in the
writer relies on encoding being deterministic, so a second encoding that
replaced a first would be seen. Hashes are equality of these values.

### EmbeddingRun

`disk` is a record with one field for each directory a removal deletes
separately; `RemoveOne` removes one of them and `RemoveRoot` the rest, so that
a kill between two leaves a partial root. (Inside a directory a removal is one
step.) Which directories may go first is the constant `RemovedFirst`: the
listing order is the file system's. The writer of `EmbeddingWriter` appears
here without damage at rest and without lanes, `WriteShard` standing for shard
and sidecar; its crashes between the three state files remain. What a session
selects is `Selection[config]`: `max_node_rows`, `max_event_rows` and sampling
are no part of the compatibility hash, so sessions may differ in it. Pooling is
a delta per shard, the pooling checkpoint in `disk.pooling`, and the arrays; a
delta or an entry stands for the shard it was computed from.

### DiagnosticsRun

`db` is the SQLite file (created, snapshot present, progress, accumulators);
`ckptFile` and `accFile` are the mirrors; `reports` and `manifest` the sealed
artifacts. The accumulators are, for each record of each file, whether it was
counted and from which content of the file, or `"twice"`: any double counting
or loss is visible whatever statistic it would hurt. `Construct` is
`__post_init__`, with `Unlink`/`UnlinkEnds` for the deletions of a restart one by
one; `Reload`, `RefuseDrift`, `RefuseLegacy`, `OpenFresh`, `OpenSnapshot` and
`RefuseSnapshot` are the branches of `run_on_files` before its loop;
`CommitChunk` and `CommitFile` are a chunk and the end of a file, each one
transaction; `CommitFails` any exception in it, with the rollback;
`MirrorCheckpoint`, `MirrorAccumulators`, `MirrorFails` the publication after
it; `Interrupt` the two test hooks; `WriteReport`, `WriteManifest`,
`RemoveDatabase` the sealing. A pipeline object serves one call, as with every
caller in the repository. Calls name any non-empty subset of the files; the
loop takes them in any order, which stands for any order of the list.

### PilotRun

`npart` and `xpart` are the part files of each chunk of each workbook, `ckpt`
its checkpoint entry, `sums` the recorded source checksums; `reports` and
`validation` what `finalize` and `p11_validate` publish. `cache` is the download
cache, `version` what is at the source: a copy whose size is right is not
fetched again (`Fetched`), so the two may differ. `Start` is P00,
`FetchSource`, `RefuseDrift`, `SourcesMissing`, `SourcesVerified` are P01 and
P02; `SkipChunk`, `WriteNormalized`, `WriteExcluded`, `SaveChunk` the body of
the loop of `_process_file`, each publication a step; `Finalize` writes the four
tables from all parts on disk, whichever session or file they are of, and fails
in the text statistics when no record has a text; `Validate` is the gate on row
accounting. The other gates compare files with what the same session has just
recorded of them and are left out.

Rows are what `_transform_row` sees of them: id, user and time that parse or do
not, and a content. A part is the set of rows it was written from and the
content of the workbook they came from, so a lost row, a row in two parts and a
row of another content are all visible. The calendar is modelled twice, as the
arithmetic of `assign_snapshot` and as the enumeration of `boundary_table`, and
the properties compare one with the other.

### GraphIngest

`db` is the tables of the run (`source_files`, `file_chunks`, `events`,
`authored_tweets`, `edges`, the status in `runs`), `graph` the AGE graph as a set
of vertices and a bag of edges, `out` the files that publish writes,
`manifest` and `report` the two JSON records, `mem` the manifest in memory.
The unit of atomicity is the repository call, each of which commits: a chunk is
`InsertTweets`, `InsertEvents`, `MarkChunk`; every output file is a step, and a
kill may tear the two arrays, which `np.save` writes in place. `Setup` and
`SetupFlush` are the start of every call of `run`, over one of `FileLists` and
with or without AGE; `VerifyFile`, `RefuseFile`, `VerifyFlush` are
`verify_sources`; `NextFile`, `SkipChunk`, `Processed` the loop of
`process_files`; `ExportEvents`, `RebuildEdges`, `WritePart`, `SaveX`, `SaveMask`
the files of `publish`, and `ResetGraph`, `MergeVertices`, `CreateEdges` (one
per relation), `MarkPublished` its graph; `Validate` the gates. Edges are created,
not merged, so that doubling one is visible in the bag. `ReplaceSource` and
`LoseCache` are what happens to workbooks between sessions.

### EmbeddingInputs and TrainingPackage

`stage`, `modality` and `pass` are the place in `run_embedding_pipeline`. `Open`,
`ReadBatch`, `BadBatch`, `ScanRejected`, `Counted`, `Selected` read one bounded
batch after another; `seen` is the eligibility accounting, `activity` and
`sampler` what the two passes keep, which is all they know of the rows: the
properties compare `chosen` with the definition over the whole artifact.
`StartChunk`, `EncodeBatch`, `OutOfMemory`, `StoreChunk` are `_write_modality`
around the encoder. The vector of a text is the text, so a vector that went to
the wrong unit is visible; a pooled vector is the bag of texts it is the mean
of, so a text pooled twice, lost or pooled under another key is visible as well.

`TrainingPackage` adds `PoolNodes`, `PoolEdges` (groups, k-way merge, merge join,
dense array), `Align`, `Export`, `Assemble` (by hand, `--overwrite`), `Resume` (the
job started again) and `Republish`, the one step of `GraphIngest` that concerns
it: the graph run is published again under the same id. `SnapshotBatch` and
`Loadable` are what `TDMECInputDataset` makes of a package. A writer that
loses or repeats a chunk is `EmbeddingWriter`'s subject: here a chunk is stored
in one step.

### DiagnosticsCounts

`mem` and `db` hold, in memory and committed, the position, the four
accumulators and the deduplication tables; `ToState` and `FromState` are their
JSON states, through which they go at every commit and every reload, and the
tables are what stays in SQLite. `CommitChunk` consumes a chunk; `Lost` is the
failed commit or the kill, which rolls both back; `Seal` builds the four
reports. `CountsExact` is about these: `CutsInvisible` says that they are the reports
of one pass over all records; `CalendarCounts`, `DedupCounts`, `TextCounts` and `CoverageCounts`
state each of them over all records at once, by sets and cardinalities, where the code keeps
counters and streams. `DiagnosticsRun` says which records are counted; this
module what counting them amounts to.

## 3. Runs

| run | instance | question |
|---|---|---|
| `writer_safety` | 3 batches (one empty), 2 vectors, 2 lanes, both kinds of damage | is what the writer records true, are intact shards and sealed modalities left alone, does it implement the ledger, does every published modality end sealed |
| `run_removal` | 1 batch per modality, two disjoint selections, 4 directories that may go first | does a killed removal ever yield a completed root that is not, or touch one that is |
| `run_resume` | 2 batches, three selections, 2 directories that may go first | is pooling resumable and exact, is an incomplete run always left |
| `run_stale` | 2 batches, a selection and its prefix | is pooling exact after a removal that kept `pooling/`: **no** |
| `diag_safety` | two files (3 records over 2 rows; 1 record), both `require_complete` values | is every record counted once, in the database, in the reports, in what a reload returns |
| `diag_live` | one file (4 records over 3 rows), two contents, chunk sizes 1 and 3 | the same with files that are replaced and chunk sizes that change; does every history end sealed |
| `pilot` | two workbooks (3 rows, with another content of the same size and an empty one; 2 rows), chunks of 2 rows, at most one rotten part at a time | are parts a partition and reports exact when the gates pass, does every history end with gates passed |
| `pilot_chunks` | one workbook, chunk sizes 1 and 2 | is the partition kept when the chunk size changes: **no** |
| `diag_mirror` | one file | is the checkpoint mirror sealed before the database goes: **no** |
| `graph` | two workbooks that share a row (3 rows with another content of the same size; 2 rows), chunks of 2 rows, sessions over one or both files, with and without AGE | do tables, graph and files say what they promise after any kills and repetitions, does every history end validated |
| `datapath` | 4 rows of node text (a tweet declared duplicate, blank and rejected rows) and 4 or 5 events in many orders of arrival, over two shards each, limit 3, batches, chunks and encoder batches of 2, one retry, three publications of the graph | is the selection that of the definition, does every vector reach its own node or edge, does encoding end |
| `counts` | two workbooks of two rows out of six, of one dataset or of both, chunks of 2 records, three quarters | are the four reports those of all records counted at once |

Every passing run explores its whole state space; no state constraint and no
counter is needed (but for `MaxRotten`, below), since sessions, crashes and
damage are unbounded in number and all state is finite. **Why the bounds are enough.** The code treats batches
one at a time and two batches interact only through the first one missing, so
one batch before, one at and one after the point of interest, one of them
empty, show every case; two lanes are needed for a gap in front of a batch that
is done; two vectors for a value to be replaced by another. A modality of one
batch suffices for the removal run because a removal takes whole directories.
Two selections that are prefixes and one that is disjoint are the ways in which
two samples can relate for a check that compares batch by batch. In
diagnostics a row with two records followed by another row is the smallest
file in which a chunk boundary can fall inside a row, at its end and at the end
of the file; in the pilot three rows in chunks of two give a full chunk and one
that is not, and the rows are chosen to hold every outcome of a row (an id, a user
or a time that does not parse, an outsider, months just inside and outside the
calendar at both ends), duplicates within and across files, and an account of
the frozen universe without a valid time. `MaxRotten` is the only bound on
behaviours; without it the safety properties hold of a state space five times as
large. Sessions with several files matter through which of them a call
names, hence two. In the graph, three rows in chunks of two, a row
that both workbooks contain and a second content of the same size (the cache
does not notice it) hold a full and a short chunk, an event that is already
there, a row outside the calendar, a self-mention, an outsider and a node that
is only a target. `Republish` happens between pooling and packaging, for
nothing reads the edges in between earlier steps; of the three graphs one has as many
edges as the first and one fewer. The five events compete for three seats, fewer
than their strata, or are all of one stratum, so that the heap decides; four of four
relations are more than the seats of the reserved ones. `Priority` is without ties, as
the SHA-256 of distinct units is taken to be. In the counts two rows with up to three
records each make a chunk boundary fall inside, at and after a row, and the twelve rows
hold every outcome of a record in each accumulator.

`datapath` and `counts` say `CHECK_DEADLOCK FALSE`: an input run ends, and so does a
sealed diagnosis. `Spec` of both has no environment beyond memory failures,
kills and republications.

**Fairness.** All specifications for liveness assume weak fairness of the
steps of a running process (a Python process that runs keeps running), and
strong fairness of the operator's commands, which is what the runbooks tell
the operator to do: start the repairing lane and the sealing job again
(`writer_safety`), start an interrupted run again with `--replace-incomplete`
(`run_resume`), run again in resume mode, and in restart mode when the message
of a refusal says so (`diag_live`), run all files of the pilot, or of the graph with
AGE, again (`pilot` and `graph`, whose promise excepts a workbook that is not the
recorded one any more: that is refused for ever, by design). Strong, because commands are possible only
between sessions. Liveness is asserted of behaviours in which disturbances
(kills, damage, failures, replaced sources) end: `<>[][~Crash]_vars => ...`.
Nothing is assumed about the order of commands or which files they name.
`EncodingEnds` needs no such condition: the loop ends however often memory fails,
by the weak fairness of the process alone.

**Mutants.** Beside a definition the modules hold its plausible bugs ("Mutant of
..."), such as a batch committed before its sidecar, an orphan left alone, a
chunk that ends inside a row, a mirror published before the commit. For every
property of every passing run, `PROJECT.json` names the mutant that violates it.

### What the violations show

* "resume no double-count" (`docs/method/12_interactive_canonical_decision_log.md:208`):
  when a `--replace-incomplete` is killed after it deleted the shards and the
  checkpoints but not `pooling/`, and the run is then resumed with a selection
  that is a prefix of the first, `pooling.py:286` merges the pooled entries of
  shards that do not exist any more. With the directories removed in another
  order, the properties hold (`run_resume`).
* `docs/implementation/phase2_implementation_report.md:79` says the SQLite file is
  removed only when the checkpoint artifacts are sealed. When the mirrors of
  the last commit fail, the next session has nothing to commit, seals, and
  removes the database beside a stale checkpoint (`diagnostics/pipeline.py:706`).

* `docs/data/08_dataset_b_pilot_implementation.md:77` promises that a resume skips
  verified chunks without duplication. The chunk size is not part of the
  configuration hash and a chunk is its index, so a resume with another size
  skips a chunk that stands for other rows; rows are lost or doubled, and since
  `rows_in` is summed from the same checkpoint entries, every gate passes
  (`pilot_chunks`).

### Observations

What the models show beside their properties; each is an exception that a
property or its comment names, or a behaviour the model contains.

*Embedding writer and runs.*
* A shard whose entry had not been flushed and which is not readable Parquet
  raises an error that `file_writer.py:481` does not catch: the repairing lane
  stops there in every session until the file is removed by hand
  (`Unrecoverable` in `PublishedIsSealed`; `run_embedding_job.py:50` promises
  a quarantine).
* `docs/tdmec_embedding_pilot.md:236` recommends `--resume` to export a completed
  run again; `export.py:80` refuses because the package exists (`Export` after
  `Resume`).
* A kill right after the first `mkdir` of the writer leaves a root that recovery
  calls empty and the writer refuses.
* A completed modality is reused under any selection, so the two modalities of a
  run may be samples of two configurations (`CompletedIsSelection` is stated per
  modality for this reason).

*Selection, packaging, loading.*
* A full scan fails when the canonical row of a declared duplicate is blank or was
  rejected by normalisation, even though its other rows have text; the report
  does not know of it.
* `edge_order_sha256` is computed at three places (`alignment.py:73`,
  `pipeline.py:331`, `staged.py:217`) and compared at none, though the recovery runbook
  lists it among what is checked (`docs/handoff/12_kaggle_embedding_recovery_runbook.md:224`,
  `:265`). Alignment compares the number of edges: a graph published again with as
  many other edges is packaged with vectors of the first (the exception in
  `LoadedExact`).
* The exported package has no `configs/smoke_e2e_config.json`, from which
  `dataset.py:126` starts: only the assembled package can be loaded.
* `validate_smoke_shapes` counts edge vectors, not packaged edges; a package that
  fails it stays behind, and the loader, which does not read the report, may load it.

*Graph.* A tweet that two workbooks share is one event but two authored tweets, so it
counts twice in the tweet column of `X_struct`.

*Diagnostics.*
* A record of an unknown dataset is both accepted and rejected by the calendar.
* Groups by user and time count records, so a tweet of two targets is a discordant
  duplicate of itself.
* A status without a user yields its own id as an account; of a mangled user cell
  with a float id the leading digits are taken.
* What a timestamp is depends on the clock (`MaxEpoch` is "now" plus a margin).

*Pilot.* An account of the frozen universe is listed in
`unmatched_accounts.parquet` when none of its rows has a valid time (`ReportsExact`
says so); a run over fewer files than an earlier one of the same directory fails
its accounting gate; a run without a single row that parses fails in `finalize`
(`pipeline.py:379`).

## 4. Proofs

`EmbeddingWriterProofs` proves, for every number of batches and lanes and all
sets of vectors and damages, eight theorems: `TypeCorrect`, `CheckpointSound`,
`ChecksumsSound`, `SealSound`, `NoConflict`, `HandOverSound`,
`IntactImmutable` and `SealFrozen`. They rest on the named assumptions of
`EmbeddingWriter` only: there is a batch and a lane; empty batches are batches; the
markers used for absent or damaged content are no vectors, `NoFile` no
content. TLC evaluates these on every run.

None of the properties is inductive. `CommittedOnDisk`, for instance, says
nothing about the checkpoint in memory, which is what the next flush writes.
The inductive invariant `IInv` adds:

* `MemInv`, `CkptInv`: of both checkpoints, that a recorded batch is rotten
  exactly when its files differ from the record, that a readable shard is the
  recorded one, that COMPLETED means an entry for every batch;
* `ChecksumsInv`: the same of the checksums file, which may be older;
* `ShardsFit`, `RotFit`: only batches with rows have shards, and only after a
  manifest was published;
* `ControlInv`: what each place in the code knows, e.g. that after the first
  file of a flush the checkpoint on disk is the one in memory;
* `NoOrphans`: once opening has recovered, every shard has its entry;
* `SealInv`: COMPLETED reaches the checkpoint before the manifest, and nothing
  is damaged at the moment of sealing.

`InitInv` and `NextInv` prove it inductive, one lemma per action and one step
per conjunct; `Inductive` is the temporal conclusion from which the others follow.

It also proves `WriterImplementsLedger`, the refinement `writer_safety` checks on an
instance: under the mapping value = readable shard, damaged =
`rot`, sealed = status in the checkpoint file, every step of the writer is a step of the
ledger or changes none of the three.

The other proof modules are built the same way: `Types` is the type invariant in
the parts that steps disturb separately, `IInv` adds what each place in the code
knows, `NextInv` is assembled from one lemma per action, `Inductive` is the temporal
conclusion, and the listed theorems follow from it. All are for every value of the
constants; what is assumed of these is the `ASSUME`s of the component's module,
which TLC evaluates on its runs, and where a theorem needs more it says so in its
`ASSUME`.

`DiagnosticsRunProofs`: `TypeCorrect`, `SnapshotIsExact`, `MirrorsAreBehind`,
`SealedIsExact`, `ReloadIsSound`, `CommittedRowsAreKept`. What the properties
lack to be inductive is memory: `CallInv` and `CommitInv` say that the memory of a
running call is consistent in itself and differs from the transaction at most in the files
it has begun since; `ReadInv` that the records before `next` are exactly those of the rows
that are recorded as done, which is what makes a resume in the middle of a file
neither lose nor double one; `MirrorPending` and `ReportsInv` what holds between
a commit and its mirrors, and between two reports; `SealInv` that a checkpoint file
without a database is the mirror of a sealed run.

`EmbeddingRunProofs`: `TypeCorrect`, `PublishedIsSealed`, `CompletedIsOneSelection`,
`CompletedIsKept`, and under a condition `ArraysAreUnits` and `PoolingIsResumed`. `IInv`
adds that the writer's memory is its shards and each file it has flushed its memory
(`WriterInv`), that node is sealed before event is written and both before they are
pooled (`SealedInv`), and that adopting what is left of the shards of a completed modality
cannot change what it lists (`SelectionInv`). The last two theorems depend on which
directories a killed removal may take first: `KeepsShards` (`PoolInv`) and
`KeepsPooling` (`ResumeInv`) are the conditions on `RemovedFirst` they are proved under.
Run `run_stale` shows the first one failing without it.

`GraphIngestProofs`: `TypeCorrect`, `TablesAreExact`, `GraphIsPublished`, `ValidatedIsExact`.
The heart of `IInv` is `SumsInv` (a recorded checksum stays, in the manifest, in memory
and in the table, although three steps write them) with `CopiesInv` (a session reads the
copies it has verified): so tweets, events and marked chunks can only be of
the recorded contents, although workbooks are replaced and caches lost. `ChunksInv` is the
order of the three commits of a chunk, `GraphInv` the building of the AGE graph.
`ValidatedIsExact` rests on a second layer, `RowsInv` (the rows behind the place
`process_files` is at are in the tables) and `OutInv` (the files behind the place `publish`
is at are those of the tables), and on `StrengthFact`: the strengths, which the code adds
up edge by edge, are the numbers of events.

`PilotRunProofs`: `TypeCorrect` and `PartsAreOfOneVersion` for all sessions;
`CheckpointIsTrue`, `PassedIsAPartition` and `ReportsAreExact` under `OneChunkSize`: the
operator keeps to one chunk size. Run `pilot_chunks` shows that the condition is needed. On
the way, `CalendarFact` proves that the arithmetic of `assign_snapshot` and the
enumeration of `boundary_table` agree for every time, `ChunkFact` that the chunks of
every size partition the rows, and `RowsInFact` that `rows_in`, summed over the
checkpoint entries, is the number of rows of the session's files. `ReportsAreExact`
turns on a counting argument: `finalize` reads every part on disk, whichever
session it is of; each row of the session's files is in one of them; the gate compares
numbers only, but a set that contains the rows and is as large holds nothing else
(`BalancedFact`). From there records and rows correspond one to one, and what is
counted of the ones is counted of the others (`DuplicatesFact`, `AccountsFact`,
`SnapshotsFact`).

`DataInduction` states induction over the naturals of a set instead of a predicate
(`NaturalInduction`), which the provers can instantiate; `SumFact` is the induction
over a finite set that gives a sum its closed form.

`TrainingPackageProofs`: `SelectionIsExact` and `LoadedIsExact`, on the invariants `SelectionInvariant` and `LoadedInvariant`. Both compare
what code accumulates row by row, batch by batch and shard by shard with a definition by
sets. A fold over a sequence is defined by recursion over subsets of its
positions; `FoldRun` turns it once and for all into a run, a sequence of intermediate
values each of which follows from the one before, and `NaturalInduction` does the rest.

* *Selection.* `FlattenFact` says where a row of a shard is among all rows, `BatchFact` that the
  rows read so far are the first `emitted` ones, whatever the batches; `EligibleOnce`
  that no unit is eligible twice (a tweet that occurs twice has a canonical row).
  `HeapFits` and `BestFits` are what the sampler's bounded memory knows of the rows it
  has met: the `RowLimit` first by priority, the first of every stratum and
  relation. `QueueFact` and `SeatFact` show that the seats `finish` gives out, with
  reserved, stratum and heap places overlapping, are those of the definition's single
  queue (`SampleIs`); `NoneMissed`, by counting, that a scan whose accounting reconciles
  has missed no tweet with text. `SelectionInv` says this of every moment of the two passes.
* *Pooling and loading.* `ChunkFact`: chunks of every shard size cover the units one after
  the other; `StoreFits` and `EncoderFits` are the invariant of the encoding, through
  shrinking batches. `DeltaFact`, `TotalFact`: deltas of the shards add up to the texts of a
  key, `MergedFact`: the merge gives every key once, in order. `PhysicalIsSorted`: read part
  after part the published edges come in the order of their keys, so that the merge
  join (`JoinedNext`) gives every edge the texts of its own key or none; `SnapshotFact`: the
  offsets the loader computes per part are the places of the edges in that
  order. `PackFits` carries this through alignment, repeated pooling, republication and
  assembly.

Beside typed parameters they assume `SourcesAssumption`, what the publishing
pipelines see to for an artifact that passes `IdentityHolds`: columns have the types of the
Parquet schemas; normalised rows have distinct locations, and an id that occurs twice has a
group in the duplicate report (`DuplicateTracker`, `tdmec_pilot/dedup.py`); an event has one
row per signature (primary key of `events`, `tdmec_db/schema.sql:59`). The priority, a
SHA-256, is taken to be one to one. `PackageAssumption` says that published edges join
snapshots, relations and nodes and that the marker for an absent configuration
is none.

`DiagnosticsCountsProofs`: `CountsExactHolds`, from `CutsInvisibleHolds` and one theorem for
each report. `CountsInv` says that the committed counters, restored from their JSON
state, are those of one pass over the records before the committed position, and that a
session holds the same: `ChunkFact` that a chunk continues the pass (the records of rows that
come one after the other are the records of all of them), `StateRestored` that `FromState`
undoes `ToState` on whatever a pass can give. What the pass gives is then counted once for all
accumulators: a counter that is increased by a set of keys per record counts the records that have
the key (`CounterFact`), a set that grows by them is their union (`GatherFact`), the rows are
accepted or rejected (`TallyFact`). `EndsStep` and `RangeFact` are about the calendar (first and
last instant, empty quarters at the ends and inside), `PairsAtFact` and `PartsOfUnion` about the coverage
(nodes of a quarter by structure, by text, by both).
The text and dedup reports are sums over their counters: `SumOfCounts` says that the counts of some of the
values add up to the records that have them. So the running total at a size is the number of records up to it, and the
first size at which it passes a rank is the one at that rank of the sorted sizes (`QuantileFact`, `SummariesFact`:
under every dataset, snapshot and relation); the examples are the first good texts (`ExamplesFact`). The occurrences of a
kind of key, added up by key, are the records that share it (`OccursFact`, `GroupSums`), a group is concordant
or across files as its records are, and its canonical row exists and is first (`FirstExists`,
`GroupsFact`). `CountsAssumption` asks of the constants what `constants.py` and the configuration give: a chunk and
an example limit of at least one, a calendar with at least one quarter and ascending starts, quantiles
between 0 and 1; a text has one quality and one size.

**Only model-checked**: liveness (`PublishedIsSealed` of `EmbeddingWriter`,
`IncompleteIsLeft`, `EventuallySealed`, `EventuallyPassed`, `EventuallyValidated`,
`EncodingEnds`), which is beyond the prover. Every invariant and every safety action property of a
passing run is a theorem, a few of them under the conditions named above (`OneChunkSize`, `KeepsShards`,
`KeepsPooling`).

## 5. Not modelled, and why

* Floating-point numbers: vectors, means and layers. A vector is the text or the bag
  of texts it stands for, which is what can get mixed up. In `EmbeddingRun`,
  `DiagnosticsRun` and `PilotRun` an artifact is the identity of what it was
  written from.
* Two processes in one run root: forbidden by
  `docs/handoff/12_kaggle_embedding_recovery_runbook.md:248` and not guarded by
  the code.
* Loss of data that was synced: publications are `fsync` and `os.replace`, and the
  models take them to be atomic and durable. Temporary files that a kill leaves
  are never read and are left out.
* Refusals that come before anything is written (other compatibility or
  scientific hash, a wrong flag).
* Two workbooks of one name in a diagnostics call, and a workbook that is replaced
  while it is read: no caller does the first, and the code cannot notice the second.
* Contracts and validators (`tdmec/`): functions of one artifact without state, which
  no pipeline calls.
* Data discovery: listing, downloading and describing remote files. Its cache, by size,
  is in `PilotRun` and `GraphIngest`.
* Training loops, losses and layers; inference; command lines, configuration parsing,
  progress logs, human summaries, the privacy scan, status promotion, fixtures; XLSX and
  Parquet encodings; the text of ids and timestamps.

## 6. Plan

Done: 1. `EmbeddingWriter` and its ledger; 2. `EmbeddingRun`; 3. `DiagnosticsRun`;
4. `PilotRun`; 5. `GraphIngest`; 6. `EmbeddingInputs`, `TrainingPackage`,
`DiagnosticsCounts`: the algorithms between them, against definitions; 7. proofs of every
safety property of 1 to 5, of the selection, of the path from the stored shards to the
loader, and of what diagnostics count.

Left: the validators of
`tdmec/validation`, as operators beside the artifacts of `TrainingPackage`.

## 7. Running

    tlc -workers 2 -config MCEmbeddingWriter_safety.cfg MCEmbeddingWriter
    tlapm EmbeddingWriterProofs.tla     # and likewise every ...Proofs

`MCX_y.cfg` belongs to module `MCX`; `PROJECT.json` gives for each run its
module, configuration, properties and expected outcome, and maps every
definition to the lines it models.
