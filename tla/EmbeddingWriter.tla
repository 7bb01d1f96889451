-------------------------- MODULE EmbeddingWriter --------------------------
(***************************************************************************)
(* FileEmbeddingWriter (src/src/tdmec_embeddings/file_writer.py): the      *)
(* transactional Parquet writer of one embedding modality, driven by the   *)
(* three jobs that open it: a staged lane (staged.run_embedding_shard),    *)
(* the coverage check (staged.verify_all_shards_complete) and the sealing  *)
(* pipeline (pipeline._write_modality).                                    *)
(*                                                                         *)
(* Every step is one atomic publication on disk (temporary file, fsync,    *)
(* os.replace) or one decision taken in memory, so a crash can fall        *)
(* between any two publications.  One process at a time works in a run     *)
(* root (docs/handoff/12_kaggle_embedding_recovery_runbook.md:248).        *)
(*                                                                         *)
(* Data: a batch is its index, what the encoder makes of it is a value of  *)
(* Vectors, and a checksum is equality of these values.  committed_rows is *)
(* represented by the set of batches whose rows were last summed.  Opening *)
(* with another compatibility hash is refused before anything is written   *)
(* and is therefore left out, as are the temporary files nobody reads.     *)
(***************************************************************************)
EXTENDS Integers

CONSTANTS
  NBatches,   \* number of batches of the modality (pipeline._chunks)
  EmptyBatches, \* batches without an eligible text: an entry, no shard
  Vectors,    \* what encode may return for a batch
  NumShards,  \* number of staged lanes
  Damages,    \* how a shard file may rot at rest
  NoFile      \* content of a path that does not exist

Batches == 0 .. (NBatches - 1)
NoBatch == -1

ASSUME SizesAssumption == NBatches \in Nat \ {0} /\ NumShards \in Nat \ {0}
ASSUME EmptyAssumption == EmptyBatches \subseteq Batches
ASSUME DamageAssumption == Damages \subseteq {"garbled", "unreadable"}
ASSUME VectorsAssumption ==
  Vectors \cap {"none", "empty", "garbled", "unreadable"} = {}

Statuses == {"IN_PROGRESS", "COMPLETED"}
Checkpoint == [status : Statuses,
               entry : [Batches -> Vectors \cup {"none", "empty"}],
               counted : SUBSET Batches]
Manifest == [status : Statuses, batches : SUBSET Batches]
Checksums == [Batches -> Vectors \cup {"none"}]

ASSUME NoFileAssumption == NoFile \notin Checkpoint \cup Manifest \cup Checksums

VARIABLES
  shardDir,   \* unit_embeddings/<modality>/ exists
  shard,      \* content of part-<key>.parquet, per batch
  sidecar,    \* content of part-<key>.metadata.json, per batch
  ckpt,       \* checkpoints/<modality>.json
  manifest,   \* manifests/<modality>.json
  checksums,  \* checksums/<modality>.json
  mem,        \* the process's self._checkpoint
  pc,         \* where the process is; "down" when there is none
  then,       \* where a flush returns to
  target,     \* the batch a two-file step is about
  job,        \* the job that opened the writer
  scope,      \* the batches assigned to it
  repair,     \* repair_corrupt_shards
  rot         \* history: batches whose files rotted and were not rewritten

disk == <<shardDir, shard, sidecar, ckpt, manifest, checksums>>
session == <<job, scope, repair>>
vars == <<shardDir, shard, sidecar, ckpt, manifest, checksums,
          mem, pc, then, target, job, scope, repair, rot>>

(***************************************************************************)
(* The checkpoint and what is derived from it.                             *)
(***************************************************************************)
NewCheckpoint == [status |-> "IN_PROGRESS",
                  entry |-> [b \in Batches |-> "none"],
                  counted |-> {}]

Committed(c) == {b \in Batches : c.entry[b] # "none"}

ManifestOf(c) == [status |-> c.status, batches |-> Committed(c)]

\* Mutant of ChecksumsOf: a batch without rows is listed like any other.
ChecksumsOfAll(c) == c.entry

ChecksumsOf(c) == [b \in Batches |-> IF c.entry[b] = "empty" THEN "none"
                                                            ELSE c.entry[b]]

\* _recount after batches[key] = entry (or del batches[key]).
WithEntry(c, b, e) ==
  LET entries == [c.entry EXCEPT ![b] = e]
  IN  [c EXCEPT !.entry = entries,
                !.counted = {x \in Batches : entries[x] # "none"}]

\* _validate_entry succeeds for a batch with rows recorded as v.
Intact(b, v) == shard[b] = v /\ sidecar[b] = v

Invalid == {b \in Batches : mem.entry[b] \in Vectors /\ ~Intact(b, mem.entry[b])}

Orphans == {b \in Batches : shard[b] # "none" /\ mem.entry[b] \notin Vectors}

Repairing == repair /\ mem.status = "IN_PROGRESS"

Missing == {b \in scope : mem.entry[b] = "none"}

\* The batches a job reaches before the first one that has no entry.
Reached == {b \in scope : \A m \in Missing : b < m}

FirstMissing(b) == b \in Missing /\ \A m \in Missing : b <= m

LaneStart(k) == (NBatches * k) \div NumShards
LaneScope(k) == {b \in Batches : LaneStart(k) <= b /\ b < LaneStart(k + 1)}

Scopes(j) == IF j = "lane" THEN {LaneScope(k) : k \in 0 .. (NumShards - 1)}
                           ELSE {Batches}

(***************************************************************************)
(* Control.                                                                *)
(***************************************************************************)
Goto(p) == pc' = p /\ UNCHANGED <<then, target>>

BeginFlush(p) == pc' = "ckpt" /\ then' = p /\ UNCHANGED target

Down == /\ pc' = "down"
        /\ then' = "ready"
        /\ target' = NoBatch
        /\ mem' = NewCheckpoint
        /\ job' = "lane"
        /\ scope' = {}
        /\ repair' = FALSE

Init == /\ shardDir = FALSE
        /\ shard = [b \in Batches |-> "none"]
        /\ sidecar = [b \in Batches |-> "none"]
        /\ ckpt = NoFile /\ manifest = NoFile /\ checksums = NoFile
        /\ mem = NewCheckpoint
        /\ pc = "down" /\ then = "ready" /\ target = NoBatch
        /\ job = "lane" /\ scope = {} /\ repair = FALSE
        /\ rot = {}

(***************************************************************************)
(* Opening the writer: __init__.  Only a staged lane can ask for repair.   *)
(***************************************************************************)
Start(j, r) == /\ pc = "down"
               /\ r => j = "lane"
               /\ job' = j /\ repair' = r /\ scope' \in Scopes(j)

OpenExisting(j, r) == /\ Start(j, r)
                      /\ manifest # NoFile
                      /\ Goto("load")
                      /\ UNCHANGED <<disk, mem, rot>>

OpenRefused(j, r) == /\ Start(j, r)
                     /\ manifest = NoFile
                     /\ ckpt # NoFile \/ shardDir
                     /\ Goto("failed")
                     /\ UNCHANGED <<disk, mem, rot>>

OpenFresh(j, r) == /\ Start(j, r)
                   /\ manifest = NoFile /\ ckpt = NoFile /\ ~shardDir
                   /\ shardDir' = TRUE
                   /\ mem' = NewCheckpoint
                   /\ BeginFlush("load")
                   /\ UNCHANGED <<shard, sidecar, ckpt, manifest, checksums, rot>>

\* Mutant of Load: the checkpoint file is not read.
LoadAnew == /\ pc = "load"
            /\ mem' = NewCheckpoint
            /\ Goto("recover")
            /\ UNCHANGED <<disk, session, rot>>

Load == /\ pc = "load"
        /\ mem' = IF ckpt # NoFile THEN ckpt ELSE NewCheckpoint
        /\ Goto("recover")
        /\ UNCHANGED <<disk, session, rot>>

(***************************************************************************)
(* _recover_orphan_shards.  The glob is sorted by a hash, so any order.    *)
(***************************************************************************)
RecoverOrphan(b) == /\ pc = "recover" /\ b \in Orphans
                    /\ shard[b] \in Vectors
                    /\ mem.entry[b] = "none" \* else two shards claim the batch
                    /\ sidecar' = [sidecar EXCEPT ![b] = shard[b]]
                    /\ mem' = WithEntry(mem, b, shard[b])
                    /\ rot' = rot \ {b}
                    /\ UNCHANGED <<shardDir, shard, ckpt, manifest, checksums,
                                   pc, then, target, session>>

QuarantineOrphan(b) == /\ pc = "recover" /\ b \in Orphans
                       /\ shard[b] = "garbled" /\ Repairing
                       /\ shard' = [shard EXCEPT ![b] = "none"]
                       /\ pc' = "orphanSidecar" /\ target' = b
                       /\ UNCHANGED <<shardDir, sidecar, ckpt, manifest,
                                      checksums, mem, then, session, rot>>

QuarantineOrphanSidecar == /\ pc = "orphanSidecar"
                           /\ sidecar' = [sidecar EXCEPT ![target] = "none"]
                           /\ pc' = "recover" /\ target' = NoBatch
                           /\ UNCHANGED <<shardDir, shard, ckpt, manifest,
                                          checksums, mem, then, session, rot>>

\* An unreadable Parquet file raises pyarrow's error, which the handler of
\* FileEmbeddingWriterError does not catch, with or without repair.
RecoverFails == /\ pc = "recover"
                /\ \E b \in Orphans :
                      \/ shard[b] = "unreadable"
                      \/ shard[b] = "garbled" /\ ~Repairing
                /\ Goto("failed")
                /\ UNCHANGED <<disk, mem, session, rot>>

\* Mutant of RecoverDone: orphan shards may be left alone.
RecoverSome == /\ pc = "recover"
               /\ Goto("check")
               /\ UNCHANGED <<disk, mem, session, rot>>

RecoverDone == /\ pc = "recover" /\ Orphans = {}
               /\ Goto("check")
               /\ UNCHANGED <<disk, mem, session, rot>>

(***************************************************************************)
(* _repair_invalid_committed, or _validate_all_committed, and the flush.   *)
(***************************************************************************)
\* Mutant of RepairEntry: one invalid entry condemns them all.
RepairEveryEntry(b) == /\ pc = "check" /\ Repairing /\ Invalid # {}
                       /\ shard' = [shard EXCEPT ![b] = "none"]
                       /\ pc' = "entrySidecar" /\ target' = b
                       /\ UNCHANGED <<shardDir, sidecar, ckpt, manifest, checksums,
                                      mem, then, session, rot>>

RepairEntry(b) == /\ pc = "check" /\ Repairing /\ b \in Invalid
                  /\ shard' = [shard EXCEPT ![b] = "none"]
                  /\ pc' = "entrySidecar" /\ target' = b
                  /\ UNCHANGED <<shardDir, sidecar, ckpt, manifest, checksums,
                                 mem, then, session, rot>>

\* Mutant of RepairEntrySidecar: the entry of the moved shard stays.
RepairSidecarOnly == /\ pc = "entrySidecar"
                     /\ sidecar' = [sidecar EXCEPT ![target] = "none"]
                     /\ pc' = "check" /\ target' = NoBatch
                     /\ UNCHANGED <<shardDir, shard, ckpt, manifest, checksums,
                                    mem, then, session, rot>>

RepairEntrySidecar == /\ pc = "entrySidecar"
                      /\ sidecar' = [sidecar EXCEPT ![target] = "none"]
                      /\ mem' = WithEntry(mem, target, "none")
                      /\ pc' = "check" /\ target' = NoBatch
                      /\ UNCHANGED <<shardDir, shard, ckpt, manifest,
                                     checksums, then, session, rot>>

\* _validate_all_committed returns.
AllValid == Invalid = {} /\ mem.counted = Committed(mem)

\* Mutant of CheckPasses: what recovery and repair did is not flushed.
CheckPassesUnflushed == /\ pc = "check"
                        /\ IF Repairing THEN Invalid = {} ELSE AllValid
                        /\ Goto("ready")
                        /\ UNCHANGED <<disk, mem, session, rot>>

CheckPasses == /\ pc = "check"
               /\ IF Repairing THEN Invalid = {} ELSE AllValid
               /\ BeginFlush("ready")
               /\ UNCHANGED <<disk, mem, session, rot>>

CheckFails == /\ pc = "check" /\ ~Repairing /\ ~AllValid
              /\ Goto("failed")
              /\ UNCHANGED <<disk, mem, session, rot>>

(***************************************************************************)
(* _flush_state: three files, in this order.                               *)
(***************************************************************************)
FlushCheckpoint == /\ pc = "ckpt"
                   /\ ckpt' = mem
                   /\ Goto("manifest")
                   /\ UNCHANGED <<shardDir, shard, sidecar, manifest,
                                  checksums, mem, session, rot>>

\* Mutant of FlushManifest: the checksums file is forgotten.
FlushManifestLast == /\ pc = "manifest"
                     /\ manifest' = ManifestOf(mem)
                     /\ Goto(then)
                     /\ UNCHANGED <<shardDir, shard, sidecar, ckpt, checksums,
                                    mem, session, rot>>

FlushManifest == /\ pc = "manifest"
                 /\ manifest' = ManifestOf(mem)
                 /\ Goto("checksums")
                 /\ UNCHANGED <<shardDir, shard, sidecar, ckpt, checksums,
                                mem, session, rot>>

FlushChecksums == /\ pc = "checksums"
                  /\ checksums' = ChecksumsOf(mem)
                  /\ Goto(then)
                  /\ UNCHANGED <<shardDir, shard, sidecar, ckpt, manifest,
                                 mem, session, rot>>

(***************************************************************************)
(* write_batch: the shard, then its sidecar, then entry and flush.         *)
(***************************************************************************)
MayWrite(b) == /\ pc = "ready" /\ job # "verify"
               /\ FirstMissing(b) /\ mem.status = "IN_PROGRESS"

\* Mutant of WriteShard: the batch is committed before its sidecar.
WriteShardOnly(b, v) == /\ MayWrite(b) /\ b \notin EmptyBatches
                        /\ shard' = [shard EXCEPT ![b] = v]
                        /\ mem' = WithEntry(mem, b, v)
                        /\ BeginFlush("ready")
                        /\ UNCHANGED <<shardDir, sidecar, ckpt, manifest,
                                       checksums, session, rot>>

\* That neither a completed writer nor an unregistered shard is met here,
\* which write_batch would refuse, is what NoClaimConflict says.
WriteShard(b, v) == /\ MayWrite(b) /\ b \notin EmptyBatches
                    /\ shard[b] = "none"
                    /\ shard' = [shard EXCEPT ![b] = v]
                    /\ pc' = "sidecar" /\ target' = b
                    /\ UNCHANGED <<shardDir, sidecar, ckpt, manifest,
                                   checksums, mem, then, session, rot>>

WriteSidecar == /\ pc = "sidecar"
                /\ sidecar' = [sidecar EXCEPT ![target] = shard[target]]
                /\ mem' = WithEntry(mem, target, shard[target])
                /\ rot' = rot \ {target}
                /\ pc' = "ckpt" /\ then' = "ready" /\ target' = NoBatch
                /\ UNCHANGED <<shardDir, shard, ckpt, manifest, checksums, session>>

WriteEmpty(b) == /\ MayWrite(b) /\ b \in EmptyBatches
                 /\ mem' = WithEntry(mem, b, "empty")
                 /\ BeginFlush("ready")
                 /\ UNCHANGED <<disk, session, rot>>

\* The batches whose is_batch_committed the job may still call.
Replayed == IF job = "pipeline" THEN Reached ELSE scope

\* is_batch_committed raises on a committed batch whose files rotted.
ReplayFails == /\ pc = "ready" /\ Replayed \cap Invalid # {}
               /\ job = "pipeline" => mem.status = "IN_PROGRESS"
               /\ Goto("failed")
               /\ UNCHANGED <<disk, mem, session, rot>>

(***************************************************************************)
(* How the jobs end.                                                       *)
(***************************************************************************)
\* Wall-clock budget, test hook, or the range is complete.
LaneEnds == /\ pc = "ready" /\ job = "lane" /\ Reached \cap Invalid = {}
            /\ Goto("done")
            /\ UNCHANGED <<disk, mem, session, rot>>

VerifyEnds == /\ pc = "ready" /\ job = "verify" /\ scope \cap Invalid = {}
              /\ Goto(IF Missing = {} THEN "done" ELSE "failed")
              /\ UNCHANGED <<disk, mem, session, rot>>

ReuseCompleted == /\ pc = "ready" /\ job = "pipeline"
                  /\ mem.status = "COMPLETED"
                  /\ Goto("done")
                  /\ UNCHANGED <<disk, mem, session, rot>>

ExpectedRows == (Batches \ EmptyBatches) \subseteq mem.counted

\* Mutant of Complete: a lane seals the modality after its own range.
CompleteInLane == /\ pc = "ready" /\ job # "verify"
                  /\ mem.status = "IN_PROGRESS" /\ Missing = {} /\ AllValid
                  /\ mem' = [mem EXCEPT !.status = "COMPLETED"]
                  /\ BeginFlush("done")
                  /\ UNCHANGED <<disk, session, rot>>

\* Mutant of Complete: the shards are not validated once more.
CompleteUnvalidated == /\ pc = "ready" /\ job = "pipeline"
                       /\ mem.status = "IN_PROGRESS" /\ Missing = {} /\ ExpectedRows
                       /\ mem' = [mem EXCEPT !.status = "COMPLETED"]
                       /\ BeginFlush("done")
                       /\ UNCHANGED <<disk, session, rot>>

Complete == /\ pc = "ready" /\ job = "pipeline"
            /\ mem.status = "IN_PROGRESS" /\ Missing = {}
            /\ AllValid /\ ExpectedRows
            /\ mem' = [mem EXCEPT !.status = "COMPLETED"]
            /\ BeginFlush("done")
            /\ UNCHANGED <<disk, session, rot>>

CompleteFails == /\ pc = "ready" /\ job = "pipeline"
                 /\ mem.status = "IN_PROGRESS" /\ Missing = {}
                 /\ ~(AllValid /\ ExpectedRows)
                 /\ Goto("failed")
                 /\ UNCHANGED <<disk, mem, session, rot>>

Exit == /\ pc \in {"done", "failed"}
        /\ Down
        /\ UNCHANGED <<disk, rot>>

(***************************************************************************)
(* The environment: a killed process, and files that rot while no          *)
(* publication is under way (tests/test_embeddings_staged.py:120).         *)
(***************************************************************************)
Crash == /\ pc \notin {"down", "done", "failed"}
         /\ Down
         /\ UNCHANGED <<disk, rot>>

RotShard(b, d) == /\ pc \in {"down", "ready"} /\ shard[b] \in Vectors
                  /\ shard' = [shard EXCEPT ![b] = d]
                  /\ rot' = rot \cup {b}
                  /\ UNCHANGED <<shardDir, sidecar, ckpt, manifest, checksums,
                                 mem, pc, then, target, session>>

RotSidecar(b) == /\ pc \in {"down", "ready"} /\ sidecar[b] \in Vectors
                 /\ Damages # {}
                 /\ sidecar' = [sidecar EXCEPT ![b] = "garbled"]
                 /\ rot' = rot \cup {b}
                 /\ UNCHANGED <<shardDir, shard, ckpt, manifest, checksums,
                                mem, pc, then, target, session>>

Jobs == {"lane", "verify", "pipeline"}

Open == \E j \in Jobs, r \in BOOLEAN :
          OpenExisting(j, r) \/ OpenRefused(j, r) \/ OpenFresh(j, r)

Recover == \/ \E b \in Batches : RecoverOrphan(b) \/ QuarantineOrphan(b)
           \/ QuarantineOrphanSidecar \/ RecoverFails \/ RecoverDone

Check == \/ \E b \in Batches : RepairEntry(b)
         \/ RepairEntrySidecar \/ CheckPasses \/ CheckFails

Flush == FlushCheckpoint \/ FlushManifest \/ FlushChecksums

Write == \/ \E b \in Batches, v \in Vectors : WriteShard(b, v)
         \/ \E b \in Batches : WriteEmpty(b)
         \/ WriteSidecar \/ ReplayFails

Finish == \/ LaneEnds \/ VerifyEnds \/ ReuseCompleted
          \/ Complete \/ CompleteFails \/ Exit

Step == Load \/ Recover \/ Check \/ Flush \/ Write \/ Finish

Rot == \E b \in Batches : (\E d \in Damages : RotShard(b, d)) \/ RotSidecar(b)

Next == Open \/ Step \/ Crash \/ Rot

Spec == Init /\ [][Next]_vars

-----------------------------------------------------------------------------
(***************************************************************************)
(* Properties.                                                             *)
(***************************************************************************)
PCs == {"down", "load", "recover", "orphanSidecar", "check", "entrySidecar",
        "ckpt", "manifest", "checksums", "ready", "sidecar", "done", "failed"}

TypeOK ==
  /\ shardDir \in BOOLEAN
  /\ shard \in [Batches -> Vectors \cup {"none", "garbled", "unreadable"}]
  /\ sidecar \in [Batches -> Vectors \cup {"none", "garbled"}]
  /\ ckpt \in Checkpoint \cup {NoFile}
  /\ manifest \in Manifest \cup {NoFile}
  /\ checksums \in Checksums \cup {NoFile}
  /\ mem \in Checkpoint
  /\ pc \in PCs
  /\ then \in {"load", "ready", "done"}
  /\ target \in Batches \cup {NoBatch}
  /\ job \in Jobs
  /\ scope \in SUBSET Batches
  /\ repair \in BOOLEAN
  /\ rot \in SUBSET Batches

Sealed == ckpt # NoFile /\ ckpt.status = "COMPLETED"

\* A batch recorded in the checkpoint file has its shard and its sidecar on
\* disk, byte for byte the recorded ones, unless they rotted: write_batch
\* publishes shard, sidecar and checkpoint in an order no crash can break.
CommittedOnDisk ==
  ckpt # NoFile =>
    \A b \in Batches \ rot : ckpt.entry[b] \in Vectors => Intact(b, ckpt.entry[b])

\* The same of the checksums file, which pooling reads instead of the
\* checkpoint: even when it is older than the checkpoint it names no shard
\* that has been replaced.
ChecksumsTrue ==
  checksums # NoFile =>
    \A b \in Batches \ rot : checksums[b] \in Vectors => shard[b] = checksums[b]

\* A modality is sealed only with an entry for every batch of the source, and
\* its manifest never says COMPLETED before its checkpoint does.
SealedIsComplete ==
  /\ Sealed => Committed(ckpt) = Batches /\ ckpt.counted = Batches
  /\ manifest # NoFile /\ manifest.status = "COMPLETED" => Sealed

\* The two refusals of write_batch and the one of _recover_orphan_shards are
\* never met by a single writer: opening has adopted or quarantined every
\* shard that the checkpoint does not name.
NoClaimConflict ==
  /\ pc = "recover" => \A b \in Orphans : mem.entry[b] = "none"
  /\ pc = "ready" =>
       \A b \in Batches : mem.entry[b] = "none" =>
          shard[b] = "none" /\ mem.status = "IN_PROGRESS"

\* When the sealing job hands over to pooling, the three state files agree
\* and the checksums list exactly the shards of every batch.
HandOver ==
  pc = "done" /\ job = "pipeline" =>
    /\ Sealed
    /\ manifest = ManifestOf(ckpt)
    /\ checksums = ChecksumsOf(ckpt)
    /\ \A b \in Batches \ EmptyBatches : checksums[b] \in Vectors

\* A shard whose files did not rot is never rewritten, moved or removed: "all
\* other checksummed shards must remain byte identical".
IntactShardsImmutable ==
  [][\A b \in Batches :
       shard[b] \in Vectors /\ b \notin rot' => shard'[b] = shard[b]]_vars

\* Once the checkpoint says COMPLETED no later session changes its entries or
\* its status, whatever it finds on disk.
SealedIsFrozen ==
  [][Sealed => ckpt' = ckpt]_vars

(***************************************************************************)
(* Liveness.  A process that runs keeps running; the operator keeps        *)
(* starting the sealing pipeline, and a lane with --repair-corrupt-shards  *)
(* (the runbook's answer to a checksum failure).  Crashes and rot stop.    *)
(***************************************************************************)
Fairness ==
  /\ WF_vars(Step)
  /\ SF_vars(OpenExisting("pipeline", FALSE))
  /\ SF_vars(OpenExisting("lane", TRUE))

FairSpec == Spec /\ Fairness

\* A shard no entry names that pyarrow cannot read: recovery reads it before it
\* could quarantine it, so every later session ends there.
Unrecoverable ==
  \E b \in Batches : shard[b] = "unreadable" /\ ckpt.entry[b] \notin Vectors

\* A modality whose first manifest reached the disk is eventually sealed,
\* whatever kills and damage came before: the one exception is the shard above.
PublishedIsSealed ==
  <>[][~(Crash \/ Rot)]_vars => ((manifest # NoFile) ~> (Sealed \/ Unrecoverable))

(***************************************************************************)
(* The writer implements the ledger: the durable value of a batch is its   *)
(* readable shard, sealed is the status in the checkpoint file.            *)
(***************************************************************************)
LedgerItems == Batches \ EmptyBatches

LedgerValue == [b \in LedgerItems |-> IF shard[b] \in Vectors THEN shard[b] ELSE "none"]

Ledger == INSTANCE BatchLedger
            WITH Items <- LedgerItems, Values <- Vectors, Nothing <- "none",
                 value <- LedgerValue, damaged <- rot, sealed <- Sealed

\* Sessions, crashes, orphan recovery and repair are invisible in the ledger:
\* no history of them loses, doubles or replaces a durable value, or seals a
\* modality that has a gap or a damaged shard.
ImplementsLedger == Ledger!Spec
=============================================================================
