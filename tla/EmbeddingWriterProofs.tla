----------------------- MODULE EmbeddingWriterProofs -----------------------
(***************************************************************************)
(* The safety properties of EmbeddingWriter for every number of batches,   *)
(* lanes and vectors, and the refinement of BatchLedger.                   *)
(***************************************************************************)
EXTENDS EmbeddingWriter, TLAPS

(***************************************************************************)
(* The inductive invariant.  c is the checkpoint file or the one in        *)
(* memory.                                                                 *)
(***************************************************************************)
\* Batches without rows have no shard, the others no "empty" entry.
EntriesFit(c) == \A b \in Batches : /\ c.entry[b] \in Vectors => b \notin EmptyBatches
                                    /\ c.entry[b] = "empty" => b \in EmptyBatches

\* A recorded batch is rotten exactly when its files differ from the record,
\* and a readable shard is the recorded one.
RotExact(c) == \A b \in Batches :
                 c.entry[b] \in Vectors =>
                    /\ b \in rot <=> ~Intact(b, c.entry[b])
                    /\ shard[b] \in Vectors => shard[b] = c.entry[b]

Full(c) == c.status = "COMPLETED" =>
             c.counted = Batches /\ \A b \in Batches : c.entry[b] # "none"

MemInv == EntriesFit(mem) /\ RotExact(mem) /\ Full(mem)

CkptInv ==
  /\ ckpt # NoFile => EntriesFit(ckpt) /\ RotExact(ckpt) /\ Full(ckpt)
  /\ ckpt = NoFile => manifest = NoFile /\ checksums = NoFile

\* Only batches with rows have a shard, and only in a published run root.
ShardsFit ==
  \A b \in Batches : shard[b] # "none" => b \notin EmptyBatches /\ manifest # NoFile

RotFit ==
  \A b \in EmptyBatches : sidecar[b] = "none" /\ b \notin rot

\* The checksums file may be old, but no shard it names has been replaced.
ChecksumsInv ==
  checksums # NoFile =>
    \A b \in Batches : checksums[b] \in Vectors =>
       /\ shard[b] \in Vectors => shard[b] = checksums[b]
       /\ b \notin rot => shard[b] = checksums[b]

Synced == ckpt = mem /\ manifest = ManifestOf(mem) /\ checksums = ChecksumsOf(mem)

\* What each control point knows about the files.
ControlInv ==
  /\ pc \in {"recover", "orphanSidecar"} /\ ckpt # NoFile =>
       \A b \in Batches : ckpt.entry[b] # "none" => mem.entry[b] = ckpt.entry[b]
  /\ pc \in {"orphanSidecar", "entrySidecar"} =>
       target \in Batches /\ shard[target] = "none"
  /\ pc = "entrySidecar" => mem.status = "IN_PROGRESS"
  /\ pc \in {"manifest", "checksums"} => ckpt = mem
  /\ pc = "checksums" => manifest = ManifestOf(mem)
  /\ pc \in {"ready", "sidecar", "done"} => Synced
  /\ pc = "sidecar" => /\ target \in Batches \ EmptyBatches
                       /\ mem.entry[target] = "none" /\ shard[target] \in Vectors
  /\ pc \in {"ckpt", "manifest", "checksums"} /\ then = "done" =>
       mem.status = "COMPLETED"
  /\ pc = "done" /\ job = "pipeline" => mem.status = "COMPLETED"
  /\ pc # "down" /\ job = "pipeline" => scope = Batches

\* Once opening has recovered, every shard on disk has its entry in memory.
NoOrphans ==
  pc \in {"check", "entrySidecar", "ckpt", "manifest", "checksums",
          "ready", "sidecar", "done"} =>
    \A b \in Batches : shard[b] # "none" =>
       mem.entry[b] \in Vectors \/ (pc = "sidecar" /\ b = target)

\* COMPLETED is published in the checkpoint first, and only when nothing rotted.
SealInv ==
  /\ manifest # NoFile /\ manifest.status = "COMPLETED" => Sealed
  /\ Sealed /\ pc \notin {"down", "load", "failed"} => mem = ckpt
  /\ mem.status = "COMPLETED" /\ ~Sealed => pc = "ckpt" /\ Invalid = {}

FilesInv == MemInv /\ CkptInv /\ ShardsFit /\ RotFit /\ ChecksumsInv

IInv == TypeOK /\ FilesInv /\ ControlInv /\ NoOrphans /\ SealInv

-----------------------------------------------------------------------------
USE VectorsAssumption, NoFileAssumption, EmptyAssumption, DamageAssumption,
    SizesAssumption

(***************************************************************************)
(* Types of the checkpoints that steps build.                              *)
(***************************************************************************)
LEMMA NewCheckpointType == NewCheckpoint \in Checkpoint
  BY DEF NewCheckpoint, Checkpoint, Statuses

\* A ledger with one entry more is a ledger.
LEMMA WithEntryType ==
  ASSUME NEW c \in Checkpoint, NEW b \in Batches,
         NEW e \in Vectors \cup {"none", "empty"}
  PROVE  WithEntry(c, b, e) \in Checkpoint
<1> DEFINE entries == [c.entry EXCEPT ![b] = e]
           counted == {x \in Batches : entries[x] # "none"}
<1>1. entries \in [Batches -> Vectors \cup {"none", "empty"}]
  BY DEF Checkpoint
<1>2. counted \in SUBSET Batches
  OBVIOUS
<1> HIDE DEF entries, counted
<1>3. [c EXCEPT !.entry = entries, !.counted = counted] \in Checkpoint
  BY <1>1, <1>2 DEF Checkpoint
<1> QED BY <1>3 DEF WithEntry, entries, counted

\* A step that changes neither the files nor what is in memory keeps what is
\* known of them.
LEMMA FilesUnchanged ==
  ASSUME FilesInv, UNCHANGED <<disk, mem, rot>>
  PROVE  FilesInv'
  BY DEF FilesInv, MemInv, CkptInv, ShardsFit, RotFit, ChecksumsInv,
         EntriesFit, RotExact, Full, Intact, disk

-----------------------------------------------------------------------------
(***************************************************************************)
(* Every action keeps the inductive invariant: one step for each conjunct. *)
(***************************************************************************)
\* Opening a writer only reads the three state files.
LEMMA OpenExistingInv ==
  ASSUME NEW j \in Jobs, NEW r \in BOOLEAN, IInv, OpenExisting(j, r)
  PROVE  IInv'
<1> USE DEF IInv, FilesInv, OpenExisting, Goto, Start, disk, Scopes, LaneScope
<1>1. FilesInv'
  BY FilesUnchanged
<1>2. TypeOK'
  BY DEF TypeOK, Checkpoint, Checksums, Jobs, Manifest, NoBatch, PCs, Statuses
<1>3. ControlInv'
  BY DEF ControlInv, ManifestOf, Synced, Committed, ChecksumsOf
<1>4. NoOrphans'
  BY DEF NoOrphans
<1>5. SealInv'
  BY DEF SealInv, Invalid, Sealed, Intact
<1> QED BY <1>1, <1>2, <1>3, <1>4, <1>5

\* A refused opening publishes nothing.
LEMMA OpenRefusedInv ==
  ASSUME NEW j \in Jobs, NEW r \in BOOLEAN, IInv, OpenRefused(j, r)
  PROVE  IInv'
<1> USE DEF IInv, FilesInv, OpenRefused, Goto, Start, disk, Scopes, LaneScope
<1>1. FilesInv'
  BY FilesUnchanged
<1>2. TypeOK'
  BY DEF TypeOK, Checkpoint, Checksums, Jobs, Manifest, NoBatch, PCs, Statuses
<1>3. ControlInv'
  BY DEF ControlInv, ManifestOf, Synced, Committed, ChecksumsOf
<1>4. NoOrphans'
  BY DEF NoOrphans
<1>5. SealInv'
  BY DEF SealInv, Invalid, Sealed, Intact
<1> QED BY <1>1, <1>2, <1>3, <1>4, <1>5

\* The first opening starts from an empty checkpoint, on disk nothing.
LEMMA OpenFreshInv ==
  ASSUME NEW j \in Jobs, NEW r \in BOOLEAN, IInv, OpenFresh(j, r)
  PROVE  IInv'
<1> USE DEF IInv, FilesInv, OpenFresh, BeginFlush, Start, Scopes, LaneScope
<1>1. TypeOK'
  BY NewCheckpointType DEF TypeOK, Checksums, Jobs, Manifest, NoBatch, PCs
<1>2. MemInv'
  BY DEF MemInv, EntriesFit, Full, RotExact, NewCheckpoint, Intact
<1>3. CkptInv'
  BY DEF CkptInv, EntriesFit, Full, RotExact, NewCheckpoint, Intact
<1>4. ShardsFit'
  BY DEF ShardsFit, NewCheckpoint
<1>5. RotFit'
  BY DEF RotFit, NewCheckpoint
<1>6. ChecksumsInv'
  BY DEF ChecksumsInv, NewCheckpoint
<1>7. ControlInv'
  BY DEF ControlInv, ManifestOf, Synced, NewCheckpoint, Committed, ChecksumsOf
<1>8. NoOrphans'
  BY DEF NoOrphans, ShardsFit, NewCheckpoint
<1>9. SealInv'
  BY DEF SealInv, Invalid, Sealed, NewCheckpoint, Intact
<1> QED BY <1>1, <1>2, <1>3, <1>4, <1>5, <1>6, <1>7, <1>8, <1>9

\* The process reads the checkpoint file: what holds of it holds of memory.
LEMMA LoadInv ==
  ASSUME IInv, Load
  PROVE  IInv'
<1> USE DEF IInv, FilesInv, Load, Goto, disk, session
<1>1. TypeOK'
  BY NewCheckpointType DEF TypeOK, Checksums, Jobs, Manifest, NoBatch, PCs
<1>2. MemInv'
  BY DEF TypeOK, MemInv, CkptInv, Checkpoint, Checksums, Jobs, Manifest,
     NoBatch, PCs, EntriesFit, Full, RotExact, NewCheckpoint, Statuses, Intact
<1>3. CkptInv'
  BY DEF CkptInv, EntriesFit, Full, RotExact, NewCheckpoint, Intact
<1>4. ShardsFit'
  BY DEF ShardsFit, NewCheckpoint
<1>5. RotFit'
  BY DEF RotFit, NewCheckpoint
<1>6. ChecksumsInv'
  BY DEF ChecksumsInv, NewCheckpoint
<1>7. ControlInv'
  BY DEF ControlInv, ManifestOf, Synced, NewCheckpoint, Committed, ChecksumsOf
<1>8. NoOrphans'
  BY DEF NoOrphans, NewCheckpoint
<1>9. SealInv'
  BY DEF SealInv, Invalid, Sealed, NewCheckpoint, Intact
<1> QED BY <1>1, <1>2, <1>3, <1>4, <1>5, <1>6, <1>7, <1>8, <1>9

\* Adopting an orphan shard makes its record exact and its files good.
LEMMA RecoverOrphanInv ==
  ASSUME NEW b \in Batches, IInv, RecoverOrphan(b)
  PROVE  IInv'
<1> USE DEF IInv, FilesInv, RecoverOrphan, Orphans, session
<1>1. TypeOK'
  BY WithEntryType DEF TypeOK, Checksums, Jobs, Manifest, NoBatch, PCs
<1>2. MemInv'
  BY DEF TypeOK, MemInv, ShardsFit, Checkpoint, Checksums, Jobs, Manifest,
     NoBatch, PCs, EntriesFit, Full, RotExact, WithEntry, Statuses, Intact
<1>3. CkptInv'
  BY DEF TypeOK, CkptInv, Checkpoint, Checksums, Jobs, Manifest, NoBatch, PCs,
     EntriesFit, Full, RotExact, WithEntry, Statuses, Intact
<1>4. ShardsFit'
  BY DEF ShardsFit, WithEntry
<1>5. RotFit'
  BY DEF TypeOK, ShardsFit, RotFit, Checkpoint, Checksums, Jobs, Manifest,
     NoBatch, PCs, WithEntry, Statuses
<1>6. ChecksumsInv'
  BY DEF ChecksumsInv, WithEntry
<1>7. ControlInv'
  BY DEF ControlInv, ManifestOf, Synced, WithEntry, Committed, ChecksumsOf
<1>8. NoOrphans'
  BY DEF NoOrphans, WithEntry
<1>9. SealInv'
  BY DEF TypeOK, MemInv, CkptInv, SealInv, Checkpoint, Checksums, Jobs,
     Manifest, NoBatch, PCs, EntriesFit, Full, RotExact, Invalid, Sealed,
     WithEntry, Statuses, Intact
<1> QED BY <1>1, <1>2, <1>3, <1>4, <1>5, <1>6, <1>7, <1>8, <1>9

\* Only a rotten shard without a record leaves its place.
LEMMA QuarantineOrphanInv ==
  ASSUME NEW b \in Batches, IInv, QuarantineOrphan(b)
  PROVE  IInv'
<1> USE DEF IInv, FilesInv, QuarantineOrphan, Orphans, Repairing, session
<1>1. TypeOK'
  BY DEF TypeOK, Checkpoint, Checksums, Jobs, Manifest, NoBatch, PCs, Statuses
<1>2. MemInv'
  BY DEF MemInv, EntriesFit, Full, RotExact, Intact
<1>3. CkptInv'
  BY DEF CkptInv, EntriesFit, Full, RotExact, Intact
<1>4. ShardsFit'
  BY DEF TypeOK, ShardsFit, Checkpoint, Checksums, Jobs, Manifest, NoBatch,
     PCs, Statuses
<1>5. RotFit'
  BY DEF RotFit
<1>6. ChecksumsInv'
  BY DEF ChecksumsInv
<1>7. ControlInv'
  BY DEF TypeOK, ControlInv, Checkpoint, Checksums, Jobs, Manifest, NoBatch,
     PCs, ManifestOf, Synced, Statuses, Committed, ChecksumsOf
<1>8. NoOrphans'
  BY DEF NoOrphans
<1>9. SealInv'
  BY DEF SealInv, Invalid, Sealed, Intact
<1> QED BY <1>1, <1>2, <1>3, <1>4, <1>5, <1>6, <1>7, <1>8, <1>9

\* Its sidecar follows it.
LEMMA QuarantineOrphanSidecarInv ==
  ASSUME IInv, QuarantineOrphanSidecar
  PROVE  IInv'
<1> USE DEF IInv, FilesInv, QuarantineOrphanSidecar, NoBatch, session
<1>1. TypeOK'
  BY DEF TypeOK, Checkpoint, Checksums, Jobs, Manifest, PCs, Statuses
<1>2. MemInv'
  BY DEF TypeOK, MemInv, ControlInv, Checkpoint, Checksums, Jobs, Manifest,
     PCs, EntriesFit, Full, RotExact, ManifestOf, Synced, Statuses, Intact,
     Committed, ChecksumsOf
<1>3. CkptInv'
  BY DEF TypeOK, CkptInv, ControlInv, Checkpoint, Checksums, Jobs, Manifest,
     PCs, EntriesFit, Full, RotExact, ManifestOf, Synced, Statuses, Intact,
     Committed, ChecksumsOf
<1>4. ShardsFit'
  BY DEF ShardsFit
<1>5. RotFit'
  BY DEF RotFit
<1>6. ChecksumsInv'
  BY DEF ChecksumsInv
<1>7. ControlInv'
  BY DEF ControlInv, ManifestOf, Synced, Committed, ChecksumsOf
<1>8. NoOrphans'
  BY DEF NoOrphans
<1>9. SealInv'
  BY DEF SealInv, Invalid, Sealed, Intact
<1> QED BY <1>1, <1>2, <1>3, <1>4, <1>5, <1>6, <1>7, <1>8, <1>9

\* Giving up on an orphan changes no file.
LEMMA RecoverFailsInv ==
  ASSUME IInv, RecoverFails
  PROVE  IInv'
<1> USE DEF IInv, FilesInv, RecoverFails, Goto, Orphans, Repairing, disk,
   session
<1>1. FilesInv'
  BY FilesUnchanged
<1>2. TypeOK'
  BY DEF TypeOK, Checkpoint, Checksums, Jobs, Manifest, NoBatch, PCs, Statuses
<1>3. ControlInv'
  BY DEF ControlInv, ManifestOf, Synced, Committed, ChecksumsOf
<1>4. NoOrphans'
  BY DEF NoOrphans
<1>5. SealInv'
  BY DEF SealInv, Invalid, Sealed, Intact
<1> QED BY <1>1, <1>2, <1>3, <1>4, <1>5

\* With no orphan left, every shard on disk has its entry in memory.
LEMMA RecoverDoneInv ==
  ASSUME IInv, RecoverDone
  PROVE  IInv'
<1> USE DEF IInv, FilesInv, RecoverDone, Goto, Orphans, disk, session
<1>1. FilesInv'
  BY FilesUnchanged
<1>2. TypeOK'
  BY DEF TypeOK, Checkpoint, Checksums, Jobs, Manifest, NoBatch, PCs, Statuses
<1>3. ControlInv'
  BY DEF ControlInv, ManifestOf, Synced, Committed, ChecksumsOf
<1>4. NoOrphans'
  BY DEF NoOrphans
<1>5. SealInv'
  BY DEF SealInv, Invalid, Sealed, Intact
<1> QED BY <1>1, <1>2, <1>3, <1>4, <1>5

\* Only a shard that rotted is taken from the record.
LEMMA RepairEntryInv ==
  ASSUME NEW b \in Batches, IInv, RepairEntry(b)
  PROVE  IInv'
<1> USE DEF IInv, FilesInv, RepairEntry, Invalid, Repairing, session, Intact
<1>1. TypeOK'
  BY DEF TypeOK, Checkpoint, Checksums, Jobs, Manifest, NoBatch, PCs, Statuses
<1>2. MemInv'
  BY DEF MemInv, EntriesFit, Full, RotExact
<1>3. CkptInv'
  BY DEF TypeOK, MemInv, CkptInv, Checkpoint, Checksums, Jobs, Manifest,
     NoBatch, PCs, EntriesFit, Full, RotExact, Statuses
<1>4. ShardsFit'
  BY DEF TypeOK, ShardsFit, Checkpoint, Checksums, Jobs, Manifest, NoBatch,
     PCs, Statuses
<1>5. RotFit'
  BY DEF RotFit
<1>6. ChecksumsInv'
  BY DEF TypeOK, MemInv, CkptInv, ChecksumsInv, Checkpoint, Checksums, Jobs,
     Manifest, NoBatch, PCs, EntriesFit, Full, RotExact, Statuses
<1>7. ControlInv'
  BY DEF TypeOK, ControlInv, Checkpoint, Checksums, Jobs, Manifest, NoBatch,
     PCs, ManifestOf, Synced, Statuses, Committed, ChecksumsOf
<1>8. NoOrphans'
  BY DEF NoOrphans
<1>9. SealInv'
  BY DEF SealInv, Sealed
<1> QED BY <1>1, <1>2, <1>3, <1>4, <1>5, <1>6, <1>7, <1>8, <1>9

\* The record then forgets the batch.
LEMMA RepairEntrySidecarInv ==
  ASSUME IInv, RepairEntrySidecar
  PROVE  IInv'
<1> USE DEF IInv, FilesInv, RepairEntrySidecar, NoBatch, session
<1>1. TypeOK'
  BY WithEntryType DEF TypeOK, ControlInv, Checksums, Jobs, Manifest, PCs,
     ManifestOf, Synced, Committed, ChecksumsOf
<1>2. MemInv'
  BY DEF TypeOK, MemInv, ControlInv, Checkpoint, Checksums, Jobs, Manifest,
     PCs, EntriesFit, Full, RotExact, ManifestOf, Synced, WithEntry, Statuses,
     Intact, Committed, ChecksumsOf
<1>3. CkptInv'
  BY DEF TypeOK, CkptInv, ControlInv, Checkpoint, Checksums, Jobs, Manifest,
     PCs, EntriesFit, Full, RotExact, ManifestOf, Synced, WithEntry, Statuses,
     Intact, Committed, ChecksumsOf
<1>4. ShardsFit'
  BY DEF ShardsFit, WithEntry
<1>5. RotFit'
  BY DEF RotFit, WithEntry
<1>6. ChecksumsInv'
  BY DEF ChecksumsInv, WithEntry
<1>7. ControlInv'
  BY DEF ControlInv, ManifestOf, Synced, WithEntry, Committed, ChecksumsOf
<1>8. NoOrphans'
  BY DEF TypeOK, NoOrphans, ControlInv, Checkpoint, Checksums, Jobs, Manifest,
     PCs, ManifestOf, Synced, WithEntry, Statuses, Committed, ChecksumsOf
<1>9. SealInv'
  BY DEF TypeOK, SealInv, ControlInv, Checkpoint, Checksums, Jobs, Manifest,
     PCs, Invalid, Sealed, ManifestOf, Synced, WithEntry, Statuses, Intact,
     Committed, ChecksumsOf
<1> QED BY <1>1, <1>2, <1>3, <1>4, <1>5, <1>6, <1>7, <1>8, <1>9

\* The check of the recorded files changes none.
LEMMA CheckPassesInv ==
  ASSUME IInv, CheckPasses
  PROVE  IInv'
<1> USE DEF IInv, FilesInv, CheckPasses, AllValid, BeginFlush, Invalid,
   Repairing, disk, session, Committed, Intact
<1>1. FilesInv'
  BY FilesUnchanged
<1>2. TypeOK'
  BY DEF TypeOK, Checkpoint, Checksums, Jobs, Manifest, NoBatch, PCs, Statuses
<1>3. ControlInv'
  BY DEF ControlInv, ManifestOf, Synced, ChecksumsOf
<1>4. NoOrphans'
  BY DEF NoOrphans
<1>5. SealInv'
  BY DEF SealInv, Sealed
<1> QED BY <1>1, <1>2, <1>3, <1>4, <1>5

\* A failed check leaves the files to a repair.
LEMMA CheckFailsInv ==
  ASSUME IInv, CheckFails
  PROVE  IInv'
<1> USE DEF IInv, FilesInv, CheckFails, AllValid, Goto, Repairing, disk,
   session, Committed, Invalid, Intact
<1>1. FilesInv'
  BY FilesUnchanged
<1>2. TypeOK'
  BY DEF TypeOK, Checkpoint, Checksums, Jobs, Manifest, NoBatch, PCs, Statuses
<1>3. ControlInv'
  BY DEF ControlInv, ManifestOf, Synced, ChecksumsOf
<1>4. NoOrphans'
  BY DEF NoOrphans
<1>5. SealInv'
  BY DEF SealInv, Sealed
<1> QED BY <1>1, <1>2, <1>3, <1>4, <1>5

\* What was true in memory is published first in the checkpoint,
LEMMA FlushCheckpointInv ==
  ASSUME IInv, FlushCheckpoint
  PROVE  IInv'
<1> USE DEF IInv, FilesInv, FlushCheckpoint, Goto, session
<1>1. TypeOK'
  BY DEF TypeOK, Checkpoint, Checksums, Jobs, Manifest, NoBatch, PCs, Statuses
<1>2. MemInv'
  BY DEF MemInv, EntriesFit, Full, RotExact, Intact
<1>3. CkptInv'
  BY DEF TypeOK, MemInv, CkptInv, Checkpoint, Checksums, Jobs, Manifest,
     NoBatch, PCs, EntriesFit, Full, RotExact, Statuses, Intact
<1>4. ShardsFit'
  BY DEF ShardsFit
<1>5. RotFit'
  BY DEF RotFit
<1>6. ChecksumsInv'
  BY DEF ChecksumsInv
<1>7. ControlInv'
  BY DEF ControlInv, ManifestOf, Synced, Committed, ChecksumsOf
<1>8. NoOrphans'
  BY DEF NoOrphans
<1>9. SealInv'
  BY DEF TypeOK, SealInv, Checkpoint, Checksums, Jobs, Manifest, NoBatch, PCs,
     Invalid, Sealed, Statuses, Intact
<1> QED BY <1>1, <1>2, <1>3, <1>4, <1>5, <1>6, <1>7, <1>8, <1>9

\* then in the manifest, no sooner COMPLETED than the checkpoint,
LEMMA FlushManifestInv ==
  ASSUME IInv, FlushManifest
  PROVE  IInv'
<1> USE DEF IInv, FilesInv, FlushManifest, Goto, ManifestOf, session, Committed
<1>1. TypeOK'
  BY DEF TypeOK, Checkpoint, Checksums, Jobs, Manifest, NoBatch, PCs, Statuses
<1>2. MemInv'
  BY DEF MemInv, EntriesFit, Full, RotExact, Intact
<1>3. CkptInv'
  BY DEF TypeOK, CkptInv, ControlInv, Checkpoint, Checksums, Jobs, Manifest,
     NoBatch, PCs, EntriesFit, Full, RotExact, Synced, Statuses, Intact,
     ChecksumsOf
<1>4. ShardsFit'
  BY DEF TypeOK, ShardsFit, Checkpoint, Checksums, Jobs, Manifest, NoBatch,
     PCs, Statuses
<1>5. RotFit'
  BY DEF RotFit
<1>6. ChecksumsInv'
  BY DEF ChecksumsInv
<1>7. ControlInv'
  BY DEF ControlInv, Synced, ChecksumsOf
<1>8. NoOrphans'
  BY DEF NoOrphans
<1>9. SealInv'
  BY DEF TypeOK, SealInv, ControlInv, Checkpoint, Checksums, Jobs, Manifest,
     NoBatch, PCs, Invalid, Sealed, Synced, Statuses, Intact, ChecksumsOf
<1> QED BY <1>1, <1>2, <1>3, <1>4, <1>5, <1>6, <1>7, <1>8, <1>9

\* then in the checksums file: the three agree again.
LEMMA FlushChecksumsInv ==
  ASSUME IInv, FlushChecksums
  PROVE  IInv'
<1> USE DEF IInv, FilesInv, FlushChecksums, ChecksumsOf, Goto, session
<1>1. TypeOK'
  BY DEF TypeOK, Checkpoint, Checksums, Jobs, Manifest, NoBatch, PCs, Statuses
<1>2. MemInv'
  BY DEF MemInv, EntriesFit, Full, RotExact, Intact
<1>3. CkptInv'
  BY DEF TypeOK, CkptInv, ControlInv, Checkpoint, Checksums, Jobs, Manifest,
     NoBatch, PCs, EntriesFit, Full, RotExact, ManifestOf, Synced, Statuses,
     Intact, Committed
<1>4. ShardsFit'
  BY DEF ShardsFit
<1>5. RotFit'
  BY DEF RotFit
<1>6. ChecksumsInv'
  BY DEF TypeOK, MemInv, CkptInv, ChecksumsInv, Checkpoint, Checksums, Jobs,
     Manifest, NoBatch, PCs, EntriesFit, Full, RotExact, Statuses, Intact
<1>7. ControlInv'
  BY DEF TypeOK, ControlInv, Checkpoint, Checksums, Jobs, Manifest, NoBatch,
     PCs, ManifestOf, Synced, Statuses, Committed
<1>8. NoOrphans'
  BY DEF NoOrphans
<1>9. SealInv'
  BY DEF SealInv, Invalid, Sealed, Intact
<1> QED BY <1>1, <1>2, <1>3, <1>4, <1>5, <1>6, <1>7, <1>8, <1>9

\* A batch without a record has no shard, so none is replaced.
LEMMA WriteShardInv ==
  ASSUME NEW b \in Batches, NEW v \in Vectors, IInv, WriteShard(b, v)
  PROVE  IInv'
<1> USE DEF IInv, FilesInv, WriteShard, MayWrite, session, FirstMissing,
   Missing
<1>1. TypeOK'
  BY DEF TypeOK, Checkpoint, Checksums, Jobs, Manifest, NoBatch, PCs, Statuses
<1>2. MemInv'
  BY DEF MemInv, EntriesFit, Full, RotExact, Intact
<1>3. CkptInv'
  BY DEF TypeOK, CkptInv, ControlInv, Checkpoint, Checksums, Jobs, Manifest,
     NoBatch, PCs, EntriesFit, Full, RotExact, ManifestOf, Synced, Statuses,
     Intact, Committed, ChecksumsOf
<1>4. ShardsFit'
  BY DEF TypeOK, ShardsFit, ControlInv, Checkpoint, Checksums, Jobs, Manifest,
     NoBatch, PCs, ManifestOf, Synced, Statuses, Committed, ChecksumsOf
<1>5. RotFit'
  BY DEF RotFit
<1>6. ChecksumsInv'
  BY DEF TypeOK, ChecksumsInv, ControlInv, Checkpoint, Checksums, Jobs,
     Manifest, NoBatch, PCs, ManifestOf, Synced, Statuses, Committed,
     ChecksumsOf
<1>7. ControlInv'
  BY DEF TypeOK, ControlInv, Checkpoint, Checksums, Jobs, Manifest, NoBatch,
     PCs, ManifestOf, Synced, Statuses, Committed, ChecksumsOf
<1>8. NoOrphans'
  BY DEF NoOrphans
<1>9. SealInv'
  BY DEF SealInv, Invalid, Sealed, Intact
<1> QED BY <1>1, <1>2, <1>3, <1>4, <1>5, <1>6, <1>7, <1>8, <1>9

\* Sidecar and entry describe the shard just published.
LEMMA WriteSidecarInv ==
  ASSUME IInv, WriteSidecar
  PROVE  IInv'
<1> USE DEF IInv, FilesInv, WriteSidecar, NoBatch, session
<1>1. TypeOK'
  BY WithEntryType DEF TypeOK, ControlInv, Checksums, Jobs, Manifest, PCs,
     ManifestOf, Synced, Committed, ChecksumsOf
<1>2. MemInv'
  BY DEF TypeOK, MemInv, ControlInv, Checkpoint, Checksums, Jobs, Manifest,
     PCs, EntriesFit, Full, RotExact, ManifestOf, Synced, WithEntry, Statuses,
     Intact, Committed, ChecksumsOf
<1>3. CkptInv'
  BY DEF TypeOK, CkptInv, ControlInv, Checkpoint, Checksums, Jobs, Manifest,
     PCs, EntriesFit, Full, RotExact, ManifestOf, Synced, WithEntry, Statuses,
     Intact, Committed, ChecksumsOf
<1>4. ShardsFit'
  BY DEF ShardsFit, WithEntry
<1>5. RotFit'
  BY DEF TypeOK, RotFit, ControlInv, Checkpoint, Checksums, Jobs, Manifest,
     PCs, ManifestOf, Synced, WithEntry, Statuses, Committed, ChecksumsOf
<1>6. ChecksumsInv'
  BY DEF TypeOK, ChecksumsInv, ControlInv, Checkpoint, Checksums, Jobs,
     Manifest, PCs, ManifestOf, Synced, WithEntry, Statuses, Committed,
     ChecksumsOf
<1>7. ControlInv'
  BY DEF ControlInv, ManifestOf, Synced, WithEntry, Committed, ChecksumsOf
<1>8. NoOrphans'
  BY DEF TypeOK, NoOrphans, ControlInv, Checkpoint, Checksums, Jobs, Manifest,
     PCs, ManifestOf, Synced, WithEntry, Statuses, Committed, ChecksumsOf
<1>9. SealInv'
  BY DEF TypeOK, MemInv, CkptInv, SealInv, ControlInv, Checkpoint, Checksums,
     Jobs, Manifest, PCs, EntriesFit, Full, RotExact, Invalid, Sealed,
     ManifestOf, Synced, WithEntry, Statuses, Intact, Committed, ChecksumsOf
<1> QED BY <1>1, <1>2, <1>3, <1>4, <1>5, <1>6, <1>7, <1>8, <1>9

\* A batch without rows is recorded without a file.
LEMMA WriteEmptyInv ==
  ASSUME NEW b \in Batches, IInv, WriteEmpty(b)
  PROVE  IInv'
<1> USE DEF IInv, FilesInv, WriteEmpty, BeginFlush, MayWrite, disk, session,
   FirstMissing, Missing
<1>1. TypeOK'
  BY WithEntryType DEF TypeOK, Checksums, Jobs, Manifest, NoBatch, PCs
<1>2. MemInv'
  BY DEF MemInv, EntriesFit, Full, RotExact, WithEntry, Intact
<1>3. CkptInv'
  BY DEF CkptInv, EntriesFit, Full, RotExact, WithEntry, Intact
<1>4. ShardsFit'
  BY DEF ShardsFit, WithEntry
<1>5. RotFit'
  BY DEF RotFit, WithEntry
<1>6. ChecksumsInv'
  BY DEF ChecksumsInv, WithEntry
<1>7. ControlInv'
  BY DEF ControlInv, ManifestOf, Synced, WithEntry, Committed, ChecksumsOf
<1>8. NoOrphans'
  BY DEF NoOrphans, WithEntry
<1>9. SealInv'
  BY DEF SealInv, Invalid, Sealed, WithEntry, Intact
<1> QED BY <1>1, <1>2, <1>3, <1>4, <1>5, <1>6, <1>7, <1>8, <1>9

\* A rotten committed batch stops the job without touching a file.
LEMMA ReplayFailsInv ==
  ASSUME IInv, ReplayFails
  PROVE  IInv'
<1> USE DEF IInv, FilesInv, ReplayFails, Goto, Invalid, Replayed, disk,
   session, Intact, Reached, Missing
<1>1. FilesInv'
  BY FilesUnchanged
<1>2. TypeOK'
  BY DEF TypeOK, Checkpoint, Checksums, Jobs, Manifest, NoBatch, PCs, Statuses
<1>3. ControlInv'
  BY DEF ControlInv, ManifestOf, Synced, Committed, ChecksumsOf
<1>4. NoOrphans'
  BY DEF NoOrphans
<1>5. SealInv'
  BY DEF SealInv, Sealed
<1> QED BY <1>1, <1>2, <1>3, <1>4, <1>5

\* A lane ends with all it did on disk.
LEMMA LaneEndsInv ==
  ASSUME IInv, LaneEnds
  PROVE  IInv'
<1> USE DEF IInv, FilesInv, LaneEnds, Goto, Invalid, Reached, disk, session,
   Intact, Missing
<1>1. FilesInv'
  BY FilesUnchanged
<1>2. TypeOK'
  BY DEF TypeOK, Checkpoint, Checksums, Jobs, Manifest, NoBatch, PCs, Statuses
<1>3. ControlInv'
  BY DEF ControlInv, ManifestOf, Synced, Committed, ChecksumsOf
<1>4. NoOrphans'
  BY DEF NoOrphans
<1>5. SealInv'
  BY DEF SealInv, Sealed
<1> QED BY <1>1, <1>2, <1>3, <1>4, <1>5

\* The coverage check writes nothing of its own.
LEMMA VerifyEndsInv ==
  ASSUME IInv, VerifyEnds
  PROVE  IInv'
<1> USE DEF IInv, FilesInv, VerifyEnds, Goto, Invalid, Missing, disk, session,
   Intact
<1>1. FilesInv'
  BY FilesUnchanged
<1>2. TypeOK'
  BY DEF TypeOK, Checkpoint, Checksums, Jobs, Manifest, NoBatch, PCs, Statuses
<1>3. ControlInv'
  BY DEF ControlInv, ManifestOf, Synced, Committed, ChecksumsOf
<1>4. NoOrphans'
  BY DEF NoOrphans
<1>5. SealInv'
  BY DEF SealInv, Sealed
<1> QED BY <1>1, <1>2, <1>3, <1>4, <1>5

\* A sealed modality is reused as it is.
LEMMA ReuseCompletedInv ==
  ASSUME IInv, ReuseCompleted
  PROVE  IInv'
<1> USE DEF IInv, FilesInv, ReuseCompleted, Goto, disk, session
<1>1. FilesInv'
  BY FilesUnchanged
<1>2. TypeOK'
  BY DEF TypeOK, Checkpoint, Checksums, Jobs, Manifest, NoBatch, PCs, Statuses
<1>3. ControlInv'
  BY DEF ControlInv, ManifestOf, Synced, Committed, ChecksumsOf
<1>4. NoOrphans'
  BY DEF NoOrphans
<1>5. SealInv'
  BY DEF SealInv, Invalid, Sealed, Intact
<1> QED BY <1>1, <1>2, <1>3, <1>4, <1>5

\* Sealing requires every batch recorded and valid.
LEMMA CompleteInv ==
  ASSUME IInv, Complete
  PROVE  IInv'
<1> USE DEF IInv, FilesInv, Complete, AllValid, BeginFlush, ExpectedRows,
   Missing, disk, session, Committed, Invalid, Intact
<1>1. TypeOK'
  BY DEF TypeOK, Checkpoint, Checksums, Jobs, Manifest, NoBatch, PCs, Statuses
<1>2. MemInv'
  BY DEF TypeOK, MemInv, CkptInv, ControlInv, Checkpoint, Checksums, Jobs,
     Manifest, NoBatch, PCs, EntriesFit, Full, RotExact, ManifestOf, Synced,
     Statuses, ChecksumsOf
<1>3. CkptInv'
  BY DEF CkptInv, EntriesFit, Full, RotExact
<1>4. ShardsFit'
  BY DEF ShardsFit
<1>5. RotFit'
  BY DEF RotFit
<1>6. ChecksumsInv'
  BY DEF ChecksumsInv
<1>7. ControlInv'
  BY DEF ControlInv, ManifestOf, Synced, ChecksumsOf
<1>8. NoOrphans'
  BY DEF NoOrphans
<1>9. SealInv'
  BY DEF SealInv, Sealed
<1> QED BY <1>1, <1>2, <1>3, <1>4, <1>5, <1>6, <1>7, <1>8, <1>9

\* A refused sealing changes no file.
LEMMA CompleteFailsInv ==
  ASSUME IInv, CompleteFails
  PROVE  IInv'
<1> USE DEF IInv, FilesInv, CompleteFails, AllValid, ExpectedRows, Goto,
   Missing, disk, session, Committed, Invalid, Intact
<1>1. FilesInv'
  BY FilesUnchanged
<1>2. TypeOK'
  BY DEF TypeOK, Checkpoint, Checksums, Jobs, Manifest, NoBatch, PCs, Statuses
<1>3. ControlInv'
  BY DEF ControlInv, ManifestOf, Synced, ChecksumsOf
<1>4. NoOrphans'
  BY DEF NoOrphans
<1>5. SealInv'
  BY DEF SealInv, Sealed
<1> QED BY <1>1, <1>2, <1>3, <1>4, <1>5

\* The process forgets its memory, the files stay.
LEMMA ExitInv ==
  ASSUME IInv, Exit
  PROVE  IInv'
<1> USE DEF IInv, FilesInv, Exit, Down, disk, NoBatch
<1>1. TypeOK'
  BY NewCheckpointType DEF TypeOK, Checksums, Jobs, Manifest, PCs
<1>2. MemInv'
  BY DEF MemInv, EntriesFit, Full, RotExact, Intact, NewCheckpoint
<1>3. CkptInv'
  BY DEF CkptInv, EntriesFit, Full, RotExact, Intact, NewCheckpoint
<1>4. ShardsFit'
  BY DEF ShardsFit, NewCheckpoint
<1>5. RotFit'
  BY DEF RotFit, NewCheckpoint
<1>6. ChecksumsInv'
  BY DEF ChecksumsInv, NewCheckpoint
<1>7. ControlInv'
  BY DEF ControlInv, ManifestOf, Synced, Committed, ChecksumsOf, NewCheckpoint
<1>8. NoOrphans'
  BY DEF NoOrphans, NewCheckpoint
<1>9. SealInv'
  BY DEF SealInv, Invalid, Sealed, Intact, NewCheckpoint
<1> QED BY <1>1, <1>2, <1>3, <1>4, <1>5, <1>6, <1>7, <1>8, <1>9

\* A crash at any step loses no more than an exit.
LEMMA CrashInv ==
  ASSUME IInv, Crash
  PROVE  IInv'
<1> USE DEF IInv, FilesInv, Crash, Down, disk, NoBatch
<1>1. TypeOK'
  BY NewCheckpointType DEF TypeOK, Checksums, Jobs, Manifest, PCs
<1>2. MemInv'
  BY DEF MemInv, EntriesFit, Full, RotExact, Intact, NewCheckpoint
<1>3. CkptInv'
  BY DEF CkptInv, EntriesFit, Full, RotExact, Intact, NewCheckpoint
<1>4. ShardsFit'
  BY DEF ShardsFit, NewCheckpoint
<1>5. RotFit'
  BY DEF RotFit, NewCheckpoint
<1>6. ChecksumsInv'
  BY DEF ChecksumsInv, NewCheckpoint
<1>7. ControlInv'
  BY DEF ControlInv, ManifestOf, Synced, Committed, ChecksumsOf, NewCheckpoint
<1>8. NoOrphans'
  BY DEF NoOrphans, NewCheckpoint
<1>9. SealInv'
  BY DEF SealInv, Invalid, Sealed, Intact, NewCheckpoint
<1> QED BY <1>1, <1>2, <1>3, <1>4, <1>5, <1>6, <1>7, <1>8, <1>9

\* A shard that rots is accounted for in rot,
LEMMA RotShardInv ==
  ASSUME NEW b \in Batches, NEW d \in Damages, IInv, RotShard(b, d)
  PROVE  IInv'
<1> USE DEF IInv, FilesInv, RotShard, session
<1>1. TypeOK'
  BY DEF TypeOK, Checkpoint, Checksums, Jobs, Manifest, NoBatch, PCs, Statuses
<1>2. MemInv'
  BY DEF TypeOK, MemInv, Checkpoint, Checksums, Jobs, Manifest, NoBatch, PCs,
     EntriesFit, Full, RotExact, Statuses, Intact
<1>3. CkptInv'
  BY DEF TypeOK, CkptInv, Checkpoint, Checksums, Jobs, Manifest, NoBatch, PCs,
     EntriesFit, Full, RotExact, Statuses, Intact
<1>4. ShardsFit'
  BY DEF TypeOK, ShardsFit, Checkpoint, Checksums, Jobs, Manifest, NoBatch,
     PCs, Statuses
<1>5. RotFit'
  BY DEF TypeOK, ShardsFit, RotFit, Checkpoint, Checksums, Jobs, Manifest,
     NoBatch, PCs, Statuses
<1>6. ChecksumsInv'
  BY DEF ChecksumsInv
<1>7. ControlInv'
  BY DEF ControlInv, ManifestOf, Synced, Committed, ChecksumsOf
<1>8. NoOrphans'
  BY DEF NoOrphans
<1>9. SealInv'
  BY DEF SealInv, Invalid, Sealed, Intact
<1> QED BY <1>1, <1>2, <1>3, <1>4, <1>5, <1>6, <1>7, <1>8, <1>9

\* and so is a sidecar.
LEMMA RotSidecarInv ==
  ASSUME NEW b \in Batches, IInv, RotSidecar(b)
  PROVE  IInv'
<1> USE DEF IInv, FilesInv, RotSidecar, session
<1>1. TypeOK'
  BY DEF TypeOK, Checkpoint, Checksums, Jobs, Manifest, NoBatch, PCs, Statuses
<1>2. MemInv'
  BY DEF TypeOK, MemInv, Checkpoint, Checksums, Jobs, Manifest, NoBatch, PCs,
     EntriesFit, Full, RotExact, Statuses, Intact
<1>3. CkptInv'
  BY DEF TypeOK, CkptInv, Checkpoint, Checksums, Jobs, Manifest, NoBatch, PCs,
     EntriesFit, Full, RotExact, Statuses, Intact
<1>4. ShardsFit'
  BY DEF TypeOK, ShardsFit, Checkpoint, Checksums, Jobs, Manifest, NoBatch,
     PCs, Statuses
<1>5. RotFit'
  BY DEF RotFit
<1>6. ChecksumsInv'
  BY DEF ChecksumsInv
<1>7. ControlInv'
  BY DEF ControlInv, ManifestOf, Synced, Committed, ChecksumsOf
<1>8. NoOrphans'
  BY DEF NoOrphans
<1>9. SealInv'
  BY DEF SealInv, Invalid, Sealed, Intact
<1> QED BY <1>1, <1>2, <1>3, <1>4, <1>5, <1>6, <1>7, <1>8, <1>9

-----------------------------------------------------------------------------
\* A run root that does not exist yet satisfies the inductive invariant.
LEMMA InitInv ==
  ASSUME Init
  PROVE  IInv
<1> USE DEF Init
<1>1. TypeOK
  BY NewCheckpointType DEF TypeOK, NoBatch, PCs, Jobs
<1>2. FilesInv
  BY DEF FilesInv, MemInv, CkptInv, ShardsFit, RotFit, ChecksumsInv, EntriesFit,
         RotExact, Full, NewCheckpoint
<1>3. ControlInv /\ NoOrphans
  BY DEF ControlInv, NoOrphans
<1>4. SealInv
  BY DEF SealInv, Sealed, NewCheckpoint
<1> QED BY <1>1, <1>2, <1>3, <1>4 DEF IInv

\* Stuttering keeps it.
LEMMA StutterInv ==
  ASSUME IInv, UNCHANGED vars
  PROVE  IInv'
<1>1. FilesInv'
  BY FilesUnchanged DEF IInv, vars, disk
<1>2. TypeOK' /\ NoOrphans'
  BY DEF IInv, vars, TypeOK, NoOrphans
<1>3. ControlInv'
  BY DEF IInv, vars, ControlInv, Synced, ManifestOf, ChecksumsOf, Committed
<1>4. SealInv'
  BY DEF IInv, vars, SealInv, Sealed, Invalid, Intact
<1> QED BY <1>1, <1>2, <1>3, <1>4 DEF IInv

\* Every step of a process, of a crash or of the environment keeps it.
LEMMA NextInv ==
  ASSUME IInv, [Next]_vars
  PROVE  IInv'
<1>1. CASE Open
  BY <1>1, OpenExistingInv, OpenRefusedInv, OpenFreshInv DEF Open
<1>2. CASE Step
  <2>1. CASE Load
    BY <2>1, LoadInv
  <2>2. CASE Recover
    BY <2>2, RecoverOrphanInv, QuarantineOrphanInv, QuarantineOrphanSidecarInv,
       RecoverFailsInv, RecoverDoneInv DEF Recover
  <2>3. CASE Check
    BY <2>3, RepairEntryInv, RepairEntrySidecarInv, CheckPassesInv,
       CheckFailsInv DEF Check
  <2>4. CASE Flush
    BY <2>4, FlushCheckpointInv, FlushManifestInv, FlushChecksumsInv DEF Flush
  <2>5. CASE Write
    BY <2>5, WriteShardInv, WriteEmptyInv, WriteSidecarInv, ReplayFailsInv
       DEF Write
  <2>6. CASE Finish
    BY <2>6, LaneEndsInv, VerifyEndsInv, ReuseCompletedInv, CompleteInv,
       CompleteFailsInv, ExitInv DEF Finish
  <2> QED BY <1>2, <2>1, <2>2, <2>3, <2>4, <2>5, <2>6 DEF Step
<1>3. CASE Crash
  BY <1>3, CrashInv
<1>4. CASE Rot
  BY <1>4, RotShardInv, RotSidecarInv DEF Rot
<1>5. CASE UNCHANGED vars
  BY <1>5, StutterInv
<1> QED BY <1>1, <1>2, <1>3, <1>4, <1>5 DEF Next

\* The inductive invariant holds in every reachable state.
LEMMA Inductive == Spec => []IInv
<1>1. Init => IInv
  BY InitInv
<1>2. IInv /\ [Next]_vars => IInv'
  BY NextInv
<1> QED BY <1>1, <1>2, PTL DEF Spec

(***************************************************************************)
(* The state properties.                                                   *)
(***************************************************************************)
\* Every file and every variable of the process has its type, whatever the
\* interleaving of sessions, crashes and rot.
THEOREM TypeCorrect == Spec => []TypeOK
<1>1. IInv => TypeOK
  BY DEF IInv
<1> QED BY <1>1, Inductive, PTL

\* Whatever is recorded in the checkpoint file and did not rot is on disk, for
\* every number of batches and at every point where the process may be killed
\* (write_batch publishes the shard, then the sidecar, then the checkpoint).
THEOREM CheckpointSound == Spec => []CommittedOnDisk
<1>1. IInv => CommittedOnDisk
  BY DEF IInv, FilesInv, CkptInv, RotExact, CommittedOnDisk
<1> QED BY <1>1, Inductive, PTL

\* The checksums file never names a shard that has been replaced, even while
\* it lags behind the checkpoint (_flush_state publishes it last).
THEOREM ChecksumsSound == Spec => []ChecksumsTrue
<1>1. IInv => ChecksumsTrue
  BY DEF IInv, FilesInv, ChecksumsInv, ChecksumsTrue
<1> QED BY <1>1, Inductive, PTL

\* COMPLETED on disk means that no batch is missing (complete, _flush_state).
THEOREM SealSound == Spec => []SealedIsComplete
<1>1. IInv => SealedIsComplete
  <2> SUFFICES ASSUME IInv PROVE SealedIsComplete
    OBVIOUS
  <2> USE DEF IInv, FilesInv
  <2>1. ASSUME Sealed PROVE Committed(ckpt) = Batches /\ ckpt.counted = Batches
    BY <2>1 DEF Sealed, CkptInv, Full, Committed
  <2> QED BY <2>1 DEF SealInv, SealedIsComplete
<1> QED BY <1>1, Inductive, PTL

\* A single writer never meets the refusals of write_batch: opening leaves no
\* shard on disk that its checkpoint does not name.
THEOREM NoConflict == Spec => []NoClaimConflict
<1>1. IInv => NoClaimConflict
  <2> SUFFICES ASSUME IInv PROVE NoClaimConflict
    OBVIOUS
  <2> USE DEF IInv, FilesInv
  <2>1. ASSUME pc = "recover", NEW b \in Orphans PROVE mem.entry[b] = "none"
    <3>1. mem.entry[b] \in {"none", "empty"} /\ shard[b] # "none" /\ b \in Batches
      BY DEF Orphans, TypeOK, Checkpoint
    <3> QED BY <3>1 DEF MemInv, EntriesFit, ShardsFit
  <2>2. ASSUME pc = "ready", NEW b \in Batches, mem.entry[b] = "none"
        PROVE  shard[b] = "none" /\ mem.status = "IN_PROGRESS"
    <3>1. shard[b] = "none"
      BY <2>2 DEF NoOrphans
    <3>2. mem.status = "IN_PROGRESS"
      BY <2>2 DEF MemInv, Full, TypeOK, Checkpoint, Statuses
    <3> QED BY <3>1, <3>2
  <2> QED BY <2>1, <2>2 DEF NoClaimConflict
<1> QED BY <1>1, Inductive, PTL

\* What the sealing job hands to pooling is complete and consistent.
THEOREM HandOverSound == Spec => []HandOver
<1>1. IInv => HandOver
  <2> SUFFICES ASSUME IInv, pc = "done", job = "pipeline"
               PROVE  /\ Sealed
                      /\ manifest = ManifestOf(ckpt)
                      /\ checksums = ChecksumsOf(ckpt)
                      /\ \A b \in Batches \ EmptyBatches : checksums[b] \in Vectors
    BY DEF HandOver
  <2> USE DEF IInv, FilesInv
  <2>1. /\ ckpt = mem /\ manifest = ManifestOf(mem)
        /\ checksums = ChecksumsOf(mem) /\ mem.status = "COMPLETED"
    BY DEF ControlInv, Synced
  <2>2. Sealed
    BY <2>1 DEF Sealed, TypeOK
  <2>3. ASSUME NEW b \in Batches \ EmptyBatches PROVE checksums[b] \in Vectors
    BY <2>1 DEF MemInv, Full, EntriesFit, TypeOK, Checkpoint, ChecksumsOf
  <2> QED BY <2>1, <2>2, <2>3
<1> QED BY <1>1, Inductive, PTL

(***************************************************************************)
(* The action properties and the refinement.  Only six steps change a      *)
(* shard, the history of rot or the seal.                                  *)
(***************************************************************************)
Touches == \/ \E b \in Batches : RecoverOrphan(b) \/ QuarantineOrphan(b) \/ RepairEntry(b)
           \/ \E b \in Batches, v \in Vectors : WriteShard(b, v)
           \/ FlushCheckpoint \/ WriteSidecar \/ Rot

\* Every other step leaves the shards, the rot and the checkpoint file alone.
LEMMA Untouched ==
  ASSUME [Next]_vars, ~Touches
  PROVE  UNCHANGED <<shard, rot, ckpt>>
<1> USE DEF Touches, disk, session
<1>1. CASE Open
  BY <1>1 DEF Open, OpenExisting, OpenRefused, OpenFresh
<1>2. CASE Step
  <2>1. CASE Load
    BY <2>1 DEF Load
  <2>2. CASE Recover
    BY <2>2 DEF Recover, QuarantineOrphanSidecar, RecoverFails, RecoverDone
  <2>3. CASE Check
    BY <2>3 DEF Check, RepairEntrySidecar, CheckPasses, CheckFails
  <2>4. CASE Flush
    BY <2>4 DEF Flush, FlushManifest, FlushChecksums
  <2>5. CASE Write
    BY <2>5 DEF Write, WriteEmpty, ReplayFails
  <2>6. CASE Finish
    BY <2>6 DEF Finish, LaneEnds, VerifyEnds, ReuseCompleted, Complete,
                CompleteFails, Exit
  <2> QED BY <1>2, <2>1, <2>2, <2>3, <2>4, <2>5, <2>6 DEF Step
<1>3. CASE Crash
  BY <1>3 DEF Crash
<1>4. CASE Rot
  BY <1>4
<1>5. CASE UNCHANGED vars
  BY <1>5 DEF vars
<1> QED BY <1>1, <1>2, <1>3, <1>4, <1>5 DEF Next

\* What an intact shard goes through in one step.
Immutable(b) == shard[b] \in Vectors /\ b \notin rot' => shard'[b] = shard[b]

\* A readable shard whose files did not rot keeps its bytes and its place in
\* every step: recovery, repair, quarantine and rewriting touch only others.
THEOREM IntactImmutable == Spec => IntactShardsImmutable
<1>1. ASSUME IInv, [Next]_vars, NEW x \in Batches PROVE Immutable(x)
  <2> USE DEF Immutable
  <2>1. ASSUME NEW b \in Batches, RecoverOrphan(b) PROVE Immutable(x)
    BY <2>1 DEF RecoverOrphan
  <2>2. ASSUME NEW b \in Batches, QuarantineOrphan(b) PROVE Immutable(x)
    BY <1>1, <2>2, VectorsAssumption DEF QuarantineOrphan, IInv, TypeOK
  <2>3. ASSUME NEW b \in Batches, RepairEntry(b) PROVE Immutable(x)
    <3>1. b \in rot
      BY <1>1, <2>3 DEF RepairEntry, Invalid, IInv, FilesInv, MemInv, RotExact
    <3> QED BY <1>1, <2>3, <3>1 DEF RepairEntry, IInv, TypeOK
  <2>4. ASSUME NEW b \in Batches, NEW v \in Vectors, WriteShard(b, v)
        PROVE  Immutable(x)
    BY <1>1, <2>4, VectorsAssumption DEF WriteShard, IInv, TypeOK
  <2>5. CASE FlushCheckpoint \/ WriteSidecar
    BY <2>5 DEF FlushCheckpoint, WriteSidecar
  <2>6. CASE Rot
    <3>1. ASSUME NEW b \in Batches, NEW d \in Damages, RotShard(b, d)
          PROVE  Immutable(x)
      BY <1>1, <3>1 DEF RotShard, IInv, TypeOK
    <3>2. ASSUME NEW b \in Batches, RotSidecar(b) PROVE Immutable(x)
      BY <3>2 DEF RotSidecar
    <3> QED BY <2>6, <3>1, <3>2 DEF Rot
  <2>7. CASE ~Touches
    BY <1>1, <2>7, Untouched
  <2> QED BY <2>1, <2>2, <2>3, <2>4, <2>5, <2>6, <2>7 DEF Touches
<1>2. IInv /\ [Next]_vars =>
        [\A b \in Batches :
           shard[b] \in Vectors /\ b \notin rot' => shard'[b] = shard[b]]_vars
  BY <1>1 DEF Immutable
<1> QED BY <1>2, Inductive, PTL DEF Spec, IntactShardsImmutable

\* Once COMPLETED is in the checkpoint file, whatever later sessions find on
\* disk and try to repair, that file never changes again.
THEOREM SealFrozen == Spec => SealedIsFrozen
<1>1. ASSUME IInv, [Next]_vars, Sealed PROVE ckpt' = ckpt
  <2>1. CASE FlushCheckpoint
    BY <1>1, <2>1 DEF FlushCheckpoint, IInv, SealInv
  <2>2. CASE ~FlushCheckpoint /\ Touches
    BY <2>2 DEF Touches, RecoverOrphan, QuarantineOrphan, RepairEntry, WriteShard,
                WriteSidecar, Rot, RotShard, RotSidecar
  <2> QED BY <1>1, <2>1, <2>2, Untouched
<1>2. IInv /\ [Next]_vars => [Sealed => ckpt' = ckpt]_vars
  BY <1>1
<1> QED BY <1>2, Inductive, PTL DEF Spec, SealedIsFrozen

(***************************************************************************)
(* EmbeddingWriter implements BatchLedger: under the mapping Ledger, every *)
(* step of the writer is a step of the ledger or changes nothing there.    *)
(***************************************************************************)
\* What the ledger sees of a step.
LedgerStep == Ledger!Next \/ UNCHANGED <<LedgerValue, rot, Sealed>>

\* Damage, loss and change of one shard are changes of one ledger value.
LEMMA ValueExcept ==
  ASSUME TypeOK, NEW b \in LedgerItems, NEW e,
         shard' = [shard EXCEPT ![b] = e]
  PROVE  LedgerValue' = [LedgerValue EXCEPT ![b] = IF e \in Vectors THEN e ELSE "none"]
<1>1. ASSUME NEW x \in LedgerItems
      PROVE  shard'[x] = IF x = b THEN e ELSE shard[x]
  BY <1>1 DEF TypeOK, LedgerItems
<1> QED BY <1>1 DEF LedgerValue

\* Outside the batches with rows nothing is ever seen.
LEMMA ItemsHaveRows ==
  ASSUME IInv, NEW b \in Batches, shard[b] # "none" \/ sidecar[b] # "none"
  PROVE  b \in LedgerItems
  BY DEF IInv, FilesInv, ShardsFit, RotFit, LedgerItems

\* The ledger is not sealed while memory lacks an entry or says IN_PROGRESS.
LEMMA NotSealed ==
  ASSUME IInv, pc \in {"recover", "check", "ready", "sidecar"},
         \/ mem.status = "IN_PROGRESS"
         \/ \E b \in Batches : mem.entry[b] = "none"
  PROVE  ~Sealed
<1>1. Sealed => mem = ckpt
  BY DEF IInv, SealInv
<1> QED BY <1>1 DEF IInv, FilesInv, CkptInv, Full, Sealed

\* Adopting an orphan shard makes good the damage its batch had suffered.
LEMMA RecoverOrphanRefines ==
  ASSUME NEW b \in Batches, IInv, RecoverOrphan(b)
  PROVE  LedgerStep
<1> USE DEF RecoverOrphan
<1>1. b \in LedgerItems
  BY ItemsHaveRows DEF Orphans
<1>2. ~Sealed /\ Sealed' = Sealed
  BY NotSealed DEF Sealed
<1>3. LedgerValue' = LedgerValue /\ LedgerValue[b] # "none"
  BY <1>1, VectorsAssumption DEF LedgerValue
<1>4. CASE b \in rot
  BY <1>1, <1>2, <1>3, <1>4 DEF LedgerStep, Ledger!Next, Ledger!Restore
<1>5. CASE b \notin rot
  BY <1>2, <1>3, <1>5 DEF LedgerStep
<1> QED BY <1>4, <1>5

\* A quarantined orphan was unreadable already.
LEMMA QuarantineOrphanRefines ==
  ASSUME NEW b \in Batches, IInv, QuarantineOrphan(b)
  PROVE  LedgerStep
<1> USE DEF QuarantineOrphan
<1>1. b \in LedgerItems
  BY ItemsHaveRows DEF Orphans
<1>2. LedgerValue' = [LedgerValue EXCEPT ![b] = "none"]
  BY <1>1, ValueExcept, VectorsAssumption DEF IInv
<1>3. LedgerValue[b] = "none"
  BY <1>1, VectorsAssumption DEF LedgerValue
<1> QED BY <1>1, <1>2, <1>3 DEF LedgerStep, Sealed, LedgerValue

\* Repair takes a recorded shard away only to give up a damaged value.
LEMMA RepairEntryRefines ==
  ASSUME NEW b \in Batches, IInv, RepairEntry(b)
  PROVE  LedgerStep
<1> USE DEF RepairEntry
<1>1. b \in rot /\ b \in LedgerItems
  BY DEF Invalid, IInv, FilesInv, MemInv, RotExact, EntriesFit, LedgerItems
<1>2. LedgerValue' = [LedgerValue EXCEPT ![b] = "none"]
  BY <1>1, ValueExcept, VectorsAssumption DEF IInv
<1>3. ~Sealed /\ Sealed' = Sealed
  BY NotSealed DEF Repairing, Sealed
<1> QED BY <1>1, <1>2, <1>3 DEF LedgerStep, Ledger!Next, Ledger!Discard

\* A written shard is a value the ledger did not have.
LEMMA WriteShardRefines ==
  ASSUME NEW b \in Batches, NEW v \in Vectors, IInv, WriteShard(b, v)
  PROVE  LedgerStep
<1> USE DEF WriteShard, MayWrite
<1>1. b \in LedgerItems
  BY DEF LedgerItems
<1>2. LedgerValue' = [LedgerValue EXCEPT ![b] = v]
  BY <1>1, ValueExcept DEF IInv
<1>3. LedgerValue[b] = "none"
  BY <1>1, VectorsAssumption DEF LedgerValue
<1>4. ~Sealed /\ Sealed' = Sealed
  BY NotSealed DEF Sealed
<1> QED BY <1>1, <1>2, <1>3, <1>4 DEF LedgerStep, Ledger!Next, Ledger!Commit

\* Its sidecar makes good what its batch had suffered before.
LEMMA WriteSidecarRefines ==
  ASSUME IInv, WriteSidecar
  PROVE  LedgerStep
<1> USE DEF WriteSidecar
<1>1. target \in LedgerItems /\ mem.entry[target] = "none" /\ shard[target] \in Vectors
  BY DEF IInv, ControlInv, LedgerItems
<1>2. ~Sealed /\ Sealed' = Sealed
  BY <1>1, NotSealed DEF Sealed, LedgerItems
<1>3. LedgerValue' = LedgerValue /\ LedgerValue[target] # "none"
  BY <1>1, VectorsAssumption DEF LedgerValue
<1>4. CASE target \in rot
  BY <1>1, <1>2, <1>3, <1>4 DEF LedgerStep, Ledger!Next, Ledger!Restore
<1>5. CASE target \notin rot
  BY <1>2, <1>3, <1>5 DEF LedgerStep
<1> QED BY <1>4, <1>5

\* The checkpoint that says COMPLETED is published with every value present
\* and none damaged.
LEMMA FlushCheckpointRefines ==
  ASSUME IInv, FlushCheckpoint
  PROVE  LedgerStep
<1> USE DEF FlushCheckpoint
<1>1. LedgerValue' = LedgerValue /\ rot' = rot
  BY DEF LedgerValue, session
<1>2. CASE Sealed
  BY <1>1, <1>2 DEF IInv, SealInv, LedgerStep, Sealed
<1>3. CASE ~Sealed /\ mem.status # "COMPLETED"
  BY <1>1, <1>3 DEF LedgerStep, Sealed
<1>4. CASE ~Sealed /\ mem.status = "COMPLETED"
  <2>1. Invalid = {} /\ \A b \in Batches : mem.entry[b] # "none"
    BY <1>4 DEF IInv, SealInv, FilesInv, MemInv, Full
  <2>2. ASSUME NEW b \in LedgerItems PROVE mem.entry[b] \in Vectors
    BY <2>1 DEF LedgerItems, IInv, TypeOK, Checkpoint, FilesInv, MemInv, EntriesFit
  <2>3. ASSUME NEW b \in LedgerItems PROVE b \notin rot /\ shard[b] \in Vectors
    BY <2>1, <2>2 DEF LedgerItems, Invalid, Intact, IInv, FilesInv, MemInv, RotExact
  <2>4. rot = {}
    BY <2>3 DEF IInv, TypeOK, FilesInv, RotFit, LedgerItems
  <2>5. \A i \in LedgerItems : LedgerValue[i] # "none"
    BY <2>3, VectorsAssumption DEF LedgerValue
  <2>6. Sealed'
    BY <1>4, NoFileAssumption DEF Sealed, IInv, TypeOK
  <2> QED BY <1>1, <1>4, <2>4, <2>5, <2>6 DEF LedgerStep, Ledger!Next, Ledger!Seal
<1> QED BY <1>2, <1>3, <1>4

\* Rot is damage, which may leave the value readable.
LEMMA RotRefines ==
  ASSUME IInv, Rot
  PROVE  LedgerStep
<1>1. ASSUME NEW b \in Batches, NEW d \in Damages, RotShard(b, d) PROVE LedgerStep
  <2> USE DEF RotShard
  <2>1. b \in LedgerItems
    BY <1>1, ItemsHaveRows, VectorsAssumption
  <2>2. LedgerValue' = [LedgerValue EXCEPT ![b] = "none"]
    BY <1>1, <2>1, ValueExcept, VectorsAssumption, DamageAssumption DEF IInv
  <2>3. rot' = rot \cup {b} /\ Sealed' = Sealed
    BY <1>1 DEF Sealed
  <2> QED BY <2>1, <2>2, <2>3 DEF LedgerStep, Ledger!Next, Ledger!Damage
<1>2. ASSUME NEW b \in Batches, RotSidecar(b) PROVE LedgerStep
  <2> USE DEF RotSidecar
  <2>1. b \in LedgerItems
    BY <1>2, ItemsHaveRows, VectorsAssumption
  <2>2. LedgerValue' = LedgerValue /\ rot' = rot \cup {b} /\ Sealed' = Sealed
    BY <1>2 DEF LedgerValue, Sealed
  <2> QED BY <2>1, <2>2 DEF LedgerStep, Ledger!Next, Ledger!Damage
<1> QED BY <1>1, <1>2 DEF Rot

\* No history of sessions, crashes, recoveries and repairs shows the ledger
\* anything but commits, damage, discards and restores of single batches, and
\* one seal of a complete and undamaged modality.
THEOREM WriterImplementsLedger == Spec => ImplementsLedger
<1>1. Init => Ledger!Init
  BY VectorsAssumption DEF Init, Ledger!Init, LedgerValue, Sealed, LedgerItems
<1>2. ASSUME IInv, [Next]_vars PROVE [Ledger!Next]_Ledger!ledger
  <2>1. CASE Touches
    BY <1>2, <2>1, RecoverOrphanRefines, QuarantineOrphanRefines,
       RepairEntryRefines, WriteShardRefines, WriteSidecarRefines,
       FlushCheckpointRefines, RotRefines DEF Touches, LedgerStep, Ledger!ledger
  <2>2. CASE ~Touches
    BY <1>2, <2>2, Untouched DEF LedgerValue, Sealed, Ledger!ledger
  <2> QED BY <2>1, <2>2
<1> QED BY <1>1, <1>2, Inductive, PTL DEF Spec, ImplementsLedger, Ledger!Spec
=============================================================================
