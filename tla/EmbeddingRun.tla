---------------------------- MODULE EmbeddingRun ----------------------------
(***************************************************************************)
(* One embedding run root under the pilot job (run_pilot_embedding.main):  *)
(* assessment of what an earlier session left and its removal              *)
(* (run_recovery), the sealing of both modalities and their pooling        *)
(* (pipeline.run_embedding_pipeline, pooling.StreamingEmbeddingPooler),    *)
(* and the export of the package (pilot, export).  Sessions follow each    *)
(* other with any configuration and flags, and may be killed between any   *)
(* two publications.                                                       *)
(*                                                                         *)
(* The writer of a modality is the one of EmbeddingWriter without damage   *)
(* at rest; here it matters which files its crashes leave to the others.   *)
(* The text and the vectors of a batch are one value of Contents: encoding *)
(* is deterministic.  Compatibility hashes agree in all sessions           *)
(* (max_node_rows, max_event_rows and sampling are no part of them), as do *)
(* the pooling specifications.  Logs, reports and all_checksums.json are   *)
(* read by no step and are left out, but for the existence of reports/.    *)
(***************************************************************************)
EXTENDS Naturals, FiniteSets

CONSTANTS
  NBatches,        \* batches of a modality in the longest selection
  Contents,        \* what a batch may hold
  Configs,         \* configurations an operator may start a session with
  Selection,       \* content of each batch under each configuration
  RemovedFirst     \* directories a killed shutil.rmtree may have removed

Batches == 0 .. (NBatches - 1)
Modalities == {"node", "event"}
Dirs == {"unit_embeddings", "checkpoints", "manifests", "checksums",
         "pooling", "deltas", "pooled", "reports", "final"}
Slots == [Batches -> Contents \cup {"none"}]

ASSUME RemovedFirstAssumption == RemovedFirst \subseteq Dirs
ASSUME BatchesAssumption == NBatches \in Nat \ {0}
ASSUME ContentsAssumption == "none" \notin Contents
ASSUME SelectionAssumption ==
  /\ Configs # {} /\ "none" \notin Configs
  /\ Selection \in [Configs -> Slots]

VARIABLES
  disk,      \* the run root: for each directory of Dirs what is in it
  package,   \* the exported package: "none", "partial" or "complete"
  pc,
  modality,  \* the modality being written or pooled
  then,      \* where the writer's flush returns to
  mem,       \* the writer's or the pooler's checkpoint in memory
  config,    \* this session's configuration
  resume, replace, export,  \* and its flags
  assessed   \* how this session classified the run root

session == <<config, resume, replace, export>>
vars == <<disk, package, pc, modality, then, mem, config, resume, replace,
          export, assessed>>

(***************************************************************************)
(* The run root.                                                           *)
(***************************************************************************)
NoSlots == [b \in Batches |-> "none"]
NoState == [status |-> "none", entry |-> NoSlots]
NewState == [status |-> "IN_PROGRESS", entry |-> NoSlots]

EmptyRoot ==
  [unit_embeddings |-> [m \in Modalities |-> [made |-> FALSE, shard |-> NoSlots]],
   checkpoints     |-> [m \in Modalities |-> NoState],
   manifests       |-> [m \in Modalities |-> "none"],
   checksums       |-> [m \in Modalities |-> NoSlots],
   pooling         |-> [m \in Modalities |-> NoState],
   deltas          |-> [m \in Modalities |-> NoSlots],  \* in pooling/
   pooled          |-> [made |-> FALSE, arrays |-> [m \in Modalities |-> NoSlots]],
   reports         |-> FALSE,
   final           |-> "none"]  \* configuration of embedding_manifest.json

Filled(f) == {b \in Batches : f[b] # "none"}

Status(m) == IF disk.manifests[m] # "none" THEN disk.manifests[m]
                                           ELSE disk.checkpoints[m].status

Completed == /\ disk.final # "none"
             /\ \A m \in Modalities : Status(m) = "COMPLETED"

\* assess_embedding_run; "absent" and "empty" are treated alike.
Classification ==
  IF Completed THEN "completed"
  ELSE IF \/ disk.final # "none"
          \/ \E m \in Modalities : \/ Filled(disk.unit_embeddings[m].shard) # {}
                                   \/ Status(m) # "none"
          \/ disk.pooled.made \/ disk.reports
       THEN "incomplete"
       ELSE "empty"

(***************************************************************************)
(* Control.                                                                *)
(***************************************************************************)
Down == /\ pc' = "down" /\ modality' = "node" /\ then' = "write"
        /\ mem' = NewState /\ assessed' = "none"
        /\ config' = CHOOSE c \in Configs : TRUE
        /\ resume' = FALSE /\ replace' = FALSE /\ export' = FALSE

Goto(p) == pc' = p /\ UNCHANGED <<package, modality, then, session, assessed>>

Put(dir, m, value) == disk' = [disk EXCEPT ![dir][m] = value]

Init == /\ disk = EmptyRoot /\ package = "none"
        /\ pc = "down" /\ modality = "node" /\ then = "write"
        /\ mem = NewState /\ assessed = "none"
        /\ config = CHOOSE c \in Configs : TRUE
        /\ resume = FALSE /\ replace = FALSE /\ export = FALSE

Start == /\ pc = "down"
         /\ config' \in Configs
         /\ resume' \in BOOLEAN /\ replace' \in BOOLEAN /\ export' \in BOOLEAN
         /\ pc' = "prepare"
         /\ UNCHANGED <<disk, package, modality, then, mem, assessed>>

(***************************************************************************)
(* prepare_embedding_run_root.                                             *)
(***************************************************************************)
\* Mutant of Prepare: --replace-incomplete does not spare a completed run.
PrepareReplacesAny ==
  /\ pc = "prepare"
  /\ assessed' = Classification
  /\ pc' = CASE Classification = "empty" -> "open"
             [] OTHER -> IF replace THEN "remove"
                         ELSE IF resume THEN "open" ELSE "failed"
  /\ UNCHANGED <<disk, package, modality, then, mem, session>>

\* Mutant of Prepare: --resume takes precedence over --replace-incomplete.
PrepareResumesFirst ==
  /\ pc = "prepare"
  /\ assessed' = Classification
  /\ pc' = CASE Classification = "empty" \/ resume -> "open"
             [] Classification = "incomplete" /\ replace /\ ~resume -> "remove"
             [] OTHER -> "failed"
  /\ UNCHANGED <<disk, package, modality, then, mem, session>>

Prepare == /\ pc = "prepare"
           /\ assessed' = Classification
           /\ pc' = CASE Classification = "empty" -> "open"
                      [] Classification = "completed" ->
                           IF resume THEN "open" ELSE "failed"
                      [] OTHER -> IF replace THEN "remove"
                                  ELSE IF resume THEN "open" ELSE "failed"
           /\ UNCHANGED <<disk, package, modality, then, mem, session>>

\* shutil.rmtree: one directory after the other, in the order of the listing.
RemoveOne(d) == /\ pc = "remove"
                /\ disk[d] # EmptyRoot[d]
                /\ disk' = [disk EXCEPT ![d] = EmptyRoot[d]]
                /\ Goto("remove") /\ UNCHANGED mem

RemoveRoot == /\ pc = "remove"
              /\ disk' = EmptyRoot
              /\ Goto("open") /\ UNCHANGED mem

(***************************************************************************)
(* The writer of a modality (EmbeddingWriter; _write_modality).            *)
(***************************************************************************)
UnitsOf(m) == disk.unit_embeddings[m].shard

\* Shards without an entry are adopted, then every entry is validated.
Adopted(c, m) ==
  [c EXCEPT !.entry = [b \in Batches |-> IF c.entry[b] = "none" THEN UnitsOf(m)[b]
                                                                ELSE c.entry[b]]]

OpenRefused == /\ pc = "open"
               /\ disk.manifests[modality] = "none"
               /\ \/ disk.checkpoints[modality] # NoState
                  \/ disk.unit_embeddings[modality].made
               /\ Goto("failed") /\ UNCHANGED <<disk, mem>>

OpenFresh == /\ pc = "open"
             /\ disk.manifests[modality] = "none"
             /\ disk.checkpoints[modality] = NoState
             /\ ~disk.unit_embeddings[modality].made
             /\ Put("unit_embeddings", modality, [made |-> TRUE, shard |-> NoSlots])
             /\ mem' = NewState
             /\ pc' = "flushCheckpoint" /\ then' = "write"
             /\ UNCHANGED <<package, modality, session, assessed>>

OpenExisting ==
  /\ pc = "open" /\ disk.manifests[modality] # "none"
  /\ LET c == disk.checkpoints[modality]
         found == Adopted(IF c = NoState THEN NewState ELSE c, modality)
         valid == found.entry = UnitsOf(modality)
     IN  /\ mem' = IF valid THEN found ELSE mem
         /\ pc' = IF valid THEN "flushCheckpoint" ELSE "failed"
  /\ Put("unit_embeddings", modality, [disk.unit_embeddings[modality] EXCEPT !.made = TRUE])
  /\ then' = "write"
  /\ UNCHANGED <<package, modality, session, assessed>>

FlushCheckpoint == /\ pc = "flushCheckpoint"
                   /\ Put("checkpoints", modality, mem)
                   /\ Goto("flushManifest") /\ UNCHANGED mem

FlushManifest == /\ pc = "flushManifest"
                 /\ Put("manifests", modality, mem.status)
                 /\ Goto("flushChecksums") /\ UNCHANGED mem

FlushChecksums == /\ pc = "flushChecksums"
                  /\ Put("checksums", modality, mem.entry)
                  /\ Goto(then) /\ UNCHANGED mem

Wanted == Selection[config]

\* A completed modality is reused without a look at what is selected now.
ReuseCompleted == /\ pc = "write" /\ mem.status = "COMPLETED"
                  /\ Goto(IF resume THEN "next" ELSE "failed")
                  /\ UNCHANGED <<disk, mem>>

\* Mutant of IsBatchCommitted: the input hash is not compared.
IsBatchPresent(b) == mem.entry[b] # "none" \/ Wanted[b] = "none"

IsBatchCommitted(b) == mem.entry[b] = Wanted[b]

\* The selected batches before b are committed.
ReachedBatch(b) == /\ mem.status = "IN_PROGRESS" /\ Wanted[b] # "none"
                   /\ \A a \in 0 .. (b - 1) : IsBatchCommitted(a)

ReplayFails(b) == /\ pc = "write" /\ ReachedBatch(b)
                  /\ mem.entry[b] # "none" /\ ~IsBatchCommitted(b)
                  /\ Goto("failed") /\ UNCHANGED <<disk, mem>>

WriteShard(b) == /\ pc = "write" /\ ReachedBatch(b) /\ mem.entry[b] = "none"
                 /\ disk' = [disk EXCEPT !.unit_embeddings[modality].shard[b] = Wanted[b]]
                 /\ mem' = [mem EXCEPT !.entry[b] = Wanted[b]]
                 /\ pc' = "flushCheckpoint" /\ then' = "write"
                 /\ UNCHANGED <<package, modality, session, assessed>>

AllWritten == /\ mem.status = "IN_PROGRESS"
              /\ \A b \in Filled(Wanted) : IsBatchCommitted(b)

\* Mutant of Complete: the first modality ends the session.
CompleteEndsSession == /\ pc = "write" /\ AllWritten
                       /\ mem' = [mem EXCEPT !.status = "COMPLETED"]
                       /\ pc' = "flushCheckpoint" /\ then' = "done"
                       /\ UNCHANGED <<disk, package, modality, session, assessed>>

\* complete counts rows: a row too many is a batch too many.
Complete == /\ pc = "write" /\ AllWritten
            /\ Cardinality(Filled(mem.entry)) = Cardinality(Filled(Wanted))
            /\ mem' = [mem EXCEPT !.status = "COMPLETED"]
            /\ pc' = "flushCheckpoint" /\ then' = "next"
            /\ UNCHANGED <<disk, package, modality, session, assessed>>

CompleteFails == /\ pc = "write" /\ AllWritten
                 /\ Cardinality(Filled(mem.entry)) # Cardinality(Filled(Wanted))
                 /\ Goto("failed") /\ UNCHANGED <<disk, mem>>

\* Mutant of NextModality: pooling begins after the first modality.
NextIsPooling == /\ pc \in {"next", "poolNext"}
                 /\ modality' = IF pc = "next" \/ modality = "event" THEN "node"
                                                                    ELSE "event"
                 /\ pc' = IF pc = "poolNext" /\ modality = "event" THEN "publish"
                                                                  ELSE "poolOpen"
                 /\ UNCHANGED <<disk, package, then, mem, session, assessed>>

\* Both modalities are written, then both are pooled.
NextModality == /\ pc \in {"next", "poolNext"}
                /\ modality' = IF modality = "node" THEN "event" ELSE "node"
                /\ pc' = CASE pc = "next" /\ modality = "node" -> "open"
                           [] pc = "poolNext" /\ modality = "event" -> "publish"
                           [] OTHER -> "poolOpen"
                /\ UNCHANGED <<disk, package, then, mem, session, assessed>>

(***************************************************************************)
(* Pooling (StreamingEmbeddingPooler).                                     *)
(***************************************************************************)
Pool == disk.pooling[modality]
Delta == disk.deltas[modality]

Conflicts == {b \in Filled(Delta) :
                Pool.entry[b] \notin {"none", Delta[b]}}

MakeDirs(d) == [d EXCEPT !.pooled.made = TRUE, !.reports = TRUE]

PoolRefused == /\ pc = "poolOpen"
               /\ \/ Pool # NoState /\ (~resume \/ Conflicts # {})
                  \/ Pool = NoState /\ Filled(Delta) # {}
               /\ disk' = MakeDirs(disk)
               /\ Goto("failed") /\ UNCHANGED mem

PoolFresh == /\ pc = "poolOpen"
             /\ Pool = NoState /\ Filled(Delta) = {}
             /\ disk' = MakeDirs(disk)
             /\ mem' = NewState
             /\ Goto("poolSave")

PoolResume == /\ pc = "poolOpen" /\ resume
              /\ Pool # NoState /\ Conflicts = {}
              /\ disk' = MakeDirs(disk)
              /\ mem' = [Pool EXCEPT
                           !.entry = [b \in Batches |-> IF @[b] = "none"
                                                        THEN Delta[b] ELSE @[b]]]
              /\ Goto("poolSave")

PoolSave == /\ pc = "poolSave"
            /\ Put("pooling", modality, mem)
            /\ Goto("delta") /\ UNCHANGED mem

Listed == disk.checksums[modality]

ReachedDelta(b) == /\ Listed[b] # "none"
                   /\ \A a \in 0 .. (b - 1) : Listed[a] \in {"none", mem.entry[a]}

\* A listed shard must be the one on disk, and the one pooled before.
DeltaFails(b) == /\ pc = "delta" /\ ReachedDelta(b)
                 /\ \/ UnitsOf(modality)[b] # Listed[b]
                    \/ mem.entry[b] \notin {"none", Listed[b]}
                 /\ Goto("failed") /\ UNCHANGED <<disk, mem>>

\* Mutant of WriteDelta: the pooling checkpoint is written first.
WriteDeltaLater(b) == /\ pc = "delta" /\ ReachedDelta(b) /\ mem.entry[b] = "none"
                      /\ UnitsOf(modality)[b] = Listed[b]
                      /\ mem' = [mem EXCEPT !.entry[b] = Listed[b]]
                      /\ Goto("poolSave") /\ UNCHANGED disk

WriteDelta(b) == /\ pc = "delta" /\ ReachedDelta(b) /\ mem.entry[b] = "none"
                 /\ UnitsOf(modality)[b] = Listed[b]
                 /\ disk' = [disk EXCEPT !.deltas[modality][b] = Listed[b]]
                 /\ mem' = [mem EXCEPT !.entry[b] = Listed[b]]
                 /\ Goto("poolSave")

\* Mutant of DeltasDone: one delta is taken for all.
AnyDeltaDone == \E b \in Filled(Listed) : mem.entry[b] = Listed[b]

DeltasDone == \A b \in Filled(Listed) : /\ mem.entry[b] = Listed[b]
                                        /\ UnitsOf(modality)[b] = Listed[b]

\* finalize_*: every delta of the pooling checkpoint is merged.
MergeFails == /\ pc = "delta" /\ DeltasDone
              /\ \E b \in Filled(mem.entry) : Delta[b] # mem.entry[b]
              /\ Goto("failed") /\ UNCHANGED <<disk, mem>>

PublishArrays == /\ pc = "delta" /\ DeltasDone
                 /\ \A b \in Filled(mem.entry) : Delta[b] = mem.entry[b]
                 /\ disk' = [disk EXCEPT !.pooled.arrays[modality] = mem.entry]
                 /\ mem' = [mem EXCEPT !.status = "COMPLETED"]
                 /\ Goto("poolSeal")

PoolSeal == /\ pc = "poolSeal"
            /\ Put("pooling", modality, mem)
            /\ Goto("poolNext") /\ UNCHANGED mem

(***************************************************************************)
(* The final manifest, and the pilot's export.                             *)
(***************************************************************************)
PublishFinal == /\ pc = "publish"
                /\ disk' = [disk EXCEPT !.final = config]
                /\ Goto(IF export THEN "export" ELSE "done")
                /\ UNCHANGED mem

ExportRefused == /\ pc = "export" /\ package # "none"
                 /\ Goto("failed") /\ UNCHANGED <<disk, mem>>

ExportBegins == /\ pc = "export" /\ package = "none"
                /\ package' = "partial" /\ pc' = "copy"
                /\ UNCHANGED <<disk, modality, then, mem, session, assessed>>

ExportEnds == /\ pc = "copy"
              /\ package' = "complete" /\ pc' = "done"
              /\ UNCHANGED <<disk, modality, then, mem, session, assessed>>

Exit == pc \in {"done", "failed"} /\ Down /\ UNCHANGED <<disk, package>>

Crash == pc \notin {"down", "done", "failed"} /\ Down /\ UNCHANGED <<disk, package>>

Remove == (\E d \in RemovedFirst : RemoveOne(d)) \/ RemoveRoot

Write == \/ OpenRefused \/ OpenFresh \/ OpenExisting
         \/ FlushCheckpoint \/ FlushManifest \/ FlushChecksums
         \/ ReuseCompleted \/ Complete \/ CompleteFails \/ NextModality
         \/ \E b \in Batches : ReplayFails(b) \/ WriteShard(b)

Pooling == \/ PoolRefused \/ PoolFresh \/ PoolResume \/ PoolSave
           \/ MergeFails \/ PublishArrays \/ PoolSeal
           \/ \E b \in Batches : DeltaFails(b) \/ WriteDelta(b)

Export == PublishFinal \/ ExportRefused \/ ExportBegins \/ ExportEnds

Step == Prepare \/ Remove \/ Write \/ Pooling \/ Export \/ Exit

Next == Start \/ Step \/ Crash

Spec == Init /\ [][Next]_vars

-----------------------------------------------------------------------------
(***************************************************************************)
(* Properties.                                                             *)
(***************************************************************************)
Statuses == {"IN_PROGRESS", "COMPLETED"}
State == [status : Statuses, entry : Slots]

TypeOK ==
  /\ disk.unit_embeddings \in [Modalities -> [made : BOOLEAN, shard : Slots]]
  /\ disk.checkpoints \in [Modalities -> State \cup {NoState}]
  /\ disk.manifests \in [Modalities -> Statuses \cup {"none"}]
  /\ disk.checksums \in [Modalities -> Slots]
  /\ disk.pooling \in [Modalities -> State \cup {NoState}]
  /\ disk.deltas \in [Modalities -> Slots]
  /\ disk.pooled \in [made : BOOLEAN, arrays : [Modalities -> Slots]]
  /\ disk.reports \in BOOLEAN
  /\ disk.final \in Configs \cup {"none"}
  /\ package \in {"none", "partial", "complete"}
  /\ pc \in {"down", "prepare", "remove", "open", "flushCheckpoint",
             "flushManifest", "flushChecksums", "write", "next", "poolOpen",
             "poolSave", "delta", "poolSeal", "poolNext", "publish", "export",
             "copy", "done", "failed"}
  /\ modality \in Modalities
  /\ then \in {"write", "next"}
  /\ mem \in State
  /\ config \in Configs
  /\ <<resume, replace, export>> \in BOOLEAN \X BOOLEAN \X BOOLEAN
  /\ assessed \in {"none", "empty", "incomplete", "completed"}

\* The final manifest is published only over two sealed modalities whose
\* checkpoint, manifest, checksums and shards agree, and no later session,
\* resumed or not, leaves them in disagreement.
FinalIsSealed ==
  disk.final # "none" =>
    \A m \in Modalities :
      /\ disk.manifests[m] = "COMPLETED"
      /\ disk.checkpoints[m] = [status |-> "COMPLETED", entry |-> UnitsOf(m)]
      /\ disk.checksums[m] = UnitsOf(m)

\* Each modality of a completed run holds exactly what one configuration
\* selects, never a mixture, whatever the configurations of the interrupted
\* sessions and wherever they were interrupted.
CompletedIsSelection ==
  Completed => \A m \in Modalities : \E c \in Configs : UnitsOf(m) = Selection[c]

\* The pooled arrays of a completed run are made of its own unit shards, each
\* once ("resume no double-count",
\* src/docs/method/12_interactive_canonical_decision_log.md:208).
PooledFromUnits ==
  Completed => \A m \in Modalities : disk.pooled.arrays[m] = UnitsOf(m)

\* "COMPLETED runs are never deleted": whatever flags a later session has, a
\* completed run keeps its shards, its state files and its completion.
CompletedKept ==
  [][Completed => /\ Completed'
                  /\ UNCHANGED <<disk.unit_embeddings, disk.checkpoints>>]_vars

\* Pooling that was interrupted can always be taken up again: a session that
\* gets to it never finds a state it must refuse, as long as no killed removal
\* took a part of the shards or of pooling/ away (RemovedFirst).
PoolingResumes ==
  [][(pc \in {"poolOpen", "delta"}) => pc' # "failed"]_vars

(***************************************************************************)
(* Liveness.  A session runs until it ends or is killed; the operator of   *)
(* an interrupted run keeps starting it with --replace-incomplete.         *)
(***************************************************************************)
Fairness == WF_vars(Step) /\ SF_vars(Start /\ replace' /\ resume')

FairSpec == Spec /\ Fairness

\* Once sessions are no longer killed, the run does not stay incomplete.
IncompleteIsLeft ==
  <>[][~Crash]_vars => <>[](Classification # "incomplete")
=============================================================================
