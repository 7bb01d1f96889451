------------------------- MODULE EmbeddingRunProofs -------------------------
(***************************************************************************)
(* Proofs about EmbeddingRun: for every number of batches, every set of    *)
(* configurations and every sequence of sessions, flags, kills and         *)
(* half-done removals, a published run is sealed, is the selection of one  *)
(* configuration and is kept; and, as far as a removal takes the shards    *)
(* last, its arrays are made of its shards, and interrupted pooling can    *)
(* be taken up again.                                                      *)
(***************************************************************************)
EXTENDS EmbeddingRun, FiniteSetTheorems, TLAPS

(***************************************************************************)
(* The inductive invariant.                                                *)
(***************************************************************************)
\* The stages of a session: the writer's past its opening, and the pooler's.
Writing == {"flushCheckpoint", "flushManifest", "flushChecksums", "write"}
PoolStages == {"poolOpen", "poolSave", "delta", "poolSeal", "poolNext"}

\* TypeOK in the parts that steps disturb separately, with what EXCEPT needs.
RootShape ==
  disk = [unit_embeddings |-> disk.unit_embeddings, checkpoints |-> disk.checkpoints,
          manifests |-> disk.manifests, checksums |-> disk.checksums,
          pooling |-> disk.pooling, deltas |-> disk.deltas, pooled |-> disk.pooled,
          reports |-> disk.reports, final |-> disk.final]

WriterTypes ==
  /\ disk.unit_embeddings \in [Modalities -> [made : BOOLEAN, shard : Slots]]
  /\ disk.checkpoints \in [Modalities -> State \cup {NoState}]
  /\ disk.manifests \in [Modalities -> Statuses \cup {"none"}]
  /\ disk.checksums \in [Modalities -> Slots]

PoolTypes ==
  /\ disk.pooling \in [Modalities -> State \cup {NoState}]
  /\ disk.deltas \in [Modalities -> Slots]
  /\ disk.pooled \in [made : BOOLEAN, arrays : [Modalities -> Slots]]
  /\ disk.reports \in BOOLEAN
  /\ disk.final \in Configs \cup {"none"}

SessionTypes ==
  /\ package \in {"none", "partial", "complete"}
  /\ pc \in {"down", "prepare", "remove", "open", "next", "publish", "export",
             "copy", "done", "failed"} \cup Writing \cup PoolStages
  /\ modality \in Modalities /\ then \in {"write", "next"} /\ mem \in State
  /\ config \in Configs
  /\ resume \in BOOLEAN /\ replace \in BOOLEAN /\ export \in BOOLEAN
  /\ assessed \in {"none", "empty", "incomplete", "completed"}

Types == RootShape /\ WriterTypes /\ PoolTypes /\ SessionTypes

\* The writer's memory is its shards, and each file it has flushed its memory.
WriterInv ==
  /\ \A m \in Modalities : ~disk.unit_embeddings[m].made => UnitsOf(m) = NoSlots
  /\ pc \in {"down", "prepare", "remove"} => modality = "node"
  /\ pc \in Writing => /\ mem.entry = UnitsOf(modality)
                       /\ disk.unit_embeddings[modality].made
                       /\ then = "next" => mem.status = "COMPLETED"
  /\ pc \in Writing \ {"flushCheckpoint"} => disk.checkpoints[modality] = mem
  /\ pc \in {"flushChecksums", "write"} => disk.manifests[modality] = mem.status
  /\ pc = "write" => disk.checksums[modality] = mem.entry

\* What FinalIsSealed asks of a modality.
Sealed(m) ==
  /\ disk.unit_embeddings[m].made
  /\ disk.manifests[m] = "COMPLETED"
  /\ disk.checkpoints[m] = [status |-> "COMPLETED", entry |-> UnitsOf(m)]
  /\ disk.checksums[m] = UnitsOf(m)

\* Node is sealed before event is written, and both before they are pooled; a
\* root with a final manifest is not removed, and its writer changes nothing.
SealedInv ==
  /\ pc = "next" => Sealed(modality)
  /\ pc \in {"open", "next"} \cup Writing /\ modality = "event" => Sealed("node")
  /\ pc \in PoolStages \cup {"publish"} => \A m \in Modalities : Sealed(m)
  /\ disk.final # "none" => /\ \A m \in Modalities : Sealed(m)
                            /\ pc # "remove"
                            /\ pc \in Writing => mem.status = "COMPLETED"

\* A completed modality is what one configuration selects, and adopting what
\* is left of its shards cannot change it.
Selected(entry) == \E c \in Configs : entry = Selection[c]

SelectionInv ==
  /\ \A m \in Modalities : disk.checkpoints[m].status = "COMPLETED" =>
       /\ Selected(disk.checkpoints[m].entry)
       /\ UnitsOf(m) \in {NoSlots, disk.checkpoints[m].entry}
  /\ pc \in Writing /\ mem.status = "COMPLETED" => Selected(mem.entry)

\* Directories a killed removal may take away before the shards: with
\* KeepsShards none of them holds units, with KeepsPooling none holds what
\* pooling resumes from.
KeepsShards == "unit_embeddings" \notin RemovedFirst
KeepsPooling == RemovedFirst \cap {"unit_embeddings", "pooling", "deltas"} = {}

\* Pooling never holds anything but shards that are there.
FromUnits(slots, m) == \A b \in Batches : slots[b] \in {"none", UnitsOf(m)[b]}

PoolInv ==
  /\ \A m \in Modalities : FromUnits(disk.pooling[m].entry, m) /\ FromUnits(disk.deltas[m], m)
  /\ pc \in {"poolSave", "delta", "poolSeal"} => FromUnits(mem.entry, modality)
  /\ pc \in {"poolSeal", "poolNext"} => disk.pooled.arrays[modality] = UnitsOf(modality)
  /\ pc \in PoolStages /\ modality = "event" => disk.pooled.arrays["node"] = UnitsOf("node")
  /\ pc = "publish" \/ disk.final # "none" =>
       \A m \in Modalities : disk.pooled.arrays[m] = UnitsOf(m)

\* Pooling has not begun.
Untouched(m) == disk.pooling[m] = NoState /\ Filled(disk.deltas[m]) = {}

\* Every pooled shard has its delta.
Backed(entry, m) == \A b \in Batches : entry[b] # "none" => disk.deltas[m][b] = entry[b]

\* A session without --resume that gets to pooling finds it not begun.
ResumeInv ==
  /\ \A m \in Modalities :
       /\ ~Untouched(m) => \A n \in Modalities : disk.unit_embeddings[n].made
       /\ disk.pooling[m] = NoState => Filled(disk.deltas[m]) = {}
       /\ Backed(disk.pooling[m].entry, m)
  /\ pc \in {"poolSave", "delta", "poolSeal"} => Backed(mem.entry, modality)
  /\ pc \in {"delta", "poolSeal"} => disk.pooling[modality] # NoState
  /\ ~resume => /\ pc = "open" /\ modality = "node" => disk.manifests["node"] = "none"
                /\ (pc \in Writing \cup {"next"} \/ (pc = "open" /\ modality = "event")) =>
                     \A m \in Modalities : Untouched(m)
                /\ pc = "poolOpen" => Untouched(modality)
                /\ pc \in PoolStages /\ modality = "node" => Untouched("event")

IInv == /\ Types /\ WriterInv /\ SealedInv /\ SelectionInv
        /\ KeepsShards => PoolInv
        /\ KeepsPooling => ResumeInv

-----------------------------------------------------------------------------
(***************************************************************************)
(* What a step keeps.                                                      *)
(***************************************************************************)
KeepWriter == /\ disk'.unit_embeddings = disk.unit_embeddings
              /\ disk'.checkpoints = disk.checkpoints
              /\ disk'.manifests = disk.manifests
              /\ disk'.checksums = disk.checksums
KeepPool == /\ disk'.pooling = disk.pooling /\ disk'.deltas = disk.deltas
            /\ disk'.pooled.arrays = disk.pooled.arrays

\* Slots and states as the types want them.
LEMMA SlotsFact ==
  /\ NoSlots \in Slots /\ Filled(NoSlots) = {} /\ \A b \in Batches : NoSlots[b] = "none"
  /\ NewState \in State /\ NewState.entry = NoSlots /\ NewState.status = "IN_PROGRESS"
  /\ NoState.status = "none" /\ NoState.entry = NoSlots /\ NoState \notin State
  /\ \A c \in Configs : Selection[c] \in Slots
  /\ \A s \in State : s = [status |-> s.status, entry |-> s.entry]
                       /\ s.entry \in Slots /\ s.status \in Statuses
<1>1. NoSlots \in Slots /\ Filled(NoSlots) = {} /\ \A b \in Batches : NoSlots[b] = "none"
  BY DEF NoSlots, Slots, Filled
<1>2. /\ NewState \in State /\ NewState.entry = NoSlots /\ NewState.status = "IN_PROGRESS"
      /\ NoState.status = "none" /\ NoState.entry = NoSlots
  BY <1>1 DEF NewState, State, Statuses, NoState
<1>3. NoState \notin State
  BY <1>2 DEF State, Statuses
<1>4. \A c \in Configs : Selection[c] \in Slots
  BY SelectionAssumption
<1>5. \A s \in State : s = [status |-> s.status, entry |-> s.entry]
                       /\ s.entry \in Slots /\ s.status \in Statuses
  BY DEF State
<1> QED BY <1>1, <1>2, <1>3, <1>4, <1>5

\* An empty root has the shape of a root, and nothing in it.
LEMMA EmptyRootFact ==
  /\ EmptyRoot = [unit_embeddings |-> EmptyRoot.unit_embeddings,
                  checkpoints |-> EmptyRoot.checkpoints, manifests |-> EmptyRoot.manifests,
                  checksums |-> EmptyRoot.checksums, pooling |-> EmptyRoot.pooling,
                  deltas |-> EmptyRoot.deltas, pooled |-> EmptyRoot.pooled,
                  reports |-> EmptyRoot.reports, final |-> EmptyRoot.final]
  /\ EmptyRoot.unit_embeddings \in [Modalities -> [made : BOOLEAN, shard : Slots]]
  /\ EmptyRoot.checkpoints \in [Modalities -> State \cup {NoState}]
  /\ EmptyRoot.manifests \in [Modalities -> Statuses \cup {"none"}]
  /\ EmptyRoot.checksums \in [Modalities -> Slots]
  /\ EmptyRoot.pooling \in [Modalities -> State \cup {NoState}]
  /\ EmptyRoot.deltas \in [Modalities -> Slots]
  /\ EmptyRoot.pooled \in [made : BOOLEAN, arrays : [Modalities -> Slots]]
  /\ EmptyRoot.reports \in BOOLEAN
  /\ EmptyRoot.final = "none" /\ EmptyRoot.manifests = [m \in Modalities |-> "none"]
  /\ \A m \in Modalities :
       /\ EmptyRoot.unit_embeddings[m].shard = NoSlots
       /\ ~EmptyRoot.unit_embeddings[m].made
       /\ EmptyRoot.checkpoints[m] = NoState /\ EmptyRoot.pooling[m] = NoState
       /\ EmptyRoot.deltas[m] = NoSlots
<1>1. [made |-> FALSE, shard |-> NoSlots] \in [made : BOOLEAN, shard : Slots]
  BY SlotsFact
<1>2. [m \in Modalities |-> NoSlots] \in [Modalities -> Slots]
  BY SlotsFact
<1>3. [made |-> FALSE, arrays |-> [m \in Modalities |-> NoSlots]]
        \in [made : BOOLEAN, arrays : [Modalities -> Slots]]
  BY <1>2
<1> QED BY <1>1, <1>2, <1>3, SlotsFact DEF EmptyRoot

\* An empty root, and no session.
LEMMA InitInv == Init => IInv
<1> SUFFICES ASSUME Init PROVE IInv
  OBVIOUS
<1>1. disk = EmptyRoot
  BY DEF Init
<1>2. RootShape /\ WriterTypes
  BY <1>1, EmptyRootFact DEF RootShape, WriterTypes
<1>3. PoolTypes
  BY <1>1, EmptyRootFact DEF PoolTypes
<1>4. /\ pc = "down" /\ modality = "node" /\ then = "write" /\ mem = NewState
      /\ package = "none" /\ assessed = "none" /\ config \in Configs
      /\ resume = FALSE /\ replace = FALSE /\ export = FALSE
  BY SelectionAssumption DEF Init
<1>5. SessionTypes
  BY <1>4, SlotsFact DEF SessionTypes, Modalities
<1>6. WriterInv /\ SealedInv
  BY <1>1, <1>4, EmptyRootFact DEF WriterInv, SealedInv, Writing, PoolStages, UnitsOf
<1>7. SelectionInv
  BY <1>1, <1>4, EmptyRootFact, SlotsFact DEF SelectionInv, Writing
<1>8. PoolInv
  BY <1>1, <1>4, EmptyRootFact, SlotsFact DEF PoolInv, FromUnits, PoolStages
<1>9. ResumeInv
  BY <1>1, <1>4, EmptyRootFact, SlotsFact DEF ResumeInv, Untouched, Backed, PoolStages, Writing
<1> QED BY <1>2, <1>3, <1>5, <1>6, <1>7, <1>8, <1>9 DEF IInv, Types

\* The writer's and the pooler's types, and what is said of a modality, stay
\* with the files they are about.
LEMMA WriterStays ==
  ASSUME WriterTypes, KeepWriter
  PROVE  /\ WriterTypes'
         /\ \A m : UnitsOf(m)' = UnitsOf(m) /\ Sealed(m)' = Sealed(m)
         /\ \A f, m : FromUnits(f, m)' = FromUnits(f, m)
<1> QED BY DEF KeepWriter, WriterTypes, UnitsOf, Sealed, FromUnits

\* What is said of pooling stays with the pooling checkpoint and the deltas.
LEMMA PoolStays ==
  ASSUME KeepPool
  PROVE  /\ \A m : Untouched(m)' = Untouched(m)
         /\ \A f, m : Backed(f, m)' = Backed(f, m)
<1> QED BY DEF KeepPool, Untouched, Backed

\* A session that exports, ends, fails or is killed leaves everything true.
LEMMA Stops ==
  ASSUME IInv, pc' \in {"copy", "done", "failed", "down"}, pc' = "down" => modality' = "node",
         SessionTypes', RootShape', KeepWriter, KeepPool, PoolTypes', disk'.final = disk.final
  PROVE  IInv'
<1>1. /\ WriterTypes /\ SealedInv /\ SelectionInv
      /\ (KeepsShards => PoolInv) /\ (KeepsPooling => ResumeInv)
  BY DEF IInv, Types
<1>2. /\ WriterTypes'
      /\ \A m : UnitsOf(m)' = UnitsOf(m) /\ Sealed(m)' = Sealed(m)
      /\ \A f, m : FromUnits(f, m)' = FromUnits(f, m)
  BY <1>1, WriterStays
<1>3. /\ \A m : Untouched(m)' = Untouched(m)
      /\ \A f, m : Backed(f, m)' = Backed(f, m)
  BY PoolStays
<1>4. WriterInv' /\ SealedInv'
  <2>1. \A m \in Modalities : ~disk'.unit_embeddings[m].made => UnitsOf(m)' = NoSlots
    BY <1>2 DEF IInv, WriterInv, KeepWriter
  <2> QED BY <1>1, <1>2, <2>1 DEF WriterInv, SealedInv, Writing, PoolStages
<1>5. SelectionInv'
  BY <1>1, <1>2 DEF SelectionInv, Writing, KeepWriter
<1>6. KeepsShards => PoolInv'
  BY <1>1, <1>2 DEF PoolInv, PoolStages, KeepPool
<1>7. KeepsPooling => ResumeInv'
  BY <1>1, <1>3 DEF ResumeInv, PoolStages, Writing, KeepPool, KeepWriter
<1> QED BY <1>2, <1>4, <1>5, <1>6, <1>7 DEF IInv, Types

\* And one that leaves the root alone keeps all that is said of it alone.
LEMMA DiskStays ==
  ASSUME IInv, disk' = disk
  PROVE  /\ KeepWriter /\ KeepPool /\ RootShape' /\ WriterTypes' /\ PoolTypes'
         /\ \A m : /\ UnitsOf(m)' = UnitsOf(m) /\ Sealed(m)' = Sealed(m)
                   /\ Untouched(m)' = Untouched(m)
         /\ \A f, m : FromUnits(f, m)' = FromUnits(f, m) /\ Backed(f, m)' = Backed(f, m)
<1>1. RootShape /\ WriterTypes /\ PoolTypes
  BY DEF IInv, Types
<1>2. KeepWriter /\ KeepPool /\ RootShape' /\ PoolTypes'
  BY <1>1 DEF KeepWriter, KeepPool, RootShape, PoolTypes
<1> QED BY <1>1, <1>2, WriterStays, PoolStays

-----------------------------------------------------------------------------
(***************************************************************************)
(* The steps.                                                              *)
(***************************************************************************)
\* A session starts with any configuration and flags, which nothing is said of.
LEMMA StartInv ==
  ASSUME IInv, Start
  PROVE  IInv'
<1>1. /\ pc = "down" /\ pc' = "prepare" /\ disk' = disk /\ modality' = modality
      /\ config' \in Configs /\ resume' \in BOOLEAN /\ replace' \in BOOLEAN
      /\ export' \in BOOLEAN /\ UNCHANGED <<package, then, mem, assessed>>
  BY DEF Start
<1>2. /\ SessionTypes /\ WriterInv /\ SealedInv /\ SelectionInv
      /\ (KeepsShards => PoolInv) /\ (KeepsPooling => ResumeInv)
  BY DEF IInv, Types
<1>3. /\ KeepWriter /\ KeepPool /\ RootShape' /\ WriterTypes' /\ PoolTypes'
      /\ \A m : /\ UnitsOf(m)' = UnitsOf(m) /\ Sealed(m)' = Sealed(m)
                /\ Untouched(m)' = Untouched(m)
      /\ \A f, m : FromUnits(f, m)' = FromUnits(f, m) /\ Backed(f, m)' = Backed(f, m)
  BY <1>1, DiskStays
<1>4. SessionTypes'
  BY <1>1, <1>2 DEF SessionTypes
<1>5. WriterInv' /\ SealedInv' /\ SelectionInv'
  BY <1>1, <1>2, <1>3 DEF WriterInv, SealedInv, SelectionInv, Writing, PoolStages
<1>6. KeepsShards => PoolInv'
  BY <1>1, <1>2, <1>3 DEF PoolInv, PoolStages
<1>7. KeepsPooling => ResumeInv'
  BY <1>1, <1>2, <1>3 DEF ResumeInv, PoolStages, Writing
<1> QED BY <1>3, <1>4, <1>5, <1>6, <1>7 DEF IInv, Types

\* A published root is completed, and only one without shards and states is
\* empty.
LEMMA PrepareInv ==
  ASSUME IInv, Prepare
  PROVE  IInv'
<1>1. /\ pc = "prepare" /\ disk' = disk /\ modality' = modality /\ resume' = resume
      /\ pc' \in {"open", "remove", "failed"} /\ assessed' = Classification
      /\ pc' = "remove" => ~Completed
      /\ pc' = "open" => resume \/ Classification = "empty"
      /\ UNCHANGED <<package, then, mem, config, replace, export>>
  BY DEF Prepare, session, Classification
<1>2. /\ SessionTypes /\ WriterInv /\ SealedInv /\ SelectionInv
      /\ (KeepsShards => PoolInv) /\ (KeepsPooling => ResumeInv)
  BY DEF IInv, Types
<1>3. /\ KeepWriter /\ KeepPool /\ RootShape' /\ WriterTypes' /\ PoolTypes'
      /\ \A m : /\ UnitsOf(m)' = UnitsOf(m) /\ Sealed(m)' = Sealed(m)
                /\ Untouched(m)' = Untouched(m)
      /\ \A f, m : FromUnits(f, m)' = FromUnits(f, m) /\ Backed(f, m)' = Backed(f, m)
  BY <1>1, DiskStays
<1>4. modality = "node"
  BY <1>1, <1>2 DEF WriterInv
<1>5. disk.final # "none" => Completed
  BY <1>2 DEF SealedInv, Sealed, Completed, Status
<1>6. Classification = "empty" => disk.manifests["node"] = "none"
  BY DEF Classification, Status, Modalities
<1>7. SessionTypes'
  BY <1>1, <1>2 DEF SessionTypes, Classification
<1>8. WriterInv' /\ SealedInv' /\ SelectionInv'
  BY <1>1, <1>2, <1>3, <1>4, <1>5 DEF WriterInv, SealedInv, SelectionInv, Writing, PoolStages
<1>9. KeepsShards => PoolInv'
  BY <1>1, <1>2, <1>3 DEF PoolInv, PoolStages
<1>10. KeepsPooling => ResumeInv'
  BY <1>1, <1>2, <1>3, <1>4, <1>6 DEF ResumeInv, PoolStages, Writing
<1> QED BY <1>3, <1>7, <1>8, <1>9, <1>10 DEF IInv, Types

\* A removal that is killed has emptied some directories: what it leaves is
\* no less consistent, but for what KeepsShards and KeepsPooling exclude.
LEMMA RemoveOneInv ==
  ASSUME IInv, NEW d \in RemovedFirst, RemoveOne(d)
  PROVE  IInv'
<1>1. /\ pc = "remove" /\ pc' = "remove" /\ modality' = modality /\ resume' = resume
      /\ disk' = [disk EXCEPT ![d] = EmptyRoot[d]]
      /\ UNCHANGED <<package, then, mem, config, replace, export, assessed>>
  BY DEF RemoveOne, Goto, session
<1>2. /\ RootShape /\ WriterTypes /\ PoolTypes /\ SessionTypes
      /\ WriterInv /\ SealedInv /\ SelectionInv
      /\ (KeepsShards => PoolInv) /\ (KeepsPooling => ResumeInv)
  BY DEF IInv, Types
<1>4. /\ RootShape'
      /\ \A x \in Dirs : disk'[x] = IF x = d THEN EmptyRoot[x] ELSE disk[x]
  BY <1>1, <1>2, RemovedFirstAssumption DEF RootShape, Dirs
<1>5. /\ disk'.unit_embeddings \in {disk.unit_embeddings, EmptyRoot.unit_embeddings}
      /\ disk'.checkpoints \in {disk.checkpoints, EmptyRoot.checkpoints}
      /\ disk'.manifests \in {disk.manifests, EmptyRoot.manifests}
      /\ disk'.checksums \in {disk.checksums, EmptyRoot.checksums}
      /\ disk'.pooling \in {disk.pooling, EmptyRoot.pooling}
      /\ disk'.deltas \in {disk.deltas, EmptyRoot.deltas}
      /\ disk'.pooled \in {disk.pooled, EmptyRoot.pooled}
      /\ disk'.reports \in {disk.reports, EmptyRoot.reports}
      /\ disk'.final = "none"
  <2>1. disk.final = "none"
    BY <1>1, <1>2 DEF SealedInv
  <2> QED BY <2>1, <1>4, EmptyRootFact DEF Dirs
<1>6. (KeepsShards => d # "unit_embeddings")
      /\ (KeepsPooling => d \notin {"unit_embeddings", "pooling", "deltas"})
  BY DEF KeepsShards, KeepsPooling
<1>7. (KeepsShards => disk'.unit_embeddings = disk.unit_embeddings)
      /\ (KeepsPooling => /\ disk'.unit_embeddings = disk.unit_embeddings
                          /\ disk'.pooling = disk.pooling /\ disk'.deltas = disk.deltas)
  BY <1>4, <1>6 DEF Dirs
<1>8. WriterTypes'
  BY <1>2, <1>5, EmptyRootFact DEF WriterTypes
<1>9. PoolTypes'
  BY <1>2, <1>5, EmptyRootFact DEF PoolTypes
<1>10. SessionTypes'
  BY <1>1, <1>2 DEF SessionTypes
<1>11. WriterInv' /\ SealedInv'
  <2>1. \A m \in Modalities : ~disk'.unit_embeddings[m].made => UnitsOf(m)' = NoSlots
    BY <1>2, <1>5, EmptyRootFact DEF WriterInv, UnitsOf
  <2> QED BY <2>1, <1>1, <1>2, <1>5 DEF WriterInv, SealedInv, Writing, PoolStages
<1>12. SelectionInv'
  <2>1. ASSUME NEW m \in Modalities, disk'.checkpoints[m].status = "COMPLETED"
        PROVE  /\ Selected(disk'.checkpoints[m].entry)
               /\ UnitsOf(m)' \in {NoSlots, disk'.checkpoints[m].entry}
    <3>1. disk'.checkpoints[m] = disk.checkpoints[m]
      BY <2>1, <1>5, EmptyRootFact, SlotsFact
    <3>2. UnitsOf(m)' \in {UnitsOf(m), NoSlots}
      BY <1>5, EmptyRootFact DEF UnitsOf
    <3> QED BY <2>1, <3>1, <3>2, <1>2 DEF SelectionInv
  <2> QED BY <1>1, <2>1 DEF SelectionInv, Writing
<1>13. KeepsShards => PoolInv'
  <2> SUFFICES ASSUME KeepsShards PROVE PoolInv'
    OBVIOUS
  <2>1. PoolInv /\ disk'.unit_embeddings = disk.unit_embeddings
    BY <1>2, <1>7
  <2>2. \A m \in Modalities : /\ FromUnits(disk.pooling[m].entry, m)'
                              /\ FromUnits(disk.deltas[m], m)'
    BY <2>1, <1>5, EmptyRootFact, SlotsFact DEF PoolInv, FromUnits, UnitsOf
  <2> QED BY <2>2, <1>1, <1>5 DEF PoolInv, PoolStages
<1>14. KeepsPooling => ResumeInv'
  BY <1>1, <1>2, <1>7 DEF ResumeInv, Untouched, Backed, PoolStages, Writing
<1> QED BY <1>4, <1>8, <1>9, <1>10, <1>11, <1>12, <1>13, <1>14 DEF IInv, Types

\* A removal that ends leaves an empty root to a writer that starts anew.
LEMMA RemoveRootInv ==
  ASSUME IInv, RemoveRoot
  PROVE  IInv'
<1>1. /\ pc = "remove" /\ pc' = "open" /\ modality' = modality /\ resume' = resume
      /\ disk' = EmptyRoot
      /\ UNCHANGED <<package, then, mem, config, replace, export, assessed>>
  BY DEF RemoveRoot, Goto, session
<1>2. SessionTypes /\ modality = "node"
  BY <1>1 DEF IInv, Types, WriterInv
<1>3. /\ RootShape' /\ WriterTypes' /\ PoolTypes'
      /\ disk'.final = "none" /\ disk'.manifests = [m \in Modalities |-> "none"]
      /\ \A m \in Modalities : /\ UnitsOf(m)' = NoSlots /\ Untouched(m)'
                               /\ disk'.checkpoints[m] = NoState
                               /\ disk'.pooling[m] = NoState
                               /\ disk'.deltas[m] = NoSlots
  <2>1. RootShape' /\ WriterTypes' /\ PoolTypes'
    BY <1>1, EmptyRootFact DEF RootShape, WriterTypes, PoolTypes
  <2> QED BY <2>1, <1>1, EmptyRootFact, SlotsFact DEF UnitsOf, Untouched
<1>4. SessionTypes'
  BY <1>1, <1>2 DEF SessionTypes
<1>5. WriterInv' /\ SealedInv'
  BY <1>1, <1>2, <1>3 DEF WriterInv, SealedInv, Writing, PoolStages
<1>6. SelectionInv'
  BY <1>1, <1>3, SlotsFact DEF SelectionInv, Writing
<1>7. PoolInv'
  BY <1>1, <1>3, SlotsFact DEF PoolInv, FromUnits, PoolStages
<1>8. ResumeInv'
  BY <1>1, <1>2, <1>3, SlotsFact DEF ResumeInv, Backed, Filled, PoolStages, Writing, Modalities
<1> QED BY <1>3, <1>4, <1>5, <1>6, <1>7, <1>8 DEF IInv, Types

\* The steps on which a session fails, or is over, with the root as it is.
LEMMA FailInv ==
  ASSUME IInv, pc' = "failed", disk' = disk,
         UNCHANGED <<package, modality, then, session, assessed, mem>>
  PROVE  IInv'
<1>1. SessionTypes'
  BY DEF IInv, Types, SessionTypes, session
<1> QED BY <1>1, DiskStays, Stops

\* A process that is gone leaves only the root.
LEMMA DownInv ==
  ASSUME IInv, Down, UNCHANGED <<disk, package>>
  PROVE  IInv'
<1>1. /\ pc' = "down" /\ modality' = "node" /\ then' = "write"
      /\ mem' = NewState /\ assessed' = "none" /\ config' \in Configs
      /\ resume' = FALSE /\ replace' = FALSE /\ export' = FALSE
  BY SelectionAssumption DEF Down
<1>2. SessionTypes'
  BY <1>1, SlotsFact DEF IInv, Types, SessionTypes, Modalities
<1> QED BY <1>1, <1>2, DiskStays, Stops

\* A writer that finds nothing begins with no shard and no entry.
LEMMA OpenFreshInv ==
  ASSUME IInv, OpenFresh
  PROVE  IInv'
<1>1. /\ pc = "open" /\ disk.manifests[modality] = "none"
      /\ disk.checkpoints[modality] = NoState
      /\ ~disk.unit_embeddings[modality].made
      /\ disk' = [disk EXCEPT !["unit_embeddings"][modality] = [made |-> TRUE, shard |-> NoSlots]]
      /\ mem' = NewState /\ pc' = "flushCheckpoint" /\ then' = "write"
      /\ UNCHANGED <<package, modality, config, resume, replace, export, assessed>>
  BY DEF OpenFresh, Put, session
<1>2. /\ RootShape /\ WriterTypes /\ PoolTypes /\ SessionTypes
      /\ WriterInv /\ SealedInv /\ SelectionInv
      /\ (KeepsShards => PoolInv) /\ (KeepsPooling => ResumeInv)
  BY DEF IInv, Types
<1>3. modality \in Modalities
  BY <1>2 DEF SessionTypes
<1>4. /\ RootShape'
      /\ disk'.unit_embeddings =
           [disk.unit_embeddings EXCEPT ![modality] = [made |-> TRUE, shard |-> NoSlots]]
      /\ disk'.checkpoints = disk.checkpoints /\ disk'.manifests = disk.manifests
      /\ disk'.checksums = disk.checksums /\ KeepPool /\ disk'.pooled = disk.pooled
      /\ disk'.reports = disk.reports /\ disk'.final = disk.final
  BY <1>1, <1>2 DEF RootShape, KeepPool
<1>5. \A m \in Modalities :
        disk'.unit_embeddings[m] = IF m = modality THEN [made |-> TRUE, shard |-> NoSlots]
                                                   ELSE disk.unit_embeddings[m]
  BY <1>2, <1>4 DEF WriterTypes
<1>6. /\ \A m \in Modalities : UnitsOf(m)' = UnitsOf(m)
      /\ \A m \in Modalities : disk'.unit_embeddings[m].made
                                 <=> m = modality \/ disk.unit_embeddings[m].made
  BY <1>1, <1>2, <1>5 DEF WriterInv, UnitsOf
<1>7. WriterTypes'
  <2>1. [made |-> TRUE, shard |-> NoSlots] \in [made : BOOLEAN, shard : Slots]
    BY SlotsFact
  <2> QED BY <1>2, <1>3, <1>4, <2>1 DEF WriterTypes
<1>8. PoolTypes' /\ SessionTypes'
  BY <1>1, <1>2, <1>4, SlotsFact DEF PoolTypes, SessionTypes, Writing
<1>9. WriterInv'
  BY <1>1, <1>2, <1>3, <1>5, <1>6, SlotsFact DEF WriterInv, Writing, UnitsOf
<1>10. SealedInv'
  <2>1. disk.final = "none"
    BY <1>1, <1>2, <1>3 DEF SealedInv, Sealed
  <2>2. modality = "event" => Sealed("node")'
    BY <1>1, <1>2, <1>4, <1>6 DEF SealedInv, Sealed, Modalities
  <2> QED BY <1>1, <1>4, <2>1, <2>2 DEF SealedInv, Writing, PoolStages
<1>11. SelectionInv'
  BY <1>1, <1>2, <1>4, <1>6, SlotsFact DEF SelectionInv, Writing
<1>12. KeepsShards => PoolInv'
  BY <1>1, <1>2, <1>4, <1>6 DEF PoolInv, FromUnits, PoolStages, KeepPool
<1>13. KeepsPooling => ResumeInv'
  <2> SUFFICES ASSUME KeepsPooling PROVE ResumeInv'
    OBVIOUS
  <2>1. \A f, m : Untouched(m)' = Untouched(m) /\ Backed(f, m)' = Backed(f, m)
    BY <1>4, PoolStays
  <2>2. \A m \in Modalities : Untouched(m)
    BY <1>1, <1>2, <1>3 DEF ResumeInv
  <2> QED BY <1>1, <1>2, <1>4, <1>6, <2>1, <2>2 DEF ResumeInv, PoolStages, Writing, KeepPool
<1> QED BY <1>4, <1>7, <1>8, <1>9, <1>10, <1>11, <1>12, <1>13 DEF IInv, Types

\* The writer goes on from what is left, if checkpoint and shards agree: what
\* is adopted of a completed modality is nothing new.
LEMMA OpenExistingInv ==
  ASSUME IInv, OpenExisting
  PROVE  IInv'
<1> PICK c, found :
      /\ c = IF disk.checkpoints[modality] = NoState THEN NewState
                                                     ELSE disk.checkpoints[modality]
      /\ found = Adopted(c, modality)
  OBVIOUS
<1>1. /\ pc = "open" /\ disk.manifests[modality] # "none" /\ then' = "write"
      /\ \/ /\ found.entry = UnitsOf(modality) /\ mem' = found /\ pc' = "flushCheckpoint"
         \/ mem' = mem /\ pc' = "failed"
      /\ disk' = [disk EXCEPT !["unit_embeddings"][modality] =
                    [disk.unit_embeddings[modality] EXCEPT !.made = TRUE]]
      /\ UNCHANGED <<package, modality, config, resume, replace, export, assessed>>
  BY DEF OpenExisting, Put, session
<1>2. /\ RootShape /\ WriterTypes /\ PoolTypes /\ SessionTypes
      /\ WriterInv /\ SealedInv /\ SelectionInv
      /\ (KeepsShards => PoolInv) /\ (KeepsPooling => ResumeInv)
  BY DEF IInv, Types
<1>3. modality \in Modalities
  BY <1>2 DEF SessionTypes
<1>4. /\ RootShape'
      /\ disk'.unit_embeddings =
           [disk.unit_embeddings EXCEPT ![modality] =
              [disk.unit_embeddings[modality] EXCEPT !.made = TRUE]]
      /\ disk'.checkpoints = disk.checkpoints /\ disk'.manifests = disk.manifests
      /\ disk'.checksums = disk.checksums /\ KeepPool /\ disk'.pooled = disk.pooled
      /\ disk'.reports = disk.reports /\ disk'.final = disk.final
  BY <1>1, <1>2 DEF RootShape, KeepPool
<1>5. /\ \A m \in Modalities : UnitsOf(m)' = UnitsOf(m)
      /\ \A m \in Modalities : disk'.unit_embeddings[m].made
                                 <=> m = modality \/ disk.unit_embeddings[m].made
  BY <1>2, <1>4 DEF WriterTypes, UnitsOf
<1>6. WriterTypes'
  <2>1. [disk.unit_embeddings[modality] EXCEPT !.made = TRUE] \in [made : BOOLEAN, shard : Slots]
    BY <1>2, <1>3 DEF WriterTypes
  <2> QED BY <1>2, <1>3, <1>4, <2>1 DEF WriterTypes
<1>7. c \in State /\ UnitsOf(modality) \in Slots
  BY <1>2, <1>3, SlotsFact DEF WriterTypes, UnitsOf
<1>8. /\ found \in State /\ found.status = c.status
      /\ \A b \in Batches : found.entry[b] = IF c.entry[b] = "none" THEN UnitsOf(modality)[b]
                                                                    ELSE c.entry[b]
  BY <1>7 DEF Adopted, State, Slots
<1>9. c.status = "COMPLETED" => /\ disk.checkpoints[modality] = c
                                /\ Selected(c.entry) /\ found.entry = c.entry
  <2> SUFFICES ASSUME c.status = "COMPLETED"
               PROVE  /\ disk.checkpoints[modality] = c
                      /\ Selected(c.entry) /\ found.entry = c.entry
    OBVIOUS
  <2>1. disk.checkpoints[modality] = c
    BY SlotsFact
  <2>2. Selected(c.entry) /\ UnitsOf(modality) \in {NoSlots, c.entry}
    BY <1>2, <1>3, <2>1 DEF SelectionInv
  <2>3. \A b \in Batches : found.entry[b] = c.entry[b]
    BY <1>8, <2>2, SlotsFact
  <2>4. found.entry \in Slots /\ c.entry \in Slots
    BY <1>7, <1>8, SlotsFact
  <2> QED BY <2>1, <2>2, <2>3, <2>4 DEF Slots
<1>10. PoolTypes' /\ SessionTypes'
  BY <1>1, <1>2, <1>4, <1>8 DEF PoolTypes, SessionTypes, Writing
<1>11. WriterInv'
  BY <1>1, <1>2, <1>3, <1>5 DEF WriterInv, Writing
<1>12. \A m \in Modalities : Sealed(m) => Sealed(m)'
  BY <1>4, <1>5 DEF Sealed
<1>13. SealedInv'
  <2>1. disk.final # "none" => c.status = "COMPLETED"
    BY <1>2, <1>3, SlotsFact DEF SealedInv, Sealed
  <2> QED BY <1>1, <1>2, <1>4, <1>8, <1>12, <2>1 DEF SealedInv, Writing, PoolStages, Modalities
<1>14. SelectionInv'
  BY <1>1, <1>2, <1>4, <1>5, <1>8, <1>9 DEF SelectionInv, Writing
<1>15. KeepsShards => PoolInv'
  BY <1>1, <1>2, <1>4, <1>5 DEF PoolInv, FromUnits, PoolStages, KeepPool
<1>16. KeepsPooling => ResumeInv'
  <2> SUFFICES ASSUME KeepsPooling PROVE ResumeInv'
    OBVIOUS
  <2>1. \A f, m : Untouched(m)' = Untouched(m) /\ Backed(f, m)' = Backed(f, m)
    BY <1>4, PoolStays
  <2>2. ~resume => modality = "event"
    BY <1>1, <1>2, <1>3 DEF ResumeInv, Modalities
  <2> QED BY <1>1, <1>2, <1>4, <1>5, <2>1, <2>2 DEF ResumeInv, PoolStages, Writing, KeepPool
<1> QED BY <1>4, <1>6, <1>10, <1>11, <1>13, <1>14, <1>15, <1>16 DEF IInv, Types

\* The checkpoint becomes the writer's memory, which is its shards.
LEMMA FlushCheckpointInv ==
  ASSUME IInv, FlushCheckpoint
  PROVE  IInv'
<1>1. /\ pc = "flushCheckpoint" /\ pc' = "flushManifest"
      /\ disk' = [disk EXCEPT !["checkpoints"][modality] = mem]
      /\ UNCHANGED <<package, modality, then, mem, config, resume, replace, export, assessed>>
  BY DEF FlushCheckpoint, Put, Goto, session
<1>2. /\ RootShape /\ WriterTypes /\ PoolTypes /\ SessionTypes
      /\ WriterInv /\ SealedInv /\ SelectionInv
      /\ (KeepsShards => PoolInv) /\ (KeepsPooling => ResumeInv)
  BY DEF IInv, Types
<1>3. /\ modality \in Modalities /\ mem \in State /\ mem.entry = UnitsOf(modality)
      /\ mem = [status |-> mem.status, entry |-> mem.entry]
  BY <1>1, <1>2, SlotsFact DEF SessionTypes, WriterInv, Writing
<1>4. /\ RootShape' /\ disk'.checkpoints = [disk.checkpoints EXCEPT ![modality] = mem]
      /\ disk'.unit_embeddings = disk.unit_embeddings /\ disk'.manifests = disk.manifests
      /\ disk'.checksums = disk.checksums /\ KeepPool /\ disk'.pooled = disk.pooled
      /\ disk'.reports = disk.reports /\ disk'.final = disk.final
  BY <1>1, <1>2 DEF RootShape, KeepPool
<1>5. /\ \A m \in Modalities :
           disk'.checkpoints[m] = IF m = modality THEN mem ELSE disk.checkpoints[m]
      /\ \A m : UnitsOf(m)' = UnitsOf(m)
  BY <1>2, <1>4 DEF WriterTypes, UnitsOf
<1>6. WriterTypes' /\ PoolTypes' /\ SessionTypes'
  BY <1>1, <1>2, <1>3, <1>4 DEF WriterTypes, PoolTypes, SessionTypes, Writing
<1>7. WriterInv'
  BY <1>1, <1>2, <1>3, <1>4, <1>5 DEF WriterInv, Writing
<1>8. SealedInv'
  <2>1. \A m \in Modalities : Sealed(m) /\ (m # modality \/ mem.status = "COMPLETED")
                                => Sealed(m)'
    BY <1>3, <1>4, <1>5 DEF Sealed
  <2> QED BY <1>1, <1>2, <1>4, <2>1 DEF SealedInv, Writing, PoolStages, Modalities
<1>9. SelectionInv'
  BY <1>1, <1>2, <1>3, <1>5 DEF SelectionInv, Writing
<1>10. KeepsShards => PoolInv'
  BY <1>1, <1>2, <1>4, <1>5 DEF PoolInv, FromUnits, PoolStages, KeepPool
<1>11. KeepsPooling => ResumeInv'
  <2>1. \A f, m : Untouched(m)' = Untouched(m) /\ Backed(f, m)' = Backed(f, m)
    BY <1>4, PoolStays
  <2> QED BY <1>1, <1>2, <1>4, <2>1 DEF ResumeInv, PoolStages, Writing, KeepPool
<1> QED BY <1>4, <1>6, <1>7, <1>8, <1>9, <1>10, <1>11 DEF IInv, Types

\* The manifest takes the status of a checkpoint that is already there.
LEMMA FlushManifestInv ==
  ASSUME IInv, FlushManifest
  PROVE  IInv'
<1>1. /\ pc = "flushManifest" /\ pc' = "flushChecksums"
      /\ disk' = [disk EXCEPT !["manifests"][modality] = mem.status]
      /\ UNCHANGED <<package, modality, then, mem, config, resume, replace, export, assessed>>
  BY DEF FlushManifest, Put, Goto, session
<1>2. /\ RootShape /\ WriterTypes /\ PoolTypes /\ SessionTypes
      /\ WriterInv /\ SealedInv /\ SelectionInv
      /\ (KeepsShards => PoolInv) /\ (KeepsPooling => ResumeInv)
  BY DEF IInv, Types
<1>3. modality \in Modalities /\ mem.status \in Statuses
  BY <1>1, <1>2, SlotsFact DEF SessionTypes
<1>4. /\ RootShape' /\ disk'.manifests = [disk.manifests EXCEPT ![modality] = mem.status]
      /\ disk'.unit_embeddings = disk.unit_embeddings /\ disk'.checkpoints = disk.checkpoints
      /\ disk'.checksums = disk.checksums /\ KeepPool /\ disk'.pooled = disk.pooled
      /\ disk'.reports = disk.reports /\ disk'.final = disk.final
  BY <1>1, <1>2 DEF RootShape, KeepPool
<1>5. /\ \A m \in Modalities :
           disk'.manifests[m] = IF m = modality THEN mem.status ELSE disk.manifests[m]
      /\ \A m : UnitsOf(m)' = UnitsOf(m)
  BY <1>2, <1>4 DEF WriterTypes, UnitsOf
<1>6. WriterTypes' /\ PoolTypes' /\ SessionTypes'
  BY <1>1, <1>2, <1>3, <1>4 DEF WriterTypes, PoolTypes, SessionTypes, Writing
<1>7. WriterInv'
  BY <1>1, <1>2, <1>3, <1>4, <1>5 DEF WriterInv, Writing
<1>8. SealedInv'
  <2>1. \A m \in Modalities : Sealed(m) /\ (m # modality \/ mem.status = "COMPLETED")
                                => Sealed(m)'
    BY <1>3, <1>4, <1>5 DEF Sealed
  <2> QED BY <1>1, <1>2, <1>4, <2>1 DEF SealedInv, Writing, PoolStages, Modalities
<1>9. SelectionInv'
  BY <1>1, <1>2, <1>4, <1>5 DEF SelectionInv, Writing
<1>10. KeepsShards => PoolInv'
  BY <1>1, <1>2, <1>4, <1>5 DEF PoolInv, FromUnits, PoolStages, KeepPool
<1>11. KeepsPooling => ResumeInv'
  <2>1. \A f, m : Untouched(m)' = Untouched(m) /\ Backed(f, m)' = Backed(f, m)
    BY <1>4, PoolStays
  <2> QED BY <1>1, <1>2, <1>4, <2>1 DEF ResumeInv, PoolStages, Writing, KeepPool
<1> QED BY <1>4, <1>6, <1>7, <1>8, <1>9, <1>10, <1>11 DEF IInv, Types

\* With its checksums flushed a completed modality is sealed.
LEMMA FlushChecksumsInv ==
  ASSUME IInv, FlushChecksums
  PROVE  IInv'
<1>1. /\ pc = "flushChecksums" /\ pc' = then
      /\ disk' = [disk EXCEPT !["checksums"][modality] = mem.entry]
      /\ UNCHANGED <<package, modality, then, mem, config, resume, replace, export, assessed>>
  BY DEF FlushChecksums, Put, Goto, session
<1>2. /\ RootShape /\ WriterTypes /\ PoolTypes /\ SessionTypes
      /\ WriterInv /\ SealedInv /\ SelectionInv
      /\ (KeepsShards => PoolInv) /\ (KeepsPooling => ResumeInv)
  BY DEF IInv, Types
<1>3. /\ modality \in Modalities /\ mem \in State /\ mem.entry \in Slots
      /\ mem.entry = UnitsOf(modality) /\ pc' \in {"write", "next"}
      /\ mem = [status |-> mem.status, entry |-> mem.entry]
  BY <1>1, <1>2, SlotsFact DEF SessionTypes, WriterInv, Writing
<1>4. /\ RootShape' /\ disk'.checksums = [disk.checksums EXCEPT ![modality] = mem.entry]
      /\ disk'.unit_embeddings = disk.unit_embeddings /\ disk'.checkpoints = disk.checkpoints
      /\ disk'.manifests = disk.manifests /\ KeepPool /\ disk'.pooled = disk.pooled
      /\ disk'.reports = disk.reports /\ disk'.final = disk.final
  BY <1>1, <1>2 DEF RootShape, KeepPool
<1>5. /\ \A m \in Modalities :
           disk'.checksums[m] = IF m = modality THEN mem.entry ELSE disk.checksums[m]
      /\ \A m : UnitsOf(m)' = UnitsOf(m)
  BY <1>2, <1>4 DEF WriterTypes, UnitsOf
<1>6. WriterTypes' /\ PoolTypes' /\ SessionTypes'
  BY <1>1, <1>2, <1>3, <1>4 DEF WriterTypes, PoolTypes, SessionTypes, Writing
<1>7. WriterInv'
  BY <1>1, <1>2, <1>3, <1>4, <1>5 DEF WriterInv, Writing
<1>8. SealedInv'
  <2>1. \A m \in Modalities : Sealed(m) => Sealed(m)'
    BY <1>3, <1>4, <1>5 DEF Sealed
  <2>2. pc' = "next" => Sealed(modality)'
    BY <1>1, <1>2, <1>3, <1>4, <1>5 DEF WriterInv, Sealed, Writing
  <2> QED BY <1>1, <1>2, <1>3, <1>4, <2>1, <2>2 DEF SealedInv, Writing, PoolStages, Modalities
<1>9. SelectionInv'
  BY <1>1, <1>2, <1>4, <1>5 DEF SelectionInv, Writing
<1>10. KeepsShards => PoolInv'
  BY <1>1, <1>2, <1>3, <1>4, <1>5 DEF PoolInv, FromUnits, PoolStages, KeepPool
<1>11. KeepsPooling => ResumeInv'
  <2>1. \A f, m : Untouched(m)' = Untouched(m) /\ Backed(f, m)' = Backed(f, m)
    BY <1>4, PoolStays
  <2> QED BY <1>1, <1>2, <1>3, <1>4, <2>1 DEF ResumeInv, PoolStages, Writing, KeepPool
<1> QED BY <1>4, <1>6, <1>7, <1>8, <1>9, <1>10, <1>11 DEF IInv, Types

\* One shard more in what is there of a modality.
LEMMA NewShard ==
  ASSUME NEW made, NEW old, NEW new, NEW units, units = [made |-> made, shard |-> old]
  PROVE  [units EXCEPT !.shard = new] = [made |-> made, shard |-> new]
<1> QED OBVIOUS

\* A shard is written together with its entry in memory, before any flush.
LEMMA WriteShardInv ==
  ASSUME IInv, NEW b \in Batches, WriteShard(b)
  PROVE  IInv'
<1>1. /\ pc = "write" /\ pc' = "flushCheckpoint" /\ then' = "write"
      /\ mem.status = "IN_PROGRESS" /\ Wanted[b] # "none" /\ mem.entry[b] = "none"
      /\ disk' = [disk EXCEPT !["unit_embeddings"][modality].shard[b] = Wanted[b]]
      /\ mem' = [mem EXCEPT !.entry[b] = Wanted[b]]
      /\ UNCHANGED <<package, modality, config, resume, replace, export, assessed>>
  BY DEF WriteShard, ReachedBatch, session
<1>2. /\ RootShape /\ WriterTypes /\ PoolTypes /\ SessionTypes
      /\ WriterInv /\ SealedInv /\ SelectionInv
      /\ (KeepsShards => PoolInv) /\ (KeepsPooling => ResumeInv)
  BY DEF IInv, Types
<1>3. /\ modality \in Modalities /\ mem \in State /\ mem.entry \in Slots
      /\ mem.entry = UnitsOf(modality) /\ disk.unit_embeddings[modality].made
      /\ disk.checkpoints[modality] = mem /\ Wanted \in Slots
  BY <1>1, <1>2, SlotsFact DEF SessionTypes, WriterInv, Writing, Wanted
<1>4. PICK entry : entry = [mem.entry EXCEPT ![b] = Wanted[b]]
  OBVIOUS
<1>5. entry \in Slots
  BY <1>3, <1>4 DEF Slots
<1>6. mem' = [status |-> "IN_PROGRESS", entry |-> entry]
  BY <1>1, <1>3, <1>4, SlotsFact
<1>7. /\ RootShape'
      /\ disk'.unit_embeddings = [disk.unit_embeddings EXCEPT ![modality] =
                                    [made |-> TRUE, shard |-> entry]]
      /\ disk'.checkpoints = disk.checkpoints /\ disk'.manifests = disk.manifests
      /\ disk'.checksums = disk.checksums /\ KeepPool /\ disk'.pooled = disk.pooled
      /\ disk'.reports = disk.reports /\ disk'.final = disk.final
  <2>1. disk.unit_embeddings[modality] = [made |-> TRUE, shard |-> mem.entry]
    BY <1>2, <1>3 DEF WriterTypes, UnitsOf
  <2>2. [disk.unit_embeddings[modality] EXCEPT !.shard[b] = Wanted[b]]
          = [made |-> TRUE, shard |-> entry]
    <3>1. PICK units : units = disk.unit_embeddings[modality]
      OBVIOUS
    <3>2. units = [made |-> TRUE, shard |-> mem.entry]
      BY <2>1, <3>1
    <3>3. [units EXCEPT !.shard = entry] = [made |-> TRUE, shard |-> entry]
      BY <3>2, NewShard
    <3>4. units.shard = mem.entry
      BY <3>2
    <3>5. [units EXCEPT !.shard[b] = Wanted[b]] = [units EXCEPT !.shard = entry]
      BY <3>4, <1>4
    <3> QED BY <3>1, <3>3, <3>5
  <2> QED BY <1>1, <1>2, <2>2 DEF RootShape, KeepPool
<1>8. \A m \in Modalities :
        /\ UnitsOf(m)' = IF m = modality THEN entry ELSE UnitsOf(m)
        /\ disk'.unit_embeddings[m].made <=> disk.unit_embeddings[m].made
  BY <1>2, <1>3, <1>7 DEF WriterTypes, UnitsOf
<1>9. WriterTypes'
  <2>1. [made |-> TRUE, shard |-> entry] \in [made : BOOLEAN, shard : Slots]
    BY <1>5
  <2> QED BY <1>2, <1>3, <1>7, <2>1 DEF WriterTypes
<1>10. PoolTypes' /\ SessionTypes'
  BY <1>1, <1>2, <1>5, <1>6, <1>7 DEF PoolTypes, SessionTypes, Writing, State, Statuses
<1>11. WriterInv'
  BY <1>1, <1>2, <1>3, <1>6, <1>8 DEF WriterInv, Writing
<1>12. SealedInv'
  <2>1. \A m \in Modalities : Sealed(m) /\ m # modality => Sealed(m)'
    BY <1>7, <1>8 DEF Sealed
  <2>2. disk.final = "none"
    BY <1>1, <1>2 DEF SealedInv, Writing
  <2> QED BY <1>1, <1>2, <1>7, <2>1, <2>2 DEF SealedInv, Writing, PoolStages, Modalities
<1>13. SelectionInv'
  <2>1. disk.checkpoints[modality].status # "COMPLETED"
    BY <1>1, <1>3
  <2> QED BY <1>1, <1>2, <1>6, <1>7, <1>8, <2>1 DEF SelectionInv, Writing
<1>14. KeepsShards => PoolInv'
  <2> SUFFICES ASSUME KeepsShards PROVE PoolInv'
    OBVIOUS
  <2>1. ASSUME NEW f, NEW m \in Modalities, FromUnits(f, m)
        PROVE  \A a \in Batches : f[a] \in {"none", UnitsOf(m)'[a]}
    BY <1>1, <1>3, <1>4, <1>8, <2>1 DEF FromUnits, Slots
  <2>2. \A m \in Modalities : /\ FromUnits(disk.pooling[m].entry, m)'
                              /\ FromUnits(disk.deltas[m], m)'
    BY <1>2, <1>7, <2>1 DEF PoolInv, FromUnits, KeepPool
  <2>3. disk.final = "none"
    BY <1>1, <1>2 DEF SealedInv, Writing
  <2> QED BY <1>1, <1>7, <2>2, <2>3 DEF PoolInv, PoolStages
<1>15. KeepsPooling => ResumeInv'
  <2>1. \A f, m : Untouched(m)' = Untouched(m) /\ Backed(f, m)' = Backed(f, m)
    BY <1>7, PoolStays
  <2> QED BY <1>1, <1>2, <1>7, <1>8, <2>1 DEF ResumeInv, PoolStages, Writing, KeepPool
<1> QED BY <1>7, <1>9, <1>10, <1>11, <1>12, <1>13, <1>14, <1>15 DEF IInv, Types

\* A completed modality holds exactly what is selected: every selected batch is
\* committed, and there are no more.
LEMMA CompleteInv ==
  ASSUME IInv, Complete
  PROVE  IInv'
<1>1. /\ pc = "write" /\ pc' = "flushCheckpoint" /\ then' = "next"
      /\ mem.status = "IN_PROGRESS" /\ disk' = disk
      /\ \A b \in Filled(Wanted) : mem.entry[b] = Wanted[b]
      /\ Cardinality(Filled(mem.entry)) = Cardinality(Filled(Wanted))
      /\ mem' = [mem EXCEPT !.status = "COMPLETED"]
      /\ UNCHANGED <<package, modality, config, resume, replace, export, assessed>>
  BY DEF Complete, AllWritten, IsBatchCommitted, session
<1>2. /\ SessionTypes /\ WriterInv /\ SealedInv /\ SelectionInv
      /\ (KeepsShards => PoolInv) /\ (KeepsPooling => ResumeInv)
  BY DEF IInv, Types
<1>3. /\ KeepWriter /\ KeepPool /\ RootShape' /\ WriterTypes' /\ PoolTypes'
      /\ \A m : /\ UnitsOf(m)' = UnitsOf(m) /\ Sealed(m)' = Sealed(m)
                /\ Untouched(m)' = Untouched(m)
      /\ \A f, m : FromUnits(f, m)' = FromUnits(f, m) /\ Backed(f, m)' = Backed(f, m)
  BY <1>1, DiskStays
<1>4. mem \in State /\ mem.entry \in Slots /\ config \in Configs /\ Wanted \in Slots
  BY <1>2, SlotsFact DEF SessionTypes, Wanted
<1>5. mem' = [status |-> "COMPLETED", entry |-> mem.entry]
  BY <1>1, <1>4, SlotsFact
<1>6. Filled(mem.entry) = Filled(Wanted)
  <2>1. IsFiniteSet(Batches)
    BY FS_Interval, BatchesAssumption DEF Batches
  <2>2. /\ Filled(Wanted) \subseteq Filled(mem.entry)
        /\ Filled(mem.entry) \subseteq Batches
    BY <1>1 DEF Filled
  <2>3. IsFiniteSet(Filled(mem.entry))
    BY <2>1, <2>2, FS_Subset
  <2> QED BY <1>1, <2>2, <2>3, FS_Subset
<1>7. mem.entry = Selection[config]
  <2>1. \A b \in Batches : mem.entry[b] = Wanted[b]
    BY <1>1, <1>6 DEF Filled
  <2> QED BY <1>4, <2>1 DEF Slots, Wanted
<1>8. SessionTypes'
  BY <1>1, <1>2, <1>4, <1>5 DEF SessionTypes, Writing, State, Statuses
<1>9. WriterInv'
  BY <1>1, <1>2, <1>3, <1>5 DEF WriterInv, Writing, KeepWriter
<1>10. SealedInv'
  BY <1>1, <1>2, <1>3, <1>5 DEF SealedInv, Writing, PoolStages
<1>11. SelectionInv'
  BY <1>1, <1>2, <1>3, <1>4, <1>5, <1>7 DEF SelectionInv, Selected, Writing, KeepWriter
<1>12. KeepsShards => PoolInv'
  BY <1>1, <1>2, <1>3 DEF PoolInv, PoolStages
<1>13. KeepsPooling => ResumeInv'
  BY <1>1, <1>2, <1>3 DEF ResumeInv, PoolStages, Writing
<1> QED BY <1>3, <1>8, <1>9, <1>10, <1>11, <1>12, <1>13 DEF IInv, Types

\* A completed modality that is reused is sealed as it stands.
LEMMA ReuseInv ==
  ASSUME IInv, ReuseCompleted
  PROVE  IInv'
<1>1. /\ pc = "write" /\ mem.status = "COMPLETED" /\ disk' = disk
      /\ pc' \in {"next", "failed"}
      /\ UNCHANGED <<package, modality, then, mem, config, resume, replace, export, assessed,
                     session>>
  BY DEF ReuseCompleted, Goto, session
<1>2. CASE pc' = "failed"
  BY <1>1, <1>2, FailInv
<1>3. CASE pc' = "next"
  <2>1. /\ SessionTypes /\ WriterInv /\ SealedInv /\ SelectionInv
        /\ (KeepsShards => PoolInv) /\ (KeepsPooling => ResumeInv)
    BY DEF IInv, Types
  <2>2. /\ KeepWriter /\ KeepPool /\ RootShape' /\ WriterTypes' /\ PoolTypes'
        /\ \A m : /\ UnitsOf(m)' = UnitsOf(m) /\ Sealed(m)' = Sealed(m)
                  /\ Untouched(m)' = Untouched(m)
        /\ \A f, m : FromUnits(f, m)' = FromUnits(f, m) /\ Backed(f, m)' = Backed(f, m)
    BY <1>1, DiskStays
  <2>3. SessionTypes'
    BY <1>1, <2>1 DEF SessionTypes
  <2>4. Sealed(modality)
    <3>1. mem = [status |-> "COMPLETED", entry |-> UnitsOf(modality)]
      BY <1>1, <2>1, SlotsFact DEF SessionTypes, WriterInv, Writing
    <3> QED BY <1>1, <2>1, <3>1 DEF WriterInv, Writing, Sealed
  <2>5. WriterInv' /\ SealedInv' /\ SelectionInv'
    BY <1>1, <1>3, <2>1, <2>2, <2>4
    DEF WriterInv, SealedInv, SelectionInv, Writing, PoolStages, KeepWriter
  <2>6. KeepsShards => PoolInv'
    BY <1>1, <1>3, <2>1, <2>2 DEF PoolInv, PoolStages
  <2>7. KeepsPooling => ResumeInv'
    BY <1>1, <1>3, <2>1, <2>2 DEF ResumeInv, PoolStages, Writing
  <2> QED BY <2>2, <2>3, <2>5, <2>6, <2>7 DEF IInv, Types
<1> QED BY <1>1, <1>2, <1>3

\* Event is written when node is sealed, both are pooled when both are sealed,
\* and the final manifest is due when both are pooled.
LEMMA NextModalityInv ==
  ASSUME IInv, NextModality
  PROVE  IInv'
<1>1. /\ pc \in {"next", "poolNext"} /\ disk' = disk
      /\ modality' = IF modality = "node" THEN "event" ELSE "node"
      /\ pc = "next" /\ modality = "node" => pc' = "open"
      /\ pc = "poolNext" /\ modality = "event" => pc' = "publish"
      /\ pc = "next" /\ modality = "event" => pc' = "poolOpen"
      /\ pc = "poolNext" /\ modality = "node" => pc' = "poolOpen"
      /\ UNCHANGED <<package, then, mem, config, resume, replace, export, assessed>>
  BY DEF NextModality, session
<1>2. /\ SessionTypes /\ WriterInv /\ SealedInv /\ SelectionInv
      /\ (KeepsShards => PoolInv) /\ (KeepsPooling => ResumeInv)
  BY DEF IInv, Types
<1>3. /\ KeepWriter /\ KeepPool /\ RootShape' /\ WriterTypes' /\ PoolTypes'
      /\ \A m : /\ UnitsOf(m)' = UnitsOf(m) /\ Sealed(m)' = Sealed(m)
                /\ Untouched(m)' = Untouched(m)
      /\ \A f, m : FromUnits(f, m)' = FromUnits(f, m) /\ Backed(f, m)' = Backed(f, m)
  BY <1>1, DiskStays
<1>4. modality \in {"node", "event"} /\ modality' \in {"node", "event"}
      /\ Modalities = {"node", "event"}
  BY <1>1, <1>2 DEF SessionTypes, Modalities
<1>5. SessionTypes'
  BY <1>1, <1>2, <1>4 DEF SessionTypes, PoolStages
<1>6. WriterInv' /\ SelectionInv'
  BY <1>1, <1>2, <1>3, <1>4 DEF WriterInv, SelectionInv, Writing, KeepWriter
<1>7. SealedInv'
  BY <1>1, <1>2, <1>3, <1>4 DEF SealedInv, Writing, PoolStages
<1>8. KeepsShards => PoolInv'
  BY <1>1, <1>2, <1>3, <1>4 DEF PoolInv, PoolStages, KeepPool
<1>9. KeepsPooling => ResumeInv'
  BY <1>1, <1>2, <1>3, <1>4 DEF ResumeInv, PoolStages, Writing, KeepWriter
<1> QED BY <1>3, <1>5, <1>6, <1>7, <1>8, <1>9 DEF IInv, Types

\* The pooler leaves alone what the writer has sealed.
LEMMA PoolerStays ==
  ASSUME IInv, pc \in PoolStages, pc' \in PoolStages, KeepWriter,
         modality' = modality, disk'.final = disk.final
  PROVE  /\ WriterTypes' /\ WriterInv' /\ SealedInv' /\ SelectionInv'
         /\ \A m : UnitsOf(m)' = UnitsOf(m)
         /\ \A f, m : FromUnits(f, m)' = FromUnits(f, m)
         /\ \A m \in Modalities : /\ disk.unit_embeddings[m].made
                                  /\ disk.checksums[m] = UnitsOf(m)
<1>1. WriterTypes /\ WriterInv /\ SealedInv /\ SelectionInv
  BY DEF IInv, Types
<1>2. /\ WriterTypes'
      /\ \A m : UnitsOf(m)' = UnitsOf(m) /\ Sealed(m)' = Sealed(m)
      /\ \A f, m : FromUnits(f, m)' = FromUnits(f, m)
  BY <1>1, WriterStays
<1>3. WriterInv' /\ SealedInv' /\ SelectionInv'
  <2>1. \A m \in Modalities : ~disk'.unit_embeddings[m].made => UnitsOf(m)' = NoSlots
    BY <1>1, <1>2 DEF WriterInv, KeepWriter
  <2> QED BY <1>1, <1>2, <2>1
          DEF WriterInv, SealedInv, SelectionInv, Writing, PoolStages, KeepWriter
<1>4. \A m \in Modalities : /\ disk.unit_embeddings[m].made
                            /\ disk.checksums[m] = UnitsOf(m)
  BY <1>1 DEF SealedInv, Sealed
<1> QED BY <1>2, <1>3, <1>4

\* Opening the pooler makes directories and nothing else.
LEMMA DirsFact ==
  ASSUME RootShape, PoolTypes, disk' = MakeDirs(disk)
  PROVE  /\ RootShape' /\ PoolTypes' /\ KeepWriter /\ KeepPool
         /\ disk'.final = disk.final
<1>1. RootShape' /\ KeepWriter /\ disk'.final = disk.final
  BY DEF MakeDirs, RootShape, KeepWriter
<1>2. /\ disk'.pooling = disk.pooling /\ disk'.deltas = disk.deltas
      /\ disk'.reports = TRUE /\ disk'.pooled = [disk.pooled EXCEPT !.made = TRUE]
  BY DEF MakeDirs, RootShape
<1>3. KeepPool
  BY <1>2 DEF KeepPool, PoolTypes
<1> QED BY <1>1, <1>2, <1>3 DEF PoolTypes

\* A pooler that is refused has changed nothing that is pooled.
LEMMA PoolRefusedInv ==
  ASSUME IInv, PoolRefused
  PROVE  IInv'
<1>1. /\ pc' = "failed" /\ disk' = MakeDirs(disk)
      /\ UNCHANGED <<package, modality, then, mem, config, resume, replace, export, assessed>>
  BY DEF PoolRefused, Goto, session
<1>2. RootShape' /\ PoolTypes' /\ KeepWriter /\ KeepPool /\ disk'.final = disk.final
  BY <1>1, DirsFact DEF IInv, Types
<1>3. SessionTypes'
  BY <1>1 DEF IInv, Types, SessionTypes
<1> QED BY <1>1, <1>2, <1>3, Stops

\* A fresh pooling has pooled nothing.
LEMMA PoolFreshInv ==
  ASSUME IInv, PoolFresh
  PROVE  IInv'
<1>1. /\ pc = "poolOpen" /\ pc' = "poolSave" /\ mem' = NewState /\ disk' = MakeDirs(disk)
      /\ UNCHANGED <<package, modality, then, config, resume, replace, export, assessed>>
  BY DEF PoolFresh, Goto, session
<1>2. /\ RootShape /\ PoolTypes /\ SessionTypes
      /\ (KeepsShards => PoolInv) /\ (KeepsPooling => ResumeInv)
  BY DEF IInv, Types
<1>3. RootShape' /\ PoolTypes' /\ KeepWriter /\ KeepPool /\ disk'.final = disk.final
  BY <1>1, <1>2, DirsFact
<1>4. /\ WriterTypes' /\ WriterInv' /\ SealedInv' /\ SelectionInv'
      /\ \A m : UnitsOf(m)' = UnitsOf(m)
      /\ \A f, m : FromUnits(f, m)' = FromUnits(f, m)
  BY <1>1, <1>3, PoolerStays DEF PoolStages
<1>5. SessionTypes'
  BY <1>1, <1>2, SlotsFact DEF SessionTypes, PoolStages
<1>6. KeepsShards => PoolInv'
  <2>1. FromUnits(NewState.entry, modality)
    BY SlotsFact DEF FromUnits
  <2> QED BY <1>1, <1>2, <1>3, <1>4, <2>1 DEF PoolInv, PoolStages, KeepPool
<1>7. KeepsPooling => ResumeInv'
  <2>1. Backed(NewState.entry, modality)
    BY SlotsFact DEF Backed
  <2>2. \A f, m : Untouched(m)' = Untouched(m) /\ Backed(f, m)' = Backed(f, m)
    BY <1>3, PoolStays
  <2> QED BY <1>1, <1>2, <1>3, <2>1, <2>2
          DEF ResumeInv, PoolStages, Writing, KeepPool, KeepWriter
<1> QED BY <1>3, <1>4, <1>5, <1>6, <1>7 DEF IInv, Types

\* A resumed pooling has pooled what its checkpoint lists and what is left of
\* its deltas.
LEMMA PoolResumeInv ==
  ASSUME IInv, PoolResume
  PROVE  IInv'
<1>1. /\ pc = "poolOpen" /\ pc' = "poolSave" /\ resume /\ disk' = MakeDirs(disk)
      /\ disk.pooling[modality] # NoState
      /\ mem' = [disk.pooling[modality] EXCEPT
                   !.entry = [b \in Batches |-> IF @[b] = "none" THEN disk.deltas[modality][b]
                                                                 ELSE @[b]]]
      /\ UNCHANGED <<package, modality, then, config, resume, replace, export, assessed>>
  BY DEF PoolResume, Goto, session, Pool, Delta
<1>2. /\ RootShape /\ PoolTypes /\ SessionTypes
      /\ (KeepsShards => PoolInv) /\ (KeepsPooling => ResumeInv)
  BY DEF IInv, Types
<1>3. RootShape' /\ PoolTypes' /\ KeepWriter /\ KeepPool /\ disk'.final = disk.final
  BY <1>1, <1>2, DirsFact
<1>4. /\ WriterTypes' /\ WriterInv' /\ SealedInv' /\ SelectionInv'
      /\ \A m : UnitsOf(m)' = UnitsOf(m)
      /\ \A f, m : FromUnits(f, m)' = FromUnits(f, m)
  BY <1>1, <1>3, PoolerStays DEF PoolStages
<1>5. PICK pool, delta : pool = disk.pooling[modality] /\ delta = disk.deltas[modality]
  OBVIOUS
<1>6. modality \in Modalities /\ pool \in State /\ delta \in Slots /\ pool.entry \in Slots
  BY <1>1, <1>2, <1>5, SlotsFact DEF SessionTypes, PoolTypes
<1>7. /\ mem' \in State
      /\ \A b \in Batches : mem'.entry[b] = IF pool.entry[b] = "none" THEN delta[b]
                                                                      ELSE pool.entry[b]
  <2>1. PICK entry : entry = [b \in Batches |-> IF pool.entry[b] = "none" THEN delta[b]
                                                                          ELSE pool.entry[b]]
    OBVIOUS
  <2>2. mem' = [pool EXCEPT !.entry = entry]
    BY <1>1, <1>5, <2>1
  <2>3. entry \in Slots
    BY <1>6, <2>1 DEF Slots
  <2>4. mem' \in State /\ mem'.entry = entry
    BY <1>6, <2>2, <2>3 DEF State
  <2> QED BY <2>1, <2>4
<1>8. SessionTypes'
  BY <1>1, <1>2, <1>7 DEF SessionTypes, PoolStages
<1>9. KeepsShards => PoolInv'
  <2>1. KeepsShards => FromUnits(mem'.entry, modality)
    BY <1>2, <1>5, <1>6, <1>7 DEF PoolInv, FromUnits
  <2> QED BY <1>1, <1>2, <1>3, <1>4, <2>1 DEF PoolInv, PoolStages, KeepPool
<1>10. KeepsPooling => ResumeInv'
  <2>1. KeepsPooling => Backed(mem'.entry, modality)
    BY <1>2, <1>5, <1>6, <1>7 DEF ResumeInv, Backed
  <2>2. \A f, m : Untouched(m)' = Untouched(m) /\ Backed(f, m)' = Backed(f, m)
    BY <1>3, PoolStays
  <2> QED BY <1>1, <1>2, <1>3, <2>1, <2>2
          DEF ResumeInv, PoolStages, Writing, KeepPool, KeepWriter
<1> QED BY <1>3, <1>4, <1>8, <1>9, <1>10 DEF IInv, Types

\* The pooler's checkpoint is its memory, of which every shard has its delta.
LEMMA PoolSavedInv ==
  ASSUME IInv, \/ pc = "poolSave" /\ pc' = "delta"
               \/ pc = "poolSeal" /\ pc' = "poolNext",
         disk' = [disk EXCEPT !["pooling"][modality] = mem],
         UNCHANGED <<package, modality, then, mem, config, resume, replace, export, assessed>>
  PROVE  IInv'
<1>2. /\ RootShape /\ PoolTypes /\ SessionTypes
      /\ (KeepsShards => PoolInv) /\ (KeepsPooling => ResumeInv)
  BY DEF IInv, Types
<1>3. /\ RootShape' /\ KeepWriter /\ disk'.final = disk.final
      /\ disk'.pooling = [disk.pooling EXCEPT ![modality] = mem]
      /\ disk'.deltas = disk.deltas /\ disk'.pooled = disk.pooled
      /\ disk'.reports = disk.reports
  BY <1>2 DEF RootShape, KeepWriter
<1>4. /\ WriterTypes' /\ WriterInv' /\ SealedInv' /\ SelectionInv'
      /\ \A m : UnitsOf(m)' = UnitsOf(m)
      /\ \A f, m : FromUnits(f, m)' = FromUnits(f, m)
      /\ \A m \in Modalities : disk.unit_embeddings[m].made
  BY <1>3, PoolerStays DEF PoolStages
<1>5. modality \in Modalities /\ mem \in State /\ mem # NoState
  BY <1>2, SlotsFact DEF SessionTypes
<1>6. \A m \in Modalities : disk'.pooling[m] = IF m = modality THEN mem ELSE disk.pooling[m]
  BY <1>2, <1>3, <1>5 DEF PoolTypes
<1>7. PoolTypes' /\ SessionTypes'
  BY <1>2, <1>3, <1>5 DEF PoolTypes, SessionTypes, PoolStages
<1>8. KeepsShards => PoolInv'
  <2> SUFFICES ASSUME KeepsShards PROVE PoolInv'
    OBVIOUS
  <2>1. \A m \in Modalities : /\ FromUnits(disk.pooling[m].entry, m)'
                              /\ FromUnits(disk.deltas[m], m)'
    BY <1>2, <1>3, <1>4, <1>6 DEF PoolInv, FromUnits
  <2> QED BY <1>2, <1>3, <1>4, <2>1 DEF PoolInv, PoolStages
<1>9. KeepsPooling => ResumeInv'
  <2> SUFFICES ASSUME KeepsPooling PROVE ResumeInv'
    OBVIOUS
  <2>1. /\ \A f, m : Backed(f, m)' = Backed(f, m)
        /\ \A m \in Modalities : m # modality => Untouched(m)' = Untouched(m)
    BY <1>3, <1>6 DEF Backed, Untouched
  <2>2. \A m \in Modalities : /\ disk'.pooling[m] = NoState => Filled(disk'.deltas[m]) = {}
                              /\ Backed(disk.pooling[m].entry, m)'
    <3>1. \A m \in Modalities : disk'.pooling[m] = NoState => Filled(disk'.deltas[m]) = {}
      BY <1>2, <1>3, <1>5, <1>6 DEF ResumeInv
    <3>2. \A m \in Modalities : Backed(disk'.pooling[m].entry, m)
      BY <1>2, <1>6 DEF ResumeInv
    <3>3. \A m \in Modalities : Backed(disk.pooling[m].entry, m)'
      BY <3>2, <1>3 DEF Backed
    <3> QED BY <3>1, <3>3
  <2>3. \A m \in Modalities : disk'.unit_embeddings[m].made
    BY <1>3, <1>4 DEF KeepWriter
  <2>4. ~resume => (modality = "node" => Untouched("event")')
    BY <1>2, <2>1 DEF ResumeInv, PoolStages, Modalities
  <2> QED BY <1>2, <1>3, <1>5, <1>6, <2>1, <2>2, <2>3, <2>4 DEF ResumeInv, PoolStages, Writing
<1> QED BY <1>3, <1>4, <1>7, <1>8, <1>9 DEF IInv, Types

\* A delta is a listed shard, which is the one on disk: the delta is written
\* before the checkpoint lists it, so the checkpoint stays backed.
LEMMA WriteDeltaInv ==
  ASSUME IInv, NEW b \in Batches, WriteDelta(b)
  PROVE  IInv'
<1>1. PICK listed : listed = disk.checksums[modality][b]
  OBVIOUS
<1>2. /\ pc = "delta" /\ pc' = "poolSave"
      /\ listed # "none" /\ listed = UnitsOf(modality)[b] /\ mem.entry[b] = "none"
      /\ disk' = [disk EXCEPT !["deltas"][modality][b] = listed]
      /\ mem' = [mem EXCEPT !.entry[b] = listed]
      /\ UNCHANGED <<package, modality, then, config, resume, replace, export, assessed>>
  BY <1>1 DEF WriteDelta, ReachedDelta, Listed, Goto, session
<1>3. /\ RootShape /\ WriterTypes /\ PoolTypes /\ SessionTypes
      /\ (KeepsShards => PoolInv) /\ (KeepsPooling => ResumeInv)
  BY DEF IInv, Types
<1>4. /\ RootShape' /\ KeepWriter /\ disk'.final = disk.final
      /\ disk'.deltas = [disk.deltas EXCEPT ![modality] = [@ EXCEPT ![b] = listed]]
      /\ disk'.pooling = disk.pooling /\ disk'.pooled = disk.pooled
      /\ disk'.reports = disk.reports
  BY <1>2, <1>3 DEF RootShape, KeepWriter
<1>5. /\ WriterTypes' /\ WriterInv' /\ SealedInv' /\ SelectionInv'
      /\ \A m : UnitsOf(m)' = UnitsOf(m)
      /\ \A f, m : FromUnits(f, m)' = FromUnits(f, m)
      /\ \A m \in Modalities : disk.unit_embeddings[m].made
  BY <1>2, <1>4, PoolerStays DEF PoolStages
<1>6. /\ modality \in Modalities /\ mem \in State /\ mem.entry \in Slots
      /\ disk.checksums[modality] \in Slots /\ disk.deltas[modality] \in Slots
      /\ listed \in Contents \cup {"none"}
  BY <1>1, <1>3, SlotsFact DEF SessionTypes, WriterTypes, PoolTypes, Slots
<1>7. \A m \in Modalities, a \in Batches :
        disk'.deltas[m][a] = IF m = modality /\ a = b THEN listed ELSE disk.deltas[m][a]
  BY <1>3, <1>4, <1>6 DEF PoolTypes, Slots
<1>8. /\ mem' \in State
      /\ \A a \in Batches : mem'.entry[a] = IF a = b THEN listed ELSE mem.entry[a]
  <2>1. PICK entry : entry = [mem.entry EXCEPT ![b] = listed]
    OBVIOUS
  <2>2. mem' = [mem EXCEPT !.entry = entry]
    BY <1>2, <2>1
  <2>3. entry \in Slots
    BY <1>6, <2>1 DEF Slots
  <2>4. mem' \in State /\ mem'.entry = entry
    BY <1>6, <2>2, <2>3 DEF State
  <2> QED BY <1>6, <2>1, <2>4 DEF Slots
<1>9. PoolTypes'
  <2>1. [disk.deltas[modality] EXCEPT ![b] = listed] \in Slots
    BY <1>6 DEF Slots
  <2> QED BY <1>3, <1>4, <1>6, <2>1 DEF PoolTypes
<1>10. SessionTypes'
  BY <1>2, <1>3, <1>8 DEF SessionTypes, PoolStages
<1>11. KeepsShards => PoolInv'
  <2> SUFFICES ASSUME KeepsShards PROVE PoolInv'
    OBVIOUS
  <2>1. \A m \in Modalities, a \in Batches : disk'.deltas[m][a] \in {"none", UnitsOf(m)[a]}
    BY <1>2, <1>3, <1>7 DEF PoolInv, FromUnits
  <2>2. \A a \in Batches : mem'.entry[a] \in {"none", UnitsOf(modality)[a]}
    BY <1>2, <1>3, <1>8 DEF PoolInv, FromUnits
  <2>3. \A m \in Modalities : FromUnits(disk.deltas[m], m)'
    BY <1>5, <2>1 DEF FromUnits
  <2>4. FromUnits(mem.entry, modality)'
    BY <1>2, <1>5, <2>2 DEF FromUnits
  <2>5. \A m \in Modalities : FromUnits(disk.pooling[m].entry, m)'
    BY <1>3, <1>4, <1>5 DEF PoolInv, FromUnits
  <2> QED BY <1>2, <1>3, <1>4, <1>5, <2>3, <2>4, <2>5 DEF PoolInv, PoolStages
<1>12. KeepsPooling => ResumeInv'
  <2> SUFFICES ASSUME KeepsPooling PROVE ResumeInv'
    OBVIOUS
  <2>1. PoolInv
    BY <1>3 DEF KeepsPooling, KeepsShards
  <2>2. disk.pooling[modality] # NoState
    BY <1>2, <1>3 DEF ResumeInv
  <2>3. \A m \in Modalities : m # modality => (disk'.deltas[m] = disk.deltas[m]
                                               /\ Untouched(m)' = Untouched(m))
    BY <1>3, <1>4, <1>6 DEF PoolTypes, Untouched
  <2>4. \A m \in Modalities, a \in Batches :
          disk.pooling[m].entry[a] # "none" => disk'.deltas[m][a] = disk.pooling[m].entry[a]
    BY <1>2, <1>3, <1>7, <2>1 DEF ResumeInv, Backed, PoolInv, FromUnits
  <2>5. \A m \in Modalities : Backed(disk.pooling[m].entry, m)'
    BY <1>4, <2>4 DEF Backed
  <2>6. \A a \in Batches : mem'.entry[a] # "none" => disk'.deltas[modality][a] = mem'.entry[a]
    BY <1>2, <1>3, <1>6, <1>7, <1>8 DEF ResumeInv, Backed
  <2>7. Backed(mem.entry, modality)'
    BY <1>2, <2>6 DEF Backed
  <2>8. \A m \in Modalities : disk'.pooling[m] = NoState => Filled(disk'.deltas[m]) = {}
    BY <1>3, <1>4, <2>2, <2>3 DEF ResumeInv
  <2>9. \A m \in Modalities : disk'.unit_embeddings[m].made
    BY <1>4, <1>5 DEF KeepWriter
  <2>10. ~resume => (modality = "node" => Untouched("event")')
    BY <1>2, <1>3, <2>3 DEF ResumeInv, PoolStages, Modalities
  <2> QED BY <1>2, <2>5, <2>7, <2>8, <2>9, <2>10 DEF ResumeInv, PoolStages, Writing
<1> QED BY <1>4, <1>5, <1>9, <1>10, <1>11, <1>12 DEF IInv, Types

\* When every listed shard is pooled, what is pooled is the shards.
LEMMA PublishArraysInv ==
  ASSUME IInv, PublishArrays
  PROVE  IInv'
<1>1. /\ pc = "delta" /\ pc' = "poolSeal"
      /\ \A b \in Filled(disk.checksums[modality]) : mem.entry[b] = disk.checksums[modality][b]
      /\ disk' = [disk EXCEPT !["pooled"].arrays[modality] = mem.entry]
      /\ mem' = [mem EXCEPT !.status = "COMPLETED"]
      /\ UNCHANGED <<package, modality, then, config, resume, replace, export, assessed>>
  BY DEF PublishArrays, DeltasDone, Listed, Goto, session
<1>2. /\ RootShape /\ WriterTypes /\ PoolTypes /\ SessionTypes
      /\ (KeepsShards => PoolInv) /\ (KeepsPooling => ResumeInv)
  BY DEF IInv, Types
<1>3. PICK arrays : arrays = [disk.pooled.arrays EXCEPT ![modality] = mem.entry]
  OBVIOUS
<1>4. /\ RootShape' /\ KeepWriter /\ disk'.final = disk.final
      /\ disk'.pooled = [disk.pooled EXCEPT !.arrays = arrays]
      /\ disk'.pooling = disk.pooling /\ disk'.deltas = disk.deltas
      /\ disk'.reports = disk.reports
  BY <1>1, <1>2, <1>3 DEF RootShape, KeepWriter
<1>5. /\ WriterTypes' /\ WriterInv' /\ SealedInv' /\ SelectionInv'
      /\ \A m : UnitsOf(m)' = UnitsOf(m)
      /\ \A f, m : FromUnits(f, m)' = FromUnits(f, m)
      /\ \A m \in Modalities : disk.checksums[m] = UnitsOf(m)
  BY <1>1, <1>4, PoolerStays DEF PoolStages
<1>6. /\ modality \in Modalities /\ mem \in State /\ mem.entry \in Slots
      /\ UnitsOf(modality) \in Slots
  BY <1>2, SlotsFact DEF SessionTypes, WriterTypes, UnitsOf
<1>7. /\ disk'.pooled.arrays = arrays /\ arrays \in [Modalities -> Slots]
      /\ disk'.pooled \in [made : BOOLEAN, arrays : [Modalities -> Slots]]
      /\ \A m \in Modalities :
           arrays[m] = IF m = modality THEN mem.entry ELSE disk.pooled.arrays[m]
  BY <1>2, <1>3, <1>4, <1>6 DEF PoolTypes
<1>8. mem' = [status |-> "COMPLETED", entry |-> mem.entry]
  BY <1>1, <1>6, SlotsFact
<1>9. PoolTypes' /\ SessionTypes'
  BY <1>1, <1>2, <1>4, <1>6, <1>7, <1>8 DEF PoolTypes, SessionTypes, PoolStages, State, Statuses
<1>10. KeepsShards => PoolInv'
  <2> SUFFICES ASSUME KeepsShards PROVE PoolInv'
    OBVIOUS
  <2>1. FromUnits(mem.entry, modality)
    BY <1>1, <1>2 DEF PoolInv
  <2>2. \A b \in Batches : mem.entry[b] = UnitsOf(modality)[b]
    BY <1>1, <1>5, <1>6, <2>1 DEF FromUnits, Filled
  <2>3. mem.entry = UnitsOf(modality)
    BY <1>6, <2>2 DEF Slots
  <2>4. \A m \in Modalities : /\ FromUnits(disk.pooling[m].entry, m)'
                              /\ FromUnits(disk.deltas[m], m)'
    BY <1>2, <1>4, <1>5 DEF PoolInv, FromUnits
  <2> QED BY <1>1, <1>2, <1>4, <1>5, <1>6, <1>7, <1>8, <2>1, <2>3, <2>4
          DEF PoolInv, PoolStages, Modalities
<1>11. KeepsPooling => ResumeInv'
  <2>1. /\ \A f, m : Backed(f, m)' = Backed(f, m)
        /\ \A m : Untouched(m)' = Untouched(m)
    BY <1>4 DEF Backed, Untouched
  <2> QED BY <1>1, <1>2, <1>4, <1>8, <2>1 DEF ResumeInv, PoolStages, Writing, KeepWriter
<1> QED BY <1>4, <1>5, <1>9, <1>10, <1>11 DEF IInv, Types

\* The final manifest says of the root what is already true of it.
LEMMA PublishFinalInv ==
  ASSUME IInv, PublishFinal
  PROVE  IInv'
<1>1. /\ pc = "publish" /\ pc' \in {"export", "done"}
      /\ disk' = [disk EXCEPT !["final"] = config]
      /\ UNCHANGED <<package, modality, then, mem, config, resume, replace, export, assessed>>
  BY DEF PublishFinal, Goto, session
<1>2. /\ RootShape /\ WriterTypes /\ PoolTypes /\ SessionTypes
      /\ WriterInv /\ SealedInv /\ SelectionInv
      /\ (KeepsShards => PoolInv) /\ (KeepsPooling => ResumeInv)
  BY DEF IInv, Types
<1>3. /\ RootShape' /\ KeepWriter /\ KeepPool /\ disk'.final = config
      /\ disk'.pooled = disk.pooled /\ disk'.reports = disk.reports
  BY <1>1, <1>2 DEF RootShape, KeepWriter, KeepPool
<1>4. /\ WriterTypes'
      /\ \A m : UnitsOf(m)' = UnitsOf(m) /\ Sealed(m)' = Sealed(m)
      /\ \A f, m : FromUnits(f, m)' = FromUnits(f, m)
  BY <1>2, <1>3, WriterStays
<1>5. PoolTypes' /\ SessionTypes'
  BY <1>1, <1>2, <1>3 DEF PoolTypes, SessionTypes, KeepPool
<1>6. WriterInv' /\ SealedInv' /\ SelectionInv'
  <2>1. \A m \in Modalities : ~disk'.unit_embeddings[m].made => UnitsOf(m)' = NoSlots
    BY <1>2, <1>3, <1>4 DEF WriterInv, KeepWriter
  <2> QED BY <1>1, <1>2, <1>3, <1>4, <2>1
          DEF WriterInv, SealedInv, SelectionInv, Writing, PoolStages, KeepWriter
<1>7. KeepsShards => PoolInv'
  BY <1>1, <1>2, <1>3, <1>4 DEF PoolInv, PoolStages, KeepPool
<1>8. KeepsPooling => ResumeInv'
  <2>1. \A f, m : Untouched(m)' = Untouched(m) /\ Backed(f, m)' = Backed(f, m)
    BY <1>3, PoolStays
  <2> QED BY <1>1, <1>2, <1>3, <2>1 DEF ResumeInv, PoolStages, Writing, KeepPool, KeepWriter
<1> QED BY <1>3, <1>4, <1>5, <1>6, <1>7, <1>8 DEF IInv, Types

\* The export touches the package only.
LEMMA ExportInv ==
  ASSUME IInv, ExportBegins \/ ExportEnds
  PROVE  IInv'
<1>1. /\ pc' \in {"copy", "done"} /\ package' \in {"partial", "complete"}
      /\ UNCHANGED <<disk, modality, then, mem, config, resume, replace, export, assessed>>
  BY DEF ExportBegins, ExportEnds, session
<1>2. SessionTypes'
  BY <1>1 DEF IInv, Types, SessionTypes
<1> QED BY <1>1, <1>2, DiskStays, Stops

-----------------------------------------------------------------------------
(***************************************************************************)
(* The theorems.                                                           *)
(***************************************************************************)
\* Every step of every session keeps the invariant.
LEMMA NextInv == IInv /\ [Next]_vars => IInv'
<1> SUFFICES ASSUME IInv, [Next]_vars PROVE IInv'
  OBVIOUS
<1>1. CASE Start
  BY <1>1, StartInv
<1>2. CASE Prepare
  BY <1>2, PrepareInv
<1>3. CASE Remove
  BY <1>3, RemoveOneInv, RemoveRootInv DEF Remove
<1>4. CASE OpenRefused \/ CompleteFails \/ \E b \in Batches : ReplayFails(b)
  BY <1>4, FailInv DEF OpenRefused, CompleteFails, ReplayFails, Goto
<1>5. CASE OpenFresh \/ OpenExisting
  BY <1>5, OpenFreshInv, OpenExistingInv
<1>6. CASE FlushCheckpoint \/ FlushManifest \/ FlushChecksums
  BY <1>6, FlushCheckpointInv, FlushManifestInv, FlushChecksumsInv
<1>7. CASE ReuseCompleted \/ Complete \/ NextModality \/ \E b \in Batches : WriteShard(b)
  BY <1>7, ReuseInv, CompleteInv, NextModalityInv, WriteShardInv
<1>8. CASE PoolRefused \/ PoolFresh \/ PoolResume
  BY <1>8, PoolRefusedInv, PoolFreshInv, PoolResumeInv
<1>9. CASE PoolSave \/ PoolSeal
  <2>1. /\ \/ pc = "poolSave" /\ pc' = "delta"
           \/ pc = "poolSeal" /\ pc' = "poolNext"
        /\ disk' = [disk EXCEPT !["pooling"][modality] = mem]
        /\ UNCHANGED <<package, modality, then, mem, config, resume, replace, export, assessed>>
    BY <1>9 DEF PoolSave, PoolSeal, Put, Goto, session
  <2> QED BY <2>1, PoolSavedInv
<1>10. CASE PublishArrays \/ \E b \in Batches : WriteDelta(b)
  BY <1>10, PublishArraysInv, WriteDeltaInv
<1>11. CASE MergeFails \/ ExportRefused \/ \E b \in Batches : DeltaFails(b)
  BY <1>11, FailInv DEF MergeFails, ExportRefused, DeltaFails, Goto
<1>12. CASE PublishFinal \/ ExportBegins \/ ExportEnds
  BY <1>12, PublishFinalInv, ExportInv
<1>13. CASE Exit \/ Crash
  BY <1>13, DownInv DEF Exit, Crash
<1>14. CASE UNCHANGED vars
  <2>1. UNCHANGED <<disk, package, pc, modality, then, mem, config, resume, replace, export,
                    assessed>>
    BY <1>14 DEF vars
  <2>2. /\ SessionTypes /\ WriterInv /\ SealedInv /\ SelectionInv
        /\ (KeepsShards => PoolInv) /\ (KeepsPooling => ResumeInv)
    BY DEF IInv, Types
  <2>3. /\ RootShape' /\ WriterTypes' /\ PoolTypes'
        /\ \A m : /\ UnitsOf(m)' = UnitsOf(m) /\ Sealed(m)' = Sealed(m)
                  /\ Untouched(m)' = Untouched(m)
        /\ \A f, m : FromUnits(f, m)' = FromUnits(f, m) /\ Backed(f, m)' = Backed(f, m)
    BY <2>1, DiskStays
  <2>4. SessionTypes' /\ WriterInv' /\ SealedInv' /\ SelectionInv'
    BY <2>1, <2>2, <2>3 DEF SessionTypes, WriterInv, SealedInv, SelectionInv
  <2>5. (KeepsShards => PoolInv') /\ (KeepsPooling => ResumeInv')
    BY <2>1, <2>2, <2>3 DEF PoolInv, ResumeInv
  <2> QED BY <2>3, <2>4, <2>5 DEF IInv, Types
<1> QED BY <1>1, <1>2, <1>3, <1>4, <1>5, <1>6, <1>7, <1>8, <1>9, <1>10, <1>11, <1>12, <1>13,
           <1>14 DEF Next, Step, Write, Pooling, Export

\* In every reachable state the invariant holds.
THEOREM Inductive == Spec => []IInv
<1> QED BY InitInv, NextInv, PTL DEF Spec

\* Every variable keeps its type, in every session.
THEOREM TypeCorrect == Spec => []TypeOK
<1>1. IInv => TypeOK
  BY DEF IInv, Types, WriterTypes, PoolTypes, SessionTypes, Writing, PoolStages, TypeOK
<1> QED BY <1>1, Inductive, PTL

\* FinalIsSealed: whatever configurations and flags the sessions had and
\* wherever they were killed, a final manifest (pipeline.run_embedding_pipeline)
\* is only ever seen over two modalities whose four files agree.
THEOREM PublishedIsSealed == Spec => []FinalIsSealed
<1>1. IInv => FinalIsSealed
  BY DEF IInv, SealedInv, Sealed, FinalIsSealed
<1> QED BY <1>1, Inductive, PTL

\* CompletedIsSelection: a completed run never mixes what two configurations
\* select, though an interrupted session may be resumed under another one.
THEOREM CompletedIsOneSelection == Spec => []CompletedIsSelection
<1>1. IInv => CompletedIsSelection
  <2> SUFFICES ASSUME IInv, Completed, NEW m \in Modalities
               PROVE  \E c \in Configs : UnitsOf(m) = Selection[c]
    BY DEF CompletedIsSelection
  <2>1. disk.checkpoints[m] = [status |-> "COMPLETED", entry |-> UnitsOf(m)]
    BY DEF IInv, SealedInv, Sealed, Completed
  <2> QED BY <2>1 DEF IInv, SelectionInv, Selected
<1> QED BY <1>1, Inductive, PTL

\* PooledFromUnits: provided a killed removal takes the shards last, the arrays
\* of a completed run are made of its own shards.  (Without the proviso this is
\* false: pooled units then outlive the shards they are made of.)
THEOREM ArraysAreUnits ==
  ASSUME KeepsShards
  PROVE  Spec => []PooledFromUnits
<1>1. IInv => PooledFromUnits
  BY DEF IInv, PoolInv, Completed, PooledFromUnits
<1> QED BY <1>1, Inductive, PTL

\* No step takes a final manifest, or a shard under it, away.
LEMMA FinalStep ==
  ASSUME IInv, Next, disk.final # "none"
  PROVE  disk'.final # "none" /\ disk'.unit_embeddings = disk.unit_embeddings
<1>1. /\ RootShape /\ WriterTypes /\ SessionTypes /\ SealedInv
      /\ \A m \in Modalities : Sealed(m)
      /\ pc # "remove" /\ (pc \in Writing => mem.status = "COMPLETED")
  BY DEF IInv, Types, SealedInv
<1>2. modality \in Modalities
  BY <1>1 DEF SessionTypes
<1>3. CASE Start \/ Prepare \/ Exit \/ Crash
  BY <1>3 DEF Start, Prepare, Exit, Crash
<1>4. CASE Remove
  BY <1>1, <1>4 DEF Remove, RemoveOne, RemoveRoot
<1>5. CASE \/ OpenRefused \/ ReuseCompleted \/ Complete \/ CompleteFails \/ NextModality
           \/ \E b \in Batches : ReplayFails(b)
  BY <1>5 DEF OpenRefused, ReuseCompleted, Complete, CompleteFails, NextModality, ReplayFails
<1>6. CASE OpenFresh
  BY <1>1, <1>2, <1>6 DEF OpenFresh, Sealed
<1>7. CASE OpenExisting
  <2>1. PICK units : units = disk.unit_embeddings[modality]
    OBVIOUS
  <2>2. units \in [made : BOOLEAN, shard : Slots] /\ units.made
    BY <1>1, <1>2, <2>1 DEF WriterTypes, Sealed
  <2>3. [units EXCEPT !.made = TRUE] = units
    BY <2>2
  <2>4. disk' = [disk EXCEPT !["unit_embeddings"][modality] = units]
    BY <1>7, <2>1, <2>3 DEF OpenExisting, Put
  <2>5. /\ disk'.unit_embeddings = [disk.unit_embeddings EXCEPT ![modality] = units]
        /\ disk'.final = disk.final
    BY <1>1, <2>4 DEF RootShape
  <2> QED BY <1>1, <2>1, <2>5 DEF WriterTypes
<1>8. CASE FlushCheckpoint \/ FlushManifest \/ FlushChecksums
  BY <1>1, <1>8 DEF FlushCheckpoint, FlushManifest, FlushChecksums, Put, RootShape
<1>9. CASE \E b \in Batches : WriteShard(b)
  BY <1>1, <1>9 DEF WriteShard, ReachedBatch, Writing
<1>10. CASE PoolRefused \/ PoolFresh \/ PoolResume
  BY <1>1, <1>10 DEF PoolRefused, PoolFresh, PoolResume, MakeDirs, RootShape
<1>11. CASE PoolSave \/ PoolSeal
  BY <1>1, <1>11 DEF PoolSave, PoolSeal, Put, RootShape
<1>12. CASE PublishArrays
  BY <1>1, <1>12 DEF PublishArrays, RootShape
<1>13. CASE \E b \in Batches : WriteDelta(b)
  BY <1>1, <1>13 DEF WriteDelta, RootShape
<1>14. CASE MergeFails \/ \E b \in Batches : DeltaFails(b)
  BY <1>14 DEF MergeFails, DeltaFails
<1>15. CASE PublishFinal
  BY <1>1, <1>15, SelectionAssumption DEF PublishFinal, RootShape, SessionTypes
<1>16. CASE ExportRefused \/ ExportBegins \/ ExportEnds
  BY <1>16 DEF ExportRefused, ExportBegins, ExportEnds
<1> QED BY <1>3, <1>4, <1>5, <1>6, <1>7, <1>8, <1>9, <1>10, <1>11, <1>12, <1>13, <1>14, <1>15,
           <1>16 DEF Next, Step, Write, Pooling, Export

\* CompletedKept: a completed run keeps its shards, its checkpoints and its
\* completion, whatever --resume or --replace-incomplete say
\* (prepare_embedding_run_root).
THEOREM CompletedIsKept == Spec => CompletedKept
<1>1. IInv /\ IInv' /\ [Next]_vars
        => [Completed => Completed' /\ UNCHANGED <<disk.unit_embeddings, disk.checkpoints>>]_vars
  <2> SUFFICES ASSUME IInv, IInv', Next, Completed
               PROVE  Completed' /\ UNCHANGED <<disk.unit_embeddings, disk.checkpoints>>
    OBVIOUS
  <2>1. disk.final # "none"
    BY DEF Completed
  <2>2. disk'.final # "none" /\ disk'.unit_embeddings = disk.unit_embeddings
    BY <2>1, FinalStep
  <2>3. \A m \in Modalities : Sealed(m) /\ Sealed(m)'
    BY <2>1, <2>2 DEF IInv, SealedInv
  <2>4. Completed'
    BY <2>2, <2>3 DEF Sealed, Completed, Status
  <2>5. \A m \in Modalities : disk'.checkpoints[m] = disk.checkpoints[m]
    BY <2>2, <2>3 DEF Sealed, UnitsOf
  <2>6. disk'.checkpoints = disk.checkpoints
    BY <2>5 DEF IInv, Types, WriterTypes
  <2> QED BY <2>2, <2>4, <2>6
<1> QED BY <1>1, Inductive, PTL DEF Spec, CompletedKept

\* PoolingResumes: provided a killed removal takes neither shards nor pooling/
\* before the rest, the pooler never refuses what an interrupted one left, nor
\* fails on a shard it has listed.
THEOREM PoolingIsResumed ==
  ASSUME KeepsPooling
  PROVE  Spec => PoolingResumes
<1>1. IInv /\ [Next]_vars => [(pc \in {"poolOpen", "delta"}) => pc' # "failed"]_vars
  <2> SUFFICES ASSUME IInv, Next, pc \in {"poolOpen", "delta"}, pc' = "failed"
               PROVE  FALSE
    OBVIOUS
  <2>1. \/ PoolRefused
        \/ MergeFails
        \/ \E b \in Batches : DeltaFails(b)
    BY DEF Next, Step, Write, Pooling, Export, Start, Prepare, Exit, Down, Crash, Remove,
           RemoveOne, RemoveRoot, OpenRefused, OpenFresh, OpenExisting, FlushCheckpoint,
           FlushManifest, FlushChecksums, ReuseCompleted, Complete, CompleteFails,
           NextModality, ReplayFails, WriteShard, PoolFresh, PoolResume, PoolSave,
           PublishArrays, PoolSeal, WriteDelta, PublishFinal, ExportRefused,
           ExportBegins, ExportEnds, Goto
  <2>2. /\ SessionTypes /\ ResumeInv /\ PoolInv
        /\ disk.checksums[modality] = UnitsOf(modality)
    BY DEF IInv, Types, SessionTypes, SealedInv, Sealed, PoolStages, KeepsPooling, KeepsShards
  <2>3. CASE PoolRefused
    <3>1. /\ pc = "poolOpen" /\ modality \in Modalities
          /\ Backed(disk.pooling[modality].entry, modality)
          /\ disk.pooling[modality] = NoState => Filled(disk.deltas[modality]) = {}
          /\ ~resume => disk.pooling[modality] = NoState
      BY <2>2, <2>3 DEF PoolRefused, ResumeInv, SessionTypes, Untouched
    <3>2. Conflicts = {}
      BY <3>1 DEF Conflicts, Filled, Delta, Pool, Backed
    <3> QED BY <2>3, <3>1, <3>2 DEF PoolRefused, Pool, Delta
  <2>4. CASE MergeFails
    <3>1. Backed(mem.entry, modality)
      BY <2>2, <2>4 DEF MergeFails, ResumeInv
    <3> QED BY <2>4, <3>1 DEF MergeFails, Filled, Delta, Backed
  <2>5. CASE \E b \in Batches : DeltaFails(b)
    <3>1. FromUnits(mem.entry, modality)
      BY <2>2, <2>5 DEF DeltaFails, PoolInv
    <3> QED BY <2>2, <2>5, <3>1 DEF DeltaFails, Listed, FromUnits
  <2> QED BY <2>1, <2>3, <2>4, <2>5
<1> QED BY <1>1, Inductive, PTL DEF Spec, PoolingResumes
=============================================================================
