---------------------------- MODULE EmbeddingInputs ----------------------------
(***************************************************************************)
(* From the published datasets to the stored unit embeddings: the bounded  *)
(* readers (file_sources.py), the eligibility filters (eligibility.py),    *)
(* the selection of units - the source prefix of a mock run, the two-pass  *)
(* stratified sample of a Qwen run (sampling.py) - and the encoder's loop  *)
(* with its out-of-memory retries (qwen_encoder.py), in the order in which *)
(* run_embedding_pipeline (pipeline.py) calls them.                        *)
(*                                                                         *)
(* A unit is its source row.  A text is a member of a small set and its    *)
(* vector is the text itself: the model says which text each stored vector *)
(* comes from, not its components.  The writer is EmbeddingWriter's        *)
(* subject; here a chunk is stored in one step.                            *)
(***************************************************************************)
EXTENDS Integers, Sequences, FiniteSets, Bags, SequencesExt, FiniteSetsExt

CONSTANTS Sources,      \* what the two artifact roots of a run may hold
          Snapshots, Nodes, Relations,  \* 0 .. n - 1 each
          Modes,        \* execution modes: "mock" (prefix) or "qwen" (sample)
          Unusable,     \* texts that are null, empty or all white space
          TextLevel,    \* length class of every other text
          Priority,     \* rank of the seeded hash of a unit, by unit id
          ForceCoverage,        \* sampling.force_relation_coverage
          Buckets,      \* sampling.node_hash_buckets
          RowLimit,     \* max_node_rows and max_event_rows
          InputBatch,   \* rows of one Parquet batch
          ShardSize,    \* units of one unit shard
          EncoderBatch, \* encoder.batch_size
          MaxRetries    \* encoder.max_oom_retries

ASSUME InputsAssumption ==
  /\ Modes \subseteq {"mock", "qwen"} /\ ForceCoverage \in BOOLEAN
  /\ {Buckets, RowLimit, InputBatch, ShardSize, EncoderBatch} \subseteq Nat \ {0}
  /\ MaxRetries \in Nat
  /\ \A S \in {Snapshots, Nodes, Relations} : IsFiniteSet(S) /\ S = 0 .. Cardinality(S) - 1
  /\ \A a \in DOMAIN Priority : Priority[a] \in Nat
  /\ \A a, b \in DOMAIN Priority : Priority[a] = Priority[b] => a = b

Modalities == {"node_text", "event_text"}

VARIABLES source,    \* the two published artifacts
          mode,      \* how this run selects units
          stage,     \* what the pipeline does next
          modality,  \* the modality it does it for
          pass,      \* "prefix", "count" or "sample"
          reader,    \* shard, offset in it, rows emitted
          seen,      \* eligibility accounting of this pass and of the first
          activity,  \* bag of actors counted by the first pass
          sampler,   \* the state of DeterministicStratifiedSampler
          chosen,    \* selected units of each modality
          encoder,   \* cursor, batch size, retries, vectors of this chunk
          stored     \* unit shards written so far, as <<unit, vector>> rows

inputVars == <<source, mode, stage, modality, pass, reader, seen, activity,
               sampler, chosen, encoder, stored>>

Artifact == source[modality]
Least(a, b) == IF a < b THEN a ELSE b

\* the members of a finite set, in a strict total order
InOrder(S, Precedes(_, _)) ==
  [i \in 1 .. Cardinality(S) |->
     CHOOSE x \in S : Cardinality({y \in S : Precedes(y, x)}) = i - 1]

\* the bag of the values of s at the positions in I
BagAt(s, I) == [v \in {s[i] : i \in I} |-> Cardinality({i \in I : s[i] = v})]

NoSample == [heap |-> {}, stratum |-> {}, relation |-> {}]
NoneSeen == [total |-> 0, canonical |-> 0, eligible |-> 0, first |-> 0]
AtStart == [shard |-> 1, offset |-> 0, emitted |-> 0]
FirstPass == IF mode = "mock" THEN "prefix" ELSE "count"

(***************************************************************************)
(* Opening a source: the identity and checksum contract of the root, and   *)
(* for node text the duplicate report, which has one group for an id and   *)
(* names the least location of every group as the canonical one.           *)
(***************************************************************************)
IdentityHolds(a) == a.passed /\ a.intact /\ a.shards # << >>

ReportHolds(a) ==
  /\ \A g \in a.duplicates : Cardinality(g.locations) >= 2 /\ g.canonical = Min(g.locations)
  /\ \A g, h \in a.duplicates : g.id = h.id => g = h

Openable == /\ IdentityHolds(Artifact)
            /\ modality = "node_text" => ReportHolds(Artifact)

CanonicalOf(a, row) == {g.canonical : g \in {h \in a.duplicates : h.id = row.id}}

(***************************************************************************)
(* One bounded batch of rows: never across two shards, and cut to what is  *)
(* left of max_rows in a prefix run.                                       *)
(***************************************************************************)
Rows(a) == FlattenSeq(a.shards)
TotalRows(a) == Len(Rows(a))
Wanted == IF pass = "prefix" THEN Least(RowLimit, TotalRows(Artifact))
                             ELSE TotalRows(Artifact)

Drained == \/ reader.shard > Len(Artifact.shards)
           \/ pass = "prefix" /\ reader.emitted >= RowLimit

NextRows ==
  LET shard == Artifact.shards[reader.shard]
      rows  == SubSeq(shard, reader.offset + 1,
                      Least(reader.offset + InputBatch, Len(shard)))
  IN  IF pass = "prefix"
        THEN SubSeq(rows, 1, Least(Len(rows), RowLimit - reader.emitted))
        ELSE rows

Advanced ==
  IF reader.offset + InputBatch >= Len(Artifact.shards[reader.shard])
    THEN [shard |-> reader.shard + 1, offset |-> 0,
          emitted |-> reader.emitted + Len(NextRows)]
    ELSE [reader EXCEPT !.offset = @ + InputBatch, !.emitted = @ + Len(NextRows)]

(***************************************************************************)
(* Eligibility: text first, then, for node text, the canonical location of *)
(* a declared duplicate.  An eligible event must carry its text's hash.    *)
(***************************************************************************)
HasText(row) == row.text \notin Unusable
Duplicated(a, row) == CanonicalOf(a, row) # {}
IsCanonical(a, row) == row.loc \in CanonicalOf(a, row)

Eligible(a, m, row) ==
  HasText(row) /\ (m = "node_text" /\ Duplicated(a, row) => IsCanonical(a, row))

(***************************************************************************)
(* What the pipelines that publish the two artifacts see to: typed columns *)
(* (the Parquet schemas), one row of a workbook at a location, a group for *)
(* every tweet id that occurs twice (DuplicateTracker, over normalised and *)
(* excluded rows), one event for a signature (the primary key of events).  *)
(***************************************************************************)
UnitRow == [id : DOMAIN Priority, loc : Nat, snap : Int, rel : Int, node : Int, dst : Int,
            text : Unusable \cup DOMAIN TextLevel, hashed : BOOLEAN]

ASSUME SourcesAssumption ==
  \A s \in Sources, m \in Modalities : IdentityHolds(s[m]) =>
    LET rows == Rows(s[m])
    IN  /\ s[m].shards \in Seq(Seq(UnitRow)) /\ IsFiniteSet(s[m].duplicates)
        /\ \A i, j \in DOMAIN rows : i # j =>
             IF m = "event_text" THEN rows[i].id # rows[j].id
             ELSE /\ rows[i].loc # rows[j].loc
                  /\ rows[i].id = rows[j].id => Duplicated(s[m], rows[i])

EligibleRows(rows) ==
  FoldLeft(LAMBDA units, r : IF Eligible(Artifact, modality, r) THEN Append(units, r) ELSE units,
           << >>, rows)

\* the reader's bounds on a batch, then the hashes of its eligible events
InBounds(m, row) ==
  /\ row.snap \in Snapshots /\ row.node \in Nodes
  /\ m = "event_text" => row.dst \in Nodes /\ row.rel \in Relations
BatchHolds(m, rows) ==
  \A i \in DOMAIN rows :
    InBounds(m, rows[i]) /\ (m = "event_text" /\ HasText(rows[i]) => rows[i].hashed)

CanonicalSeen(rows) ==
  IF modality = "event_text" THEN 0
  ELSE Cardinality({i \in DOMAIN rows : HasText(rows[i]) /\ IsCanonical(Artifact, rows[i])})

Groups == IF modality = "node_text" THEN Cardinality(Artifact.duplicates) ELSE 0

ScanReconciles ==
  /\ seen.total = Wanted
  /\ seen.total = TotalRows(Artifact) => seen.canonical = Groups
  /\ pass = "sample" => seen.eligible = seen.first

(***************************************************************************)
(* Stratified sampling: the least RowLimit priorities overall, the least   *)
(* priority of every stratum, and of every relation of the events.         *)
(***************************************************************************)
ActivityThresholds(counts) ==
  LET Below(a, b) == counts[a] < counts[b] \/ (counts[a] = counts[b] /\ a < b)
      actors == InOrder(DOMAIN counts, Below)
      last   == Len(actors) - 1
  IN  IF actors = << >> THEN <<0, 0>>
      ELSE <<counts[actors[last \div 3 + 1]], counts[actors[(2 * last) \div 3 + 1]]>>

ActivityLevel(counts, actor) ==
  LET bounds == ActivityThresholds(counts)
      value  == IF actor \in DOMAIN counts THEN counts[actor] ELSE 0
  IN  IF value <= bounds[1] THEN "low" ELSE IF value <= bounds[2] THEN "medium" ELSE "high"

Stratum(counts, u) == <<u.snap, u.rel, TextLevel[u.text],
                        ActivityLevel(counts, u.node), u.node % Buckets>>

Sooner(u, v) == Priority[u.id] < Priority[v.id]
Latest(units) == CHOOSE u \in units : \A v \in units : u = v \/ Sooner(v, u)

\* best units of a class: u takes the place of the rival it precedes
Improve(best, u, rivals) ==
  IF \E v \in rivals : ~Sooner(u, v) THEN best ELSE (best \ rivals) \cup {u}

\* Mutant of Keep: a full heap keeps what came first.
KeepFirst(heap, u) == IF Cardinality(heap) < RowLimit THEN heap \cup {u} ELSE heap

Keep(heap, u) ==
  IF Cardinality(heap) < RowLimit THEN heap \cup {u}
  ELSE IF Sooner(u, Latest(heap)) THEN (heap \ {Latest(heap)}) \cup {u} ELSE heap

Add(s, u) ==
  [heap     |-> Keep(s.heap, u),
   stratum  |-> Improve(s.stratum, u, {v \in s.stratum :
                                         Stratum(activity, v) = Stratum(activity, u)}),
   relation |-> IF modality = "event_text"
                  THEN Improve(s.relation, u, {v \in s.relation : v.rel = u.rel})
                  ELSE s.relation]

Forced == ForceCoverage /\ modality = "event_text"

\* the queue of finish(): reserved relations, strata, then the heap
Queue ==
  (IF Forced THEN InOrder(sampler.relation, LAMBDA u, v : u.rel < v.rel) ELSE << >>)
    \o InOrder(sampler.stratum, Sooner) \o InOrder(sampler.heap, Sooner)

\* a unit is taken where it first occurs, as long as a seat is left
Finish ==
  LET queue == Queue
      taken == {i \in DOMAIN queue :
                  Cardinality({queue[j] : j \in 1 .. i - 1}) < Least(RowLimit, seen.eligible)}
  IN  InOrder({queue[i] : i \in taken}, Sooner)

SampleRefused ==
  Forced /\ \/ RowLimit < Cardinality(sampler.relation)
            \/ \E u \in sampler.relation : ~ \E v \in Range(Finish) : v.rel = u.rel

-----------------------------------------------------------------------------
(***************************************************************************)
(* The selection of the two modalities, node text first.                   *)
(***************************************************************************)
InputInit ==
  /\ source \in Sources /\ mode \in Modes
  /\ stage = "open" /\ modality = "node_text" /\ pass = FirstPass
  /\ reader = AtStart /\ seen = NoneSeen
  /\ activity = EmptyBag /\ sampler = NoSample
  /\ chosen = [m \in Modalities |-> << >>]
  /\ encoder = [cursor |-> 0, batch |-> 0, retries |-> 0, out |-> << >>]
  /\ stored = [m \in Modalities |-> << >>]

Open ==
  /\ stage = "open" /\ stage' = IF Openable THEN "scan" ELSE "failed"
  /\ reader' = AtStart /\ seen' = [NoneSeen EXCEPT !.first = seen.eligible]
  /\ sampler' = NoSample
  /\ UNCHANGED <<source, mode, modality, pass, activity, chosen, encoder, stored>>

ReadBatch ==
  /\ stage = "scan" /\ ~Drained
  /\ BatchHolds(modality, NextRows)
  /\ LET units == EligibleRows(NextRows) IN
     /\ seen' = [seen EXCEPT !.total = @ + Len(NextRows), !.eligible = @ + Len(units),
                             !.canonical = @ + CanonicalSeen(NextRows)]
     /\ activity' = IF pass # "count" THEN activity
                    ELSE activity (+) BagAt([i \in DOMAIN units |-> units[i].node], DOMAIN units)
     /\ sampler' = IF pass = "sample" THEN FoldLeft(Add, sampler, units) ELSE sampler
     /\ chosen' = IF pass = "prefix" THEN [chosen EXCEPT ![modality] = @ \o units] ELSE chosen
  /\ reader' = Advanced
  /\ UNCHANGED <<source, mode, stage, modality, pass, encoder, stored>>

BadBatch ==
  /\ stage = "scan" /\ ~Drained /\ ~BatchHolds(modality, NextRows)
  /\ stage' = "failed"
  /\ UNCHANGED <<source, mode, modality, pass, reader, seen, activity, sampler, chosen,
                 encoder, stored>>

ScanRejected ==
  /\ stage = "scan" /\ Drained /\ ~ScanReconciles
  /\ stage' = "failed"
  /\ UNCHANGED <<source, mode, modality, pass, reader, seen, activity, sampler, chosen,
                 encoder, stored>>

Counted ==
  /\ stage = "scan" /\ Drained /\ ScanReconciles /\ pass = "count"
  /\ stage' = "open" /\ pass' = "sample"
  /\ UNCHANGED <<source, mode, modality, reader, seen, activity, sampler, chosen,
                 encoder, stored>>

Selected ==
  /\ stage = "scan" /\ Drained /\ ScanReconciles /\ pass # "count"
  /\ IF pass = "sample" /\ SampleRefused
       THEN stage' = "failed" /\ UNCHANGED <<modality, pass, seen, activity, chosen>>
       ELSE /\ chosen' = IF pass = "sample" THEN [chosen EXCEPT ![modality] = Finish] ELSE chosen
            /\ stage' = IF modality = "node_text" THEN "open" ELSE "chunk"
            /\ modality' = IF modality = "node_text" THEN "event_text" ELSE "node_text"
            /\ pass' = FirstPass /\ seen' = NoneSeen /\ activity' = EmptyBag
  /\ UNCHANGED <<source, mode, reader, sampler, encoder, stored>>

(***************************************************************************)
(* Encoding: one chunk of ShardSize units after another (one empty chunk   *)
(* when nothing was selected), each by batches that only ever shrink.      *)
(***************************************************************************)
ChunkCount(m) == IF chosen[m] = << >> THEN 1
                 ELSE (Len(chosen[m]) + ShardSize - 1) \div ShardSize
Chunk(m, k) == SubSeq(chosen[m], (k - 1) * ShardSize + 1,
                      Least(k * ShardSize, Len(chosen[m])))
Units == Chunk(modality, Len(stored[modality]) + 1)
Current == SubSeq(Units, encoder.cursor + 1, Least(encoder.cursor + encoder.batch, Len(Units)))
Encoded == encoder.cursor >= Len(Units)

StartChunk ==
  /\ stage = "chunk" /\ stage' = "encode"
  /\ encoder' = [cursor |-> 0, batch |-> Least(EncoderBatch, Len(Units)),
                 retries |-> 0, out |-> << >>]
  /\ UNCHANGED <<source, mode, modality, pass, reader, seen, activity, sampler, chosen, stored>>

EncodeBatch ==
  /\ stage = "encode" /\ ~Encoded
  /\ encoder' = [encoder EXCEPT !.cursor = @ + Len(Current), !.retries = 0,
                   !.out = @ \o [i \in DOMAIN Current |-> Current[i].text]]
  /\ UNCHANGED <<source, mode, stage, modality, pass, reader, seen, activity, sampler, chosen,
                 stored>>

\* Mutant of GivesUp: a batch of one is halved too.
GivesUpOnRetries == encoder.retries + 1 > MaxRetries

GivesUp == encoder.batch = 1 \/ encoder.retries + 1 > MaxRetries

OutOfMemory ==
  /\ stage = "encode" /\ ~Encoded /\ mode = "qwen"
  /\ stage' = IF GivesUp THEN "failed" ELSE stage
  /\ encoder' = IF GivesUp THEN encoder
                ELSE [encoder EXCEPT !.retries = @ + 1, !.batch = @ \div 2]
  /\ UNCHANGED <<source, mode, modality, pass, reader, seen, activity, sampler, chosen, stored>>

\* what the writer asks of a chunk, and the rows it makes of it
BatchValid(units, vectors) ==
  /\ Len(vectors) = Len(units)
  /\ \A i, j \in DOMAIN units : units[i] = units[j] => i = j
UnitTable(units, vectors) == [i \in DOMAIN vectors |-> <<units[i], vectors[i]>>]

StoreChunk ==
  /\ stage = "encode" /\ Encoded
  /\ LET last == Len(stored[modality]) + 1 = ChunkCount(modality)
     IN  IF BatchValid(Units, encoder.out)
           THEN /\ stored' = [stored EXCEPT ![modality] = Append(@, UnitTable(Units, encoder.out))]
                /\ stage' = IF last /\ modality = "event_text" THEN "encoded" ELSE "chunk"
                /\ modality' = IF last THEN "event_text" ELSE modality
           ELSE stage' = "failed" /\ UNCHANGED <<stored, modality>>
  /\ UNCHANGED <<source, mode, pass, reader, seen, activity, sampler, chosen, encoder>>

InputStep == \/ Open \/ ReadBatch \/ BadBatch \/ ScanRejected \/ Counted \/ Selected
             \/ StartChunk \/ EncodeBatch \/ OutOfMemory \/ StoreChunk

-----------------------------------------------------------------------------
(***************************************************************************)
(* The selection by definition.                                            *)
(***************************************************************************)
Population(a, m) == {u \in Range(Rows(a)) : Eligible(a, m, u)}

Actors(a, m) ==
  LET rows == Rows(a)
  IN  BagAt([i \in DOMAIN rows |-> rows[i].node],
            {i \in DOMAIN rows : Eligible(a, m, rows[i])})

\* the units that are first among those alike
Leaders(units, Kind(_)) ==
  {u \in units : \A v \in units : Kind(v) = Kind(u) => u = v \/ Sooner(u, v)}

\* the queue for the RowLimit seats: reserved relations, then the best unit
\* of every stratum, then everybody by priority
Sample(a, m) ==
  LET all       == Population(a, m)
      counts    == Actors(a, m)
      relations == IF ForceCoverage /\ m = "event_text" THEN Leaders(all, LAMBDA u : u.rel) ELSE {}
      strata    == Leaders(all, LAMBDA u : Stratum(counts, u)) \ relations
      Place(u)  == IF u \in relations THEN <<0, u.rel>>
                   ELSE <<IF u \in strata THEN 1 ELSE 2, Priority[u.id]>>
      place     == [u \in all |-> Place(u)]
      Ahead(v, u) == \/ place[v][1] < place[u][1]
                     \/ place[v][1] = place[u][1] /\ place[v][2] < place[u][2]
  IN  {u \in all : Cardinality({v \in all : Ahead(v, u)}) < RowLimit}

Prefix(a, m) == Range(SubSeq(Rows(a), 1, Least(RowLimit, TotalRows(a)))) \cap Population(a, m)

JustSelected == stage = "chunk" /\ \A m \in Modalities : stored[m] = << >>

\* What the batched, two-pass, bounded-memory scan selects is what the
\* definition says of the whole artifact, whatever the order and the batches
\* of the rows: a mock run takes the eligible rows among the first RowLimit,
\* a Qwen run the RowLimit first units of the queue (the reserved relations,
\* the best unit of every stratum, then the priority); every unit once, and
\* no tweet twice.  A Qwen run that selects has also missed no tweet with
\* text: one of its rows is in the population (_stratified_selection,
\* DeterministicStratifiedSampler, NodeTextEligibilityProcessor).
SelectionExact ==
  JustSelected =>
    \A m \in Modalities :
      /\ Range(chosen[m]) = IF mode = "mock" THEN Prefix(source[m], m) ELSE Sample(source[m], m)
      /\ \A i, j \in DOMAIN chosen[m] : chosen[m][i].id = chosen[m][j].id => i = j
      /\ mode = "qwen" =>
           \A row \in Range(Rows(source[m])) :
             HasText(row) => \E u \in Population(source[m], m) : u.id = row.id
=============================================================================
