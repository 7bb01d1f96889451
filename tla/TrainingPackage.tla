---------------------------- MODULE TrainingPackage ----------------------------
(***************************************************************************)
(* From the stored unit embeddings to the tensors a training run reads:    *)
(* the groups, the merge and the two finalisations of pooling.py, the      *)
(* validations and the alignment with the published graph (validation.py,  *)
(* alignment.py), the package written by the pilot job (pilot.py,          *)
(* export.py) or assembled by hand (assemble_tdmec_input.py), and the      *)
(* loader of the models (tdmec_model/dataset.py).                          *)
(*                                                                         *)
(* A pooled vector is the mean of a bag of texts; the model keeps the bag. *)
(* Meanwhile the graph pipeline may publish its run once more (GraphIngest *)
(* does, on every repeated run): other edges under the same run id.        *)
(***************************************************************************)
EXTENDS EmbeddingInputs

CONSTANTS Publications,  \* edge sets the graph run may publish
          ExpectedE,     \* the edge count assembly insists on
          Absent         \* no such file

ASSUME PackageAssumption ==
  /\ \A P \in Publications : P \subseteq Snapshots \X Relations \X Nodes \X Nodes
  /\ ExpectedE \in Nat
  /\ Absent \notin [E : {ExpectedE}, passed : BOOLEAN]

VARIABLES graph,     \* edges now published by the graph run
          pooled,    \* the pooled arrays
          exported,  \* the package of the pilot job
          assembled  \* the package assembled from the same arrays

packageVars == <<graph, pooled, exported, assembled>>
vars == <<inputVars, packageVars>>

(***************************************************************************)
(* Keys are <<snapshot, node>> or <<snapshot, relation, source, target>>,  *)
(* ordered as Python orders tuples.                                        *)
(***************************************************************************)
Before(k, l) == \E i \in DOMAIN k : /\ k[i] < l[i]
                                    /\ \A j \in 1 .. i - 1 : k[j] = l[j]
Sorted(keys) == InOrder(keys, Before)

GroupKey(m, u) == IF m = "node_text" THEN <<u.snap, u.node>>
                                     ELSE <<u.snap, u.rel, u.node, u.dst>>

\* one delta per stored shard: the bag of texts of every key
Delta(m, rows) ==
  LET vectors == [i \in DOMAIN rows |-> rows[i][2]]
      keys    == {GroupKey(m, rows[i][1]) : i \in DOMAIN rows}
  IN  [k \in keys |-> BagAt(vectors, {i \in DOMAIN rows : GroupKey(m, rows[i][1]) = k})]

\* the k-way merge of the deltas: every key once, in order, with its total
MergedGroups(m) ==
  LET deltas == [i \in DOMAIN stored[m] |-> Delta(m, stored[m][i])]
      keys   == Sorted(UNION {DOMAIN deltas[i] : i \in DOMAIN deltas})
      total(k) == FoldLeft(LAMBDA b, d : IF k \in DOMAIN d THEN b (+) d[k] ELSE b,
                           EmptyBag, deltas)
  IN  [i \in DOMAIN keys |-> [key |-> keys[i], total |-> total(keys[i])]]

Zero == [mean |-> EmptyBag, count |-> 0, mask |-> FALSE]
Mean(total) == [mean |-> total, count |-> BagCardinality(total), mask |-> TRUE]

(***************************************************************************)
(* The published edges lie in one part per snapshot and relation, sorted,  *)
(* and are read part after part.                                           *)
(***************************************************************************)
Part(edges, s, r) == Sorted({e \in edges : e[1] = s /\ e[2] = r})
Parts(edges) == Sorted({<<e[1], e[2]>> : e \in edges})
PhysicalOrder(edges) ==
  FlattenSeq([i \in DOMAIN Parts(edges) |-> Part(edges, Parts(edges)[i][1], Parts(edges)[i][2])])

\* the merge join of the groups with the edges, both in key order
Join(groups, edges) ==
  FoldLeft(LAMBDA acc, e :
             IF acc.left = << >> \/ Before(e, Head(acc.left).key)
               THEN [acc EXCEPT !.out = Append(@, Zero)]
             ELSE IF Head(acc.left).key = e
               THEN [acc EXCEPT !.out = Append(@, Mean(Head(acc.left).total)),
                                !.left = Tail(@)]
             ELSE [acc EXCEPT !.stray = TRUE],
           [left |-> groups, out |-> << >>, stray |-> FALSE], edges)

NodeArray(groups) ==
  [k \in Snapshots \X Nodes |->
     IF \E i \in DOMAIN groups : groups[i].key = k
       THEN Mean((CHOOSE g \in Range(groups) : g.key = k).total) ELSE Zero]

Masked(x) == x.mask = (x.count > 0) /\ (~x.mask => x.mean = EmptyBag)
ArraysHold(p) == /\ \A k \in DOMAIN p.node : Masked(p.node[k])
                 /\ \A i \in DOMAIN p.edge : Masked(p.edge[i])

-----------------------------------------------------------------------------
Init ==
  /\ InputInit /\ graph \in Publications
  /\ pooled = Absent /\ exported = Absent /\ assembled = Absent

Encode == InputStep /\ UNCHANGED packageVars

\* the graph run is published again; between the selection of the events
\* and the pooling of the edges nothing reads it
Republish ==
  /\ stage \in {"nodesPooled", "pooled", "aligned"}
  /\ graph' \in Publications \ {graph}
  /\ UNCHANGED <<inputVars, pooled, exported, assembled>>

PoolNodes ==
  /\ stage = "encoded" /\ stage' = "nodesPooled"
  /\ LET node == NodeArray(MergedGroups("node_text")) IN
     pooled' = IF pooled = Absent THEN [node |-> node, edge |-> << >>, over |-> {}]
                                  ELSE [pooled EXCEPT !.node = node]
  /\ UNCHANGED <<source, mode, modality, pass, reader, seen, activity, sampler, chosen,
                 encoder, stored, graph, exported, assembled>>

\* pooled.over is the edge source that the alignment metadata records
PoolEdges ==
  /\ stage = "nodesPooled"
  /\ LET join == Join(MergedGroups("event_text"), PhysicalOrder(graph)) IN
     IF join.stray \/ join.left # << >> \/ ~ArraysHold([pooled EXCEPT !.edge = join.out])
       THEN stage' = "failed" /\ pooled' = pooled
       ELSE stage' = "pooled" /\ pooled' = [pooled EXCEPT !.edge = join.out, !.over = graph]
  /\ UNCHANGED <<source, mode, modality, pass, reader, seen, activity, sampler, chosen,
                 encoder, stored, graph, exported, assembled>>

\* validate_pooled_embeddings, then align_graph_and_text: shapes and counts
Align ==
  /\ stage = "pooled"
  /\ stage' = IF ArraysHold(pooled) /\ Len(pooled.edge) = Cardinality(graph)
                THEN "aligned" ELSE "failed"
  /\ UNCHANGED <<source, mode, modality, pass, reader, seen, activity, sampler, chosen,
                 encoder, stored, packageVars>>

PackageOf(config) == [edges |-> graph, node |-> pooled.node, edge |-> pooled.edge,
                      over |-> pooled.over, config |-> config]

\* what the pilot job asks of its own package
PackageHolds(pkg) == ArraysHold(pkg) /\ DOMAIN pkg.node = Snapshots \X Nodes

\* the exported package lacks the configuration the loader starts from; a
\* package that is refused stays behind
Export ==
  /\ stage = "aligned"
  /\ IF exported = Absent
       THEN /\ exported' = PackageOf(Absent)
            /\ stage' = IF PackageHolds(exported') THEN "done" ELSE "failed"
       ELSE stage' = "failed" /\ UNCHANGED exported
  /\ UNCHANGED <<source, mode, modality, pass, reader, seen, activity, sampler, chosen,
                 encoder, stored, graph, pooled, assembled>>

\* the job started again with --resume finds its units stored, pools them
\* again and meets its own package
Resume ==
  /\ stage = "done" /\ stage' = "encoded"
  /\ UNCHANGED <<source, mode, modality, pass, reader, seen, activity, sampler, chosen,
                 encoder, stored, packageVars>>

\* the shapes a package is validated for: the edge vectors are counted, and
\* every relation has a part in some snapshot; the packaged edges are not counted
SmokeShapesHold(pkg) ==
  /\ PackageHolds(pkg) /\ Len(pkg.edge) = ExpectedE
  /\ {e[2] : e \in pkg.edges} = Relations

\* by hand, with --overwrite; a package that fails validation stays behind,
\* with the report that says so
Assemble ==
  /\ stage \in {"pooled", "aligned", "done"}
  /\ LET pkg == PackageOf([E |-> ExpectedE]) IN
     assembled' = [pkg EXCEPT !.config = [E |-> ExpectedE, passed |-> SmokeShapesHold(pkg)]]
  /\ UNCHANGED <<inputVars, graph, pooled, exported>>

(***************************************************************************)
(* The loader numbers the edges part by part and takes, for every edge of  *)
(* a snapshot, the vector of that number.                                  *)
(***************************************************************************)
\* Mutant of PartStart: only the earlier snapshots are counted.
PartStartOfSnapshot(edges, s, r) == Cardinality({e \in edges : e[1] < s})

PartStart(edges, s, r) ==
  Cardinality({e \in edges : Before(<<e[1], e[2]>>, <<s, r>>)})

SnapshotEdges(pkg, s) ==
  FlattenSeq([r1 \in 1 .. Cardinality(Relations) |->
    LET part == Part(pkg.edges, s, r1 - 1)
    IN  [i \in DOMAIN part |->
           [key |-> part[i], at |-> PartStart(pkg.edges, s, r1 - 1) + i]]])

\* a vector that is not available is handed out as zero
Available(x) == IF x.mask THEN x.mean ELSE EmptyBag

SnapshotBatch(pkg, s) ==
  LET edges == SnapshotEdges(pkg, s)
  IN  [node |-> [n \in Nodes |-> Available(pkg.node[<<s, n>>])],
       edge |-> [i \in DOMAIN edges |-> [key |-> edges[i].key,
                                         text |-> Available(pkg.edge[edges[i].at])]]]

Loadable(pkg) ==
  /\ pkg # Absent /\ pkg.config # Absent
  /\ pkg.config.E # 0 => Cardinality(pkg.edges) = pkg.config.E
  /\ Len(pkg.edge) = Cardinality(pkg.edges)

Next == Encode \/ PoolNodes \/ PoolEdges \/ Align \/ Export \/ Republish \/ Resume \/ Assemble

\* the job keeps encoding: nothing but the device's memory holds it up
Spec == Init /\ [][Next]_vars /\ WF_vars(Encode)

-----------------------------------------------------------------------------
TextsOf(m, key) ==
  LET units == chosen[m]
  IN  BagAt([i \in DOMAIN units |-> units[i].text], {i \in DOMAIN units : GroupKey(m, units[i]) = key})

\* Every vector the loader gives a training run is the mean of exactly the
\* selected texts of its own key: for each snapshot and node, and for each
\* edge of each snapshot, numbered across the parts of the packaged graph,
\* if the packaged edges are those the events were pooled over; and the
\* loader gives every edge of that graph once.  The exception is real: the
\* alignment compares the number of edges only, so a graph run published
\* again with as many other edges passes (finalize_canonical_edges,
\* align_graph_and_text, TDMECInputDataset._load_edges).  With the same
\* exception, a package that passed validate_smoke_shapes is one it loads.
LoadedExact ==
  /\ assembled # Absent /\ assembled.config.passed /\ assembled.edges = assembled.over =>
       Loadable(assembled)
  /\ \A pkg \in {exported, assembled} : Loadable(pkg) =>
       \A s \in Snapshots :
         LET batch == SnapshotBatch(pkg, s) IN
         /\ \A n \in Nodes : batch.node[n] = TextsOf("node_text", <<s, n>>)
         /\ [i \in DOMAIN batch.edge |-> batch.edge[i].key]
              = Sorted({e \in pkg.edges : e[1] = s})
         /\ pkg.edges = pkg.over =>
              \A i \in DOMAIN batch.edge :
                batch.edge[i].text = TextsOf("event_text", batch.edge[i].key)

\* However often the device runs out of memory, the encoding of a run comes
\* to an end, with every chunk stored or with a failure: the batch halves or
\* the retries run out, and every batch that fits takes units off the chunk
\* (Qwen3Encoder.encode, _write_modality).
EncodingEnds == <>(stage \notin {"open", "scan", "chunk", "encode"})
=============================================================================
