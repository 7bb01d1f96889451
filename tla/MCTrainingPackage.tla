--------------------------- MODULE MCTrainingPackage ---------------------------
(* Two snapshots, two nodes, the four relations, four and five rows.       *)
EXTENDS TrainingPackage

\* one tweet, "a", occurs twice; normalisation may have rejected a row
NodeRow(id, loc, snap, node, text) ==
  [id |-> id, loc |-> loc, snap |-> snap, rel |-> -1, node |-> node, dst |-> -1,
   text |-> text, hashed |-> TRUE]

Occurrences == {t \in [1 .. 4 -> {"short", "long", "blank"}] : t[4] = "long"}
Tweets(texts) == << NodeRow("a", 1, 0, 0, texts[1]), NodeRow("b", 2, 0, 1, texts[2]),
                    NodeRow("a", 3, 0, 0, texts[3]), NodeRow("c", 4, 0, 0, texts[4]) >>

NodeArtifact(rows, canonical) ==
  [shards |-> <<SubSeq(rows, 1, 1), SubSeq(rows, 2, Len(rows))>>,
   duplicates |-> {[id |-> "a", canonical |-> canonical, locations |-> {1, 3}]},
   passed |-> TRUE, intact |-> TRUE]

EventRow(id, snap, rel, node, dst, text) ==
  [id |-> id, loc |-> 0, snap |-> snap, rel |-> rel, node |-> node, dst |-> dst,
   text |-> text, hashed |-> TRUE]

Events == << EventRow("p", 0, 0, 0, 1, "short"), EventRow("q", 0, 0, 0, 1, "long"),
             EventRow("r", 0, 1, 1, 0, "short"), EventRow("s", 1, 0, 0, 1, "short"),
             EventRow("t", 1, 0, 0, 1, "blank") >>

EventArtifact(rows) ==
  [shards |-> <<SubSeq(rows, 1, 3), SubSeq(rows, 4, Len(rows))>>, duplicates |-> {},
   passed |-> TRUE, intact |-> TRUE]

Arrivals == {p \in Permutations(1 .. 5) : p[1] < p[3] /\ p[5] \in {2, 5}}
Wide == <<EventRow("p", 0, 0, 0, 1, "short"), EventRow("q", 0, 1, 0, 1, "long"),
          EventRow("r", 0, 2, 1, 0, "short"), EventRow("s", 0, 3, 0, 1, "short")>>

\* five units alike: nothing but their priorities decides
Narrow == [i \in 1 .. 5 |-> EventRow(<<"p", "q", "r", "s", "t">>[i], 0, 0, 0, 1, "short")]

Plain == NodeArtifact(Tweets(<<"short", "short", "short", "long">>), 1)
NodeArtifacts ==
  {NodeArtifact(Tweets(t), 1) : t \in Occurrences}
    \cup {NodeArtifact(Tail(Plain.shards[1] \o Plain.shards[2]), 1),
          NodeArtifact(Tweets(<<"short", "short", "short", "long">>), 3),
          [Plain EXCEPT !.passed = FALSE]}

EventArtifacts ==
  {EventArtifact([i \in 1 .. 5 |-> Events[p[i]]]) : p \in Arrivals}
    \cup {EventArtifact([i \in 1 .. 5 |-> Narrow[p[i]]]) : p \in {a \in Arrivals : a[5] = 2}}
    \cup {EventArtifact(Wide), [EventArtifact(Events) EXCEPT !.intact = FALSE],
          EventArtifact([Events EXCEPT ![3].hashed = FALSE]),
          EventArtifact([Events EXCEPT ![4].dst = 2])}

AllSources ==
  {[node_text |-> n, event_text |-> EventArtifact(Events)] : n \in NodeArtifacts}
    \cup {[node_text |-> Plain, event_text |-> e] : e \in EventArtifacts}

Ranks == [id \in {"a", "b", "c", "p", "q", "r", "s", "t"} |->
            CASE id = "a" -> 3 [] id = "b" -> 7 [] id = "c" -> 5 [] id = "p" -> 6
              [] id = "q" -> 1 [] id = "r" -> 8 [] id = "s" -> 2 [] id = "t" -> 4]
Levels == [t \in {"short", "long"} |-> t]

Published == {<<0, 0, 0, 1>>, <<0, 1, 1, 0>>, <<1, 0, 0, 1>>, <<1, 2, 0, 1>>, <<1, 3, 1, 0>>}
Graphs == {Published, (Published \ {<<1, 3, 1, 0>>}) \cup {<<0, 0, 1, 0>>},
           Published \ {<<1, 0, 0, 1>>}}
=============================================================================
