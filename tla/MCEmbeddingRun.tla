--------------------------- MODULE MCEmbeddingRun ---------------------------
(* Small instances of EmbeddingRun for TLC. *)
EXTENDS EmbeddingRun

\* The full selection, a shorter prefix of it, and another sample.
AllSelections ==
  [full   |-> [b \in Batches |-> "x"],
   prefix |-> [b \in Batches |-> IF b = 0 THEN "x" ELSE "none"],
   other  |-> [b \in Batches |-> "y"]]

Prefixes == [full |-> AllSelections.full, prefix |-> AllSelections.prefix]
Disjoint == [full |-> AllSelections.full, other |-> AllSelections.other]
=============================================================================
