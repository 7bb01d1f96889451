------------------------- MODULE MCEmbeddingWriter -------------------------
(* Small instances of EmbeddingWriter for TLC. *)
EXTENDS EmbeddingWriter

SecondBatchEmpty == {1}
AnyDamage == {"garbled", "unreadable"}
=============================================================================
