------------------------- MODULE MCEmbeddingPipeline -------------------------
(* Instance of EmbeddingPipeline for TLC. *)
EXTENDS EmbeddingPipeline

CONSTANTS h1, h2, h3, w1, w2

MCHashes == {h1, h2, h3}
MCPreexisting == {h3}
MCWorker == {w1, w2}
=============================================================================
