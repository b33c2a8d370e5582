--------------------------- MODULE SnapshotPromise ---------------------------
(***************************************************************************)
(* What one indexing run promises the readers of index.db: symbol rows are *)
(* added to a snapshot only while it is being built, embeddings are only   *)
(* added, and the snapshot is made active in one step, at most once, and   *)
(* only when every row it holds has its embedding.                         *)
(***************************************************************************)
CONSTANT Hashes

VARIABLES
  rows,       \* hashes referenced by the rows of the snapshot
  stored,     \* hashes with a stored embedding
  activated   \* searches read this snapshot

vars == <<rows, stored, activated>>

Init == rows = {} /\ stored \in SUBSET Hashes /\ activated = FALSE

AddRow(h) ==
  /\ ~activated
  /\ rows' = rows \union {h} /\ UNCHANGED <<stored, activated>>

AddEmbedding(h) ==
  /\ ~activated
  /\ stored' = stored \union {h} /\ UNCHANGED <<rows, activated>>

Activate ==
  /\ ~activated /\ rows \subseteq stored
  /\ activated' = TRUE /\ UNCHANGED <<rows, stored>>

Next == Activate \/ \E h \in Hashes : AddRow(h) \/ AddEmbedding(h)

Spec == Init /\ [][Next]_vars
=============================================================================
