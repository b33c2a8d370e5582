---------------------------- MODULE IndexHistory ----------------------------
(***************************************************************************)
(* IndexRun with a history variable, from which the promise made to        *)
(* searches follows.  It remembers the contents each path had since the    *)
(* last run began; no step of IndexRun reads it.                           *)
(***************************************************************************)
EXTENDS IndexRun

VARIABLE had

Begins == \E r \in Run : pc[r] = "idle" /\ pc'[r] # "idle"

HistoryInit == Init /\ had = [p \in Path |-> {tree[p]}]

HistoryNext ==
  /\ Next
  /\ had' = [p \in Path |-> IF Begins THEN {tree[p]} ELSE had[p] \union {tree'[p]}]

HistorySpec == HistoryInit /\ [][HistoryNext]_<<vars, had>>

\* A family is out of the promise once one of its runs stopped between its two activations, or
\* read a file that changed after it was hashed.
Promise == INSTANCE IndexPromise
  WITH index <- LogicalIndex, trusted <- Family \ (torn \union raced)

\* A search reaches, for each family, one scan of the tree: a symbol that no path had during the
\* run that built the index is not found, one that a path had all along is not missed, and no
\* path is found in two contents, whatever was copied from earlier snapshots, whichever files
\* appeared and disappeared, and wherever earlier runs stopped.
KeepsIndexPromise == Promise!Spec
=============================================================================
