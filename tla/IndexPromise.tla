---------------------------- MODULE IndexPromise ----------------------------
(***************************************************************************)
(* What indexing runs promise the searches of a directory: the index of a  *)
(* family changes in one step, from one scan of the tree to another.  A    *)
(* run does not see the tree at one instant: each path is scanned with     *)
(* some content that it had while the run was on.                          *)
(***************************************************************************)
CONSTANTS Path, Content, Family, Settings, Symbol, Symbols, NoFile

VARIABLES
  tree,      \* content of each path
  had,       \* contents of each path since the last run began
  index,     \* what a search of each family can reach
  trusted    \* families the promise still binds

vars == <<tree, had, index, trusted>>

Tree == [Path -> Content \union {NoFile}]

Scan(f, s) == {x \in Path \X Symbol : f[x[1]] # NoFile /\ x[2] \in Symbols[<<f[x[1]], s>>]}

Scans == {Scan(f, s) : f \in {g \in Tree : \A p \in Path : g[p] \in had[p]}, s \in Settings}

Init ==
  /\ tree \in Tree /\ had = [p \in Path |-> {tree[p]}]
  /\ index = [m \in Family |-> {}] /\ trusted = Family

Begin ==
  /\ had' = [p \in Path |-> {tree[p]}]
  /\ UNCHANGED <<tree, index, trusted>>

Edit(p, c) ==
  /\ tree' = [tree EXCEPT ![p] = c]
  /\ had' = [had EXCEPT ![p] = @ \union {c}]
  /\ UNCHANGED <<index, trusted>>

Reindex(m) ==
  /\ \E new \in (IF m \in trusted THEN Scans ELSE SUBSET (Path \X Symbol)) :
       index' = [index EXCEPT ![m] = new]
  /\ UNCHANGED <<tree, had, trusted>>

Distrust(m) ==
  /\ trusted' = trusted \ {m}
  /\ UNCHANGED <<tree, had, index>>

Next ==
  \/ Begin
  \/ \E p \in Path, c \in Content \union {NoFile} : Edit(p, c)
  \/ \E m \in Family : Reindex(m) \/ Distrust(m)

Spec == Init /\ [][Next]_vars
=============================================================================
