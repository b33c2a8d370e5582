----------------------------- MODULE MCIndexRun -----------------------------
(* Instances of IndexRun for TLC. *)
EXTENDS IndexRun, TLC

CONSTANTS p1, p2, c1, c2, m1, m2, s1, s2, a, b

MCOnePath == {p1}
MCPaths == {p1, p2}
MCContent == {c1, c2}
MCFamily == {m1, m2}
MCOneFamily == {m1}
MCSettings == {s1, s2}
MCOneSettings == {s1}
MCSymbol == {a, b}

\* The embedding document names the path and the symbol: a row has the same hash in every
\* snapshot and under all settings, and two rows of one tree never share theirs.
MCHash == Path \X Symbol
MCKey == [x \in Path \X Symbol |-> x]

\* c1 declares a, and c2 declares a and b; the settings s2 exclude b.
MCSymbols == [e \in Content \X Settings |-> IF e = <<c2, s1>> THEN {a, b} ELSE {a}]

FamilySymmetry == Permutations(Family)

\* One embedding table for every family.
MCDim == [m \in Family |-> 1]
=============================================================================
