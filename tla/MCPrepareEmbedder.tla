--------------------------- MODULE MCPrepareEmbedder ---------------------------
(* Two processes; a library file and what its link leads to.                 *)
EXTENDS PrepareEmbedder

CONSTANTS p1, p2, so, so1, readme, d1, d2

MCProc == {p1, p2}
MCPath == {so, so1, readme}
MCData == {d1, d2}

File(p, d) == [kind |-> "file", path |-> p, arg |-> d]
Link(p, q) == [kind |-> "link", path |-> p, arg |-> q]

\* The shared library is a link to the file of its version; the link comes first or last.
Whole   == <<Link(so, so1), File(so1, d1)>>
Partial == <<File(readme, d2)>>
Broken  == <<File(so1, d1), Link(so, readme)>>

MCReleases == {<<Whole>>, <<NotFound, Partial, Whole>>, <<Broken, Whole>>, <<NotFound>>}

\* Every archive of at most three entries.
MCArchives == UNION {[1..n -> ArchiveEntry] : n \in 0..3}
=============================================================================
