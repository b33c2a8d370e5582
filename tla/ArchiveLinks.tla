----------------------------- MODULE ArchiveLinks -----------------------------
(***************************************************************************)
(* Extraction of a release archive (internal/runtime/fetch.go, extractTarGz *)
(* and extractZIP).  Files and directories are created as they are read;   *)
(* links are kept for the end, when each is replaced by a copy of the file *)
(* its chain of links leads to.  A path is its cleaned form below the      *)
(* destination, so every entry here is one that does not escape it.        *)
(***************************************************************************)
EXTENDS Naturals, Sequences, SequencesExt, FiniteSets

CONSTANTS
  Path,    \* paths below the destination
  Data,    \* contents of files
  Archives, \* the archives the extraction is checked for
  Absent,  \* nothing at a path
  Dir      \* a directory

\* What extractTarGz tells apart; a hard link is treated like a symbolic one.
ArchiveEntry ==
  [kind : {"file"}, path : Path, arg : Data] \union [kind : {"dir"}, path : Path, arg : {Dir}]
    \union [kind : {"link"}, path : Path, arg : Path]

ASSUME ArchiveAssumption ==
  /\ Path \cap Data = {} /\ Absent \notin Path \union Data \union {Dir} /\ Dir \notin Data
  /\ Archives \subseteq Seq(ArchiveEntry)

NoTree == [p \in Path |-> Absent]

-----------------------------------------------------------------------------
(* The loop over the entries                                                 *)

Extracting == [ok |-> TRUE, tree |-> NoTree, links |-> <<>>]

ExtractEntry(x, entry) ==
  CASE entry.kind = "link" -> [x EXCEPT !.links = Append(@, entry)]
    [] entry.kind = "file" -> [x EXCEPT !.ok = @ /\ x.tree[entry.path] # Dir,
                                        !.tree[entry.path] = entry.arg]
    [] entry.kind = "dir"  -> [x EXCEPT !.ok = @ /\ x.tree[entry.path] \in {Absent, Dir},
                                        !.tree[entry.path] = Dir]

\* What the entries leave: the files and directories, and the links for later.
Read(archive) ==
  LET after[n \in 0..Len(archive)] ==
        IF n = 0 THEN Extracting ELSE ExtractEntry(after[n - 1], archive[n])
  IN  after[Len(archive)]

(* materializeArchiveLinks                                                   *)

LinkAt(links, p) == CHOOSE i \in DOMAIN links : links[i].path = p
IsLink(links, p) == \E i \in DOMAIN links : links[i].path = p
NextAlong(links, p) == IF IsLink(links, p) THEN links[LinkAt(links, p)].arg ELSE p

\* Faulty variant: the target of a link is looked up among the files only.
OneStepTarget(links, p) == NextAlong(links, p)

\* resolvedArchiveLinkTarget, from link to link.  A chain longer than there are links comes back
\* to one that is being resolved; Absent stands for the error "link cycle detected".
ResolvedTarget(links, p) ==
  LET chain[n \in 0..Len(links)] == IF n = 0 THEN p ELSE NextAlong(links, chain[n - 1])
  IN  IF IsLink(links, chain[Len(links)]) THEN Absent ELSE chain[Len(links)]

Duplicates(links) == \E i, j \in DOMAIN links : i # j /\ links[i].path = links[j].path

MaterializeLink(links, x, link) ==
  LET target == ResolvedTarget(links, link.path)
  IN  IF x.ok /\ x.tree[link.path] = Absent /\ target # Absent /\ x.tree[target] \in Data
      THEN [x EXCEPT !.tree[link.path] = x.tree[target]]
      ELSE [x EXCEPT !.ok = FALSE]

Materialize(read) ==
  LET after[n \in 0..Len(read.links)] ==
        IF n = 0 THEN read ELSE MaterializeLink(read.links, after[n - 1], read.links[n])
  IN  after[Len(read.links)]

\* The files a successful extraction leaves, NoTree for an error.
Extract(archive) ==
  LET read == Read(archive)
      done == Materialize(read)
  IN  IF read.ok /\ ~Duplicates(read.links) /\ done.ok THEN done.tree ELSE NoTree

-----------------------------------------------------------------------------
(* What a reader of the archive expects                                      *)

LastOf(archive, p) ==
  LET own == {i \in DOMAIN archive : archive[i].path = p}
  IN  archive[CHOOSE i \in own : \A j \in own : j <= i]

\* Paths reached from p along links, p included: those in every set that holds p and, with the
\* path of a link, its target.
Along(archive, p) ==
  {q \in Path : \A S \in SUBSET Path :
     p \in S /\ (\A i \in DOMAIN archive :
                   archive[i].kind = "link" /\ archive[i].path \in S => archive[i].arg \in S)
     => q \in S}

\* Each path is used for one kind of entry, and for one link at most.
WellFormed(archive) ==
  \A i, j \in DOMAIN archive :
    archive[i].path = archive[j].path /\ i # j =>
      archive[i].kind = archive[j].kind /\ archive[i].kind # "link"

KindAt(archive, p) == {archive[i].kind : i \in {j \in DOMAIN archive : archive[j].path = p}}

\* The paths at which a chain from p ends: where there is no further link.
EndsOf(archive, p) == {q \in Along(archive, p) : KindAt(archive, q) # {"link"}}

ExpectedAt(archive, p) ==
  IF KindAt(archive, p) = {} THEN Absent
  ELSE IF KindAt(archive, p) = {"dir"} THEN Dir
  ELSE LastOf(archive, CHOOSE q \in EndsOf(archive, p) : TRUE).arg

\* What the archive describes: a link is the file its chain of links leads to.  One in which a
\* link leads to no file, or entries contradict each other, describes nothing.
Described(archive) ==
  IF /\ WellFormed(archive)
     /\ \A i \in DOMAIN archive : archive[i].kind = "link" =>
          \E q \in EndsOf(archive, archive[i].path) : KindAt(archive, q) = {"file"}
  THEN [p \in Path |-> ExpectedAt(archive, p)] ELSE NoTree

SmallArchivesExtract == \A archive \in Archives : Extract(archive) = Described(archive)
=============================================================================
