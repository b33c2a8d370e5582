-------------------------- MODULE ArchiveLinksProofs --------------------------
(***************************************************************************)
(* Every archive, of any length and with any links, is extracted as it     *)
(* describes itself.  What the loops of the extraction compute is stated   *)
(* without recursion, by induction along UpTo of SmallestElements.         *)
(***************************************************************************)
EXTENDS ArchiveLinks, SmallestElements, FiniteSetTheorems, TLAPS

LinkEntry == [kind : {"link"}, path : Path, arg : Path]
Trees == [Path -> Data \union {Absent, Dir}]
Reading == [ok : BOOLEAN, tree : Trees, links : Seq(LinkEntry)]

\* What an entry is: one of three kinds.
LEMMA EntryKinds ==
  ASSUME NEW a \in ArchiveEntry
  PROVE  /\ a.path \in Path
         /\ \/ a.kind = "file" /\ a.arg \in Data
            \/ a.kind = "dir" /\ a.arg = Dir
            \/ a.kind = "link" /\ a \in LinkEntry /\ a.arg \in Path
BY DEF ArchiveEntry, LinkEntry

LEMMA ExtractingIsReading == Extracting \in Reading
BY DEF Extracting, Reading, NoTree, Trees

LEMMA EntryKeepsReading ==
  ASSUME NEW x \in Reading, NEW a \in ArchiveEntry
  PROVE  ExtractEntry(x, a) \in Reading
<1>1. a.path \in Path /\ x.ok \in BOOLEAN /\ x.tree \in Trees /\ x.links \in Seq(LinkEntry)
  BY EntryKinds DEF Reading
<1>2. CASE a.kind = "link"
  <2>1. a \in LinkEntry
    BY <1>2, EntryKinds
  <2>2. Append(x.links, a) \in Seq(LinkEntry)
    BY <1>1, <2>1
  <2>3. ExtractEntry(x, a) = [x EXCEPT !.links = Append(x.links, a)]
    BY <1>2 DEF ExtractEntry
  <2> QED
    BY <2>2, <2>3 DEF Reading
<1>3. CASE a.kind = "file"
  <2>1. a.arg \in Data
    BY <1>3, EntryKinds
  <2>2. [x.tree EXCEPT ![a.path] = a.arg] \in Trees
    BY <1>1, <2>1 DEF Trees
  <2>3. ExtractEntry(x, a) = [x EXCEPT !.ok = x.ok /\ x.tree[a.path] # Dir,
                                       !.tree = [x.tree EXCEPT ![a.path] = a.arg]]
    BY <1>3 DEF ExtractEntry, Reading
  <2> QED
    BY <2>2, <2>3 DEF Reading
<1>4. CASE a.kind = "dir"
  <2>2. [x.tree EXCEPT ![a.path] = Dir] \in Trees
    BY <1>1 DEF Trees
  <2>3. ExtractEntry(x, a) = [x EXCEPT !.ok = x.ok /\ x.tree[a.path] \in {Absent, Dir},
                                       !.tree = [x.tree EXCEPT ![a.path] = Dir]]
    BY <1>4 DEF ExtractEntry, Reading
  <2> QED
    BY <2>2, <2>3 DEF Reading
<1> QED
  BY <1>2, <1>3, <1>4, EntryKinds

\* Read is the last state of a loop over the entries.
LEMMA ReadSteps ==
  ASSUME NEW A \in Seq(ArchiveEntry)
  PROVE  \E f \in [0..Len(A) -> Reading] :
           /\ f[0] = Extracting /\ Read(A) = f[Len(A)]
           /\ \A k \in 1..Len(A) : f[k] = ExtractEntry(f[k - 1], A[k])
<1> DEFINE n == Len(A)
           P(g) == g = [k \in 0..n |-> IF k = 0 THEN Extracting ELSE ExtractEntry(g[k - 1], A[k])]
           step == [k \in 1..n |-> [x \in Reading |-> ExtractEntry(x, A[k])]]
           g0 == CHOOSE g : P(g)
<1>0. n \in Nat /\ \A k \in 1..n : A[k] \in ArchiveEntry
  OBVIOUS
<1>1. step \in [1..n -> [Reading -> Reading]]
  BY <1>0, EntryKeepsReading
<1>2. PICK f : Follows(f, n, Reading, Extracting, step)
  <2>1. n \in Nat /\ Extracting \in Reading
    BY <1>0, ExtractingIsReading
  <2> HIDE DEF step, n, P, g0
  <2> QED
    BY <1>1, <2>1, Iteration
<1>3. ASSUME NEW k \in 1..n PROVE f[k] = ExtractEntry(f[k - 1], A[k])
  <2>1. f[k - 1] \in Reading /\ f[k] = step[k][f[k - 1]]
    BY <1>0, <1>2 DEF Follows
  <2>2. step[k][f[k - 1]] = ExtractEntry(f[k - 1], A[k])
    <3> HIDE DEF n
    <3> QED
      BY <2>1
  <2> QED
    BY <2>1, <2>2
<1>4. P(f)
  BY <1>0, <1>2, <1>3 DEF Follows
<1>5. P(g0)
  <2> HIDE DEF P
  <2> QED
    BY <1>4
<1>6. g0[0] = Extracting /\ \A k \in 1..n : k - 1 \in 0..n /\ g0[k] = ExtractEntry(g0[k - 1], A[k])
  <2>1. ASSUME NEW k \in 0..n PROVE g0[k] = IF k = 0 THEN Extracting ELSE ExtractEntry(g0[k - 1], A[k])
    <3> HIDE DEF g0, n
    <3> QED
      BY <1>5
  <2>2. 0 \in 0..n /\ \A k \in 1..n : k \in 0..n /\ k # 0 /\ k - 1 \in 0..n
    BY <1>0
  <2> HIDE DEF g0, n, P
  <2> QED
    BY <2>1, <2>2
<1>7. \A k \in 0..n : g0[k] \in Reading
  <2> DEFINE S == {k \in 0..n : g0[k] \in Reading}
  <2>1. 0 \in S
    BY <1>0, <1>6, ExtractingIsReading
  <2>2. ASSUME NEW k \in 0..n - 1, k \in S PROVE k + 1 \in S
    <3>1. k + 1 \in 1..n /\ (k + 1) - 1 = k
      BY <1>0
    <3> HIDE DEF g0
    <3> QED
      BY <1>0, <1>6, <2>2, <3>1, EntryKeepsReading
  <2>3. 0..n \subseteq S
    <3> HIDE DEF S, n
    <3> QED
      BY <1>0, <2>1, <2>2, UpTo
  <2> QED
    BY <2>3
<1>8. g0 \in [0..n -> Reading]
  <2> HIDE DEF g0
  <2> QED
    BY <1>5, <1>7
<1>9. Read(A) = g0[n]
  BY DEF Read
<1> QED
  BY <1>6, <1>8, <1>9

-----------------------------------------------------------------------------
(* What the entries leave                                                    *)

\* Entry i is a file or directory at p.
Plain(A, p, i) == A[i].path = p /\ A[i].kind # "link"

\* Of the first n entries, i is the last file or directory at p.
LastPlain(A, n, p, i) == i \in 1..n /\ Plain(A, p, i) /\ \A j \in 1..n : Plain(A, p, j) => j <= i

\* The tree after n entries: what the last file or directory of each path has put there.
TreeRead(A, n, tree) ==
  \A p \in Path : \/ tree[p] = Absent /\ \A i \in 1..n : ~Plain(A, p, i)
                  \/ \E i \in 1..n : LastPlain(A, n, p, i) /\ tree[p] = A[i].arg

\* Files and directories of one path are of one kind.
Consistent(A, n) ==
  \A i, j \in 1..n : \A p \in Path : Plain(A, p, i) /\ Plain(A, p, j) => A[i].kind = A[j].kind

TwoLinks(A, n) ==
  \E i, j \in 1..n : i # j /\ A[i].kind = "link" /\ A[j].kind = "link" /\ A[i].path = A[j].path

LinksRead(A, n, links) ==
  /\ \A j \in DOMAIN links : \E i \in 1..n : A[i] = links[j]
  /\ \A i \in 1..n : A[i].kind = "link" => \E j \in DOMAIN links : links[j] = A[i]
  /\ Duplicates(links) <=> TwoLinks(A, n)

LEMMA EntriesUpTo ==
  ASSUME NEW A \in Seq(ArchiveEntry), NEW n \in 0..Len(A) - 1
  PROVE  /\ n \in Nat /\ n + 1 \in 1..n + 1
         /\ \A i \in 1..n : i \in 1..n + 1 /\ i <= n + 1 /\ i # n + 1 /\ i \in Int
         /\ \A i \in 1..n + 1 : (i \in 1..n \/ i = n + 1) /\ i \in 1..Len(A) /\ A[i] \in ArchiveEntry
BY Z3

LEMMA TreeStep ==
  ASSUME NEW A \in Seq(ArchiveEntry), NEW n \in 0..Len(A) - 1,
         NEW tree \in Trees, TreeRead(A, n, tree)
  PROVE  /\ A[n + 1].kind = "link" => TreeRead(A, n + 1, tree)
         /\ A[n + 1].kind # "link" =>
              TreeRead(A, n + 1, [tree EXCEPT ![A[n + 1].path] = A[n + 1].arg])
<1> DEFINE a == A[n + 1]
           m == n + 1
<1>0. /\ m \in 1..m /\ m \in Int /\ a = A[m] /\ a \in ArchiveEntry
      /\ \A i \in 1..n : i \in 1..m /\ i <= m
      /\ \A i \in 1..m : i \in 1..n \/ i = m
  BY EntriesUpTo
<1> HIDE DEF a, m
<1>1. ASSUME a.kind = "link" PROVE TreeRead(A, m, tree)
  <2>1. \A p \in Path, i \in 1..m : Plain(A, p, i) => i \in 1..n
    BY <1>0, <1>1 DEF Plain
  <2> QED
    BY <1>0, <2>1 DEF TreeRead, LastPlain
<1>2. ASSUME a.kind # "link" PROVE TreeRead(A, m, [tree EXCEPT ![a.path] = a.arg])
  <2> SUFFICES ASSUME NEW p \in Path
               PROVE  LET t == [tree EXCEPT ![a.path] = a.arg]
                      IN  \/ t[p] = Absent /\ \A i \in 1..m : ~Plain(A, p, i)
                          \/ \E i \in 1..m : LastPlain(A, m, p, i) /\ t[p] = A[i].arg
    BY DEF TreeRead
  <2>1. CASE p = a.path
    <3>1. LastPlain(A, m, p, m)
      <4>1. Plain(A, p, m)
        BY <1>0, <1>2, <2>1 DEF Plain
      <4>2. \A j \in 1..m : j <= m
        BY <1>0
      <4> QED
        BY <1>0, <4>1, <4>2 DEF LastPlain
    <3>2. [tree EXCEPT ![a.path] = a.arg][p] = A[m].arg
      BY <1>0, <2>1 DEF Trees
    <3> QED
      BY <1>0, <3>1, <3>2
  <2>2. CASE p # a.path
    <3>1. \A i \in 1..m : Plain(A, p, i) => i \in 1..n
      BY <1>0, <2>2 DEF Plain
    <3>2. [tree EXCEPT ![a.path] = a.arg][p] = tree[p]
      BY <2>2 DEF Trees
    <3> QED
      BY <1>0, <3>1, <3>2 DEF TreeRead, LastPlain
  <2> QED
    BY <2>1, <2>2
<1> QED
  BY <1>1, <1>2 DEF a, m

\* A kind that fits the entry before it of the same path fits all of them.
LEMMA ConsistentStep ==
  ASSUME NEW A \in Seq(ArchiveEntry), NEW n \in 0..Len(A) - 1,
         NEW tree \in Trees, TreeRead(A, n, tree)
  PROVE  /\ A[n + 1].kind = "link" => (Consistent(A, n + 1) <=> Consistent(A, n))
         /\ A[n + 1].kind = "file" =>
              (Consistent(A, n + 1) <=> Consistent(A, n) /\ tree[A[n + 1].path] # Dir)
         /\ A[n + 1].kind = "dir" =>
              (Consistent(A, n + 1) <=> Consistent(A, n) /\ tree[A[n + 1].path] \in {Absent, Dir})
<1> DEFINE a == A[n + 1]
           m == n + 1
<1>0. /\ m \in 1..m /\ a = A[m] /\ a \in ArchiveEntry /\ a.path \in Path
      /\ \A i \in 1..n : i \in 1..m /\ A[i] \in ArchiveEntry
      /\ \A i \in 1..m : i \in 1..n \/ i = m
  BY EntriesUpTo, EntryKinds
<1> HIDE DEF a, m
<1>1. Consistent(A, m) => Consistent(A, n)
  BY <1>0 DEF Consistent
<1>2. ASSUME a.kind = "link", Consistent(A, n) PROVE Consistent(A, m)
  BY <1>0, <1>2 DEF Consistent, Plain
<1>3. ASSUME a.kind # "link", Consistent(A, n)
      PROVE  Consistent(A, m) <=> \A i \in 1..n : Plain(A, a.path, i) => A[i].kind = a.kind
  BY <1>0, <1>3 DEF Consistent, Plain
<1>4. CASE \A i \in 1..n : ~Plain(A, a.path, i)
  <2>1. tree[a.path] = Absent
    BY <1>0, <1>4 DEF TreeRead, LastPlain
  <2>2. tree[a.path] # Dir /\ tree[a.path] \in {Absent, Dir}
    BY <2>1, ArchiveAssumption
  <2>3. a.kind # "link" /\ Consistent(A, n) => Consistent(A, m)
    BY <1>3, <1>4
  <2>4. (a.kind = "link" \/ a.kind = "file" \/ a.kind = "dir")
    BY <1>0, EntryKinds
  <2> QED
    BY <1>1, <1>2, <2>2, <2>3 DEF a, m
<1>5. CASE \E i \in 1..n : Plain(A, a.path, i)
  <2>1. PICK i \in 1..n : LastPlain(A, n, a.path, i) /\ tree[a.path] = A[i].arg
    BY <1>0, <1>5 DEF TreeRead
  <2>2. /\ Plain(A, a.path, i) /\ A[i] \in ArchiveEntry
        /\ \/ A[i].kind = "file" /\ A[i].arg \in Data
           \/ A[i].kind = "dir" /\ A[i].arg = Dir
    BY <1>0, <2>1, EntryKinds DEF LastPlain, Plain
  <2>3. /\ A[i].kind = "file" => tree[a.path] # Dir /\ tree[a.path] \notin {Absent, Dir}
        /\ A[i].kind = "dir" => tree[a.path] = Dir /\ tree[a.path] \in {Absent, Dir}
    BY <2>1, <2>2, ArchiveAssumption
  <2>4. Consistent(A, n) => \A j \in 1..n : Plain(A, a.path, j) => A[j].kind = A[i].kind
    BY <1>0, <2>1, <2>2 DEF Consistent
  <2>5. a.kind # "link" /\ Consistent(A, n) => (Consistent(A, m) <=> A[i].kind = a.kind)
    BY <1>3, <2>1, <2>2, <2>4
  <2> QED
    BY <1>1, <1>2, <2>2, <2>3, <2>5 DEF a, m
<1> QED
  BY <1>4, <1>5

LEMMA LinksStep ==
  ASSUME NEW A \in Seq(ArchiveEntry), NEW n \in 0..Len(A) - 1,
         NEW links \in Seq(LinkEntry), LinksRead(A, n, links)
  PROVE  /\ A[n + 1].kind = "link" => LinksRead(A, n + 1, Append(links, A[n + 1]))
         /\ A[n + 1].kind # "link" => LinksRead(A, n + 1, links)
<1> DEFINE a == A[n + 1]
           m == n + 1
           l == Append(links, a)
           k == Len(links) + 1
<1>0. /\ m \in 1..m /\ a = A[m] /\ a \in ArchiveEntry
      /\ \A i \in 1..n : i \in 1..m /\ i # m
      /\ \A i \in 1..m : i \in 1..n \/ i = m
  BY EntriesUpTo
<1>1. ASSUME a.kind # "link" PROVE LinksRead(A, m, links)
  <2> HIDE DEF a, m
  <2>1. \A i \in 1..m : A[i].kind = "link" => i \in 1..n
    BY <1>0, <1>1
  <2>2. TwoLinks(A, m) <=> TwoLinks(A, n)
    BY <1>0, <2>1 DEF TwoLinks
  <2> QED
    BY <1>0, <2>1, <2>2 DEF LinksRead
<1>2. ASSUME a.kind = "link" PROVE LinksRead(A, m, l)
  <2>1. a \in LinkEntry
    BY <1>0, <1>2, EntryKinds
  <2>2. /\ k \in DOMAIN l /\ l[k] = a
        /\ \A j \in DOMAIN links : j \in DOMAIN l /\ l[j] = links[j] /\ j # k
        /\ \A j \in DOMAIN l : j \in DOMAIN links \/ j = k
    BY <2>1
  <2>3. \A j \in DOMAIN links : links[j].kind = "link"
    <3>1. \A j \in DOMAIN links : links[j] \in LinkEntry
      OBVIOUS
    <3> QED
      BY <3>1 DEF LinkEntry
  <2> HIDE DEF a, m, l, k
  <2>4. \A j \in DOMAIN l : \E i \in 1..m : A[i] = l[j]
    BY <1>0, <2>2 DEF LinksRead
  <2>5. \A i \in 1..m : A[i].kind = "link" => \E j \in DOMAIN l : l[j] = A[i]
    BY <1>0, <2>2 DEF LinksRead
  <2>6. ASSUME NEW i \in 1..m, NEW j \in 1..m, i # j, A[i].kind = "link", A[j].kind = "link",
               A[i].path = A[j].path
        PROVE  Duplicates(l)
    <3>1. CASE i \in 1..n /\ j \in 1..n
      <4>1. Duplicates(links)
        BY <2>6, <3>1 DEF LinksRead, TwoLinks
      <4> QED
        BY <2>2, <4>1 DEF Duplicates
    <3>2. CASE i = m /\ j \in 1..n
      <4>1. PICK z \in DOMAIN links : links[z] = A[j]
        BY <2>6, <3>2 DEF LinksRead
      <4> QED
        BY <1>0, <2>2, <2>6, <3>2, <4>1 DEF Duplicates
    <3>3. CASE i \in 1..n /\ j = m
      <4>1. PICK z \in DOMAIN links : links[z] = A[i]
        BY <2>6, <3>3 DEF LinksRead
      <4> QED
        BY <1>0, <2>2, <2>6, <3>3, <4>1 DEF Duplicates
    <3> QED
      BY <1>0, <2>6, <3>1, <3>2, <3>3
  <2>7. ASSUME NEW i \in DOMAIN l, NEW j \in DOMAIN l, i # j, l[i].path = l[j].path
        PROVE  TwoLinks(A, m)
    <3>1. CASE i \in DOMAIN links /\ j \in DOMAIN links
      <4>1. TwoLinks(A, n)
        BY <2>2, <2>7, <3>1 DEF LinksRead, Duplicates
      <4> QED
        BY <1>0, <4>1 DEF TwoLinks
    <3>2. CASE i \in DOMAIN links /\ j = k
      <4>1. PICK z \in 1..n : A[z] = links[i]
        BY <3>2 DEF LinksRead
      <4> QED
        BY <1>0, <1>2, <2>2, <2>3, <2>7, <3>2, <4>1 DEF TwoLinks
    <3>3. CASE i = k /\ j \in DOMAIN links
      <4>1. PICK z \in 1..n : A[z] = links[j]
        BY <3>3 DEF LinksRead
      <4> QED
        BY <1>0, <1>2, <2>2, <2>3, <2>7, <3>3, <4>1 DEF TwoLinks
    <3> QED
      BY <2>2, <2>7, <3>1, <3>2, <3>3
  <2>8. Duplicates(l) <=> TwoLinks(A, m)
    BY <2>6, <2>7 DEF Duplicates, TwoLinks
  <2> QED
    BY <2>4, <2>5, <2>8 DEF LinksRead
<1> QED
  BY <1>1, <1>2

\* What Read leaves of an archive.
LEMMA ReadIs ==
  ASSUME NEW A \in Seq(ArchiveEntry)
  PROVE  /\ Read(A) \in Reading
         /\ TreeRead(A, Len(A), Read(A).tree)
         /\ Read(A).ok <=> Consistent(A, Len(A))
         /\ LinksRead(A, Len(A), Read(A).links)
<1> DEFINE n == Len(A)
<1>0. n \in Nat
  OBVIOUS
<1>1. PICK f \in [0..n -> Reading] :
        /\ f[0] = Extracting /\ Read(A) = f[n]
        /\ \A k \in 1..n : f[k] = ExtractEntry(f[k - 1], A[k])
  BY ReadSteps
<1> DEFINE Fits(k) == /\ TreeRead(A, k, f[k].tree)
                      /\ f[k].ok <=> Consistent(A, k)
                      /\ LinksRead(A, k, f[k].links)
           S == {k \in 0..n : Fits(k)}
<1>2. 0 \in S
  <2>1. 1..0 = {}
    OBVIOUS
  <2>2. f[0].tree = [p \in Path |-> Absent] /\ f[0].ok = TRUE /\ f[0].links = <<>>
    BY <1>1 DEF Extracting, NoTree
  <2>3. TreeRead(A, 0, f[0].tree)
    BY <2>1, <2>2 DEF TreeRead
  <2>4. f[0].ok <=> Consistent(A, 0)
    BY <2>1, <2>2 DEF Consistent
  <2>5. LinksRead(A, 0, f[0].links)
    <3>1. DOMAIN f[0].links = {}
      BY <2>2
    <3> QED
      BY <2>1, <3>1 DEF LinksRead, Duplicates, TwoLinks
  <2> QED
    BY <1>0, <2>3, <2>4, <2>5
<1>3. ASSUME NEW k \in 0..n - 1, k \in S PROVE k + 1 \in S
  <2> DEFINE a == A[k + 1]
             x == f[k]
             y == f[k + 1]
  <2>1. k \in 0..n /\ k + 1 \in 0..n /\ k + 1 \in 1..n /\ (k + 1) - 1 = k
    BY <1>0
  <2>2. x \in Reading /\ a \in ArchiveEntry /\ y = ExtractEntry(x, a) /\ Fits(k)
    BY <1>1, <1>3, <2>1
  <2>3. x.tree \in Trees /\ x.links \in Seq(LinkEntry) /\ x.ok \in BOOLEAN
    BY <2>2 DEF Reading
  <2>4. TreeRead(A, k, x.tree) /\ (x.ok <=> Consistent(A, k)) /\ LinksRead(A, k, x.links)
    BY <2>2
  <2>5. CASE a.kind = "link"
    <3>1. y.tree = x.tree /\ y.ok = x.ok /\ y.links = Append(x.links, a)
      BY <2>2, <2>5 DEF ExtractEntry, Reading
    <3> QED
      BY <2>1, <2>3, <2>4, <2>5, <3>1, TreeStep, ConsistentStep, LinksStep
  <2>6. CASE a.kind = "file"
    <3>1. y.tree = [x.tree EXCEPT ![a.path] = a.arg] /\ y.links = x.links
          /\ (y.ok <=> x.ok /\ x.tree[a.path] # Dir)
      BY <2>2, <2>6 DEF ExtractEntry, Reading
    <3> QED
      BY <2>1, <2>3, <2>4, <2>6, <3>1, TreeStep, ConsistentStep, LinksStep
  <2>7. CASE a.kind = "dir"
    <3>0. a.arg = Dir
      BY <2>2, <2>7, EntryKinds
    <3>1. y.tree = [x.tree EXCEPT ![a.path] = a.arg] /\ y.links = x.links
          /\ (y.ok <=> x.ok /\ x.tree[a.path] \in {Absent, Dir})
      BY <2>2, <2>7, <3>0 DEF ExtractEntry, Reading
    <3> QED
      BY <2>1, <2>3, <2>4, <2>7, <3>1, TreeStep, ConsistentStep, LinksStep
  <2> QED
    BY <2>2, <2>5, <2>6, <2>7, EntryKinds
<1>4. n \in S
  <2> HIDE DEF S, n
  <2>1. n \in 0..n
    BY <1>0
  <2> QED
    BY <1>0, <1>2, <1>3, <2>1, UpTo
<1> QED
  BY <1>1, <1>4

-----------------------------------------------------------------------------
(* The chain of links from a path                                            *)

\* c goes along the links from p, as often as there are links.
IsChain(c, links, p) ==
  /\ c \in [0..Len(links) -> Path] /\ c[0] = p
  /\ \A k \in 1..Len(links) : c[k] = NextAlong(links, c[k - 1])

LEMMA LinkAtIs ==
  ASSUME NEW links \in Seq(LinkEntry), NEW p, IsLink(links, p)
  PROVE  /\ LinkAt(links, p) \in DOMAIN links /\ links[LinkAt(links, p)].path = p
         /\ links[LinkAt(links, p)] \in LinkEntry
<1>1. LinkAt(links, p) \in DOMAIN links /\ links[LinkAt(links, p)].path = p
  BY DEF IsLink, LinkAt
<1> QED
  BY <1>1

LEMMA NextIsPath ==
  ASSUME NEW links \in Seq(LinkEntry), NEW p \in Path
  PROVE  NextAlong(links, p) \in Path
BY LinkAtIs DEF NextAlong, LinkEntry

LEMMA ChainExists ==
  ASSUME NEW links \in Seq(LinkEntry), NEW p \in Path
  PROVE  \E c : /\ IsChain(c, links, p)
                /\ ResolvedTarget(links, p) = IF IsLink(links, c[Len(links)]) THEN Absent
                                              ELSE c[Len(links)]
<1> DEFINE n == Len(links)
           P(g) == g = [k \in 0..n |-> IF k = 0 THEN p ELSE NextAlong(links, g[k - 1])]
           step == [k \in 1..n |-> [q \in Path |-> NextAlong(links, q)]]
           g0 == CHOOSE g : P(g)
<1>0. n \in Nat
  OBVIOUS
<1>1. step \in [1..n -> [Path -> Path]]
  BY NextIsPath
<1>2. PICK f : Follows(f, n, Path, p, step)
  <2> HIDE DEF step, n, P, g0
  <2> QED
    BY <1>0, <1>1, Iteration
<1>3. ASSUME NEW k \in 1..n PROVE f[k] = NextAlong(links, f[k - 1])
  <2>1. f[k - 1] \in Path /\ f[k] = step[k][f[k - 1]]
    BY <1>0, <1>2 DEF Follows
  <2>2. step[k][f[k - 1]] = NextAlong(links, f[k - 1])
    <3> HIDE DEF n
    <3> QED
      BY <2>1
  <2> QED
    BY <2>1, <2>2
<1>4. P(f)
  BY <1>0, <1>2, <1>3 DEF Follows
<1>5. P(g0)
  <2> HIDE DEF P
  <2> QED
    BY <1>4
<1>6. g0[0] = p /\ \A k \in 1..n : k - 1 \in 0..n /\ g0[k] = NextAlong(links, g0[k - 1])
  <2>1. ASSUME NEW k \in 0..n PROVE g0[k] = IF k = 0 THEN p ELSE NextAlong(links, g0[k - 1])
    <3> HIDE DEF g0, n
    <3> QED
      BY <1>5
  <2>2. 0 \in 0..n /\ \A k \in 1..n : k \in 0..n /\ k # 0 /\ k - 1 \in 0..n
    BY <1>0
  <2> HIDE DEF g0, n, P
  <2> QED
    BY <2>1, <2>2
<1>7. \A k \in 0..n : g0[k] \in Path
  <2> DEFINE S == {k \in 0..n : g0[k] \in Path}
  <2>1. 0 \in S
    BY <1>0, <1>6
  <2>2. ASSUME NEW k \in 0..n - 1, k \in S PROVE k + 1 \in S
    <3>1. k + 1 \in 1..n /\ (k + 1) - 1 = k
      BY <1>0
    <3> HIDE DEF g0
    <3> QED
      BY <1>0, <1>6, <2>2, <3>1, NextIsPath
  <2>3. 0..n \subseteq S
    <3> HIDE DEF S, n
    <3> QED
      BY <1>0, <2>1, <2>2, UpTo
  <2> QED
    BY <2>3
<1>8. g0 \in [0..n -> Path]
  <2> HIDE DEF g0
  <2> QED
    BY <1>5, <1>7
<1>9. IsChain(g0, links, p)
  BY <1>6, <1>8 DEF IsChain
<1>10. ResolvedTarget(links, p) = IF IsLink(links, g0[n]) THEN Absent ELSE g0[n]
  BY DEF ResolvedTarget
<1> QED
  BY <1>9, <1>10

\* Where there is no link, the chain stays.
LEMMA ChainStays ==
  ASSUME NEW links \in Seq(LinkEntry), NEW p \in Path, NEW c, IsChain(c, links, p),
         NEW n \in 0..Len(links), ~IsLink(links, c[n])
  PROVE  \A m \in 0..Len(links) : m >= n => c[m] = c[n]
<1> DEFINE L == Len(links)
           S == {k \in 0..L : k >= n => c[k] = c[n]}
<1>0. L \in Nat /\ n \in Nat
  OBVIOUS
<1>1. 0 \in S
  BY <1>0
<1>2. ASSUME NEW k \in 0..L - 1, k \in S PROVE k + 1 \in S
  <2>1. k + 1 \in 1..L /\ (k + 1) - 1 = k /\ k + 1 \in 0..L
    BY <1>0
  <2>2. c[k + 1] = NextAlong(links, c[k])
    BY <2>1 DEF IsChain
  <2>3. k >= n => c[k + 1] = c[n]
    BY <1>2, <2>2 DEF NextAlong
  <2>4. k + 1 >= n => k >= n \/ k + 1 = n
    BY <1>0
  <2> QED
    BY <2>1, <2>3, <2>4
<1>3. 0..L \subseteq S
  <2> HIDE DEF S, L
  <2> QED
    BY <1>0, <1>1, <1>2, UpTo
<1> QED
  BY <1>3

\* The entries and the links read from them.
Linked(A, links) ==
  A \in Seq(ArchiveEntry) /\ links \in Seq(LinkEntry) /\ LinksRead(A, Len(A), links)

LEMMA LinksAreEntries ==
  ASSUME NEW A, NEW links, Linked(A, links)
  PROVE  /\ A \in Seq(ArchiveEntry) /\ links \in Seq(LinkEntry)
         /\ \A j \in DOMAIN links : \E i \in DOMAIN A : A[i] = links[j] /\ A[i].kind = "link"
         /\ \A i \in DOMAIN A : A[i].kind = "link" =>
              IsLink(links, A[i].path) /\ (~Duplicates(links) => NextAlong(links, A[i].path) = A[i].arg)
         /\ \A p : IsLink(links, p) <=> \E i \in DOMAIN A : A[i].kind = "link" /\ A[i].path = p
<1>0. A \in Seq(ArchiveEntry) /\ links \in Seq(LinkEntry) /\ DOMAIN A = 1..Len(A)
  BY DEF Linked
<1>1. ASSUME NEW j \in DOMAIN links PROVE \E i \in DOMAIN A : A[i] = links[j] /\ A[i].kind = "link"
  <2>1. PICK i \in DOMAIN A : A[i] = links[j]
    BY <1>0 DEF Linked, LinksRead
  <2>2. links[j] \in LinkEntry
    BY <1>0
  <2> QED
    BY <2>1, <2>2 DEF LinkEntry
<1>2. ASSUME NEW i \in DOMAIN A, A[i].kind = "link"
      PROVE  IsLink(links, A[i].path)
             /\ (~Duplicates(links) => NextAlong(links, A[i].path) = A[i].arg)
  <2>1. PICK j \in DOMAIN links : links[j] = A[i]
    BY <1>0, <1>2 DEF Linked, LinksRead
  <2>2. IsLink(links, A[i].path)
    BY <2>1 DEF IsLink
  <2>3. LinkAt(links, A[i].path) \in DOMAIN links /\ links[LinkAt(links, A[i].path)].path = A[i].path
    BY <1>0, <2>2, LinkAtIs
  <2>4. ~Duplicates(links) => LinkAt(links, A[i].path) = j
    BY <2>1, <2>3 DEF Duplicates
  <2> QED
    BY <2>1, <2>2, <2>4 DEF NextAlong
<1>3. ASSUME NEW p, IsLink(links, p) PROVE \E i \in DOMAIN A : A[i].kind = "link" /\ A[i].path = p
  <2>1. PICK j \in DOMAIN links : links[j].path = p
    BY <1>3 DEF IsLink
  <2> QED
    BY <1>1, <2>1
<1> QED
  BY <1>0, <1>1, <1>2, <1>3

\* S is closed under the links of A.
Closed(A, S) == \A i \in DOMAIN A : A[i].kind = "link" /\ A[i].path \in S => A[i].arg \in S

LEMMA AlongIs ==
  ASSUME NEW A, NEW p \in Path, NEW q \in Path
  PROVE  q \in Along(A, p) <=> \A S \in SUBSET Path : p \in S /\ Closed(A, S) => q \in S
BY DEF Along, Closed

\* The chain stays within what can be reached.
LEMMA ChainIsAlong ==
  ASSUME NEW A, NEW links, Linked(A, links), NEW p \in Path, NEW c, IsChain(c, links, p)
  PROVE  \A n \in 0..Len(links) : c[n] \in Along(A, p)
<1> DEFINE L == Len(links)
<1>0. L \in Nat /\ links \in Seq(LinkEntry) /\ \A n \in 0..L : c[n] \in Path
  BY LinksAreEntries DEF IsChain
<1>1. ASSUME NEW S \in SUBSET Path, p \in S, Closed(A, S) PROVE \A n \in 0..L : c[n] \in S
  <2> DEFINE T == {n \in 0..L : c[n] \in S}
  <2>1. 0 \in T
    BY <1>0, <1>1 DEF IsChain
  <2>2. ASSUME NEW n \in 0..L - 1, n \in T PROVE n + 1 \in T
    <3>1. n + 1 \in 1..L /\ (n + 1) - 1 = n /\ n + 1 \in 0..L
      BY <1>0
    <3>2. c[n + 1] = NextAlong(links, c[n]) /\ c[n] \in S
      BY <2>2, <3>1 DEF IsChain
    <3>3. CASE ~IsLink(links, c[n])
      BY <3>1, <3>2, <3>3 DEF NextAlong
    <3>4. CASE IsLink(links, c[n])
      <4>1. PICK i \in DOMAIN A : A[i] = links[LinkAt(links, c[n])] /\ A[i].kind = "link"
        BY <1>0, <3>4, LinkAtIs, LinksAreEntries
      <4>2. A[i].path = c[n] /\ c[n + 1] = A[i].arg
        BY <1>0, <3>2, <3>4, <4>1, LinkAtIs DEF NextAlong
      <4>3. c[n + 1] \in S
        BY <1>1, <3>2, <4>1, <4>2 DEF Closed
      <4> QED
        BY <3>1, <4>3
    <3> QED
      BY <3>3, <3>4
  <2>3. 0..L \subseteq T
    <3> HIDE DEF T, L
    <3> QED
      BY <1>0, <2>1, <2>2, UpTo
  <2> QED
    BY <2>3
<1> QED
  BY <1>0, <1>1, AlongIs

\* Without two links at one path, the first n elements of a chain hold all that can be reached if
\* the one after them is among them or the last of them is no link.
LEMMA ReachedByChain ==
  ASSUME NEW A, NEW links, Linked(A, links), ~Duplicates(links), NEW p \in Path,
         NEW c, IsChain(c, links, p), NEW n \in 0..Len(links),
         IsLink(links, c[n]) => \E k \in 0..n : NextAlong(links, c[n]) = c[k]
  PROVE  \A q \in Along(A, p) : \E k \in 0..n : q = c[k]
<1> DEFINE L == Len(links)
           S == {c[k] : k \in 0..n}
<1>0. L \in Nat /\ n \in Nat /\ links \in Seq(LinkEntry) /\ \A k \in 0..n : k \in 0..L /\ c[k] \in Path
  <2>1. links \in Seq(LinkEntry)
    BY LinksAreEntries
  <2>2. L \in Nat /\ n \in Nat /\ \A k \in 0..n : k \in 0..L
    BY <2>1
  <2>3. \A k \in 0..L : c[k] \in Path
    BY DEF IsChain
  <2> QED
    BY <2>1, <2>2, <2>3
<1>1. S \subseteq Path /\ p \in S
  <2>1. 0 \in 0..n /\ c[0] = p
    BY <1>0 DEF IsChain
  <2> QED
    BY <1>0, <2>1
<1>2. ASSUME NEW i \in DOMAIN A, A[i].kind = "link", A[i].path \in S PROVE A[i].arg \in S
  <2>1. PICK k \in 0..n : A[i].path = c[k]
    BY <1>2
  <2>2. IsLink(links, c[k]) /\ NextAlong(links, c[k]) = A[i].arg
    BY <1>2, <2>1, LinksAreEntries
  <2>3. CASE k = n
    BY <2>2, <2>3
  <2>4. CASE k # n
    <3>1. k + 1 \in 1..L /\ (k + 1) - 1 = k /\ k + 1 \in 0..n
      BY <1>0, <2>4
    <3>2. c[k + 1] = NextAlong(links, c[k])
      BY <3>1 DEF IsChain
    <3> QED
      BY <2>2, <3>1, <3>2
  <2> QED
    BY <2>3, <2>4
<1>3. Closed(A, S)
  BY <1>2 DEF Closed
<1>4. ASSUME NEW q \in Along(A, p) PROVE q \in S
  <2>1. q \in Path
    BY DEF Along
  <2> HIDE DEF S
  <2> QED
    BY <1>1, <1>3, <2>1, AlongIs
<1> QED
  BY <1>4

\* A chain of links longer than there are links comes back to a path.
LEMMA ChainRepeats ==
  ASSUME NEW links \in Seq(LinkEntry), NEW p \in Path, NEW c, IsChain(c, links, p),
         \A k \in 0..Len(links) : IsLink(links, c[k])
  PROVE  \E i \in 0..Len(links), j \in 0..Len(links) : i < j /\ c[i] = c[j]
<1> DEFINE L == Len(links)
           f == [k \in 0..L |-> LinkAt(links, c[k])]
<1>0. L \in Nat /\ DOMAIN links = 1..L
  OBVIOUS
<1>1. \A k \in 0..L : f[k] \in 1..L /\ links[f[k]].path = c[k]
  BY <1>0, LinkAtIs
<1>2. f \in [0..L -> 1..L]
  BY <1>1
<1>3. /\ IsFiniteSet(0..L) /\ Cardinality(0..L) = L + 1
      /\ IsFiniteSet(1..L) /\ Cardinality(1..L) = L
  <2>1. IsFiniteSet(0..L) /\ Cardinality(0..L) = IF 0 > L THEN 0 ELSE L - 0 + 1
    <3> HIDE DEF L
    <3> QED
      BY <1>0, FS_Interval
  <2>2. IsFiniteSet(1..L) /\ Cardinality(1..L) = IF 1 > L THEN 0 ELSE L - 1 + 1
    <3> HIDE DEF L
    <3> QED
      BY <1>0, FS_Interval
  <2> HIDE DEF L
  <2> QED
    BY <1>0, <2>1, <2>2
<1>4. PICK i \in 0..L, j \in 0..L : i # j /\ f[i] = f[j]
  <2> HIDE DEF f, L
  <2>1. Cardinality(1..L) < Cardinality(0..L)
    BY <1>0, <1>3
  <2> QED
    BY <1>2, <1>3, <2>1, FS_PigeonHole
<1>5. c[i] = c[j]
  BY <1>1, <1>4
<1>6. i < j \/ j < i
  BY <1>0, <1>4
<1> QED
  BY <1>5, <1>6

\* ResolvedTarget is the one path without a link that can be reached, Absent if there is none.
LEMMA TargetIsEnd ==
  ASSUME NEW A, NEW links, Linked(A, links), ~Duplicates(links), NEW p \in Path
  PROVE  LET t == ResolvedTarget(links, p)
             ends == {q \in Along(A, p) : ~IsLink(links, q)}
         IN  /\ t # Absent => t \in Path /\ ~IsLink(links, t) /\ ends = {t}
             /\ t = Absent => ends = {}
<1> DEFINE L == Len(links)
           t == ResolvedTarget(links, p)
           ends == {q \in Along(A, p) : ~IsLink(links, q)}
<1>0. L \in Nat /\ links \in Seq(LinkEntry)
  BY LinksAreEntries
<1>1. PICK c : IsChain(c, links, p) /\ t = IF IsLink(links, c[L]) THEN Absent ELSE c[L]
  BY <1>0, ChainExists
<1>2. L \in 0..L /\ \A k \in 0..L : c[k] \in Path /\ c[k] # Absent /\ k <= L
  BY <1>0, <1>1, ArchiveAssumption DEF IsChain
<1>3. CASE ~IsLink(links, c[L])
  <2>1. t = c[L] /\ t \in Path /\ t # Absent /\ ~IsLink(links, t)
    BY <1>1, <1>2, <1>3
  <2>2. t \in ends
    BY <1>1, <1>2, <2>1, ChainIsAlong
  <2>3. ASSUME NEW q \in ends PROVE q = t
    <3>1. q \in Along(A, p) /\ ~IsLink(links, q)
      OBVIOUS
    <3> HIDE DEF ends, t, L
    <3>2. PICK k \in 0..L : q = c[k]
      BY <1>1, <1>2, <1>3, <3>1, ReachedByChain DEF L
    <3>3. c[L] = c[k]
      BY <1>0, <1>1, <1>2, <3>1, <3>2, ChainStays DEF L
    <3> QED
      BY <2>1, <3>2, <3>3
  <2> QED
    BY <2>1, <2>2, <2>3
<1>4. CASE IsLink(links, c[L])
  <2>1. t = Absent
    BY <1>1, <1>4
  <2>2. \A k \in 0..L : IsLink(links, c[k])
    <3> HIDE DEF ends, t
    <3> QED
      BY <1>0, <1>1, <1>2, <1>4, ChainStays
  <2>3. PICK i \in 0..L, j \in 0..L : i < j /\ c[i] = c[j]
    <3> HIDE DEF ends, t
    <3> QED
      BY <1>0, <1>1, <2>2, ChainRepeats
  <2>4. j - 1 \in 0..L /\ j \in 1..L /\ i \in 0..j - 1 /\ \A k \in 0..j - 1 : k \in 0..L
    BY <1>0, <2>3
  <2>5. NextAlong(links, c[j - 1]) = c[i]
    BY <1>1, <2>3, <2>4 DEF IsChain
  <2>6. \A q \in Along(A, p) : \E k \in 0..j - 1 : q = c[k]
    <3> DEFINE n == j - 1
    <3>1. n \in 0..Len(links) /\ \E k \in 0..n : NextAlong(links, c[n]) = c[k]
      BY <2>4, <2>5
    <3> HIDE DEF n, ends, t, L
    <3>2. \A q \in Along(A, p) : \E k \in 0..n : q = c[k]
      BY <1>1, <3>1, ReachedByChain
    <3> QED
      BY <3>2 DEF n
  <2>7. ends = {}
    BY <2>2, <2>4, <2>6
  <2>8. t = Absent /\ ends = {}
    BY <2>1, <2>7
  <2> HIDE DEF t, ends
  <2> QED
    BY <2>8 DEF t, ends
<1> QED
  BY <1>3, <1>4

-----------------------------------------------------------------------------
(* The copies that replace the links                                         *)

\* A link at p can be replaced: nothing else is there, and its chain leads to a file.
Good(read, p) ==
  LET t == ResolvedTarget(read.links, p)
  IN  read.tree[p] = Absent /\ t # Absent /\ read.tree[t] \in Data

\* What is there once the first n links have been replaced.
CopiedAt(read, n, p) ==
  IF \E j \in 1..n : read.links[j].path = p THEN read.tree[ResolvedTarget(read.links, p)]
  ELSE read.tree[p]

Copied(read, n, x) ==
  /\ x.ok <=> \A j \in 1..n : Good(read, read.links[j].path)
  /\ x.ok => \A p \in Path : x.tree[p] = CopiedAt(read, n, p)

LEMMA TargetIsPath ==
  ASSUME NEW links \in Seq(LinkEntry), NEW p \in Path, ResolvedTarget(links, p) # Absent
  PROVE  ResolvedTarget(links, p) \in Path /\ ~IsLink(links, ResolvedTarget(links, p))
<1>1. PICK c : IsChain(c, links, p) /\ ResolvedTarget(links, p) = IF IsLink(links, c[Len(links)])
                                                                  THEN Absent ELSE c[Len(links)]
  BY ChainExists
<1>2. Len(links) \in 0..Len(links)
  OBVIOUS
<1> QED
  BY <1>1, <1>2 DEF IsChain

LEMMA MaterializeKeepsReading ==
  ASSUME NEW x \in Reading, NEW links \in Seq(LinkEntry), NEW l \in LinkEntry
  PROVE  MaterializeLink(links, x, l) \in Reading
<1> DEFINE t == ResolvedTarget(links, l.path)
<1>1. x.tree \in Trees /\ l.path \in Path /\ x.ok \in BOOLEAN
  BY DEF Reading, LinkEntry
<1>2. [x EXCEPT !.ok = FALSE] \in Reading
  BY DEF Reading
<1>3. ASSUME t # Absent, x.tree[t] \in Data PROVE [x EXCEPT !.tree[l.path] = x.tree[t]] \in Reading
  <2>1. [x.tree EXCEPT ![l.path] = x.tree[t]] \in Trees
    <3> HIDE DEF t
    <3> QED
      BY <1>1, <1>3 DEF Trees
  <2>2. [x EXCEPT !.tree[l.path] = x.tree[t]] = [x EXCEPT !.tree = [x.tree EXCEPT ![l.path] = x.tree[t]]]
    BY DEF Reading
  <2> HIDE DEF t
  <2> QED
    BY <2>1, <2>2 DEF Reading
<1> QED
  BY <1>2, <1>3 DEF MaterializeLink

\* Materialize is the last state of a loop over the links.
LEMMA MaterializeSteps ==
  ASSUME NEW read \in Reading
  PROVE  \E f \in [0..Len(read.links) -> Reading] :
           /\ f[0] = read /\ Materialize(read) = f[Len(read.links)]
           /\ \A k \in 1..Len(read.links) :
                f[k] = MaterializeLink(read.links, f[k - 1], read.links[k])
<1> DEFINE n == Len(read.links)
           P(g) == g = [k \in 0..n |-> IF k = 0 THEN read
                                       ELSE MaterializeLink(read.links, g[k - 1], read.links[k])]
           step == [k \in 1..n |-> [x \in Reading |-> MaterializeLink(read.links, x, read.links[k])]]
           g0 == CHOOSE g : P(g)
<1>0. n \in Nat /\ read.links \in Seq(LinkEntry) /\ \A k \in 1..n : read.links[k] \in LinkEntry
  BY DEF Reading
<1>1. step \in [1..n -> [Reading -> Reading]]
  BY <1>0, MaterializeKeepsReading
<1>2. PICK f : Follows(f, n, Reading, read, step)
  <2> HIDE DEF step, n, P, g0
  <2> QED
    BY <1>0, <1>1, Iteration
<1>3. ASSUME NEW k \in 1..n PROVE f[k] = MaterializeLink(read.links, f[k - 1], read.links[k])
  <2>1. f[k - 1] \in Reading /\ f[k] = step[k][f[k - 1]]
    <3>1. k - 1 \in 0..n
      BY <1>0
    <3> HIDE DEF step, n
    <3> QED
      BY <1>2, <3>1 DEF Follows
  <2>2. step[k][f[k - 1]] = MaterializeLink(read.links, f[k - 1], read.links[k])
    <3> HIDE DEF n
    <3> QED
      BY <2>1
  <2> QED
    BY <2>1, <2>2
<1>4. P(f)
  BY <1>0, <1>2, <1>3 DEF Follows
<1>5. P(g0)
  <2> HIDE DEF P
  <2> QED
    BY <1>4
<1>6. g0[0] = read
      /\ \A k \in 1..n : k - 1 \in 0..n
           /\ g0[k] = MaterializeLink(read.links, g0[k - 1], read.links[k])
  <2>1. ASSUME NEW k \in 0..n
        PROVE  g0[k] = IF k = 0 THEN read ELSE MaterializeLink(read.links, g0[k - 1], read.links[k])
    <3> HIDE DEF g0, n
    <3> QED
      BY <1>5
  <2>2. 0 \in 0..n /\ \A k \in 1..n : k \in 0..n /\ k # 0 /\ k - 1 \in 0..n
    BY <1>0
  <2> HIDE DEF g0, n, P
  <2> QED
    BY <2>1, <2>2
<1>7. \A k \in 0..n : g0[k] \in Reading
  <2> DEFINE S == {k \in 0..n : g0[k] \in Reading}
  <2>1. 0 \in S
    BY <1>0, <1>6
  <2>2. ASSUME NEW k \in 0..n - 1, k \in S PROVE k + 1 \in S
    <3>1. k + 1 \in 1..n /\ (k + 1) - 1 = k
      BY <1>0
    <3> HIDE DEF g0
    <3> QED
      BY <1>0, <1>6, <2>2, <3>1, MaterializeKeepsReading
  <2>3. 0..n \subseteq S
    <3> HIDE DEF S, n
    <3> QED
      BY <1>0, <2>1, <2>2, UpTo
  <2> QED
    BY <2>3
<1>8. g0 \in [0..n -> Reading]
  <2> HIDE DEF g0
  <2> QED
    BY <1>5, <1>7
<1>9. Materialize(read) = g0[n]
  BY DEF Materialize
<1> QED
  BY <1>6, <1>8, <1>9

LEMMA CopyStep ==
  ASSUME NEW read \in Reading, ~Duplicates(read.links), NEW n \in 0..Len(read.links) - 1,
         NEW x \in Reading, Copied(read, n, x)
  PROVE  Copied(read, n + 1, MaterializeLink(read.links, x, read.links[n + 1]))
<1> DEFINE links == read.links
           m == n + 1
           l == links[m]
           t == ResolvedTarget(links, l.path)
           y == MaterializeLink(links, x, l)
<1>0. /\ links \in Seq(LinkEntry) /\ m \in DOMAIN links /\ l \in LinkEntry /\ l.path \in Path
      /\ x.tree \in Trees /\ read.tree \in Trees /\ x.ok \in BOOLEAN
      /\ \A j \in 1..n : j \in 1..m /\ j # m /\ j \in DOMAIN links
      /\ \A j \in 1..m : j \in 1..n \/ j = m
      /\ m \in 1..m
  <2>1. /\ links \in Seq(LinkEntry) /\ x.tree \in Trees /\ read.tree \in Trees /\ x.ok \in BOOLEAN
        /\ DOMAIN links = 1..Len(links) /\ Len(links) \in Nat
    BY DEF Reading
  <2>2. /\ m \in DOMAIN links /\ m \in 1..m
        /\ \A j \in 1..n : j \in 1..m /\ j # m /\ j \in DOMAIN links
        /\ \A j \in 1..m : j \in 1..n \/ j = m
    BY <2>1
  <2>3. l \in LinkEntry
    BY <2>1, <2>2
  <2> QED
    BY <2>1, <2>2, <2>3 DEF LinkEntry
<1>1. \A j \in 1..n : links[j].path # l.path
  BY <1>0 DEF Duplicates
<1>2. t # Absent => t \in Path /\ \A j \in 1..n : links[j].path # t
  <2>1. t # Absent => t \in Path /\ ~IsLink(links, t)
    <3> HIDE DEF l, links
    <3> QED
      BY <1>0, TargetIsPath
  <2> HIDE DEF t, l, links
  <2> QED
    BY <1>0, <2>1 DEF IsLink
<1>3. x.ok => x.tree[l.path] = read.tree[l.path] /\ (t # Absent => x.tree[t] = read.tree[t])
  <2> HIDE DEF t, l, m
  <2> QED
    BY <1>0, <1>1, <1>2 DEF Copied, CopiedAt
<1>4. Good(read, l.path) <=> read.tree[l.path] = Absent /\ t # Absent /\ read.tree[t] \in Data
  BY DEF Good
<1>5. (\A j \in 1..m : Good(read, links[j].path))
        <=> (\A j \in 1..n : Good(read, links[j].path)) /\ Good(read, l.path)
  <2> HIDE DEF m
  <2> QED
    BY <1>0
<1>6. x.ok <=> \A j \in 1..n : Good(read, links[j].path)
  BY DEF Copied
<1>7. CASE x.ok /\ Good(read, l.path)
  <2>1. y = [x EXCEPT !.tree[l.path] = x.tree[t]]
    <3> HIDE DEF l, links
    <3> QED
      BY <1>3, <1>4, <1>7 DEF MaterializeLink
  <2>2. y.ok = x.ok /\ y.tree = [x.tree EXCEPT ![l.path] = x.tree[t]]
    <3> HIDE DEF y, t, l, links
    <3> QED
      BY <2>1 DEF Reading
  <2>3. ASSUME NEW p \in Path PROVE y.tree[p] = CopiedAt(read, m, p)
    <3>1. CASE p = l.path
      <4>1. y.tree[p] = x.tree[t]
        <5> HIDE DEF y, t, l, links
        <5> QED
          BY <1>0, <2>2, <3>1 DEF Trees
      <4>2. CopiedAt(read, m, p) = read.tree[t]
        BY <1>0, <3>1 DEF CopiedAt
      <4> QED
        BY <1>3, <1>4, <1>7, <4>1, <4>2
    <3>2. CASE p # l.path
      <4>1. y.tree[p] = x.tree[p]
        <5> HIDE DEF y, t, l, links
        <5> QED
          BY <2>2, <3>2 DEF Trees
      <4>2. CopiedAt(read, m, p) = CopiedAt(read, n, p)
        <5>1. (\E j \in 1..m : links[j].path = p) <=> (\E j \in 1..n : links[j].path = p)
          <6> HIDE DEF m
          <6> QED
            BY <1>0, <3>2
        <5> QED
          BY <5>1 DEF CopiedAt
      <4> QED
        BY <1>7, <4>1, <4>2 DEF Copied
    <3> QED
      BY <3>1, <3>2
  <2>4. Copied(read, m, y)
    <3> HIDE DEF y, m
    <3> QED
      BY <1>5, <1>6, <1>7, <2>2, <2>3 DEF Copied
  <2> QED
    BY <2>4
<1>8. CASE ~(x.ok /\ Good(read, l.path))
  <2>1. y = [x EXCEPT !.ok = FALSE]
    <3> HIDE DEF l, links
    <3> QED
      BY <1>3, <1>4, <1>8 DEF MaterializeLink
  <2>2. y.ok = FALSE
    <3> HIDE DEF y, l, links
    <3> QED
      BY <2>1 DEF Reading
  <2>3. Copied(read, m, y)
    <3> HIDE DEF y, m
    <3> QED
      BY <1>5, <1>6, <1>8, <2>2 DEF Copied
  <2> QED
    BY <2>3
<1> QED
  BY <1>7, <1>8

\* What Materialize leaves when no path has two links.
LEMMA MaterializeIs ==
  ASSUME NEW read \in Reading, ~Duplicates(read.links), read.ok
  PROVE  /\ Materialize(read) \in Reading
         /\ Copied(read, Len(read.links), Materialize(read))
<1> DEFINE n == Len(read.links)
<1>0. n \in Nat
  BY DEF Reading
<1>1. PICK f \in [0..n -> Reading] :
        /\ f[0] = read /\ Materialize(read) = f[n]
        /\ \A k \in 1..n : f[k] = MaterializeLink(read.links, f[k - 1], read.links[k])
  BY MaterializeSteps
<1> DEFINE S == {k \in 0..n : Copied(read, k, f[k])}
<1>2. 0 \in S
  BY <1>0, <1>1 DEF Copied, CopiedAt
<1>3. ASSUME NEW k \in 0..n - 1, k \in S PROVE k + 1 \in S
  <2>1. k \in 0..n /\ k + 1 \in 0..n /\ k + 1 \in 1..n /\ (k + 1) - 1 = k
    BY <1>0
  <2>2. f[k] \in Reading /\ Copied(read, k, f[k])
        /\ f[k + 1] = MaterializeLink(read.links, f[k], read.links[k + 1])
    BY <1>1, <1>3, <2>1
  <2> QED
    BY <2>1, <2>2, CopyStep
<1>4. n \in S
  <2> HIDE DEF S, n
  <2>1. n \in 0..n
    BY <1>0
  <2> QED
    BY <1>0, <1>2, <1>3, <2>1, UpTo
<1> QED
  BY <1>0, <1>1, <1>4

-----------------------------------------------------------------------------
(* Extraction against description                                            *)

\* In an archive that is well-formed, what is at a path is one thing.
LEMMA KindsAre ==
  ASSUME NEW A, NEW links, Linked(A, links), NEW tree, TreeRead(A, Len(A), tree), WellFormed(A),
         NEW q \in Path
  PROVE  /\ KindAt(A, q) = {"link"} <=> IsLink(links, q)
         /\ IsLink(links, q) => tree[q] = Absent
         /\ ~IsLink(links, q) => /\ KindAt(A, q) = {} <=> tree[q] = Absent
                                 /\ KindAt(A, q) = {"dir"} <=> tree[q] = Dir
                                 /\ KindAt(A, q) = {"file"} <=> tree[q] \in Data
                                 /\ tree[q] # Absent => LastOf(A, q).arg = tree[q]
<1>0. DOMAIN A = 1..Len(A) /\ \A i \in DOMAIN A : A[i] \in ArchiveEntry
  BY LinksAreEntries
<1>1. CASE IsLink(links, q)
  <2>1. PICK i \in DOMAIN A : A[i].kind = "link" /\ A[i].path = q
    BY <1>1, LinksAreEntries
  <2>2. \A j \in DOMAIN A : A[j].path = q => j = i
    BY <2>1 DEF WellFormed
  <2>3. KindAt(A, q) = {"link"}
    BY <2>1, <2>2 DEF KindAt
  <2>4. tree[q] = Absent
    BY <1>0, <2>1, <2>2 DEF TreeRead, LastPlain, Plain
  <2> QED
    BY <1>1, <2>3, <2>4
<1>2. CASE ~IsLink(links, q) /\ \A i \in DOMAIN A : ~Plain(A, q, i)
  <2>1. \A i \in DOMAIN A : A[i].path # q
    BY <1>2, LinksAreEntries DEF Plain
  <2>2. KindAt(A, q) = {}
    BY <2>1 DEF KindAt
  <2>3. tree[q] = Absent
    BY <1>0, <1>2 DEF TreeRead, LastPlain
  <2>4. tree[q] # Dir /\ tree[q] \notin Data
    BY <2>3, ArchiveAssumption
  <2>5. KindAt(A, q) # {"dir"} /\ KindAt(A, q) # {"file"} /\ KindAt(A, q) # {"link"}
    BY <2>2
  <2> QED
    BY <1>2, <2>2, <2>3, <2>4, <2>5
<1>3. CASE ~IsLink(links, q) /\ \E i \in DOMAIN A : Plain(A, q, i)
  <2>1. PICK i \in DOMAIN A : LastPlain(A, Len(A), q, i) /\ tree[q] = A[i].arg
    BY <1>0, <1>3 DEF TreeRead
  <2>2. /\ A[i].path = q /\ A[i].kind # "link"
        /\ \/ A[i].kind = "file" /\ A[i].arg \in Data
           \/ A[i].kind = "dir" /\ A[i].arg = Dir
    BY <1>0, <2>1, EntryKinds DEF LastPlain, Plain
  <2>3. \A j \in DOMAIN A : A[j].path = q => A[j].kind = A[i].kind
    BY <2>1, <2>2 DEF WellFormed
  <2>4. KindAt(A, q) = {A[i].kind}
    BY <2>1, <2>2, <2>3 DEF KindAt
  <2>5. KindAt(A, q) # {"link"} /\ KindAt(A, q) # {}
    BY <2>2, <2>4
  <2>6. (KindAt(A, q) = {"dir"} <=> A[i].kind = "dir") /\ (KindAt(A, q) = {"file"} <=> A[i].kind = "file")
    BY <2>4
  <2>7. tree[q] # Absent /\ (tree[q] = Dir <=> A[i].kind = "dir") /\ (tree[q] \in Data <=> A[i].kind = "file")
    BY <2>1, <2>2, ArchiveAssumption
  <2>8. LastOf(A, q) = A[i]
    <3> DEFINE own == {j \in DOMAIN A : A[j].path = q}
    <3>1. i \in own /\ \A j \in own : j <= i
      BY <1>0, <2>1, <2>2, <2>3 DEF LastPlain, Plain
    <3>2. own \subseteq Int
      BY <1>0
    <3>3. (CHOOSE k \in own : \A j \in own : j <= k) = i
      <4> HIDE DEF own
      <4>1. \A k \in own : (\A j \in own : j <= k) => k = i
        BY <3>1, <3>2
      <4> QED
        BY <3>1, <4>1
    <3> QED
      BY <3>3 DEF LastOf
  <2> QED
    BY <1>3, <2>1, <2>5, <2>6, <2>7, <2>8
<1> QED
  BY <1>1, <1>2, <1>3

\* An archive is well-formed if reading it raises no error, no path has two links, and nothing is
\* where a link is.
LEMMA WellFormedIs ==
  ASSUME NEW A, NEW links, Linked(A, links), NEW tree, TreeRead(A, Len(A), tree)
  PROVE  WellFormed(A) <=> /\ Consistent(A, Len(A)) /\ ~Duplicates(links)
                           /\ \A p \in Path : IsLink(links, p) => tree[p] = Absent
<1>0. /\ DOMAIN A = 1..Len(A) /\ \A i \in DOMAIN A : A[i] \in ArchiveEntry /\ A[i].path \in Path
      /\ Duplicates(links) <=> TwoLinks(A, Len(A))
  BY LinksAreEntries, EntryKinds DEF Linked, LinksRead
<1>1. ASSUME WellFormed(A)
      PROVE  /\ Consistent(A, Len(A)) /\ ~TwoLinks(A, Len(A))
             /\ \A p \in Path : IsLink(links, p) => tree[p] = Absent
  <2>1. Consistent(A, Len(A))
    BY <1>0, <1>1 DEF WellFormed, Consistent, Plain
  <2>2. ~TwoLinks(A, Len(A))
    BY <1>0, <1>1 DEF WellFormed, TwoLinks
  <2> QED
    BY <1>1, <2>1, <2>2, KindsAre
<1>2. ASSUME Consistent(A, Len(A)), ~TwoLinks(A, Len(A)),
             \A p \in Path : IsLink(links, p) => tree[p] = Absent,
             NEW i \in DOMAIN A, NEW j \in DOMAIN A, A[i].path = A[j].path, i # j
      PROVE  A[i].kind = A[j].kind /\ A[i].kind # "link"
  <2> DEFINE p == A[i].path
  <2>0. p \in Path
    BY <1>0
  <2>1. CASE A[i].kind # "link" /\ A[j].kind # "link"
    BY <1>0, <1>2, <2>0, <2>1 DEF Consistent, Plain
  <2>2. CASE A[i].kind = "link" /\ A[j].kind = "link"
    BY <1>0, <1>2, <2>2 DEF TwoLinks
  <2>3. CASE \E k \in {i, j} : A[k].kind = "link" /\ \E h \in {i, j} : A[h].kind # "link"
    <3>1. IsLink(links, p)
      BY <1>2, <2>3, LinksAreEntries
    <3>2. tree[p] = Absent
      BY <1>2, <2>0, <3>1
    <3>3. PICK h \in DOMAIN A : Plain(A, p, h)
      BY <1>2, <2>3 DEF Plain
    <3>4. PICK k \in DOMAIN A : LastPlain(A, Len(A), p, k) /\ tree[p] = A[k].arg
      BY <1>0, <2>0, <3>3 DEF TreeRead
    <3>5. A[k].arg \in Data \/ A[k].arg = Dir
      BY <1>0, <3>4, EntryKinds DEF LastPlain, Plain
    <3> QED
      BY <3>2, <3>4, <3>5, ArchiveAssumption
  <2> QED
    BY <2>1, <2>2, <2>3
<1> QED
  BY <1>0, <1>1, <1>2 DEF WellFormed

\* An archive, however long and however linked, is extracted as it describes itself.
LEMMA ExtractIsDescribed ==
  ASSUME NEW A \in Seq(ArchiveEntry)
  PROVE  Extract(A) = Described(A) /\ Extract(A) \in Trees
<1> DEFINE read == Read(A)
           links == read.links
           tree == read.tree
           done == Materialize(read)
<1>0. /\ read \in Reading /\ links \in Seq(LinkEntry) /\ tree \in Trees /\ read.ok \in BOOLEAN
      /\ TreeRead(A, Len(A), tree) /\ Linked(A, links)
      /\ read.ok <=> Consistent(A, Len(A))
  BY ReadIs DEF Reading, Linked
<1> DEFINE Fine == WellFormed(A)
           Ends == \A i \in DOMAIN A : A[i].kind = "link" =>
                     \E q \in EndsOf(A, A[i].path) : KindAt(A, q) = {"file"}
           Expected == [p \in Path |-> ExpectedAt(A, p)]
<1>1. Extract(A) = IF read.ok /\ ~Duplicates(links) /\ done.ok THEN done.tree ELSE NoTree
  BY DEF Extract
<1>2. Described(A) = IF Fine /\ Ends THEN Expected ELSE NoTree
  BY DEF Described
<1> HIDE DEF read
<1>3. Fine <=> /\ read.ok /\ ~Duplicates(links)
               /\ \A p \in Path : IsLink(links, p) => tree[p] = Absent
  BY <1>0, WellFormedIs
<1>4. ASSUME read.ok, ~Duplicates(links)
      PROVE  /\ done \in Reading
             /\ done.ok <=> \A p \in Path : IsLink(links, p) => Good(read, p)
             /\ done.ok => \A p \in Path :
                  done.tree[p] = IF IsLink(links, p) THEN tree[ResolvedTarget(links, p)] ELSE tree[p]
  <2>1. done \in Reading /\ Copied(read, Len(links), done)
    BY <1>0, <1>4, MaterializeIs
  <2>2. \A p : (\E j \in 1..Len(links) : links[j].path = p) <=> IsLink(links, p)
    BY <1>0 DEF IsLink
  <2>3. \A j \in 1..Len(links) : links[j].path \in Path
    <3>1. \A j \in 1..Len(links) : links[j] \in LinkEntry
      BY <1>0
    <3> QED
      BY <3>1 DEF LinkEntry
  <2> HIDE DEF done
  <2> QED
    BY <2>1, <2>2, <2>3 DEF Copied, CopiedAt
<1>5. CASE ~Fine
  <2>1. read.ok /\ ~Duplicates(links) => ~done.ok
    <3> HIDE DEF done
    <3> QED
      BY <1>3, <1>4, <1>5 DEF Good
  <2> QED
    BY <1>1, <1>2, <1>5, <2>1 DEF NoTree, Trees
<1>6. CASE Fine
  <2>0. read.ok /\ ~Duplicates(links)
    BY <1>3, <1>6
  <2>1. \A q \in Path :
          /\ KindAt(A, q) = {"link"} <=> IsLink(links, q)
          /\ IsLink(links, q) => tree[q] = Absent
          /\ ~IsLink(links, q) => /\ KindAt(A, q) = {} <=> tree[q] = Absent
                                  /\ KindAt(A, q) = {"dir"} <=> tree[q] = Dir
                                  /\ KindAt(A, q) = {"file"} <=> tree[q] \in Data
                                  /\ tree[q] # Absent => LastOf(A, q).arg = tree[q]
    BY <1>0, <1>6, KindsAre
  <2>2. ASSUME NEW p \in Path
        PROVE  LET t == ResolvedTarget(links, p)
               IN  /\ t # Absent => t \in Path /\ ~IsLink(links, t) /\ EndsOf(A, p) = {t}
                   /\ t = Absent => EndsOf(A, p) = {}
    <3> DEFINE t == ResolvedTarget(links, p)
               ends == {q \in Along(A, p) : ~IsLink(links, q)}
    <3>1. EndsOf(A, p) = ends
      BY <2>1 DEF EndsOf, Along
    <3>2. (t # Absent => t \in Path /\ ~IsLink(links, t) /\ ends = {t}) /\ (t = Absent => ends = {})
      BY <1>0, <2>0, TargetIsEnd
    <3> HIDE DEF ends
    <3> QED
      BY <3>1, <3>2
  <2>3. ASSUME NEW p \in Path, IsLink(links, p)
        PROVE  Good(read, p) <=> \E q \in EndsOf(A, p) : KindAt(A, q) = {"file"}
    <3> DEFINE t == ResolvedTarget(links, p)
    <3>1. Good(read, p) <=> t # Absent /\ tree[t] \in Data
      BY <2>1, <2>3 DEF Good
    <3>2. (t # Absent => t \in Path /\ ~IsLink(links, t) /\ EndsOf(A, p) = {t})
          /\ (t = Absent => EndsOf(A, p) = {})
      BY <2>2
    <3> HIDE DEF t
    <3> QED
      BY <2>1, <3>1, <3>2
  <2>4. Ends <=> \A p \in Path : IsLink(links, p) => Good(read, p)
    <3>1. \A i \in DOMAIN A : A[i].path \in Path
      BY EntryKinds
    <3>2. Ends <=> \A p \in Path : IsLink(links, p) => \E q \in EndsOf(A, p) : KindAt(A, q) = {"file"}
      <4>1. \A p : IsLink(links, p) <=> \E i \in DOMAIN A : A[i].kind = "link" /\ A[i].path = p
        BY <1>0, LinksAreEntries
      <4> QED
        BY <3>1, <4>1
    <3> QED
      BY <2>3, <3>2
  <2>5. Ends <=> done.ok
    BY <1>4, <2>0, <2>4
  <2>6. ASSUME Ends, NEW p \in Path PROVE done.tree[p] = ExpectedAt(A, p)
    <3> DEFINE t == ResolvedTarget(links, p)
    <3>1. done.tree[p] = IF IsLink(links, p) THEN tree[t] ELSE tree[p]
      BY <1>4, <2>0, <2>5, <2>6
    <3>2. CASE IsLink(links, p)
      <4>1. t # Absent /\ tree[t] \in Data
        BY <2>4, <2>6, <3>2 DEF Good
      <4>2. t \in Path /\ ~IsLink(links, t) /\ EndsOf(A, p) = {t}
        BY <2>2, <4>1
      <4>3. LastOf(A, t).arg = tree[t]
        <5> HIDE DEF t
        <5>1. tree[t] # Absent
          BY <4>1, ArchiveAssumption
        <5> QED
          BY <2>1, <4>2, <5>1
      <4>4. KindAt(A, p) = {"link"}
        BY <2>1, <3>2
      <4>5. (CHOOSE q \in EndsOf(A, p) : TRUE) = t
        BY <4>2
      <4>6. KindAt(A, p) # {} /\ KindAt(A, p) # {"dir"}
        BY <4>4
      <4> QED
        BY <3>1, <3>2, <4>3, <4>5, <4>6 DEF ExpectedAt
    <3>3. CASE ~IsLink(links, p)
      <4>1. CASE tree[p] = Absent \/ tree[p] = Dir
        BY <2>1, <3>1, <3>3, <4>1 DEF ExpectedAt
      <4>2. CASE tree[p] # Absent /\ tree[p] # Dir
        <5>1. p \in Along(A, p)
          BY DEF Along
        <5>2. p \in EndsOf(A, p)
          BY <2>1, <3>3, <5>1 DEF EndsOf
        <5>3. EndsOf(A, p) = {p}
          BY <2>2, <5>2
        <5>4. (CHOOSE q \in EndsOf(A, p) : TRUE) = p
          BY <5>3
        <5> QED
          BY <2>1, <3>1, <3>3, <4>2, <5>4 DEF ExpectedAt
      <4> QED
        BY <4>1, <4>2
    <3> QED
      BY <3>2, <3>3
  <2>7. ASSUME Ends PROVE done.tree = Expected /\ done.tree \in Trees
    <3>1. done.tree \in Trees
      BY <1>4, <2>0 DEF Reading
    <3>2. \A p \in Path : done.tree[p] = ExpectedAt(A, p)
      BY <2>6, <2>7
    <3> HIDE DEF done
    <3> QED
      BY <3>1, <3>2 DEF Trees
  <2>8. CASE Ends
    <3> HIDE DEF Ends, done, Expected
    <3> QED
      BY <1>1, <1>2, <1>6, <2>0, <2>5, <2>7, <2>8
  <2>9. CASE ~Ends
    <3>1. Extract(A) = NoTree /\ Described(A) = NoTree
      <4> HIDE DEF Ends, done, Expected
      <4> QED
        BY <1>1, <1>2, <2>5, <2>9
    <3> QED
      BY <3>1 DEF NoTree, Trees
  <2> QED
    BY <2>8, <2>9
<1> QED
  BY <1>5, <1>6

\* Extraction gives what each archive describes: files and directories by the last entry of their
\* path, links by the file at the end of their chain, nothing for an archive that contradicts
\* itself or has a link to nothing (extractTarGz, extractZIP, materializeArchiveLinks).
THEOREM ArchivesExtract == SmallArchivesExtract
BY ExtractIsDescribed, ArchiveAssumption DEF SmallArchivesExtract
=============================================================================
