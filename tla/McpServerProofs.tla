---------------------------- MODULE McpServerProofs ----------------------------
(***************************************************************************)
(* Proofs about McpServer for every set of workspaces and of identifiers,  *)
(* every bound on requests, indexes and files, with and without user       *)
(* commands beside it, with one state directory per workspace or for all.  *)
(*                                                                         *)
(* Typed: the types.  Numbered: indexes are numbered as they are built.    *)
(* Named: the request that is served names a workspace with a backend, and *)
(* what is open there.  Counted: the reference counter of the runtime.     *)
(* Queued: which requests have been answered.  Owned: an index stays with  *)
(* its workspace.  Searched: what the tools have reported is in the file   *)
(* that is searched, while that is the one at the path.                    *)
(***************************************************************************)
EXTENDS McpServer, FiniteSetTheorems, TLAPS

Typed ==
  /\ TypeOK
  /\ libs \in {"given", "local", "remote"} /\ open \in BOOLEAN

Numbered == /\ Built \in 0..MaxBuilds
            /\ \A i \in 1..MaxBuilds : origin[i] # None <=> i <= Built

Serving == {"call", "prepare", "load", "open", "work", "remote", "write"}

\* What the server knows of the request it serves, and what is open.
Named ==
  /\ at \in {"prepare", "load", "open", "work", "remote"} => request.dir \in children
  /\ at = "call" => request.dir \in Workspace \union {NotADir}
  /\ at = "load" => libs # "remote"
  /\ at \in {"load", "open"} => pool[request.dir] = <<>>
  /\ at = "work" => pool[request.dir] # <<>>
  /\ at = "write" /\ result \in Index => request.dir \in Workspace

Counted == refs = Users /\ (open <=> Users > 0)

Ids == Id \union {NullId}

\* The one request that is served, or was when the session broke, has no answer.
Queued ==
  /\ asked \in Seq(Ids) /\ answers \in Seq(Ids)
  /\ at = "read" => asked = answers
  /\ at \in Serving => request.id \in Ids /\ asked = Append(answers, request.id)
  /\ at \in {"close", "closed"} =>
       asked = answers \/ (broken /\ \E i \in Ids : asked = Append(answers, i))

BuiltFor(o, w, i) == i \in 1..MaxBuilds => o[i] = w

Owned ==
  /\ ~explicit => \A s \in Workspace :
       /\ \A k \in 1..Len(files[s]) : BuiltFor(origin, s, files[s][k])
       /\ bound[s] \in {None, s}
  /\ \A w \in Workspace :
       /\ \A i \in artifacts[w] : i # 0 /\ BuiltFor(origin, w, i)
       /\ published[w] \in artifacts[w] \union {None}
  /\ at = "write" /\ result \in Index => result # 0 /\ (explicit \/ BuiltFor(origin, request.dir, result))

Searched ==
  /\ at \notin {"close", "closed"} =>
       \A s \in Workspace : reported[s] # None /\ OnPath(s) => Holds(s) = reported[s]
  /\ at = "write" /\ result \in Index =>
       (reported[StateDir(request.dir)] # None /\ OnPath(StateDir(request.dir))
          => result = reported[StateDir(request.dir)])

IInv == Typed /\ Numbered /\ Named /\ Counted /\ Queued /\ Owned /\ Searched

-----------------------------------------------------------------------------
(* Indexes and the files that hold them                                      *)

LEMMA Entries ==
  ASSUME NEW S, NEW f \in Seq(S)
  PROVE  Len(f) \in Nat /\ DOMAIN f = 1..Len(f) /\ \A c \in DOMAIN f : f[c] \in S
OBVIOUS

\* The types of what is held for each workspace.
LEMMA Types ==
  ASSUME IInv, NEW w \in Workspace
  PROVE  /\ files[w] \in Seq(Index) /\ Len(files[w]) \in Nat /\ Len(files[w]) <= MaxFiles
         /\ pool[w] \in Seq(1..MaxFiles) /\ DOMAIN pool[w] = 1..Len(pool[w])
         /\ Len(pool[w]) \in Nat /\ Len(pool[w]) <= 2
         /\ \A c \in DOMAIN pool[w] :
              pool[w][c] \in 1..MaxFiles /\ pool[w][c] <= Len(files[StateDir(w)])
         /\ bound[w] \in {None} \union Workspace /\ reported[w] \in {None} \union Index
         /\ published[w] \in {None} \union Index /\ artifacts[w] \in SUBSET Index
<1>1. files[w] \in Seq(Index) /\ pool[w] \in Seq(1..MaxFiles)
  BY DEF IInv, Typed, TypeOK
<1>2. Len(files[w]) \in Nat /\ DOMAIN pool[w] = 1..Len(pool[w]) /\ Len(pool[w]) \in Nat
      /\ \A c \in DOMAIN pool[w] : pool[w][c] \in 1..MaxFiles
  BY <1>1, Entries
<1>3. Len(files[w]) <= MaxFiles /\ Len(pool[w]) <= 2
      /\ \A c \in DOMAIN pool[w] : pool[w][c] <= Len(files[StateDir(w)])
  BY DEF IInv, Typed, TypeOK
<1>4. /\ bound[w] \in {None} \union Workspace /\ reported[w] \in {None} \union Index
      /\ published[w] \in {None} \union Index /\ artifacts[w] \in SUBSET Index
  BY DEF IInv, Typed, TypeOK
<1>5. \A c \in DOMAIN pool[w] : pool[w][c] \in 1..MaxFiles /\ pool[w][c] <= Len(files[StateDir(w)])
  BY <1>2, <1>3, Zenon
<1> QED
  BY <1>1, <1>2, <1>3, <1>4, <1>5, Zenon

\* Every workspace has a state directory, its own or that of the root.
LEMMA StateDirs ==
  ASSUME NEW w \in Workspace
  PROVE  StateDir(w) \in Workspace /\ (~explicit => StateDir(w) = w)
BY McpAssumption DEF StateDir

\* The ways an index is built give it the next number and its workspace.
LEMMA BuildNumbers ==
  ASSUME IInv, NEW d \in Workspace, Build(d)
  PROVE  /\ Numbered' /\ Built' = Built + 1 /\ Built + 1 \in 1..MaxBuilds
         /\ origin' \in [1..MaxBuilds -> {None} \union Workspace]
         /\ \A i \in 1..MaxBuilds : origin'[i] = IF i = Built + 1 THEN d ELSE origin[i]
<1> DEFINE B == {i \in 1..MaxBuilds : origin[i] # None}
           C == {i \in 1..MaxBuilds : origin'[i] # None}
<1>1. /\ MaxBuilds \in Nat /\ d # None /\ Built \in 0..MaxBuilds /\ Built + 1 \in 1..MaxBuilds
      /\ origin \in [1..MaxBuilds -> {None} \union Workspace]
  BY McpAssumption DEF IInv, Typed, TypeOK, Numbered, Build
<1>2. /\ origin' \in [1..MaxBuilds -> {None} \union Workspace]
      /\ \A i \in 1..MaxBuilds : origin'[i] = IF i = Built + 1 THEN d ELSE origin[i]
  BY <1>1 DEF Build
<1>3. C = B \union {Built + 1} /\ Built + 1 \notin B
  BY <1>1, <1>2 DEF IInv, Numbered
<1>4. IsFiniteSet(B) /\ Built = Cardinality(B) /\ Built' = Cardinality(C)
  <2>1. IsFiniteSet(1..MaxBuilds) /\ B \subseteq 1..MaxBuilds
    BY <1>1, FS_Interval
  <2>2. DOMAIN origin = 1..MaxBuilds /\ DOMAIN origin' = 1..MaxBuilds
    BY <1>1, <1>2
  <2> QED
    BY <2>1, <2>2, FS_Subset DEF Built
<1>5. Built' = Built + 1
  <2> HIDE DEF B, C
  <2> QED
    BY <1>3, <1>4, FS_AddElement
<1>6. Numbered'
  BY <1>1, <1>2, <1>5 DEF IInv, Numbered
<1> QED
  BY <1>1, <1>2, <1>5, <1>6

\* An index belongs to its workspace for good.
LEMMA OwnedStays ==
  ASSUME IInv, NEW d \in Workspace, Build(d)
  PROVE  \A e \in Workspace, i \in Index \union {None} :
           BuiltFor(origin, e, i) \/ (e = d /\ i = Built + 1) => BuiltFor(origin', e, i)
<1>1. \A i \in 1..MaxBuilds : origin'[i] = IF i = Built + 1 THEN d ELSE origin[i]
  BY BuildNumbers
<1>2. \A i \in 1..MaxBuilds : origin[i] # None => i # Built + 1
  BY McpAssumption DEF IInv, Numbered
<1> QED
  BY <1>1, <1>2, McpAssumption DEF BuiltFor, Index, IInv, Numbered

\* What no build changes.
LEMMA OriginUnchanged == ASSUME IInv, UNCHANGED origin PROVE Numbered'
BY DEF IInv, Numbered, Built

\* The file at the path after a connection has been opened to it.
LEMMA PathOpened ==
  ASSUME IInv, NEW s \in Workspace
  PROVE  /\ files[s] \in Seq(Index) /\ Len(files[s]) \in 0..MaxFiles
         /\ AtPath(s) \in Seq(Index) /\ Len(AtPath(s)) \in 1..MaxFiles
         /\ Len(files[s]) <= Len(AtPath(s))
         /\ \A k \in 1..Len(AtPath(s)) :
              AtPath(s)[k] = IF k <= Len(files[s]) THEN files[s][k] ELSE 0
         /\ files[s] # <<>> => AtPath(s) = files[s]
         /\ files[s] = <<>> => AtPath(s) = <<0>>
         /\ Holds(s) = IF files[s] = <<>> THEN None ELSE files[s][Len(files[s])]
<1>1. files[s] \in Seq(Index) /\ Len(files[s]) <= MaxFiles /\ MaxFiles \in Nat \ {0} /\ 0 \in Index
  BY McpAssumption DEF IInv, Typed, TypeOK, Index
<1>2. CASE files[s] = <<>>
  BY <1>1, <1>2 DEF AtPath, Holds
<1>3. CASE files[s] # <<>>
  BY <1>1, <1>3 DEF AtPath, Holds, Last
<1> QED
  BY <1>2, <1>3

\* A run activates its snapshot in the k-th file of a state directory.
Written(s, k, i) == files' = [files EXCEPT ![s] = [AtPath(s) EXCEPT ![k] = i]]

LEMMA FileWritten ==
  ASSUME IInv, NEW s \in Workspace, NEW k \in 1..Len(AtPath(s)), NEW i \in Index, Written(s, k, i)
  PROVE  /\ files' \in [Workspace -> Seq(Index)]
         /\ \A e \in Workspace : e # s => files'[e] = files[e]
         /\ Len(files'[s]) = Len(AtPath(s))
         /\ \A j \in 1..Len(AtPath(s)) :
              files'[s][j] = IF j = k THEN i ELSE IF j <= Len(files[s]) THEN files[s][j] ELSE 0
         /\ k = Len(AtPath(s)) => Holds(s)' = i
<1>1. /\ AtPath(s) \in Seq(Index) /\ Len(AtPath(s)) \in 1..MaxFiles
      /\ \A j \in 1..Len(AtPath(s)) :
           AtPath(s)[j] = IF j <= Len(files[s]) THEN files[s][j] ELSE 0
  BY PathOpened
<1>2. files \in [Workspace -> Seq(Index)] /\ MaxFiles \in Nat
  BY McpAssumption DEF IInv, Typed, TypeOK
<1> DEFINE f == [AtPath(s) EXCEPT ![k] = i]
<1>3. /\ f \in Seq(Index) /\ Len(f) = Len(AtPath(s))
      /\ \A j \in 1..Len(AtPath(s)) : f[j] = IF j = k THEN i ELSE AtPath(s)[j]
  BY <1>1
<1>4. /\ files' \in [Workspace -> Seq(Index)] /\ files'[s] = f
      /\ \A e \in Workspace : e # s => files'[e] = files[e]
  BY <1>2, <1>3 DEF Written
<1>5. Holds(s)' = f[Len(f)]
  <2>1. f # <<>>
    BY <1>1, <1>3
  <2> HIDE DEF f
  <2> QED
    BY <1>4, <2>1 DEF Holds, Last
<1> HIDE DEF f
<1> QED
  BY <1>1, <1>3, <1>4, <1>5

\* What a file that is put at the path makes of them.
LEMMA FileReplaced ==
  ASSUME IInv, NEW s \in Workspace, NEW i \in Index, Replace(s, i)
  PROVE  /\ files' \in [Workspace -> Seq(Index)]
         /\ \A e \in Workspace : e # s => files'[e] = files[e]
         /\ Len(files'[s]) = Len(files[s]) + 1 /\ Len(files'[s]) <= MaxFiles
         /\ \A j \in 1..Len(files'[s]) :
              files'[s][j] = IF j = Len(files[s]) + 1 THEN i ELSE files[s][j]
         /\ Holds(s)' = i
<1>1. /\ files \in [Workspace -> Seq(Index)] /\ files[s] \in Seq(Index)
      /\ MaxFiles \in Nat /\ Len(files[s]) < MaxFiles
  BY McpAssumption DEF IInv, Typed, TypeOK, Replace
<1> DEFINE f == Append(files[s], i)
<1>2. /\ f \in Seq(Index) /\ Len(f) = Len(files[s]) + 1 /\ f # <<>>
      /\ \A j \in 1..Len(f) : f[j] = IF j = Len(files[s]) + 1 THEN i ELSE files[s][j]
  BY <1>1
<1>3. files'[s] = f /\ \A e \in Workspace : e # s => files'[e] = files[e]
  BY <1>1 DEF Replace
<1>4. files' \in [Workspace -> Seq(Index)]
  BY <1>1, <1>2 DEF Replace
<1>5. Holds(s)' = f[Len(f)]
  <2> HIDE DEF f
  <2> QED
    BY <1>2, <1>3 DEF Holds, Last
<1> HIDE DEF f
<1> QED
  BY <1>1, <1>2, <1>3, <1>4, <1>5

\* A download, by a user or a tool, for whatever workspace the directory is bound to or belongs to.
LEMMA DownloadFits ==
  ASSUME IInv, NEW w \in Workspace, NEW i \in Index,
         Refresh(StateDir(w), i) \/ Fetch(StateDir(w), w, i)
  PROVE  /\ Replace(StateDir(w), i) /\ i # 0
         /\ bound' \in [Workspace -> {None} \union Workspace]
         /\ \A s \in Workspace : bound'[s] \in {None, bound[s]}
         /\ explicit \/ BuiltFor(origin, w, i)
<1>1. StateDir(w) \in Workspace /\ (~explicit => StateDir(w) = w)
  BY StateDirs
<1>2. bound \in [Workspace -> {None} \union Workspace] /\ None \notin Index
  BY McpAssumption DEF IInv, Typed, TypeOK
<1>3. CASE Refresh(StateDir(w), i)
  BY <1>1, <1>2, <1>3 DEF Refresh, IInv, Owned
<1>4. CASE Fetch(StateDir(w), w, i)
  BY <1>1, <1>2, <1>4 DEF Fetch, IInv, Owned
<1> QED
  BY <1>3, <1>4

-----------------------------------------------------------------------------
(* Steps beside the server                                                   *)

\* Nothing of the session changes but what users may make of the files.
LEMMA SessionKept ==
  ASSUME IInv, UNCHANGED <<explicit, llamaVars, heldVars, at, request, result, talkVars>>
  PROVE  Named' /\ Counted' /\ Queued'
BY DEF IInv, Named, Counted, Users, Prepareds, Queued, llamaVars, heldVars, talkVars

LEMMA UserIndexesKeeps == ASSUME IInv, NEW w \in Workspace, UserIndexes(w) PROVE IInv'
<1> USE McpAssumption DEF llamaVars, heldVars, talkVars
<1>1. PICK s \in Workspace : s = StateDir(w) /\ (~explicit => s = w)
  BY StateDirs
<1>0. PICK k \in Nat : k = Len(AtPath(s))
  BY PathOpened
<1>2. /\ Numbered' /\ Built' = Built + 1 /\ Built + 1 \in 1..MaxBuilds /\ Built + 1 \in Index
      /\ origin' \in [1..MaxBuilds -> {None} \union Workspace]
  BY BuildNumbers DEF UserIndexes, Index
<1>3. /\ files' = [files EXCEPT ![s] = [AtPath(s) EXCEPT ![k] = Built + 1]]
      /\ bound' = [bound EXCEPT ![s] = None] /\ reported' = [reported EXCEPT ![s] = None]
      /\ UNCHANGED <<explicit, published, artifacts, llamaVars, heldVars, at, request, result, talkVars>>
  BY <1>0, <1>1 DEF UserIndexes
<1>4. /\ k \in 1..MaxFiles /\ Len(files[s]) <= k
  BY <1>0, PathOpened
<1>5. /\ files' \in [Workspace -> Seq(Index)] /\ Len(files'[s]) = k
      /\ \A e \in Workspace : e # s => files'[e] = files[e]
      /\ \A j \in 1..k :
           files'[s][j] = IF j = k THEN Built + 1 ELSE IF j <= Len(files[s]) THEN files[s][j] ELSE 0
  <2>1. k \in 1..Len(AtPath(s))
    BY <1>0, <1>4
  <2>2. /\ files' \in [Workspace -> Seq(Index)]
        /\ \A e \in Workspace : e # s => files'[e] = files[e]
        /\ Len(files'[s]) = Len(AtPath(s))
        /\ \A j \in 1..Len(AtPath(s)) :
             files'[s][j] = IF j = k THEN Built + 1 ELSE IF j <= Len(files[s]) THEN files[s][j] ELSE 0
    <3>1. PICK i \in Index : i = Built + 1
      BY <1>2
    <3>2. Written(s, k, i)
      BY <1>3, <3>1 DEF Written
    <3>3. /\ files' \in [Workspace -> Seq(Index)]
          /\ \A e \in Workspace : e # s => files'[e] = files[e]
          /\ Len(files'[s]) = Len(AtPath(s))
          /\ \A j \in 1..Len(AtPath(s)) :
               files'[s][j] = IF j = k THEN i ELSE IF j <= Len(files[s]) THEN files[s][j] ELSE 0
      BY <2>1, <3>1, <3>2, FileWritten, SMTT(60)
    <3> QED
      BY <3>1, <3>3
  <2> QED
    BY <1>0, <2>2, Zenon
<1>6. Typed'
  <2>1. bound' \in [Workspace -> {None} \union Workspace] /\ reported' \in [Workspace -> {None} \union Index]
    BY <1>1, <1>3 DEF IInv, Typed, TypeOK
  <2>2. \A v \in Workspace : Len(files'[v]) <= MaxFiles /\ Len(files[v]) <= Len(files'[v])
                             /\ Len(files[v]) \in Nat /\ Len(files'[v]) \in Nat
    <3>1. \A v \in Workspace : Len(files'[v]) \in Nat
      BY <1>5, Entries
    <3>2. \A v \in Workspace : Len(files[v]) \in Nat /\ Len(files[v]) <= MaxFiles
      BY Types
    <3> QED
      BY <1>4, <1>5, <3>1, <3>2
  <2>3. \A v \in Workspace : StateDir(v)' = StateDir(v) /\ StateDir(v) \in Workspace
    BY <1>3, StateDirs DEF StateDir
  <2>4. \A v \in Workspace : \A c \in DOMAIN pool[v] : pool[v][c] <= Len(files'[StateDir(v)])
    <3>1. \A v \in Workspace : \A c \in DOMAIN pool[v] :
            pool[v][c] <= Len(files[StateDir(v)]) /\ pool[v][c] \in 1..MaxFiles
      BY Types
    <3> QED
      BY <2>2, <2>3, <3>1
  <2> QED
    BY <1>2, <1>3, <1>5, <2>1, <2>2, <2>3, <2>4 DEF IInv, Typed, TypeOK, Prepareds
<1>7. Named' /\ Counted' /\ Queued'
  BY <1>3, SessionKept
<1>8. Owned'
  <2>1. \A e \in Workspace, i \in Index \union {None} :
          BuiltFor(origin, e, i) \/ (e = w /\ i = Built + 1) => BuiltFor(origin', e, i)
    BY OwnedStays DEF UserIndexes
  <2>2. ASSUME ~explicit, NEW e \in Workspace
        PROVE  /\ \A j \in 1..Len(files'[e]) : BuiltFor(origin', e, files'[e][j])
               /\ bound'[e] \in {None, e}
    <3>1. bound'[e] \in {None, e}
      BY <1>1, <1>3, <2>2 DEF IInv, Owned, Typed, TypeOK
    <3>2. CASE e = s
      <4>1. BuiltFor(origin', e, Built + 1) /\ BuiltFor(origin', e, 0)
        BY <1>1, <1>2, <2>1, <2>2, <3>2 DEF BuiltFor
      <4>2. \A j \in 1..Len(files[e]) : BuiltFor(origin', e, files[e][j])
        BY <2>1, <2>2 DEF IInv, Owned, Typed, TypeOK
      <4>3. ASSUME NEW j \in 1..Len(files'[e]) PROVE BuiltFor(origin', e, files'[e][j])
        <5>1. \/ files'[e][j] \in {Built + 1, 0}
              \/ j \in 1..Len(files[e]) /\ files'[e][j] = files[e][j]
          BY <1>4, <1>5, <3>2
        <5> QED
          BY <4>1, <4>2, <5>1, Zenon
      <4> QED
        BY <3>1, <4>3
    <3>3. CASE e # s
      <4>1. files'[e] = files[e]
        BY <1>5, <3>3
      <4>2. \A j \in 1..Len(files[e]) : BuiltFor(origin, e, files[e][j]) /\ files[e][j] \in Index
        BY <2>2, Types DEF IInv, Owned
      <4> QED
        BY <2>1, <3>1, <4>1, <4>2
    <3> QED
      BY <3>2, <3>3
  <2>3. \A v \in Workspace : /\ \A i \in artifacts'[v] : i # 0 /\ BuiltFor(origin', v, i)
                             /\ published'[v] \in artifacts'[v] \union {None}
    BY <1>3, <2>1 DEF IInv, Owned, Typed, TypeOK
  <2>4. at' = "write" /\ result' \in Index =>
          result' # 0 /\ (explicit' \/ BuiltFor(origin', request'.dir, result'))
    BY <1>3, <2>1 DEF IInv, Owned, Named
  <2> QED
    BY <1>3, <2>2, <2>3, <2>4 DEF Owned
<1>9. Searched'
  <2>1. /\ reported'[s] = None
        /\ \A e \in Workspace : e # s =>
             /\ reported'[e] = reported[e] /\ Holds(e)' = Holds(e)
             /\ OnPath(e)' <=> OnPath(e)
    BY <1>1, <1>3, <1>5 DEF IInv, Typed, TypeOK, Holds, OnPath, StateDir
  <2>2. at' = "write" /\ result' \in Index =>
          StateDir(request.dir)' = StateDir(request.dir) /\ StateDir(request.dir) \in Workspace
    BY <1>3, StateDirs DEF IInv, Named, StateDir
  <2> QED
    BY <1>3, <2>1, <2>2 DEF IInv, Searched
<1> QED
  BY <1>2, <1>6, <1>7, <1>8, <1>9 DEF IInv

\* What a download by anybody keeps of the types, of the owners and of what is searched elsewhere.
LEMMA DownloadKeepsFiles ==
  ASSUME IInv, NEW w \in Workspace, NEW i \in Index,
         Refresh(StateDir(w), i) \/ Fetch(StateDir(w), w, i),
         NEW r \in Index \union {None}, reported' = [reported EXCEPT ![StateDir(w)] = r],
         UNCHANGED <<explicit, published, artifacts, origin, pool>>,
         at' = at \/ (at = "remote" /\ at' = "write" /\ result' = Ok), at' = at => UNCHANGED <<request, result>>
  PROVE  /\ files' \in [Workspace -> Seq(Index)] /\ bound' \in [Workspace -> {None} \union Workspace]
         /\ reported' \in [Workspace -> {None} \union Index]
         /\ \A v \in Workspace : /\ Len(files'[v]) <= MaxFiles
                                 /\ \A c \in DOMAIN pool[v] : pool[v][c] <= Len(files'[StateDir(v)])
         /\ Numbered' /\ Owned'
         /\ \A e \in Workspace : e # StateDir(w) =>
              /\ reported'[e] = reported[e] /\ Holds(e)' = Holds(e) /\ OnPath(e)' = OnPath(e)
         /\ reported'[StateDir(w)] = r /\ Holds(StateDir(w))' = i
<1>1. PICK s \in Workspace : s = StateDir(w) /\ (~explicit => s = w)
  BY StateDirs
<1>2. /\ Replace(s, i) /\ i # 0 /\ bound' \in [Workspace -> {None} \union Workspace]
      /\ \A e \in Workspace : bound'[e] \in {None, bound[e]}
      /\ explicit \/ BuiltFor(origin, w, i)
  BY <1>1, DownloadFits
<1>3. /\ files' \in [Workspace -> Seq(Index)]
      /\ \A e \in Workspace : e # s => files'[e] = files[e]
      /\ Len(files'[s]) = Len(files[s]) + 1 /\ Len(files'[s]) <= MaxFiles
      /\ \A j \in 1..Len(files'[s]) :
           files'[s][j] = IF j = Len(files[s]) + 1 THEN i ELSE files[s][j]
      /\ Holds(s)' = i
  BY <1>2, FileReplaced
<1>4. reported' \in [Workspace -> {None} \union Index] /\ reported'[s] = r
      /\ \A e \in Workspace : e # s => reported'[e] = reported[e]
  BY <1>1 DEF IInv, Typed, TypeOK
<1>5. \A v \in Workspace : /\ Len(files'[v]) <= MaxFiles
                           /\ \A c \in DOMAIN pool[v] : pool[v][c] <= Len(files'[StateDir(v)])
  <2>1. \A v \in Workspace : Len(files'[v]) <= MaxFiles /\ Len(files[v]) <= Len(files'[v])
                             /\ Len(files[v]) \in Nat /\ Len(files'[v]) \in Nat
    <3>1. \A v \in Workspace : Len(files'[v]) \in Nat
      BY <1>3, Entries
    <3>2. \A v \in Workspace : Len(files[v]) \in Nat /\ Len(files[v]) <= MaxFiles
      BY Types
    <3> QED
      BY <1>3, <3>1, <3>2
  <2>2. \A v \in Workspace : StateDir(v) \in Workspace
    BY StateDirs
  <2>3. \A v \in Workspace : \A c \in DOMAIN pool[v] :
          pool[v][c] <= Len(files[StateDir(v)]) /\ pool[v][c] \in 1..MaxFiles
    BY Types
  <2> QED
    BY <2>1, <2>2, <2>3
<1>6. Owned'
  <2>1. ASSUME ~explicit, NEW e \in Workspace
        PROVE  /\ \A j \in 1..Len(files'[e]) : BuiltFor(origin, e, files'[e][j])
               /\ bound'[e] \in {None, e}
    <3>1. /\ \A j \in 1..Len(files[e]) : BuiltFor(origin, e, files[e][j])
          /\ bound[e] \in {None, e}
      BY <2>1 DEF IInv, Owned
    <3>2. CASE e = s
      <4>1. Len(files[e]) \in Nat
        BY DEF IInv, Typed, TypeOK
      <4> QED
        BY <1>1, <1>2, <1>3, <2>1, <3>1, <3>2, <4>1
    <3>3. CASE e # s
      BY <1>2, <1>3, <3>1, <3>3
    <3> QED
      BY <3>2, <3>3
  <2>2. at' = "write" /\ result' \in Index => at = "write" /\ UNCHANGED <<request, result>>
    BY McpAssumption
  <2> QED
    BY <2>1, <2>2 DEF IInv, Owned
<1>7. \A e \in Workspace : e # s => Holds(e)' = Holds(e) /\ OnPath(e)' = OnPath(e)
  BY <1>3 DEF Holds, OnPath, StateDir
<1>8. Holds(StateDir(w))' = i /\ reported'[StateDir(w)] = r
  BY <1>1, <1>3, <1>4 DEF Holds, StateDir
<1> QED
  <2>1. Numbered'
    BY OriginUnchanged
  <2>2. \A e \in Workspace : e # StateDir(w) =>
          reported'[e] = reported[e] /\ Holds(e)' = Holds(e) /\ OnPath(e)' = OnPath(e)
    BY <1>1, <1>4, <1>7, Zenon
  <2> QED
    BY <1>2, <1>3, <1>4, <1>5, <1>6, <1>8, <2>1, <2>2, Zenon

LEMMA UserDownloadsKeeps == ASSUME IInv, NEW w \in Workspace, UserDownloads(w) PROVE IInv'
<1> USE McpAssumption DEF llamaVars, heldVars, talkVars
<1>0. PICK i \in Index : Refresh(StateDir(w), i) \/ Fetch(StateDir(w), w, i)
  BY DEF UserDownloads
<1>1. /\ reported' = [reported EXCEPT ![StateDir(w)] = None]
      /\ UNCHANGED <<explicit, published, artifacts, origin, llamaVars, heldVars, at, request, result, talkVars>>
  BY DEF UserDownloads
<1>2. /\ files' \in [Workspace -> Seq(Index)] /\ bound' \in [Workspace -> {None} \union Workspace]
      /\ reported' \in [Workspace -> {None} \union Index]
      /\ \A v \in Workspace : /\ Len(files'[v]) <= MaxFiles
                              /\ \A c \in DOMAIN pool[v] : pool[v][c] <= Len(files'[StateDir(v)])
      /\ Numbered' /\ Owned'
      /\ \A e \in Workspace : e # StateDir(w) =>
           /\ reported'[e] = reported[e] /\ Holds(e)' = Holds(e) /\ OnPath(e)' = OnPath(e)
      /\ reported'[StateDir(w)] = None
  BY <1>0, <1>1, DownloadKeepsFiles
<1>3. Typed'
  BY <1>1, <1>2 DEF IInv, Typed, TypeOK, Prepareds, StateDir
<1>4. Named' /\ Counted' /\ Queued'
  BY <1>1, SessionKept
<1>5. Searched'
  <2>1. at' = "write" /\ result' \in Index =>
          StateDir(request.dir)' = StateDir(request.dir) /\ StateDir(request.dir) \in Workspace
    BY <1>1, StateDirs DEF IInv, Named, StateDir
  <2> QED
    BY <1>1, <1>2, <2>1 DEF IInv, Searched
<1> QED
  BY <1>2, <1>3, <1>4, <1>5 DEF IInv

LEMMA PublishKeeps == ASSUME IInv, NEW w \in Workspace, Publish(w) PROVE IInv'
<1> USE McpAssumption DEF Publish, llamaVars, heldVars, talkVars
<1>1. /\ Numbered' /\ Built' = Built + 1 /\ Built + 1 \in 1..MaxBuilds /\ Built + 1 \in Index
      /\ origin' \in [1..MaxBuilds -> {None} \union Workspace]
  BY BuildNumbers DEF Index
<1>2. /\ published' \in [Workspace -> {None} \union Index] /\ artifacts' \in [Workspace -> SUBSET Index]
      /\ \A v \in Workspace :
           /\ published'[v] = IF v = w THEN Built + 1 ELSE published[v]
           /\ artifacts'[v] = IF v = w THEN artifacts[v] \union {Built + 1} ELSE artifacts[v]
  BY <1>1 DEF IInv, Typed, TypeOK
<1>3. Typed'
  BY <1>1, <1>2 DEF IInv, Typed, TypeOK, Prepareds, StateDir
<1>4. Named' /\ Counted' /\ Queued'
  BY SessionKept
<1>5. Owned'
  <2>1. \A e \in Workspace, i \in Index \union {None} :
          BuiltFor(origin, e, i) \/ (e = w /\ i = Built + 1) => BuiltFor(origin', e, i)
    BY OwnedStays
  <2>2. ~explicit' => \A e \in Workspace :
          /\ \A k \in 1..Len(files'[e]) : BuiltFor(origin', e, files'[e][k])
          /\ bound'[e] \in {None, e}
    BY <2>1 DEF IInv, Owned, Typed, TypeOK
  <2>3. \A v \in Workspace : /\ \A i \in artifacts'[v] : i # 0 /\ BuiltFor(origin', v, i)
                             /\ published'[v] \in artifacts'[v] \union {None}
    BY <1>1, <1>2, <2>1 DEF IInv, Owned, Typed, TypeOK
  <2>4. at' = "write" /\ result' \in Index =>
          result' # 0 /\ (explicit' \/ BuiltFor(origin', request'.dir, result'))
    BY <2>1 DEF IInv, Owned, Named
  <2> QED
    BY <2>2, <2>3, <2>4 DEF Owned
<1>6. Searched'
  BY DEF IInv, Searched, OnPath, Holds, StateDir
<1> QED
  BY <1>1, <1>3, <1>4, <1>5, <1>6 DEF IInv

-----------------------------------------------------------------------------
(* Requests and answers                                                      *)

\* An answer that tells of an error, or of success without an index.
LEMMA ErrorIsNoIndex == Error \notin Index /\ Ok \notin Index /\ None \notin Index
BY McpAssumption

\* A step that shows no index and leaves the files and the connections alone.
LEMMA NothingShown ==
  ASSUME IInv, UNCHANGED <<explicit, diskVars, pool, reported>>, at \notin {"close", "closed"},
         at' # "write" \/ result' \notin Index
  PROVE  Numbered' /\ Owned' /\ Searched'
<1> USE DEF IInv, diskVars
<1>1. Numbered'
  BY OriginUnchanged
<1>2. Owned'
  BY DEF Owned
<1>3. Searched'
  BY DEF Searched, OnPath, Holds, StateDir
<1> QED
  BY <1>1, <1>2, <1>3

\* Its types, when those of what it does change are given.
LEMMA TypesKept ==
  ASSUME IInv, UNCHANGED <<explicit, diskVars, libs, pool, reported>>,
         Prepareds \subseteq children', children' \subseteq Workspace,
         broken' \in BOOLEAN, open' \in BOOLEAN,
         loaded' \in {None, "given"} \union Workspace, refs' \in 0..Cardinality(Workspace),
         at' \in Serving \union {"read", "close", "closed"}
  PROVE  Typed'
BY DEF IInv, Typed, TypeOK, diskVars, Serving, Prepareds, StateDir

\* A request that goes on to its next step stays the one without an answer.
LEMMA GoesOn ==
  ASSUME IInv, Kept, at \in Serving, at' \in Serving
  PROVE  Queued'
BY DEF IInv, Kept, Queued, Serving, talkVars

LEMMA ReadKeeps == ASSUME IInv, Read PROVE IInv'
<1> USE ErrorIsNoIndex
<1>0. PICK m \in Message : HandlePayload(m)
  BY DEF Read
<1>1. at = "read" /\ UNCHANGED <<explicit, diskVars, llamaVars, heldVars, answers, broken, reported>>
  BY DEF Read
<1>2. \/ m.kind = "eof" /\ at' = "close" /\ UNCHANGED asked
      \/ m.kind = "notification" /\ at' = "read" /\ UNCHANGED asked
      \/ /\ m.kind \in {"call", "invalid", "garbage"} /\ at' \in {"call", "write"}
         /\ asked' = Append(asked, m.id) /\ request' = m
         /\ at' = "write" => result' = Error
         /\ at' = "call" => m.kind = "call"
  BY <1>0, <1>1 DEF HandlePayload, Reply, Goto, Message
<1>3. m.id \in Ids /\ (m.kind = "call" => m.dir \in Workspace \union {NotADir})
  BY DEF Message, Ids
<1>4. Typed'
  <2>1. /\ Prepareds \subseteq children /\ children \subseteq Workspace
        /\ broken \in BOOLEAN /\ open \in BOOLEAN
        /\ loaded \in {None, "given"} \union Workspace /\ refs \in 0..Cardinality(Workspace)
    BY DEF IInv, Typed, TypeOK
  <2> QED
    BY <1>1, <1>2, <2>1, TypesKept DEF llamaVars, heldVars, Serving
<1>5. Named'
  BY <1>1, <1>2, <1>3 DEF Named, IInv, heldVars
<1>6. Counted'
  BY <1>1, <1>2 DEF IInv, Counted, Users, Prepareds, llamaVars, heldVars
<1>7. Queued'
  <2>1. asked = answers /\ asked \in Seq(Ids)
    BY <1>1 DEF IInv, Queued
  <2>2. asked' \in Seq(Ids)
    BY <1>2, <1>3, <2>1
  <2> QED
    BY <1>1, <1>2, <1>3, <2>1, <2>2 DEF Queued, Serving
<1>8. Numbered' /\ Owned' /\ Searched'
  BY <1>1, <1>2, NothingShown DEF heldVars
<1> QED
  BY <1>4, <1>5, <1>6, <1>7, <1>8 DEF IInv

LEMMA WriteKeeps == ASSUME IInv, Write PROVE IInv'
<1> USE ErrorIsNoIndex DEF Write, Goto, llamaVars, heldVars
<1>1. Typed'
  <2>1. /\ Prepareds \subseteq children /\ children \subseteq Workspace
        /\ broken \in BOOLEAN /\ open \in BOOLEAN
        /\ loaded \in {None, "given"} \union Workspace /\ refs \in 0..Cardinality(Workspace)
    BY DEF IInv, Typed, TypeOK
  <2> QED
    BY <2>1, TypesKept DEF Serving
<1>2. Named' /\ Counted'
  BY DEF IInv, Named, Counted, Users, Prepareds
<1>3. Queued'
  <2>1. request.id \in Ids /\ asked = Append(answers, request.id) /\ asked \in Seq(Ids)
    BY DEF IInv, Queued, Serving
  <2> QED
    BY <2>1 DEF Queued, Serving
<1>4. Numbered' /\ Owned' /\ Searched'
  BY NothingShown
<1> QED
  BY <1>1, <1>2, <1>3, <1>4 DEF IInv

LEMMA WriteFailsKeeps == ASSUME IInv, WriteFails PROVE IInv'
<1> USE ErrorIsNoIndex DEF WriteFails, Goto, llamaVars, heldVars
<1>1. Typed'
  <2>1. /\ Prepareds \subseteq children /\ children \subseteq Workspace /\ open \in BOOLEAN
        /\ loaded \in {None, "given"} \union Workspace /\ refs \in 0..Cardinality(Workspace)
    BY DEF IInv, Typed, TypeOK
  <2> QED
    BY <2>1, TypesKept DEF Serving
<1>2. Named' /\ Counted'
  BY DEF IInv, Named, Counted, Users, Prepareds
<1>3. Queued'
  BY DEF IInv, Queued, Serving
<1>4. Numbered' /\ Owned' /\ Searched'
  BY NothingShown
<1> QED
  BY <1>1, <1>2, <1>3, <1>4 DEF IInv

LEMMA CallKeeps == ASSUME IInv, Call PROVE IInv'
<1> USE ErrorIsNoIndex DEF Call, Reply, Goto, Kept, llamaVars
<1>1. /\ at' \in {"prepare", "write", "remote"} /\ (at' = "write" => result' \notin Index)
      /\ children \subseteq children' /\ children' \subseteq Workspace
      /\ at' # "write" => request.dir \in children'
  BY DEF IInv, Named, Typed, TypeOK
<1>2. Typed'
  <2>1. /\ Prepareds \subseteq children /\ broken \in BOOLEAN /\ open \in BOOLEAN
        /\ loaded \in {None, "given"} \union Workspace /\ refs \in 0..Cardinality(Workspace)
    BY DEF IInv, Typed, TypeOK
  <2> QED
    BY <1>1, <2>1, TypesKept DEF Serving, talkVars
<1>3. Named' /\ Counted'
  BY <1>1 DEF IInv, Named, Counted, Users, Prepareds
<1>4. Queued'
  BY <1>1, GoesOn DEF Serving
<1>5. Numbered' /\ Owned' /\ Searched'
  BY <1>1, NothingShown
<1> QED
  BY <1>2, <1>3, <1>4, <1>5 DEF IInv

-----------------------------------------------------------------------------
(* Preparation of a backend                                                  *)

\* A step of a request that leaves all that is held for the workspaces as it was.
LEMMA HeldKept ==
  ASSUME IInv, Kept, UNCHANGED <<diskVars, libs, heldVars, reported>>, open' \in BOOLEAN,
         loaded' \in {None, "given"} \union Workspace, refs' \in 0..Cardinality(Workspace),
         at \in Serving, at' \in Serving, at' # "write" \/ result' \notin Index
  PROVE  Typed' /\ Queued' /\ Numbered' /\ Owned' /\ Searched'
<1>1. /\ Prepareds \subseteq children /\ children \subseteq Workspace /\ broken \in BOOLEAN
  BY DEF IInv, Typed, TypeOK
<1>2. Typed'
  BY <1>1, TypesKept DEF Kept, heldVars, talkVars
<1>3. Queued'
  BY GoesOn
<1>4. Numbered' /\ Owned' /\ Searched'
  BY NothingShown DEF Kept, heldVars, Serving
<1> QED
  BY <1>2, <1>3, <1>4

\* The same for one that leaves the native runtime alone, too.
LEMMA RuntimeKept ==
  ASSUME IInv, Kept, UNCHANGED <<diskVars, llamaVars, heldVars, reported>>,
         at \in Serving, at' \in Serving, at' # "write" \/ result' \notin Index
  PROVE  Typed' /\ Queued' /\ Numbered' /\ Owned' /\ Searched'
<1>1. /\ open' \in BOOLEAN /\ loaded' \in {None, "given"} \union Workspace
      /\ refs' \in 0..Cardinality(Workspace) /\ UNCHANGED libs
  BY DEF IInv, Typed, TypeOK, llamaVars
<1> QED
  BY <1>1, HeldKept

LEMMA PreparedKeeps == ASSUME IInv, Prepared PROVE IInv'
<1> USE DEF Prepared, Goto
<1>1. Typed' /\ Queued' /\ Numbered' /\ Owned' /\ Searched'
  BY RuntimeKept DEF Serving
<1>2. Named' /\ Counted'
  BY DEF IInv, Named, Counted, Users, Prepareds, Kept, llamaVars, heldVars
<1> QED
  BY <1>1, <1>2 DEF IInv

\* Workspaces whose backends hold an embedder can be counted.
LEMMA PreparedsCounted ==
  ASSUME IInv
  PROVE  /\ IsFiniteSet(Prepareds) /\ Cardinality(Prepareds) \in Nat
         /\ Cardinality(Workspace) \in Nat /\ Cardinality(Prepareds) <= Cardinality(Workspace)
<1>1. IsFiniteSet(Workspace) /\ Prepareds \subseteq Workspace
  BY McpAssumption DEF Prepareds
<1> QED
  BY <1>1, FS_Subset, FS_CardinalityType

\* There is room for one more where a workspace has none.
LEMMA OneMorePrepared ==
  ASSUME IInv, NEW d \in Workspace, pool[d] = <<>>
  PROVE  /\ Cardinality(Prepareds \union {d}) = Cardinality(Prepareds) + 1
         /\ Cardinality(Prepareds) + 1 <= Cardinality(Workspace)
<1>1. IsFiniteSet(Workspace) /\ Prepareds \union {d} \subseteq Workspace /\ d \notin Prepareds
      /\ IsFiniteSet(Prepareds)
  BY PreparedsCounted, McpAssumption DEF Prepareds
<1>2. Cardinality(Prepareds \union {d}) = Cardinality(Prepareds) + 1
  BY <1>1, FS_AddElement
<1>3. Cardinality(Prepareds \union {d}) <= Cardinality(Workspace)
  BY <1>1, FS_Subset
<1> QED
  BY <1>2, <1>3

LEMMA NewEmbedderKeeps == ASSUME IInv, NewEmbedder PROVE IInv'
<1> USE DEF NewEmbedder, Goto
<1>1. PICK d \in Workspace : d = request.dir /\ pool[d] = <<>> /\ d \in children
  BY DEF IInv, Named, Typed, TypeOK
<1>2. /\ Counted' /\ refs' \in 0..Cardinality(Workspace) /\ open' \in BOOLEAN /\ UNCHANGED libs
      /\ loaded' \in {None, "given"} \union Workspace /\ at' \in {"open", "load"}
      /\ at' = "load" => libs # "remote"
  <2>1. /\ Cardinality(Prepareds) \in Nat /\ Cardinality(Workspace) \in Nat
        /\ Cardinality(Prepareds) + 1 <= Cardinality(Workspace) /\ Prepareds' = Prepareds
    BY <1>1, PreparedsCounted, OneMorePrepared DEF heldVars, Prepareds
  <2>2. LibPath(request.dir) \in {None, "given"} \union Workspace
    BY <1>1, StateDirs DEF LibPath
  <2>3. CASE libs = "remote"
    BY <2>1, <2>3 DEF IInv, Counted, Users, Typed, TypeOK, llamaVars
  <2>4. CASE libs # "remote"
    <3>1. refs = Cardinality(Prepareds)
      BY <2>1, <2>4 DEF IInv, Counted, Users
    <3>2. /\ refs' = Cardinality(Prepareds) + 1 /\ open' = TRUE /\ UNCHANGED libs /\ at' = "load"
          /\ loaded' \in {None, "given"} \union Workspace
      BY <2>2, <2>4, <3>1
    <3> QED
      BY <2>1, <2>4, <3>2 DEF Counted, Users
  <2> QED
    BY <2>3, <2>4
<1>3. Typed' /\ Queued' /\ Numbered' /\ Owned' /\ Searched'
  BY <1>2, HeldKept DEF Serving
<1>4. Named'
  BY <1>1, <1>2 DEF IInv, Named, Kept, heldVars
<1> QED
  BY <1>2, <1>3, <1>4 DEF IInv

LEMMA NewEmbedderFailsKeeps == ASSUME IInv, NewEmbedderFails PROVE IInv'
<1> USE ErrorIsNoIndex DEF NewEmbedderFails, Reply, Goto
<1>1. Typed' /\ Queued' /\ Numbered' /\ Owned' /\ Searched'
  BY RuntimeKept DEF Serving
<1>2. Named' /\ Counted'
  BY DEF IInv, Named, Counted, Users, Prepareds, llamaVars, heldVars
<1> QED
  BY <1>1, <1>2 DEF IInv

LEMMA LoadModelKeeps == ASSUME IInv, LoadModel PROVE IInv'
<1> USE DEF LoadModel, Goto
<1>1. Typed' /\ Queued' /\ Numbered' /\ Owned' /\ Searched'
  BY RuntimeKept DEF Serving
<1>2. Named' /\ Counted'
  BY DEF IInv, Named, Counted, Users, Prepareds, Kept, llamaVars, heldVars
<1> QED
  BY <1>1, <1>2 DEF IInv

\* A preparation that fails gives the reference back that it has taken.
LEMMA ReferenceReturned ==
  ASSUME IInv, at \in {"load", "open"}, at' = "write", UNCHANGED <<libs, pool>>,
         IF libs = "remote" THEN UNCHANGED <<refs, open>> ELSE Release
  PROVE  Counted' /\ refs' \in 0..Cardinality(Workspace) /\ open' \in BOOLEAN
<1>1. Cardinality(Prepareds) \in Nat /\ Cardinality(Workspace) \in Nat /\ Prepareds' = Prepareds
  BY PreparedsCounted DEF Prepareds
<1>2. CASE libs = "remote"
  BY <1>1, <1>2 DEF IInv, Counted, Users, Typed, TypeOK
<1>3. CASE libs # "remote"
  <2>1. refs = Cardinality(Prepareds) + 1 /\ open /\ refs \in 0..Cardinality(Workspace)
    BY <1>1, <1>3 DEF IInv, Counted, Users, Typed, TypeOK
  <2>2. refs' = Cardinality(Prepareds) /\ open' = (open /\ refs' > 0)
    BY <1>1, <1>3, <2>1 DEF Release
  <2>3. open' <=> refs' > 0
    BY <2>1, <2>2, Zenon
  <2>4. open' \in BOOLEAN
    BY <2>2, Zenon
  <2> QED
    BY <1>1, <1>3, <2>1, <2>2, <2>3, <2>4 DEF Counted, Users
<1> QED
  BY <1>2, <1>3

LEMMA LoadModelFailsKeeps == ASSUME IInv, LoadModelFails PROVE IInv'
<1> USE ErrorIsNoIndex DEF LoadModelFails, Reply, Goto
<1>1. Counted' /\ refs' \in 0..Cardinality(Workspace) /\ open' \in BOOLEAN
  BY ReferenceReturned DEF IInv, Named, heldVars
<1>2. Typed' /\ Queued' /\ Numbered' /\ Owned' /\ Searched'
  <2>1. loaded' \in {None, "given"} \union Workspace
    BY DEF IInv, Typed, TypeOK
  <2> QED
    BY <1>1, <2>1, HeldKept DEF Serving
<1>3. Named'
  BY DEF Named
<1> QED
  BY <1>1, <1>2, <1>3 DEF IInv

LEMMA OpenIndexFailsKeeps == ASSUME IInv, OpenIndexFails PROVE IInv'
<1> USE ErrorIsNoIndex DEF OpenIndexFails, Reply, Goto
<1>1. Counted' /\ refs' \in 0..Cardinality(Workspace) /\ open' \in BOOLEAN
  BY ReferenceReturned DEF heldVars
<1>2. Typed' /\ Queued' /\ Numbered' /\ Owned' /\ Searched'
  <2>1. loaded' \in {None, "given"} \union Workspace
    BY DEF IInv, Typed, TypeOK
  <2> QED
    BY <1>1, <2>1, HeldKept DEF Serving
<1>3. Named'
  BY DEF Named
<1> QED
  BY <1>1, <1>2, <1>3 DEF IInv

LEMMA OpenIndexKeeps == ASSUME IInv, OpenIndex PROVE IInv'
<1> USE ErrorIsNoIndex DEF OpenIndex, Goto
<1>1. PICK d \in Workspace : d = request.dir /\ pool[d] = <<>> /\ d \in children
  BY DEF IInv, Named, Typed, TypeOK
<1>2. PICK s \in Workspace : s = StateDir(d) /\ (~explicit => s = d)
  BY StateDirs
<1>3. /\ AtPath(s) \in Seq(Index) /\ Len(AtPath(s)) \in 1..MaxFiles /\ Len(files[s]) <= Len(AtPath(s))
      /\ \A k \in 1..Len(AtPath(s)) : AtPath(s)[k] = IF k <= Len(files[s]) THEN files[s][k] ELSE 0
      /\ files[s] # <<>> => AtPath(s) = files[s]
      /\ files[s] = <<>> => Holds(s) = None
  BY PathOpened
<1>4. PICK k \in 1..MaxFiles : k = Len(AtPath(s))
  BY <1>3
<1>5. /\ files' \in [Workspace -> Seq(Index)] /\ files'[s] = AtPath(s)
      /\ \A e \in Workspace : e # s => files'[e] = files[e]
  BY <1>1, <1>2, <1>3 DEF IInv, Typed, TypeOK
<1>6. /\ pool' = [pool EXCEPT ![d] = <<k>>] /\ pool' \in [Workspace -> Seq(1..MaxFiles)]
      /\ pool'[d] = <<k>> /\ \A e \in Workspace : e # d => pool'[e] = pool[e]
  <2>1. <<k>> \in Seq(1..MaxFiles)
    OBVIOUS
  <2>2. pool' = [pool EXCEPT ![d] = <<k>>]
    BY <1>1, <1>2, <1>4
  <2>3. pool \in [Workspace -> Seq(1..MaxFiles)]
    BY DEF IInv, Typed, TypeOK
  <2> QED
    BY <2>1, <2>2, <2>3
<1>7. \A e \in Workspace : /\ Len(files'[e]) \in Nat /\ Len(files'[e]) <= MaxFiles
                           /\ Len(files[e]) \in Nat /\ Len(files[e]) <= Len(files'[e])
  <2>1. \A e \in Workspace : Len(files'[e]) \in Nat
    BY <1>5, Entries
  <2>2. \A e \in Workspace : Len(files[e]) \in Nat /\ Len(files[e]) <= MaxFiles
    BY Types
  <2> QED
    BY <1>3, <1>4, <1>5, <2>1, <2>2
<1>8. Prepareds' = Prepareds \union {d}
  <2>1. <<k>> # <<>>
    OBVIOUS
  <2> QED
    BY <1>6, <2>1 DEF Prepareds
<1>9. Typed'
  <2>1. \A v \in Workspace : StateDir(v)' = StateDir(v) /\ StateDir(v) \in Workspace
    BY StateDirs DEF StateDir, Kept
  <2>2. \A v \in Workspace : Len(pool'[v]) <= 2
    <3>1. Len(<<k>>) = 1
      OBVIOUS
    <3>2. \A v \in Workspace : Len(pool[v]) <= 2
      BY Types
    <3> QED
      BY <1>6, <3>1, <3>2
  <2>3. \A v \in Workspace : \A c \in DOMAIN pool'[v] : pool'[v][c] <= Len(files'[StateDir(v)])
    <3>1. \A c \in DOMAIN pool'[d] : pool'[d][c] = k
      BY <1>6
    <3>2. k <= Len(files'[s])
      BY <1>4, <1>5
    <3>3. \A v \in Workspace : v # d => \A c \in DOMAIN pool[v] :
            pool[v][c] \in 1..MaxFiles /\ pool[v][c] <= Len(files[StateDir(v)])
      BY Types
    <3>4. \A v \in Workspace : v # d => \A c \in DOMAIN pool[v] : pool[v][c] <= Len(files'[StateDir(v)])
      BY <1>7, <2>1, <3>3
    <3> QED
      BY <1>2, <1>6, <3>1, <3>2, <3>4
  <2>4. Prepareds' \subseteq children' /\ children' \subseteq Workspace
    BY <1>1, <1>8 DEF IInv, Typed, TypeOK
  <2>5. \A v \in Workspace :
          /\ Len(files'[v]) <= MaxFiles /\ Len(pool'[v]) <= 2
          /\ \A c \in DOMAIN pool'[v] : pool'[v][c] <= Len(files'[StateDir(v)'])
    BY <1>7, <2>1, <2>2, <2>3
  <2>6. /\ explicit' \in BOOLEAN /\ broken' \in BOOLEAN /\ bound' \in [Workspace -> {None} \union Workspace]
        /\ published' \in [Workspace -> {None} \union Index] /\ artifacts' \in [Workspace -> SUBSET Index]
        /\ origin' \in [1..MaxBuilds -> {None} \union Workspace]
        /\ loaded' \in {None, "given"} \union Workspace /\ refs' \in 0..Cardinality(Workspace)
        /\ reported' \in [Workspace -> {None} \union Index] /\ at' = "work"
        /\ libs' \in {"given", "local", "remote"} /\ open' \in BOOLEAN
    BY DEF IInv, Typed, TypeOK, Kept, llamaVars, talkVars
  <2> QED
    BY <1>5, <1>6, <2>4, <2>5, <2>6 DEF Typed, TypeOK
<1>10. Named'
  BY <1>1, <1>6 DEF IInv, Named, Kept
<1>11. Counted'
  <2>1. /\ Cardinality(Prepareds) \in Nat /\ Cardinality(Prepareds') = Cardinality(Prepareds) + 1
        /\ at = "open" /\ at' = "work" /\ libs' = libs /\ refs' = refs /\ open' = open
    BY <1>1, <1>8, PreparedsCounted, OneMorePrepared DEF llamaVars
  <2>2. Users' = Users
    BY <2>1 DEF Users
  <2> QED
    BY <2>1, <2>2 DEF IInv, Counted
<1>12. Queued' /\ Numbered'
  BY GoesOn, OriginUnchanged DEF Serving
<1>13. Owned'
  <2>1. ASSUME ~explicit, NEW e \in Workspace
        PROVE  \A j \in 1..Len(files'[e]) : BuiltFor(origin, e, files'[e][j])
    <3>1. Len(files[e]) \in Nat /\ BuiltFor(origin, e, 0)
          /\ \A j \in 1..Len(files[e]) : BuiltFor(origin, e, files[e][j])
      BY <2>1, Types DEF IInv, Owned, BuiltFor
    <3> QED
      BY <1>3, <1>5, <3>1
  <2> QED
    BY <2>1 DEF IInv, Owned, Kept
<1>14. Searched'
  <2>1. ASSUME NEW e \in Workspace, reported[e] # None, OnPath(e)'
        PROVE  Holds(e)' = reported[e]
    <3>1. \A v \in Workspace : StateDir(v)' = StateDir(v)
      BY DEF StateDir, Kept
    <3>2. CASE e # s \/ files[s] # <<>>
      <4>1. files'[e] = files[e]
        BY <1>3, <1>5, <3>2
      <4>2. OnPath(e)
        BY <1>1, <1>6, <2>1, <3>1, <4>1 DEF OnPath
      <4> QED
        BY <2>1, <4>1, <4>2 DEF IInv, Searched, Holds
    <3>3. CASE e = s /\ files[s] = <<>>
      <4>1. Len(files[s]) = 0
        BY <3>3
      <4>2. OnPath(s)
        BY <4>1, Types DEF OnPath
      <4>3. Holds(s) = None
        BY <1>3, <3>3
      <4> QED
        BY <2>1, <3>3, <4>2, <4>3 DEF IInv, Searched
    <3> QED
      BY <3>2, <3>3
  <2> QED
    BY <2>1 DEF Searched
<1> QED
  BY <1>9, <1>10, <1>11, <1>12, <1>13, <1>14 DEF IInv

-----------------------------------------------------------------------------
(* The tools                                                                 *)

LEMMA SearchKeeps == ASSUME IInv, Search PROVE IInv'
<1> USE ErrorIsNoIndex DEF Search, Reply, Goto
<1>1. PICK d \in Workspace : d = request.dir /\ d \in children
  BY DEF IInv, Named, Typed, TypeOK
<1>2. PICK s \in Workspace : s = StateDir(d) /\ (~explicit => s = d)
  BY StateDirs
<1>3. ASSUME result' \in Index
      PROVE  \E c \in DOMAIN pool[d] : /\ result' = files[s][pool[d][c]] /\ result' # 0
                                       /\ pool[d][c] \in 1..Len(files[s])
  <2>1. \A c \in DOMAIN pool[d] : pool[d][c] \in 1..Len(files[s])
    <3>1. \A c \in DOMAIN pool[d] : pool[d][c] \in 1..MaxFiles /\ pool[d][c] <= Len(files[s])
      BY <1>2, Types
    <3>2. Len(files[s]) \in Nat
      BY Types
    <3> QED
      BY <3>1, <3>2, McpAssumption
  <2> QED
    BY <1>1, <1>2, <1>3, <2>1
<1>4. Typed'
  BY DEF IInv, Typed, TypeOK, Kept, diskVars, llamaVars, heldVars, talkVars, Prepareds, StateDir
<1>5. Named' /\ Counted'
  BY <1>1 DEF IInv, Named, Counted, Users, Prepareds, Kept, llamaVars, heldVars
<1>6. Queued' /\ Numbered'
  BY GoesOn, OriginUnchanged DEF Serving, diskVars
<1>7. Owned'
  <2>1. result' \in Index => result' # 0 /\ (explicit \/ BuiltFor(origin, d, result'))
    BY <1>2, <1>3 DEF IInv, Owned
  <2> QED
    BY <1>1, <2>1 DEF IInv, Owned, Kept, diskVars
<1>8. Searched'
  <2>1. /\ \A e \in Workspace : Holds(e)' = Holds(e) /\ OnPath(e)' = OnPath(e)
        /\ StateDir(request.dir)' = s
    BY <1>1, <1>2 DEF Holds, OnPath, StateDir, Kept, diskVars, heldVars
  <2>2. ASSUME result' \in Index, reported[s] # None, OnPath(s)
        PROVE  result' = reported[s]
    <3>1. PICK c \in DOMAIN pool[d] : result' = files[s][pool[d][c]] /\ pool[d][c] \in 1..Len(files[s])
      BY <1>3, <2>2
    <3>2. pool[d][c] = Len(files[s])
      BY <1>2, <2>2 DEF OnPath
    <3>3. files[s] # <<>>
      <4>1. Len(files[s]) \in Nat
        BY Types
      <4> QED
        BY <3>1, <4>1
    <3>4. Holds(s) = files[s][Len(files[s])]
      BY <3>3, PathOpened
    <3> QED
      BY <2>2, <3>1, <3>2, <3>4 DEF IInv, Searched
  <2> QED
    BY <2>1, <2>2 DEF IInv, Searched
<1> QED
  BY <1>4, <1>5, <1>6, <1>7, <1>8 DEF IInv

\* The connections a run may have.
LEMMA ConnectionsFit ==
  ASSUME IInv, NEW d \in Workspace, pool[d] # <<>>, NEW conns \in Connections(d)
  PROVE  /\ conns \in Seq(1..MaxFiles) /\ Len(conns) \in Nat /\ Len(conns) <= 2 /\ conns # <<>>
         /\ \A c \in DOMAIN conns : conns[c] \in 1..Len(files[StateDir(d)])
         /\ \A n \in Nat : (\A c \in DOMAIN conns : conns[c] = n) => \A c \in DOMAIN pool[d] : pool[d][c] = n
<1> DEFINE n == Len(files[StateDir(d)])
<1>1. /\ pool[d] \in Seq(1..MaxFiles) /\ Len(pool[d]) \in Nat /\ Len(pool[d]) <= 2
      /\ \A c \in DOMAIN pool[d] : pool[d][c] \in 1..MaxFiles /\ pool[d][c] <= n
      /\ DOMAIN pool[d] = 1..Len(pool[d])
  BY Types
<1>2. n \in Nat /\ n <= MaxFiles
  BY StateDirs, Types
<1> HIDE DEF n
<1>3. CASE conns = pool[d]
  BY <1>1, <1>2, <1>3, McpAssumption DEF n
<1>4. CASE conns = Append(pool[d], n) /\ Len(pool[d]) = 1
  <2>1. pool[d][1] \in 1..n /\ n \in 1..MaxFiles
    BY <1>1, <1>2, <1>4, McpAssumption
  <2>2. conns \in Seq(1..MaxFiles) /\ Len(conns) = 2 /\ conns[1] = pool[d][1] /\ conns[2] = n
        /\ DOMAIN conns = 1..2
    BY <1>1, <1>4, <2>1
  <2>3. conns # <<>>
    BY <2>2
  <2>4. \A c \in DOMAIN conns : conns[c] \in 1..n
    BY <1>2, <2>1, <2>2
  <2>5. \A m \in Nat : (\A c \in DOMAIN conns : conns[c] = m) => \A c \in DOMAIN pool[d] : pool[d][c] = m
    BY <1>1, <1>4, <2>2
  <2> QED
    BY <2>2, <2>3, <2>4, <2>5 DEF n
<1> QED
  BY <1>3, <1>4 DEF Connections, n

\* The pool of a backend becomes another one on files that have been at the path.
LEMMA PoolGrown ==
  ASSUME IInv, NEW d \in Workspace, pool[d] # <<>>, NEW conns \in Connections(d),
         pool' = [pool EXCEPT ![d] = conns]
  PROVE  /\ pool' \in [Workspace -> Seq(1..MaxFiles)] /\ pool'[d] = conns
         /\ \A e \in Workspace : e # d => pool'[e] = pool[e]
         /\ Prepareds' = Prepareds /\ \A e \in Workspace : Len(pool'[e]) <= 2
         /\ \A e \in Workspace : \A c \in DOMAIN pool'[e] : pool'[e][c] <= Len(files[StateDir(e)])
<1>1. /\ conns \in Seq(1..MaxFiles) /\ Len(conns) <= 2 /\ conns # <<>>
      /\ \A c \in DOMAIN conns : conns[c] \in 1..Len(files[StateDir(d)])
  BY ConnectionsFit
<1>2. /\ pool' \in [Workspace -> Seq(1..MaxFiles)] /\ pool'[d] = conns
      /\ \A e \in Workspace : e # d => pool'[e] = pool[e]
  BY <1>1 DEF IInv, Typed, TypeOK
<1>3. Prepareds' = Prepareds
  BY <1>1, <1>2 DEF Prepareds
<1>4. \A e \in Workspace : Len(pool[e]) <= 2 /\ \A c \in DOMAIN pool[e] : pool[e][c] <= Len(files[StateDir(e)])
  BY Types
<1>5. \A c \in DOMAIN conns : conns[c] <= Len(files[StateDir(d)])
  <2>1. Len(files[StateDir(d)]) \in Nat
    BY StateDirs, Types
  <2> QED
    BY <1>1, <2>1
<1> QED
  BY <1>1, <1>2, <1>3, <1>4, <1>5

LEMMA IndexRepositoryKeeps == ASSUME IInv, IndexRepository PROVE IInv'
<1> USE ErrorIsNoIndex
<1>1. PICK d \in Workspace : d = request.dir /\ d \in children /\ pool[d] # <<>>
  BY DEF IInv, Named, Typed, TypeOK, IndexRepository
<1>2. PICK s \in Workspace : s = StateDir(d) /\ (~explicit => s = d)
  BY StateDirs
<1>3. /\ Build(d) /\ Kept /\ UNCHANGED <<published, artifacts, llamaVars, children>>
      /\ at = "work" /\ at' = "write"
  BY <1>1 DEF IndexRepository, Reply, Goto
<1>4. /\ Numbered' /\ Built' = Built + 1 /\ Built + 1 \in 1..MaxBuilds /\ Built + 1 \in Index
      /\ origin' \in [1..MaxBuilds -> {None} \union Workspace]
  BY <1>3, BuildNumbers, McpAssumption DEF Index
<1>5. PICK i \in Index : i = Built + 1
  BY <1>4
<1>0. PICK conns \in Connections(d) :
        /\ pool' = [pool EXCEPT ![d] = conns]
        /\ \E c \in DOMAIN conns : files' = [files EXCEPT ![s][conns[c]] = i]
  <2>1. \E conns \in Connections(request.dir) :
          /\ pool' = [pool EXCEPT ![request.dir] = conns]
          /\ \E c \in DOMAIN conns :
               files' = [files EXCEPT ![StateDir(request.dir)][conns[c]] = Built + 1]
    BY Zenon DEF IndexRepository
  <2> QED
    BY <1>1, <1>2, <1>5, <2>1, Zenon
<1>6. PICK c \in DOMAIN conns : files' = [files EXCEPT ![s][conns[c]] = i]
  BY <1>0
<1>7. PICK k \in 1..Len(files[s]) : k = conns[c]
  BY <1>1, <1>2, <1>0, <1>6, ConnectionsFit
<1>8. /\ reported' = [reported EXCEPT ![s] = i] \/ reported' = [reported EXCEPT ![s] = None]
      /\ bound' \in {bound, [bound EXCEPT ![s] = None]}
      /\ result' \in {Ok, Error}
  BY <1>1, <1>2, <1>5 DEF IndexRepository, Reply
<1>9. files[s] # <<>> /\ AtPath(s) = files[s] /\ Len(files[s]) \in Nat /\ Len(files[s]) <= MaxFiles
  <2>1. Len(files[s]) \in Nat /\ Len(files[s]) <= MaxFiles
    BY Types
  <2>2. files[s] # <<>>
    BY <1>7, <2>1
  <2> QED
    BY <2>1, <2>2, PathOpened
<1>10. /\ files' \in [Workspace -> Seq(Index)] /\ Len(files'[s]) = Len(files[s])
       /\ \A e \in Workspace : e # s => files'[e] = files[e]
       /\ \A j \in 1..Len(files[s]) : files'[s][j] = IF j = k THEN i ELSE files[s][j]
       /\ k = Len(files[s]) => Holds(s)' = i
  <2>1. Written(s, k, i)
    BY <1>6, <1>7, <1>9 DEF Written
  <2>2. /\ files' \in [Workspace -> Seq(Index)]
        /\ \A e \in Workspace : e # s => files'[e] = files[e]
        /\ Len(files'[s]) = Len(AtPath(s))
        /\ \A j \in 1..Len(AtPath(s)) :
             files'[s][j] = IF j = k THEN i ELSE IF j <= Len(files[s]) THEN files[s][j] ELSE 0
        /\ k = Len(AtPath(s)) => Holds(s)' = i
    <3>1. k \in 1..Len(AtPath(s))
      BY <1>9
    <3> QED
      BY <2>1, <3>1, FileWritten
  <2> QED
    BY <1>9, <2>2
<1>11. /\ pool' \in [Workspace -> Seq(1..MaxFiles)] /\ pool'[d] = conns
       /\ \A e \in Workspace : e # d => pool'[e] = pool[e]
       /\ Prepareds' = Prepareds /\ \A e \in Workspace : Len(pool'[e]) <= 2
       /\ \A e \in Workspace : \A x \in DOMAIN pool'[e] : pool'[e][x] <= Len(files[StateDir(e)])
  BY <1>1, <1>0, PoolGrown
<1>12. \A e \in Workspace : Len(files'[e]) = Len(files[e]) /\ Len(files[e]) <= MaxFiles
                            /\ StateDir(e)' = StateDir(e) /\ StateDir(e) \in Workspace
  BY <1>3, <1>10, StateDirs, Types DEF StateDir, Kept
<1>13. Typed'
  <2>1. reported' \in [Workspace -> {None} \union Index] /\ bound' \in [Workspace -> {None} \union Workspace]
    <3>1. /\ reported \in [Workspace -> {None} \union Index] /\ bound \in [Workspace -> {None} \union Workspace]
      BY DEF IInv, Typed, TypeOK
    <3>2. /\ [reported EXCEPT ![s] = i] \in [Workspace -> {None} \union Index]
          /\ [reported EXCEPT ![s] = None] \in [Workspace -> {None} \union Index]
          /\ [bound EXCEPT ![s] = None] \in [Workspace -> {None} \union Workspace]
      BY <3>1
    <3> QED
      BY <1>8, <3>1, <3>2
  <2>2. \A e \in Workspace : \A x \in DOMAIN pool'[e] : pool'[e][x] <= Len(files'[StateDir(e)'])
    BY <1>11, <1>12
  <2> QED
    BY <1>3, <1>4, <1>10, <1>11, <1>12, <2>1, <2>2 DEF IInv, Typed, TypeOK, Kept, llamaVars, talkVars
<1>14. Named' /\ Counted'
  BY <1>3, <1>8, <1>11 DEF IInv, Named, Counted, Users, llamaVars
<1>15. Queued'
  BY <1>3, GoesOn DEF Serving
<1>16. Owned'
  <2>1. \A e \in Workspace, x \in Index \union {None} :
          BuiltFor(origin, e, x) \/ (e = d /\ x = Built + 1) => BuiltFor(origin', e, x)
    BY <1>3, OwnedStays
  <2>2. ASSUME ~explicit, NEW e \in Workspace
        PROVE  /\ \A j \in 1..Len(files'[e]) : BuiltFor(origin', e, files'[e][j])
               /\ bound'[e] \in {None, e}
    <3>1. bound'[e] \in {None, e}
      BY <1>8, <2>2 DEF IInv, Owned, Typed, TypeOK
    <3>2. \A j \in 1..Len(files[e]) : BuiltFor(origin, e, files[e][j]) /\ files[e][j] \in Index
      BY <2>2, Types DEF IInv, Owned
    <3>3. \A j \in 1..Len(files[e]) : BuiltFor(origin', e, files[e][j])
      BY <2>1, <3>2
    <3>4. CASE e = s
      BY <1>2, <1>5, <1>10, <2>1, <2>2, <3>1, <3>3, <3>4
    <3>5. CASE e # s
      BY <1>10, <3>1, <3>3, <3>5
    <3> QED
      BY <3>4, <3>5
  <2>3. \A v \in Workspace : /\ \A x \in artifacts'[v] : x # 0 /\ BuiltFor(origin', v, x)
                             /\ published'[v] \in artifacts'[v] \union {None}
    BY <1>3, <2>1 DEF IInv, Owned, Typed, TypeOK
  <2> QED
    BY <1>3, <1>8, <2>2, <2>3 DEF Owned, Kept
<1>17. Searched'
  <2>1. ASSUME NEW e \in Workspace, reported'[e] # None, OnPath(e)'
        PROVE  Holds(e)' = reported'[e]
    <3>1. CASE e = s
      <4>1. conns[c] = Len(files'[s])
        BY <1>2, <1>6, <1>11, <1>12, <2>1, <3>1 DEF OnPath
      <4>2. k = Len(files[s])
        BY <1>7, <1>10, <4>1
      <4>3. reported'[s] = i
        BY <1>8, <2>1, <3>1 DEF IInv, Typed, TypeOK
      <4> QED
        BY <1>10, <3>1, <4>2, <4>3
    <3>2. CASE e # s
      <4>1. files'[e] = files[e] /\ reported'[e] = reported[e]
        BY <1>8, <1>10, <3>2 DEF IInv, Typed, TypeOK
      <4>2. \A v \in Workspace : StateDir(v) = e => pool'[v] = pool[v]
        BY <1>2, <1>11, <3>2
      <4>3. OnPath(e)
        BY <1>12, <2>1, <4>1, <4>2 DEF OnPath
      <4> QED
        BY <1>3, <2>1, <4>1, <4>3 DEF IInv, Searched, Holds
    <3> QED
      BY <3>1, <3>2
  <2> QED
    BY <1>8, <2>1 DEF Searched
<1> QED
  BY <1>4, <1>13, <1>14, <1>15, <1>16, <1>17 DEF IInv

LEMMA IndexRepositoryFailsKeeps == ASSUME IInv, IndexRepositoryFails PROVE IInv'
<1> USE ErrorIsNoIndex DEF IndexRepositoryFails, Reply, Goto, diskVars
<1>1. PICK d \in Workspace : d = request.dir /\ pool[d] # <<>>
  BY DEF IInv, Named, Typed, TypeOK
<1>2. PICK conns \in Connections(d) : pool' = [pool EXCEPT ![d] = conns]
  BY <1>1
<1>3. /\ pool' \in [Workspace -> Seq(1..MaxFiles)] /\ pool'[d] = conns
      /\ \A e \in Workspace : e # d => pool'[e] = pool[e]
      /\ Prepareds' = Prepareds /\ \A e \in Workspace : Len(pool'[e]) <= 2
      /\ \A e \in Workspace : \A x \in DOMAIN pool'[e] : pool'[e][x] <= Len(files[StateDir(e)])
  BY <1>1, <1>2, PoolGrown
<1>4. \A e \in Workspace : StateDir(e)' = StateDir(e) /\ StateDir(e) \in Workspace
  BY StateDirs DEF StateDir, Kept
<1>5. Typed'
  BY <1>3, <1>4 DEF IInv, Typed, TypeOK, Kept, llamaVars, talkVars
<1>6. Named' /\ Counted'
  BY <1>3 DEF IInv, Named, Counted, Users, llamaVars
<1>7. Queued' /\ Numbered'
  BY GoesOn, OriginUnchanged DEF Serving
<1>8. Owned'
  BY DEF IInv, Owned, Kept
<1>9. Searched'
  <2>1. ASSUME NEW e \in Workspace, OnPath(e)'
        PROVE  OnPath(e)
    <3>1. ASSUME NEW v \in Workspace, StateDir(v) = e
          PROVE  \A x \in DOMAIN pool[v] : pool[v][x] = Len(files[e])
      <4>1. \A x \in DOMAIN pool'[v] : pool'[v][x] = Len(files[e])
        BY <1>4, <2>1, <3>1 DEF OnPath
      <4>2. Len(files[e]) \in Nat
        BY Types
      <4>3. CASE v = d
        <5>1. \A n \in Nat : (\A c \in DOMAIN conns : conns[c] = n)
                           => \A c \in DOMAIN pool[d] : pool[d][c] = n
          BY <1>1, ConnectionsFit
        <5>2. \A x \in DOMAIN conns : conns[x] = Len(files[e])
          BY <1>3, <4>1, <4>3
        <5> QED
          BY <4>2, <4>3, <5>1, <5>2, Zenon
      <4>4. CASE v # d
        BY <1>3, <4>1, <4>4
      <4> QED
        BY <4>3, <4>4
    <3> QED
      BY <3>1 DEF OnPath
  <2> QED
    BY <2>1 DEF IInv, Searched, Holds
<1> QED
  BY <1>5, <1>6, <1>7, <1>8, <1>9 DEF IInv

LEMMA BindRemoteCIKeeps == ASSUME IInv, BindRemoteCI PROVE IInv'
<1> USE ErrorIsNoIndex DEF BindRemoteCI, Reply, Goto
<1>1. PICK d \in Workspace : d = request.dir
  BY DEF IInv, Named, Typed, TypeOK
<1>2. StateDir(d) \in Workspace /\ (~explicit => StateDir(d) = d)
  BY StateDirs
<1>3. /\ bound' \in [Workspace -> {None} \union Workspace]
      /\ \A e \in Workspace : bound'[e] = IF e = StateDir(d) THEN d ELSE bound[e]
  BY <1>1, <1>2 DEF IInv, Typed, TypeOK
<1>4. Typed'
  BY <1>3 DEF IInv, Typed, TypeOK, Kept, llamaVars, heldVars, talkVars, Prepareds, StateDir
<1>5. Named' /\ Counted'
  BY DEF IInv, Named, Counted, Users, Prepareds, llamaVars, heldVars
<1>6. Queued' /\ Numbered'
  BY GoesOn, OriginUnchanged DEF Serving
<1>7. Owned'
  BY <1>2, <1>3 DEF IInv, Owned, Kept
<1>8. Searched'
  BY DEF IInv, Searched, OnPath, Holds, StateDir, Kept, heldVars
<1> QED
  BY <1>4, <1>5, <1>6, <1>7, <1>8 DEF IInv

LEMMA DownloadKeeps == ASSUME IInv, Download PROVE IInv'
<1> USE ErrorIsNoIndex
<1>1. PICK d \in Workspace : d = request.dir
  BY DEF IInv, Named, Typed, TypeOK, Download
<1>2. PICK i \in Index : /\ Refresh(StateDir(d), i) \/ Fetch(StateDir(d), d, i)
                         /\ reported' = [reported EXCEPT ![StateDir(d)] = i]
  BY <1>1 DEF Download
<1>3. /\ at = "remote" /\ at' = "write" /\ result' = Ok /\ Kept
      /\ UNCHANGED <<published, artifacts, origin, llamaVars, heldVars>>
  BY DEF Download, Reply, Goto
<1>4. /\ files' \in [Workspace -> Seq(Index)] /\ bound' \in [Workspace -> {None} \union Workspace]
      /\ reported' \in [Workspace -> {None} \union Index]
      /\ \A v \in Workspace : /\ Len(files'[v]) <= MaxFiles
                              /\ \A c \in DOMAIN pool[v] : pool[v][c] <= Len(files'[StateDir(v)])
      /\ Numbered' /\ Owned'
      /\ \A e \in Workspace : e # StateDir(d) =>
           /\ reported'[e] = reported[e] /\ Holds(e)' = Holds(e) /\ OnPath(e)' = OnPath(e)
      /\ reported'[StateDir(d)] = i /\ Holds(StateDir(d))' = i
  BY <1>2, <1>3, DownloadKeepsFiles DEF Kept, heldVars
<1>5. Typed'
  BY <1>3, <1>4 DEF IInv, Typed, TypeOK, Kept, llamaVars, heldVars, talkVars, Prepareds, StateDir
<1>6. Named' /\ Counted'
  BY <1>3 DEF IInv, Named, Counted, Users, Prepareds, llamaVars, heldVars
<1>7. Queued'
  BY <1>3, GoesOn DEF Serving
<1>8. Searched'
  <2>1. PICK s \in Workspace : s = StateDir(d)
    BY StateDirs
  <2>2. Holds(s)' = i
    BY <1>3, <1>4, <2>1 DEF StateDir, Holds, Kept
  <2> QED
    BY <1>3, <1>4, <2>1, <2>2 DEF IInv, Searched
<1> QED
  BY <1>4, <1>5, <1>6, <1>7, <1>8 DEF IInv

LEMMA NothingDownloadedKeeps == ASSUME IInv, NothingDownloaded PROVE IInv'
<1> USE ErrorIsNoIndex DEF NothingDownloaded, Reply, Goto
<1>1. Typed' /\ Queued' /\ Numbered' /\ Owned' /\ Searched'
  BY RuntimeKept DEF Serving
<1>2. Named' /\ Counted'
  BY DEF IInv, Named, Counted, Users, Prepareds, llamaVars, heldVars
<1> QED
  BY <1>1, <1>2 DEF IInv

\* A backend that is closed takes its embedder and its connections with it.
LEMMA CloseKeeps == ASSUME IInv, Close PROVE IInv'
<1> USE ErrorIsNoIndex
<1>0. /\ at = "close" /\ at' \in {"close", "closed"} /\ Kept
      /\ UNCHANGED <<diskVars, libs, loaded, result, reported>>
  BY DEF Close, Goto
<1>1. Queued'
  BY <1>0 DEF IInv, Queued, Serving, Kept, talkVars
<1>2. Numbered' /\ Owned' /\ Searched'
  BY <1>0, OriginUnchanged DEF IInv, Owned, Searched, Kept, diskVars
<1>3. CASE children = {} /\ Goto("closed") /\ UNCHANGED <<heldVars, refs, open>>
  <2>1. Typed'
    BY <1>0, <1>3 DEF IInv, Typed, TypeOK, Kept, diskVars, heldVars, talkVars, Prepareds, StateDir
  <2>2. Named' /\ Counted'
    BY <1>0, <1>3 DEF IInv, Named, Counted, Users, Prepareds, heldVars
  <2> QED
    BY <1>1, <1>2, <2>1, <2>2 DEF IInv
<1>4. ASSUME NEW d \in children,
             children' = children \ {d}, pool' = [pool EXCEPT ![d] = <<>>],
             IF pool[d] # <<>> /\ libs # "remote" THEN Release ELSE UNCHANGED <<refs, open>>
      PROVE  IInv'
  <2>1. d \in Workspace /\ Prepareds \subseteq children /\ children \subseteq Workspace
    BY DEF IInv, Typed, TypeOK
  <2>2. /\ pool' \in [Workspace -> Seq(1..MaxFiles)] /\ pool'[d] = <<>>
        /\ \A e \in Workspace : e # d => pool'[e] = pool[e]
    <3>1. pool \in [Workspace -> Seq(1..MaxFiles)] /\ <<>> \in Seq(1..MaxFiles)
      BY DEF IInv, Typed, TypeOK
    <3> QED
      BY <1>4, <2>1, <3>1
  <2>3. Prepareds' = Prepareds \ {d} /\ (d \in Prepareds <=> pool[d] # <<>>)
    BY <2>1, <2>2 DEF Prepareds
  <2>4. /\ Cardinality(Prepareds) \in Nat /\ Cardinality(Workspace) \in Nat
        /\ Cardinality(Prepareds') \in Nat /\ Cardinality(Prepareds) <= Cardinality(Workspace)
        /\ Cardinality(Prepareds') = IF d \in Prepareds THEN Cardinality(Prepareds) - 1
                                     ELSE Cardinality(Prepareds)
    <3>1. IsFiniteSet(Prepareds) /\ IsFiniteSet(Prepareds')
      BY <2>3, PreparedsCounted, FS_RemoveElement
    <3> QED
      BY <2>3, <3>1, PreparedsCounted, FS_RemoveElement, FS_CardinalityType
  <2>5. Counted' /\ refs' \in 0..Cardinality(Workspace) /\ open' \in BOOLEAN
    <3>1. refs = Users /\ (open <=> Users > 0) /\ open \in BOOLEAN
          /\ refs \in 0..Cardinality(Workspace) /\ libs' = libs
      BY <1>0 DEF IInv, Counted, Typed, TypeOK
    <3>2. CASE libs = "remote"
      BY <1>4, <3>1, <3>2 DEF Counted, Users
    <3>3. CASE libs # "remote" /\ pool[d] = <<>>
      BY <1>0, <1>4, <2>3, <2>4, <3>1, <3>3 DEF Counted, Users
    <3>4. CASE libs # "remote" /\ pool[d] # <<>>
      <4>1. refs = Cardinality(Prepareds) /\ refs > 0 /\ open
            /\ Cardinality(Prepareds') = Cardinality(Prepareds) - 1
        BY <1>0, <2>3, <2>4, <3>1, <3>4 DEF Users
      <4>2. refs' = Cardinality(Prepareds') /\ open' = (open /\ refs' > 0)
        BY <1>4, <2>4, <3>4, <4>1 DEF Release
      <4>3. (open' <=> refs' > 0) /\ open' \in BOOLEAN
        BY <4>1, <4>2, Zenon
      <4>4. refs' = Users'
        BY <1>0, <3>1, <3>4, <4>2, <2>4 DEF Users
      <4> QED
        BY <2>4, <4>1, <4>2, <4>3, <4>4 DEF Counted
    <3> QED
      BY <3>2, <3>3, <3>4
  <2>6. Typed'
    <3>1. \A v \in Workspace : StateDir(v)' = StateDir(v)
      BY <1>0 DEF StateDir, Kept
    <3>2. \A v \in Workspace :
            /\ Len(pool'[v]) <= 2
            /\ \A c \in DOMAIN pool'[v] : pool'[v][c] <= Len(files[StateDir(v)])
      <4>1. \A v \in Workspace :
              Len(pool[v]) <= 2 /\ \A c \in DOMAIN pool[v] : pool[v][c] <= Len(files[StateDir(v)])
        BY Types
      <4>2. Len(<<>>) = 0 /\ DOMAIN <<>> = {}
        OBVIOUS
      <4> QED
        BY <2>2, <4>1, <4>2
    <3>3. Prepareds' \subseteq children' /\ children' \subseteq Workspace
      BY <1>4, <2>1, <2>3
    <3> QED
      BY <1>0, <2>2, <2>5, <3>1, <3>2, <3>3 DEF IInv, Typed, TypeOK, Kept, diskVars, talkVars
  <2>7. Named'
    BY <1>0 DEF Named
  <2> QED
    BY <1>1, <1>2, <2>5, <2>6, <2>7 DEF IInv
<1> QED
  BY <1>3, <1>4 DEF Close

-----------------------------------------------------------------------------
(* Theorems                                                                  *)

LEMMA InitFits == Init => IInv
<1> SUFFICES ASSUME Init PROVE IInv
  OBVIOUS
<1> USE ErrorIsNoIndex, McpAssumption DEF Init
<1>1. Cardinality({}) = 0 /\ Cardinality(Workspace) \in Nat /\ Prepareds = {}
  BY FS_EmptySet, FS_CardinalityType DEF Prepareds
<1>2. Typed
  <2>1. refs \in 0..Cardinality(Workspace) /\ <<>> \in Seq(Index) /\ <<>> \in Seq(1..MaxFiles)
        /\ Len(<<>>) = 0 /\ DOMAIN <<>> = {}
    BY <1>1
  <2>2. files \in [Workspace -> Seq(Index)] /\ pool \in [Workspace -> Seq(1..MaxFiles)]
    BY <2>1
  <2>3. \A w \in Workspace : files[w] = <<>> /\ pool[w] = <<>>
    OBVIOUS
  <2>4. \A w \in Workspace :
          /\ Len(files[w]) <= MaxFiles /\ Len(pool[w]) <= 2
          /\ \A c \in DOMAIN pool[w] : pool[w][c] <= Len(files[StateDir(w)])
    BY <2>1, <2>3
  <2>5. /\ explicit \in BOOLEAN /\ broken \in BOOLEAN /\ bound \in [Workspace -> {None} \union Workspace]
        /\ published \in [Workspace -> {None} \union Index] /\ artifacts \in [Workspace -> SUBSET Index]
        /\ origin \in [1..MaxBuilds -> {None} \union Workspace] /\ children \subseteq Workspace
        /\ loaded = None /\ reported \in [Workspace -> {None} \union Index] /\ at = "read"
        /\ libs \in {"given", "local", "remote"} /\ open \in BOOLEAN
    OBVIOUS
  <2> HIDE DEF Init
  <2> QED
    BY <1>1, <2>1, <2>2, <2>4, <2>5 DEF Typed, TypeOK
<1>3. Numbered
  <2>1. {i \in DOMAIN origin : origin[i] # None} = {}
    OBVIOUS
  <2>2. Built = 0
    <3> HIDE DEF Init
    <3> QED
      BY <1>1, <2>1 DEF Built
  <2> QED
    BY <2>2 DEF Numbered
<1>4. Named /\ Queued
  BY DEF Named, Queued, Serving
<1>5. Counted
  <2>1. Users = 0
    <3>1. at = "read" /\ Cardinality(Prepareds) = 0
      BY <1>1
    <3> HIDE DEF Init
    <3> QED
      BY <3>1 DEF Users
  <2> QED
    BY <2>1 DEF Counted
<1>6. Owned
  BY DEF Owned
<1>7. Searched
  BY DEF Searched
<1> QED
  BY <1>2, <1>3, <1>4, <1>5, <1>6, <1>7 DEF IInv

LEMMA StutterFits == ASSUME IInv, UNCHANGED vars PROVE IInv'
<1> USE DEF vars, diskVars, llamaVars, heldVars, talkVars
<1>1. Typed' /\ Numbered'
  BY OriginUnchanged DEF IInv, Typed, TypeOK, Prepareds, StateDir
<1>2. Named' /\ Counted' /\ Queued' /\ Owned'
  BY DEF IInv, Named, Counted, Users, Prepareds, Queued, Owned
<1>3. Searched'
  BY DEF IInv, Searched, OnPath, Holds, StateDir
<1> QED
  BY <1>1, <1>2, <1>3 DEF IInv

LEMMA McpFits == Spec => []IInv
<1>1. IInv /\ [Next]_vars => IInv'
  BY StutterFits, UserIndexesKeeps, UserDownloadsKeeps, PublishKeeps, ReadKeeps, WriteKeeps,
     WriteFailsKeeps, CallKeeps, PreparedKeeps, NewEmbedderKeeps, NewEmbedderFailsKeeps,
     LoadModelKeeps, LoadModelFailsKeeps, OpenIndexKeeps, OpenIndexFailsKeeps, SearchKeeps,
     IndexRepositoryKeeps, IndexRepositoryFailsKeeps, BindRemoteCIKeeps, DownloadKeeps,
     NothingDownloadedKeeps, CloseKeeps DEF Next, Serve
<1> QED
  BY <1>1, InitFits, PTL DEF Spec

\* The types; in particular the reference counter never exceeds the workspaces, and a connection is
\* always to a file that has been at the path of its state directory.
THEOREM McpTypeCorrect == Spec => []TypeOK
<1>1. IInv => TypeOK
  BY DEF IInv, Typed
<1> QED
  BY <1>1, McpFits, PTL

\* llamaInitRefCounter counts the embedders in use, and the runtime is initialised exactly as long
\* as there is one, whatever preparation fails, before or after its reference is taken, and in
\* whatever order the backends are closed.
THEOREM RuntimeInUse == Spec => []RuntimeOpenIffUsed
<1>1. IInv => RuntimeOpenIffUsed
  <2> SUFFICES ASSUME IInv PROVE RuntimeOpenIffUsed
    OBVIOUS
  <2>1. refs = Users /\ (open <=> Users > 0) /\ open \in BOOLEAN /\ (Users > 0) \in BOOLEAN
    BY DEF IInv, Counted, Typed
  <2>2. open = (Users > 0)
    BY <2>1
  <2> QED
    BY <2>1, <2>2 DEF RuntimeOpenIffUsed
<1> QED
  BY <1>1, McpFits, PTL

\* For every use of identifiers by the clients: the answers bear those of the requests in their
\* order, and only a failed write leaves a request of the session without one.
THEOREM OrderlyAnswers == Spec => []AnsweredInOrder
<1>1. IInv => AnsweredInOrder
  <2> SUFFICES ASSUME Queued, at \in Serving \union {"read", "close", "closed"} PROVE AnsweredInOrder
    BY DEF IInv, Typed, TypeOK, Serving
  <2>1. asked \in Seq(Ids) /\ answers \in Seq(Ids)
        /\ (asked = answers \/ \E i \in Ids : asked = Append(answers, i))
    BY DEF Queued
  <2>2. /\ Len(asked) \in Nat /\ Len(answers) \in Nat
        /\ Len(answers) <= Len(asked) /\ Len(asked) <= Len(answers) + 1
        /\ \A i \in 1..Len(answers) : answers[i] = asked[i]
    BY <2>1
  <2>3. SubSeq(answers, 1, Len(answers)) = SubSeq(asked, 1, Len(answers))
    BY <2>1, <2>2
  <2>4. /\ at = "read" => answers = asked
        /\ at \in {"close", "closed"} => answers = asked \/ broken
    BY DEF Queued
  <2> QED
    BY <2>2, <2>3, <2>4 DEF AnsweredInOrder, IsPrefix
<1> QED
  BY <1>1, McpFits, PTL

\* When each workspace has its own state directory, no answer shows the index of another one,
\* whatever is downloaded or renamed under open connections.
THEOREM OwnIndexShown == Spec => []AnswersFromWorkspace
<1>1. IInv => AnswersFromWorkspace
  BY McpAssumption DEF IInv, Owned, BuiltFor, AnswersFromWorkspace, Index
<1> QED
  BY <1>1, McpFits, PTL

\* With own directories or a shared one, one connection or two: as long as the files the backends
\* have open are the ones at the path, what a tool has reported is what the next search shows.
THEOREM ReportedIsFound == Spec => []ReportedIsSearched
<1>1. IInv => ReportedIsSearched
  BY DEF IInv, Searched, ReportedIsSearched
<1> QED
  BY <1>1, McpFits, PTL
=============================================================================
