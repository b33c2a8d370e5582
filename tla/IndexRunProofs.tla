--------------------------- MODULE IndexRunProofs ---------------------------
(***************************************************************************)
(* Proofs about IndexRun, for every tree, every set of families, settings  *)
(* and symbols, and every number of runs.                                  *)
(***************************************************************************)
EXTENDS IndexHistory, TLAPS

\* The rows a file gives are rows.
LEMMA RowsOfType ==
  ASSUME NEW p \in Path, NEW c \in Content \union {NoFile}, NEW s \in Settings
  PROVE  RowsOf(p, c, s) \in SUBSET Row
  <1>1. CASE c = NoFile
    BY <1>1 DEF RowsOf
  <1>2. CASE c # NoFile
    <2>1. <<c, s>> \in Content \X Settings
      BY <1>2
    <2>2. Symbols[<<c, s>>] \in SUBSET Symbol
      BY <2>1, IndexAssumption
    <2>3. \A x \in Symbols[<<c, s>>] : x \in Symbol
      BY <2>2
    <2>4. RowsOf(p, c, s) = {<<p, x>> : x \in Symbols[<<c, s>>]}
      BY <1>2 DEF RowsOf
    <2> QED
      BY <2>3, <2>4 DEF Row
  <1> QED
    BY <1>1, <1>2

\* The logical index gives rows for every family.
LEMMA LogicalIndexType == TypeOK => LogicalIndex \in [Family -> SUBSET Row]
  BY DEF TypeOK, LogicalIndex, Searchable, Run, NoRun

\* Types hold in the initial states.
LEMMA TypeInit == Init => TypeOK
  <1> SUFFICES ASSUME Init PROVE TypeOK
    OBVIOUS
  <1>1. manifest \in [version : Nat, index : [Family -> SUBSET Row]]
    BY DEF Init, LogicalIndex, Searchable
  <1> QED
    BY <1>1 DEF Init, TypeOK, Building

\* Steps before the walk keep the types.
LEMMA TypeStart ==
  ASSUME TypeOK, NEW r \in Run,
         \/ \E m \in Family, s \in Settings : ReadState(r, m, s)
         \/ BeginState(r) \/ BeginSnapshot(r)
  PROVE  TypeOK'
  <1>1. ASSUME NEW m \in Family, NEW s \in Settings, ReadState(r, m, s) PROVE TypeOK'
    <2>1. StateHashes(m, s) \in SUBSET Entry
      BY DEF StateHashes, TypeOK
    <2>2. known' \in [Run -> SUBSET Entry]
      BY <1>1, <2>1 DEF ReadState, TypeOK
    <2> QED
      BY <1>1, <2>2 DEF ReadState, Step, TypeOK, dbVars, histVars, Building
  <1>2. CASE BeginState(r)
    BY <1>2 DEF BeginState, Step, TypeOK, flagVars, localVars, histVars, Building
  <1>3. CASE BeginSnapshot(r)
    BY <1>3 DEF BeginSnapshot, Step, TypeOK, flagVars, dbVars, histVars, Building, Walking
  <1> QED
    BY <1>1, <1>2, <1>3

\* Steps of the walk keep the types.
LEMMA TypeWalk ==
  ASSUME TypeOK, NEW r \in Run,
         \/ \E p \in Path : SkipFile(r, p) \/ HashFile(r, p)
         \/ ReuseFile(r) \/ ReadFile(r)
         \/ \E x \in job[r] : IndexSymbol(r, x)
         \/ \E h \in queued[r] : StoreEmbedding(r, h)
  PROVE  TypeOK'
  <1>1. ASSUME NEW p \in Path, SkipFile(r, p) PROVE TypeOK'
    BY <1>1 DEF SkipFile, TypeOK, dbVars, flagVars, histVars
  <1>2. ASSUME NEW p \in Path, HashFile(r, p) PROVE TypeOK'
    <2>1. <<p, tree[p]>> \in Entry
      BY <1>2 DEF HashFile, TypeOK, Entry
    <2> QED
      BY <1>2, <2>1 DEF HashFile, Step, TypeOK, flagVars, histVars, Building, Walking
  <1>3. CASE ReuseFile(r)
    <2>1. rows' \in [Run -> SUBSET Row]
      BY <1>3 DEF ReuseFile, CanReuseFile, TypeOK
    <2> QED
      BY <1>3, <2>1 DEF ReuseFile, Step, TypeOK, flagVars, histVars, Building, Walking
  <1>4. CASE ReadFile(r)
    <2>1. pc[r] = "file" /\ file[r] \in Entry
      BY <1>4 DEF ReadFile, Step, TypeOK
    <2>2. fam[r] \in Family /\ settings[r] \in Settings
      BY <2>1 DEF TypeOK
    <2>3. RowsOf(file[r][1], tree[file[r][1]], settings[r]) \in SUBSET Row
      BY <2>1, <2>2, RowsOfType DEF TypeOK, Entry
    <2>4. job' \in [Run -> SUBSET Row]
      BY <1>4, <2>3 DEF ReadFile, TypeOK
    <2>5. raced' \subseteq Family
      BY <1>4, <2>2 DEF ReadFile, TypeOK
    <2> QED
      BY <1>4, <2>4, <2>5 DEF ReadFile, Step, TypeOK, dbVars, flagVars, Building, Walking
  <1>5. ASSUME NEW x \in job[r], IndexSymbol(r, x) PROVE TypeOK'
    <2>1. x \in Row /\ Key[x] \in Hash
      BY IndexAssumption DEF TypeOK
    <2>2. seen' \in [Run -> SUBSET Hash] /\ queued' \in [Run -> SUBSET Hash]
      BY <1>5, <2>1 DEF IndexSymbol, TypeOK
    <2> QED
      BY <1>5, <2>1, <2>2 DEF IndexSymbol, TypeOK, flagVars, histVars, Building, Walking
  <1>6. ASSUME NEW h \in queued[r], StoreEmbedding(r, h) PROVE TypeOK'
    <2>1. h \in Hash /\ fam[r] \in Family
      BY <1>6 DEF StoreEmbedding, Live, TypeOK
    <2> QED
      BY <1>6, <2>1 DEF StoreEmbedding, TypeOK, flagVars, histVars
  <1> QED
    BY <1>1, <1>2, <1>3, <1>4, <1>5, <1>6

\* Steps after the walk keep the types.
LEMMA TypeFinish ==
  ASSUME TypeOK, NEW r \in Run,
         \/ ActivateSnapshot(r) \/ CleanupInactiveSnapshots(r) \/ CleanupUnusedEmbeddings(r)
         \/ UpdateManifest(r) \/ ActivateState(r) \/ CleanupHashes(r) \/ CleanupStates(r)
         \/ Stop(r)
  PROVE  TypeOK'
  <1>1. CASE ActivateSnapshot(r)
    BY <1>1 DEF ActivateSnapshot, Step, TypeOK, flagVars, localVars, histVars, Unrecorded
  <1>2. CASE CleanupInactiveSnapshots(r)
    BY <1>2 DEF CleanupInactiveSnapshots, Step, TypeOK, flagVars, localVars, histVars, Unrecorded
  <1>3. CASE CleanupUnusedEmbeddings(r)
    <2>1. embeddings' \subseteq Family \X Hash
      BY <1>3 DEF CleanupUnusedEmbeddings, TypeOK
    <2> QED
      BY <1>3, <2>1
      DEF CleanupUnusedEmbeddings, DropLocals, Step, TypeOK, flagVars, histVars, Unrecorded
  <1>4. CASE UpdateManifest(r)
    <2>1. manifest' \in [version : Nat, index : [Family -> SUBSET Row]]
      BY <1>4, LogicalIndexType DEF UpdateManifest, NewManifest, TypeOK
    <2> QED
      BY <1>4, <2>1 DEF UpdateManifest, Step, TypeOK, flagVars, localVars, histVars, Unrecorded
  <1>5. CASE ActivateState(r)
    BY <1>5 DEF ActivateState, Step, TypeOK, flagVars, localVars, histVars
  <1>6. CASE CleanupHashes(r)
    BY <1>6 DEF CleanupHashes, Step, TypeOK, flagVars, localVars, histVars
  <1>7. CASE CleanupStates(r)
    BY <1>7 DEF CleanupStates, Step, TypeOK, flagVars, localVars, histVars
  <1>8. CASE Stop(r)
    <2>1. torn' \subseteq Family
      BY <1>8 DEF Stop, Live, TypeOK
    <2>2. /\ pc' = [pc EXCEPT ![r] = "stopped"]
          /\ UNCHANGED <<tree, dbVars, flagVars, raced>>
      BY <1>8 DEF Stop
    <2>3. /\ known' \in [Run -> SUBSET Entry] /\ base' \in [Run -> Run \union {NoRun}]
          /\ todo' \in [Run -> SUBSET Path] /\ file' \in [Run -> Entry \union {NoEntry}]
          /\ job' \in [Run -> SUBSET Row]
          /\ seen' \in [Run -> SUBSET Hash] /\ queued' \in [Run -> SUBSET Hash]
          /\ \A q \in Run \ {r} : file'[q] = file[q]
      BY <1>8 DEF Stop, DropLocals, TypeOK
    <2>4. \A q \in Run : pc'[q] = "file" => file'[q] \in Entry
      BY <2>2, <2>3 DEF TypeOK
    <2>5. \A q \in Run : pc'[q] # "idle" => fam'[q] \in Family /\ settings'[q] \in Settings
      BY <1>8, <2>2 DEF TypeOK, flagVars, Stop, Live
    <2> QED
      BY <2>1, <2>2, <2>3, <2>4, <2>5 DEF TypeOK, flagVars, dbVars
  <1> QED
    BY <1>1, <1>2, <1>3, <1>4, <1>5, <1>6, <1>7, <1>8

\* Every step keeps the types.
LEMMA TypeNext == TypeOK /\ [Next]_vars => TypeOK'
  <1> SUFFICES ASSUME TypeOK, [Next]_vars PROVE TypeOK'
    OBVIOUS
  <1>1. ASSUME NEW r \in Run, RunStep(r) PROVE TypeOK'
    BY <1>1, TypeStart, TypeWalk, TypeFinish DEF RunStep
  <1>2. ASSUME NEW p \in Path, NEW c \in Content \union {NoFile}, Edit(p, c) PROVE TypeOK'
    BY <1>2 DEF Edit, TypeOK, dbVars, flagVars, localVars, histVars
  <1>3. CASE UNCHANGED vars
    BY <1>3 DEF vars, TypeOK
  <1> QED
    BY <1>1, <1>2, <1>3 DEF Next

\* Every variable keeps its type: every statement of a run, finished or stopped, applies to rows
\* and states that exist.
THEOREM IndexTypeCorrect == Spec => []TypeOK
  BY TypeInit, TypeNext, PTL DEF Spec

-----------------------------------------------------------------------------
(* The inductive invariant.  Shape holds whatever runs are live; the other parts need runs to *)
(* be exclusive.                                                                              *)

Recording == {"cleanHashes", "cleanStates"}

\* The two tables of active versions name runs that got that far; a run that has not begun its
\* walk has written nothing.
Shape ==
  /\ \A m \in Family : current[m] # NoRun =>
       fam[current[m]] = m /\ pc[current[m]] \notin Building
  /\ \A m \in Family : curState[m] # NoRun =>
       fam[curState[m]] = m /\ pc[curState[m]] \notin Building \union Unrecorded
  /\ \A r \in Run : pc[r] \in Building \ Walking =>
       rows[r] = {} /\ hashes[r] = {} /\ seen[r] = {}
  /\ \A r \in Run : pc[r] \notin Walking => queued[r] = {}

\* The only live run works on top of the active snapshot, then is the active snapshot.
Alone ==
  /\ \A q, r \in Run : Live(q) /\ Live(r) => q = r
  /\ \A r \in Run : pc[r] \in Walking => base[r] = current[fam[r]]
  /\ \A r \in Run : pc[r] \in Unrecorded \union Recording => current[fam[r]] = r
  /\ \A r \in Run : pc[r] \in Recording => curState[fam[r]] = r

InTable(r, h) == <<fam[r], h>> \in embeddings \/ h \in queued[r]

\* What a building snapshot refers to is stored, or is still with the embedding pipeline.
Stored ==
  /\ ActiveComplete
  /\ \A r \in Run : pc[r] \in Walking => \A h \in seen[r] : InTable(r, h)
  /\ \A r \in Run : pc[r] \in Walking => \A x \in rows[r] : InTable(r, Key[x])

Clean(m) == m \notin torn \union raced

\* What a run has recorded of the file it is at and has not yet turned into rows.
Remaining(r) ==
  IF pc[r] = "file" THEN RowsOf(file[r][1], file[r][2], settings[r])
  ELSE IF pc[r] = "index" THEN job[r] ELSE {}

\* The active snapshot and the active file-hash state are of one run, or that run is on its way
\* from one to the other.
SameVersion ==
  \A m \in Family \ torn :
    current[m] = curState[m] \/ (current[m] # NoRun /\ pc[current[m]] \in Unrecorded)

\* A live run trusts the hashes of the snapshot it copies from.
TrustsBase ==
  \A r \in Run : pc[r] \in Building /\ pc[r] # "idle" /\ Clean(fam[r]) /\ known[r] # {} =>
    /\ current[fam[r]] # NoRun
    /\ known[r] = hashes[current[fam[r]]] /\ settings[r] = settings[current[fam[r]]]

\* One hash per path, recorded when the walk visits it.
OneHash ==
  /\ \A r \in Run : \A d, e \in hashes[r] : d[1] = e[1] => d = e
  /\ \A r \in Run : pc[r] \in Walking => \A e \in hashes[r] : e[1] \notin todo[r]

\* The hashes and the rows of a building snapshot tell the same contents.
BuildsRebuilt ==
  \A r \in Run : pc[r] \in Walking /\ Clean(fam[r]) => rows[r] \union Remaining(r) = Rebuilt(r)

Faithful == SameVersion /\ TrustsBase /\ OneHash /\ BuildsRebuilt /\ ActiveEqualsRebuild

ManifestRight ==
  torn = {} /\ (\A r \in Run : pc[r] \notin Unrecorded \ {"activateState"}) =>
    manifest.index = LogicalIndex

IInv ==
  /\ TypeOK /\ Shape
  /\ Exclusive => Alone /\ Stored /\ Faithful /\ ManifestRight

\* Shape holds initially: no version is active and no run has begun.
LEMMA ShapeInit == Init => Shape
  BY DEF Init, Shape

\* Every step keeps Shape, with any number of live runs.
LEMMA ShapeNext == TypeOK /\ Shape /\ [Next]_vars => Shape'
  <1> SUFFICES ASSUME TypeOK, Shape, [Next]_vars PROVE Shape'
    OBVIOUS
  <1> USE DEF Shape, Building, Walking, Unrecorded
  <1>1. ASSUME NEW r \in Run, NEW m \in Family, NEW s \in Settings, ReadState(r, m, s) PROVE Shape'
    BY <1>1 DEF ReadState, Step, TypeOK, dbVars, Run, NoRun
  <1>2. ASSUME NEW r \in Run, BeginState(r) PROVE Shape'
    BY <1>2 DEF BeginState, Step, TypeOK, flagVars, localVars
  <1>3. ASSUME NEW r \in Run, BeginSnapshot(r) PROVE Shape'
    BY <1>3 DEF BeginSnapshot, Step, TypeOK, flagVars, dbVars
  <1>4. ASSUME NEW r \in Run, NEW p \in Path, SkipFile(r, p) PROVE Shape'
    BY <1>4 DEF SkipFile, TypeOK, flagVars, dbVars
  <1>5. ASSUME NEW r \in Run, NEW p \in Path, HashFile(r, p) PROVE Shape'
    BY <1>5 DEF HashFile, Step, TypeOK, flagVars
  <1>6. ASSUME NEW r \in Run, ReuseFile(r) PROVE Shape'
    BY <1>6 DEF ReuseFile, Step, TypeOK, flagVars
  <1>7. ASSUME NEW r \in Run, ReadFile(r) PROVE Shape'
    BY <1>7 DEF ReadFile, Step, TypeOK, flagVars, dbVars
  <1>8. ASSUME NEW r \in Run, NEW x \in job[r], IndexSymbol(r, x) PROVE Shape'
    BY <1>8 DEF IndexSymbol, TypeOK, flagVars
  <1>9. ASSUME NEW r \in Run, NEW h \in queued[r], StoreEmbedding(r, h) PROVE Shape'
    BY <1>9 DEF StoreEmbedding, TypeOK, flagVars
  <1>10. ASSUME NEW r \in Run, ActivateSnapshot(r) PROVE Shape'
    BY <1>10 DEF ActivateSnapshot, Step, TypeOK, flagVars, localVars
  <1>11. ASSUME NEW r \in Run, CleanupInactiveSnapshots(r) PROVE Shape'
    BY <1>11 DEF CleanupInactiveSnapshots, Step, TypeOK, flagVars, localVars
  <1>12. ASSUME NEW r \in Run, CleanupUnusedEmbeddings(r) PROVE Shape'
    BY <1>12 DEF CleanupUnusedEmbeddings, DropLocals, Step, TypeOK, flagVars
  <1>13. ASSUME NEW r \in Run, UpdateManifest(r) PROVE Shape'
    BY <1>13 DEF UpdateManifest, Step, TypeOK, flagVars, localVars
  <1>14. ASSUME NEW r \in Run, ActivateState(r) PROVE Shape'
    BY <1>14 DEF ActivateState, Step, TypeOK, flagVars, localVars
  <1>15. ASSUME NEW r \in Run, CleanupHashes(r) PROVE Shape'
    BY <1>15 DEF CleanupHashes, Step, TypeOK, flagVars, localVars
  <1>16. ASSUME NEW r \in Run, CleanupStates(r) PROVE Shape'
    BY <1>16 DEF CleanupStates, Step, TypeOK, flagVars, localVars
  <1>17. ASSUME NEW r \in Run, Stop(r) PROVE Shape'
    BY <1>17 DEF Stop, DropLocals, TypeOK, flagVars, dbVars
  <1>18. ASSUME NEW p \in Path, NEW c \in Content \union {NoFile}, Edit(p, c) PROVE Shape'
    BY <1>18 DEF Edit, dbVars, flagVars, localVars
  <1>19. CASE UNCHANGED vars
    BY <1>19 DEF vars
  <1> QED
    BY <1>1, <1>2, <1>3, <1>4, <1>5, <1>6, <1>7, <1>8, <1>9, <1>10, <1>11, <1>12, <1>13, <1>14,
       <1>15, <1>16, <1>17, <1>18, <1>19 DEF Next, RunStep

\* No run is live initially.
LEMMA AloneInit == Init => Alone
  BY DEF Init, Alone, Live, Walking, Unrecorded, Recording

\* A single live run stays on top of the snapshot it started from, then replaces it.
LEMMA AloneNext ==
  ASSUME Exclusive, TypeOK, Shape, Alone, [Next]_vars PROVE Alone'
  <1> USE DEF Alone, Shape, Live, Building, Walking, Unrecorded, Recording
  <1>1. ASSUME NEW r \in Run, NEW m \in Family, NEW s \in Settings, ReadState(r, m, s) PROVE Alone'
    BY <1>1 DEF ReadState, Step, Live, TypeOK, dbVars
  <1>2. ASSUME NEW r \in Run, BeginState(r) PROVE Alone'
    BY <1>2 DEF BeginState, Step, TypeOK, flagVars, localVars
  <1>3. ASSUME NEW r \in Run, BeginSnapshot(r) PROVE Alone'
    BY <1>3 DEF BeginSnapshot, Step, TypeOK, flagVars, dbVars
  <1>4. ASSUME NEW r \in Run, NEW p \in Path, SkipFile(r, p) PROVE Alone'
    BY <1>4 DEF SkipFile, TypeOK, flagVars, dbVars
  <1>5. ASSUME NEW r \in Run, NEW p \in Path, HashFile(r, p) PROVE Alone'
    BY <1>5 DEF HashFile, Step, TypeOK, flagVars
  <1>6. ASSUME NEW r \in Run, ReuseFile(r) PROVE Alone'
    BY <1>6 DEF ReuseFile, CanReuseFile, Step, TypeOK, flagVars
  <1>7. ASSUME NEW r \in Run, ReadFile(r) PROVE Alone'
    BY <1>7 DEF ReadFile, Step, TypeOK, flagVars, dbVars
  <1>8. ASSUME NEW r \in Run, NEW x \in job[r], IndexSymbol(r, x) PROVE Alone'
    BY <1>8 DEF IndexSymbol, TypeOK, flagVars
  <1>9. ASSUME NEW r \in Run, NEW h \in queued[r], StoreEmbedding(r, h) PROVE Alone'
    BY <1>9 DEF StoreEmbedding, TypeOK, flagVars
  <1>10. ASSUME NEW r \in Run, ActivateSnapshot(r) PROVE Alone'
    <2>1. /\ pc' = [pc EXCEPT ![r] = "cleanSnapshots"] /\ pc[r] = "walk"
          /\ current' = [current EXCEPT ![fam[r]] = r] /\ fam' = fam
      BY <1>10 DEF ActivateSnapshot, Step, flagVars
    <2>2. Live(r)
      BY <2>1
    <2>3. \A q \in Run \ {r} : ~Live(q)
      BY <2>2
    <2>4. pc'[r] = "cleanSnapshots" /\ \A q \in Run \ {r} : pc'[q] = pc[q]
      BY <2>1 DEF TypeOK
    <2>5. current'[fam'[r]] = r
      BY <2>1 DEF TypeOK
    <2> QED
      BY <2>3, <2>4, <2>5
  <1>11. ASSUME NEW r \in Run, CleanupInactiveSnapshots(r) PROVE Alone'
    BY <1>11 DEF CleanupInactiveSnapshots, Step, TypeOK, flagVars, localVars
  <1>12. ASSUME NEW r \in Run, CleanupUnusedEmbeddings(r) PROVE Alone'
    BY <1>12 DEF CleanupUnusedEmbeddings, DropLocals, Step, TypeOK, flagVars
  <1>13. ASSUME NEW r \in Run, UpdateManifest(r) PROVE Alone'
    BY <1>13 DEF UpdateManifest, Step, TypeOK, flagVars, localVars
  <1>14. ASSUME NEW r \in Run, ActivateState(r) PROVE Alone'
    BY <1>14 DEF ActivateState, Step, TypeOK, flagVars, localVars
  <1>15. ASSUME NEW r \in Run, CleanupHashes(r) PROVE Alone'
    BY <1>15 DEF CleanupHashes, Step, TypeOK, flagVars, localVars
  <1>16. ASSUME NEW r \in Run, CleanupStates(r) PROVE Alone'
    BY <1>16 DEF CleanupStates, Step, TypeOK, flagVars, localVars
  <1>17. ASSUME NEW r \in Run, Stop(r) PROVE Alone'
    BY <1>17 DEF Stop, DropLocals, Live, TypeOK, flagVars, dbVars
  <1>18. ASSUME NEW p \in Path, NEW c \in Content \union {NoFile}, Edit(p, c) PROVE Alone'
    BY <1>18 DEF Edit, TypeOK, dbVars, flagVars, localVars
  <1>19. CASE UNCHANGED vars
    BY <1>19 DEF vars
  <1> QED
    BY <1>1, <1>2, <1>3, <1>4, <1>5, <1>6, <1>7, <1>8, <1>9, <1>10, <1>11, <1>12, <1>13, <1>14,
       <1>15, <1>16, <1>17, <1>18, <1>19 DEF Next, RunStep

\* Once the live run leaves its walk, no run walks.
LEMMA NobodyWalks ==
  ASSUME TypeOK, Alone, NEW r \in Run, Live(r), NEW to, to \notin Walking,
         pc' = [pc EXCEPT ![r] = to]
  PROVE  \A q \in Run : pc'[q] \notin Walking
  <1>1. pc'[r] = to
    BY DEF TypeOK
  <1>2. \A q \in Run \ {r} : ~Live(q) /\ pc'[q] = pc[q]
    BY DEF Alone, TypeOK
  <1> QED
    BY <1>1, <1>2 DEF Live, Walking

\* No row is stored initially.
LEMMA StoredInit == Init => Stored
  BY DEF Init, Stored, ActiveComplete, Walking

\* No step, clean-ups included, drops an embedding that an active or growing snapshot needs.
LEMMA StoredNext ==
  ASSUME Exclusive, TypeOK, Shape, Alone, Stored, [Next]_vars PROVE Stored'
  <1> USE DEF Stored, ActiveComplete, InTable, Walking
  <1>1. ASSUME NEW r \in Run, NEW m \in Family, NEW s \in Settings, ReadState(r, m, s) PROVE Stored'
    BY <1>1 DEF ReadState, Step, Live, Shape, Alone, Building, Unrecorded, TypeOK, dbVars
  <1>2. ASSUME NEW r \in Run, BeginState(r) PROVE Stored'
    BY <1>2 DEF BeginState, Step, Shape, Alone, Live, Building, Unrecorded, TypeOK, flagVars,
       localVars
  <1>3. ASSUME NEW r \in Run, BeginSnapshot(r) PROVE Stored'
    BY <1>3 DEF BeginSnapshot, Step, Shape, Alone, Live, Building, Unrecorded, TypeOK,
       flagVars, dbVars
  <1>4. ASSUME NEW r \in Run, NEW p \in Path, SkipFile(r, p) PROVE Stored'
    BY <1>4 DEF SkipFile, Shape, Alone, Live, Building, Unrecorded, TypeOK, flagVars, dbVars
  <1>5. ASSUME NEW r \in Run, NEW p \in Path, HashFile(r, p) PROVE Stored'
    BY <1>5 DEF HashFile, Step, Shape, Alone, Live, Building, Unrecorded, TypeOK, flagVars
  <1>6. ASSUME NEW r \in Run, ReuseFile(r) PROVE Stored'
    BY <1>6 DEF ReuseFile, CanReuseFile, Step, Shape, Alone, Live, Building, Unrecorded,
       TypeOK, flagVars
  <1>7. ASSUME NEW r \in Run, ReadFile(r) PROVE Stored'
    BY <1>7 DEF ReadFile, Step, Shape, Alone, Live, Building, Unrecorded, TypeOK, flagVars, dbVars
  <1>8. ASSUME NEW r \in Run, NEW x \in job[r], IndexSymbol(r, x) PROVE Stored'
    <2>1. /\ pc[r] = "index" /\ pc' = [pc EXCEPT ![r] = IF job[r] = {x} THEN "walk" ELSE "index"]
          /\ rows' = [rows EXCEPT ![r] = @ \union {x}]
          /\ UNCHANGED <<current, embeddings, fam>>
      BY <1>8 DEF IndexSymbol, flagVars
    <2>2. \A m \in Family : current[m] # r
      BY <2>1 DEF Shape, Building, Run, NoRun
    <2>3. ActiveComplete'
      BY <2>1, <2>2 DEF TypeOK
    <2>4. \A q \in Run : pc'[q] \in Walking => q = r
      BY <2>1 DEF Alone, Live, TypeOK
    <2>5. queued[r] \subseteq queued'[r] /\ seen[r] \subseteq seen'[r]
      BY <1>8 DEF IndexSymbol, TypeOK
    <2>6. \A h \in seen'[r] : h \in seen[r] \/ h \in queued'[r]
      BY <1>8 DEF IndexSymbol, TypeOK
    <2>7. <<fam[r], Key[x]>> \in embeddings \/ Key[x] \in seen'[r]
      BY <1>8 DEF IndexSymbol, TypeOK
    <2>8. \A h \in seen[r] : InTable(r, h)
      BY <2>1 DEF InTable
    <2>9. \A h \in seen'[r] : InTable(r, h)'
      BY <2>1, <2>5, <2>6, <2>8
    <2>10. \A y \in rows[r] : InTable(r, Key[y])
      BY <2>1
    <2>11. \A y \in rows'[r] : y = x \/ y \in rows[r]
      BY <2>1 DEF TypeOK
    <2>12. \A y \in rows'[r] : InTable(r, Key[y])'
      BY <2>1, <2>5, <2>7, <2>9, <2>10, <2>11
    <2> QED
      BY <2>3, <2>4, <2>9, <2>12
  <1>9. ASSUME NEW r \in Run, NEW h \in queued[r], StoreEmbedding(r, h) PROVE Stored'
    <2>1. pc[r] \in Walking /\ <<fam[r], h>> \in embeddings'
      BY <1>9 DEF StoreEmbedding, Shape
    <2>2. embeddings \subseteq embeddings' /\ \A g \in queued[r] : g = h \/ g \in queued'[r]
      BY <1>9 DEF StoreEmbedding, TypeOK
    <2>3. UNCHANGED <<current, rows, seen, pc, fam>>
      BY <1>9 DEF StoreEmbedding, flagVars
    <2>4. ActiveComplete'
      BY <2>2, <2>3
    <2>5. \A q \in Run : pc[q] \in Walking => q = r
      BY <2>1 DEF Alone, Live
    <2>6. \A g : InTable(r, g) => InTable(r, g)'
      BY <2>1, <2>2, <2>3
    <2> QED
      BY <2>3, <2>4, <2>5, <2>6
  <1>10. ASSUME NEW r \in Run, ActivateSnapshot(r) PROVE Stored'
    <2>1. /\ pc[r] = "walk" /\ queued[r] = {} /\ current' = [current EXCEPT ![fam[r]] = r]
          /\ pc' = [pc EXCEPT ![r] = "cleanSnapshots"] /\ fam[r] \in Family
          /\ UNCHANGED <<rows, embeddings, fam>>
      BY <1>10 DEF ActivateSnapshot, Step, flagVars, TypeOK
    <2>2. \A x \in rows[r] : <<fam[r], Key[x]>> \in embeddings
      BY <2>1
    <2>3. ASSUME NEW m \in Family, current'[m] # NoRun
          PROVE  \A x \in rows'[current'[m]] : <<m, Key[x]>> \in embeddings'
      <3>1. CASE m = fam[r]
        BY <2>1, <2>2, <3>1 DEF TypeOK
      <3>2. CASE m # fam[r]
        BY <2>1, <2>3, <3>2 DEF TypeOK
      <3> QED
        BY <3>1, <3>2
    <2>4. \A q \in Run : pc'[q] \notin Walking
      BY <2>1, NobodyWalks DEF Live, Walking
    <2> QED
      BY <2>3, <2>4
  <1>11. ASSUME NEW r \in Run, CleanupInactiveSnapshots(r) PROVE Stored'
    BY <1>11 DEF CleanupInactiveSnapshots, Step, Shape, Alone, Live, Building, Unrecorded,
       TypeOK, flagVars, localVars
  <1>12. ASSUME NEW r \in Run, CleanupUnusedEmbeddings(r) PROVE Stored'
    <2>1. /\ pc[r] = "cleanEmbeddings" /\ pc' = [pc EXCEPT ![r] = "manifest"]
          /\ UNCHANGED <<current, rows, fam>>
      BY <1>12 DEF CleanupUnusedEmbeddings, Step, flagVars
    <2>2. ASSUME NEW m \in Family, current[m] # NoRun, NEW x \in rows[current[m]]
          PROVE  <<m, Key[x]>> \in embeddings'
      <3>1. <<m, Key[x]>> \in embeddings /\ fam[current[m]] = m /\ current[m] \in Run
        BY <2>2 DEF Shape, TypeOK
      <3>2. Referenced(<<m, Key[x]>>)
        BY <3>1 DEF Referenced
      <3> QED
        BY <1>12, <3>1, <3>2 DEF CleanupUnusedEmbeddings
    <2>3. \A q \in Run : pc'[q] \notin Walking
      BY <2>1, NobodyWalks DEF Live, Walking
    <2> QED
      BY <2>1, <2>2, <2>3
  <1>13. ASSUME NEW r \in Run, UpdateManifest(r) PROVE Stored'
    BY <1>13 DEF UpdateManifest, Step, Shape, Alone, Live, Building, Unrecorded, TypeOK,
       flagVars, localVars
  <1>14. ASSUME NEW r \in Run, ActivateState(r) PROVE Stored'
    BY <1>14 DEF ActivateState, Step, Shape, Alone, Live, Building, Unrecorded, TypeOK,
       flagVars, localVars
  <1>15. ASSUME NEW r \in Run, CleanupHashes(r) PROVE Stored'
    BY <1>15 DEF CleanupHashes, Step, Shape, Alone, Live, Building, Unrecorded, TypeOK,
       flagVars, localVars
  <1>16. ASSUME NEW r \in Run, CleanupStates(r) PROVE Stored'
    BY <1>16 DEF CleanupStates, Step, Shape, Alone, Live, Building, Unrecorded, TypeOK,
       flagVars, localVars
  <1>17. ASSUME NEW r \in Run, Stop(r) PROVE Stored'
    <2>1. /\ pc' = [pc EXCEPT ![r] = "stopped"] /\ Live(r)
          /\ UNCHANGED <<current, rows, embeddings>>
      BY <1>17 DEF Stop, dbVars
    <2>2. \A q \in Run : pc'[q] \notin Walking
      BY <2>1, NobodyWalks DEF Live, Walking
    <2> QED
      BY <2>1, <2>2
  <1>18. ASSUME NEW p \in Path, NEW c \in Content \union {NoFile}, Edit(p, c) PROVE Stored'
    BY <1>18 DEF Edit, Shape, Alone, Live, Building, Unrecorded, TypeOK, dbVars, flagVars, localVars
  <1>19. CASE UNCHANGED vars
    BY <1>19 DEF vars
  <1> QED
    BY <1>1, <1>2, <1>3, <1>4, <1>5, <1>6, <1>7, <1>8, <1>9, <1>10, <1>11, <1>12, <1>13, <1>14,
       <1>15, <1>16, <1>17, <1>18, <1>19 DEF Next, RunStep

\* Nothing has been indexed initially.
LEMMA FaithfulInit == Init => Faithful
  BY DEF Init, Faithful, SameVersion, TrustsBase, OneHash, BuildsRebuilt, ActiveEqualsRebuild,
         EqualsRebuild, Walking

\* Only a stop between the two activations leaves the two databases at different versions.
LEMMA SameVersionNext ==
  ASSUME Exclusive, TypeOK, Shape, Alone, Faithful, [Next]_vars PROVE SameVersion'
  <1> USE DEF Faithful, SameVersion, Building, Walking, Unrecorded
  <1>1. ASSUME NEW r \in Run, NEW m \in Family, NEW s \in Settings, ReadState(r, m, s)
        PROVE SameVersion'
    BY <1>1 DEF ReadState, Step, Live, Shape, Alone, TypeOK, histVars, dbVars
  <1>2. ASSUME NEW r \in Run, BeginState(r) PROVE SameVersion'
    BY <1>2 DEF BeginState, Step, Shape, Alone, Live, TypeOK, histVars, flagVars, localVars
  <1>3. ASSUME NEW r \in Run, BeginSnapshot(r) PROVE SameVersion'
    BY <1>3 DEF BeginSnapshot, Step, Shape, Alone, Live, TypeOK, histVars, flagVars, dbVars
  <1>4. ASSUME NEW r \in Run, NEW p \in Path, SkipFile(r, p) PROVE SameVersion'
    BY <1>4 DEF SkipFile, Shape, Alone, Live, TypeOK, histVars, flagVars, dbVars
  <1>5. ASSUME NEW r \in Run, NEW p \in Path, HashFile(r, p) PROVE SameVersion'
    BY <1>5 DEF HashFile, Step, Shape, Alone, Live, TypeOK, histVars, flagVars
  <1>6. ASSUME NEW r \in Run, ReuseFile(r) PROVE SameVersion'
    BY <1>6 DEF ReuseFile, CanReuseFile, Step, Shape, Alone, Live, TypeOK, histVars, flagVars
  <1>7. ASSUME NEW r \in Run, ReadFile(r) PROVE SameVersion'
    BY <1>7 DEF ReadFile, Step, Shape, Alone, Live, TypeOK, histVars, flagVars, dbVars
  <1>8. ASSUME NEW r \in Run, NEW x \in job[r], IndexSymbol(r, x) PROVE SameVersion'
    BY <1>8 DEF IndexSymbol, Shape, Alone, Live, TypeOK, histVars, flagVars
  <1>9. ASSUME NEW r \in Run, NEW h \in queued[r], StoreEmbedding(r, h) PROVE SameVersion'
    BY <1>9 DEF StoreEmbedding, Shape, Alone, Live, TypeOK, histVars, flagVars
  <1>10. ASSUME NEW r \in Run, ActivateSnapshot(r) PROVE SameVersion'
    <2>1. /\ pc[r] = "walk" /\ pc' = [pc EXCEPT ![r] = "cleanSnapshots"] /\ fam[r] \in Family
          /\ current' = [current EXCEPT ![fam[r]] = r] /\ UNCHANGED <<curState, torn>>
      BY <1>10 DEF ActivateSnapshot, Step, histVars, TypeOK
    <2>2. ASSUME NEW m \in Family \ torn
          PROVE  \/ current'[m] = curState'[m]
                 \/ current'[m] # NoRun /\ pc'[current'[m]] \in Unrecorded
      <3>1. CASE m = fam[r]
        BY <2>1, <3>1 DEF TypeOK, Run, NoRun
      <3>2. CASE m # fam[r]
        <4>1. current'[m] = current[m] /\ current[m] # r
          BY <2>1, <3>2 DEF TypeOK, Shape, Run, NoRun
        <4> QED
          BY <2>1, <4>1 DEF TypeOK
      <3> QED
        BY <3>1, <3>2
    <2> QED
      BY <2>1, <2>2
  <1>11. ASSUME NEW r \in Run, CleanupInactiveSnapshots(r) PROVE SameVersion'
    BY <1>11 DEF CleanupInactiveSnapshots, Step, Shape, Alone, Live, TypeOK, histVars,
       flagVars, localVars
  <1>12. ASSUME NEW r \in Run, CleanupUnusedEmbeddings(r) PROVE SameVersion'
    BY <1>12 DEF CleanupUnusedEmbeddings, DropLocals, Step, Shape, Alone, Live, TypeOK,
       histVars, flagVars
  <1>13. ASSUME NEW r \in Run, UpdateManifest(r) PROVE SameVersion'
    BY <1>13 DEF UpdateManifest, Step, Shape, Alone, Live, TypeOK, histVars, flagVars, localVars
  <1>14. ASSUME NEW r \in Run, ActivateState(r) PROVE SameVersion'
    BY <1>14 DEF ActivateState, Step, Shape, Alone, Live, TypeOK, histVars, flagVars, localVars
  <1>15. ASSUME NEW r \in Run, CleanupHashes(r) PROVE SameVersion'
    BY <1>15 DEF CleanupHashes, Step, Shape, Alone, Live, TypeOK, histVars, flagVars, localVars
  <1>16. ASSUME NEW r \in Run, CleanupStates(r) PROVE SameVersion'
    BY <1>16 DEF CleanupStates, Step, Shape, Alone, Live, TypeOK, histVars, flagVars, localVars
  <1>17. ASSUME NEW r \in Run, Stop(r) PROVE SameVersion'
    BY <1>17 DEF Stop, DropLocals, Live, Shape, Alone, TypeOK, histVars, flagVars, dbVars
  <1>18. ASSUME NEW p \in Path, NEW c \in Content \union {NoFile}, Edit(p, c) PROVE SameVersion'
    BY <1>18 DEF Edit, Shape, Alone, Live, TypeOK, histVars, dbVars, flagVars, localVars
  <1>19. CASE UNCHANGED vars
    BY <1>19 DEF vars
  <1> QED
    BY <1>1, <1>2, <1>3, <1>4, <1>5, <1>6, <1>7, <1>8, <1>9, <1>10, <1>11, <1>12, <1>13, <1>14,
       <1>15, <1>16, <1>17, <1>18, <1>19 DEF Next, RunStep

\* The walk visits a path once, so a state holds one hash per path.
LEMMA OneHashNext ==
  ASSUME Exclusive, TypeOK, Shape, Alone, Faithful, [Next]_vars PROVE OneHash'
  <1> USE DEF Faithful, OneHash, Building, Walking, Unrecorded
  <1>1. ASSUME NEW r \in Run, NEW m \in Family, NEW s \in Settings, ReadState(r, m, s)
        PROVE OneHash'
    BY <1>1 DEF ReadState, Step, Live, Shape, Alone, TypeOK, dbVars
  <1>2. ASSUME NEW r \in Run, BeginState(r) PROVE OneHash'
    BY <1>2 DEF BeginState, Step, Shape, Alone, Live, TypeOK, flagVars, localVars
  <1>3. ASSUME NEW r \in Run, BeginSnapshot(r) PROVE OneHash'
    BY <1>3 DEF BeginSnapshot, Step, Shape, Alone, Live, TypeOK, flagVars, dbVars
  <1>4. ASSUME NEW r \in Run, NEW p \in Path, SkipFile(r, p) PROVE OneHash'
    BY <1>4 DEF SkipFile, Shape, Alone, Live, TypeOK, flagVars, dbVars
  <1>5. ASSUME NEW r \in Run, NEW p \in Path, HashFile(r, p) PROVE OneHash'
    BY <1>5 DEF HashFile, Step, Shape, Alone, Live, TypeOK, flagVars
  <1>6. ASSUME NEW r \in Run, ReuseFile(r) PROVE OneHash'
    BY <1>6 DEF ReuseFile, CanReuseFile, Step, Shape, Alone, Live, TypeOK, flagVars
  <1>7. ASSUME NEW r \in Run, ReadFile(r) PROVE OneHash'
    BY <1>7 DEF ReadFile, Step, Shape, Alone, Live, TypeOK, flagVars, dbVars
  <1>8. ASSUME NEW r \in Run, NEW x \in job[r], IndexSymbol(r, x) PROVE OneHash'
    BY <1>8 DEF IndexSymbol, Shape, Alone, Live, TypeOK, flagVars
  <1>9. ASSUME NEW r \in Run, NEW h \in queued[r], StoreEmbedding(r, h) PROVE OneHash'
    BY <1>9 DEF StoreEmbedding, Shape, Alone, Live, TypeOK, flagVars
  <1>10. ASSUME NEW r \in Run, ActivateSnapshot(r) PROVE OneHash'
    BY <1>10 DEF ActivateSnapshot, Step, Shape, Alone, Live, TypeOK, flagVars, localVars
  <1>11. ASSUME NEW r \in Run, CleanupInactiveSnapshots(r) PROVE OneHash'
    BY <1>11 DEF CleanupInactiveSnapshots, Step, Shape, Alone, Live, TypeOK, flagVars, localVars
  <1>12. ASSUME NEW r \in Run, CleanupUnusedEmbeddings(r) PROVE OneHash'
    BY <1>12 DEF CleanupUnusedEmbeddings, DropLocals, Step, Shape, Alone, Live, TypeOK, flagVars
  <1>13. ASSUME NEW r \in Run, UpdateManifest(r) PROVE OneHash'
    BY <1>13 DEF UpdateManifest, Step, Shape, Alone, Live, TypeOK, flagVars, localVars
  <1>14. ASSUME NEW r \in Run, ActivateState(r) PROVE OneHash'
    BY <1>14 DEF ActivateState, Step, Shape, Alone, Live, TypeOK, flagVars, localVars
  <1>15. ASSUME NEW r \in Run, CleanupHashes(r) PROVE OneHash'
    BY <1>15 DEF CleanupHashes, Step, Shape, Alone, Live, TypeOK, flagVars, localVars
  <1>16. ASSUME NEW r \in Run, CleanupStates(r) PROVE OneHash'
    BY <1>16 DEF CleanupStates, Step, Shape, Alone, Live, TypeOK, flagVars, localVars
  <1>17. ASSUME NEW r \in Run, Stop(r) PROVE OneHash'
    BY <1>17 DEF Stop, DropLocals, Live, Shape, Alone, TypeOK, flagVars, dbVars
  <1>18. ASSUME NEW p \in Path, NEW c \in Content \union {NoFile}, Edit(p, c) PROVE OneHash'
    BY <1>18 DEF Edit, Shape, Alone, Live, TypeOK, dbVars, flagVars, localVars
  <1>19. CASE UNCHANGED vars
    BY <1>19 DEF vars
  <1> QED
    BY <1>1, <1>2, <1>3, <1>4, <1>5, <1>6, <1>7, <1>8, <1>9, <1>10, <1>11, <1>12, <1>13, <1>14,
       <1>15, <1>16, <1>17, <1>18, <1>19 DEF Next, RunStep

\* The hashes a live run has read stay those of the snapshot it copies from.
LEMMA TrustsBaseNext ==
  ASSUME Exclusive, TypeOK, Shape, Alone, Faithful, [Next]_vars PROVE TrustsBase'
  <1> USE DEF Faithful, TrustsBase, SameVersion, Clean, Building, Walking, Unrecorded
  <1>1. ASSUME NEW r \in Run, NEW m \in Family, NEW s \in Settings, ReadState(r, m, s)
        PROVE TrustsBase'
    <2>1. /\ pc[r] = "idle" /\ pc' = [pc EXCEPT ![r] = "beginState"]
          /\ known' = [known EXCEPT ![r] = StateHashes(m, s)]
          /\ fam' = [fam EXCEPT ![r] = m] /\ settings' = [settings EXCEPT ![r] = s]
          /\ UNCHANGED <<current, hashes, torn, raced>>
      BY <1>1 DEF ReadState, Step, dbVars, histVars
    <2>2. \A q \in Run : ~Live(q)
      BY <1>1 DEF ReadState
    <2>3. \A q \in Run : pc'[q] \in Building /\ pc'[q] # "idle" => q = r
      BY <2>1, <2>2 DEF Live, TypeOK
    <2>4. ASSUME Clean(m), StateHashes(m, s) # {}
          PROVE  /\ current[m] # NoRun /\ current[m] \in Run /\ current[m] # r
                 /\ StateHashes(m, s) = hashes[current[m]] /\ settings[current[m]] = s
      <3>1. curState[m] \in Run /\ settings[curState[m]] = s
            /\ StateHashes(m, s) = hashes[curState[m]]
        BY <2>4 DEF StateHashes, TypeOK
      <3>2. current[m] = curState[m]
        BY <2>2, <2>4 DEF Live, TypeOK
      <3> QED
        BY <2>1, <3>1, <3>2 DEF Shape, Run, NoRun
    <2> QED
      BY <2>1, <2>3, <2>4 DEF TypeOK
  <1>2. ASSUME NEW r \in Run, BeginState(r) PROVE TrustsBase'
    BY <1>2 DEF BeginState, Step, Shape, Alone, Live, TypeOK, histVars, flagVars, localVars
  <1>3. ASSUME NEW r \in Run, BeginSnapshot(r) PROVE TrustsBase'
    BY <1>3 DEF BeginSnapshot, Step, Shape, Alone, Live, TypeOK, histVars, flagVars, dbVars
  <1>4. ASSUME NEW r \in Run, NEW p \in Path, SkipFile(r, p) PROVE TrustsBase'
    BY <1>4 DEF SkipFile, Shape, Alone, Live, TypeOK, histVars, flagVars, dbVars
  <1>5. ASSUME NEW r \in Run, NEW p \in Path, HashFile(r, p) PROVE TrustsBase'
    BY <1>5 DEF HashFile, Step, Shape, Alone, Live, TypeOK, histVars, flagVars
  <1>6. ASSUME NEW r \in Run, ReuseFile(r) PROVE TrustsBase'
    BY <1>6 DEF ReuseFile, CanReuseFile, Step, Shape, Alone, Live, TypeOK, histVars, flagVars
  <1>7. ASSUME NEW r \in Run, ReadFile(r) PROVE TrustsBase'
    BY <1>7 DEF ReadFile, Step, Shape, Alone, Live, TypeOK, histVars, flagVars, dbVars
  <1>8. ASSUME NEW r \in Run, NEW x \in job[r], IndexSymbol(r, x) PROVE TrustsBase'
    BY <1>8 DEF IndexSymbol, Shape, Alone, Live, TypeOK, histVars, flagVars
  <1>9. ASSUME NEW r \in Run, NEW h \in queued[r], StoreEmbedding(r, h) PROVE TrustsBase'
    BY <1>9 DEF StoreEmbedding, Shape, Alone, Live, TypeOK, histVars, flagVars
  <1>10. ASSUME NEW r \in Run, ActivateSnapshot(r) PROVE TrustsBase'
    BY <1>10 DEF ActivateSnapshot, Step, Shape, Alone, Live, TypeOK, histVars, flagVars, localVars
  <1>11. ASSUME NEW r \in Run, CleanupInactiveSnapshots(r) PROVE TrustsBase'
    BY <1>11 DEF CleanupInactiveSnapshots, Step, Shape, Alone, Live, TypeOK, histVars,
       flagVars, localVars
  <1>12. ASSUME NEW r \in Run, CleanupUnusedEmbeddings(r) PROVE TrustsBase'
    BY <1>12 DEF CleanupUnusedEmbeddings, DropLocals, Step, Shape, Alone, Live, TypeOK,
       histVars, flagVars
  <1>13. ASSUME NEW r \in Run, UpdateManifest(r) PROVE TrustsBase'
    BY <1>13 DEF UpdateManifest, Step, Shape, Alone, Live, TypeOK, histVars, flagVars, localVars
  <1>14. ASSUME NEW r \in Run, ActivateState(r) PROVE TrustsBase'
    BY <1>14 DEF ActivateState, Step, Shape, Alone, Live, TypeOK, histVars, flagVars, localVars
  <1>15. ASSUME NEW r \in Run, CleanupHashes(r) PROVE TrustsBase'
    BY <1>15 DEF CleanupHashes, Step, Shape, Alone, Live, TypeOK, histVars, flagVars, localVars
  <1>16. ASSUME NEW r \in Run, CleanupStates(r) PROVE TrustsBase'
    BY <1>16 DEF CleanupStates, Step, Shape, Alone, Live, TypeOK, histVars, flagVars, localVars
  <1>17. ASSUME NEW r \in Run, Stop(r) PROVE TrustsBase'
    BY <1>17 DEF Stop, DropLocals, Live, Shape, Alone, TypeOK, histVars, flagVars, dbVars
  <1>18. ASSUME NEW p \in Path, NEW c \in Content \union {NoFile}, Edit(p, c) PROVE TrustsBase'
    BY <1>18 DEF Edit, Shape, Alone, Live, TypeOK, histVars, dbVars, flagVars, localVars
  <1>19. CASE UNCHANGED vars
    BY <1>19 DEF vars
  <1> QED
    BY <1>1, <1>2, <1>3, <1>4, <1>5, <1>6, <1>7, <1>8, <1>9, <1>10, <1>11, <1>12, <1>13, <1>14,
       <1>15, <1>16, <1>17, <1>18, <1>19 DEF Next, RunStep

-----------------------------------------------------------------------------
(* Active snapshots are immutable, whatever runs are live: no statement but ActivateSnapshot *)
(* changes which snapshot is active, or a row of an active snapshot.                         *)

RowsKept ==
  \A m \in Family :
    /\ current'[m] = current[m]
    /\ current[m] # NoRun => /\ rows'[current[m]] = rows[current[m]]
                             /\ settings'[current[m]] = settings[current[m]]

\* No step but an activation changes the rows of an active snapshot, concurrent runs included.
LEMMA ActiveRowsKept ==
  ASSUME TypeOK, Shape, [Next]_vars, \A r \in Run : ~ActivateSnapshot(r) PROVE RowsKept
  <1> USE DEF RowsKept
  <1>1. ASSUME NEW r \in Run, NEW m \in Family, NEW s \in Settings, ReadState(r, m, s)
        PROVE RowsKept
    BY <1>1 DEF ReadState, Step, Live, Shape, Building, Walking, Run, NoRun, ActiveRuns,
       TypeOK, dbVars
  <1>2. ASSUME NEW r \in Run, BeginState(r) PROVE RowsKept
    BY <1>2 DEF BeginState, Step, Shape, Building, Walking, Run, NoRun, ActiveRuns, TypeOK,
       flagVars, localVars
  <1>3. ASSUME NEW r \in Run, BeginSnapshot(r) PROVE RowsKept
    BY <1>3 DEF BeginSnapshot, Step, Shape, Building, Walking, Run, NoRun, ActiveRuns, TypeOK,
       flagVars, dbVars
  <1>4. ASSUME NEW r \in Run, NEW p \in Path, SkipFile(r, p) PROVE RowsKept
    BY <1>4 DEF SkipFile, Shape, Building, Walking, Run, NoRun, ActiveRuns, TypeOK, flagVars, dbVars
  <1>5. ASSUME NEW r \in Run, NEW p \in Path, HashFile(r, p) PROVE RowsKept
    BY <1>5 DEF HashFile, Step, Shape, Building, Walking, Run, NoRun, ActiveRuns, TypeOK, flagVars
  <1>6. ASSUME NEW r \in Run, ReuseFile(r) PROVE RowsKept
    BY <1>6 DEF ReuseFile, CanReuseFile, Step, Shape, Building, Walking, Run, NoRun,
       ActiveRuns, TypeOK, flagVars
  <1>7. ASSUME NEW r \in Run, ReadFile(r) PROVE RowsKept
    BY <1>7 DEF ReadFile, Step, Shape, Building, Walking, Run, NoRun, ActiveRuns, TypeOK,
       flagVars, dbVars
  <1>8. ASSUME NEW r \in Run, NEW x \in job[r], IndexSymbol(r, x) PROVE RowsKept
    BY <1>8 DEF IndexSymbol, Shape, Building, Walking, Run, NoRun, ActiveRuns, TypeOK, flagVars
  <1>9. ASSUME NEW r \in Run, NEW h \in queued[r], StoreEmbedding(r, h) PROVE RowsKept
    BY <1>9 DEF StoreEmbedding, Shape, Building, Walking, Run, NoRun, ActiveRuns, TypeOK, flagVars
  <1>11. ASSUME NEW r \in Run, CleanupInactiveSnapshots(r) PROVE RowsKept
    BY <1>11 DEF CleanupInactiveSnapshots, Step, Shape, Building, Walking, Run, NoRun,
       ActiveRuns, TypeOK, flagVars, localVars
  <1>12. ASSUME NEW r \in Run, CleanupUnusedEmbeddings(r) PROVE RowsKept
    BY <1>12 DEF CleanupUnusedEmbeddings, DropLocals, Step, Shape, Building, Walking, Run,
       NoRun, ActiveRuns, TypeOK, flagVars
  <1>13. ASSUME NEW r \in Run, UpdateManifest(r) PROVE RowsKept
    BY <1>13 DEF UpdateManifest, Step, Shape, Building, Walking, Run, NoRun, ActiveRuns,
       TypeOK, flagVars, localVars
  <1>14. ASSUME NEW r \in Run, ActivateState(r) PROVE RowsKept
    BY <1>14 DEF ActivateState, Step, Shape, Building, Walking, Run, NoRun, ActiveRuns, TypeOK,
       flagVars, localVars
  <1>15. ASSUME NEW r \in Run, CleanupHashes(r) PROVE RowsKept
    BY <1>15 DEF CleanupHashes, Step, Shape, Building, Walking, Run, NoRun, ActiveRuns, TypeOK,
       flagVars, localVars
  <1>16. ASSUME NEW r \in Run, CleanupStates(r) PROVE RowsKept
    BY <1>16 DEF CleanupStates, Step, Shape, Building, Walking, Run, NoRun, ActiveRuns, TypeOK,
       flagVars, localVars
  <1>17. ASSUME NEW r \in Run, Stop(r) PROVE RowsKept
    BY <1>17 DEF Stop, DropLocals, Live, Shape, Building, Walking, Run, NoRun, ActiveRuns,
       TypeOK, flagVars, dbVars
  <1>18. ASSUME NEW p \in Path, NEW c \in Content \union {NoFile}, Edit(p, c) PROVE RowsKept
    BY <1>18 DEF Edit, Shape, Building, Walking, Run, NoRun, ActiveRuns, TypeOK, dbVars,
       flagVars, localVars
  <1>19. CASE UNCHANGED vars
    BY <1>19 DEF vars
  <1> QED
    BY <1>1, <1>2, <1>3, <1>4, <1>5, <1>6, <1>7, <1>8, <1>9, <1>11, <1>12, <1>13, <1>14, <1>15,
       <1>16, <1>17, <1>18, <1>19 DEF Next, RunStep

HistoryGrows == torn \subseteq torn' /\ raced \subseteq raced'

\* The history of torn and raced families only grows.
LEMMA SuspicionsStay ==
  ASSUME [Next]_vars PROVE HistoryGrows
  <1> USE DEF HistoryGrows
  <1>1. ASSUME NEW r \in Run, NEW m \in Family, NEW s \in Settings, ReadState(r, m, s)
        PROVE HistoryGrows
    BY <1>1 DEF ReadState, Step, Live, histVars, dbVars
  <1>2. ASSUME NEW r \in Run, BeginState(r) PROVE HistoryGrows
    BY <1>2 DEF BeginState, Step, histVars, flagVars, localVars
  <1>3. ASSUME NEW r \in Run, BeginSnapshot(r) PROVE HistoryGrows
    BY <1>3 DEF BeginSnapshot, Step, histVars, flagVars, dbVars
  <1>4. ASSUME NEW r \in Run, NEW p \in Path, SkipFile(r, p) PROVE HistoryGrows
    BY <1>4 DEF SkipFile, histVars, flagVars, dbVars
  <1>5. ASSUME NEW r \in Run, NEW p \in Path, HashFile(r, p) PROVE HistoryGrows
    BY <1>5 DEF HashFile, Step, histVars, flagVars
  <1>6. ASSUME NEW r \in Run, ReuseFile(r) PROVE HistoryGrows
    BY <1>6 DEF ReuseFile, CanReuseFile, Step, histVars, flagVars
  <1>7. ASSUME NEW r \in Run, ReadFile(r) PROVE HistoryGrows
    BY <1>7 DEF ReadFile, Step, histVars, flagVars, dbVars
  <1>8. ASSUME NEW r \in Run, NEW x \in job[r], IndexSymbol(r, x) PROVE HistoryGrows
    BY <1>8 DEF IndexSymbol, histVars, flagVars
  <1>9. ASSUME NEW r \in Run, NEW h \in queued[r], StoreEmbedding(r, h) PROVE HistoryGrows
    BY <1>9 DEF StoreEmbedding, histVars, flagVars
  <1>10. ASSUME NEW r \in Run, ActivateSnapshot(r) PROVE HistoryGrows
    BY <1>10 DEF ActivateSnapshot, Step, histVars, flagVars, localVars
  <1>11. ASSUME NEW r \in Run, CleanupInactiveSnapshots(r) PROVE HistoryGrows
    BY <1>11 DEF CleanupInactiveSnapshots, Step, histVars, flagVars, localVars
  <1>12. ASSUME NEW r \in Run, CleanupUnusedEmbeddings(r) PROVE HistoryGrows
    BY <1>12 DEF CleanupUnusedEmbeddings, DropLocals, Step, histVars, flagVars
  <1>13. ASSUME NEW r \in Run, UpdateManifest(r) PROVE HistoryGrows
    BY <1>13 DEF UpdateManifest, Step, histVars, flagVars, localVars
  <1>14. ASSUME NEW r \in Run, ActivateState(r) PROVE HistoryGrows
    BY <1>14 DEF ActivateState, Step, histVars, flagVars, localVars
  <1>15. ASSUME NEW r \in Run, CleanupHashes(r) PROVE HistoryGrows
    BY <1>15 DEF CleanupHashes, Step, histVars, flagVars, localVars
  <1>16. ASSUME NEW r \in Run, CleanupStates(r) PROVE HistoryGrows
    BY <1>16 DEF CleanupStates, Step, histVars, flagVars, localVars
  <1>17. ASSUME NEW r \in Run, Stop(r) PROVE HistoryGrows
    BY <1>17 DEF Stop, DropLocals, Live, histVars, flagVars, dbVars
  <1>18. ASSUME NEW p \in Path, NEW c \in Content \union {NoFile}, Edit(p, c) PROVE HistoryGrows
    BY <1>18 DEF Edit, histVars, dbVars, flagVars, localVars
  <1>19. CASE UNCHANGED vars
    BY <1>19 DEF vars
  <1> QED
    BY <1>1, <1>2, <1>3, <1>4, <1>5, <1>6, <1>7, <1>8, <1>9, <1>10, <1>11, <1>12, <1>13, <1>14,
       <1>15, <1>16, <1>17, <1>18, <1>19 DEF Next, RunStep

HashesKept ==
  \A m \in Family \ torn : current[m] # NoRun => hashes'[current[m]] = hashes[current[m]]

\* No step changes the hashes that an active snapshot was built from, unless its family is torn.
LEMMA ActiveHashesKept ==
  ASSUME Exclusive, TypeOK, Shape, Alone, Faithful, [Next]_vars PROVE HashesKept
  <1> USE DEF HashesKept, Faithful, SameVersion
  <1>1. ASSUME NEW r \in Run, NEW m \in Family, NEW s \in Settings, ReadState(r, m, s)
        PROVE HashesKept
    BY <1>1 DEF ReadState, Step, Live, Shape, Alone, Recording, Building, Walking, Unrecorded,
       Run, NoRun, ActiveStates, TypeOK, dbVars
  <1>2. ASSUME NEW r \in Run, BeginState(r) PROVE HashesKept
    BY <1>2 DEF BeginState, Step, Shape, Alone, Live, Recording, Building, Walking, Unrecorded,
       Run, NoRun, ActiveStates, TypeOK, flagVars, localVars
  <1>3. ASSUME NEW r \in Run, BeginSnapshot(r) PROVE HashesKept
    BY <1>3 DEF BeginSnapshot, Step, Shape, Alone, Live, Recording, Building, Walking,
       Unrecorded, Run, NoRun, ActiveStates, TypeOK, flagVars, dbVars
  <1>4. ASSUME NEW r \in Run, NEW p \in Path, SkipFile(r, p) PROVE HashesKept
    BY <1>4 DEF SkipFile, Shape, Alone, Live, Recording, Building, Walking, Unrecorded, Run,
       NoRun, ActiveStates, TypeOK, flagVars, dbVars
  <1>5. ASSUME NEW r \in Run, NEW p \in Path, HashFile(r, p) PROVE HashesKept
    BY <1>5 DEF HashFile, Step, Shape, Alone, Live, Recording, Building, Walking, Unrecorded,
       Run, NoRun, ActiveStates, TypeOK, flagVars
  <1>6. ASSUME NEW r \in Run, ReuseFile(r) PROVE HashesKept
    BY <1>6 DEF ReuseFile, CanReuseFile, Step, Shape, Alone, Live, Recording, Building,
       Walking, Unrecorded, Run, NoRun, ActiveStates, TypeOK, flagVars
  <1>7. ASSUME NEW r \in Run, ReadFile(r) PROVE HashesKept
    BY <1>7 DEF ReadFile, Step, Shape, Alone, Live, Recording, Building, Walking, Unrecorded,
       Run, NoRun, ActiveStates, TypeOK, flagVars, dbVars
  <1>8. ASSUME NEW r \in Run, NEW x \in job[r], IndexSymbol(r, x) PROVE HashesKept
    BY <1>8 DEF IndexSymbol, Shape, Alone, Live, Recording, Building, Walking, Unrecorded, Run,
       NoRun, ActiveStates, TypeOK, flagVars
  <1>9. ASSUME NEW r \in Run, NEW h \in queued[r], StoreEmbedding(r, h) PROVE HashesKept
    BY <1>9 DEF StoreEmbedding, Shape, Alone, Live, Recording, Building, Walking, Unrecorded,
       Run, NoRun, ActiveStates, TypeOK, flagVars
  <1>10. ASSUME NEW r \in Run, ActivateSnapshot(r) PROVE HashesKept
    BY <1>10 DEF ActivateSnapshot, Step, Shape, Alone, Live, Recording, Building, Walking,
       Unrecorded, Run, NoRun, ActiveStates, TypeOK, flagVars, localVars
  <1>11. ASSUME NEW r \in Run, CleanupInactiveSnapshots(r) PROVE HashesKept
    BY <1>11 DEF CleanupInactiveSnapshots, Step, Shape, Alone, Live, Recording, Building,
       Walking, Unrecorded, Run, NoRun, ActiveStates, TypeOK, flagVars, localVars
  <1>12. ASSUME NEW r \in Run, CleanupUnusedEmbeddings(r) PROVE HashesKept
    BY <1>12 DEF CleanupUnusedEmbeddings, DropLocals, Step, Shape, Alone, Live, Recording,
       Building, Walking, Unrecorded, Run, NoRun, ActiveStates, TypeOK, flagVars
  <1>13. ASSUME NEW r \in Run, UpdateManifest(r) PROVE HashesKept
    BY <1>13 DEF UpdateManifest, Step, Shape, Alone, Live, Recording, Building, Walking,
       Unrecorded, Run, NoRun, ActiveStates, TypeOK, flagVars, localVars
  <1>14. ASSUME NEW r \in Run, ActivateState(r) PROVE HashesKept
    BY <1>14 DEF ActivateState, Step, Shape, Alone, Live, Recording, Building, Walking,
       Unrecorded, Run, NoRun, ActiveStates, TypeOK, flagVars, localVars
  <1>15. ASSUME NEW r \in Run, CleanupHashes(r) PROVE HashesKept
    BY <1>15 DEF CleanupHashes, Step, Shape, Alone, Live, Recording, Building, Walking,
       Unrecorded, Run, NoRun, ActiveStates, TypeOK, flagVars, localVars
  <1>16. ASSUME NEW r \in Run, CleanupStates(r) PROVE HashesKept
    BY <1>16 DEF CleanupStates, Step, Shape, Alone, Live, Recording, Building, Walking,
       Unrecorded, Run, NoRun, ActiveStates, TypeOK, flagVars, localVars
  <1>17. ASSUME NEW r \in Run, Stop(r) PROVE HashesKept
    BY <1>17 DEF Stop, DropLocals, Live, Shape, Alone, Recording, Building, Walking,
       Unrecorded, Run, NoRun, ActiveStates, TypeOK, flagVars, dbVars
  <1>18. ASSUME NEW p \in Path, NEW c \in Content \union {NoFile}, Edit(p, c) PROVE HashesKept
    BY <1>18 DEF Edit, Shape, Alone, Live, Recording, Building, Walking, Unrecorded, Run,
       NoRun, ActiveStates, TypeOK, dbVars, flagVars, localVars
  <1>19. CASE UNCHANGED vars
    BY <1>19 DEF vars
  <1> QED
    BY <1>1, <1>2, <1>3, <1>4, <1>5, <1>6, <1>7, <1>8, <1>9, <1>10, <1>11, <1>12, <1>13, <1>14,
       <1>15, <1>16, <1>17, <1>18, <1>19 DEF Next, RunStep

\* Activation turns BuildsRebuilt into ActiveEqualsRebuild, and nothing undoes it.
LEMMA ActiveEqualsRebuildNext ==
  ASSUME Exclusive, TypeOK, Shape, Alone, Faithful, [Next]_vars PROVE ActiveEqualsRebuild'
  <1>1. HistoryGrows
    BY SuspicionsStay
  <1>2. ASSUME NEW r \in Run, ActivateSnapshot(r) PROVE ActiveEqualsRebuild'
    <2>1. /\ pc[r] = "walk" /\ fam[r] \in Family /\ current' = [current EXCEPT ![fam[r]] = r]
          /\ UNCHANGED <<rows, hashes, settings, torn, raced>>
      BY <1>2 DEF ActivateSnapshot, Step, flagVars, histVars, TypeOK
    <2>2. ASSUME NEW m \in (Family \ (torn \union raced))' PROVE EqualsRebuild(m)'
      <3>1. CASE m = fam[r]
        <4>1. rows[r] = Rebuilt(r)
          BY <2>1, <2>2, <3>1 DEF Faithful, BuildsRebuilt, Remaining, Clean, Walking
        <4> QED
          BY <2>1, <3>1, <4>1 DEF EqualsRebuild, Rebuilt, TypeOK
      <3>2. CASE m # fam[r]
        <4>1. current'[m] = current[m] /\ EqualsRebuild(m)
          BY <2>1, <2>2, <3>2 DEF TypeOK, Faithful, ActiveEqualsRebuild
        <4> QED
          BY <2>1, <4>1 DEF EqualsRebuild, Rebuilt
      <3> QED
        BY <3>1, <3>2
    <2> QED
      BY <2>2 DEF ActiveEqualsRebuild
  <1>3. ASSUME \A r \in Run : ~ActivateSnapshot(r) PROVE ActiveEqualsRebuild'
    <2>1. RowsKept
      BY <1>3, ActiveRowsKept
    <2>2. ASSUME NEW m \in Family \ torn', current[m] # NoRun
          PROVE  hashes'[current[m]] = hashes[current[m]]
      BY <2>2, ActiveHashesKept, <1>1 DEF HistoryGrows, HashesKept
    <2>3. ASSUME NEW m \in (Family \ (torn \union raced))' PROVE EqualsRebuild(m)'
      <3>1. EqualsRebuild(m)
        BY <1>1, <2>3 DEF HistoryGrows, Faithful, ActiveEqualsRebuild
      <3> QED
        BY <2>1, <2>2, <2>3, <3>1 DEF RowsKept, EqualsRebuild, Rebuilt
    <2> QED
      BY <2>3 DEF ActiveEqualsRebuild
  <1> QED
    BY <1>2, <1>3

\* In a snapshot that equals its rebuild, the rows of a path are those its hashed content gives.
LEMMA RowsOfOnePath ==
  ASSUME OneHash, NEW q \in Run, NEW e \in hashes[q]
  PROVE  {x \in Rebuilt(q) : x[1] = e[1]} = RowsOf(e[1], e[2], settings[q])
  <1>1. \A p, c, s : \A x \in RowsOf(p, c, s) : x[1] = p
    BY DEF RowsOf
  <1>2. \A d \in hashes[q] : d[1] = e[1] => d = e
    BY DEF OneHash
  <1>3. \A x : x \in Rebuilt(q) <=> \E d \in hashes[q] : x \in RowsOf(d[1], d[2], settings[q])
    BY DEF Rebuilt
  <1> QED
    BY <1>1, <1>2, <1>3

\* Copied or scanned, the rows of a visited file are those of its recorded hash.
LEMMA BuildsRebuiltNext ==
  ASSUME Exclusive, TypeOK, Shape, Alone, Faithful, [Next]_vars PROVE BuildsRebuilt'
  <1> USE DEF Faithful, BuildsRebuilt, Building, Walking, Unrecorded
  <1>1. ASSUME NEW r \in Run, NEW m \in Family, NEW s \in Settings, ReadState(r, m, s)
        PROVE BuildsRebuilt'
    BY <1>1 DEF ReadState, Step, Live, Shape, Alone, TypeOK, dbVars
  <1>2. ASSUME NEW r \in Run, BeginState(r) PROVE BuildsRebuilt'
    BY <1>2 DEF BeginState, Step, Shape, Alone, Live, TypeOK, flagVars, localVars
  <1>3. ASSUME NEW r \in Run, BeginSnapshot(r) PROVE BuildsRebuilt'
    <2>1. /\ pc[r] = "beginSnapshot" /\ pc' = [pc EXCEPT ![r] = "walk"]
          /\ UNCHANGED <<rows, hashes, settings, fam>>
      BY <1>3 DEF BeginSnapshot, Step, flagVars, dbVars
    <2>2. rows[r] = {} /\ hashes[r] = {}
      BY <2>1 DEF Shape
    <2>3. Remaining(r)' = {} /\ Rebuilt(r)' = {}
      BY <2>1, <2>2 DEF Remaining, Rebuilt, TypeOK
    <2>4. \A q \in Run : pc'[q] \in Walking => q = r
      BY <2>1 DEF Alone, Live, TypeOK
    <2> QED
      BY <2>1, <2>2, <2>3, <2>4
  <1>4. ASSUME NEW r \in Run, NEW p \in Path, SkipFile(r, p) PROVE BuildsRebuilt'
    <2>1. UNCHANGED <<pc, rows, hashes, settings, fam, file, job, torn, raced>>
      BY <1>4 DEF SkipFile, flagVars, dbVars, histVars
    <2> QED
      BY <2>1 DEF Remaining, Rebuilt, Clean
  <1>5. ASSUME NEW r \in Run, NEW p \in Path, HashFile(r, p) PROVE BuildsRebuilt'
    <2>1. /\ pc[r] = "walk" /\ pc' = [pc EXCEPT ![r] = "file"]
          /\ file' = [file EXCEPT ![r] = <<p, tree[p]>>]
          /\ hashes' = [hashes EXCEPT ![r] = @ \union {<<p, tree[p]>>}]
          /\ UNCHANGED <<rows, settings, fam, torn, raced>>
      BY <1>5 DEF HashFile, Step, flagVars, histVars
    <2>2. Remaining(r) = {} /\ Remaining(r)' = RowsOf(p, tree[p], settings[r])
      BY <2>1 DEF Remaining, TypeOK
    <2>3. hashes'[r] = hashes[r] \union {<<p, tree[p]>>} /\ settings'[r] = settings[r]
      BY <2>1 DEF TypeOK
    <2>4. Rebuilt(r)' = Rebuilt(r) \union RowsOf(p, tree[p], settings[r])
      <3>1. \A y : y \in Rebuilt(r)' <=>
              \E d \in hashes[r] \union {<<p, tree[p]>>} : y \in RowsOf(d[1], d[2], settings[r])
        BY <2>3 DEF Rebuilt
      <3>2. \A y : y \in Rebuilt(r) <=>
              \E d \in hashes[r] : y \in RowsOf(d[1], d[2], settings[r])
        BY DEF Rebuilt
      <3> DEFINE e == <<p, tree[p]>>
      <3>3. RowsOf(e[1], e[2], settings[r]) = RowsOf(p, tree[p], settings[r])
        OBVIOUS
      <3>4. \A y : y \in Rebuilt(r)' <=>
              y \in Rebuilt(r) \/ y \in RowsOf(e[1], e[2], settings[r])
        <4> HIDE DEF e
        <4>1. \A y : y \in Rebuilt(r)' <=>
                \E d \in hashes[r] \union {e} : y \in RowsOf(d[1], d[2], settings[r])
          BY <3>1 DEF e
        <4> QED
          BY <3>2, <4>1
      <3> QED
        BY <3>3, <3>4
    <2>5. \A q \in Run : pc'[q] \in Walking => q = r
      BY <2>1 DEF Alone, Live, TypeOK
    <2> QED
      BY <2>1, <2>2, <2>4, <2>5 DEF Clean
  <1>6. ASSUME NEW r \in Run, ReuseFile(r) PROVE BuildsRebuilt'
    <2>1. /\ pc[r] = "file" /\ pc' = [pc EXCEPT ![r] = "walk"] /\ CanReuseFile(r)
          /\ rows' = [rows EXCEPT ![r] = @ \union {x \in rows[base[r]] : x[1] = file[r][1]}]
          /\ UNCHANGED <<hashes, settings, fam, torn, raced>>
      BY <1>6 DEF ReuseFile, Step, flagVars, histVars
    <2>2. \A q \in Run : pc'[q] \in Walking => q = r
      BY <2>1 DEF Alone, Live, TypeOK
    <2>3. ASSUME Clean(fam[r]) PROVE rows'[r] \union Remaining(r)' = Rebuilt(r)'
      <3>1. /\ fam[r] \in Family /\ base[r] = current[fam[r]] /\ base[r] \in Run
            /\ file[r] \in hashes[base[r]] /\ settings[r] = settings[base[r]]
        BY <2>1, <2>3 DEF CanReuseFile, TrustsBase, Alone, TypeOK
      <3>2. rows[base[r]] = Rebuilt(base[r])
        BY <2>3, <3>1 DEF Clean, ActiveEqualsRebuild, EqualsRebuild, Run, NoRun
      <3>3. {x \in rows[base[r]] : x[1] = file[r][1]}
            = RowsOf(file[r][1], file[r][2], settings[r])
        BY <3>1, <3>2, RowsOfOnePath
      <3>4. Remaining(r) = RowsOf(file[r][1], file[r][2], settings[r]) /\ Remaining(r)' = {}
        BY <2>1 DEF Remaining, TypeOK
      <3>5. Rebuilt(r)' = Rebuilt(r) /\ rows[r] \union Remaining(r) = Rebuilt(r)
        BY <2>1, <2>3 DEF Rebuilt
      <3>6. rows'[r] = rows[r] \union {x \in rows[base[r]] : x[1] = file[r][1]}
        BY <2>1 DEF TypeOK
      <3> QED
        BY <3>3, <3>4, <3>5, <3>6
    <2> QED
      BY <2>1, <2>2, <2>3 DEF Clean
  <1>7. ASSUME NEW r \in Run, ReadFile(r) PROVE BuildsRebuilt'
    <2> DEFINE found == RowsOf(file[r][1], tree[file[r][1]], settings[r])
    <2>1. /\ pc[r] = "file" /\ pc' = [pc EXCEPT ![r] = IF found = {} THEN "walk" ELSE "index"]
          /\ job' = [job EXCEPT ![r] = found]
          /\ raced' = (IF tree[file[r][1]] = file[r][2] THEN raced ELSE raced \union {fam[r]})
          /\ UNCHANGED <<rows, hashes, settings, fam, torn>>
      BY <1>7 DEF ReadFile, Step, flagVars, dbVars
    <2>2. \A q \in Run : pc'[q] \in Walking => q = r
      BY <2>1 DEF Alone, Live, TypeOK
    <2>3. ASSUME Clean(fam[r])' PROVE rows'[r] \union Remaining(r)' = Rebuilt(r)'
      <3>1. tree[file[r][1]] = file[r][2] /\ Clean(fam[r])
        BY <2>1, <2>3 DEF Clean
      <3>2. Remaining(r) = found
        BY <2>1, <3>1 DEF Remaining
      <3>3. pc'[r] = (IF found = {} THEN "walk" ELSE "index") /\ job'[r] = found
        BY <2>1 DEF TypeOK
      <3>4. Remaining(r)' = found
        BY <3>3 DEF Remaining
      <3>5. Rebuilt(r)' = Rebuilt(r) /\ rows[r] \union Remaining(r) = Rebuilt(r)
        BY <2>1, <3>1 DEF Rebuilt
      <3> QED
        BY <2>1, <3>2, <3>4, <3>5
    <2> QED
      BY <2>1, <2>2, <2>3
  <1>8. ASSUME NEW r \in Run, NEW x \in job[r], IndexSymbol(r, x) PROVE BuildsRebuilt'
    <2>1. /\ pc[r] = "index" /\ pc' = [pc EXCEPT ![r] = IF job[r] = {x} THEN "walk" ELSE "index"]
          /\ job' = [job EXCEPT ![r] = @ \ {x}] /\ rows' = [rows EXCEPT ![r] = @ \union {x}]
          /\ UNCHANGED <<hashes, settings, fam, torn, raced>>
      BY <1>8 DEF IndexSymbol, flagVars, histVars
    <2>2. \A q \in Run : pc'[q] \in Walking => q = r
      BY <2>1 DEF Alone, Live, TypeOK
    <2>3. job'[r] = job[r] \ {x} /\ rows'[r] = rows[r] \union {x}
          /\ pc'[r] = (IF job[r] = {x} THEN "walk" ELSE "index")
      BY <2>1 DEF TypeOK
    <2>4. Remaining(r) = job[r] /\ Remaining(r)' = job[r] \ {x}
      BY <2>1, <2>3 DEF Remaining
    <2>5. Rebuilt(r)' = Rebuilt(r)
      BY <2>1 DEF Rebuilt
    <2> QED
      BY <2>1, <2>2, <2>3, <2>4, <2>5 DEF Clean
  <1>9. ASSUME NEW r \in Run, NEW h \in queued[r], StoreEmbedding(r, h) PROVE BuildsRebuilt'
    <2>1. UNCHANGED <<pc, rows, hashes, settings, fam, file, job, torn, raced>>
      BY <1>9 DEF StoreEmbedding, flagVars, histVars
    <2> QED
      BY <2>1 DEF Remaining, Rebuilt, Clean
  <1>10. ASSUME NEW r \in Run, ActivateSnapshot(r) PROVE BuildsRebuilt'
    <2>1. pc[r] = "walk" /\ pc' = [pc EXCEPT ![r] = "cleanSnapshots"]
      BY <1>10 DEF ActivateSnapshot, Step
    <2>2. \A q \in Run : pc'[q] \notin Walking
      BY <2>1, NobodyWalks DEF Live, Walking
    <2> QED
      BY <2>2
  <1>11. ASSUME NEW r \in Run, CleanupInactiveSnapshots(r) PROVE BuildsRebuilt'
    <2>1. pc[r] = "cleanSnapshots" /\ pc' = [pc EXCEPT ![r] = "cleanEmbeddings"]
      BY <1>11 DEF CleanupInactiveSnapshots, Step
    <2>2. \A q \in Run : pc'[q] \notin Walking
      BY <2>1, NobodyWalks DEF Live, Walking
    <2> QED
      BY <2>2
  <1>12. ASSUME NEW r \in Run, CleanupUnusedEmbeddings(r) PROVE BuildsRebuilt'
    <2>1. pc[r] = "cleanEmbeddings" /\ pc' = [pc EXCEPT ![r] = "manifest"]
      BY <1>12 DEF CleanupUnusedEmbeddings, Step
    <2>2. \A q \in Run : pc'[q] \notin Walking
      BY <2>1, NobodyWalks DEF Live, Walking
    <2> QED
      BY <2>2
  <1>13. ASSUME NEW r \in Run, UpdateManifest(r) PROVE BuildsRebuilt'
    <2>1. pc[r] = "manifest" /\ pc' = [pc EXCEPT ![r] = "activateState"]
      BY <1>13 DEF UpdateManifest, Step
    <2>2. \A q \in Run : pc'[q] \notin Walking
      BY <2>1, NobodyWalks DEF Live, Walking
    <2> QED
      BY <2>2
  <1>14. ASSUME NEW r \in Run, ActivateState(r) PROVE BuildsRebuilt'
    <2>1. pc[r] = "activateState" /\ pc' = [pc EXCEPT ![r] = "cleanHashes"]
      BY <1>14 DEF ActivateState, Step
    <2>2. \A q \in Run : pc'[q] \notin Walking
      BY <2>1, NobodyWalks DEF Live, Walking
    <2> QED
      BY <2>2
  <1>15. ASSUME NEW r \in Run, CleanupHashes(r) PROVE BuildsRebuilt'
    <2>1. pc[r] = "cleanHashes" /\ pc' = [pc EXCEPT ![r] = "cleanStates"]
      BY <1>15 DEF CleanupHashes, Step
    <2>2. \A q \in Run : pc'[q] \notin Walking
      BY <2>1, NobodyWalks DEF Live, Walking
    <2> QED
      BY <2>2
  <1>16. ASSUME NEW r \in Run, CleanupStates(r) PROVE BuildsRebuilt'
    <2>1. pc[r] = "cleanStates" /\ pc' = [pc EXCEPT ![r] = "done"]
      BY <1>16 DEF CleanupStates, Step
    <2>2. \A q \in Run : pc'[q] \notin Walking
      BY <2>1, NobodyWalks DEF Live, Walking
    <2> QED
      BY <2>2
  <1>17. ASSUME NEW r \in Run, Stop(r) PROVE BuildsRebuilt'
    BY <1>17 DEF Stop, DropLocals, Live, Shape, Alone, TypeOK, flagVars, dbVars
  <1>18. ASSUME NEW p \in Path, NEW c \in Content \union {NoFile}, Edit(p, c) PROVE BuildsRebuilt'
    <2>1. UNCHANGED <<pc, rows, hashes, settings, fam, file, job, torn, raced>>
      BY <1>18 DEF Edit, dbVars, flagVars, localVars, histVars
    <2> QED
      BY <2>1 DEF Remaining, Rebuilt, Clean
  <1>19. CASE UNCHANGED vars
    BY <1>19 DEF vars, Remaining, Rebuilt, Clean
  <1> QED
    BY <1>1, <1>2, <1>3, <1>4, <1>5, <1>6, <1>7, <1>8, <1>9, <1>10, <1>11, <1>12, <1>13, <1>14,
       <1>15, <1>16, <1>17, <1>18, <1>19 DEF Next, RunStep

-----------------------------------------------------------------------------
(* The manifest, and what a search finds. *)

\* With every row of every active snapshot stored, a search finds all of them.
LEMMA SearchableIsRows ==
  ASSUME TypeOK, ActiveComplete, NEW m \in Family
  PROVE  Searchable(m) = IF current[m] = NoRun THEN {} ELSE rows[current[m]]
  BY DEF Searchable, ActiveComplete

\* What a search can reach is kept while rows, embeddings it needs and activations are.
LEMMA SearchKept ==
  ASSUME TypeOK, Shape, ActiveComplete, TypeOK', ActiveComplete', [Next]_vars,
         \A r \in Run : ~ActivateSnapshot(r), NEW m \in Family
  PROVE  Searchable(m)' = Searchable(m)
  <1>1. RowsKept
    BY ActiveRowsKept
  <1>2. Searchable(m) = IF current[m] = NoRun THEN {} ELSE rows[current[m]]
    BY SearchableIsRows
  <1>3. Searchable(m)' = IF current'[m] = NoRun THEN {} ELSE rows'[current'[m]]
    BY DEF Searchable, ActiveComplete
  <1> QED
    BY <1>1, <1>2, <1>3 DEF RowsKept

\* An activation changes nothing for the other families.
LEMMA SearchActivated ==
  ASSUME TypeOK, NEW r \in Run, ActivateSnapshot(r), NEW n \in Family \ {fam[r]}
  PROVE  Searchable(n)' = Searchable(n)
  BY DEF ActivateSnapshot, TypeOK, Searchable

\* A run leaves the statements between its activation and its manifest by writing the manifest,
\* or by stopping, which is remembered.
LEMMA LeavesUnrecorded ==
  ASSUME Exclusive, TypeOK, Shape, Alone, [Next]_vars, torn' = {},
         \A r \in Run : ~UpdateManifest(r),
         \A r \in Run : pc'[r] \notin Unrecorded \ {"activateState"}
  PROVE  \A r \in Run : pc[r] \notin Unrecorded \ {"activateState"}
  <1> SUFFICES ASSUME NEW q \in Run, pc[q] \in Unrecorded \ {"activateState"} PROVE FALSE
    OBVIOUS
  <1> USE DEF Unrecorded
  <1>1. ASSUME NEW r \in Run, NEW m \in Family, NEW s \in Settings, ReadState(r, m, s) PROVE FALSE
    BY <1>1 DEF ReadState, Step, Live, TypeOK, dbVars
  <1>2. ASSUME NEW r \in Run, BeginState(r) PROVE FALSE
    BY <1>2 DEF BeginState, Step, TypeOK, flagVars, localVars
  <1>3. ASSUME NEW r \in Run, BeginSnapshot(r) PROVE FALSE
    BY <1>3 DEF BeginSnapshot, Step, TypeOK, flagVars, dbVars
  <1>4. ASSUME NEW r \in Run, NEW p \in Path, SkipFile(r, p) PROVE FALSE
    BY <1>4 DEF SkipFile, TypeOK, flagVars, dbVars
  <1>5. ASSUME NEW r \in Run, NEW p \in Path, HashFile(r, p) PROVE FALSE
    BY <1>5 DEF HashFile, Step, TypeOK, flagVars
  <1>6. ASSUME NEW r \in Run, ReuseFile(r) PROVE FALSE
    BY <1>6 DEF ReuseFile, CanReuseFile, Step, TypeOK, flagVars
  <1>7. ASSUME NEW r \in Run, ReadFile(r) PROVE FALSE
    BY <1>7 DEF ReadFile, Step, TypeOK, flagVars, dbVars
  <1>8. ASSUME NEW r \in Run, NEW x \in job[r], IndexSymbol(r, x) PROVE FALSE
    BY <1>8 DEF IndexSymbol, TypeOK, flagVars
  <1>9. ASSUME NEW r \in Run, NEW h \in queued[r], StoreEmbedding(r, h) PROVE FALSE
    BY <1>9 DEF StoreEmbedding, TypeOK, flagVars
  <1>10. ASSUME NEW r \in Run, ActivateSnapshot(r) PROVE FALSE
    BY <1>10 DEF ActivateSnapshot, Step, TypeOK, flagVars, localVars
  <1>11. ASSUME NEW r \in Run, CleanupInactiveSnapshots(r) PROVE FALSE
    BY <1>11 DEF CleanupInactiveSnapshots, Step, TypeOK, flagVars, localVars
  <1>12. ASSUME NEW r \in Run, CleanupUnusedEmbeddings(r) PROVE FALSE
    BY <1>12 DEF CleanupUnusedEmbeddings, DropLocals, Step, TypeOK, flagVars
  <1>14. ASSUME NEW r \in Run, ActivateState(r) PROVE FALSE
    BY <1>14 DEF ActivateState, Step, TypeOK, flagVars, localVars
  <1>15. ASSUME NEW r \in Run, CleanupHashes(r) PROVE FALSE
    BY <1>15 DEF CleanupHashes, Step, TypeOK, flagVars, localVars
  <1>16. ASSUME NEW r \in Run, CleanupStates(r) PROVE FALSE
    BY <1>16 DEF CleanupStates, Step, TypeOK, flagVars, localVars
  <1>17. ASSUME NEW r \in Run, Stop(r) PROVE FALSE
    <2>1. q = r
      BY <1>17 DEF Stop, TypeOK
    <2>2. current[fam[r]] = r /\ fam[r] \in Family /\ pc[r] \in Unrecorded
      BY <2>1 DEF Alone, TypeOK
    <2>3. curState[fam[r]] # r
      BY <2>2 DEF Shape, Run, NoRun
    <2> QED
      BY <1>17, <2>2, <2>3 DEF Stop
  <1>18. ASSUME NEW p \in Path, NEW c \in Content \union {NoFile}, Edit(p, c) PROVE FALSE
    BY <1>18 DEF Edit, TypeOK, dbVars, flagVars, localVars
  <1>19. CASE UNCHANGED vars
    BY <1>19 DEF vars
  <1> QED
    BY <1>1, <1>2, <1>3, <1>4, <1>5, <1>6, <1>7, <1>8, <1>9, <1>10, <1>11, <1>12, <1>14, <1>15,
       <1>16, <1>17, <1>18, <1>19 DEF Next, RunStep

\* The manifest of an empty index tells its hash.
LEMMA ManifestInit == Init => ManifestRight
  BY DEF Init, ManifestRight

\* After an activation the manifest is rewritten before the run is over, or the run is torn.
LEMMA ManifestNext ==
  ASSUME Exclusive, TypeOK, Shape, Alone, Stored, ManifestRight, [Next]_vars, TypeOK', Stored'
  PROVE  ManifestRight'
  <1>1. ASSUME NEW r \in Run, ActivateSnapshot(r) PROVE ManifestRight'
    BY <1>1 DEF ActivateSnapshot, Step, ManifestRight, Unrecorded, TypeOK
  <1>2. ASSUME NEW r \in Run, UpdateManifest(r) PROVE ManifestRight'
    <2>1. manifest'.index = LogicalIndex /\ UNCHANGED <<current, rows, embeddings>>
      BY <1>2 DEF UpdateManifest, NewManifest
    <2> QED
      BY <2>1 DEF ManifestRight, LogicalIndex, Searchable
  <1>3. ASSUME \A r \in Run : ~ActivateSnapshot(r), \A r \in Run : ~UpdateManifest(r),
               (torn = {} /\ (\A r \in Run : pc[r] \notin Unrecorded \ {"activateState"}))'
        PROVE  manifest'.index = LogicalIndex'
    <2>1. torn = {}
      BY <1>3, SuspicionsStay DEF HistoryGrows
    <2>2. manifest' = manifest
      BY <1>3, ZenonT(60) DEF Next, RunStep, ReadState, BeginState, BeginSnapshot, SkipFile,
                  HashFile, ReuseFile, ReadFile, IndexSymbol, StoreEmbedding, CleanupInactiveSnapshots,
                  CleanupUnusedEmbeddings, ActivateState, CleanupHashes, CleanupStates, Stop, Edit,
                  vars, dbVars
    <2>3. \A r \in Run : pc[r] \notin Unrecorded \ {"activateState"}
      BY <1>3, LeavesUnrecorded
    <2>4. LogicalIndex' = LogicalIndex
      BY <1>3, SearchKept DEF Stored, LogicalIndex
    <2> QED
      BY <2>1, <2>2, <2>3, <2>4 DEF ManifestRight
  <1> QED
    BY <1>1, <1>2, <1>3 DEF ManifestRight

-----------------------------------------------------------------------------
(* The theorems. *)

\* The inductive invariant holds initially.
LEMMA InvInit == Init => IInv
  BY TypeInit, ShapeInit, AloneInit, StoredInit, FaithfulInit, ManifestInit DEF IInv

\* The inductive invariant is kept by every step.
LEMMA InvNext == IInv /\ [Next]_vars => IInv'
  <1> SUFFICES ASSUME IInv, [Next]_vars PROVE IInv'
    OBVIOUS
  <1>1. TypeOK' /\ Shape'
    BY TypeNext, ShapeNext DEF IInv
  <1>2. ASSUME Exclusive PROVE Alone' /\ Stored' /\ Faithful' /\ ManifestRight'
    <2>1. Alone /\ Stored /\ Faithful /\ ManifestRight
      BY <1>2 DEF IInv
    <2>2. Alone' /\ Stored'
      BY <1>2, <2>1, AloneNext, StoredNext DEF IInv
    <2>3. Faithful'
      BY <1>2, <2>1, SameVersionNext, TrustsBaseNext, OneHashNext, BuildsRebuiltNext,
         ActiveEqualsRebuildNext DEF IInv, Faithful
    <2>4. ManifestRight'
      BY <1>1, <1>2, <2>1, <2>2, ManifestNext DEF IInv
    <2> QED
      BY <2>2, <2>3, <2>4
  <1> QED
    BY <1>1, <1>2 DEF IInv

\* The inductive invariant always holds.
LEMMA InvAlways == Spec => []IInv
  BY InvInit, InvNext, PTL DEF Spec

\* A finished or unfinished run never takes from an active snapshot an embedding its rows refer to,
\* for any families, tables and trees, when runs do not overlap.
THEOREM ActiveCompleteHolds ==
  ASSUME Exclusive PROVE Spec => []ActiveComplete
  <1>1. IInv => ActiveComplete
    BY DEF IInv, Stored
  <1> QED
    BY <1>1, InvAlways, PTL

\* Incremental indexing gives the rows that full indexing would, for any number of runs, through
\* any chain of copies, with stops and edits anywhere but in the two windows that torn and raced
\* record.
THEOREM IncrementalEqualsFull ==
  ASSUME Exclusive PROVE Spec => []ActiveEqualsRebuild
  <1>1. IInv => ActiveEqualsRebuild
    BY DEF IInv, Faithful
  <1> QED
    BY <1>1, InvAlways, PTL

\* The manifest tells the logical hash of the index beside it once runs are over.
THEOREM ManifestDescribes ==
  ASSUME Exclusive PROVE Spec => []ManifestDescribesIndex
  <1>1. IInv => ManifestDescribesIndex
    BY DEF IInv, ManifestRight, ManifestDescribesIndex, Live, Unrecorded
  <1> QED
    BY <1>1, InvAlways, PTL

\* A search sees one family's index change, in one step, when that family's run activates.
THEOREM SearchSeesActivation ==
  ASSUME Exclusive PROVE Spec => SearchChangesByActivation
  <1> DEFINE Change ==
        \A m \in Family : Searchable(m)' # Searchable(m) =>
          /\ \E r \in Run : fam[r] = m /\ pc[r] = "walk" /\ current' = [current EXCEPT ![m] = r]
          /\ \A n \in Family \ {m} : Searchable(n)' = Searchable(n)
  <1>1. ASSUME IInv, IInv', [Next]_vars PROVE [Change]_vars
    <2>1. TypeOK /\ Shape /\ ActiveComplete /\ TypeOK' /\ ActiveComplete'
      BY <1>1 DEF IInv, Stored
    <2>2. CASE \E r \in Run : ActivateSnapshot(r)
      <3>1. PICK r \in Run : ActivateSnapshot(r)
        BY <2>2
      <3>2. /\ fam[r] \in Family /\ pc[r] = "walk"
            /\ current' = [current EXCEPT ![fam[r]] = r]
        BY <2>1, <3>1 DEF ActivateSnapshot, Step, TypeOK
      <3>3. \A n \in Family \ {fam[r]} : Searchable(n)' = Searchable(n)
        BY <2>1, <3>1, SearchActivated
      <3> QED
        BY <3>2, <3>3
    <2>3. CASE \A r \in Run : ~ActivateSnapshot(r)
      BY <1>1, <2>1, <2>3, SearchKept
    <2> QED
      BY <2>2, <2>3
  <1>2. Spec => [][Change]_vars
    BY <1>1, InvAlways, PTL DEF Spec
  <1> QED
    BY <1>2 DEF SearchChangesByActivation

-----------------------------------------------------------------------------
(* The promise to searches.  The history variable had of IndexHistory tells what a run could     *)
(* have seen; the invariant says that what a run has hashed, and what it has passed over, are    *)
(* contents that it could have seen.                                                             *)

HadType ==
  /\ had \in [Path -> SUBSET (Content \union {NoFile})]
  /\ \A p \in Path : tree[p] \in had[p]

Scanned ==
  \A r \in Run : pc[r] \in Walking =>
    /\ \A e \in hashes[r] : e[2] \in had[e[1]]
    /\ \A p \in Path \ todo[r] : NoFile \in had[p] \/ \E c \in Content : <<p, c>> \in hashes[r]

HistoryInv == IInv /\ HadType /\ (Exclusive => Scanned)

HadGrows == \A p \in Path : had[p] \subseteq had'[p] /\ tree'[p] \in had'[p]

\* Only the start of a run forgets contents.
LEMMA HadKept ==
  ASSUME HadType, HistoryNext, ~Begins PROVE HadGrows
  BY DEF HadType, HistoryNext, HadGrows

\* Whether a run begins or not, the present contents are remembered.
LEMMA HadTypeNext ==
  ASSUME TypeOK, HadType, TypeOK', [HistoryNext]_<<vars, had>> PROVE HadType'
  <1>1. CASE UNCHANGED <<vars, had>>
    BY <1>1 DEF vars, HadType
  <1>2. CASE HistoryNext
    <2>1. tree \in [Path -> Content \union {NoFile}] /\ tree' \in [Path -> Content \union {NoFile}]
      BY DEF TypeOK
    <2>2. had' = [p \in Path |-> IF Begins THEN {tree[p]} ELSE had[p] \union {tree'[p]}]
      BY <1>2 DEF HistoryNext
    <2>3. ASSUME NEW r \in Run, NEW m \in Family, NEW s \in Settings, ReadState(r, m, s)
          PROVE  tree' = tree
      BY <2>3 DEF ReadState
    <2>4. Begins => tree' = tree
      <3> SUFFICES ASSUME Begins PROVE tree' = tree
        OBVIOUS
      <3>1. ASSUME NEW p \in Path, NEW c \in Content \union {NoFile}, Edit(p, c) PROVE FALSE
        BY <3>1 DEF Edit, Begins
      <3> QED
        BY <1>2, <3>1, ZenonT(60) DEF HistoryNext, Next, RunStep, ReadState, BeginState,
           BeginSnapshot, SkipFile, HashFile, ReuseFile, ReadFile, IndexSymbol, StoreEmbedding, ActivateSnapshot,
           CleanupInactiveSnapshots, CleanupUnusedEmbeddings, UpdateManifest, ActivateState,
           CleanupHashes, CleanupStates, Stop
    <2> QED
      BY <2>1, <2>2, <2>4 DEF HadType
  <1> QED
    BY <1>1, <1>2

\* A walk that goes on with the same hashes and the same paths to visit still tells contents that
\* its run could have seen.
LEMMA ScannedKept ==
  ASSUME TypeOK, Scanned, HadGrows,
         \A q \in Run : pc'[q] \in Walking =>
           pc[q] \in Walking /\ hashes'[q] = hashes[q] /\ todo'[q] = todo[q]
  PROVE  Scanned'
  <1> SUFFICES ASSUME NEW r \in Run, pc'[r] \in Walking
               PROVE /\ \A e \in hashes'[r] : e[2] \in had'[e[1]]
                     /\ \A p \in Path \ todo'[r] :
                          NoFile \in had'[p] \/ \E c \in Content : <<p, c>> \in hashes'[r]
    BY DEF Scanned
  <1>1. \A e \in hashes[r] : e[1] \in Path
    BY DEF TypeOK, Entry
  <1>2. pc[r] \in Walking /\ hashes'[r] = hashes[r] /\ todo'[r] = todo[r]
    OBVIOUS
  <1> QED
    BY <1>1, <1>2 DEF Scanned, HadGrows

\* No step of a run that is under way starts a run.
LEMMA OnlyReadStateBegins ==
  ASSUME TypeOK, Next, Begins
  PROVE  \E r \in Run, m \in Family, s \in Settings : ReadState(r, m, s)
  <1> SUFFICES ASSUME \A r \in Run, m \in Family, s \in Settings : ~ReadState(r, m, s)
               PROVE FALSE
    OBVIOUS
  <1>0. PICK q \in Run : pc[q] = "idle" /\ pc'[q] # "idle"
    BY DEF Begins
  <1>1. ASSUME NEW r \in Run, NEW from, from # "idle", NEW to, Step(r, from, to) PROVE FALSE
    BY <1>0, <1>1 DEF Step, TypeOK
  <1>2. ASSUME NEW r \in Run, BeginState(r) \/ BeginSnapshot(r) PROVE FALSE
    BY <1>1, <1>2 DEF BeginState, BeginSnapshot
  <1>3. ASSUME NEW r \in Run, NEW p \in Path, SkipFile(r, p) PROVE FALSE
    BY <1>0, <1>3 DEF SkipFile
  <1>4. ASSUME NEW r \in Run, NEW p \in Path, HashFile(r, p) PROVE FALSE
    BY <1>1, <1>4 DEF HashFile
  <1>5. ASSUME NEW r \in Run, ReuseFile(r) \/ ReadFile(r) PROVE FALSE
    BY <1>1, <1>5 DEF ReuseFile, ReadFile
  <1>6. ASSUME NEW r \in Run, NEW x \in job[r], IndexSymbol(r, x) PROVE FALSE
    BY <1>0, <1>6 DEF IndexSymbol, TypeOK
  <1>7. ASSUME NEW r \in Run, NEW h \in queued[r], StoreEmbedding(r, h) PROVE FALSE
    BY <1>0, <1>7 DEF StoreEmbedding
  <1>8. ASSUME NEW r \in Run, ActivateSnapshot(r) \/ CleanupInactiveSnapshots(r)
                 \/ CleanupUnusedEmbeddings(r) \/ UpdateManifest(r)
        PROVE FALSE
    BY <1>1, <1>8
    DEF ActivateSnapshot, CleanupInactiveSnapshots, CleanupUnusedEmbeddings, UpdateManifest
  <1>9. ASSUME NEW r \in Run, ActivateState(r) \/ CleanupHashes(r) \/ CleanupStates(r) PROVE FALSE
    BY <1>1, <1>9 DEF ActivateState, CleanupHashes, CleanupStates
  <1>10. ASSUME NEW r \in Run, Stop(r) PROVE FALSE
    BY <1>0, <1>10 DEF Stop, Live, TypeOK
  <1>11. ASSUME NEW p \in Path, NEW c \in Content \union {NoFile}, Edit(p, c) PROVE FALSE
    BY <1>0, <1>11 DEF Edit
  <1> QED
    BY <1>2, <1>3, <1>4, <1>5, <1>6, <1>7, <1>8, <1>9, <1>10, <1>11 DEF Next, RunStep

\* Whatever the live run hashes or passes over, it could have seen.
LEMMA ScannedNext ==
  ASSUME Exclusive, TypeOK, Shape, Alone, HadType, Scanned, HistoryNext
  PROVE  Scanned'
  <1> DEFINE Walks(q) == pc'[q] \in Walking =>
               pc[q] \in Walking /\ hashes'[q] = hashes[q] /\ todo'[q] = todo[q]
  <1>0. ASSUME NEW r \in Run, NEW from, NEW to, Step(r, from, to), from \notin {"idle"}
        PROVE  ~Begins
    BY <1>0 DEF Step, Begins, TypeOK
  <1>1. ASSUME NEW r \in Run, NEW m \in Family, NEW s \in Settings, ReadState(r, m, s)
        PROVE  Scanned'
    <2>1. \A q \in Run : pc'[q] \notin Walking
      BY <1>1 DEF ReadState, Step, Live, Walking, TypeOK
    <2> QED
      BY <2>1 DEF Scanned
  <1>2. ASSUME NEW r \in Run, BeginSnapshot(r) PROVE Scanned'
    <2>1. hashes[r] = {} /\ pc' = [pc EXCEPT ![r] = "walk"] /\ pc[r] = "beginSnapshot"
          /\ hashes' = hashes /\ todo' = [todo EXCEPT ![r] = Path]
      BY <1>2 DEF BeginSnapshot, Step, Shape, Building, Walking, dbVars
    <2>2. \A q \in Run \ {r} : pc'[q] \notin Walking
      BY <2>1 DEF Alone, Live, Walking, TypeOK
    <2>3. hashes'[r] = {} /\ todo'[r] = Path
      BY <2>1 DEF TypeOK
    <2> QED
      BY <2>2, <2>3 DEF Scanned
  <1>3. ASSUME NEW r \in Run, NEW p \in Path, SkipFile(r, p) PROVE Scanned'
    <2>1. /\ pc[r] = "walk" /\ tree[p] = NoFile /\ todo' = [todo EXCEPT ![r] = @ \ {p}]
          /\ pc' = pc /\ hashes' = hashes
      BY <1>3 DEF SkipFile, dbVars
    <2>2. HadGrows
      BY <2>1, HadKept DEF Begins
    <2>3. \A q \in Run \ {r} : pc'[q] \notin Walking
      BY <2>1 DEF Alone, Live, Walking
    <2>4. todo'[r] = todo[r] \ {p}
      BY <2>1 DEF TypeOK
    <2>5. \A e \in hashes[r] : e[1] \in Path /\ e[2] \in had[e[1]]
      BY <2>1 DEF TypeOK, Entry, Scanned, Walking
    <2>6. \A t \in Path \ todo'[r] :
            NoFile \in had[t] \/ \E c \in Content : <<t, c>> \in hashes[r]
      BY <2>1, <2>4 DEF Scanned, Walking, HadType
    <2> QED
      BY <2>1, <2>2, <2>3, <2>5, <2>6 DEF Scanned, HadGrows
  <1>4. ASSUME NEW r \in Run, NEW p \in Path, HashFile(r, p) PROVE Scanned'
    <2>1. /\ pc[r] = "walk" /\ tree[p] # NoFile /\ todo' = [todo EXCEPT ![r] = @ \ {p}]
          /\ pc' = [pc EXCEPT ![r] = "file"]
          /\ hashes' = [hashes EXCEPT ![r] = @ \union {<<p, tree[p]>>}]
      BY <1>4 DEF HashFile, Step
    <2>2. HadGrows
      BY <1>0, <1>4, HadKept DEF HashFile
    <2>3. \A q \in Run \ {r} : pc'[q] \notin Walking
      BY <2>1 DEF Alone, Live, Walking, TypeOK
    <2>4. todo'[r] = todo[r] \ {p} /\ hashes'[r] = hashes[r] \union {<<p, tree[p]>>}
      BY <2>1 DEF TypeOK
    <2>5. \A e \in hashes[r] : e[1] \in Path /\ e[2] \in had[e[1]]
      BY <2>1 DEF TypeOK, Entry, Scanned, Walking
    <2>6. tree[p] \in Content /\ tree[p] \in had[p]
      BY <2>1 DEF TypeOK, HadType
    <2>7. \A e \in hashes'[r] : e[2] \in had'[e[1]]
      BY <2>2, <2>4, <2>5, <2>6 DEF HadGrows
    <2>8. \A t \in Path \ todo'[r] :
            NoFile \in had'[t] \/ \E c \in Content : <<t, c>> \in hashes'[r]
      BY <2>1, <2>2, <2>4, <2>6 DEF Scanned, Walking, HadGrows
    <2> QED
      BY <2>3, <2>7, <2>8 DEF Scanned
  <1>5. ASSUME ~Begins, \A q \in Run : Walks(q) PROVE Scanned'
    BY <1>5, HadKept, ScannedKept
  <1>6. ASSUME NEW r \in Run, BeginState(r) PROVE Scanned'
    BY <1>0, <1>5, <1>6 DEF BeginState, Step, TypeOK, Walking, localVars
  <1>7. ASSUME NEW r \in Run, ReuseFile(r) PROVE Scanned'
    BY <1>0, <1>5, <1>7 DEF ReuseFile, Step, TypeOK, Walking
  <1>8. ASSUME NEW r \in Run, ReadFile(r) PROVE Scanned'
    <2>1. ~Begins
      BY <1>0, <1>8 DEF ReadFile
    <2>2. pc[r] = "file" /\ hashes' = hashes /\ todo' = todo /\ \A q \in Run \ {r} : pc'[q] = pc[q]
      BY <1>8 DEF ReadFile, Step, TypeOK, dbVars
    <2> QED
      BY <1>5, <2>1, <2>2 DEF Walking
  <1>9. ASSUME NEW r \in Run, NEW x \in job[r], IndexSymbol(r, x) PROVE Scanned'
    BY <1>5, <1>9 DEF IndexSymbol, TypeOK, Walking, Begins
  <1>10. ASSUME NEW r \in Run, NEW h \in queued[r], StoreEmbedding(r, h) PROVE Scanned'
    BY <1>5, <1>10 DEF StoreEmbedding, Begins
  <1>11. ASSUME NEW r \in Run, ActivateSnapshot(r) PROVE Scanned'
    BY <1>0, <1>5, <1>11 DEF ActivateSnapshot, Step, TypeOK, Walking, localVars
  <1>12. ASSUME NEW r \in Run, CleanupInactiveSnapshots(r) PROVE Scanned'
    BY <1>0, <1>5, <1>12 DEF CleanupInactiveSnapshots, Step, TypeOK, Walking, localVars
  <1>13. ASSUME NEW r \in Run, CleanupUnusedEmbeddings(r) PROVE Scanned'
    BY <1>0, <1>5, <1>13 DEF CleanupUnusedEmbeddings, DropLocals, Step, TypeOK, Walking
  <1>14. ASSUME NEW r \in Run, UpdateManifest(r) PROVE Scanned'
    BY <1>0, <1>5, <1>14 DEF UpdateManifest, Step, TypeOK, Walking, localVars
  <1>15. ASSUME NEW r \in Run, ActivateState(r) PROVE Scanned'
    BY <1>0, <1>5, <1>15 DEF ActivateState, Step, TypeOK, Walking, localVars
  <1>16. ASSUME NEW r \in Run, CleanupHashes(r) PROVE Scanned'
    <2>1. pc[r] = "cleanHashes" /\ pc' = [pc EXCEPT ![r] = "cleanStates"]
      BY <1>16 DEF CleanupHashes, Step
    <2>2. \A q \in Run : pc'[q] \notin Walking
      BY <2>1, NobodyWalks DEF Live, Walking
    <2> QED
      BY <2>2 DEF Scanned
  <1>17. ASSUME NEW r \in Run, CleanupStates(r) PROVE Scanned'
    BY <1>0, <1>5, <1>17 DEF CleanupStates, Step, TypeOK, Walking, localVars
  <1>18. ASSUME NEW r \in Run, Stop(r) PROVE Scanned'
    BY <1>5, <1>18 DEF Stop, DropLocals, Live, TypeOK, Walking, Begins, dbVars
  <1>19. ASSUME NEW p \in Path, NEW c \in Content \union {NoFile}, Edit(p, c) PROVE Scanned'
    BY <1>5, <1>19 DEF Edit, Begins, dbVars, localVars
  <1> QED
    BY <1>1, <1>2, <1>3, <1>4, <1>6, <1>7, <1>8, <1>9, <1>10, <1>11, <1>12, <1>13, <1>14,
       <1>15, <1>16, <1>17, <1>18, <1>19 DEF HistoryNext, Next, RunStep

\* The contents a finished walk recorded, as a tree.
LEMMA WalkIsTree ==
  ASSUME TypeOK, HadType, NEW r \in Run, pc[r] = "walk", todo[r] = {}, OneHash, Scanned
  PROVE  \E f \in Promise!Tree :
           /\ \A p \in Path : f[p] \in had[p]
           /\ \A p \in Path, c \in Content : <<p, c>> \in hashes[r] <=> f[p] = c
  <1> DEFINE Recorded(p) == \E c \in Content : <<p, c>> \in hashes[r]
             Of(p) == CHOOSE c \in Content : <<p, c>> \in hashes[r]
             f == [p \in Path |-> IF Recorded(p) THEN Of(p) ELSE NoFile]
  <1>1. ASSUME NEW p \in Path, Recorded(p) PROVE Of(p) \in Content /\ <<p, Of(p)>> \in hashes[r]
    BY <1>1
  <1>2. \A e \in hashes[r] : e[2] \in had[e[1]]
    BY DEF Scanned, Walking
  <1>3. \A p \in Path : Recorded(p) \/ NoFile \in had[p]
    BY DEF Scanned, Walking
  <1>4. f \in Promise!Tree
    BY <1>1 DEF Promise!Tree
  <1>5. ASSUME NEW p \in Path PROVE f[p] \in had[p]
    <2>1. CASE Recorded(p)
      <3>1. <<p, Of(p)>>[2] \in had[<<p, Of(p)>>[1]]
        BY <1>1, <1>2, <2>1
      <3> QED
        BY <2>1, <3>1
    <2>2. CASE ~Recorded(p)
      BY <1>3, <2>2
    <2> QED
      BY <2>1, <2>2
  <1>6. ASSUME NEW p \in Path, NEW c \in Content PROVE <<p, c>> \in hashes[r] <=> f[p] = c
    <2>1. CASE Recorded(p)
      <3>1. <<p, Of(p)>> \in hashes[r] /\ f[p] = Of(p)
        BY <1>1, <2>1
      <3>2. ASSUME <<p, c>> \in hashes[r] PROVE c = Of(p)
        <4>1. <<p, c>>[1] = <<p, Of(p)>>[1]
          OBVIOUS
        <4>2. <<p, c>> = <<p, Of(p)>>
          BY <3>1, <3>2, <4>1 DEF OneHash
        <4> QED
          BY <4>2
      <3> QED
        BY <3>1, <3>2
    <2>2. CASE ~Recorded(p)
      <3>1. f[p] = NoFile /\ <<p, c>> \notin hashes[r]
        BY <2>2
      <3> QED
        BY <3>1, IndexAssumption
    <2> QED
      BY <2>1, <2>2
  <1> QED
    BY <1>4, <1>5, <1>6

\* The rows of the hashed contents are the scan of the tree they form.
LEMMA RebuiltIsScan ==
  ASSUME TypeOK, NEW r \in Run, settings[r] \in Settings, NEW f \in Promise!Tree,
         \A p \in Path, c \in Content : <<p, c>> \in hashes[r] <=> f[p] = c
  PROVE  Rebuilt(r) = Promise!Scan(f, settings[r])
  <1> DEFINE s == settings[r]
  <1>1. \A c \in Content : Symbols[<<c, s>>] \subseteq Symbol
    BY IndexAssumption
  <1>2. ASSUME NEW x \in Rebuilt(r) PROVE x \in Promise!Scan(f, s)
    <2>1. PICK e \in hashes[r] : x \in RowsOf(e[1], e[2], s)
      BY <1>2 DEF Rebuilt
    <2>2. e[1] \in Path /\ e[2] \in Content /\ e = <<e[1], e[2]>> /\ e[2] # NoFile
      BY IndexAssumption DEF TypeOK, Entry
    <2>3. f[e[1]] = e[2]
      BY <2>2
    <2>4. PICK y \in Symbols[<<e[2], s>>] : x = <<e[1], y>>
      BY <2>1, <2>2 DEF RowsOf
    <2>5. y \in Symbol
      BY <1>1, <2>2
    <2> QED
      BY <2>2, <2>3, <2>4, <2>5 DEF Promise!Scan
  <1>3. ASSUME NEW x \in Promise!Scan(f, s) PROVE x \in Rebuilt(r)
    <2>1. /\ x \in Path \X Symbol /\ f[x[1]] # NoFile
          /\ x[2] \in Symbols[<<f[x[1]], s>>]
      BY <1>3 DEF Promise!Scan
    <2>2. x[1] \in Path /\ f[x[1]] \in Content /\ x = <<x[1], x[2]>>
      BY <2>1 DEF Promise!Tree
    <2>3. <<x[1], f[x[1]]>> \in hashes[r]
      BY <2>2
    <2>4. x \in RowsOf(x[1], f[x[1]], s)
      BY <2>1, <2>2 DEF RowsOf
    <2> QED
      BY <2>3, <2>4 DEF Rebuilt
  <1> QED
    BY <1>2, <1>3

\* The activation of a trusted family's snapshot shows one scan of the tree.
LEMMA ActivationShowsScan ==
  ASSUME HistoryInv, Exclusive, TypeOK', ActiveComplete', NEW r \in Run, ActivateSnapshot(r),
         NEW m \in Family, m = fam[r], Clean(m)
  PROVE  Searchable(m)' \in Promise!Scans
  <1>1. /\ pc[r] = "walk" /\ todo[r] = {} /\ current' = [current EXCEPT ![m] = r] /\ rows' = rows
        /\ settings[r] \in Settings /\ r # NoRun
    BY DEF ActivateSnapshot, Step, HistoryInv, IInv, TypeOK, Run, NoRun
  <1>2. current'[m] = r
    BY <1>1 DEF HistoryInv, IInv, TypeOK
  <1>3. Searchable(m)' = rows[r]
    BY <1>1, <1>2 DEF Searchable, ActiveComplete
  <1>4. rows[r] = Rebuilt(r)
    BY <1>1 DEF HistoryInv, IInv, Faithful, BuildsRebuilt, Remaining, Walking
  <1>5. PICK f \in Promise!Tree :
          /\ \A p \in Path : f[p] \in had[p]
          /\ \A p \in Path, c \in Content : <<p, c>> \in hashes[r] <=> f[p] = c
    BY <1>1, WalkIsTree DEF HistoryInv, IInv, Faithful
  <1>6. Rebuilt(r) = Promise!Scan(f, settings[r])
    BY <1>1, <1>5, RebuiltIsScan DEF HistoryInv, IInv
  <1>7. Promise!Scan(f, settings[r]) \in Promise!Scans
    BY <1>1, <1>5 DEF Promise!Scans
  <1> QED
    BY <1>3, <1>4, <1>6, <1>7

\* The promise binds a family no longer from the step on that makes it suspect; a step makes at
\* most one family suspect.
LEMMA OneSuspicion ==
  ASSUME TypeOK, Next
  PROVE  \/ UNCHANGED <<torn, raced>>
         \/ \E m \in Family : torn' \union raced' = torn \union raced \union {m}
  <1>1. ASSUME NEW r \in Run, ReadFile(r)
        PROVE  \/ UNCHANGED <<torn, raced>>
               \/ \E m \in Family : torn' \union raced' = torn \union raced \union {m}
    <2>1. torn' = torn /\ (raced' = raced \/ raced' = raced \union {fam[r]}) /\ fam[r] \in Family
      BY <1>1 DEF ReadFile, Step, TypeOK
    <2> QED
      BY <2>1
  <1>2. ASSUME NEW r \in Run, Stop(r)
        PROVE  \/ UNCHANGED <<torn, raced>>
               \/ \E m \in Family : torn' \union raced' = torn \union raced \union {m}
    <2>1. raced' = raced /\ (torn' = torn \/ torn' = torn \union {fam[r]}) /\ fam[r] \in Family
      BY <1>2 DEF Stop, Live, TypeOK
    <2> QED
      BY <2>1
  <1>3. ASSUME \A r \in Run : ~ReadFile(r) /\ ~Stop(r) PROVE UNCHANGED <<torn, raced>>
    BY <1>3, ZenonT(60) DEF Next, RunStep, ReadState, BeginState, BeginSnapshot, SkipFile, HashFile,
       ReuseFile, IndexSymbol, StoreEmbedding, ActivateSnapshot, CleanupInactiveSnapshots,
       CleanupUnusedEmbeddings, UpdateManifest, ActivateState, CleanupHashes, CleanupStates, Edit,
       histVars
  <1> QED
    BY <1>1, <1>2, <1>3

\* The source tree changes by edits alone.
LEMMA OnlyEditsEdit ==
  ASSUME Next, \A p \in Path, c \in Content \union {NoFile} : ~Edit(p, c) PROVE tree' = tree
  BY ZenonT(60) DEF Next, RunStep, ReadState, BeginState, BeginSnapshot, SkipFile, HashFile,
     ReuseFile, ReadFile, IndexSymbol, StoreEmbedding, ActivateSnapshot, CleanupInactiveSnapshots,
     CleanupUnusedEmbeddings, UpdateManifest, ActivateState, CleanupHashes, CleanupStates, Stop

\* Every step of a run and every edit is a step of the promise, or does not show.
LEMMA StepKeepsPromise ==
  ASSUME Exclusive, HistoryInv, TypeOK', ActiveComplete', HistoryNext
  PROVE  Promise!Next \/ UNCHANGED Promise!vars
  <1> USE DEF Promise!Next, Promise!vars
  <1>0. /\ TypeOK /\ Shape /\ ActiveComplete /\ Next /\ [Next]_vars /\ HadType
        /\ had' = [p \in Path |-> IF Begins THEN {tree[p]} ELSE had[p] \union {tree'[p]}]
    BY DEF HistoryInv, IInv, Stored, HistoryNext
  <1>1. (\A r \in Run : ~ActivateSnapshot(r)) => LogicalIndex' = LogicalIndex
    BY <1>0, SearchKept DEF LogicalIndex
  <1>2. ~Begins /\ tree' = tree => had' = had
    BY <1>0 DEF HadType
  <1>3. ASSUME NEW r \in Run, NEW m \in Family, NEW s \in Settings, ReadState(r, m, s)
        PROVE  Promise!Begin
    <2>1. /\ pc[r] = "idle" /\ pc' = [pc EXCEPT ![r] = "beginState"]
          /\ UNCHANGED <<tree, current, rows, embeddings, torn, raced>>
      BY <1>3 DEF ReadState, Step, dbVars, histVars
    <2>2. Begins
      BY <1>0, <2>1 DEF Begins, TypeOK
    <2>3. LogicalIndex' = LogicalIndex
      BY <2>1 DEF LogicalIndex, Searchable
    <2> QED
      BY <1>0, <2>1, <2>2, <2>3 DEF Promise!Begin
  <1>4. ASSUME NEW p \in Path, NEW c \in Content \union {NoFile}, Edit(p, c)
        PROVE  Promise!Edit(p, c)
    <2>1. /\ tree' = [tree EXCEPT ![p] = c] /\ ~Begins
          /\ UNCHANGED <<current, rows, embeddings, torn, raced>>
      BY <1>4 DEF Edit, Begins, dbVars, histVars
    <2>2. tree'[p] = c /\ \A q \in Path \ {p} : tree'[q] = tree[q] /\ tree[q] \in had[q]
      BY <1>0, <2>1 DEF HadType, TypeOK
    <2>3. had' = [q \in Path |-> had[q] \union {tree'[q]}]
      BY <1>0, <2>1
    <2>4. had' = [q \in Path |-> IF q = p THEN had[q] \union {c} ELSE had[q]]
      BY <2>2, <2>3
    <2>5. had' = [had EXCEPT ![p] = @ \union {c}]
      BY <1>0, <2>4 DEF HadType
    <2>6. LogicalIndex' = LogicalIndex
      BY <2>1 DEF LogicalIndex, Searchable
    <2> QED
      BY <2>1, <2>5, <2>6 DEF Promise!Edit
  <1>5. ASSUME NEW r \in Run, ActivateSnapshot(r) PROVE \E m \in Family : Promise!Reindex(m)
    <2>1. /\ fam[r] \in Family /\ ~Begins
          /\ UNCHANGED <<tree, torn, raced>>
      BY <1>0, <1>5 DEF ActivateSnapshot, Step, Begins, TypeOK, histVars
    <2>2. PICK m \in Family : m = fam[r]
      BY <2>1
    <2>3. m \notin torn \union raced => Searchable(m)' \in Promise!Scans
      BY <1>5, <2>2, ActivationShowsScan DEF Clean
    <2>4. Searchable(m)' \in SUBSET (Path \X Symbol)
      BY <1>0 DEF Searchable, TypeOK, Row, Run, NoRun
    <2>5. \A n \in Family \ {m} : Searchable(n)' = Searchable(n)
      BY <1>0, <1>5, <2>2, SearchActivated
    <2>6. PICK new : new = Searchable(m)'
      OBVIOUS
    <2>7. LogicalIndex' = [LogicalIndex EXCEPT ![m] = new]
      BY <2>5, <2>6 DEF LogicalIndex
    <2>8. Promise!Reindex(m)
      BY <1>2, <2>1, <2>3, <2>4, <2>6, <2>7 DEF Promise!Reindex
    <2> QED
      BY <2>8
  <1>6. ASSUME \A r \in Run, m \in Family, s \in Settings : ~ReadState(r, m, s),
               \A p \in Path, c \in Content \union {NoFile} : ~Edit(p, c),
               \A r \in Run : ~ActivateSnapshot(r)
        PROVE  (\E m \in Family : Promise!Distrust(m)) \/ UNCHANGED Promise!vars
    <2>1. ~Begins /\ tree' = tree
      BY <1>0, <1>6, OnlyReadStateBegins, OnlyEditsEdit
    <2>2. UNCHANGED <<tree, had>> /\ LogicalIndex' = LogicalIndex
      BY <1>1, <1>2, <1>6, <2>1
    <2>3. CASE UNCHANGED <<torn, raced>>
      BY <2>2, <2>3
    <2>4. CASE \E m \in Family : torn' \union raced' = torn \union raced \union {m}
      <3>1. PICK m \in Family : torn' \union raced' = torn \union raced \union {m}
        BY <2>4
      <3>2. Family \ (torn' \union raced') = (Family \ (torn \union raced)) \ {m}
        BY <3>1
      <3> QED
        BY <2>2, <3>2 DEF Promise!Distrust
    <2> QED
      BY <1>0, <2>3, <2>4, OneSuspicion
  <1> QED
    BY <1>3, <1>4, <1>5, <1>6

\* The invariant holds at the start, when no run has hashed anything.
LEMMA HistoryInvInit == HistoryInit => HistoryInv
  <1> SUFFICES ASSUME HistoryInit PROVE HistoryInv
    OBVIOUS
  <1>1. Init /\ had = [p \in Path |-> {tree[p]}]
    BY DEF HistoryInit
  <1>2. IInv
    BY <1>1, InvInit
  <1>3. HadType
    BY <1>1 DEF HadType, Init
  <1>4. Scanned
    BY <1>1 DEF Scanned, Init, Walking
  <1> QED
    BY <1>2, <1>3, <1>4 DEF HistoryInv

\* Every step keeps the invariant.
LEMMA HistoryInvNext == HistoryInv /\ [HistoryNext]_<<vars, had>> => HistoryInv'
  <1> SUFFICES ASSUME HistoryInv, [HistoryNext]_<<vars, had>> PROVE HistoryInv'
    OBVIOUS
  <1>1. IInv'
    BY InvNext DEF HistoryInv, HistoryNext
  <1>2. HadType'
    BY <1>1, HadTypeNext DEF HistoryInv, IInv
  <1>3. ASSUME Exclusive PROVE Scanned'
    <2>1. CASE HistoryNext
      BY <1>3, <2>1, ScannedNext DEF HistoryInv, IInv
    <2>2. CASE UNCHANGED <<vars, had>>
      BY <1>3, <2>2 DEF HistoryInv, Scanned, vars
    <2> QED
      BY <2>1, <2>2
  <1> QED
    BY <1>1, <1>2, <1>3 DEF HistoryInv

\* The invariant always holds.
LEMMA HistoryInvAlways == HistorySpec => []HistoryInv
  BY HistoryInvInit, HistoryInvNext, PTL DEF HistorySpec

\* When runs do not overlap, they keep the promise of IndexPromise: what a search reaches goes, in
\* one step, from one scan of the tree to another, and each path's content in that scan is one
\* that the path had while the run was on.
THEOREM IndexKeepsPromise ==
  ASSUME Exclusive PROVE HistorySpec => KeepsIndexPromise
  <1>1. HistoryInit => Promise!Init
    <2> SUFFICES ASSUME HistoryInit PROVE Promise!Init
      OBVIOUS
    <2>1. LogicalIndex = [m \in Family |-> {}]
      BY DEF HistoryInit, Init, LogicalIndex, Searchable
    <2> QED
      BY <2>1 DEF HistoryInit, Init, Promise!Init, Promise!Tree
  <1>2. HistoryInv /\ HistoryInv' /\ [HistoryNext]_<<vars, had>> => [Promise!Next]_(Promise!vars)
    <2> SUFFICES ASSUME HistoryInv, HistoryInv', [HistoryNext]_<<vars, had>>
                 PROVE  Promise!Next \/ UNCHANGED Promise!vars
      OBVIOUS
    <2>1. CASE HistoryNext
      <3>1. TypeOK' /\ ActiveComplete'
        BY DEF HistoryInv, IInv, Stored
      <3> QED
        BY <2>1, <3>1, StepKeepsPromise
    <2>2. CASE UNCHANGED <<vars, had>>
      BY <2>2 DEF vars, Promise!vars, LogicalIndex, Searchable
    <2> QED
      BY <2>1, <2>2
  <1> QED
    BY <1>1, <1>2, HistoryInvAlways, PTL DEF HistorySpec, KeepsIndexPromise, Promise!Spec
=============================================================================
