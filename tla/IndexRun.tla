------------------------------ MODULE IndexRun ------------------------------
(***************************************************************************)
(* Indexing runs over the two databases of a .semsearch directory          *)
(* (internal/cli/index.go runIndex, internal/indexing/service.go,          *)
(* internal/indexdb/sqlite.go, internal/filehashdb/sqlite.go).             *)
(*                                                                         *)
(* index.db holds snapshots of symbol rows, one active snapshot per        *)
(* provider/model family, and the embedding tables; filehashes.db holds    *)
(* the hash of every file a snapshot was built from, one active state per  *)
(* family; manifest.json tells the logical hash of the index.  No          *)
(* transaction spans two statements: each action is one statement (or one  *)
(* file system call), and a run may stop between any two of them, by an    *)
(* error, by cancellation or by a crash.  Files are edited at any time.    *)
(*                                                                         *)
(* A run is named by a number, which is also its snapshot_id and its       *)
(* state_version: both columns are AUTOINCREMENT keys, so only their       *)
(* being fresh matters.  The content hash of a file is its content.  The   *)
(* embedding pipeline is in EmbeddingPipeline; here it stores queued       *)
(* hashes in any order, and a run waits for it before it activates.        *)
(***************************************************************************)
EXTENDS Integers

CONSTANTS
  Path, Content, Family, Settings,  \* Settings: what BuildScannerFingerprint covers
  Symbol,        \* symbols a scanner extracts
  Symbols,       \* Symbols[<<c, s>>]: symbols of a file with content c under settings s
  Hash,          \* embedding hashes
  Key,           \* Key[x]: IndexedSymbolHash of the row x
  Dim,           \* Dim[m]: embedding dimension of family m; one table per dimension
  MaxRuns,       \* bound on the number of runs
  Exclusive,     \* TRUE: nobody starts a run while another one is live
  NoFile,        \* the tree has no such file, or it is binary or ignored
  NoEntry, Unset

Run == 1..MaxRuns
NoRun == 0
Row == Path \X Symbol
Entry == Path \X Content

ASSUME IndexAssumption ==
  /\ MaxRuns \in Nat
  /\ Symbols \in [Content \X Settings -> SUBSET Symbol]
  /\ Key \in [Row -> Hash]
  /\ NoFile \notin Content /\ Unset \notin Family /\ NoEntry \notin Entry
  /\ Exclusive \in BOOLEAN

VARIABLES
  tree,        \* the source tree: content of each path
  current,     \* index.db current_model_snapshots
  rows,        \* index.db snapshot_symbols, by snapshot
  embeddings,  \* index.db embedding tables: pairs <<family, hash>>
  curState,    \* filehashes.db current_model_states
  states,      \* filehashes.db file_hash_states
  hashes,      \* filehashes.db file_hashes, by state
  manifest,    \* manifest.json: version and logical hash
  pc,          \* what run r does next
  fam,         \* the family run r indexes for
  settings,    \* the settings run r scans with
  known,       \* Params.CurrentFileHashes of run r
  base,        \* runState.currentSnapshotID of run r, NoRun when there is none
  todo,        \* paths the walk of run r has still to visit
  file,        \* the path and hash handleFile works on
  job,         \* rows of that file still to insert
  seen,        \* embeddingBuffer.hashes of run r
  queued,      \* hashes run r queued and the pipeline has not stored yet
  torn,        \* history: families for which a run stopped between its two activations
  raced        \* history: families for which a file changed between its two reads

dbVars    == <<current, rows, embeddings, curState, states, hashes, manifest>>
localVars == <<known, base, todo, file, job, seen, queued>>
flagVars  == <<fam, settings>>
histVars  == <<torn, raced>>
vars == <<tree, current, rows, embeddings, curState, states, hashes, manifest, pc, fam,
          settings, known, base, todo, file, job, seen, queued, torn, raced>>

Live(r) == pc[r] \notin {"idle", "done", "stopped"}
ActiveRuns == {current[m] : m \in Family}
ActiveStates == {curState[m] : m \in Family}

RowsOf(p, c, s) == IF c = NoFile THEN {} ELSE {<<p, x>> : x \in Symbols[<<c, s>>]}

\* What LogicalHash digests, and what a search can reach when its limit on candidates does not
\* cut it short: the rows of the active snapshots whose embedding is stored.
Searchable(m) ==
  IF current[m] = NoRun THEN {}
  ELSE {x \in rows[current[m]] : <<m, Key[x]>> \in embeddings}
LogicalIndex == [m \in Family |-> Searchable(m)]

Init ==
  /\ tree \in [Path -> Content \union {NoFile}]
  /\ current = [m \in Family |-> NoRun] /\ curState = [m \in Family |-> NoRun]
  /\ rows = [r \in Run |-> {}] /\ hashes = [r \in Run |-> {}] /\ states = {}
  /\ embeddings = {}
  /\ manifest = [version |-> 0, index |-> LogicalIndex]
  /\ pc = [r \in Run |-> "idle"]
  /\ fam = [r \in Run |-> Unset] /\ settings = [r \in Run |-> Unset]
  /\ known = [r \in Run |-> {}] /\ base = [r \in Run |-> NoRun]
  /\ todo = [r \in Run |-> {}] /\ file = [r \in Run |-> NoEntry]
  /\ job = [r \in Run |-> {}] /\ seen = [r \in Run |-> {}] /\ queued = [r \in Run |-> {}]
  /\ torn = {} /\ raced = {}

Step(r, from, to) == pc[r] = from /\ pc' = [pc EXCEPT ![r] = to]

\* The local variables of runIndex and of runState are gone once the run is over.
DropLocals(r) ==
  /\ known' = [known EXCEPT ![r] = {}] /\ base' = [base EXCEPT ![r] = NoRun]
  /\ todo' = [todo EXCEPT ![r] = {}] /\ file' = [file EXCEPT ![r] = NoEntry]
  /\ job' = [job EXCEPT ![r] = {}] /\ seen' = [seen EXCEPT ![r] = {}]
  /\ queued' = [queued EXCEPT ![r] = {}]

-----------------------------------------------------------------------------
(* runIndex before Service.Run. *)

\* Faulty variant: hashes taken under other scanner settings are trusted.
StateHashesAnySettings(m, s) ==
  IF curState[m] \in states THEN hashes[curState[m]] ELSE {}

\* Store.Current, and the fingerprint check of runIndex.
StateHashes(m, s) ==
  IF curState[m] \in states /\ settings[curState[m]] = s THEN hashes[curState[m]] ELSE {}

\* A run starts for a provider/model pair and scanner flags of the user's choice. Nothing in the
\* code keeps two processes from indexing one directory: Exclusive stands for the user's care.
ReadState(r, m, s) ==
  /\ Step(r, "idle", "beginState")
  /\ \A q \in 1..(r - 1) : pc[q] # "idle"
  /\ Exclusive => \A q \in Run : ~Live(q)
  /\ fam' = [fam EXCEPT ![r] = m] /\ settings' = [settings EXCEPT ![r] = s]
  /\ known' = [known EXCEPT ![r] = StateHashes(m, s)]
  /\ UNCHANGED <<tree, dbVars, base, todo, file, job, seen, queued, histVars>>

BeginState(r) ==
  /\ Step(r, "beginState", "beginSnapshot")
  /\ states' = states \union {r}
  /\ UNCHANGED <<tree, current, rows, embeddings, curState, hashes, manifest, flagVars,
                 localVars, histVars>>

\* CurrentSnapshotIfAny, then BeginSnapshot; nothing reads the row that one adds.
BeginSnapshot(r) ==
  /\ Step(r, "beginSnapshot", "walk")
  /\ base' = [base EXCEPT ![r] = current[fam[r]]]
  /\ todo' = [todo EXCEPT ![r] = Path]
  /\ UNCHANGED <<tree, dbVars, flagVars, known, file, job, seen, queued, histVars>>

-----------------------------------------------------------------------------
(* The walk: handleFile for each path, in any order. *)

SkipFile(r, p) ==
  /\ pc[r] = "walk" /\ p \in todo[r] /\ tree[p] = NoFile
  /\ todo' = [todo EXCEPT ![r] = @ \ {p}]
  /\ UNCHANGED <<tree, dbVars, pc, flagVars, known, base, file, job, seen, queued, histVars>>

\* Faulty variant: a binary file is hashed and kept like any other.
HashFileEvenBinary(r, p) ==
  /\ Step(r, "walk", "file")
  /\ p \in todo[r]
  /\ todo' = [todo EXCEPT ![r] = @ \ {p}]
  /\ file' = [file EXCEPT ![r] = <<p, tree[p]>>]
  /\ hashes' = [hashes EXCEPT ![r] = @ \union {<<p, tree[p]>>}]
  /\ UNCHANGED <<tree, current, rows, embeddings, curState, states, manifest, flagVars, known,
                 base, job, seen, queued, histVars>>

\* hashSourceFile and storeFileHash.
HashFile(r, p) ==
  /\ Step(r, "walk", "file")
  /\ p \in todo[r] /\ tree[p] # NoFile
  /\ todo' = [todo EXCEPT ![r] = @ \ {p}]
  /\ file' = [file EXCEPT ![r] = <<p, tree[p]>>]
  /\ hashes' = [hashes EXCEPT ![r] = @ \union {<<p, tree[p]>>}]
  /\ UNCHANGED <<tree, current, rows, embeddings, curState, states, manifest, flagVars, known,
                 base, job, seen, queued, histVars>>

\* Faulty variant: a file is taken for unchanged when any hash of its path is known.
CanReuseFileAnyHash(r) == base[r] # NoRun /\ \E e \in known[r] : e[1] = file[r][1]

CanReuseFile(r) == base[r] # NoRun /\ file[r] \in known[r]

\* reuseFile: CopyPathFromSnapshot.
ReuseFile(r) ==
  /\ Step(r, "file", "walk") /\ CanReuseFile(r)
  /\ rows' = [rows EXCEPT ![r] = @ \union {x \in rows[base[r]] : x[1] = file[r][1]}]
  /\ file' = [file EXCEPT ![r] = NoEntry]
  /\ UNCHANGED <<tree, current, embeddings, curState, states, hashes, manifest, flagVars, known,
                 base, todo, job, seen, queued, histVars>>

\* reindexFile reads the file a second time, and scans what it finds then. A file that has
\* become binary gives no rows; one that is gone is an error (Stop).
ReadFile(r) ==
  LET p == file[r][1]
      found == RowsOf(p, tree[p], settings[r])
  IN /\ Step(r, "file", IF found = {} THEN "walk" ELSE "index") /\ ~CanReuseFile(r)
     /\ job' = [job EXCEPT ![r] = found]
     /\ raced' = (IF tree[p] = file[r][2] THEN raced ELSE raced \union {fam[r]})
     /\ file' = [file EXCEPT ![r] = NoEntry]
     /\ UNCHANGED <<tree, dbVars, flagVars, known, base, todo, seen, queued, torn>>

\* indexJob, for one symbol: EmbeddingExists, queueMissingEmbedding, InsertSymbol.
IndexSymbol(r, x) ==
  /\ pc[r] = "index" /\ x \in job[r]
  /\ pc' = [pc EXCEPT ![r] = IF job[r] = {x} THEN "walk" ELSE "index"]
  /\ job' = [job EXCEPT ![r] = @ \ {x}]
  /\ rows' = [rows EXCEPT ![r] = @ \union {x}]
  /\ IF <<fam[r], Key[x]>> \in embeddings \/ Key[x] \in seen[r]
     THEN UNCHANGED <<seen, queued>>
     ELSE /\ seen' = [seen EXCEPT ![r] = @ \union {Key[x]}]
          /\ queued' = [queued EXCEPT ![r] = @ \union {Key[x]}]
  /\ UNCHANGED <<tree, current, embeddings, curState, states, hashes, manifest, flagVars, known,
                 base, todo, file, histVars>>

\* AddEmbedding, which fails on a key that is there already.
StoreEmbedding(r, h) ==
  /\ Live(r) /\ h \in queued[r] /\ <<fam[r], h>> \notin embeddings
  /\ embeddings' = embeddings \union {<<fam[r], h>>}
  /\ queued' = [queued EXCEPT ![r] = @ \ {h}]
  /\ UNCHANGED <<tree, current, rows, curState, states, hashes, manifest, pc, flagVars, known,
                 base, todo, file, job, seen, histVars>>

-----------------------------------------------------------------------------
(* finalize. *)

\* Faulty variant: the walk was cut short, and what it has found is activated all the same.
ActivateSnapshotEarly(r) ==
  /\ Step(r, "walk", "cleanSnapshots")
  /\ queued[r] = {}
  /\ current' = [current EXCEPT ![fam[r]] = r]
  /\ UNCHANGED <<tree, rows, embeddings, curState, states, hashes, manifest, flagVars, localVars,
                 histVars>>

\* The walk is over and the embedding pipeline has stored what was queued.
ActivateSnapshot(r) ==
  /\ Step(r, "walk", "cleanSnapshots")
  /\ todo[r] = {} /\ queued[r] = {}
  /\ current' = [current EXCEPT ![fam[r]] = r]
  /\ UNCHANGED <<tree, rows, embeddings, curState, states, hashes, manifest, flagVars, localVars,
                 histVars>>

\* Faulty variant: everything but the run's own snapshot is stale.
CleanupInactiveSnapshotsOwn(r) ==
  /\ Step(r, "cleanSnapshots", "cleanEmbeddings")
  /\ rows' = [q \in Run |-> IF q = r THEN rows[q] ELSE {}]
  /\ UNCHANGED <<tree, current, embeddings, curState, states, hashes, manifest, flagVars,
                 localVars, histVars>>

\* Its second statement deletes rows of index_snapshots, which nothing reads.
CleanupInactiveSnapshots(r) ==
  /\ Step(r, "cleanSnapshots", "cleanEmbeddings")
  /\ rows' = [q \in Run |-> IF q \in ActiveRuns THEN rows[q] ELSE {}]
  /\ UNCHANGED <<tree, current, embeddings, curState, states, hashes, manifest, flagVars,
                 localVars, histVars>>

\* Faulty variant: the run's own rows are the only references.
ReferencedByRun(e) ==
  \E q \in Run : fam[q] = e[1] /\ pc[q] = "cleanEmbeddings" /\ \E x \in rows[q] : Key[x] = e[2]

Referenced(e) == \E q \in Run : fam[q] = e[1] /\ \E x \in rows[q] : Key[x] = e[2]

\* Only the table of the run's dimension is cleaned. Service.Run returns.
CleanupUnusedEmbeddings(r) ==
  /\ Step(r, "cleanEmbeddings", "manifest")
  /\ embeddings' = {e \in embeddings : Dim[e[1]] # Dim[fam[r]] \/ Referenced(e)}
  /\ DropLocals(r)
  /\ UNCHANGED <<tree, current, rows, curState, states, hashes, manifest, flagVars, histVars>>

-----------------------------------------------------------------------------
(* runIndex after Service.Run. *)

\* Faulty variant: the hash is kept.
NewManifestVersionOnly == [manifest EXCEPT !.version = @ + 1]

NewManifest == [version |-> manifest.version + 1, index |-> LogicalIndex]

UpdateManifest(r) ==
  /\ Step(r, "manifest", "activateState")
  /\ manifest' = NewManifest
  /\ UNCHANGED <<tree, current, rows, embeddings, curState, states, hashes, flagVars, localVars,
                 histVars>>

\* ActivateState refuses a state whose row is gone.
ActivateState(r) ==
  /\ Step(r, "activateState", "cleanHashes")
  /\ r \in states
  /\ curState' = [curState EXCEPT ![fam[r]] = r]
  /\ UNCHANGED <<tree, current, rows, embeddings, states, hashes, manifest, flagVars, localVars,
                 histVars>>

\* The two statements of CleanupInactiveStates.
CleanupHashes(r) ==
  /\ Step(r, "cleanHashes", "cleanStates")
  /\ hashes' = [q \in Run |-> IF q \in ActiveStates THEN hashes[q] ELSE {}]
  /\ UNCHANGED <<tree, current, rows, embeddings, curState, states, manifest, flagVars, localVars,
                 histVars>>

CleanupStates(r) ==
  /\ Step(r, "cleanStates", "done")
  /\ states' = states \intersect ActiveStates
  /\ UNCHANGED <<tree, current, rows, embeddings, curState, hashes, manifest, flagVars, localVars,
                 histVars>>

\* Any step of a live run may fail, its context may be cancelled, its process may die: what it
\* wrote stays, and nothing is undone.
Stop(r) ==
  /\ Live(r) /\ pc' = [pc EXCEPT ![r] = "stopped"]
  /\ DropLocals(r)
  /\ torn' = (IF current[fam[r]] = r /\ curState[fam[r]] # r THEN torn \union {fam[r]} ELSE torn)
  /\ UNCHANGED <<tree, dbVars, flagVars, raced>>

Edit(p, c) ==
  /\ tree' = [tree EXCEPT ![p] = c]
  /\ UNCHANGED <<dbVars, pc, flagVars, localVars, histVars>>

-----------------------------------------------------------------------------
RunStep(r) ==
  \/ \E m \in Family, s \in Settings : ReadState(r, m, s)
  \/ BeginState(r) \/ BeginSnapshot(r)
  \/ \E p \in Path : SkipFile(r, p) \/ HashFile(r, p)
  \/ ReuseFile(r) \/ ReadFile(r)
  \/ \E x \in job[r] : IndexSymbol(r, x)
  \/ \E h \in queued[r] : StoreEmbedding(r, h)
  \/ ActivateSnapshot(r) \/ CleanupInactiveSnapshots(r) \/ CleanupUnusedEmbeddings(r)
  \/ UpdateManifest(r) \/ ActivateState(r) \/ CleanupHashes(r) \/ CleanupStates(r)
  \/ Stop(r)

Next ==
  \/ \E r \in Run : RunStep(r)
  \/ \E p \in Path, c \in Content \union {NoFile} : Edit(p, c)

Spec == Init /\ [][Next]_vars

-----------------------------------------------------------------------------
\* Where a run is before it activates its snapshot, and from there until it activates its
\* file-hash state.
Walking    == {"walk", "file", "index"}
Building   == {"idle", "beginState", "beginSnapshot"} \union Walking
Unrecorded == {"cleanSnapshots", "cleanEmbeddings", "manifest", "activateState"}

TypeOK ==
  /\ tree \in [Path -> Content \union {NoFile}]
  /\ current \in [Family -> Run \union {NoRun}] /\ curState \in [Family -> Run \union {NoRun}]
  /\ rows \in [Run -> SUBSET Row] /\ embeddings \subseteq Family \X Hash
  /\ states \subseteq Run /\ hashes \in [Run -> SUBSET Entry]
  /\ manifest \in [version : Nat, index : [Family -> SUBSET Row]]
  /\ pc \in [Run -> Building \union Unrecorded
                     \union {"cleanHashes", "cleanStates", "done", "stopped"}]
  /\ fam \in [Run -> Family \union {Unset}] /\ settings \in [Run -> Settings \union {Unset}]
  /\ \A r \in Run : pc[r] # "idle" => fam[r] \in Family /\ settings[r] \in Settings
  /\ known \in [Run -> SUBSET Entry] /\ base \in [Run -> Run \union {NoRun}]
  /\ todo \in [Run -> SUBSET Path] /\ file \in [Run -> Entry \union {NoEntry}]
  /\ \A r \in Run : pc[r] = "file" => file[r] \in Entry
  /\ job \in [Run -> SUBSET Row]
  /\ seen \in [Run -> SUBSET Hash] /\ queued \in [Run -> SUBSET Hash]
  /\ torn \subseteq Family /\ raced \subseteq Family

\* Every symbol of an active snapshot has its embedding: the clean-up of one family's run never
\* takes an embedding that another family's snapshot, or the new one, refers to.
ActiveComplete ==
  \A m \in Family : current[m] # NoRun =>
    \A x \in rows[current[m]] : <<m, Key[x]>> \in embeddings

Rebuilt(r) == UNION {RowsOf(e[1], e[2], settings[r]) : e \in hashes[r]}
EqualsRebuild(m) == current[m] # NoRun => rows[current[m]] = Rebuilt(current[m])

\* Reuse is sound: the active snapshot holds exactly the rows that scanning every hashed content
\* from nothing would give, however many runs its rows were copied through. It takes that no run
\* of the family stopped between ActivateSnapshot and ActivateState, and that no file changed
\* between its hash and its scan.
ActiveEqualsRebuild == \A m \in Family \ (torn \union raced) : EqualsRebuild(m)

\* What a search can reach changes for one family at a time, and in one step: the activation of
\* the family's new snapshot.  No other statement of any run, finished or stopped, shows.
SearchChangesByActivation ==
  [][\A m \in Family : Searchable(m)' # Searchable(m) =>
       /\ \E r \in Run : fam[r] = m /\ pc[r] = "walk" /\ current' = [current EXCEPT ![m] = r]
       /\ \A n \in Family \ {m} : Searchable(n)' = Searchable(n)]_vars

\* Once no run is live and none stopped between its two activations, manifest.json tells the
\* logical hash of the index beside it, which is what the remote sync compares.
ManifestDescribesIndex ==
  torn = {} /\ (\A r \in Run : ~Live(r)) => manifest.index = LogicalIndex

\* index.mdx: unchanged files reuse the file-hash cache and snapshot data instead of rebuilding
\* everything from scratch.  What is reused must be what a rebuild of the hashed content gives.
ReusedAsRebuilt(r) ==
  ReuseFile(r) => rows'[r] = rows[r] \union RowsOf(file[r][1], file[r][2], settings[r])

\* Violated: a run that stops after ActivateSnapshot leaves the hashes of the snapshot before.
ReuseSurvivesStop == [][\A r \in Run : fam[r] \notin raced => ReusedAsRebuilt(r)]_vars

\* Violated: a file edited between hashSourceFile and readSourceFile.
ReuseSurvivesEdit == [][\A r \in Run : fam[r] \notin torn => ReusedAsRebuilt(r)]_vars
=============================================================================
