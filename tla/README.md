# TLA+ development of unch

`unch` indexes the symbols of a source tree into a local SQLite database with one embedding per
symbol and searches it by meaning or by words. This directory models the parts of it where steps
of several actors meet: the goroutines of the embedding pipeline; indexing runs that share the
files of one `.semsearch` directory with each other, with crashes and with edits; searches beside
those runs; a directory that follows an index published by CI; processes that install the native
libraries and the model; and the MCP server that keeps all of it open. TLC checks the models on
small instances; TLAPS proves for all values of the constants every invariant that a passing run
checks, and the refinement of the pipeline's promise.

## 1. Inventory

| Component (source) | State | Operations | Talks to | What is hard | What makes it correct |
|---|---|---|---|---|---|
| Embedding pipeline (`internal/indexing/service.go`, `runEmbeddingPipeline` and below) | channels `requests`, `jobs`, `results`, `done`; `pending`, `queue`, `active`, `inputClosed`; the run-wide set of queued hashes | queue, batch, dispatch, retry, split, back off, store, drain, close | the walk goroutine, `embeddingWorkerCount` workers, the provider, index.db | bounded channels in a cycle, cancellation at every select, retries and splits that share an attempt count, an error while the walk still sends | Run returns; every queued hash is stored before activation and stored once; attempts are bounded |
| Indexing run (`cli/index.go` `runIndex`, `Service.Run`, `handleFile`, `finalize`) | `runState`, the hashes of the active state, the building snapshot and state | walk, hash, reuse or reindex each file, activate, clean up, write the manifest, activate the hashes | index.db, filehashes.db, manifest.json, the tree | no transaction spans two statements, two databases are activated separately, files change while they are read, nothing keeps two processes apart | the active snapshot is complete and is what a rebuild would give; other families are untouched; the manifest describes the index |
| Snapshot store (`internal/indexdb/sqlite.go`, `hash.go`) | `index_snapshots`, `current_model_snapshots`, `snapshot_symbols`, one vector table per dimension | begin, insert, copy, activate, clean up, search, `LogicalHash`, schema reset | runs, searches, remote sync | clean-ups are global, reads take two statements | snapshots are immutable once active, embeddings referenced by an active snapshot stay |
| File-hash store (`internal/filehashdb/sqlite.go`) | `file_hash_states`, `file_hashes`, `current_model_states` | begin, insert, activate, clean up, `Current` | runs, remote sync | activated after the snapshot it belongs to | the active hashes are those of the active snapshot |
| Search (`internal/search/service.go`, `file_weights.go`) | none of its own | semantic, lexical, auto mode, ranking | snapshot store, embedder, file weights | id and rows are read by two statements, the nearest vectors are taken among all snapshots, weights reorder only the candidates | results come from one active snapshot, the nearest first, and a better match never scores less |
| Remote sync (`internal/semsearch/remote.go`, `manifest.go`, `ci.go`) | `manifest.json`, replaced `index.db` and `filehashes.db` | bind, sync, download an artifact; the CI job publishes | GitHub pages, runs, MCP | three files fetched and replaced one by one, crash in between, offline | the manifest never claims an index that is not there; hashes fit the index |
| MCP server and backend (`internal/mcp`, `cli/mcp_backend.go`) | a backend per directory, each with an embedder and connections to an index.db | one tool call at a time | everything else | long-lived connections to a file that others replace, one native runtime for all backends, one state directory for all with `--state-dir` | one response per request, with its identifier; searches show what was last reported, from the own workspace; the runtime is open as long as it is used |
| Model cache (`internal/runtime/model_cache.go`) | the model path, staging and activation names beside it | download, validate, repair, activate, clean up | other processes of the user, the network | several installers, clean-up of everybody's staging names, a kill between removal and rename | nothing but a whole model is ever at the path, and trying again installs it |
| Native libraries (`internal/runtime/yzma.go`, `fetch.go`) | `<state dir>/yzma`, its backup, staging directories | try release after release, extract, replace the directory | as above | a kill between two renames, two installers, links to links in archives | installed libraries are never lost, an archive is extracted as it describes itself |
| llama.cpp embedder (`internal/embed/llama`) | global load flag and reference count | New, Close, Embed | native code | failed New, repeated Close | the runtime is closed when nobody uses it, and not before |
| OpenRouter embedder (`internal/embed/openrouter`) | none | embed, embed a batch | HTTP | classes of errors | each error class is retried or split as intended |
| Scanner, tree-sitter, formatting (`internal/indexing/scanner.go`, `treesitter`, `internal/embed/format.go`) | none | extract symbols, build the document, hash it | - | pure functions over text | the same content and settings give the same rows and hashes |
| Tokens, file weights, paths, CLI, terminal, bench, npm, scripts, vendored sqlite-vec | small files or none | - | - | read-modify-write of the tokens file | - |

`PROJECT.json` lists every component with its status and every hazard with its line and the
properties that would catch it.

## 2. Plan

Done, in this order:

1. `EmbeddingPipeline`, with `SnapshotPromise` as its abstract specification, and proofs.
2. `IndexRun`: runs over the two databases and the manifest, with `IndexPromise` as its abstract
   specification, and proofs.
3. `RemoteSync`: manifest, index and hashes of one directory against a publisher, and proofs.
4. `ArchiveLinks`, `YzmaInstall`, `ModelCache`, composed by `PrepareEmbedder`.
5. `McpServer`: requests, workspaces, the native runtime, open connections against item 3's
   replacement of files.
6. `Search`: one search beside the runs of item 2, with its ranking.

Left: two commands at once on a remote-bound directory, schema upgrades of a shared index.db, the
request side of the OpenRouter embedder, the symbol extractors.

Theorems: every invariant and both refinements of the passing runs have one (section 5).

## 3. Modules

### EmbeddingPipeline, SnapshotPromise

One run of `Service.Run` from its first symbol to its return. `prod` is where the walk goroutine
is (`walk`, `send`: blocked in the select of `queueMissingEmbedding`, `insert`, `wait`: blocked on
`done`, `end`); `coord` is where the coordinator is (`loop`, `backoff`: asleep inside
`retryEmbeddingBatch`, `store`: between two `AddEmbedding` calls, `closing`: in `workers.Wait`,
`drain`, `end`). The head of the coordinator's loop is deterministic in the code and is so here:
a full batch is popped before anything is dispatched, and the select is entered only when nothing
can be dispatched (`Selecting`). `ctxDone` may become true at any moment; every select that
mentions `ctx.Done` has its own cancelled branch. `batched` chooses between a batch embedder and
llama.cpp's inline path.

Abstractions. A symbol is its embedding hash. A batch is a set of hashes with one attempt number,
because `popEmbeddingBatch` takes fresh requests only and a retry renumbers all items of a batch.
Channels and the slice `queue` are sets, so deliveries happen in any order, the code's included.
A provider's answer is one of six verdicts: vectors, a wrong number of vectors, or an error that
splits and/or is temporary, or neither. The turns on which the select receives from the closed
channel again and changes nothing are stuttering steps. When the loop is left its local variables
are dropped, which keeps the state space small and is invisible to the rest of the program.

`SnapshotPromise` is what a reader of index.db is promised: rows and embeddings are only added
before the activation, the activation is one step, happens once, and only when every row has its
embedding. The pipeline's `rows`, `stored` and `activated` are the refinement mapping.

### IndexRun

`runIndex` as a sequence of single statements. Every action is one SQL statement or one file
operation and names the function it stands for. A run is a number which is also its `snapshot_id` and its
`state_version` (both AUTOINCREMENT keys, of which only freshness matters). A file's hash is its
content, hash collisions are ignored. `NoFile` covers a path that is absent, binary or excluded.
`Settings` is what `BuildScannerFingerprint` covers; `Symbols` gives the rows of a content under
settings, `Key` the embedding hash of a row, `Dim` the vector table of a family. Rows of
`index_snapshots` are not modelled: nothing reads them. `CleanupInactiveSnapshots` and
`CleanupInactiveStates` are two statements each; the first statement of the former is the one
that matters here, both of the latter are actions. `UpdateIndexManifest` reads, hashes and writes
in one step, which is exact as long as one run is live.

Any step of a live run may be its last: `Stop` stands for an error return, a cancelled context
and a killed process alike, since none of them undoes anything. `Edit` changes any file at any
time, also between `hashSourceFile` and `readSourceFile`.

`Exclusive` says that no run starts while another is live. The code has no lock: with `Exclusive`
the model says what holds when the user runs one `unch index` per directory at a time; without
it, run `index_concurrent` shows what can happen. `torn` and `raced` are history variables:
families for which a run stopped between its two activations, and for which a file changed
between its two reads. They name precisely the two situations in which incremental indexing goes
wrong, each shown by a run of its own.

The two modules overlap on purpose at one point: IndexRun lets queued hashes be stored in any
order and waits for all of them before `ActivateSnapshot`. That is what `SnapshotPromise` and the
properties of `EmbeddingPipeline` guarantee.

### IndexPromise, IndexHistory

`IndexPromise` is what indexing runs promise a search, with nothing of snapshots, hashes, copies
and clean-ups: the index of a family changes in one step, and it is always a `Scan` of the tree,
every path in one content. A run does not see the tree at one instant, since files change while
it walks; what can be promised is that each path's content in the scan is one that the path had
since the run began (`had`), absence included. Families in `torn` or `raced` are out of the
promise, from that step on (`Distrust`).

`IndexHistory` adds `had` to `IndexRun` as a history variable: no action reads it, and `Begins`
(a run leaves `idle`) resets it. `LogicalIndex` and the families outside `torn` and `raced` are
the refinement mapping. A rebuild from recorded hashes (`ActiveEqualsRebuild`) could still miss
a file or tell an old content; the promise says that it does neither.

### RemoteSync

One `.semsearch` directory, the `gh-pages` files it is bound to, and the CI jobs that replace
them. `pc` is where the running command is; each fetch, each rename and both halves of
`os.WriteFile` in `WriteManifest` are actions, and `Stop` may end a command before any of them.
Commands: `SyncRemoteIndex` (also the beginning of every search), `BindRemoteManifest`,
`DownloadIndexArtifactForCommit`, `unch index`, and the `indexdb.Open` of a search that no sync
precedes. A job restores the published files or starts anew (`--force`), indexes, uploads its
artifact and publishes by one push, or fails; `Job` is the set of jobs there will be and
any of them may overlap.

An index is the tree it describes, which is also its logical hash; a `filehashes.db` is the tree
its active hashes come from. `behind` and `suspect` are history variables: the files not yet
brought in line with `index.db`, and whether a stop or a publication has come between two
replacements. They name the situations in which the promises do not hold: the index and its
hashes are fetched by separate requests and only the index is compared with a hash, so a
publication in between leaves hashes of another tree (`suspect`), and a stop leaves a manifest
that does not tell what is there (`behind`) until the next download or index run.

`SyncTellsTheTruth` has two halves. A sync that reports a download has left the published manifest
and index, without exception. A sync that reports "up to date" has the published manifest, and the
published index unless the manifest is `behind`: the code compares manifests and never looks at the
index, so after a stop between the replacement of the index and the write of the manifest it may report
"up to date" over another index. The property, and the theorem `SyncIsTruthful`, exempt that case;
neither says that it cannot happen.

Jobs suffer from the same race as directories, since the workflow has no concurrency group: a job
that restores the index, and after another publication the hashes, takes rows of the one tree for
rows of the other and publishes the mixture with hashes that hide it. `mixed` is a history field
of published files that names it; who fetches hashes of such files is `suspect` until a run
rebuilds the rows. What `HashesFitIndex` shows is that nothing else parts hashes from index.

A forced rebuild
publishes version 1 again; this is why version *and* hash are compared, and
mutant `NeedsDownloadIfNewer` shows what a comparison "newer" would do.

### ArchiveLinks, YzmaInstall, ModelCache, PrepareEmbedder

`PrepareEmbedder` is `prepareEmbedder` for llama.cpp: libraries, then model, then `llama.New`, by
processes that share the state directory and the model cache and know nothing of each other.
`ArchiveLinks` has the extraction as operators (`Extract`) beside what a reader of the archive
expects (`Described`); the loops of the code are recursive functions there, and what is reached
along links is defined without recursion, as the least closed set. In `YzmaInstall`, `dst` is the managed directory, `bak` its backup and
`stage[p]` the staging directory of a process; `replaceManagedDir` is `RemoveBackup`, `MoveOld`,
`MoveNew` or `MoveNewFails`, `DropBackup`. In `ModelCache`, `dest` is the model path, `temp[p]`
the download, `moved[p]` the activation name; `CleanupModelArtifacts` removes those of every
process. A rename of a directory over one that is not empty fails, as the operating system has it.

`shared` is chosen once: either processes prepare at the same time, once each, or users run
one at a time and again after failures. `LibraryNeverLost` is about two processes: then the libraries
survive whatever fails and whoever is killed. It would not hold for a third: between `MoveOld` and
`MoveNew` of one process `DropBackup` of another removes the backup, and when the rename then fails
or the process is killed, both directories are gone and the next run downloads the libraries
again. The same can happen to two processes that both run again after a success and a
fault. Without faults no number of processes loses anything (theorem `KeptUntilFaults`). A repair of an old model directory that is killed
after its first rename leaves an empty directory which every later run refuses
(`Unrepairable`), and so does a directory that has no `.gguf` file, several, or one without a GGUF
header (`repairInstalledModel` validates the file before it moves it); `Recovers` names these cases
instead of hiding them. A directory at the model path is the set of its `.gguf` files with at most
one of either kind.

### McpServer

The server reads one request at a time; `at` is where it is. Requests bear identifiers that
the client chooses, the same one twice if it likes; an answer bears that of its request, or null
when none could be decoded. An answer that cannot be written ends the session (`WriteFails`).

The workspace of a request selects a backend (`children`), which keeps an embedder and a `Store`
from its first use on. Where its `index.db` is, `StateDir` says: in the workspace, or, when the server
was started with `--state-dir` or `--db` (`explicit`), in one directory for all of them. Backends
of two workspaces then run over one index, and a search in the one shows what was indexed for the
other. `AnswersFromWorkspace` is therefore about servers without these flags. Yet
`mintlify/commands/mcp.mdx:32` says without an exception that the `directory` argument makes the
server operate "on the workspace being edited".

A `Store` is a `sql.DB`, which is a pool of connections and no open file. `files[s]` has all files
that have been at the path of `index.db` in a state directory, the present one last (none before
the first command or request makes one), and `pool[w]` has, by their number there, the files the
connections of a backend have open. A download renames a new file over the
path and leaves connections where they are. A second connection is opened when the Store is used
twice at once, which only an OpenRouter run does (`indexJob` beside the coordinator): it is to the
file now at the path, so a run may write and a search read either of two files. The number
of an index is that of the run whose activation the file has seen last; that a run over two files
leaves its rows in both is not modelled. Bind and download requests name the repository of their
workspace; `published`, `artifacts` and `origin` are by workspace.

`libs` tells where the native libraries are: one path given by the user, a directory under each
state directory, or none because OpenRouter is used. The runtime is loaded from the first path and
refuses a second (`NewEmbedder`), so with libraries under each state directory a session can
search in one workspace only; the tools report an error for the others. `New` takes its reference
before it loads the model and gives it back when that fails: two actions, `NewEmbedder` and
`LoadModel` or `LoadModelFails`.

`reported` is a history variable, the index that the tools have last reported for a state directory;
commands of users and runs that fail after their activation make it unknown. `ReportedIsSearched` says that searches
then show it, provided that no file was put over one that a backend has open (`OnPath`). Without that
proviso it is false, and run `mcp_stale` shows how: `SearchUsesReportedIndex` states what the tools
are documented to do.

### Search

One call of `Service.Run`: each read is two statements, `CurrentSnapshot` and the rows, and
between any two the runs may take steps. Runs are as in `IndexRun` with one family, reduced to what a search can see:
rows, vectors, the active snapshot. `Nearest` is what the vector table returns: the nearest
vectors of the provider and model, of whatever snapshot, and any choice among ties. (sqlite-vec
narrows by provider and model, which are columns of the vector table, but not by snapshot, which
is a column of the joined one.) Distances,
weights and scores are integers in hundredths and ten thousandths. How well a symbol matches each
word of the query (`bestLexicalWeights` over the variants of `expandQueryToken`) is a record of
numbers per symbol. A ranking is any order that the comparison allows (`Sorted`): the candidates come
in no particular order, so a stable sort may leave equal hits either way. `quiet` is a history variable: no run was at work during the search and no
vectors were left by one that stopped.

Two things met on the way. Auto mode gives up `max-distance` when nothing is within it, although
the option is described as the maximum distance "kept in `auto` and `semantic` modes"
(`mintlify/commands/search.mdx`). And in auto mode `shouldPreferLexicalResults` can only choose
lexical results when there are no semantic ones: for a text that looks like code, the only one
for which it would compare, auto mode never gets there.

## 4. Runs

| Run | Instance | Shows |
|---|---|---|
| `embedding_pipeline` | 3 hashes, one of them possibly stored before; 2 workers; batches of 2; 2 attempts; `requests` of capacity 1; up to 3 symbols, repeats allowed; batch and inline embedders; cancellation at any time | type invariant, `ActivatedIsComplete`, `NoDoubleStore`, `SendsNeverBlock`, `AttemptsBounded`, `Termination`, refinement of `SnapshotPromise` |
| `index_families` | 1 path, 2 contents, 2 families in one vector table, 3 runs, one at a time | type invariant, `ActiveComplete`, `ActiveEqualsRebuild`, `ManifestDescribesIndex`, `SearchChangesByActivation` |
| `index_promise` | 2 paths, one content that declares two symbols or is absent, 1 family, 2 scanner settings, 2 runs, one at a time | `ActiveEqualsRebuild`, refinement of `IndexPromise` |
| `remote_sync` | 2 trees, one of them possibly published before; 2 workflow URLs; 2 CI jobs that may overlap; versions up to 2; one interruption | type invariant, `ManifestDescribesIndex`, `SyncTellsTheTruth`, `HashesFitIndex`, `IndexNeverLost`, `Converges` |
| `prepare_embedder` | 2 processes; 3 paths; archives with the link first or last, incomplete, broken; releases of up to 3 candidates; up to two faults; all archives of up to 3 entries in `StagedAsDescribed` | type invariant, `ResolvedIsUsable`, `StagedAsDescribed`, `LibraryNeverLost`, `Recovers` |
| `mcp_server` | 2 workspaces, with state directories of their own or one for both; 3 requests with one identifier, or none that can be decoded; 2 indexes built; 2 files at a path one after the other; user commands | type invariant, `RuntimeOpenIffUsed`, `AnsweredInOrder`, `AnswersFromWorkspace`, `ReportedIsSearched` |
| `mcp_stale` | as `mcp_server`, without user commands | `SearchUsesReportedIndex` is violated: the connection stays on the replaced file |
| `search` | 4 symbols in 2 files with 3 vectors, 2 snapshots, 1 or 2 results, 2 or 4 candidates, 18 settings of distances, weights and matches | type invariant, `ReadsActiveSnapshot`, `NearestAreShown`, `WeightsNeverPromote`, `BetterMatchesFirst`, `AutoFindsSomething` |
| `search_snapshot` | as `search` | `SnapshotSearchedAlone` is violated: vectors of other snapshots take the places |
| `index_stop` | 1 path, 2 contents, 1 family, 2 scanner settings, 3 runs, one at a time, with `ReuseSurvivesStop` | violated: a stop between the two activations |
| `index_edit` | as `index_stop` with `ReuseSurvivesEdit` | violated: an edit between the two reads of a file |
| `index_concurrent` | 2 paths, 2 families, 2 runs at once | `ActiveEqualsRebuild` is violated: one run's clean-up deletes rows of the other's building snapshot |

Why the bounds are enough. In the pipeline, a batch of 2 is the smallest that splits; 2 attempts
give a retry and its exhaustion; capacity 1 makes the producer block; 3 symbols fill a batch and
leave one pending, and let a hash repeat while it is in flight; 2 workers hold two batches at
once, the first size at which answers overtake each other. For the runs, three are needed to
index, to go wrong and to reuse; two contents tell a stale row from a fresh one (the second
declares one symbol more); two families exercise clean-up across families; one path suffices
where paths do not interact, and the concurrent run uses two, so that one can be lost and one
kept, as does `index_promise`, whose scan takes two paths at two instants; there a second run
reuses what the first has left, and one content is enough to be stale under the other settings or
in a path that is gone. `FamilySymmetry` permutes families, which are alike in everything.
For the remote, a published index and two jobs are needed to have a publication between two
fetches of a directory or of a job, and one stop leaves every half-done state that a later
command can meet. Two processes are what staging names and
backups are shared by; a release of three candidates has one without an archive, one that is
incomplete and one that works; two faults interrupt both processes, or one and its successor;
archives of three entries have links to links, cycles and links
before their files. Three requests prepare both workspaces and come back to the first, or search,
download and search again; an identifier and null tell answers in the wrong order, the proof is for any identifiers; two
files are the least that a connection can be left behind by, and two indexes the least that differ. For the
search, three vectors and two candidates are the least that a full table displaces, and four
symbols let two share a vector and two share a file.
`MaxRuns`, `MaxSymbols`, `MaxVersion`, `MaxCrashes`, `MaxFaults`, `MaxRequests`, `MaxBuilds`,
`MaxFiles` and `MaxSnapshots` are the only artificial bounds; all sit in guards.

Fairness. `embedding_pipeline`: weak fairness of the walk goroutine, of the
coordinator and of each worker, that is, of running goroutines. It asks of the world that a provider call
returns (the HTTP client has a timeout) and a back-off timer fires. The coordinator's
select chooses at random among ready cases, so an answer is received although the closed
`requests` channel is always ready. Cancellation is not fair: it may never happen.
`remote_sync`: a command that runs goes on (weak), and the user starts a sync again and again
(strong, because the guard needs a binding and no other command); `Converges` assumes that the
network and the binding stay. `prepare_embedder`: a process goes on (weak) and a user whose
command failed tries again (strong, since another process may be preparing); `Recovers` assumes
that the network stays and that a release can be installed. Nothing is assumed of CI jobs, kills
or the network itself. `mcp_server` and `search` check safety only.

Deadlock is checked for the pipeline, the index runs and the remote; the pipeline stutters
explicitly once `Run` has returned. `prepare_embedder`, `mcp_server` and `search` do end: all
processes ready, session closed, search done.

## 5. Proofs

`EmbeddingPipelineProofs`, for all sets of hashes and workers and all sizes:
`TypeCorrect`, `ActivationComplete`, `NoBlockedSend`, `AttemptLimit`, `StoredOnce`, and
`PromiseKept` (the pipeline implements `SnapshotPromise`). The inductive invariant has three parts. `Bounded` is
the type invariant with the accounting behind the channels: `active` is at least the number of
batches in `jobs`, with workers and in `results`, and at most the number of workers; `SendsNeverBlock` follows from it and is not
inductive without it, since nothing in the channels themselves limits them. `Phases` ties the
goroutines' places together: success is on `done` only after the coordinator left its loop
without error, and it can do so only once `requests` was closed, so no hash comes after it. `Tracked` says where each queued hash is: stored, or in the
channel, pending, in a batch, with a worker, in an answer or held. At `FinishOk` all of those but
the first are empty, hence every row is stored; that is `ActivatedIsComplete`. For `StoredOnce`
it is joined by `Once`: a hash is in one of those places at a time, and what is in any of them but
the table is in the run-wide set `seen`. A step moves hashes from one place to another, and both
facts survive such a move (lemma `Moved`); only the walk puts in new ones, and it consults `seen`.

`IndexRunProofs`, for all trees, families, settings, symbols, dimensions and numbers of runs:
`IndexTypeCorrect` without further assumptions, and under the assumption `Exclusive`
`ActiveCompleteHolds`, `IncrementalEqualsFull`, `ManifestDescribes`, `SearchSeesActivation` and
`IndexKeepsPromise` (below).
The invariant: `Shape` (whatever runs are live: an active version belongs to a run that got that far);
`Alone` (the live run's base is the active snapshot until it replaces it); `Stored` (what a building
snapshot refers to is in the table or with the pipeline); `Faithful` (the hashes a run trusts
are those of the snapshot it copies from, one hash per path, and rows plus the file at hand equal
a rebuild of what was hashed so far); `ManifestRight`. `ActiveEqualsRebuild` alone is not
inductive: reuse copies rows by hash, so it has to be known that these hashes belong to these
rows, which is `SameVersion` and `TrustsBase`, and it fails exactly for torn and raced families.

`IndexKeepsPromise`, in the same module and under `Exclusive` too: `IndexHistory` implements
`IndexPromise`. `HistoryInv` adds `Scanned`: what a walk has hashed is in `had`, and a path that it has
passed over was absent at some moment. At the activation nothing is left to visit, so the hashes
form a tree of contents that the paths had (`WalkIsTree`), the rows are its scan
(`RebuiltIsScan`, with `BuildsRebuilt`), and all of them are found (`SearchableIsRows`). A step that
begins a run, edits a file, activates, or makes a family suspect maps to the abstract step of that
name, every other one to a stutter, since `SearchKept` says that no clean-up shows.

`RemoteSyncProofs`, for all trees, all overlaps of the CI jobs and all bounds, from
`ContentAssumption` and `MarkAssumption` (the marks that are not trees differ from them and from
each other): `RemoteTypeCorrect`, `ManifestNamesIndex`, `HashesOfIndex`, `SyncIsTruthful` and
`UsableIndexKept`. The invariant has one part per side. `PageFits`, `JobsFit`, `ArtifactsFit`: a
published or uploaded index comes with its hashes unless its build took the two from two
publications (`mixed`). `Fetched` and `Written`: what a command has in memory, or is about to
write into the manifest, is of the index it has just put in place. `Versioned`: an index run has
a readable manifest and room for one more version. `ManifestFits`: a manifest tells of the index
there is unless it is marked as left behind. `HashesFit`: index and hashes belong together except
between the two replacements or after a stop or a publication there. `ManifestDescribesIndex`
speaks of commands at rest only and is not inductive: each command ends by writing a manifest it
made some steps earlier, and `Fetched` and `Written` carry what that manifest says through the
steps between, across publications.

`McpServerProofs`, for all workspaces and identifiers, bounds on requests, indexes and files, and
kinds of libraries, with and without a state directory for all, from `McpAssumption`:
`McpTypeCorrect`, `RuntimeInUse`, `OrderlyAnswers`, `OwnIndexShown` (for servers with a state directory
per workspace) and `ReportedIsFound`. `Counted` has the reference counter equal to the number of embedders that
backends hold, plus the one that is being made; it survives because `Named` knows that the workspace
being prepared has no embedder yet. `Queued` has the identifiers asked for as those answered and that of
the request at hand, which is the one left over when the session breaks. `Numbered` and
`Owned` carry the numbers and workspaces of indexes through builds, publications, downloads and every
file that has been at a path, since a connection may be to any of them. `Searched` ties `reported` to
the file at the path: a run over two connections reports an index that may be in the replaced file, but
then `OnPath` is false and stays so as long as the backend holds that connection.

`SearchProofs`, for all symbols, settings, limits and runs, from `SearchAssumption`:
`SearchTypeCorrect`, `ActiveSnapshotRead`, `NearestShown`, `WeightsDemoteOnly`, `BetterMatchesShown`
and `SomethingFound`. One half is about the operators: a finite set has a sorted list under any strict order
(`ListingExists`), both rankings use such orders (`OrdersAreStrict`), a nearer symbol with a weight
as high has the smaller sort distance (`NearerComesFirst`), and the lexical score grows with
every part of a match in spite of its exclusive bonuses and its cap (`ScoreIsMonotonic`). The
other half is the invariant: `Built` and `Watched` (a run fills only snapshots newer
than any that a search has read, and `seen` has every snapshot active since the search began),
`SemanticResult`, `LexicalResult` and `AutoResult` (what is shown is the ranking of some set of
nearest candidates of the snapshot read, or of its rows and perhaps others cleaned up since). The
properties at the end of a search follow from the last three and the lemmas about rankings.

`SmallestElements` has what stands in for induction, since the induction theorems of the library
take an operator as a parameter: that of some subsets of a finite set one is smallest, that a set
of numbers has a least element, and that a recursive function over `0..n` exists and follows its
equation. A statement for all lengths is then proved from a smallest counterexample or along such
a function.

`ArchiveLinksProofs`, for all archives of any length, from `ArchiveAssumption`: `ArchivesExtract`, which says
that extraction is what the archive describes. The loop over the entries keeps
`TreeRead` (each path has what its last file or directory put there), `Consistent` (no error as
long as those of a path are of one kind) and `LinksRead` (the links, in order). For the links,
`ChainRepeats` is a pigeonhole: a chain longer than there are links comes back to a path, so that
`ResolvedTarget` is the one end that can be reached, or an error exactly if there is none
(`TargetIsEnd`). `Copied` then follows the loop that replaces links by copies: a link that was replaced
earlier is a file with the content its own chain ends in, so the order of the links does not matter.

`PrepareEmbedderProofs`, for all releases, archives and numbers of processes and of faults, from
`YzmaAssumption`, `ModelAssumption` and `ArchiveAssumption`: `PrepareTypeCorrect`,
`ResolvedStaysUsable`, `StagedIsDescribed`, `KeptUntilFaults`, and, if there are no more than two processes
(`AtMostTwo`), `LibrariesKept`. The invariant: `Placed` (a process is where its two parts are, and past the libraries
only when they were there), `Staged` (a staging directory holds all libraries of the
candidate until it is moved), `Alone` (without `shared` only one process prepares, and once libraries
are installed it never gets to replace them), `KeptWithoutFaults` (the managed directory is whole, or
gone with some process about to put its own there) and `KeptByTwo`. The last
says what two processes owe each other: one of them is past the libraries for good, so only the
other can have moved them, and the backup it moved them to is removed only by itself, later.
`LibraryNeverLost` is not inductive without knowing who made the backup.

Only model-checked: `Termination`, `Converges` and `Recovers`, as liveness is out of the prover's
reach, and the violated properties of the runs that expect a violation. That
`LibraryNeverLost` fails for three processes was seen with TLC and is not a run of its own, because
nothing in the repository promises it.

## 6. Not modelled

SQLite itself (each statement is atomic and durable), the text of documents and queries, their
normalisation and hashing, symbol extraction by the tree-sitter grammars, HTTP and JSON, terminal
output, schema upgrades of an open database, the confirmation asked before a remote-bound
directory is indexed. Two commands at once on a remote-bound directory: `RemoteSync` runs them
one at a time and interleaves the publisher only. Downloads from another repository than the one that publishes
the page, and `--db` with a file of another name than `index.db`, beside which the remote commands put
their own `index.db`. The tokens file, flag parsing, state directory
lookup beyond `StateDir`, the benchmark harness, packaging and third-party code: sequential code or pure I/O, as
`PROJECT.json` notes for each.
