------------------------------ MODULE RemoteSync ------------------------------
(***************************************************************************)
(* The published index of a repository and one .semsearch directory bound  *)
(* to it (internal/semsearch/remote.go, manifest.go, init.go, ci.go;       *)
(* internal/cli/remote.go, bind.go, index.go, search.go).                  *)
(*                                                                         *)
(* CI jobs restore the published files, index a checkout and publish       *)
(* manifest.json, index.db and filehashes.db by one push.  The directory   *)
(* fetches the three files by three requests and replaces its own one by   *)
(* one; it is also indexed locally, loaded from the artifact of a commit,  *)
(* bound again, taken offline and interrupted anywhere.  Commands on the   *)
(* directory run one at a time.                                            *)
(*                                                                         *)
(* An index is the tree it describes, and so is its logical hash; a        *)
(* filehashes.db is the tree its active hashes were taken from.            *)
(***************************************************************************)
EXTENDS Naturals

CONSTANTS
  Content,       \* trees that are indexed
  Deployed,      \* trees whose index may have been published before
  Url,           \* workflow URLs a directory may be bound to
  PublisherUrl,  \* the one the workflow itself writes
  Job,           \* the CI jobs there will be, which may overlap
  None,          \* no file, no hash, no binding, a job not yet started
  Done,          \* a job that has succeeded or failed
  Empty,         \* an index without active snapshot; hashes without active state
  Old,           \* an index of an older schema
  Corrupt,       \* a manifest truncated and not yet written
  MaxVersion, MaxCrashes

ASSUME ContentAssumption ==
  /\ Deployed \subseteq Content /\ PublisherUrl \in Url
  /\ {None, Done, Empty, Old, Corrupt} \cap (Content \union Url) = {}
  /\ None \notin {Done, Empty, Old, Corrupt} /\ Done \notin {Empty, Old, Corrupt}
  /\ Empty \notin {Old, Corrupt} /\ Old # Corrupt
  /\ MaxVersion \in Nat \ {0} /\ MaxCrashes \in Nat

VARIABLES
  page,      \* the files under gh-pages/semsearch
  job,       \* what each CI job has restored or built
  artifacts, \* semsearch-index artifacts of the jobs that succeeded
  online,    \* GETs are answered
  db,        \* index.db
  fh,        \* filehashes.db
  manifest,  \* manifest.json
  pc,        \* where the running command is, "idle" between commands
  cont,      \* where it goes on after WriteManifest
  out,       \* the manifest it is about to write or has fetched
  data,      \* the index it has fetched, or the tree it has indexed
  behind,    \* files not yet brought in line since index.db last changed
  suspect,   \* a stop or a publication may have left hashes of another index
  crashes    \* number of interrupted commands

remoteVars == <<page, job, artifacts>>
dirVars    == <<db, fh, manifest>>
cmdVars    == <<pc, cont, out, data>>
histVars   == <<behind, suspect, crashes>>
vars       == <<page, job, artifacts, online, db, fh, manifest, pc, cont, out, data,
                behind, suspect, crashes>>

\* `mixed` is history: the hashes, or those the index was built on, came from another publication
\* than the index they were published with.
Body     == Content \union {Empty, Old}
Manifest == [version : 0..MaxVersion, hash : Body \union {None}, url : Url \union {None}]
Files    == [version : 0..MaxVersion, body : Body, files : Content \union {None}, mixed : BOOLEAN]
JobState == [phase : {"hashes", "build", "publish"}, version : 0..MaxVersion,
             body : Content \union {Empty}, files : Content \union {None}, mixed : BOOLEAN]

\* The marks are not records.
ASSUME MarkAssumption == {None, Done, Corrupt} \cap (Manifest \union Files \union JobState) = {}

DefaultManifest == [version |-> 0, hash |-> None, url |-> None]
HasRemoteBinding(m) == m \notin {None, Corrupt} /\ m.url # None

\* fetchPublishedManifest and normalizePublishedManifest: the job has bound its manifest.
PublishedManifest == [version |-> page.version, hash |-> page.body, url |-> PublisherUrl]

Published(v, b, f) == [version |-> v, body |-> b, files |-> f, mixed |-> FALSE]

Init ==
  /\ page \in {None} \union {Published(1, Old, None)} \union {Published(1, c, c) : c \in Deployed}
  /\ job = [j \in Job |-> None] /\ artifacts = {} /\ online = TRUE
  /\ \/ db = None /\ fh = None /\ manifest = None
     \/ /\ db = Old /\ fh \in Content \union {None}
        /\ manifest = [version |-> 1, hash |-> Old, url |-> None]
  /\ pc = "idle" /\ cont = "idle" /\ out = None /\ data = None
  /\ behind = {} /\ suspect = FALSE /\ crashes = 0

-----------------------------------------------------------------------------
(* The index that `unch index` activates: the rows of the base snapshot are  *)
(* copied when the hashes on disk are those of the tree.                     *)

Reuses(base, hashes, c) == base \in Content /\ hashes = c
Indexed(base, hashes, c) == IF Reuses(base, hashes, c) THEN base ELSE c

-----------------------------------------------------------------------------
(* CI jobs: .github/workflows/unch-index-reusable.yml as ci.go generates it.  *)

StartAnew(v) == [phase |-> "build", version |-> v, body |-> Empty, files |-> None,
                 mixed |-> FALSE]

\* Faulty variant: an index of an older schema is taken as the base.
RestoredAny(restore) ==
  IF ~restore \/ page = None
  THEN StartAnew(0)
  ELSE [phase |-> "hashes", version |-> page.version, body |-> page.body, files |-> None,
        mixed |-> FALSE]

\* "Restore published remote index": bind, then remote sync --allow-missing, or neither when a
\* rebuild is forced.  An index of an older schema leaves its version behind and no index.
Restored(restore) ==
  IF ~restore \/ page = None
  THEN StartAnew(0)
  ELSE IF page.body = Old
  THEN StartAnew(page.version)
  ELSE [phase |-> "hashes", version |-> page.version, body |-> page.body, files |-> None,
        mixed |-> FALSE]

JobRestore(j) ==
  /\ job[j] = None
  /\ \E restore \in BOOLEAN : job' = [job EXCEPT ![j] = Restored(restore)]
  /\ UNCHANGED <<page, artifacts, online, dirVars, cmdVars, histVars>>

\* The index came from an earlier request: another job may have published since.
JobRestoreHashes(j) ==
  /\ job[j] \notin {None, Done} /\ job[j].phase = "hashes"
  /\ job' = [job EXCEPT ![j].phase = "build", ![j].files = page.files,
                        ![j].mixed = page.mixed \/ page.version # job[j].version
                                                \/ page.body # job[j].body]
  /\ UNCHANGED <<page, artifacts, online, dirVars, cmdVars, histVars>>

\* "Build local search index": init, index, bind.
JobBuild(j) ==
  /\ job[j] \notin {None, Done} /\ job[j].phase = "build" /\ job[j].version < MaxVersion
  /\ \E c \in Content :
       job' = [job EXCEPT ![j] = [phase |-> "publish", version |-> job[j].version + 1,
                                  body |-> Indexed(job[j].body, job[j].files, c), files |-> c,
                                  mixed |-> job[j].mixed /\ Reuses(job[j].body, job[j].files, c)]]
  /\ UNCHANGED <<page, artifacts, online, dirVars, cmdVars, histVars>>

Built(j) == [version |-> job[j].version, body |-> job[j].body, files |-> job[j].files,
             mixed |-> job[j].mixed]

\* "Upload search index": downloads look at the artifacts of runs that succeeded.
Succeed(j) == artifacts' = artifacts \union {Built(j)} /\ job' = [job EXCEPT ![j] = Done]

\* "Publish remote search index": one commit, one push.
JobPublish(j) ==
  /\ job[j] \notin {None, Done} /\ job[j].phase = "publish"
  /\ page' = Built(j) /\ Succeed(j)
  /\ UNCHANGED <<online, dirVars, cmdVars, histVars>>

\* The publish job is left out when skip_publish is set.
JobSkipsPublish(j) ==
  /\ job[j] \notin {None, Done} /\ job[j].phase = "publish"
  /\ Succeed(j)
  /\ UNCHANGED <<page, online, dirVars, cmdVars, histVars>>

\* A step of the job fails, or the push is rejected.
JobFails(j) ==
  /\ job[j] \notin {None, Done}
  /\ job' = [job EXCEPT ![j] = Done]
  /\ UNCHANGED <<page, artifacts, online, dirVars, cmdVars, histVars>>

Network ==
  /\ online' = ~online
  /\ UNCHANGED <<remoteVars, dirVars, cmdVars, histVars>>

-----------------------------------------------------------------------------
(* Steps of a command; WriteManifest truncates the file and then fills it.   *)

Goto(label) == pc' = label /\ UNCHANGED <<cont, out, data>>

WriteThen(m, label) == pc' = "write" /\ out' = m /\ cont' = label

\* Commands that end with the write of the manifest.
Endings == {"failed", "bound", "downloaded", "artifact"}

\* The command ends, with a report or an error.
Return == pc' = "idle" /\ cont' = "idle" /\ out' = None /\ data' = None

TruncateManifest ==
  /\ pc = "write"
  /\ manifest' = Corrupt
  /\ Goto("fill")
  /\ UNCHANGED <<remoteVars, online, db, fh, histVars>>

\* The writes that follow a hash of index.db bring the manifest in line with it.
FillManifest ==
  /\ pc = "fill"
  /\ manifest' = out
  /\ behind' = IF cont \in {"activate", "downloaded", "artifact"} THEN behind \ {"manifest"}
               ELSE behind
  /\ \/ cont \in Endings /\ Return
     \/ cont \notin Endings /\ Goto(cont)
  /\ UNCHANGED <<remoteVars, online, db, fh, suspect, crashes>>

\* EnsureManifest, and where the command goes on; a manifest nobody can decode ends it.
EnsureManifest(label) ==
  \/ manifest = None /\ WriteThen(DefaultManifest, label) /\ UNCHANGED data
  \/ manifest = Corrupt /\ Return
  \/ manifest \notin {None, Corrupt} /\ Goto(label)

\* Nothing is reused from an empty index, whatever hashes there are.
NewIndex(body) ==
  db' = body /\ behind' = {"manifest"} \union (IF body = Empty THEN {} ELSE {"hashes"})

-----------------------------------------------------------------------------
(* `unch remote sync`, which also begins every `unch search`                 *)

\* ReadManifest; without a binding nothing is checked.
StartSync ==
  /\ pc = "idle" /\ HasRemoteBinding(manifest)
  /\ pc' = "fetchManifest" /\ out' = None
  /\ UNCHANGED <<remoteVars, online, dirVars, cont, data, histVars>>

\* Faulty variant: the hashes are not compared.
NeedsDownloadByVersion(m) == db = None \/ manifest.version # m.version

\* Faulty variant: only a higher version is downloaded.
NeedsDownloadIfNewer(m) == db = None \/ manifest.version < m.version

\* needsDownload of SyncRemoteIndex.
NeedsDownload(m) ==
  db = None \/ manifest.version # m.version \/ manifest.hash # m.hash

\* handleRemoteManifestFetchError: the local cache, or an error where there is none.
FetchManifestFails ==
  /\ pc = "fetchManifest" /\ (~online \/ page = None)
  /\ Return
  /\ UNCHANGED <<remoteVars, online, dirVars, histVars>>

FetchManifest ==
  /\ pc = "fetchManifest" /\ online /\ page # None
  /\ out' = PublishedManifest
  /\ pc' = IF NeedsDownload(PublishedManifest) THEN "fetchIndex"
           ELSE IF manifest # PublishedManifest THEN "write" ELSE "missingHashes"
  /\ cont' = "missingHashes"
  /\ UNCHANGED <<remoteVars, online, dirVars, data, histVars>>

\* Up to date: hashes are fetched where there are none, and a failure is ignored.
FetchMissingHashes ==
  /\ pc = "missingHashes"
  /\ fh' = IF fh = None /\ online THEN page.files ELSE fh
  /\ suspect' = IF fh' # fh THEN (page.mixed \/ out # PublishedManifest \/ "manifest" \in behind)
              ELSE suspect
  /\ Return
  /\ UNCHANGED <<remoteVars, online, db, manifest, behind, crashes>>

\* downloadPublishedIndex, activateDownloadedIndex: the index as it is published by now must
\* have the hash of the manifest fetched before.
FetchIndexFails ==
  /\ pc = "fetchIndex"
  /\ ~online \/ (page.body # Old /\ page.body # out.hash)
  /\ Return
  /\ UNCHANGED <<remoteVars, online, dirVars, histVars>>

\* Faulty variant: an index of an older schema replaces the local one.
FetchOldIndexAnyway ==
  /\ pc = "fetchIndex" /\ online /\ page.body = Old
  /\ data' = page.body /\ pc' = "replaceIndex"
  /\ UNCHANGED <<remoteVars, online, dirVars, cont, out, histVars>>

FetchOldIndex ==
  /\ pc = "fetchIndex" /\ online /\ page.body = Old
  /\ \/ db # None /\ Return
     \/ db = None /\ WriteThen(out, "failed") /\ UNCHANGED data
  /\ UNCHANGED <<remoteVars, online, dirVars, histVars>>

\* Faulty variant: the fetched index is not compared with the manifest.
FetchIndexUnverified ==
  /\ pc = "fetchIndex" /\ online /\ page.body # Old
  /\ data' = page.body /\ pc' = "replaceIndex"
  /\ UNCHANGED <<remoteVars, online, dirVars, cont, out, histVars>>

FetchIndex ==
  /\ pc = "fetchIndex" /\ online /\ page.body # Old /\ page.body = out.hash
  /\ data' = page.body /\ pc' = "replaceIndex"
  /\ UNCHANGED <<remoteVars, online, dirVars, cont, out, histVars>>

ReplaceIndex ==
  /\ pc = "replaceIndex"
  /\ NewIndex(data)
  /\ Goto("fetchHashes")
  /\ UNCHANGED <<remoteVars, online, fh, manifest, suspect, crashes>>

\* Faulty variant: hashes that cannot be replaced are kept.
FetchHashesOrKeep ==
  /\ pc = "fetchHashes"
  /\ fh' = IF online THEN page.files ELSE fh
  /\ behind' = behind \ {"hashes"}
  /\ suspect' = (online /\ (page.mixed \/ out # PublishedManifest))
  /\ WriteThen(out, "downloaded") /\ UNCHANGED data
  /\ UNCHANGED <<remoteVars, online, db, manifest, crashes>>

\* downloadPublishedFileHashes: unverified; without them the old ones are removed.
FetchHashes ==
  /\ pc = "fetchHashes"
  /\ fh' = IF online THEN page.files ELSE None
  /\ behind' = behind \ {"hashes"}
  /\ suspect' = (online /\ (page.mixed \/ out # PublishedManifest))
  /\ WriteThen(out, "downloaded") /\ UNCHANGED data
  /\ UNCHANGED <<remoteVars, online, db, manifest, crashes>>

-----------------------------------------------------------------------------
(* `unch bind ci`, `unch remote download --commit`                           *)

StartBind ==
  /\ pc = "idle"
  /\ EnsureManifest("bind")
  /\ UNCHANGED <<remoteVars, online, dirVars, histVars>>

\* BindRemoteManifest: version and hash stay.
BindManifest ==
  /\ pc = "bind"
  /\ \E u \in Url : WriteThen([manifest EXCEPT !.url = u], "bound")
  /\ UNCHANGED <<remoteVars, online, dirVars, data, histVars>>

StartDownload ==
  /\ pc = "idle"
  /\ EnsureManifest("fetchArtifact")
  /\ UNCHANGED <<remoteVars, online, dirVars, histVars>>

FetchArtifactFails ==
  /\ pc = "fetchArtifact" /\ (~online \/ artifacts = {})
  /\ Return
  /\ UNCHANGED <<remoteVars, online, dirVars, histVars>>

\* The three files of one archive: they belong together.
FetchArtifact ==
  /\ pc = "fetchArtifact" /\ online
  /\ \E a \in artifacts :
       /\ out' = [version |-> a.version, hash |-> a.body, url |-> None]
       /\ data' = a.files /\ NewIndex(a.body) /\ suspect' = a.mixed
  /\ pc' = "artifactHashes"
  /\ UNCHANGED <<remoteVars, online, fh, manifest, cont, crashes>>

WriteArtifactHashes ==
  /\ pc = "artifactHashes"
  /\ fh' = data /\ behind' = behind \ {"hashes"}
  /\ WriteThen(out, "artifact") /\ UNCHANGED data
  /\ UNCHANGED <<remoteVars, online, db, manifest, suspect, crashes>>

-----------------------------------------------------------------------------
(* `unch index`                                                              *)

\* ReadManifest, confirmRemoteReindex, filehashdb.Open.
StartIndex ==
  /\ pc = "idle" /\ manifest # Corrupt
  /\ manifest # None => manifest.version < MaxVersion
  /\ fh' = IF fh = None THEN Empty ELSE fh
  /\ pc' = "open" /\ out' = None
  /\ UNCHANGED <<remoteVars, online, db, manifest, cont, data, histVars>>

\* indexdb.Open creates a missing database and resets one of an older schema.
OpenIndex ==
  /\ pc = "open"
  /\ IF db \in {None, Old} THEN NewIndex(Empty) ELSE UNCHANGED <<db, behind>>
  /\ Goto("run")
  /\ UNCHANGED <<remoteVars, online, fh, manifest, suspect, crashes>>

\* indexdb.Open of a search, which for the MCP server no sync precedes.
OpenForSearch ==
  /\ pc = "idle" /\ db \in {None, Old}
  /\ NewIndex(Empty)
  /\ Return
  /\ UNCHANGED <<remoteVars, online, fh, manifest, suspect, crashes>>

\* Service.Run up to ActivateSnapshot, over the tree c.
ActivateSnapshot ==
  /\ pc = "run"
  /\ \E c \in Content :
       /\ NewIndex(Indexed(db, fh, c)) /\ data' = c
       /\ suspect' = (suspect /\ Reuses(db, fh, c))
  /\ pc' = "ensure"
  /\ UNCHANGED <<remoteVars, online, fh, manifest, cont, out, crashes>>

EnsureIndexManifest ==
  /\ pc = "ensure"
  /\ EnsureManifest("update")
  /\ UNCHANGED <<remoteVars, online, dirVars, histVars>>

UpdateIndexManifest ==
  /\ pc = "update"
  /\ WriteThen([version |-> manifest.version + 1, hash |-> db, url |-> None], "activate")
  /\ UNCHANGED <<remoteVars, online, dirVars, data, histVars>>

\* Store.ActivateState.
ActivateState ==
  /\ pc = "activate"
  /\ fh' = data /\ behind' = behind \ {"hashes"}
  /\ Return
  /\ UNCHANGED <<remoteVars, online, db, manifest, suspect, crashes>>

-----------------------------------------------------------------------------
\* The process is killed, or a step returns an error: nothing is undone.
Stop ==
  /\ pc # "idle" /\ crashes < MaxCrashes
  /\ crashes' = crashes + 1
  /\ suspect' = (suspect \/ "hashes" \in behind) /\ behind' = behind \ {"hashes"}
  /\ Return
  /\ UNCHANGED <<remoteVars, online, dirVars>>

WriteManifest == TruncateManifest \/ FillManifest
Sync == FetchManifestFails \/ FetchManifest \/ FetchMissingHashes \/ FetchIndexFails
        \/ FetchOldIndex \/ FetchIndex \/ ReplaceIndex \/ FetchHashes
BindOrDownload == BindManifest \/ FetchArtifactFails \/ FetchArtifact \/ WriteArtifactHashes
Index == OpenIndex \/ ActivateSnapshot \/ EnsureIndexManifest \/ UpdateIndexManifest
         \/ ActivateState

Continue == WriteManifest \/ Sync \/ BindOrDownload \/ Index
Publisher(j) == JobRestore(j) \/ JobRestoreHashes(j) \/ JobBuild(j) \/ JobPublish(j)
                \/ JobSkipsPublish(j) \/ JobFails(j)

Next ==
  \/ \E j \in Job : Publisher(j)
  \/ Network
  \/ StartSync \/ StartBind \/ StartDownload \/ StartIndex \/ OpenForSearch
  \/ Continue
  \/ Stop

\* A running command goes on, and the user keeps searching, which starts with a sync.
Spec == Init /\ [][Next]_vars /\ WF_vars(Continue) /\ SF_vars(StartSync)

-----------------------------------------------------------------------------
Label == {"idle", "fetchManifest", "missingHashes", "fetchIndex", "replaceIndex", "fetchHashes",
          "write", "fill", "bind", "fetchArtifact", "artifactHashes", "open", "run", "ensure",
          "update", "activate"}

TypeOK ==
  /\ page \in {None} \union Files
  /\ job \in [Job -> {None, Done} \union JobState]
  /\ artifacts \subseteq Files /\ online \in BOOLEAN
  /\ db \in Body \union {None} /\ fh \in Content \union {None, Empty}
  /\ manifest \in Manifest \union {None, Corrupt} /\ out \in Manifest \union {None}
  /\ pc \in Label /\ cont \in Label \union Endings
  /\ data \in Content \union {None}
  /\ behind \subseteq {"manifest", "hashes"} /\ suspect \in BOOLEAN
  /\ crashes \in 0..MaxCrashes

\* Between commands the manifest can be read and names the logical hash of the index that is
\* there, unless a stop came between the change of index.db and the write of manifest.json.
ManifestDescribesIndex ==
  pc = "idle" =>
    /\ manifest = Corrupt => crashes > 0
    /\ manifest \in Manifest /\ manifest.hash \in Content /\ "manifest" \notin behind
       => db = manifest.hash

\* A sync that says it has downloaded the index leaves exactly the index and the manifest that were
\* published when it looked.  One that says it is up to date leaves that manifest, and that index
\* unless an earlier stop left the manifest behind the index; the code does not notice then.
SyncTellsTheTruth ==
  [][/\ FetchMissingHashes => manifest' = out /\ ("manifest" \notin behind => db' = out.hash)
     /\ FillManifest /\ cont = "downloaded" => manifest' = out /\ db' = out.hash]_vars

\* Between commands the hashes on disk are those of the indexed tree, so that the next run may
\* copy the rows of unchanged files, unless a stop or a publication came between two replacements.
HashesFitIndex ==
  pc = "idle" /\ ~suspect /\ fh \in Content /\ db \in Content => fh = db

\* A usable index is only ever replaced by a usable one: no failed, interrupted, older or
\* mismatching download removes it.
IndexNeverLost == [][(db \in Content) => (db' \in Content)]_db

\* There is a published index and the network, and between commands the directory is bound to it
\* and not half replaced.
Settled ==
  /\ online /\ page \in Files /\ page.body \in Content
  /\ pc = "idle" => HasRemoteBinding(manifest) /\ "manifest" \notin behind

\* If that stays so, the directory ends up with the published index and its version.
Converges ==
  <>[]Settled =>
    <>[](/\ page # None /\ db = page.body
         /\ manifest \notin {None, Corrupt} =>
              manifest.hash = page.body /\ manifest.version = page.version)
=============================================================================
