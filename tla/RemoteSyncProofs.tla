-------------------------- MODULE RemoteSyncProofs --------------------------
(***************************************************************************)
(* Proofs about RemoteSync, for every set of trees, URLs and jobs, any     *)
(* overlap of the jobs, and any bounds on versions and interruptions.      *)
(*                                                                         *)
(* The inductive invariant follows the data: what is published fits        *)
(* together unless it is `mixed`; what a command has fetched fits the      *)
(* directory at each of its steps; the manifest fits index.db unless it is *)
(* `behind`; the hashes fit it unless a replacement is under way or they   *)
(* are `suspect`.                                                          *)
(***************************************************************************)
EXTENDS RemoteSync, TLAPS

-----------------------------------------------------------------------------
(* The inductive invariant.                                                  *)

\* What a record of published or built files says of itself.
Fits(f) == f.body \in Content /\ (~f.mixed /\ f.files \in Content => f.body = f.files)

PageFits == page # None =>
  \/ Fits(page)
  \/ page.body = Old /\ page.files = None

JobsFit == \A j \in Job : job[j] \notin {None, Done} =>
  /\ job[j].phase = "hashes" =>
       job[j].body \in Content /\ page # None /\ page.body \in Content
  /\ job[j].phase = "build" => (job[j].body \in Content => Fits(job[j]))
  /\ job[j].phase = "publish" => Fits(job[j]) /\ job[j].files \in Content

ArtifactsFit == \A a \in artifacts : Fits(a) /\ a.files \in Content

Writing == pc \in {"write", "fill"}

\* `unch index` between its two activations.
Activating == \/ pc \in {"ensure", "update", "activate"}
              \/ Writing /\ cont \in {"update", "activate"}

\* index.db has been replaced, filehashes.db not yet.
Replacing == pc \in {"fetchHashes", "artifactHashes"} \/ Activating

\* A manifest m may be written, or is there, without telling of another index than there is.
Tells(m) == m.hash # None => db = m.hash \/ (db = None /\ m.hash = Old)

Fetched ==
  /\ pc \in {"fetchIndex", "replaceIndex", "fetchHashes", "artifactHashes"} => out \in Manifest
  /\ pc \in {"fetchIndex", "replaceIndex", "fetchHashes", "missingHashes"} => page # None
  /\ pc = "fetchIndex" => /\ out.hash \in Content \union {Old}
                          /\ page.body = Old => out.hash = Old
  /\ pc = "replaceIndex" => data \in Content /\ out.hash = data
  /\ pc \in {"fetchHashes", "artifactHashes"} => out.hash = db
  /\ pc = "missingHashes" => manifest = out /\ ("manifest" \notin behind => db = out.hash)

Written == Writing =>
  /\ out \in Manifest
  /\ cont \in Endings \union {"missingHashes", "bind", "fetchArtifact", "update", "activate"}
  /\ cont \in {"downloaded", "artifact", "activate"} => out.hash = db
  /\ cont \in {"bind", "fetchArtifact", "update"} => out = DefaultManifest
  /\ cont \in {"bound", "failed"} => ("manifest" \notin behind => Tells(out))
  /\ cont = "missingHashes" => page # None /\ ("manifest" \notin behind => db = out.hash)

\* An index run has room for one more version, and a manifest it can read.
Versioned == pc \in {"open", "run", "ensure", "update"} =>
  manifest = None \/ (manifest \in Manifest /\ manifest.version < MaxVersion)

ManifestFits ==
  /\ pc \in {"fetchManifest", "missingHashes", "bind", "fetchArtifact", "update"}
       => manifest \in Manifest
  /\ manifest = Corrupt => pc = "fill" \/ crashes > 0
  /\ manifest \in Manifest /\ "manifest" \notin behind => Tells(manifest)

HashesFit ==
  /\ Replacing => /\ db \in Content /\ "hashes" \in behind
  /\ pc = "artifactHashes" \/ Activating => data \in Content /\ (~suspect => db = data)
  /\ ~Replacing /\ ~suspect /\ fh \in Content /\ db \in Content => fh = db

DirFits == Fetched /\ Written /\ Versioned /\ ManifestFits /\ HashesFit

IInv == TypeOK /\ PageFits /\ JobsFit /\ ArtifactsFit /\ DirFits

-----------------------------------------------------------------------------
(* What leaves one side alone.                                               *)

\* A step that touches neither page, jobs nor artifacts keeps what is said of them.
LEMMA RemoteUnchanged ==
  ASSUME IInv, UNCHANGED remoteVars
  PROVE  PageFits' /\ JobsFit' /\ ArtifactsFit'
  BY DEF IInv, remoteVars, PageFits, JobsFit, ArtifactsFit, Fits

\* A publication never takes the page away, and never brings back an index of an older schema:
\* what a running command knows of the page stays true.
LEMMA DirUnchanged ==
  ASSUME IInv, UNCHANGED <<dirVars, cmdVars, histVars>>,
         page' = page \/ (page' # None /\ page'.body \in Content)
  PROVE  DirFits'
  <1> USE ContentAssumption DEF IInv, DirFits, dirVars, cmdVars, histVars
  <1>1. Fetched'
    BY DEF Fetched
  <1>2. Written'
    BY DEF Written, Writing, Tells
  <1>3. Versioned' /\ ManifestFits'
    BY DEF Versioned, ManifestFits, Tells
  <1>4. HashesFit'
    BY DEF HashesFit, Replacing, Activating, Writing
  <1> QED
    BY <1>1, <1>2, <1>3, <1>4

-----------------------------------------------------------------------------
(* Writing the manifest.                                                   *)

\* A truncated manifest is the one that is being filled.
LEMMA TruncateManifestKeeps == ASSUME IInv, TruncateManifest PROVE IInv'
  <1> USE MarkAssumption
      DEF IInv, DirFits, TruncateManifest, Goto, remoteVars, histVars
  <1>1. TypeOK'
    BY DEF TypeOK, Label
  <1>2. PageFits' /\ JobsFit' /\ ArtifactsFit'
    BY RemoteUnchanged
  <1>3. Fetched'
    BY DEF Fetched
  <1>4. Written'
    BY DEF Written, Writing, Tells
  <1>5. Versioned'
    BY DEF Versioned
  <1>6. ManifestFits'
    BY DEF ManifestFits
  <1>7. HashesFit'
    BY DEF HashesFit, Replacing, Activating, Writing
  <1> QED
    BY <1>1, <1>2, <1>3, <1>4, <1>5, <1>6, <1>7

\* What is filled in is what `Written` says of `out`.
LEMMA FillManifestKeeps == ASSUME IInv, FillManifest PROVE IInv'
  <1> USE ContentAssumption, MarkAssumption
      DEF IInv, DirFits, FillManifest, Goto, Return, Label, DefaultManifest, remoteVars, dirVars,
          cmdVars, histVars
  <1>1. TypeOK'
    BY DEF TypeOK
  <1>2. PageFits' /\ JobsFit' /\ ArtifactsFit'
    BY RemoteUnchanged
  <1>3. Fetched'
    BY DEF Fetched, Written, Writing
  <1>4. Written'
    BY DEF Written, Writing
  <1>5. Versioned'
    BY DEF Written, Writing, Versioned
  <1>6. ManifestFits'
    BY DEF Written, Writing, ManifestFits, Tells, Endings
  <1>7. HashesFit'
    BY DEF Written, HashesFit, Replacing, Activating, Writing, Endings
  <1> QED
    BY <1>1, <1>2, <1>3, <1>4, <1>5, <1>6, <1>7

-----------------------------------------------------------------------------
(* `unch remote sync`.                                                     *)

\* A sync starts with a manifest that has been read.
LEMMA StartSyncKeeps == ASSUME IInv, StartSync PROVE IInv'
  <1> USE ContentAssumption
      DEF IInv, DirFits, StartSync, HasRemoteBinding, remoteVars, dirVars, histVars
  <1>1. TypeOK'
    BY DEF TypeOK, Label
  <1>2. PageFits' /\ JobsFit' /\ ArtifactsFit'
    BY RemoteUnchanged
  <1>3. Fetched'
    BY DEF Fetched
  <1>4. Written'
    BY DEF Written, Writing
  <1>5. Versioned'
    BY DEF Versioned
  <1>6. ManifestFits'
    BY DEF TypeOK, ManifestFits, Tells
  <1>7. HashesFit'
    BY DEF HashesFit, Replacing, Activating, Writing
  <1> QED
    BY <1>1, <1>2, <1>3, <1>4, <1>5, <1>6, <1>7

\* A sync that reaches nothing changes nothing.
LEMMA FetchManifestFailsKeeps == ASSUME IInv, FetchManifestFails PROVE IInv'
  <1> USE ContentAssumption
      DEF IInv, DirFits, FetchManifestFails, Return, remoteVars, dirVars, histVars
  <1>1. TypeOK'
    BY DEF TypeOK, Label
  <1>2. PageFits' /\ JobsFit' /\ ArtifactsFit'
    BY RemoteUnchanged
  <1>3. Fetched'
    BY DEF Fetched
  <1>4. Written'
    BY DEF Written, Writing
  <1>5. Versioned'
    BY DEF Versioned
  <1>6. ManifestFits'
    BY DEF ManifestFits, Tells
  <1>7. HashesFit'
    BY DEF HashesFit, Replacing, Activating, Writing
  <1> QED
    BY <1>1, <1>2, <1>3, <1>4, <1>5, <1>6, <1>7

\* The local index is left alone only if its hash is the published one.
LEMMA FetchManifestKeeps == ASSUME IInv, FetchManifest PROVE IInv'
  <1> USE ContentAssumption
      DEF IInv, DirFits, FetchManifest, NeedsDownload, PublishedManifest, remoteVars, dirVars,
          histVars
  <1>1. TypeOK'
    BY DEF TypeOK, Label, Manifest, Files
  <1>2. PageFits' /\ JobsFit' /\ ArtifactsFit'
    BY RemoteUnchanged
  <1>3. page \in Files /\ (page.body \in Content \/ page.body = Old)
    BY DEF TypeOK, PageFits, Fits
  <1>4. out' \in Manifest /\ out'.hash = page.body
    BY <1>3 DEF Files, Manifest
  <1>5. Fetched'
    BY <1>3, <1>4 DEF Fetched, ManifestFits, Tells
  <1>6. Written'
    BY <1>3, <1>4 DEF Written, Writing, ManifestFits, Tells
  <1>7. Versioned'
    BY DEF Versioned
  <1>8. ManifestFits'
    BY DEF ManifestFits, Tells
  <1>9. HashesFit'
    BY DEF HashesFit, Replacing, Activating, Writing
  <1> QED
    BY <1>1, <1>2, <1>5, <1>6, <1>7, <1>8, <1>9

\* Hashes fetched for a kept index are of it unless they are `suspect`.
LEMMA FetchMissingHashesKeeps == ASSUME IInv, FetchMissingHashes PROVE IInv'
  <1> USE ContentAssumption
      DEF IInv, DirFits, FetchMissingHashes, Return, PublishedManifest, remoteVars
  <1>1. TypeOK'
    BY DEF TypeOK, Label, Files, Fetched
  <1>2. PageFits' /\ JobsFit' /\ ArtifactsFit'
    BY RemoteUnchanged
  <1>3. Fetched'
    BY DEF Fetched
  <1>4. Written'
    BY DEF Written, Writing
  <1>5. Versioned'
    BY DEF Versioned
  <1>6. ManifestFits'
    BY DEF ManifestFits, Tells
  <1>7. HashesFit'
    BY DEF TypeOK, PageFits, Fits, Fetched, HashesFit, Replacing, Activating, Writing
  <1> QED
    BY <1>1, <1>2, <1>3, <1>4, <1>5, <1>6, <1>7

\* A failed or mismatching download changes nothing.
LEMMA FetchIndexFailsKeeps == ASSUME IInv, FetchIndexFails PROVE IInv'
  <1> USE ContentAssumption
      DEF IInv, DirFits, FetchIndexFails, Return, remoteVars, dirVars, histVars
  <1>1. TypeOK'
    BY DEF TypeOK, Label
  <1>2. PageFits' /\ JobsFit' /\ ArtifactsFit'
    BY RemoteUnchanged
  <1>3. Fetched'
    BY DEF Fetched
  <1>4. Written'
    BY DEF Written, Writing
  <1>5. Versioned'
    BY DEF Versioned
  <1>6. ManifestFits'
    BY DEF ManifestFits, Tells
  <1>7. HashesFit'
    BY DEF HashesFit, Replacing, Activating, Writing
  <1> QED
    BY <1>1, <1>2, <1>3, <1>4, <1>5, <1>6, <1>7

\* The manifest of an older index is written only where there is no index.
LEMMA FetchOldIndexKeeps == ASSUME IInv, FetchOldIndex PROVE IInv'
  <1> USE ContentAssumption
      DEF IInv, DirFits, FetchOldIndex, Return, WriteThen, remoteVars, dirVars, histVars
  <1>1. TypeOK'
    BY DEF TypeOK, Label, Endings
  <1>2. PageFits' /\ JobsFit' /\ ArtifactsFit'
    BY RemoteUnchanged
  <1>3. Fetched'
    BY DEF Fetched
  <1>4. Written'
    BY DEF Fetched, Written, Writing, Tells, Endings
  <1>5. Versioned'
    BY DEF Versioned
  <1>6. ManifestFits'
    BY DEF ManifestFits, Tells
  <1>7. HashesFit'
    BY DEF HashesFit, Replacing, Activating, Writing
  <1> QED
    BY <1>1, <1>2, <1>3, <1>4, <1>5, <1>6, <1>7

\* A fetched index has the hash of the fetched manifest.
LEMMA FetchIndexKeeps == ASSUME IInv, FetchIndex PROVE IInv'
  <1> USE ContentAssumption
      DEF IInv, DirFits, FetchIndex, remoteVars, dirVars, histVars
  <1>1. TypeOK'
    BY DEF TypeOK, Label, Fetched
  <1>2. PageFits' /\ JobsFit' /\ ArtifactsFit'
    BY RemoteUnchanged
  <1>3. Fetched'
    BY DEF Fetched
  <1>4. Written'
    BY DEF Written, Writing
  <1>5. Versioned'
    BY DEF Versioned
  <1>6. ManifestFits'
    BY DEF ManifestFits, Tells
  <1>7. HashesFit'
    BY DEF HashesFit, Replacing, Activating, Writing
  <1> QED
    BY <1>1, <1>2, <1>3, <1>4, <1>5, <1>6, <1>7

\* The fetched index is in place, its hashes are not.
LEMMA ReplaceIndexKeeps == ASSUME IInv, ReplaceIndex PROVE IInv'
  <1> USE ContentAssumption
      DEF IInv, DirFits, ReplaceIndex, NewIndex, Goto, remoteVars
  <1>1. TypeOK'
    BY DEF TypeOK, Label, Body
  <1>2. PageFits' /\ JobsFit' /\ ArtifactsFit'
    BY RemoteUnchanged
  <1>3. Fetched'
    BY DEF Fetched
  <1>4. Written'
    BY DEF Written, Writing
  <1>5. Versioned'
    BY DEF Versioned
  <1>6. ManifestFits'
    BY DEF ManifestFits
  <1>7. HashesFit'
    BY DEF Fetched, HashesFit, Replacing
  <1> QED
    BY <1>1, <1>2, <1>3, <1>4, <1>5, <1>6, <1>7

\* The hashes are of the fetched index, are gone, or are `suspect`.
LEMMA FetchHashesKeeps == ASSUME IInv, FetchHashes PROVE IInv'
  <1> USE ContentAssumption
      DEF IInv, DirFits, FetchHashes, WriteThen, PublishedManifest, remoteVars
  <1>1. TypeOK'
    BY DEF TypeOK, Label, Endings, Files, Fetched
  <1>2. PageFits' /\ JobsFit' /\ ArtifactsFit'
    BY RemoteUnchanged
  <1>3. Fetched'
    BY DEF Fetched
  <1>4. Written'
    BY DEF Fetched, Written, Endings
  <1>5. Versioned'
    BY DEF Versioned
  <1>6. ManifestFits'
    BY DEF ManifestFits, Tells
  <1>7. HashesFit'
    BY DEF TypeOK, PageFits, Fits, Fetched, HashesFit, Replacing, Activating
  <1> QED
    BY <1>1, <1>2, <1>3, <1>4, <1>5, <1>6, <1>7

-----------------------------------------------------------------------------
(* `unch bind ci`, `unch remote download`.                                 *)

\* The first step of `unch bind ci` makes sure of a manifest.
LEMMA StartBindKeeps == ASSUME IInv, StartBind PROVE IInv'
  <1> USE ContentAssumption
      DEF IInv, DirFits, StartBind, EnsureManifest, WriteThen, Goto, Return, DefaultManifest,
          remoteVars, dirVars, histVars
  <1>1. TypeOK'
    BY DEF TypeOK, Label, Manifest
  <1>2. PageFits' /\ JobsFit' /\ ArtifactsFit'
    BY RemoteUnchanged
  <1>3. Fetched'
    BY DEF Fetched
  <1>4. Written'
    BY DEF Written, Writing, Manifest
  <1>5. Versioned'
    BY DEF Versioned
  <1>6. ManifestFits'
    BY DEF TypeOK, ManifestFits, Tells
  <1>7. HashesFit'
    BY DEF HashesFit, Replacing, Activating, Writing
  <1> QED
    BY <1>1, <1>2, <1>3, <1>4, <1>5, <1>6, <1>7

\* A new binding keeps version and hash.
LEMMA BindManifestKeeps == ASSUME IInv, BindManifest PROVE IInv'
  <1> USE ContentAssumption
      DEF IInv, DirFits, BindManifest, WriteThen, remoteVars, dirVars, histVars
  <1>1. TypeOK'
    BY DEF TypeOK, Label, Endings, Manifest, ManifestFits
  <1>2. PageFits' /\ JobsFit' /\ ArtifactsFit'
    BY RemoteUnchanged
  <1>3. Fetched'
    BY DEF Fetched
  <1>4. Written'
    BY DEF Written, ManifestFits, Tells, Endings, Manifest
  <1>5. Versioned'
    BY DEF Versioned
  <1>6. ManifestFits'
    BY DEF ManifestFits, Tells
  <1>7. HashesFit'
    BY DEF HashesFit, Replacing, Activating, Writing
  <1> QED
    BY <1>1, <1>2, <1>3, <1>4, <1>5, <1>6, <1>7

\* The first step of `unch remote download` makes sure of a manifest.
LEMMA StartDownloadKeeps == ASSUME IInv, StartDownload PROVE IInv'
  <1> USE ContentAssumption
      DEF IInv, DirFits, StartDownload, EnsureManifest, WriteThen, Goto, Return, DefaultManifest,
          remoteVars, dirVars, histVars
  <1>1. TypeOK'
    BY DEF TypeOK, Label, Manifest
  <1>2. PageFits' /\ JobsFit' /\ ArtifactsFit'
    BY RemoteUnchanged
  <1>3. Fetched'
    BY DEF Fetched
  <1>4. Written'
    BY DEF Written, Writing, Manifest
  <1>5. Versioned'
    BY DEF Versioned
  <1>6. ManifestFits'
    BY DEF TypeOK, ManifestFits, Tells
  <1>7. HashesFit'
    BY DEF HashesFit, Replacing, Activating, Writing
  <1> QED
    BY <1>1, <1>2, <1>3, <1>4, <1>5, <1>6, <1>7

\* Without an artifact nothing changes.
LEMMA FetchArtifactFailsKeeps == ASSUME IInv, FetchArtifactFails PROVE IInv'
  <1> USE ContentAssumption
      DEF IInv, DirFits, FetchArtifactFails, Return, remoteVars, dirVars, histVars
  <1>1. TypeOK'
    BY DEF TypeOK, Label
  <1>2. PageFits' /\ JobsFit' /\ ArtifactsFit'
    BY RemoteUnchanged
  <1>3. Fetched'
    BY DEF Fetched
  <1>4. Written'
    BY DEF Written, Writing
  <1>5. Versioned'
    BY DEF Versioned
  <1>6. ManifestFits'
    BY DEF ManifestFits, Tells
  <1>7. HashesFit'
    BY DEF HashesFit, Replacing, Activating, Writing
  <1> QED
    BY <1>1, <1>2, <1>3, <1>4, <1>5, <1>6, <1>7

\* The index of an artifact is in place, its hashes are not.
LEMMA FetchArtifactKeeps == ASSUME IInv, FetchArtifact PROVE IInv'
  <1> USE ContentAssumption
      DEF IInv, DirFits, FetchArtifact, NewIndex, remoteVars
  <1>1. TypeOK'
    BY DEF TypeOK, Label, Manifest, Files
  <1>2. PageFits' /\ JobsFit' /\ ArtifactsFit'
    BY RemoteUnchanged
  <1>3. Fetched'
    BY DEF TypeOK, Fetched, Manifest, Files
  <1>4. Written'
    BY DEF Written, Writing
  <1>5. Versioned'
    BY DEF Versioned
  <1>6. ManifestFits'
    BY DEF ManifestFits
  <1>7. HashesFit'
    BY DEF ArtifactsFit, Fits, HashesFit, Replacing
  <1> QED
    BY <1>1, <1>2, <1>3, <1>4, <1>5, <1>6, <1>7

\* The three files of an artifact fit.
LEMMA WriteArtifactHashesKeeps == ASSUME IInv, WriteArtifactHashes PROVE IInv'
  <1> USE ContentAssumption
      DEF IInv, DirFits, WriteArtifactHashes, WriteThen, remoteVars
  <1>1. TypeOK'
    BY DEF TypeOK, Label, Endings
  <1>2. PageFits' /\ JobsFit' /\ ArtifactsFit'
    BY RemoteUnchanged
  <1>3. Fetched'
    BY DEF Fetched
  <1>4. Written'
    BY DEF Fetched, Written, Endings
  <1>5. Versioned'
    BY DEF Versioned
  <1>6. ManifestFits'
    BY DEF ManifestFits, Tells
  <1>7. HashesFit'
    BY DEF HashesFit, Replacing, Activating
  <1> QED
    BY <1>1, <1>2, <1>3, <1>4, <1>5, <1>6, <1>7

-----------------------------------------------------------------------------
(* `unch index`, and the stop of any command.                              *)

\* An index run starts with a manifest it can read and a version to spare.
LEMMA StartIndexKeeps == ASSUME IInv, StartIndex PROVE IInv'
  <1> USE ContentAssumption
      DEF IInv, DirFits, StartIndex, remoteVars, histVars
  <1>1. TypeOK'
    BY DEF TypeOK, Label
  <1>2. PageFits' /\ JobsFit' /\ ArtifactsFit'
    BY RemoteUnchanged
  <1>3. Fetched'
    BY DEF Fetched
  <1>4. Written'
    BY DEF Written, Writing
  <1>5. Versioned'
    BY DEF TypeOK, Versioned
  <1>6. ManifestFits'
    BY DEF ManifestFits, Tells
  <1>7. HashesFit'
    BY DEF HashesFit, Replacing, Activating, Writing
  <1> QED
    BY <1>1, <1>2, <1>3, <1>4, <1>5, <1>6, <1>7

\* A fresh index is empty, and no hash can be taken for its own.
LEMMA OpenIndexKeeps == ASSUME IInv, OpenIndex PROVE IInv'
  <1> USE ContentAssumption
      DEF IInv, DirFits, OpenIndex, NewIndex, Goto, remoteVars
  <1>1. TypeOK'
    BY DEF TypeOK, Label, Body, PageFits
  <1>2. PageFits' /\ JobsFit' /\ ArtifactsFit'
    BY RemoteUnchanged
  <1>3. Fetched'
    BY DEF Fetched
  <1>4. Written'
    BY DEF Written, Writing
  <1>5. Versioned'
    BY DEF Versioned
  <1>6. ManifestFits'
    BY DEF ManifestFits, Tells
  <1>7. HashesFit'
    BY DEF HashesFit, Replacing, Activating, Writing
  <1> QED
    BY <1>1, <1>2, <1>3, <1>4, <1>5, <1>6, <1>7

\* As `OpenIndex`, before a search.
LEMMA OpenForSearchKeeps == ASSUME IInv, OpenForSearch PROVE IInv'
  <1> USE ContentAssumption
      DEF IInv, DirFits, OpenForSearch, NewIndex, Return, remoteVars
  <1>1. TypeOK'
    BY DEF TypeOK, Body
  <1>2. PageFits' /\ JobsFit' /\ ArtifactsFit'
    BY RemoteUnchanged
  <1>3. Fetched'
    BY DEF Fetched
  <1>4. Written'
    BY DEF Written, Writing
  <1>5. Versioned'
    BY DEF Versioned
  <1>6. ManifestFits'
    BY DEF ManifestFits
  <1>7. HashesFit'
    BY DEF HashesFit, Replacing, Activating
  <1> QED
    BY <1>1, <1>2, <1>3, <1>4, <1>5, <1>6, <1>7

\* Rows are copied only from an index whose hashes are its own, or `suspect`.
LEMMA ActivateSnapshotKeeps == ASSUME IInv, ActivateSnapshot PROVE IInv'
  <1> USE ContentAssumption
      DEF IInv, DirFits, ActivateSnapshot, NewIndex, Indexed, Reuses, remoteVars
  <1>1. TypeOK'
    BY DEF TypeOK, Label, Body
  <1>2. PageFits' /\ JobsFit' /\ ArtifactsFit'
    BY RemoteUnchanged
  <1>3. Fetched'
    BY DEF Fetched
  <1>4. Written'
    BY DEF Written, Writing
  <1>5. Versioned'
    BY DEF Versioned
  <1>6. ManifestFits'
    BY DEF ManifestFits
  <1>7. HashesFit'
    BY DEF HashesFit, Replacing, Activating, Writing
  <1> QED
    BY <1>1, <1>2, <1>3, <1>4, <1>5, <1>6, <1>7

\* No run goes on over a manifest that it cannot read.
LEMMA EnsureIndexManifestKeeps == ASSUME IInv, EnsureIndexManifest PROVE IInv'
  <1> USE ContentAssumption, MarkAssumption
      DEF IInv, DirFits, EnsureIndexManifest, EnsureManifest, WriteThen, Goto, Return,
          DefaultManifest, remoteVars, dirVars, cmdVars, histVars
  <1>1. TypeOK'
    BY DEF TypeOK, Label, Manifest
  <1>2. PageFits' /\ JobsFit' /\ ArtifactsFit'
    BY RemoteUnchanged
  <1>3. Fetched'
    BY DEF Fetched
  <1>4. Written'
    BY DEF Written, Writing, Manifest
  <1>5. Versioned'
    BY DEF Versioned
  <1>6. ManifestFits'
    BY DEF TypeOK, ManifestFits, Tells
  <1>7. HashesFit'
    BY DEF Versioned, HashesFit, Replacing, Activating, Writing
  <1> QED
    BY <1>1, <1>2, <1>3, <1>4, <1>5, <1>6, <1>7

\* The manifest to be written names the index there is.
LEMMA UpdateIndexManifestKeeps == ASSUME IInv, UpdateIndexManifest PROVE IInv'
  <1> USE ContentAssumption, MarkAssumption
      DEF IInv, DirFits, UpdateIndexManifest, WriteThen, remoteVars, dirVars, cmdVars, histVars
  <1>1. TypeOK'
    BY DEF TypeOK, Label, Manifest, Versioned, ManifestFits
  <1>2. PageFits' /\ JobsFit' /\ ArtifactsFit'
    BY RemoteUnchanged
  <1>3. Fetched'
    BY DEF Fetched
  <1>4. Written'
    BY DEF TypeOK, Written, ManifestFits, Versioned, Manifest
  <1>5. Versioned'
    BY DEF Versioned
  <1>6. ManifestFits'
    BY DEF ManifestFits, Tells
  <1>7. HashesFit'
    BY DEF HashesFit, Replacing, Activating, Writing
  <1> QED
    BY <1>1, <1>2, <1>3, <1>4, <1>5, <1>6, <1>7

\* The hashes activated are those of the indexed tree.
LEMMA ActivateStateKeeps == ASSUME IInv, ActivateState PROVE IInv'
  <1> USE ContentAssumption
      DEF IInv, DirFits, ActivateState, Return, remoteVars
  <1>1. TypeOK'
    BY DEF TypeOK, Label
  <1>2. PageFits' /\ JobsFit' /\ ArtifactsFit'
    BY RemoteUnchanged
  <1>3. Fetched'
    BY DEF Fetched
  <1>4. Written'
    BY DEF Written, Writing
  <1>5. Versioned'
    BY DEF Versioned
  <1>6. ManifestFits'
    BY DEF ManifestFits, Tells
  <1>7. HashesFit'
    BY DEF HashesFit, Replacing, Activating
  <1> QED
    BY <1>1, <1>2, <1>3, <1>4, <1>5, <1>6, <1>7

\* A stop during a replacement makes the hashes `suspect`.
LEMMA StopKeeps == ASSUME IInv, Stop PROVE IInv'
  <1> USE ContentAssumption
      DEF IInv, DirFits, Stop, Return, remoteVars, dirVars
  <1>1. TypeOK'
    BY DEF TypeOK, Label
  <1>2. PageFits' /\ JobsFit' /\ ArtifactsFit'
    BY RemoteUnchanged
  <1>3. Fetched'
    BY DEF Fetched
  <1>4. Written'
    BY DEF Written, Writing
  <1>5. Versioned'
    BY DEF Versioned
  <1>6. ManifestFits'
    BY DEF TypeOK, ManifestFits, Tells
  <1>7. HashesFit'
    BY DEF HashesFit, Replacing, Activating
  <1> QED
    BY <1>1, <1>2, <1>3, <1>4, <1>5, <1>6, <1>7

-----------------------------------------------------------------------------
(* CI jobs.                                                                  *)

\* What a job restores has the index of the page, or none.
LEMMA JobRestoreKeeps == ASSUME IInv, NEW j \in Job, JobRestore(j) PROVE IInv'
  <1> USE DEF IInv, JobRestore, Restored, StartAnew
  <1>1. DirFits'
    BY DirUnchanged
  <1>2. PageFits' /\ ArtifactsFit'
    BY DEF PageFits, ArtifactsFit, Fits
  <1>3. PICK restore \in BOOLEAN : job' = [job EXCEPT ![j] = Restored(restore)]
    OBVIOUS
  <1>4. page # None => page \in Files /\ (page.body \in Content \/ page.body = Old)
    BY DEF TypeOK, PageFits, Fits
  <1>5. Restored(restore) \in JobState
    BY <1>4, ContentAssumption DEF JobState, Files, Body
  <1>6. TypeOK'
    BY <1>3, <1>5 DEF TypeOK, dirVars, cmdVars, histVars
  <1>7. JobsFit'
    BY <1>3, <1>4, ContentAssumption DEF JobsFit, TypeOK, Fits
  <1> QED
    BY <1>1, <1>2, <1>6, <1>7

\* Hashes that are not of the index make the job `mixed`.
LEMMA JobRestoreHashesKeeps == ASSUME IInv, NEW j \in Job, JobRestoreHashes(j) PROVE IInv'
  <1> USE DEF IInv, JobRestoreHashes
  <1>1. DirFits'
    BY DirUnchanged
  <1>2. PageFits' /\ ArtifactsFit'
    BY DEF PageFits, ArtifactsFit, Fits
  <1>3. /\ job[j] \in JobState /\ page \in Files
        /\ page.body \in Content /\ Fits(page) /\ job[j].body \in Content
    BY ContentAssumption DEF TypeOK, JobsFit, PageFits
  <1>4. TypeOK'
    <2>1. job'[j] \in JobState
      BY <1>3 DEF TypeOK, JobState, Files
    <2> QED
      BY <2>1 DEF TypeOK, dirVars, cmdVars, histVars
  <1>5. JobsFit'
    BY <1>3 DEF JobsFit, TypeOK, Fits, JobState
  <1> QED
    BY <1>1, <1>2, <1>4, <1>5

\* Rows are copied from an index of another tree only in a `mixed` job.
LEMMA JobBuildKeeps == ASSUME IInv, NEW j \in Job, JobBuild(j) PROVE IInv'
  <1> USE DEF IInv, JobBuild
  <1>1. DirFits'
    BY DirUnchanged
  <1>2. PageFits' /\ ArtifactsFit'
    BY DEF PageFits, ArtifactsFit, Fits
  <1>3. job[j] \in JobState /\ (job[j].body \in Content => Fits(job[j]))
    BY DEF TypeOK, JobsFit
  <1>4. PICK c \in Content :
          job' = [job EXCEPT ![j] = [phase |-> "publish", version |-> job[j].version + 1,
                                     body |-> Indexed(job[j].body, job[j].files, c), files |-> c,
                                     mixed |-> job[j].mixed
                                                 /\ Reuses(job[j].body, job[j].files, c)]]
    OBVIOUS
  <1>5. TypeOK'
    BY <1>3, <1>4, ContentAssumption
    DEF TypeOK, dirVars, cmdVars, histVars, JobState, Indexed, Reuses
  <1>6. JobsFit'
    BY <1>3, <1>4 DEF JobsFit, TypeOK, Fits, JobState, Indexed, Reuses
  <1> QED
    BY <1>1, <1>2, <1>5, <1>6

\* The built files of a finished job.
LEMMA BuiltFits ==
  ASSUME IInv, NEW j \in Job, job[j] \notin {None, Done}, job[j].phase = "publish"
  PROVE  Built(j) \in Files /\ Built(j) # None /\ Fits(Built(j)) /\ Built(j).files \in Content
  <1>1. job[j] \in JobState /\ Fits(job[j]) /\ job[j].files \in Content
    BY DEF IInv, TypeOK, JobsFit
  <1>2. Built(j) \in Files
    BY <1>1 DEF Built, Files, JobState, Body
  <1> QED
    BY <1>1, <1>2, MarkAssumption DEF Built, Fits

\* What is published is what a finished job has built.
LEMMA JobPublishKeeps == ASSUME IInv, NEW j \in Job, JobPublish(j) PROVE IInv'
  <1> USE DEF IInv, JobPublish, Succeed
  <1>1. Built(j) \in Files /\ Built(j) # None /\ Fits(Built(j)) /\ Built(j).files \in Content
    BY BuiltFits
  <1>2. DirFits'
    BY <1>1, DirUnchanged DEF Fits
  <1>3. TypeOK'
    BY <1>1 DEF TypeOK, dirVars, cmdVars, histVars
  <1>4. PageFits' /\ JobsFit' /\ ArtifactsFit'
    BY <1>1 DEF PageFits, JobsFit, ArtifactsFit, Fits, TypeOK
  <1> QED
    BY <1>2, <1>3, <1>4

\* An artifact is what a finished job has built.
LEMMA JobSkipsPublishKeeps == ASSUME IInv, NEW j \in Job, JobSkipsPublish(j) PROVE IInv'
  <1> USE DEF IInv, JobSkipsPublish, Succeed
  <1>1. Built(j) \in Files /\ Fits(Built(j)) /\ Built(j).files \in Content
    BY BuiltFits
  <1>2. DirFits'
    BY DirUnchanged
  <1>3. TypeOK'
    BY <1>1 DEF TypeOK, dirVars, cmdVars, histVars
  <1>4. PageFits' /\ JobsFit' /\ ArtifactsFit'
    BY <1>1 DEF PageFits, JobsFit, ArtifactsFit, Fits, TypeOK
  <1> QED
    BY <1>2, <1>3, <1>4

\* A failed job leaves nothing behind.
LEMMA JobFailsKeeps == ASSUME IInv, NEW j \in Job, JobFails(j) PROVE IInv'
  <1> USE DEF IInv, JobFails
  <1>1. DirFits'
    BY DirUnchanged
  <1>2. TypeOK'
    BY DEF TypeOK, dirVars, cmdVars, histVars
  <1>3. PageFits' /\ JobsFit' /\ ArtifactsFit'
    BY DEF PageFits, JobsFit, ArtifactsFit, Fits, TypeOK
  <1> QED
    BY <1>1, <1>2, <1>3

\* The network is no part of what fits.
LEMMA NetworkKeeps == ASSUME IInv, Network PROVE IInv'
  <1> USE DEF IInv, Network
  <1>1. DirFits'
    BY DirUnchanged DEF remoteVars
  <1>2. PageFits' /\ JobsFit' /\ ArtifactsFit'
    BY RemoteUnchanged
  <1>3. TypeOK'
    BY DEF TypeOK, remoteVars, dirVars, cmdVars, histVars
  <1> QED
    BY <1>1, <1>2, <1>3

-----------------------------------------------------------------------------
(* The theorems.                                                             *)

\* A new directory, or one with an index of an older schema, fits.
LEMMA InitFits == Init => IInv
  <1> SUFFICES ASSUME Init PROVE IInv
    OBVIOUS
  <1> USE ContentAssumption DEF Init
  <1>1. page = None \/ (page \in Files /\ (Fits(page) \/ (page.body = Old /\ page.files = None)))
    <2>1. ASSUME NEW c \in Deployed PROVE Published(1, c, c) \in Files /\ Fits(Published(1, c, c))
      BY DEF Published, Files, Body, Fits
    <2>2. /\ Published(1, Old, None) \in Files
          /\ Published(1, Old, None).body = Old /\ Published(1, Old, None).files = None
      BY DEF Published, Files, Body
    <2>3. \/ page = None \/ page = Published(1, Old, None)
          \/ \E c \in Deployed : page = Published(1, c, c)
      OBVIOUS
    <2> QED
      BY <2>1, <2>2, <2>3
  <1>2. [version |-> 1, hash |-> Old, url |-> None] \in Manifest
    BY DEF Manifest, Body
  <1>3. TypeOK
    <2>1. /\ page \in {None} \union Files /\ job \in [Job -> {None, Done} \union JobState]
          /\ db \in Body \union {None} /\ fh \in Content \union {None, Empty}
          /\ manifest \in Manifest \union {None, Corrupt}
      BY <1>1, <1>2 DEF Body
    <2>2. pc \in Label /\ cont \in Label
      BY DEF Label
    <2>3. crashes \in 0..MaxCrashes /\ behind \subseteq {"manifest", "hashes"}
      OBVIOUS
    <2> QED
      BY <2>1, <2>2, <2>3 DEF TypeOK
  <1>4. PageFits /\ JobsFit /\ ArtifactsFit
    BY <1>1 DEF PageFits, JobsFit, ArtifactsFit
  <1>5. Fetched /\ Written /\ Versioned
    BY DEF Fetched, Written, Writing, Versioned
  <1>6. ManifestFits
    BY <1>2, MarkAssumption DEF ManifestFits, Tells
  <1>7. HashesFit
    BY DEF HashesFit, Replacing, Activating, Writing
  <1> QED
    BY <1>3, <1>4, <1>5, <1>6, <1>7 DEF IInv, DirFits

\* Nothing changes.
LEMMA StutterFits == ASSUME IInv, UNCHANGED vars PROVE IInv'
  <1> USE DEF IInv, vars
  <1>1. DirFits'
    BY DirUnchanged DEF dirVars, cmdVars, histVars
  <1>2. PageFits' /\ JobsFit' /\ ArtifactsFit'
    BY RemoteUnchanged DEF remoteVars
  <1>3. TypeOK'
    BY DEF TypeOK
  <1> QED
    BY <1>1, <1>2, <1>3

\* The invariant is inductive.
LEMMA NextFits == ASSUME IInv, [Next]_vars PROVE IInv'
  <1>1. ASSUME NEW j \in Job, Publisher(j) PROVE IInv'
    BY <1>1, JobRestoreKeeps, JobRestoreHashesKeeps, JobBuildKeeps, JobPublishKeeps,
       JobSkipsPublishKeeps, JobFailsKeeps DEF Publisher
  <1>2. ASSUME StartSync \/ StartBind \/ StartDownload \/ StartIndex \/ OpenForSearch PROVE IInv'
    BY <1>2, StartSyncKeeps, StartBindKeeps, StartDownloadKeeps, StartIndexKeeps,
       OpenForSearchKeeps
  <1>3. CASE WriteManifest
    BY <1>3, TruncateManifestKeeps, FillManifestKeeps DEF WriteManifest
  <1>4. CASE Sync
    BY <1>4, FetchManifestFailsKeeps, FetchManifestKeeps, FetchMissingHashesKeeps,
       FetchIndexFailsKeeps, FetchOldIndexKeeps, FetchIndexKeeps, ReplaceIndexKeeps,
       FetchHashesKeeps DEF Sync
  <1>5. CASE BindOrDownload
    BY <1>5, BindManifestKeeps, FetchArtifactFailsKeeps, FetchArtifactKeeps,
       WriteArtifactHashesKeeps DEF BindOrDownload
  <1>6. CASE Index
    BY <1>6, OpenIndexKeeps, ActivateSnapshotKeeps, EnsureIndexManifestKeeps,
       UpdateIndexManifestKeeps, ActivateStateKeeps DEF Index
  <1> QED
    BY <1>1, <1>2, <1>3, <1>4, <1>5, <1>6, NetworkKeeps, StopKeeps, StutterFits
    DEF Next, Continue

\* It holds always.
LEMMA AlwaysFits == Spec => []IInv
  BY InitFits, NextFits, PTL DEF Spec

\* Every variable keeps its type, for any trees and any overlap of jobs (internal/semsearch).
THEOREM RemoteTypeCorrect == Spec => []TypeOK
  <1>1. IInv => TypeOK
    BY DEF IInv
  <1> QED
    BY <1>1, AlwaysFits, PTL

\* Between commands manifest.json names the logical hash of index.db, wherever a command was
\* stopped before and whatever was published meanwhile (SyncRemoteIndex, UpdateIndexManifest).
THEOREM ManifestNamesIndex == Spec => []ManifestDescribesIndex
  <1>1. IInv => ManifestDescribesIndex
    BY ContentAssumption DEF IInv, DirFits, ManifestFits, Tells, ManifestDescribesIndex
  <1> QED
    BY <1>1, AlwaysFits, PTL

\* Between commands the hashes on disk are those of the indexed tree, unless a stop or another
\* publication came between the replacement of the index and that of the hashes.
THEOREM HashesOfIndex == Spec => []HashesFitIndex
  <1>1. IInv => HashesFitIndex
    BY DEF IInv, DirFits, HashesFit, Replacing, Activating, Writing, HashesFitIndex
  <1> QED
    BY <1>1, AlwaysFits, PTL

\* A sync that says it has downloaded the published index has left it and its manifest; one that says
\* it is up to date has left that manifest, and that index where no stop had left the manifest behind
\* the index (SyncRemoteIndex).
THEOREM SyncIsTruthful == Spec => SyncTellsTheTruth
  <1>1. ASSUME IInv, FetchMissingHashes
        PROVE  manifest' = out /\ ("manifest" \notin behind => db' = out.hash)
    BY <1>1 DEF IInv, DirFits, Fetched, FetchMissingHashes
  <1>2. ASSUME IInv, FillManifest, cont = "downloaded"
        PROVE  manifest' = out /\ db' = out.hash
    BY <1>2 DEF IInv, DirFits, Written, Writing, FillManifest
  <1>3. IInv =>
          /\ FetchMissingHashes => manifest' = out /\ ("manifest" \notin behind => db' = out.hash)
          /\ FillManifest /\ cont = "downloaded" => manifest' = out /\ db' = out.hash
    BY <1>1, <1>2
  <1> QED
    BY <1>3, AlwaysFits, PTL DEF Spec, SyncTellsTheTruth

\* No step replaces a usable index.db by one that is not (activateDownloadedIndex, Open).
LEMMA IndexKeptByStep == ASSUME IInv, [Next]_vars, db \in Content PROVE db' \in Content
  <1> USE ContentAssumption DEF IInv, DirFits
  <1>1. CASE ReplaceIndex
    BY <1>1 DEF Fetched, ReplaceIndex, NewIndex
  <1>2. CASE FetchArtifact
    BY <1>2 DEF ArtifactsFit, Fits, FetchArtifact, NewIndex
  <1>3. CASE OpenIndex \/ OpenForSearch
    BY <1>3 DEF OpenIndex, OpenForSearch
  <1>4. CASE ActivateSnapshot
    BY <1>4 DEF ActivateSnapshot, NewIndex, Indexed, Reuses
  <1>5. ASSUME NEW j \in Job, Publisher(j) PROVE db' = db
    BY <1>5 DEF Publisher, JobRestore, JobRestoreHashes, JobBuild, JobPublish, JobSkipsPublish,
                JobFails, dirVars
  <1>6. CASE Network \/ StartSync \/ StartBind \/ StartDownload \/ StartIndex \/ Stop
    BY <1>6 DEF Network, StartSync, StartBind, StartDownload, StartIndex, Stop, dirVars
  <1>7. CASE WriteManifest
    BY <1>7 DEF WriteManifest, TruncateManifest, FillManifest
  <1>8. CASE Sync /\ ~ReplaceIndex
    BY <1>8 DEF Sync, FetchManifestFails, FetchManifest, FetchMissingHashes, FetchIndexFails,
                FetchOldIndex, FetchIndex, FetchHashes, dirVars
  <1>9. CASE BindManifest \/ FetchArtifactFails \/ WriteArtifactHashes
    BY <1>9 DEF BindManifest, FetchArtifactFails, WriteArtifactHashes, dirVars
  <1>10. CASE EnsureIndexManifest \/ UpdateIndexManifest \/ ActivateState
    BY <1>10 DEF EnsureIndexManifest, UpdateIndexManifest, ActivateState, dirVars
  <1> QED
    BY <1>1, <1>2, <1>3, <1>4, <1>5, <1>6, <1>7, <1>8, <1>9, <1>10
    DEF Next, Continue, BindOrDownload, Index, Sync, vars

\* A usable index.db is never lost: not by a failed, interrupted, mismatching or older download,
\* nor by opening it (activateDownloadedIndex, replaceFile, Open).
THEOREM UsableIndexKept == Spec => IndexNeverLost
  <1>1. IInv /\ [Next]_vars => [(db \in Content) => (db' \in Content)]_db
    BY IndexKeptByStep
  <1> QED
    BY <1>1, AlwaysFits, PTL DEF Spec, IndexNeverLost

=============================================================================
