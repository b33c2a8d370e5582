----------------------------- MODULE YzmaInstall ------------------------------
(***************************************************************************)
(* Installation of the native libraries of one state directory             *)
(* (internal/runtime/yzma.go, fetch.go): a process that does not find them *)
(* under <state dir>/yzma tries release after release, extracts the        *)
(* archive into a staging directory of its own and puts that in the place  *)
(* of the managed directory.  Nothing keeps two processes apart.           *)
(***************************************************************************)
EXTENDS ArchiveLinks

CONSTANTS
  Proc,      \* processes that prepare an embedder
  Required,  \* requiredYzmaLibFiles
  Releases,  \* what candidateLlamaVersions may lead to: sequences of archives
  NotFound,  \* a release that has no archive for this platform
  MaxFaults  \* bound on renames that fail and processes that are killed

ASSUME YzmaAssumption ==
  /\ Required \subseteq Path /\ Required # {} /\ Data # {} /\ MaxFaults \in Nat
  /\ NotFound \notin Seq(ArchiveEntry) /\ Releases \subseteq Seq(Seq(ArchiveEntry) \union {NotFound})
  /\ Absent \notin [Path -> Data \union {Absent, Dir}]

VARIABLES
  release,   \* the archives behind the candidate versions, in their order
  online,    \* downloads succeed
  dst,       \* the managed directory, Absent or a tree
  bak,       \* its backup
  stage,     \* the staging directory of each process
  lib,       \* where each process is in ResolveOrInstallYzmaLibPath
  candidate, \* the version it tries
  installed, \* some process has been told that the libraries are there
  faults     \* number of renames that failed and of processes killed

libVars == <<release, online, dst, bak, stage, lib, candidate, installed, faults>>

Tree == [Path -> Data \union {Absent, Dir}]

\* validateYzmaLibDir: the names are looked up, not the contents.
Complete(tree) == tree # Absent /\ \A f \in Required : tree[f] # Absent

\* A directory left incomplete, say by an archive of another platform.
Incomplete == [p \in Path |-> IF p \in Required THEN Absent ELSE CHOOSE d \in Data : TRUE]

\* What each archive of a release extracts to.
Contents == [archive \in (UNION {ToSet(r) : r \in Releases}) \ {NotFound} |-> Extract(archive)]

LibInit ==
  /\ release \in Releases /\ online \in BOOLEAN
  /\ dst \in {Absent, Incomplete} /\ bak = Absent
  /\ stage = [p \in Proc |-> Absent]
  /\ lib = [p \in Proc |-> "idle"] /\ candidate = [p \in Proc |-> 1]
  /\ installed = FALSE /\ faults = 0

-----------------------------------------------------------------------------
LibGoto(p, label) == lib' = [lib EXCEPT ![p] = label]

\* detectedYzmaLibDir of ResolveOrInstallYzmaLibPath.
DetectLib(p) ==
  /\ lib[p] = "detect"
  /\ LibGoto(p, IF Complete(dst) THEN "done" ELSE "download")
  /\ installed' = (installed \/ Complete(dst))
  /\ candidate' = [candidate EXCEPT ![p] = 1]
  /\ UNCHANGED <<release, dst, bak, stage, faults>>

\* commonYzmaLibDirs has no libraries here, so a failed download is an error.
LibFails(p) ==
  /\ LibGoto(p, "failed")
  /\ stage' = [stage EXCEPT ![p] = Absent]
  /\ UNCHANGED <<release, dst, bak, candidate, installed, faults>>

\* Faulty variant: a version that is not there ends the search for one.
DownloadOrGiveUp(p) ==
  /\ lib[p] = "download" /\ online /\ candidate[p] \in DOMAIN release
  /\ LET archive == release[candidate[p]]
     IN  /\ archive # NotFound /\ Complete(Contents[archive])
         /\ stage' = [stage EXCEPT ![p] = Contents[archive]]
         /\ LibGoto(p, "dropOld")
  /\ UNCHANGED <<release, dst, bak, candidate, installed, faults>>

\* downloadYzmaArchive and extraction into a fresh staging directory; a version without an
\* archive, or whose archive lacks a library, makes way for the next.
DownloadLib(p) ==
  /\ lib[p] = "download" /\ online /\ candidate[p] \in DOMAIN release
  /\ LET archive == release[candidate[p]]
         usable  == archive # NotFound /\ Contents[archive] # NoTree
     IN  \/ /\ usable /\ Complete(Contents[archive])
            /\ stage' = [stage EXCEPT ![p] = Contents[archive]]
            /\ LibGoto(p, "dropOld") /\ UNCHANGED candidate
         \/ /\ archive = NotFound \/ (usable /\ ~Complete(Contents[archive]))
            /\ candidate' = [candidate EXCEPT ![p] = @ + 1]
            /\ UNCHANGED <<stage, lib>>
  /\ UNCHANGED <<release, dst, bak, installed, faults>>

\* No network, no candidate left, or an archive that cannot be extracted.
DownloadLibFails(p) ==
  /\ lib[p] = "download"
  /\ online /\ candidate[p] \in DOMAIN release =>
       release[candidate[p]] # NotFound /\ Contents[release[candidate[p]]] = NoTree
  /\ LibFails(p)

-----------------------------------------------------------------------------
(* replaceManagedDir                                                         *)

RemoveBackup(p) ==
  /\ lib[p] = "dropOld"
  /\ bak' = Absent
  /\ LibGoto(p, "moveOld")
  /\ UNCHANGED <<release, dst, stage, candidate, installed, faults>>

\* A directory cannot be renamed over one that is not empty.
MoveOld(p) ==
  /\ lib[p] = "moveOld"
  /\ \/ dst = Absent /\ LibGoto(p, "moveNew") /\ UNCHANGED <<dst, bak, stage>>
     \/ /\ dst # Absent /\ bak = Absent
        /\ bak' = dst /\ dst' = Absent
        /\ LibGoto(p, "moveNew") /\ UNCHANGED stage
     \/ /\ dst # Absent /\ bak # Absent
        /\ LibGoto(p, "failed")
        /\ stage' = [stage EXCEPT ![p] = Absent] /\ UNCHANGED <<dst, bak>>
  /\ UNCHANGED <<release, candidate, installed, faults>>

MoveNew(p) ==
  /\ lib[p] = "moveNew" /\ dst = Absent
  /\ dst' = stage[p] /\ stage' = [stage EXCEPT ![p] = Absent]
  /\ LibGoto(p, "dropBackup")
  /\ UNCHANGED <<release, bak, candidate, installed, faults>>

\* The rename fails, because another process has put a directory there or for a reason of the
\* file system.
RenameFails == IF dst # Absent THEN UNCHANGED faults ELSE faults < MaxFaults /\ faults' = faults + 1

\* Faulty variant: the previous directory is not put back.
MoveNewFailsNoRollback(p) ==
  /\ lib[p] = "moveNew" /\ RenameFails
  /\ stage' = [stage EXCEPT ![p] = Absent]
  /\ LibGoto(p, "failed")
  /\ UNCHANGED <<release, dst, bak, candidate, installed>>

\* The backup is moved back where that is possible.
MoveNewFails(p) ==
  /\ lib[p] = "moveNew" /\ RenameFails
  /\ IF bak # Absent /\ dst = Absent THEN dst' = bak /\ bak' = Absent ELSE UNCHANGED <<dst, bak>>
  /\ stage' = [stage EXCEPT ![p] = Absent]
  /\ LibGoto(p, "failed")
  /\ UNCHANGED <<release, candidate, installed>>

DropBackup(p) ==
  /\ lib[p] = "dropBackup"
  /\ bak' = Absent
  /\ LibGoto(p, "detectAgain")
  /\ UNCHANGED <<release, dst, stage, candidate, installed, faults>>

\* The libraries are looked for once more before their path is returned.
DetectInstalledLib(p) ==
  /\ lib[p] = "detectAgain"
  /\ LibGoto(p, IF Complete(dst) THEN "done" ELSE "failed")
  /\ installed' = (installed \/ Complete(dst))
  /\ UNCHANGED <<release, dst, bak, stage, candidate, faults>>

LibStep(p) ==
  \/ DetectLib(p) \/ DownloadLib(p) \/ DownloadLibFails(p) \/ RemoveBackup(p) \/ MoveOld(p)
  \/ MoveNew(p) \/ MoveNewFails(p) \/ DropBackup(p) \/ DetectInstalledLib(p)

-----------------------------------------------------------------------------
LibLabel == {"idle", "detect", "download", "dropOld", "moveOld", "moveNew", "dropBackup",
             "detectAgain", "done", "failed"}

LibTypeOK ==
  /\ release \in Releases /\ online \in BOOLEAN
  /\ dst \in Tree \union {Absent} /\ bak \in Tree \union {Absent}
  /\ stage \in [Proc -> Tree \union {Absent}]
  /\ lib \in [Proc -> LibLabel] /\ candidate \in [Proc -> 1..Len(release) + 1]
  /\ installed \in BOOLEAN /\ faults \in 0..MaxFaults

\* While a process replaces the directory the libraries may be out of place.
Replacing(p) == lib[p] \in {"moveOld", "moveNew"}
=============================================================================
