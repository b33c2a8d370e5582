------------------------ MODULE PrepareEmbedderProofs -------------------------
(***************************************************************************)
(* What PrepareEmbedder keeps, for any number of processes, releases,      *)
(* archives and faults; that libraries are never lost, for two processes.  *)
(***************************************************************************)
EXTENDS PrepareEmbedder, ArchiveLinksProofs

LibAtWork == {"detect", "download", "dropOld", "moveOld", "moveNew", "dropBackup", "detectAgain"}
ModelAtWork == {"find", "download", "validate", "repair", "clear", "activate", "cleanup"}

\* A process is where its parts are, and past the libraries only when they were there.
Placed ==
  \A p \in Proc : /\ at[p] = "lib" <=> lib[p] \in LibAtWork
                  /\ at[p] = "model" <=> model[p] \in ModelAtWork
                  /\ at[p] \in {"model", "load"} => installed

\* What a process stages is the whole content of its candidate, until it is moved.
Staged ==
  \A p \in Proc :
    IF lib[p] \in {"dropOld", "moveOld", "moveNew"}
    THEN /\ candidate[p] \in DOMAIN release /\ release[candidate[p]] # NotFound
         /\ stage[p] = Contents[release[candidate[p]]] /\ Complete(stage[p])
    ELSE stage[p] = Absent

\* One process at a time neither loses libraries that were there nor the model it has found.
Alone ==
  ~shared =>
    /\ \A p, q \in Proc : Preparing(p) /\ Preparing(q) => p = q
    /\ installed => Complete(dst) /\ \A p \in Proc : lib[p] \notin {"download", "dropOld", "moveOld", "moveNew"}
    /\ \A p \in Proc : model[p] = "cleanup" \/ at[p] = "load" => dest = Model

\* What is at the path of the libraries is whole or has gone; then some process is to put
\* something in its place.
KeptWithoutFaults ==
  installed /\ faults = 0 => Complete(dst) \/ (dst = Absent /\ \E p \in Proc : lib[p] = "moveNew")

\* Two processes at once: one of them, z, is past the libraries, and only the other one can have
\* moved them away, into a backup that it has not touched since.
AtMostTwo == \A p, q, r \in Proc : p = q \/ q = r \/ p = r
KeptBeside(z) ==
  /\ at[z] \notin {"idle", "lib"}
  /\ Complete(dst) \/ /\ dst = Absent /\ Complete(bak)
                      /\ \E p \in Proc \ {z} : lib[p] = "moveNew" \/ Killed(p)
KeptByTwo == AtMostTwo /\ shared /\ installed => \E z \in Proc : KeptBeside(z)

Inv == TypeOK /\ Placed /\ Staged /\ Alone /\ KeptWithoutFaults /\ KeptByTwo

-----------------------------------------------------------------------------
(* Types                                                                     *)

\* What a candidate that has an archive extracts to.
LEMMA ContentsAre ==
  ASSUME release \in Releases, NEW i \in DOMAIN release, release[i] # NotFound
  PROVE  Contents[release[i]] = Described(release[i]) /\ Contents[release[i]] \in Tree
<1> DEFINE a == release[i]
           Archive == (UNION {ToSet(r) : r \in Releases}) \ {NotFound}
<1>1. release \in Seq(Seq(ArchiveEntry) \union {NotFound})
  BY YzmaAssumption
<1>2. a \in Seq(ArchiveEntry)
  BY <1>1
<1>3. a \in Archive
  <2>1. a \in ToSet(release) /\ a # NotFound
    BY DEF ToSet
  <2>2. ToSet(release) \in {ToSet(r) : r \in Releases}
    OBVIOUS
  <2> HIDE DEF a
  <2>3. a \in UNION {ToSet(r) : r \in Releases}
    BY <2>1, <2>2
  <2> QED
    BY <2>1, <2>3
<1>4. Contents[a] = Extract(a)
  <2> HIDE DEF a
  <2> QED
    BY <1>3 DEF Contents
<1>5. Extract(a) = Described(a) /\ Extract(a) \in Tree
  BY <1>2, ExtractIsDescribed DEF Trees, Tree
<1> QED
  BY <1>4, <1>5

LEMMA InitTyped == Init => TypeOK
<1> SUFFICES ASSUME Init PROVE TypeOK
  OBVIOUS
<1> USE DEF Init, LibInit, ModelInit
<1>1. LibTypeOK
  <2>1. Incomplete \in Tree
    <3>1. (CHOOSE d \in Data : TRUE) \in Data
      BY YzmaAssumption
    <3> QED
      BY <3>1 DEF Incomplete, Tree
  <2>2. candidate \in [Proc -> 1..Len(release) + 1]
    <3>1. Len(release) \in Nat
      BY YzmaAssumption
    <3>2. 1 \in 1..Len(release) + 1
      BY <3>1
    <3> QED
      BY <3>2
  <2>3. lib \in [Proc -> LibLabel]
    BY DEF LibLabel
  <2>4. faults \in 0..MaxFaults
    BY YzmaAssumption
  <2> QED
    BY <2>1, <2>2, <2>3, <2>4 DEF LibTypeOK
<1>2. ModelTypeOK
  BY DEF ModelTypeOK, ModelLabel
<1> QED
  BY <1>1, <1>2 DEF TypeOK

LEMMA LibStepTyped ==
  ASSUME LibTypeOK, NEW p \in Proc, LibStep(p), UNCHANGED online
  PROVE  LibTypeOK'
<1> USE DEF LibTypeOK, LibLabel, LibGoto
<1>0. Len(release) \in Nat /\ DOMAIN release = 1..Len(release) /\ MaxFaults \in Nat
  BY YzmaAssumption
<1>1. CASE DetectLib(p)
  <2>1. 1 \in 1..Len(release) + 1
    BY <1>0
  <2>2. installed' \in BOOLEAN
    BY <1>1 DEF DetectLib
  <2> QED
    BY <1>1, <2>1, <2>2 DEF DetectLib
<1>2. CASE DownloadLib(p)
  <2> DEFINE c == candidate[p]
  <2>1. c \in DOMAIN release /\ c \in 1..Len(release) /\ c + 1 \in 1..Len(release) + 1
    BY <1>0, <1>2 DEF DownloadLib
  <2>2. release[c] # NotFound => Contents[release[c]] \in Tree
    BY <2>1, ContentsAre
  <2>3. CASE /\ release[c] # NotFound /\ stage' = [stage EXCEPT ![p] = Contents[release[c]]]
             /\ LibGoto(p, "dropOld") /\ UNCHANGED candidate
    BY <1>2, <2>2, <2>3 DEF DownloadLib
  <2>4. CASE candidate' = [candidate EXCEPT ![p] = c + 1] /\ UNCHANGED <<stage, lib>>
    BY <1>2, <2>1, <2>4 DEF DownloadLib
  <2> QED
    BY <1>2, <2>3, <2>4 DEF DownloadLib
<1>3. CASE DownloadLibFails(p)
  BY <1>3 DEF DownloadLibFails, LibFails
<1>4. CASE RemoveBackup(p)
  BY <1>4 DEF RemoveBackup
<1>5. CASE MoveOld(p)
  BY <1>5 DEF MoveOld
<1>6. CASE MoveNew(p)
  BY <1>6 DEF MoveNew
<1>7. CASE MoveNewFails(p)
  <2>1. faults' \in 0..MaxFaults
    BY <1>0, <1>7 DEF MoveNewFails, RenameFails
  <2> QED
    BY <1>7, <2>1 DEF MoveNewFails
<1>8. CASE DropBackup(p)
  BY <1>8 DEF DropBackup
<1>9. CASE DetectInstalledLib(p)
  BY <1>9 DEF DetectInstalledLib
<1> QED
  BY <1>1, <1>2, <1>3, <1>4, <1>5, <1>6, <1>7, <1>8, <1>9 DEF LibStep

LEMMA ModelStepTyped ==
  ASSUME ModelTypeOK, NEW p \in Proc, ModelStep(p)
  PROVE  ModelTypeOK'
<1> USE DEF ModelTypeOK, ModelLabel, ModelGoto, ModelFails
<1>1. CASE FindModel(p)
  BY <1>1 DEF FindModel
<1>2. CASE DownloadModel(p)
  BY <1>2 DEF DownloadModel
<1>3. CASE DownloadModelFails(p)
  BY <1>3 DEF DownloadModelFails
<1>4. CASE StageModel(p)
  BY <1>4 DEF StageModel
<1>5. CASE StageModelFails(p)
  BY <1>5 DEF StageModelFails
<1>6. CASE StageRepair(p)
  <2>1. [gguf |-> {}] \in Directory
    BY DEF Directory
  <2>2. moved' = [moved EXCEPT ![p] = Model]
    BY <1>6 DEF StageRepair, Repairable
  <2> QED
    BY <1>6, <2>1, <2>2 DEF StageRepair
<1>7. CASE StageRepairFails(p)
  BY <1>7 DEF StageRepairFails
<1>8. CASE ClearDest(p)
  BY <1>8 DEF ClearDest
<1>9. CASE ActivateModel(p)
  BY <1>9 DEF ActivateModel
<1>10. CASE ActivateModelFails(p)
  BY <1>10 DEF ActivateModelFails
<1>11. CASE CleanupModelArtifacts(p)
  BY <1>11 DEF CleanupModelArtifacts
<1> QED
  BY <1>1, <1>2, <1>3, <1>4, <1>5, <1>6, <1>7, <1>8, <1>9, <1>10, <1>11 DEF ModelStep

LEMMA NextTyped == TypeOK /\ [Next]_vars => TypeOK'
<1> SUFFICES ASSUME TypeOK, [Next]_vars PROVE TypeOK'
  OBVIOUS
<1> USE DEF TypeOK
<1>1. CASE Network
  BY <1>1 DEF Network, LibTypeOK, ModelTypeOK, modelVars
<1>2. ASSUME NEW p \in Proc, Prepare(p) PROVE TypeOK'
  BY <1>2 DEF Prepare, LibTypeOK, ModelTypeOK, LibLabel, ModelLabel
<1>3. ASSUME NEW p \in Proc, ResolveLib(p) PROVE TypeOK'
  <2>1. LibTypeOK'
    BY <1>3, LibStepTyped DEF ResolveLib
  <2>2. ModelTypeOK'
    BY <1>3 DEF ResolveLib, ModelTypeOK, ModelLabel
  <2> QED
    BY <1>3, <2>1, <2>2 DEF ResolveLib
<1>4. ASSUME NEW p \in Proc, ResolveModel(p) PROVE TypeOK'
  <2>1. LibTypeOK'
    BY <1>4 DEF ResolveModel, LibTypeOK, libVars
  <2>2. ModelTypeOK'
    BY <1>4, ModelStepTyped DEF ResolveModel
  <2> QED
    BY <1>4, <2>1, <2>2 DEF ResolveModel
<1>5. ASSUME NEW p \in Proc, LoadEmbedder(p) PROVE TypeOK'
  BY <1>5 DEF LoadEmbedder, LibTypeOK, ModelTypeOK, libVars, modelVars
<1>6. ASSUME NEW p \in Proc, Kill(p) PROVE TypeOK'
  <2>1. faults' \in 0..MaxFaults
    BY <1>6, YzmaAssumption DEF Kill, LibTypeOK
  <2> QED
    BY <1>6, <2>1 DEF Kill, LibTypeOK, ModelTypeOK, LibLabel, ModelLabel
<1>7. CASE UNCHANGED vars
  BY <1>7 DEF vars, LibTypeOK, ModelTypeOK, libVars, modelVars
<1> QED
  BY <1>1, <1>2, <1>3, <1>4, <1>5, <1>6, <1>7 DEF Next, Step

-----------------------------------------------------------------------------
(* What a step changes                                                       *)

LEMMA LibStepMoves ==
  ASSUME LibTypeOK, NEW p \in Proc, LibStep(p)
  PROVE  /\ lib[p] \in LibAtWork /\ lib'[p] \in LibAtWork \union {"done", "failed"}
         /\ \A q \in Proc : q # p =>
              lib'[q] = lib[q] /\ stage'[q] = stage[q] /\ candidate'[q] = candidate[q]
         /\ lib'[p] = "done" => installed'
         /\ installed => installed'
         /\ installed' => installed \/ (lib'[p] = "done" /\ Complete(dst) /\ dst' = dst)
         /\ release' = release
<1> USE DEF LibTypeOK, LibAtWork, LibGoto
<1>1. CASE DetectLib(p)
  BY <1>1 DEF DetectLib
<1>2. CASE DownloadLib(p)
  BY <1>2 DEF DownloadLib
<1>3. CASE DownloadLibFails(p)
  BY <1>3 DEF DownloadLibFails, LibFails
<1>4. CASE RemoveBackup(p)
  BY <1>4 DEF RemoveBackup
<1>5. CASE MoveOld(p)
  BY <1>5 DEF MoveOld
<1>6. CASE MoveNew(p)
  BY <1>6 DEF MoveNew
<1>7. CASE MoveNewFails(p)
  BY <1>7 DEF MoveNewFails
<1>8. CASE DropBackup(p)
  BY <1>8 DEF DropBackup
<1>9. CASE DetectInstalledLib(p)
  BY <1>9 DEF DetectInstalledLib
<1> QED
  BY <1>1, <1>2, <1>3, <1>4, <1>5, <1>6, <1>7, <1>8, <1>9 DEF LibStep

\* What a step does to the managed directory and its backup.
LEMMA LibStepEffect ==
  ASSUME LibTypeOK, NEW p \in Proc, LibStep(p)
  PROVE  \/ dst' = dst /\ bak' = bak /\ lib[p] # "moveNew" /\ lib'[p] # "moveNew"
         \/ dst' = dst /\ bak' = Absent /\ lib[p] \in {"dropOld", "dropBackup"} /\ lib'[p] # "moveNew"
         \/ /\ lib[p] = "moveOld" /\ lib'[p] = "moveNew"
            /\ (dst = Absent /\ dst' = dst /\ bak' = bak) \/ (dst' = Absent /\ bak' = dst)
         \/ lib[p] = "moveNew" /\ dst' = stage[p]
         \/ /\ lib[p] = "moveNew" /\ (dst # Absent \/ faults' = faults + 1)
            /\ (bak # Absent /\ dst = Absent /\ dst' = bak) \/ (dst' = dst /\ (bak = Absent \/ dst # Absent))
<1> USE DEF LibTypeOK, LibGoto
<1>1. CASE DetectLib(p)
  BY <1>1 DEF DetectLib
<1>2. CASE DownloadLib(p)
  BY <1>2 DEF DownloadLib
<1>3. CASE DownloadLibFails(p)
  BY <1>3 DEF DownloadLibFails, LibFails
<1>4. CASE RemoveBackup(p)
  BY <1>4 DEF RemoveBackup
<1>5. CASE MoveOld(p)
  BY <1>5 DEF MoveOld
<1>6. CASE MoveNew(p)
  BY <1>6 DEF MoveNew
<1>7. CASE MoveNewFails(p)
  BY <1>7 DEF MoveNewFails, RenameFails
<1>8. CASE DropBackup(p)
  BY <1>8 DEF DropBackup
<1>9. CASE DetectInstalledLib(p)
  BY <1>9 DEF DetectInstalledLib
<1> QED
  BY <1>1, <1>2, <1>3, <1>4, <1>5, <1>6, <1>7, <1>8, <1>9 DEF LibStep

LEMMA ModelStepMoves ==
  ASSUME ModelTypeOK, NEW p \in Proc, ModelStep(p)
  PROVE  /\ model[p] \in ModelAtWork /\ model'[p] \in ModelAtWork \union {"done", "failed"}
         /\ \A q \in Proc : q # p => model'[q] = model[q]
         /\ model'[p] \in {"cleanup", "done"} => dest' = Model \/ (model[p] = "cleanup" /\ dest' = dest)
<1> USE DEF ModelTypeOK, ModelAtWork, ModelGoto, ModelFails
<1>1. CASE FindModel(p)
  BY <1>1, ModelAssumption DEF FindModel
<1>2. CASE DownloadModel(p)
  BY <1>2 DEF DownloadModel
<1>3. CASE DownloadModelFails(p)
  BY <1>3 DEF DownloadModelFails
<1>4. CASE StageModel(p)
  BY <1>4 DEF StageModel
<1>5. CASE StageModelFails(p)
  BY <1>5 DEF StageModelFails
<1>6. CASE StageRepair(p)
  BY <1>6 DEF StageRepair
<1>7. CASE StageRepairFails(p)
  BY <1>7 DEF StageRepairFails
<1>8. CASE ClearDest(p)
  BY <1>8 DEF ClearDest
<1>9. CASE ActivateModel(p)
  BY <1>9 DEF ActivateModel
<1>10. CASE ActivateModelFails(p)
  BY <1>10 DEF ActivateModelFails
<1>11. CASE CleanupModelArtifacts(p)
  BY <1>11 DEF CleanupModelArtifacts
<1> QED
  BY <1>1, <1>2, <1>3, <1>4, <1>5, <1>6, <1>7, <1>8, <1>9, <1>10, <1>11 DEF ModelStep

\* The places of the process that steps and of the others.
LEMMA ResolveLibMoves ==
  ASSUME TypeOK, NEW p \in Proc, ResolveLib(p)
  PROVE  /\ at[p] = "lib" /\ at'[p] = (CASE lib'[p] = "failed" -> "failed"
                                         [] lib'[p] = "done" -> "model"
                                         [] OTHER -> "lib")
         /\ model'[p] = IF lib'[p] = "done" THEN "find" ELSE model[p]
         /\ \A q \in Proc : q # p => at'[q] = at[q] /\ model'[q] = model[q]
         /\ dest' = dest /\ shared' = shared
BY DEF ResolveLib, TypeOK, ModelTypeOK

LEMMA ResolveModelMoves ==
  ASSUME TypeOK, NEW p \in Proc, ResolveModel(p)
  PROVE  /\ at[p] = "model" /\ at'[p] = (CASE model'[p] = "failed" -> "failed"
                                           [] model'[p] = "done" -> "load"
                                           [] OTHER -> "model")
         /\ \A q \in Proc : q # p => at'[q] = at[q]
         /\ UNCHANGED libVars /\ shared' = shared
BY DEF ResolveModel, TypeOK

-----------------------------------------------------------------------------
(* Places and staging directories                                            *)

LEMMA NextPlaced == TypeOK /\ Placed /\ [Next]_vars => Placed'
<1> SUFFICES ASSUME TypeOK, Placed, [Next]_vars PROVE Placed'
  OBVIOUS
<1>1. CASE Network
  BY <1>1 DEF Network, Placed, modelVars
<1>2. ASSUME NEW p \in Proc, Prepare(p) PROVE Placed'
  BY <1>2 DEF Prepare, Placed, TypeOK, LibTypeOK, ModelTypeOK, LibAtWork, ModelAtWork
<1>3. ASSUME NEW p \in Proc, ResolveLib(p) PROVE Placed'
  <2>1. LibStep(p) /\ LibTypeOK
    BY <1>3 DEF ResolveLib, TypeOK
  <2>2. SUFFICES ASSUME NEW q \in Proc
                 PROVE  /\ at'[q] = "lib" <=> lib'[q] \in LibAtWork
                        /\ at'[q] = "model" <=> model'[q] \in ModelAtWork
                        /\ at'[q] \in {"model", "load"} => installed'
    BY DEF Placed
  <2>3. CASE q # p
    BY <1>3, <2>1, <2>3, LibStepMoves, ResolveLibMoves DEF Placed
  <2>4. CASE q = p
    BY <1>3, <2>1, <2>4, LibStepMoves, ResolveLibMoves DEF Placed, LibAtWork, ModelAtWork
  <2> QED
    BY <2>3, <2>4
<1>4. ASSUME NEW p \in Proc, ResolveModel(p) PROVE Placed'
  <2>1. ModelStep(p) /\ ModelTypeOK
    BY <1>4 DEF ResolveModel, TypeOK
  <2>2. SUFFICES ASSUME NEW q \in Proc
                 PROVE  /\ at'[q] = "lib" <=> lib'[q] \in LibAtWork
                        /\ at'[q] = "model" <=> model'[q] \in ModelAtWork
                        /\ at'[q] \in {"model", "load"} => installed'
    BY DEF Placed
  <2>3. lib' = lib /\ installed' = installed
    BY <1>4, ResolveModelMoves DEF libVars
  <2>4. CASE q # p
    BY <1>4, <2>1, <2>3, <2>4, ModelStepMoves, ResolveModelMoves DEF Placed
  <2>5. CASE q = p
    BY <1>4, <2>1, <2>3, <2>5, ModelStepMoves, ResolveModelMoves DEF Placed, ModelAtWork
  <2> QED
    BY <2>4, <2>5
<1>5. ASSUME NEW p \in Proc, LoadEmbedder(p) PROVE Placed'
  BY <1>5 DEF LoadEmbedder, Placed, TypeOK, libVars, modelVars
<1>6. ASSUME NEW p \in Proc, Kill(p) PROVE Placed'
  BY <1>6 DEF Kill, Placed, TypeOK, LibTypeOK, ModelTypeOK, LibAtWork, ModelAtWork
<1>7. CASE UNCHANGED vars
  BY <1>7 DEF vars, Placed, libVars, modelVars
<1> QED
  BY <1>1, <1>2, <1>3, <1>4, <1>5, <1>6, <1>7 DEF Next, Step

\* A step of p leaves its staging directory as the candidate it tries has it.
LEMMA LibStepStaged ==
  ASSUME LibTypeOK, Staged, NEW p \in Proc, LibStep(p)
  PROVE  IF lib'[p] \in {"dropOld", "moveOld", "moveNew"}
         THEN /\ candidate'[p] \in DOMAIN release' /\ release'[candidate'[p]] # NotFound
              /\ stage'[p] = Contents[release'[candidate'[p]]] /\ Complete(stage'[p])
         ELSE stage'[p] = Absent
<1> USE DEF LibTypeOK, LibGoto, Staged
<1>1. CASE DetectLib(p)
  BY <1>1 DEF DetectLib
<1>2. CASE DownloadLib(p)
  BY <1>2 DEF DownloadLib
<1>3. CASE DownloadLibFails(p)
  BY <1>3 DEF DownloadLibFails, LibFails
<1>4. CASE RemoveBackup(p)
  BY <1>4 DEF RemoveBackup
<1>5. CASE MoveOld(p)
  BY <1>5 DEF MoveOld
<1>6. CASE MoveNew(p)
  BY <1>6 DEF MoveNew
<1>7. CASE MoveNewFails(p)
  BY <1>7 DEF MoveNewFails
<1>8. CASE DropBackup(p)
  BY <1>8 DEF DropBackup
<1>9. CASE DetectInstalledLib(p)
  BY <1>9 DEF DetectInstalledLib
<1> QED
  BY <1>1, <1>2, <1>3, <1>4, <1>5, <1>6, <1>7, <1>8, <1>9 DEF LibStep

LEMMA NextStaged == TypeOK /\ Placed /\ Staged /\ [Next]_vars => Staged'
<1> SUFFICES ASSUME TypeOK, Placed, Staged, [Next]_vars PROVE Staged'
  OBVIOUS
<1>1. CASE Network
  BY <1>1 DEF Network, Staged
<1>2. ASSUME NEW p \in Proc, Prepare(p) PROVE Staged'
  <2>1. lib[p] \notin LibAtWork
    BY <1>2 DEF Prepare, Placed
  <2>2. stage[p] = Absent
    BY <2>1 DEF Staged, LibAtWork
  <2> QED
    BY <1>2, <2>2 DEF Prepare, Staged, TypeOK, LibTypeOK
<1>3. ASSUME NEW p \in Proc, ResolveLib(p) PROVE Staged'
  <2>1. LibStep(p) /\ LibTypeOK
    BY <1>3 DEF ResolveLib, TypeOK
  <2>2. SUFFICES ASSUME NEW q \in Proc
                 PROVE  IF lib'[q] \in {"dropOld", "moveOld", "moveNew"}
                        THEN /\ candidate'[q] \in DOMAIN release' /\ release'[candidate'[q]] # NotFound
                             /\ stage'[q] = Contents[release'[candidate'[q]]] /\ Complete(stage'[q])
                        ELSE stage'[q] = Absent
    BY DEF Staged, Complete
  <2>3. CASE q # p
    <3>1. lib'[q] = lib[q] /\ stage'[q] = stage[q] /\ candidate'[q] = candidate[q] /\ release' = release
      BY <2>1, <2>3, LibStepMoves
    <3> QED
      BY <3>1 DEF Staged
  <2>4. CASE q = p
    BY <2>1, <2>4, LibStepStaged
  <2> QED
    BY <2>3, <2>4
<1>4. ASSUME NEW p \in Proc, ResolveModel(p) PROVE Staged'
  BY <1>4 DEF ResolveModel, libVars, Staged
<1>5. ASSUME NEW p \in Proc, LoadEmbedder(p) PROVE Staged'
  BY <1>5 DEF LoadEmbedder, libVars, Staged
<1>6. ASSUME NEW p \in Proc, Kill(p) PROVE Staged'
  BY <1>6 DEF Kill, Staged, TypeOK, LibTypeOK
<1>7. CASE UNCHANGED vars
  BY <1>7 DEF vars, libVars, Staged
<1> QED
  BY <1>1, <1>2, <1>3, <1>4, <1>5, <1>6, <1>7 DEF Next, Step

\* What a step of p does when the libraries are there, and how it counts faults.
LEMMA LibStepWithLibraries ==
  ASSUME LibTypeOK, NEW p \in Proc, LibStep(p)
  PROVE  /\ lib[p] = "detect" /\ Complete(dst) => lib'[p] = "done"
         /\ lib[p] \in {"detect", "dropBackup", "detectAgain"} =>
              dst' = dst /\ (lib[p] # "detect" => lib'[p] \in {"detectAgain", "done", "failed"})
         /\ faults' \in {faults, faults + 1}
<1> USE DEF LibTypeOK, LibGoto
<1>1. CASE DetectLib(p)
  BY <1>1 DEF DetectLib
<1>2. CASE DownloadLib(p)
  BY <1>2 DEF DownloadLib
<1>3. CASE DownloadLibFails(p)
  BY <1>3 DEF DownloadLibFails, LibFails
<1>4. CASE RemoveBackup(p)
  BY <1>4 DEF RemoveBackup
<1>5. CASE MoveOld(p)
  BY <1>5 DEF MoveOld
<1>6. CASE MoveNew(p)
  BY <1>6 DEF MoveNew
<1>7. CASE MoveNewFails(p)
  BY <1>7 DEF MoveNewFails, RenameFails
<1>8. CASE DropBackup(p)
  BY <1>8 DEF DropBackup
<1>9. CASE DetectInstalledLib(p)
  BY <1>9 DEF DetectInstalledLib
<1> QED
  BY <1>1, <1>2, <1>3, <1>4, <1>5, <1>6, <1>7, <1>8, <1>9 DEF LibStep

-----------------------------------------------------------------------------
(* One process at a time                                                     *)

LEMMA NextAlone == TypeOK /\ Placed /\ Alone /\ [Next]_vars => Alone'
<1> SUFFICES ASSUME TypeOK, Placed, Alone, [Next]_vars, ~shared' PROVE Alone'
  BY DEF Alone
<1> DEFINE Exclusive == \A p, q \in Proc : Preparing(p) /\ Preparing(q) => p = q
           There == installed => /\ Complete(dst)
                                 /\ \A p \in Proc : lib[p] \notin {"download", "dropOld", "moveOld", "moveNew"}
           Found == \A p \in Proc : model[p] = "cleanup" \/ at[p] = "load" => dest = Model
<1>0. SUFFICES Exclusive' /\ There' /\ Found'
  BY DEF Alone
<1>1. CASE Network
  BY <1>1 DEF Network, Alone, Preparing, Complete, modelVars
<1>2. ASSUME NEW p \in Proc, Prepare(p) PROVE Exclusive' /\ There' /\ Found'
  BY <1>2 DEF Prepare, Alone, Preparing, Complete, TypeOK, LibTypeOK, ModelTypeOK
<1>3. ASSUME NEW p \in Proc, ResolveLib(p) PROVE Exclusive' /\ There' /\ Found'
  <2>1. LibStep(p) /\ LibTypeOK /\ ~shared
    BY <1>3 DEF ResolveLib, TypeOK
  <2>2. \A q \in Proc : q # p => ~Preparing(q) /\ lib[q] \notin LibAtWork
    BY <1>3, <2>1 DEF ResolveLib, Alone, Preparing, Placed
  <2>3. Exclusive'
    BY <1>3, <2>1, <2>2, ResolveLibMoves DEF Preparing
  <2>4. There'
    <3>1. SUFFICES ASSUME installed'
                   PROVE  /\ Complete(dst')
                          /\ lib'[p] \notin {"download", "dropOld", "moveOld", "moveNew"}
      BY <2>1, <2>2, LibStepMoves DEF LibAtWork, Complete
    <3>2. CASE installed
      <4>1. Complete(dst) /\ lib[p] \in {"detect", "dropBackup", "detectAgain"}
        BY <2>1, <3>2, LibStepMoves DEF Alone, LibAtWork
      <4> QED
        BY <2>1, <4>1, LibStepWithLibraries
    <3>3. CASE ~installed
      BY <2>1, <3>1, <3>3, LibStepMoves
    <3> QED
      BY <3>2, <3>3
  <2>5. Found'
    BY <1>3, <2>1, ResolveLibMoves DEF Alone
  <2> QED
    BY <2>3, <2>4, <2>5
<1>4. ASSUME NEW p \in Proc, ResolveModel(p) PROVE Exclusive' /\ There' /\ Found'
  <2>1. ModelStep(p) /\ ModelTypeOK /\ ~shared /\ at[p] = "model"
    BY <1>4 DEF ResolveModel, TypeOK
  <2>2. \A q \in Proc : q # p => ~Preparing(q) /\ model[q] \notin ModelAtWork
    BY <2>1 DEF Alone, Preparing, Placed
  <2>3. Exclusive'
    BY <1>4, <2>1, <2>2, ResolveModelMoves DEF Preparing
  <2>4. There'
    BY <1>4, <2>1, ResolveModelMoves DEF libVars, Alone, Complete
  <2>5. Found'
    <3>1. SUFFICES ASSUME NEW q \in Proc, model'[q] = "cleanup" \/ at'[q] = "load" PROVE dest' = Model
      OBVIOUS
    <3>2. q = p
      BY <1>4, <2>1, <2>2, <3>1, ModelStepMoves, ResolveModelMoves DEF Preparing, ModelAtWork
    <3>3. model'[p] \in {"cleanup", "done"}
      BY <1>4, <3>1, <3>2, ResolveModelMoves
    <3> QED
      BY <2>1, <3>3, ModelStepMoves DEF Alone
  <2> QED
    BY <2>3, <2>4, <2>5
<1>5. ASSUME NEW p \in Proc, LoadEmbedder(p) PROVE Exclusive' /\ There' /\ Found'
  BY <1>5 DEF LoadEmbedder, Alone, Preparing, Complete, TypeOK, libVars, modelVars
<1>6. ASSUME NEW p \in Proc, Kill(p) PROVE Exclusive' /\ There' /\ Found'
  BY <1>6 DEF Kill, Alone, Preparing, Complete, TypeOK, LibTypeOK, ModelTypeOK
<1>7. CASE UNCHANGED vars
  BY <1>7 DEF vars, Alone, Preparing, Complete, libVars, modelVars
<1> QED
  BY <1>1, <1>2, <1>3, <1>4, <1>5, <1>6, <1>7 DEF Next, Step

-----------------------------------------------------------------------------
(* Libraries are kept                                                        *)

LEMMA NextKeptWithoutFaults ==
  TypeOK /\ Placed /\ Staged /\ KeptWithoutFaults /\ [Next]_vars => KeptWithoutFaults'
<1> SUFFICES ASSUME TypeOK, Placed, Staged, KeptWithoutFaults, [Next]_vars PROVE KeptWithoutFaults'
  OBVIOUS
<1>1. CASE Network
  BY <1>1 DEF Network, KeptWithoutFaults, Complete
<1>2. ASSUME NEW p \in Proc, Prepare(p) PROVE KeptWithoutFaults'
  <2>1. lib[p] # "moveNew"
    BY <1>2 DEF Prepare, Placed, LibAtWork
  <2> QED
    BY <1>2, <2>1 DEF Prepare, KeptWithoutFaults, Complete, TypeOK, LibTypeOK
<1>3. ASSUME NEW p \in Proc, ResolveLib(p) PROVE KeptWithoutFaults'
  <2>1. LibStep(p) /\ LibTypeOK
    BY <1>3 DEF ResolveLib, TypeOK
  <2>2. SUFFICES ASSUME installed', faults' = 0
                 PROVE  Complete(dst') \/ (dst' = Absent /\ \E q \in Proc : lib'[q] = "moveNew")
    BY DEF KeptWithoutFaults, Complete
  <2>3. faults = 0 /\ faults' # faults + 1
    BY <2>1, <2>2, LibStepWithLibraries, YzmaAssumption DEF LibTypeOK
  <2>4. CASE ~installed
    BY <2>1, <2>2, <2>4, LibStepMoves
  <2>5. CASE installed
    <3>1. Complete(dst) \/ (dst = Absent /\ \E q \in Proc : lib[q] = "moveNew")
      BY <2>3, <2>5 DEF KeptWithoutFaults
    <3>2. \A q \in Proc : q # p => lib'[q] = lib[q]
      BY <2>1, LibStepMoves
    <3>3. CASE dst' = dst /\ lib[p] # "moveNew"
      BY <3>1, <3>2, <3>3
    <3>4. CASE lib'[p] = "moveNew" /\ dst' = Absent
      BY <3>4
    <3>5. CASE lib[p] = "moveNew" /\ dst' = stage[p]
      BY <3>5 DEF Staged
    <3>6. CASE lib[p] = "moveNew" /\ dst # Absent /\ dst' = dst
      BY <3>1, <3>6
    <3> QED
      BY <2>1, <2>3, <3>3, <3>4, <3>5, <3>6, LibStepEffect
  <2> QED
    BY <2>4, <2>5
<1>4. ASSUME NEW p \in Proc, ResolveModel(p) PROVE KeptWithoutFaults'
  BY <1>4 DEF ResolveModel, KeptWithoutFaults, Complete, libVars
<1>5. ASSUME NEW p \in Proc, LoadEmbedder(p) PROVE KeptWithoutFaults'
  BY <1>5 DEF LoadEmbedder, KeptWithoutFaults, Complete, libVars
<1>6. ASSUME NEW p \in Proc, Kill(p) PROVE KeptWithoutFaults'
  <2>1. faults' # 0
    BY <1>6 DEF Kill, TypeOK, LibTypeOK
  <2> QED
    BY <2>1 DEF KeptWithoutFaults
<1>7. CASE UNCHANGED vars
  BY <1>7 DEF vars, KeptWithoutFaults, Complete, libVars
<1> QED
  BY <1>1, <1>2, <1>3, <1>4, <1>5, <1>6, <1>7 DEF Next, Step

\* With two processes: the one that steps is z, which is past the libraries, or the only one
\* that may have moved them.
LEMMA NextKeptByTwo == TypeOK /\ Placed /\ Staged /\ KeptByTwo /\ [Next]_vars => KeptByTwo'
<1> SUFFICES ASSUME TypeOK, Placed, Staged, KeptByTwo, [Next]_vars, AtMostTwo, shared', installed'
             PROVE  \E z \in Proc : KeptBeside(z)'
  BY DEF KeptByTwo, AtMostTwo
<1> DEFINE Gone(z) == dst = Absent /\ Complete(bak) /\ \E p \in Proc \ {z} : lib[p] = "moveNew" \/ Killed(p)
<1>1. shared' = shared
  BY DEF Next, Step, Network, Prepare, ResolveLib, ResolveModel, LoadEmbedder, Kill, vars
<1>2. ASSUME installed
      PROVE  \E z \in Proc : at[z] \notin {"idle", "lib"} /\ (Complete(dst) \/ Gone(z))
  BY <1>1, <1>2 DEF KeptByTwo, KeptBeside
<1>3. CASE Network \/ UNCHANGED vars
  <2>1. UNCHANGED <<at, dst, bak, lib, installed>>
    BY <1>3 DEF Network, vars, libVars
  <2>2. PICK z \in Proc : at[z] \notin {"idle", "lib"} /\ (Complete(dst) \/ Gone(z))
    BY <1>2, <2>1
  <2> QED
    BY <2>1, <2>2 DEF KeptBeside, Complete, Killed
<1>4. ASSUME NEW p \in Proc, Prepare(p) PROVE \E z \in Proc : KeptBeside(z)'
  <2>1. shared
    BY <1>1
  <2>2. at[p] = "idle"
    BY <1>4, <2>1, Zenon DEF Prepare
  <2>3. UNCHANGED <<dst, bak, installed>> /\ at[p] = "idle" /\ \A q \in Proc : q # p => at'[q] = at[q]
    BY <1>4, <2>2 DEF Prepare, TypeOK
  <2>4. PICK z \in Proc : at[z] \notin {"idle", "lib"} /\ (Complete(dst) \/ Gone(z))
    BY <1>2, <2>3
  <2>5. z # p /\ lib[p] # "moveNew" /\ ~Killed(p)
    BY <2>3, <2>4 DEF Placed, LibAtWork, Killed
  <2>6. ~Gone(z)
    BY <2>5 DEF AtMostTwo
  <2> QED
    BY <2>3, <2>4, <2>5, <2>6 DEF KeptBeside, Complete
<1>5. ASSUME NEW p \in Proc, ResolveLib(p) PROVE \E z \in Proc : KeptBeside(z)'
  <2>1. LibStep(p) /\ LibTypeOK
    BY <1>5 DEF ResolveLib, TypeOK
  <2>2. CASE ~installed
    <3>1. lib'[p] = "done" /\ Complete(dst')
      BY <2>1, <2>2, LibStepMoves
    <3>2. at'[p] = "model"
      BY <1>5, <3>1, ResolveLibMoves
    <3> QED
      BY <3>1, <3>2 DEF KeptBeside, Complete
  <2>3. CASE installed
    <3>1. PICK z \in Proc : at[z] \notin {"idle", "lib"} /\ (Complete(dst) \/ Gone(z))
      BY <1>2, <2>3
    <3>2. z # p /\ at[p] = "lib" /\ at'[z] = at[z]
      BY <1>5, <3>1, ResolveLibMoves
    <3>3. Complete(dst) \/ (dst = Absent /\ Complete(bak) /\ lib[p] = "moveNew")
      BY <3>1, <3>2 DEF AtMostTwo, Killed
    <3>4. Complete(dst') \/ (dst' = Absent /\ Complete(bak') /\ lib'[p] = "moveNew")
      <4>1. CASE dst' = dst /\ lib[p] # "moveNew"
        BY <3>3, <4>1
      <4>2. CASE /\ lib[p] = "moveOld" /\ lib'[p] = "moveNew"
                 /\ (dst = Absent /\ dst' = dst /\ bak' = bak) \/ (dst' = Absent /\ bak' = dst)
        BY <3>3, <4>2 DEF Complete
      <4>3. CASE lib[p] = "moveNew" /\ dst' = stage[p]
        BY <4>3 DEF Staged
      <4>4. CASE /\ lib[p] = "moveNew"
                 /\ (bak # Absent /\ dst = Absent /\ dst' = bak) \/ (dst' = dst /\ (bak = Absent \/ dst # Absent))
        BY <3>3, <4>4 DEF Complete
      <4> QED
        BY <2>1, <4>1, <4>2, <4>3, <4>4, LibStepEffect
    <3> QED
      BY <3>1, <3>2, <3>4 DEF KeptBeside, Complete
  <2> QED
    BY <2>2, <2>3
<1>6. ASSUME NEW p \in Proc, ResolveModel(p) \/ LoadEmbedder(p) PROVE \E z \in Proc : KeptBeside(z)'
  <2>1. UNCHANGED <<dst, bak, lib, installed>> /\ at[p] \in {"model", "load"} /\ at'[p] \notin {"idle", "lib"}
    BY <1>6, ResolveModelMoves DEF LoadEmbedder, libVars, TypeOK
  <2>2. \A q \in Proc : q # p => at'[q] = at[q]
    BY <1>6, ResolveModelMoves DEF LoadEmbedder, TypeOK
  <2>3. PICK z \in Proc : at[z] \notin {"idle", "lib"} /\ (Complete(dst) \/ Gone(z))
    BY <1>2, <2>1
  <2>4. at'[z] \notin {"idle", "lib"}
    BY <2>1, <2>2, <2>3
  <2>5. \A q \in Proc : Killed(q) => Killed(q)'
    BY <2>1, <2>2 DEF Killed
  <2> QED
    BY <2>1, <2>3, <2>4, <2>5 DEF KeptBeside, Complete
<1>7. ASSUME NEW p \in Proc, Kill(p) PROVE \E z \in Proc : KeptBeside(z)'
  <2>1. UNCHANGED <<dst, bak, installed>> /\ at'[p] = "failed" /\ lib'[p] = "idle"
    BY <1>7 DEF Kill, TypeOK, LibTypeOK
  <2>2. \A q \in Proc : q # p => at'[q] = at[q] /\ lib'[q] = lib[q]
    BY <1>7 DEF Kill, TypeOK, LibTypeOK
  <2>3. PICK z \in Proc : at[z] \notin {"idle", "lib"} /\ (Complete(dst) \/ Gone(z))
    BY <1>2, <2>1
  <2>4. at'[z] \notin {"idle", "lib"}
    BY <2>1, <2>2, <2>3
  <2>5. \A q \in Proc : lib[q] = "moveNew" \/ Killed(q) => lib'[q] = "moveNew" \/ Killed(q)'
    BY <2>1, <2>2 DEF Killed
  <2> QED
    BY <2>1, <2>3, <2>4, <2>5 DEF KeptBeside, Complete
<1> QED
  BY <1>3, <1>4, <1>5, <1>6, <1>7 DEF Next, Step

-----------------------------------------------------------------------------
(* The theorems                                                              *)

LEMMA InitInv == Init => Inv
<1> SUFFICES ASSUME Init PROVE Inv
  OBVIOUS
<1>1. TypeOK
  BY InitTyped
<1>2. Placed /\ Staged
  BY DEF Init, LibInit, ModelInit, Placed, Staged, LibAtWork, ModelAtWork
<1>3. Alone /\ KeptWithoutFaults /\ KeptByTwo
  BY DEF Init, LibInit, ModelInit, Alone, Preparing, KeptWithoutFaults, KeptByTwo
<1> QED
  BY <1>1, <1>2, <1>3 DEF Inv

\* The invariant, for every number of processes, every releases and archives, and every number of
\* renames that fail and processes that are killed.
THEOREM Invariant == Spec => []Inv
<1>1. Inv /\ [Next]_vars => Inv'
  BY NextTyped, NextPlaced, NextStaged, NextAlone, NextKeptWithoutFaults, NextKeptByTwo DEF Inv
<1> QED
  BY InitInv, <1>1, PTL DEF Spec

\* The types: the model path and every activation name hold a model or nothing (or, the path, a
\* directory of an older version), and what is staged, in place or backed up is a whole tree.
THEOREM PrepareTypeCorrect == Spec => []TypeOK
<1>1. Inv => TypeOK
  BY DEF Inv
<1> QED
  BY Invariant, <1>1, PTL

\* The paths that prepareEmbedder hands to llama.New still hold what was found there, for any
\* number of processes that take turns, whatever failed or was killed before.
THEOREM ResolvedStaysUsable == Spec => []ResolvedIsUsable
<1>1. Inv => ResolvedIsUsable
  BY DEF Inv, Placed, Alone, ResolvedIsUsable
<1> QED
  BY Invariant, <1>1, PTL

\* Every staging directory is what the archive of its candidate describes, and so is the
\* extraction of every archive, of any length and with chains of links of any length.
THEOREM StagedIsDescribed == Spec => []StagedAsDescribed
<1>1. ASSUME Inv PROVE StagedAsDescribed
  <2>1. ASSUME NEW p \in Proc, stage[p] # Absent PROVE stage[p] = Described(release[candidate[p]])
    <3>1. /\ candidate[p] \in DOMAIN release /\ release[candidate[p]] # NotFound
          /\ stage[p] = Contents[release[candidate[p]]]
      BY <1>1, <2>1 DEF Inv, Staged
    <3>2. release \in Releases
      BY <1>1 DEF Inv, TypeOK, LibTypeOK
    <3> QED
      BY <3>1, <3>2, ContentsAre
  <2> QED
    BY <2>1, ArchivesExtract DEF StagedAsDescribed
<1> QED
  BY Invariant, <1>1, PTL

\* Two processes that install at the same time never lose libraries that were there, whatever
\* fails and whoever is killed: they are at their path, or in its backup beside a killed process.
THEOREM LibrariesKept == ASSUME AtMostTwo PROVE Spec => []LibraryNeverLost
<1>1. ASSUME Inv PROVE LibraryNeverLost
  <2>1. SUFFICES ASSUME installed, \A p \in Proc : ~Replacing(p)
                 PROVE  Complete(dst) \/ (Complete(bak) /\ \E p \in Proc : Killed(p))
    BY DEF LibraryNeverLost
  <2>2. CASE shared
    <3>1. PICK z \in Proc : KeptBeside(z)
      BY <1>1, <2>1, <2>2 DEF Inv, KeptByTwo
    <3> QED
      BY <2>1, <3>1 DEF KeptBeside, Replacing
  <2>3. CASE ~shared
    BY <1>1, <2>1, <2>3 DEF Inv, Alone
  <2> QED
    BY <2>2, <2>3
<1> QED
  BY Invariant, <1>1, PTL

\* Any number of processes never lose libraries that were there as long as nothing fails: while
\* none of them is replacing the directory, it is whole.
THEOREM KeptUntilFaults ==
  Spec => [](installed /\ faults = 0 /\ (\A p \in Proc : ~Replacing(p)) => Complete(dst))
<1>1. Inv => (installed /\ faults = 0 /\ (\A p \in Proc : ~Replacing(p)) => Complete(dst))
  BY DEF Inv, KeptWithoutFaults, Replacing
<1> QED
  BY Invariant, <1>1, PTL
=============================================================================
