------------------------------ MODULE ModelCache ------------------------------
(***************************************************************************)
(* The model file shared by all processes of a user                        *)
(* (internal/runtime/model_cache.go, fetch.go).  A process that finds no   *)
(* file downloads one into a staging directory of its own, moves it to a   *)
(* staging name, clears the destination, moves it there and removes every  *)
(* staging name of the model; a directory left by an older version is      *)
(* repaired the same way.  Nothing keeps two processes apart.              *)
(***************************************************************************)
EXTENDS YzmaInstall

CONSTANTS
  Model,  \* a GGUF file
  Other,  \* a file without a GGUF header
  Empty   \* a directory without a GGUF file

\* A directory at the model path, as older versions left one, by its .gguf files: at most one with a
\* GGUF header and one without.
Directory == [gguf : SUBSET {Model, Other}]

ASSUME ModelAssumption ==
  /\ Absent \notin {Model, Other, Empty} /\ Model \notin {Other, Empty} /\ Other # Empty
  /\ {Absent, Model} \cap Directory = {}

VARIABLES
  dest,    \* the model path: Absent, Model or a directory
  serves,  \* what the download URL serves: Model or Other
  temp,    \* the staging directory of each process: Absent, Empty or a file
  moved,   \* its activation name: Absent or Model
  model,   \* where each process is in ResolveOrInstallModelPath
  returned \* some process was told that the model is there

modelVars == <<dest, serves, temp, moved, model, returned>>

ModelInit ==
  /\ dest \in {Absent, Model} \union Directory /\ serves \in {Model, Other}
  /\ temp = [p \in Proc |-> Absent] /\ moved = [p \in Proc |-> Absent]
  /\ model = [p \in Proc |-> "idle"] /\ returned = FALSE

-----------------------------------------------------------------------------
ModelGoto(p, label) == model' = [model EXCEPT ![p] = label]

\* The deferred removal of the staging directory.
ModelFails(p) ==
  /\ ModelGoto(p, "failed")
  /\ temp' = [temp EXCEPT ![p] = Absent]
  /\ UNCHANGED <<dest, serves, moved, returned>>

\* ResolveOrInstallModelPath, installEmbeddingModel: a file is taken as it is, a directory
\* repaired, and where nothing is a staging directory is made.
FindModel(p) ==
  /\ model[p] = "find"
  /\ ModelGoto(p, CASE dest = Model       -> "done"
                    [] dest \in Directory   -> "repair"
                    [] dest = Absent        -> "download")
  /\ temp' = [temp EXCEPT ![p] = IF dest = Absent THEN Empty ELSE Absent]
  /\ returned' = (returned \/ dest = Model)
  /\ UNCHANGED <<dest, serves, moved>>

\* downloadModelWithContext writes into the staging directory, if it is still there.
DownloadModel(p) ==
  /\ model[p] = "download" /\ online /\ temp[p] # Absent
  /\ temp' = [temp EXCEPT ![p] = serves]
  /\ ModelGoto(p, "validate")
  /\ UNCHANGED <<dest, serves, moved, returned>>

DownloadModelFails(p) ==
  /\ model[p] = "download" /\ (~online \/ temp[p] = Absent)
  /\ ModelFails(p)

\* Faulty variant: the file is not validated.
ValidateNothing(p) ==
  /\ model[p] = "validate" /\ temp[p] # Absent
  /\ moved' = [moved EXCEPT ![p] = temp[p]] /\ temp' = [temp EXCEPT ![p] = Absent]
  /\ ModelGoto(p, "clear")
  /\ UNCHANGED <<dest, serves, returned>>

\* findSingleGGUFFile, validateGGUFFile, and the rename to the activation name.
StageModel(p) ==
  /\ model[p] = "validate" /\ temp[p] = Model
  /\ moved' = [moved EXCEPT ![p] = Model] /\ temp' = [temp EXCEPT ![p] = Absent]
  /\ ModelGoto(p, "clear")
  /\ UNCHANGED <<dest, serves, returned>>

StageModelFails(p) ==
  /\ model[p] = "validate" /\ temp[p] # Model
  /\ ModelFails(p)

\* findSingleGGUFFile in the directory at the model path, and validateGGUFFile.
Repairable == dest \in Directory /\ dest.gguf = {Model}

\* repairInstalledModel: the only .gguf file of the directory becomes the model, if it is one.
StageRepair(p) ==
  /\ model[p] = "repair" /\ Repairable
  /\ dest' = [gguf |-> {}] /\ \E file \in dest.gguf : moved' = [moved EXCEPT ![p] = file]
  /\ ModelGoto(p, "clear")
  /\ UNCHANGED <<serves, temp, returned>>

StageRepairFails(p) ==
  /\ model[p] = "repair" /\ ~Repairable
  /\ ModelFails(p)

\* os.RemoveAll(destPath) of activateModelFile.
ClearDest(p) ==
  /\ model[p] = "clear"
  /\ dest' = Absent
  /\ ModelGoto(p, "activate")
  /\ UNCHANGED <<serves, temp, moved, returned>>

ActivateModel(p) ==
  /\ model[p] = "activate" /\ moved[p] # Absent /\ dest \notin Directory
  /\ dest' = moved[p] /\ moved' = [moved EXCEPT ![p] = Absent]
  /\ ModelGoto(p, "cleanup")
  /\ UNCHANGED <<serves, temp, returned>>

\* Another process has removed the activation name.
ActivateModelFails(p) ==
  /\ model[p] = "activate" /\ (moved[p] = Absent \/ dest \in Directory)
  /\ ModelFails(p)

\* Faulty variant: the destination counts as a staging name.
CleanupAll(p) ==
  /\ model[p] = "cleanup"
  /\ temp' = [q \in Proc |-> Absent] /\ moved' = [q \in Proc |-> Absent] /\ dest' = Absent
  /\ ModelGoto(p, "done") /\ returned' = TRUE
  /\ UNCHANGED serves

\* cleanupModelArtifacts: the staging names of every process.
CleanupModelArtifacts(p) ==
  /\ model[p] = "cleanup"
  /\ temp' = [q \in Proc |-> Absent] /\ moved' = [q \in Proc |-> Absent]
  /\ ModelGoto(p, "done") /\ returned' = TRUE
  /\ UNCHANGED <<dest, serves>>

ModelStep(p) ==
  \/ FindModel(p) \/ DownloadModel(p) \/ DownloadModelFails(p) \/ StageModel(p)
  \/ StageModelFails(p) \/ StageRepair(p) \/ StageRepairFails(p) \/ ClearDest(p)
  \/ ActivateModel(p) \/ ActivateModelFails(p) \/ CleanupModelArtifacts(p)

-----------------------------------------------------------------------------
ModelLabel == {"idle", "find", "download", "validate", "repair", "clear", "activate", "cleanup",
               "done", "failed"}

\* In particular nothing but a whole model is ever at the model path or at an activation name.
ModelTypeOK ==
  /\ dest \in {Absent, Model} \union Directory /\ serves \in {Model, Other}
  /\ temp \in [Proc -> {Absent, Empty, Model, Other}]
  /\ moved \in [Proc -> {Absent, Model}]
  /\ model \in [Proc -> ModelLabel] /\ returned \in BOOLEAN
=============================================================================
