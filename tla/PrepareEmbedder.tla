---------------------------- MODULE PrepareEmbedder ----------------------------
(***************************************************************************)
(* prepareEmbedder (internal/cli/embedding.go) for llama.cpp, as every     *)
(* command that embeds text begins: the native libraries, the model, then  *)
(* the embedder itself.  Processes may be killed anywhere, the network     *)
(* comes and goes, and users try again.                                    *)
(***************************************************************************)
EXTENDS ModelCache

VARIABLES
  at,     \* where each process is in prepareEmbedder
  shared  \* processes may prepare at the same time

vars == <<libVars, modelVars, at, shared>>

Init ==
  /\ LibInit /\ ModelInit
  /\ at = [p \in Proc |-> "idle"] /\ shared \in BOOLEAN

-----------------------------------------------------------------------------
Preparing(p) == at[p] \in {"lib", "model", "load"}

\* A command starts, anew after a failure.  Two at the same time start once each, so that every
\* interleaving of two first runs is covered.
Prepare(p) ==
  /\ IF shared THEN at[p] = "idle" ELSE at[p] \in {"idle", "failed"} /\ \A q \in Proc : ~Preparing(q)
  /\ at' = [at EXCEPT ![p] = "lib"]
  /\ lib' = [lib EXCEPT ![p] = "detect"] /\ model' = [model EXCEPT ![p] = "idle"]
  /\ UNCHANGED <<release, online, dst, bak, stage, candidate, installed, faults>>
  /\ UNCHANGED <<dest, serves, temp, moved, returned, shared>>

ResolveLib(p) ==
  /\ at[p] = "lib" /\ LibStep(p)
  /\ at' = [at EXCEPT ![p] = CASE lib'[p] = "failed" -> "failed"
                               [] lib'[p] = "done"   -> "model"
                               [] OTHER              -> @]
  /\ model' = [model EXCEPT ![p] = IF lib'[p] = "done" THEN "find" ELSE @]
  /\ UNCHANGED <<online, dest, serves, temp, moved, returned, shared>>

ResolveModel(p) ==
  /\ at[p] = "model" /\ ModelStep(p)
  /\ at' = [at EXCEPT ![p] = CASE model'[p] = "failed" -> "failed"
                               [] model'[p] = "done"   -> "load"
                               [] OTHER                -> @]
  /\ UNCHANGED <<libVars, shared>>

\* llama.New: ResolveYzmaLibPath once more, the libraries and the model are loaded from their
\* paths.
LoadEmbedder(p) ==
  /\ at[p] = "load"
  /\ at' = [at EXCEPT ![p] = IF Complete(dst) /\ dest = Model THEN "ready" ELSE "failed"]
  /\ UNCHANGED <<libVars, modelVars, shared>>

\* What a killed process leaves under names of its own nobody reads; a later run makes new names.
Kill(p) ==
  /\ Preparing(p) /\ faults < MaxFaults
  /\ faults' = faults + 1
  /\ at' = [at EXCEPT ![p] = "failed"]
  /\ lib' = [lib EXCEPT ![p] = "idle"] /\ model' = [model EXCEPT ![p] = "idle"]
  /\ stage' = [stage EXCEPT ![p] = Absent]
  /\ temp' = [temp EXCEPT ![p] = Absent] /\ moved' = [moved EXCEPT ![p] = Absent]
  /\ UNCHANGED <<release, online, dst, bak, candidate, installed, dest, serves, returned, shared>>

Network ==
  /\ online' = ~online
  /\ UNCHANGED <<release, dst, bak, stage, lib, candidate, installed, faults, modelVars, at, shared>>

Step(p) == ResolveLib(p) \/ ResolveModel(p) \/ LoadEmbedder(p)

Next == Network \/ \E p \in Proc : Prepare(p) \/ Step(p) \/ Kill(p)

\* A process that runs goes on, and a user whose command failed tries it again.
Fairness == \A p \in Proc : WF_vars(Step(p)) /\ SF_vars(Prepare(p))

Spec == Init /\ [][Next]_vars /\ Fairness

-----------------------------------------------------------------------------
\* The types; in particular, that the model path never holds anything but a whole model or a
\* directory of an older version, whoever downloads, fails or is killed.
TypeOK ==
  /\ LibTypeOK /\ ModelTypeOK
  /\ at \in [Proc -> {"idle", "lib", "model", "load", "ready", "failed"}] /\ shared \in BOOLEAN

\* prepareEmbedder hands llama.New paths it resolved earlier: where no other process works on the
\* directories, the libraries and the model are then still at these paths.
ResolvedIsUsable ==
  \A p \in Proc :
    /\ ~shared /\ at[p] \in {"model", "load"} => Complete(dst)
    /\ ~shared /\ at[p] = "load" => dest = Model

\* A process that was killed and has not been started again.
Killed(p) == at[p] = "failed" /\ lib[p] = "idle"

\* Once libraries were installed, two processes that install at the same time do not lose them,
\* whatever fails and whoever is killed: they stay at their path, or in its backup beside a
\* process that was killed amid replaceManagedDir.  A third process could remove that backup.
LibraryNeverLost ==
  installed /\ (\A p \in Proc : ~Replacing(p)) =>
    Complete(dst) \/ (Complete(bak) /\ \E p \in Proc : Killed(p))

\* What a process stages is what its archive describes, links replaced by the files they lead
\* to whatever the order of the entries (materializeArchiveLinks), and extraction does the same
\* for every small archive.
StagedAsDescribed ==
  /\ SmallArchivesExtract
  /\ \A p \in Proc : stage[p] # Absent => stage[p] = Described(release[candidate[p]])

\* A release the loop over the versions gets to and can install.
Installable ==
  \E i \in DOMAIN release :
    /\ release[i] # NotFound /\ Complete(Contents[release[i]])
    /\ \A j \in 1..i - 1 : release[j] # NotFound => Contents[release[j]] # NoTree

\* A directory that repairInstalledModel refuses on every later run: with no .gguf file, as a repair
\* leaves it that is killed halfway, with several, or with one that has no GGUF header.
Unrepairable == dest \in Directory /\ ~Repairable

\* Users who try again get an embedder when the network stays, whatever failed and whoever was
\* killed before: nothing a run leaves behind keeps a later one from installing.
Recovers ==
  ~shared /\ Installable /\ serves = Model /\ <>[]online =>
    []<>Unrepairable \/ \A p \in Proc : <>(at[p] = "ready")
=============================================================================
