------------------------------ MODULE McpServer ------------------------------
(***************************************************************************)
(* The MCP server (internal/mcp, internal/cli/mcp_backend.go): one process *)
(* reads requests one by one and serves the workspace each of them names.  *)
(* It keeps, per workspace, an embedder over the native runtime of the     *)
(* process (internal/embed/llama) and the connections of an open index.db, *)
(* while the commands of users and the CI publisher change the same state  *)
(* directories.  --state-dir makes one directory that of all.              *)
(***************************************************************************)
EXTENDS Naturals, Sequences, SequencesExt, FiniteSets

CONSTANTS
  Workspace,   \* directories a request may name
  Root,        \* the one the server was started in
  NotADir,     \* a directory argument that names none
  Id, NullId,  \* what clients call their requests; null, for an answer that has no request to name
  None,        \* nothing
  Ok, Error,   \* answers that show no index
  UserCommands, \* users run commands in the workspaces beside the server
  MaxRequests, \* bound on the requests of a session
  MaxBuilds,   \* bound on the indexes that are built
  MaxFiles     \* bound on the files that are put at the path of one index.db

\* What an index.db holds: the number of the run that activated its snapshot last, in the order of
\* the runs, or 0 without an active snapshot.
Index == 0..MaxBuilds

ASSUME McpAssumption ==
  /\ Root \in Workspace /\ IsFiniteSet(Workspace) /\ UserCommands \in BOOLEAN
  /\ MaxRequests \in Nat /\ MaxBuilds \in Nat /\ MaxFiles \in Nat \ {0}
  /\ {None, Ok, Error} \cap Index = {} /\ {None, NotADir} \cap Workspace = {}

Tool == {"workspace_status", "search_code", "index_repository", "create_ci_workflow",
         "bind_remote_ci", "remote_sync_index", "remote_download_index"}

\* A call, or something that is not one: no such tool or arguments that cannot be decoded; a payload
\* that is not JSON or is a batch, a notification, the end of the input, which bear no identifier.
Message == [kind : {"call"}, id : Id, tool : Tool, dir : Workspace \union {NotADir}]
             \union [kind : {"invalid"}, id : Id]
             \union [kind : {"notification", "garbage", "eof"}, id : {NullId}]

VARIABLES
  explicit,  \* the server was started with --state-dir, or with --db for an index.db
  files,     \* what the files hold that have been at the path of index.db in a state directory,
             \* the one that is there now last
  bound,     \* the workspace whose workflow the manifest of the directory is bound to, or None
  published, \* the index the workflow of each workspace has published last, or None
  artifacts, \* all it has published
  origin,    \* the workspace each index was built for; None until it is
  children,  \* the backends of the server, by their workspaces
  pool,      \* the files the connections of each backend have open: its Store and embedder are there
             \* when there is one
  libs,      \* "given" or "local": where the native libraries are, "remote": OpenRouter
  loaded,    \* the library path the runtime was loaded from
  refs,      \* llamaInitRefCounter
  open,      \* the runtime is between llama.Init and llama.Close
  at,        \* where the server is
  request,   \* the message it serves
  result,    \* the answer it will write: an index a search has read, Ok or Error
  asked,     \* identifiers of the messages read that want an answer
  answers,   \* identifiers of the answers written
  broken,    \* an answer could not be written
  reported   \* the index the tools have last reported to be the one of a state directory, None when
             \* unknown

diskVars   == <<files, bound, published, artifacts, origin>>
llamaVars  == <<libs, loaded, refs, open>>
heldVars   == <<children, pool>>
talkVars   == <<asked, answers, broken>>
vars == <<explicit, diskVars, llamaVars, heldVars, at, request, result, talkVars, reported>>

Init ==
  /\ explicit \in BOOLEAN
  /\ files = [s \in Workspace |-> <<>>] /\ bound = [s \in Workspace |-> None]
  /\ published = [w \in Workspace |-> None] /\ artifacts = [w \in Workspace |-> {}]
  /\ origin = [i \in 1..MaxBuilds |-> None]
  /\ children = {Root} /\ pool = [w \in Workspace |-> <<>>]
  /\ libs \in {"given", "local", "remote"} /\ loaded = None /\ refs = 0 /\ open = FALSE
  /\ at = "read" /\ request = None /\ result = None
  /\ asked = <<>> /\ answers = <<>> /\ broken = FALSE
  /\ reported = [s \in Workspace |-> None]

-----------------------------------------------------------------------------
(* State directories, by the workspace they lie in                           *)

\* Faulty variant: the directory of a request is ignored.
StateDirOfRoot(w) == Root

\* previewStateTarget: the directory of the workspace, unless one was given to the server.
StateDir(w) == IF explicit THEN Root ELSE w

Built == Cardinality({i \in DOMAIN origin : origin[i] # None})

Build(w) == Built < MaxBuilds /\ origin' = [origin EXCEPT ![Built + 1] = w]

\* Opening index.db creates it.
AtPath(s) == IF files[s] = <<>> THEN <<0>> ELSE files[s]

Holds(s) == IF files[s] = <<>> THEN None ELSE Last(files[s])

\* Faulty variant: the error of the rename is dropped.
ReplaceUnchecked(s, index) ==
  /\ Len(files[s]) < MaxFiles
  /\ \/ files' = [files EXCEPT ![s] = Append(@, index)]
     \/ UNCHANGED files

\* writeDownloadedIndex renames a new file over index.db; who has the old one open keeps it.
Replace(s, index) ==
  /\ Len(files[s]) < MaxFiles
  /\ files' = [files EXCEPT ![s] = Append(@, index)]

\* SyncRemoteIndex with something to download.
Refresh(s, index) ==
  /\ bound[s] # None /\ index = published[bound[s]] /\ index \notin {None, Holds(s)}
  /\ Replace(s, index) /\ UNCHANGED bound

\* DownloadIndexArtifactForCommit: the index of any commit; the directory is bound no more.
Fetch(s, w, index) ==
  /\ index \in artifacts[w]
  /\ Replace(s, index) /\ bound' = [bound EXCEPT ![s] = None]

\* unch index of a user: in place, through a connection of its own.
UserIndexes(w) ==
  /\ UserCommands /\ Build(w)
  /\ LET s == StateDir(w) IN
       /\ files' = [files EXCEPT ![s] = [AtPath(s) EXCEPT ![Len(AtPath(s))] = Built + 1]]
       /\ bound' = [bound EXCEPT ![s] = None]
       /\ reported' = [reported EXCEPT ![s] = None]
  /\ UNCHANGED <<explicit, published, artifacts, llamaVars, heldVars, at, request, result, talkVars>>

\* remote sync and remote download of a user.
UserDownloads(w) ==
  /\ UserCommands
  /\ LET s == StateDir(w) IN
       /\ \E index \in Index : Refresh(s, index) \/ Fetch(s, w, index)
       /\ reported' = [reported EXCEPT ![s] = None]
  /\ UNCHANGED <<explicit, published, artifacts, origin, llamaVars, heldVars, at, request, result, talkVars>>

Publish(w) ==
  /\ Build(w)
  /\ published' = [published EXCEPT ![w] = Built + 1]
  /\ artifacts' = [artifacts EXCEPT ![w] = @ \union {Built + 1}]
  /\ UNCHANGED <<explicit, files, bound, llamaVars, heldVars, at, request, result, talkVars, reported>>

-----------------------------------------------------------------------------
(* Requests and answers                                                      *)

Goto(label) == at' = label
Reply(r) == result' = r /\ Goto("write")

\* Faulty variant: a notification is handled like a request.
HandleAll(m) ==
  /\ asked' = IF m.kind \in {"notification", "eof"} THEN asked ELSE Append(asked, m.id)
  /\ request' = m
  /\ \/ m.kind \in {"invalid", "garbage", "notification"} /\ Reply(Error)
     \/ m.kind = "eof"  /\ Goto("close") /\ UNCHANGED result
     \/ m.kind = "call" /\ Goto("call") /\ UNCHANGED result

\* handlePayload: what cannot be decoded is answered too, with null for its identifier.
HandlePayload(m) ==
  /\ asked' = IF m.kind \in {"notification", "eof"} THEN asked ELSE Append(asked, m.id)
  /\ request' = IF m.kind \in {"notification", "eof"} THEN None ELSE m
  /\ \/ m.kind \in {"invalid", "garbage"} /\ Reply(Error)
     \/ m.kind = "notification" /\ UNCHANGED <<at, result>>
     \/ m.kind = "eof"          /\ Goto("close") /\ UNCHANGED result
     \/ m.kind = "call"         /\ Goto("call") /\ UNCHANGED result

\* Serve: the next message, whatever the client has sent by now.
Read ==
  /\ at = "read"
  /\ \E m \in Message : (Len(asked) < MaxRequests \/ m.kind = "eof") /\ HandlePayload(m)
  /\ UNCHANGED <<explicit, diskVars, llamaVars, heldVars, answers, broken, reported>>

Write ==
  /\ at = "write"
  /\ answers' = Append(answers, request.id)
  /\ request' = None /\ result' = None /\ Goto("read")
  /\ UNCHANGED <<explicit, diskVars, llamaVars, heldVars, asked, broken, reported>>

\* The error of writePayload ends Serve; the request stays without its answer.
WriteFails ==
  /\ at = "write"
  /\ broken' = TRUE
  /\ request' = None /\ result' = None /\ Goto("close")
  /\ UNCHANGED <<explicit, diskVars, llamaVars, heldVars, asked, answers, reported>>

\* What a request keeps that only goes on to its next step.
Kept == UNCHANGED <<explicit, request, talkVars>>

\* backendForDirectory: the server's own backend, or one child per other workspace.  No directory of
\* that name, or no state directory for a new child, is an error.
Call ==
  /\ at = "call"
  /\ \/ /\ request.dir \notin children
        /\ Reply(Error) /\ UNCHANGED children
     \/ /\ request.dir # NotADir
        /\ children' = children \union {request.dir}
        /\ \/ request.tool \in {"search_code", "index_repository"} /\ Goto("prepare") /\ UNCHANGED result
           \/ request.tool \in {"workspace_status", "create_ci_workflow"} /\ Reply(Ok)
           \/ /\ request.tool \in {"bind_remote_ci", "remote_sync_index", "remote_download_index"}
              /\ Goto("remote") /\ UNCHANGED result
  /\ Kept /\ UNCHANGED <<diskVars, llamaVars, pool, reported>>

-----------------------------------------------------------------------------
(* ensurePrepared, llama.New and Embedder.Close                              *)

LibPath(w) == IF libs = "local" THEN StateDir(w) ELSE "given"

\* One embedder less.
Release ==
  /\ refs' = IF refs > 0 THEN refs - 1 ELSE refs
  /\ open' = (open /\ refs' > 0)

Prepared ==
  /\ at = "prepare" /\ pool[request.dir] # <<>>
  /\ Goto("work")
  /\ Kept /\ UNCHANGED <<diskVars, llamaVars, heldVars, result, reported>>

\* New loads the libraries once, refuses a second path, and takes a reference of the runtime before
\* it loads the model.
NewEmbedder ==
  /\ at = "prepare" /\ pool[request.dir] = <<>>
  /\ \/ libs = "remote" /\ Goto("open") /\ UNCHANGED llamaVars
     \/ /\ libs # "remote" /\ loaded \in {None, LibPath(request.dir)}
        /\ loaded' = LibPath(request.dir)
        /\ refs' = refs + 1 /\ open' = TRUE
        /\ Goto("load") /\ UNCHANGED libs
  /\ Kept /\ UNCHANGED <<diskVars, heldVars, result, reported>>

\* What it needs is not there, the libraries cannot be loaded or another path was.
NewEmbedderFails ==
  /\ at = "prepare" /\ pool[request.dir] = <<>>
  /\ Reply(Error)
  /\ Kept /\ UNCHANGED <<diskVars, llamaVars, heldVars, reported>>

LoadModel ==
  /\ at = "load"
  /\ Goto("open")
  /\ Kept /\ UNCHANGED <<diskVars, llamaVars, heldVars, result, reported>>

\* No model, or no context for it: New gives its reference back.
LoadModelFails ==
  /\ at = "load"
  /\ Release /\ Reply(Error)
  /\ Kept /\ UNCHANGED <<diskVars, libs, loaded, heldVars, reported>>

\* indexdb.Open opens a first connection to the file at the path.
OpenIndex ==
  /\ at = "open"
  /\ LET s == StateDir(request.dir) IN
       /\ files' = [files EXCEPT ![s] = AtPath(s)]
       /\ pool' = [pool EXCEPT ![request.dir] = <<Len(AtPath(s))>>]
  /\ Goto("work")
  /\ Kept /\ UNCHANGED <<bound, published, artifacts, origin, llamaVars, children, result, reported>>

\* Faulty variant: the embedder is not closed.
OpenIndexFailsLeaking ==
  /\ at = "open"
  /\ Reply(Error)
  /\ Kept /\ UNCHANGED <<diskVars, llamaVars, heldVars, reported>>

OpenIndexFails ==
  /\ at = "open"
  /\ IF libs = "remote" THEN UNCHANGED <<refs, open>> ELSE Release
  /\ Reply(Error)
  /\ Kept /\ UNCHANGED <<diskVars, libs, loaded, heldVars, reported>>

-----------------------------------------------------------------------------
(* The tools                                                                 *)

\* The connections of a backend in a run: the walk and the coordinator of an OpenRouter run use the
\* Store at once, and sql.DB then opens a second one, to the file now at the path.
Connections(w) ==
  {pool[w]} \union
    (IF libs = "remote" /\ Len(pool[w]) = 1 THEN {Append(pool[w], Len(files[StateDir(w)]))} ELSE {})

\* searchCode: over one connection, to any file of the pool; without an active snapshot there the
\* tool reports an error, as it does when the query cannot be embedded.
Search ==
  /\ at = "work" /\ request.tool = "search_code"
  /\ \/ \E c \in DOMAIN pool[request.dir] :
          LET index == files[StateDir(request.dir)][pool[request.dir][c]]
          IN  Reply(IF index = 0 THEN Error ELSE index)
     \/ Reply(Error)
  /\ Kept /\ UNCHANGED <<diskVars, llamaVars, heldVars, reported>>

\* indexRepository: the run activates its snapshot over one of the connections.  The manifest at the
\* path is then updated, which unbinds the directory, and the file hashes are activated; what fails
\* here fails the request but leaves the new index.
IndexRepository ==
  /\ at = "work" /\ request.tool = "index_repository"
  /\ LET w == request.dir
         s == StateDir(w)
     IN  /\ Build(w)
         /\ \E conns \in Connections(w) :
              /\ pool' = [pool EXCEPT ![w] = conns]
              /\ \E c \in DOMAIN conns : files' = [files EXCEPT ![s][conns[c]] = Built + 1]
         /\ \/ /\ bound' = [bound EXCEPT ![s] = None]
               /\ reported' = [reported EXCEPT ![s] = Built + 1]
               /\ Reply(Ok)
            \/ /\ bound' \in {bound, [bound EXCEPT ![s] = None]}
               /\ reported' = [reported EXCEPT ![s] = None]
               /\ Reply(Error)
  /\ Kept /\ UNCHANGED <<published, artifacts, llamaVars, children>>

\* An error before the run activates its snapshot.
IndexRepositoryFails ==
  /\ at = "work" /\ request.tool = "index_repository"
  /\ \E conns \in Connections(request.dir) : pool' = [pool EXCEPT ![request.dir] = conns]
  /\ Reply(Error)
  /\ Kept /\ UNCHANGED <<diskVars, llamaVars, children, reported>>

BindRemoteCI ==
  /\ at = "remote" /\ request.tool = "bind_remote_ci"
  /\ bound' = [bound EXCEPT ![StateDir(request.dir)] = request.dir]
  /\ Reply(Ok)
  /\ Kept /\ UNCHANGED <<files, published, artifacts, origin, llamaVars, heldVars, reported>>

\* remote_sync_index and remote_download_index.
Download ==
  /\ at = "remote"
  /\ LET s == StateDir(request.dir) IN
       \E index \in Index :
         /\ \/ request.tool = "remote_sync_index" /\ Refresh(s, index)
            \/ request.tool = "remote_download_index" /\ Fetch(s, request.dir, index)
         /\ reported' = [reported EXCEPT ![s] = index]
  /\ Reply(Ok)
  /\ Kept /\ UNCHANGED <<published, artifacts, origin, llamaVars, heldVars>>

\* Nothing is bound, published or newer; or an error of the network, the publication or the files.
NothingDownloaded ==
  /\ at = "remote"
  /\ \/ Reply(Error)
     \/ /\ request.tool = "remote_sync_index"
        /\ LET s == StateDir(request.dir) IN
             bound[s] # None => published[bound[s]] \in {None, Holds(s)}
        /\ Reply(Ok)
  /\ Kept /\ UNCHANGED <<diskVars, llamaVars, heldVars, reported>>

\* Faulty variant: the children are forgotten instead of closed.
CloseRoot ==
  /\ at = "close"
  /\ Goto("closed") /\ children' = {} /\ pool' = [w \in Workspace |-> <<>>]
  /\ IF pool[Root] # <<>> /\ libs # "remote" THEN Release ELSE UNCHANGED <<refs, open>>
  /\ Kept /\ UNCHANGED <<diskVars, libs, loaded, result, reported>>

\* mcpBackend.Close after Serve returns: the children first, one by one.
Close ==
  /\ at = "close"
  /\ \/ children = {} /\ Goto("closed") /\ UNCHANGED <<heldVars, refs, open>>
     \/ \E w \in children :
          /\ w = Root => children = {Root}
          /\ children' = children \ {w} /\ pool' = [pool EXCEPT ![w] = <<>>]
          /\ IF pool[w] # <<>> /\ libs # "remote" THEN Release ELSE UNCHANGED <<refs, open>>
          /\ UNCHANGED at
  /\ Kept /\ UNCHANGED <<diskVars, libs, loaded, result, reported>>

-----------------------------------------------------------------------------
Serve ==
  \/ Read \/ Write \/ WriteFails \/ Call
  \/ Prepared \/ NewEmbedder \/ NewEmbedderFails \/ LoadModel \/ LoadModelFails
  \/ OpenIndex \/ OpenIndexFails
  \/ Search \/ IndexRepository \/ IndexRepositoryFails
  \/ BindRemoteCI \/ Download \/ NothingDownloaded
  \/ Close

Next == Serve \/ \E w \in Workspace : UserIndexes(w) \/ UserDownloads(w) \/ Publish(w)

Spec == Init /\ [][Next]_vars

-----------------------------------------------------------------------------
\* Backends that hold an embedder.
Prepareds == {w \in Workspace : pool[w] # <<>>}

\* The references of the native runtime that should be out: those of the backends, and one that a
\* preparation has taken.
Users ==
  IF libs = "remote" THEN 0
  ELSE Cardinality(Prepareds) + (IF at \in {"load", "open"} THEN 1 ELSE 0)

\* No file has been put at the path of a state directory since its backends opened theirs.
OnPath(s) ==
  \A w \in Workspace :
    StateDir(w) = s => \A c \in DOMAIN pool[w] : pool[w][c] = Len(files[s])

TypeOK ==
  /\ explicit \in BOOLEAN /\ broken \in BOOLEAN
  /\ files \in [Workspace -> Seq(Index)] /\ bound \in [Workspace -> {None} \union Workspace]
  /\ published \in [Workspace -> {None} \union Index] /\ artifacts \in [Workspace -> SUBSET Index]
  /\ origin \in [1..MaxBuilds -> {None} \union Workspace]
  /\ children \subseteq Workspace /\ Prepareds \subseteq children
  /\ pool \in [Workspace -> Seq(1..MaxFiles)]
  /\ \A w \in Workspace :
       /\ Len(files[w]) <= MaxFiles /\ Len(pool[w]) <= 2
       /\ \A c \in DOMAIN pool[w] : pool[w][c] <= Len(files[StateDir(w)])
  /\ loaded \in {None, "given"} \union Workspace /\ refs \in 0..Cardinality(Workspace)
  /\ reported \in [Workspace -> {None} \union Index]
  /\ at \in {"read", "write", "call", "prepare", "load", "open", "work", "remote", "close", "closed"}

\* The native runtime is initialised exactly as long as an embedder uses it: no preparation that
\* fails, before or after the model is loaded, leaves a reference behind, none closes the runtime
\* under another workspace, and the end of the session gives everything back.
RuntimeOpenIffUsed == refs = Users /\ open = (Users > 0)

\* The answers bear the identifiers of the requests, in their order and once each, and never one of a
\* notification; the session ends with a request unanswered only when an answer could not be written.
AnsweredInOrder ==
  /\ IsPrefix(answers, asked) /\ Len(asked) <= Len(answers) + 1
  /\ at = "read" => answers = asked
  /\ at \in {"close", "closed"} => answers = asked \/ broken

\* A search shows an index that was built for the workspace of the request, unless the server was
\* given one state directory for all of them.
AnswersFromWorkspace ==
  at = "write" /\ result \in Index => explicit \/ origin[result] = request.dir

\* As long as no file has been put over one that a backend of the state directory has open, a search
\* shows what index_repository, remote_sync_index or remote_download_index last reported there,
\* whatever has failed in between, was asked of other workspaces or runs over two connections.
ReportedIsSearched ==
  at = "write" /\ result \in Index =>
    LET s == StateDir(request.dir)
    IN  reported[s] # None /\ OnPath(s) => result = reported[s]

\* As the tools are described: what index_repository has built or remote_sync_index has
\* refreshed is the local index, and the one that search_code searches.
SearchUsesReportedIndex ==
  \A w \in Workspace :
    LET s == StateDir(w)
    IN  at = "read" /\ reported[s] # None /\ pool[w] # <<>> =>
          /\ Holds(s) = reported[s]
          /\ \A c \in DOMAIN pool[w] : files[s][pool[w][c]] = reported[s]
=============================================================================
