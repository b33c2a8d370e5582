-------------------------- MODULE EmbeddingPipeline --------------------------
(***************************************************************************)
(* The embedding pipeline of one indexing run (internal/indexing/          *)
(* service.go).  The walk goroutine emits symbols, inserts one row per     *)
(* symbol in the building snapshot and queues each missing embedding on    *)
(* the channel `requests`; the coordinator goroutine batches requests,     *)
(* dispatches batches to a fixed pool of workers, retries or splits what   *)
(* failed and stores what succeeded; the run activates the snapshot only   *)
(* after the coordinator has reported success on the channel `done`.       *)
(*                                                                         *)
(* A symbol is its embedding hash.  A batch is a set of hashes and their   *)
(* common attempt number: all items of a batch are fresh together or are   *)
(* retried together, so the maximum that retryEmbeddingBatch computes is   *)
(* the attempt of every item.  Channels and the slice `queue` are sets:    *)
(* any order of delivery is allowed, the code's FIFO order included.       *)
(***************************************************************************)
EXTENDS Integers, FiniteSets

CONSTANTS
  Hashes,       \* embedding hashes of the symbols in the tree
  Preexisting,  \* hashes that earlier runs may have left in the embedding table
  Worker,       \* worker goroutines; embeddingWorkerCount is their number
  BatchSize,    \* embeddingBatchSize
  MaxAttempts,  \* embeddingMaxAttempts
  RequestCap,   \* capacity of requests, embeddingBatchSize * embeddingWorkerCount in the code
  MaxSymbols,   \* bound on the symbols one walk emits
  NoHash,       \* the absence of a symbol
  NoBatch       \* the absence of a batch

VARIABLES
  batched,      \* the embedder implements BatchEmbedder (OpenRouter), or not (llama.cpp)
  ctxDone,      \* ctx is cancelled
  left,         \* symbols the walk may still emit
  prod,         \* where the goroutine that runs Service.Run is
  cur,          \* the symbol indexJob works on
  seen,         \* embeddingBuffer.hashes
  rows,         \* hashes referenced by snapshot_symbols rows of the building snapshot
  walkFailed,   \* walk() returned an error
  requests,     \* the buffered channel of queued hashes
  closed,       \* requests is closed
  coord,        \* where the coordinator goroutine is
  ret,          \* what the coordinator will return
  pending,      \* requests received and not yet batched
  queue,        \* batches waiting for a worker
  active,       \* batches dispatched and not yet received back
  inputClosed,  \* the coordinator has seen the end of requests
  held,         \* the batch being retried or stored
  jobs,         \* the channel of batches to workers
  jobsClosed,   \* jobs is closed
  work,         \* work[w]: the batch worker w is embedding, or gave up with
  alive,        \* alive[w]: worker w has not returned
  results,      \* the channel of answers from workers
  done,         \* the channel of the pipeline's outcome
  stored,       \* keys of the embedding table
  activated,    \* the new snapshot is the active one
  outcome       \* what Service.Run returned

walkVars  == <<left, prod, cur, seen, rows, walkFailed, closed>>
poolVars  == <<jobsClosed, work, alive>>
coordVars == <<coord, ret, pending, queue, active, inputClosed, held>>
runVars   == <<batched, activated, outcome>>
vars == <<batched, ctxDone, left, prod, cur, seen, rows, walkFailed, requests, closed,
          coord, ret, pending, queue, active, inputClosed, held, jobs, jobsClosed, work,
          alive, results, done, stored, activated, outcome>>

WorkerCount == Cardinality(Worker)

Batch == [items : SUBSET Hashes, attempt : Nat \ {0}]
MkBatch(S, n) == [items |-> S, attempt |-> n]

\* How one call of EmbedIndexedSymbolBatch can end: one vector per item, a wrong number of
\* vectors, or an error of each of the four classes retryEmbeddingBatch tells apart.
Verdict == {"vectors", "wrongCount", "tooLarge", "tooLargeTemporary", "temporary", "permanent"}
ShouldSplit(v) == v \in {"tooLarge", "tooLargeTemporary"}
IsRetryable(v) == v \in {"temporary", "tooLargeTemporary"}
Answer == [batch : Batch, verdict : Verdict]

ASSUME PipelineAssumption ==
  /\ IsFiniteSet(Hashes) /\ IsFiniteSet(Worker) /\ Worker # {}
  /\ Preexisting \subseteq Hashes
  /\ BatchSize \in Nat \ {0}
  /\ MaxAttempts \in Nat \ {0}
  /\ RequestCap \in Nat \ {0}
  /\ MaxSymbols \in Nat
  /\ NoBatch \notin Batch /\ NoHash \notin Hashes

Init ==
  /\ batched \in BOOLEAN
  /\ ctxDone = FALSE
  /\ left = MaxSymbols /\ prod = "walk" /\ cur = NoHash
  /\ seen = {} /\ rows = {} /\ walkFailed = FALSE
  /\ requests = {} /\ closed = FALSE
  /\ coord = (IF batched THEN "loop" ELSE "none") /\ ret = "ok"
  /\ pending = {} /\ queue = {} /\ active = 0 /\ inputClosed = FALSE /\ held = NoBatch
  /\ jobs = {} /\ jobsClosed = FALSE /\ results = {}
  /\ work = [w \in Worker |-> NoBatch] /\ alive = [w \in Worker |-> batched]
  /\ done = "none"
  /\ stored \in SUBSET Preexisting
  /\ activated = FALSE /\ outcome = "running"

-----------------------------------------------------------------------------
(* Service.Run: the walk. *)

\* Faulty variant: no run-wide set of queued hashes.
NextSymbolNoDedupe(h) ==
  /\ prod = "walk" /\ left > 0
  /\ left' = left - 1 /\ cur' = h /\ seen' = seen \union {h}
  /\ prod' = (IF h \in stored THEN "insert" ELSE "send")
  /\ UNCHANGED <<rows, walkFailed, closed, requests, ctxDone, stored, jobs, results, done,
                 coordVars, poolVars, runVars>>

\* indexJob: EmbeddingExists, then the run-wide set of hashes queueMissingEmbedding keeps.
NextSymbol(h) ==
  /\ prod = "walk" /\ left > 0
  /\ left' = left - 1 /\ cur' = h
  /\ IF h \in stored \union seen
     THEN prod' = "insert" /\ UNCHANGED seen
     ELSE prod' = "send" /\ seen' = seen \union {h}
  /\ UNCHANGED <<rows, walkFailed, closed, requests, ctxDone, stored, jobs, results, done,
                 coordVars, poolVars, runVars>>

\* The select of queueMissingEmbedding.
SendRequest ==
  /\ prod = "send" /\ batched
  /\ Cardinality(requests) < RequestCap
  /\ requests' = requests \union {cur} /\ prod' = "insert"
  /\ UNCHANGED <<left, cur, seen, rows, walkFailed, closed, ctxDone, stored, jobs, results,
                 done, coordVars, poolVars, runVars>>

\* Without a batch embedder the walk goroutine embeds and stores the symbol itself.
EmbedInline ==
  /\ prod = "send" /\ ~batched
  /\ stored' = stored \union {cur} /\ prod' = "insert"
  /\ UNCHANGED <<left, cur, seen, rows, walkFailed, closed, requests, ctxDone, jobs, results,
                 done, coordVars, poolVars, runVars>>

InsertSymbol ==
  /\ prod = "insert"
  /\ rows' = rows \union {cur} /\ prod' = "walk" /\ cur' = NoHash
  /\ UNCHANGED <<left, seen, walkFailed, closed, requests, ctxDone, stored, jobs, results,
                 done, coordVars, poolVars, runVars>>

\* finishEmbeddingPipeline: close requests; the goroutine then blocks on done.
FinishPipeline ==
  /\ closed' = batched /\ prod' = "wait" /\ cur' = NoHash /\ left' = 0
  /\ UNCHANGED <<seen, rows, requests, ctxDone, stored, jobs, results, done, coordVars,
                 poolVars, runVars>>

\* Any call of handleFile may fail; a blocked send fails only when ctx is cancelled.
WalkFails ==
  /\ \/ prod \in {"walk", "insert"}
     \/ prod = "send" /\ (~batched \/ ctxDone)
  /\ walkFailed' = TRUE
  /\ FinishPipeline

WalkEnds ==
  /\ prod = "walk"
  /\ FinishPipeline /\ UNCHANGED walkFailed

\* Faulty variant: the run does not wait for the pipeline.
PipelineOutcomeIgnored == "ok"

PipelineOutcome == IF batched THEN done ELSE "ok"

ReturnError ==
  /\ prod = "wait" /\ PipelineOutcome # "none"
  /\ walkFailed \/ PipelineOutcome = "error"
  /\ prod' = "end" /\ outcome' = "error"
  /\ UNCHANGED <<left, cur, seen, rows, walkFailed, closed, requests, ctxDone, stored, jobs,
                 results, done, coordVars, poolVars, batched, activated>>

\* finalize after the pipeline: ActivateSnapshot may fail, and so may the two clean-ups that
\* follow it (their effect on the databases is in IndexRun).
ActivateSnapshot ==
  /\ prod = "wait" /\ PipelineOutcome = "ok" /\ ~walkFailed
  /\ prod' = "end"
  /\ \/ activated' = TRUE /\ outcome' \in {"ok", "error"}
     \/ UNCHANGED activated /\ outcome' = "error"
  /\ UNCHANGED <<left, cur, seen, rows, walkFailed, closed, requests, ctxDone, stored, jobs,
                 results, done, coordVars, poolVars, batched>>

CancelContext ==
  /\ ~ctxDone /\ prod # "end"
  /\ ctxDone' = TRUE
  /\ UNCHANGED <<requests, stored, jobs, results, done, walkVars, coordVars, poolVars, runVars>>

-----------------------------------------------------------------------------
(* runEmbeddingPipeline: the coordinator. *)

\* Faulty variants: dispatch without a limit; end of work declared while answers are due.
CanDispatchUnlimited == queue # {}
AllDoneIgnoringActive == inputClosed /\ pending = {} /\ queue = {}

BatchFull   == Cardinality(pending) >= BatchSize
CanDispatch == queue # {} /\ active < WorkerCount
AllDone     == inputClosed /\ pending = {} /\ queue = {} /\ active = 0

\* The coordinator has finished the head of its loop and waits in the select.
Selecting == coord = "loop" /\ ~BatchFull /\ ~CanDispatch /\ ~AllDone

PopFullBatch ==
  /\ coord = "loop" /\ BatchFull
  /\ queue' = queue \union {MkBatch(pending, 1)} /\ pending' = {}
  /\ UNCHANGED <<coord, ret, active, inputClosed, held, requests, ctxDone, stored, jobs,
                 results, done, walkVars, poolVars, runVars>>

\* The send on jobs; it would block on a full channel.
Dispatch(b) ==
  /\ coord = "loop" /\ ~BatchFull /\ CanDispatch
  /\ Cardinality(jobs) < WorkerCount
  /\ queue' = queue \ {b} /\ jobs' = jobs \union {b} /\ active' = active + 1
  /\ UNCHANGED <<coord, ret, pending, inputClosed, held, requests, ctxDone, stored, results,
                 done, walkVars, poolVars, runVars>>

\* closeWorkers, and what is returned once every worker has exited. The loop is left for good:
\* its local variables are dropped.
CloseWorkers(r) ==
  /\ coord' = "closing" /\ ret' = r /\ jobsClosed' = TRUE
  /\ pending' = {} /\ queue' = {} /\ active' = 0 /\ inputClosed' = FALSE /\ held' = NoBatch
  /\ UNCHANGED <<work, alive>>

CancelledInLoop ==
  /\ ctxDone /\ coord = "loop" /\ ~BatchFull /\ ~AllDone
  /\ CloseWorkers("cancelled")
  /\ UNCHANGED <<requests, ctxDone, stored, jobs, results, done, walkVars, runVars>>

FinishOk ==
  /\ coord = "loop" /\ ~BatchFull /\ ~CanDispatch /\ AllDone
  /\ CloseWorkers("ok")
  /\ UNCHANGED <<requests, ctxDone, stored, jobs, results, done, walkVars, runVars>>

ReceiveRequest(h) ==
  /\ Selecting
  /\ requests' = requests \ {h} /\ pending' = pending \union {h}
  /\ UNCHANGED <<coord, ret, queue, active, inputClosed, held, ctxDone, stored, jobs, results,
                 done, walkVars, poolVars, runVars>>

FlushPending == IF pending = {} THEN queue ELSE queue \union {MkBatch(pending, 1)}

ReceiveClosed ==
  /\ Selecting /\ closed /\ requests = {}
  /\ inputClosed' = TRUE /\ queue' = FlushPending /\ pending' = {}
  /\ UNCHANGED <<coord, ret, active, held, requests, ctxDone, stored, jobs, results, done,
                 walkVars, poolVars, runVars>>

\* embeddingBatchTimer fires only when something is pending.
BatchTimer ==
  /\ Selecting /\ pending # {}
  /\ queue' = FlushPending /\ pending' = {}
  /\ UNCHANGED <<coord, ret, active, inputClosed, held, requests, ctxDone, stored, jobs,
                 results, done, walkVars, poolVars, runVars>>

Receive(a) == Selecting /\ results' = results \ {a}

\* storeEmbeddingBatchResult gives up on a wrong number of vectors.
WrongCount(a) == a.verdict = "wrongCount"

\* Faulty variant: one attempt too many.
HopelessOffByOne(a) ==
  \/ WrongCount(a)
  \/ /\ a.verdict \notin {"vectors", "wrongCount"}
     /\ \/ a.batch.attempt > MaxAttempts
        \/ ~IsRetryable(a.verdict) /\ Cardinality(a.batch.items) <= 1

\* retryEmbeddingBatch gives up: attempts used up, or one symbol the provider rejects for good.
Hopeless(a) ==
  \/ WrongCount(a)
  \/ /\ a.verdict \notin {"vectors", "wrongCount"}
     /\ \/ a.batch.attempt + 1 > MaxAttempts
        \/ ~IsRetryable(a.verdict) /\ Cardinality(a.batch.items) <= 1

Splits(a) == ShouldSplit(a.verdict) /\ Cardinality(a.batch.items) > 1

ReceiveHopeless(a) ==
  /\ Receive(a) /\ Hopeless(a)
  /\ CloseWorkers("error")
  /\ UNCHANGED <<requests, ctxDone, stored, jobs, done, walkVars, runVars>>

ReceiveSplit(a) ==
  /\ Receive(a) /\ active' = active - 1 /\ a.verdict # "vectors" /\ ~Hopeless(a) /\ Splits(a)
  /\ \E half \in SUBSET a.batch.items :
       /\ Cardinality(half) = Cardinality(a.batch.items) \div 2
       /\ queue' = queue \union {MkBatch(half, a.batch.attempt + 1),
                                 MkBatch(a.batch.items \ half, a.batch.attempt + 1)}
  /\ UNCHANGED <<coord, ret, pending, inputClosed, held, requests, ctxDone, stored, jobs, done,
                 walkVars, poolVars, runVars>>

\* The coordinator itself sleeps for embeddingRetryDelay.
ReceiveRetry(a) ==
  /\ Receive(a) /\ active' = active - 1 /\ a.verdict # "vectors" /\ ~Hopeless(a) /\ ~Splits(a)
  /\ coord' = "backoff" /\ held' = MkBatch(a.batch.items, a.batch.attempt + 1)
  /\ UNCHANGED <<ret, pending, queue, inputClosed, requests, ctxDone, stored, jobs, done,
                 walkVars, poolVars, runVars>>

ReceiveVectors(a) ==
  /\ Receive(a) /\ active' = active - 1 /\ a.verdict = "vectors"
  /\ coord' = "store" /\ held' = a.batch
  /\ UNCHANGED <<ret, pending, queue, inputClosed, requests, ctxDone, stored, jobs, done,
                 walkVars, poolVars, runVars>>

BackoffElapsed ==
  /\ coord = "backoff"
  /\ queue' = queue \union {held} /\ held' = NoBatch /\ coord' = "loop"
  /\ UNCHANGED <<ret, pending, active, inputClosed, requests, ctxDone, stored, jobs, results,
                 done, walkVars, poolVars, runVars>>

\* storeEmbeddingBatchResult: one AddEmbedding per item; embedding_key is a primary key.
StoreEmbedding(h) ==
  /\ coord = "store" /\ h \notin stored
  /\ stored' = stored \union {h}
  /\ IF held.items = {h}
     THEN held' = NoBatch /\ coord' = "loop"
     ELSE held' = [held EXCEPT !.items = @ \ {h}] /\ UNCHANGED coord
  /\ UNCHANGED <<ret, pending, queue, active, inputClosed, requests, ctxDone, jobs, results,
                 done, walkVars, poolVars, runVars>>

\* AddEmbedding fails, or ctx ends the back-off: finishWithError.
HeldFails ==
  /\ coord = "store" \/ (coord = "backoff" /\ ctxDone)
  /\ CloseWorkers("error")
  /\ UNCHANGED <<requests, ctxDone, stored, jobs, results, done, walkVars, runVars>>

\* runEmbeddingPipeline returns, and its goroutine sends the outcome on done.
SendDone ==
  /\ coord' = "end" /\ done' = (IF ret = "ok" THEN "ok" ELSE "error")

\* Faulty variant: an error leaves the requests in the channel.
WorkersExitedNoDrain ==
  /\ coord = "closing" /\ \A w \in Worker : ~alive[w]
  /\ SendDone
  /\ UNCHANGED <<ret, pending, queue, active, inputClosed, held, requests, ctxDone, stored,
                 jobs, results, walkVars, poolVars, runVars>>

\* workers.Wait has returned; only finishWithError goes on to drainEmbeddingRequests.
WorkersExited ==
  /\ coord = "closing" /\ \A w \in Worker : ~alive[w]
  /\ IF ret = "error" THEN coord' = "drain" /\ UNCHANGED done ELSE SendDone
  /\ UNCHANGED <<ret, pending, queue, active, inputClosed, held, requests, ctxDone, stored,
                 jobs, results, walkVars, poolVars, runVars>>

DrainRequest(h) ==
  /\ coord = "drain"
  /\ requests' = requests \ {h}
  /\ UNCHANGED <<ctxDone, stored, jobs, results, done, coordVars, walkVars, poolVars, runVars>>

DrainEnds ==
  /\ coord = "drain" /\ (ctxDone \/ (closed /\ requests = {}))
  /\ SendDone
  /\ UNCHANGED <<ret, pending, queue, active, inputClosed, held, requests, ctxDone, stored,
                 jobs, results, walkVars, poolVars, runVars>>

-----------------------------------------------------------------------------
(* embeddingBatchWorker. *)

TakeJob(w, b) ==
  /\ alive[w] /\ work[w] = NoBatch
  /\ jobs' = jobs \ {b} /\ work' = [work EXCEPT ![w] = b]
  /\ UNCHANGED <<jobsClosed, alive, requests, ctxDone, stored, results, done, walkVars,
                 coordVars, runVars>>

\* The provider call returns and the worker sends the answer; the send would block on a full
\* channel.
SendAnswer(w, v) ==
  /\ alive[w] /\ work[w] # NoBatch
  /\ Cardinality(results) < WorkerCount
  /\ results' = results \union {[batch |-> work[w], verdict |-> v]}
  /\ work' = [work EXCEPT ![w] = NoBatch]
  /\ UNCHANGED <<jobsClosed, alive, requests, ctxDone, stored, jobs, done, walkVars,
                 coordVars, runVars>>

\* The select of the worker takes ctx.Done: the answer is dropped. work[w] keeps the batch, to
\* tell what was lost.
AbandonAnswer(w) ==
  /\ alive[w] /\ work[w] # NoBatch /\ ctxDone
  /\ alive' = [alive EXCEPT ![w] = FALSE]
  /\ UNCHANGED <<work, jobsClosed, requests, ctxDone, stored, jobs, results, done,
                 walkVars, coordVars, runVars>>

\* range over jobs ends once the channel is closed and empty.
ExitWorker(w) ==
  /\ alive[w] /\ work[w] = NoBatch /\ jobsClosed /\ jobs = {}
  /\ alive' = [alive EXCEPT ![w] = FALSE]
  /\ UNCHANGED <<work, jobsClosed, requests, ctxDone, stored, jobs, results, done,
                 walkVars, coordVars, runVars>>

-----------------------------------------------------------------------------
Walk ==
  \/ \E h \in Hashes : NextSymbol(h)
  \/ SendRequest \/ EmbedInline \/ InsertSymbol \/ WalkFails \/ WalkEnds
  \/ ReturnError \/ ActivateSnapshot

Coordinate ==
  \/ PopFullBatch \/ CancelledInLoop \/ FinishOk \/ ReceiveClosed \/ BatchTimer
  \/ \E b \in queue : Dispatch(b)
  \/ \E h \in requests : ReceiveRequest(h) \/ DrainRequest(h)
  \/ \E a \in results :
       ReceiveHopeless(a) \/ ReceiveSplit(a) \/ ReceiveRetry(a) \/ ReceiveVectors(a)
  \/ BackoffElapsed \/ HeldFails \/ WorkersExited \/ DrainEnds
  \/ coord = "store" /\ \E h \in held.items : StoreEmbedding(h)

Work(w) ==
  \/ \E b \in jobs : TakeJob(w, b)
  \/ \E v \in Verdict : SendAnswer(w, v)
  \/ AbandonAnswer(w) \/ ExitWorker(w)

\* Run has returned: the only state in which nothing more happens.
Returned == prod = "end" /\ UNCHANGED vars

Next == Walk \/ Coordinate \/ (\E w \in Worker : Work(w)) \/ CancelContext \/ Returned

Fairness == WF_vars(Walk) /\ WF_vars(Coordinate) /\ \A w \in Worker : WF_vars(Work(w))

Spec == Init /\ [][Next]_vars
FairSpec == Spec /\ Fairness

-----------------------------------------------------------------------------
TypeOK ==
  /\ batched \in BOOLEAN /\ ctxDone \in BOOLEAN
  /\ left \in 0..MaxSymbols /\ cur \in Hashes \union {NoHash}
  /\ (prod \in {"send", "insert"} => cur \in Hashes)
  /\ prod \in {"walk", "send", "insert", "wait", "end"}
  /\ seen \subseteq Hashes /\ rows \subseteq Hashes /\ walkFailed \in BOOLEAN
  /\ requests \subseteq Hashes /\ closed \in BOOLEAN
  /\ coord \in {"none", "loop", "backoff", "store", "closing", "drain", "end"}
  /\ ret \in {"ok", "error", "cancelled"}
  /\ pending \subseteq Hashes /\ queue \subseteq Batch
  /\ active \in 0..WorkerCount /\ inputClosed \in BOOLEAN
  /\ held \in Batch \union {NoBatch}
  /\ (coord \in {"backoff", "store"} => held # NoBatch)
  /\ jobs \subseteq Batch /\ jobsClosed \in BOOLEAN
  /\ work \in [Worker -> Batch \union {NoBatch}] /\ alive \in [Worker -> BOOLEAN]
  /\ results \subseteq Answer
  /\ done \in {"none", "ok", "error"}
  /\ stored \subseteq Hashes
  /\ activated \in BOOLEAN /\ outcome \in {"running", "ok", "error"}

\* A snapshot becomes active only when every row it holds has its embedding stored.
ActivatedIsComplete == activated => rows \subseteq stored

\* AddEmbedding is never asked for a key the table already has: the pipeline embeds and stores
\* a hash at most once, so its primary key never makes a run fail.
NoDoubleStore == coord = "store" => held.items \intersect stored = {}

\* The counter `active` bounds what is in the two channels of capacity embeddingWorkerCount, so
\* neither the coordinator nor a worker can block on a send while the other waits for it.
SendsNeverBlock ==
  /\ coord = "loop" /\ CanDispatch => Cardinality(jobs) < WorkerCount
  /\ \A w \in Worker : alive[w] /\ work[w] # NoBatch => Cardinality(results) < WorkerCount

\* No symbol is sent to the provider more than embeddingMaxAttempts times, whatever mix of
\* splits, back-offs and single retries it goes through.
AttemptsBounded ==
  \A b \in jobs \union {work[w] : w \in Worker} : b # NoBatch => b.attempt <= MaxAttempts

\* Run returns: the producer, the coordinator and the workers never wait on each other for ever,
\* in particular when the pipeline fails while the walk still fills the bounded channel.
Termination == <>(prod = "end" /\ coord \in {"none", "end"} /\ \A w \in Worker : ~alive[w])

\* The pipeline keeps the promise of SnapshotPromise, and its own variables are the mapping.
Promise == INSTANCE SnapshotPromise
             WITH Hashes <- Hashes, rows <- rows, stored <- stored, activated <- activated
KeepsPromise == Promise!Spec

=============================================================================
