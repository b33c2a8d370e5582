----------------------- MODULE EmbeddingPipelineProofs -----------------------
(***************************************************************************)
(* Proofs about EmbeddingPipeline for every set of hashes, pool of workers,*)
(* batch size, channel capacity and attempt limit.                         *)
(*                                                                         *)
(* Bounded: types, the attempt numbers and what the counter `active`       *)
(* counts.  Phases: which part of the run has ended when.  Tracked: unless *)
(* the walk has failed, until the coordinator leaves its loop every queued *)
(* hash is stored or somewhere between the walk and the embedding table.   *)
(* Once: no hash is in two of these places.                                *)
(***************************************************************************)
EXTENDS EmbeddingPipeline, FiniteSetTheorems, TLAPS

InLoop == coord \in {"loop", "backoff", "store"}
Carriers == {w \in Worker : work[w] # NoBatch}
Load == Cardinality(jobs) + Cardinality(Carriers) + Cardinality(results)

Bounded ==
  /\ TypeOK
  /\ IsFiniteSet(jobs) /\ IsFiniteSet(results)
  /\ InLoop => Load <= active
  /\ Load <= WorkerCount
  /\ \A b \in queue \union jobs : b.attempt <= MaxAttempts
  /\ \A w \in Worker : work[w] # NoBatch => work[w].attempt <= MaxAttempts
  /\ \A a \in results : a.batch.attempt <= MaxAttempts
  /\ held # NoBatch => held.attempt <= MaxAttempts

Phases ==
  /\ batched \/ coord = "none"
  /\ coord = "none" => ~batched
  /\ closed => prod \in {"wait", "end"}
  /\ inputClosed => closed /\ requests = {}
  /\ coord = "drain" => ret = "error"
  /\ done = "ok" => ret = "ok" /\ coord = "end"
  /\ coord \in {"closing", "end"} /\ ret = "ok" => closed
  /\ activated => prod = "end" /\ coord \in {"none", "end"}
  /\ coord = "loop" => held = NoBatch

\* h is stored, or on its way to the embedding table.
Located(h) ==
  \/ h \in stored
  \/ prod = "send" /\ cur = h
  \/ h \in requests
  \/ h \in pending
  \/ \E b \in queue \union jobs : h \in b.items
  \/ \E w \in Worker : work[w] # NoBatch /\ h \in work[w].items
  \/ \E a \in results : h \in a.batch.items
  \/ held # NoBatch /\ h \in held.items

Tracked ==
  /\ ~walkFailed =>
       /\ InLoop => \A h \in seen : Located(h)
       /\ ~batched => \A h \in seen : h \in stored \/ (prod = "send" /\ cur = h)
       /\ coord \in {"closing", "end"} /\ ret = "ok" => seen \subseteq stored
  /\ rows \subseteq stored \union seen
  /\ prod \in {"send", "insert"} => cur \in stored \union seen
  /\ activated => rows \subseteq stored

IInv == Bounded /\ Phases /\ Tracked
-----------------------------------------------------------------------------
\* One more element makes a finite set larger by at most one, exactly one if it is new.
LEMMA AddCount ==
  ASSUME NEW S, NEW x, IsFiniteSet(S)
  PROVE  /\ IsFiniteSet(S \union {x})
         /\ Cardinality(S) \in Nat /\ Cardinality(S \union {x}) \in Nat
         /\ Cardinality(S \union {x}) <= Cardinality(S) + 1
BY FS_CardinalityType, FS_AddElement

\* One element less makes a finite set smaller by one.
LEMMA RemoveCount ==
  ASSUME NEW S, NEW x \in S, IsFiniteSet(S)
  PROVE  /\ IsFiniteSet(S \ {x})
         /\ Cardinality(S) \in Nat /\ Cardinality(S \ {x}) \in Nat
         /\ Cardinality(S \ {x}) = Cardinality(S) - 1
BY FS_CardinalityType, FS_RemoveElement

\* The pool is not empty and finite.
LEMMA WorkerCountType == WorkerCount \in Nat \ {0}
BY PipelineAssumption, FS_EmptySet, FS_CardinalityType DEF WorkerCount

\* The three counts that make up Load are numbers.
LEMMA LoadType ==
  ASSUME Bounded
  PROVE  /\ IsFiniteSet(Carriers)
         /\ Cardinality(jobs) \in Nat /\ Cardinality(Carriers) \in Nat
         /\ Cardinality(results) \in Nat
<1>1. IsFiniteSet(Carriers)
  BY PipelineAssumption, FS_Subset DEF Carriers
<1>2. QED
  BY <1>1, FS_CardinalityType DEF Bounded

-----------------------------------------------------------------------------
\* Nothing is in flight when a run starts.
LEMMA BoundedInit == Init => Bounded
<1>1. SUFFICES ASSUME Init PROVE Bounded
  OBVIOUS
<1>2. TypeOK
  <2>1. alive \in [Worker -> BOOLEAN] /\ work \in [Worker -> Batch \union {NoBatch}]
    BY <1>1 DEF Init
  <2>2. coord \in {"none", "loop"} /\ stored \subseteq Hashes /\ active \in 0..WorkerCount
    BY <1>1, WorkerCountType, PipelineAssumption DEF Init
  <2>3. left \in 0..MaxSymbols
    BY <1>1, PipelineAssumption DEF Init
  <2>4. QED
    BY <1>1, <2>1, <2>2, <2>3 DEF Init, TypeOK
<1>3. Carriers = {} /\ jobs = {} /\ results = {} /\ queue = {} /\ held = NoBatch
  BY <1>1 DEF Init, Carriers
<1>4. Load = 0
  BY <1>3, FS_EmptySet DEF Load
<1>5. QED
  BY <1>1, <1>2, <1>3, <1>4, WorkerCountType, FS_EmptySet DEF Bounded, Init

\* Steps of the walk and of the context leave the pool alone.
LEMMA BoundedWalk == ASSUME Bounded, Walk \/ CancelContext PROVE Bounded'
<1> USE DEF walkVars, poolVars, coordVars, runVars
<1>1. /\ UNCHANGED <<coord, queue, active, held, jobs, work, results>>
      /\ UNCHANGED <<ret, pending, inputClosed, jobsClosed, alive, done>>
  BY DEF Walk, CancelContext, NextSymbol, SendRequest, EmbedInline, InsertSymbol, WalkFails,
         WalkEnds, FinishPipeline, ReturnError, ActivateSnapshot
<1>2. Carriers' = Carriers /\ Load' = Load
  BY <1>1 DEF Carriers, Load
<1>3. TypeOK'
  <2> USE PipelineAssumption DEF Bounded, TypeOK, Batch, Answer
  <2>1. ASSUME NEW h \in Hashes, NextSymbol(h) PROVE TypeOK'
    BY <2>1, <1>1 DEF NextSymbol
  <2>2. CASE SendRequest
    BY <2>2, <1>1 DEF SendRequest
  <2>3. CASE EmbedInline
    BY <2>3, <1>1 DEF EmbedInline
  <2>4. CASE InsertSymbol
    BY <2>4, <1>1 DEF InsertSymbol
  <2>5. CASE WalkFails
    BY <2>5, <1>1 DEF WalkFails, FinishPipeline
  <2>6. CASE WalkEnds
    BY <2>6, <1>1 DEF WalkEnds, FinishPipeline
  <2>7. CASE ReturnError
    BY <2>7, <1>1 DEF ReturnError
  <2>8. CASE ActivateSnapshot
    <3>1. activated' \in BOOLEAN
      BY <2>8, Zenon DEF ActivateSnapshot
    <3>2. outcome' \in {"running", "ok", "error"} /\ prod' = "end"
      BY <2>8 DEF ActivateSnapshot
    <3>3. QED
      BY <3>1, <3>2, <2>8, <1>1 DEF ActivateSnapshot
  <2>9. CASE CancelContext
    BY <2>9, <1>1 DEF CancelContext
  <2>10. QED
    BY <2>1, <2>2, <2>3, <2>4, <2>5, <2>6, <2>7, <2>8, <2>9 DEF Walk
<1>4. QED
  BY <1>1, <1>2, <1>3 DEF Bounded, InLoop

\* Steps of the coordinator that move no batch to or from the pool.
LEMMA BoundedLocal ==
  ASSUME Bounded,
         \/ PopFullBatch \/ ReceiveClosed \/ BatchTimer \/ BackoffElapsed
         \/ WorkersExited \/ DrainEnds
         \/ \E h \in requests : ReceiveRequest(h) \/ DrainRequest(h)
         \/ coord = "store" /\ \E h \in held.items : StoreEmbedding(h)
  PROVE  Bounded'
<1> USE DEF walkVars, poolVars, coordVars, runVars
<1>1. UNCHANGED <<active, jobs, work, results>> /\ (InLoop' => InLoop)
  BY DEF PopFullBatch, ReceiveClosed, BatchTimer, BackoffElapsed, WorkersExited, DrainEnds,
         SendDone, ReceiveRequest, DrainRequest, StoreEmbedding, InLoop
<1>2. Carriers' = Carriers /\ Load' = Load
  BY <1>1 DEF Carriers, Load
<1>3. MkBatch(pending, 1) \in Batch /\ MkBatch(pending, 1).attempt <= MaxAttempts
  BY PipelineAssumption DEF Bounded, TypeOK, Batch, MkBatch
<1> DEFINE Rest == /\ TypeOK'
                   /\ \A b \in queue' : b.attempt <= MaxAttempts
                   /\ held' # NoBatch => held'.attempt <= MaxAttempts
<1>4. Rest
  <2> USE PipelineAssumption DEF Bounded, TypeOK
  <2>1. CASE PopFullBatch
    BY <2>1, <1>3 DEF PopFullBatch
  <2>2. CASE ReceiveClosed
    BY <2>2, <1>3 DEF ReceiveClosed, FlushPending
  <2>3. CASE BatchTimer
    BY <2>3, <1>3 DEF BatchTimer, FlushPending
  <2>4. CASE BackoffElapsed
    BY <2>4 DEF BackoffElapsed
  <2>5. CASE WorkersExited
    BY <2>5 DEF WorkersExited, SendDone
  <2>6. CASE DrainEnds
    BY <2>6 DEF DrainEnds, SendDone
  <2>7. ASSUME NEW h \in requests, ReceiveRequest(h) PROVE Rest
    BY <2>7 DEF ReceiveRequest
  <2>8. ASSUME NEW h \in requests, DrainRequest(h) PROVE Rest
    BY <2>8 DEF DrainRequest
  <2>9. ASSUME coord = "store", NEW h \in held.items, StoreEmbedding(h) PROVE Rest
    <3>1. held \in Batch /\ held # NoBatch /\ h \in Hashes
      BY <2>9 DEF Batch
    <3>2. /\ held' \in Batch \union {NoBatch}
          /\ held' # NoBatch => held'.attempt = held.attempt
          /\ coord' \in {"backoff", "store"} => held' # NoBatch
      BY <3>1, <2>9 DEF StoreEmbedding, Batch
    <3>3. QED
      BY <3>1, <3>2, <2>9 DEF StoreEmbedding
  <2>10. QED
    BY <2>1, <2>2, <2>3, <2>4, <2>5, <2>6, <2>7, <2>8, <2>9
<1>5. QED
  BY <1>1, <1>2, <1>4 DEF Bounded

\* Leaving the loop drops the local variables; the channels are left as they are or lose an
\* answer.
LEMMA BoundedClosing ==
  ASSUME Bounded,
         CancelledInLoop \/ FinishOk \/ HeldFails \/ \E a \in results : ReceiveHopeless(a)
  PROVE  Bounded'
<1> USE DEF walkVars, runVars
<1>1. /\ UNCHANGED <<jobs, work>> /\ coord' = "closing"
      /\ results' = results \/ \E a \in results : results' = results \ {a}
      /\ queue' = {} /\ held' = NoBatch
  BY DEF CancelledInLoop, FinishOk, HeldFails, ReceiveHopeless, CloseWorkers, Receive
<1>2. TypeOK'
  <2>1. /\ \E r \in {"ok", "error", "cancelled"} : CloseWorkers(r)
        /\ UNCHANGED <<requests, ctxDone, stored, jobs, done, walkVars, runVars>>
    BY DEF CancelledInLoop, FinishOk, HeldFails, ReceiveHopeless
  <2>2. results' \subseteq Answer
    BY <1>1 DEF Bounded, TypeOK
  <2>3. jobsClosed' \in BOOLEAN /\ inputClosed' \in BOOLEAN
    BY <2>1, Zenon DEF CloseWorkers
  <2>4. active' \in 0..WorkerCount /\ ret' \in {"ok", "error", "cancelled"}
    BY <2>1, WorkerCountType DEF CloseWorkers
  <2>5. QED
    BY <1>1, <2>1, <2>2, <2>3, <2>4 DEF CloseWorkers, Bounded, TypeOK
<1>3. /\ IsFiniteSet(results') /\ Cardinality(results') \in Nat
      /\ Cardinality(results') <= Cardinality(results)
  <2>1. CASE results' = results
    BY <2>1, LoadType DEF Bounded
  <2>2. ASSUME NEW a \in results, results' = results \ {a}
        PROVE  /\ IsFiniteSet(results') /\ Cardinality(results') \in Nat
               /\ Cardinality(results') <= Cardinality(results)
    <3>1. IsFiniteSet(results)
      BY DEF Bounded
    <3>2. /\ IsFiniteSet(results \ {a})
          /\ Cardinality(results) \in Nat /\ Cardinality(results \ {a}) \in Nat
          /\ Cardinality(results \ {a}) = Cardinality(results) - 1
      BY <3>1, RemoveCount
    <3>3. QED
      BY <2>2, <3>2
  <2>3. QED
    BY <1>1, <2>1, <2>2
<1>4. Carriers' = Carriers
  BY <1>1 DEF Carriers
<1>5. Load' <= WorkerCount
  BY <1>1, <1>3, <1>4, LoadType, WorkerCountType DEF Bounded, Load
<1>6. QED
  BY <1>1, <1>2, <1>3, <1>5 DEF Bounded, InLoop

\* A dispatched batch is counted before it reaches the channel.
LEMMA BoundedDispatch == ASSUME Bounded, NEW b \in queue, Dispatch(b) PROVE Bounded'
<1> USE DEF walkVars, poolVars, runVars
<1>1. /\ jobs' = jobs \union {b} /\ queue' = queue \ {b} /\ active' = active + 1
      /\ active < WorkerCount /\ InLoop
      /\ UNCHANGED <<coord, held, work, results>>
  BY DEF Dispatch, CanDispatch, InLoop
<1>2. TypeOK'
  BY <1>1, WorkerCountType DEF Bounded, TypeOK, Dispatch
<1>3. /\ IsFiniteSet(jobs') /\ Cardinality(jobs') \in Nat
      /\ Cardinality(jobs') <= Cardinality(jobs) + 1
  BY <1>1, AddCount DEF Bounded
<1>4. Carriers' = Carriers
  BY <1>1 DEF Carriers
<1>5. Load' <= active' /\ Load' <= WorkerCount
  BY <1>1, <1>3, <1>4, LoadType, WorkerCountType DEF Bounded, Load, TypeOK
<1>6. QED
  BY <1>1, <1>2, <1>3, <1>5 DEF Bounded

\* A received answer leaves the count and the channel together.
LEMMA BoundedReceive ==
  ASSUME Bounded, NEW a \in results, ReceiveSplit(a) \/ ReceiveRetry(a) \/ ReceiveVectors(a)
  PROVE  Bounded'
<1> USE DEF walkVars, poolVars, runVars
<1>1. /\ results' = results \ {a} /\ active' = active - 1 /\ InLoop
      /\ UNCHANGED <<jobs, work>>
  BY DEF ReceiveSplit, ReceiveRetry, ReceiveVectors, Receive, Selecting, InLoop
<1>2. /\ IsFiniteSet(results') /\ Cardinality(results') \in Nat
      /\ Cardinality(results') = Cardinality(results) - 1
  BY <1>1, RemoveCount DEF Bounded
<1>3. Carriers' = Carriers
  BY <1>1 DEF Carriers
<1>4. Load' <= active' /\ Load' <= WorkerCount /\ active' \in 0..WorkerCount
  BY <1>1, <1>2, <1>3, LoadType, WorkerCountType DEF Bounded, Load, TypeOK
<1>5. a.batch \in Batch /\ a.batch.attempt <= MaxAttempts /\ a.batch # NoBatch
  BY PipelineAssumption DEF Bounded, TypeOK, Answer
<1> DEFINE Rest == /\ TypeOK'
                   /\ \A b \in queue' : b.attempt <= MaxAttempts
                   /\ held' # NoBatch => held'.attempt <= MaxAttempts
<1>6. Rest
  <2>1. CASE ReceiveSplit(a)
    <3>1. a.batch.attempt + 1 <= MaxAttempts /\ a.batch.attempt + 1 \in Nat \ {0}
      BY <2>1, <1>5, PipelineAssumption
      DEF ReceiveSplit, Hopeless, WrongCount, Splits, ShouldSplit, Batch
    <3>2. ASSUME NEW S \in SUBSET a.batch.items
          PROVE  /\ MkBatch(S, a.batch.attempt + 1) \in Batch
                 /\ MkBatch(S, a.batch.attempt + 1).attempt <= MaxAttempts
      BY <3>1, <1>5 DEF MkBatch, Batch
    <3>3. queue' \subseteq Batch /\ \A b \in queue' : b.attempt <= MaxAttempts
      BY <2>1, <3>2 DEF ReceiveSplit, Bounded, TypeOK
    <3>4. /\ UNCHANGED <<held, coord, ret, pending, inputClosed, requests, ctxDone, stored, done>>
          /\ UNCHANGED <<jobs, jobsClosed, work, alive, batched, activated, outcome>>
          /\ UNCHANGED <<left, prod, cur, seen, rows, walkFailed, closed>>
      BY <2>1 DEF ReceiveSplit
    <3>5. results' \subseteq Answer
      BY <1>1 DEF Bounded, TypeOK
    <3>6. QED
      BY <3>3, <3>4, <3>5, <1>4 DEF Bounded, TypeOK
  <2>2. CASE ReceiveRetry(a)
    <3>1. a.batch.attempt + 1 <= MaxAttempts /\ a.batch.attempt + 1 \in Nat \ {0}
      <4>1. ~(a.batch.attempt + 1 > MaxAttempts) \/ a.verdict = "wrongCount"
        BY <2>2 DEF ReceiveRetry, Hopeless, WrongCount
      <4>2. a.verdict # "wrongCount"
        BY <2>2 DEF ReceiveRetry, Hopeless, WrongCount
      <4>3. QED
        BY <4>1, <4>2, <1>5, PipelineAssumption DEF Batch
    <3>2. /\ held' \in Batch /\ held' # NoBatch /\ held'.attempt <= MaxAttempts
          /\ UNCHANGED queue
      BY <2>2, <3>1, <1>5, PipelineAssumption DEF ReceiveRetry, MkBatch, Batch
    <3>3. QED
      BY <3>2, <1>1, <1>4, <2>2 DEF ReceiveRetry, Bounded, TypeOK
  <2>3. CASE ReceiveVectors(a)
    BY <1>1, <1>4, <1>5, <2>3 DEF ReceiveVectors, Bounded, TypeOK
  <2>4. QED
    BY <2>1, <2>2, <2>3
<1>7. QED
  BY <1>1, <1>2, <1>4, <1>6 DEF Bounded, InLoop

\* A worker moves a batch from jobs to results and keeps the count of what is in flight.
LEMMA BoundedWork == ASSUME Bounded, NEW w \in Worker, Work(w) PROVE Bounded'
<1> USE DEF walkVars, coordVars, runVars
<1>1. ASSUME NEW b \in jobs, TakeJob(w, b) PROVE Bounded'
  <2>1. /\ jobs' = jobs \ {b} /\ work' = [work EXCEPT ![w] = b] /\ work[w] = NoBatch
        /\ UNCHANGED <<coord, queue, active, held, results>>
    BY <1>1 DEF TakeJob
  <2>2. b \in Batch /\ b # NoBatch /\ b.attempt <= MaxAttempts
    BY PipelineAssumption DEF Bounded, TypeOK
  <2>3. TypeOK'
    BY <1>1, <2>1, <2>2 DEF TakeJob, Bounded, TypeOK
  <2>4. Carriers' = Carriers \union {w}
    BY <2>1, <2>2 DEF Carriers, Bounded, TypeOK
  <2>5. /\ IsFiniteSet(jobs') /\ Cardinality(jobs') \in Nat
        /\ Cardinality(jobs') = Cardinality(jobs) - 1
    BY <2>1, RemoveCount DEF Bounded
  <2>6. Cardinality(Carriers') \in Nat /\ Cardinality(Carriers') <= Cardinality(Carriers) + 1
    BY <2>4, AddCount, LoadType
  <2>7. Load' <= Load
    BY <2>1, <2>5, <2>6, LoadType DEF Load
  <2>8. \A v \in Worker : work'[v] # NoBatch => work'[v].attempt <= MaxAttempts
    BY <2>1, <2>2 DEF Bounded, TypeOK
  <2>9. Load \in Nat /\ Load' \in Nat /\ active \in Nat
    BY <2>1, <2>5, <2>6, LoadType DEF Load, Bounded, TypeOK
  <2>10. QED
    BY <2>1, <2>3, <2>5, <2>7, <2>8, <2>9, WorkerCountType DEF Bounded, InLoop
<1>2. ASSUME NEW v \in Verdict, SendAnswer(w, v) PROVE Bounded'
  <2> DEFINE a == [batch |-> work[w], verdict |-> v]
  <2>1. /\ results' = results \union {a} /\ work' = [work EXCEPT ![w] = NoBatch]
        /\ work[w] # NoBatch
        /\ UNCHANGED <<coord, queue, active, held, jobs>>
    BY <1>2 DEF SendAnswer
  <2>2. a \in Answer /\ a.batch.attempt <= MaxAttempts
    BY <2>1 DEF Bounded, TypeOK, Answer
  <2>3. TypeOK'
    BY <1>2, <2>1, <2>2 DEF SendAnswer, Bounded, TypeOK
  <2>4. Carriers' = Carriers \ {w} /\ w \in Carriers
    BY <2>1 DEF Carriers, Bounded, TypeOK
  <2>5. /\ IsFiniteSet(results') /\ Cardinality(results') \in Nat
        /\ Cardinality(results') <= Cardinality(results) + 1
    BY <2>1, AddCount DEF Bounded
  <2>6. Cardinality(Carriers') \in Nat /\ Cardinality(Carriers') = Cardinality(Carriers) - 1
    BY <2>4, RemoveCount, LoadType
  <2>7. Load' <= Load
    BY <2>1, <2>5, <2>6, LoadType DEF Load
  <2>8. /\ \A u \in Worker : work'[u] # NoBatch => work'[u].attempt <= MaxAttempts
        /\ \A c \in results' : c.batch.attempt <= MaxAttempts
    BY <2>1, <2>2 DEF Bounded, TypeOK
  <2>9. Load \in Nat /\ Load' \in Nat /\ active \in Nat
    BY <2>1, <2>5, <2>6, LoadType DEF Load, Bounded, TypeOK
  <2>10. QED
    BY <2>1, <2>3, <2>5, <2>7, <2>8, <2>9, WorkerCountType DEF Bounded, InLoop
<1>3. ASSUME AbandonAnswer(w) \/ ExitWorker(w) PROVE Bounded'
  <2>1. /\ UNCHANGED <<coord, queue, active, held, jobs, work, results>>
        /\ alive' = [alive EXCEPT ![w] = FALSE]
    BY <1>3 DEF AbandonAnswer, ExitWorker
  <2>2. TypeOK'
    BY <1>3, <2>1 DEF AbandonAnswer, ExitWorker, Bounded, TypeOK
  <2>3. Load' = Load
    BY <2>1 DEF Load, Carriers
  <2>4. QED
    BY <2>1, <2>2, <2>3 DEF Bounded, InLoop
<1>4. QED
  BY <1>1, <1>2, <1>3 DEF Work

\* Every step keeps the bound on what is in flight.
LEMMA BoundedNext == Bounded /\ [Next]_vars => Bounded'
<1> SUFFICES ASSUME Bounded, [Next]_vars PROVE Bounded'
  OBVIOUS
<1>1. CASE UNCHANGED vars
  BY <1>1 DEF vars, Bounded, TypeOK, InLoop, Load, Carriers, WorkerCount
<1>2. CASE Walk \/ CancelContext
  BY <1>2, BoundedWalk
<1>3. CASE Coordinate
  BY <1>3, BoundedLocal, BoundedClosing, BoundedDispatch, BoundedReceive DEF Coordinate
<1>4. CASE \E w \in Worker : Work(w)
  BY <1>4, BoundedWork
<1>5. QED
  BY <1>1, <1>2, <1>3, <1>4 DEF Next, Returned

-----------------------------------------------------------------------------
\* Every step keeps the phases of the goroutines consistent with each other.
LEMMA PhasesNext == Bounded /\ Phases /\ [Next]_vars => Phases'
<1> SUFFICES ASSUME Bounded, Phases, [Next]_vars PROVE Phases'
  OBVIOUS
<1> USE DEF Phases, walkVars, poolVars, coordVars, runVars
<1>1. CASE UNCHANGED vars
  BY <1>1 DEF vars
<1>2. CASE Walk \/ CancelContext
  <2>1. CASE ActivateSnapshot
    <3>1. coord \in {"none", "end"}
      BY <2>1 DEF ActivateSnapshot, PipelineOutcome
    <3>2. QED
      BY <2>1, <3>1 DEF ActivateSnapshot
  <2>2. CASE CancelContext \/ (Walk /\ ~ActivateSnapshot)
    BY <2>2 DEF Walk, CancelContext, NextSymbol, SendRequest, EmbedInline, InsertSymbol,
                WalkFails, WalkEnds, FinishPipeline, ReturnError
  <2>3. QED
    BY <1>2, <2>1, <2>2
<1>3. CASE Coordinate
  <2>1. CASE PopFullBatch \/ BatchTimer \/ BackoffElapsed \/ ReceiveClosed
    BY <2>1 DEF PopFullBatch, BatchTimer, BackoffElapsed, ReceiveClosed, Selecting
  <2>2. CASE CancelledInLoop \/ FinishOk \/ HeldFails
    BY <2>2 DEF CancelledInLoop, FinishOk, HeldFails, CloseWorkers, AllDone
  <2>3. CASE WorkersExited \/ DrainEnds
    BY <2>3 DEF WorkersExited, DrainEnds, SendDone
  <2>4. ASSUME NEW b \in queue, Dispatch(b) PROVE Phases'
    BY <2>4 DEF Dispatch
  <2>5. ASSUME NEW h \in requests, ReceiveRequest(h) \/ DrainRequest(h) PROVE Phases'
    BY <2>5 DEF ReceiveRequest, DrainRequest, Selecting
  <2>6. ASSUME NEW a \in results,
               ReceiveHopeless(a) \/ ReceiveSplit(a) \/ ReceiveRetry(a) \/ ReceiveVectors(a)
        PROVE  Phases'
    BY <2>6 DEF ReceiveHopeless, ReceiveSplit, ReceiveRetry, ReceiveVectors, Receive,
                Selecting, CloseWorkers
  <2>7. ASSUME coord = "store", NEW h \in held.items, StoreEmbedding(h) PROVE Phases'
    BY <2>7 DEF StoreEmbedding
  <2>8. QED
    BY <1>3, <2>1, <2>2, <2>3, <2>4, <2>5, <2>6, <2>7 DEF Coordinate
<1>4. CASE \E w \in Worker : Work(w)
  BY <1>4 DEF Work, TakeJob, SendAnswer, AbandonAnswer, ExitWorker
<1>5. QED
  BY <1>1, <1>2, <1>3, <1>4 DEF Next, Returned

-----------------------------------------------------------------------------
\* The walk: a hash enters `seen` together with its place in prod or in the channel.
LEMMA TrackedWalk == ASSUME IInv, Walk \/ CancelContext PROVE Tracked'
<1> USE DEF IInv, Tracked, Located, walkVars, poolVars, coordVars, runVars
<1>1. UNCHANGED <<coord, ret, pending, queue, held, jobs, work, results, batched>>
  BY DEF Walk, CancelContext, NextSymbol, SendRequest, EmbedInline, InsertSymbol, WalkFails,
         WalkEnds, FinishPipeline, ReturnError, ActivateSnapshot
<1>2. ASSUME NEW h \in Hashes, NextSymbol(h) PROVE Tracked'
  BY <1>1, <1>2 DEF NextSymbol, Phases, InLoop
<1>3. CASE SendRequest
  BY <1>1, <1>3 DEF SendRequest, InLoop, Phases
<1>4. CASE EmbedInline
  BY <1>1, <1>4 DEF EmbedInline, InLoop, Phases
<1>5. CASE InsertSymbol
  BY <1>1, <1>5 DEF InsertSymbol, InLoop, Phases
<1>6. CASE WalkFails \/ WalkEnds
  BY <1>1, <1>6 DEF WalkFails, WalkEnds, FinishPipeline, InLoop, Phases
<1>7. CASE ReturnError
  BY <1>1, <1>7 DEF ReturnError, InLoop, Phases
<1>8. CASE ActivateSnapshot
  <2>1. rows \subseteq stored
    BY <1>8 DEF ActivateSnapshot, PipelineOutcome, Phases
  <2>2. QED
    BY <1>1, <1>8, <2>1 DEF ActivateSnapshot, InLoop, Phases
<1>9. CASE CancelContext
  BY <1>1, <1>9 DEF CancelContext, InLoop, Phases
<1>10. QED
  BY <1>2, <1>3, <1>4, <1>5, <1>6, <1>7, <1>8, <1>9 DEF Walk

\* When the coordinator finds its work done, nothing is left in transit.
LEMMA NothingLeft == ASSUME IInv, FinishOk, ~walkFailed PROVE seen \subseteq stored
<1>1. /\ InLoop /\ active = 0 /\ pending = {} /\ queue = {} /\ requests = {}
      /\ held = NoBatch /\ prod # "send"
  BY DEF FinishOk, AllDone, InLoop, IInv, Phases
<1>2. Cardinality(jobs) = 0 /\ Cardinality(Carriers) = 0 /\ Cardinality(results) = 0
  BY <1>1, LoadType DEF IInv, Bounded, Load
<1>3. jobs = {} /\ Carriers = {} /\ results = {}
  BY <1>2, LoadType, FS_EmptySet DEF IInv, Bounded
<1>4. QED
  BY <1>1, <1>3 DEF IInv, Tracked, Located, Carriers

\* The coordinator loses no hash it has received while the run can still succeed.
LEMMA TrackedCoordinate == ASSUME IInv, Coordinate PROVE Tracked'
<1> USE DEF IInv, Tracked, walkVars, poolVars, coordVars, runVars
<1>1. CASE PopFullBatch \/ BatchTimer \/ ReceiveClosed
  <2>1. ASSUME NEW h, Located(h) PROVE Located(h)'
    <3>1. ASSUME h \in pending PROVE \E b \in queue' : h \in b.items
      <4>1. MkBatch(pending, 1) \in queue'
        BY <1>1, <3>1 DEF PopFullBatch, BatchTimer, ReceiveClosed, FlushPending
      <4>2. h \in MkBatch(pending, 1).items
        BY <3>1 DEF MkBatch
      <4>3. QED
        BY <4>1, <4>2
    <3>2. /\ UNCHANGED <<requests, stored, jobs, work, results, held, prod, cur>>
          /\ queue \subseteq queue'
      BY <1>1 DEF PopFullBatch, BatchTimer, ReceiveClosed, FlushPending
    <3>3. QED
      BY <2>1, <3>1, <3>2 DEF Located
  <2>2. QED
    BY <1>1, <2>1 DEF PopFullBatch, BatchTimer, ReceiveClosed, Selecting, InLoop
<1>2. CASE BackoffElapsed
  <2>1. ASSUME NEW h, Located(h) PROVE Located(h)'
    BY <1>2, <2>1 DEF BackoffElapsed, Located, Bounded, TypeOK
  <2>2. QED
    BY <1>2, <2>1 DEF BackoffElapsed, InLoop
<1>3. CASE FinishOk
  BY <1>3, NothingLeft DEF FinishOk, CloseWorkers, InLoop
<1>4. CASE CancelledInLoop \/ HeldFails
  BY <1>4 DEF CancelledInLoop, HeldFails, CloseWorkers, InLoop
<1>5. CASE WorkersExited \/ DrainEnds
  BY <1>5 DEF WorkersExited, DrainEnds, SendDone, InLoop, Phases
<1>6. ASSUME NEW b \in queue, Dispatch(b) PROVE Tracked'
  <2>1. ASSUME NEW h, Located(h) PROVE Located(h)'
    BY <1>6, <2>1 DEF Dispatch, Located
  <2>2. QED
    BY <1>6, <2>1 DEF Dispatch, InLoop
<1>7. ASSUME NEW g \in requests, ReceiveRequest(g) PROVE Tracked'
  <2>1. ASSUME NEW h, Located(h) PROVE Located(h)'
    BY <1>7, <2>1 DEF ReceiveRequest, Located
  <2>2. QED
    BY <1>7, <2>1 DEF ReceiveRequest, Selecting, InLoop
<1>8. ASSUME NEW g \in requests, DrainRequest(g) PROVE Tracked'
  BY <1>8 DEF DrainRequest, InLoop
<1>9. ASSUME NEW a \in results, ReceiveHopeless(a) PROVE Tracked'
  BY <1>9 DEF ReceiveHopeless, CloseWorkers, InLoop
<1>10. ASSUME NEW a \in results, ReceiveSplit(a) PROVE Tracked'
  <2>1. ASSUME NEW h, Located(h) PROVE Located(h)'
    <3>1. PICK half \in SUBSET a.batch.items :
            queue' = queue \union {MkBatch(half, a.batch.attempt + 1),
                                   MkBatch(a.batch.items \ half, a.batch.attempt + 1)}
      BY <1>10 DEF ReceiveSplit
    <3>2. ASSUME h \in a.batch.items PROVE \E b \in queue' : h \in b.items
      <4>1. CASE h \in half
        <5>1. MkBatch(half, a.batch.attempt + 1) \in queue'
          BY <3>1
        <5>2. h \in MkBatch(half, a.batch.attempt + 1).items
          BY <4>1 DEF MkBatch
        <5>3. QED
          BY <5>1, <5>2
      <4>2. CASE h \notin half
        <5>1. MkBatch(a.batch.items \ half, a.batch.attempt + 1) \in queue'
          BY <3>1
        <5>2. h \in MkBatch(a.batch.items \ half, a.batch.attempt + 1).items
          BY <3>2, <4>2 DEF MkBatch
        <5>3. QED
          BY <5>1, <5>2
      <4>3. QED
        BY <4>1, <4>2
    <3>3. /\ UNCHANGED <<requests, stored, pending, jobs, work, held, prod, cur>>
          /\ queue \subseteq queue' /\ results' = results \ {a}
      BY <1>10, <3>1 DEF ReceiveSplit, Receive
    <3>4. QED
      BY <2>1, <3>2, <3>3 DEF Located
  <2>2. QED
    BY <1>10, <2>1 DEF ReceiveSplit, Receive, Selecting, InLoop
<1>11. ASSUME NEW a \in results, ReceiveRetry(a) \/ ReceiveVectors(a) PROVE Tracked'
  <2>1. a.batch \in Batch /\ held = NoBatch
    BY <1>11 DEF ReceiveRetry, ReceiveVectors, Receive, Selecting, Phases, Bounded, TypeOK, Answer
  <2>2. held' # NoBatch /\ held'.items = a.batch.items
    BY <1>11, <2>1, BoundedReceive, PipelineAssumption
    DEF ReceiveRetry, ReceiveVectors, MkBatch, Batch, Bounded, TypeOK
  <2>3. ASSUME NEW h, Located(h) PROVE Located(h)'
    BY <1>11, <2>1, <2>2, <2>3 DEF ReceiveRetry, ReceiveVectors, Receive, Located
  <2>4. QED
    BY <1>11, <2>3 DEF ReceiveRetry, ReceiveVectors, Receive, Selecting, InLoop
<1>12. ASSUME coord = "store", NEW g \in held.items, StoreEmbedding(g) PROVE Tracked'
  <2>1. held \in Batch /\ held # NoBatch
    BY <1>12 DEF Bounded, TypeOK
  <2>2. \A h \in held.items : h = g \/ (held' # NoBatch /\ h \in held'.items)
    BY <1>12, <2>1, BoundedLocal, PipelineAssumption DEF StoreEmbedding, Batch
  <2>3. ASSUME NEW h, Located(h) PROVE Located(h)'
    BY <1>12, <2>1, <2>2, <2>3 DEF StoreEmbedding, Located
  <2>4. QED
    BY <1>12, <2>3 DEF StoreEmbedding, InLoop, Phases
<1>13. QED
  BY <1>1, <1>2, <1>3, <1>4, <1>5, <1>6, <1>7, <1>8, <1>9, <1>10, <1>11, <1>12 DEF Coordinate

\* A worker carries its batch from one channel to the other, or keeps it.
LEMMA TrackedWork == ASSUME IInv, NEW w \in Worker, Work(w) PROVE Tracked'
<1> USE DEF IInv, Tracked, walkVars, coordVars, runVars
<1>1. UNCHANGED <<requests, stored, pending, queue, held, prod, cur, coord, seen>>
  BY DEF Work, TakeJob, SendAnswer, AbandonAnswer, ExitWorker
<1>2. ASSUME NEW h, Located(h) PROVE Located(h)'
  <2>1. ASSUME NEW b \in jobs, TakeJob(w, b) PROVE Located(h)'
    BY <1>1, <1>2, <2>1, PipelineAssumption DEF TakeJob, Located, Bounded, TypeOK
  <2>2. ASSUME NEW v \in Verdict, SendAnswer(w, v) PROVE Located(h)'
    <3> DEFINE a == [batch |-> work[w], verdict |-> v]
    <3>1. a \in results' /\ a.batch = work[w]
      BY <2>2 DEF SendAnswer
    <3>2. results \subseteq results' /\ jobs' = jobs /\ work' = [work EXCEPT ![w] = NoBatch]
      BY <2>2 DEF SendAnswer
    <3>3. QED
      BY <1>1, <1>2, <3>1, <3>2 DEF Located, Bounded, TypeOK
  <2>3. CASE AbandonAnswer(w) \/ ExitWorker(w)
    BY <1>1, <1>2, <2>3 DEF AbandonAnswer, ExitWorker, Located
  <2>4. QED
    BY <2>1, <2>2, <2>3 DEF Work
<1>3. UNCHANGED <<batched, ret, rows, walkFailed, activated>>
  BY DEF Work, TakeJob, SendAnswer, AbandonAnswer, ExitWorker
<1>4. QED
  BY <1>1, <1>2, <1>3 DEF InLoop

-----------------------------------------------------------------------------
\* The invariant the theorems below rest on is inductive.
LEMMA InvHolds == Spec => []IInv
<1>1. Init => IInv
  <2> SUFFICES ASSUME Init PROVE IInv
    OBVIOUS
  <2>1. Phases
    BY DEF Init, Phases
  <2>2. Tracked
    BY DEF Init, Tracked, InLoop
  <2>3. QED
    BY <2>1, <2>2, BoundedInit DEF IInv
<1>2. IInv /\ [Next]_vars => IInv'
  <2> SUFFICES ASSUME IInv, [Next]_vars PROVE IInv'
    OBVIOUS
  <2>1. Bounded' /\ Phases'
    BY BoundedNext, PhasesNext DEF IInv
  <2>2. CASE UNCHANGED vars
    BY <2>1, <2>2 DEF vars, IInv, Tracked, Located, InLoop
  <2>3. CASE Next
    BY <2>1, <2>2, <2>3, TrackedWalk, TrackedCoordinate, TrackedWork DEF Next, Returned, IInv
  <2>4. QED
    BY <2>2, <2>3
<1>3. QED
  BY <1>1, <1>2, PTL DEF Spec

\* Every variable of the pipeline stays in its type, the counter `active` within 0 and
\* embeddingWorkerCount.
THEOREM TypeCorrect == Spec => []TypeOK
<1>1. IInv => TypeOK
  BY DEF IInv, Bounded
<1>2. QED
  BY <1>1, InvHolds, PTL

\* An activated snapshot has an embedding for each of its rows: finalize activates only after the
\* coordinator reported success, and then nothing queued is still on its way.
THEOREM ActivationComplete == Spec => []ActivatedIsComplete
<1>1. IInv => ActivatedIsComplete
  BY DEF IInv, Tracked, ActivatedIsComplete
<1>2. QED
  BY <1>1, InvHolds, PTL

\* No send on jobs or results ever blocks (service.go gives both channels the capacity
\* embeddingWorkerCount).
THEOREM NoBlockedSend == Spec => []SendsNeverBlock
<1>1. ASSUME IInv PROVE SendsNeverBlock
  <2>1. ASSUME coord = "loop", CanDispatch PROVE Cardinality(jobs) < WorkerCount
    BY <1>1, <2>1, LoadType, WorkerCountType
    DEF IInv, Bounded, Load, InLoop, CanDispatch, TypeOK
  <2>2. ASSUME NEW w \in Worker, work[w] # NoBatch PROVE Cardinality(results) < WorkerCount
    <3>1. Carriers # {}
      BY <2>2 DEF Carriers
    <3>2. Cardinality(Carriers) # 0
      BY <1>1, <3>1, LoadType, FS_EmptySet DEF IInv
    <3>3. QED
      BY <1>1, <3>2, LoadType, WorkerCountType DEF IInv, Bounded, Load
  <2>3. QED
    BY <2>1, <2>2 DEF SendsNeverBlock
<1>2. QED
  BY <1>1, InvHolds, PTL

\* No batch goes to the provider with an attempt number above embeddingMaxAttempts.
THEOREM AttemptLimit == Spec => []AttemptsBounded
<1>1. IInv => AttemptsBounded
  BY DEF IInv, Bounded, AttemptsBounded
<1>2. QED
  BY <1>1, InvHolds, PTL

\* The pipeline implements SnapshotPromise: rows are frozen from the activation on, embeddings
\* are only added, and the one activating step finds every row embedded.
THEOREM PromiseKept == Spec => KeepsPromise
<1> USE DEF Promise!vars, walkVars, poolVars, coordVars, runVars
<1>1. Init => Promise!Init
  BY PipelineAssumption DEF Init, Promise!Init
<1>2. IInv /\ [Next]_vars => [Promise!Next]_(Promise!vars)
  <2> SUFFICES ASSUME IInv, [Next]_vars
               PROVE  Promise!Next \/ UNCHANGED <<rows, stored, activated>>
    OBVIOUS
  <2> USE DEF Promise!Next, Promise!AddRow, Promise!AddEmbedding, Promise!Activate
  <2>0. /\ prod \in {"send", "insert"} => cur \in Hashes
        /\ activated => prod = "end"
        /\ activated \in BOOLEAN
    BY DEF IInv, Bounded, TypeOK, Phases
  <2>1. CASE UNCHANGED vars \/ CancelContext
    BY <2>1 DEF vars, CancelContext
  <2>2. CASE EmbedInline
    BY <2>0, <2>2 DEF EmbedInline
  <2>3. CASE InsertSymbol
    BY <2>0, <2>3 DEF InsertSymbol
  <2>4. CASE ActivateSnapshot
    <3>1. rows \subseteq stored
      BY <2>4 DEF ActivateSnapshot, PipelineOutcome, IInv, Phases, Tracked
    <3>2. ~activated
      BY <2>0, <2>4 DEF ActivateSnapshot
    <3>3. QED
      BY <3>1, <3>2, <2>4 DEF ActivateSnapshot
  <2>5. CASE (\E h \in Hashes : NextSymbol(h)) \/ SendRequest \/ WalkFails \/ WalkEnds
             \/ ReturnError
    BY <2>5 DEF NextSymbol, SendRequest, WalkFails, WalkEnds, FinishPipeline, ReturnError
  <2>6. CASE Coordinate
    <3>1. ASSUME coord = "store", NEW h \in held.items, StoreEmbedding(h)
          PROVE  Promise!AddEmbedding(h) /\ h \in Hashes
      <4>1. h \in Hashes
        BY <3>1 DEF IInv, Bounded, TypeOK, Batch
      <4>2. ~activated
        BY <3>1 DEF IInv, Phases
      <4>3. QED
        BY <3>1, <4>1, <4>2 DEF StoreEmbedding
    <3>2. ASSUME ~(coord = "store" /\ \E h \in held.items : StoreEmbedding(h))
          PROVE  UNCHANGED <<rows, stored, activated>>
      BY <2>6, <3>2
      DEF Coordinate, PopFullBatch, CancelledInLoop, FinishOk, ReceiveClosed, BatchTimer, Dispatch,
          ReceiveRequest, DrainRequest, ReceiveHopeless, ReceiveSplit, ReceiveRetry,
          ReceiveVectors, BackoffElapsed, HeldFails, WorkersExited, DrainEnds
    <3>3. QED
      BY <3>1, <3>2
  <2>7. CASE \E w \in Worker : Work(w)
    BY <2>7 DEF Work, TakeJob, SendAnswer, AbandonAnswer, ExitWorker
  <2>8. QED
    BY <2>1, <2>2, <2>3, <2>4, <2>5, <2>6, <2>7 DEF Next, Walk, Returned
<1>3. QED
  BY <1>1, <1>2, InvHolds, PTL DEF Spec, KeepsPromise, Promise!Spec

-----------------------------------------------------------------------------
(* A hash is in one place at a time, which is what keeps it from being stored twice.            *)

\* h is in the place of kind k, for kinds with several places at x.
At(k, x, h) ==
  \/ k = "stored" /\ x = k /\ h \in stored
  \/ k = "send" /\ x = k /\ prod = "send" /\ h = cur
  \/ k = "requests" /\ x = k /\ h \in requests
  \/ k = "pending" /\ x = k /\ h \in pending
  \/ k = "queue" /\ x \in queue /\ h \in x.items
  \/ k = "jobs" /\ x \in jobs /\ h \in x.items
  \/ k = "work" /\ x \in Worker /\ work[x] # NoBatch /\ h \in work[x].items
  \/ k = "results" /\ x \in results /\ h \in x.batch.items
  \/ k = "held" /\ x = k /\ held # NoBatch /\ h \in held.items

\* No hash is in two places.
OnePlace == \A h, k, x, l, y : At(k, x, h) /\ At(l, y, h) => k = l /\ x = y
\* Whatever is on its way is in the run-wide set that NextSymbol consults.
Seen == \A h, k, x : At(k, x, h) => k = "stored" \/ h \in seen
Once == OnePlace /\ Seen

\* A step puts nothing anywhere except the hashes S at the place K, X; it takes them from L, Y.
Puts(S, K, X) == \A h, k, x : At(k, x, h)' => At(k, x, h) \/ (h \in S /\ k = K /\ x = X)
Takes(S, L, Y) == \A h \in S : At(L, Y, h) /\ ~At(L, Y, h)'

\* Hashes that move from one place to another stay in one place.
LEMMA Moved ==
  ASSUME Once, NEW S, NEW K, NEW X, NEW L, NEW Y, Puts(S, K, X), Takes(S, L, Y),
         L # "stored", UNCHANGED seen
  PROVE  Once'
<1>1. \A h \in S : \A k, x : At(k, x, h)' => k = K /\ x = X
  BY DEF Once, OnePlace, Puts, Takes
<1>2. OnePlace'
  BY <1>1 DEF Once, OnePlace, Puts
<1>3. Seen'
  BY DEF Once, Seen, Puts, Takes
<1>4. QED
  BY <1>2, <1>3 DEF Once

\* Places may be emptied.
LEMMA Dropped ==
  ASSUME Once, \A h, k, x : At(k, x, h)' => At(k, x, h), seen \subseteq seen'
  PROVE  Once'
BY DEF Once, OnePlace, Seen

\* The walk takes a new hash only if it is in no place yet.
LEMMA OnceWalk == ASSUME Once, Walk \/ CancelContext PROVE Once'
<1> USE DEF walkVars, poolVars, coordVars, runVars
<1>1. UNCHANGED <<pending, queue, held, jobs, work, results>> /\ seen \subseteq seen'
  BY DEF Walk, CancelContext, NextSymbol, SendRequest, EmbedInline, InsertSymbol, WalkFails,
         WalkEnds, FinishPipeline, ReturnError, ActivateSnapshot
<1>2. ASSUME NEW g \in Hashes, NextSymbol(g) PROVE Once'
  <2>1. CASE g \in stored \union seen
    BY <1>1, <1>2, <2>1, Dropped DEF NextSymbol, At
  <2>2. CASE g \notin stored \union seen
    <3>1. Puts({g}, "send", "send") /\ seen' = seen \union {g}
      BY <1>1, <1>2, <2>2 DEF NextSymbol, Puts, At
    <3>2. \A k, x : ~At(k, x, g)
      BY <2>2 DEF Once, Seen, At
    <3>3. QED
      BY <3>1, <3>2 DEF Once, OnePlace, Seen, Puts
  <2>3. QED
    BY <2>1, <2>2
<1>3. CASE SendRequest \/ EmbedInline
  <2>1. Takes({cur}, "send", "send")
    BY <1>3 DEF SendRequest, EmbedInline, Takes, At
  <2>2. UNCHANGED seen
    BY <1>3 DEF SendRequest, EmbedInline
  <2>3. CASE SendRequest
    <3>1. Puts({cur}, "requests", "requests")
      BY <1>1, <2>3 DEF SendRequest, Puts, At
    <3>2. QED
      BY <2>1, <2>2, <3>1, Moved
  <2>4. CASE EmbedInline
    <3>1. Puts({cur}, "stored", "stored")
      BY <1>1, <2>4 DEF EmbedInline, Puts, At
    <3>2. QED
      BY <2>1, <2>2, <3>1, Moved
  <2>5. QED
    BY <1>3, <2>3, <2>4
<1>4. CASE InsertSymbol \/ WalkFails \/ WalkEnds \/ ReturnError \/ ActivateSnapshot \/ CancelContext
  <2>1. UNCHANGED <<stored, requests>> /\ (prod' = "send" => prod = "send" /\ cur' = cur)
    BY <1>4 DEF InsertSymbol, WalkFails, WalkEnds, FinishPipeline, ReturnError,
                ActivateSnapshot, CancelContext
  <2>2. QED
    BY <1>1, <2>1, Dropped DEF At
<1>5. QED
  BY <1>2, <1>3, <1>4 DEF Walk

\* The coordinator takes a hash from where it puts it.
LEMMA OnceCoordinate == ASSUME Bounded, Phases, Once, Coordinate PROVE Once'
<1> USE DEF walkVars, poolVars, coordVars, runVars
<1>1. UNCHANGED <<seen, prod, cur, work>>
  BY DEF Coordinate, PopFullBatch, CancelledInLoop, FinishOk, ReceiveClosed, BatchTimer,
         Dispatch, ReceiveRequest, DrainRequest, ReceiveHopeless, ReceiveSplit, ReceiveRetry,
         ReceiveVectors, BackoffElapsed, HeldFails, WorkersExited, DrainEnds, StoreEmbedding,
         CloseWorkers, Receive
<1>2. CASE PopFullBatch \/ BatchTimer \/ ReceiveClosed
  <2> DEFINE b == MkBatch(pending, 1)
  <2>1. b.items = pending
    BY DEF MkBatch
  <2>2. /\ UNCHANGED <<stored, requests, jobs, results, held>> /\ pending' = {}
        /\ queue' \subseteq queue \union {b}
    BY <1>2 DEF PopFullBatch, BatchTimer, ReceiveClosed, FlushPending
  <2>3. Puts(pending, "queue", b)
    <3> HIDE DEF b
    <3>1. QED
      BY <1>1, <2>1, <2>2 DEF Puts, At
  <2>4. Takes(pending, "pending", "pending")
    BY <2>2 DEF Takes, At
  <2>5. QED
    BY <1>1, <2>3, <2>4, Moved
<1>3. CASE CancelledInLoop \/ FinishOk \/ HeldFails \/ WorkersExited \/ DrainEnds
  <2>1. /\ UNCHANGED <<stored, requests, jobs, results>>
        /\ \/ UNCHANGED <<pending, queue, held>>
           \/ pending' = {} /\ queue' = {} /\ held' = NoBatch
    BY <1>3 DEF CancelledInLoop, FinishOk, HeldFails, WorkersExited, DrainEnds, SendDone,
                CloseWorkers
  <2>2. QED
    BY <1>1, <2>1, Dropped DEF At
<1>4. ASSUME NEW b \in queue, Dispatch(b) PROVE Once'
  <2>1. Puts(b.items, "jobs", b)
    BY <1>1, <1>4 DEF Dispatch, Puts, At
  <2>2. Takes(b.items, "queue", b)
    BY <1>4 DEF Dispatch, Takes, At
  <2>3. QED
    BY <1>1, <2>1, <2>2, Moved
<1>5. ASSUME NEW g \in requests, ReceiveRequest(g) PROVE Once'
  <2>1. Puts({g}, "pending", "pending")
    BY <1>1, <1>5 DEF ReceiveRequest, Puts, At
  <2>2. Takes({g}, "requests", "requests")
    BY <1>5 DEF ReceiveRequest, Takes, At
  <2>3. QED
    BY <1>1, <2>1, <2>2, Moved
<1>6. ASSUME NEW g \in requests, DrainRequest(g) PROVE Once'
  BY <1>1, <1>6, Dropped DEF DrainRequest, At
<1>7. ASSUME NEW a \in results, ReceiveHopeless(a) PROVE Once'
  BY <1>1, <1>7, Dropped DEF ReceiveHopeless, Receive, CloseWorkers, At
<1>8. ASSUME NEW a \in results, ReceiveSplit(a) PROVE Once'
  <2>1. PICK half \in SUBSET a.batch.items :
          queue' = queue \union {MkBatch(half, a.batch.attempt + 1),
                                 MkBatch(a.batch.items \ half, a.batch.attempt + 1)}
    BY <1>8 DEF ReceiveSplit
  <2> DEFINE b == MkBatch(half, a.batch.attempt + 1)
             c == MkBatch(a.batch.items \ half, a.batch.attempt + 1)
  <2>2. b.items = half /\ c.items = a.batch.items \ half
    BY DEF MkBatch
  <2>3. /\ UNCHANGED <<stored, requests, pending, jobs, held>>
        /\ queue' = queue \union {b, c} /\ results' = results \ {a}
    BY <1>8, <2>1 DEF ReceiveSplit, Receive
  <2> HIDE DEF b, c
  <2>4. \A h, k, x : At(k, x, h)' =>
          \/ At(k, x, h)
          \/ k = "queue" /\ ((x = b /\ h \in half) \/ (x = c /\ h \in a.batch.items \ half))
    BY <1>1, <2>2, <2>3 DEF At
  <2>5. Takes(a.batch.items, "results", a)
    BY <1>1, <2>3 DEF Takes, At
  <2>6. \A h \in a.batch.items : \A k, x : At(k, x, h)' =>
          k = "queue" /\ ((x = b /\ h \in half) \/ (x = c /\ h \in a.batch.items \ half))
    BY <2>4, <2>5 DEF Once, OnePlace, Takes
  <2>7. OnePlace'
    BY <2>4, <2>6 DEF Once, OnePlace
  <2>8. Seen'
    BY <1>1, <2>4, <2>5 DEF Once, Seen, Takes
  <2>9. QED
    BY <2>7, <2>8 DEF Once
<1>9. ASSUME NEW a \in results, ReceiveRetry(a) \/ ReceiveVectors(a) PROVE Once'
  <2>1. held = NoBatch
    BY <1>9 DEF ReceiveRetry, ReceiveVectors, Receive, Selecting, Phases
  <2>2. /\ UNCHANGED <<stored, requests, pending, queue, jobs>> /\ results' = results \ {a}
        /\ held'.items = a.batch.items
    BY <1>9 DEF ReceiveRetry, ReceiveVectors, Receive, MkBatch
  <2>3. Puts(a.batch.items, "held", "held")
    BY <1>1, <2>1, <2>2 DEF Puts, At
  <2>4. Takes(a.batch.items, "results", a)
    BY <2>2 DEF Takes, At
  <2>5. QED
    BY <1>1, <2>3, <2>4, Moved
<1>10. CASE BackoffElapsed
  <2>1. held \in Batch /\ held # NoBatch
    BY <1>10 DEF BackoffElapsed, Bounded, TypeOK
  <2>2. Puts(held.items, "queue", held)
    BY <1>1, <1>10 DEF BackoffElapsed, Puts, At
  <2>3. Takes(held.items, "held", "held")
    BY <1>10, <2>1 DEF BackoffElapsed, Takes, At
  <2>4. QED
    BY <1>1, <2>2, <2>3, Moved
<1>11. ASSUME coord = "store", NEW g \in held.items, StoreEmbedding(g) PROVE Once'
  <2>1. held \in Batch /\ held # NoBatch
    BY <1>11 DEF Bounded, TypeOK
  <2>2. held' = NoBatch \/ held'.items = held.items \ {g}
    BY <1>11, <2>1 DEF StoreEmbedding, Batch
  <2>3. UNCHANGED <<requests, pending, queue, jobs, results>> /\ stored' = stored \union {g}
    BY <1>11 DEF StoreEmbedding
  <2>4. Puts({g}, "stored", "stored")
    BY <1>1, <2>1, <2>2, <2>3 DEF Puts, At
  <2>5. Takes({g}, "held", "held")
    BY <2>1, <2>2 DEF Takes, At
  <2>6. QED
    BY <1>1, <2>4, <2>5, Moved
<1>12. QED
  BY <1>2, <1>3, <1>4, <1>5, <1>6, <1>7, <1>8, <1>9, <1>10, <1>11 DEF Coordinate

\* A worker takes a batch from one channel and puts it into the other.
LEMMA OnceWork == ASSUME Bounded, Once, NEW w \in Worker, Work(w) PROVE Once'
<1> USE DEF walkVars, coordVars, runVars
<1>1. UNCHANGED <<seen, prod, cur, stored, requests, pending, queue, held>>
  BY DEF Work, TakeJob, SendAnswer, AbandonAnswer, ExitWorker
<1>2. ASSUME NEW b \in jobs, TakeJob(w, b) PROVE Once'
  <2>1. jobs' = jobs \ {b} /\ work' = [work EXCEPT ![w] = b] /\ results' = results
    BY <1>2 DEF TakeJob
  <2>2. \A v \in Worker : work'[v] = IF v = w THEN b ELSE work[v]
    BY <2>1 DEF Bounded, TypeOK
  <2>3. Puts(b.items, "work", w)
    BY <1>1, <2>1, <2>2 DEF Puts, At
  <2>4. Takes(b.items, "jobs", b)
    BY <2>1 DEF Takes, At
  <2>5. QED
    BY <1>1, <2>3, <2>4, Moved
<1>3. ASSUME NEW v \in Verdict, SendAnswer(w, v) PROVE Once'
  <2> DEFINE a == [batch |-> work[w], verdict |-> v]
  <2>1. work[w] # NoBatch /\ a.batch = work[w]
    BY <1>3 DEF SendAnswer
  <2>2. results' = results \union {a} /\ jobs' = jobs
    BY <1>3 DEF SendAnswer
  <2>3. \A u \in Worker : work'[u] = IF u = w THEN NoBatch ELSE work[u]
    BY <1>3 DEF SendAnswer, Bounded, TypeOK
  <2> HIDE DEF a
  <2>4. Puts(work[w].items, "results", a)
    BY <1>1, <2>1, <2>2, <2>3 DEF Puts, At
  <2>5. Takes(work[w].items, "work", w)
    BY <2>1, <2>3 DEF Takes, At
  <2>6. QED
    BY <1>1, <2>4, <2>5, Moved
<1>4. CASE AbandonAnswer(w) \/ ExitWorker(w)
  BY <1>1, <1>4, Dropped DEF AbandonAnswer, ExitWorker, At
<1>5. QED
  BY <1>2, <1>3, <1>4 DEF Work

\* The embedding table is never asked to store a hash it has: held batches hold hashes that are
\* in no other place (queueMissingEmbedding, storeEmbeddingBatchResult).
THEOREM StoredOnce == Spec => []NoDoubleStore
<1>1. Init => Once
  BY DEF Init, Once, OnePlace, Seen, At
<1>2. IInv /\ Once /\ [Next]_vars => Once'
  <2> SUFFICES ASSUME IInv, Once, [Next]_vars PROVE Once'
    OBVIOUS
  <2>1. CASE UNCHANGED vars
    BY <2>1, Dropped DEF vars, At
  <2>2. CASE Next
    BY <2>1, <2>2, OnceWalk, OnceCoordinate, OnceWork DEF Next, Returned, IInv
  <2>3. QED
    BY <2>1, <2>2
<1>3. IInv /\ Once => NoDoubleStore
  <2> SUFFICES ASSUME IInv, Once, coord = "store", NEW h \in held.items, h \in stored PROVE FALSE
    BY DEF NoDoubleStore
  <2>1. held # NoBatch
    BY DEF IInv, Bounded, TypeOK
  <2>2. At("held", "held", h) /\ At("stored", "stored", h)
    BY <2>1 DEF At
  <2>3. QED
    BY <2>2 DEF Once, OnePlace
<1>4. QED
  BY <1>1, <1>2, <1>3, InvHolds, PTL DEF Spec
=============================================================================
