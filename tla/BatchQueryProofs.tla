-------------------------- MODULE BatchQueryProofs --------------------------
(***************************************************************************)
(* Proofs that a batch is evaluated on one snapshot of the store and that  *)
(* its response fits the results, for any number of requests, workers,     *)
(* inputs and commits.                                                     *)
(*                                                                         *)
(* BatchSnapshot is not inductive: the argument is that the handler keeps  *)
(* its share of the lock from the moment it reads the revisions until all  *)
(* of its workers are done, and that the data change under the write lock  *)
(* only.  ResponseFits rests on the division of the inputs among the       *)
(* workers: an input without a result is still ahead of a worker, and the  *)
(* handler answers when there is none.                                     *)
(***************************************************************************)
EXTENDS BatchQuery, TLAPS

InFlight(r) == pc[r] \in {"lookup", "build", "wait"}

\* The variables the argument is about are functions of their indices.
Shapes ==
    /\ rmu \in RWLocks(Holders)
    /\ DOMAIN pc = Requests
    /\ DOMAIN snap = Requests
    /\ DOMAIN wk = Requests /\ \A r \in Requests : DOMAIN wk[r] = Workers
    /\ DOMAIN out = Requests /\ \A r \in Requests : DOMAIN out[r] = Keys

\* Readers and a writer never hold the lock together, and the writer has it
\* until its commit is complete.
Exclusive ==
    /\ rmu.writer # {} => rmu.held = {}
    /\ wpc = "compile" => rmu.writer # {}

\* A request in flight holds the lock and reports the current commit.
Pinned == \A r \in Requests : InFlight(r) => Handler(r) \in rmu.held /\ snap[r] = data

\* Workers run while their handler waits, and there are no outputs before.
Pooled ==
    \A r \in Requests :
        /\ \A i \in Workers : wk[r][i] \in {"next", "eval"} => pc[r] = "wait"
        /\ pc[r] \in {"idle", "open", "lookup", "build"} =>
             \A k \in Keys : out[r][k].kind # "result"

SnapInv == Shapes /\ Exclusive /\ Pinned /\ Pooled /\ BatchSnapshot

-----------------------------------------------------------------------------

\* The invariant holds before the first request.
LEMMA SnapInit == Init => SnapInv
  BY DEF Init, SnapInv, Shapes, Exclusive, Pinned, Pooled, BatchSnapshot,
         RWLocks, RWUnlocked, InFlight, None

\* The holders of the lock are told apart.
LEMMA HoldersDiffer ==
    ASSUME NEW r \in Requests, NEW q \in Requests, NEW i \in Workers
    PROVE  /\ Handler(r) \in Holders
           /\ Worker(q, i) \in Holders
           /\ Handler(r) # Worker(q, i)
           /\ r # q => Handler(r) # Handler(q)
           /\ Writer \in Holders
  BY SizesAssumption DEF Handler, Worker, Holders, Workers

\* What the operations of the lock keep.
LEMMA LockSteps ==
    ASSUME rmu \in RWLocks(Holders), Exclusive, NEW p \in Holders
    PROVE  /\ RLock(rmu, p) \in RWLocks(Holders)
           /\ RLock(rmu, p).writer = rmu.writer
           /\ rmu.held \subseteq RLock(rmu, p).held
           /\ RLock(rmu, p).writer # {} => RLock(rmu, p).held = {}
           /\ RUnlock(rmu, p) \in RWLocks(Holders)
           /\ RUnlock(rmu, p).held = rmu.held \ {p}
           /\ RUnlock(rmu, p).writer # {} => RUnlock(rmu, p).held = {}
           /\ rmu.writer # {} => RUnlock(rmu, p).writer = rmu.writer
           /\ Lock(rmu, p) \in RWLocks(Holders)
           /\ Lock(rmu, p).held = rmu.held
           /\ Lock(rmu, p).writer # {} => Lock(rmu, p).held = {}
           /\ Unlock(rmu) \in RWLocks(Holders)
           /\ Unlock(rmu).writer = {}
  BY DEF RWLocks, RLock, RUnlock, Lock, Unlock, Exclusive

\* A commit: the data change while nobody reads.
LEMMA SnapWriter == SnapInv /\ WriterStep => SnapInv'
<1> SUFFICES ASSUME SnapInv, WriterStep PROVE SnapInv'
  OBVIOUS
<1>w. Writer \in Holders
  BY DEF Holders
<1>1. CASE CommitWrite
  <2>1. Shapes' /\ Exclusive' /\ rmu'.held = rmu.held
    BY <1>1, <1>w, LockSteps DEF CommitWrite, SnapInv, Shapes, Exclusive, pool
  <2>2. Pinned'
    BY <1>1, <2>1 DEF CommitWrite, SnapInv, Pinned, InFlight
  <2>3. Pooled' /\ BatchSnapshot'
    BY <1>1 DEF CommitWrite, SnapInv, Pooled, BatchSnapshot, pool
  <2> QED  BY <2>1, <2>2, <2>3 DEF SnapInv
<1>2. CASE Install
  <2>1. rmu.held = {}
    BY <1>2 DEF Install, SnapInv, Exclusive
  <2>2. Shapes' /\ Exclusive'
    BY <1>2 DEF Install, SnapInv, Shapes, Exclusive, pool
  <2>3. Pinned'
    BY <1>2, <2>1 DEF Install, SnapInv, Pinned, InFlight
  <2>4. Pooled' /\ BatchSnapshot'
    BY <1>2 DEF Install, SnapInv, Pooled, BatchSnapshot, pool
  <2> QED  BY <2>2, <2>3, <2>4 DEF SnapInv
<1>3. CASE Recompile
  <2>1. rmu.held = {}
    BY <1>3 DEF Recompile, SnapInv, Exclusive
  <2>2. Shapes' /\ Exclusive'
    BY <1>3, <1>w, LockSteps DEF Recompile, SnapInv, Shapes, Exclusive, pool
  <2>3. Pinned'
    BY <1>3, <2>1 DEF Recompile, SnapInv, Pinned, InFlight
  <2>4. Pooled' /\ BatchSnapshot'
    BY <1>3 DEF Recompile, SnapInv, Pooled, BatchSnapshot, pool
  <2> QED  BY <2>2, <2>3, <2>4 DEF SnapInv
<1> QED  BY <1>1, <1>2, <1>3 DEF WriterStep

\* The steps of a handler: it takes its share of the lock before it is in
\* flight and gives it back when it is done.
LEMMA SnapHandler ==
    ASSUME SnapInv, NEW r \in Requests,
           ServeHTTP(r) \/ BadRequest(r) \/ Cancel(r) \/ HandlerStep(r)
    PROVE  SnapInv'
<1>h. Handler(r) \in Holders /\ \A q \in Requests : q # r => Handler(q) # Handler(r)
  BY SizesAssumption DEF Handler, Holders
<1>1. CASE ServeHTTP(r)
  <2>1. Shapes' /\ Exclusive'
    BY <1>1, <1>h, LockSteps DEF ServeHTTP, SnapInv, Shapes, Exclusive, pool, store
  <2>2. rmu.held \subseteq rmu'.held
    BY <1>1, <1>h, LockSteps DEF ServeHTTP, SnapInv, Shapes
  <2>3. Pinned'
    BY <1>1, <1>h, <2>2 DEF ServeHTTP, SnapInv, Shapes, Pinned, InFlight, store
  <2>4. Pooled'
    BY <1>1 DEF ServeHTTP, SnapInv, Shapes, Pooled, pool
  <2>5. BatchSnapshot'
    BY <1>1 DEF ServeHTTP, SnapInv, Shapes, Pooled, BatchSnapshot, pool
  <2> QED  BY <2>1, <2>3, <2>4, <2>5 DEF SnapInv
<1>2. CASE BadRequest(r)
  <2>1. Shapes' /\ Exclusive' /\ rmu' = rmu
    BY <1>2 DEF BadRequest, SnapInv, Shapes, Exclusive, pool, store
  <2>3. Pinned'
    BY <1>2, <2>1 DEF BadRequest, SnapInv, Shapes, Pinned, InFlight, store
  <2>4. Pooled'
    BY <1>2 DEF BadRequest, SnapInv, Shapes, Pooled, pool
  <2>5. BatchSnapshot'
    BY <1>2 DEF BadRequest, SnapInv, Shapes, Pooled, BatchSnapshot, pool
  <2> QED  BY <2>1, <2>3, <2>4, <2>5 DEF SnapInv
<1>3. CASE Cancel(r)
  <2>1. Shapes' /\ Exclusive' /\ rmu' = rmu
    BY <1>3 DEF Cancel, SnapInv, Shapes, Exclusive, pool, store
  <2>3. Pinned'
    BY <1>3, <2>1 DEF Cancel, SnapInv, Shapes, Pinned, InFlight, store
  <2>4. Pooled'
    BY <1>3 DEF Cancel, SnapInv, Shapes, Pooled, pool
  <2>5. BatchSnapshot'
    BY <1>3 DEF Cancel, SnapInv, Shapes, Pooled, BatchSnapshot, pool
  <2> QED  BY <2>1, <2>3, <2>4, <2>5 DEF SnapInv
<1>4. CASE GetRevisions(r)
  <2>1. Shapes' /\ Exclusive' /\ rmu' = rmu
    BY <1>4 DEF GetRevisions, SnapInv, Shapes, Exclusive, pool, store
  <2>3. Pinned'
    BY <1>4, <2>1 DEF GetRevisions, SnapInv, Shapes, Pinned, InFlight, store
  <2>4. Pooled'
    BY <1>4 DEF GetRevisions, SnapInv, Shapes, Pooled, pool
  <2>5. BatchSnapshot'
    BY <1>4 DEF GetRevisions, SnapInv, Shapes, Pooled, BatchSnapshot, pool
  <2> QED  BY <2>1, <2>3, <2>4, <2>5 DEF SnapInv
<1>5. CASE CacheHit(r)
  <2>1. Shapes' /\ Exclusive' /\ rmu' = rmu
    BY <1>5 DEF CacheHit, StartPool, SnapInv, Shapes, Exclusive, pool, store
  <2>3. Pinned'
    BY <1>5, <2>1 DEF CacheHit, StartPool, SnapInv, Shapes, Pinned, InFlight, store
  <2>4. Pooled'
    BY <1>5 DEF CacheHit, StartPool, SnapInv, Shapes, Pooled, pool
  <2>5. BatchSnapshot'
    BY <1>5 DEF CacheHit, StartPool, SnapInv, Shapes, Pooled, BatchSnapshot, pool
  <2> QED  BY <2>1, <2>3, <2>4, <2>5 DEF SnapInv
<1>6. CASE CacheMiss(r)
  <2>1. Shapes' /\ Exclusive' /\ rmu' = rmu
    BY <1>6 DEF CacheMiss, SnapInv, Shapes, Exclusive, pool, store
  <2>3. Pinned'
    BY <1>6, <2>1 DEF CacheMiss, SnapInv, Shapes, Pinned, InFlight, store
  <2>4. Pooled'
    BY <1>6 DEF CacheMiss, SnapInv, Shapes, Pooled, pool
  <2>5. BatchSnapshot'
    BY <1>6 DEF CacheMiss, SnapInv, Shapes, Pooled, BatchSnapshot, pool
  <2> QED  BY <2>1, <2>3, <2>4, <2>5 DEF SnapInv
<1>7. CASE Build(r)
  <2>1. Shapes' /\ Exclusive' /\ rmu' = rmu
    BY <1>7 DEF Build, StartPool, SnapInv, Shapes, Exclusive, pool, store
  <2>3. Pinned'
    BY <1>7, <2>1 DEF Build, StartPool, SnapInv, Shapes, Pinned, InFlight, store
  <2>4. Pooled'
    BY <1>7 DEF Build, StartPool, SnapInv, Shapes, Pooled, pool
  <2>5. BatchSnapshot'
    BY <1>7 DEF Build, StartPool, SnapInv, Shapes, Pooled, BatchSnapshot, pool
  <2> QED  BY <2>1, <2>3, <2>4, <2>5 DEF SnapInv
<1>8. CASE BuildFails(r)
  <2>1. Shapes' /\ Exclusive'
    BY <1>8, <1>h, LockSteps DEF BuildFails, SnapInv, Shapes, Exclusive, pool, store
  <2>2. rmu'.held = rmu.held \ {Handler(r)}
    BY <1>8, <1>h, LockSteps DEF BuildFails, SnapInv, Shapes
  <2>3. Pinned'
    BY <1>8, <1>h, <2>2 DEF BuildFails, SnapInv, Shapes, Pinned, InFlight, store
  <2>4. Pooled'
    BY <1>8 DEF BuildFails, SnapInv, Shapes, Pooled, pool
  <2>5. BatchSnapshot'
    BY <1>8 DEF BuildFails, SnapInv, Shapes, Pooled, BatchSnapshot, pool
  <2> QED  BY <2>1, <2>3, <2>4, <2>5 DEF SnapInv
<1>9. CASE Respond(r)
  <2>1. Shapes' /\ Exclusive'
    BY <1>9, <1>h, LockSteps DEF Respond, SnapInv, Shapes, Exclusive, pool, store
  <2>2. rmu'.held = rmu.held \ {Handler(r)}
    BY <1>9, <1>h, LockSteps DEF Respond, SnapInv, Shapes
  <2>3. Pinned'
    BY <1>9, <1>h, <2>2 DEF Respond, SnapInv, Shapes, Pinned, InFlight, store
  <2>4. Pooled'
    BY <1>9 DEF Respond, SnapInv, Shapes, Pooled, pool
  <2>5. BatchSnapshot'
    BY <1>9 DEF Respond, SnapInv, Shapes, Pooled, BatchSnapshot, pool
  <2> QED  BY <2>1, <2>3, <2>4, <2>5 DEF SnapInv
<1> QED  BY <1>1, <1>2, <1>3, <1>4, <1>5, <1>6, <1>7, <1>8, <1>9 DEF HandlerStep

\* The steps of a worker: it reads while its handler holds the lock.
LEMMA SnapWorker ==
    ASSUME SnapInv, NEW r \in Requests, NEW i \in Workers, WorkerStep(r, i)
    PROVE  SnapInv'
<1>h. Worker(r, i) \in Holders /\ \A q \in Requests : Handler(q) # Worker(r, i)
  BY HoldersDiffer
<1>1. CASE StartEval(r, i)
  <2>1. Shapes' /\ Exclusive'
    BY <1>1, <1>h, LockSteps DEF StartEval, SnapInv, Shapes, Exclusive, store
  <2>2. rmu.held \subseteq rmu'.held
    BY <1>1, <1>h, LockSteps DEF StartEval, SnapInv, Shapes
  <2>3. Pinned'
    BY <1>1, <1>h, <2>2 DEF StartEval, SnapInv, Pinned, InFlight, store
  <2>4. Pooled'
    BY <1>1 DEF StartEval, SnapInv, Shapes, Pooled
  <2>5. BatchSnapshot'
    BY <1>1 DEF StartEval, SnapInv, Shapes, Pinned, InFlight, Pooled, BatchSnapshot
  <2> QED  BY <2>1, <2>3, <2>4, <2>5 DEF SnapInv
<1>2. CASE WorkerDone(r, i)
  <2>1. Shapes' /\ Exclusive' /\ rmu' = rmu
    BY <1>2 DEF WorkerDone, SnapInv, Shapes, Exclusive, store
  <2>3. Pinned'
    BY <1>2, <2>1 DEF WorkerDone, SnapInv, Pinned, InFlight, store
  <2>4. Pooled'
    BY <1>2 DEF WorkerDone, SnapInv, Shapes, Pooled
  <2>5. BatchSnapshot'
    BY <1>2 DEF WorkerDone, SnapInv, Shapes, Pinned, InFlight, Pooled, BatchSnapshot
  <2> QED  BY <2>1, <2>3, <2>4, <2>5 DEF SnapInv
<1>3. CASE \E k \in Keys : Skip(r, i, k)
  <2>1. Shapes' /\ Exclusive' /\ rmu' = rmu
    BY <1>3 DEF Skip, Emit, Error, SnapInv, Shapes, Exclusive, store
  <2>3. Pinned'
    BY <1>3, <2>1 DEF Skip, Emit, Error, SnapInv, Pinned, InFlight, store
  <2>4. Pooled'
    BY <1>3 DEF Skip, Emit, Error, SnapInv, Shapes, Pooled
  <2>5. BatchSnapshot'
    BY <1>3 DEF Skip, Emit, Error, SnapInv, Shapes, Pinned, InFlight, Pooled, BatchSnapshot
  <2> QED  BY <2>1, <2>3, <2>4, <2>5 DEF SnapInv
<1>4. CASE \E k \in Keys : Eval(r, i, k)
  <2>1. Shapes' /\ Exclusive'
    BY <1>4, <1>h, LockSteps DEF Eval, Emit, Error, Result, SnapInv, Shapes, Exclusive, store
  <2>2. rmu'.held = rmu.held \ {Worker(r, i)}
    BY <1>4, <1>h, LockSteps DEF Eval, Emit, Error, Result, SnapInv, Shapes
  <2>3. Pinned'
    BY <1>4, <1>h, <2>2 DEF Eval, Emit, Error, Result, SnapInv, Pinned, InFlight, store
  <2>4. Pooled'
    BY <1>4 DEF Eval, Emit, Error, Result, SnapInv, Shapes, Pooled
  <2>5. BatchSnapshot'
    BY <1>4 DEF Eval, Emit, Error, Result, SnapInv, Shapes, Pinned, InFlight, Pooled, BatchSnapshot
  <2> QED  BY <2>1, <2>3, <2>4, <2>5 DEF SnapInv
<1> QED  BY <1>1, <1>2, <1>3, <1>4 DEF WorkerStep

\* Every step keeps the invariant.
LEMMA SnapStep == SnapInv /\ [Next]_vars => SnapInv'
<1> SUFFICES ASSUME SnapInv, [Next]_vars PROVE SnapInv'
  OBVIOUS
<1>1. CASE UNCHANGED vars
  BY <1>1 DEF vars, SnapInv, Shapes, Exclusive, Pinned, Pooled, BatchSnapshot, InFlight
<1>2. CASE Next
  BY <1>2, SnapWriter, SnapHandler, SnapWorker DEF Next
<1> QED  BY <1>1, <1>2

\* All results of a batch come from the state of the store that the batch
\* reports, for any number of requests, workers and concurrent commits.
THEOREM BatchesReadOneSnapshot == Spec => []BatchSnapshot
<1>1. SnapInv => BatchSnapshot
  BY DEF SnapInv
<1> QED  BY <1>1, SnapInit, SnapStep, PTL DEF Spec

-----------------------------------------------------------------------------
(* Types.  A commit that waits for the lock has room below the bound.      *)

TypeInv == TypeOK /\ (wpc = "lock" => data < MaxCommits)

LEMMA OthersType ==
    ASSUME TypeOK, NEW p \in Paths
    PROVE  Others(p) \in Seq([path : Paths, policy : Commits])
<1> DEFINE E == [path : Paths, policy : Commits]
           n == CHOOSE m \in Entries(p) : TRUE
<1>1. cache \in Seq(E) /\ Len(cache) \in Nat /\ DOMAIN cache = 1 .. Len(cache)
  BY DEF TypeOK
<1>2. CASE Entries(p) # {}
  <2>1. n \in 1 .. Len(cache)
    BY <1>1, <1>2 DEF Entries
  <2> HIDE DEF n, E
  <2>2. SubSeq(cache, 1, n - 1) \in Seq(E) /\ SubSeq(cache, n + 1, Len(cache)) \in Seq(E)
    BY <1>1, <2>1
  <2>3. SubSeq(cache, 1, n - 1) \o SubSeq(cache, n + 1, Len(cache)) \in Seq(E)
    BY <2>2
  <2> QED BY <1>2, <2>3 DEF Others, n, E
<1> QED BY <1>1, <1>2 DEF Others

\* The cache after a query for a path was used or built.
LEMMA AppendType ==
    ASSUME TypeOK, NEW p \in Paths, NEW q \in Commits
    PROVE  LET c == Append(Others(p), [path |-> p, policy |-> q])
           IN  /\ c \in Seq([path : Paths, policy : Commits])
               /\ Tail(c) \in Seq([path : Paths, policy : Commits])
<1> DEFINE E == [path : Paths, policy : Commits]
           e == [path |-> p, policy |-> q]
<1>1. e \in E /\ Others(p) \in Seq(E)
  BY OthersType
<1> HIDE DEF E, e
<1>2. Append(Others(p), e) \in Seq(E) /\ Append(Others(p), e) # << >>
  BY <1>1
<1>3. Tail(Append(Others(p), e)) \in Seq(E)
  BY <1>2
<1> QED BY <1>2, <1>3 DEF E, e

LEMMA TypeInit == Init => TypeInv
<1> SUFFICES ASSUME Init PROVE TypeInv
  OBVIOUS
<1>1. RWUnlocked \in RWLocks(Holders) /\ 0 \in Commits /\ None \in Outputs /\ [ok |-> 0, err |-> 0] \in Counts
  BY SizesAssumption DEF RWUnlocked, RWLocks, Commits, None, Outputs, Counts
<1>2. << >> \in Seq([path : Paths, policy : Commits])
  OBVIOUS
<1> QED BY <1>1, <1>2 DEF Init, TypeInv, TypeOK

LEMMA LockTypes ==
    ASSUME NEW m \in RWLocks(Holders), NEW p \in Holders
    PROVE  /\ RLock(m, p) \in RWLocks(Holders) /\ RUnlock(m, p) \in RWLocks(Holders)
           /\ Lock(m, p) \in RWLocks(Holders) /\ Unlock(m) \in RWLocks(Holders)
  BY DEF RWLocks, RLock, RUnlock, Lock, Unlock

LEMMA TypeWriter == TypeInv /\ WriterStep => TypeInv'
<1> SUFFICES ASSUME TypeInv, WriterStep PROVE TypeInv'
  OBVIOUS
<1>l. ASSUME NEW p \in Holders PROVE Lock(rmu, p) \in RWLocks(Holders) /\ Unlock(rmu) \in RWLocks(Holders)
  BY LockTypes DEF TypeInv, TypeOK
<1>w. Writer \in Holders
  BY DEF Holders
<1>1. CASE CommitWrite
  BY <1>1, <1>l, <1>w DEF CommitWrite, TypeInv, TypeOK, pool
<1>2. CASE Install
  BY <1>2, SizesAssumption DEF Install, TypeInv, TypeOK, pool, Commits
<1>3. CASE Recompile
  BY <1>3, <1>l, <1>w DEF Recompile, TypeInv, TypeOK, pool
<1> QED BY <1>1, <1>2, <1>3 DEF WriterStep

LEMMA TypeHandler ==
    ASSUME TypeInv, NEW r \in Requests,
           ServeHTTP(r) \/ BadRequest(r) \/ Cancel(r) \/ HandlerStep(r)
    PROVE  TypeInv'
<1>h. Handler(r) \in Holders
  BY SizesAssumption DEF Handler, Holders
<1>l. RLock(rmu, Handler(r)) \in RWLocks(Holders) /\ RUnlock(rmu, Handler(r)) \in RWLocks(Holders)
  BY <1>h, LockTypes DEF TypeInv, TypeOK
<1>p. Path[r] \in Paths /\ Inputs[r] \in SUBSET Keys
  BY RequestsAssumption
<1>1. CASE ServeHTTP(r)
  <2>1. \A s \in Split(r) : s \in [Workers -> SUBSET Keys]
    BY <1>p DEF Split
  <2> QED BY <1>1, <1>l, <2>1 DEF ServeHTTP, TypeInv, TypeOK, store
<1>2. CASE BadRequest(r)
  BY <1>2 DEF BadRequest, TypeInv, TypeOK, pool, store
<1>3. CASE Cancel(r)
  BY <1>3 DEF Cancel, TypeInv, TypeOK, pool, store
<1>4. CASE GetRevisions(r)
  BY <1>4 DEF GetRevisions, TypeInv, TypeOK, pool, store
<1>5. CASE CacheHit(r)
  <2>1. PICK q \in Cached(Path[r]) :
          StartPool(r, q) /\ cache' = Append(Others(Path[r]), [path |-> Path[r], policy |-> q])
    BY <1>5 DEF CacheHit
  <2>2. q \in Commits
    <3>1. PICK n \in DOMAIN cache : q = cache[n].policy
      BY DEF Cached, Entries
    <3> DEFINE E == [path : Paths, policy : Commits]
    <3>2. cache \in Seq(E)
      BY DEF TypeInv, TypeOK
    <3> HIDE DEF E
    <3>3. cache[n] \in E
      BY <3>1, <3>2
    <3> QED BY <3>1, <3>3 DEF E
  <2>3. cache' \in Seq([path : Paths, policy : Commits])
    BY <1>p, <2>1, <2>2, AppendType DEF TypeInv
  <2> QED BY <1>5, <2>1, <2>2, <2>3 DEF CacheHit, StartPool, TypeInv, TypeOK, store
<1>6. CASE CacheMiss(r)
  BY <1>6 DEF CacheMiss, TypeInv, TypeOK, pool, store
<1>7. CASE Build(r)
  <2>1. cache' \in Seq([path : Paths, policy : Commits])
    BY <1>7, <1>p, AppendType DEF Build, TypeInv, TypeOK
  <2> QED BY <1>7, <2>1 DEF Build, StartPool, TypeInv, TypeOK, store
<1>8. CASE BuildFails(r)
  BY <1>8, <1>l DEF BuildFails, TypeInv, TypeOK, pool, store
<1>9. CASE Respond(r)
  BY <1>9, <1>l DEF Respond, StatusCode, TypeInv, TypeOK, pool, store
<1> QED BY <1>1, <1>2, <1>3, <1>4, <1>5, <1>6, <1>7, <1>8, <1>9 DEF HandlerStep

\* The output of a worker for a key, and its counts.
LEMMA EmitTypes ==
    ASSUME TypeOK, NEW r \in Requests, NEW i \in Workers, NEW k \in Keys, NEW o \in Outputs,
           Emit(r, i, k, o)
    PROVE  /\ out' \in [Requests -> [Keys -> Outputs]]
           /\ left' \in [Requests -> [Workers -> SUBSET Keys]]
           /\ tally' \in [Requests -> [Workers -> Counts]]
<1>1. out' \in [Requests -> [Keys -> Outputs]]
  BY DEF Emit, TypeOK
<1>2. left' \in [Requests -> [Workers -> SUBSET Keys]]
  BY DEF Emit, TypeOK
<1>t. tally \in [Requests -> [Workers -> Counts]] /\ tally[r] \in [Workers -> Counts] /\ tally[r][i] \in Counts
  BY DEF TypeOK
<1>3. CASE o = Error
  <2>1. tally' = [tally EXCEPT ![r] = [tally[r] EXCEPT ![i] = [tally[r][i] EXCEPT !.err = @ + 1]]]
    BY <1>t, <1>3 DEF Emit
  <2>2. [tally[r][i] EXCEPT !.err = @ + 1] \in Counts
    BY <1>t DEF Counts
  <2> QED BY <1>1, <1>2, <1>t, <2>1, <2>2
<1>4. CASE o # Error
  <2>1. tally' = [tally EXCEPT ![r] = [tally[r] EXCEPT ![i] = [tally[r][i] EXCEPT !.ok = @ + 1]]]
    BY <1>t, <1>4 DEF Emit
  <2>2. [tally[r][i] EXCEPT !.ok = @ + 1] \in Counts
    BY <1>t DEF Counts
  <2> QED BY <1>1, <1>2, <1>t, <2>1, <2>2
<1> QED BY <1>1, <1>2, <1>3, <1>4

LEMMA TypeWorker ==
    ASSUME TypeInv, NEW r \in Requests, NEW i \in Workers, WorkerStep(r, i)
    PROVE  TypeInv'
<1>h. Worker(r, i) \in Holders
  BY HoldersDiffer
<1>l. RLock(rmu, Worker(r, i)) \in RWLocks(Holders) /\ RUnlock(rmu, Worker(r, i)) \in RWLocks(Holders)
  BY <1>h, LockTypes DEF TypeInv, TypeOK
<1>1. CASE StartEval(r, i)
  BY <1>1, <1>l DEF StartEval, TypeInv, TypeOK, store
<1>2. CASE WorkerDone(r, i)
  <2>1. total' \in [Requests -> Counts]
    BY <1>2 DEF WorkerDone, TypeInv, TypeOK, Counts
  <2> QED BY <1>2, <2>1 DEF WorkerDone, TypeInv, TypeOK, store
<1>3. ASSUME NEW k \in Keys, Skip(r, i, k) PROVE TypeInv'
  <2>1. Error \in Outputs
    BY SizesAssumption DEF Error, Outputs, Commits
  <2> QED BY <1>3, <2>1, EmitTypes DEF Skip, TypeInv, TypeOK, store
<1>4. ASSUME NEW k \in Keys, Eval(r, i, k) PROVE TypeInv'
  <2>1. Error \in Outputs /\ Result(data, query[r]) \in Outputs
    BY SizesAssumption DEF Error, Result, Outputs, Commits, TypeInv, TypeOK
  <2>2. PICK o \in Outputs : Emit(r, i, k, o)
    BY <1>4, <2>1 DEF Eval
  <2>3. /\ out' \in [Requests -> [Keys -> Outputs]]
        /\ left' \in [Requests -> [Workers -> SUBSET Keys]]
        /\ tally' \in [Requests -> [Workers -> Counts]]
    BY <2>2, EmitTypes DEF TypeInv
  <2> QED BY <1>4, <1>l, <2>3 DEF Eval, TypeInv, TypeOK, store
<1> QED BY <1>1, <1>2, <1>3, <1>4 DEF WorkerStep

LEMMA TypeStep == TypeInv /\ [Next]_vars => TypeInv'
<1> SUFFICES ASSUME TypeInv, [Next]_vars PROVE TypeInv'
  OBVIOUS
<1>1. CASE UNCHANGED vars
  BY <1>1 DEF vars, TypeInv, TypeOK
<1>2. CASE Next
  BY <1>2, TypeWriter, TypeHandler, TypeWorker DEF Next
<1> QED BY <1>1, <1>2

\* Every variable keeps to its range; in particular the cache stays a list of
\* prepared queries although entries move, and the counters stay natural.
THEOREM BatchTypes == Spec => []TypeOK
<1>1. TypeInv => TypeOK
  BY DEF TypeInv
<1> QED BY <1>1, TypeInit, TypeStep, PTL DEF Spec

-----------------------------------------------------------------------------
(* The response.  Inputs that have no output yet are with exactly one      *)
(* worker; a counter is positive exactly if some output is of its kind;    *)
(* and the totals hear of the counters of the workers that are done.       *)

Off == [i \in Workers |-> "off"]

\* Nothing has been evaluated before the pool starts.
NotStarted(r) ==
    /\ wk[r] = Off /\ total[r] = [ok |-> 0, err |-> 0]
    /\ \A k \in Keys : out[r][k] = None
    /\ \A i \in Workers : tally[r][i] = [ok |-> 0, err |-> 0]

\* Who has the inputs.
InputsAt(r) ==
    /\ \A k \in Keys, i \in Workers : k \in left[r][i] => k \in Inputs[r] /\ out[r][k] = None
    /\ \A k \in Keys, i, j \in Workers : k \in left[r][i] /\ k \in left[r][j] => i = j
    /\ pc[r] \in {"open", "lookup", "build", "wait"} =>
         \A k \in Inputs[r] : out[r][k] = None => \E i \in Workers : k \in left[r][i]
    /\ \A k \in Keys : k \notin Inputs[r] => out[r][k] = None

\* Where the workers are.
WorkersAt(r) ==
    /\ pc[r] \in {"idle", "open", "lookup", "build"} => NotStarted(r)
    /\ pc[r] = "wait" => \A i \in Workers : wk[r][i] # "off"
    /\ \A i \in Workers : wk[r][i] \in {"next", "eval"} => pc[r] = "wait"
    /\ \A i \in Workers : wk[r][i] = "done" => left[r][i] = {}

\* What the counters say.
CountsAt(r) ==
    /\ \A k \in Keys : out[r][k] = None \/ out[r][k] = Error \/ out[r][k].kind = "result"
    /\ (\E k \in Keys : out[r][k] = Error) <=> (\E i \in Workers : tally[r][i].err > 0)
    /\ (\E k \in Keys : out[r][k].kind = "result") <=> (\E i \in Workers : tally[r][i].ok > 0)
    /\ total[r].err > 0 <=> \E i \in Workers : wk[r][i] = "done" /\ tally[r][i].err > 0
    /\ total[r].ok > 0 <=> \E i \in Workers : wk[r][i] = "done" /\ tally[r][i].ok > 0

\* What was answered.
AnswerAt(r) ==
    pc[r] = "done" /\ wk[r] # Off =>
        /\ \A i \in Workers : wk[r][i] = "done"
        /\ \A k \in Inputs[r] : out[r][k] # None
        /\ code[r] = StatusCode(total[r])

PoolAt(r) == InputsAt(r) /\ WorkersAt(r) /\ CountsAt(r) /\ AnswerAt(r)
PoolInv == TypeInv /\ \A r \in Requests : PoolAt(r)

LEMMA PoolInit == Init => PoolInv
<1> SUFFICES ASSUME Init, NEW r \in Requests PROVE PoolAt(r)
  BY TypeInit DEF PoolInv
<1>1. /\ pc[r] = "idle" /\ wk[r] = Off /\ total[r] = [ok |-> 0, err |-> 0]
      /\ \A k \in Keys : out[r][k] = None
      /\ \A i \in Workers : tally[r][i] = [ok |-> 0, err |-> 0] /\ left[r][i] = {} /\ wk[r][i] = "off"
  BY DEF Init, Off
<1>2. InputsAt(r) /\ WorkersAt(r) /\ AnswerAt(r)
  BY <1>1 DEF InputsAt, WorkersAt, NotStarted, AnswerAt
<1>3. CountsAt(r)
  BY <1>1 DEF CountsAt, None, Error
<1> QED BY <1>2, <1>3 DEF PoolAt

\* A step that leaves a request alone.
LEMMA PoolFrame ==
    ASSUME NEW q \in Requests, PoolAt(q),
           pc'[q] = pc[q], wk'[q] = wk[q], left'[q] = left[q], out'[q] = out[q],
           tally'[q] = tally[q], total'[q] = total[q], code'[q] = code[q]
    PROVE  PoolAt(q)'
<1>1. NotStarted(q) => NotStarted(q)'
  BY DEF NotStarted
<1>2. InputsAt(q)'
  BY DEF PoolAt, InputsAt
<1>3. WorkersAt(q)'
  BY <1>1 DEF PoolAt, WorkersAt
<1>4. CountsAt(q)'
  BY DEF PoolAt, CountsAt
<1>5. AnswerAt(q)'
  BY DEF PoolAt, AnswerAt, StatusCode
<1> QED BY <1>2, <1>3, <1>4, <1>5 DEF PoolAt

LEMMA PoolWriter == PoolInv /\ WriterStep => PoolInv'
<1> SUFFICES ASSUME PoolInv, WriterStep PROVE PoolInv'
  OBVIOUS
<1>1. UNCHANGED <<pc, wk, left, out, tally, total, code>>
  BY DEF WriterStep, CommitWrite, Install, Recompile, pool
<1>2. TypeInv'
  BY TypeWriter DEF PoolInv
<1>3. ASSUME NEW q \in Requests PROVE PoolAt(q)'
  BY <1>1, PoolFrame DEF PoolInv
<1> QED BY <1>2, <1>3 DEF PoolInv

\* Steps of a handler before the pool runs, or that fail.
LEMMA PoolHandler ==
    ASSUME PoolInv, NEW r \in Requests,
           ServeHTTP(r) \/ BadRequest(r) \/ Cancel(r) \/ HandlerStep(r)
    PROVE  PoolInv'
<1>t. TypeInv' /\ TypeOK
  BY TypeHandler DEF PoolInv, TypeInv
<1>s. DOMAIN pc = Requests /\ DOMAIN wk = Requests /\ DOMAIN left = Requests /\ DOMAIN code = Requests
  BY <1>t DEF TypeOK
<1>p. PoolAt(r) /\ InputsAt(r) /\ WorkersAt(r) /\ CountsAt(r) /\ AnswerAt(r)
  BY DEF PoolInv, PoolAt
<1>q. ASSUME NEW q \in Requests, q # r PROVE PoolAt(q)'
  <2>1. /\ pc'[q] = pc[q] /\ wk'[q] = wk[q] /\ left'[q] = left[q] /\ out'[q] = out[q]
        /\ tally'[q] = tally[q] /\ total'[q] = total[q] /\ code'[q] = code[q]
    <3>1. CASE ServeHTTP(r) BY <1>s, <1>q, <3>1 DEF ServeHTTP
    <3>2. CASE CacheHit(r) \/ Build(r) BY <1>s, <1>q, <3>2 DEF CacheHit, Build, StartPool
    <3>3. CASE BadRequest(r) \/ Cancel(r) BY <1>s, <1>q, <3>3 DEF BadRequest, Cancel, pool
    <3>4. CASE GetRevisions(r) \/ CacheMiss(r) BY <1>s, <1>q, <3>4 DEF GetRevisions, CacheMiss, pool
    <3>5. CASE BuildFails(r) \/ Respond(r) BY <1>s, <1>q, <3>5 DEF BuildFails, Respond, pool
    <3> QED BY <3>1, <3>2, <3>3, <3>4, <3>5 DEF HandlerStep
  <2> QED BY <1>q, <2>1, PoolFrame DEF PoolInv
<1>r. PoolAt(r)'
  <2>1. CASE ServeHTTP(r)
    <3>1. PICK s \in Split(r) : left' = [left EXCEPT ![r] = s]
      BY <2>1 DEF ServeHTTP
    <3>2. left'[r] = s /\ pc[r] = "idle" /\ pc'[r] = "open"
      BY <1>t, <2>1, <3>1 DEF ServeHTTP, TypeOK
    <3>3. UNCHANGED <<wk, out, tally, total, code>>
      BY <2>1 DEF ServeHTTP
    <3>4. NotStarted(r) /\ NotStarted(r)'
      BY <1>p, <3>2, <3>3 DEF WorkersAt, NotStarted
    <3>5. \A k \in Keys, i \in Workers : k \in s[i] => k \in Inputs[r]
      BY DEF Split
    <3>6. \A k \in Keys, i, j \in Workers : k \in s[i] /\ k \in s[j] => i = j
      BY <3>5 DEF Split
    <3>7. \A k \in Inputs[r] : \E i \in Workers : k \in s[i]
      BY DEF Split
    <3>8. InputsAt(r)'
      BY <1>p, <3>2, <3>3, <3>4, <3>5, <3>6, <3>7 DEF InputsAt, NotStarted
    <3>9. WorkersAt(r)'
      BY <3>2, <3>3, <3>4 DEF WorkersAt, NotStarted, Off
    <3>10. CountsAt(r)' /\ AnswerAt(r)'
      BY <1>p, <3>2, <3>3 DEF CountsAt, AnswerAt
    <3> QED BY <3>8, <3>9, <3>10 DEF PoolAt
  <2>2. CASE BadRequest(r) \/ BuildFails(r)
    <3>1. /\ pc[r] \in {"idle", "build"} /\ pc'[r] = "done"
          /\ UNCHANGED <<wk, left, out, tally, total>>
      BY <1>t, <2>2 DEF BadRequest, BuildFails, TypeOK, pool
    <3>2. NotStarted(r)
      BY <1>p, <3>1 DEF WorkersAt
    <3> QED BY <1>p, <3>1, <3>2 DEF PoolAt, InputsAt, WorkersAt, NotStarted, Off, CountsAt, AnswerAt
  <2>3. CASE Cancel(r)
    BY <1>p, <2>3, PoolFrame DEF Cancel, pool
  <2>4. CASE GetRevisions(r) \/ CacheMiss(r)
    <3>1. /\ pc[r] \in {"open", "lookup"} /\ pc'[r] \in {"lookup", "build"}
          /\ UNCHANGED <<wk, left, out, tally, total, code>>
      BY <1>t, <2>4 DEF GetRevisions, CacheMiss, TypeOK, pool
    <3>2. NotStarted(r) /\ NotStarted(r)'
      BY <1>p, <3>1 DEF WorkersAt, NotStarted
    <3> QED BY <1>p, <3>1, <3>2 DEF PoolAt, InputsAt, WorkersAt, CountsAt, AnswerAt
  <2>5. CASE CacheHit(r) \/ Build(r)
    <3>1. /\ pc[r] \in {"lookup", "build"} /\ pc'[r] = "wait"
          /\ wk'[r] = [i \in Workers |-> "next"]
          /\ UNCHANGED <<left, out, tally, total, code>>
      BY <1>s, <2>5 DEF CacheHit, Build, StartPool
    <3>2. NotStarted(r)
      BY <1>p, <3>1 DEF WorkersAt
    <3>3. InputsAt(r)' /\ AnswerAt(r)'
      BY <1>p, <3>1 DEF InputsAt, AnswerAt
    <3>4. WorkersAt(r)'
      BY <3>1 DEF WorkersAt
    <3>5. CountsAt(r)'
      BY <1>p, <3>1, <3>2 DEF CountsAt, NotStarted
    <3> QED BY <3>3, <3>4, <3>5 DEF PoolAt
  <2>6. CASE Respond(r)
    <3>1. /\ pc[r] = "wait" /\ pc'[r] = "done" /\ \A i \in Workers : wk[r][i] = "done"
          /\ code'[r] = StatusCode(total[r])
          /\ UNCHANGED <<wk, left, out, tally, total>>
      BY <1>t, <2>6 DEF Respond, TypeOK, pool
    <3>2. \A k \in Inputs[r] : out[r][k] # None
      BY <1>p, <3>1 DEF InputsAt, WorkersAt
    <3>3. AnswerAt(r)'
      BY <3>1, <3>2 DEF AnswerAt, StatusCode
    <3> QED BY <1>p, <3>1, <3>3 DEF PoolAt, InputsAt, WorkersAt, CountsAt
  <2> QED BY <2>1, <2>2, <2>3, <2>4, <2>5, <2>6 DEF HandlerStep
<1> QED BY <1>q, <1>r, <1>t DEF PoolInv

\* What a worker's output changes: its key, its inputs and one of its counts.
LEMMA EmitEffect ==
    ASSUME TypeOK, NEW r \in Requests, NEW i \in Workers, NEW k \in Keys, NEW o \in Outputs,
           Emit(r, i, k, o)
    PROVE  /\ out'[r][k] = o /\ \A l \in Keys : l # k => out'[r][l] = out[r][l]
           /\ left'[r][i] = left[r][i] \ {k}
           /\ \A j \in Workers : j # i => left'[r][j] = left[r][j] /\ tally'[r][j] = tally[r][j]
           /\ o = Error => tally'[r][i].err = tally[r][i].err + 1 /\ tally'[r][i].ok = tally[r][i].ok
           /\ o # Error => tally'[r][i].ok = tally[r][i].ok + 1 /\ tally'[r][i].err = tally[r][i].err
           /\ \A q \in Requests : q # r =>
                out'[q] = out[q] /\ left'[q] = left[q] /\ tally'[q] = tally[q]
<1>1. /\ tally \in [Requests -> [Workers -> Counts]] /\ out \in [Requests -> [Keys -> Outputs]]
      /\ left \in [Requests -> [Workers -> SUBSET Keys]]
      /\ tally[r] \in [Workers -> Counts] /\ tally[r][i] \in Counts
  BY DEF TypeOK
<1>2. /\ out'[r][k] = o /\ \A l \in Keys : l # k => out'[r][l] = out[r][l]
      /\ \A q \in Requests : q # r => out'[q] = out[q]
  BY <1>1 DEF Emit
<1>3. /\ left'[r][i] = left[r][i] \ {k} /\ \A j \in Workers : j # i => left'[r][j] = left[r][j]
      /\ \A q \in Requests : q # r => left'[q] = left[q]
  BY <1>1 DEF Emit
<1>4. CASE o = Error
  <2>1. tally' = [tally EXCEPT ![r] = [tally[r] EXCEPT ![i] = [tally[r][i] EXCEPT !.err = @ + 1]]]
    BY <1>1, <1>4 DEF Emit
  <2>2. /\ tally'[r][i] = [tally[r][i] EXCEPT !.err = @ + 1]
        /\ \A j \in Workers : j # i => tally'[r][j] = tally[r][j]
        /\ \A q \in Requests : q # r => tally'[q] = tally[q]
    BY <1>1, <2>1
  <2> QED BY <1>1, <1>2, <1>3, <1>4, <2>2 DEF Counts
<1>5. CASE o # Error
  <2>1. tally' = [tally EXCEPT ![r] = [tally[r] EXCEPT ![i] = [tally[r][i] EXCEPT !.ok = @ + 1]]]
    BY <1>1, <1>5 DEF Emit
  <2>2. /\ tally'[r][i] = [tally[r][i] EXCEPT !.ok = @ + 1]
        /\ \A j \in Workers : j # i => tally'[r][j] = tally[r][j]
        /\ \A q \in Requests : q # r => tally'[q] = tally[q]
    BY <1>1, <2>1
  <2> QED BY <1>1, <1>2, <1>3, <1>5, <2>2 DEF Counts
<1> QED BY <1>4, <1>5

\* An output for an input that had none: the worker that had it counts it.
LEMMA PoolEmit ==
    ASSUME PoolInv, NEW r \in Requests, NEW i \in Workers, NEW k \in Keys, NEW o \in Outputs,
           Emit(r, i, k, o), k \in left[r][i], o = Error \/ o.kind = "result",
           wk[r][i] \in {"next", "eval"}, wk'[r][i] \in {"next", "eval"},
           \A j \in Workers : j # i => wk'[r][j] = wk[r][j],
           pc' = pc, total' = total, code' = code
    PROVE  PoolAt(r)'
<1>t. TypeOK
  BY DEF PoolInv, TypeInv
<1>p. InputsAt(r) /\ WorkersAt(r) /\ CountsAt(r) /\ AnswerAt(r)
  BY DEF PoolInv, PoolAt
<1>1. /\ out'[r][k] = o /\ \A l \in Keys : l # k => out'[r][l] = out[r][l]
      /\ left'[r][i] = left[r][i] \ {k}
      /\ \A j \in Workers : j # i => left'[r][j] = left[r][j] /\ tally'[r][j] = tally[r][j]
      /\ o = Error => tally'[r][i].err = tally[r][i].err + 1 /\ tally'[r][i].ok = tally[r][i].ok
      /\ o # Error => tally'[r][i].ok = tally[r][i].ok + 1 /\ tally'[r][i].err = tally[r][i].err
  BY <1>t, EmitEffect
<1>2. pc[r] = "wait" /\ out[r][k] = None /\ k \in Inputs[r] /\ o # None /\ Error.kind # "result"
  BY <1>p DEF WorkersAt, InputsAt, None, Error
<1>3. \A j \in Workers : tally[r][j].err \in Nat /\ tally[r][j].ok \in Nat
  BY <1>t DEF TypeOK, Counts
<1>4. InputsAt(r)'
  <2>1. \A l \in Keys, j \in Workers : l \in left'[r][j] => l \in left[r][j] /\ l # k
    BY <1>1, <1>p DEF InputsAt
  <2>2. \A l \in Inputs[r] : out'[r][l] = None => \E j \in Workers : l \in left'[r][j]
    <3> SUFFICES ASSUME NEW l \in Inputs[r], out'[r][l] = None
                 PROVE  \E j \in Workers : l \in left'[r][j]
      OBVIOUS
    <3>1. l \in Keys
      BY RequestsAssumption
    <3>2. l # k /\ out[r][l] = None
      BY <1>1, <1>2, <3>1
    <3>3. PICK j \in Workers : l \in left[r][j]
      BY <1>p, <1>2, <3>2 DEF InputsAt
    <3> QED BY <1>1, <3>2, <3>3
  <2> QED BY <1>p, <1>1, <1>2, <2>1, <2>2 DEF InputsAt
<1>5. WorkersAt(r)'
  BY <1>p, <1>1, <1>2 DEF WorkersAt
<1>6. CountsAt(r)'
  <2>1. \A l \in Keys : out'[r][l] = None \/ out'[r][l] = Error \/ out'[r][l].kind = "result"
    BY <1>p, <1>1 DEF CountsAt
  <2>2. CASE o = Error
    <3>1. \E l \in Keys : out'[r][l] = Error
      BY <1>1, <2>2
    <3>2. \E j \in Workers : tally'[r][j].err > 0
      BY <1>1, <1>3, <2>2
    <3>3. \A l \in Keys : out'[r][l].kind = "result" <=> out[r][l].kind = "result"
      BY <1>1, <1>2, <2>2 DEF None
    <3>4. \A j \in Workers : tally'[r][j].ok = tally[r][j].ok
      BY <1>1, <2>2
    <3>5. \A j \in Workers : wk'[r][j] = "done" <=> wk[r][j] = "done"
      OBVIOUS
    <3>6. \A j \in Workers : wk'[r][j] = "done" => tally'[r][j] = tally[r][j]
      BY <1>1
    <3>7. total'[r].err > 0 <=> \E j \in Workers : wk'[r][j] = "done" /\ tally'[r][j].err > 0
      BY <1>p, <3>5, <3>6 DEF CountsAt
    <3>8. total'[r].ok > 0 <=> \E j \in Workers : wk'[r][j] = "done" /\ tally'[r][j].ok > 0
      BY <1>p, <3>5, <3>6 DEF CountsAt
    <3>9. (\E l \in Keys : out'[r][l].kind = "result") <=> (\E j \in Workers : tally'[r][j].ok > 0)
      BY <1>p, <3>3, <3>4 DEF CountsAt
    <3> QED BY <2>1, <3>1, <3>2, <3>7, <3>8, <3>9 DEF CountsAt
  <2>3. CASE o # Error
    <3>1. \E l \in Keys : out'[r][l].kind = "result"
      BY <1>1, <2>3
    <3>2. \E j \in Workers : tally'[r][j].ok > 0
      BY <1>1, <1>3, <2>3
    <3>3. \A l \in Keys : out'[r][l] = Error <=> out[r][l] = Error
      BY <1>1, <1>2, <2>3 DEF None, Error
    <3>4. \A j \in Workers : tally'[r][j].err = tally[r][j].err
      BY <1>1, <2>3
    <3>5. \A j \in Workers : wk'[r][j] = "done" <=> wk[r][j] = "done"
      OBVIOUS
    <3>6. \A j \in Workers : wk'[r][j] = "done" => tally'[r][j] = tally[r][j]
      BY <1>1
    <3>7. total'[r].err > 0 <=> \E j \in Workers : wk'[r][j] = "done" /\ tally'[r][j].err > 0
      BY <1>p, <3>5, <3>6 DEF CountsAt
    <3>8. total'[r].ok > 0 <=> \E j \in Workers : wk'[r][j] = "done" /\ tally'[r][j].ok > 0
      BY <1>p, <3>5, <3>6 DEF CountsAt
    <3>9. (\E l \in Keys : out'[r][l] = Error) <=> (\E j \in Workers : tally'[r][j].err > 0)
      BY <1>p, <3>3, <3>4 DEF CountsAt
    <3> QED BY <2>1, <3>1, <3>2, <3>7, <3>8, <3>9 DEF CountsAt
  <2> QED BY <2>2, <2>3
<1>7. AnswerAt(r)'
  BY <1>2 DEF AnswerAt
<1> QED BY <1>4, <1>5, <1>6, <1>7 DEF PoolAt

LEMMA PoolWorker ==
    ASSUME PoolInv, NEW r \in Requests, NEW i \in Workers, WorkerStep(r, i)
    PROVE  PoolInv'
<1>t. TypeInv' /\ TypeOK
  BY TypeWorker DEF PoolInv, TypeInv
<1>s. /\ DOMAIN wk = Requests /\ DOMAIN wk[r] = Workers /\ DOMAIN total = Requests
      /\ \A j \in Workers : tally[r][j].err \in Nat /\ tally[r][j].ok \in Nat
      /\ total[r].err \in Nat /\ total[r].ok \in Nat
  BY <1>t DEF TypeOK, Counts
<1>p. InputsAt(r) /\ WorkersAt(r) /\ CountsAt(r) /\ AnswerAt(r)
  BY DEF PoolInv, PoolAt
<1>1. CASE StartEval(r, i)
  <2>1. /\ wk[r][i] = "next" /\ wk'[r][i] = "eval" /\ \A j \in Workers : j # i => wk'[r][j] = wk[r][j]
        /\ \A q \in Requests : q # r => wk'[q] = wk[q]
        /\ UNCHANGED <<pc, left, out, tally, total, code>>
    BY <1>1, <1>s DEF StartEval
  <2>2. ASSUME NEW q \in Requests, q # r PROVE PoolAt(q)'
    BY <2>1, <2>2, PoolFrame DEF PoolInv
  <2>3. pc[r] = "wait"
    BY <1>p, <2>1 DEF WorkersAt
  <2>4. InputsAt(r)' /\ AnswerAt(r)'
    BY <1>p, <2>1, <2>3 DEF InputsAt, AnswerAt
  <2>5. WorkersAt(r)'
    BY <1>p, <2>1, <2>3 DEF WorkersAt
  <2>6. \A j \in Workers : wk'[r][j] = "done" <=> wk[r][j] = "done"
    BY <2>1
  <2>7. CountsAt(r)'
    BY <1>p, <2>1, <2>6 DEF CountsAt
  <2> QED BY <1>t, <2>2, <2>4, <2>5, <2>7 DEF PoolInv, PoolAt
<1>2. CASE WorkerDone(r, i)
  <2>1. /\ wk[r][i] = "next" /\ wk'[r][i] = "done" /\ \A j \in Workers : j # i => wk'[r][j] = wk[r][j]
        /\ left[r][i] = {}
        /\ total'[r].ok = total[r].ok + tally[r][i].ok /\ total'[r].err = total[r].err + tally[r][i].err
        /\ \A q \in Requests : q # r => wk'[q] = wk[q] /\ total'[q] = total[q]
        /\ UNCHANGED <<pc, left, out, tally, code>>
    BY <1>2, <1>s DEF WorkerDone
  <2>2. ASSUME NEW q \in Requests, q # r PROVE PoolAt(q)'
    BY <2>1, <2>2, PoolFrame DEF PoolInv
  <2>3. pc[r] = "wait"
    BY <1>p, <2>1 DEF WorkersAt
  <2>4. InputsAt(r)' /\ AnswerAt(r)'
    BY <1>p, <2>1, <2>3 DEF InputsAt, AnswerAt
  <2>5. WorkersAt(r)'
    BY <1>p, <2>1, <2>3 DEF WorkersAt
  <2>6. total'[r].err > 0 <=> total[r].err > 0 \/ tally[r][i].err > 0
    BY <1>s, <2>1
  <2>7. total'[r].ok > 0 <=> total[r].ok > 0 \/ tally[r][i].ok > 0
    BY <1>s, <2>1
  <2>8. CountsAt(r)'
    BY <1>p, <2>1, <2>6, <2>7 DEF CountsAt
  <2> QED BY <1>t, <2>2, <2>4, <2>5, <2>8 DEF PoolInv, PoolAt
<1>3. ASSUME NEW k \in Keys, Skip(r, i, k) \/ Eval(r, i, k) PROVE PoolInv'
  <2>1. Error \in Outputs /\ Result(data, query[r]) \in Outputs /\ Result(data, query[r]).kind = "result"
    BY <1>t, SizesAssumption DEF Error, Result, Outputs, Commits, TypeOK
  <2>2. PICK o \in Outputs : Emit(r, i, k, o) /\ (o = Error \/ o.kind = "result")
    BY <1>3, <2>1 DEF Skip, Eval
  <2>3. /\ wk[r][i] \in {"next", "eval"} /\ wk'[r][i] = "next" /\ k \in left[r][i]
        /\ \A j \in Workers : j # i => wk'[r][j] = wk[r][j]
        /\ \A q \in Requests : q # r => wk'[q] = wk[q]
        /\ pc' = pc /\ total' = total /\ code' = code
    BY <1>3, <1>s DEF Skip, Eval
  <2>4. PoolAt(r)'
    BY <2>2, <2>3, PoolEmit
  <2>5. ASSUME NEW q \in Requests, q # r PROVE PoolAt(q)'
    <3>1. out'[q] = out[q] /\ left'[q] = left[q] /\ tally'[q] = tally[q]
      BY <1>t, <2>2, <2>5, EmitEffect
    <3> QED BY <2>3, <2>5, <3>1, PoolFrame DEF PoolInv
  <2> QED BY <1>t, <2>4, <2>5 DEF PoolInv
<1> QED BY <1>1, <1>2, <1>3 DEF WorkerStep

LEMMA PoolStep == PoolInv /\ [Next]_vars => PoolInv'
<1> SUFFICES ASSUME PoolInv, [Next]_vars PROVE PoolInv'
  OBVIOUS
<1>1. CASE UNCHANGED vars
  <2>1. TypeInv'
    BY <1>1, TypeStep DEF PoolInv
  <2>2. ASSUME NEW q \in Requests PROVE PoolAt(q)'
    BY <1>1, PoolFrame DEF vars, PoolInv
  <2> QED BY <2>1, <2>2 DEF PoolInv
<1>2. CASE Next
  BY <1>2, PoolWriter, PoolHandler, PoolWorker DEF Next
<1> QED BY <1>1, <1>2

LEMMA PoolFits == PoolInv => ResponseFits
<1> SUFFICES ASSUME PoolInv, NEW r \in Requests, pc[r] = "done", wk[r] # [i \in Workers |-> "off"]
             PROVE  LET answers == {out[r][k] : k \in Inputs[r]}
                    IN  /\ None \notin answers
                        /\ (code[r] = 200) <=> (Error \notin answers)
                        /\ (code[r] = 500) <=> (answers = {Error})
  BY DEF ResponseFits
<1> DEFINE answers == {out[r][k] : k \in Inputs[r]}
<1>p. InputsAt(r) /\ CountsAt(r) /\ AnswerAt(r) /\ TypeOK
  BY DEF PoolInv, PoolAt, TypeInv
<1>1. /\ \A i \in Workers : wk[r][i] = "done"
      /\ \A k \in Inputs[r] : out[r][k] # None
      /\ code[r] = StatusCode(total[r])
  BY <1>p DEF AnswerAt, Off
<1>2. total[r].err \in Nat /\ total[r].ok \in Nat
  BY <1>p DEF TypeOK, Counts
<1>3. total[r].err > 0 <=> \E k \in Keys : out[r][k] = Error
  BY <1>p, <1>1 DEF CountsAt
<1>4. total[r].ok > 0 <=> \E k \in Keys : out[r][k].kind = "result"
  BY <1>p, <1>1 DEF CountsAt
<1>5. Inputs[r] \subseteq Keys /\ Error # None /\ None.kind # "result" /\ Error.kind # "result"
  BY RequestsAssumption DEF None, Error
<1>6. total[r].err > 0 <=> Error \in answers
  BY <1>3, <1>5, <1>p DEF InputsAt
<1>7. total[r].ok > 0 <=> \E a \in answers : a # Error
  BY <1>1, <1>4, <1>5, <1>p DEF InputsAt, CountsAt
<1>8. (code[r] = 200 <=> ~(total[r].err > 0)) /\ (code[r] = 500 <=> total[r].err > 0 /\ ~(total[r].ok > 0))
  BY <1>1, <1>2 DEF StatusCode
<1>9. answers = {Error} <=> Error \in answers /\ ~\E a \in answers : a # Error
  OBVIOUS
<1> QED BY <1>1, <1>6, <1>7, <1>8, <1>9

\* However the inputs are split among the workers, and in whatever order these
\* finish, fail or are cancelled, the response has an output for every input
\* and its status says whether all, some or none of them failed.
THEOREM ResponsesFit == Spec => []ResponseFits
  BY PoolInit, PoolStep, PoolFits, PTL DEF Spec
=============================================================================
