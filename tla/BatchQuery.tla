----------------------------- MODULE BatchQuery -----------------------------
(***************************************************************************)
(* The Batch Query API, pkg/batchquery: a request is one handler that      *)
(* reads the bundle revisions, finds or builds a prepared query, lets a    *)
(* pool of workers evaluate the inputs and assembles their outputs.  The   *)
(* handler and every evaluation open a read transaction of their own on    *)
(* the store; a writer commits new data and policies meanwhile.            *)
(*                                                                         *)
(* The store is its reader-writer lock (rmu of module InmemStore; the      *)
(* virtual store in front of it opens the transaction, and so takes the    *)
(* lock, at the first read) and the number of commits it has seen: each    *)
(* commit changes the data, the bundle revisions and the policies.         *)
(***************************************************************************)
EXTENDS Integers, Sequences, FiniteSets, RWMutex

CONSTANTS
    Requests,    \* batch requests, served concurrently
    Keys,        \* the keys of inputs
    Inputs,      \* per request, the keys of its inputs
    Paths, Path, \* URL paths, and the path of a request
    NumWorkers,  \* runtime.GOMAXPROCS(0)
    CacheSize,   \* pqMaxCacheSize
    MaxCommits   \* bound: commits of the writer

ASSUME RequestsAssumption ==
    /\ Inputs \in [Requests -> SUBSET Keys]
    /\ Path \in [Requests -> Paths]
    /\ \A r \in Requests : IsFiniteSet(Inputs[r])
    /\ "writer" \notin Requests

ASSUME SizesAssumption ==
    /\ NumWorkers \in Nat \ {0}
    /\ CacheSize \in Nat \ {0}
    /\ MaxCommits \in Nat

Workers == 1..NumWorkers

\* The holders of the lock: a handler is worker 0 of its request, and one
\* goroutine writes to the store.
Handler(r)   == <<r, 0>>
Worker(r, i) == <<r, i>>
Writer       == <<"writer", 0>>
Holders      == (Requests \X (0..NumWorkers)) \cup {Writer}

VARIABLES
    data, compiler,  \* the last commit in the store, and the one compiled
    rmu, wpc,        \* the lock of the store; where the writer is
    cache,           \* prepared queries, the least recently used first
    pc, wk,          \* where handlers and workers are
    cancelled,       \* requests whose context has been cancelled
    snap, query,     \* the commit a request reports; its prepared query
    left,            \* per worker, the inputs it has still to evaluate
    out,             \* per request and key, the output
    tally,           \* per worker, resultCount and errCount
    total,           \* resultsCounter and errCounter
    code             \* the HTTP status of the response

vars == <<data, compiler, rmu, wpc, cache, pc, wk, cancelled, snap, query,
          left, out, tally, total, code>>

store == <<data, compiler, wpc>>
pool  == <<wk, left, out, tally, total>>

Commits == 0..MaxCommits

\* What the response holds for a key: nothing yet, an error, or the result
\* of some policies on some data.
Outputs == [kind : {"none", "error", "result"}, data : Commits, policy : Commits]
None    == [kind |-> "none",  data |-> 0, policy |-> 0]
Error   == [kind |-> "error", data |-> 0, policy |-> 0]
Result(d, p) == [kind |-> "result", data |-> d, policy |-> p]

Counts  == [ok : Nat, err : Nat]

TypeOK ==
    /\ data \in Commits
    /\ compiler \in Commits
    /\ rmu \in RWLocks(Holders)
    /\ wpc \in {"idle", "lock", "compile"}
    /\ cache \in Seq([path : Paths, policy : Commits])
    /\ pc \in [Requests -> {"idle", "open", "lookup", "build", "wait", "done"}]
    /\ wk \in [Requests -> [Workers -> {"off", "next", "eval", "done"}]]
    /\ cancelled \subseteq Requests
    /\ snap \in [Requests -> Commits]
    /\ query \in [Requests -> Commits]
    /\ left \in [Requests -> [Workers -> SUBSET Keys]]
    /\ out \in [Requests -> [Keys -> Outputs]]
    /\ tally \in [Requests -> [Workers -> Counts]]
    /\ total \in [Requests -> Counts]
    /\ code \in [Requests -> {0, 200, 207, 400, 500}]

Init ==
    /\ data = 0
    /\ compiler = 0
    /\ rmu = RWUnlocked
    /\ wpc = "idle"
    /\ cache = <<>>
    /\ pc = [r \in Requests |-> "idle"]
    /\ wk = [r \in Requests |-> [i \in Workers |-> "off"]]
    /\ cancelled = {}
    /\ snap = [r \in Requests |-> 0]
    /\ query = [r \in Requests |-> 0]
    /\ left = [r \in Requests |-> [i \in Workers |-> {}]]
    /\ out = [r \in Requests |-> [k \in Keys |-> None]]
    /\ tally = [r \in Requests |-> [i \in Workers |-> [ok |-> 0, err |-> 0]]]
    /\ total = [r \in Requests |-> [ok |-> 0, err |-> 0]]
    /\ code = [r \in Requests |-> 0]

-----------------------------------------------------------------------------
(* The writer: a commit takes the lock, applies the log and calls the      *)
(* trigger with which the plugin manager replaces the compiler.            *)

CommitWrite ==
    /\ wpc = "idle"
    /\ data < MaxCommits
    /\ wpc' = "lock"
    /\ rmu' = Lock(rmu, Writer)
    /\ UNCHANGED <<data, compiler, cache, pc, pool, cancelled, snap, query, code>>

Install ==
    /\ wpc = "lock"
    /\ Writer \in rmu.writer
    /\ wpc' = "compile"
    /\ data' = data + 1
    /\ UNCHANGED <<compiler, rmu, cache, pc, pool, cancelled, snap, query, code>>

Recompile ==
    /\ wpc = "compile"
    /\ wpc' = "idle"
    /\ compiler' = data
    /\ rmu' = Unlock(rmu)
    /\ UNCHANGED <<data, cache, pc, pool, cancelled, snap, query, code>>

-----------------------------------------------------------------------------
(* The handler, up to the start of the pool. *)

\* chunks: the number of inputs of worker i, of n inputs in all.
Chunk(n, i) == (n \div NumWorkers) + (IF i <= n % NumWorkers THEN 1 ELSE 0)

\* readInputBatchPostV1 gives every input to one worker, in the random order
\* in which a map is iterated.
Split(r) ==
    {s \in [Workers -> SUBSET Inputs[r]] :
       /\ \A k \in Inputs[r] : \E i \in Workers :
            k \in s[i] /\ \A j \in Workers \ {i} : k \notin s[j]
       /\ \A i \in Workers : Cardinality(s[i]) = Chunk(Cardinality(Inputs[r]), i)}

\* The handler opens its transaction and begins to read the revisions.
ServeHTTP(r) ==
    /\ pc[r] = "idle"
    /\ pc' = [pc EXCEPT ![r] = "open"]
    /\ \E s \in Split(r) : left' = [left EXCEPT ![r] = s]
    /\ rmu' = RLock(rmu, Handler(r))
    /\ UNCHANGED <<store, cache, wk, out, tally, total, cancelled, snap, query, code>>

BadRequest(r) ==
    /\ pc[r] = "idle"
    /\ pc' = [pc EXCEPT ![r] = "done"]
    /\ code' = [code EXCEPT ![r] = 400]
    /\ UNCHANGED <<store, rmu, cache, pool, cancelled, snap, query>>

\* Faulty variant: the transaction is closed as soon as it has been read.
GetRevisionsAborts(r) ==
    /\ pc[r] = "open"
    /\ Handler(r) \in rmu.held
    /\ snap' = [snap EXCEPT ![r] = data]
    /\ pc' = [pc EXCEPT ![r] = "lookup"]
    /\ rmu' = RUnlock(rmu, Handler(r))
    /\ UNCHANGED <<store, cache, pool, cancelled, query, code>>

\* getRevisions
GetRevisions(r) ==
    /\ pc[r] = "open"
    /\ Handler(r) \in rmu.held
    /\ snap' = [snap EXCEPT ![r] = data]
    /\ pc' = [pc EXCEPT ![r] = "lookup"]
    /\ UNCHANGED <<store, rmu, cache, pool, cancelled, query, code>>

\* ensurePreparedEvalQueryIsCached: a path has at most one entry, which a hit
\* or a new query moves to the end.
Entries(p) == {n \in DOMAIN cache : cache[n].path = p}
Cached(p)  == {cache[n].policy : n \in Entries(p)}
Others(p)  ==
    LET n == CHOOSE m \in Entries(p) : TRUE
    IN  IF Entries(p) = {} THEN cache
        ELSE SubSeq(cache, 1, n - 1) \o SubSeq(cache, n + 1, Len(cache))

\* The workers start with the prepared query q.
StartPool(r, q) ==
    /\ query' = [query EXCEPT ![r] = q]
    /\ pc' = [pc EXCEPT ![r] = "wait"]
    /\ wk' = [wk EXCEPT ![r] = [i \in Workers |-> "next"]]

CacheHit(r) ==
    /\ pc[r] = "lookup"
    /\ \E q \in Cached(Path[r]) :
         /\ StartPool(r, q)
         /\ cache' = Append(Others(Path[r]), [path |-> Path[r], policy |-> q])
    /\ UNCHANGED <<store, rmu, left, out, tally, total, cancelled, snap, code>>

CacheMiss(r) ==
    /\ pc[r] = "lookup"
    /\ Cached(Path[r]) = {}
    /\ pc' = [pc EXCEPT ![r] = "build"]
    /\ UNCHANGED <<store, rmu, cache, pool, cancelled, snap, query, code>>

\* PrepareForEval, with the compiler of the plugin manager; the cache drops
\* the least recently used query.
Build(r) ==
    /\ pc[r] = "build"
    /\ StartPool(r, compiler)
    /\ LET c == Append(Others(Path[r]), [path |-> Path[r], policy |-> compiler])
       IN  cache' = IF Len(c) > CacheSize THEN Tail(c) ELSE c
    /\ UNCHANGED <<store, rmu, left, out, tally, total, cancelled, snap, code>>

BuildFails(r) ==
    /\ pc[r] = "build"
    /\ pc' = [pc EXCEPT ![r] = "done"]
    /\ code' = [code EXCEPT ![r] = 500]
    /\ rmu' = RUnlock(rmu, Handler(r))
    /\ UNCHANGED <<store, cache, pool, cancelled, snap, query>>

\* The client goes away.
Cancel(r) ==
    /\ pc[r] \notin {"idle", "done"}
    /\ r \notin cancelled
    /\ cancelled' = cancelled \cup {r}
    /\ UNCHANGED <<store, rmu, cache, pc, pool, snap, query, code>>

-----------------------------------------------------------------------------
(* The workers. *)

\* Every input gives one output, at the place of its key.
Emit(r, i, k, o) ==
    /\ out' = [out EXCEPT ![r][k] = o]
    /\ left' = [left EXCEPT ![r][i] = @ \ {k}]
    /\ tally' = IF o = Error THEN [tally EXCEPT ![r][i].err = @ + 1]
                             ELSE [tally EXCEPT ![r][i].ok  = @ + 1]

\* Faulty variant: a cancelled worker returns, without wg.Done.
SkipReturns(r, i, k) ==
    /\ wk[r][i] = "next"
    /\ k \in left[r][i]
    /\ r \in cancelled
    /\ wk' = [wk EXCEPT ![r][i] = "off"]
    /\ Emit(r, i, k, Error)
    /\ UNCHANGED <<store, rmu, cache, pc, total, cancelled, snap, query, code>>

\* Before each input the worker looks whether the pool has been cancelled;
\* if not it opens a transaction and evaluates.
Skip(r, i, k) ==
    /\ wk[r][i] = "next"
    /\ k \in left[r][i]
    /\ r \in cancelled
    /\ Emit(r, i, k, Error)
    /\ UNCHANGED <<store, rmu, cache, pc, wk, total, cancelled, snap, query, code>>

StartEval(r, i) ==
    /\ wk[r][i] = "next"
    /\ left[r][i] # {}
    /\ r \notin cancelled
    /\ wk' = [wk EXCEPT ![r][i] = "eval"]
    /\ rmu' = RLock(rmu, Worker(r, i))
    /\ UNCHANGED <<store, cache, pc, left, out, tally, total, cancelled, snap, query, code>>

\* evalInputSinglePreparedQuery gives a result or an error (of the policy,
\* of the decision log, or because it was cancelled); Abort either way.
Eval(r, i, k) ==
    /\ wk[r][i] = "eval"
    /\ Worker(r, i) \in rmu.held
    /\ k \in left[r][i]
    /\ \E o \in {Error, Result(data, query[r])} : Emit(r, i, k, o)
    /\ wk' = [wk EXCEPT ![r][i] = "next"]
    /\ rmu' = RUnlock(rmu, Worker(r, i))
    /\ UNCHANGED <<store, cache, pc, total, cancelled, snap, query, code>>

\* Faulty variant: the counters of the request are set, not added to.
WorkerDoneSets(r, i) ==
    /\ wk[r][i] = "next"
    /\ left[r][i] = {}
    /\ wk' = [wk EXCEPT ![r][i] = "done"]
    /\ total' = [total EXCEPT ![r] = tally[r][i]]
    /\ UNCHANGED <<store, rmu, cache, pc, left, out, tally, cancelled, snap, query, code>>

\* A worker without inputs adds up its counts and leaves the wait group.
WorkerDone(r, i) ==
    /\ wk[r][i] = "next"
    /\ left[r][i] = {}
    /\ wk' = [wk EXCEPT ![r][i] = "done"]
    /\ total' = [total EXCEPT ![r] = [ok  |-> @.ok  + tally[r][i].ok,
                                      err |-> @.err + tally[r][i].err]]
    /\ UNCHANGED <<store, rmu, cache, pc, left, out, tally, cancelled, snap, query, code>>

\* Faulty variant: a wrong code for mixed results.
StatusCodePartial(n) ==
    IF n.err > 0 /\ n.ok > 0 THEN 206 ELSE IF n.err > 0 THEN 500 ELSE 200

StatusCode(n) ==
    CASE n.err = 0 /\ n.ok > 0 -> 200
      [] n.err > 0 /\ n.ok > 0 -> 207
      [] n.err > 0 /\ n.ok = 0 -> 500
      [] OTHER                 -> 200

\* wg.Wait returns: the response is written, and the deferred call aborts
\* the transaction of the handler.
Respond(r) ==
    /\ pc[r] = "wait"
    /\ \A i \in Workers : wk[r][i] = "done"
    /\ code' = [code EXCEPT ![r] = StatusCode(total[r])]
    /\ pc' = [pc EXCEPT ![r] = "done"]
    /\ rmu' = RUnlock(rmu, Handler(r))
    /\ UNCHANGED <<store, cache, pool, cancelled, snap, query>>

-----------------------------------------------------------------------------

WriterStep == CommitWrite \/ Install \/ Recompile

HandlerStep(r) ==
    GetRevisions(r) \/ CacheHit(r) \/ CacheMiss(r) \/ Build(r) \/ BuildFails(r) \/ Respond(r)

WorkerStep(r, i) ==
    \/ StartEval(r, i)
    \/ WorkerDone(r, i)
    \/ \E k \in Keys : Skip(r, i, k) \/ Eval(r, i, k)

Next ==
    \/ WriterStep
    \/ \E r \in Requests :
         \/ ServeHTTP(r) \/ BadRequest(r) \/ Cancel(r)
         \/ HandlerStep(r)
         \/ \E i \in Workers : WorkerStep(r, i)

Spec == Init /\ [][Next]_vars

\* Goroutines that can go on do so; evaluations end.
Fairness ==
    /\ WF_vars(Install \/ Recompile)
    /\ \A r \in Requests :
         /\ WF_vars(HandlerStep(r))
         /\ \A i \in Workers : WF_vars(WorkerStep(r, i))

LiveSpec == Spec /\ Fairness

-----------------------------------------------------------------------------
(* Properties. *)

\* All results of a batch are taken from the state of the store that its
\* revisions describe, although every evaluation opens a transaction of its
\* own and a writer commits between them: the deferred Abort of the first
\* transaction (handler.go:204) keeps commits out until the response.
BatchSnapshot ==
    \A r \in Requests, k \in Keys :
        out[r][k].kind = "result" => out[r][k].data = snap[r]

\* "200: Each batched query returned a 200; 207: ... a mix of other codes;
\* 500: Each batched query returned a 500", and the responses are keyed as
\* the request (batch-api.md): whatever the order in which workers finish
\* or are cancelled, the code fits the responses and no key is missing.
ResponseFits ==
    \A r \in Requests :
        LET answers == {out[r][k] : k \in Inputs[r]}
        IN  pc[r] = "done" /\ wk[r] # [i \in Workers |-> "off"] =>
              /\ None \notin answers
              /\ (code[r] = 200) <=> (Error \notin answers)
              /\ (code[r] = 500) <=> (answers = {Error})

\* A batch is answered, unless it is overtaken by a commit: errors and
\* cancellation leave no worker behind.
AnsweredWithoutWriter ==
    [](wpc = "idle") =>
        \A r \in Requests : pc[r] # "idle" ~> pc[r] = "done"

\* A batch is answered ("an endpoint for executing multiple policy
\* evaluations in a single request"), whoever else uses the store.
BatchAnswered ==
    \A r \in Requests : pc[r] # "idle" ~> pc[r] = "done"

\* The result is "the result of evaluating the policy with the given input":
\* the policy that was in the store when the batch was served.
PolicyIsCurrent ==
    \A r \in Requests, k \in Keys :
        out[r][k].kind = "result" => out[r][k].policy = snap[r]
=============================================================================
