----------------------------- MODULE ImpactJob -----------------------------
(***************************************************************************)
(* Live impact analysis (pkg/plugins/impact): a job is started over HTTP   *)
(* with a bundle and a duration; sampled evaluations are repeated with the *)
(* job's bundle by a pool of workers, and the results are sent to the HTTP *)
(* handler over an unbuffered channel.  One package-wide mutex guards the  *)
(* current job; a worker takes it once for each thing it asks of the job,  *)
(* and holds it while it sends a result.                                   *)
(***************************************************************************)
EXTENDS Naturals, FiniteSets

CONSTANTS
    Jobs,        \* jobs that are requested
    Evaluations, \* evaluations that are repeated
    NoJob        \* no job

ASSUME ImpactAssumption == NoJob \notin Jobs

VARIABLES
    ijob,      \* the current job (Impact.job)
    imutex,    \* who sends a result under the mutex, as a set of at most one
    jst,       \* a job: new, refused, running, done (context), cleaned, closed
    reader,    \* jobs whose HTTP handler receives results
    wst,       \* where an evaluation is
    wbundle,   \* the job whose bundle it used
    delivered, \* <<job, job of the bundle>> of the results received
    ipanic     \* has a result been sent on a closed channel?

impactVars == <<ijob, imutex, jst, reader, wst, wbundle, delivered, ipanic>>

ImpactInit ==
    /\ ijob = NoJob /\ imutex = {}
    /\ jst = [j \in Jobs |-> "new"]
    /\ reader = {}
    /\ wst = [w \in Evaluations |-> "new"]
    /\ wbundle = [w \in Evaluations |-> NoJob]
    /\ delivered = {} /\ ipanic = FALSE

Free == imutex = {}
To(w, st) == wst' = [wst EXCEPT ![w] = st]

\* POST /v0/impact: only one job at a time.
StartJob(j) ==
    /\ jst[j] = "new" /\ Free
    /\ IF ijob # NoJob
       THEN jst' = [jst EXCEPT ![j] = "refused"] /\ UNCHANGED <<ijob, reader>>
       ELSE /\ ijob' = j /\ jst' = [jst EXCEPT ![j] = "running"]
            /\ reader' = reader \cup {j}
    /\ UNCHANGED <<imutex, wst, wbundle, delivered, ipanic>>

\* The handler cannot write its response any more and returns.
HandlerFails(j) ==
    /\ j \in reader
    /\ reader' = reader \ {j}
    /\ UNCHANGED <<ijob, imutex, jst, wst, wbundle, delivered, ipanic>>

\* The job's context ends: its duration is over or the request is.
ContextDone(j) ==
    /\ jst[j] = "running"
    /\ jst' = [jst EXCEPT ![j] = "done"]
    /\ UNCHANGED <<ijob, imutex, reader, wst, wbundle, delivered, ipanic>>

\* The job's goroutine: cleanup under the mutex, then the channel is closed
\* and the handler's loop ends.
Cleanup(j) ==
    /\ jst[j] = "done" /\ Free
    /\ ijob' = NoJob
    /\ jst' = [jst EXCEPT ![j] = "cleaned"]
    /\ UNCHANGED <<imutex, reader, wst, wbundle, delivered, ipanic>>

\* Faulty variant: the channel may be closed before the job is taken away.
CloseResultsEarly(j) ==
    /\ jst[j] \in {"done", "cleaned"}
    /\ jst' = [jst EXCEPT ![j] = "closed"]
    /\ reader' = reader \ {j}
    /\ UNCHANGED <<ijob, imutex, wst, wbundle, delivered, ipanic>>

CloseResults(j) ==
    /\ jst[j] = "cleaned"
    /\ jst' = [jst EXCEPT ![j] = "closed"]
    /\ reader' = reader \ {j}
    /\ UNCHANGED <<ijob, imutex, wst, wbundle, delivered, ipanic>>

\* Enqueue looks at the job without the mutex.
Enqueue(w) ==
    /\ wst[w] = "new"
    /\ To(w, IF ijob = NoJob THEN "over" ELSE "sample")
    /\ UNCHANGED <<ijob, imutex, jst, reader, wbundle, delivered, ipanic>>

\* Each question to the job takes the mutex and fails without a job.
\* sample: the evaluation may not be picked.
Sample(w) ==
    /\ wst[w] = "sample" /\ Free
    /\ \E picked \in BOOLEAN : To(w, IF ijob # NoJob /\ picked THEN "bundle" ELSE "over")
    /\ UNCHANGED <<ijob, imutex, jst, reader, wbundle, delivered, ipanic>>

\* eval: the bundle, then the second evaluation, which may fail.
TakeBundle(w) ==
    /\ wst[w] = "bundle" /\ Free
    /\ \E evaluated \in BOOLEAN : To(w, IF ijob # NoJob /\ evaluated THEN "compare" ELSE "over")
    /\ wbundle' = [wbundle EXCEPT ![w] = ijob]
    /\ UNCHANGED <<ijob, imutex, jst, reader, delivered, ipanic>>

\* Equal results are published only if the job asks for them.
Compare(w) ==
    /\ wst[w] = "compare" /\ Free
    /\ \E publish \in BOOLEAN : To(w, IF ijob # NoJob /\ publish THEN "publish" ELSE "over")
    /\ UNCHANGED <<ijob, imutex, jst, reader, wbundle, delivered, ipanic>>

\* jobResult holds the mutex while Result selects.
Publish(w) ==
    /\ wst[w] = "publish" /\ Free
    /\ IF ijob = NoJob
       THEN To(w, "over") /\ UNCHANGED imutex
       ELSE To(w, "sending") /\ imutex' = {w}
    /\ UNCHANGED <<ijob, jst, reader, wbundle, delivered, ipanic>>

Send(w) ==
    /\ wst[w] = "sending"
    /\ \/ ijob \in reader /\ delivered' = delivered \cup {<<ijob, wbundle[w]>>} /\ UNCHANGED ipanic
       \/ ijob \in Jobs /\ jst[ijob] = "closed" /\ ipanic' = TRUE /\ UNCHANGED delivered
    /\ To(w, "over") /\ imutex' = {}
    /\ UNCHANGED <<ijob, jst, reader, wbundle>>

\* Faulty variant: the sender waits for the channel's end, not the context's.
GiveUpWhenCleaned(w) ==
    /\ wst[w] = "sending" /\ ijob \in Jobs /\ jst[ijob] = "cleaned"
    /\ To(w, "over") /\ imutex' = {}
    /\ UNCHANGED <<ijob, jst, reader, wbundle, delivered, ipanic>>

GiveUp(w) ==
    /\ wst[w] = "sending" /\ ijob \in Jobs /\ jst[ijob] # "running"
    /\ To(w, "over") /\ imutex' = {}
    /\ UNCHANGED <<ijob, jst, reader, wbundle, delivered, ipanic>>

EvaluationStep(w) == Enqueue(w) \/ Sample(w) \/ TakeBundle(w) \/ Compare(w) \/ Publish(w) \/ Send(w) \/ GiveUp(w)

ImpactNext ==
    \/ \E j \in Jobs : StartJob(j) \/ HandlerFails(j) \/ ContextDone(j) \/ Cleanup(j) \/ CloseResults(j)
    \/ \E w \in Evaluations : EvaluationStep(w)

\* A job's timeout fires, goroutines run and the mutex is not withheld from
\* a waiter forever (Go's starvation mode).
ImpactFairness ==
    /\ \A j \in Jobs : /\ WF_impactVars(ContextDone(j)) /\ SF_impactVars(Cleanup(j))
                       /\ WF_impactVars(CloseResults(j))
    /\ \A w \in Evaluations : WF_impactVars(Send(w) \/ GiveUp(w))

ImpactSpec == ImpactInit /\ [][ImpactNext]_impactVars /\ ImpactFairness
-----------------------------------------------------------------------------
(* Properties.                                                             *)

ImpactTypeOK ==
    /\ ijob \in Jobs \cup {NoJob} /\ imutex \subseteq Evaluations
    /\ jst \in [Jobs -> {"new", "refused", "running", "done", "cleaned", "closed"}]
    /\ reader \subseteq Jobs
    /\ wst \in [Evaluations -> {"new", "sample", "bundle", "compare", "publish", "sending", "over"}]
    /\ wbundle \in [Evaluations -> Jobs \cup {NoJob}]
    /\ delivered \subseteq Jobs \X Jobs /\ ipanic \in BOOLEAN

\* No result is sent on a channel that its job has closed: cleanup takes the
\* job away under the mutex before the channel is closed.
NeverSendsOnClosed == ~ipanic

\* A result is received by another job than the one whose bundle produced it
\* only when that one is over: two jobs never collect results together.
ForeignResultsOnlyAfterEnd ==
    \A d \in delivered : d[1] # d[2] => jst[d[2]] \in {"cleaned", "closed"}

\* Both together: a result reaches a job that can still take it.
ImpactSafety == NeverSendsOnClosed /\ ForeignResultsOnlyAfterEnd

\* A job whose context has ended gets rid of its channel, although the mutex
\* that cleanup needs may be held by a worker that waits for a receiver.
JobsEnd == \A j \in Jobs : (jst[j] = "done") ~> (jst[j] = "closed")
=============================================================================
