--------------------------- MODULE ServicesProofs ---------------------------
(***************************************************************************)
(* Proofs about ImpactJob, for any set of jobs and of evaluations, about   *)
(* DecisionLogger, for any configurations, policies and events, and about  *)
(* BundleActivator, for any bundles, clients and orders of activation.     *)
(***************************************************************************)
EXTENDS ImpactJob, DecisionLogger, BundleActivator, FiniteSetTheorems, WellFoundedInduction, TLAPS

\* A worker holds the mutex exactly while it sends, and it is the only one.
MutexInv ==
    /\ \A w \in Evaluations : wst[w] = "sending" <=> w \in imutex
    /\ \A w, v \in imutex : w = v

\* The current job is the one whose cleanup has not run, and a worker that
\* sends under the mutex keeps it from running.
JobInv ==
    /\ \A j \in Jobs : jst[j] \in {"running", "done"} <=> ijob = j
    /\ \A w \in Evaluations : wst[w] = "sending" => ijob \in Jobs

\* A bundle comes from a job that was started, and an evaluation that got as
\* far as comparing has one.
BundleInv ==
    /\ \A w \in Evaluations : wst[w] \in {"compare", "publish", "sending"} => wbundle[w] \in Jobs
    /\ \A w \in Evaluations : wbundle[w] \in Jobs =>
          jst[wbundle[w]] \in {"running", "done", "cleaned", "closed"}

IImpact == ImpactTypeOK /\ MutexInv /\ JobInv /\ BundleInv /\ ImpactSafety

LEMMA ImpactInitially == ImpactInit => IImpact
  BY ImpactAssumption
  DEF ImpactInit, IImpact, ImpactTypeOK, MutexInv, JobInv, BundleInv,
      ImpactSafety, NeverSendsOnClosed, ForeignResultsOnlyAfterEnd

\* The steps of a job: they end it in the order running, done, cleaned, closed.
LEMMA JobStepKeeps ==
  ASSUME IImpact, NEW j \in Jobs,
         StartJob(j) \/ HandlerFails(j) \/ ContextDone(j) \/ Cleanup(j) \/ CloseResults(j)
  PROVE  IImpact'
<1> USE ImpactAssumption
       DEF IImpact, ImpactTypeOK, MutexInv, JobInv, BundleInv,
           ImpactSafety, NeverSendsOnClosed, ForeignResultsOnlyAfterEnd, Free
<1>1. CASE StartJob(j)
  <2>1. CASE ijob = NoJob
    BY <1>1, <2>1 DEF StartJob
  <2>2. CASE ijob # NoJob
    BY <1>1, <2>2 DEF StartJob
  <2> QED BY <2>1, <2>2
<1>2. CASE HandlerFails(j) BY <1>2 DEF HandlerFails
<1>3. CASE ContextDone(j) BY <1>3 DEF ContextDone
<1>4. CASE Cleanup(j) BY <1>4 DEF Cleanup
<1>5. CASE CloseResults(j) BY <1>5 DEF CloseResults
<1> QED BY <1>1, <1>2, <1>3, <1>4, <1>5

\* The steps of a worker before it has the mutex, and after it gave up.
LEMMA EvaluationStepKeeps ==
  ASSUME IImpact, NEW w \in Evaluations, EvaluationStep(w)
  PROVE  IImpact'
<1> USE ImpactAssumption
       DEF IImpact, ImpactTypeOK, MutexInv, JobInv, BundleInv,
           ImpactSafety, NeverSendsOnClosed, ForeignResultsOnlyAfterEnd, Free, To
<1>1. CASE Enqueue(w) BY <1>1 DEF Enqueue
<1>2. CASE Sample(w) BY <1>2 DEF Sample
<1>3. CASE TakeBundle(w) BY <1>3 DEF TakeBundle
<1>4. CASE Compare(w) BY <1>4 DEF Compare
<1>5. CASE Publish(w) BY <1>5 DEF Publish
<1>6. CASE Send(w)
  <2>1. /\ ijob \in Jobs /\ wbundle[w] \in Jobs /\ jst[ijob] # "closed"
        /\ wbundle[w] # ijob => jst[wbundle[w]] \in {"cleaned", "closed"}
    BY <1>6 DEF Send
  <2>2. delivered' = delivered \cup {<<ijob, wbundle[w]>>} /\ ipanic' = ipanic
    BY <1>6, <2>1 DEF Send
  <2> QED BY <1>6, <2>1, <2>2 DEF Send
<1>7. CASE GiveUp(w) BY <1>7 DEF GiveUp
<1> QED BY <1>1, <1>2, <1>3, <1>4, <1>5, <1>6, <1>7 DEF EvaluationStep

\* No evaluation sends a result on a closed channel, and a job receives results
\* computed with another job's bundle only after that job's cleanup, however
\* many jobs follow one another and however the workers' questions to "the
\* current job" interleave with their ends (plugin.go, jobResult and cleanup).
THEOREM ResultsReachTheirJob == ImpactSpec => []ImpactSafety
<1>1. IImpact /\ [ImpactNext]_impactVars => IImpact'
  <2> SUFFICES ASSUME IImpact, [ImpactNext]_impactVars PROVE IImpact'
    OBVIOUS
  <2>1. CASE UNCHANGED impactVars
    BY <2>1 DEF impactVars, IImpact, ImpactTypeOK, MutexInv, JobInv, BundleInv,
        ImpactSafety, NeverSendsOnClosed, ForeignResultsOnlyAfterEnd
  <2>2. CASE ImpactNext
    BY <2>2, JobStepKeeps, EvaluationStepKeeps DEF ImpactNext
  <2> QED BY <2>1, <2>2
<1>2. IImpact => ImpactSafety
  BY DEF IImpact
<1> QED BY ImpactInitially, <1>1, <1>2, PTL DEF ImpactSpec

-----------------------------------------------------------------------------
(* Induction, in the form the provers can use: over a set of numbers.      *)

LEMMA Induction ==
  ASSUME NEW S, 0 \in S, \A n \in Nat : n \in S => n + 1 \in S
  PROVE  Nat \subseteq S
<1> DEFINE T == Nat \ S
<1> SUFFICES ASSUME T # {} PROVE FALSE
  OBVIOUS
<1>1. PICK x \in T : \A y \in T : ~(<<y, x>> \in OpToRel(<, Nat))
  BY WFMin, NatLessThanWellFounded
<1>2. x # 0 /\ x - 1 \in Nat /\ x - 1 < x
  OBVIOUS
<1>3. x - 1 \in S
  BY <1>1, <1>2 DEF OpToRel
<1> QED BY <1>2, <1>3

LEMMA AlongList ==
  ASSUME NEW n \in Nat, NEW K, 0 \in K, \A k \in 1 .. n : k - 1 \in K => k \in K
  PROVE  0 .. n \subseteq K
<1> DEFINE S == {k \in Nat : k <= n => k \in K}
<1>1. 0 \in S
  OBVIOUS
<1>2. ASSUME NEW k \in Nat, k \in S PROVE k + 1 \in S
  <2> SUFFICES ASSUME k + 1 <= n PROVE k + 1 \in K
    OBVIOUS
  <2>1. k + 1 \in 1 .. n /\ (k + 1) - 1 = k /\ k \in K
    BY <1>2
  <2> QED BY <2>1
<1> HIDE DEF S
<1>3. Nat \subseteq S
  BY <1>1, <1>2, Induction
<1> QED BY <1>3 DEF S

\* A function that is defined by recursion over a list exists: base is what it
\* starts with, and step[k] leads from the value at k - 1 to the one at k.
Runs(f, V, base, n, step) ==
    f \in [0 .. n -> V] /\ f[0] = base /\ \A k \in 1 .. n : f[k] = step[k][f[k - 1]]
LEMMA Recursion ==
  ASSUME NEW V, NEW base \in V, NEW n \in Nat, NEW step, \A k \in 1 .. n : \A v \in V : step[k][v] \in V
  PROVE  \E f : Runs(f, V, base, n, step)
<1> DEFINE UpTo(m, f) == f[0] = base /\ \A k \in 1 .. m : f[k] = step[k][f[k - 1]]
           S == {m \in Nat : m <= n => \E f \in [0 .. m -> V] : UpTo(m, f)}
<1>1. 0 \in S
  <2>1. [k \in 0 .. 0 |-> base] \in [0 .. 0 -> V] /\ UpTo(0, [k \in 0 .. 0 |-> base])
    OBVIOUS
  <2> QED BY <2>1
<1>2. ASSUME NEW m \in Nat, m \in S PROVE m + 1 \in S
  <2> SUFFICES ASSUME m + 1 <= n PROVE \E f \in [0 .. m + 1 -> V] : UpTo(m + 1, f)
    OBVIOUS
  <2>1. PICK f \in [0 .. m -> V] : UpTo(m, f)
    BY <1>2
  <2> DEFINE g == [k \in 0 .. m + 1 |-> IF k = m + 1 THEN step[m + 1][f[m]] ELSE f[k]]
  <2>2. m \in 0 .. m /\ m + 1 \in 1 .. n
    OBVIOUS
  <2>3. step[m + 1][f[m]] \in V
    BY <2>2
  <2>4. g \in [0 .. m + 1 -> V]
    BY <2>3
  <2>5. g[0] = base /\ g[m + 1] = step[m + 1][f[m]] /\ g[m] = f[m]
    BY <2>1
  <2>6. ASSUME NEW k \in 1 .. m PROVE g[k] = step[k][g[k - 1]]
    <3>1. g[k] = f[k] /\ g[k - 1] = f[k - 1]
      OBVIOUS
    <3> QED BY <3>1, <2>1
  <2>7. g[m + 1] = step[m + 1][g[(m + 1) - 1]]
    BY <2>5
  <2> HIDE DEF g
  <2>8. UpTo(m + 1, g)
    BY <2>5, <2>6, <2>7
  <2> QED BY <2>4, <2>8
<1> HIDE DEF S
<1>3. n \in S
  BY <1>1, <1>2, Induction
<1> QED BY <1>3 DEF S, Runs

-----------------------------------------------------------------------------
(* What Start counts is what the stream constructs.                        *)

Procs == Nat \X {"dl_drop", "dl_mask"}

LEMMA OwnFacts ==
  ASSUME NEW i \in Nat, NEW o
  PROVE  /\ OwnProcessors(i, o) \in Seq(Procs) /\ Len(OwnProcessors(i, o)) = NumOutputProcessors(o)
         /\ NumOutputProcessors(o) \in Nat
         /\ \A p \in ToSet(Extra(o)) : <<i, p>> \in ToSet(OwnProcessors(i, o))
<1>1. Extra(o) \in Seq({"dl_drop", "dl_mask"}) /\ Len(Extra(o)) = NumOutputProcessors(o)
  <2>1. CASE o.kind = "experimental"
    BY <2>1 DEF Extra, NumOutputProcessors
  <2>2. CASE o.kind # "experimental"
    <3> DEFINE d == IF o.drop THEN <<"dl_drop">> ELSE << >>
               m == IF o.mask THEN <<"dl_mask">> ELSE << >>
               x == IF o.drop THEN 1 ELSE 0
               y == IF o.mask THEN 1 ELSE 0
    <3>1. d \in Seq({"dl_drop", "dl_mask"}) /\ Len(d) = x /\ x \in Nat
      <4>1. CASE o.drop
        BY <4>1
      <4>2. CASE ~o.drop
        BY <4>2
      <4> QED BY <4>1, <4>2
    <3>2. m \in Seq({"dl_drop", "dl_mask"}) /\ Len(m) = y /\ y \in Nat
      <4>1. CASE o.mask
        BY <4>1
      <4>2. CASE ~o.mask
        BY <4>2
      <4> QED BY <4>1, <4>2
    <3>0. NumOutputProcessors(o) = y + x
      BY <2>2 DEF NumOutputProcessors
    <3>3. Extra(o) = d \o m
      BY <2>2 DEF Extra
    <3> HIDE DEF d, m, x, y
    <3>4. Len(Extra(o)) = Len(d) + Len(m) /\ Extra(o) \in Seq({"dl_drop", "dl_mask"})
      BY <3>1, <3>2, <3>3
    <3> QED BY <3>0, <3>1, <3>2, <3>4
  <2> QED BY <2>1, <2>2
<1> DEFINE x == Extra(o)
<1>2. OwnProcessors(i, o) = [k \in DOMAIN x |-> <<i, x[k]>>]
  BY DEF OwnProcessors
<1>3. x \in Seq({"dl_drop", "dl_mask"}) /\ Len(x) = NumOutputProcessors(o) /\ DOMAIN x = 1 .. Len(x) /\ Len(x) \in Nat
  BY <1>1
<1> HIDE DEF x
<1>4. OwnProcessors(i, o) \in Seq(Procs) /\ Len(OwnProcessors(i, o)) = Len(x)
  BY <1>2, <1>3 DEF Procs
<1>5. \A p \in ToSet(x) : <<i, p>> \in ToSet(OwnProcessors(i, o))
  BY <1>2, <1>3 DEF ToSet
<1> QED BY <1>3, <1>4, <1>5 DEF x

\* The two recursions, unfolded.
LEMMA CountFacts ==
  ASSUME NEW S, NEW outs \in Seq(S)
  PROVE  /\ CountUpTo(outs) \in [0 .. Len(outs) -> Nat] /\ CountUpTo(outs)[0] = 0
         /\ \A k \in 1 .. Len(outs) : CountUpTo(outs)[k] = CountUpTo(outs)[k - 1] + NumOutputProcessors(outs[k])
<1> DEFINE n == Len(outs)
           Rec(f) == [k \in 0 .. n |-> IF k = 0 THEN 0 ELSE f[k - 1] + NumOutputProcessors(outs[k])]
           step == [k \in 1 .. n |-> [v \in Nat |-> v + NumOutputProcessors(outs[k])]]
<1>1. n \in Nat /\ \A k \in 1 .. n : NumOutputProcessors(outs[k]) \in Nat
  BY OwnFacts
<1>2. step \in [1 .. n -> [Nat -> Nat]]
  BY <1>1
<1>3. PICK f \in [0 .. n -> Nat] : f[0] = 0 /\ \A k \in 1 .. n : f[k] = step[k][f[k - 1]]
  <2>1. PICK V, b : V = Nat /\ b = 0
    OBVIOUS
  <2>2. b \in V /\ n \in Nat /\ \A k \in 1 .. n : \A v \in V : step[k][v] \in V
    BY <1>1, <1>2, <2>1
  <2> HIDE DEF step, n
  <2>3. \E f : Runs(f, V, b, n, step)
    BY <2>2, Recursion
  <2> QED BY <2>1, <2>3 DEF Runs
<1>4. ASSUME NEW k \in 1 .. n PROVE f[k] = f[k - 1] + NumOutputProcessors(outs[k])
  <2>1. f[k - 1] \in Nat
    BY <1>1
  <2> QED BY <2>1, <1>3
<1>5. f = Rec(f)
  BY <1>1, <1>3, <1>4
<1>6. CountUpTo(outs) = CHOOSE g : g = Rec(g)
  BY DEF CountUpTo
<1> DEFINE g == CountUpTo(outs)
<1>7. g = Rec(g)
  BY <1>5, <1>6
<1> HIDE DEF g
<1>8. /\ DOMAIN g = 0 .. n /\ g[0] = 0 /\ g = [k \in 0 .. n |-> g[k]]
      /\ \A k \in 1 .. n : g[k] = g[k - 1] + NumOutputProcessors(outs[k])
  BY <1>1, <1>7
<1> DEFINE T == {k \in 0 .. n : g[k] \in Nat}
<1>9. \A k \in 0 .. n : g[k] \in Nat
  <2>1. 0 \in T
    BY <1>1, <1>8
  <2>2. ASSUME NEW k \in 1 .. n, k - 1 \in T PROVE k \in T
    <3>1. g[k - 1] \in Nat /\ NumOutputProcessors(outs[k]) \in Nat /\ g[k] = g[k - 1] + NumOutputProcessors(outs[k])
      BY <1>1, <1>8, <2>2
    <3>2. k \in 0 .. n
      BY <1>1
    <3> QED BY <3>1, <3>2
  <2>3. 0 .. n \subseteq T
    <3> HIDE DEF T, n
    <3> QED BY <1>1, <2>1, <2>2, AlongList
  <2> QED BY <2>3
<1> QED BY <1>8, <1>9 DEF g

LEMMA StreamFacts ==
  ASSUME NEW S, NEW outs \in Seq(S)
  PROVE  /\ StreamUpTo(outs) \in [0 .. Len(outs) -> Seq(Procs)] /\ StreamUpTo(outs)[0] = << >>
         /\ \A k \in 1 .. Len(outs) : StreamUpTo(outs)[k] = StreamUpTo(outs)[k - 1] \o OwnProcessors(k, outs[k])
<1> DEFINE n == Len(outs)
           Rec(f) == [k \in 0 .. n |-> IF k = 0 THEN << >> ELSE f[k - 1] \o OwnProcessors(k, outs[k])]
           step == [k \in 1 .. n |-> [v \in Seq(Procs) |-> v \o OwnProcessors(k, outs[k])]]
<1>1. n \in Nat /\ \A k \in 1 .. n : OwnProcessors(k, outs[k]) \in Seq(Procs)
  BY OwnFacts
<1>2. \A k \in 1 .. n : \A v \in Seq(Procs) : step[k][v] = v \o OwnProcessors(k, outs[k]) /\ step[k][v] \in Seq(Procs)
  BY <1>1
<1>3. PICK f : Runs(f, Seq(Procs), << >>, n, step)
  <2>1. PICK V, b : V = Seq(Procs) /\ b = << >>
    OBVIOUS
  <2>2. b \in V /\ n \in Nat /\ \A k \in 1 .. n : \A v \in V : step[k][v] \in V
    BY <1>1, <1>2, <2>1
  <2> HIDE DEF step, n
  <2>3. \E f : Runs(f, V, b, n, step)
    BY <2>2, Recursion
  <2> QED BY <2>1, <2>3
<1>4. ASSUME NEW k \in 1 .. n PROVE f[k] = f[k - 1] \o OwnProcessors(k, outs[k])
  <2> HIDE DEF step
  <2>1. f[k - 1] \in Seq(Procs)
    <3>1. PICK V : V = Seq(Procs)
      OBVIOUS
    <3>2. f \in [0 .. n -> V]
      BY <1>3, <3>1 DEF Runs
    <3>3. k - 1 \in 0 .. n
      BY <1>1
    <3> QED BY <3>1, <3>2, <3>3
  <2> QED BY <2>1, <1>2, <1>3 DEF Runs
<1>5. f = Rec(f)
  <2> HIDE DEF step
  <2>1. f[0] = << >> /\ f = [k \in 0 .. n |-> f[k]]
    BY <1>3 DEF Runs
  <2> QED BY <1>1, <2>1, <1>4
<1>6. StreamUpTo(outs) = CHOOSE g : g = Rec(g)
  BY DEF StreamUpTo
<1> DEFINE g == StreamUpTo(outs)
<1>7. g = Rec(g)
  BY <1>5, <1>6
<1> HIDE DEF g
<1>8. /\ DOMAIN g = 0 .. n /\ g[0] = << >> /\ g = [k \in 0 .. n |-> g[k]]
      /\ \A k \in 1 .. n : g[k] = g[k - 1] \o OwnProcessors(k, outs[k])
  <2>1. DOMAIN g = 0 .. n /\ g = [k \in 0 .. n |-> g[k]] /\ 0 \in 0 .. n
    BY <1>1, <1>7
  <2>2. \A k \in 0 .. n : g[k] = IF k = 0 THEN << >> ELSE g[k - 1] \o OwnProcessors(k, outs[k])
    BY <1>7, Zenon
  <2>3. g[0] = << >>
    BY <2>1, <2>2
  <2>4. ASSUME NEW k \in 1 .. n PROVE g[k] = g[k - 1] \o OwnProcessors(k, outs[k])
    <3>1. k \in 0 .. n /\ k # 0
      BY <1>1
    <3> QED BY <3>1, <2>2
  <2> QED BY <2>1, <2>3, <2>4
<1> DEFINE T == {k \in 0 .. n : g[k] \in Seq(Procs)}
<1>9. \A k \in 0 .. n : g[k] \in Seq(Procs)
  <2>1. 0 \in T
    <3>1. << >> \in Seq(Procs) /\ 0 \in 0 .. n
      BY <1>1
    <3> QED BY <3>1, <1>8
  <2>2. ASSUME NEW k \in 1 .. n, k - 1 \in T PROVE k \in T
    <3>1. g[k - 1] \in Seq(Procs) /\ OwnProcessors(k, outs[k]) \in Seq(Procs)
      BY <1>1, <2>2
    <3>2. g[k - 1] \o OwnProcessors(k, outs[k]) \in Seq(Procs)
      BY <3>1
    <3>3. k \in 0 .. n /\ g[k] = g[k - 1] \o OwnProcessors(k, outs[k])
      BY <1>1, <1>8
    <3> QED BY <3>2, <3>3
  <2>3. 0 .. n \subseteq T
    <3> HIDE DEF T, n
    <3> QED BY <1>1, <2>1, <2>2, AlongList
  <2> QED BY <2>3
<1> QED BY <1>8, <1>9 DEF g

\* The counter of the WaitGroup starts at the number of processors that will
\* report to it, and the stream has those of every output.
LEMMA CountedIsConstructed ==
  ASSUME NEW S, NEW outs \in Seq(S)
  PROVE  /\ StreamProcessors(outs) \in Seq(Procs) /\ Len(StreamProcessors(outs)) = ProcessorCount(outs)
         /\ ProcessorCount(outs) \in Nat
         /\ \A i \in 1 .. Len(outs) : \A p \in ToSet(Extra(outs[i])) : <<i, p>> \in ToSet(StreamProcessors(outs))
<1>0. PICK n, c, s : n = Len(outs) /\ c = CountUpTo(outs) /\ s = StreamUpTo(outs)
  OBVIOUS
<1>1. n \in Nat /\ c \in [0 .. n -> Nat] /\ s \in [0 .. n -> Seq(Procs)] /\ c[0] = 0 /\ s[0] = << >>
  <2>1. n \in Nat /\ c \in [0 .. n -> Nat] /\ c[0] = 0
    BY <1>0, CountFacts
  <2>2. s \in [0 .. n -> Seq(Procs)] /\ s[0] = << >>
    BY <1>0, StreamFacts, Zenon
  <2> QED BY <2>1, <2>2
<1>2. /\ \A k \in 1 .. n : c[k] = c[k - 1] + NumOutputProcessors(outs[k])
      /\ \A k \in 1 .. n : s[k] = s[k - 1] \o OwnProcessors(k, outs[k])
  <2>1. \A k \in 1 .. n : c[k] = c[k - 1] + NumOutputProcessors(outs[k])
    BY <1>0, CountFacts
  <2>2. \A k \in 1 .. n : s[k] = s[k - 1] \o OwnProcessors(k, outs[k])
    BY <1>0, StreamFacts, Zenon
  <2> QED BY <2>1, <2>2
<1> DEFINE In(k) == \A i \in 1 .. k : \A p \in ToSet(Extra(outs[i])) : <<i, p>> \in ToSet(s[k])
           T == {k \in 0 .. n : Len(s[k]) = c[k] /\ In(k)}
<1>3. 0 \in T
  BY <1>1
<1>4. ASSUME NEW k \in 1 .. n, k - 1 \in T PROVE k \in T
  <2>0. PICK a, b : a = s[k - 1] /\ b = OwnProcessors(k, outs[k])
    OBVIOUS
  <2>1. /\ a \in Seq(Procs) /\ b \in Seq(Procs) /\ s[k] = a \o b /\ Len(b) = NumOutputProcessors(outs[k])
        /\ Len(a) = c[k - 1] /\ \A p \in ToSet(Extra(outs[k])) : <<k, p>> \in ToSet(b)
    <3>1. k - 1 \in 0 .. n /\ k \in Nat
      BY <1>1
    <3>2. a \in Seq(Procs) /\ Len(a) = c[k - 1]
      BY <1>1, <1>4, <2>0, <3>1
    <3>3. /\ b \in Seq(Procs) /\ Len(b) = NumOutputProcessors(outs[k])
          /\ \A p \in ToSet(Extra(outs[k])) : <<k, p>> \in ToSet(b)
      BY <2>0, <3>1, OwnFacts
    <3>4. s[k] = a \o b
      BY <1>2, <2>0
    <3> QED BY <3>2, <3>3, <3>4
  <2>2. Len(s[k]) = c[k]
    <3>0. a \in Seq(Procs) /\ b \in Seq(Procs)
      BY <2>1
    <3>1. Len(a \o b) = Len(a) + Len(b)
      BY <3>0
    <3>2. c[k] = c[k - 1] + NumOutputProcessors(outs[k])
      BY <1>2
    <3>3. s[k] = a \o b /\ Len(a) = c[k - 1] /\ Len(b) = NumOutputProcessors(outs[k])
      BY <2>1
    <3> QED BY <3>1, <3>2, <3>3
  <2>3. ToSet(a) \subseteq ToSet(s[k]) /\ ToSet(b) \subseteq ToSet(s[k])
    <3>1. ASSUME NEW x \in DOMAIN a PROVE a[x] \in ToSet(s[k])
      <4>1. x \in DOMAIN s[k] /\ s[k][x] = a[x]
        BY <2>1
      <4> QED BY <4>1 DEF ToSet
    <3>2. ASSUME NEW x \in DOMAIN b PROVE b[x] \in ToSet(s[k])
      <4>1. x + Len(a) \in DOMAIN s[k] /\ s[k][x + Len(a)] = b[x]
        BY <2>1
      <4> QED BY <4>1 DEF ToSet
    <3> QED BY <3>1, <3>2 DEF ToSet
  <2>4. In(k)
    <3> SUFFICES ASSUME NEW i \in 1 .. k, NEW p \in ToSet(Extra(outs[i])) PROVE <<i, p>> \in ToSet(s[k])
      OBVIOUS
    <3>1. CASE i = k
      BY <3>1, <2>1, <2>3
    <3>2. CASE i # k
      <4>1. i \in 1 .. k - 1
        BY <3>2
      <4>2. <<i, p>> \in ToSet(a)
        BY <4>1, <1>4, <2>0
      <4> QED BY <4>2, <2>3
    <3> QED BY <3>1, <3>2
  <2> QED BY <2>2, <2>4
<1>5. n \in T
  <2> HIDE DEF T
  <2>1. 0 .. n \subseteq T
    BY <1>1, <1>3, <1>4, AlongList
  <2> QED BY <2>1, <1>1
<1> QED BY <1>0, <1>1, <1>5 DEF StreamProcessors, ProcessorCount

-----------------------------------------------------------------------------
(* Masks.                                                                  *)

\* Events that rules out of R can make of one with the leaves ls.
EventsOf(R, ls) ==
    [leaves : SUBSET (ls \cup {<<r.path, r.val>> : r \in R}),
     erased : Seq({r.path : r \in R}), masked : Seq({r.path : r \in R})]
Fresh(ls) == [leaves |-> ls, erased |-> << >>, masked |-> << >>]

LEMMA MaskRuleTyped ==
  ASSUME NEW R, NEW ls, NEW ev \in EventsOf(R, ls), NEW r \in R
  PROVE  MaskRule(ev, r) \in EventsOf(R, ls)
<1>1. /\ ev = [leaves |-> ev.leaves, erased |-> ev.erased, masked |-> ev.masked]
      /\ ev.leaves \subseteq ls \cup {<<q.path, q.val>> : q \in R}
      /\ ev.erased \in Seq({q.path : q \in R}) /\ ev.masked \in Seq({q.path : q \in R})
  BY DEF EventsOf
<1>2. r.path \in {q.path : q \in R} /\ <<r.path, r.val>> \in {<<q.path, q.val>> : q \in R}
  OBVIOUS
<1>3. RemovePath(ev, r.path) \in EventsOf(R, ls)
  <2> DEFINE gone == {l \in ev.leaves : IsPrefix(r.path, l[1])}
  <2>1. CASE gone = {}
    BY <2>1 DEF RemovePath
  <2>2. CASE gone # {}
    <3>1. RemovePath(ev, r.path) = [leaves |-> ev.leaves \ gone, erased |-> Append(ev.erased, r.path), masked |-> ev.masked]
      BY <2>2, <1>1 DEF RemovePath
    <3>2. Append(ev.erased, r.path) \in Seq({q.path : q \in R})
      BY <1>1, <1>2
    <3> HIDE DEF gone
    <3> QED BY <3>1, <3>2, <1>1 DEF EventsOf
  <2> QED BY <2>1, <2>2
<1>4. Upsert(ev, r.path, r.val) \in EventsOf(R, ls)
  <2> DEFINE left == {l \in ev.leaves : ~IsPrefix(r.path, l[1])} \cup {<<r.path, r.val>>}
             put == [leaves |-> left, erased |-> ev.erased, masked |-> Append(ev.masked, r.path)]
  <2>1. Upsert(ev, r.path, r.val) \in {NoEvent, ev, put}
    BY <1>1 DEF Upsert
  <2>2. NoEvent \in EventsOf(R, ls)
    BY DEF NoEvent, EventsOf
  <2>3. Append(ev.masked, r.path) \in Seq({q.path : q \in R})
    BY <1>1, <1>2
  <2>4. left \subseteq ls \cup {<<q.path, q.val>> : q \in R}
    BY <1>1, <1>2
  <2> HIDE DEF left
  <2>5. put \in EventsOf(R, ls)
    BY <1>1, <2>3, <2>4 DEF EventsOf
  <2> QED BY <2>1, <2>2, <2>5
<1> QED BY <1>3, <1>4 DEF MaskRule

\* The recursion, unfolded.
LEMMA MaskedFacts ==
  ASSUME NEW R, NEW rules \in Seq(R), NEW ls
  PROVE  /\ \A k \in 0 .. Len(rules) : MaskedBy(rules, Fresh(ls))[k] \in EventsOf(R, ls)
         /\ MaskedBy(rules, Fresh(ls))[0] = Fresh(ls)
         /\ \A k \in 1 .. Len(rules) :
               MaskedBy(rules, Fresh(ls))[k] = MaskRule(MaskedBy(rules, Fresh(ls))[k - 1], rules[k])
<1> DEFINE n == Len(rules)
           V == EventsOf(R, ls)
           ev == Fresh(ls)
           Rec(f) == [k \in 0 .. n |-> IF k = 0 THEN ev ELSE MaskRule(f[k - 1], rules[k])]
           step == [k \in 1 .. n |-> [v \in V |-> MaskRule(v, rules[k])]]
<1>1. n \in Nat /\ ev \in V /\ \A k \in 1 .. n : rules[k] \in R
  BY DEF Fresh, EventsOf
<1>2. \A k \in 1 .. n : \A v \in V : step[k][v] = MaskRule(v, rules[k]) /\ step[k][v] \in V
  BY <1>1, MaskRuleTyped
<1>3. PICK f : Runs(f, V, ev, n, step)
  <2> HIDE DEF V, ev, step, n
  <2> QED BY <1>1, <1>2, Recursion
<1> HIDE DEF V, ev, step
<1>4. ASSUME NEW k \in 1 .. n PROVE f[k] = MaskRule(f[k - 1], rules[k])
  <2>1. f[k - 1] \in V
    BY <1>1, <1>3 DEF Runs
  <2> QED BY <2>1, <1>2, <1>3 DEF Runs
<1>5. f = Rec(f)
  <2>1. f[0] = ev /\ f = [k \in 0 .. n |-> f[k]]
    BY <1>3 DEF Runs
  <2> QED BY <1>1, <2>1, <1>4
<1>6. MaskedBy(rules, Fresh(ls)) = CHOOSE g : g = Rec(g)
  BY DEF MaskedBy, ev
<1> DEFINE g == MaskedBy(rules, Fresh(ls))
<1>7. g = Rec(g)
  BY <1>5, <1>6
<1> HIDE DEF g
<1>8. DOMAIN g = 0 .. n /\ g[0] = ev /\ \A k \in 1 .. n : g[k] = MaskRule(g[k - 1], rules[k])
  BY <1>1, <1>7
<1> DEFINE T == {k \in 0 .. n : g[k] \in V}
<1>9. \A k \in 0 .. n : g[k] \in V
  <2>1. 0 \in T
    BY <1>1, <1>8
  <2>2. ASSUME NEW k \in 1 .. n, k - 1 \in T PROVE k \in T
    <3>1. g[k - 1] \in V /\ rules[k] \in R /\ g[k] = MaskRule(g[k - 1], rules[k]) /\ k \in 0 .. n
      BY <1>1, <1>8, <2>2
    <3>2. g[k] \in V
      BY <3>1, MaskRuleTyped DEF V
    <3> QED BY <3>1, <3>2
  <2>3. 0 .. n \subseteq T
    <3> HIDE DEF T, n
    <3> QED BY <1>1, <2>1, <2>2, AlongList
  <2> QED BY <2>3
<1> QED BY <1>8, <1>9 DEF g, V, ev

\* What one rule does to the leaves: it removes some at or below its path and
\* adds at most one, its own.
LEMMA RuleLeaves ==
  ASSUME NEW R, NEW ls, NEW ev \in EventsOf(R, ls), NEW r \in R, r.op \in {"remove", "upsert"},
         r.op = "upsert" => \E l \in ev.leaves : l[1][1] = r.path[1]
  PROVE  /\ \A l \in ev.leaves : ~IsPrefix(r.path, l[1]) => l \in MaskRule(ev, r).leaves
         /\ \A l \in MaskRule(ev, r).leaves :
               l \in ev.leaves \/ (r.op = "upsert" /\ l[1] = r.path)
         /\ r.op = "remove" => \A l \in MaskRule(ev, r).leaves : ~IsPrefix(r.path, l[1])
<1>1. ev = [leaves |-> ev.leaves, erased |-> ev.erased, masked |-> ev.masked]
  BY DEF EventsOf
<1>2. CASE r.op = "remove"
  <2> DEFINE gone == {l \in ev.leaves : IsPrefix(r.path, l[1])}
  <2>1. MaskRule(ev, r) = RemovePath(ev, r.path)
    BY <1>2 DEF MaskRule
  <2>2. CASE gone = {}
    <3>1. RemovePath(ev, r.path) = ev
      BY <2>2 DEF RemovePath
    <3> QED BY <1>2, <2>1, <2>2, <3>1
  <2>3. CASE gone # {}
    <3>1. RemovePath(ev, r.path) = [leaves |-> ev.leaves \ gone, erased |-> Append(ev.erased, r.path), masked |-> ev.masked]
      BY <2>3, <1>1 DEF RemovePath
    <3>2. RemovePath(ev, r.path).leaves = ev.leaves \ gone
      BY <3>1
    <3> QED BY <1>2, <2>1, <3>2
  <2> QED BY <2>2, <2>3
<1>3. CASE r.op = "upsert"
  <2> DEFINE left == {l \in ev.leaves : ~IsPrefix(r.path, l[1])} \cup {<<r.path, r.val>>}
             put == [leaves |-> left, erased |-> ev.erased, masked |-> Append(ev.masked, r.path)]
  <2>1. MaskRule(ev, r) = Upsert(ev, r.path, r.val)
    BY <1>3 DEF MaskRule
  <2>2. Upsert(ev, r.path, r.val) \in {ev, put}
    BY <1>1, <1>3 DEF Upsert
  <2>3. put.leaves = left
    OBVIOUS
  <2> HIDE DEF put
  <2> QED BY <1>3, <2>1, <2>2, <2>3
<1> QED BY <1>2, <1>3

\* A mask removes what its rules remove, and nothing that no rule touches.
LEMMA MasksExactly ==
  ASSUME NEW rules \in Seq(MaskRules), NEW ls,
         \A k \in DOMAIN rules : rules[k].op = "upsert" =>
            \E l \in MaskedBy(rules, Fresh(ls))[k - 1].leaves : l[1][1] = rules[k].path[1]
  PROVE  LET last == MaskEvent(rules, Fresh(ls))
         IN  /\ \A l \in ls : (\A r \in ToSet(rules) : ~IsPrefix(r.path, l[1])) => l \in last.leaves
             /\ \A l \in last.leaves : \A r \in ToSet(rules) :
                   r.op = "remove" /\ IsPrefix(r.path, l[1]) =>
                      \E u \in ToSet(rules) : u.op = "upsert" /\ u.path = l[1]
<1>0. PICK n, g : n = Len(rules) /\ g = MaskedBy(rules, Fresh(ls))
  OBVIOUS
<1>1. /\ n \in Nat /\ DOMAIN rules = 1 .. n /\ g[0] = Fresh(ls)
      /\ \A k \in 0 .. n : g[k] \in EventsOf(MaskRules, ls)
      /\ \A k \in 1 .. n : g[k] = MaskRule(g[k - 1], rules[k])
  BY <1>0, MaskedFacts
<1>2. \A k \in 1 .. n : rules[k] \in MaskRules /\ rules[k] \in ToSet(rules) /\ rules[k].op \in {"remove", "upsert"}
  BY <1>0, LoggerAssumption DEF ToSet
<1> DEFINE Kept(k) == \A l \in ls : (\A r \in ToSet(rules) : ~IsPrefix(r.path, l[1])) => l \in g[k].leaves
           Put(l) == \E u \in ToSet(rules) : u.op = "upsert" /\ u.path = l[1]
           Gone(k) == \A l \in g[k].leaves : \A j \in 1 .. k :
                         rules[j].op = "remove" /\ IsPrefix(rules[j].path, l[1]) => Put(l)
           T == {k \in 0 .. n : Kept(k) /\ Gone(k)}
<1>3. 0 \in T
  <2>1. g[0].leaves = ls
    BY <1>1 DEF Fresh
  <2> QED BY <2>1, <1>1
<1>4. ASSUME NEW k \in 1 .. n, k - 1 \in T PROVE k \in T
  <2>0. PICK ev, r : ev = g[k - 1] /\ r = rules[k]
    OBVIOUS
  <2>1. ev \in EventsOf(MaskRules, ls) /\ g[k] = MaskRule(ev, r) /\ Kept(k - 1) /\ Gone(k - 1) /\ k \in 0 .. n
    BY <1>1, <1>4, <2>0
  <2>2. /\ r \in MaskRules /\ r \in ToSet(rules) /\ r.op \in {"remove", "upsert"}
        /\ r.op = "upsert" => \E l \in ev.leaves : l[1][1] = r.path[1]
    BY <1>0, <1>1, <1>2, <2>0
  <2>3. /\ \A l \in ev.leaves : ~IsPrefix(r.path, l[1]) => l \in g[k].leaves
        /\ \A l \in g[k].leaves : l \in ev.leaves \/ (r.op = "upsert" /\ l[1] = r.path)
        /\ r.op = "remove" => \A l \in g[k].leaves : ~IsPrefix(r.path, l[1])
    BY <2>1, <2>2, RuleLeaves
  <2>4. Kept(k)
    BY <2>0, <2>1, <2>2, <2>3
  <2>5. Gone(k)
    <3> SUFFICES ASSUME NEW l \in g[k].leaves, NEW j \in 1 .. k,
                        rules[j].op = "remove", IsPrefix(rules[j].path, l[1])
                 PROVE  Put(l)
      OBVIOUS
    <3>1. CASE r.op = "upsert" /\ l[1] = r.path
      BY <3>1, <2>2
    <3>2. CASE l \in ev.leaves
      <4>1. j # k
        BY <2>0, <2>3
      <4>2. j \in 1 .. k - 1
        BY <4>1
      <4> QED BY <3>2, <4>2, <2>0, <2>1
    <3> QED BY <2>3, <3>1, <3>2
  <2> QED BY <2>1, <2>4, <2>5
<1>5. Kept(n) /\ Gone(n)
  <2> HIDE DEF T
  <2>1. 0 .. n \subseteq T
    BY <1>1, <1>3, <1>4, AlongList
  <2>2. n \in T
    BY <2>1, <1>1
  <2> QED BY <2>2 DEF T
<1>6. MaskEvent(rules, Fresh(ls)) = g[n]
  BY <1>0 DEF MaskEvent
<1>7. \A r \in ToSet(rules) : \E j \in 1 .. n : r = rules[j]
  BY <1>1 DEF ToSet
<1> QED BY <1>5, <1>6, <1>7

-----------------------------------------------------------------------------
(* The logger.                                                             *)

\* The processors the current configuration needs.
Needed == ToSet(StreamProcessors(dlcfg.outputs))

\* Policies and the queries prepared from them.
PreparedInv ==
    /\ version \in 1 .. MaxVersions
    /\ \A p \in DOMAIN prep : prep[p] \in 1 .. MaxVersions /\ (prep[p] # version => p \in missed)
\* A start waits for as many processors as are still to be constructed, and
\* once it returned all of them are.
StartInv ==
    /\ building \in Seq(Procs)
    /\ registering # << >> => /\ dlphase = "starting" /\ building # << >> /\ registering = <<Head(building)>>
                              /\ Head(building) \in DOMAIN prep
    /\ dlphase = "starting" => waiting = Len(building) /\ Needed \subseteq ToSet(building) \cup DOMAIN prep
    /\ dlphase = "running" => Needed \subseteq DOMAIN prep
    /\ dlstream = "open" => dlphase = "running"
\* What was sent is what the rules made of what was logged.
SentInv ==
    \A s \in sent : s.rules \in Seq(MaskRules) /\ s.result = MaskEvent(s.rules, Logged(s.name))
ConfigInv == \E c \in DLConfigs : dlcfg = Completed(c)

ILogger == DLTypeOK /\ ConfigInv /\ PreparedInv /\ StartInv /\ SentInv

\* The outputs of a configuration are a list.
LEMMA OutputsList ==
  ASSUME NEW c \in DLConfigs
  PROVE  \E S : Completed(c).outputs \in Seq(S)
<1>0. PICK outs : outs = c.outputs
  OBVIOUS
<1>1. c = [buffer |-> c.buffer, outputs |-> outs] /\ outs \in Seq(ToSet(outs))
  BY <1>0, LoggerAssumption
<1> DEFINE new == [i \in DOMAIN outs |-> OutputFromRaw(outs[i])]
           S == {OutputFromRaw(outs[i]) : i \in DOMAIN outs}
<1>2. Completed(c) = [buffer |-> c.buffer, outputs |-> new]
  BY <1>0, <1>1 DEF Completed
<1>3. Completed(c).outputs = new
  BY <1>2
<1>4. DOMAIN outs = 1 .. Len(outs) /\ Len(outs) \in Nat
  BY <1>1
<1>5. new \in Seq(S)
  BY <1>4
<1> QED BY <1>3, <1>5

LEMMA LoggerInitially == DLInit => ILogger
<1> SUFFICES ASSUME DLInit PROVE ILogger
  OBVIOUS
<1>1. PICK c \in DLConfigs : dlcfg = Completed(c)
  BY DEF DLInit
<1>2. DOMAIN prep = {} /\ version \in 1 .. MaxVersions
  BY LoggerAssumption DEF DLInit
<1>3. DLTypeOK
  BY <1>2 DEF DLInit, DLTypeOK
<1>4. StartInv
  BY DEF DLInit, StartInv
<1>5. PreparedInv /\ SentInv /\ ConfigInv
  BY <1>1, <1>2 DEF DLInit, PreparedInv, SentInv, ConfigInv
<1> QED BY <1>3, <1>4, <1>5 DEF ILogger

\* The steps that neither start the logger nor construct a processor.
LEMMA PolicyKeeps ==
  ASSUME ILogger, CompilerTrigger
  PROVE  ILogger'
  BY LoggerAssumption DEF ILogger, CompilerTrigger, DLTypeOK, ConfigInv, PreparedInv, StartInv, SentInv, Needed
LEMMA LogKeeps ==
  ASSUME ILogger, NEW e, LogEvent(e)
  PROVE  ILogger'
<1>1. UNCHANGED <<dlcfg, dlphase, dlstream, building, registering, waiting, prep, callbacks, missed, version, sent>>
  BY DEF LogEvent
<1>2. dlcrash' \in BOOLEAN
  BY DEF LogEvent, ILogger, DLTypeOK
<1> QED BY <1>1, <1>2 DEF ILogger, DLTypeOK, ConfigInv, PreparedInv, StartInv, SentInv, Needed

LEMMA StopKeeps ==
  ASSUME ILogger, LoggerStop
  PROVE  ILogger'
<1>1. registering = << >>
  BY DEF ILogger, StartInv, LoggerStop
<1> QED BY <1>1 DEF LoggerStop, ILogger, DLTypeOK, ConfigInv, PreparedInv, StartInv, SentInv, Needed

LEMMA ReconfigureKeeps ==
  ASSUME ILogger, NEW c \in DLConfigs, LoggerReconfigure(Completed(c))
  PROVE  ILogger'
<1>1. registering = << >>
  BY DEF ILogger, StartInv, LoggerReconfigure
<1> QED BY <1>1 DEF LoggerReconfigure, ILogger, DLTypeOK, ConfigInv, PreparedInv, StartInv, SentInv

\* Start counts the processors, none of which is constructed yet.
LEMMA StartKeeps ==
  ASSUME ILogger, dlphase \in {"new", "restarting"}, StartStream(dlcfg)
  PROVE  ILogger'
<1>1. UNCHANGED <<dlcfg, version, sent, dlcrash>> /\ registering' = << >> /\ DOMAIN prep' = {} /\ callbacks' = {}
  BY DEF StartStream
<1>2. PICK c, S : c \in DLConfigs /\ dlcfg = Completed(c) /\ Completed(c).outputs \in Seq(S)
  BY OutputsList DEF ILogger, ConfigInv
<1>3. /\ StreamProcessors(dlcfg.outputs) \in Seq(Procs) /\ ProcessorCount(dlcfg.outputs) \in Nat
      /\ Len(StreamProcessors(dlcfg.outputs)) = ProcessorCount(dlcfg.outputs)
  BY <1>2, CountedIsConstructed
<1>4. /\ dlphase' \in {"starting", "failed"} /\ waiting' \in Nat /\ building' \in Seq(Procs) /\ dlstream' # "open"
      /\ dlstream' \in {"none", "open", "stopped"}
      /\ dlphase' = "starting" => waiting' = Len(building') /\ building' = StreamProcessors(dlcfg.outputs)
  <2>1. dlstream # "open" /\ dlstream \in {"none", "open", "stopped"}
    BY DEF ILogger, StartInv, DLTypeOK
  <2>2. CASE dlphase' = "starting"
    BY <2>1, <2>2, <1>3 DEF StartStream
  <2>3. CASE dlphase' # "starting"
    <3>1. dlphase' = "failed" /\ waiting' = 0 /\ building' = << >> /\ dlstream' = "none"
      BY <2>3 DEF StartStream
    <3> QED BY <3>1
  <2> QED BY <2>2, <2>3
<1>5. DLTypeOK'
  BY <1>1, <1>4 DEF ILogger, DLTypeOK
<1>6. ConfigInv' /\ SentInv' /\ PreparedInv'
  BY <1>1 DEF ILogger, ConfigInv, SentInv, PreparedInv
<1>7. Needed' = ToSet(StreamProcessors(dlcfg.outputs))
  BY <1>1 DEF Needed
<1>8. StartInv'
  BY <1>1, <1>4, <1>7 DEF StartInv
<1> QED BY <1>5, <1>6, <1>8 DEF ILogger

LEMMA PrepareQueryKeeps ==
  ASSUME ILogger, ConstructPrepare
  PROVE  ILogger'
<1>0. PICK h : h = Head(building)
  OBVIOUS
<1>1. /\ UNCHANGED <<dlcfg, dlphase, dlstream, building, waiting, callbacks, missed, version, sent, dlcrash>>
      /\ dlphase = "starting" /\ building # << >> /\ registering' = <<h>>
      /\ prep' = [p \in DOMAIN prep \cup {h} |-> IF p = h THEN version ELSE prep[p]]
  BY <1>0 DEF ConstructPrepare
<1>2. DOMAIN prep' = DOMAIN prep \cup {h} /\ prep'[h] = version /\ \A p \in DOMAIN prep \ {h} : prep'[p] = prep[p]
  BY <1>1
<1>3. DLTypeOK' /\ ConfigInv' /\ SentInv'
  BY <1>1, <1>2 DEF ILogger, DLTypeOK, ConfigInv, SentInv
<1>4. PreparedInv'
  BY <1>1, <1>2 DEF ILogger, PreparedInv
<1>5. Needed' = Needed
  BY <1>1 DEF Needed
<1>6. StartInv'
  BY <1>0, <1>1, <1>2, <1>5 DEF ILogger, StartInv
<1> QED BY <1>3, <1>4, <1>6 DEF ILogger

LEMMA RegisterKeeps ==
  ASSUME ILogger, ConstructRegister
  PROVE  ILogger'
<1>1. /\ UNCHANGED <<dlcfg, dlphase, dlstream, prep, missed, version, sent, dlcrash>>
      /\ callbacks' = callbacks \cup {registering[1]} /\ building' = Tail(building) /\ registering' = << >>
      /\ waiting' = waiting - 1
  BY DEF ConstructRegister
<1>2. /\ dlphase = "starting" /\ building # << >> /\ building \in Seq(Procs) /\ registering = <<Head(building)>>
      /\ Head(building) \in DOMAIN prep /\ waiting = Len(building)
      /\ Needed \subseteq ToSet(building) \cup DOMAIN prep
  BY DEF ConstructRegister, ILogger, StartInv
<1>3. /\ Tail(building) \in Seq(Procs) /\ Len(Tail(building)) = Len(building) - 1 /\ Len(Tail(building)) \in Nat
      /\ \A x \in ToSet(building) : x = Head(building) \/ x \in ToSet(Tail(building))
  <2>1. /\ Tail(building) \in Seq(Procs) /\ Len(Tail(building)) = Len(building) - 1 /\ Len(Tail(building)) \in Nat
        /\ DOMAIN building = 1 .. Len(building) /\ Head(building) = building[1]
        /\ \A k \in 1 .. Len(building) - 1 : Tail(building)[k] = building[k + 1]
    BY <1>2
  <2>2. ASSUME NEW k \in DOMAIN building, k # 1 PROVE building[k] \in ToSet(Tail(building))
    <3>1. k - 1 \in 1 .. Len(building) - 1 /\ (k - 1) + 1 = k /\ DOMAIN Tail(building) = 1 .. Len(building) - 1
      BY <2>1, <2>2
    <3>2. Tail(building)[k - 1] = building[k]
      BY <2>1, <3>1
    <3> QED BY <3>1, <3>2 DEF ToSet
  <2> QED BY <2>1, <2>2 DEF ToSet
<1>4. registering[1] \in DOMAIN prep
  BY <1>2
<1>5. DLTypeOK'
  BY <1>1, <1>2, <1>3, <1>4 DEF ILogger, DLTypeOK
<1>6. ConfigInv' /\ SentInv' /\ PreparedInv'
  BY <1>1 DEF ILogger, ConfigInv, SentInv, PreparedInv
<1>7. Needed' = Needed
  BY <1>1 DEF Needed
<1>8. StartInv'
  BY <1>1, <1>2, <1>3, <1>7 DEF ILogger, StartInv
<1> QED BY <1>5, <1>6, <1>8 DEF ILogger

LEMMA RunFailsKeeps ==
  ASSUME ILogger, RunFails
  PROVE  ILogger'
<1>1. << >> \in Seq(Procs)
  OBVIOUS
<1> QED BY <1>1 DEF RunFails, ILogger, DLTypeOK, ConfigInv, PreparedInv, StartInv, SentInv

\* Nobody is waited for any more, so everything is constructed.
LEMMA StartedKeeps ==
  ASSUME ILogger, StartReturns
  PROVE  ILogger'
<1>1. /\ UNCHANGED <<dlcfg, building, registering, waiting, prep, callbacks, missed, version, sent, dlcrash>>
      /\ dlphase = "starting" /\ dlphase' = "running" /\ dlstream' = "open"
  BY DEF StartReturns
<1>2. building \in Seq(Procs) /\ Len(building) = 0 /\ Needed \subseteq ToSet(building) \cup DOMAIN prep
  BY <1>1 DEF ILogger, StartInv, StartReturns
<1>3. building = << >> /\ ToSet(building) = {}
  BY <1>2 DEF ToSet
<1>4. registering = << >>
  BY <1>3 DEF ILogger, StartInv
<1>5. Needed' = Needed
  BY <1>1 DEF Needed
<1>6. StartInv'
  BY <1>1, <1>2, <1>3, <1>4, <1>5 DEF StartInv
<1> QED BY <1>1, <1>6 DEF ILogger, DLTypeOK, ConfigInv, PreparedInv, SentInv

LEMMA DeliverKeeps ==
  ASSUME ILogger, NEW e, NEW i \in DOMAIN dlcfg.outputs, Deliver(e, i)
  PROVE  ILogger'
<1>1. /\ UNCHANGED <<dlcfg, dlphase, dlstream, building, registering, waiting, prep, callbacks, missed, version, dlcrash>>
      /\ dlstream = "open"
  BY DEF Deliver
<1> DEFINE masks == "dl_mask" \in ToSet(Extra(dlcfg.outputs[i]))
           rules == IF masks THEN MaskAt[prep[<<i, "dl_mask">>]] ELSE << >>
           new == [name |-> e, out |-> i, rules |-> rules, result |-> MaskEvent(rules, Logged(e))]
<1>2. sent' = sent \/ sent' = sent \cup {new}
  BY DEF Deliver
<1>3. rules \in Seq(MaskRules)
  <2>1. CASE masks
    <3>1. PICK c, S : c \in DLConfigs /\ dlcfg = Completed(c) /\ Completed(c).outputs \in Seq(S)
      BY OutputsList DEF ILogger, ConfigInv
    <3>2. i \in 1 .. Len(dlcfg.outputs)
      BY <3>1
    <3>3. <<i, "dl_mask">> \in Needed
      BY <2>1, <3>1, <3>2, CountedIsConstructed DEF Needed
    <3>4. <<i, "dl_mask">> \in DOMAIN prep
      BY <1>1, <3>3 DEF ILogger, StartInv
    <3>5. prep[<<i, "dl_mask">>] \in 1 .. MaxVersions
      BY <3>4 DEF ILogger, PreparedInv
    <3> QED BY <2>1, <3>5, LoggerAssumption
  <2>2. CASE ~masks
    <3>1. << >> \in Seq(MaskRules)
      OBVIOUS
    <3> QED BY <2>2, <3>1
  <2> QED BY <2>1, <2>2
<1> HIDE DEF rules
<1>4. new.rules = rules /\ new.result = MaskEvent(rules, Logged(e)) /\ new.name = e
  OBVIOUS
<1> HIDE DEF new
<1>5. SentInv'
  <2>1. \A s \in sent' : s \in sent \/ s = new
    BY <1>2
  <2> QED BY <2>1, <1>3, <1>4 DEF ILogger, SentInv
<1> QED BY <1>1, <1>5 DEF ILogger, DLTypeOK, ConfigInv, PreparedInv, StartInv, Needed

LEMMA LoggerStepKeeps == ILogger /\ [DLNext]_dlvars => ILogger'
<1> SUFFICES ASSUME ILogger, [DLNext]_dlvars PROVE ILogger'
  OBVIOUS
<1>1. CASE LoggerStart \/ LoggerRestart
  BY <1>1, StartKeeps DEF LoggerStart, LoggerRestart
<1>2. CASE LoggerStep
  BY <1>2, PrepareQueryKeeps, RegisterKeeps, StartedKeeps DEF LoggerStep
<1>3. CASE UNCHANGED dlvars
  BY <1>3 DEF dlvars, ILogger, DLTypeOK, ConfigInv, PreparedInv, StartInv, SentInv, Needed
<1> QED BY <1>1, <1>2, <1>3, StopKeeps, RunFailsKeeps, PolicyKeeps, ReconfigureKeeps, LogKeeps, DeliverKeeps DEF DLNext

\* What the invariant says of what was sent.
LEMMA SentIsMasked == ILogger => MaskExact
<1> SUFFICES ASSUME ILogger, NEW s \in sent,
                    ~\E k \in DOMAIN s.rules :
                       /\ s.rules[k].op = "upsert"
                       /\ ~\E l \in MaskedBy(s.rules, Logged(s.name))[k - 1].leaves : l[1][1] = s.rules[k].path[1]
             PROVE  /\ {l \in DLEvents[s.name] : \A r \in ToSet(s.rules) :
                          ~IsPrefix(r.path, l[1]) /\ ~IsPrefix(l[1], r.path)} \subseteq s.result.leaves
                    /\ \A l \in s.result.leaves : \A r \in ToSet(s.rules) :
                          r.op = "remove" /\ IsPrefix(r.path, l[1]) =>
                             \E u \in ToSet(s.rules) : u.op = "upsert" /\ u.path = l[1]
  BY DEF MaskExact
<1>1. s.rules \in Seq(MaskRules) /\ s.result = MaskEvent(s.rules, Logged(s.name))
  BY DEF ILogger, SentInv
<1>2. Logged(s.name) = Fresh(DLEvents[s.name])
  BY DEF Logged, Fresh
<1> QED BY <1>1, <1>2, MasksExactly

\* Two one-element sequences make a pair.
LEMMA PairOf == ASSUME NEW x, NEW y PROVE <<x>> \o <<y>> = <<x, y>>
<1> DEFINE s == <<x>> \o <<y>>
           t == <<x, y>>
           S == {x, y}
<1>1. s \in Seq(S) /\ t \in Seq(S) /\ Len(s) = 2 /\ Len(t) = 2
  OBVIOUS
<1>2. s[1] = x /\ s[2] = y /\ t[1] = x /\ t[2] = y
  OBVIOUS
<1>3. \A i \in 1 .. 2 : s[i] = t[i]
  <2> SUFFICES ASSUME NEW i \in 1 .. 2 PROVE s[i] = t[i]
    OBVIOUS
  <2>1. i = 1 \/ i = 2
    OBVIOUS
  <2> QED BY <2>1, <1>2
<1> HIDE DEF s, t
<1>4. s = t
  BY <1>1, <1>3
<1> QED BY <1>4 DEF s, t

\* The name of an object and the processors of its batch are made from the
\* same settings.
LEMMA NamesFit == NamesMatchContent
<1> SUFFICES ASSUME NEW o
             PROVE  LET procs == BatchProcessors(o.batching)
                    IN  /\ (ObjectSuffix(o)[1] = "jsonl") <=> ("lines" \in {procs[k] : k \in DOMAIN procs})
                        /\ (Len(ObjectSuffix(o)) = 2) <=> ("gzip" \in {procs[k] : k \in DOMAIN procs})
  BY DEF NamesMatchContent
<1> DEFINE b == o.batching
<1> PICK kind, name : /\ kind = (IF b.format = "array" THEN "json_array" ELSE "lines")
                      /\ name = (IF b.format = "array" THEN "json" ELSE "jsonl")
  OBVIOUS
<1>0. /\ kind # "gzip"
      /\ kind = "lines" <=> name = "jsonl"
  OBVIOUS
<1>1. CASE ~b.on \/ b.format = "none"
  <2>1. BatchProcessors(b) = << >> /\ ObjectSuffix(o) = <<"json">>
    BY <1>1 DEF BatchProcessors, ObjectSuffix
  <2> QED BY <2>1
<1>2. CASE ~(~b.on \/ b.format = "none") /\ b.compress
  <2>1. BatchProcessors(b) = <<kind>> \o <<"gzip">> /\ ObjectSuffix(o) = <<name>> \o <<"gz">>
    BY <1>2 DEF BatchProcessors, ObjectSuffix
  <2> HIDE DEF b
  <2>2. <<kind>> \o <<"gzip">> = <<kind, "gzip">> /\ <<name>> \o <<"gz">> = <<name, "gz">>
    BY PairOf
  <2>3. BatchProcessors(b) = <<kind, "gzip">> /\ ObjectSuffix(o) = <<name, "gz">>
    BY <2>1, <2>2
  <2> QED BY <2>3, <1>0 DEF b
<1>3. CASE ~(~b.on \/ b.format = "none") /\ ~b.compress
  <2>1. BatchProcessors(b) = <<kind>> \o << >> /\ ObjectSuffix(o) = <<name>> \o << >>
    BY <1>3 DEF BatchProcessors, ObjectSuffix
  <2> HIDE DEF b
  <2>2. <<kind>> \o << >> = <<kind>> /\ <<name>> \o << >> = <<name>>
    OBVIOUS
  <2>3. BatchProcessors(b) = <<kind>> /\ ObjectSuffix(o) = <<name>>
    BY <2>1, <2>2
  <2> QED BY <2>3, <1>0 DEF b
<1> QED BY <1>1, <1>2, <1>3

\* For any configurations, policies and events, and however commits fall between
\* the steps of a start: once Start has returned, each mask and drop decision is
\* that of the last commit or was passed over while it registered; what an
\* output sends is what the mask left of the event; and the name of an object
\* says what is in it (Logger.Start, plugin.go:66; maskEvent, mask.go).
THEOREM LoggerIsSafe == DLSpec => []LoggerSafety
<1>1. DLInit => ILogger
  BY LoggerInitially
<1>2. ILogger /\ [DLNext]_dlvars => ILogger'
  BY LoggerStepKeeps
<1>3. ILogger => LoggerSafety
  BY SentIsMasked, NamesFit DEF ILogger, PreparedInv, LoggerSafety, ProcessorsCurrent
<1> QED BY <1>1, <1>2, <1>3, PTL DEF DLSpec

\* The state keeps its type.  In particular the counter that Start waits for never
\* falls below zero, which would be a panic: as many processors report to it as
\* Start counted (benthos.go:58, plugin.go:71).
THEOREM LoggerTypes == DLSpec => []DLTypeOK
<1>1. DLInit => ILogger
  BY LoggerInitially
<1>2. ILogger /\ [DLNext]_dlvars => ILogger'
  BY LoggerStepKeeps
<1>3. ILogger => DLTypeOK
  BY DEF ILogger
<1> QED BY <1>1, <1>2, <1>3, PTL DEF DLSpec

-----------------------------------------------------------------------------
(* Bundle activation: paths.                                               *)

LEMMA PrefixAlong ==
  ASSUME NEW a \in BPaths, NEW b \in BPaths
  PROVE  IsPrefix(a, b) <=> Len(a) <= Len(b) /\ \A i \in 1 .. Len(a) : a[i] = b[i]
<1> DEFINE x == SubSeq(a, 1, Len(a))
           y == SubSeq(b, 1, Len(a))
<1>1. Len(a) \in Nat /\ Len(b) \in Nat
  BY DEF BPaths
<1>2. IsPrefix(a, b) <=> Len(a) <= Len(b) /\ x = y
  BY DEF IsPrefix
<1>3. ASSUME Len(a) <= Len(b) PROVE x = y <=> \A i \in 1 .. Len(a) : a[i] = b[i]
  <2>1. x \in Seq(STRING) /\ Len(x) = Len(a) /\ \A i \in 1 .. Len(a) : x[i] = a[i]
    BY <1>1 DEF BPaths
  <2>2. y \in Seq(STRING) /\ Len(y) = Len(a) /\ \A i \in 1 .. Len(a) : y[i] = b[i]
    BY <1>1, <1>3 DEF BPaths
  <2> HIDE DEF x, y
  <2> QED BY <2>1, <2>2
<1> QED BY <1>2, <1>3

LEMMA PrefixRefl == \A a \in BPaths : IsPrefix(a, a)
  BY PrefixAlong DEF BPaths

LEMMA PrefixTrans ==
  ASSUME NEW a \in BPaths, NEW b \in BPaths, NEW c \in BPaths, IsPrefix(a, b), IsPrefix(b, c)
  PROVE  IsPrefix(a, c)
<1>1. Len(a) \in Nat /\ Len(b) \in Nat /\ Len(c) \in Nat
  BY DEF BPaths
<1>2. Len(a) <= Len(b) /\ Len(b) <= Len(c)
  BY PrefixAlong
<1>3. ASSUME NEW i \in 1 .. Len(a) PROVE a[i] = c[i]
  <2>1. i \in 1 .. Len(b)
    BY <1>1, <1>2
  <2> QED BY <2>1, PrefixAlong
<1> QED BY <1>1, <1>2, <1>3, PrefixAlong

\* Two roots above one path overlap.
LEMMA PrefixesOverlap ==
  ASSUME NEW a \in BPaths, NEW b \in BPaths, NEW c \in BPaths, IsPrefix(a, c), IsPrefix(b, c)
  PROVE  Overlap(a, b)
<1>1. Len(a) \in Nat /\ Len(b) \in Nat /\ Len(c) \in Nat
  BY DEF BPaths
<1>2. CASE Len(a) <= Len(b)
  <2>1. ASSUME NEW i \in 1 .. Len(a) PROVE a[i] = b[i]
    <3>1. i \in 1 .. Len(b)
      BY <1>1, <1>2
    <3> QED BY <3>1, PrefixAlong
  <2> QED BY <1>2, <2>1, PrefixAlong DEF Overlap
<1>3. CASE Len(b) <= Len(a)
  <2>1. ASSUME NEW i \in 1 .. Len(b) PROVE a[i] = b[i]
    <3>1. i \in 1 .. Len(a)
      BY <1>1, <1>3
    <3> QED BY <3>1, PrefixAlong
  <2> QED BY <1>3, <2>1, PrefixAlong DEF Overlap
<1> QED BY <1>1, <1>2, <1>3

LEMMA EmptyIsPrefix == << >> \in BPaths /\ \A a \in BPaths : IsPrefix(<< >>, a)
<1>1. PICK e : e = << >>
  OBVIOUS
<1>2. e \in BPaths /\ Len(e) = 0
  BY <1>1 DEF BPaths
<1>3. ASSUME NEW a \in BPaths PROVE IsPrefix(e, a)
  <2>1. Len(a) \in Nat
    BY DEF BPaths
  <2>2. Len(e) <= Len(a) /\ \A i \in 1 .. Len(e) : FALSE
    BY <1>2, <2>1
  <2> QED BY <1>2, <2>2, PrefixAlong
<1> QED BY <1>1, <1>2, <1>3

-----------------------------------------------------------------------------
(* Sets of leaves.                                                         *)

Paths(ls) == \A l \in ls : l[1] \in BPaths
Outside(ls, roots) == {l \in ls : ~UnderAny(roots, l[1])}
Apart(roots, others) == \A r \in roots, q \in others : ~Overlap(r, q)

LEMMA BelowIsUnder ==
  ASSUME NEW roots \in SUBSET BPaths, NEW p \in BPaths, UnderAny(roots, p), NEW x \in BPaths, IsPrefix(p, x)
  PROVE  UnderAny(roots, x)
  BY PrefixTrans DEF UnderAny, RootContains

\* What changes only below some roots leaves what is below others alone.
LEMMA ApartUntouched ==
  ASSUME NEW A, Paths(A), NEW B, Paths(B), NEW roots \in SUBSET BPaths, NEW others \in SUBSET BPaths,
         Apart(roots, others), Outside(A, roots) = Outside(B, roots)
  PROVE  LeavesUnder(A, others) = LeavesUnder(B, others)
<1>1. ASSUME NEW x \in BPaths, UnderAny(roots, x), UnderAny(others, x) PROVE FALSE
  BY <1>1, PrefixesOverlap DEF UnderAny, RootContains, Apart
<1>2. \A l : l \in A /\ UnderAny(others, l[1]) => l \in Outside(A, roots)
  BY <1>1 DEF Outside, Paths
<1>3. \A l : l \in B /\ UnderAny(others, l[1]) => l \in Outside(B, roots)
  BY <1>1 DEF Outside, Paths
<1> QED BY <1>2, <1>3 DEF Outside, LeavesUnder

\* What changes only below some roots changes only below more of them.
LEMMA OutsideMore ==
  ASSUME NEW A, NEW B, NEW roots, NEW more, roots \subseteq more, Outside(A, roots) = Outside(B, roots)
  PROVE  Outside(A, more) = Outside(B, more)
<1>1. \A x : UnderAny(roots, x) => UnderAny(more, x)
  BY DEF UnderAny
<1> QED BY <1>1 DEF Outside

\* The leaves are those below the roots and the others.
LEMMA UnderOrOutside == \A ls, roots : ls = LeavesUnder(ls, roots) \cup Outside(ls, roots)
  BY DEF LeavesUnder, Outside

-----------------------------------------------------------------------------
(* Patches.                                                                *)

\* A patch below the roots changes the leaves below the roots only, and those in
\* the same way in a store that holds no others.
LEMMA PatchStep ==
  ASSUME NEW A, Paths(A), NEW roots \in SUBSET BPaths,
         NEW p, p.path \in BPaths, UnderAny(roots, p.path), PatchLeaves(A, p).ok
  PROVE  \E B : /\ PatchLeaves(A, p) = Stored(B) /\ Paths(B)
                /\ PatchLeaves(LeavesUnder(A, roots), p) = Stored(LeavesUnder(B, roots))
                /\ Outside(B, roots) = Outside(A, roots)
<1> DEFINE U == LeavesUnder(A, roots)
           kept(ls) == {l \in ls : ~IsPrefix(p.path, l[1])}
           there(ls) == \E l \in ls : IsPrefix(p.path, l[1])
           blocked(ls) == \E l \in ls : l[1] # p.path /\ IsPrefix(l[1], p.path)
           put(ls) == kept(ls) \cup {<<p.path, p.val>>}
<1>1. \A l \in A : IsPrefix(p.path, l[1]) => UnderAny(roots, l[1])
  BY BelowIsUnder DEF Paths
<1>2. U \subseteq A /\ there(U) <=> there(A)
  BY <1>1 DEF LeavesUnder
<1>3. blocked(U) => blocked(A)
  BY DEF LeavesUnder
<1>4. /\ kept(U) = LeavesUnder(kept(A), roots) /\ Outside(kept(A), roots) = Outside(A, roots) /\ Paths(kept(A))
  BY <1>1 DEF LeavesUnder, Outside, Paths
<1>5. PICK n : n = <<p.path, p.val>>
  OBVIOUS
<1>6. n[1] = p.path
  BY <1>5
<1>7. put(U) = LeavesUnder(put(A), roots) /\ Outside(put(A), roots) = Outside(A, roots) /\ Paths(put(A))
  BY <1>4, <1>5, <1>6 DEF LeavesUnder, Outside, Paths
<1>8. \A ls : AddOp(ls, p.path, p.val) = IF blocked(ls) THEN Rejected ELSE Stored(put(ls))
  BY DEF AddOp
<1>9. \A ls : PatchLeaves(ls, p) =
         IF p.op = "upsert" \/ (p.op = "replace" /\ there(ls)) THEN AddOp(ls, p.path, p.val)
         ELSE IF p.op = "remove" /\ there(ls) THEN Stored(kept(ls)) ELSE Rejected
  BY DEF PatchLeaves
<1>10. Rejected.ok = FALSE
  BY DEF Rejected
<1> HIDE DEF U, kept, there, blocked, put
<1>11. CASE p.op = "upsert" \/ (p.op = "replace" /\ there(A))
  <2>1. ~blocked(A)
    BY <1>11, <1>8, <1>9, <1>10
  <2>2. PatchLeaves(A, p) = Stored(put(A)) /\ PatchLeaves(U, p) = Stored(put(U))
    BY <2>1, <1>11, <1>2, <1>3, <1>8, <1>9
  <2> QED BY <2>2, <1>7 DEF U
<1>12. CASE ~(p.op = "upsert" \/ (p.op = "replace" /\ there(A)))
  <2>1. p.op = "remove" /\ there(A)
    BY <1>12, <1>9, <1>10
  <2>2. PatchLeaves(A, p) = Stored(kept(A)) /\ PatchLeaves(U, p) = Stored(kept(U))
    BY <2>1, <1>2, <1>9
  <2> QED BY <2>2, <1>4 DEF U
<1> QED BY <1>11, <1>12

\* The recursion over the patches, unfolded.
LEMMA PatchedFacts ==
  ASSUME NEW ls, NEW P, NEW patches \in Seq(P)
  PROVE  LET g == PatchedUpTo(ls, patches)
         IN  /\ g[0] = Stored(ls)
             /\ \A k \in 1 .. Len(patches) :
                   g[k] = IF g[k - 1].ok THEN PatchLeaves(g[k - 1].st, patches[k]) ELSE Rejected
<1>0. PICK n, base : n = Len(patches) /\ base = Stored(ls)
  OBVIOUS
<1> DEFINE Step(k, v) == IF v.ok THEN PatchLeaves(v.st, patches[k]) ELSE Rejected
           Rec(f, m) == [k \in 0 .. m |-> IF k = 0 THEN base ELSE Step(k, f[k - 1])]
           S == {m \in Nat : \E f : f = Rec(f, m)}
<1>1. n \in Nat
  BY <1>0
<1>2. PatchedUpTo(ls, patches) = CHOOSE f : f = Rec(f, n)
  BY <1>0 DEF PatchedUpTo
<1> HIDE DEF Step
<1>3. 0 \in S
  <2>1. [k \in 0 .. 0 |-> base] = Rec([k \in 0 .. 0 |-> base], 0)
    OBVIOUS
  <2> QED BY <2>1
<1>4. ASSUME NEW m \in Nat, m \in S PROVE m + 1 \in S
  <2>1. PICK f : f = Rec(f, m)
    BY <1>4
  <2> DEFINE h == [k \in 0 .. m + 1 |-> IF k = 0 THEN base ELSE Step(k, f[k - 1])]
  <2>2. \A k \in 0 .. m : h[k] = f[k]
    BY <2>1
  <2>3. \A k \in 0 .. m + 1 : k # 0 => k - 1 \in 0 .. m
    OBVIOUS
  <2>4. \A k \in 0 .. m + 1 : k # 0 => h[k - 1] = f[k - 1]
    BY <2>2, <2>3
  <2> DEFINE x == Rec(h, m + 1)
  <2>5. \A k \in 0 .. m + 1 : h[k] = x[k]
    BY <2>4
  <2>6. h = x
    BY <2>5
  <2>7. h = Rec(h, m + 1)
    BY <2>6
  <2> HIDE DEF h
  <2>8. \E e : e = Rec(e, m + 1)
    BY <2>7
  <2> QED BY <2>8
<1> HIDE DEF S
<1>5. n \in S
  BY <1>1, <1>3, <1>4, Induction
<1>6. PICK g : g = PatchedUpTo(ls, patches)
  OBVIOUS
<1>7. g = Rec(g, n)
  BY <1>2, <1>5, <1>6 DEF S
<1>8. g[0] = base
  BY <1>1, <1>7
<1>9. ASSUME NEW k \in 1 .. n PROVE g[k] = Step(k, g[k - 1])
  <2>1. k \in 0 .. n /\ k # 0
    BY <1>1
  <2> QED BY <2>1, <1>7
<1> QED BY <1>0, <1>6, <1>8, <1>9 DEF Step

\* All patches of a bundle: as PatchStep.
LEMMA PatchesFacts ==
  ASSUME NEW A, Paths(A), NEW roots \in SUBSET BPaths, NEW P, NEW patches \in Seq(P),
         \A k \in 1 .. Len(patches) : patches[k].path \in BPaths /\ UnderAny(roots, patches[k].path),
         ApplyPatches(A, patches).ok
  PROVE  \E B : /\ ApplyPatches(A, patches) = Stored(B) /\ Paths(B)
                /\ ApplyPatches(LeavesUnder(A, roots), patches) = Stored(LeavesUnder(B, roots))
                /\ Outside(B, roots) = Outside(A, roots)
<1>0. PICK n, U, g, h : /\ n = Len(patches) /\ U = LeavesUnder(A, roots)
                        /\ g = PatchedUpTo(A, patches) /\ h = PatchedUpTo(U, patches)
  OBVIOUS
<1> DEFINE Good(k, B) == /\ g[k] = Stored(B) /\ Paths(B) /\ h[k] = Stored(LeavesUnder(B, roots))
                         /\ Outside(B, roots) = Outside(A, roots)
           K == {k \in 0 .. n : g[k].ok => \E B : Good(k, B)}
<1>1. n \in Nat /\ 0 \in 0 .. n
  BY <1>0
<1>2. /\ g[0] = Stored(A) /\ h[0] = Stored(U)
      /\ \A k \in 1 .. n : g[k] = IF g[k - 1].ok THEN PatchLeaves(g[k - 1].st, patches[k]) ELSE Rejected
      /\ \A k \in 1 .. n : h[k] = IF h[k - 1].ok THEN PatchLeaves(h[k - 1].st, patches[k]) ELSE Rejected
  BY <1>0, PatchedFacts
<1>3. 0 \in K
  <2>1. Good(0, A)
    BY <1>0, <1>2
  <2> QED BY <2>1, <1>1
<1>4. ASSUME NEW k \in 1 .. n, k - 1 \in K PROVE k \in K
  <2>0. k \in 0 .. n
    BY <1>1
  <2> SUFFICES ASSUME g[k].ok PROVE \E B : Good(k, B)
    BY <2>0
  <2>1. g[k - 1].ok
    BY <1>2 DEF Rejected
  <2>2. PICK C : Good(k - 1, C)
    BY <1>4, <2>1
  <2>3. \A s : Stored(s).ok /\ Stored(s).st = s
    BY DEF Stored
  <2>4. g[k] = PatchLeaves(C, patches[k]) /\ h[k] = PatchLeaves(LeavesUnder(C, roots), patches[k])
    BY <2>2, <2>3, <1>2
  <2>5. PICK p : p = patches[k]
    OBVIOUS
  <2>6. p.path \in BPaths /\ UnderAny(roots, p.path)
    BY <2>5, <1>0
  <2>7. PICK B : /\ PatchLeaves(C, p) = Stored(B) /\ Paths(B)
                 /\ PatchLeaves(LeavesUnder(C, roots), p) = Stored(LeavesUnder(B, roots))
                 /\ Outside(B, roots) = Outside(C, roots)
    BY <2>2, <2>4, <2>5, <2>6, PatchStep
  <2>8. Good(k, B)
    BY <2>2, <2>4, <2>5, <2>7
  <2> QED BY <2>8
<1>5. n \in K
  <2> HIDE DEF K
  <2>1. 0 .. n \subseteq K
    BY <1>1, <1>3, <1>4, AlongList
  <2> QED BY <2>1, <1>1
<1>6. ApplyPatches(A, patches) = g[n] /\ ApplyPatches(U, patches) = h[n]
  BY <1>0 DEF ApplyPatches
<1> QED BY <1>0, <1>5, <1>6

-----------------------------------------------------------------------------
(* What the loops over the bundles write.                                  *)

LEMMA DataStep ==
  ASSUME NEW A, Paths(A), NEW roots \in SUBSET BPaths, NEW new, Paths(new),
         LeavesUnder(A, roots) = {} \/ << >> \in roots, WriteBundleData(A, roots, new).ok
  PROVE  \E B : /\ WriteBundleData(A, roots, new) = Stored(B) /\ Paths(B)
                /\ LeavesUnder(B, roots) = LeavesUnder(new, roots)
                /\ Outside(B, roots) = Outside(A, roots)
<1> DEFINE there == {r \in roots : r = << >> \/ \E l \in new : IsPrefix(r, l[1])}
           rest == {l \in A : ~UnderAny(there, l[1])}
           B == rest \cup LeavesUnder(new, there)
<1>1. WriteBundleData(A, roots, new) = Stored(B)
  BY DEF WriteBundleData, Rejected
<1>2. there \subseteq roots /\ \A x : UnderAny(there, x) => UnderAny(roots, x)
  BY DEF UnderAny
<1>3. LeavesUnder(new, there) = LeavesUnder(new, roots)
  BY <1>2 DEF LeavesUnder, UnderAny, RootContains
<1>4. ASSUME NEW l \in rest PROVE ~UnderAny(roots, l[1])
  <2>1. CASE LeavesUnder(A, roots) = {}
    BY <2>1 DEF LeavesUnder
  <2>2. CASE << >> \in roots
    BY <2>2, <1>4, EmptyIsPrefix DEF UnderAny, RootContains, Paths
  <2> QED BY <2>1, <2>2
<1>5. Paths(B)
  BY DEF Paths, LeavesUnder
<1>6. \A l \in A : ~UnderAny(roots, l[1]) => l \in rest
  BY <1>2
<1>7. rest \subseteq A /\ B = rest \cup LeavesUnder(new, roots)
  BY <1>3
<1> HIDE DEF there, rest, B
<1>8. LeavesUnder(B, roots) = LeavesUnder(new, roots)
  BY <1>4, <1>7 DEF LeavesUnder
<1>9. Outside(B, roots) = Outside(A, roots)
  BY <1>4, <1>6, <1>7 DEF LeavesUnder, Outside
<1> QED BY <1>1, <1>5, <1>8, <1>9

LEMMA BundleLeavesPaths == ASSUME NEW b, WellFormed(b) PROVE Paths(BundleLeaves(b))
<1> SUFFICES ASSUME NEW l \in BundleLeaves(b) PROVE l[1] \in BPaths
  BY DEF Paths
<1>1. PICK f \in b.files : \E k \in f.leaves : l = <<f.dir \o k[1], k[2]>>
  BY DEF BundleLeaves
<1>2. PICK k \in f.leaves : l = <<f.dir \o k[1], k[2]>>
  BY <1>1
<1>3. f.dir \in BPaths /\ k[1] \in BPaths /\ l[1] = f.dir \o k[1]
  BY <1>2 DEF WellFormed
<1> QED BY <1>3 DEF BPaths

\* The leaves a bundle leaves below its roots, where it found those of ls, and the
\* modules it adds.
Brings(b, ls) ==
    IF b.type = "delta" THEN ApplyPatches(ls, b.patches).st ELSE LeavesUnder(BundleLeaves(b), b.roots)
Adds(b) == IF b.type = "delta" THEN {} ELSE b.modules
Ready(b, ls) == b.type = "delta" \/ LeavesUnder(ls, b.roots) = {} \/ << >> \in b.roots

LEMMA BundleStep ==
  ASSUME NEW st, Paths(st.leaves), NEW b, WellFormed(b), Ready(b, st.leaves), WriteBundle(st, b).ok
  PROVE  \E to : /\ WriteBundle(st, b) = Stored(to) /\ Paths(to.leaves)
                 /\ to.modules = st.modules \cup Adds(b) /\ to.manifests = st.manifests
                 /\ LeavesUnder(to.leaves, b.roots) = Brings(b, LeavesUnder(st.leaves, b.roots))
                 /\ Outside(to.leaves, b.roots) = Outside(st.leaves, b.roots)
<1> DEFINE r == IF b.type = "delta" THEN ApplyPatches(st.leaves, b.patches)
                ELSE WriteBundleData(st.leaves, b.roots, BundleLeaves(b))
<1>1. WriteBundle(st, b) = WithBundle(st, r, Adds(b))
  BY DEF WriteBundle, Adds
<1>2. r.ok /\ WithBundle(st, r, Adds(b)) = Stored(Store(r.st, st.modules \cup Adds(b), st.manifests))
  BY <1>1 DEF WithBundle, Rejected
<1>3. \A s : Stored(s).st = s
  BY DEF Stored
<1>4. b.roots \in SUBSET BPaths
  BY DEF WellFormed
<1>5. PICK B : /\ r = Stored(B) /\ Paths(B) /\ LeavesUnder(B, b.roots) = Brings(b, LeavesUnder(st.leaves, b.roots))
               /\ Outside(B, b.roots) = Outside(st.leaves, b.roots)
  <2>1. CASE b.type = "delta"
    <3>1. \A k \in 1 .. Len(b.patches) : b.patches[k].path \in BPaths /\ UnderAny(b.roots, b.patches[k].path)
      BY DEF WellFormed, UnderAny, RootContains, ToSet
    <3>2. b.patches \in Seq(ToSet(b.patches)) /\ ApplyPatches(st.leaves, b.patches).ok
      BY <2>1, <1>2 DEF WellFormed
    <3>3. PICK B : /\ ApplyPatches(st.leaves, b.patches) = Stored(B) /\ Paths(B)
                   /\ ApplyPatches(LeavesUnder(st.leaves, b.roots), b.patches) = Stored(LeavesUnder(B, b.roots))
                   /\ Outside(B, b.roots) = Outside(st.leaves, b.roots)
      BY <1>4, <3>1, <3>2, PatchesFacts
    <3> QED BY <2>1, <3>3, <1>3 DEF Brings
  <2>2. CASE b.type # "delta"
    <3>1. LeavesUnder(st.leaves, b.roots) = {} \/ << >> \in b.roots
      BY <2>2 DEF Ready
    <3>2. WriteBundleData(st.leaves, b.roots, BundleLeaves(b)).ok
      BY <2>2, <1>2
    <3>3. PICK B : /\ WriteBundleData(st.leaves, b.roots, BundleLeaves(b)) = Stored(B) /\ Paths(B)
                   /\ LeavesUnder(B, b.roots) = LeavesUnder(BundleLeaves(b), b.roots)
                   /\ Outside(B, b.roots) = Outside(st.leaves, b.roots)
      BY <1>4, <3>1, <3>2, DataStep, BundleLeavesPaths
    <3> QED BY <2>2, <3>3 DEF Brings
  <2> QED BY <2>1, <2>2
<1> HIDE DEF r
<1> DEFINE to == [leaves |-> B, modules |-> st.modules \cup Adds(b), manifests |-> st.manifests]
<1>6. Store(r.st, st.modules \cup Adds(b), st.manifests) = to
  BY <1>3, <1>5 DEF Store
<1>7. to.leaves = B /\ to.modules = st.modules \cup Adds(b) /\ to.manifests = st.manifests
  OBVIOUS
<1> HIDE DEF to
<1> QED BY <1>1, <1>2, <1>5, <1>6, <1>7

\* The recursion over the names, unfolded.
LEMMA WrittenFacts ==
  ASSUME NEW st, NEW bs, NEW T, NEW order \in Seq(T)
  PROVE  LET g == WrittenUpTo(st, bs, order)
         IN  /\ g[0] = Stored(st)
             /\ \A k \in 1 .. Len(order) :
                   g[k] = IF g[k - 1].ok /\ order[k] \in DOMAIN bs THEN WriteBundle(g[k - 1].st, bs[order[k]])
                          ELSE g[k - 1]
<1>0. PICK n, base : n = Len(order) /\ base = Stored(st)
  OBVIOUS
<1> DEFINE Step(k, v) == IF v.ok /\ order[k] \in DOMAIN bs THEN WriteBundle(v.st, bs[order[k]]) ELSE v
           Rec(f, m) == [k \in 0 .. m |-> IF k = 0 THEN base ELSE Step(k, f[k - 1])]
           S == {m \in Nat : \E f : f = Rec(f, m)}
<1>1. n \in Nat
  BY <1>0
<1>2. WrittenUpTo(st, bs, order) = CHOOSE f : f = Rec(f, n)
  BY <1>0 DEF WrittenUpTo
<1> HIDE DEF Step
<1>3. 0 \in S
  <2>1. [k \in 0 .. 0 |-> base] = Rec([k \in 0 .. 0 |-> base], 0)
    OBVIOUS
  <2> QED BY <2>1
<1>4. ASSUME NEW m \in Nat, m \in S PROVE m + 1 \in S
  <2>1. PICK f : f = Rec(f, m)
    BY <1>4
  <2> DEFINE h == [k \in 0 .. m + 1 |-> IF k = 0 THEN base ELSE Step(k, f[k - 1])]
  <2>2. \A k \in 0 .. m : h[k] = f[k]
    BY <2>1
  <2>3. \A k \in 0 .. m + 1 : k # 0 => k - 1 \in 0 .. m
    OBVIOUS
  <2>4. \A k \in 0 .. m + 1 : k # 0 => h[k - 1] = f[k - 1]
    BY <2>2, <2>3
  <2> DEFINE x == Rec(h, m + 1)
  <2>5. \A k \in 0 .. m + 1 : h[k] = x[k]
    BY <2>4
  <2>6. h = x
    BY <2>5
  <2>7. h = Rec(h, m + 1)
    BY <2>6
  <2> HIDE DEF h
  <2>8. \E e : e = Rec(e, m + 1)
    BY <2>7
  <2> QED BY <2>8
<1> HIDE DEF S
<1>5. n \in S
  BY <1>1, <1>3, <1>4, Induction
<1>6. PICK g : g = WrittenUpTo(st, bs, order)
  OBVIOUS
<1>7. g = Rec(g, n)
  BY <1>2, <1>5, <1>6 DEF S
<1>8. g[0] = base
  BY <1>1, <1>7
<1>9. ASSUME NEW k \in 1 .. n PROVE g[k] = Step(k, g[k - 1])
  <2>1. k \in 0 .. n /\ k # 0
    BY <1>1
  <2> QED BY <2>1, <1>7
<1> QED BY <1>0, <1>6, <1>8, <1>9 DEF Step

Separate(bs) == \A n, m \in DOMAIN bs : n # m => Apart(bs[n].roots, bs[m].roots)
RootsOf(bs) == UNION {bs[n].roots : n \in DOMAIN bs}
Enumerates(order, bs) ==
    /\ \A i, j \in 1 .. Len(order) : order[i] = order[j] => i = j
    /\ \A n \in DOMAIN bs : \E k \in 1 .. Len(order) : order[k] = n

\* A loop over bundles with separate roots leaves below the roots of each what that
\* one brings, whatever the order of the names, and everything else as it was.
LEMMA LoopFacts ==
  ASSUME NEW st, Paths(st.leaves), NEW bs, Separate(bs),
         \A n \in DOMAIN bs : WellFormed(bs[n]) /\ Ready(bs[n], st.leaves),
         NEW T, NEW order \in Seq(T), Enumerates(order, bs), WriteDataAndModules(st, bs, order).ok
  PROVE  \E to : /\ WriteDataAndModules(st, bs, order) = Stored(to) /\ Paths(to.leaves)
                 /\ to.manifests = st.manifests
                 /\ to.modules = st.modules \cup UNION {Adds(bs[n]) : n \in DOMAIN bs}
                 /\ \A n \in DOMAIN bs : LeavesUnder(to.leaves, bs[n].roots)
                                           = Brings(bs[n], LeavesUnder(st.leaves, bs[n].roots))
                 /\ Outside(to.leaves, RootsOf(bs)) = Outside(st.leaves, RootsOf(bs))
<1>0. PICK n, g : n = Len(order) /\ g = WrittenUpTo(st, bs, order)
  OBVIOUS
<1> DEFINE done(k) == {a \in DOMAIN bs : \E j \in 1 .. k : order[j] = a}
           Under(ls, a) == LeavesUnder(ls, bs[a].roots)
           Each(k, to) == \A a \in DOMAIN bs :
               Under(to.leaves, a) = IF a \in done(k) THEN Brings(bs[a], Under(st.leaves, a)) ELSE Under(st.leaves, a)
           Mods(k, to) == to.modules = st.modules \cup UNION {Adds(bs[a]) : a \in done(k)}
           Rest(k, to) == /\ g[k] = Stored(to) /\ Paths(to.leaves) /\ to.manifests = st.manifests
                          /\ Outside(to.leaves, RootsOf(bs)) = Outside(st.leaves, RootsOf(bs))
           Good(k, to) == Rest(k, to) /\ Mods(k, to) /\ Each(k, to)
           K == {k \in 0 .. n : g[k].ok => \E to : Good(k, to)}
<1>1. n \in Nat /\ 0 \in 0 .. n
  BY <1>0
<1>2. /\ g[0] = Stored(st)
      /\ \A k \in 1 .. n : g[k] = IF g[k - 1].ok /\ order[k] \in DOMAIN bs THEN WriteBundle(g[k - 1].st, bs[order[k]])
                                  ELSE g[k - 1]
  BY <1>0, WrittenFacts
<1>3. 0 \in K
  <2>1. done(0) = {}
    OBVIOUS
  <2>2. Good(0, st)
    BY <2>1, <1>2
  <2> QED BY <2>2, <1>1
<1>4. ASSUME NEW k \in 1 .. n, k - 1 \in K PROVE k \in K
  <2>0. k \in 0 .. n
    BY <1>1
  <2> SUFFICES ASSUME g[k].ok PROVE \E to : Good(k, to)
    BY <2>0
  <2>1. g[k - 1].ok
    BY <1>2
  <2>2. PICK C : Good(k - 1, C)
    BY <1>4, <2>1
  <2>3. PICK m : m = order[k]
    OBVIOUS
  <2>4. done(k) = done(k - 1) \cup {a \in DOMAIN bs : a = m}
    <3>1. \A j : j \in 1 .. k <=> j \in 1 .. k - 1 \/ j = k
      BY <1>1
    <3> QED BY <3>1, <2>3
  <2>5. CASE m \notin DOMAIN bs
    <3>1. done(k) = done(k - 1)
      BY <2>4, <2>5
    <3>2. g[k] = g[k - 1]
      BY <2>3, <2>5, <1>2
    <3>3. Good(k, C)
      <4> HIDE DEF done
      <4> QED BY <2>2, <3>1, <3>2
    <3> QED BY <3>3
  <2>6. CASE m \in DOMAIN bs
    <3>1. m \notin done(k - 1)
      <4> SUFFICES ASSUME NEW j \in 1 .. k - 1, order[j] = order[k] PROVE FALSE
        BY <2>3
      <4>1. j \in 1 .. n /\ j # k
        BY <1>1
      <4> QED BY <4>1, <1>0 DEF Enumerates
    <3>2. \A s : Stored(s).ok /\ Stored(s).st = s
      BY DEF Stored
    <3>3. g[k] = WriteBundle(C, bs[m])
      BY <2>2, <2>3, <2>6, <3>2, <1>2
    <3>4. PICK b : b = bs[m]
      OBVIOUS
    <3>5. WellFormed(b) /\ b.roots \in SUBSET BPaths
      BY <2>6, <3>4 DEF WellFormed
    <3>6. LeavesUnder(C.leaves, b.roots) = LeavesUnder(st.leaves, b.roots)
      <4> HIDE DEF done
      <4> QED BY <2>2, <2>6, <3>1, <3>4
    <3>7. Ready(b, C.leaves) /\ Paths(C.leaves)
      BY <2>2, <2>6, <3>4, <3>6 DEF Ready
    <3>8. PICK to : /\ WriteBundle(C, b) = Stored(to) /\ Paths(to.leaves)
                    /\ to.modules = C.modules \cup Adds(b) /\ to.manifests = C.manifests
                    /\ LeavesUnder(to.leaves, b.roots) = Brings(b, LeavesUnder(C.leaves, b.roots))
                    /\ Outside(to.leaves, b.roots) = Outside(C.leaves, b.roots)
      BY <3>3, <3>4, <3>5, <3>7, BundleStep
    <3>9. Rest(k, to)
      <4>1. b.roots \subseteq RootsOf(bs)
        BY <2>6, <3>4 DEF RootsOf
      <4>2. Outside(to.leaves, RootsOf(bs)) = Outside(C.leaves, RootsOf(bs))
        BY <3>8, <4>1, OutsideMore
      <4> QED BY <2>2, <3>3, <3>4, <3>8, <4>2
    <3>10. done(k) = done(k - 1) \cup {m}
      BY <2>4, <2>6
    <3> HIDE DEF done
    <3>11. Mods(k, to)
      BY <2>2, <3>8, <3>4, <3>10
    <3>12. Each(k, to)
      <4> SUFFICES ASSUME NEW a \in DOMAIN bs
                   PROVE  Under(to.leaves, a) = IF a \in done(k) THEN Brings(bs[a], Under(st.leaves, a)) ELSE Under(st.leaves, a)
        OBVIOUS
      <4>1. CASE a = m
        BY <4>1, <3>4, <3>6, <3>8, <3>10
      <4>2. CASE a # m
        <5>1. Apart(b.roots, bs[a].roots) /\ bs[a].roots \in SUBSET BPaths
          BY <4>2, <2>6, <3>4 DEF Separate, WellFormed
        <5>2. LeavesUnder(to.leaves, bs[a].roots) = LeavesUnder(C.leaves, bs[a].roots)
          BY <5>1, <3>5, <3>7, <3>8, ApartUntouched
        <5> QED BY <5>2, <4>2, <2>2, <3>10
      <4> QED BY <4>1, <4>2
    <3> HIDE DEF Rest, Mods, Each
    <3> QED BY <3>9, <3>11, <3>12
  <2> QED BY <2>5, <2>6
<1>5. n \in K
  <2> HIDE DEF K
  <2>1. 0 .. n \subseteq K
    BY <1>1, <1>3, <1>4, AlongList
  <2> QED BY <2>1, <1>1
<1>6. WriteDataAndModules(st, bs, order) = g[n]
  BY <1>0 DEF WriteDataAndModules
<1>7. done(n) = DOMAIN bs
  BY <1>0 DEF Enumerates
<1>8. PICK to : Good(n, to)
  BY <1>5, <1>6
<1> QED BY <1>6, <1>7, <1>8

-----------------------------------------------------------------------------
(* One activation.                                                         *)

Deltas(bs) == RestrictTo(bs, "delta")
Snaps(bs) == RestrictTo(bs, "snapshot")

LEMMA Restricted ==
  ASSUME NEW bs \in BundleSets
  PROVE  /\ DOMAIN Deltas(bs) = {n \in DOMAIN bs : bs[n].type = "delta"}
         /\ DOMAIN Snaps(bs) = {n \in DOMAIN bs : bs[n].type = "snapshot"}
         /\ DOMAIN bs = DOMAIN Deltas(bs) \cup DOMAIN Snaps(bs)
         /\ \A n \in DOMAIN Deltas(bs) : Deltas(bs)[n] = bs[n] /\ bs[n].type = "delta"
         /\ \A n \in DOMAIN Snaps(bs) : Snaps(bs)[n] = bs[n] /\ bs[n].type = "snapshot"
<1>1. \A n \in DOMAIN bs : bs[n].type \in {"snapshot", "delta"}
  BY BundleAssumption DEF WellFormed
<1> QED BY <1>1 DEF Deltas, Snaps, RestrictTo

LEMMA OrderFacts ==
  ASSUME NEW bs \in BundleSets, NEW order \in NameOrders(bs)
  PROVE  order \in Seq(DOMAIN bs) /\ Enumerates(order, bs)
<1>1. PICK n : n = Cardinality(DOMAIN bs)
  OBVIOUS
<1>2. n \in Nat
  BY <1>1, BundleAssumption, FS_CardinalityType
<1>3. order \in Injection(1 .. n, DOMAIN bs) /\ order \in Surjection(1 .. n, DOMAIN bs)
  BY <1>1 DEF NameOrders, Bijection
<1>4. order \in [1 .. n -> DOMAIN bs]
  BY <1>3 DEF Injection
<1>5. order \in Seq(DOMAIN bs) /\ Len(order) = n /\ DOMAIN order = 1 .. n
  BY <1>2, <1>4
<1> QED BY <1>3, <1>5 DEF Injection, Surjection, IsInjective, Enumerates

\* What the state must be like, and what a successful call makes of it: deltas first
\* (they give mid), then the erasing, then the snapshots (they give end).
Sound(st) ==
    /\ Paths(st.leaves) /\ \A m \in st.modules : m.package \in BPaths
    /\ \A n \in BNames : st.manifests[n] # NoBundle => st.manifests[n].roots \in SUBSET BPaths
NewManifests(st, bs) == [n \in BNames |-> IF n \in DOMAIN bs THEN ManifestOf(bs[n]) ELSE st.manifests[n]]
Patched(st, bs, mid) ==
    /\ Paths(mid) /\ Outside(mid, RootsOf(Deltas(bs))) = Outside(st.leaves, RootsOf(Deltas(bs)))
    /\ \A n \in DOMAIN Deltas(bs) :
          /\ LeavesUnder(mid, bs[n].roots) = ApplyPatches(LeavesUnder(st.leaves, bs[n].roots), bs[n].patches).st
          /\ st.manifests[n] # NoBundle => bs[n].roots = st.manifests[n].roots
Replaced(bs, left, end) ==
    /\ Paths(end) /\ Outside(end, RootsOf(Snaps(bs))) = Outside(left, RootsOf(Snaps(bs)))
    /\ \A n \in DOMAIN Snaps(bs) : LeavesUnder(end, bs[n].roots) = LeavesUnder(BundleLeaves(bs[n]), bs[n].roots)

LEMMA ActivationFacts ==
  ASSUME NEW st, Sound(st), NEW bs \in BundleSets, NEW order \in NameOrders(bs),
         ActivateBundles(st, bs, order).ok
  PROVE  /\ ~HasRootsOverlap(st, bs)
         /\ \E mid, end :
              LET gone == RootsToErase(st, Snaps(bs))
              IN  /\ Patched(st, bs, mid) /\ Replaced(bs, EraseData(mid, gone), end)
                  /\ ActivateBundles(st, bs, order) = Stored(Store(end,
                        ErasePolicies(st.modules, gone) \cup UNION {bs[n].modules : n \in DOMAIN Snaps(bs)},
                        NewManifests(st, bs)))
<1>0. PICK D, S, r, gone : /\ D = Deltas(bs) /\ S = Snaps(bs) /\ r = ActivateDeltaBundles(st, D, order)
                           /\ gone = RootsToErase(st, S)
  OBVIOUS
<1>1. /\ DOMAIN bs = DOMAIN D \cup DOMAIN S /\ DOMAIN bs \subseteq BNames
      /\ \A n \in DOMAIN D : D[n] = bs[n] /\ bs[n].type = "delta" /\ n \notin DOMAIN S
      /\ \A n \in DOMAIN S : S[n] = bs[n] /\ bs[n].type = "snapshot"
      /\ \A n \in DOMAIN bs : WellFormed(bs[n])
  BY <1>0, Restricted, BundleAssumption
<1>2. ~HasRootsOverlap(st, bs) /\ ActivateBundles(st, bs, order) = AfterDeltas(r, st, S, order)
  BY <1>0 DEF ActivateBundles, Rejected, Deltas, Snaps
<1>3. \A n, m \in DOMAIN bs : n # m => Apart(bs[n].roots, bs[m].roots)
  BY <1>2 DEF HasRootsOverlap, Apart
<1>4. order \in Seq(DOMAIN bs) /\ Enumerates(order, D) /\ Enumerates(order, S)
  BY <1>1, OrderFacts DEF Enumerates
<1>5. /\ r.ok
      /\ AfterDeltas(r, st, S, order) = ActivateSnapshots(EraseBundles(r.st, DOMAIN S, gone), S, order)
  BY <1>0, <1>2 DEF AfterDeltas, Rejected
<1>6. /\ \A n \in DOMAIN D : st.manifests[n] # NoBundle => bs[n].roots = st.manifests[n].roots
      /\ r = WithManifests(WriteDataAndModules(st, D, order), D)
  BY <1>0, <1>1, <1>5 DEF ActivateDeltaBundles, Rejected, EqualWasmResolversAndRoots
<1>7. /\ WriteDataAndModules(st, D, order).ok
      /\ r = Stored(WriteManifests(WriteDataAndModules(st, D, order).st, D))
  BY <1>5, <1>6 DEF WithManifests, Rejected
<1>8. Separate(D) /\ Separate(S)
  BY <1>1, <1>3 DEF Separate
<1>9. PICK one : /\ WriteDataAndModules(st, D, order) = Stored(one) /\ Paths(one.leaves)
                 /\ one.manifests = st.manifests
                 /\ one.modules = st.modules \cup UNION {Adds(D[n]) : n \in DOMAIN D}
                 /\ \A n \in DOMAIN D : LeavesUnder(one.leaves, D[n].roots)
                                           = Brings(D[n], LeavesUnder(st.leaves, D[n].roots))
                 /\ Outside(one.leaves, RootsOf(D)) = Outside(st.leaves, RootsOf(D))
  <2>1. \A n \in DOMAIN D : WellFormed(D[n]) /\ Ready(D[n], st.leaves)
    BY <1>1 DEF Ready
  <2> QED BY <2>1, <1>4, <1>7, <1>8, LoopFacts DEF Sound
<1>10. one.modules = st.modules
  BY <1>9, <1>1 DEF Adds
<1>11. Patched(st, bs, one.leaves)
  BY <1>0, <1>1, <1>6, <1>9 DEF Patched, Brings
<1>12. PICK two : two = EraseBundles(r.st, DOMAIN S, gone)
  OBVIOUS
<1>13. /\ two.leaves = EraseData(one.leaves, gone) /\ two.modules = ErasePolicies(st.modules, gone)
       /\ \A n \in BNames : n \notin DOMAIN S => two.manifests[n] = IF n \in DOMAIN D THEN ManifestOf(bs[n]) ELSE st.manifests[n]
  <2>1. r.st = WriteManifests(one, D)
    BY <1>7, <1>9 DEF Stored
  <2>2. /\ r.st.leaves = one.leaves /\ r.st.modules = st.modules
        /\ \A n \in BNames : r.st.manifests[n] = IF n \in DOMAIN D THEN ManifestOf(D[n]) ELSE st.manifests[n]
    BY <2>1, <1>9, <1>10 DEF WriteManifests, Store
  <2>3. /\ two.leaves = EraseData(r.st.leaves, gone) /\ two.modules = ErasePolicies(r.st.modules, gone)
        /\ \A n \in BNames : n \notin DOMAIN S => two.manifests[n] = r.st.manifests[n]
    BY <1>12 DEF EraseBundles, Store
  <2> QED BY <2>2, <2>3, <1>1
<1>14. Paths(two.leaves)
  BY <1>9, <1>13 DEF EraseData, Paths
<1>15. /\ WriteDataAndModules(two, S, order).ok
       /\ AfterDeltas(r, st, S, order) = Stored(WriteManifests(WriteDataAndModules(two, S, order).st, S))
  BY <1>2, <1>5, <1>12 DEF ActivateSnapshots, Conclude, WithManifests, Rejected
<1>16. \A n \in DOMAIN S : WellFormed(S[n]) /\ Ready(S[n], two.leaves)
  <2> SUFFICES ASSUME NEW n \in DOMAIN S, << >> \notin S[n].roots PROVE LeavesUnder(two.leaves, S[n].roots) = {}
    BY <1>1 DEF Ready
  <2>1. S[n].roots \subseteq gone
    BY <1>0 DEF RootsToErase
  <2> QED BY <2>1, <1>13 DEF EraseData, LeavesUnder, UnderAny, RootContains
<1>17. PICK end : /\ WriteDataAndModules(two, S, order) = Stored(end) /\ Paths(end.leaves)
                  /\ end.manifests = two.manifests
                  /\ end.modules = two.modules \cup UNION {Adds(S[n]) : n \in DOMAIN S}
                  /\ \A n \in DOMAIN S : LeavesUnder(end.leaves, S[n].roots)
                                            = Brings(S[n], LeavesUnder(two.leaves, S[n].roots))
                  /\ Outside(end.leaves, RootsOf(S)) = Outside(two.leaves, RootsOf(S))
  <2>1. WriteDataAndModules(two, S, order).ok
    BY <1>15
  <2> QED BY <2>1, <1>4, <1>8, <1>14, <1>16, LoopFacts
<1>18. Replaced(bs, EraseData(one.leaves, gone), end.leaves)
  BY <1>0, <1>1, <1>13, <1>17 DEF Replaced, Brings
<1>19. end.modules = ErasePolicies(st.modules, gone) \cup UNION {bs[n].modules : n \in DOMAIN S}
  <2>1. \A n \in DOMAIN S : Adds(S[n]) = bs[n].modules
    BY <1>1 DEF Adds
  <2> QED BY <2>1, <1>13, <1>17
<1>20. WriteManifests(end, S) = Store(end.leaves, end.modules, NewManifests(st, bs))
  <2>1. \A n \in BNames : (IF n \in DOMAIN S THEN ManifestOf(S[n]) ELSE end.manifests[n])
                             = IF n \in DOMAIN bs THEN ManifestOf(bs[n]) ELSE st.manifests[n]
    BY <1>1, <1>13, <1>17
  <2> QED BY <2>1 DEF WriteManifests, NewManifests
<1>21. ActivateBundles(st, bs, order) = Stored(Store(end.leaves, end.modules, NewManifests(st, bs)))
  BY <1>2, <1>15, <1>17, <1>20 DEF Stored
<1> QED BY <1>0, <1>2, <1>11, <1>18, <1>19, <1>21

-----------------------------------------------------------------------------
(* The inductive invariant.                                                *)

PathsInv ==
    /\ Paths(leaves) /\ \A m \in modules : m.package \in BPaths
    /\ \A n \in BNames : manifests[n] # NoBundle => manifests[n].roots \in SUBSET BPaths

\* Below its roots the store holds what an active bundle put there.
OwnInv ==
    \A n \in BNames : shipped[n].based =>
        /\ manifests[n] # NoBundle
        /\ LeavesUnder(leaves, manifests[n].roots) = shipped[n].leaves
        /\ {m \in modules : UnderAny(manifests[n].roots, m.package)} = shipped[n].modules

\* What no active bundle owns was put there by a client; ownedAll marks the exception.
UnownedInv ==
    /\ \A l \in leaves : UnderAny(ActiveRoots, l[1]) \/ ownedAll \/ l \in ClientLeaves
    /\ \A m \in modules : UnderAny(ActiveRoots, m.package) \/ m \in ClientModules
    /\ \A n \in BNames : manifests[n] # NoBundle /\ << >> \in manifests[n].roots => ownedAll

IBundle == PathsInv /\ RootsDisjoint /\ OwnInv /\ UnownedInv

\* A successful activation, in the terms of the lemmas above.
Step(bs, mid, end) ==
    LET st == Store(leaves, modules, manifests)
        gone == RootsToErase(st, Snaps(bs))
    IN  /\ bs \in BundleSets /\ Patched(st, bs, mid) /\ Replaced(bs, EraseData(mid, gone), end)
        /\ leaves' = end
        /\ modules' = ErasePolicies(modules, gone) \cup UNION {bs[n].modules : n \in DOMAIN Snaps(bs)}
        /\ \A n \in BNames : /\ manifests'[n] = IF n \in DOMAIN bs THEN ManifestOf(bs[n]) ELSE manifests[n]
                             /\ shipped'[n] = IF n \in DOMAIN bs THEN Ship(n, bs[n]) ELSE shipped[n]
        /\ ownedAll' = (ownedAll \/ \E n \in DOMAIN bs : << >> \in bs[n].roots)
        /\ \A n, m \in DOMAIN bs : n # m => Apart(bs[n].roots, bs[m].roots)
        /\ \A n \in DOMAIN bs, m \in BNames \ DOMAIN bs :
              manifests[m] # NoBundle => Apart(bs[n].roots, manifests[m].roots)
Gone(bs) == RootsToErase(Store(leaves, modules, manifests), Snaps(bs))

LEMMA ActivateIsStep ==
  ASSUME IBundle, NEW bs \in BundleSets, Activate(bs)
  PROVE  \E mid, end : Step(bs, mid, end)
<1> DEFINE st == Store(leaves, modules, manifests)
<1>1. PICK order \in NameOrders(bs) : Activated(ActivateBundles(st, bs, order), bs)
  BY DEF Activate
<1>2. st.leaves = leaves /\ st.modules = modules /\ st.manifests = manifests
  BY DEF Store
<1>3. Sound(st)
  BY <1>2 DEF IBundle, PathsInv, Sound
<1>4. PICK r : r = ActivateBundles(st, bs, order)
  OBVIOUS
<1> HIDE DEF st
<1>5. r.ok
  BY <1>1, <1>4 DEF Activated
<1>6. ~HasRootsOverlap(st, bs)
  BY <1>3, <1>4, <1>5, ActivationFacts
<1>7. PICK mid, end :
        /\ Patched(st, bs, mid) /\ Replaced(bs, EraseData(mid, RootsToErase(st, Snaps(bs))), end)
        /\ r = Stored(Store(end, ErasePolicies(st.modules, RootsToErase(st, Snaps(bs)))
                                   \cup UNION {bs[n].modules : n \in DOMAIN Snaps(bs)}, NewManifests(st, bs)))
  BY <1>3, <1>4, <1>5, ActivationFacts
<1>8. /\ r.st.leaves = end
      /\ r.st.modules = ErasePolicies(modules, RootsToErase(st, Snaps(bs))) \cup UNION {bs[n].modules : n \in DOMAIN Snaps(bs)}
      /\ r.st.manifests = NewManifests(st, bs)
  BY <1>2, <1>7 DEF Stored, Store
<1>9. /\ leaves' = end
      /\ modules' = ErasePolicies(modules, RootsToErase(st, Snaps(bs))) \cup UNION {bs[n].modules : n \in DOMAIN Snaps(bs)}
      /\ \A n \in BNames : /\ manifests'[n] = IF n \in DOMAIN bs THEN ManifestOf(bs[n]) ELSE manifests[n]
                           /\ shipped'[n] = IF n \in DOMAIN bs THEN Ship(n, bs[n]) ELSE shipped[n]
      /\ ownedAll' = (ownedAll \/ \E n \in DOMAIN bs : << >> \in bs[n].roots)
  BY <1>1, <1>2, <1>4, <1>8 DEF Activated, NewManifests
<1>10. /\ \A n, m \in DOMAIN bs : n # m => Apart(bs[n].roots, bs[m].roots)
       /\ \A n \in DOMAIN bs, m \in BNames \ DOMAIN bs :
             manifests[m] # NoBundle => Apart(bs[n].roots, manifests[m].roots)
  BY <1>2, <1>6 DEF HasRootsOverlap, Apart
<1> QED BY <1>7, <1>9, <1>10 DEF Step, st

\* What the bundles of a call are, once more.
LEMMA StepBundles ==
  ASSUME NEW bs \in BundleSets
  PROVE  /\ DOMAIN bs \subseteq BNames /\ DOMAIN bs = DOMAIN Deltas(bs) \cup DOMAIN Snaps(bs)
         /\ \A n \in DOMAIN bs : /\ WellFormed(bs[n]) /\ bs[n].roots \in SUBSET BPaths
                                 /\ ManifestOf(bs[n]) # NoBundle /\ ManifestOf(bs[n]).roots = bs[n].roots
         /\ \A n \in DOMAIN Deltas(bs) : n \notin DOMAIN Snaps(bs) /\ bs[n].type = "delta" /\ Deltas(bs)[n] = bs[n]
         /\ \A n \in DOMAIN Snaps(bs) : bs[n].type = "snapshot" /\ Snaps(bs)[n] = bs[n]
         /\ RootsOf(Deltas(bs)) \in SUBSET BPaths /\ RootsOf(Snaps(bs)) \in SUBSET BPaths
<1>1. /\ DOMAIN bs \subseteq BNames /\ DOMAIN bs = DOMAIN Deltas(bs) \cup DOMAIN Snaps(bs)
      /\ \A n \in DOMAIN bs : WellFormed(bs[n])
      /\ \A n \in DOMAIN Deltas(bs) : bs[n].type = "delta" /\ Deltas(bs)[n] = bs[n]
      /\ \A n \in DOMAIN Snaps(bs) : bs[n].type = "snapshot" /\ Snaps(bs)[n] = bs[n]
  BY BundleAssumption, Restricted
<1>2. \A n \in DOMAIN bs : bs[n].roots \in SUBSET BPaths /\ ManifestOf(bs[n]) # NoBundle /\ ManifestOf(bs[n]).roots = bs[n].roots
  BY <1>1 DEF WellFormed, ManifestOf
<1> QED BY <1>1, <1>2 DEF RootsOf

LEMMA GoneFacts ==
  ASSUME PathsInv, NEW bs \in BundleSets
  PROVE  /\ Gone(bs) \in SUBSET BPaths /\ RootsOf(Snaps(bs)) \subseteq Gone(bs)
         /\ \A n \in DOMAIN Snaps(bs) : manifests[n] # NoBundle => manifests[n].roots \subseteq Gone(bs)
         /\ \A r \in Gone(bs) : \E n \in DOMAIN Snaps(bs) :
               r \in bs[n].roots \/ (manifests[n] # NoBundle /\ r \in manifests[n].roots)
<1>0. PICK S : S = Snaps(bs)
  OBVIOUS
<1>1. \A n \in DOMAIN S : S[n] = bs[n] /\ n \in BNames /\ n \in DOMAIN bs /\ bs[n].roots \in SUBSET BPaths
  BY <1>0, StepBundles
<1>2. \A r : r \in Gone(bs) <=> \E n \in DOMAIN S : r \in bs[n].roots \/ (manifests[n] # NoBundle /\ r \in manifests[n].roots)
  <2>1. Store(leaves, modules, manifests).manifests = manifests
    BY DEF Store
  <2>2. Gone(bs) = UNION {S[n].roots \cup (IF manifests[n] = NoBundle THEN {} ELSE manifests[n].roots) : n \in DOMAIN S}
    BY <1>0, <2>1 DEF Gone, RootsToErase
  <2> QED BY <2>2, <1>1
<1>3. \A r : r \in RootsOf(S) <=> \E n \in DOMAIN S : r \in bs[n].roots
  BY <1>1 DEF RootsOf
<1> QED BY <1>0, <1>2, <1>3, <1>1 DEF PathsInv

\* Roots and paths after an activation.
LEMMA StepPaths ==
  ASSUME IBundle, NEW bs, NEW mid, NEW end, Step(bs, mid, end)
  PROVE  PathsInv' /\ RootsDisjoint'
<1>0. bs \in BundleSets
  BY DEF Step
<1>1. /\ leaves' = end /\ Paths(end)
      /\ modules' = ErasePolicies(modules, Gone(bs)) \cup UNION {bs[n].modules : n \in DOMAIN Snaps(bs)}
      /\ \A n \in BNames : manifests'[n] = IF n \in DOMAIN bs THEN ManifestOf(bs[n]) ELSE manifests[n]
  BY DEF Step, Gone, Replaced
<1>2. \A n \in DOMAIN bs : /\ WellFormed(bs[n]) /\ bs[n].roots \in SUBSET BPaths
                           /\ ManifestOf(bs[n]) # NoBundle /\ ManifestOf(bs[n]).roots = bs[n].roots
  BY <1>0, StepBundles, Zenon
<1>3. \A m \in modules' : m.package \in BPaths
  <2>1. DOMAIN bs = DOMAIN Deltas(bs) \cup DOMAIN Snaps(bs)
    BY <1>0, StepBundles, Zenon
  <2>2. \A n \in DOMAIN Snaps(bs) : \A m \in bs[n].modules : m.package \in BPaths
    BY <2>1, <1>2 DEF WellFormed
  <2>3. \A m \in modules : m.package \in BPaths
    BY DEF IBundle, PathsInv
  <2> QED BY <1>1, <2>2, <2>3 DEF ErasePolicies
<1>4. PathsInv'
  BY <1>1, <1>2, <1>3 DEF IBundle, PathsInv, Paths
<1>5. \A r, q : Overlap(r, q) <=> Overlap(q, r)
  BY DEF Overlap
<1>6. /\ \A n, m \in DOMAIN bs : n # m => Apart(bs[n].roots, bs[m].roots)
      /\ \A n \in DOMAIN bs, m \in BNames \ DOMAIN bs : manifests[m] # NoBundle => Apart(bs[n].roots, manifests[m].roots)
  BY DEF Step
<1>7. ASSUME NEW n \in BNames, NEW m \in BNames, n # m, manifests'[n] # NoBundle, manifests'[m] # NoBundle
      PROVE  \A r \in manifests'[n].roots, q \in manifests'[m].roots : ~Overlap(r, q)
  <2>1. CASE n \in DOMAIN bs /\ m \in DOMAIN bs
    BY <2>1, <1>1, <1>2, <1>6, <1>7 DEF Apart
  <2>2. CASE n \in DOMAIN bs /\ m \notin DOMAIN bs
    BY <2>2, <1>1, <1>2, <1>6, <1>7 DEF Apart
  <2>3. CASE n \notin DOMAIN bs /\ m \in DOMAIN bs
    BY <2>3, <1>1, <1>2, <1>5, <1>6, <1>7 DEF Apart
  <2>4. CASE n \notin DOMAIN bs /\ m \notin DOMAIN bs
    BY <2>4, <1>1, <1>7 DEF IBundle, RootsDisjoint
  <2> QED BY <2>1, <2>2, <2>3, <2>4
<1>8. RootsDisjoint'
  BY <1>7 DEF RootsDisjoint
<1> QED BY <1>4, <1>8

\* What lies apart from the roots of the snapshots, old and new, survives the erasing
\* and the writing.
LEMMA StepSpares ==
  ASSUME IBundle, NEW bs, NEW mid, NEW end, Step(bs, mid, end), NEW roots \in SUBSET BPaths, Apart(Gone(bs), roots)
  PROVE  /\ LeavesUnder(leaves', roots) = LeavesUnder(mid, roots)
         /\ {m \in modules' : UnderAny(roots, m.package)} = {m \in modules : UnderAny(roots, m.package)}
<1>0. bs \in BundleSets /\ leaves' = end /\ Paths(mid) /\ Paths(end)
  BY DEF Step, Patched, Replaced
<1>1. /\ Gone(bs) \in SUBSET BPaths /\ RootsOf(Snaps(bs)) \subseteq Gone(bs)
      /\ RootsOf(Snaps(bs)) \in SUBSET BPaths
  BY <1>0, GoneFacts, StepBundles DEF IBundle
<1>2. PICK left : left = EraseData(mid, Gone(bs))
  OBVIOUS
<1>3. Paths(left) /\ Outside(left, Gone(bs)) = Outside(mid, Gone(bs))
  BY <1>0, <1>2 DEF EraseData, Paths, Outside, UnderAny, RootContains
<1>4. LeavesUnder(left, roots) = LeavesUnder(mid, roots)
  BY <1>0, <1>1, <1>3, ApartUntouched
<1>5. Outside(end, RootsOf(Snaps(bs))) = Outside(left, RootsOf(Snaps(bs)))
  BY <1>2 DEF Step, Replaced, Gone
<1>6. LeavesUnder(end, roots) = LeavesUnder(left, roots)
  <2>1. Apart(RootsOf(Snaps(bs)), roots)
    BY <1>1 DEF Apart
  <2> QED BY <2>1, <1>0, <1>1, <1>3, <1>5, ApartUntouched
<1>7. modules' = ErasePolicies(modules, Gone(bs)) \cup UNION {bs[n].modules : n \in DOMAIN Snaps(bs)}
  BY DEF Step, Gone
<1>8. ASSUME NEW x \in BPaths, UnderAny(roots, x), UnderAny(Gone(bs), x) PROVE FALSE
  BY <1>1, <1>8, PrefixesOverlap DEF UnderAny, RootContains, Apart
<1>9. \A n \in DOMAIN Snaps(bs) : \A m \in bs[n].modules : m.package \in BPaths /\ UnderAny(Gone(bs), m.package)
  <2> SUFFICES ASSUME NEW n \in DOMAIN Snaps(bs), NEW m \in bs[n].modules
               PROVE  m.package \in BPaths /\ UnderAny(Gone(bs), m.package)
    OBVIOUS
  <2>1. n \in DOMAIN bs /\ Snaps(bs)[n] = bs[n] /\ WellFormed(bs[n])
    BY <1>0, StepBundles
  <2>2. bs[n].roots \subseteq Gone(bs)
    BY <2>1, <1>1 DEF RootsOf
  <2> QED BY <2>1, <2>2 DEF WellFormed, UnderAny, RootContains
<1>10. \A m \in modules : m.package \in BPaths
  BY DEF IBundle, PathsInv
<1>11. \A m \in modules : UnderAny(roots, m.package) => m \in ErasePolicies(modules, Gone(bs))
  BY <1>8, <1>10 DEF ErasePolicies
<1>12. ErasePolicies(modules, Gone(bs)) \subseteq modules
  BY DEF ErasePolicies
<1>13. {m \in modules' : UnderAny(roots, m.package)} = {m \in modules : UnderAny(roots, m.package)}
  BY <1>7, <1>8, <1>9, <1>11, <1>12
<1> QED BY <1>0, <1>4, <1>6, <1>13

LEMMA StepOwn ==
  ASSUME IBundle, NEW bs, NEW mid, NEW end, Step(bs, mid, end)
  PROVE  OwnInv'
<1>0. bs \in BundleSets
  BY DEF Step
<1>1. \A n \in BNames : /\ manifests'[n] = IF n \in DOMAIN bs THEN ManifestOf(bs[n]) ELSE manifests[n]
                        /\ shipped'[n] = IF n \in DOMAIN bs THEN Ship(n, bs[n]) ELSE shipped[n]
  BY DEF Step
<1>2. /\ \A n, m \in DOMAIN bs : n # m => Apart(bs[n].roots, bs[m].roots)
      /\ \A n \in DOMAIN bs, m \in BNames \ DOMAIN bs : manifests[m] # NoBundle => Apart(bs[n].roots, manifests[m].roots)
  BY DEF Step
<1>3. /\ DOMAIN bs \subseteq BNames /\ DOMAIN bs = DOMAIN Deltas(bs) \cup DOMAIN Snaps(bs)
      /\ \A n \in DOMAIN bs : /\ WellFormed(bs[n]) /\ bs[n].roots \in SUBSET BPaths
                              /\ ManifestOf(bs[n]) # NoBundle /\ ManifestOf(bs[n]).roots = bs[n].roots
      /\ \A n \in DOMAIN Deltas(bs) : n \notin DOMAIN Snaps(bs) /\ bs[n].type = "delta" /\ Deltas(bs)[n] = bs[n]
      /\ \A n \in DOMAIN Snaps(bs) : bs[n].type = "snapshot" /\ Snaps(bs)[n] = bs[n]
  BY <1>0, StepBundles
<1> SUFFICES ASSUME NEW n \in BNames, shipped'[n].based
             PROVE  /\ manifests'[n] # NoBundle
                    /\ LeavesUnder(leaves', manifests'[n].roots) = shipped'[n].leaves
                    /\ {m \in modules' : UnderAny(manifests'[n].roots, m.package)} = shipped'[n].modules
  BY DEF OwnInv, LeavesUnder, UnderAny, RootContains
<1>4. CASE n \in DOMAIN Snaps(bs)
  <2>1. PICK b : b = bs[n]
    OBVIOUS
  <2>2. n \in DOMAIN bs /\ b.type = "snapshot" /\ WellFormed(b) /\ b.roots \in SUBSET BPaths
    BY <2>1, <1>3, <1>4
  <2>3. manifests'[n] # NoBundle /\ manifests'[n].roots = b.roots
    BY <2>1, <2>2, <1>1, <1>3
  <2>4. shipped'[n].leaves = LeavesUnder(BundleLeaves(b), b.roots) /\ shipped'[n].modules = b.modules
    <3>1. Ship(n, b) = [based |-> TRUE, leaves |-> LeavesUnder(BundleLeaves(b), b.roots), modules |-> b.modules]
      BY <2>2 DEF Ship
    <3>2. shipped'[n] = Ship(n, b)
      BY <2>1, <2>2, <1>1
    <3> QED BY <3>1, <3>2
  <2>5. LeavesUnder(leaves', b.roots) = LeavesUnder(BundleLeaves(b), b.roots)
    BY <2>1, <1>4 DEF Step, Replaced
  <2>6. modules' = ErasePolicies(modules, Gone(bs)) \cup UNION {bs[k].modules : k \in DOMAIN Snaps(bs)}
    BY DEF Step, Gone
  <2>7. b.roots \subseteq Gone(bs)
    BY <2>1, <1>0, <1>3, <1>4, GoneFacts DEF IBundle, RootsOf
  <2>8. \A m \in ErasePolicies(modules, Gone(bs)) : ~UnderAny(b.roots, m.package)
    BY <2>7 DEF ErasePolicies, UnderAny
  <2>9. \A m \in b.modules : UnderAny(b.roots, m.package)
    BY <2>2 DEF WellFormed, UnderAny, RootContains
  <2>10. ASSUME NEW k \in DOMAIN Snaps(bs), k # n, NEW m \in bs[k].modules PROVE ~UnderAny(b.roots, m.package)
    <3>1. k \in DOMAIN bs /\ WellFormed(bs[k]) /\ bs[k].roots \in SUBSET BPaths /\ Apart(bs[k].roots, b.roots)
      BY <2>1, <2>2, <2>10, <1>2, <1>3
    <3>2. m.package \in BPaths /\ \E r \in bs[k].roots : IsPrefix(r, m.package)
      BY <3>1 DEF WellFormed
    <3> QED BY <2>2, <3>1, <3>2, PrefixesOverlap DEF UnderAny, RootContains, Apart
  <2>11. {m \in modules' : UnderAny(b.roots, m.package)} = b.modules
    <3>1. \A m \in modules' : UnderAny(b.roots, m.package) => m \in b.modules
      BY <2>1, <2>6, <2>8, <2>10
    <3>2. b.modules \subseteq modules'
      BY <2>1, <2>6, <1>4
    <3> QED BY <3>1, <3>2, <2>9
  <2> QED BY <2>3, <2>4, <2>5, <2>11
<1>5. CASE n \notin DOMAIN Snaps(bs)
  <2>1. shipped[n].based
    <3>1. CASE n \in DOMAIN bs
      BY <3>1, <1>1, <1>3, <1>5 DEF Ship
    <3>2. CASE n \notin DOMAIN bs
      BY <3>2, <1>1
    <3> QED BY <3>1, <3>2
  <2>2. /\ manifests[n] # NoBundle /\ LeavesUnder(leaves, manifests[n].roots) = shipped[n].leaves
        /\ {m \in modules : UnderAny(manifests[n].roots, m.package)} = shipped[n].modules
    BY <2>1 DEF IBundle, OwnInv
  <2>3. PICK roots : roots = manifests[n].roots
    OBVIOUS
  <2>4. roots \in SUBSET BPaths
    BY <2>2, <2>3 DEF IBundle, PathsInv
  <2>5. n \in DOMAIN bs => n \in DOMAIN Deltas(bs) /\ bs[n].roots = roots
    <3> SUFFICES ASSUME n \in DOMAIN bs PROVE n \in DOMAIN Deltas(bs) /\ bs[n].roots = roots
      OBVIOUS
    <3>1. n \in DOMAIN Deltas(bs)
      BY <1>3, <1>5
    <3>2. Store(leaves, modules, manifests).manifests = manifests
      BY DEF Store
    <3> QED BY <3>1, <3>2, <2>2, <2>3 DEF Step, Patched
  <2>6. manifests'[n] # NoBundle /\ manifests'[n].roots = roots
    BY <2>2, <2>3, <2>5, <1>1, <1>3
  <2>7. Apart(Gone(bs), roots)
    <3> SUFFICES ASSUME NEW r \in Gone(bs), NEW q \in roots PROVE ~Overlap(r, q)
      BY DEF Apart
    <3>1. PICK k \in DOMAIN Snaps(bs) : r \in bs[k].roots \/ (manifests[k] # NoBundle /\ r \in manifests[k].roots)
      BY <1>0, GoneFacts DEF IBundle
    <3>2. k \in DOMAIN bs /\ k \in BNames /\ k # n
      BY <1>3, <1>5
    <3>3. CASE r \in bs[k].roots
      BY <3>2, <3>3, <1>2, <2>2, <2>3, <2>5 DEF Apart
    <3>4. CASE manifests[k] # NoBundle /\ r \in manifests[k].roots
      BY <3>2, <3>4, <2>2, <2>3 DEF IBundle, RootsDisjoint
    <3> QED BY <3>1, <3>3, <3>4
  <2>8. /\ LeavesUnder(leaves', roots) = LeavesUnder(mid, roots)
        /\ {m \in modules' : UnderAny(roots, m.package)} = {m \in modules : UnderAny(roots, m.package)}
    BY <2>4, <2>7, StepSpares
  <2>9. n \in DOMAIN bs => /\ shipped'[n].modules = shipped[n].modules
                           /\ shipped'[n].leaves = ApplyPatches(shipped[n].leaves, bs[n].patches).st
    <3> SUFFICES ASSUME n \in DOMAIN bs
                 PROVE  /\ shipped'[n].modules = shipped[n].modules
                        /\ shipped'[n].leaves = ApplyPatches(shipped[n].leaves, bs[n].patches).st
      OBVIOUS
    <3>1. PICK b : b = bs[n]
      OBVIOUS
    <3>2. shipped'[n] = Ship(n, b) /\ b.type = "delta"
      BY <3>1, <1>1, <1>3, <2>5
    <3>3. Ship(n, b) = [based |-> TRUE, leaves |-> ApplyPatches(shipped[n].leaves, b.patches).st,
                        modules |-> shipped[n].modules]
      BY <3>2, <2>1 DEF Ship
    <3> QED BY <3>1, <3>2, <3>3
  <2>10. shipped'[n].modules = shipped[n].modules
    BY <2>9, <1>1
  <2>11. LeavesUnder(mid, roots) = shipped'[n].leaves
    <3>0. Store(leaves, modules, manifests).leaves = leaves
      BY DEF Store
    <3>1. CASE n \in DOMAIN bs
      <4>1. LeavesUnder(mid, bs[n].roots) = ApplyPatches(LeavesUnder(leaves, bs[n].roots), bs[n].patches).st
        BY <3>0, <3>1, <2>5 DEF Step, Patched
      <4>2. shipped'[n].leaves = ApplyPatches(shipped[n].leaves, bs[n].patches).st
        BY <3>1, <2>9
      <4> QED BY <4>1, <4>2, <3>1, <2>2, <2>3, <2>5
    <3>2. CASE n \notin DOMAIN bs
      <4>1. /\ Paths(mid) /\ Paths(leaves) /\ RootsOf(Deltas(bs)) \in SUBSET BPaths
            /\ Outside(mid, RootsOf(Deltas(bs))) = Outside(leaves, RootsOf(Deltas(bs)))
        BY <3>0, <1>0, StepBundles DEF Step, Patched, IBundle, PathsInv
      <4>2. Apart(RootsOf(Deltas(bs)), roots)
        BY <3>2, <1>2, <1>3, <2>2, <2>3 DEF Apart, RootsOf
      <4>3. LeavesUnder(mid, roots) = LeavesUnder(leaves, roots)
        BY <4>1, <4>2, <2>4, ApartUntouched
      <4> QED BY <4>3, <3>2, <1>1, <2>2, <2>3
    <3> QED BY <3>1, <3>2
  <2> QED BY <2>2, <2>3, <2>6, <2>8, <2>10, <2>11
<1> QED BY <1>4, <1>5

LEMMA StepUnowned ==
  ASSUME IBundle, NEW bs, NEW mid, NEW end, Step(bs, mid, end)
  PROVE  UnownedInv'
<1>0. bs \in BundleSets /\ leaves' = end /\ ownedAll' = (ownedAll \/ \E n \in DOMAIN bs : << >> \in bs[n].roots)
  BY DEF Step
<1>1. \A n \in BNames : manifests'[n] = IF n \in DOMAIN bs THEN ManifestOf(bs[n]) ELSE manifests[n]
  BY DEF Step
<1>2. /\ DOMAIN bs \subseteq BNames /\ DOMAIN bs = DOMAIN Deltas(bs) \cup DOMAIN Snaps(bs)
      /\ \A n \in DOMAIN bs : /\ WellFormed(bs[n]) /\ bs[n].roots \in SUBSET BPaths
                              /\ ManifestOf(bs[n]) # NoBundle /\ ManifestOf(bs[n]).roots = bs[n].roots
      /\ \A n \in DOMAIN Deltas(bs) : n \notin DOMAIN Snaps(bs) /\ bs[n].type = "delta" /\ Deltas(bs)[n] = bs[n]
      /\ \A n \in DOMAIN Snaps(bs) : bs[n].type = "snapshot" /\ Snaps(bs)[n] = bs[n]
  BY <1>0, StepBundles
<1>3. \A n \in BNames : manifests'[n] # NoBundle => manifests'[n].roots \subseteq ActiveRoots'
  BY DEF ActiveRoots
<1>4. \A n \in DOMAIN bs : bs[n].roots \subseteq ActiveRoots'
  <2> SUFFICES ASSUME NEW n \in DOMAIN bs PROVE bs[n].roots \subseteq ActiveRoots'
    OBVIOUS
  <2>1. n \in BNames /\ manifests'[n] # NoBundle /\ manifests'[n].roots = bs[n].roots
    BY <1>1, <1>2
  <2> QED BY <2>1, <1>3
<1>5. RootsOf(Deltas(bs)) \subseteq ActiveRoots' /\ RootsOf(Snaps(bs)) \subseteq ActiveRoots'
  <2>1. \A n \in DOMAIN Deltas(bs) : Deltas(bs)[n].roots \subseteq ActiveRoots'
    BY <1>2, <1>4
  <2>2. \A n \in DOMAIN Snaps(bs) : Snaps(bs)[n].roots \subseteq ActiveRoots'
    BY <1>2, <1>4
  <2> QED BY <2>1, <2>2 DEF RootsOf
<1>6. \A n \in DOMAIN Deltas(bs) : manifests[n] # NoBundle => bs[n].roots = manifests[n].roots
  <2>1. Store(leaves, modules, manifests).manifests = manifests
    BY DEF Store
  <2> QED BY <2>1 DEF Step, Patched
\* A root that was active still is, or was given up by a snapshot.
<1>7. ASSUME NEW r \in ActiveRoots PROVE r \in ActiveRoots' \/ (r \in Gone(bs) /\ (r = << >> => ownedAll))
  <2>1. PICK n \in BNames : manifests[n] # NoBundle /\ r \in manifests[n].roots
    BY <1>7 DEF ActiveRoots
  <2>2. CASE n \notin DOMAIN bs
    <3>1. manifests'[n] = manifests[n]
      BY <2>2, <1>1
    <3>2. manifests'[n].roots \subseteq ActiveRoots'
      BY <2>1, <3>1, <1>3
    <3> QED BY <2>1, <3>1, <3>2
  <2>3. CASE n \in DOMAIN Deltas(bs)
    <3>1. n \in DOMAIN bs /\ bs[n].roots = manifests[n].roots
      BY <2>1, <2>3, <1>2, <1>6
    <3>2. bs[n].roots \subseteq ActiveRoots'
      BY <3>1, <1>4
    <3> QED BY <2>1, <3>1, <3>2
  <2>4. CASE n \in DOMAIN Snaps(bs)
    <3>1. r \in Gone(bs)
      BY <2>1, <2>4, <1>0, GoneFacts DEF IBundle
    <3>2. r = << >> => ownedAll
      BY <2>1 DEF IBundle, UnownedInv
    <3> QED BY <3>1, <3>2
  <2> QED BY <2>2, <2>3, <2>4, <1>2
<1>8. ASSUME NEW l \in end PROVE UnderAny(ActiveRoots', l[1]) \/ ownedAll' \/ l \in ClientLeaves
  <2>1. CASE UnderAny(RootsOf(Snaps(bs)), l[1])
    BY <2>1, <1>5 DEF UnderAny
  <2>2. CASE ~UnderAny(RootsOf(Snaps(bs)), l[1])
    <3>1. l \in EraseData(mid, Gone(bs))
      BY <2>2, <1>8 DEF Step, Replaced, Gone, Outside
    <3>2. l \in mid /\ \A r \in Gone(bs) : r # << >> => ~IsPrefix(r, l[1])
      BY <3>1 DEF EraseData
    <3>3. CASE UnderAny(RootsOf(Deltas(bs)), l[1])
      BY <3>3, <1>5 DEF UnderAny
    <3>4. CASE ~UnderAny(RootsOf(Deltas(bs)), l[1])
      <4>1. l \in leaves
        BY <3>2, <3>4 DEF Step, Patched, Outside, Store
      <4>2. UnderAny(ActiveRoots, l[1]) \/ ownedAll \/ l \in ClientLeaves
        BY <4>1 DEF IBundle, UnownedInv
      <4>3. CASE UnderAny(ActiveRoots, l[1])
        <5>1. PICK r \in ActiveRoots : IsPrefix(r, l[1])
          BY <4>3 DEF UnderAny, RootContains
        <5> QED BY <5>1, <1>0, <1>7, <3>2 DEF UnderAny, RootContains
      <4> QED BY <4>2, <4>3, <1>0
    <3> QED BY <3>3, <3>4
  <2> QED BY <2>1, <2>2
<1>9. modules' = ErasePolicies(modules, Gone(bs)) \cup UNION {bs[n].modules : n \in DOMAIN Snaps(bs)}
  BY DEF Step, Gone
<1>10. ASSUME NEW m \in modules' PROVE UnderAny(ActiveRoots', m.package) \/ m \in ClientModules
  <2>1. CASE m \in ErasePolicies(modules, Gone(bs))
    <3>1. m \in modules /\ ~UnderAny(Gone(bs), m.package)
      BY <2>1 DEF ErasePolicies
    <3>2. UnderAny(ActiveRoots, m.package) \/ m \in ClientModules
      BY <3>1 DEF IBundle, UnownedInv
    <3> QED BY <3>1, <3>2, <1>7 DEF UnderAny
  <2>2. CASE \E n \in DOMAIN Snaps(bs) : m \in bs[n].modules
    <3>1. PICK n \in DOMAIN Snaps(bs) : m \in bs[n].modules
      BY <2>2
    <3>2. n \in DOMAIN bs /\ WellFormed(bs[n])
      BY <1>2
    <3>3. \E r \in bs[n].roots : IsPrefix(r, m.package)
      BY <3>1, <3>2 DEF WellFormed
    <3> QED BY <3>2, <3>3, <1>4 DEF UnderAny, RootContains
  <2> QED BY <2>1, <2>2, <1>9
<1>11. ASSUME NEW n \in BNames, manifests'[n] # NoBundle, << >> \in manifests'[n].roots PROVE ownedAll'
  <2>1. CASE n \in DOMAIN bs
    BY <2>1, <1>0, <1>1, <1>2, <1>11
  <2>2. CASE n \notin DOMAIN bs
    BY <2>2, <1>0, <1>1, <1>11 DEF IBundle, UnownedInv
  <2> QED BY <2>1, <2>2
<1> QED BY <1>0, <1>8, <1>10, <1>11 DEF UnownedInv, UnderAny, RootContains

LEMMA ActivateKeeps ==
  ASSUME IBundle, NEW bs \in BundleSets, Activate(bs)
  PROVE  IBundle'
<1>1. PICK mid, end : Step(bs, mid, end)
  BY ActivateIsStep
<1> QED BY <1>1, StepPaths, StepOwn, StepUnowned DEF IBundle

LEMMA ClientDataKeeps ==
  ASSUME IBundle, NEW l \in ClientLeaves, ClientData(l)
  PROVE  IBundle'
<1>1. UNCHANGED <<modules, manifests, shipped, ownedAll>> /\ ActiveRoots' = ActiveRoots
  BY DEF ClientData, ActiveRoots
<1>2. l = <<l[1], l[2]>> /\ l[1] \in BPaths
  BY BundleAssumption
<1>3. leaves' = {k \in leaves : ~IsPrefix(l[1], k[1])} \cup {l}
  BY <1>2 DEF ClientData, Accepted, AddOp, Stored, Rejected
<1>4. Paths(leaves) /\ Paths(leaves')
  BY <1>2, <1>3 DEF IBundle, PathsInv, Paths
<1>5. Outside(leaves', {l[1]}) = Outside(leaves, {l[1]})
  <2>1. \A x : UnderAny({l[1]}, x) <=> IsPrefix(l[1], x)
    BY DEF UnderAny, RootContains
  <2> QED BY <1>2, <1>3, <2>1, PrefixRefl DEF Outside
<1>6. ASSUME NEW n \in BNames, manifests[n] # NoBundle
      PROVE  LeavesUnder(leaves', manifests[n].roots) = LeavesUnder(leaves, manifests[n].roots)
  <2>1. manifests[n].roots \in SUBSET BPaths /\ manifests[n].roots \subseteq ActiveRoots
    BY <1>6 DEF IBundle, PathsInv, ActiveRoots
  <2>2. Apart({l[1]}, manifests[n].roots)
    BY <2>1 DEF ClientData, Apart, Overlap
  <2>3. {l[1]} \in SUBSET BPaths
    BY <1>2
  <2> QED BY <2>1, <2>2, <2>3, <1>4, <1>5, ApartUntouched
<1>7. PathsInv' /\ RootsDisjoint'
  BY <1>1, <1>4 DEF IBundle, PathsInv, RootsDisjoint
<1>8. OwnInv'
  <2> SUFFICES ASSUME NEW n \in BNames, shipped[n].based
               PROVE  /\ manifests[n] # NoBundle
                      /\ LeavesUnder(leaves', manifests[n].roots) = shipped[n].leaves
                      /\ {m \in modules : UnderAny(manifests[n].roots, m.package)} = shipped[n].modules
    BY <1>1 DEF OwnInv, LeavesUnder, UnderAny, RootContains
  <2> QED BY <1>6 DEF IBundle, OwnInv
<1>9. UnownedInv'
  BY <1>1, <1>3 DEF IBundle, UnownedInv
<1> QED BY <1>7, <1>8, <1>9 DEF IBundle

LEMMA ClientPolicyKeeps ==
  ASSUME IBundle, NEW u \in ClientModules, ClientPolicy(u)
  PROVE  IBundle'
<1>1. UNCHANGED <<leaves, manifests, shipped, ownedAll>> /\ ActiveRoots' = ActiveRoots /\ modules' = modules \cup {u}
  BY DEF ClientPolicy, ActiveRoots
<1>2. u.package \in BPaths /\ \A r \in ActiveRoots : ~IsPrefix(r, u.package)
  BY BundleAssumption DEF ClientPolicy, Overlap
<1>3. PathsInv' /\ RootsDisjoint'
  BY <1>1, <1>2 DEF IBundle, PathsInv, RootsDisjoint, Paths
<1>4. OwnInv'
  <2> SUFFICES ASSUME NEW n \in BNames, shipped[n].based
               PROVE  /\ manifests[n] # NoBundle
                      /\ LeavesUnder(leaves, manifests[n].roots) = shipped[n].leaves
                      /\ {m \in modules' : UnderAny(manifests[n].roots, m.package)} = shipped[n].modules
    BY <1>1 DEF OwnInv, LeavesUnder, UnderAny, RootContains
  <2>1. /\ manifests[n] # NoBundle /\ LeavesUnder(leaves, manifests[n].roots) = shipped[n].leaves
        /\ {m \in modules : UnderAny(manifests[n].roots, m.package)} = shipped[n].modules
    BY DEF IBundle, OwnInv
  <2>2. manifests[n].roots \subseteq ActiveRoots
    BY <2>1 DEF ActiveRoots
  <2>3. ~UnderAny(manifests[n].roots, u.package)
    BY <2>2, <1>2 DEF UnderAny, RootContains
  <2> QED BY <2>1, <2>3, <1>1
<1>5. UnownedInv'
  BY <1>1 DEF IBundle, UnownedInv
<1> QED BY <1>3, <1>4, <1>5 DEF IBundle

LEMMA BundlesInitially == BundleInit => IBundle
<1> SUFFICES ASSUME BundleInit PROVE IBundle
  OBVIOUS
<1>1. /\ leaves = {} /\ modules = {} /\ \A n \in BNames : manifests[n] = NoBundle /\ ~shipped[n].based
  BY DEF BundleInit
<1> QED BY <1>1 DEF IBundle, PathsInv, Paths, RootsDisjoint, OwnInv, UnownedInv

LEMMA BundleStepKeeps == IBundle /\ [BundleNext]_bvars => IBundle'
<1> SUFFICES ASSUME IBundle, [BundleNext]_bvars PROVE IBundle'
  OBVIOUS
<1>1. CASE UNCHANGED bvars
  BY <1>1 DEF bvars, IBundle, PathsInv, Paths, RootsDisjoint, OwnInv, UnownedInv, LeavesUnder, UnderAny, RootContains, ActiveRoots
<1>2. CASE BundleNext
  BY <1>2, ActivateKeeps, ClientDataKeeps, ClientPolicyKeeps DEF BundleNext
<1> QED BY <1>1, <1>2

\* For any bundles, clients and orders of activation: two active bundles never own the
\* same path; below the roots of a bundle the store holds exactly what its last snapshot
\* and the deltas since put there; and what no bundle owns was put there by a client,
\* unless a bundle had the root "" (activateBundles, activator.go:340).
THEOREM BundlesAreExact == BundleSpec => []BundleSafety
<1>1. BundleInit => IBundle
  BY BundlesInitially
<1>2. IBundle /\ [BundleNext]_bvars => IBundle'
  BY BundleStepKeeps
<1>3. IBundle => BundleSafety
  BY DEF IBundle, OwnInv, UnownedInv, BundleSafety, BundleDataExact
<1> QED BY <1>1, <1>2, <1>3, PTL DEF BundleSpec

\* An activation, whatever it does and in whatever order the bundles come, leaves alone
\* what lies outside the old and the new roots of its bundles (eraseBundles,
\* writeDataAndModules, applyPatches, activator.go).
THEOREM ActivationLeavesOthers == BundleSpec => OthersUntouched
<1> DEFINE Roots(bs) == (UNION {bs[n].roots : n \in DOMAIN bs})
                        \cup (UNION {manifests[n].roots : n \in {m \in DOMAIN bs : manifests[m] # NoBundle}})
           Kept(bs) == /\ {l \in leaves : ~UnderAny(Roots(bs), l[1])} = {l \in leaves' : ~UnderAny(Roots(bs), l[1])}
                       /\ {m \in modules : ~UnderAny(Roots(bs), m.package)} = {m \in modules' : ~UnderAny(Roots(bs), m.package)}
<1>1. ASSUME IBundle, NEW bs \in BundleSets, Activate(bs) PROVE Kept(bs)
  <2>1. PICK mid, end : Step(bs, mid, end)
    BY <1>1, ActivateIsStep
  <2>2. PICK roots : roots = Roots(bs)
    OBVIOUS
  <2>3. /\ DOMAIN bs \subseteq BNames /\ DOMAIN bs = DOMAIN Deltas(bs) \cup DOMAIN Snaps(bs)
        /\ \A n \in DOMAIN bs : /\ WellFormed(bs[n]) /\ bs[n].roots \in SUBSET BPaths
                                /\ ManifestOf(bs[n]) # NoBundle /\ ManifestOf(bs[n]).roots = bs[n].roots
        /\ \A n \in DOMAIN Deltas(bs) : n \notin DOMAIN Snaps(bs) /\ bs[n].type = "delta" /\ Deltas(bs)[n] = bs[n]
        /\ \A n \in DOMAIN Snaps(bs) : bs[n].type = "snapshot" /\ Snaps(bs)[n] = bs[n]
    BY StepBundles
  <2>4. /\ \A n \in DOMAIN bs : bs[n].roots \subseteq roots
        /\ \A n \in DOMAIN bs : manifests[n] # NoBundle => manifests[n].roots \subseteq roots
    BY <2>2
  <2>5. RootsOf(Deltas(bs)) \subseteq roots /\ RootsOf(Snaps(bs)) \subseteq roots
    BY <2>3, <2>4 DEF RootsOf
  <2>6. Gone(bs) \subseteq roots
    <3>1. \A r \in Gone(bs) : \E n \in DOMAIN Snaps(bs) : r \in bs[n].roots \/ (manifests[n] # NoBundle /\ r \in manifests[n].roots)
      BY <1>1, GoneFacts DEF IBundle
    <3> QED BY <3>1, <2>3, <2>4
  <2>7. PICK left : left = EraseData(mid, Gone(bs))
    OBVIOUS
  <2>8. Outside(mid, roots) = Outside(leaves, roots)
    <3>1. Outside(mid, RootsOf(Deltas(bs))) = Outside(leaves, RootsOf(Deltas(bs)))
      BY <2>1 DEF Step, Patched, Store
    <3> QED BY <3>1, <2>5, OutsideMore
  <2>9. Outside(left, roots) = Outside(mid, roots)
    <3>1. Outside(left, Gone(bs)) = Outside(mid, Gone(bs))
      BY <2>7 DEF EraseData, Outside, UnderAny, RootContains
    <3> QED BY <3>1, <2>6, OutsideMore
  <2>10. Outside(leaves', roots) = Outside(left, roots)
    <3>1. leaves' = end /\ Outside(end, RootsOf(Snaps(bs))) = Outside(left, RootsOf(Snaps(bs)))
      BY <2>1, <2>7 DEF Step, Replaced, Gone
    <3> QED BY <3>1, <2>5, OutsideMore
  <2>11. modules' = ErasePolicies(modules, Gone(bs)) \cup UNION {bs[n].modules : n \in DOMAIN Snaps(bs)}
    BY <2>1 DEF Step, Gone
  <2>12. \A m \in modules : ~UnderAny(roots, m.package) => m \in ErasePolicies(modules, Gone(bs))
    BY <2>6 DEF ErasePolicies, UnderAny
  <2>13. ASSUME NEW n \in DOMAIN Snaps(bs), NEW m \in bs[n].modules PROVE UnderAny(roots, m.package)
    <3>1. n \in DOMAIN bs /\ WellFormed(bs[n]) /\ bs[n].roots \subseteq roots
      BY <2>3, <2>4
    <3> QED BY <3>1 DEF WellFormed, UnderAny, RootContains
  <2>14. ErasePolicies(modules, Gone(bs)) \subseteq modules
    BY DEF ErasePolicies
  <2>15. {m \in modules : ~UnderAny(roots, m.package)} = {m \in modules' : ~UnderAny(roots, m.package)}
    BY <2>11, <2>12, <2>13, <2>14
  <2> QED BY <2>2, <2>8, <2>9, <2>10, <2>15 DEF Outside
<1>2. IBundle /\ [BundleNext]_bvars => [bvars' # bvars => \A bs \in BundleSets : Activate(bs) => Kept(bs)]_bvars
  BY <1>1
<1> QED BY <1>2, BundlesInitially, BundleStepKeeps, PTL DEF BundleSpec, OthersUntouched
=============================================================================
