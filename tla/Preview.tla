-------------------------------- MODULE Preview --------------------------------
(* The preview API (pkg/preview): a query over policies and data that come    *)
(* with the request, laid over those of the server.  A preview goes through a *)
(* fixed list of phases; options hook into them.  Meanwhile others commit to  *)
(* the primary store, whose policies the plugin manager compiles while the    *)
(* commit holds the lock that readers hold too.                               *)
(*                                                                            *)
(* Data is [leaf |-> v, sub |-> members]; a module is [package, rule, looks,  *)
(* calls, prints, unused]: its rule looks something up in the data, and may   *)
(* need functions of other modules.                                           *)
EXTENDS Integers, Sequences, SequencesExt, FiniteSets

CONSTANTS
    Previews,         \* requests that may run at the same time
    PreviewRequests,  \* [body, sandbox, modules, data, path, query, strict, print, ndb, metrics, provenance]
    PrimaryContents   \* what the primary store holds after each commit

ModuleFields == {"package", "rule", "looks", "calls", "prints", "unused"}
ASSUME PreviewAssumption ==
    /\ Len(PrimaryContents) \in Nat \ {0}
    /\ \A r \in PreviewRequests : \A n \in DOMAIN r.modules : DOMAIN r.modules[n] = ModuleFields

VARIABLES
    previewOn,    \* the API is enabled
    committed,    \* the number of commits
    committing,   \* a commit has written its data, not yet replaced the compiler
    compiledAt,   \* the commit whose policies the manager's compiler has
    preview       \* Previews -> the request and how far it is

previewVars == <<previewOn, committed, committing, compiledAt, preview>>
-----------------------------------------------------------------------------
LeafOf(v) == [leaf |-> v, sub |-> << >>]
TreeOf(members) == [leaf |-> "", sub |-> members]
NoData == LeafOf("none")
NullData == LeafOf("null")
BadData == LeafOf("malformed")
NoResult == {}
MemberOf(d, name) == IF name \in DOMAIN d.sub THEN d.sub[name] ELSE NoData
AlongPath(d, path) ==
    LET at[i \in 0 .. Len(path)] == IF i = 0 THEN d ELSE MemberOf(at[i - 1], path[i]) IN at
DataAt(d, path) == AlongPath(d, path)[Len(path)]
\* The members of one in place of those of another.
Over(f, g) == [k \in DOMAIN f \cup DOMAIN g |-> IF k \in DOMAIN f THEN f[k] ELSE g[k]]

\* The stores a preview has, as its transactions see them: PreviewStorage and
\* PreviewTransaction.  A store that is not there holds nothing.
StoreRead(p, path) ==
    LET sent == DataAt(p.sent, path)
    IN  IF sent \notin {NoData, NullData} THEN sent ELSE DataAt(p.primary, path)
StoreGet(p, key) == IF key \in DOMAIN p.sent.sub THEN p.sent.sub[key] ELSE MemberOf(p.primary, key)
\* All members of both, those of the request first; nothing is left out twice.
StoreIter(p) ==
    LET pairs(d) == {<<k, d.sub[k]>> : k \in DOMAIN d.sub}
    IN  pairs(p.sent) \cup pairs(p.primary)
-----------------------------------------------------------------------------
(* Options, in the order in which ServeHTTP gives them, and the hooks that    *)
(* each registers in Init.                                                    *)
OptionOrder == <<"wasm", "environment", "query", "basic", "ndb", "print", "provenance">>
Registers(o, r) ==
    CASE o = "wasm" -> {"rego"}
      [] o = "environment" -> {"storage", "compiler", "rego"}
      [] o = "query" -> {"rego", "result"}
      [] o = "basic" -> {"compiler", "rego", "eval", "result"}
      [] o = "ndb" -> IF r.ndb = "none" THEN {} ELSE {"eval"}
      [] o = "print" -> IF r.print THEN {"compiler", "rego", "result"} ELSE {}
      [] o = "provenance" -> IF r.provenance THEN {"result"} ELSE {}
Hooked(i, r, phase) == phase \in Registers(OptionOrder[i], r)
InitFails(r) == r.data = BadData \/ r.ndb = "malformed"

\* Faulty variant: policies are loaded before the transaction begins.
PhasesCompilerFirst == <<"init", "storage", "compiler", "transaction", "prepare", "eval", "result", "end">>
Phases == <<"init", "storage", "transaction", "compiler", "prepare", "eval", "result", "end">>
PhaseAfter(phase) == Phases[(CHOOSE i \in DOMAIN Phases : Phases[i] = phase) + 1]

(* Compilation.  Modules that the request does not bring, by their name, are  *)
(* taken from the manager's compiler; they are compiled at once if it brings  *)
(* none, before later options have set up the compiler.                       *)
LoadedModules(r, stored) == IF r.sandbox THEN r.modules ELSE Over(r.modules, stored)
RulesOf(mods) == {mods[n].rule : n \in DOMAIN mods}
CompileFails(mods, strict) ==
    \E n \in DOMAIN mods : ~(mods[n].calls \subseteq RulesOf(mods)) \/ (strict /\ mods[n].unused)
\* Print calls in modules of the request are dropped unless they are enabled.
\* Stored modules were compiled before and keep theirs.
CompiledModules(r, stored, print) ==
    LET mods == LoadedModules(r, stored)
    IN  [n \in DOMAIN mods |->
            IF n \in DOMAIN r.modules THEN [mods[n] EXCEPT !.prints = @ /\ print] ELSE mods[n]]
EmptyCompiler == [strict |-> FALSE, print |-> FALSE, modules |-> << >>, failed |-> FALSE]
PrepareCompiler(c, o, r, stored) ==
    CASE o = "environment" /\ ~r.sandbox /\ r.modules = << >> ->
           [c EXCEPT !.modules = CompiledModules(r, stored, c.print),
                     !.failed = CompileFails(LoadedModules(r, stored), c.strict)]
      [] o = "basic" -> [c EXCEPT !.strict = r.strict]
      [] o = "print" -> [c EXCEPT !.print = TRUE]
      [] OTHER -> c
\* The compiler after each option; a hook that fails is the last to run.
CompilerHooks(r, stored) ==
    LET after[i \in 0 .. Len(OptionOrder)] ==
          IF i = 0 THEN EmptyCompiler
          ELSE IF after[i - 1].failed \/ ~Hooked(i, r, "compiler") THEN after[i - 1]
          ELSE PrepareCompiler(after[i - 1], OptionOrder[i], r, stored)
    IN  after
RunCompilerHooks(r, stored) == CompilerHooks(r, stored)[Len(OptionOrder)]
\* The module loader keeps the manager's compiler it was made with.
ReadyCompiler(r, stored) ==
    LET c == RunCompilerHooks(r, stored)
    IN  IF r.modules = << >> THEN c ELSE [c EXCEPT !.modules = CompiledModules(r, stored, c.print)]

\* What the query gives: a rule of that name, or else data.
LookUp(p, looks) ==
    IF looks = <<"*">> THEN StoreIter(p)
    ELSE LET d == IF looks = << >> THEN NoData ELSE DataAt(StoreGet(p, Head(looks)), Tail(looks))
         IN  IF d = NoData THEN NoResult ELSE {d}
QueryRef(r) == IF r.query = << >> THEN r.path ELSE r.path \o r.query
RulesAt(mods, ref) == {n \in DOMAIN mods : Append(mods[n].package, mods[n].rule) = ref}
Evaluate(p, mods, r) ==
    LET rules == RulesAt(mods, QueryRef(r))
    IN  IF rules = {} THEN LookUp(p, QueryRef(r)) ELSE UNION {LookUp(p, mods[n].looks) : n \in rules}
Printed(mods, r) == {n \in RulesAt(mods, QueryRef(r)) : mods[n].prints}

\* Provenance: the names of the bundles, then the revision of each.
BundlesPath == <<"system", "bundles">>
Revisions(p) ==
    [n \in DOMAIN StoreRead(p, BundlesPath).sub |-> StoreRead(p, Append(BundlesPath, n)).leaf]

NoResponse == [result |-> {}, metrics |-> FALSE, printed |-> {}, revisions |-> << >>]
AddToResponse(response, o, p, r) ==
    CASE o = "query" -> [response EXCEPT !.result = Evaluate(p, p.compiler.modules, r)]
      [] o = "basic" -> [response EXCEPT !.metrics = r.metrics]
      [] o = "print" -> [response EXCEPT !.printed = Printed(p.compiler.modules, r)]
      [] o = "provenance" -> [response EXCEPT !.revisions = Revisions(p)]
ResultHooks(p, r) ==
    LET after[i \in 0 .. Len(OptionOrder)] ==
          IF i = 0 THEN NoResponse
          ELSE IF ~Hooked(i, r, "result") THEN after[i - 1]
          ELSE AddToResponse(after[i - 1], OptionOrder[i], p, r)
    IN  after
Response(p, r) == ResultHooks(p, r)[Len(OptionOrder)]
-----------------------------------------------------------------------------
NoBody == [body |-> "none"]
NewPreview == [phase |-> "none", request |-> NoBody, since |-> 0, txn |-> FALSE, sent |-> NoData,
               primary |-> NoData, compiler |-> EmptyCompiler, response |-> NoResponse]
PreviewInit ==
    /\ previewOn = TRUE /\ committed = 1 /\ committing = FALSE /\ compiledAt = 1
    /\ preview = [s \in Previews |-> NewPreview]

Goes(s, p) == preview' = [preview EXCEPT ![s] = p] /\ UNCHANGED <<previewOn, committed, committing, compiledAt>>
\* Every error ends a preview, and its transaction.
EndFailed(s) == Goes(s, [preview[s] EXCEPT !.phase = "failed", !.txn = FALSE])
Pass(s, p) == Goes(s, [p EXCEPT !.phase = PhaseAfter(preview[s].phase)])
In(s, phase) == preview[s].phase = phase
ManagerModules == PrimaryContents[compiledAt].modules

\* OnConfig: discovery may turn the API on and off.
Configure(on) ==
    /\ previewOn # on /\ previewOn' = on /\ UNCHANGED <<committed, committing, compiledAt, preview>>
ServePreview(s, r) ==
    /\ In(s, "none")
    /\ Goes(s, [NewPreview EXCEPT !.phase = IF ~previewOn \/ r.body = "malformed" THEN "failed" ELSE "init",
                                  !.request = r, !.since = compiledAt])
InitOptions(s) ==
    /\ In(s, "init")
    /\ IF InitFails(preview[s].request) THEN EndFailed(s) ELSE Pass(s, preview[s])
PrepareStorage(s) ==
    /\ In(s, "storage")
    /\ Pass(s, [preview[s] EXCEPT !.sent = preview[s].request.data])
\* The primary store is read at what is committed, and stays so.
BeginTransaction(s) ==
    /\ In(s, "transaction")
    /\ LET r == preview[s].request
       IN  IF r.sandbox THEN Pass(s, preview[s])
           ELSE ~committing /\ Pass(s, [preview[s] EXCEPT !.txn = TRUE, !.primary = PrimaryContents[committed].data])
TransactionFails(s) == In(s, "transaction") /\ ~preview[s].request.sandbox /\ EndFailed(s)
PrepareCompilers(s) ==
    /\ In(s, "compiler")
    /\ LET c == ReadyCompiler(preview[s].request, ManagerModules)
       IN  IF c.failed THEN EndFailed(s) ELSE Pass(s, [preview[s] EXCEPT !.compiler = c])
\* PrepareForEval: the modules of the request are compiled with those loaded.
PrepareQuery(s) ==
    /\ In(s, "prepare")
    /\ LET p == preview[s]
       IN  IF p.request.modules # << >> /\ CompileFails(p.compiler.modules, p.compiler.strict) THEN EndFailed(s) ELSE Pass(s, p)
EvalQuery(s) == In(s, "eval") /\ Pass(s, preview[s])
\* A built-in fails, or the client goes away.
EvalFails(s) == In(s, "eval") /\ EndFailed(s)
AnswerPreview(s) ==
    /\ In(s, "result")
    /\ Pass(s, [preview[s] EXCEPT !.response = Response(preview[s], preview[s].request), !.txn = FALSE])
Leave(s) == preview[s].phase \in {"end", "failed"} /\ Goes(s, NewPreview)

\* A commit waits for the readers and then keeps them away until the manager's
\* trigger has compiled the new policies.
CommitPrimary ==
    /\ ~committing /\ committed < Len(PrimaryContents) /\ \A s \in Previews : ~preview[s].txn
    /\ committed' = committed + 1 /\ committing' = TRUE /\ UNCHANGED <<previewOn, compiledAt, preview>>
ReplaceCompiler ==
    /\ committing /\ compiledAt' = committed /\ committing' = FALSE
    /\ UNCHANGED <<previewOn, committed, preview>>

PreviewStep(s) ==
    \/ \E r \in PreviewRequests : ServePreview(s, r)
    \/ InitOptions(s) \/ PrepareStorage(s) \/ BeginTransaction(s) \/ TransactionFails(s) \/ PrepareCompilers(s)
    \/ PrepareQuery(s) \/ EvalQuery(s) \/ EvalFails(s) \/ AnswerPreview(s) \/ Leave(s)
PreviewNext == (\E s \in Previews : PreviewStep(s)) \/ (\E on \in BOOLEAN : Configure(on)) \/ CommitPrimary \/ ReplaceCompiler
PreviewSpec == PreviewInit /\ [][PreviewNext]_previewVars
-----------------------------------------------------------------------------
PreviewTypeOK ==
    /\ committed \in 1 .. Len(PrimaryContents) /\ compiledAt \in {committed, committed - 1} /\ committing \in BOOLEAN
    /\ \A s \in Previews : preview[s].phase \in ToSet(Phases) \cup {"none", "failed"}

\* A server that has only what the preview should see: the contents of one
\* commit, with the modules and the top-level data of the request in place of
\* its own.
Overlay(r, contents) ==
    LET base == IF r.sandbox THEN << >> ELSE contents.data.sub
    IN  [sent |-> NoData, primary |-> TreeOf(Over(r.data.sub, base)),
         modules |-> Over(r.modules, IF r.sandbox THEN << >> ELSE contents.modules)]
Shadowed(r, contents) ==
    {<<k, contents.data.sub[k]>> : k \in DOMAIN contents.data.sub \cap DOMAIN r.data.sub}
\* An answered preview saw policies and data of one and the same commit that
\* was current while it ran, and nothing of them in a sandbox; what came with
\* the request goes first.  Only an iteration over all data also visits the
\* members that are covered.  A print shows exactly when it was asked for.
AnswersOneCommit ==
    \A s \in Previews : In(s, "end") =>
        \E i \in preview[s].since .. committed :
            LET p == preview[s]
                r == p.request
                ideal == Overlay(r, PrimaryContents[i])
                want == Evaluate(ideal, ideal.modules, r)
            IN  /\ want \subseteq p.response.result
                /\ p.response.result \ want \subseteq (IF r.sandbox THEN {} ELSE Shadowed(r, PrimaryContents[i]))
                /\ p.response.printed = IF r.print THEN Printed(ideal.modules, r) ELSE {}
                /\ r.provenance /\ "system" \notin DOMAIN r.data.sub => p.response.revisions = Revisions(ideal)
\* A preview that has ended, however it did, holds up no commit.
NothingHeld == \A s \in Previews : preview[s].txn => preview[s].phase \in {"compiler", "prepare", "eval", "result"}
PreviewSafety == AnswersOneCommit /\ NothingHeld
=============================================================================
