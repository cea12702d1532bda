---------------------------- MODULE GrpcServer ----------------------------
(***************************************************************************)
(* The gRPC server plugin (pkg/plugins/grpc).  A request carries policy    *)
(* writes, data writes and reads: the unary methods carry one of them, the *)
(* streaming methods a message's worth, BulkRW all three kinds.  Writes    *)
(* run in one write transaction of the store; each read runs in a read     *)
(* transaction of its own and evaluates a prepared query, which is cached  *)
(* until a store trigger, registered while the plugin runs, drops the      *)
(* cache at the next commit.                                               *)
(*                                                                         *)
(* The documents written are siblings below existing objects, so a create  *)
(* needs no parent (MakeDir) and a replace or remove fails on a missing    *)
(* one.  Messages, metrics, TLS and decision logging are left out.         *)
(***************************************************************************)
EXTENDS Naturals, Sequences, FiniteSets, Functions

CONSTANTS
    GSlots,         \* concurrent calls
    GRequests,      \* the requests clients send
    GIds,           \* policy ids
    GPaths,         \* paths of data documents
    GText,          \* what a policy's text is: [kind, package, rule, needs]
    GBundles,       \* bundle name -> its roots ({<<>>} when it owns everything)
    PqMaxCacheSize, \* size of the prepared query cache
    MaxCommits,     \* bound on commits
    GFaults,        \* commits that fail
    GNone           \* no policy, no document, no slot

\* A request lists its writes and reads, and a policy write that carries a text
\* carries one that GText describes.
ASSUME GrpcAssumption ==
    /\ GNone \notin GSlots
    /\ PqMaxCacheSize \in Nat \ {0} /\ MaxCommits \in Nat
    /\ \A req \in GRequests :
         /\ DOMAIN req.reads \subseteq Nat /\ Len(req.policies) \in Nat
         /\ \A i \in 1 .. Len(req.policies) :
              req.policies[i].op \in {"create", "update"} =>
                  req.policies[i].text \in DOMAIN GText

VARIABLES
    gstore,   \* committed: [policies, data]
    gwriter,  \* the slot whose write transaction is open
    pending,  \* what it would commit
    greaders, \* open read transactions: <<slot, index of the read>>
    compiler, \* the policies the manager's compiler was built from
    pqs,      \* the prepared query cache: [data, keylist, idx]
    call,     \* a call: [pc, req, k, resp, wrote]
    rds,      \* a call's reads: [pc, pq, seen]
    plugin,   \* the plugin: stopped, starting, running, stopping, reconfiguring
    trigger,  \* is the commit trigger registered?
    commits,  \* commits so far
    gfaults   \* failed commits so far

gvars == <<gstore, gwriter, pending, greaders, compiler, pqs, call, rds,
           plugin, trigger, commits, gfaults>>

----------------------------------------------------------------------------
(* Scope checks and the requests' effect on an open transaction.            *)

IsPathOwned(path, root) ==
    \A i \in DOMAIN path \cap DOMAIN root : path[i] = root[i]

\* May a client write below path?  Not at the root once a bundle is loaded.
CheckPathScope(path) ==
    \A name \in DOMAIN GBundles :
        /\ path # <<>>
        /\ \A root \in GBundles[name] : root # <<>> /\ ~IsPathOwned(path, root)

\* The package of the stored policy must not be owned either.
CheckPolicyIDScope(st, id) ==
    st.policies[id] # GNone /\ CheckPathScope(GText[st.policies[id]].package)

LoadModules(st) == {st.policies[id] : id \in GIds} \ {GNone}

\* External: the compiler fails when a rule a module needs is in no module.
Compiles(mods) ==
    \A t \in mods : GText[t].needs \subseteq {GText[u].rule : u \in mods}

\* External: WithPathConflictsCheck(NonEmpty): no rule shadows a document.
NoPathConflict(mods, st) ==
    \A t \in mods : GText[t].rule \in GPaths => st.data[GText[t].rule] = GNone

Failed == [ok |-> FALSE]
Done(st) == [ok |-> TRUE, st |-> st]

CreatePolicyFromRequest(st, w) ==
    LET new == [st EXCEPT !.policies[w.id] = w.text] IN
    IF st.policies[w.id] # GNone /\ ~CheckPolicyIDScope(st, w.id) THEN Failed
    ELSE IF st.policies[w.id] = w.text THEN Done(st)
    ELSE IF /\ GText[w.text].kind = "module"
            /\ CheckPathScope(GText[w.text].package)
            /\ Compiles(LoadModules(new))
            /\ NoPathConflict(LoadModules(new), st)
         THEN Done(new) ELSE Failed

UpdatePolicyFromRequest(st, w) == CreatePolicyFromRequest(st, w)

\* Faulty variant: no scope check.
DeletePolicyUnscoped(st, w) ==
    LET new == [st EXCEPT !.policies[w.id] = GNone] IN
    IF st.policies[w.id] # GNone /\ Compiles(LoadModules(new))
    THEN Done(new) ELSE Failed

DeletePolicyFromRequest(st, w) ==
    LET new == [st EXCEPT !.policies[w.id] = GNone] IN
    IF CheckPolicyIDScope(st, w.id) /\ Compiles(LoadModules(new))
    THEN Done(new) ELSE Failed

CreateDataFromRequest(st, w) ==
    IF w.val # "invalid" /\ CheckPathScope(w.path)
    THEN Done([st EXCEPT !.data[w.path] = w.val]) ELSE Failed

\* An unspecified operation replaces.
UpdateDataFromRequest(st, w) ==
    IF /\ w.val # "invalid" /\ CheckPathScope(w.path)
       /\ w.patch \in {"add", "remove", "replace", "unspecified"}
       /\ w.patch # "add" => st.data[w.path] # GNone
    THEN Done([st EXCEPT !.data[w.path] =
                   IF w.patch = "remove" THEN GNone ELSE w.val])
    ELSE Failed

DeleteDataFromRequest(st, w) ==
    IF CheckPathScope(w.path) /\ st.data[w.path] # GNone
    THEN Done([st EXCEPT !.data[w.path] = GNone]) ELSE Failed

\* One policy write, then one data write; an empty request is an error.
HandlePolicyWrite(st, w) ==
    CASE w.op = "create" -> CreatePolicyFromRequest(st, w)
      [] w.op = "update" -> UpdatePolicyFromRequest(st, w)
      [] w.op = "delete" -> DeletePolicyFromRequest(st, w)
      [] OTHER -> Failed
HandleDataWrite(st, w) ==
    CASE w.op = "create" -> CreateDataFromRequest(st, w)
      [] w.op = "update" -> UpdateDataFromRequest(st, w)
      [] w.op = "delete" -> DeleteDataFromRequest(st, w)
      [] OTHER -> Failed

\* Texts and documents are parsed before they are written, by workers of an
\* errgroup that share nothing; the first error is the group's.
ParsePolicyFails(w) ==
    w.op \in {"create", "update"} /\ GText[w.text].kind = "unparsable"
ParseDataFails(w) == w.op \in {"create", "update"} /\ w.val = "invalid"

----------------------------------------------------------------------------
(* The prepared query cache.                                                *)

NewCache == [data |-> <<>>, keylist |-> <<>>, idx |-> 0]

\* Faulty variant: the key list is left alone when an entry is dropped.
CacheInsertSameKey(c, k, v) ==
    IF k \in DOMAIN c.data THEN c
    ELSE IF Len(c.keylist) < PqMaxCacheSize
    THEN [c EXCEPT !.data = [x \in DOMAIN c.data \cup {k} |->
                                 IF x = k THEN v ELSE c.data[x]],
                   !.keylist = Append(c.keylist, k)]
    ELSE LET old == c.keylist[c.idx + 1] IN
         [c EXCEPT !.data = [x \in (DOMAIN c.data \cup {k}) \ {old} |->
                                 IF x = k THEN v ELSE c.data[x]]]

CacheInsert(c, k, v) ==
    IF k \in DOMAIN c.data THEN c
    ELSE IF Len(c.keylist) < PqMaxCacheSize
    THEN [c EXCEPT !.data = [x \in DOMAIN c.data \cup {k} |->
                                 IF x = k THEN v ELSE c.data[x]],
                   !.keylist = Append(c.keylist, k)]
    ELSE LET old == c.keylist[c.idx + 1] IN
         [data |-> [x \in (DOMAIN c.data \cup {k}) \ {old} |->
                        IF x = k THEN v ELSE c.data[x]],
          keylist |-> [c.keylist EXCEPT ![c.idx + 1] = k],
          idx |-> (c.idx + 1) % PqMaxCacheSize]

----------------------------------------------------------------------------
NoRequest == [api |-> "none", policies |-> <<>>, data |-> <<>>, reads |-> <<>>]
NoRead == [pc |-> "todo", pq |-> GNone, seen |-> GNone]
IdleCall == [pc |-> "idle", req |-> NoRequest, k |-> 1, resp |-> "none",
             wrote |-> FALSE]

GrpcInit ==
    /\ gstore = [policies |-> [id \in GIds |-> GNone],
                 data |-> [p \in GPaths |-> GNone]]
    /\ gwriter = GNone /\ pending = gstore /\ greaders = {}
    /\ compiler = gstore.policies /\ pqs = NewCache
    /\ call = [c \in GSlots |-> IdleCall] /\ rds = [c \in GSlots |-> <<>>]
    /\ plugin = "stopped" /\ trigger = FALSE /\ commits = 0 /\ gfaults = 0

Goto(c, pc) == call' = [call EXCEPT ![c].pc = pc, ![c].k = 1]
Writes(req) == Len(req.policies) + Len(req.data) > 0
Serving == plugin \in {"starting", "running", "stopping", "reconfiguring"}

\* A call arrives, or the next message of a stream.
Receive(c, req) ==
    /\ Serving /\ call[c].pc = "idle"
    /\ call' = [call EXCEPT ![c] =
                  [pc |-> IF Writes(req) \/ req.api = "bulk" THEN "begin" ELSE "reads",
                   req |-> req, k |-> 1, resp |-> "none", wrote |-> FALSE]]
    /\ rds' = [rds EXCEPT ![c] = [i \in DOMAIN req.reads |-> NoRead]]
    /\ UNCHANGED <<gstore, gwriter, pending, greaders, compiler, pqs, plugin,
                   trigger, commits, gfaults>>

\* store.NewTransaction(Write: true)
OpenWrite(c) ==
    /\ call[c].pc = "begin" /\ gwriter = GNone
    /\ gwriter' = c /\ pending' = gstore
    /\ Goto(c, IF call[c].req.api = "unary" THEN "policies" ELSE "parsePolicies")
    /\ UNCHANGED <<gstore, greaders, compiler, pqs, rds, plugin, trigger,
                   commits, gfaults>>

\* A stream's worker returns its parse error; a bulk worker first waits for
\* the group's context to end, which only its own error or the call's end does.
ParsePolicies(c) ==
    /\ call[c].pc = "parsePolicies"
    /\ LET req == call[c].req
           bad == \E i \in DOMAIN req.policies : ParsePolicyFails(req.policies[i])
       IN Goto(c, IF ~bad THEN "policies"
                  ELSE IF req.api = "bulk" THEN "stuck" ELSE "abort")
    /\ UNCHANGED <<gstore, gwriter, pending, greaders, compiler, pqs, rds,
                   plugin, trigger, commits, gfaults>>

\* The next policy write of the request, or on to the data.
WritePolicy(c) ==
    /\ call[c].pc = "policies"
    /\ LET req == call[c].req
           k == call[c].k
       IN IF k > Len(req.policies)
          THEN /\ Goto(c, IF req.api = "unary" THEN "data" ELSE "parseData")
               /\ UNCHANGED pending
          ELSE LET r == HandlePolicyWrite(pending, req.policies[k]) IN
               IF r.ok
               THEN pending' = r.st /\ call' = [call EXCEPT ![c].k = k + 1]
               ELSE Goto(c, "abort") /\ UNCHANGED pending
    /\ UNCHANGED <<gstore, gwriter, greaders, compiler, pqs, rds, plugin,
                   trigger, commits, gfaults>>

ParseData(c) ==
    /\ call[c].pc = "parseData"
    /\ LET req == call[c].req IN
       Goto(c, IF \E i \in DOMAIN req.data : ParseDataFails(req.data[i])
               THEN "abort" ELSE "data")
    /\ UNCHANGED <<gstore, gwriter, pending, greaders, compiler, pqs, rds,
                   plugin, trigger, commits, gfaults>>

WriteData(c) ==
    /\ call[c].pc = "data"
    /\ LET req == call[c].req
           k == call[c].k
       IN IF k > Len(req.data)
          THEN Goto(c, "commit") /\ UNCHANGED pending
          ELSE LET r == HandleDataWrite(pending, req.data[k]) IN
               IF r.ok
               THEN pending' = r.st /\ call' = [call EXCEPT ![c].k = k + 1]
               ELSE Goto(c, "abort") /\ UNCHANGED pending
    /\ UNCHANGED <<gstore, gwriter, greaders, compiler, pqs, rds, plugin,
                   trigger, commits, gfaults>>

\* Faulty variant: the commit does not wait for the readers.
CommitStoreBesideReaders(new, reset) ==
    /\ commits < MaxCommits
    /\ gstore' = new /\ compiler' = new.policies
    /\ pqs' = IF reset THEN NewCache ELSE pqs
    /\ commits' = commits + 1

\* What any commit does: it waits for the readers, and its triggers build the
\* manager's compiler (external) and drop the cache.
CommitStore(new, reset) ==
    /\ greaders = {} /\ commits < MaxCommits
    /\ gstore' = new /\ compiler' = new.policies
    /\ pqs' = IF reset THEN NewCache ELSE pqs
    /\ commits' = commits + 1

CommitCall(c) ==
    /\ call[c].pc = "commit"
    /\ CommitStore(pending, trigger)
    /\ gwriter' = GNone
    /\ call' = [call EXCEPT ![c].pc = "reads", ![c].wrote = TRUE]
    /\ UNCHANGED <<pending, greaders, rds, plugin, trigger, gfaults>>

\* Faulty variant: every method ignores the error.
CommitErrorIgnored(c) ==
    /\ call[c].pc = "commit" /\ gfaults < GFaults
    /\ gfaults' = gfaults + 1
    /\ Goto(c, "reads") /\ gwriter' = GNone
    /\ UNCHANGED <<gstore, pending, greaders, compiler, pqs, rds, plugin,
                   trigger, commits>>

\* A mounted store fails to commit: a stream does not look at the error.
CommitError(c) ==
    /\ call[c].pc = "commit" /\ gfaults < GFaults
    /\ gfaults' = gfaults + 1
    /\ IF call[c].req.api = "stream"
       THEN Goto(c, "reads") /\ gwriter' = GNone
       ELSE Goto(c, "abort") /\ UNCHANGED gwriter
    /\ UNCHANGED <<gstore, pending, greaders, compiler, pqs, rds, plugin,
                   trigger, commits>>

AbortCall(c) ==
    /\ call[c].pc = "abort"
    /\ gwriter' = GNone
    /\ call' = [call EXCEPT ![c].pc = "done", ![c].resp = "error"]
    /\ UNCHANGED <<gstore, pending, greaders, compiler, pqs, rds, plugin,
                   trigger, commits, gfaults>>

\* The client goes away or its deadline passes.
Cancel(c) ==
    /\ call[c].pc = "stuck"
    /\ Goto(c, "abort")
    /\ UNCHANGED <<gstore, gwriter, pending, greaders, compiler, pqs, rds,
                   plugin, trigger, commits, gfaults>>

----------------------------------------------------------------------------
(* Reads, each in a transaction of its own.                                 *)

Reading(c, i) == call[c].pc = "reads" /\ i \in DOMAIN rds[c]

BeginRead(c, i) ==
    /\ Reading(c, i) /\ rds[c][i].pc = "todo"
    /\ greaders' = greaders \cup {<<c, i>>}
    /\ rds' = [rds EXCEPT ![c][i].pc = "open"]
    /\ UNCHANGED <<gstore, gwriter, pending, compiler, pqs, call, plugin,
                   trigger, commits, gfaults>>

\* GetPolicy and ListPolicies answer from the store.  GetData takes the
\* prepared query from the cache or prepares one with the current compiler.
LookupQuery(c, i) ==
    /\ Reading(c, i) /\ rds[c][i].pc = "open"
    /\ LET rd == call[c].req.reads[i] IN
       rds' = [rds EXCEPT ![c][i] =
           CASE rd.what = "policy" ->
                  [@ EXCEPT !.pc = "close", !.seen = gstore.policies]
             [] rd.what = "data" /\ rd.path \in DOMAIN pqs.data ->
                  [@ EXCEPT !.pc = "eval", !.pq = pqs.data[rd.path]]
             [] OTHER -> [@ EXCEPT !.pc = "insert", !.pq = compiler]]
    /\ UNCHANGED <<gstore, gwriter, pending, greaders, compiler, pqs, call,
                   plugin, trigger, commits, gfaults>>

InsertQuery(c, i) ==
    /\ Reading(c, i) /\ rds[c][i].pc = "insert"
    /\ pqs' = CacheInsert(pqs, call[c].req.reads[i].path, rds[c][i].pq)
    /\ rds' = [rds EXCEPT ![c][i].pc = "eval"]
    /\ UNCHANGED <<gstore, gwriter, pending, greaders, compiler, call, plugin,
                   trigger, commits, gfaults>>

\* Evaluate and end the transaction; reads are always aborted.
Eval(c, i) ==
    /\ Reading(c, i) /\ rds[c][i].pc \in {"eval", "close"}
    /\ rds' = [rds EXCEPT ![c][i].pc = "done",
                          ![c][i].seen = IF rds[c][i].pc = "eval"
                                         THEN rds[c][i].pq ELSE @]
    /\ greaders' = greaders \ {<<c, i>>}
    /\ UNCHANGED <<gstore, gwriter, pending, compiler, pqs, call, plugin,
                   trigger, commits, gfaults>>

Respond(c) ==
    /\ call[c].pc = "reads"
    /\ \A i \in DOMAIN rds[c] : rds[c][i].pc = "done"
    /\ call' = [call EXCEPT ![c].pc = "done", ![c].resp = "ok"]
    /\ UNCHANGED <<gstore, gwriter, pending, greaders, compiler, pqs, rds,
                   plugin, trigger, commits, gfaults>>

\* A stream waits for its next message unless it failed.
NextMessage(c) ==
    /\ call[c].pc = "done" /\ call[c].req.api = "stream" /\ call[c].resp = "ok"
    /\ \E more \in BOOLEAN :
         call' = [call EXCEPT ![c].pc = IF more THEN "idle" ELSE "ended"]
    /\ UNCHANGED <<gstore, gwriter, pending, greaders, compiler, pqs, rds,
                   plugin, trigger, commits, gfaults>>

----------------------------------------------------------------------------
(* The plugin.                                                              *)

\* The server answers before the trigger is registered.
StartServe ==
    /\ plugin = "stopped"
    /\ plugin' = "starting"
    /\ UNCHANGED <<gstore, gwriter, pending, greaders, compiler, pqs, call,
                   rds, trigger, commits, gfaults>>

\* The commit that registers the trigger runs it.
StartRegister ==
    /\ plugin = "starting" /\ gwriter = GNone
    /\ plugin' = "running" /\ trigger' = TRUE
    /\ CommitStore(gstore, TRUE)
    /\ UNCHANGED <<gwriter, pending, greaders, call, rds, gfaults>>

\* Stop unregisters the trigger first ...
StopUnregister ==
    /\ plugin = "running" /\ gwriter = GNone
    /\ plugin' = "stopping" /\ trigger' = FALSE
    /\ CommitStore(gstore, FALSE)
    /\ UNCHANGED <<gwriter, pending, greaders, call, rds, gfaults>>

\* ... and then waits for the calls to end (GracefulStop).
StopDrain ==
    /\ plugin = "stopping"
    /\ \A c \in GSlots : call[c].pc \in {"idle", "done", "ended"}
    /\ plugin' = "halted"
    /\ UNCHANGED <<gstore, gwriter, pending, greaders, compiler, pqs, call,
                   rds, trigger, commits, gfaults>>

\* GrpcReconfigure takes the plugin's mutex and calls Stop, which takes it again:
\* neither returns, and the old server goes on serving.
GrpcReconfigure ==
    /\ plugin = "running"
    /\ plugin' = "reconfiguring"
    /\ UNCHANGED <<gstore, gwriter, pending, greaders, compiler, pqs, call,
                   rds, trigger, commits, gfaults>>

\* Another writer of the store (a bundle, the REST API) commits policies.
OtherCommit(id, t) ==
    /\ gwriter = GNone /\ gstore.policies[id] # t
    /\ CommitStore([gstore EXCEPT !.policies[id] = t], trigger)
    /\ UNCHANGED <<gwriter, pending, greaders, call, rds, plugin, trigger,
                   gfaults>>

CallStep(c) ==
    \/ OpenWrite(c) \/ ParsePolicies(c) \/ WritePolicy(c) \/ ParseData(c)
    \/ WriteData(c) \/ CommitCall(c) \/ CommitError(c) \/ AbortCall(c)
    \/ \E i \in DOMAIN rds[c] :
         BeginRead(c, i) \/ LookupQuery(c, i) \/ InsertQuery(c, i) \/ Eval(c, i)
    \/ Respond(c)

PluginStep ==
    \/ StartServe \/ StartRegister \/ StopUnregister \/ StopDrain
    \/ GrpcReconfigure

GrpcNext ==
    \/ \E c \in GSlots : CallStep(c)
    \/ \E c \in GSlots : Cancel(c) \/ NextMessage(c)
    \/ \E c \in GSlots, req \in GRequests : Receive(c, req)
    \/ \E id \in GIds, t \in DOMAIN GText :
         GText[t].kind = "module" /\ OtherCommit(id, t)
    \/ PluginStep

GrpcSpec == GrpcInit /\ [][GrpcNext]_gvars

----------------------------------------------------------------------------
GrpcTypeOK ==
    /\ gwriter \in GSlots \cup {GNone}
    /\ greaders \subseteq GSlots \X Nat
    /\ \A c \in GSlots : call[c].resp \in {"none", "ok", "error"}
    /\ trigger \in BOOLEAN /\ commits \in 0 .. MaxCommits

\* While the commit trigger is registered, every cached prepared query, and
\* every one a read is about to evaluate, was compiled from the policies of
\* the store, although Insert takes no lock on the cache pointer.
CachedQueriesAreCurrent ==
    trigger =>
        /\ \A k \in DOMAIN pqs.data : pqs.data[k] = gstore.policies
        /\ \A c \in GSlots : \A i \in DOMAIN rds[c] :
             rds[c][i].pc \in {"insert", "eval"} => rds[c][i].pq = gstore.policies

\* The key list that decides which entry is dropped and the entries agree,
\* through every wrap of the index.
CacheKeysAgree ==
    /\ Range(pqs.keylist) = DOMAIN pqs.data
    /\ Cardinality(DOMAIN pqs.data) = Len(pqs.keylist)
    /\ Len(pqs.keylist) <= PqMaxCacheSize

\* A call that is not a stream's and answers ok has committed its writes, and
\* one that answers with an error has committed none of them.
AnswersTellWhatWasStored ==
    \A c \in GSlots :
        /\ call[c].resp = "ok" /\ Writes(call[c].req)
             /\ call[c].req.api # "stream" => call[c].wrote
        /\ call[c].resp = "error" => ~call[c].wrote

\* No request of a client changes, adds or deletes a document or a policy
\* whose path a bundle owns.
OwnedPathsUntouched ==
    [][gstore' # gstore => \A c \in GSlots : call[c].pc = "commit" /\ call'[c].wrote =>
         /\ \A p \in GPaths :
              ~CheckPathScope(p) => gstore'.data[p] = gstore.data[p]
         /\ \A id \in GIds :
              gstore'.policies[id] # gstore.policies[id] =>
                \A t \in {gstore.policies[id], gstore'.policies[id]} \ {GNone} :
                   CheckPathScope(GText[t].package)]_gvars

\* The three together: what a call reads and answers follows from the policies
\* and the data of the store.
GrpcSafety == CachedQueriesAreCurrent /\ CacheKeysAgree /\ AnswersTellWhatWasStored
=============================================================================
