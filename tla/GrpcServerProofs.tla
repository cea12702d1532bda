-------------------------- MODULE GrpcServerProofs --------------------------
(***************************************************************************)
(* Proofs about the gRPC server, for any number of concurrent calls, for   *)
(* every request, every set of policies and bundles and every size of the  *)
(* prepared query cache.                                                   *)
(***************************************************************************)
EXTENDS GrpcServer, FiniteSetTheorems, TLAPS

-----------------------------------------------------------------------------
(* The inductive invariant.                                                *)

Policies == [GIds -> DOMAIN GText \cup {GNone}]
WriteStates == {"parsePolicies", "policies", "parseData", "data", "commit", "stuck", "abort"}
CallStates == WriteStates \cup {"idle", "begin", "reads", "done", "ended"}
CallRecords == [pc : CallStates, req : GRequests \cup {NoRequest}, k : Nat \ {0},
                resp : {"none", "ok", "error"}, wrote : BOOLEAN]
ReadStates == {"open", "insert", "eval", "close"}
ReadRecords == [pc : ReadStates \cup {"todo", "done"},
                pq : Policies \cup {GNone}, seen : Policies \cup {GNone}]

\* A call has committed nothing before its transaction ends, and nothing is
\* answered before its reads.
CallAt(c) ==
    /\ call[c].pc \in WriteStates \cup {"begin"} => ~call[c].wrote /\ call[c].resp = "none"
    /\ call[c].pc = "reads" =>
         /\ call[c].resp = "none"
         /\ Writes(call[c].req) /\ call[c].req.api # "stream" => call[c].wrote
    /\ call[c].resp = "ok" /\ Writes(call[c].req) /\ call[c].req.api # "stream" => call[c].wrote
    /\ call[c].resp = "error" => ~call[c].wrote

\* The write transaction belongs to the call that is between its begin and its
\* end.
WriterAt(c) == call[c].pc \in WriteStates => gwriter = c

CallInv ==
    /\ call \in [GSlots -> CallRecords]
    /\ gwriter \in GSlots \cup {GNone}
    /\ \A c \in GSlots : CallAt(c) /\ WriterAt(c)

IsStore(st) ==
    /\ st = [policies |-> st.policies, data |-> st.data]
    /\ st.policies \in Policies
    /\ DOMAIN st.data = GPaths

\* A transaction that starts from the store and ends in st touches nothing
\* that a bundle owns.
Scoped(st) ==
    /\ \A p \in GPaths : ~CheckPathScope(p) => st.data[p] = gstore.data[p]
    /\ \A id \in GIds :
         st.policies[id] # gstore.policies[id] =>
             \A t \in {gstore.policies[id], st.policies[id]} \ {GNone} :
                CheckPathScope(GText[t].package)

PendingInv ==
    /\ IsStore(gstore) /\ IsStore(pending)
    /\ gwriter # GNone => Scoped(pending)

\* A read that is under way keeps commits out, and was prepared from the
\* policies of the store.
ReadAt(c, i) ==
    /\ rds[c][i] \in ReadRecords
    /\ rds[c][i].pc \in ReadStates => <<c, i>> \in greaders
    /\ trigger /\ rds[c][i].pc \in {"insert", "eval"} => rds[c][i].pq = gstore.policies

CacheAt(c) ==
    /\ c = [data |-> c.data, keylist |-> c.keylist, idx |-> c.idx]
    /\ c.keylist \in Seq(DOMAIN c.data)
    /\ \A x \in DOMAIN c.data : \E i \in 1 .. Len(c.keylist) : c.keylist[i] = x
    /\ \A i, j \in 1 .. Len(c.keylist) : c.keylist[i] = c.keylist[j] => i = j
    /\ Len(c.keylist) <= PqMaxCacheSize
    /\ c.idx \in 0 .. PqMaxCacheSize - 1

ReadInv ==
    /\ trigger \in BOOLEAN /\ commits \in 0 .. MaxCommits
    /\ greaders \subseteq GSlots \X Nat
    /\ compiler = gstore.policies
    /\ DOMAIN rds = GSlots
    /\ \A c \in GSlots : /\ rds[c] = [i \in DOMAIN rds[c] |-> rds[c][i]]
                         /\ DOMAIN rds[c] \subseteq Nat
                         /\ \A i \in DOMAIN rds[c] : ReadAt(c, i)
    /\ CacheAt(pqs)
    /\ \A k \in DOMAIN pqs.data : pqs.data[k] \in Policies \cup {GNone}
    /\ trigger => \A k \in DOMAIN pqs.data : pqs.data[k] = gstore.policies

\* What every step keeps: the calls own their transactions, their transactions
\* stay in scope, and their reads and the cache are current.
IGrpc == CallInv /\ PendingInv /\ ReadInv

-----------------------------------------------------------------------------
(* Calls and their write transactions.                                     *)

LEMMA GrpcCallsInitially == GrpcInit => CallInv
<1> SUFFICES ASSUME GrpcInit PROVE CallInv
  OBVIOUS
<1>1. IdleCall \in CallRecords
  BY DEF IdleCall, CallRecords, CallStates
<1>2. call \in [GSlots -> CallRecords] /\ gwriter \in GSlots \cup {GNone}
  BY <1>1 DEF GrpcInit
<1>3. ASSUME NEW c \in GSlots PROVE CallAt(c) /\ WriterAt(c)
  <2>1. call[c].pc = "idle" /\ call[c].resp = "none"
    BY DEF GrpcInit, IdleCall
  <2> QED
    BY <2>1 DEF CallAt, WriterAt, WriteStates
<1> QED
  BY <1>2, <1>3 DEF CallInv

LEMMA GotoEffect ==
    ASSUME CallInv, NEW c \in GSlots, NEW pc \in CallStates, Goto(c, pc)
    PROVE  /\ call' \in [GSlots -> CallRecords]
           /\ call'[c].pc = pc
           /\ call'[c].req = call[c].req
           /\ call'[c].resp = call[c].resp
           /\ call'[c].wrote = call[c].wrote
           /\ \A d \in GSlots \ {c} : call'[d] = call[d]
<1>1. call[c] \in CallRecords /\ 1 \in Nat \ {0}
  BY DEF CallInv
<1>2. [call[c] EXCEPT !.pc = pc, !.k = 1] \in CallRecords
  BY <1>1 DEF CallRecords
<1>3. call' = [call EXCEPT ![c] = [call[c] EXCEPT !.pc = pc, !.k = 1]]
  BY DEF Goto
<1>4. call' \in [GSlots -> CallRecords]
  BY <1>2, <1>3 DEF CallInv
<1>5. call'[c] = [call[c] EXCEPT !.pc = pc, !.k = 1] /\ \A d \in GSlots \ {c} : call'[d] = call[d]
  BY <1>3 DEF CallInv
<1> QED
  BY <1>1, <1>4, <1>5 DEF CallRecords

\* A step of one call leaves the others alone, and takes or gives back the
\* transaction only when no other call has it.
LEMMA OneCallMoves ==
    ASSUME CallInv, NEW c \in GSlots,
           call' \in [GSlots -> CallRecords], gwriter' \in GSlots \cup {GNone},
           \A d \in GSlots \ {c} : call'[d] = call[d],
           gwriter' = gwriter \/ gwriter \in {c, GNone},
           CallAt(c)', WriterAt(c)'
    PROVE  CallInv'
<1>1. ASSUME NEW d \in GSlots PROVE CallAt(d)' /\ WriterAt(d)'
  <2>1. CASE d = c
    BY <2>1
  <2>2. CASE d # c
    <3>1. call'[d] = call[d] /\ CallAt(d) /\ WriterAt(d)
      BY <2>2 DEF CallInv
    <3>2. CallAt(d)'
      BY <3>1 DEF CallAt
    <3>3. WriterAt(d)'
      BY <2>2, <3>1, GrpcAssumption DEF WriterAt
    <3> QED
      BY <3>2, <3>3
  <2> QED
    BY <2>1, <2>2
<1> QED
  BY <1>1 DEF CallInv

\* A step that only moves a call on within its transaction.
LEMMA MovesInTransaction ==
    ASSUME CallInv, NEW c \in GSlots, NEW pc \in WriteStates,
           call[c].pc \in WriteStates, Goto(c, pc), gwriter' = gwriter
    PROVE  CallInv'
<1>1. pc \in CallStates
  BY DEF CallStates
<1>2. CallAt(c) /\ WriterAt(c) /\ gwriter' \in GSlots \cup {GNone}
  BY DEF CallInv
<1>3. CallAt(c)'
  BY <1>1, <1>2, GotoEffect DEF CallAt, WriteStates
<1>4. WriterAt(c)'
  BY <1>1, <1>2, GotoEffect DEF WriterAt
<1> QED
  BY <1>1, <1>2, <1>3, <1>4, GotoEffect, OneCallMoves

LEMMA CountsInTransaction ==
    ASSUME CallInv, NEW c \in GSlots, call[c].pc \in WriteStates,
           call' = [call EXCEPT ![c].k = call[c].k + 1], gwriter' = gwriter
    PROVE  CallInv'
<1>1. /\ call' \in [GSlots -> CallRecords]
      /\ call'[c].pc = call[c].pc /\ call'[c].req = call[c].req
      /\ call'[c].resp = call[c].resp /\ call'[c].wrote = call[c].wrote
      /\ \A d \in GSlots \ {c} : call'[d] = call[d]
  BY DEF CallInv, CallRecords
<1>2. CallAt(c) /\ WriterAt(c) /\ gwriter' \in GSlots \cup {GNone}
  BY DEF CallInv
<1>3. CallAt(c)' /\ WriterAt(c)'
  BY <1>1, <1>2 DEF CallAt, WriterAt
<1> QED
  BY <1>1, <1>2, <1>3, OneCallMoves

\* A call leaves its transaction, for its reads or for its answer.
LEMMA CallsAfterCommit ==
    ASSUME CallInv, NEW c \in GSlots,
           CommitCall(c) \/ CommitError(c) \/ AbortCall(c) \/ Respond(c)
    PROVE  CallInv'
<1>0. CallAt(c) /\ WriterAt(c) /\ call[c] \in CallRecords
  BY DEF CallInv
<1>1. CASE CommitCall(c)
  <2>1. /\ call' \in [GSlots -> CallRecords] /\ gwriter' = GNone
        /\ call'[c].pc = "reads" /\ call'[c].resp = call[c].resp /\ call'[c].wrote
        /\ \A d \in GSlots \ {c} : call'[d] = call[d]
    BY <1>1 DEF CallInv, CallRecords, CallStates, CommitCall
  <2>2. call[c].pc \in WriteStates
    BY <1>1 DEF CommitCall, WriteStates
  <2>3. CallAt(c)' /\ WriterAt(c)'
    BY <1>0, <2>1, <2>2 DEF CallAt, WriterAt, WriteStates
  <2> QED
    BY <1>0, <2>1, <2>2, <2>3, OneCallMoves DEF WriterAt
<1>2. CASE CommitError(c)
  <2>1. call[c].pc \in WriteStates
    BY <1>2 DEF CommitError, WriteStates
  <2>2. CASE call[c].req.api = "stream"
    <3>1. "reads" \in CallStates /\ Goto(c, "reads") /\ gwriter' = GNone
      BY <1>2, <2>2 DEF CommitError, CallStates
    <3>2. CallAt(c)' /\ WriterAt(c)'
      BY <1>0, <2>1, <2>2, <3>1, GotoEffect DEF CallAt, WriterAt, WriteStates
    <3> QED
      BY <1>0, <2>1, <3>1, <3>2, GotoEffect, OneCallMoves DEF WriterAt
  <2>3. CASE call[c].req.api # "stream"
    <3>1. "abort" \in WriteStates /\ Goto(c, "abort") /\ gwriter' = gwriter
      BY <1>2, <2>3 DEF CommitError, WriteStates
    <3> QED
      BY <2>1, <3>1, MovesInTransaction
  <2> QED
    BY <2>2, <2>3
<1>3. CASE AbortCall(c)
  <2>1. /\ call' \in [GSlots -> CallRecords] /\ gwriter' = GNone
        /\ call'[c].pc = "done" /\ call'[c].resp = "error" /\ call'[c].wrote = call[c].wrote
        /\ \A d \in GSlots \ {c} : call'[d] = call[d]
    BY <1>3 DEF CallInv, CallRecords, CallStates, AbortCall
  <2>2. call[c].pc \in WriteStates
    BY <1>3 DEF AbortCall, WriteStates
  <2>3. CallAt(c)' /\ WriterAt(c)'
    BY <1>0, <2>1, <2>2 DEF CallAt, WriterAt, WriteStates
  <2> QED
    BY <1>0, <2>1, <2>2, <2>3, OneCallMoves DEF WriterAt
<1>4. CASE Respond(c)
  <2>1. /\ call' \in [GSlots -> CallRecords] /\ gwriter' = gwriter
        /\ call'[c].pc = "done" /\ call'[c].resp = "ok" /\ call'[c].wrote = call[c].wrote
        /\ call'[c].req = call[c].req /\ gwriter' \in GSlots \cup {GNone}
        /\ \A d \in GSlots \ {c} : call'[d] = call[d]
    BY <1>4 DEF CallInv, CallRecords, CallStates, Respond
  <2>2. call[c].pc = "reads"
    BY <1>4 DEF Respond
  <2>3. CallAt(c)' /\ WriterAt(c)'
    BY <1>0, <2>1, <2>2 DEF CallAt, WriterAt, WriteStates
  <2> QED
    BY <2>1, <2>3, OneCallMoves
<1> QED
  BY <1>1, <1>2, <1>3, <1>4

LEMMA CallsInTransaction ==
    ASSUME CallInv, NEW c \in GSlots,
           OpenWrite(c) \/ ParsePolicies(c) \/ WritePolicy(c) \/ ParseData(c)
             \/ WriteData(c) \/ Cancel(c)
    PROVE  CallInv'
<1>0. CallAt(c) /\ WriterAt(c)
  BY DEF CallInv
<1>1. CASE OpenWrite(c)
  <2>1. PICK pc \in {"policies", "parsePolicies"} : Goto(c, pc)
    BY <1>1 DEF OpenWrite
  <2>2. pc \in CallStates /\ gwriter = GNone /\ gwriter' = c /\ call[c].pc = "begin"
    BY <1>1 DEF OpenWrite, CallStates, WriteStates
  <2>3. CallAt(c)'
    BY <1>0, <2>1, <2>2, GotoEffect DEF CallAt, WriteStates
  <2>4. WriterAt(c)'
    BY <2>2 DEF WriterAt
  <2> QED
    BY <2>1, <2>2, <2>3, <2>4, GotoEffect, OneCallMoves
<1>2. CASE ParsePolicies(c)
  <2>1. \E pc \in {"policies", "stuck", "abort"} : Goto(c, pc)
    BY <1>2 DEF ParsePolicies
  <2>2. call[c].pc \in WriteStates /\ gwriter' = gwriter
    BY <1>2 DEF ParsePolicies, WriteStates
  <2> QED
    BY <2>1, <2>2, MovesInTransaction DEF WriteStates
<1>3. CASE WritePolicy(c)
  <2>1. \/ \E pc \in {"data", "parseData", "abort"} : Goto(c, pc)
        \/ call' = [call EXCEPT ![c].k = call[c].k + 1]
    BY <1>3 DEF WritePolicy
  <2>2. call[c].pc \in WriteStates /\ gwriter' = gwriter
    BY <1>3 DEF WritePolicy, WriteStates
  <2> QED
    BY <2>1, <2>2, MovesInTransaction, CountsInTransaction DEF WriteStates
<1>4. CASE ParseData(c)
  <2>1. \E pc \in {"data", "abort"} : Goto(c, pc)
    BY <1>4 DEF ParseData
  <2>2. call[c].pc \in WriteStates /\ gwriter' = gwriter
    BY <1>4 DEF ParseData, WriteStates
  <2> QED
    BY <2>1, <2>2, MovesInTransaction DEF WriteStates
<1>5. CASE WriteData(c)
  <2>1. \/ \E pc \in {"commit", "abort"} : Goto(c, pc)
        \/ call' = [call EXCEPT ![c].k = call[c].k + 1]
    BY <1>5 DEF WriteData
  <2>2. call[c].pc \in WriteStates /\ gwriter' = gwriter
    BY <1>5 DEF WriteData, WriteStates
  <2> QED
    BY <2>1, <2>2, MovesInTransaction, CountsInTransaction DEF WriteStates
<1>6. CASE Cancel(c)
  <2>1. Goto(c, "abort") /\ call[c].pc \in WriteStates /\ gwriter' = gwriter
    BY <1>6 DEF Cancel, WriteStates
  <2> QED
    BY <2>1, MovesInTransaction DEF WriteStates
<1> QED
  BY <1>1, <1>2, <1>3, <1>4, <1>5, <1>6

LEMMA CallsBetween ==
    ASSUME CallInv, NEW c \in GSlots,
           NextMessage(c) \/ \E req \in GRequests : Receive(c, req)
    PROVE  CallInv'
<1>0. CallAt(c) /\ WriterAt(c)
  BY DEF CallInv
<1>1. CASE NextMessage(c)
  <2>1. /\ call' \in [GSlots -> CallRecords] /\ gwriter' = gwriter
        /\ call'[c].pc \in {"idle", "ended"} /\ call'[c].resp = call[c].resp
        /\ call'[c].wrote = call[c].wrote /\ call'[c].req = call[c].req
        /\ \A d \in GSlots \ {c} : call'[d] = call[d]
    BY <1>1 DEF CallInv, CallRecords, CallStates, NextMessage
  <2>2. CallAt(c)' /\ WriterAt(c)' /\ gwriter' \in GSlots \cup {GNone}
    BY <1>0, <2>1 DEF CallAt, WriterAt, WriteStates, CallInv
  <2> QED
    BY <2>1, <2>2, OneCallMoves
<1>2. ASSUME NEW req \in GRequests, Receive(c, req) PROVE CallInv'
  <2> DEFINE pc == IF Writes(req) \/ req.api = "bulk" THEN "begin" ELSE "reads"
             new == [pc |-> pc, req |-> req, k |-> 1, resp |-> "none", wrote |-> FALSE]
  <2>1. pc \in {"begin", "reads"} /\ (pc = "reads" => ~Writes(req))
    OBVIOUS
  <2>b. call' = [call EXCEPT ![c] = new] /\ gwriter' = gwriter
    BY <1>2 DEF Receive
  <2>c. new \in CallRecords
    BY <2>1 DEF CallRecords, CallStates
  <2>d. new.pc = pc /\ new.resp = "none" /\ new.wrote = FALSE /\ new.req = req
    OBVIOUS
  <2> HIDE DEF new, pc
  <2>2. /\ call' \in [GSlots -> CallRecords] /\ gwriter' = gwriter
        /\ call'[c] = new
        /\ \A d \in GSlots \ {c} : call'[d] = call[d]
    BY <2>b, <2>c DEF CallInv
  <2>3. CallAt(c)' /\ WriterAt(c)' /\ gwriter' \in GSlots \cup {GNone}
    BY <1>0, <2>1, <2>2, <2>d DEF CallAt, WriterAt, WriteStates, CallInv
  <2> QED
    BY <2>2, <2>3, OneCallMoves
<1> QED
  BY <1>1, <1>2

\* Steps of reads, of the plugin and of other writers.
LEMMA CallsUntouched ==
    ASSUME CallInv, UNCHANGED <<call, gwriter>>
    PROVE  CallInv'
BY DEF CallInv, CallAt, WriterAt

LEMMA CallsStep == CallInv /\ [GrpcNext]_gvars => CallInv'
<1> SUFFICES ASSUME CallInv, [GrpcNext]_gvars PROVE CallInv'
  OBVIOUS
<1>1. ASSUME NEW c \in GSlots, CallStep(c) PROVE CallInv'
  <2>1. CASE \E i \in DOMAIN rds[c] :
               BeginRead(c, i) \/ LookupQuery(c, i) \/ InsertQuery(c, i) \/ Eval(c, i)
    BY <2>1, CallsUntouched DEF BeginRead, LookupQuery, InsertQuery, Eval
  <2> QED
    BY <1>1, <2>1, CallsInTransaction, CallsAfterCommit DEF CallStep
<1>2. ASSUME NEW id, NEW t, OtherCommit(id, t) PROVE CallInv'
  BY <1>2, CallsUntouched DEF OtherCommit
<1>3. CASE PluginStep
  BY <1>3, CallsUntouched DEF PluginStep, StartServe, StartRegister, StopUnregister, StopDrain,
                              GrpcReconfigure
<1>4. CASE UNCHANGED gvars
  BY <1>4, CallsUntouched DEF gvars
<1> QED
  BY <1>1, <1>2, <1>3, <1>4, CallsInTransaction, CallsBetween DEF GrpcNext

-----------------------------------------------------------------------------
(* What a transaction may change.                                          *)

LEMMA SetPolicyScoped ==
    ASSUME IsStore(gstore), NEW st, IsStore(st), Scoped(st),
           NEW id, NEW t \in DOMAIN GText \cup {GNone},
           t # GNone => CheckPathScope(GText[t].package),
           st.policies[id] # GNone => CheckPathScope(GText[st.policies[id]].package)
    PROVE  /\ IsStore([st EXCEPT !.policies[id] = t])
           /\ Scoped([st EXCEPT !.policies[id] = t])
<1> DEFINE pols == [st.policies EXCEPT ![id] = t]
           new == [st EXCEPT !.policies[id] = t]
<1>1. new = [policies |-> pols, data |-> st.data]
  BY DEF IsStore
<1>2. new.policies = pols /\ new.data = st.data
  BY <1>1
<1>3. pols \in Policies /\ \A x \in GIds : pols[x] = IF x = id THEN t ELSE st.policies[x]
  BY DEF IsStore, Policies
<1> HIDE DEF new, pols
<1>4. IsStore(new)
  BY <1>1, <1>2, <1>3 DEF IsStore
<1>5. Scoped(new)
  BY <1>2, <1>3 DEF Scoped
<1> QED
  BY <1>4, <1>5 DEF new

LEMMA SetDataScoped ==
    ASSUME NEW st, IsStore(st), Scoped(st), NEW path, CheckPathScope(path), NEW v
    PROVE  /\ IsStore([st EXCEPT !.data[path] = v])
           /\ Scoped([st EXCEPT !.data[path] = v])
<1> DEFINE docs == [st.data EXCEPT ![path] = v]
           new == [st EXCEPT !.data[path] = v]
<1>1. new = [policies |-> st.policies, data |-> docs]
  BY DEF IsStore
<1>2. new.policies = st.policies /\ new.data = docs
  BY <1>1
<1>3. DOMAIN docs = GPaths /\ \A x \in GPaths : docs[x] = IF x = path THEN v ELSE st.data[x]
  BY DEF IsStore
<1> HIDE DEF new, docs
<1>4. IsStore(new)
  BY <1>1, <1>2, <1>3 DEF IsStore
<1>5. Scoped(new)
  BY <1>2, <1>3 DEF Scoped
<1> QED
  BY <1>4, <1>5 DEF new

LEMMA PolicyWriteScoped ==
    ASSUME IsStore(gstore), NEW st, IsStore(st), Scoped(st), NEW w,
           w.op \in {"create", "update"} => w.text \in DOMAIN GText,
           HandlePolicyWrite(st, w).ok
    PROVE  IsStore(HandlePolicyWrite(st, w).st) /\ Scoped(HandlePolicyWrite(st, w).st)
<1>0. Failed.ok = FALSE /\ \A x : Done(x).ok = TRUE /\ Done(x).st = x
  BY DEF Failed, Done
<1>1. CASE w.op \in {"create", "update"}
  <2> DEFINE new == [st EXCEPT !.policies[w.id] = w.text]
  <2>1. HandlePolicyWrite(st, w) = CreatePolicyFromRequest(st, w)
    BY <1>1 DEF HandlePolicyWrite, UpdatePolicyFromRequest
  <2>2. \/ CreatePolicyFromRequest(st, w) = Failed
        \/ CreatePolicyFromRequest(st, w) = Done(st)
        \/ /\ CreatePolicyFromRequest(st, w) = Done(new)
           /\ CheckPathScope(GText[w.text].package)
           /\ st.policies[w.id] # GNone => CheckPathScope(GText[st.policies[w.id]].package)
    BY DEF CreatePolicyFromRequest, CheckPolicyIDScope
  <2>3. /\ CheckPathScope(GText[w.text].package)
        /\ st.policies[w.id] # GNone => CheckPathScope(GText[st.policies[w.id]].package)
        => IsStore(new) /\ Scoped(new)
    BY <1>1, SetPolicyScoped
  <2> HIDE DEF new
  <2> QED
    BY <1>0, <2>1, <2>2, <2>3
<1>2. CASE w.op = "delete"
  <2> DEFINE new == [st EXCEPT !.policies[w.id] = GNone]
  <2>1. HandlePolicyWrite(st, w) = DeletePolicyFromRequest(st, w)
    BY <1>2 DEF HandlePolicyWrite
  <2>2. \/ DeletePolicyFromRequest(st, w) = Failed
        \/ /\ DeletePolicyFromRequest(st, w) = Done(new)
           /\ CheckPathScope(GText[st.policies[w.id]].package)
    BY DEF DeletePolicyFromRequest, CheckPolicyIDScope
  <2>3. CheckPathScope(GText[st.policies[w.id]].package) => IsStore(new) /\ Scoped(new)
    BY SetPolicyScoped
  <2> HIDE DEF new
  <2> QED
    BY <1>0, <2>1, <2>2, <2>3
<1>3. CASE w.op \notin {"create", "update", "delete"}
  BY <1>0, <1>3 DEF HandlePolicyWrite
<1> QED
  BY <1>1, <1>2, <1>3

LEMMA DataWriteScoped ==
    ASSUME NEW st, IsStore(st), Scoped(st), NEW w, HandleDataWrite(st, w).ok
    PROVE  IsStore(HandleDataWrite(st, w).st) /\ Scoped(HandleDataWrite(st, w).st)
<1>0. Failed.ok = FALSE /\ \A x : Done(x).ok = TRUE /\ Done(x).st = x
  BY DEF Failed, Done
<1>1. \/ HandleDataWrite(st, w) = Failed
      \/ \E v : /\ HandleDataWrite(st, w) = Done([st EXCEPT !.data[w.path] = v])
                /\ CheckPathScope(w.path)
  <2>1. CASE w.op = "create"
    BY <2>1 DEF HandleDataWrite, CreateDataFromRequest
  <2>2. CASE w.op = "update"
    BY <2>2 DEF HandleDataWrite, UpdateDataFromRequest
  <2>3. CASE w.op = "delete"
    BY <2>3 DEF HandleDataWrite, DeleteDataFromRequest
  <2>4. CASE w.op \notin {"create", "update", "delete"}
    BY <2>4 DEF HandleDataWrite
  <2> QED
    BY <2>1, <2>2, <2>3, <2>4
<1>2. CASE HandleDataWrite(st, w) = Failed
  BY <1>0, <1>2
<1>3. ASSUME NEW v, HandleDataWrite(st, w) = Done([st EXCEPT !.data[w.path] = v]),
             CheckPathScope(w.path)
      PROVE  IsStore(HandleDataWrite(st, w).st) /\ Scoped(HandleDataWrite(st, w).st)
  BY <1>0, <1>3, SetDataScoped
<1> QED
  BY <1>1, <1>2, <1>3

LEMMA PendingInitially == GrpcInit => PendingInv
<1> SUFFICES ASSUME GrpcInit PROVE PendingInv
  OBVIOUS
<1>1. IsStore(gstore) /\ IsStore(pending)
  BY DEF GrpcInit, IsStore, Policies
<1> QED
  BY <1>1 DEF GrpcInit, PendingInv

LEMMA PendingUntouched ==
    ASSUME PendingInv, UNCHANGED <<gstore, pending>>, gwriter' \in {gwriter, GNone}
    PROVE  PendingInv'
BY DEF PendingInv, Scoped, IsStore

\* With no transaction open, a new committed state is all there is to look at.
LEMMA PendingCommitted ==
    ASSUME PendingInv, UNCHANGED pending, gwriter' = GNone, IsStore(gstore')
    PROVE  PendingInv'
BY DEF PendingInv, IsStore

LEMMA PendingStep == CallInv /\ PendingInv /\ [GrpcNext]_gvars => PendingInv'
<1> SUFFICES ASSUME CallInv, PendingInv, [GrpcNext]_gvars PROVE PendingInv'
  OBVIOUS
<1>1. ASSUME NEW c \in GSlots, CallStep(c) \/ Cancel(c) \/ NextMessage(c) PROVE PendingInv'
  <2>0. WriterAt(c) /\ call[c] \in CallRecords
    BY DEF CallInv
  <2>1. CASE OpenWrite(c)
    BY <2>1 DEF OpenWrite, PendingInv, IsStore, Scoped
  <2>2. CASE WritePolicy(c)
    <3> DEFINE k == call[c].k
               req == call[c].req
               r == HandlePolicyWrite(pending, req.policies[k])
    <3>1. UNCHANGED <<gwriter, gstore>> /\ call[c].pc \in WriteStates
      BY <2>2 DEF WritePolicy, WriteStates
    <3>2. \/ UNCHANGED pending
          \/ ~(k > Len(req.policies)) /\ r.ok /\ pending' = r.st
      BY <2>2 DEF WritePolicy
    <3>3. CASE UNCHANGED pending
      BY <3>1, <3>3, PendingUntouched
    <3>4. CASE ~(k > Len(req.policies)) /\ r.ok /\ pending' = r.st
      <4>1. k \in Nat \ {0} /\ req \in GRequests \cup {NoRequest}
        BY <2>0 DEF CallRecords
      <4>2. req # NoRequest
        BY <3>4, <4>1 DEF NoRequest
      <4>3. req.policies[k].op \in {"create", "update"} => req.policies[k].text \in DOMAIN GText
        <5>1. req \in GRequests
          BY <4>1, <4>2
        <5>2. k \in 1 .. Len(req.policies)
          BY <3>4, <4>1, <5>1, GrpcAssumption
        <5> QED
          BY <5>1, <5>2, GrpcAssumption
      <4>4. IsStore(gstore) /\ IsStore(pending) /\ Scoped(pending)
        BY <2>0, <3>1, GrpcAssumption DEF PendingInv, WriterAt
      <4>5. IsStore(r.st) /\ Scoped(r.st)
        BY <3>4, <4>3, <4>4, PolicyWriteScoped
      <4> QED
        BY <3>1, <3>4, <4>4, <4>5 DEF PendingInv, Scoped, IsStore
    <3> QED
      BY <3>2, <3>3, <3>4
  <2>3. CASE WriteData(c)
    <3> DEFINE r == HandleDataWrite(pending, call[c].req.data[call[c].k])
    <3>1. UNCHANGED <<gwriter, gstore>> /\ call[c].pc \in WriteStates
      BY <2>3 DEF WriteData, WriteStates
    <3>2. UNCHANGED pending \/ (r.ok /\ pending' = r.st)
      BY <2>3 DEF WriteData
    <3>3. CASE UNCHANGED pending
      BY <3>1, <3>3, PendingUntouched
    <3>4. CASE r.ok /\ pending' = r.st
      <4>1. IsStore(gstore) /\ IsStore(pending) /\ Scoped(pending)
        BY <2>0, <3>1, GrpcAssumption DEF PendingInv, WriterAt
      <4>2. IsStore(r.st) /\ Scoped(r.st)
        BY <3>4, <4>1, DataWriteScoped
      <4> QED
        BY <3>1, <3>4, <4>1, <4>2 DEF PendingInv, Scoped, IsStore
    <3> QED
      BY <3>2, <3>3, <3>4
  <2>4. CASE CommitCall(c)
    BY <2>4, PendingCommitted DEF CommitCall, CommitStore, PendingInv
  <2>5. CASE CommitError(c) \/ AbortCall(c)
    BY <2>5, PendingUntouched DEF CommitError, AbortCall
  <2>6. CASE ParsePolicies(c) \/ ParseData(c) \/ Respond(c) \/ Cancel(c) \/ NextMessage(c)
    BY <2>6, PendingUntouched DEF ParsePolicies, ParseData, Respond, Cancel, NextMessage
  <2>7. CASE \E i \in DOMAIN rds[c] :
               BeginRead(c, i) \/ LookupQuery(c, i) \/ InsertQuery(c, i) \/ Eval(c, i)
    BY <2>7, PendingUntouched DEF BeginRead, LookupQuery, InsertQuery, Eval
  <2> QED
    BY <1>1, <2>1, <2>2, <2>3, <2>4, <2>5, <2>6, <2>7 DEF CallStep
<1>2. ASSUME NEW c \in GSlots, NEW req \in GRequests, Receive(c, req) PROVE PendingInv'
  BY <1>2, PendingUntouched DEF Receive
<1>3. ASSUME NEW id \in GIds, NEW t \in DOMAIN GText, OtherCommit(id, t) PROVE PendingInv'
  <2>1. gstore' = [gstore EXCEPT !.policies[id] = t] /\ UNCHANGED <<pending, gwriter>> /\ gwriter = GNone
    BY <1>3 DEF OtherCommit, CommitStore
  <2>2. IsStore(gstore')
    BY <2>1 DEF PendingInv, IsStore, Policies
  <2> QED
    BY <2>1, <2>2, PendingCommitted
<1>4. CASE PluginStep
  BY <1>4, PendingUntouched DEF PluginStep, StartServe, StartRegister, StopUnregister, StopDrain,
                                GrpcReconfigure, CommitStore
<1>5. CASE UNCHANGED gvars
  BY <1>5, PendingUntouched DEF gvars
<1> QED
  BY <1>1, <1>2, <1>3, <1>4, <1>5 DEF GrpcNext

-----------------------------------------------------------------------------
(* The prepared query cache.                                               *)

\* Insert adds one entry and, once the cache is full, drops the one at the
\* index.
LEMMA CacheInsertKeeps ==
    ASSUME NEW c, CacheAt(c), NEW k, NEW v
    PROVE  /\ CacheAt(CacheInsert(c, k, v))
           /\ \A x \in DOMAIN CacheInsert(c, k, v).data :
                \/ CacheInsert(c, k, v).data[x] = v
                \/ x \in DOMAIN c.data /\ CacheInsert(c, k, v).data[x] = c.data[x]
<1>1. CASE k \in DOMAIN c.data
  BY <1>1 DEF CacheInsert
<1>2. CASE k \notin DOMAIN c.data /\ Len(c.keylist) < PqMaxCacheSize
  <2> DEFINE data == [x \in DOMAIN c.data \cup {k} |-> IF x = k THEN v ELSE c.data[x]]
             keys == Append(c.keylist, k)
             n == Len(c.keylist)
  <2>1. CacheInsert(c, k, v) = [data |-> data, keylist |-> keys, idx |-> c.idx]
    BY <1>2 DEF CacheInsert, CacheAt
  <2>2. /\ keys \in Seq(DOMAIN data) /\ n \in Nat /\ Len(keys) = n + 1 /\ keys[n + 1] = k
        /\ \A i \in 1 .. n : keys[i] = c.keylist[i] /\ c.keylist[i] \in DOMAIN c.data
    <3>1. c.keylist \in Seq(DOMAIN data) /\ k \in DOMAIN data /\ c.keylist \in Seq(DOMAIN c.data)
      BY DEF CacheAt
    <3> HIDE DEF data
    <3> QED
      BY <3>1
  <2>3. DOMAIN data = DOMAIN c.data \cup {k}
    OBVIOUS
  <2>4. \A x \in DOMAIN data : data[x] = v \/ (x \in DOMAIN c.data /\ data[x] = c.data[x])
    OBVIOUS
  <2> HIDE DEF data, keys, n
  <2>5. \A x \in DOMAIN data : \E i \in 1 .. Len(keys) : keys[i] = x
    <3> SUFFICES ASSUME NEW x \in DOMAIN data PROVE \E i \in 1 .. n + 1 : keys[i] = x
      BY <2>2
    <3>1. CASE x = k
      BY <2>2, <3>1
    <3>2. CASE x \in DOMAIN c.data
      <4>1. PICK i \in 1 .. n : c.keylist[i] = x
        BY <3>2 DEF CacheAt, n
      <4> QED
        BY <2>2, <4>1
    <3> QED
      BY <2>3, <3>1, <3>2
  <2>6. \A i, j \in 1 .. Len(keys) : keys[i] = keys[j] => i = j
    <3>1. \A i, j \in 1 .. n : c.keylist[i] = c.keylist[j] => i = j
      BY DEF CacheAt, n
    <3> QED
      BY <1>2, <2>2, <3>1
  <2>7. Len(keys) <= PqMaxCacheSize /\ c.idx \in 0 .. PqMaxCacheSize - 1
    BY <1>2, <2>2, GrpcAssumption DEF CacheAt, n
  <2> QED
    BY <2>1, <2>2, <2>4, <2>5, <2>6, <2>7 DEF CacheAt
<1>3. CASE k \notin DOMAIN c.data /\ ~(Len(c.keylist) < PqMaxCacheSize)
  <2> DEFINE m == c.idx + 1
             old == c.keylist[m]
             data == [x \in (DOMAIN c.data \cup {k}) \ {old} |-> IF x = k THEN v ELSE c.data[x]]
             keys == [c.keylist EXCEPT ![m] = k]
             next == (c.idx + 1) % PqMaxCacheSize
             n == Len(c.keylist)
  <2>1. CacheInsert(c, k, v) = [data |-> data, keylist |-> keys, idx |-> next]
    BY <1>3 DEF CacheInsert
  <2>2. /\ n \in Nat /\ n = PqMaxCacheSize /\ m \in 1 .. n
        /\ \A i \in 1 .. n : c.keylist[i] \in DOMAIN c.data
        /\ DOMAIN c.keylist = 1 .. n
    BY <1>3, GrpcAssumption DEF CacheAt
  <2>3. next \in 0 .. PqMaxCacheSize - 1
    <3>1. c.idx \in Nat /\ PqMaxCacheSize \in Nat /\ PqMaxCacheSize > 0
      BY GrpcAssumption DEF CacheAt
    <3> QED
      BY <3>1
  <2>4. \A i, j \in 1 .. n : c.keylist[i] = c.keylist[j] => i = j
    BY DEF CacheAt
  <2>5. DOMAIN data = (DOMAIN c.data \cup {k}) \ {old} /\ old \in DOMAIN c.data /\ old # k
    BY <1>3, <2>2
  <2>6. \A x \in DOMAIN data : data[x] = v \/ (x \in DOMAIN c.data /\ data[x] = c.data[x])
    OBVIOUS
  <2>7. /\ DOMAIN keys = 1 .. n
        /\ \A i \in 1 .. n : keys[i] = IF i = m THEN k ELSE c.keylist[i]
    BY <2>2
  <2>e. keys = [i \in 1 .. n |-> keys[i]]
    BY <2>2
  <2>f. \A x \in DOMAIN c.data : \E i \in 1 .. n : c.keylist[i] = x
    BY DEF CacheAt
  <2>g. old = c.keylist[m]
    OBVIOUS
  <2> HIDE DEF data, keys, next, m, old, n
  <2>8. keys \in Seq(DOMAIN data) /\ Len(keys) = n
    <3>1. \A i \in 1 .. n : keys[i] \in DOMAIN data
      BY <2>2, <2>4, <2>5, <2>7, <2>g
    <3>2. keys \in [1 .. n -> DOMAIN data]
      BY <2>e, <3>1
    <3> QED
      BY <2>2, <3>2
  <2>9. \A x \in DOMAIN data : \E i \in 1 .. n : keys[i] = x
    <3> SUFFICES ASSUME NEW x \in DOMAIN data PROVE \E i \in 1 .. n : keys[i] = x
      OBVIOUS
    <3>1. CASE x = k
      BY <2>2, <2>7, <3>1
    <3>2. CASE x # k
      <4>1. PICK i \in 1 .. n : c.keylist[i] = x
        BY <2>5, <2>f, <3>2
      <4>2. i # m
        BY <2>5, <2>g, <4>1
      <4> QED
        BY <2>7, <4>1, <4>2
    <3> QED
      BY <3>1, <3>2
  <2>10. \A i, j \in 1 .. n : keys[i] = keys[j] => i = j
    BY <1>3, <2>2, <2>4, <2>7
  <2> DEFINE new == [data |-> data, keylist |-> keys, idx |-> next]
  <2>11. new.data = data /\ new.keylist = keys /\ new.idx = next
    OBVIOUS
  <2>12. new = [data |-> new.data, keylist |-> new.keylist, idx |-> new.idx]
    OBVIOUS
  <2> HIDE DEF new
  <2>13. n <= PqMaxCacheSize
    BY <2>2
  <2>14. CacheAt(new)
    BY <2>3, <2>8, <2>9, <2>10, <2>11, <2>12, <2>13 DEF CacheAt
  <2> QED
    BY <2>1, <2>6, <2>11, <2>14 DEF new
<1> QED
  BY <1>1, <1>2, <1>3

LEMMA NewCacheKeeps == CacheAt(NewCache) /\ DOMAIN NewCache.data = {}
<1>1. <<>> \in Seq({}) /\ Len(<<>>) = 0 /\ DOMAIN <<>> = {}
  OBVIOUS
<1> QED
  BY <1>1, GrpcAssumption DEF NewCache, CacheAt

LEMMA CacheCounts ==
    ASSUME NEW c, CacheAt(c)
    PROVE  Range(c.keylist) = DOMAIN c.data /\ Cardinality(DOMAIN c.data) = Len(c.keylist)
<1> DEFINE n == Len(c.keylist)
<1>1. /\ n \in Nat /\ DOMAIN c.keylist = 1 .. n
      /\ c.keylist \in [1 .. n -> DOMAIN c.data]
  BY DEF CacheAt
<1>2. c.keylist \in Injection(1 .. n, DOMAIN c.data)
  BY <1>1 DEF CacheAt, Injection, IsInjective
<1>3. c.keylist \in Surjection(1 .. n, DOMAIN c.data)
  BY <1>1 DEF CacheAt, Surjection
<1>4. ExistsBijection(1 .. n, DOMAIN c.data)
  BY <1>2, <1>3 DEF ExistsBijection, Bijection
<1>5. IsFiniteSet(1 .. n) /\ Cardinality(1 .. n) = n
  BY <1>1, FS_Interval
<1>6. Cardinality(DOMAIN c.data) = n
  BY <1>4, <1>5, FS_Bijection
<1>7. Range(c.keylist) = DOMAIN c.data
  BY <1>1 DEF CacheAt, Range
<1> QED
  BY <1>6, <1>7

-----------------------------------------------------------------------------
(* Reads.                                                                  *)

LEMMA ReadsInitially == GrpcInit => ReadInv
<1> SUFFICES ASSUME GrpcInit PROVE ReadInv
  OBVIOUS
<1>1. \A c \in GSlots : rds[c] = <<>> /\ DOMAIN rds[c] = {}
  BY DEF GrpcInit
<1>2. DOMAIN rds = GSlots /\ greaders = {} /\ trigger = FALSE /\ commits = 0 /\ compiler = gstore.policies
  BY DEF GrpcInit
<1>3. CacheAt(pqs) /\ DOMAIN pqs.data = {}
  BY NewCacheKeeps DEF GrpcInit
<1>4. \A c \in GSlots : rds[c] = [i \in DOMAIN rds[c] |-> rds[c][i]]
  BY <1>1
<1>5. 0 \in 0 .. MaxCommits
  BY GrpcAssumption
<1> QED
  BY <1>1, <1>2, <1>3, <1>4, <1>5 DEF ReadInv

LEMMA ReadsUntouched ==
    ASSUME ReadInv, UNCHANGED <<gstore, greaders, compiler, pqs, rds, trigger, commits>>
    PROVE  ReadInv'
BY DEF ReadInv, ReadAt, CacheAt

\* A commit finds no read under way, and its trigger drops the cache.
LEMMA ReadsCommit ==
    ASSUME ReadInv, NEW new, NEW reset \in BOOLEAN, CommitStore(new, reset),
           UNCHANGED <<greaders, rds>>, trigger' \in BOOLEAN, trigger' => reset
    PROVE  ReadInv'
<1>1. ASSUME NEW c \in GSlots, NEW i \in DOMAIN rds[c] PROVE ReadAt(c, i)'
  <2>1. ReadAt(c, i) /\ greaders = {}
    BY DEF ReadInv, CommitStore
  <2>2. rds[c][i].pc \notin ReadStates
    BY <2>1 DEF ReadAt
  <2> QED
    BY <2>1, <2>2 DEF ReadAt, ReadStates
<1>2. CacheAt(pqs)' /\ (\A k \in DOMAIN pqs'.data : pqs'.data[k] \in Policies \cup {GNone})
  BY NewCacheKeeps DEF CommitStore, ReadInv, CacheAt
<1>3. trigger' => \A k \in DOMAIN pqs'.data : pqs'.data[k] = gstore'.policies
  BY NewCacheKeeps DEF CommitStore
<1>4. commits' \in 0 .. MaxCommits
  BY GrpcAssumption DEF ReadInv, CommitStore
<1>5. compiler' = gstore'.policies
  BY DEF CommitStore
<1> QED
  BY <1>1, <1>2, <1>3, <1>4, <1>5 DEF ReadInv

\* One read moves on.
LEMMA OneReadMoves ==
    ASSUME ReadInv, NEW c \in GSlots, NEW i \in DOMAIN rds[c], NEW new \in ReadRecords,
           rds' = [rds EXCEPT ![c] = [rds[c] EXCEPT ![i] = new]],
           greaders' \subseteq GSlots \X Nat,
           \A x \in greaders : x # <<c, i>> => x \in greaders',
           new.pc \in ReadStates => <<c, i>> \in greaders',
           trigger /\ new.pc \in {"insert", "eval"} => new.pq = gstore.policies,
           UNCHANGED <<gstore, compiler, trigger, commits>>,
           CacheAt(pqs'), \A k \in DOMAIN pqs'.data : pqs'.data[k] \in Policies \cup {GNone},
           trigger => \A k \in DOMAIN pqs'.data : pqs'.data[k] = gstore.policies
    PROVE  ReadInv'
<1>1. /\ DOMAIN rds' = GSlots
      /\ rds'[c] = [rds[c] EXCEPT ![i] = new]
      /\ \A d \in GSlots \ {c} : rds'[d] = rds[d]
  BY DEF ReadInv
<1>2. /\ DOMAIN rds'[c] = DOMAIN rds[c]
      /\ rds'[c][i] = new
      /\ \A j \in DOMAIN rds[c] \ {i} : rds'[c][j] = rds[c][j]
  BY <1>1
<1>3. ASSUME NEW d \in GSlots, NEW j \in DOMAIN rds[d] PROVE ReadAt(d, j)'
  <2>0. ReadAt(d, j)
    BY DEF ReadInv
  <2>1. CASE d = c /\ j = i
    BY <1>2, <2>1 DEF ReadAt
  <2>2. CASE ~(d = c /\ j = i)
    <3>1. rds'[d][j] = rds[d][j] /\ <<d, j>> # <<c, i>>
      BY <1>1, <1>2, <2>2
    <3> QED
      BY <2>0, <3>1 DEF ReadAt
  <2> QED
    BY <2>1, <2>2
<1>4. ASSUME NEW d \in GSlots
      PROVE  /\ rds'[d] = [j \in DOMAIN rds'[d] |-> rds'[d][j]]
             /\ DOMAIN rds'[d] = DOMAIN rds[d] /\ DOMAIN rds[d] \subseteq Nat
  <2>1. CASE d = c
    <3>1. rds[c] = [j \in DOMAIN rds[c] |-> rds[c][j]]
      BY DEF ReadInv
    <3>2. rds'[c] = [j \in DOMAIN rds'[c] |-> rds'[c][j]]
      BY <1>1, <1>2, <3>1
    <3> QED
      BY <1>2, <2>1, <3>2 DEF ReadInv
  <2>2. CASE d # c
    BY <1>1, <2>2 DEF ReadInv
  <2> QED
    BY <2>1, <2>2
<1> QED
  BY <1>1, <1>3, <1>4 DEF ReadInv

LEMMA ReadsMove ==
    ASSUME CallInv, PendingInv, ReadInv, NEW c \in GSlots, NEW i \in DOMAIN rds[c],
           BeginRead(c, i) \/ LookupQuery(c, i) \/ InsertQuery(c, i) \/ Eval(c, i)
    PROVE  ReadInv'
<1> DEFINE rd == rds[c][i]
<1>0. /\ rd \in ReadRecords /\ ReadAt(c, i) /\ i \in Nat
      /\ gstore.policies \in Policies /\ compiler = gstore.policies
  BY DEF ReadInv, ReadAt, PendingInv, IsStore
<1>1. CASE BeginRead(c, i)
  <2> DEFINE new == [rd EXCEPT !.pc = "open"]
  <2>1. new \in ReadRecords /\ new.pc = "open"
    BY <1>0 DEF ReadRecords, ReadStates
  <2>2. rds' = [rds EXCEPT ![c] = [rds[c] EXCEPT ![i] = new]]
    BY <1>1 DEF BeginRead
  <2>3. /\ greaders' = greaders \cup {<<c, i>>}
        /\ UNCHANGED <<gstore, compiler, trigger, commits, pqs>>
    BY <1>1 DEF BeginRead
  <2>c. /\ CacheAt(pqs') /\ \A k \in DOMAIN pqs'.data : pqs'.data[k] \in Policies \cup {GNone}
        /\ trigger => \A k \in DOMAIN pqs'.data : pqs'.data[k] = gstore.policies
    BY <2>3 DEF ReadInv
  <2>d. /\ greaders' \subseteq GSlots \X Nat
        /\ \A x \in greaders : x # <<c, i>> => x \in greaders'
    BY <1>0, <2>3 DEF ReadInv
  <2> HIDE DEF new
  <2> QED
    BY <2>1, <2>2, <2>3, <2>c, <2>d, OneReadMoves
<1>2. CASE LookupQuery(c, i)
  <2> DEFINE read == call[c].req.reads[i]
             new == CASE read.what = "policy" ->
                           [rd EXCEPT !.pc = "close", !.seen = gstore.policies]
                      [] read.what = "data" /\ read.path \in DOMAIN pqs.data ->
                           [rd EXCEPT !.pc = "eval", !.pq = pqs.data[read.path]]
                      [] OTHER -> [rd EXCEPT !.pc = "insert", !.pq = compiler]
  <2>1. rds' = [rds EXCEPT ![c] = [rds[c] EXCEPT ![i] = new]]
    BY <1>2 DEF LookupQuery
  <2>2. /\ UNCHANGED <<greaders, gstore, compiler, trigger, commits, pqs>>
        /\ rd.pc = "open"
    BY <1>2 DEF LookupQuery
  <2>3. /\ new \in ReadRecords /\ new.pc \in ReadStates
        /\ trigger /\ new.pc \in {"insert", "eval"} => new.pq = gstore.policies
    <3>1. CASE read.what = "policy"
      <4>1. new = [rd EXCEPT !.pc = "close", !.seen = gstore.policies]
        BY <3>1
      <4> HIDE DEF new
      <4> QED
        BY <1>0, <4>1 DEF ReadRecords, ReadStates
    <3>2. CASE read.what = "data" /\ read.path \in DOMAIN pqs.data
      <4>1. new = [rd EXCEPT !.pc = "eval", !.pq = pqs.data[read.path]]
        BY <3>2
      <4>2. /\ pqs.data[read.path] \in Policies \cup {GNone}
            /\ trigger => pqs.data[read.path] = gstore.policies
        BY <3>2 DEF ReadInv
      <4> HIDE DEF new
      <4> QED
        BY <1>0, <4>1, <4>2 DEF ReadRecords, ReadStates
    <3>3. CASE read.what # "policy" /\ ~(read.what = "data" /\ read.path \in DOMAIN pqs.data)
      <4>1. new = [rd EXCEPT !.pc = "insert", !.pq = compiler]
        BY <3>3
      <4> HIDE DEF new
      <4> QED
        BY <1>0, <4>1 DEF ReadRecords, ReadStates
    <3> QED
      BY <3>1, <3>2, <3>3
  <2>4. <<c, i>> \in greaders
    BY <1>0, <2>2 DEF ReadAt, ReadStates
  <2>c. /\ CacheAt(pqs') /\ \A k \in DOMAIN pqs'.data : pqs'.data[k] \in Policies \cup {GNone}
        /\ trigger => \A k \in DOMAIN pqs'.data : pqs'.data[k] = gstore.policies
    BY <2>2 DEF ReadInv
  <2>d. /\ greaders' \subseteq GSlots \X Nat
        /\ \A x \in greaders : x # <<c, i>> => x \in greaders'
    BY <1>0, <2>2 DEF ReadInv
  <2> HIDE DEF new
  <2> QED
    BY <2>1, <2>2, <2>3, <2>4, <2>c, <2>d, OneReadMoves
<1>3. CASE InsertQuery(c, i)
  <2> DEFINE new == [rd EXCEPT !.pc = "eval"]
             key == call[c].req.reads[i].path
  <2>0. rd.pc = "insert"
    BY <1>3 DEF InsertQuery
  <2>1. /\ new \in ReadRecords /\ new.pc = "eval" /\ rd.pq \in Policies \cup {GNone}
        /\ trigger => rd.pq = gstore.policies /\ new.pq = gstore.policies
        /\ <<c, i>> \in greaders
    BY <1>0, <2>0 DEF ReadRecords, ReadStates, ReadAt
  <2>2. rds' = [rds EXCEPT ![c] = [rds[c] EXCEPT ![i] = new]]
    BY <1>3 DEF InsertQuery
  <2>3. /\ UNCHANGED <<greaders, gstore, compiler, trigger, commits>>
        /\ pqs' = CacheInsert(pqs, key, rd.pq)
    BY <1>3 DEF InsertQuery
  <2>4. /\ CacheAt(pqs')
        /\ \A x \in DOMAIN pqs'.data :
             pqs'.data[x] = rd.pq \/ (x \in DOMAIN pqs.data /\ pqs'.data[x] = pqs.data[x])
    BY <2>3, CacheInsertKeeps DEF ReadInv
  <2>5. /\ \A k \in DOMAIN pqs'.data : pqs'.data[k] \in Policies \cup {GNone}
        /\ trigger => \A k \in DOMAIN pqs'.data : pqs'.data[k] = gstore.policies
    BY <2>1, <2>4 DEF ReadInv
  <2> HIDE DEF new
  <2> QED
    BY <2>1, <2>2, <2>3, <2>4, <2>5, OneReadMoves DEF ReadInv
<1>4. CASE Eval(c, i)
  <2> DEFINE new == [rd EXCEPT !.pc = "done", !.seen = IF rd.pc = "eval" THEN rd.pq ELSE rd.seen]
  <2>1. new \in ReadRecords /\ new.pc = "done"
    BY <1>0 DEF ReadRecords, ReadStates
  <2>2. rds' = [rds EXCEPT ![c] = [rds[c] EXCEPT ![i] = new]]
    BY <1>4 DEF Eval
  <2>3. /\ greaders' = greaders \ {<<c, i>>}
        /\ UNCHANGED <<gstore, compiler, trigger, commits, pqs>>
    BY <1>4 DEF Eval
  <2>4. "done" \notin ReadStates /\ "done" \notin {"insert", "eval"}
    BY DEF ReadStates
  <2>c. /\ CacheAt(pqs') /\ \A k \in DOMAIN pqs'.data : pqs'.data[k] \in Policies \cup {GNone}
        /\ trigger => \A k \in DOMAIN pqs'.data : pqs'.data[k] = gstore.policies
    BY <2>3 DEF ReadInv
  <2>d. /\ greaders' \subseteq GSlots \X Nat
        /\ \A x \in greaders : x # <<c, i>> => x \in greaders'
    BY <1>0, <2>3 DEF ReadInv
  <2> HIDE DEF new
  <2> QED
    BY <2>1, <2>2, <2>3, <2>4, <2>c, <2>d, OneReadMoves
<1> QED
  BY <1>1, <1>2, <1>3, <1>4

LEMMA ReadsReceive ==
    ASSUME ReadInv, NEW c \in GSlots, NEW req \in GRequests, Receive(c, req)
    PROVE  ReadInv'
<1> DEFINE new == [i \in DOMAIN req.reads |-> NoRead]
<1>1. /\ rds' = [rds EXCEPT ![c] = new]
      /\ UNCHANGED <<gstore, greaders, compiler, pqs, trigger, commits>>
  BY DEF Receive
<1>2. NoRead \in ReadRecords /\ NoRead.pc \notin ReadStates
  BY DEF NoRead, ReadRecords, ReadStates
<1>3. /\ DOMAIN new \subseteq Nat /\ new = [i \in DOMAIN new |-> new[i]]
      /\ \A i \in DOMAIN new : new[i] = NoRead
  BY GrpcAssumption
<1> HIDE DEF new
<1>4. DOMAIN rds' = GSlots /\ rds'[c] = new /\ \A d \in GSlots \ {c} : rds'[d] = rds[d]
  BY <1>1 DEF ReadInv
<1>5. ASSUME NEW d \in GSlots
      PROVE  /\ rds'[d] = [i \in DOMAIN rds'[d] |-> rds'[d][i]]
             /\ DOMAIN rds'[d] \subseteq Nat
             /\ \A i \in DOMAIN rds'[d] : ReadAt(d, i)'
  <2>1. CASE d = c
    <3>1. ASSUME NEW i \in DOMAIN rds'[d] PROVE ReadAt(d, i)'
      BY <1>2, <1>3, <1>4, <2>1, <3>1 DEF ReadAt, ReadStates
    <3> QED
      BY <1>3, <1>4, <2>1, <3>1
  <2>2. CASE d # c
    BY <1>1, <1>4, <2>2 DEF ReadInv, ReadAt
  <2> QED
    BY <2>1, <2>2
<1> QED
  BY <1>1, <1>4, <1>5 DEF ReadInv, CacheAt

LEMMA ReadsStep == CallInv /\ PendingInv /\ ReadInv /\ [GrpcNext]_gvars => ReadInv'
<1> SUFFICES ASSUME CallInv, PendingInv, ReadInv, [GrpcNext]_gvars PROVE ReadInv'
  OBVIOUS
<1>0. trigger \in BOOLEAN
  BY DEF ReadInv
<1>1. ASSUME NEW c \in GSlots, CallStep(c) \/ Cancel(c) \/ NextMessage(c) PROVE ReadInv'
  <2>1. CASE OpenWrite(c) \/ ParsePolicies(c) \/ WritePolicy(c) \/ ParseData(c) \/ WriteData(c)
    BY <2>1, ReadsUntouched DEF OpenWrite, ParsePolicies, WritePolicy, ParseData, WriteData
  <2>2. CASE CommitError(c) \/ AbortCall(c) \/ Respond(c) \/ Cancel(c) \/ NextMessage(c)
    BY <2>2, ReadsUntouched DEF CommitError, AbortCall, Respond, Cancel, NextMessage
  <2>3. CASE CommitCall(c)
    BY <1>0, <2>3, ReadsCommit DEF CommitCall
  <2>4. CASE \E i \in DOMAIN rds[c] :
               BeginRead(c, i) \/ LookupQuery(c, i) \/ InsertQuery(c, i) \/ Eval(c, i)
    BY <2>4, ReadsMove
  <2> QED
    BY <1>1, <2>1, <2>2, <2>3, <2>4 DEF CallStep
<1>2. ASSUME NEW c \in GSlots, NEW req \in GRequests, Receive(c, req) PROVE ReadInv'
  BY <1>2, ReadsReceive
<1>3. ASSUME NEW id \in GIds, NEW t \in DOMAIN GText, OtherCommit(id, t) PROVE ReadInv'
  BY <1>0, <1>3, ReadsCommit DEF OtherCommit
<1>4. CASE PluginStep
  <2>1. CASE StartServe \/ StopDrain \/ GrpcReconfigure
    BY <2>1, ReadsUntouched DEF StartServe, StopDrain, GrpcReconfigure
  <2>2. CASE StartRegister
    BY <2>2, ReadsCommit DEF StartRegister
  <2>3. CASE StopUnregister
    BY <2>3, ReadsCommit DEF StopUnregister
  <2> QED
    BY <1>4, <2>1, <2>2, <2>3 DEF PluginStep
<1>5. CASE UNCHANGED gvars
  BY <1>5, ReadsUntouched DEF gvars
<1> QED
  BY <1>1, <1>2, <1>3, <1>4, <1>5 DEF GrpcNext

-----------------------------------------------------------------------------
(* The theorems.                                                           *)

LEMMA GrpcInitially == GrpcInit => IGrpc
BY GrpcCallsInitially, PendingInitially, ReadsInitially DEF IGrpc

LEMMA GrpcStepKeeps == IGrpc /\ [GrpcNext]_gvars => IGrpc'
BY CallsStep, PendingStep, ReadsStep DEF IGrpc

LEMMA GrpcInvariance == GrpcSpec => []IGrpc
BY GrpcInitially, GrpcStepKeeps, PTL DEF GrpcSpec

\* Type correctness of the gRPC server.
THEOREM GrpcTypes == GrpcSpec => []GrpcTypeOK
<1>1. IGrpc => GrpcTypeOK
  BY DEF IGrpc, CallInv, ReadInv, GrpcTypeOK, CallRecords
<1> QED
  BY <1>1, GrpcInvariance, PTL

\* However calls, commits of other writers and the start and stop of the plugin
\* interleave: while the commit trigger is registered every cached or prepared
\* query belongs to the current policies, the cache's key list and entries
\* agree, and an answer tells whether the writes were stored.
THEOREM CallsAreSafe == GrpcSpec => []GrpcSafety
<1>1. IGrpc => CachedQueriesAreCurrent
  BY DEF IGrpc, ReadInv, ReadAt, CachedQueriesAreCurrent
<1>2. IGrpc => CacheKeysAgree
  BY CacheCounts DEF IGrpc, ReadInv, CacheAt, CacheKeysAgree
<1>3. IGrpc => AnswersTellWhatWasStored
  BY DEF IGrpc, CallInv, CallAt, AnswersTellWhatWasStored
<1>4. IGrpc => GrpcSafety
  BY <1>1, <1>2, <1>3 DEF GrpcSafety
<1> QED
  BY <1>4, GrpcInvariance, PTL

\* A step that commits a call's writes touches nothing that a bundle owns: the
\* scope checks of the single requests add up over the whole transaction.
THEOREM CallsStayInScope == GrpcSpec => OwnedPathsUntouched
<1> DEFINE Safe ==
      gstore' # gstore => \A c \in GSlots : call[c].pc = "commit" /\ call'[c].wrote =>
         /\ \A p \in GPaths :
              ~CheckPathScope(p) => gstore'.data[p] = gstore.data[p]
         /\ \A id \in GIds :
              gstore'.policies[id] # gstore.policies[id] =>
                \A t \in {gstore.policies[id], gstore'.policies[id]} \ {GNone} :
                   CheckPathScope(GText[t].package)
<1>1. IGrpc /\ [GrpcNext]_gvars => [Safe]_gvars
  <2> SUFFICES ASSUME IGrpc, GrpcNext, gstore' # gstore,
                      NEW c \in GSlots, call[c].pc = "commit"
               PROVE  Scoped(gstore')
    BY DEF Scoped
  <2>1. gwriter = c /\ gwriter # GNone /\ Scoped(pending)
    BY GrpcAssumption DEF IGrpc, CallInv, WriterAt, WriteStates, PendingInv
  <2>2. ASSUME NEW d \in GSlots, CommitCall(d) PROVE gstore' = pending
    BY <2>2 DEF CommitCall, CommitStore
  <2>3. ASSUME NEW d \in GSlots, CallStep(d) \/ Cancel(d) \/ NextMessage(d), ~CommitCall(d)
        PROVE  gstore' = gstore
    BY <2>3 DEF CallStep, OpenWrite, ParsePolicies, WritePolicy, ParseData, WriteData, CommitError,
                AbortCall, BeginRead, LookupQuery, InsertQuery, Eval, Respond, Cancel, NextMessage
  <2>4. ASSUME NEW d \in GSlots, NEW req \in GRequests, Receive(d, req) PROVE gstore' = gstore
    BY <2>4 DEF Receive
  <2>5. ASSUME PluginStep PROVE gstore' = gstore
    BY <2>5 DEF PluginStep, StartServe, StartRegister, StopUnregister, StopDrain,
                GrpcReconfigure, CommitStore
  <2>6. ASSUME NEW id \in GIds, NEW t \in DOMAIN GText, OtherCommit(id, t) PROVE FALSE
    BY <2>1, <2>6 DEF OtherCommit
  <2> QED
    BY <2>1, <2>2, <2>3, <2>4, <2>5, <2>6 DEF GrpcNext
<1> QED
  BY <1>1, GrpcInvariance, PTL DEF GrpcSpec, OwnedPathsUntouched
=============================================================================
