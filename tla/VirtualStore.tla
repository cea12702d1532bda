---------------------------- MODULE VirtualStore ----------------------------
(***************************************************************************)
(* The virtual store (pkg/storage/store.go, tree.go): one read-write root  *)
(* store and read-only stores mounted below it, each an SQL store          *)
(* (pkg/storage/sql/sql.go).  A virtual transaction opens a transaction of *)
(* a store when it first touches it, with its own parameters: a write      *)
(* transaction that only reads a mounted store opens a write transaction   *)
(* of it and takes its writer lock.  Both kinds of store lock alike: a     *)
(* write transaction holds wmu from NewTransaction on and takes rmu to     *)
(* commit, a read transaction holds rmu for reading.                       *)
(*                                                                         *)
(* The namespace tree is a function from the paths of its nodes to nodes.  *)
(***************************************************************************)
EXTENDS Naturals, Sequences, SequencesExt, FiniteSets, RWMutex

CONSTANTS
    VTxns,      \* virtual transactions
    Root,       \* the root store
    Mounted,    \* the mounted stores
    MountLists, \* lists of [path, complete, store] to mount, in order
    VPaths,     \* paths that are looked up
    NoStore,    \* a nil store, and the answer of a failed lookup
    VFaults     \* bound: failures left behind by BeginTx

ASSUME VirtualAssumption ==
    /\ IsFiniteSet(Mounted) /\ VFaults \in Nat
    /\ Root \notin Mounted /\ NoStore \notin Mounted \cup {Root}
    /\ \A ms \in MountLists : \A i \in DOMAIN ms : ms[i].store \in Mounted

VARIABLES
    vtree,   \* the namespace tree
    vst,     \* state of each transaction: idle, open, committing, done, failed
    vwrite,  \* was it opened for writing?
    nested,  \* the stores it has opened, in order (transaction.transactions)
    vlast,   \* how many of them Commit's loop ranges over
    vpos,    \* the one that Commit is at
    want,    \* the store whose NewTransaction it is in, or NoStore
    vrmu,    \* rmu of each store
    vwmu,    \* holder of wmu of each store, a set of at most one
    vstale,  \* read transactions whose view of the root has been overtaken
    leaked   \* <<transaction, store>>: left open by a failure or a trigger

virtualVars == <<vtree, vst, vwrite, nested, vlast, vpos, want, vrmu, vwmu, vstale, leaked>>

Stores == {Root} \cup Mounted

-----------------------------------------------------------------------------
(* The namespace tree.                                                     *)

TreeNode(s) == [kind |-> "tree", store |-> s, complete |-> 0, path |-> << >>]
LazyNode(m) == [kind |-> "lazy", store |-> m.store, complete |-> m.complete, path |-> m.path]
PathPrefixes(p) == {SubSeq(p, 1, i) : i \in 0 .. Len(p)}
Children(T, q) == {r \in DOMAIN T : Len(r) = Len(q) + 1 /\ IsPrefix(q, r)}

\* The child replaces whatever was at its place, without a check; only a
\* mount below a mounted store is a conflict, and leaves no tree.
Insert(T, m) ==
    IF T = << >> \/ \E q \in PathPrefixes(Front(m.path)) : q \in DOMAIN T /\ T[q].kind = "lazy"
    THEN << >>
    ELSE [q \in {r \in DOMAIN T : ~IsPrefix(m.path, r)} \cup PathPrefixes(m.path) |->
            IF q = m.path THEN LazyNode(m)
            ELSE IF q \in DOMAIN T THEN T[q] ELSE TreeNode(NoStore)]

NewTree(ms) == FoldLeft(Insert, << >> :> TreeNode(Root), ms)

\* The deepest node on the way to a path.
Deepest(T, p) == CHOOSE q \in PathPrefixes(p) \cap DOMAIN T :
                    \A r \in PathPrefixes(p) \cap DOMAIN T : Len(r) <= Len(q)

\* tree.Find and lazyTree.Find: the store that serves Read and Write.
Find(T, p) ==
    LET q == Deepest(T, p)
    IN IF T[q].kind = "tree" /\ q = p /\ Children(T, q) # {} THEN NoStore ELSE T[q].store

\* Faulty variant: a path that is nowhere in the tree is read from the root.
GetFallsBack(T, p) ==
    LET q == Deepest(T, p)
    IN IF T[q].kind = "lazy" /\ Len(T[q].path) + Len(p) - Len(q) >= T[q].complete
       THEN T[q].store ELSE Root

\* tree.Get and lazyTree.Get, key by key: the store that the VM reads, NoStore
\* when it finds nothing or has not read yet.
Get(T, p) ==
    LET q == Deepest(T, p)
    IN IF T[q].kind = "lazy"
       THEN IF Len(T[q].path) + Len(p) - Len(q) >= T[q].complete THEN T[q].store ELSE NoStore
       ELSE IF q # p /\ Children(T, q) = {} THEN T[q].store ELSE NoStore
-----------------------------------------------------------------------------
(* Transactions.                                                           *)

VirtualInit ==
    /\ vtree \in {NewTree(ms) : ms \in MountLists} \ {<< >>}
    /\ vst = [t \in VTxns |-> "idle"]
    /\ vwrite = [t \in VTxns |-> FALSE]
    /\ nested = [t \in VTxns |-> << >>]
    /\ vlast = [t \in VTxns |-> 0]
    /\ vpos = [t \in VTxns |-> 0]
    /\ want = [t \in VTxns |-> NoStore]
    /\ vrmu = [s \in Stores |-> RWUnlocked]
    /\ vwmu = [s \in Stores |-> {}]
    /\ vstale = {}
    /\ leaked = {}

NewTransaction(t, write) ==
    /\ vst[t] = "idle"
    /\ vst' = [vst EXCEPT ![t] = "open"]
    /\ vwrite' = [vwrite EXCEPT ![t] = write]
    /\ UNCHANGED <<vtree, nested, vlast, vpos, want, vrmu, vwmu, vstale, leaked>>

\* While the root commits, its triggers run with the virtual transaction.
InTrigger(t) ==
    /\ vst[t] = "committing" /\ vpos[t] <= vlast[t]
    /\ nested[t][vpos[t]] = Root /\ vrmu[Root].writer = {t}
Callable(t) == (vst[t] = "open" \/ InTrigger(t)) /\ want[t] = NoStore

\* Faulty variant: the transactions already nested are not looked up.
DispatchAgain(t, s) ==
    /\ Callable(t)
    /\ want' = [want EXCEPT ![t] = s]
    /\ vrmu' = IF vwrite[t] THEN vrmu ELSE [vrmu EXCEPT ![s] = RLock(@, t)]
    /\ UNCHANGED <<vtree, vst, vwrite, nested, vlast, vpos, vwmu, vstale, leaked>>

\* dispatch: a store the transaction has not opened yet is asked for a
\* transaction, and the caller waits for the lock.
Dispatch(t, s) ==
    /\ Callable(t)
    /\ s \notin Range(nested[t])
    /\ want' = [want EXCEPT ![t] = s]
    /\ vrmu' = IF vwrite[t] THEN vrmu ELSE [vrmu EXCEPT ![s] = RLock(@, t)]
    /\ UNCHANGED <<vtree, vst, vwrite, nested, vlast, vpos, vwmu, vstale, leaked>>

\* A read goes to the store of its path; a write to a path of another store
\* than the root is refused before any lock is asked for.
Read(t) == Callable(t) /\ \E s \in Stores \cap {Find(vtree, p) : p \in VPaths} : Dispatch(t, s)
VMRead(t) == Callable(t) /\ \E s \in Stores \cap {Get(vtree, p) : p \in VPaths} : Dispatch(t, s)
Write(t) == vwrite[t] /\ Dispatch(t, Root) /\ \E p \in VPaths : Find(vtree, p) = Root

\* The lock is granted: wmu when it is free, rmu by the RWMutex.
Granted(t) ==
    IF vwrite[t] THEN vwmu[want[t]] = {} ELSE t \in vrmu[want[t]].held \ vrmu[want[t]].queue

\* The nested transaction begins and is remembered.
Begin(t) ==
    LET s == want[t]
    IN /\ s # NoStore /\ Granted(t)
       /\ vwmu' = IF vwrite[t] THEN [vwmu EXCEPT ![s] = {t}] ELSE vwmu
       /\ nested' = [nested EXCEPT ![t] = Append(@, s)]
       /\ want' = [want EXCEPT ![t] = NoStore]
       /\ leaked' = IF vst[t] = "committing" THEN leaked \cup {<<t, s>>} ELSE leaked
       /\ UNCHANGED <<vtree, vst, vwrite, vlast, vpos, vrmu, vstale>>

\* An SQL store's BeginTx fails, and the lock stays taken.  (VFaults bounds
\* the failures of one behaviour.)
BeginFails(t) ==
    LET s == want[t]
    IN /\ s \in Mounted /\ Granted(t) /\ Cardinality(leaked) < VFaults
       /\ vwmu' = IF vwrite[t] THEN [vwmu EXCEPT ![s] = {t}] ELSE vwmu
       /\ want' = [want EXCEPT ![t] = NoStore]
       /\ leaked' = leaked \cup {<<t, s>>}
       /\ UNCHANGED <<vtree, vst, vwrite, nested, vlast, vpos, vrmu, vstale>>

\* Commit ranges over the transactions nested so far.
Commit(t) ==
    /\ vst[t] = "open" /\ want[t] = NoStore
    /\ vst' = [vst EXCEPT ![t] = IF nested[t] = << >> THEN "done" ELSE "committing"]
    /\ vlast' = [vlast EXCEPT ![t] = Len(nested[t])]
    /\ vpos' = [vpos EXCEPT ![t] = 1]
    /\ UNCHANGED <<vtree, vwrite, nested, want, vrmu, vwmu, vstale, leaked>>

Current(t) == nested[t][vpos[t]]
AtNested(t) == vst[t] = "committing" /\ vpos[t] <= vlast[t] /\ want[t] = NoStore

\* Faulty variant: the lock is taken beside the readers.
CommitLockAtOnce(t) ==
    /\ AtNested(t) /\ vwrite[t] /\ vrmu[Current(t)].writer = {}
    /\ vrmu' = [vrmu EXCEPT ![Current(t)].writer = {t}]
    /\ UNCHANGED <<vtree, vst, vwrite, nested, vlast, vpos, want, vwmu, vstale, leaked>>

\* Committing a write transaction waits for the readers of its store.
CommitLock(t) ==
    /\ AtNested(t) /\ vwrite[t]
    /\ t \notin vrmu[Current(t)].pending \cup vrmu[Current(t)].writer
    /\ vrmu' = [vrmu EXCEPT ![Current(t)] = Lock(@, t)]
    /\ UNCHANGED <<vtree, vst, vwrite, nested, vlast, vpos, want, vwmu, vstale, leaked>>

\* A transaction that has ended is not looked at again.
End(t, st) ==
    /\ vst' = [vst EXCEPT ![t] = st]
    /\ nested' = [nested EXCEPT ![t] = << >>]
    /\ vpos' = [vpos EXCEPT ![t] = 0] /\ vlast' = [vlast EXCEPT ![t] = 0]

NextNested(t) ==
    \/ vpos[t] = vlast[t] /\ End(t, "done")
    \/ vpos[t] < vlast[t] /\ vpos' = [vpos EXCEPT ![t] = @ + 1] /\ UNCHANGED <<vst, nested, vlast>>

\* It then applies its changes and releases both locks.
CommitWrite(t) ==
    LET s == Current(t)
    IN /\ AtNested(t) /\ vwrite[t] /\ vrmu[s].writer = {t}
       /\ vstale' = IF s = Root
                    THEN vstale \cup {u \in VTxns : ~vwrite[u] /\ Root \in Range(nested[u])}
                    ELSE vstale
       /\ vrmu' = [vrmu EXCEPT ![s] = Unlock(@)]
       /\ vwmu' = [vwmu EXCEPT ![s] = {}]
       /\ NextNested(t)
       /\ UNCHANGED <<vtree, vwrite, want, leaked>>

\* A read lock that a failed BeginTx left behind is not the one given back.
ReadUnlock(t, s) == IF <<t, s>> \in leaked THEN vrmu[s] ELSE RUnlock(vrmu[s], t)

\* Faulty variant: a read transaction ends with its lock held.
CommitReadKeepsLock(t) ==
    /\ AtNested(t) /\ ~vwrite[t]
    /\ NextNested(t)
    /\ UNCHANGED <<vtree, vwrite, want, vrmu, vwmu, vstale, leaked>>

CommitRead(t) ==
    /\ AtNested(t) /\ ~vwrite[t]
    /\ vrmu' = [vrmu EXCEPT ![Current(t)] = ReadUnlock(t, Current(t))]
    /\ NextNested(t)
    /\ UNCHANGED <<vtree, vwrite, want, vwmu, vstale, leaked>>

\* The database refuses the commit: this store's locks are released, the
\* transactions of the stores after it stay as they are.
CommitFails(t) ==
    LET s == Current(t)
    IN /\ AtNested(t) /\ vwrite[t] /\ s \in Mounted /\ vrmu[s].writer = {t}
       /\ vrmu' = [vrmu EXCEPT ![s] = Unlock(@)]
       /\ vwmu' = [vwmu EXCEPT ![s] = {}]
       /\ leaked' = leaked \cup {<<t, nested[t][i]>> : i \in vpos[t] + 1 .. Len(nested[t])}
       /\ End(t, "failed")
       /\ UNCHANGED <<vtree, vwrite, want, vstale>>

\* Abort aborts every nested transaction; none of them waits.
Abort(t) ==
    /\ vst[t] = "open" /\ want[t] = NoStore
    /\ End(t, "done")
    /\ vwmu' = [s \in Stores |->
                   IF vwrite[t] /\ s \in Range(nested[t]) THEN {} ELSE vwmu[s]]
    /\ vrmu' = [s \in Stores |->
                   IF ~vwrite[t] /\ s \in Range(nested[t]) THEN ReadUnlock(t, s) ELSE vrmu[s]]
    /\ UNCHANGED <<vtree, vwrite, want, vstale, leaked>>

VirtualStep(t) ==
    \/ \E write \in BOOLEAN : NewTransaction(t, write)
    \/ Read(t)
    \/ VMRead(t)
    \/ Write(t)
    \/ Begin(t)
    \/ BeginFails(t)
    \/ Commit(t)
    \/ CommitLock(t)
    \/ CommitWrite(t)
    \/ CommitRead(t)
    \/ CommitFails(t)
    \/ Abort(t)

VirtualNext == \E t \in VTxns : VirtualStep(t)
VirtualSpec == VirtualInit /\ [][VirtualNext]_virtualVars
-----------------------------------------------------------------------------
(* Properties.                                                             *)

VirtualTypeOK ==
    /\ vst \in [VTxns -> {"idle", "open", "committing", "done", "failed"}]
    /\ vwrite \in [VTxns -> BOOLEAN]
    /\ nested \in [VTxns -> Seq(Stores)]
    /\ vlast \in [VTxns -> Nat] /\ vpos \in [VTxns -> Nat]
    /\ want \in [VTxns -> Stores \cup {NoStore}]
    /\ vrmu \in [Stores -> RWLocks(VTxns)]
    /\ vwmu \in [Stores -> SUBSET VTxns]
    /\ vstale \subseteq VTxns
    /\ leaked \subseteq VTxns \X Stores

\* Who holds or waits for a lock of a store.
HoldsLock(t, s) == t \in vwmu[s] \cup vrmu[s].held \cup vrmu[s].writer
Blocked(t) ==
    \/ want[t] # NoStore /\ ~Granted(t)
    \/ AtNested(t) /\ vwrite[t] /\ t \in vrmu[Current(t)].pending

\* A transaction that has ended holds a lock of a store only where a failure
\* left it: BeginTx failed with the lock taken, an earlier store's Commit
\* failed, or a trigger opened the store while the commit was under way.
LocksAreAccounted ==
    \A t \in VTxns, s \in Stores :
        vst[t] \in {"done", "failed"} /\ HoldsLock(t, s) => <<t, s>> \in leaked

\* No commit to the root happens while a read transaction has the root open:
\* whichever store it opened first, all it reads there is one version.
ReadsOneVersion ==
    \A t \in vstale : vst[t] # "open"

\* The stores a transaction has opened and the one it is about to open.
Asked(t) == IF want[t] = NoStore THEN nested[t] ELSE Append(nested[t], want[t])
Respects(t, rank) ==
    \A i, j \in DOMAIN Asked(t) : i < j => rank[Asked(t)[i]] < rank[Asked(t)[j]]
Running == {t \in VTxns : vst[t] \in {"open", "committing"}}

\* Transactions wait for one another forever only if they open the stores in
\* no common order, a failure left a lock behind, or a trigger opens a store
\* while its commit is under way.
StuckOnlyByOrder ==
    /\ Running # {} /\ \A t \in Running : Blocked(t)
    /\ leaked = {} /\ \A t \in Running : want[t] # NoStore => vst[t] = "open"
    => \A rank \in [Stores -> 1 .. Cardinality(Stores)] : \E t \in Running : ~Respects(t, rank)

\* The VM, which walks the tree key by key, reads a path from the store that
\* serves a Read of it.  The tree does not change, so it is enough to look
\* when the first transaction begins.
VMReadsWhatReadReads ==
    (\E t \in VTxns : vst[t] = "open" /\ \A u \in VTxns \ {t} : vst[u] = "idle") =>
        \A p \in VPaths : Get(vtree, p) # NoStore => Get(vtree, p) = Find(vtree, p)

\* The four together: the locks of the stores below a virtual transaction, and
\* the store a path is read from.
VirtualSafety == LocksAreAccounted /\ ReadsOneVersion /\ StuckOnlyByOrder /\ VMReadsWhatReadReads
=============================================================================
