----------------------------- MODULE InmemStore -----------------------------
(***************************************************************************)
(* The in-memory store, pkg/storage/inmem: transactions, their two locks,  *)
(* the update log and its application at commit, policies and triggers.    *)
(*                                                                         *)
(* wmu is taken by a write transaction for its whole life, rmu is read-    *)
(* locked by a read transaction for its whole life and write-locked by a   *)
(* write transaction for the time of its commit only.                      *)
(*                                                                         *)
(* Documents are the top-level members of the data object: paths are       *)
(* disjoint here, so the update log is a function from documents to what   *)
(* the log says of them.  Module UpdateLog models nested paths.            *)
(***************************************************************************)
EXTENDS RWMutex

CONSTANTS
    Txns,           \* transaction handles; each is used for one transaction
    Docs, Values,   \* top-level documents and what they may hold
    Policies,       \* policy ids
    Modules,        \* policy sources
    Handles,        \* trigger handles
    Absent,         \* no such document (policy); in a log: it is removed
    Keep,           \* in a log: no update of this document (policy)
    TriggersWrite   \* do OnCommit callbacks write through their transaction?

ASSUME SentinelsAssumption ==
    /\ Absent \notin Values \cup Modules
    /\ Keep \notin Values \cup Modules \cup {Absent}

ASSUME NamesAssumption == Docs \cap Policies = {}

ASSUME TriggersWriteAssumption == TriggersWrite \in BOOLEAN

VARIABLES
    data, policies, triggers,   \* the store
    wmu,                        \* the holder of the writer lock, as a set
    rmu,                        \* the reader-writer lock
    pc,                         \* where the owner of a handle is
    root,                       \* handles whose log replaces the root
    updates, pupdates,          \* the handle's logs of data and policies
    todo,                       \* log entries a commit has still to apply
    pending                     \* triggers a commit has still to call

vars == <<data, policies, triggers, wmu, rmu, pc, root, updates, pupdates,
          todo, pending>>

store == <<data, policies>>
log   == <<root, updates, pupdates>>
loops == <<todo, pending>>

Data     == [Docs -> Values \cup {Absent}]
Library  == [Policies -> Modules \cup {Absent}]

NoUpdates  == [d \in Docs |-> Keep]
NoPUpdates == [p \in Policies |-> Keep]

PCs == {"idle", "reading", "wlock", "writing", "rwlock", "apply", "notify",
        "unlock", "done"}

TypeOK ==
    /\ data \in Data
    /\ policies \in Library
    /\ triggers \subseteq Handles
    /\ wmu \subseteq Txns
    /\ rmu \in RWLocks(Txns)
    /\ pc \in [Txns -> PCs]
    /\ root \subseteq Txns
    /\ updates \in [Txns -> [Docs -> Values \cup {Absent, Keep}]]
    /\ pupdates \in [Txns -> [Policies -> Modules \cup {Absent, Keep}]]
    /\ todo \subseteq Docs \cup Policies
    /\ pending \subseteq Handles

Init ==
    /\ data \in Data
    /\ policies \in Library
    /\ triggers = {}
    /\ wmu = {}
    /\ rmu = RWUnlocked
    /\ pc = [t \in Txns |-> "idle"]
    /\ root = {}
    /\ updates = [t \in Txns |-> NoUpdates]
    /\ pupdates = [t \in Txns |-> NoPUpdates]
    /\ todo = {}
    /\ pending = {}

-----------------------------------------------------------------------------
(* What a transaction reads. *)

Overlay(base, upd) ==
    [k \in DOMAIN base |-> IF upd[k] = Keep THEN base[k] ELSE upd[k]]

\* transaction.Read: a reader passes through to the store, a writer sees
\* the store under its own log.
View(t) == Overlay(data, updates[t])

\* transaction.GetPolicy and ListPolicies.
PView(t) == Overlay(policies, pupdates[t])

\* The handle holds its lock and its owner may call operations on it.
Reading(t) == pc[t] = "reading" /\ t \in rmu.held
Writing(t) == pc[t] = "writing"

-----------------------------------------------------------------------------
(* NewTransaction. *)

BeginRead(t) ==
    /\ pc[t] = "idle"
    /\ pc' = [pc EXCEPT ![t] = "reading"]
    /\ rmu' = RLock(rmu, t)
    /\ UNCHANGED <<store, triggers, wmu, log, loops>>

BeginWrite(t) ==
    /\ pc[t] = "idle"
    /\ pc' = [pc EXCEPT ![t] = "wlock"]
    /\ UNCHANGED <<store, triggers, wmu, rmu, log, loops>>

\* Faulty variant: a second writer is let in.
AcquireWriterUnchecked(t) ==
    /\ pc[t] = "wlock"
    /\ wmu' = wmu \cup {t}
    /\ pc' = [pc EXCEPT ![t] = "writing"]
    /\ UNCHANGED <<store, triggers, rmu, log, loops>>

AcquireWriter(t) ==
    /\ pc[t] = "wlock"
    /\ wmu = {}
    /\ wmu' = {t}
    /\ pc' = [pc EXCEPT ![t] = "writing"]
    /\ UNCHANGED <<store, triggers, rmu, log, loops>>

-----------------------------------------------------------------------------
(* Operations of an open write transaction.  On a read transaction they    *)
(* all fail without an effect.                                             *)

\* The handle may be used: by its owner, and by an OnCommit callback, since
\* Commit marks it stale only after the callbacks have run.
Usable(t) == Writing(t) \/ (pc[t] = "notify" /\ TriggersWrite)

Ops == {"add", "replace", "remove"}

\* Why transaction.Write on a document fails with not_found: the log
\* removes it, or (no entry of the log being a prefix of the path) the
\* committed data do not have it.
RemovedByLog(t, op, d) == op # "add" /\ updates[t][d] = Absent
NotInStore(t, op, d)   == op # "add" /\ t \notin root /\ data[d] = Absent

Write(t, op, d, v) ==
    /\ Usable(t)
    /\ ~RemovedByLog(t, op, d)
    /\ ~NotInStore(t, op, d)
    /\ updates' = [updates EXCEPT
                     ![t][d] = IF op = "remove" THEN Absent ELSE v]
    /\ UNCHANGED <<store, triggers, wmu, rmu, pc, root, pupdates, loops>>

\* The loop of transaction.Write takes an entry for the same path out of
\* the log before newUpdate looks the path up in the committed data, and
\* does not put it back when newUpdate fails.
WriteNotFound(t, op, d) ==
    /\ Usable(t)
    /\ ~RemovedByLog(t, op, d)
    /\ NotInStore(t, op, d)
    /\ updates' = [updates EXCEPT ![t][d] = Keep]
    /\ UNCHANGED <<store, triggers, wmu, rmu, pc, root, pupdates, loops>>

\* transaction.updateRoot, for Add and Replace; Remove is rejected.
WriteRoot(t, obj) ==
    /\ Usable(t)
    /\ root' = root \cup {t}
    /\ updates' = [updates EXCEPT ![t] = obj]
    /\ UNCHANGED <<store, triggers, wmu, rmu, pc, pupdates, loops>>

UpsertPolicy(t, p, m) ==
    /\ Usable(t)
    /\ pupdates' = [pupdates EXCEPT ![t][p] = m]
    /\ UNCHANGED <<store, triggers, wmu, rmu, pc, root, updates, loops>>

DeletePolicy(t, p) ==
    /\ Usable(t)
    /\ PView(t)[p] # Absent
    /\ pupdates' = [pupdates EXCEPT ![t][p] = Absent]
    /\ UNCHANGED <<store, triggers, wmu, rmu, pc, root, updates, loops>>

\* The policies of an archive go to the log one by one.
UpsertAll(t, lib) ==
    [p \in Policies |-> IF lib[p] = Absent THEN pupdates[t][p] ELSE lib[p]]

\* Truncate with an archive of documents obj and policies lib: with
\* RootOverwrite the archive replaces the root ...
TruncateRoot(t, obj, lib) ==
    /\ Writing(t)
    /\ pupdates' = [pupdates EXCEPT ![t] = UpsertAll(t, lib)]
    /\ root' = root \cup {t}
    /\ updates' = [updates EXCEPT ![t] = obj]
    /\ UNCHANGED <<store, triggers, wmu, rmu, pc, loops>>

\* ... without it, every base path the archive has data for is added.
TruncateBases(t, obj, lib, bases) ==
    /\ Writing(t)
    /\ pupdates' = [pupdates EXCEPT ![t] = UpsertAll(t, lib)]
    /\ updates' = [updates EXCEPT ![t] =
           [d \in Docs |-> IF d \in bases /\ obj[d] # Absent
                           THEN obj[d] ELSE updates[t][d]]]
    /\ UNCHANGED <<store, triggers, wmu, rmu, pc, root, loops>>

\* The archive turns out to be unreadable after the policies lib.
TruncateFails(t, lib) ==
    /\ Writing(t)
    /\ pupdates' = [pupdates EXCEPT ![t] = UpsertAll(t, lib)]
    /\ UNCHANGED <<store, triggers, wmu, rmu, pc, root, updates, loops>>

\* Triggers are a part of the store, not of the transaction: registering
\* takes effect at once and survives an abort.
Register(t, h) ==
    /\ Writing(t)
    /\ h \notin triggers
    /\ triggers' = triggers \cup {h}
    /\ UNCHANGED <<store, wmu, rmu, pc, log, loops>>

Unregister(t, h) ==
    /\ Writing(t)
    /\ h \in triggers
    /\ triggers' = triggers \ {h}
    /\ UNCHANGED <<store, wmu, rmu, pc, log, loops>>

-----------------------------------------------------------------------------
(* Commit and Abort. *)

\* A finished write handle is stale: its logs are out of reach.
Forget(t) ==
    /\ root' = root \ {t}
    /\ updates' = [updates EXCEPT ![t] = NoUpdates]
    /\ pupdates' = [pupdates EXCEPT ![t] = NoPUpdates]

\* Faulty variant: Abort forgets to release wmu.
AbortWriteKeepsLock(t) ==
    /\ Writing(t)
    /\ pc' = [pc EXCEPT ![t] = "done"]
    /\ Forget(t)
    /\ UNCHANGED <<store, triggers, wmu, rmu, loops>>

AbortWrite(t) ==
    /\ Writing(t)
    /\ wmu' = wmu \ {t}
    /\ pc' = [pc EXCEPT ![t] = "done"]
    /\ Forget(t)
    /\ UNCHANGED <<store, triggers, rmu, loops>>

\* Commit or Abort of a read transaction.
EndRead(t) ==
    /\ Reading(t)
    /\ rmu' = RUnlock(rmu, t)
    /\ pc' = [pc EXCEPT ![t] = "done"]
    /\ UNCHANGED <<store, triggers, wmu, log, loops>>

\* Commit of a write transaction asks for rmu ...
CommitWrite(t) ==
    /\ Writing(t)
    /\ rmu' = Lock(rmu, t)
    /\ pc' = [pc EXCEPT ![t] = "rwlock"]
    /\ UNCHANGED <<store, triggers, wmu, log, loops>>

\* Faulty variants: Commit does not wait for the readers; Commit goes
\* through all documents rather than those it has an update for.
StartApplyUnlocked(t) ==
    /\ pc[t] = "rwlock"
    /\ pc' = [pc EXCEPT ![t] = "apply"]
    /\ todo' = {d \in Docs : updates[t][d] # Keep}
                 \cup {p \in Policies : pupdates[t][p] # Keep}
    /\ UNCHANGED <<store, triggers, wmu, rmu, log, pending>>

StartApplyToAll(t) ==
    /\ pc[t] = "rwlock"
    /\ t \in rmu.writer
    /\ pc' = [pc EXCEPT ![t] = "apply"]
    /\ todo' = Docs \cup Policies
    /\ UNCHANGED <<store, triggers, wmu, rmu, log, pending>>

\* ... and, once it has it, works through the logs: the data first, then
\* the policies.
StartApply(t) ==
    /\ pc[t] = "rwlock"
    /\ t \in rmu.writer
    /\ pc' = [pc EXCEPT ![t] = "apply"]
    /\ todo' = {d \in Docs : updates[t][d] # Keep}
                 \cup {p \in Policies : pupdates[t][p] # Keep}
    /\ UNCHANGED <<store, triggers, wmu, rmu, log, pending>>

\* An update of the root replaces the data object in one assignment.
ApplyRoot(t) ==
    /\ pc[t] = "apply"
    /\ t \in root
    /\ todo \cap Docs # {}
    /\ data' = View(t)
    /\ todo' = todo \ Docs
    /\ UNCHANGED <<policies, triggers, wmu, rmu, pc, log, pending>>

ApplyUpdate(t, d) ==
    /\ pc[t] = "apply"
    /\ t \notin root
    /\ d \in todo
    /\ data' = [data EXCEPT ![d] = updates[t][d]]
    /\ todo' = todo \ {d}
    /\ UNCHANGED <<policies, triggers, wmu, rmu, pc, log, pending>>

ApplyPolicy(t, p) ==
    /\ pc[t] = "apply"
    /\ todo \cap Docs = {}
    /\ p \in todo
    /\ policies' = [policies EXCEPT ![p] = pupdates[t][p]]
    /\ todo' = todo \ {p}
    /\ UNCHANGED <<data, triggers, wmu, rmu, pc, log, pending>>

\* Faulty variant: the triggers are called before the policies are updated.
StartNotifyEarly(t) ==
    /\ pc[t] = "apply"
    /\ todo \cap Docs = {}
    /\ pc' = [pc EXCEPT ![t] = "notify"]
    /\ pending' = triggers
    /\ UNCHANGED <<store, triggers, wmu, rmu, log, todo>>

\* runOnCommitTriggers calls every registered trigger, in any order.
StartNotify(t) ==
    /\ pc[t] = "apply"
    /\ todo = {}
    /\ pc' = [pc EXCEPT ![t] = "notify"]
    /\ pending' = triggers
    /\ UNCHANGED <<store, triggers, wmu, rmu, log, todo>>

OnCommit(t, h) ==
    /\ pc[t] = "notify"
    /\ h \in pending
    /\ pending' = pending \ {h}
    /\ UNCHANGED <<store, triggers, wmu, rmu, pc, log, todo>>

\* Marks the handle stale and releases rmu, then wmu.
FinishCommit(t) ==
    /\ pc[t] = "notify"
    /\ pending = {}
    /\ rmu' = Unlock(rmu)
    /\ pc' = [pc EXCEPT ![t] = "unlock"]
    /\ Forget(t)
    /\ UNCHANGED <<store, triggers, wmu, loops>>

ReleaseWriter(t) ==
    /\ pc[t] = "unlock"
    /\ wmu' = wmu \ {t}
    /\ pc' = [pc EXCEPT ![t] = "done"]
    /\ UNCHANGED <<store, triggers, rmu, log, loops>>

-----------------------------------------------------------------------------

Operation(t) ==
    \/ \E op \in Ops, d \in Docs : \/ \E v \in Values : Write(t, op, d, v)
                                   \/ WriteNotFound(t, op, d)
    \/ \E obj \in Data : WriteRoot(t, obj)
    \/ \E p \in Policies : \/ \E m \in Modules : UpsertPolicy(t, p, m)
                           \/ DeletePolicy(t, p)
    \/ \E lib \in Library :
         \/ \E obj \in Data : \/ TruncateRoot(t, obj, lib)
                            \/ \E bases \in SUBSET Docs :
                                 TruncateBases(t, obj, lib, bases)
         \/ TruncateFails(t, lib)
    \/ \E h \in Handles : Register(t, h) \/ Unregister(t, h)

CommitSteps(t) ==
    \/ StartApply(t)
    \/ ApplyRoot(t)
    \/ \E d \in Docs : ApplyUpdate(t, d)
    \/ \E p \in Policies : ApplyPolicy(t, p)
    \/ StartNotify(t)
    \/ \E h \in Handles : OnCommit(t, h)
    \/ FinishCommit(t)
    \/ ReleaseWriter(t)

Finish(t) == AbortWrite(t) \/ CommitWrite(t) \/ EndRead(t)

\* Once every handle has been used the model has nothing left to do.
Terminated ==
    /\ \A t \in Txns : pc[t] = "done"
    /\ UNCHANGED vars

Next ==
    \/ \E t \in Txns :
         \/ BeginRead(t) \/ BeginWrite(t) \/ AcquireWriter(t)
         \/ Operation(t)
         \/ Finish(t)
         \/ CommitSteps(t)
    \/ Terminated

Spec == Init /\ [][Next]_vars

\* Go's mutexes admit every waiter eventually, callers finish the
\* transactions they open, and a commit does not stop half way.
Fairness ==
    \A t \in Txns : /\ WF_vars(AcquireWriter(t))
                    /\ WF_vars(Finish(t))
                    /\ WF_vars(CommitSteps(t))

LiveSpec == Spec /\ Fairness
-----------------------------------------------------------------------------
(* Safety. *)

\* The store as other transactions see it.  A commit takes place when it
\* starts to apply its log under rmu: what is still to do already counts.
Installer == CHOOSE t \in Txns : pc[t] = "apply"

Committed ==
    [k \in Docs \cup Policies |->
       IF k \in Docs
       THEN IF k \in todo THEN updates[Installer][k]  ELSE data[k]
       ELSE IF k \in todo THEN pupdates[Installer][k] ELSE policies[k]]

ViewOf(t) ==
    [k \in Docs \cup Policies |->
       IF k \in Docs THEN View(t)[k] ELSE PView(t)[k]]

StatusOf(t) ==
    IF pc[t] \in {"writing", "rwlock"} THEN "write"
    ELSE IF Reading(t) THEN "read"
    ELSE IF pc[t] \in {"idle", "wlock", "reading"} THEN "idle"
    ELSE "done"

AbsStatus == [t \in Txns |-> StatusOf(t)]

AbsView ==
    [t \in Txns |->
       IF StatusOf(t) \in {"read", "write"} THEN ViewOf(t) ELSE <<>>]

Abs == INSTANCE SnapshotStore WITH
    Keys <- Docs \cup Policies,
    Vals <- Values \cup Modules \cup {Absent},
    committed <- Committed, status <- AbsStatus, view <- AbsView

\* The store keeps its package comment's promise of multi-reader, single-
\* writer concurrency with rollback: whatever the order of lock operations,
\* log entries and callbacks, callers cannot tell it from SnapshotStore.
ImplementsSnapshots == Abs!Spec

\* While a read transaction is open nothing it can read changes: Commit
\* applies its log under the write lock of rmu only, and a commit that
\* waits for the lock has not touched the data yet.
ReadersStable ==
    [][\A t \in Txns : Reading(t) => UNCHANGED store]_vars

\* An OnCommit callback that reads through the transaction it is given
\* finds the state the commit installed: Commit marks the handle stale only
\* after the callbacks (inmem.go:200), and applied its whole log before.
TriggersSeeCommit ==
    \A t \in Txns :
        pc[t] = "notify" => View(t) = data /\ PView(t) = policies

-----------------------------------------------------------------------------
(* Liveness. *)

\* NewTransaction and Commit return: nobody waits for wmu or rmu for ever,
\* whatever readers, writers and callbacks hold them before.
TransactionsFinish ==
    \A t \in Txns : pc[t] # "idle" ~> pc[t] = "done"
=============================================================================
