-------------------------- MODULE InmemStoreProofs --------------------------
(***************************************************************************)
(* Proofs about the in-memory store, for any number of transactions,       *)
(* documents, policies, triggers and values.                               *)
(***************************************************************************)
EXTENDS InmemStore, TLAPS

USE SentinelsAssumption, NamesAssumption, TriggersWriteAssumption

DataLogs   == [Docs -> Values \cup {Absent, Keep}]
PolicyLogs == [Policies -> Modules \cup {Absent, Keep}]

-----------------------------------------------------------------------------
(* The inductive invariant. *)

\* A write transaction between NewTransaction and the release of wmu.
InWrite(t) == pc[t] \in {"writing", "rwlock", "apply", "notify", "unlock"}

\* The locks are held by whom the program counters say: one writer at a
\* time, no reader while a commit is under way.
LockInv ==
    /\ \A t \in Txns : InWrite(t) <=> t \in wmu
    /\ \A t, u \in wmu : t = u
    /\ \A t \in Txns : pc[t] = "reading" <=> t \in rmu.held \cup rmu.queue
    /\ \A t \in Txns : t \in rmu.pending => pc[t] = "rwlock"
    /\ \A t \in Txns : t \in rmu.writer => pc[t] \in {"rwlock", "apply", "notify"}
    /\ \A t \in Txns : pc[t] \in {"apply", "notify"} => t \in rmu.writer
    /\ rmu.held \cap rmu.queue = {}
    /\ rmu.writer # {} => rmu.held = {} /\ rmu.pending = {}

\* Only an open write transaction has a log, and a log that replaces the
\* root speaks of every document.
LogInv ==
    /\ \A t \in Txns :
         pc[t] \notin {"writing", "rwlock", "apply", "notify"} =>
            t \notin root /\ updates[t] = NoUpdates /\ pupdates[t] = NoPUpdates
    /\ \A t \in root : \A d \in Docs : updates[t][d] # Keep

\* What a commit has applied is in the store, what it has not is in its log.
ApplyInv ==
    /\ \A t \in Txns : pc[t] = "apply" =>
         /\ \A d \in Docs :
              IF d \in todo THEN updates[t][d] # Keep
              ELSE updates[t][d] \in {Keep, data[d]}
         /\ \A p \in Policies :
              IF p \in todo THEN pupdates[t][p] # Keep
              ELSE pupdates[t][p] \in {Keep, policies[p]}
    /\ (\A t \in Txns : pc[t] # "apply") => todo = {}

\* After the last entry the store agrees with the log, until a callback
\* writes.
NotifyInv ==
    \A t \in Txns : pc[t] = "notify" /\ ~TriggersWrite =>
        /\ \A d \in Docs : updates[t][d] \in {Keep, data[d]}
        /\ \A p \in Policies : pupdates[t][p] \in {Keep, policies[p]}

IInv == TypeOK /\ LockInv /\ LogInv /\ ApplyInv /\ NotifyInv

-----------------------------------------------------------------------------
(* Operations of an open write transaction. *)

\* All that such an operation may do: change the log of its transaction and
\* the set of triggers.
LogStep(t) ==
    /\ Usable(t)
    /\ UNCHANGED <<data, policies, wmu, rmu, pc, todo, pending>>
    /\ triggers' \subseteq Handles
    /\ root' \subseteq Txns
    /\ root' \ {t} = root \ {t}
    /\ updates' \in [Txns -> DataLogs]
    /\ pupdates' \in [Txns -> PolicyLogs]
    /\ \A u \in Txns \ {t} : /\ updates'[u] = updates[u]
                             /\ pupdates'[u] = pupdates[u]
    /\ t \in root' => \A d \in Docs : updates'[t][d] # Keep

\* The operations of a write transaction keep to their own log.
LEMMA OperationIsLogStep ==
    ASSUME TypeOK, LogInv, NEW t \in Txns, Operation(t)
    PROVE  LogStep(t)
<1> USE DEF TypeOK, LogInv, LogStep, DataLogs, PolicyLogs, Usable, Writing,
            store, log, loops
<1>1. ASSUME NEW op \in Ops, NEW d \in Docs, NEW v \in Values,
             Write(t, op, d, v)
      PROVE  LogStep(t)
  BY <1>1 DEF Write
<1>2. ASSUME NEW op \in Ops, NEW d \in Docs, WriteNotFound(t, op, d)
      PROVE  LogStep(t)
  BY <1>2 DEF WriteNotFound, NotInStore
<1>3. ASSUME NEW obj \in Data, WriteRoot(t, obj)  PROVE  LogStep(t)
  BY <1>3 DEF WriteRoot, Data
<1>4. ASSUME NEW p \in Policies, NEW m \in Modules, UpsertPolicy(t, p, m)
      PROVE  LogStep(t)
  BY <1>4 DEF UpsertPolicy
<1>5. ASSUME NEW p \in Policies, DeletePolicy(t, p)  PROVE  LogStep(t)
  BY <1>5 DEF DeletePolicy
<1>6. \A lib \in Library : UpsertAll(t, lib) \in PolicyLogs
  BY DEF UpsertAll, Library
<1>7. ASSUME NEW lib \in Library, NEW obj \in Data, TruncateRoot(t, obj, lib)
      PROVE  LogStep(t)
  BY <1>6, <1>7 DEF TruncateRoot, Data
<1>8. ASSUME NEW lib \in Library, NEW obj \in Data, NEW bases \in SUBSET Docs,
             TruncateBases(t, obj, lib, bases)
      PROVE  LogStep(t)
  BY <1>6, <1>8 DEF TruncateBases, Data
<1>9. ASSUME NEW lib \in Library, TruncateFails(t, lib)  PROVE  LogStep(t)
  BY <1>6, <1>9 DEF TruncateFails
<1>10. ASSUME NEW h \in Handles, Register(t, h) \/ Unregister(t, h)
       PROVE  LogStep(t)
  BY <1>10 DEF Register, Unregister
<1> QED
  BY <1>1, <1>2, <1>3, <1>4, <1>5, <1>7, <1>8, <1>9, <1>10 DEF Operation

-----------------------------------------------------------------------------
(* The invariant is inductive. *)

\* The invariant holds in the store New returns.
LEMMA InvInit == Init => IInv
  BY DEF Init, IInv, TypeOK, LockInv, LogInv, ApplyInv, NotifyInv, Data, Library,
         NoUpdates, NoPUpdates, PCs, RWLocks, RWUnlocked, InWrite

\* Write, UpsertPolicy, Truncate and the others: only the log of the caller
\* changes.
LEMMA InvOperation ==
    ASSUME IInv, NEW t \in Txns, LogStep(t)
    PROVE  IInv'
<1> USE DEF IInv, LogStep, Usable, Writing
<1>1. TypeOK'
  BY DEF TypeOK, DataLogs, PolicyLogs
<1>2. LockInv'
  BY DEF LockInv, InWrite
<1>3. LogInv'
  BY DEF LogInv, TypeOK
<1>4. ApplyInv'
  BY DEF ApplyInv
<1>5. NotifyInv'
  BY DEF NotifyInv
<1> QED  BY <1>1, <1>2, <1>3, <1>4, <1>5

\* A new read transaction queues for rmu or holds it.
LEMMA InvBeginRead ==
    ASSUME IInv, NEW t \in Txns, BeginRead(t)
    PROVE  IInv'
<1> USE DEF IInv, BeginRead, store, log, loops, RLock, RWLocks
<1>1. TypeOK'
  BY DEF TypeOK, PCs, LogInv, ApplyInv
<1>2. LockInv'
  BY DEF TypeOK, LockInv, InWrite, RWLocks
<1>3. LogInv'
  BY DEF TypeOK, LogInv
<1>4. ApplyInv'
  BY DEF TypeOK, LockInv, InWrite, LogInv, ApplyInv
<1>5. NotifyInv'
  BY DEF TypeOK, LockInv, InWrite, ApplyInv, NotifyInv
<1> QED  BY <1>1, <1>2, <1>3, <1>4, <1>5

\* A new write transaction is about to ask for wmu.
LEMMA InvBeginWrite ==
    ASSUME IInv, NEW t \in Txns, BeginWrite(t)
    PROVE  IInv'
<1> USE DEF IInv, BeginWrite, store, log, loops
<1>1. TypeOK'
  BY DEF TypeOK, PCs, LogInv, ApplyInv
<1>2. LockInv'
  BY DEF TypeOK, LockInv, InWrite, RWLocks
<1>3. LogInv'
  BY DEF TypeOK, LogInv
<1>4. ApplyInv'
  BY DEF TypeOK, LockInv, InWrite, LogInv, ApplyInv
<1>5. NotifyInv'
  BY DEF TypeOK, LockInv, InWrite, ApplyInv, NotifyInv
<1> QED  BY <1>1, <1>2, <1>3, <1>4, <1>5

\* wmu is granted when nobody holds it, so the writer is the only one.
LEMMA InvAcquireWriter ==
    ASSUME IInv, NEW t \in Txns, AcquireWriter(t)
    PROVE  IInv'
<1> USE DEF IInv, AcquireWriter, store, log, loops
<1>1. TypeOK'
  BY DEF TypeOK, PCs, LogInv, ApplyInv
<1>2. LockInv'
  BY DEF TypeOK, LockInv, InWrite, RWLocks
<1>3. LogInv'
  BY DEF TypeOK, LogInv
<1>4. ApplyInv'
  BY DEF TypeOK, LockInv, InWrite, LogInv, ApplyInv
<1>5. NotifyInv'
  BY DEF TypeOK, LockInv, InWrite, ApplyInv, NotifyInv
<1> QED  BY <1>1, <1>2, <1>3, <1>4, <1>5

\* Abort gives wmu back and drops the log.
LEMMA InvAbortWrite ==
    ASSUME IInv, NEW t \in Txns, AbortWrite(t)
    PROVE  IInv'
<1> USE DEF IInv, AbortWrite, store, log, loops, Writing, Forget, NoUpdates, NoPUpdates
<1>1. TypeOK'
  BY DEF TypeOK, PCs, LogInv, ApplyInv
<1>2. LockInv'
  BY DEF TypeOK, LockInv, InWrite, RWLocks
<1>3. LogInv'
  BY DEF TypeOK, LogInv
<1>4. ApplyInv'
  BY DEF TypeOK, LockInv, InWrite, LogInv, ApplyInv
<1>5. NotifyInv'
  BY DEF TypeOK, LockInv, InWrite, ApplyInv, NotifyInv
<1> QED  BY <1>1, <1>2, <1>3, <1>4, <1>5

\* Commit asks for rmu; the log stays as it is.
LEMMA InvCommitWrite ==
    ASSUME IInv, NEW t \in Txns, CommitWrite(t)
    PROVE  IInv'
<1> USE DEF IInv, CommitWrite, store, log, loops, Writing, Lock, RWLocks
<1>1. TypeOK'
  BY DEF TypeOK, PCs, LogInv, ApplyInv
<1>2. LockInv'
  BY DEF TypeOK, LockInv, InWrite, RWLocks
<1>3. LogInv'
  BY DEF TypeOK, LogInv
<1>4. ApplyInv'
  BY DEF TypeOK, LockInv, InWrite, LogInv, ApplyInv
<1>5. NotifyInv'
  BY DEF TypeOK, LockInv, InWrite, ApplyInv, NotifyInv
<1> QED  BY <1>1, <1>2, <1>3, <1>4, <1>5

\* The end of a read transaction may grant rmu to the waiting committer.
LEMMA InvEndRead ==
    ASSUME IInv, NEW t \in Txns, EndRead(t)
    PROVE  IInv'
<1> USE DEF IInv, EndRead, store, log, loops, Reading, RUnlock, RWLocks
<1>1. TypeOK'
  BY DEF TypeOK, PCs, LogInv, ApplyInv
<1>2. LockInv'
  BY DEF TypeOK, LockInv, InWrite, RWLocks
<1>3. LogInv'
  BY DEF TypeOK, LogInv
<1>4. ApplyInv'
  BY DEF TypeOK, LockInv, InWrite, LogInv, ApplyInv
<1>5. NotifyInv'
  BY DEF TypeOK, LockInv, InWrite, ApplyInv, NotifyInv
<1> QED  BY <1>1, <1>2, <1>3, <1>4, <1>5

\* The log entries to apply are those the log has.
LEMMA InvStartApply ==
    ASSUME IInv, NEW t \in Txns, StartApply(t)
    PROVE  IInv'
<1> USE DEF IInv, StartApply, store, log, loops
<1>1. TypeOK'
  BY DEF TypeOK, PCs, LogInv, ApplyInv
<1>2. LockInv'
  BY DEF TypeOK, LockInv, InWrite, RWLocks
<1>3. LogInv'
  BY DEF TypeOK, LogInv
<1>4. ApplyInv'
  <2>1. ASSUME NEW u \in Txns, u # t  PROVE pc'[u] # "apply"
    <3>1. t \in wmu /\ u \notin wmu
      BY <2>1 DEF LockInv, InWrite
    <3> QED  BY <2>1, <3>1 DEF TypeOK, LockInv, InWrite
  <2>2. \A d \in Docs : d \in todo' <=> updates[t][d] # Keep
    OBVIOUS
  <2>3. \A p \in Policies : p \in todo' <=> pupdates[t][p] # Keep
    OBVIOUS
  <2> QED  BY <2>1, <2>2, <2>3 DEF TypeOK, ApplyInv
<1>5. NotifyInv'
  BY DEF TypeOK, LockInv, InWrite, ApplyInv, NotifyInv
<1> QED  BY <1>1, <1>2, <1>3, <1>4, <1>5

\* A root update leaves no document to apply.
LEMMA InvApplyRoot ==
    ASSUME IInv, NEW t \in Txns, ApplyRoot(t)
    PROVE  IInv'
<1> USE DEF IInv, ApplyRoot, store, log, loops, View, Overlay, Data
<1>1. TypeOK'
  BY DEF TypeOK, PCs, LogInv, ApplyInv
<1>2. LockInv'
  BY DEF TypeOK, LockInv, InWrite, RWLocks
<1>3. LogInv'
  BY DEF TypeOK, LogInv
<1>4. ApplyInv'
  BY DEF TypeOK, LockInv, InWrite, LogInv, ApplyInv
<1>5. NotifyInv'
  BY DEF TypeOK, LockInv, InWrite, ApplyInv, NotifyInv
<1> QED  BY <1>1, <1>2, <1>3, <1>4, <1>5

\* The callbacks start when the whole log has been applied.
LEMMA InvStartNotify ==
    ASSUME IInv, NEW t \in Txns, StartNotify(t)
    PROVE  IInv'
<1> USE DEF IInv, StartNotify, store, log, loops
<1>1. TypeOK'
  BY DEF TypeOK, PCs, LogInv, ApplyInv
<1>2. LockInv'
  BY DEF TypeOK, LockInv, InWrite, RWLocks
<1>3. LogInv'
  BY DEF TypeOK, LogInv
<1>4. ApplyInv'
  BY DEF TypeOK, LockInv, InWrite, LogInv, ApplyInv
<1>5. NotifyInv'
  BY DEF TypeOK, LockInv, InWrite, ApplyInv, NotifyInv
<1> QED  BY <1>1, <1>2, <1>3, <1>4, <1>5

\* Releasing rmu makes the waiting readers holders.
LEMMA InvFinishCommit ==
    ASSUME IInv, NEW t \in Txns, FinishCommit(t)
    PROVE  IInv'
<1> USE DEF IInv, FinishCommit, store, log, loops, Unlock, RWLocks, Forget, NoUpdates, NoPUpdates
<1>1. TypeOK'
  BY DEF TypeOK, PCs, LogInv, ApplyInv
<1>2. LockInv'
  BY DEF TypeOK, LockInv, InWrite, RWLocks
<1>3. LogInv'
  BY DEF TypeOK, LogInv
<1>4. ApplyInv'
  BY DEF TypeOK, LockInv, InWrite, LogInv, ApplyInv
<1>5. NotifyInv'
  BY DEF TypeOK, LockInv, InWrite, ApplyInv, NotifyInv
<1> QED  BY <1>1, <1>2, <1>3, <1>4, <1>5

\* The committer gives wmu back last.
LEMMA InvReleaseWriter ==
    ASSUME IInv, NEW t \in Txns, ReleaseWriter(t)
    PROVE  IInv'
<1> USE DEF IInv, ReleaseWriter, store, log, loops
<1>1. TypeOK'
  BY DEF TypeOK, PCs, LogInv, ApplyInv
<1>2. LockInv'
  BY DEF TypeOK, LockInv, InWrite, RWLocks
<1>3. LogInv'
  BY DEF TypeOK, LogInv
<1>4. ApplyInv'
  BY DEF TypeOK, LockInv, InWrite, LogInv, ApplyInv
<1>5. NotifyInv'
  BY DEF TypeOK, LockInv, InWrite, ApplyInv, NotifyInv
<1> QED  BY <1>1, <1>2, <1>3, <1>4, <1>5

\* An applied entry is in the data.
LEMMA InvApplyUpdate ==
    ASSUME IInv, NEW t \in Txns, NEW d \in Docs, ApplyUpdate(t, d)
    PROVE  IInv'
<1> USE DEF IInv, ApplyUpdate, store, log, loops, Data
<1>1. TypeOK'
  BY DEF TypeOK, PCs, LogInv, ApplyInv
<1>2. LockInv'
  BY DEF TypeOK, LockInv, InWrite, RWLocks
<1>3. LogInv'
  BY DEF TypeOK, LogInv
<1>4. ApplyInv'
  BY DEF TypeOK, LockInv, InWrite, LogInv, ApplyInv
<1>5. NotifyInv'
  BY DEF TypeOK, LockInv, InWrite, ApplyInv, NotifyInv
<1> QED  BY <1>1, <1>2, <1>3, <1>4, <1>5

\* An applied policy is in the store.
LEMMA InvApplyPolicy ==
    ASSUME IInv, NEW t \in Txns, NEW p \in Policies, ApplyPolicy(t, p)
    PROVE  IInv'
<1> USE DEF IInv, ApplyPolicy, store, log, loops, Library
<1>1. TypeOK'
  BY DEF TypeOK, PCs, LogInv, ApplyInv
<1>2. LockInv'
  BY DEF TypeOK, LockInv, InWrite, RWLocks
<1>3. LogInv'
  BY DEF TypeOK, LogInv
<1>4. ApplyInv'
  BY DEF TypeOK, LockInv, InWrite, LogInv, ApplyInv
<1>5. NotifyInv'
  BY DEF TypeOK, LockInv, InWrite, ApplyInv, NotifyInv
<1> QED  BY <1>1, <1>2, <1>3, <1>4, <1>5

\* A callback that only reads changes nothing.
LEMMA InvOnCommit ==
    ASSUME IInv, NEW t \in Txns, NEW h \in Handles, OnCommit(t, h)
    PROVE  IInv'
<1> USE DEF IInv, OnCommit, store, log, loops
<1>1. TypeOK'
  BY DEF TypeOK, PCs, LogInv, ApplyInv
<1>2. LockInv'
  BY DEF TypeOK, LockInv, InWrite, RWLocks
<1>3. LogInv'
  BY DEF TypeOK, LogInv
<1>4. ApplyInv'
  BY DEF TypeOK, LockInv, InWrite, LogInv, ApplyInv
<1>5. NotifyInv'
  BY DEF TypeOK, LockInv, InWrite, ApplyInv, NotifyInv
<1> QED  BY <1>1, <1>2, <1>3, <1>4, <1>5

\* Every step keeps the invariant.
LEMMA InvStep == IInv /\ [Next]_vars => IInv'
<1> SUFFICES ASSUME IInv, [Next]_vars  PROVE IInv'
  OBVIOUS
<1>1. CASE UNCHANGED vars
  BY <1>1 DEF vars, IInv, TypeOK, LockInv, LogInv, ApplyInv, NotifyInv, InWrite
<1>2. ASSUME NEW t \in Txns, Operation(t)  PROVE IInv'
  BY <1>2, OperationIsLogStep, InvOperation DEF IInv
<1>3. ASSUME NEW t \in Txns, Finish(t)  PROVE IInv'
  BY <1>3, InvAbortWrite, InvCommitWrite, InvEndRead DEF Finish
<1>4. ASSUME NEW t \in Txns, CommitSteps(t)  PROVE IInv'
  BY <1>4, InvStartApply, InvApplyRoot, InvApplyUpdate, InvApplyPolicy,
     InvStartNotify, InvOnCommit, InvFinishCommit, InvReleaseWriter
     DEF CommitSteps
<1>5. ASSUME NEW t \in Txns, BeginRead(t) \/ BeginWrite(t) \/ AcquireWriter(t)
      PROVE  IInv'
  BY <1>5, InvBeginRead, InvBeginWrite, InvAcquireWriter
<1> QED  BY <1>1, <1>2, <1>3, <1>4, <1>5 DEF Next, Terminated

\* The invariant holds at all times.
LEMMA Invariance == Spec => []IInv
  BY InvInit, InvStep, PTL DEF Spec

\* The variables of the store always have their types; in particular no
\* log mark ever reaches the committed data or policies (Commit copies the
\* entries of a log into the store).
THEOREM TypeCorrect == Spec => []TypeOK
<1>1. IInv => TypeOK
  BY DEF IInv
<1> QED  BY <1>1, Invariance, PTL

\* While a read transaction is open nothing it can read changes.
THEOREM ReadersAreStable == Spec => ReadersStable
<1>1. ASSUME IInv, [Next]_vars, NEW t \in Txns, Reading(t)  PROVE UNCHANGED store
  <2> USE DEF store
  <2>1. rmu.writer = {}
    BY <1>1 DEF Reading, IInv, LockInv
  <2>2. \A u \in Txns : pc[u] # "apply"
    BY <2>1, <1>1 DEF IInv, LockInv
  <2>3. CASE UNCHANGED vars
    BY <2>3 DEF vars
  <2>4. ASSUME NEW u \in Txns, Operation(u)  PROVE UNCHANGED store
    BY <1>1, <2>4, OperationIsLogStep DEF IInv, LogStep
  <2>5. ASSUME NEW u \in Txns, Finish(u)  PROVE UNCHANGED store
    BY <2>5 DEF Finish, AbortWrite, CommitWrite, EndRead
  <2>6. ASSUME NEW u \in Txns, CommitSteps(u)  PROVE UNCHANGED store
    BY <2>2, <2>6 DEF CommitSteps, StartApply, ApplyRoot, ApplyUpdate, ApplyPolicy,
       StartNotify, OnCommit, FinishCommit, ReleaseWriter
  <2>7. ASSUME NEW u \in Txns, BeginRead(u) \/ BeginWrite(u) \/ AcquireWriter(u)
        PROVE  UNCHANGED store
    BY <2>7 DEF BeginRead, BeginWrite, AcquireWriter
  <2> QED  BY <1>1, <2>3, <2>4, <2>5, <2>6, <2>7 DEF Next, Terminated
<1>2. IInv /\ [Next]_vars => [\A t \in Txns : Reading(t) => UNCHANGED store]_vars
  BY <1>1
<1> QED  BY <1>2, Invariance, PTL DEF Spec, ReadersStable

\* OnCommit callbacks that only read find exactly the state the commit
\* installed.
THEOREM CallbacksSeeCommit == ~TriggersWrite /\ Spec => []TriggersSeeCommit
<1> SUFFICES ASSUME ~TriggersWrite  PROVE Spec => []TriggersSeeCommit
  OBVIOUS
<1>1. IInv => TriggersSeeCommit
  <2> SUFFICES ASSUME IInv, NEW t \in Txns, pc[t] = "notify"
               PROVE  View(t) = data /\ PView(t) = policies
    BY DEF TriggersSeeCommit
  <2>1. data \in Data /\ policies \in Library
    BY DEF IInv, TypeOK
  <2>2. \A d \in Docs : View(t)[d] = data[d]
    BY <2>1 DEF IInv, NotifyInv, View, Overlay, Data
  <2>3. \A p \in Policies : PView(t)[p] = policies[p]
    BY <2>1 DEF IInv, NotifyInv, PView, Overlay, Library
  <2> QED  BY <2>1, <2>2, <2>3 DEF View, PView, Overlay, Data, Library
<1> QED  BY <1>1, Invariance, PTL

-----------------------------------------------------------------------------
(* The store implements SnapshotStore. *)

Keys == Docs \cup Policies
Vals == Values \cup Modules \cup {Absent}

\* The data and policies as they are.
Stored == [k \in Keys |-> IF k \in Docs THEN data[k] ELSE policies[k]]

\* Between commits the committed state is what the store holds.
LEMMA QuietCommitted ==
    ASSUME IInv, \A u \in Txns : pc[u] # "apply"
    PROVE  Committed = Stored
  BY DEF IInv, ApplyInv, Committed, Stored, Keys

\* What the store holds is a state of the abstract store.
LEMMA QuietStored == IInv => Stored \in [Keys -> Vals]
  BY DEF IInv, TypeOK, Stored, Data, Library, Keys, Vals

\* A transaction that has written nothing sees what the store holds.
LEMMA FreshView ==
    ASSUME IInv, NEW t \in Txns, updates[t] = NoUpdates, pupdates[t] = NoPUpdates
    PROVE  ViewOf(t) = Stored
  BY DEF IInv, TypeOK, ViewOf, View, PView, Overlay, NoUpdates, NoPUpdates,
         Data, Library, Stored, Keys

\* New refines the initial states of the abstract store.
LEMMA RefInit == Init => Abs!Init
<1> SUFFICES ASSUME Init  PROVE Abs!Init
  OBVIOUS
<1>1. IInv
  BY InvInit
<1>2. Committed \in Abs!State
  BY <1>1, QuietCommitted, QuietStored DEF Init, Abs!State, Keys, Vals
<1>3. AbsStatus = [t \in Txns |-> "idle"] /\ AbsView = [t \in Txns |-> <<>>]
  BY DEF Init, AbsStatus, AbsView, StatusOf, Reading
<1> QED  BY <1>2, <1>3 DEF Abs!Init, Abs!NoView

\* Steps that no caller can notice.
LEMMA RefStutter ==
    ASSUME IInv, IInv', [Next]_vars, NEW t \in Txns,
           \/ BeginWrite(t) \/ CommitWrite(t) \/ StartNotify(t) \/ ReleaseWriter(t)
           \/ \E h \in Handles : OnCommit(t, h)
    PROVE  UNCHANGED Abs!vars
<1> USE DEF store, log, loops
<1>1. UNCHANGED <<data, policies, updates, pupdates, todo, rmu.held>>
  BY DEF BeginWrite, CommitWrite, StartNotify, ReleaseWriter, OnCommit, Lock,
         IInv, TypeOK, RWLocks
<1>2. \A u \in Txns : StatusOf(u)' = StatusOf(u)
  BY <1>1 DEF BeginWrite, CommitWrite, StartNotify, ReleaseWriter, OnCommit,
              StatusOf, Reading, Writing, IInv, TypeOK
<1>3. \A u \in Txns : ViewOf(u)' = ViewOf(u)
  BY <1>1 DEF ViewOf, View, PView, Overlay
<1>4. AbsStatus' = AbsStatus /\ AbsView' = AbsView
  BY <1>2, <1>3 DEF AbsStatus, AbsView
<1>5. Committed' = Committed
  <2>1. CASE StartNotify(t)
    <3>1. todo = {} /\ todo' = {}
      BY <2>1 DEF StartNotify
    <3> QED  BY <1>1, <3>1 DEF Committed
  <2>2. CASE ~StartNotify(t)
    <3>1. \A u \in Txns : pc'[u] = "apply" <=> pc[u] = "apply"
      BY <2>2 DEF BeginWrite, CommitWrite, StartNotify, ReleaseWriter, OnCommit,
                  Writing, IInv, TypeOK
    <3>2. Installer' = Installer
      BY <3>1 DEF Installer
    <3> QED  BY <1>1, <3>2 DEF Committed
  <2> QED  BY <2>1, <2>2
<1> QED  BY <1>4, <1>5 DEF Abs!vars

\* NewTransaction of a reader: it begins when it holds rmu, which may be
\* later.
LEMMA RefBeginRead ==
    ASSUME IInv, IInv', NEW t \in Txns, BeginRead(t)
    PROVE  [Abs!Next]_(Abs!vars)
<1> USE DEF BeginRead, store, log, loops
<1>0. UNCHANGED <<data, policies, updates, pupdates, todo>>
  OBVIOUS
<1>1. Committed' = Committed
  <2>1. \A u \in Txns : pc'[u] = "apply" <=> pc[u] = "apply"
    BY DEF IInv, TypeOK
  <2>2. Installer' = Installer
    BY <2>1 DEF Installer
  <2> QED  BY <1>0, <2>2 DEF Committed
<1>2. \A u \in Txns : ViewOf(u)' = ViewOf(u)
  BY <1>0 DEF ViewOf, View, PView, Overlay
<1>3. \A u \in Txns \ {t} : StatusOf(u)' = StatusOf(u)
  BY DEF StatusOf, Reading, RLock, IInv, TypeOK, RWLocks
<1>4. StatusOf(t) = "idle"
  BY DEF StatusOf, Reading
<1>5. CASE rmu.pending = {} /\ rmu.writer = {}
  <2>1. StatusOf(t)' = "read"
    BY <1>5 DEF StatusOf, Reading, RLock, IInv, TypeOK, RWLocks
  <2>2. Committed = Stored
    BY <1>5, QuietCommitted DEF IInv, LockInv
  <2>3. ViewOf(t)' = Committed
    BY <1>2, <2>2, FreshView DEF IInv, LogInv
  <2>4. Abs!OpenReads({t})
    BY <1>1, <1>2, <1>3, <1>4, <2>1, <2>3 DEF Abs!OpenReads, AbsStatus, AbsView
  <2> QED  BY <2>4 DEF Abs!Next
<1>6. CASE ~(rmu.pending = {} /\ rmu.writer = {})
  <2>1. StatusOf(t)' = "idle"
    BY <1>6 DEF StatusOf, Reading, RLock, IInv, TypeOK, RWLocks, LockInv
  <2> QED  BY <1>1, <1>2, <1>3, <1>4, <2>1 DEF Abs!vars, AbsStatus, AbsView
<1> QED  BY <1>5, <1>6

\* The writer begins, on a copy of the committed state, when it has wmu.
LEMMA RefAcquireWriter ==
    ASSUME IInv, IInv', NEW t \in Txns, AcquireWriter(t)
    PROVE  Abs!OpenWrite(t)
<1> USE DEF AcquireWriter, store, log, loops
<1>0. UNCHANGED <<data, policies, updates, pupdates, todo>>
  OBVIOUS
<1>1. \A u \in Txns : pc[u] # "apply" /\ pc'[u] # "apply"
  BY DEF IInv, TypeOK, LockInv, InWrite
<1>2. Committed = Stored /\ Committed' = Stored
  BY <1>0, <1>1, QuietCommitted DEF Committed, Stored, IInv, ApplyInv
<1>3. \A u \in Txns : ViewOf(u)' = ViewOf(u)
  BY <1>0 DEF ViewOf, View, PView, Overlay
<1>4. \A u \in Txns \ {t} : StatusOf(u)' = StatusOf(u)
  BY DEF StatusOf, Reading, IInv, TypeOK
<1>5. StatusOf(t) = "idle" /\ StatusOf(t)' = "write"
  BY DEF StatusOf, Reading, IInv, TypeOK
<1>6. \A u \in Txns : StatusOf(u) # "write"
  BY DEF StatusOf, Reading, IInv, LockInv, InWrite
<1>7. ViewOf(t) = Stored
  BY FreshView DEF IInv, LogInv
<1> QED
  BY <1>2, <1>3, <1>4, <1>5, <1>6, <1>7 DEF Abs!OpenWrite, AbsStatus, AbsView

\* An operation works on the private state of a writer; in a callback it
\* works on the log of a transaction that has already been committed.
LEMMA RefOperation ==
    ASSUME IInv, IInv', NEW t \in Txns, LogStep(t)
    PROVE  Abs!Modify(t) \/ UNCHANGED Abs!vars
<1> USE DEF LogStep
<1>1. \A u \in Txns : pc[u] # "apply"
  BY DEF Usable, Writing, IInv, LockInv, InWrite
<1>2. Committed' = Committed
  BY <1>1 DEF Committed, IInv, ApplyInv
<1>3. \A u \in Txns : StatusOf(u)' = StatusOf(u)
  BY DEF StatusOf, Reading
<1>4. \A u \in Txns \ {t} : ViewOf(u)' = ViewOf(u)
  BY DEF ViewOf, View, PView, Overlay
<1>5. CASE pc[t] = "writing"
  <2>1. StatusOf(t) = "write"
    BY <1>5 DEF StatusOf
  <2>2. ViewOf(t)' \in Abs!State
    BY DEF ViewOf, View, PView, Overlay, IInv, TypeOK, Data, Library,
           DataLogs, PolicyLogs, Abs!State
  <2>3. AbsStatus' = AbsStatus
    BY <1>3 DEF AbsStatus
  <2>4. AbsView' = [AbsView EXCEPT ![t] = ViewOf(t)']
    BY <1>3, <1>4, <2>1 DEF AbsView
  <2>5. AbsView'[t] = ViewOf(t)'
    BY <1>3, <2>1 DEF AbsView
  <2> QED  BY <1>2, <2>1, <2>2, <2>3, <2>4, <2>5 DEF Abs!Modify, AbsStatus
<1>6. CASE pc[t] = "notify"
  <2>1. StatusOf(t) = "done"
    BY <1>6 DEF StatusOf, Reading
  <2> QED  BY <1>2, <1>3, <1>4, <2>1 DEF Abs!vars, AbsStatus, AbsView
<1> QED  BY <1>5, <1>6 DEF Usable, Writing

\* Abort closes the transaction and nothing else.
LEMMA RefAbortWrite ==
    ASSUME IInv, IInv', NEW t \in Txns, AbortWrite(t)
    PROVE  Abs!Close(t)
<1> USE DEF AbortWrite, Writing, Forget, store, loops
<1>1. \A u \in Txns : pc[u] # "apply"
  BY DEF IInv, LockInv, InWrite
<1>2. Committed' = Committed
  BY <1>1 DEF Committed, IInv, ApplyInv
<1>3. \A u \in Txns \ {t} : StatusOf(u)' = StatusOf(u) /\ ViewOf(u)' = ViewOf(u)
  BY DEF StatusOf, Reading, ViewOf, View, PView, Overlay, IInv, TypeOK
<1>4. StatusOf(t) = "write" /\ StatusOf(t)' = "done"
  BY DEF StatusOf, Reading, IInv, TypeOK
<1> QED  BY <1>2, <1>3, <1>4 DEF Abs!Close, Abs!NoView, AbsStatus, AbsView

\* The end of a read transaction closes it.
LEMMA RefEndRead ==
    ASSUME IInv, IInv', NEW t \in Txns, EndRead(t)
    PROVE  Abs!Close(t)
<1> USE DEF EndRead, store, log, loops
<1>1. \A u \in Txns : pc[u] # "apply"
  BY DEF Reading, IInv, LockInv
<1>2. Committed' = Committed
  BY <1>1 DEF Committed, IInv, ApplyInv
<1>3. rmu'.held = rmu.held \ {t}
  BY DEF RUnlock, IInv, TypeOK, RWLocks
<1>4. \A u \in Txns \ {t} : StatusOf(u)' = StatusOf(u) /\ ViewOf(u)' = ViewOf(u)
  BY <1>3 DEF StatusOf, Reading, ViewOf, View, PView, Overlay, IInv, TypeOK
<1>5. StatusOf(t) = "read" /\ StatusOf(t)' = "done"
  BY DEF StatusOf, Reading, IInv, TypeOK
<1> QED  BY <1>2, <1>4, <1>5 DEF Abs!Close, Abs!NoView, AbsStatus, AbsView

\* The commit takes place when the write lock of rmu has been obtained.
LEMMA RefStartApply ==
    ASSUME IInv, IInv', NEW t \in Txns, StartApply(t)
    PROVE  Abs!Commit(t)
<1> USE DEF StartApply, store, log
<1>1. \A u \in Txns \ {t} : pc'[u] # "apply"
  <2> SUFFICES ASSUME NEW u \in Txns, u # t  PROVE pc[u] # "apply"
    BY DEF IInv, TypeOK
  <2> QED  BY DEF IInv, LockInv, InWrite
<1>2. Installer' = t
  BY <1>1 DEF Installer, IInv, TypeOK
<1>3. Committed' = ViewOf(t)
  <2>1. \A k \in Docs : Committed'[k] = ViewOf(t)[k]
    BY <1>2 DEF Committed, ViewOf, View, Overlay, IInv, TypeOK, Data
  <2>2. \A k \in Policies : Committed'[k] = ViewOf(t)[k]
    BY <1>2 DEF Committed, ViewOf, PView, Overlay, IInv, TypeOK, Library
  <2> QED  BY <2>1, <2>2 DEF Committed, ViewOf
<1>4. \A u \in Txns \ {t} : StatusOf(u)' = StatusOf(u) /\ ViewOf(u)' = ViewOf(u)
  BY DEF StatusOf, Reading, ViewOf, View, PView, Overlay, IInv, TypeOK
<1>5. StatusOf(t) = "write" /\ StatusOf(t)' = "done"
  BY DEF StatusOf, Reading, IInv, TypeOK
<1> QED  BY <1>3, <1>4, <1>5 DEF Abs!Commit, Abs!NoView, AbsStatus, AbsView

\* Applying an entry of the log moves it from the log to the store.
LEMMA RefApply ==
    ASSUME IInv, IInv', NEW t \in Txns,
           \/ ApplyRoot(t)
           \/ \E d \in Docs : ApplyUpdate(t, d)
           \/ \E p \in Policies : ApplyPolicy(t, p)
    PROVE  UNCHANGED Abs!vars
<1> USE DEF log
<1>1. pc[t] = "apply" /\ UNCHANGED <<pc, updates, pupdates, rmu>>
  BY DEF ApplyRoot, ApplyUpdate, ApplyPolicy
<1>2. \A u \in Txns \ {t} : pc[u] # "apply"
  BY <1>1 DEF IInv, LockInv, InWrite
<1>3. Installer = t /\ Installer' = t
  BY <1>1, <1>2 DEF Installer
<1>4. \A k \in Docs : Committed'[k] = Committed[k]
  <2>1. ASSUME NEW k \in Docs, ApplyRoot(t)  PROVE Committed'[k] = Committed[k]
    <3>1. updates[t][k] # Keep /\ data'[k] = updates[t][k]
      BY <2>1 DEF ApplyRoot, View, Overlay, IInv, TypeOK, LogInv, Data
    <3>2. Committed[k] = updates[t][k]
      BY <1>1, <1>3, <3>1 DEF Committed, IInv, ApplyInv
    <3> QED  BY <2>1, <3>1, <3>2 DEF ApplyRoot, Committed
  <2>2. ASSUME NEW k \in Docs, NEW d \in Docs, ApplyUpdate(t, d)
        PROVE  Committed'[k] = Committed[k]
    BY <1>1, <1>3, <2>2 DEF ApplyUpdate, Committed, IInv, TypeOK, Data
  <2>3. ASSUME NEW k \in Docs, NEW p \in Policies, ApplyPolicy(t, p)
        PROVE  Committed'[k] = Committed[k]
    BY <1>1, <1>3, <2>3 DEF ApplyPolicy, Committed
  <2> QED  BY <2>1, <2>2, <2>3
<1>5. \A k \in Policies : Committed'[k] = Committed[k]
  <2>1. ASSUME NEW k \in Policies,
               ApplyRoot(t) \/ \E d \in Docs : ApplyUpdate(t, d)
        PROVE  Committed'[k] = Committed[k]
    BY <1>1, <1>3, <2>1 DEF ApplyRoot, ApplyUpdate, Committed
  <2>2. ASSUME NEW k \in Policies, NEW p \in Policies, ApplyPolicy(t, p)
        PROVE  Committed'[k] = Committed[k]
    BY <1>1, <1>3, <2>2 DEF ApplyPolicy, Committed, IInv, TypeOK, Library
  <2> QED  BY <2>1, <2>2
<1>6. Committed' = Committed
  BY <1>4, <1>5 DEF Committed
<1>7. \A u \in Txns : StatusOf(u)' = StatusOf(u)
  BY <1>1 DEF StatusOf, Reading
<1>8. \A u \in Txns : StatusOf(u) \notin {"read", "write"}
  <2> SUFFICES ASSUME NEW u \in Txns  PROVE StatusOf(u) \notin {"read", "write"}
    OBVIOUS
  <2>1. rmu.held = {}
    BY <1>1 DEF IInv, LockInv
  <2>2. pc[u] \notin {"writing", "rwlock"}
    BY <1>1 DEF IInv, LockInv, InWrite
  <2> QED  BY <2>1, <2>2 DEF StatusOf, Reading
<1> QED  BY <1>6, <1>7, <1>8 DEF Abs!vars, AbsStatus, AbsView

\* Releasing rmu admits every reader that has queued up.
LEMMA RefFinishCommit ==
    ASSUME IInv, IInv', NEW t \in Txns, FinishCommit(t)
    PROVE  [Abs!Next]_(Abs!vars)
<1> USE DEF FinishCommit, Forget, store, loops
<1>1. \A u \in Txns : pc[u] # "apply"
  BY DEF IInv, LockInv, InWrite
<1>2. Committed = Stored /\ Committed' = Committed
  BY <1>1, QuietCommitted DEF Committed, IInv, ApplyInv
<1>3. rmu.held = {} /\ rmu'.held = rmu.queue /\ rmu.queue \subseteq Txns
  BY DEF Unlock, IInv, TypeOK, RWLocks, LockInv
<1>4. \A u \in rmu.queue : u # t /\ pc[u] = "reading"
  BY <1>3 DEF IInv, LockInv
<1>5. \A u \in rmu.queue : StatusOf(u) = "idle" /\ StatusOf(u)' = "read"
  BY <1>3, <1>4 DEF StatusOf, Reading, IInv, TypeOK
<1>6. \A u \in Txns \ rmu.queue : StatusOf(u)' = StatusOf(u)
  BY <1>3 DEF StatusOf, Reading, IInv, TypeOK
<1>7. \A u \in Txns \ {t} : ViewOf(u)' = ViewOf(u)
  BY DEF ViewOf, View, PView, Overlay, IInv, TypeOK
<1>8. \A u \in rmu.queue : ViewOf(u)' = Committed
  BY <1>2, <1>3, <1>4, <1>7, FreshView DEF IInv, LogInv
<1>9. StatusOf(t) = "done"
  BY DEF StatusOf, Reading
<1>10. CASE rmu.queue = {}
  BY <1>2, <1>6, <1>7, <1>9, <1>10 DEF Abs!vars, AbsStatus, AbsView
<1>11. CASE rmu.queue # {}
  <2>1. AbsStatus' = [u \in Txns |-> IF u \in rmu.queue THEN "read" ELSE AbsStatus[u]]
    BY <1>3, <1>5, <1>6 DEF AbsStatus
  <2>2. AbsView' = [u \in Txns |-> IF u \in rmu.queue THEN Committed ELSE AbsView[u]]
    BY <1>3, <1>5, <1>6, <1>7, <1>8, <1>9 DEF AbsView
  <2>3. Abs!OpenReads(rmu.queue)
    BY <1>2, <1>3, <1>5, <1>11, <2>1, <2>2 DEF Abs!OpenReads, AbsStatus
  <2> QED  BY <1>3, <2>3 DEF Abs!Next
<1> QED  BY <1>10, <1>11

\* Every step of the store is a step of the abstract store or none.
LEMMA RefStep == IInv /\ IInv' /\ [Next]_vars => [Abs!Next]_(Abs!vars)
<1> SUFFICES ASSUME IInv, IInv', [Next]_vars  PROVE [Abs!Next]_(Abs!vars)
  OBVIOUS
<1>1. CASE UNCHANGED vars
  BY <1>1 DEF vars, Abs!vars, Committed, Installer, AbsStatus, AbsView, StatusOf,
              Reading, ViewOf, View, PView, Overlay
<1>2. ASSUME NEW t \in Txns, Operation(t)  PROVE [Abs!Next]_(Abs!vars)
  BY <1>2, OperationIsLogStep, RefOperation DEF IInv, Abs!Next
<1>3. ASSUME NEW t \in Txns, Finish(t)  PROVE [Abs!Next]_(Abs!vars)
  BY <1>3, RefAbortWrite, RefStutter, RefEndRead DEF Finish, Abs!Next
<1>4. ASSUME NEW t \in Txns, CommitSteps(t)  PROVE [Abs!Next]_(Abs!vars)
  <2>1. CASE StartApply(t)
    BY <2>1, RefStartApply DEF Abs!Next
  <2>2. CASE FinishCommit(t)
    BY <2>2, RefFinishCommit
  <2> QED  BY <1>4, <2>1, <2>2, RefApply, RefStutter DEF CommitSteps
<1>5. ASSUME NEW t \in Txns, BeginRead(t) \/ BeginWrite(t) \/ AcquireWriter(t)
      PROVE  [Abs!Next]_(Abs!vars)
  BY <1>5, RefBeginRead, RefAcquireWriter, RefStutter DEF Abs!Next
<1> QED  BY <1>1, <1>2, <1>3, <1>4, <1>5 DEF Next, Terminated

\* Callers of the in-memory store cannot tell it from SnapshotStore: every
\* read transaction works on one committed state, write transactions on a
\* private copy that a commit installs as a whole and an abort discards.
THEOREM Refinement == Spec => ImplementsSnapshots
  BY RefInit, RefStep, Invariance, PTL DEF Spec, ImplementsSnapshots, Abs!Spec
=============================================================================
