---------------------------- MODULE StoresProofs ----------------------------
(***************************************************************************)
(* Proofs about the virtual store, for any number of transactions and of   *)
(* mounted stores and for every tree; about the mutable objects of         *)
(* pkg/json, for any number of objects, names and key arrays; and about    *)
(* the preview API, for any number of previews and commits.                *)
(***************************************************************************)
EXTENDS VirtualStore, JsonObjects, Preview, FiniteSetTheorems, SequenceTheorems,
        WellFoundedInduction, TLAPS

-----------------------------------------------------------------------------
(* The inductive invariant.                                                *)

\* The nested transaction of s is still open: Commit has not come to it yet.
Owns(t, s) ==
    \E i \in DOMAIN nested[t] : nested[t][i] = s /\ (vst[t] = "committing" => vpos[t] <= i)

\* A store is opened once, only a transaction under way has opened any, and
\* what a trigger opens behind the range of Commit's loop stays open.
TxnAt(t) ==
    /\ \A i, j \in DOMAIN nested[t] : nested[t][i] = nested[t][j] => i = j
    /\ \A i \in DOMAIN nested[t] : nested[t][i] # want[t]
    /\ vst[t] \in {"idle", "done", "failed"} => nested[t] = << >> /\ want[t] = NoStore
    /\ vst[t] = "idle" => \A s \in Stores : <<t, s>> \notin leaked
    /\ vst[t] = "committing" =>
         /\ 1 <= vpos[t] /\ vpos[t] <= vlast[t] /\ vlast[t] <= Len(nested[t])
         /\ \A i \in DOMAIN nested[t] : vlast[t] < i => <<t, nested[t][i]>> \in leaked
         /\ want[t] # NoStore => InTrigger(t)
TxnInv == \A t \in VTxns : TxnAt(t)

\* wmu of a store belongs to the write transaction that has it open.
WmuAt(t, s) ==
    /\ t \in vwmu[s] => vwrite[t] /\ (Owns(t, s) \/ <<t, s>> \in leaked)
    /\ vwrite[t] /\ Owns(t, s) => vwmu[s] = {t}
WmuInv == \A t \in VTxns, s \in Stores : WmuAt(t, s)

\* rmu of a store is held for reading by the read transactions that have it
\* open, and asked for by those that are opening it.
ReaderAt(t, s) ==
    /\ t \in vrmu[s].held \cup vrmu[s].queue =>
         ~vwrite[t] /\ (Owns(t, s) \/ <<t, s>> \in leaked \/ want[t] = s)
    /\ t \in vrmu[s].queue => want[t] = s
    /\ t \in vrmu[s].held \cap vrmu[s].queue => <<t, s>> \in leaked
    /\ ~vwrite[t] /\ Owns(t, s) => t \in vrmu[s].held
    /\ ~vwrite[t] /\ want[t] = s => t \in vrmu[s].held \cup vrmu[s].queue
ReaderInv == \A t \in VTxns, s \in Stores : ReaderAt(t, s)

\* rmu of a store is taken for writing by the transaction that commits there.
WriterAt(t, s) ==
    t \in vrmu[s].pending \cup vrmu[s].writer =>
        vwrite[t] /\ vst[t] = "committing" /\ nested[t][vpos[t]] = s
WriterInv == \A t \in VTxns, s \in Stores : WriterAt(t, s)

\* A writer excludes readers, waits only for readers, and only it keeps
\* readers waiting.
RWInv ==
    \A s \in Stores :
        /\ vrmu[s].writer # {} => vrmu[s].held = {} /\ vrmu[s].pending = {}
        /\ vrmu[s].pending # {} => vrmu[s].held # {}
        /\ vrmu[s].queue # {} => vrmu[s].writer \cup vrmu[s].pending # {}

\* A transaction that was overtaken had stopped reading.
StaleInv == \A t \in vstale : vst[t] \notin {"idle", "open"}

IVirtual == VirtualTypeOK /\ TxnInv /\ WmuInv /\ ReaderInv /\ WriterInv /\ RWInv /\ StaleInv

-----------------------------------------------------------------------------
(* The locks.                                                              *)

LEMMA LockTypes ==
  ASSUME NEW P, NEW m \in RWLocks(P), NEW p \in P
  PROVE  /\ RLock(m, p) \in RWLocks(P) /\ RUnlock(m, p) \in RWLocks(P)
         /\ Lock(m, p) \in RWLocks(P) /\ Unlock(m) \in RWLocks(P)
  BY DEF RWLocks, RLock, RUnlock, Lock, Unlock

LEMMA NoStoreIsNone == NoStore \notin Stores
  BY VirtualAssumption DEF Stores

LEMMA VirtualInitially == VirtualInit => IVirtual
<1> SUFFICES ASSUME VirtualInit PROVE IVirtual
  OBVIOUS
<1>1. RWUnlocked \in RWLocks(VTxns)
  BY DEF RWUnlocked, RWLocks
<1>2. << >> \in Seq(Stores) /\ Len(<< >>) = 0 /\ DOMAIN << >> = {}
  OBVIOUS
<1>3. VirtualTypeOK
  BY <1>1, <1>2 DEF VirtualInit, VirtualTypeOK
<1>4. \A t \in VTxns, s \in Stores : ~Owns(t, s)
  BY <1>2 DEF VirtualInit, Owns
<1>5. TxnInv
  BY <1>2 DEF VirtualInit, TxnInv, TxnAt
<1>6. \A s \in Stores : vrmu[s] = RWUnlocked /\ vwmu[s] = {}
  BY DEF VirtualInit
<1>7. WmuInv /\ ReaderInv /\ WriterInv /\ RWInv /\ StaleInv
  BY <1>4, <1>6, VirtualAssumption
  DEF VirtualInit, WmuInv, WmuAt, ReaderInv, ReaderAt, WriterInv, WriterAt, RWInv, StaleInv, RWUnlocked, Stores
<1> QED BY <1>3, <1>5, <1>7 DEF IVirtual

\* A transaction begins: it has no lock and nothing open.
LEMMA NewTransactionKeeps ==
  ASSUME IVirtual, NEW t \in VTxns, NEW write \in BOOLEAN, NewTransaction(t, write)
  PROVE  IVirtual'
<1> USE DEF IVirtual, NewTransaction
<1>1. VirtualTypeOK'
  BY DEF VirtualTypeOK
<1>2. /\ vst[t] = "idle" /\ vst'[t] = "open" /\ vwrite'[t] = write /\ nested[t] = << >>
      /\ want[t] = NoStore
      /\ \A u \in VTxns : u # t => vst'[u] = vst[u] /\ vwrite'[u] = vwrite[u]
  BY DEF VirtualTypeOK, TxnInv, TxnAt
<1>3. \A u \in VTxns, s \in Stores : Owns(u, s)' <=> Owns(u, s)
  BY <1>2 DEF Owns
<1>4. TxnInv'
  BY <1>2 DEF TxnInv, TxnAt, InTrigger
<1>5. \A s \in Stores :
        /\ t \notin vwmu[s] /\ t \notin vrmu[s].held \cup vrmu[s].queue
        /\ t \notin vrmu[s].pending \cup vrmu[s].writer
        /\ ~Owns(t, s)
  <2> TAKE s \in Stores
  <2>1. ~Owns(t, s)
    BY <1>2 DEF Owns
  <2>2. <<t, s>> \notin leaked /\ want[t] # s
    BY <1>2, NoStoreIsNone DEF TxnInv, TxnAt
  <2> QED BY <1>2, <2>1, <2>2 DEF WmuInv, WmuAt, ReaderInv, ReaderAt, WriterInv, WriterAt
<1>6. WmuInv'
  <2> SUFFICES ASSUME NEW u \in VTxns, NEW r \in Stores PROVE WmuAt(u, r)'
    BY DEF WmuInv
  <2>1. WmuAt(u, r) BY DEF WmuInv
  <2> QED BY <1>2, <1>3, <1>5, <2>1 DEF WmuAt
<1>7. ReaderInv'
  <2> SUFFICES ASSUME NEW u \in VTxns, NEW r \in Stores PROVE ReaderAt(u, r)'
    BY DEF ReaderInv
  <2>1. ReaderAt(u, r) BY DEF ReaderInv
  <2> QED BY <1>2, <1>3, <1>5, <2>1, NoStoreIsNone DEF ReaderAt
<1>8. WriterInv'
  BY <1>2, <1>5 DEF WriterInv, WriterAt, VirtualTypeOK, RWLocks
<1>9. RWInv' /\ StaleInv'
  BY <1>2 DEF RWInv, StaleInv, VirtualTypeOK
<1> QED BY <1>1, <1>4, <1>6, <1>7, <1>8, <1>9

\* A reader of rmu is in no commit, so only a write transaction runs triggers.
LEMMA TriggersWrite ==
  ASSUME IVirtual, NEW t \in VTxns, InTrigger(t)
  PROVE  vwrite[t]
  BY DEF IVirtual, InTrigger, WriterInv, WriterAt, Stores

\* dispatch asks for the lock of a store that is not open yet.
LEMMA DispatchKeeps ==
  ASSUME IVirtual, NEW t \in VTxns, NEW s \in Stores, Dispatch(t, s)
  PROVE  IVirtual'
<1> USE DEF IVirtual
<1>1. /\ want[t] = NoStore /\ want' = [want EXCEPT ![t] = s]
      /\ vst[t] = "open" \/ InTrigger(t)
      /\ \A i \in DOMAIN nested[t] : nested[t][i] # s
      /\ vrmu' = IF vwrite[t] THEN vrmu ELSE [vrmu EXCEPT ![s] = RLock(@, t)]
      /\ vst[t] \in {"open", "committing"}
  BY DEF Dispatch, Callable, Range, InTrigger
<1>2. UNCHANGED <<vst, vwrite, nested, vlast, vpos, vwmu, vstale, leaked>>
  BY DEF Dispatch
<1>3. \A u \in VTxns, r \in Stores : Owns(u, r)' <=> Owns(u, r)
  BY <1>2 DEF Owns
<1>4. /\ \A r \in Stores : /\ vrmu'[r].pending = vrmu[r].pending /\ vrmu'[r].writer = vrmu[r].writer
                           /\ r # s \/ vwrite[t] => vrmu'[r] = vrmu[r]
      /\ ~vwrite[t] => IF vrmu[s].pending = {} /\ vrmu[s].writer = {}
                       THEN vrmu'[s].held = vrmu[s].held \cup {t} /\ vrmu'[s].queue = vrmu[s].queue
                       ELSE vrmu'[s].queue = vrmu[s].queue \cup {t} /\ vrmu'[s].held = vrmu[s].held
  BY <1>1 DEF VirtualTypeOK, RWLocks, RLock
<1>5. VirtualTypeOK'
  BY <1>1, <1>2, LockTypes DEF VirtualTypeOK
<1>6. want'[t] = s /\ \A u \in VTxns : u # t => want'[u] = want[u]
  BY <1>1 DEF VirtualTypeOK
<1>7. \A u \in VTxns : InTrigger(u)' <=> InTrigger(u)
  BY <1>2, <1>4 DEF InTrigger, Stores
<1>8. TxnInv'
  <2> SUFFICES ASSUME NEW u \in VTxns PROVE TxnAt(u)'
    BY DEF TxnInv
  <2>1. TxnAt(u) BY DEF TxnInv
  <2>2. CASE u = t
    BY <1>1, <1>2, <1>6, <1>7, <2>1, <2>2 DEF TxnAt
  <2>3. CASE u # t
    BY <1>2, <1>6, <1>7, <2>1, <2>3 DEF TxnAt
  <2> QED BY <2>2, <2>3
<1>9. WmuInv'
  BY <1>2, <1>3 DEF WmuInv, WmuAt, VirtualTypeOK
<1>10. ReaderInv'
  <2> SUFFICES ASSUME NEW u \in VTxns, NEW r \in Stores PROVE ReaderAt(u, r)'
    BY DEF ReaderInv
  <2>1. ReaderAt(u, r) /\ ReaderAt(t, s) BY DEF ReaderInv
  <2>2. CASE vwrite[t]
    BY <1>1, <1>2, <1>3, <1>4, <1>6, <2>1, <2>2, NoStoreIsNone DEF ReaderAt
  <2>3. CASE ~vwrite[t]
    <3>1. vst[t] = "open" /\ ~Owns(t, s)
      BY <1>1, <2>3, TriggersWrite DEF Owns
    <3>2. t \notin vrmu[r].queue
      BY <1>1, NoStoreIsNone DEF ReaderInv, ReaderAt
    <3>3. t \in vrmu[s].held => <<t, s>> \in leaked
      BY <1>1, <2>1, <3>1, NoStoreIsNone DEF ReaderAt
    <3>4. CASE u = t /\ r = s
      BY <1>2, <1>3, <1>4, <1>6, <2>1, <2>3, <3>1, <3>2, <3>3, <3>4 DEF ReaderAt
    <3>5. CASE u = t /\ r # s
      BY <1>1, <1>2, <1>3, <1>4, <1>6, <2>1, <2>3, <3>5, NoStoreIsNone DEF ReaderAt
    <3>6. CASE u # t
      BY <1>2, <1>3, <1>4, <1>6, <2>1, <2>3, <3>6 DEF ReaderAt
    <3> QED BY <3>4, <3>5, <3>6
  <2> QED BY <2>2, <2>3
<1>11. WriterInv'
  BY <1>2, <1>4 DEF WriterInv, WriterAt
<1>12. RWInv'
  <2>1. CASE vwrite[t] BY <1>4, <2>1 DEF RWInv
  <2>2. CASE ~vwrite[t] BY <1>4, <2>2 DEF RWInv
  <2> QED BY <2>1, <2>2
<1>13. StaleInv'
  BY <1>2 DEF StaleInv
<1> QED BY <1>5, <1>8, <1>9, <1>10, <1>11, <1>12, <1>13

\* The nested transaction begins with its lock granted.
LEMMA BeginKeeps ==
  ASSUME IVirtual, NEW t \in VTxns, Begin(t)
  PROVE  IVirtual'
<1> USE DEF IVirtual
<1>0. PICK s \in Stores : s = want[t]
  BY DEF Begin, VirtualTypeOK
<1>1. /\ want[t] = s /\ Granted(t)
      /\ vwmu' = IF vwrite[t] THEN [vwmu EXCEPT ![s] = {t}] ELSE vwmu
      /\ nested' = [nested EXCEPT ![t] = Append(@, s)]
      /\ want' = [want EXCEPT ![t] = NoStore]
      /\ leaked' = IF vst[t] = "committing" THEN leaked \cup {<<t, s>>} ELSE leaked
      /\ UNCHANGED <<vst, vwrite, vlast, vpos, vrmu, vstale>>
  BY <1>0 DEF Begin
<1>2. /\ nested[t] \in Seq(Stores) /\ nested'[t] = Append(nested[t], s)
      /\ DOMAIN nested'[t] = DOMAIN nested[t] \cup {Len(nested[t]) + 1}
      /\ Len(nested'[t]) = Len(nested[t]) + 1 /\ DOMAIN nested[t] = 1 .. Len(nested[t])
      /\ Len(nested[t]) \in Nat
      /\ nested'[t][Len(nested[t]) + 1] = s
      /\ \A i \in DOMAIN nested[t] : nested'[t][i] = nested[t][i]
      /\ \A u \in VTxns : u # t => nested'[u] = nested[u]
  BY <1>1 DEF VirtualTypeOK
<1>3. VirtualTypeOK'
  <2>1. nested' \in [VTxns -> Seq(Stores)]
    BY <1>1, <1>2 DEF VirtualTypeOK
  <2>2. vwmu' \in [Stores -> SUBSET VTxns] /\ leaked' \subseteq VTxns \X Stores
    BY <1>1 DEF VirtualTypeOK
  <2>3. want' \in [VTxns -> Stores \cup {NoStore}]
    BY <1>1 DEF VirtualTypeOK
  <2> QED BY <1>1, <2>1, <2>2, <2>3 DEF VirtualTypeOK
<1>4. want'[t] = NoStore /\ \A u \in VTxns : u # t => want'[u] = want[u]
  BY <1>1 DEF VirtualTypeOK
<1>5. vst[t] \in {"open", "committing"}
  BY <1>1, NoStoreIsNone DEF TxnInv, TxnAt, VirtualTypeOK
<1>6. vst[t] = "committing" =>
        /\ vpos[t] \in DOMAIN nested[t] /\ vpos[t] <= vlast[t] /\ vlast[t] <= Len(nested[t])
        /\ vpos[t] \in Nat /\ vlast[t] \in Nat /\ InTrigger(t)
  BY <1>1, <1>2, NoStoreIsNone DEF TxnInv, TxnAt, VirtualTypeOK
<1>7. /\ Owns(t, s)' /\ ~Owns(t, s)
      /\ \A r \in Stores : r # s => (Owns(t, r)' <=> Owns(t, r))
      /\ \A u \in VTxns : u # t => \A r \in Stores : Owns(u, r)' <=> Owns(u, r)
  <2>1. Owns(t, s)'
    <3>1. Len(nested[t]) + 1 \in DOMAIN nested'[t] /\ nested'[t][Len(nested[t]) + 1] = s
      BY <1>2
    <3>2. vst'[t] = "committing" => vpos'[t] <= Len(nested[t]) + 1
      BY <1>1, <1>2, <1>6
    <3>3. \E i \in DOMAIN nested'[t] : nested'[t][i] = s /\ (vst'[t] = "committing" => vpos'[t] <= i)
      BY <3>1, <3>2
    <3> QED BY <3>3 DEF Owns
  <2>2. ~Owns(t, s)
    BY <1>1 DEF Owns, TxnInv, TxnAt
  <2>3. \A r \in Stores : r # s => (Owns(t, r)' <=> Owns(t, r))
    BY <1>1, <1>2 DEF Owns
  <2>4. \A u \in VTxns : u # t => \A r \in Stores : Owns(u, r)' <=> Owns(u, r)
    BY <1>1, <1>2 DEF Owns
  <2> QED BY <2>1, <2>2, <2>3, <2>4
<1>8. \A u \in VTxns : u # t => (InTrigger(u)' <=> InTrigger(u))
  BY <1>1, <1>2 DEF InTrigger
<1>9. TxnInv'
  <2> SUFFICES ASSUME NEW u \in VTxns
               PROVE  TxnAt(u)'
    BY DEF TxnInv, TxnAt
  <2>1. CASE u = t
    <3>1. \A i, j \in DOMAIN nested'[t] : nested'[t][i] = nested'[t][j] => i = j
      BY <1>1, <1>2 DEF TxnInv, TxnAt
    <3>2. \A i \in DOMAIN nested'[t] : nested'[t][i] # want'[t]
      BY <1>1, <1>2, <1>4, NoStoreIsNone
    <3>3. vst'[t] = "committing" => \A i \in DOMAIN nested'[t] : vlast'[t] < i => <<t, nested'[t][i]>> \in leaked'
      BY <1>1, <1>2 DEF TxnInv, TxnAt
    <3>4. vst'[t] = "committing" =>
            1 <= vpos'[t] /\ vpos'[t] <= vlast'[t] /\ vlast'[t] <= Len(nested'[t])
      BY <1>1, <1>2, <1>6
    <3> QED BY <1>1, <1>4, <1>5, <2>1, <3>1, <3>2, <3>3, <3>4 DEF TxnAt
  <2>2. CASE u # t
    <3>1. TxnAt(u) BY DEF TxnInv
    <3>2. \A r \in Stores : <<u, r>> \in leaked' <=> <<u, r>> \in leaked
      BY <1>1, <2>2
    <3>3. nested[u] \in Seq(Stores)
      BY DEF VirtualTypeOK
    <3> QED BY <1>1, <1>2, <1>4, <1>8, <2>2, <3>1, <3>2, <3>3 DEF TxnAt
  <2> QED BY <2>1, <2>2
<1>10. leaked \subseteq leaked'
  BY <1>1
<1>11. WmuInv'
  <2> SUFFICES ASSUME NEW u \in VTxns, NEW r \in Stores PROVE WmuAt(u, r)'
    BY DEF WmuInv
  <2>1. WmuAt(u, r) BY DEF WmuInv
  <2>2. CASE vwrite[t]
    <3>1. vwmu[s] = {} /\ vwmu'[s] = {t} /\ (r # s => vwmu'[r] = vwmu[r])
      BY <1>1, <2>2 DEF Granted, VirtualTypeOK
    <3>2. CASE r = s
      BY <1>1, <1>7, <1>10, <2>1, <2>2, <3>1, <3>2 DEF WmuAt
    <3>3. CASE r # s
      BY <1>1, <1>7, <1>10, <2>1, <2>2, <3>1, <3>3 DEF WmuAt
    <3> QED BY <3>2, <3>3
  <2>3. CASE ~vwrite[t]
    BY <1>1, <1>7, <1>10, <2>1, <2>3 DEF WmuAt
  <2> QED BY <2>2, <2>3
<1>12. ReaderInv'
  <2> SUFFICES ASSUME NEW u \in VTxns, NEW r \in Stores PROVE ReaderAt(u, r)'
    BY DEF ReaderInv
  <2>1. ReaderAt(u, r) BY DEF ReaderInv
  <2>2. vwrite[t] \/ t \in vrmu[s].held \ vrmu[s].queue
    BY <1>1 DEF Granted
  <2>3. t \notin vrmu[r].queue
    BY <1>1, <2>2 DEF ReaderInv, ReaderAt
  <2>4. CASE u = t
    BY <1>1, <1>4, <1>7, <1>10, <2>1, <2>2, <2>3, <2>4, NoStoreIsNone DEF ReaderAt
  <2>5. CASE u # t
    BY <1>1, <1>4, <1>7, <1>10, <2>1, <2>5 DEF ReaderAt
  <2> QED BY <2>4, <2>5
<1>13. WriterInv'
  BY <1>1, <1>2, <1>6 DEF WriterInv, WriterAt, VirtualTypeOK, RWLocks
<1>14. RWInv' /\ StaleInv'
  BY <1>1 DEF RWInv, StaleInv
<1> QED BY <1>3, <1>9, <1>11, <1>12, <1>13, <1>14

\* BeginTx fails: the lock stays with the transaction, as a leak.
LEMMA BeginFailsKeeps ==
  ASSUME IVirtual, NEW t \in VTxns, BeginFails(t)
  PROVE  IVirtual'
<1> USE DEF IVirtual
<1>0. PICK s \in Stores : s = want[t]
  BY DEF BeginFails, Stores
<1>1. /\ want[t] = s /\ Granted(t)
      /\ vwmu' = IF vwrite[t] THEN [vwmu EXCEPT ![s] = {t}] ELSE vwmu
      /\ want' = [want EXCEPT ![t] = NoStore]
      /\ leaked' = leaked \cup {<<t, s>>}
      /\ UNCHANGED <<vst, vwrite, nested, vlast, vpos, vrmu, vstale>>
  BY <1>0 DEF BeginFails
<1>2. VirtualTypeOK'
  BY <1>1 DEF VirtualTypeOK
<1>3. want'[t] = NoStore /\ \A u \in VTxns : u # t => want'[u] = want[u]
  BY <1>1 DEF VirtualTypeOK
<1>4. \A u \in VTxns, r \in Stores : Owns(u, r)' <=> Owns(u, r)
  BY <1>1 DEF Owns
<1>5. \A u \in VTxns : InTrigger(u)' <=> InTrigger(u)
  BY <1>1 DEF InTrigger
<1>6. vst[t] \in {"open", "committing"}
  BY <1>1, NoStoreIsNone DEF TxnInv, TxnAt, VirtualTypeOK
<1>7. ~Owns(t, s)
  BY <1>1 DEF Owns, TxnInv, TxnAt
<1>8. TxnInv'
  <2> SUFFICES ASSUME NEW u \in VTxns PROVE TxnAt(u)'
    BY DEF TxnInv
  <2>1. TxnAt(u) /\ nested[u] \in Seq(Stores) BY DEF TxnInv, VirtualTypeOK
  <2>2. CASE u = t
    BY <1>1, <1>3, <1>6, <2>1, <2>2, NoStoreIsNone DEF TxnAt
  <2>3. CASE u # t
    <3>1. \A r \in Stores : <<u, r>> \in leaked' <=> <<u, r>> \in leaked
      BY <1>1, <2>3
    <3> QED BY <1>1, <1>3, <1>5, <2>1, <2>3, <3>1 DEF TxnAt
  <2> QED BY <2>2, <2>3
<1>9. WmuInv'
  <2> SUFFICES ASSUME NEW u \in VTxns, NEW r \in Stores PROVE WmuAt(u, r)'
    BY DEF WmuInv
  <2>1. WmuAt(u, r) BY DEF WmuInv
  <2>2. CASE vwrite[t]
    <3>1. vwmu[s] = {} /\ vwmu'[s] = {t} /\ (r # s => vwmu'[r] = vwmu[r])
      BY <1>1, <2>2 DEF Granted, VirtualTypeOK
    <3>2. CASE r = s
      BY <1>1, <1>4, <1>7, <2>1, <2>2, <3>1, <3>2 DEF WmuAt
    <3>3. CASE r # s
      BY <1>1, <1>4, <2>1, <2>2, <3>1, <3>3 DEF WmuAt
    <3> QED BY <3>2, <3>3
  <2>3. CASE ~vwrite[t]
    BY <1>1, <1>4, <2>1, <2>3 DEF WmuAt
  <2> QED BY <2>2, <2>3
<1>10. ReaderInv'
  <2> SUFFICES ASSUME NEW u \in VTxns, NEW r \in Stores PROVE ReaderAt(u, r)'
    BY DEF ReaderInv
  <2>1. ReaderAt(u, r) BY DEF ReaderInv
  <2>2. vwrite[t] \/ t \in vrmu[s].held \ vrmu[s].queue
    BY <1>1 DEF Granted
  <2>3. t \notin vrmu[r].queue
    BY <1>1, <2>2 DEF ReaderInv, ReaderAt
  <2>4. CASE u = t
    BY <1>1, <1>3, <1>4, <2>1, <2>2, <2>3, <2>4, NoStoreIsNone DEF ReaderAt
  <2>5. CASE u # t
    BY <1>1, <1>3, <1>4, <2>1, <2>5 DEF ReaderAt
  <2> QED BY <2>4, <2>5
<1>11. WriterInv' /\ RWInv' /\ StaleInv'
  BY <1>1 DEF WriterInv, WriterAt, RWInv, StaleInv
<1> QED BY <1>2, <1>8, <1>9, <1>10, <1>11

\* Commit starts with the first nested transaction, or is over.
LEMMA CommitKeeps ==
  ASSUME IVirtual, NEW t \in VTxns, Commit(t)
  PROVE  IVirtual'
<1> USE DEF IVirtual
<1>1. /\ vst[t] = "open" /\ want[t] = NoStore
      /\ vst' = [vst EXCEPT ![t] = IF nested[t] = << >> THEN "done" ELSE "committing"]
      /\ vlast' = [vlast EXCEPT ![t] = Len(nested[t])]
      /\ vpos' = [vpos EXCEPT ![t] = 1]
      /\ UNCHANGED <<vwrite, nested, want, vrmu, vwmu, vstale, leaked>>
  BY DEF Commit
<1>2. /\ nested[t] \in Seq(Stores) /\ Len(nested[t]) \in Nat /\ DOMAIN nested[t] = 1 .. Len(nested[t])
      /\ nested[t] # << >> => 1 <= Len(nested[t])
  BY DEF VirtualTypeOK
<1>3. /\ vst'[t] = (IF nested[t] = << >> THEN "done" ELSE "committing")
      /\ vlast'[t] = Len(nested[t]) /\ vpos'[t] = 1
      /\ \A u \in VTxns : u # t => vst'[u] = vst[u] /\ vlast'[u] = vlast[u] /\ vpos'[u] = vpos[u]
  BY <1>1 DEF VirtualTypeOK
<1>4. VirtualTypeOK'
  BY <1>1, <1>2 DEF VirtualTypeOK
<1>5. \A u \in VTxns, r \in Stores : Owns(u, r)' <=> Owns(u, r)
  BY <1>1, <1>2, <1>3 DEF Owns
<1>6. \A u \in VTxns : u # t => (InTrigger(u)' <=> InTrigger(u))
  BY <1>1, <1>3 DEF InTrigger
<1>7. TxnInv'
  <2> SUFFICES ASSUME NEW u \in VTxns PROVE TxnAt(u)'
    BY DEF TxnInv
  <2>1. TxnAt(u) BY DEF TxnInv
  <2>2. CASE u = t
    BY <1>1, <1>2, <1>3, <2>1, <2>2 DEF TxnAt
  <2>3. CASE u # t
    BY <1>1, <1>3, <1>6, <2>1, <2>3 DEF TxnAt
  <2> QED BY <2>2, <2>3
<1>8. WmuInv' /\ ReaderInv'
  BY <1>1, <1>5 DEF WmuInv, WmuAt, ReaderInv, ReaderAt
<1>9. WriterInv'
  BY <1>1, <1>3 DEF WriterInv, WriterAt
<1>10. RWInv' /\ StaleInv'
  BY <1>1, <1>3 DEF RWInv, StaleInv, VirtualTypeOK
<1> QED BY <1>4, <1>7, <1>8, <1>9, <1>10

\* Commit's loop is at a store that the transaction has open.
LEMMA AtNestedOwns ==
  ASSUME IVirtual, NEW t \in VTxns, AtNested(t)
  PROVE  /\ Current(t) \in Stores /\ Owns(t, Current(t)) /\ vst[t] = "committing"
         /\ want[t] = NoStore
         /\ nested[t] \in Seq(Stores) /\ Len(nested[t]) \in Nat /\ DOMAIN nested[t] = 1 .. Len(nested[t])
         /\ vpos[t] \in DOMAIN nested[t] /\ vpos[t] \in Nat /\ vlast[t] \in Nat
         /\ vpos[t] <= vlast[t] /\ vlast[t] <= Len(nested[t])
<1>1. vst[t] = "committing" /\ vpos[t] <= vlast[t] /\ vlast[t] <= Len(nested[t]) /\ 1 <= vpos[t]
  BY DEF IVirtual, AtNested, TxnInv, TxnAt
<1>2. nested[t] \in Seq(Stores) /\ vpos[t] \in Nat /\ vlast[t] \in Nat
  BY DEF IVirtual, VirtualTypeOK
<1>3. Len(nested[t]) \in Nat /\ DOMAIN nested[t] = 1 .. Len(nested[t]) /\ vpos[t] \in DOMAIN nested[t]
  BY <1>1, <1>2
<1> QED BY <1>1, <1>2, <1>3 DEF AtNested, Current, Owns

\* Committing a write transaction takes rmu or waits for the readers.
LEMMA CommitLockKeeps ==
  ASSUME IVirtual, NEW t \in VTxns, CommitLock(t)
  PROVE  IVirtual'
<1> USE DEF IVirtual
<1>0. PICK s \in Stores : s = Current(t)
  BY AtNestedOwns DEF CommitLock
<1>1. /\ AtNested(t) /\ vwrite[t] /\ Owns(t, s) /\ nested[t][vpos[t]] = s /\ vst[t] = "committing"
      /\ t \notin vrmu[s].pending \cup vrmu[s].writer
      /\ vrmu' = [vrmu EXCEPT ![s] = Lock(@, t)]
      /\ UNCHANGED <<vst, vwrite, nested, vlast, vpos, want, vwmu, vstale, leaked>>
  BY <1>0, AtNestedOwns DEF CommitLock, Current
<1>2. \A u \in VTxns : u # t => u \notin vrmu[s].pending \cup vrmu[s].writer
  <2> SUFFICES ASSUME NEW u \in VTxns, u # t, u \in vrmu[s].pending \cup vrmu[s].writer PROVE FALSE
    OBVIOUS
  <2>1. vwrite[u] /\ vst[u] = "committing" /\ nested[u][vpos[u]] = s
    BY DEF WriterInv, WriterAt
  <2>2. vpos[u] \in DOMAIN nested[u] /\ vpos[u] <= vpos[u]
    BY <2>1 DEF TxnInv, TxnAt, VirtualTypeOK
  <2>3. Owns(u, s)
    BY <2>1, <2>2 DEF Owns
  <2>4. vwmu[s] = {u} /\ vwmu[s] = {t}
    BY <1>1, <2>1, <2>3 DEF WmuInv, WmuAt
  <2> QED BY <2>4
<1>3. vrmu[s].pending = {} /\ vrmu[s].writer = {}
  BY <1>1, <1>2 DEF VirtualTypeOK, RWLocks
<1>4. /\ \A r \in Stores : r # s => vrmu'[r] = vrmu[r]
      /\ vrmu'[s].held = vrmu[s].held /\ vrmu'[s].queue = vrmu[s].queue
      /\ IF vrmu[s].held = {} THEN vrmu'[s].writer = {t} /\ vrmu'[s].pending = {}
                              ELSE vrmu'[s].pending = {t} /\ vrmu'[s].writer = {}
  BY <1>1, <1>3 DEF VirtualTypeOK, RWLocks, Lock
<1>5. VirtualTypeOK'
  BY <1>1, LockTypes DEF VirtualTypeOK
<1>6. \A u \in VTxns, r \in Stores : Owns(u, r)' <=> Owns(u, r)
  BY <1>1 DEF Owns
<1>7. \A u \in VTxns : InTrigger(u) => InTrigger(u)'
  BY <1>1, <1>3, <1>4 DEF InTrigger, Stores
<1>8. TxnInv'
  BY <1>1, <1>7 DEF TxnInv, TxnAt
<1>9. WmuInv'
  BY <1>1, <1>6 DEF WmuInv, WmuAt
<1>10. ReaderInv'
  <2> SUFFICES ASSUME NEW u \in VTxns, NEW r \in Stores PROVE ReaderAt(u, r)'
    BY DEF ReaderInv
  <2>1. ReaderAt(u, r) BY DEF ReaderInv
  <2>2. vrmu'[r].held = vrmu[r].held /\ vrmu'[r].queue = vrmu[r].queue
    BY <1>4
  <2> QED BY <1>1, <1>6, <2>1, <2>2 DEF ReaderAt
<1>11. WriterInv'
  <2> SUFFICES ASSUME NEW u \in VTxns, NEW r \in Stores PROVE WriterAt(u, r)'
    BY DEF WriterInv
  <2>1. WriterAt(u, r) BY DEF WriterInv
  <2> QED BY <1>1, <1>4, <2>1 DEF WriterAt
<1>12. RWInv'
  BY <1>3, <1>4 DEF RWInv
<1>13. StaleInv'
  BY <1>1 DEF StaleInv
<1> QED BY <1>5, <1>8, <1>9, <1>10, <1>11, <1>12, <1>13

\* Commit's loop goes on: the store it was at is no longer open, and at its
\* end the only ones that are left were opened by a trigger.
LEMMA NextNestedKeeps ==
  ASSUME IVirtual, NEW t \in VTxns, AtNested(t), NextNested(t), UNCHANGED <<want, leaked>>,
         NEW s \in Stores, s = Current(t),
         \A u \in VTxns : u # t /\ InTrigger(u) => vrmu'[Root].writer = {u}
  PROVE  /\ TxnInv'
         /\ vst' \in [VTxns -> {"idle", "open", "committing", "done", "failed"}]
         /\ nested' \in [VTxns -> Seq(Stores)]
         /\ vlast' \in [VTxns -> Nat] /\ vpos' \in [VTxns -> Nat]
         /\ vst'[t] \in {"committing", "done"}
         /\ \A u \in VTxns : u # t =>
              vst'[u] = vst[u] /\ nested'[u] = nested[u] /\ vpos'[u] = vpos[u] /\ vlast'[u] = vlast[u]
         /\ \A u \in VTxns : u # t => \A r \in Stores : Owns(u, r)' <=> Owns(u, r)
         /\ \A r \in Stores : Owns(t, r)' => Owns(t, r) /\ r # s
         /\ \A r \in Stores : Owns(t, r) /\ r # s => Owns(t, r)' \/ <<t, r>> \in leaked
<1> USE DEF IVirtual
<1>0. /\ Owns(t, s) /\ vst[t] = "committing" /\ want[t] = NoStore /\ nested[t][vpos[t]] = s
      /\ nested[t] \in Seq(Stores) /\ Len(nested[t]) \in Nat /\ DOMAIN nested[t] = 1 .. Len(nested[t])
      /\ vpos[t] \in DOMAIN nested[t] /\ vpos[t] \in Nat /\ vlast[t] \in Nat
      /\ vpos[t] <= vlast[t] /\ vlast[t] <= Len(nested[t])
  BY AtNestedOwns DEF Current
<1>1. TxnAt(t) BY DEF TxnInv
<1>2. << >> \in Seq(Stores) /\ Len(<< >>) = 0 /\ DOMAIN << >> = {}
  OBVIOUS
<1>3. \/ vpos[t] = vlast[t] /\ End(t, "done")
      \/ vpos[t] < vlast[t] /\ vpos' = [vpos EXCEPT ![t] = @ + 1] /\ UNCHANGED <<vst, nested, vlast>>
  BY DEF NextNested
<1>4. /\ vst' \in [VTxns -> {"idle", "open", "committing", "done", "failed"}]
      /\ nested' \in [VTxns -> Seq(Stores)]
      /\ vlast' \in [VTxns -> Nat] /\ vpos' \in [VTxns -> Nat]
  <2>1. CASE vpos[t] = vlast[t] /\ End(t, "done")
    BY <1>2, <2>1 DEF End, VirtualTypeOK
  <2>2. CASE vpos[t] < vlast[t] /\ vpos' = [vpos EXCEPT ![t] = @ + 1] /\ UNCHANGED <<vst, nested, vlast>>
    BY <1>0, <2>2 DEF VirtualTypeOK
  <2> QED BY <1>3, <2>1, <2>2
<1>5. \A u \in VTxns : u # t =>
        vst'[u] = vst[u] /\ nested'[u] = nested[u] /\ vpos'[u] = vpos[u] /\ vlast'[u] = vlast[u]
  BY <1>3 DEF End, VirtualTypeOK
<1>6. \/ /\ vpos[t] = vlast[t] /\ vst'[t] = "done" /\ nested'[t] = << >>
      \/ /\ vpos[t] < vlast[t] /\ vst'[t] = "committing" /\ nested'[t] = nested[t]
         /\ vpos'[t] = vpos[t] + 1 /\ vlast'[t] = vlast[t]
  BY <1>0, <1>3 DEF End, VirtualTypeOK
<1>7. \A u \in VTxns : u # t => \A r \in Stores : Owns(u, r)' <=> Owns(u, r)
  BY <1>5 DEF Owns
<1>8. \A r \in Stores : Owns(t, r)' => Owns(t, r) /\ r # s
  <2>1. CASE nested'[t] = << >>
    BY <1>2, <2>1 DEF Owns
  <2>2. CASE vst'[t] = "committing" /\ nested'[t] = nested[t] /\ vpos'[t] = vpos[t] + 1
    <3> SUFFICES ASSUME NEW r \in Stores, Owns(t, r)' PROVE Owns(t, r) /\ r # s
      OBVIOUS
    <3>1. PICK i \in DOMAIN nested[t] : nested[t][i] = r /\ vpos[t] + 1 <= i
      BY <2>2 DEF Owns
    <3>2. vpos[t] <= i /\ i # vpos[t]
      BY <1>0, <3>1
    <3> QED BY <1>0, <1>1, <3>1, <3>2 DEF Owns, TxnAt
  <2> QED BY <1>6, <2>1, <2>2
<1>9. \A r \in Stores : Owns(t, r) /\ r # s => Owns(t, r)' \/ <<t, r>> \in leaked
  <2> SUFFICES ASSUME NEW r \in Stores, Owns(t, r), r # s PROVE Owns(t, r)' \/ <<t, r>> \in leaked
    OBVIOUS
  <2>1. PICK i \in DOMAIN nested[t] : nested[t][i] = r /\ vpos[t] <= i
    BY <1>0 DEF Owns
  <2>2. vpos[t] < i /\ vpos[t] + 1 <= i
    BY <1>0, <2>1
  <2>3. CASE vpos[t] = vlast[t]
    BY <1>0, <1>1, <2>1, <2>2, <2>3 DEF TxnAt
  <2>4. CASE vst'[t] = "committing" /\ nested'[t] = nested[t] /\ vpos'[t] = vpos[t] + 1
    BY <2>1, <2>2, <2>4 DEF Owns
  <2> QED BY <1>6, <2>3, <2>4
<1>10. TxnInv'
  <2> SUFFICES ASSUME NEW u \in VTxns PROVE TxnAt(u)'
    BY DEF TxnInv
  <2>1. CASE u = t
    <3>1. CASE vst'[t] = "done" /\ nested'[t] = << >>
      BY <1>0, <1>2, <2>1, <3>1 DEF TxnAt
    <3>2. CASE /\ vpos[t] < vlast[t] /\ vst'[t] = "committing" /\ nested'[t] = nested[t]
               /\ vpos'[t] = vpos[t] + 1 /\ vlast'[t] = vlast[t]
      <4>1. 1 <= vpos'[t] /\ vpos'[t] <= vlast'[t] /\ vlast'[t] <= Len(nested'[t])
        BY <1>0, <3>2
      <4>2. want' = want /\ leaked' = leaked
        OBVIOUS
      <4> QED BY <1>0, <1>1, <2>1, <3>2, <4>1, <4>2, ZenonT(60) DEF TxnAt
    <3> QED BY <1>6, <3>1, <3>2
  <2>2. CASE u # t
    <3>1. TxnAt(u) BY DEF TxnInv
    <3>2. InTrigger(u) => InTrigger(u)'
      BY <1>5, <2>2 DEF InTrigger
    <3> QED BY <1>5, <2>2, <3>1, <3>2 DEF TxnAt
  <2> QED BY <2>1, <2>2
<1> QED BY <1>4, <1>5, <1>6, <1>7, <1>8, <1>9, <1>10

\* The locks of the store that a write transaction has committed or failed to
\* commit: wmu is free, and the readers that have queued up hold rmu.
LEMMA UnlockEffect ==
  ASSUME IVirtual, NEW t \in VTxns, NEW s \in Stores, vrmu[s].writer = {t},
         vrmu' = [vrmu EXCEPT ![s] = Unlock(@)], vwmu' = [vwmu EXCEPT ![s] = {}]
  PROVE  /\ vrmu' \in [Stores -> RWLocks(VTxns)] /\ vwmu' \in [Stores -> SUBSET VTxns]
         /\ \A r \in Stores : r # s => vrmu'[r] = vrmu[r] /\ vwmu'[r] = vwmu[r]
         /\ vwmu'[s] = {}
         /\ vrmu[s].held = {} /\ vrmu[s].pending = {}
         /\ vrmu'[s].held = vrmu[s].queue /\ vrmu'[s].queue = {}
         /\ vrmu'[s].pending = {} /\ vrmu'[s].writer = {}
<1>1. vrmu[s].held = {} /\ vrmu[s].pending = {}
  BY DEF IVirtual, RWInv
<1>2. vrmu' \in [Stores -> RWLocks(VTxns)]
  BY LockTypes DEF IVirtual, VirtualTypeOK
<1>3. vwmu' \in [Stores -> SUBSET VTxns]
  BY DEF IVirtual, VirtualTypeOK
<1> QED BY <1>1, <1>2, <1>3 DEF IVirtual, VirtualTypeOK, RWLocks, Unlock

\* A committed write transaction has overtaken the readers of the root, which
\* by then read no more.
LEMMA CommitWriteKeeps ==
  ASSUME IVirtual, NEW t \in VTxns, CommitWrite(t)
  PROVE  IVirtual'
<1> USE DEF IVirtual
<1>0. PICK s \in Stores : s = Current(t)
  BY AtNestedOwns DEF CommitWrite
<1>1. /\ AtNested(t) /\ NextNested(t) /\ vwrite[t] /\ vrmu[s].writer = {t}
      /\ vrmu' = [vrmu EXCEPT ![s] = Unlock(@)] /\ vwmu' = [vwmu EXCEPT ![s] = {}]
      /\ vwrite' = vwrite /\ want' = want /\ leaked' = leaked
      /\ vstale' = IF s = Root
                   THEN vstale \cup {u \in VTxns : ~vwrite[u] /\ Root \in Range(nested[u])}
                   ELSE vstale
  BY <1>0 DEF CommitWrite
<1>2. /\ vrmu' \in [Stores -> RWLocks(VTxns)] /\ vwmu' \in [Stores -> SUBSET VTxns]
      /\ \A r \in Stores : r # s => vrmu'[r] = vrmu[r] /\ vwmu'[r] = vwmu[r]
      /\ vwmu'[s] = {}
      /\ vrmu[s].held = {} /\ vrmu[s].pending = {}
      /\ vrmu'[s].held = vrmu[s].queue /\ vrmu'[s].queue = {}
      /\ vrmu'[s].pending = {} /\ vrmu'[s].writer = {}
  BY <1>1, UnlockEffect
<1>3. \A u \in VTxns : u # t /\ InTrigger(u) => vrmu'[Root].writer = {u}
  BY <1>1, <1>2 DEF InTrigger, Stores
<1>4. /\ TxnInv'
      /\ vst' \in [VTxns -> {"idle", "open", "committing", "done", "failed"}]
      /\ nested' \in [VTxns -> Seq(Stores)]
      /\ vlast' \in [VTxns -> Nat] /\ vpos' \in [VTxns -> Nat]
      /\ vst'[t] \in {"committing", "done"}
      /\ \A u \in VTxns : u # t =>
           vst'[u] = vst[u] /\ nested'[u] = nested[u] /\ vpos'[u] = vpos[u] /\ vlast'[u] = vlast[u]
      /\ \A u \in VTxns : u # t => \A r \in Stores : Owns(u, r)' <=> Owns(u, r)
      /\ \A r \in Stores : Owns(t, r)' => Owns(t, r) /\ r # s
      /\ \A r \in Stores : Owns(t, r) /\ r # s => Owns(t, r)' \/ <<t, r>> \in leaked
  BY <1>0, <1>1, <1>3, NextNestedKeeps
<1>5. VirtualTypeOK'
  BY <1>1, <1>2, <1>4 DEF VirtualTypeOK
<1>6. Owns(t, s) /\ vwmu[s] = {t} /\ want[t] = NoStore
  BY <1>0, <1>1, AtNestedOwns DEF WmuInv, WmuAt
<1>7. WmuInv'
  <2> SUFFICES ASSUME NEW u \in VTxns, NEW r \in Stores PROVE WmuAt(u, r)'
    BY DEF WmuInv
  <2>1. WmuAt(u, r) /\ WmuAt(u, s) BY DEF WmuInv
  <2>2. CASE u = t
    BY <1>1, <1>2, <1>4, <2>1, <2>2 DEF WmuAt
  <2>3. CASE u # t /\ r # s
    BY <1>1, <1>2, <1>4, <2>1, <2>3 DEF WmuAt
  <2>4. CASE u # t /\ r = s
    BY <1>1, <1>2, <1>4, <1>6, <2>1, <2>4 DEF WmuAt
  <2> QED BY <2>2, <2>3, <2>4
<1>8. ReaderInv'
  <2> SUFFICES ASSUME NEW u \in VTxns, NEW r \in Stores PROVE ReaderAt(u, r)'
    BY DEF ReaderInv
  <2>1. ReaderAt(u, r) /\ ReaderAt(u, s) BY DEF ReaderInv
  <2>2. CASE u = t
    BY <1>1, <1>2, <1>6, <2>1, <2>2 DEF ReaderAt
  <2>3. CASE u # t /\ r # s
    BY <1>1, <1>2, <1>4, <2>1, <2>3 DEF ReaderAt
  <2>4. CASE u # t /\ r = s
    BY <1>1, <1>2, <1>4, <2>1, <2>4 DEF ReaderAt
  <2> QED BY <2>2, <2>3, <2>4
<1>9. WriterInv'
  <2> SUFFICES ASSUME NEW u \in VTxns, NEW r \in Stores PROVE WriterAt(u, r)'
    BY DEF WriterInv
  <2>1. WriterAt(u, r) BY DEF WriterInv
  <2>2. CASE u = t
    BY <1>0, <1>1, <1>2, <2>1, <2>2 DEF WriterAt, Current
  <2>3. CASE u # t
    BY <1>1, <1>2, <1>4, <2>1, <2>3 DEF WriterAt
  <2> QED BY <2>2, <2>3
<1>10. RWInv'
  BY <1>2 DEF RWInv
<1>11. StaleInv'
  <2> SUFFICES ASSUME NEW u \in vstale' PROVE vst'[u] \notin {"idle", "open"}
    BY DEF StaleInv
  <2>1. u \in VTxns BY <1>5 DEF VirtualTypeOK
  <2>2. CASE u = t BY <1>4, <2>2
  <2>3. CASE u # t /\ u \in vstale BY <1>4, <2>1, <2>3 DEF StaleInv
  <2>4. CASE u # t /\ u \notin vstale
    <3>1. s = Root /\ ~vwrite[u] /\ Root \in Range(nested[u])
      BY <1>1, <2>4
    <3>2. PICK i \in DOMAIN nested[u] : nested[u][i] = Root
      BY <3>1 DEF Range
    <3>3. vst[u] # "idle"
      BY <2>1, <3>2 DEF TxnInv, TxnAt
    <3>4. vst[u] # "open"
      <4> SUFFICES ASSUME vst[u] = "open" PROVE FALSE
        OBVIOUS
      <4>1. Owns(u, s) BY <3>1, <3>2 DEF Owns
      <4>2. u \in vrmu[s].held BY <2>1, <3>1, <4>1 DEF ReaderInv, ReaderAt
      <4> QED BY <1>2, <4>2
    <3> QED BY <1>4, <2>1, <2>4, <3>3, <3>4
  <2> QED BY <2>2, <2>3, <2>4
<1> QED BY <1>4, <1>5, <1>7, <1>8, <1>9, <1>10, <1>11

\* A read lock given back: the last reader to leave lets the writer in.
LEMMA ReadUnlockEffect ==
  ASSUME IVirtual, NEW t \in VTxns, NEW s \in Stores
  PROVE  LET m == ReadUnlock(t, s)
         IN /\ m \in RWLocks(VTxns) /\ m.queue = vrmu[s].queue
            /\ m.held = IF <<t, s>> \in leaked THEN vrmu[s].held ELSE vrmu[s].held \ {t}
            /\ m.pending \cup m.writer = vrmu[s].pending \cup vrmu[s].writer
            /\ vrmu[s].writer # {} => m.writer = vrmu[s].writer
            /\ m.writer # {} => m.held = {} /\ m.pending = {}
            /\ m.pending # {} => m.held # {}
<1>1. vrmu[s] \in RWLocks(VTxns)
  BY DEF IVirtual, VirtualTypeOK
<1>2. /\ vrmu[s].writer # {} => vrmu[s].held = {} /\ vrmu[s].pending = {}
      /\ vrmu[s].pending # {} => vrmu[s].held # {}
  BY DEF IVirtual, RWInv
<1>3. CASE <<t, s>> \in leaked
  BY <1>1, <1>2, <1>3 DEF ReadUnlock
<1>4. CASE <<t, s>> \notin leaked
  <2> DEFINE m == ReadUnlock(t, s)
  <2>1. m \in RWLocks(VTxns) /\ m = RUnlock(vrmu[s], t)
    BY <1>1, <1>4, LockTypes DEF ReadUnlock
  <2>2. CASE vrmu[s].held = {t}
    <3>1. m.held = {} /\ m.writer = vrmu[s].pending /\ m.pending = {} /\ m.queue = vrmu[s].queue
      BY <1>1, <2>1, <2>2 DEF RUnlock, RWLocks
    <3>2. vrmu[s].writer = {}
      BY <1>2, <2>2
    <3> QED BY <1>4, <2>1, <2>2, <3>1, <3>2
  <2>3. CASE vrmu[s].held # {t}
    <3>1. /\ m.held = vrmu[s].held \ {t} /\ m.writer = vrmu[s].writer /\ m.pending = vrmu[s].pending
          /\ m.queue = vrmu[s].queue
      BY <1>1, <2>1, <2>3 DEF RUnlock, RWLocks
    <3>2. vrmu[s].pending # {} => m.held # {}
      BY <1>2, <2>3, <3>1
    <3> QED BY <1>2, <1>4, <2>1, <3>1, <3>2
  <2> QED BY <2>2, <2>3
<1> QED BY <1>3, <1>4

\* A read transaction ends in one store and gives its lock back.
LEMMA CommitReadKeeps ==
  ASSUME IVirtual, NEW t \in VTxns, CommitRead(t)
  PROVE  IVirtual'
<1> USE DEF IVirtual
<1>0. PICK s \in Stores : s = Current(t)
  BY AtNestedOwns DEF CommitRead
<1>1. /\ AtNested(t) /\ NextNested(t) /\ ~vwrite[t]
      /\ vrmu' = [vrmu EXCEPT ![s] = ReadUnlock(t, s)]
      /\ vwrite' = vwrite /\ want' = want /\ leaked' = leaked /\ vwmu' = vwmu /\ vstale' = vstale
  BY <1>0 DEF CommitRead
<1>2. /\ vrmu' \in [Stores -> RWLocks(VTxns)]
      /\ \A r \in Stores : r # s => vrmu'[r] = vrmu[r]
      /\ vrmu'[s].held = IF <<t, s>> \in leaked THEN vrmu[s].held ELSE vrmu[s].held \ {t}
      /\ vrmu'[s].queue = vrmu[s].queue
      /\ vrmu'[s].pending \cup vrmu'[s].writer = vrmu[s].pending \cup vrmu[s].writer
      /\ vrmu[s].writer # {} => vrmu'[s].writer = vrmu[s].writer
      /\ vrmu'[s].writer # {} => vrmu'[s].held = {} /\ vrmu'[s].pending = {}
      /\ vrmu'[s].pending # {} => vrmu'[s].held # {}
  BY <1>1, ReadUnlockEffect DEF VirtualTypeOK
<1>3. \A u \in VTxns : u # t /\ InTrigger(u) => vrmu'[Root].writer = {u}
  BY <1>1, <1>2 DEF InTrigger, Stores
<1>4. /\ TxnInv'
      /\ vst' \in [VTxns -> {"idle", "open", "committing", "done", "failed"}]
      /\ nested' \in [VTxns -> Seq(Stores)]
      /\ vlast' \in [VTxns -> Nat] /\ vpos' \in [VTxns -> Nat]
      /\ vst'[t] \in {"committing", "done"}
      /\ \A u \in VTxns : u # t =>
           vst'[u] = vst[u] /\ nested'[u] = nested[u] /\ vpos'[u] = vpos[u] /\ vlast'[u] = vlast[u]
      /\ \A u \in VTxns : u # t => \A r \in Stores : Owns(u, r)' <=> Owns(u, r)
      /\ \A r \in Stores : Owns(t, r)' => Owns(t, r) /\ r # s
      /\ \A r \in Stores : Owns(t, r) /\ r # s => Owns(t, r)' \/ <<t, r>> \in leaked
  BY <1>0, <1>1, <1>3, NextNestedKeeps
<1>5. VirtualTypeOK'
  BY <1>1, <1>2, <1>4 DEF VirtualTypeOK
<1>6. want[t] = NoStore
  BY <1>1, AtNestedOwns
<1>7. WmuInv'
  <2> SUFFICES ASSUME NEW u \in VTxns, NEW r \in Stores PROVE WmuAt(u, r)'
    BY DEF WmuInv
  <2>1. WmuAt(u, r) BY DEF WmuInv
  <2> QED BY <1>1, <1>4, <2>1 DEF WmuAt
<1>8. ReaderInv'
  <2> SUFFICES ASSUME NEW u \in VTxns, NEW r \in Stores PROVE ReaderAt(u, r)'
    BY DEF ReaderInv
  <2>1. ReaderAt(u, r) BY DEF ReaderInv
  <2>2. CASE u = t /\ r = s
    BY <1>1, <1>2, <1>4, <1>6, <2>1, <2>2, NoStoreIsNone DEF ReaderAt
  <2>3. CASE u = t /\ r # s
    BY <1>1, <1>2, <1>4, <1>6, <2>1, <2>3, NoStoreIsNone DEF ReaderAt
  <2>4. CASE u # t /\ r # s
    BY <1>1, <1>2, <1>4, <2>1, <2>4 DEF ReaderAt
  <2>5. CASE u # t /\ r = s
    BY <1>1, <1>2, <1>4, <2>1, <2>5 DEF ReaderAt
  <2> QED BY <2>2, <2>3, <2>4, <2>5
<1>9. WriterInv'
  <2> SUFFICES ASSUME NEW u \in VTxns, NEW r \in Stores PROVE WriterAt(u, r)'
    BY DEF WriterInv
  <2>1. WriterAt(u, r) BY DEF WriterInv
  <2>2. vrmu'[r].pending \cup vrmu'[r].writer = vrmu[r].pending \cup vrmu[r].writer
    BY <1>2
  <2>3. CASE u = t BY <1>1, <2>1, <2>2, <2>3 DEF WriterAt
  <2>4. CASE u # t BY <1>1, <1>4, <2>1, <2>2, <2>4 DEF WriterAt
  <2> QED BY <2>3, <2>4
<1>10. RWInv'
  <2> SUFFICES ASSUME NEW r \in Stores
               PROVE  /\ vrmu'[r].writer # {} => vrmu'[r].held = {} /\ vrmu'[r].pending = {}
                      /\ vrmu'[r].pending # {} => vrmu'[r].held # {}
                      /\ vrmu'[r].queue # {} => vrmu'[r].writer \cup vrmu'[r].pending # {}
    BY DEF RWInv
  <2>1. CASE r = s BY <1>2, <2>1 DEF RWInv
  <2>2. CASE r # s BY <1>2, <2>2 DEF RWInv
  <2> QED BY <2>1, <2>2
<1>11. StaleInv'
  BY <1>1, <1>4 DEF StaleInv, VirtualTypeOK
<1> QED BY <1>4, <1>5, <1>7, <1>8, <1>9, <1>10, <1>11

\* What the end of a transaction does to the transactions.
LEMMA EndKeeps ==
  ASSUME IVirtual, NEW t \in VTxns, NEW st \in {"done", "failed"}, End(t, st),
         want[t] = NoStore, want' = want, leaked \subseteq leaked',
         \A u \in VTxns, r \in Stores : u # t /\ <<u, r>> \in leaked' => <<u, r>> \in leaked,
         \A u \in VTxns : u # t /\ InTrigger(u) => vrmu'[Root].writer = {u}
  PROVE  /\ TxnInv'
         /\ vst' \in [VTxns -> {"idle", "open", "committing", "done", "failed"}]
         /\ nested' \in [VTxns -> Seq(Stores)]
         /\ vlast' \in [VTxns -> Nat] /\ vpos' \in [VTxns -> Nat]
         /\ vst'[t] = st
         /\ \A u \in VTxns : u # t =>
              vst'[u] = vst[u] /\ nested'[u] = nested[u] /\ vpos'[u] = vpos[u] /\ vlast'[u] = vlast[u]
         /\ \A u \in VTxns : u # t => \A r \in Stores : Owns(u, r)' <=> Owns(u, r)
         /\ \A r \in Stores : ~Owns(t, r)'
<1> USE DEF IVirtual
<1>1. << >> \in Seq(Stores) /\ Len(<< >>) = 0 /\ DOMAIN << >> = {}
  OBVIOUS
<1>2. /\ vst' \in [VTxns -> {"idle", "open", "committing", "done", "failed"}]
      /\ nested' \in [VTxns -> Seq(Stores)]
      /\ vlast' \in [VTxns -> Nat] /\ vpos' \in [VTxns -> Nat]
  BY <1>1 DEF End, VirtualTypeOK
<1>3. /\ vst'[t] = st /\ nested'[t] = << >>
      /\ \A u \in VTxns : u # t =>
           vst'[u] = vst[u] /\ nested'[u] = nested[u] /\ vpos'[u] = vpos[u] /\ vlast'[u] = vlast[u]
  BY DEF End, VirtualTypeOK
<1>4. \A u \in VTxns : u # t => \A r \in Stores : Owns(u, r)' <=> Owns(u, r)
  BY <1>3 DEF Owns
<1>5. \A r \in Stores : ~Owns(t, r)'
  BY <1>1, <1>3 DEF Owns
<1>6. TxnInv'
  <2> SUFFICES ASSUME NEW u \in VTxns PROVE TxnAt(u)'
    BY DEF TxnInv
  <2>1. CASE u = t
    BY <1>1, <1>3, <2>1 DEF TxnAt
  <2>2. CASE u # t
    <3>1. TxnAt(u) BY DEF TxnInv
    <3>2. InTrigger(u) => InTrigger(u)'
      BY <1>3, <2>2 DEF InTrigger
    <3>3. \A r \in Stores : <<u, r>> \in leaked' <=> <<u, r>> \in leaked
      BY <2>2
    <3>4. nested[u] \in Seq(Stores) BY DEF VirtualTypeOK
    <3> QED BY <1>3, <2>2, <3>1, <3>2, <3>3, <3>4 DEF TxnAt
  <2> QED BY <2>1, <2>2
<1> QED BY <1>2, <1>3, <1>4, <1>5, <1>6

\* The database refuses a commit: what comes after it stays open, as leaks.
LEMMA CommitFailsKeeps ==
  ASSUME IVirtual, NEW t \in VTxns, CommitFails(t)
  PROVE  IVirtual'
<1> USE DEF IVirtual
<1>0. PICK s \in Stores : s = Current(t)
  BY AtNestedOwns DEF CommitFails
<1>1. /\ AtNested(t) /\ End(t, "failed") /\ vwrite[t] /\ vrmu[s].writer = {t}
      /\ vrmu' = [vrmu EXCEPT ![s] = Unlock(@)] /\ vwmu' = [vwmu EXCEPT ![s] = {}]
      /\ leaked' = leaked \cup {<<t, nested[t][i]>> : i \in vpos[t] + 1 .. Len(nested[t])}
      /\ vwrite' = vwrite /\ want' = want /\ vstale' = vstale
  BY <1>0 DEF CommitFails
<1>2. /\ vrmu' \in [Stores -> RWLocks(VTxns)] /\ vwmu' \in [Stores -> SUBSET VTxns]
      /\ \A r \in Stores : r # s => vrmu'[r] = vrmu[r] /\ vwmu'[r] = vwmu[r]
      /\ vwmu'[s] = {}
      /\ vrmu[s].held = {} /\ vrmu[s].pending = {}
      /\ vrmu'[s].held = vrmu[s].queue /\ vrmu'[s].queue = {}
      /\ vrmu'[s].pending = {} /\ vrmu'[s].writer = {}
  BY <1>1, UnlockEffect
<1>3. \A u \in VTxns : u # t /\ InTrigger(u) => vrmu'[Root].writer = {u}
  BY <1>1, <1>2 DEF InTrigger, Stores
<1>4. /\ Owns(t, s) /\ vst[t] = "committing" /\ want[t] = NoStore /\ nested[t][vpos[t]] = s
      /\ nested[t] \in Seq(Stores) /\ Len(nested[t]) \in Nat /\ DOMAIN nested[t] = 1 .. Len(nested[t])
      /\ vpos[t] \in Nat
  BY <1>0, <1>1, AtNestedOwns DEF Current
<1>5. /\ leaked' \subseteq VTxns \X Stores /\ leaked \subseteq leaked'
      /\ \A u \in VTxns, r \in Stores : u # t /\ <<u, r>> \in leaked' => <<u, r>> \in leaked
  BY <1>1, <1>4 DEF VirtualTypeOK
<1>6. /\ TxnInv'
      /\ vst' \in [VTxns -> {"idle", "open", "committing", "done", "failed"}]
      /\ nested' \in [VTxns -> Seq(Stores)]
      /\ vlast' \in [VTxns -> Nat] /\ vpos' \in [VTxns -> Nat]
      /\ vst'[t] = "failed"
      /\ \A u \in VTxns : u # t =>
           vst'[u] = vst[u] /\ nested'[u] = nested[u] /\ vpos'[u] = vpos[u] /\ vlast'[u] = vlast[u]
      /\ \A u \in VTxns : u # t => \A r \in Stores : Owns(u, r)' <=> Owns(u, r)
      /\ \A r \in Stores : ~Owns(t, r)'
  BY <1>1, <1>3, <1>4, <1>5, EndKeeps
<1>7. VirtualTypeOK'
  BY <1>1, <1>2, <1>5, <1>6 DEF VirtualTypeOK
<1>8. \A r \in Stores : Owns(t, r) /\ r # s => <<t, r>> \in leaked'
  <2> SUFFICES ASSUME NEW r \in Stores, Owns(t, r), r # s PROVE <<t, r>> \in leaked'
    OBVIOUS
  <2>1. PICK i \in DOMAIN nested[t] : nested[t][i] = r /\ vpos[t] <= i
    BY <1>4 DEF Owns
  <2>2. i \in vpos[t] + 1 .. Len(nested[t])
    BY <1>4, <2>1
  <2> QED BY <1>1, <2>1, <2>2
<1>9. vwmu[s] = {t}
  BY <1>1, <1>4 DEF WmuInv, WmuAt
<1>10. WmuInv'
  <2> SUFFICES ASSUME NEW u \in VTxns, NEW r \in Stores PROVE WmuAt(u, r)'
    BY DEF WmuInv
  <2>1. WmuAt(u, r) /\ WmuAt(u, s) BY DEF WmuInv
  <2>2. CASE u = t
    BY <1>1, <1>2, <1>5, <1>6, <1>8, <2>1, <2>2 DEF WmuAt
  <2>3. CASE u # t /\ r # s
    BY <1>1, <1>2, <1>5, <1>6, <2>1, <2>3 DEF WmuAt
  <2>4. CASE u # t /\ r = s
    BY <1>1, <1>2, <1>6, <1>9, <2>1, <2>4 DEF WmuAt
  <2> QED BY <2>2, <2>3, <2>4
<1>11. ReaderInv'
  <2> SUFFICES ASSUME NEW u \in VTxns, NEW r \in Stores PROVE ReaderAt(u, r)'
    BY DEF ReaderInv
  <2>1. ReaderAt(u, r) /\ ReaderAt(u, s) BY DEF ReaderInv
  <2>2. CASE u = t
    BY <1>1, <1>2, <1>4, <2>1, <2>2 DEF ReaderAt
  <2>3. CASE u # t /\ r # s
    BY <1>1, <1>2, <1>5, <1>6, <2>1, <2>3 DEF ReaderAt
  <2>4. CASE u # t /\ r = s
    BY <1>1, <1>2, <1>6, <2>1, <2>4 DEF ReaderAt
  <2> QED BY <2>2, <2>3, <2>4
<1>12. WriterInv'
  <2> SUFFICES ASSUME NEW u \in VTxns, NEW r \in Stores PROVE WriterAt(u, r)'
    BY DEF WriterInv
  <2>1. WriterAt(u, r) BY DEF WriterInv
  <2>2. CASE u = t
    BY <1>1, <1>2, <1>4, <2>1, <2>2 DEF WriterAt
  <2>3. CASE u # t
    BY <1>1, <1>2, <1>6, <2>1, <2>3 DEF WriterAt
  <2> QED BY <2>2, <2>3
<1>13. RWInv' /\ StaleInv'
  <2>1. RWInv'
    BY <1>1, <1>2, <1>6 DEF RWInv, VirtualTypeOK
  <2>2. StaleInv'
    BY <1>1, <1>2, <1>6 DEF StaleInv, VirtualTypeOK
  <2> QED BY <2>1, <2>2
<1> QED BY <1>6, <1>7, <1>10, <1>11, <1>12, <1>13

\* Abort gives back the locks of every store the transaction has open.
LEMMA AbortKeeps ==
  ASSUME IVirtual, NEW t \in VTxns, Abort(t)
  PROVE  IVirtual'
<1> USE DEF IVirtual
<1>1. /\ vst[t] = "open" /\ want[t] = NoStore /\ End(t, "done")
      /\ vwmu' = [s \in Stores |-> IF vwrite[t] /\ s \in Range(nested[t]) THEN {} ELSE vwmu[s]]
      /\ vrmu' = [s \in Stores |->
                    IF ~vwrite[t] /\ s \in Range(nested[t]) THEN ReadUnlock(t, s) ELSE vrmu[s]]
      /\ vwrite' = vwrite /\ want' = want /\ vstale' = vstale /\ leaked' = leaked
  BY DEF Abort
<1>2. \A s \in Stores : s \in Range(nested[t]) <=> Owns(t, s)
  BY <1>1 DEF Range, Owns
<1>3. vwmu' \in [Stores -> SUBSET VTxns]
  BY <1>1 DEF VirtualTypeOK
<1>4. \A s \in Stores : vwmu'[s] = IF vwrite[t] /\ Owns(t, s) THEN {} ELSE vwmu[s]
  BY <1>1, <1>2
<1>5. \A s \in Stores :
        /\ vrmu'[s] \in RWLocks(VTxns)
        /\ vwrite[t] \/ ~Owns(t, s) => vrmu'[s] = vrmu[s]
        /\ ~vwrite[t] /\ Owns(t, s) =>
             vrmu'[s].held = IF <<t, s>> \in leaked THEN vrmu[s].held ELSE vrmu[s].held \ {t}
        /\ vrmu'[s].queue = vrmu[s].queue
        /\ vrmu'[s].pending \cup vrmu'[s].writer = vrmu[s].pending \cup vrmu[s].writer
        /\ vrmu[s].writer # {} => vrmu'[s].writer = vrmu[s].writer
        /\ vrmu'[s].writer # {} => vrmu'[s].held = {} /\ vrmu'[s].pending = {}
        /\ vrmu'[s].pending # {} => vrmu'[s].held # {}
  <2> TAKE s \in Stores
  <2>1. CASE vwrite[t] \/ ~Owns(t, s)
    BY <1>1, <1>2, <2>1 DEF VirtualTypeOK, RWInv
  <2>2. CASE ~vwrite[t] /\ Owns(t, s)
    BY <1>1, <1>2, <2>2, ReadUnlockEffect
  <2> QED BY <2>1, <2>2
<1>6. \A u \in VTxns : u # t /\ InTrigger(u) => vrmu'[Root].writer = {u}
  BY <1>5 DEF InTrigger, Stores
<1>7. /\ TxnInv'
      /\ vst' \in [VTxns -> {"idle", "open", "committing", "done", "failed"}]
      /\ nested' \in [VTxns -> Seq(Stores)]
      /\ vlast' \in [VTxns -> Nat] /\ vpos' \in [VTxns -> Nat]
      /\ vst'[t] = "done"
      /\ \A u \in VTxns : u # t =>
           vst'[u] = vst[u] /\ nested'[u] = nested[u] /\ vpos'[u] = vpos[u] /\ vlast'[u] = vlast[u]
      /\ \A u \in VTxns : u # t => \A r \in Stores : Owns(u, r)' <=> Owns(u, r)
      /\ \A r \in Stores : ~Owns(t, r)'
  BY <1>1, <1>6, EndKeeps
<1>8. VirtualTypeOK'
  <2>1. vrmu' \in [Stores -> RWLocks(VTxns)]
    BY <1>1, <1>5
  <2> QED BY <1>1, <1>3, <1>7, <2>1 DEF VirtualTypeOK
<1>9. WmuInv'
  <2> SUFFICES ASSUME NEW u \in VTxns, NEW r \in Stores PROVE WmuAt(u, r)'
    BY DEF WmuInv
  <2>1. WmuAt(u, r) /\ WmuAt(t, r) BY DEF WmuInv
  <2>2. CASE u = t BY <1>1, <1>4, <1>7, <2>1, <2>2 DEF WmuAt
  <2>3. CASE u # t BY <1>1, <1>4, <1>7, <2>1, <2>3 DEF WmuAt
  <2> QED BY <2>2, <2>3
<1>10. ReaderInv'
  <2> SUFFICES ASSUME NEW u \in VTxns, NEW r \in Stores PROVE ReaderAt(u, r)'
    BY DEF ReaderInv
  <2>1. ReaderAt(u, r) BY DEF ReaderInv
  <2>2. CASE u = t BY <1>1, <1>5, <1>7, <2>1, <2>2, NoStoreIsNone, ZenonT(60) DEF ReaderAt
  <2>3. CASE u # t
    <3>1. /\ u \in vrmu'[r].held <=> u \in vrmu[r].held
          /\ u \in vrmu'[r].queue <=> u \in vrmu[r].queue
      BY <1>5, <2>3
    <3> QED BY <1>1, <1>7, <2>1, <2>3, <3>1 DEF ReaderAt
  <2> QED BY <2>2, <2>3
<1>11. WriterInv'
  <2> SUFFICES ASSUME NEW u \in VTxns, NEW r \in Stores PROVE WriterAt(u, r)'
    BY DEF WriterInv
  <2>1. WriterAt(u, r) BY DEF WriterInv
  <2>2. vrmu'[r].pending \cup vrmu'[r].writer = vrmu[r].pending \cup vrmu[r].writer
    BY <1>5
  <2>3. CASE u = t BY <1>1, <2>1, <2>2, <2>3 DEF WriterAt
  <2>4. CASE u # t BY <1>1, <1>7, <2>1, <2>2, <2>4 DEF WriterAt
  <2> QED BY <2>3, <2>4
<1>12. RWInv'
  BY <1>5 DEF RWInv
<1>13. StaleInv'
  BY <1>1, <1>7 DEF StaleInv, VirtualTypeOK
<1> QED BY <1>7, <1>8, <1>9, <1>10, <1>11, <1>12, <1>13

LEMMA VirtualStepKeeps == IVirtual /\ [VirtualNext]_virtualVars => IVirtual'
<1> SUFFICES ASSUME IVirtual, [VirtualNext]_virtualVars PROVE IVirtual'
  OBVIOUS
<1>1. CASE UNCHANGED virtualVars
  <2> USE <1>1 DEF virtualVars, IVirtual
  <2>1. \A t \in VTxns, s \in Stores : Owns(t, s)' <=> Owns(t, s)
    BY DEF Owns
  <2>2. VirtualTypeOK' /\ RWInv' /\ StaleInv' /\ WriterInv'
    BY DEF VirtualTypeOK, RWInv, StaleInv, WriterInv, WriterAt
  <2>3. TxnInv'
    BY DEF TxnInv, TxnAt, InTrigger
  <2>4. WmuInv' /\ ReaderInv'
    BY <2>1 DEF WmuInv, WmuAt, ReaderInv, ReaderAt
  <2> QED BY <2>2, <2>3, <2>4
<1>2. CASE VirtualNext
  <2> PICK t \in VTxns : VirtualStep(t)
    BY <1>2 DEF VirtualNext
  <2>1. CASE Read(t) \/ VMRead(t) \/ Write(t)
    <3>1. PICK s \in Stores : Dispatch(t, s)
      BY <2>1 DEF Read, VMRead, Write, Stores
    <3> QED BY <3>1, DispatchKeeps
  <2> QED BY <2>1, NewTransactionKeeps, BeginKeeps, BeginFailsKeeps, CommitKeeps, CommitLockKeeps,
             CommitWriteKeeps, CommitReadKeeps, CommitFailsKeeps, AbortKeeps DEF VirtualStep
<1> QED BY <1>1, <1>2

-----------------------------------------------------------------------------
(* What the invariant says.                                                *)

LEMMA Accounted == IVirtual => LocksAreAccounted
<1> SUFFICES ASSUME IVirtual, NEW t \in VTxns, NEW s \in Stores,
                    vst[t] \in {"done", "failed"}, HoldsLock(t, s)
             PROVE  <<t, s>> \in leaked
  BY DEF LocksAreAccounted
<1>1. nested[t] = << >> /\ want[t] = NoStore
  BY DEF IVirtual, TxnInv, TxnAt
<1>2. ~Owns(t, s) /\ want[t] # s
  BY <1>1, NoStoreIsNone DEF Owns
<1> QED BY <1>2 DEF HoldsLock, IVirtual, WmuInv, WmuAt, ReaderInv, ReaderAt, WriterInv, WriterAt

\* The two lookups go to the same node of the tree, whatever the tree.
LEMMA SameNode == VMReadsWhatReadReads
  BY DEF VMReadsWhatReadReads, Get, Find

\* Ranks of finitely many stores have a highest one among any of them.
LEMMA Highest ==
  ASSUME NEW S, S # {}, NEW n \in Nat, NEW f \in [S -> 1 .. n]
  PROVE  \E x \in S : \A y \in S : f[y] <= f[x]
<1> DEFINE T == {n - f[x] : x \in S}
<1>1. T \subseteq Nat /\ T # {}
  OBVIOUS
<1>2. PICK m \in T : \A k \in T : ~(<<k, m>> \in OpToRel(<, Nat))
  BY <1>1, NatLessThanWellFounded, WFMin
<1>3. \A k \in T : m <= k
  <2> TAKE k \in T
  <2>1. k \in Nat /\ m \in Nat
    BY <1>1, <1>2
  <2>2. k < m => <<k, m>> \in OpToRel(<, Nat)
    BY <2>1 DEF OpToRel
  <2>3. ~(k < m)
    BY <1>2, <2>2, Zenon
  <2> QED BY <2>1, <2>3
<1>4. PICK x \in S : m = n - f[x]
  BY <1>2
<1>5. \A y \in S : f[y] <= f[x]
  <2> TAKE y \in S
  <2>1. m <= n - f[y] /\ f[x] \in 1 .. n /\ f[y] \in 1 .. n
    BY <1>3
  <2> QED BY <1>4, <2>1
<1> QED BY <1>5

\* The stores can be counted.
LEMMA StoresFinite == Cardinality(Stores) \in Nat
  BY VirtualAssumption, FS_Singleton, FS_Union, FS_CardinalityType DEF Stores

\* Whoever has a store open or wants one is running, and by the common order
\* it wants a store of a higher rank than those it has open.
LEMMA OrderedWants ==
  ASSUME IVirtual, NEW rank \in [Stores -> 1 .. Cardinality(Stores)],
         \A t \in Running : Respects(t, rank),
         NEW t \in VTxns, NEW s \in Stores, Owns(t, s)
  PROVE  t \in Running /\ (want[t] # NoStore => rank[s] < rank[want[t]])
<1>1. PICK i \in DOMAIN nested[t] : nested[t][i] = s
  BY DEF Owns
<1>2. t \in Running
  BY <1>1 DEF Running, IVirtual, TxnInv, TxnAt, VirtualTypeOK
<1>3. nested[t] \in Seq(Stores) /\ Len(nested[t]) \in Nat /\ DOMAIN nested[t] = 1 .. Len(nested[t])
  BY DEF IVirtual, VirtualTypeOK
<1>4. CASE want[t] # NoStore
  <2> DEFINE q == Append(nested[t], want[t])
  <2>1. Asked(t) = q
    BY <1>4 DEF Asked
  <2>2. /\ i \in DOMAIN q /\ Len(nested[t]) + 1 \in DOMAIN q /\ i < Len(nested[t]) + 1
        /\ q[i] = s /\ q[Len(nested[t]) + 1] = want[t]
    BY <1>1, <1>3
  <2>3. Respects(t, rank)
    BY <1>2
  <2> HIDE DEF q
  <2>4. rank[q[i]] < rank[q[Len(nested[t]) + 1]]
    BY <2>1, <2>2, <2>3 DEF Respects
  <2> QED BY <1>2, <2>2, <2>4
<1> QED BY <1>2, <1>4

\* In a common order of the stores nobody waits forever.  The blocked reader
\* that wants the highest store waits for a writer that waits for a reader of
\* that store, which is blocked and wants a higher one; so no reader and hence
\* no commit is blocked, and the blocked writer that wants the highest store
\* waits for a writer that has it and wants a higher one.
LEMMA OrderAvoidsDeadlock == IVirtual => StuckOnlyByOrder
<1> SUFFICES ASSUME IVirtual, Running # {}, \A t \in Running : Blocked(t), leaked = {},
                    \A t \in Running : want[t] # NoStore => vst[t] = "open",
                    NEW rank \in [Stores -> 1 .. Cardinality(Stores)],
                    \A t \in Running : Respects(t, rank)
             PROVE  FALSE
  BY DEF StuckOnlyByOrder
<1> USE DEF IVirtual
<1> DEFINE R == {t \in Running : ~vwrite[t] /\ want[t] # NoStore}
<1>0. Running \subseteq VTxns /\ \A t \in VTxns : want[t] \in Stores \cup {NoStore}
  BY DEF Running, VirtualTypeOK
<1>1. \A t \in Running : ~vwrite[t] => t \in R
  BY DEF Blocked
<1>2. \A t \in R : t \in vrmu[want[t]].queue
  <2> TAKE t \in R
  <2>1. want[t] \in Stores /\ t \in VTxns
    BY <1>0
  <2>2. ~Granted(t)
    BY <2>1 DEF Blocked
  <2> QED BY <2>1, <2>2 DEF Granted, ReaderInv, ReaderAt
<1>3. \A s \in Stores : \A y \in vrmu[s].held : y \in R /\ rank[s] < rank[want[y]]
  <2> TAKE s \in Stores
  <2> TAKE y \in vrmu[s].held
  <2>1. y \in VTxns
    BY DEF VirtualTypeOK, RWLocks
  <2>2. ~vwrite[y] /\ (Owns(y, s) \/ want[y] = s)
    BY <2>1 DEF ReaderInv, ReaderAt
  <2>3. y \in Running
    <3>1. CASE Owns(y, s)
      BY <2>1, <3>1, OrderedWants
    <3>2. CASE want[y] = s
      BY <2>1, <3>2, NoStoreIsNone DEF Running, TxnInv, TxnAt, VirtualTypeOK
    <3> QED BY <2>2, <3>1, <3>2
  <2>4. y \in R
    BY <1>1, <2>2, <2>3
  <2>5. want[y] # s
    BY <1>2, <2>1, <2>4 DEF ReaderInv, ReaderAt
  <2> QED BY <2>1, <2>2, <2>4, <2>5, OrderedWants
<1>4. \A s \in Stores : vrmu[s].pending \cup vrmu[s].writer # {} => vrmu[s].held # {}
  <2> SUFFICES ASSUME NEW s \in Stores, NEW v \in vrmu[s].pending \cup vrmu[s].writer
               PROVE  vrmu[s].held # {}
    OBVIOUS
  <2>1. v \in VTxns
    BY DEF VirtualTypeOK, RWLocks
  <2>2. vwrite[v] /\ vst[v] = "committing" /\ Current(v) = s
    BY <2>1 DEF WriterInv, WriterAt, Current
  <2>3. v \in Running /\ want[v] = NoStore
    BY <2>1, <2>2 DEF Running
  <2>4. v \in vrmu[s].pending
    BY <2>2, <2>3 DEF Blocked
  <2> QED BY <2>4 DEF RWInv
<1>5. R = {}
  <2> SUFFICES ASSUME R # {} PROVE FALSE
    OBVIOUS
  <2> DEFINE f == [t \in R |-> rank[want[t]]]
  <2>1. f \in [R -> 1 .. Cardinality(Stores)]
    BY <1>0
  <2> HIDE DEF f
  <2>2. PICK x \in R : \A y \in R : f[y] <= f[x]
    BY <2>1, StoresFinite, Highest
  <2>3. want[x] \in Stores
    BY <1>0
  <2>4. vrmu[want[x]].pending \cup vrmu[want[x]].writer # {}
    BY <1>2, <2>3 DEF RWInv
  <2>5. PICK y \in vrmu[want[x]].held : TRUE
    BY <1>4, <2>3, <2>4
  <2>6. y \in R /\ rank[want[x]] < rank[want[y]]
    BY <1>3, <2>3
  <2>7. rank[want[y]] <= rank[want[x]]
    BY <2>2, <2>6 DEF f
  <2>8. want[y] \in Stores /\ rank[want[y]] \in Nat /\ rank[want[x]] \in Nat
    BY <1>0, <2>3, <2>6, StoresFinite
  <2> QED BY <2>6, <2>7, <2>8
<1>6. \A s \in Stores : vrmu[s].pending = {}
  BY <1>3, <1>4, <1>5
<1>7. \A t \in Running : vwrite[t] /\ want[t] \in Stores /\ vwmu[want[t]] # {}
  <2> TAKE t \in Running
  <2>1. vwrite[t]
    BY <1>1, <1>5
  <2>2. ~(AtNested(t) /\ t \in vrmu[Current(t)].pending)
    BY <1>0, <1>6, AtNestedOwns
  <2>3. want[t] # NoStore /\ ~Granted(t)
    BY <2>2 DEF Blocked
  <2> QED BY <1>0, <2>1, <2>3 DEF Granted
<1> DEFINE g == [t \in Running |-> rank[want[t]]]
<1>8. g \in [Running -> 1 .. Cardinality(Stores)]
  BY <1>7
<1> HIDE DEF g
<1>9. PICK x \in Running : \A y \in Running : g[y] <= g[x]
  BY <1>8, StoresFinite, Highest
<1>10. PICK v \in vwmu[want[x]] : TRUE
  BY <1>7
<1>11. v \in VTxns /\ Owns(v, want[x])
  BY <1>7, <1>10 DEF WmuInv, WmuAt, VirtualTypeOK
<1>12. v \in Running /\ rank[want[x]] < rank[want[v]]
  BY <1>7, <1>11, OrderedWants, NoStoreIsNone
<1>13. rank[want[v]] <= rank[want[x]]
  BY <1>9, <1>12 DEF g
<1>14. rank[want[v]] \in Nat /\ rank[want[x]] \in Nat
  BY <1>7, <1>12, StoresFinite
<1> QED BY <1>12, <1>13, <1>14

\* Whatever transactions interleave and fail, a transaction that has ended
\* holds a lock only where a failure or a trigger left it; no commit overtakes
\* a read transaction that has the root open; transactions that open the
\* stores in a common order do not wait for one another forever; and the VM
\* reads a path from the store that serves a Read of it (store.go, tree.go).
THEOREM VirtualStoreIsSafe == VirtualSpec => []VirtualSafety
<1>1. IVirtual => VirtualSafety
  BY Accounted, OrderAvoidsDeadlock, SameNode
  DEF VirtualSafety, ReadsOneVersion, IVirtual, StaleInv
<1> QED BY VirtualInitially, VirtualStepKeeps, <1>1, PTL DEF VirtualSpec

\* Type correctness, from the same invariant.
THEOREM VirtualTypes == VirtualSpec => []VirtualTypeOK
<1>1. IVirtual => VirtualTypeOK
  BY DEF IVirtual
<1> QED BY VirtualInitially, VirtualStepKeeps, <1>1, PTL DEF VirtualSpec

-----------------------------------------------------------------------------
(* Induction along the numbers, from the least counterexample: the form     *)
(* takes a set, which the provers can instantiate.                          *)

LEMMA Induction ==
  ASSUME NEW S, 0 \in S, \A n \in Nat : n \in S => n + 1 \in S
  PROVE  Nat \subseteq S
<1> DEFINE T == Nat \ S
<1> SUFFICES ASSUME T # {} PROVE FALSE
  OBVIOUS
<1>1. PICK x \in T : \A y \in T : ~(<<y, x>> \in OpToRel(<, Nat))
  BY WFMin, NatLessThanWellFounded
<1>2. x # 0 /\ x - 1 \in Nat /\ x - 1 < x
  OBVIOUS
<1>3. x - 1 \in S
  BY <1>1, <1>2 DEF OpToRel
<1> QED BY <1>2, <1>3

\* The same along a list of n elements.
LEMMA AlongList ==
  ASSUME NEW n \in Nat, NEW K, 0 \in K, \A k \in 1 .. n : k - 1 \in K => k \in K
  PROVE  0 .. n \subseteq K
<1> DEFINE S == {k \in Nat : k <= n => k \in K}
<1>1. 0 \in S
  OBVIOUS
<1>2. ASSUME NEW k \in Nat, k \in S PROVE k + 1 \in S
  <2> SUFFICES ASSUME k + 1 <= n PROVE k + 1 \in K
    OBVIOUS
  <2>1. k + 1 \in 1 .. n /\ (k + 1) - 1 = k /\ k \in K
    BY <1>2
  <2> QED BY <2>1
<1> HIDE DEF S
<1>3. Nat \subseteq S
  BY <1>1, <1>2, Induction
<1> QED BY <1>3 DEF S

-----------------------------------------------------------------------------
(* The keys of an object: their order, and the binary search.              *)

Ordered(s) == \A i, j \in 1 .. Len(s) : i < j => s[i] < s[j]

\* The rounds of the search, unfolded.
LEMMA RoundsFacts ==
  ASSUME NEW keys \in Seq(Nat), NEW name \in Nat
  PROVE  LET g == SearchRounds(keys, name)
         IN  /\ g[0] = <<1, Len(keys) + 1>>
             /\ \A k \in 1 .. Len(keys) : g[k] = Narrow(keys, name, g[k - 1])
<1>0. PICK n, base : n = Len(keys) /\ base = <<1, n + 1>>
  OBVIOUS
<1> DEFINE Step(v) == Narrow(keys, name, v)
           Rec(f, m) == [k \in 0 .. m |-> IF k = 0 THEN base ELSE Step(f[k - 1])]
           S == {m \in Nat : \E f : f = Rec(f, m)}
<1>1. n \in Nat
  BY <1>0
<1>2. SearchRounds(keys, name) = CHOOSE f : f = Rec(f, n)
  BY <1>0 DEF SearchRounds
<1> HIDE DEF Step
<1>3. 0 \in S
  <2>1. [k \in 0 .. 0 |-> base] = Rec([k \in 0 .. 0 |-> base], 0)
    OBVIOUS
  <2> QED BY <2>1
<1>4. ASSUME NEW m \in Nat, m \in S PROVE m + 1 \in S
  <2>1. PICK f : f = Rec(f, m)
    BY <1>4
  <2> DEFINE h == [k \in 0 .. m + 1 |-> IF k = 0 THEN base ELSE Step(f[k - 1])]
  <2>2. \A k \in 0 .. m : h[k] = f[k]
    BY <2>1
  <2>3. \A k \in 0 .. m + 1 : k # 0 => k - 1 \in 0 .. m
    OBVIOUS
  <2>4. \A k \in 0 .. m + 1 : k # 0 => h[k - 1] = f[k - 1]
    BY <2>2, <2>3
  <2> DEFINE x == Rec(h, m + 1)
  <2>5. \A k \in 0 .. m + 1 : h[k] = x[k]
    BY <2>4
  <2>6. h = x
    BY <2>5
  <2>7. h = Rec(h, m + 1)
    BY <2>6
  <2> HIDE DEF h
  <2>8. \E e : e = Rec(e, m + 1)
    BY <2>7
  <2> QED BY <2>8
<1> HIDE DEF S
<1>5. n \in S
  BY <1>1, <1>3, <1>4, Induction
<1>6. PICK g : g = SearchRounds(keys, name)
  OBVIOUS
<1>7. g = Rec(g, n)
  BY <1>2, <1>5, <1>6 DEF S
<1>8. g[0] = base /\ \A k \in 1 .. n : g[k] = Step(g[k - 1])
  BY <1>1, <1>7
<1> QED BY <1>0, <1>6, <1>8 DEF Step

\* One round keeps the name between the bounds, and narrows them.
Between(keys, name, b) ==
    /\ b \in (1 .. Len(keys) + 1) \X (1 .. Len(keys) + 1) /\ b[1] <= b[2]
    /\ \A i \in 1 .. Len(keys) : (i < b[1] => keys[i] < name) /\ (i >= b[2] => ~(keys[i] < name))

\* One round of the loop: the interval still holds the answer, and shrinks
\* while it has two ends.
LEMMA NarrowFacts ==
  ASSUME NEW keys \in Seq(Nat), Ordered(keys), NEW name \in Nat, NEW b, Between(keys, name, b)
  PROVE  LET c == Narrow(keys, name, b)
         IN  /\ Between(keys, name, c)
             /\ b[1] = b[2] => c = b
             /\ b[1] < b[2] => c[2] - c[1] < b[2] - b[1]
<1>1. PICK i, j, n : b = <<i, j>> /\ n = Len(keys) /\ i \in 1 .. n + 1 /\ j \in 1 .. n + 1 /\ i <= j /\ n \in Nat
  BY DEF Between
<1>2. PICK h : h = (i + j - 2) \div 2 + 1
  OBVIOUS
<1>5. \A k \in 1 .. n : (k < i => keys[k] < name) /\ (k >= j => ~(keys[k] < name))
  BY <1>1 DEF Between
<1>6. ASSUME NEW x \in 1 .. n + 1, NEW y \in 1 .. n + 1, x <= y,
             \A k \in 1 .. n : (k < x => keys[k] < name) /\ (k >= y => ~(keys[k] < name))
      PROVE  Between(keys, name, <<x, y>>)
  BY <1>1, <1>6 DEF Between
<1>7. b[1] = i /\ b[2] = j
  BY <1>1
<1>3. CASE i = j
  BY <1>1, <1>3 DEF Narrow, Between
<1>4. CASE i < j
  <2>1. h \in Nat /\ i <= h /\ h < j
    BY <1>1, <1>2, <1>4
  <2>2. keys[h] \in Nat /\ \A k \in 1 .. n : keys[k] \in Nat /\ (k < h => keys[k] < keys[h]) /\ (h < k => keys[h] < keys[k])
    <3>1. h \in 1 .. n
      BY <1>1, <2>1
    <3>2. \A k \in 1 .. n : keys[k] \in Nat
      BY <1>1
    <3>3. \A x, y \in 1 .. n : x < y => keys[x] < keys[y]
      BY <1>1 DEF Ordered
    <3> QED BY <3>1, <3>2, <3>3
  <2>3. CASE keys[h] < name
    <3>1. Narrow(keys, name, b) = <<h + 1, j>>
      BY <1>1, <1>2, <1>4, <2>3 DEF Narrow
    <3>2. \A k \in 1 .. n : k < h + 1 => keys[k] < name
      BY <2>1, <2>2, <2>3, <1>1
    <3>3. PICK x : x = h + 1 /\ x \in 1 .. n + 1 /\ x <= j
      BY <1>1, <2>1
    <3>4. Between(keys, name, <<x, j>>)
      BY <1>1, <1>5, <1>6, <3>2, <3>3
    <3>5. PICK c : c = <<x, j>>
      OBVIOUS
    <3>6. c[1] = h + 1 /\ c[2] = j /\ c = Narrow(keys, name, b)
      BY <3>1, <3>3, <3>5
    <3>7. Between(keys, name, c)
      BY <3>4, <3>5
    <3>8. b[1] # b[2] /\ c[2] - c[1] < b[2] - b[1]
      BY <1>1, <1>4, <1>7, <2>1, <3>6
    <3> QED BY <3>6, <3>7, <3>8
  <2>4. CASE ~(keys[h] < name)
    <3>1. Narrow(keys, name, b) = <<i, h>>
      BY <1>1, <1>2, <1>4, <2>4 DEF Narrow
    <3>2. \A k \in 1 .. n : k >= h => ~(keys[k] < name)
      BY <2>1, <2>2, <2>4, <1>1
    <3>3. Between(keys, name, <<i, h>>)
      <4>1. i \in 1 .. n + 1 /\ h \in 1 .. n + 1 /\ i <= h
        BY <1>1, <2>1
      <4>2. \A k \in 1 .. n : k < i => keys[k] < name
        BY <1>5
      <4> QED BY <1>6, <3>2, <4>1, <4>2
    <3>4. PICK c : c = <<i, h>>
      OBVIOUS
    <3>5. c[1] = i /\ c[2] = h /\ c = Narrow(keys, name, b)
      BY <3>1, <3>4
    <3>6. Between(keys, name, c)
      BY <3>3, <3>4
    <3>7. b[1] # b[2] /\ c[2] - c[1] < b[2] - b[1]
      BY <1>1, <1>4, <1>7, <2>1, <3>5
    <3> QED BY <3>5, <3>6, <3>7
  <2> QED BY <2>3, <2>4
<1> QED BY <1>1, <1>3, <1>4

\* Len(keys) rounds are enough: the search ends at the number of keys that
\* are below the name, plus one.
LEMMA SearchFacts ==
  ASSUME NEW keys \in Seq(Nat), Ordered(keys), NEW name \in Nat
  PROVE  /\ SearchKey(keys, name) \in 1 .. Len(keys) + 1
         /\ \A i \in 1 .. Len(keys) : i < SearchKey(keys, name) <=> keys[i] < name
<1>0. PICK n, g : n = Len(keys) /\ g = SearchRounds(keys, name)
  OBVIOUS
<1>1. n \in Nat
  BY <1>0
<1>2. g[0] = <<1, n + 1>> /\ \A k \in 1 .. n : g[k] = Narrow(keys, name, g[k - 1])
  BY <1>0, RoundsFacts
<1> DEFINE K == {k \in 0 .. n : Between(keys, name, g[k]) /\ (g[k][1] = g[k][2] \/ g[k][2] - g[k][1] <= n - k)}
<1>3. 0 \in K
  <2>1. Between(keys, name, <<1, n + 1>>)
    BY <1>0, <1>1 DEF Between
  <2>2. g[0][1] = 1 /\ g[0][2] = n + 1 /\ (n + 1) - 1 <= n - 0
    BY <1>1, <1>2
  <2>3. 0 \in 0 .. n /\ Between(keys, name, g[0]) /\ g[0][2] - g[0][1] <= n - 0
    BY <1>1, <1>2, <2>1, <2>2
  <2> QED BY <2>3
<1>4. ASSUME NEW k \in 1 .. n, k - 1 \in K PROVE k \in K
  <2>1. PICK b, c : b = g[k - 1] /\ c = g[k]
    OBVIOUS
  <2>2. Between(keys, name, b) /\ (b[1] = b[2] \/ b[2] - b[1] <= n - (k - 1))
    BY <1>4, <2>1
  <2>3. c = Narrow(keys, name, b)
    BY <1>2, <2>1
  <2>4. /\ Between(keys, name, c) /\ (b[1] = b[2] => c = b) /\ (b[1] < b[2] => c[2] - c[1] < b[2] - b[1])
    BY <2>2, <2>3, NarrowFacts
  <2>5. b[1] \in Nat /\ b[2] \in Nat /\ c[1] \in Nat /\ c[2] \in Nat /\ b[1] <= b[2]
    BY <2>2, <2>4 DEF Between
  <2>6. c[1] = c[2] \/ c[2] - c[1] <= n - k
    BY <2>2, <2>4, <2>5, <1>1
  <2> QED BY <2>1, <2>4, <2>6
<1> HIDE DEF K
<1>5. n \in K
  <2>1. 0 .. n \subseteq K
    BY <1>1, <1>3, <1>4, AlongList
  <2> QED BY <1>1, <2>1
<1>6. Between(keys, name, g[n]) /\ g[n][1] = g[n][2]
  BY <1>1, <1>5 DEF K, Between
<1>7. SearchKey(keys, name) = g[n][1]
  BY <1>0 DEF SearchKey
<1> QED BY <1>0, <1>1, <1>6, <1>7 DEF Between

\* The search finds a name that is there, and where it belongs if it is not.
LEMMA FindFacts ==
  ASSUME NEW keys \in Seq(Nat), Ordered(keys), NEW name \in Nat
  PROVE  \E at \in 1 .. Len(keys) + 1, found \in BOOLEAN :
            /\ FindKey(keys, name) = [index |-> at, found |-> found]
            /\ found <=> \E i \in 1 .. Len(keys) : keys[i] = name
            /\ found => at <= Len(keys) /\ keys[at] = name
            /\ ~found => \A i \in 1 .. Len(keys) : (i < at => keys[i] < name) /\ (i >= at => name < keys[i])
<1>1. PICK at : at = SearchKey(keys, name)
  OBVIOUS
<1>2. at \in 1 .. Len(keys) + 1 /\ \A i \in 1 .. Len(keys) : i < at <=> keys[i] < name
  BY <1>1, SearchFacts
<1>3. PICK found \in BOOLEAN : found <=> (at <= Len(keys) /\ keys[at] = name)
  OBVIOUS
<1>4. FindKey(keys, name) = [index |-> at, found |-> found]
  BY <1>1, <1>3 DEF FindKey
<1>5. \A i \in 1 .. Len(keys) : keys[i] \in Nat
  OBVIOUS
<1>6. ASSUME NEW i \in 1 .. Len(keys), keys[i] = name PROVE at <= Len(keys) /\ keys[at] = name
  <2>1. at <= i
    BY <1>2, <1>5, <1>6
  <2>2. at < i => keys[at] < keys[i]
    BY <1>2, <2>1 DEF Ordered
  <2>3. at \in 1 .. Len(keys) /\ ~(keys[at] < name)
    BY <1>2, <2>1
  <2> QED BY <2>1, <2>2, <2>3, <1>2, <1>6
<1>7. found <=> \E i \in 1 .. Len(keys) : keys[i] = name
  BY <1>2, <1>3, <1>6
<1>8. ASSUME ~found, NEW i \in 1 .. Len(keys) PROVE (i < at => keys[i] < name) /\ (i >= at => name < keys[i])
  BY <1>2, <1>5, <1>7, <1>8
<1> QED BY <1>2, <1>3, <1>4, <1>7, <1>8

\* Every finite set of numbers has its elements in order.
LEMMA SortedExists ==
  ASSUME NEW S0 \in SUBSET Nat, IsFiniteSet(S0)
  PROVE  \E s \in [1 .. Cardinality(S0) -> S0] : \A i, j \in 1 .. Cardinality(S0) : i < j => s[i] < s[j]
<1> DEFINE Up(n, s) == \A i, j \in 1 .. n : i < j => s[i] < s[j]
           N == {n \in Nat : \A S \in SUBSET Nat : IsFiniteSet(S) /\ Cardinality(S) = n => \E s \in [1 .. n -> S] : Up(n, s)}
<1>1. 0 \in N
  <2> SUFFICES ASSUME NEW S \in SUBSET Nat PROVE \E s \in [1 .. 0 -> S] : Up(0, s)
    OBVIOUS
  <2>1. [i \in 1 .. 0 |-> i] \in [1 .. 0 -> S] /\ Up(0, [i \in 1 .. 0 |-> i])
    OBVIOUS
  <2> QED BY <2>1
<1>2. ASSUME NEW n \in Nat, n \in N PROVE n + 1 \in N
  <2> SUFFICES ASSUME NEW S \in SUBSET Nat, IsFiniteSet(S), Cardinality(S) = n + 1
               PROVE  \E s \in [1 .. n + 1 -> S] : Up(n + 1, s)
    OBVIOUS
  <2>1. S # {}
    BY FS_EmptySet
  <2>2. PICK x \in S : \A y \in S : ~(<<y, x>> \in OpToRel(<, Nat))
    BY <2>1, WFMin, NatLessThanWellFounded
  <2>3. ASSUME NEW y \in S PROVE x <= y
    <3>1. x \in Nat /\ y \in Nat
      OBVIOUS
    <3>2. ~(y < x)
      BY <2>2, <3>1 DEF OpToRel
    <3> QED BY <3>1, <3>2
  <2>4. IsFiniteSet(S \ {x}) /\ Cardinality(S \ {x}) = n
    <3>1. IsFiniteSet(S \ {x}) /\ Cardinality(S \ {x}) = Cardinality(S) - 1
      BY FS_RemoveElement
    <3> QED BY <3>1
  <2>5. PICK t \in [1 .. n -> S \ {x}] : Up(n, t)
    BY <1>2, <2>4
  <2> DEFINE s == [i \in 1 .. n + 1 |-> IF i = 1 THEN x ELSE t[i - 1]]
  <2>6. \A i \in 1 .. n + 1 : i # 1 => i - 1 \in 1 .. n
    OBVIOUS
  <2>7. s \in [1 .. n + 1 -> S]
    BY <2>6
  <2>8. ASSUME NEW i \in 1 .. n + 1, NEW j \in 1 .. n + 1, i < j PROVE s[i] < s[j]
    <3>1. j - 1 \in 1 .. n /\ s[j] = t[j - 1] /\ t[j - 1] \in S \ {x}
      BY <2>6, <2>8
    <3>2. CASE i = 1
      <4>1. s[i] = x /\ x \in Nat /\ s[j] \in Nat /\ s[j] # x /\ x <= s[j]
        BY <3>1, <3>2, <2>3
      <4> QED BY <4>1
    <3>3. CASE i # 1
      <4>1. i - 1 \in 1 .. n /\ i - 1 < j - 1 /\ s[i] = t[i - 1]
        BY <2>6, <2>8, <3>3
      <4> QED BY <4>1, <3>1, <2>5
    <3> QED BY <3>2, <3>3
  <2> HIDE DEF s
  <2>9. Up(n + 1, s)
    BY <2>8
  <2> QED BY <2>7, <2>9
<1> HIDE DEF N
<1>3. Cardinality(S0) \in N
  BY <1>1, <1>2, Induction, FS_CardinalityType
<1> QED BY <1>3 DEF N

\* The sorted names: all of them, in order.
LEMMA SortedFacts ==
  ASSUME NEW S \in SUBSET Nat, IsFiniteSet(S)
  PROVE  /\ SortedKeys(S) \in Seq(S) /\ Ordered(SortedKeys(S))
         /\ \A n \in S : \E i \in 1 .. Len(SortedKeys(S)) : SortedKeys(S)[i] = n
<1>0. PICK n, s : n = Cardinality(S) /\ s = SortedKeys(S)
  OBVIOUS
<1>1. n \in Nat
  BY <1>0, FS_CardinalityType
<1>2. s \in [1 .. n -> S] /\ \A i, j \in 1 .. n : i < j => s[i] < s[j]
  BY <1>0, SortedExists DEF SortedKeys
<1>3. Len(s) = n /\ s \in Seq(S)
  BY <1>1, <1>2
<1>4. s \in Injection(1 .. n, S)
  <2>1. ASSUME NEW i \in 1 .. n, NEW j \in 1 .. n, s[i] = s[j] PROVE i = j
    <3>1. s[i] \in Nat /\ s[j] \in Nat
      BY <1>2
    <3> QED BY <1>2, <2>1, <3>1
  <2> QED BY <1>2, <2>1 DEF Injection, IsInjective
<1>5. IsFiniteSet(1 .. n) /\ Cardinality(1 .. n) = n
  BY <1>1, FS_Interval
<1>6. s \in Surjection(1 .. n, S)
  BY <1>0, <1>4, <1>5, FS_Injection
<1> QED BY <1>0, <1>2, <1>3, <1>6 DEF Ordered, Surjection

\* Names in order are as many as there are names.
LEMMA OrderedCount ==
  ASSUME NEW keys \in Seq(Nat), Ordered(keys), NEW S, \A i \in 1 .. Len(keys) : keys[i] \in S,
         \A n \in S : \E i \in 1 .. Len(keys) : keys[i] = n
  PROVE  Len(keys) = Cardinality(S)
<1>1. PICK n \in Nat : n = Len(keys)
  OBVIOUS
<1>2. keys \in [1 .. n -> S]
  BY <1>1
<1>3. ASSUME NEW i \in 1 .. n, NEW j \in 1 .. n, keys[i] = keys[j] PROVE i = j
  <2>1. keys[i] \in Nat /\ keys[j] \in Nat
    BY <1>1
  <2> QED BY <1>1, <1>3, <2>1 DEF Ordered
<1>4. keys \in Bijection(1 .. n, S)
  BY <1>1, <1>2, <1>3 DEF Bijection, Injection, Surjection, IsInjective
<1> QED BY <1>1, <1>4, FS_CountingElements DEF ExistsBijection

\* Putting an element into a sequence and taking one out.
Inserted(X, s, at, x, d) ==
    /\ d \in Seq(X) /\ Len(d) = Len(s) + 1
    /\ \A i \in 1 .. Len(s) + 1 : d[i] = IF i < at THEN s[i] ELSE IF i = at THEN x ELSE s[i - 1]
Removed(X, s, at, d) ==
    /\ d \in Seq(X) /\ Len(d) = Len(s) - 1
    /\ \A i \in 1 .. Len(s) - 1 : d[i] = IF i < at THEN s[i] ELSE s[i + 1]

\* What InsertAt gives, index by index.
LEMMA InsertFacts ==
  ASSUME NEW X, NEW s \in Seq(X), NEW x \in X, NEW at \in 1 .. Len(s) + 1
  PROVE  Inserted(X, s, at, x, InsertAt(s, at, x))
<1>0. PICK n, a, b : n = Len(s) /\ a = SubSeq(s, 1, at - 1) /\ b = SubSeq(s, at, n)
  OBVIOUS
<1>1. n \in Nat /\ n = Len(s) /\ a = SubSeq(s, 1, at - 1) /\ b = SubSeq(s, at, n) /\ at \in 1 .. n + 1
  BY <1>0
<1>2. a \in Seq(X) /\ Len(a) = at - 1 /\ \A i \in 1 .. at - 1 : a[i] = s[i]
  BY <1>1
<1>3. b \in Seq(X) /\ Len(b) = n - at + 1 /\ \A i \in 1 .. n - at + 1 : b[i] = s[at + i - 1]
  BY <1>1
<1>4. PICK c : c = a \o <<x>>
  OBVIOUS
<1>5. c \in Seq(X) /\ Len(c) = at /\ \A i \in 1 .. at : c[i] = IF i < at THEN s[i] ELSE x
  <2>1. PICK y : y = <<x>>
    OBVIOUS
  <2>2. y \in Seq(X) /\ Len(y) = 1 /\ y[1] = x
    BY <2>1
  <2>3. /\ c \in Seq(X) /\ Len(c) = Len(a) + Len(y)
        /\ \A i \in 1 .. Len(a) + Len(y) : c[i] = IF i <= Len(a) THEN a[i] ELSE y[i - Len(a)]
    BY <1>2, <1>4, <2>1, <2>2, ConcatProperties
  <2>4. at \in Nat /\ Len(a) + Len(y) = at
    BY <1>1, <1>2, <2>2
  <2>5. ASSUME NEW i \in 1 .. at PROVE c[i] = IF i < at THEN s[i] ELSE x
    <3>1. i <= Len(a) <=> i < at
      BY <1>2, <2>4
    <3>2. CASE i < at
      BY <1>2, <2>3, <2>4, <3>1, <3>2
    <3>3. CASE i = at
      <4>1. i - Len(a) = 1 /\ ~(i <= Len(a))
        BY <1>2, <2>4, <3>3
      <4> QED BY <2>2, <2>3, <2>4, <3>3, <4>1
    <3> QED BY <2>4, <3>2, <3>3
  <2> QED BY <2>3, <2>4, <2>5
<1>6. PICK d : d = c \o b
  OBVIOUS
<1>7. d \in Seq(X) /\ Len(d) = n + 1
  BY <1>1, <1>3, <1>5, <1>6
<1>8. ASSUME NEW i \in 1 .. n + 1 PROVE d[i] = IF i < at THEN s[i] ELSE IF i = at THEN x ELSE s[i - 1]
  <2>1. CASE i <= at
    BY <1>1, <1>3, <1>5, <1>6, <2>1
  <2>2. CASE i > at
    <3>1. i - at \in 1 .. n - at + 1 /\ at + (i - at) - 1 = i - 1
      BY <1>1, <2>2
    <3>2. i \in 1 .. Len(c) + Len(b) /\ ~(i <= Len(c))
      BY <1>1, <1>3, <1>5, <2>2
    <3>3. d[i] = b[i - Len(c)]
      BY <1>3, <1>5, <1>6, <3>2, ConcatProperties
    <3> QED BY <3>1, <3>3, <1>3, <1>5, <2>2
  <2> QED BY <2>1, <2>2
<1>9. InsertAt(s, at, x) = d
  BY <1>1, <1>4, <1>6 DEF InsertAt
<1> QED BY <1>1, <1>7, <1>8, <1>9 DEF Inserted

\* What RemoveAt leaves, index by index.
LEMMA RemoveFacts ==
  ASSUME NEW X, NEW s \in Seq(X), NEW at \in 1 .. Len(s)
  PROVE  Removed(X, s, at, RemoveAt(s, at))
<1>0. PICK n, a, b : n = Len(s) /\ a = SubSeq(s, 1, at - 1) /\ b = SubSeq(s, at + 1, n)
  OBVIOUS
<1>1. n \in Nat /\ n = Len(s) /\ a = SubSeq(s, 1, at - 1) /\ b = SubSeq(s, at + 1, n) /\ at \in 1 .. n
  BY <1>0
<1>2. a \in Seq(X) /\ Len(a) = at - 1 /\ \A i \in 1 .. at - 1 : a[i] = s[i]
  BY <1>1
<1>3. b \in Seq(X) /\ Len(b) = n - at /\ \A i \in 1 .. n - at : b[i] = s[at + i]
  BY <1>1
<1>4. PICK d : d = a \o b
  OBVIOUS
<1>5. d \in Seq(X) /\ Len(d) = n - 1
  <2>1. d \in Seq(X) /\ Len(d) = Len(a) + Len(b)
    BY <1>2, <1>3, <1>4, ConcatProperties
  <2>2. (at - 1) + (n - at) = n - 1
    BY <1>1
  <2> QED BY <2>1, <2>2, <1>2, <1>3
<1>8. Len(a) + Len(b) = n - 1
  <2>1. (at - 1) + (n - at) = n - 1
    BY <1>1
  <2> QED BY <2>1, <1>2, <1>3
<1>9. n \in Nat /\ at \in 1 .. n /\ Len(a) = at - 1
  BY <1>1, <1>2
<1>6. ASSUME NEW i \in 1 .. n - 1 PROVE d[i] = IF i < at THEN s[i] ELSE s[i + 1]
  <2>1. CASE i < at
    <3>1. i \in 1 .. Len(a) + Len(b) /\ i <= Len(a) /\ i \in 1 .. at - 1
      BY <1>8, <1>9, <2>1
    <3>2. d[i] = a[i]
      BY <1>2, <1>3, <1>4, <3>1, ConcatProperties
    <3> QED BY <3>1, <3>2, <1>2, <2>1
  <2>2. CASE i >= at
    <3>1. i - (at - 1) \in 1 .. n - at /\ at + (i - (at - 1)) = i + 1
      BY <1>1, <2>2
    <3>2. i \in 1 .. Len(a) + Len(b) /\ ~(i <= Len(a))
      BY <1>8, <1>9, <2>2
    <3>3. d[i] = b[i - Len(a)]
      BY <1>2, <1>3, <1>4, <3>2, ConcatProperties
    <3>4. ~(i < at)
      BY <1>1, <2>2
    <3> QED BY <3>1, <3>3, <3>4, <1>2, <1>3
  <2> QED BY <2>1, <2>2
<1>7. RemoveAt(s, at) = d
  BY <1>1, <1>4 DEF RemoveAt
<1> QED BY <1>1, <1>5, <1>6, <1>7 DEF Removed

-----------------------------------------------------------------------------
(* What an object holds, and what the calls make of it.                    *)

\* Keys and values that hold w.
Hold(keys, values, w) ==
    /\ keys \in Seq(Names) /\ values \in Seq(ObjectValues) /\ Len(values) = Len(keys)
    /\ Ordered(keys)
    /\ \A i \in 1 .. Len(keys) : keys[i] \in DOMAIN w /\ values[i] = w[keys[i]]
    /\ \A n \in DOMAIN w : \E i \in 1 .. Len(keys) : keys[i] = n

With(w, name, value) == [k \in DOMAIN w \cup {name} |-> IF k = name THEN value ELSE w[k]]

\* Names are numbers, and lists of names lists of numbers.
LEMMA NamesAreNumbers == Names \subseteq Nat /\ \A s \in Seq(Names) : s \in Seq(Nat)
  BY ObjectsAssumption

\* A new object holds what it is made from.
LEMMA NewHolds ==
  ASSUME NEW c \in Contents
  PROVE  LET sorted == SortedKeys(DOMAIN c)
         IN  Hold(sorted, [i \in 1 .. Len(sorted) |-> c[sorted[i]]], c)
<1>1. PICK s : s = SortedKeys(DOMAIN c)
  OBVIOUS
<1>2. /\ DOMAIN c \subseteq Names /\ IsFiniteSet(DOMAIN c) /\ DOMAIN c \in SUBSET Nat
      /\ \A k \in DOMAIN c : c[k] \in ObjectValues
  BY ObjectsAssumption DEF ObjectValues
<1>3. s \in Seq(DOMAIN c) /\ Ordered(s) /\ \A n \in DOMAIN c : \E i \in 1 .. Len(s) : s[i] = n
  BY <1>1, <1>2, SortedFacts
<1>4. PICK v : v = [i \in 1 .. Len(s) |-> c[s[i]]]
  OBVIOUS
<1>6. PICK n \in Nat : s \in [1 .. n -> DOMAIN c] /\ n = Len(s)
  BY <1>3
<1>7. s \in [1 .. n -> Names] /\ v \in [1 .. n -> ObjectValues]
  BY <1>2, <1>4, <1>6
<1>8. s \in Seq(Names) /\ v \in Seq(ObjectValues) /\ Len(v) = n
  BY <1>7
<1>9. \A i \in 1 .. Len(s) : s[i] \in DOMAIN c /\ v[i] = c[s[i]]
  BY <1>4, <1>6
<1> QED BY <1>1, <1>3, <1>4, <1>6, <1>8, <1>9 DEF Hold

\* A value put at the index of a name is the value of that name.
LEMMA UpdateHolds ==
  ASSUME NEW keys, NEW values, NEW w, Hold(keys, values, w), NEW at \in 1 .. Len(keys), NEW v \in ObjectValues
  PROVE  Hold(keys, [values EXCEPT ![at] = v], With(w, keys[at], v))
<1>1. PICK u : u = [values EXCEPT ![at] = v]
  OBVIOUS
<1>2. u \in Seq(ObjectValues) /\ Len(u) = Len(keys) /\ \A i \in 1 .. Len(keys) : u[i] = IF i = at THEN v ELSE values[i]
  BY <1>1 DEF Hold
<1>3. \A i \in 1 .. Len(keys) : keys[i] \in Nat
  BY NamesAreNumbers DEF Hold
<1>4. \A i \in 1 .. Len(keys) : keys[i] = keys[at] => i = at
  BY <1>3 DEF Hold, Ordered
<1> QED BY <1>1, <1>2, <1>4 DEF Hold, With

\* The place of a name that is not there.
Splits(keys, at, name) ==
    \A i \in 1 .. Len(keys) : (i < at => keys[i] < name) /\ (i >= at => name < keys[i])

\* A name put in where it belongs: the keys stay in order.
LEMMA InsertHolds ==
  ASSUME NEW keys, NEW values, NEW w, Hold(keys, values, w), NEW name \in Names, NEW v \in ObjectValues,
         NEW at \in 1 .. Len(keys) + 1, Splits(keys, at, name)
  PROVE  Hold(InsertAt(keys, at, name), InsertAt(values, at, v), With(w, name, v))
<1>0. PICK n, g, u : n = Len(keys) /\ g = InsertAt(keys, at, name) /\ u = InsertAt(values, at, v)
  OBVIOUS
<1>1. n \in Nat /\ n = Len(keys) /\ n = Len(values) /\ at \in 1 .. n + 1 /\ keys \in Seq(Names) /\ values \in Seq(ObjectValues)
  BY <1>0 DEF Hold
<1>2. /\ g \in Seq(Names) /\ Len(g) = n + 1
      /\ \A i \in 1 .. n + 1 : g[i] = IF i < at THEN keys[i] ELSE IF i = at THEN name ELSE keys[i - 1]
  <2>1. at \in 1 .. Len(keys) + 1
    BY <1>1
  <2>2. Inserted(Names, keys, at, name, g)
    BY <1>0, <1>1, <2>1, InsertFacts
  <2> QED BY <1>1, <2>2 DEF Inserted
<1>3. /\ u \in Seq(ObjectValues) /\ Len(u) = n + 1
      /\ \A i \in 1 .. n + 1 : u[i] = IF i < at THEN values[i] ELSE IF i = at THEN v ELSE values[i - 1]
  <2>1. at \in 1 .. Len(values) + 1
    BY <1>1
  <2>2. Inserted(ObjectValues, values, at, v, u)
    BY <1>0, <1>1, <2>1, InsertFacts
  <2> QED BY <1>1, <2>2 DEF Inserted
<1>4. name \in Nat /\ \A i \in 1 .. n : keys[i] \in Nat /\ keys[i] # name
  <2>1. name \in Nat /\ keys \in Seq(Nat)
    BY <1>1, NamesAreNumbers
  <2>2. ASSUME NEW i \in 1 .. n PROVE keys[i] \in Nat /\ keys[i] # name
    <3>0. i \in 1 .. Len(keys)
      BY <1>1
    <3>1. keys[i] \in Nat
      BY <2>1, <3>0
    <3>2. i < at \/ i >= at
      BY <1>1
    <3>3. i \in 1 .. Len(keys)
      BY <1>1
    <3> QED BY <2>1, <3>1, <3>2, <3>3 DEF Splits
  <2> QED BY <2>1, <2>2
<1>5. \A i \in 1 .. n + 1 : (i < at => i \in 1 .. n) /\ (i > at => i - 1 \in 1 .. n /\ i - 1 >= at)
  BY <1>1
<1>6. \A i, j \in 1 .. n : i < j => keys[i] < keys[j]
  BY <1>1 DEF Hold, Ordered
<1>7. ASSUME NEW i \in 1 .. n + 1, NEW j \in 1 .. n + 1, i < j PROVE g[i] < g[j]
  <2>1. CASE j < at
    BY <1>1, <1>2, <1>5, <1>6, <1>7, <2>1
  <2>2. CASE j = at
    BY <1>1, <1>2, <1>5, <1>7, <2>2 DEF Splits
  <2>3. CASE j > at
    <3>1. g[j] = keys[j - 1] /\ j - 1 \in 1 .. n /\ j - 1 >= at
      BY <1>1, <1>2, <1>5, <2>3
    <3>2. CASE i < at
      <4>1. g[i] = keys[i] /\ i \in 1 .. n /\ i < j - 1
        BY <1>1, <1>2, <1>5, <3>1, <3>2
      <4> QED BY <4>1, <3>1, <1>6
    <3>3. CASE i = at
      BY <1>1, <1>2, <3>1, <3>3 DEF Splits
    <3>4. CASE i > at
      <4>1. g[i] = keys[i - 1] /\ i - 1 \in 1 .. n /\ i - 1 < j - 1
        BY <1>1, <1>2, <1>5, <1>7, <3>4
      <4> QED BY <4>1, <3>1, <1>6
    <3> QED BY <1>1, <3>2, <3>3, <3>4
  <2> QED BY <1>1, <2>1, <2>2, <2>3
<1>8. ASSUME NEW i \in 1 .. n + 1 PROVE g[i] \in DOMAIN With(w, name, v) /\ u[i] = With(w, name, v)[g[i]]
  <2>1. CASE i < at
    BY <1>1, <1>2, <1>3, <1>4, <1>5, <2>1 DEF Hold, With
  <2>2. CASE i = at
    BY <1>1, <1>2, <1>3, <2>2 DEF With
  <2>3. CASE i > at
    <3>1. g[i] = keys[i - 1] /\ u[i] = values[i - 1] /\ i - 1 \in 1 .. n
      BY <1>1, <1>2, <1>3, <1>5, <2>3
    <3> QED BY <1>1, <1>4, <3>1 DEF Hold, With
  <2> QED BY <1>1, <2>1, <2>2, <2>3
<1>9. ASSUME NEW x \in DOMAIN With(w, name, v) PROVE \E i \in 1 .. n + 1 : g[i] = x
  <2>1. CASE x = name
    <3>1. at \in 1 .. n + 1 /\ ~(at < at)
      BY <1>1
    <3>2. g[at] = name
      BY <1>2, <3>1
    <3> QED BY <2>1, <3>1, <3>2
  <2>2. CASE x # name
    <3>1. PICK i \in 1 .. n : keys[i] = x
      BY <1>1, <1>9, <2>2 DEF Hold, With
    <3>2. CASE i < at
      BY <1>1, <1>2, <3>1, <3>2
    <3>3. CASE i >= at
      <4>1. i + 1 \in 1 .. n + 1 /\ g[i + 1] = keys[(i + 1) - 1] /\ (i + 1) - 1 = i
        BY <1>1, <1>2, <3>3
      <4> QED BY <3>1, <4>1
    <3> QED BY <1>1, <3>2, <3>3
  <2> QED BY <2>1, <2>2
<1> QED BY <1>0, <1>1, <1>2, <1>3, <1>7, <1>8, <1>9 DEF Hold, Ordered

\* The keys and values without one name hold the rest.
LEMMA RemoveHolds ==
  ASSUME NEW keys, NEW values, NEW w, Hold(keys, values, w), NEW at \in 1 .. Len(keys),
         NEW x, DOMAIN x = DOMAIN w \ {keys[at]}, \A k \in DOMAIN x : x[k] = w[k]
  PROVE  Hold(RemoveAt(keys, at), RemoveAt(values, at), x)
<1>0. PICK n, g, u : n = Len(keys) /\ g = RemoveAt(keys, at) /\ u = RemoveAt(values, at)
  OBVIOUS
<1>1. n \in Nat /\ n = Len(keys) /\ n = Len(values) /\ at \in 1 .. n /\ keys \in Seq(Names) /\ values \in Seq(ObjectValues)
  BY <1>0 DEF Hold
<1>2. g \in Seq(Names) /\ Len(g) = n - 1 /\ \A i \in 1 .. n - 1 : g[i] = IF i < at THEN keys[i] ELSE keys[i + 1]
  <2>1. Removed(Names, keys, at, g)
    BY <1>0, <1>1, RemoveFacts
  <2> QED BY <1>1, <2>1 DEF Removed
<1>3. u \in Seq(ObjectValues) /\ Len(u) = n - 1 /\ \A i \in 1 .. n - 1 : u[i] = IF i < at THEN values[i] ELSE values[i + 1]
  <2>1. Removed(ObjectValues, values, at, u)
    BY <1>0, <1>1, RemoveFacts
  <2> QED BY <1>1, <2>1 DEF Removed
<1>4. \A i, j \in 1 .. n : keys[i] \in Nat /\ (i < j => keys[i] < keys[j])
  BY <1>1, NamesAreNumbers DEF Hold, Ordered
<1>5. \A i \in 1 .. n : keys[i] = keys[at] => i = at
  BY <1>1, <1>4
<1>6. \A i \in 1 .. n - 1 : i \in 1 .. n /\ i + 1 \in 1 .. n
  BY <1>1
<1>7. ASSUME NEW i \in 1 .. n - 1, NEW j \in 1 .. n - 1, i < j PROVE g[i] < g[j]
  <2>1. CASE j < at
    BY <1>1, <1>2, <1>4, <1>6, <1>7, <2>1
  <2>2. CASE i < at /\ ~(j < at)
    <3>1. i < j + 1
      BY <1>7
    <3> QED BY <1>2, <1>4, <1>6, <2>2, <3>1
  <2>3. CASE ~(i < at)
    <3>1. i + 1 < j + 1 /\ ~(j < at)
      BY <1>1, <1>7, <2>3
    <3> QED BY <1>2, <1>4, <1>6, <2>3, <3>1
  <2> QED BY <1>1, <1>7, <2>1, <2>2, <2>3
<1>8. ASSUME NEW i \in 1 .. n - 1 PROVE g[i] \in DOMAIN x /\ u[i] = x[g[i]]
  <2>1. PICK j \in 1 .. n : g[i] = keys[j] /\ u[i] = values[j] /\ j # at
    <3>1. CASE i < at
      BY <1>1, <1>2, <1>3, <1>6, <3>1
    <3>2. CASE ~(i < at)
      <4>1. i + 1 # at /\ i + 1 \in 1 .. n /\ g[i] = keys[i + 1] /\ u[i] = values[i + 1]
        BY <1>1, <1>2, <1>3, <1>6, <3>2
      <4> QED BY <4>1
    <3> QED BY <3>1, <3>2
  <2>2. keys[j] \in DOMAIN w /\ values[j] = w[keys[j]] /\ keys[j] # keys[at]
    BY <1>1, <1>5, <2>1 DEF Hold
  <2> QED BY <1>0, <2>1, <2>2
<1>9. ASSUME NEW y \in DOMAIN x PROVE \E i \in 1 .. n - 1 : g[i] = y
  <2>1. PICK i \in 1 .. n : keys[i] = y /\ i # at
    BY <1>0, <1>1, <1>9 DEF Hold
  <2>2. CASE i < at
    <3>1. i \in 1 .. n - 1
      BY <1>1, <2>2
    <3>2. g[i] = y
      BY <1>2, <2>1, <2>2, <3>1
    <3> QED BY <3>1, <3>2
  <2>3. CASE i > at
    <3>1. i - 1 \in 1 .. n - 1 /\ ~(i - 1 < at) /\ (i - 1) + 1 = i
      BY <1>1, <2>3
    <3> QED BY <1>2, <2>1, <3>1
  <2> QED BY <1>1, <2>1, <2>2, <2>3
<1> QED BY <1>0, <1>1, <1>2, <1>3, <1>7, <1>8, <1>9 DEF Hold, Ordered

-----------------------------------------------------------------------------
(* The invariant: an object holds what it should; an array that two        *)
(* objects, or an object and the decoder's table, refer to has no room.    *)

Slots == Seq(Names \cup {NoSlot})
ObjectRecords == [kind : {"nil", "map", "compact", "strings"}, arr : Nat, keysLen : Nat, values : Seq(ObjectValues)]

IsLive(h) == objs[h].kind # "nil"

ObjectHolds(hp, o, w) ==
    /\ o \in ObjectRecords /\ o.kind # "nil" /\ o.arr \in Arrays
    /\ o.keysLen <= Len(hp[o.arr])
    /\ Hold(KeysIn(hp, o), o.values, w)
    /\ o.kind # "map" => Len(hp[o.arr]) = o.keysLen
    /\ o.kind = "strings" => \A i \in 1 .. Len(o.values) : o.values[i] \in StringValues

HeapInv == heap \in [Arrays -> Slots] /\ objs \in [Handles -> ObjectRecords] /\ DOMAIN wanted = Handles
ObjectsInv == \A h \in Handles : IsLive(h) => ObjectHolds(heap, objs[h], wanted[h])
\* Whoever shares an array uses all of it.
SharedInv ==
    \A h, g \in Handles : h # g /\ IsLive(h) /\ IsLive(g) /\ objs[h].arr = objs[g].arr =>
        Len(heap[objs[h].arr]) = objs[h].keysLen
TableInv ==
    \A k \in DOMAIN interning :
        /\ interning[k] \in Arrays /\ heap[interning[k]] = k
        /\ \A h \in Handles : IsLive(h) /\ objs[h].arr = interning[k] => objs[h].keysLen = Len(k)
IObjects == HeapInv /\ ObjectsInv /\ SharedInv /\ TableInv

\* The keys of an object are the first slots of its array.
LEMMA KeysFacts ==
  ASSUME NEW hp \in [Arrays -> Slots], NEW o \in ObjectRecords, o.arr \in Arrays, o.keysLen <= Len(hp[o.arr])
  PROVE  /\ KeysIn(hp, o) \in Seq(Names \cup {NoSlot}) /\ Len(KeysIn(hp, o)) = o.keysLen
         /\ \A i \in 1 .. o.keysLen : KeysIn(hp, o)[i] = hp[o.arr][i]
<1>1. PICK s, n : s = hp[o.arr] /\ n = o.keysLen
  OBVIOUS
<1>2. s \in Seq(Names \cup {NoSlot}) /\ n \in Nat /\ n <= Len(s)
  BY <1>1 DEF Slots, ObjectRecords
<1>3. \A i \in 1 .. n : s[i] \in Names \cup {NoSlot}
  BY <1>2
<1>4. /\ SubSeq(s, 1, n) \in Seq(Names \cup {NoSlot}) /\ Len(SubSeq(s, 1, n)) = n
      /\ \A i \in 1 .. n : SubSeq(s, 1, n)[i] = s[i]
  BY <1>2, <1>3
<1> QED BY <1>1, <1>4 DEF KeysIn

\* What an object holds depends on its own array only.
LEMMA HoldsLocally ==
  ASSUME NEW hp, NEW hq, NEW o, NEW w, ObjectHolds(hp, o, w), hq[o.arr] = hp[o.arr]
  PROVE  ObjectHolds(hq, o, w)
  BY DEF ObjectHolds, KeysIn

\* The arrays others refer to are as they were, and have no room if o shares
\* one of them.
Apart(hp, h, o) ==
    /\ \A g \in Handles : g # h /\ IsLive(g) =>
         /\ hp[objs[g].arr] = heap[objs[g].arr]
         /\ objs[g].arr = o.arr => objs[g].keysLen = o.keysLen /\ Len(hp[o.arr]) = o.keysLen
    /\ \A k \in DOMAIN interning :
         hp[interning[k]] = heap[interning[k]] /\ (interning[k] = o.arr => o.keysLen = Len(k))

\* One step of the mutator keeps the invariant, if the object it makes
\* holds what it should and the step keeps apart from the others' arrays.
LEMMA StepKeeps ==
  ASSUME IObjects, NEW h \in Handles, NEW hp \in [Arrays -> Slots], NEW o, NEW w,
         Becomes(hp, h, o, w), UNCHANGED interning, ObjectHolds(hp, o, w), Apart(hp, h, o)
  PROVE  IObjects'
<1>1. /\ objs' = [objs EXCEPT ![h] = o] /\ wanted' = [wanted EXCEPT ![h] = w]
      /\ heap' = Collected(hp, objs', interning) /\ interning' = interning
  BY DEF Becomes
<1>2. o \in ObjectRecords /\ o.kind # "nil" /\ o.arr \in Arrays
  BY DEF ObjectHolds
<1>3. objs' \in [Handles -> ObjectRecords] /\ DOMAIN wanted' = Handles /\ objs'[h] = o /\ wanted'[h] = w
  BY <1>1, <1>2 DEF IObjects, HeapInv
<1>4. \A g \in Handles : g # h => objs'[g] = objs[g] /\ wanted'[g] = wanted[g]
  BY <1>1 DEF IObjects, HeapInv
<1>5. \A a \in Arrays : a \in Live(objs', interning) => heap'[a] = hp[a]
  BY <1>1 DEF Collected
<1>6. heap' \in [Arrays -> Slots]
  <2>1. <<>> \in Slots
    BY DEF Slots
  <2> QED BY <1>1, <2>1 DEF Collected
<1>7. \A g \in Handles : objs'[g].kind # "nil" => objs'[g].arr \in Live(objs', interning)
  BY DEF Live
<1>8. \A k \in DOMAIN interning : interning[k] \in Live(objs', interning)
  BY DEF Live
<1>9. \A g \in Handles : objs'[g].kind # "nil" => objs'[g].arr \in Arrays /\ heap'[objs'[g].arr] = hp[objs'[g].arr]
  BY <1>2, <1>3, <1>4, <1>5, <1>7 DEF IObjects, ObjectsInv, ObjectHolds, IsLive
<1>10. \A k \in DOMAIN interning : interning[k] \in Arrays /\ heap'[interning[k]] = hp[interning[k]]
  BY <1>5, <1>8 DEF IObjects, TableInv
<1>11. ObjectsInv'
  <2> SUFFICES ASSUME NEW g \in Handles, objs'[g].kind # "nil" PROVE ObjectHolds(heap', objs'[g], wanted'[g])
    BY DEF ObjectsInv, IsLive
  <2>1. CASE g = h
    BY <1>3, <1>9, <2>1, HoldsLocally
  <2>2. CASE g # h
    <3>1. ObjectHolds(heap, objs[g], wanted[g]) /\ hp[objs[g].arr] = heap[objs[g].arr]
      BY <1>4, <2>2 DEF IObjects, ObjectsInv, Apart, IsLive
    <3>2. heap'[objs[g].arr] = heap[objs[g].arr]
      BY <1>4, <1>9, <2>2, <3>1
    <3> QED BY <1>4, <2>2, <3>1, <3>2, HoldsLocally
  <2> QED BY <2>1, <2>2
<1>12. SharedInv'
  <2> SUFFICES ASSUME NEW f \in Handles, NEW g \in Handles, f # g, objs'[f].kind # "nil", objs'[g].kind # "nil",
                      objs'[f].arr = objs'[g].arr
               PROVE  Len(heap'[objs'[f].arr]) = objs'[f].keysLen
    BY DEF SharedInv, IsLive
  <2>1. CASE f = h
    BY <1>3, <1>4, <1>9, <2>1 DEF Apart, IsLive
  <2>2. CASE g = h
    BY <1>3, <1>4, <1>9, <2>2 DEF Apart, IsLive
  <2>3. CASE f # h /\ g # h
    BY <1>4, <1>9, <2>3 DEF Apart, IsLive, IObjects, SharedInv
  <2> QED BY <2>1, <2>2, <2>3
<1>13. TableInv'
  <2>0. interning' = interning
    OBVIOUS
  <2> SUFFICES ASSUME NEW k \in DOMAIN interning
               PROVE  /\ interning[k] \in Arrays /\ heap'[interning[k]] = k
                      /\ \A g \in Handles : objs'[g].kind # "nil" /\ objs'[g].arr = interning[k] => objs'[g].keysLen = Len(k)
    BY <2>0 DEF TableInv, IsLive
  <2>1. interning[k] \in Arrays /\ heap'[interning[k]] = k
    BY <1>10 DEF Apart, IObjects, TableInv
  <2>2. ASSUME NEW g \in Handles, objs'[g].kind # "nil", objs'[g].arr = interning[k] PROVE objs'[g].keysLen = Len(k)
    <3>1. CASE g = h
      BY <1>3, <2>2, <3>1 DEF Apart
    <3>2. CASE g # h
      BY <1>4, <2>2, <3>2 DEF IObjects, TableInv, IsLive
    <3> QED BY <3>1, <3>2
  <2> QED BY <2>1, <2>2
<1> QED BY <1>3, <1>6, <1>11, <1>12, <1>13 DEF IObjects, HeapInv

\* A new array is nobody's.
LEMMA FreshFacts ==
  ASSUME IObjects, CanAllocate
  PROVE  /\ Fresh \in Arrays
         /\ \A g \in Handles : IsLive(g) => objs[g].arr # Fresh
         /\ \A k \in DOMAIN interning : interning[k] # Fresh
<1>1. Live(objs, interning) \subseteq Arrays
  BY DEF Live, IObjects, ObjectsInv, ObjectHolds, IsLive, TableInv
<1>2. \E a \in Arrays : a \notin Live(objs, interning)
  BY <1>1 DEF CanAllocate
<1>3. Fresh \in Arrays /\ Fresh \notin Live(objs, interning)
  BY <1>2 DEF Fresh
<1> QED BY <1>3 DEF Live, IsLive

\* A step into a new array keeps apart from everyone.
LEMMA ApartFresh ==
  ASSUME IObjects, CanAllocate, NEW s, NEW h \in Handles, NEW o, o.arr = Fresh
  PROVE  Apart([heap EXCEPT ![Fresh] = s], h, o)
  BY FreshFacts DEF Apart, IObjects, HeapInv, ObjectsInv, ObjectHolds, TableInv

\* So does one that leaves the arrays alone,
LEMMA ApartSame ==
  ASSUME IObjects, NEW h \in Handles, IsLive(h), NEW o, o.arr = objs[h].arr, o.keysLen = objs[h].keysLen
  PROVE  Apart(heap, h, o)
  BY DEF Apart, IObjects, SharedInv, TableInv

\* and one that uses the room behind the keys: an array that has room is
\* nobody else's.
LEMMA ApartInRoom ==
  ASSUME IObjects, NEW h \in Handles, IsLive(h), Len(heap[objs[h].arr]) > objs[h].keysLen,
         NEW s, NEW o, o.arr = objs[h].arr
  PROVE  Apart([heap EXCEPT ![o.arr] = s], h, o)
<1>1. objs[h].keysLen \in Nat /\ Len(heap[objs[h].arr]) \in Nat
  BY DEF IObjects, HeapInv, ObjectRecords, ObjectsInv, ObjectHolds, Slots
<1>2. Len(heap[objs[h].arr]) # objs[h].keysLen
  BY <1>1
<1>3. \A g \in Handles : g # h /\ IsLive(g) => objs[g].arr # o.arr
  BY <1>2 DEF IObjects, SharedInv
<1>4. \A k \in DOMAIN interning : interning[k] # o.arr
  BY <1>2 DEF IObjects, TableInv
<1> QED BY <1>3, <1>4 DEF Apart, IObjects, HeapInv, ObjectsInv, ObjectHolds, TableInv

\* An object that uses all of its array.
LEMMA KeysWhole ==
  ASSUME NEW hp, NEW o, NEW X, NEW s \in Seq(X), hp[o.arr] = s, o.keysLen = Len(s)
  PROVE  KeysIn(hp, o) = s
  BY DEF KeysIn

\* A list of names is what an array may hold.
LEMMA SlotsHold ==
  ASSUME NEW s \in Seq(Names)
  PROVE  s \in Slots
  BY DEF Slots

\* NewObject keeps the invariant.
LEMMA NewObjectKeeps ==
  ASSUME IObjects, NEW h \in Handles, NEW c \in Contents, NewObject(h, c)
  PROVE  IObjects'
<1> DEFINE sorted == SortedKeys(DOMAIN c)
           hp == [heap EXCEPT ![Fresh] = sorted]
           vs == [i \in 1 .. Len(sorted) |-> c[sorted[i]]]
           o == [kind |-> "map", arr |-> Fresh, keysLen |-> Len(sorted), values |-> vs]
<1>1. CanAllocate /\ Becomes(hp, h, o, c) /\ UNCHANGED interning
  BY DEF NewObject
<1>2. Hold(sorted, vs, c)
  BY NewHolds
<1>3. sorted \in Seq(Names) /\ vs \in Seq(ObjectValues) /\ Len(sorted) \in Nat
  BY <1>2 DEF Hold
<1>4. Fresh \in Arrays /\ Arrays \subseteq Nat
  BY <1>1, FreshFacts DEF Arrays
<1> HIDE DEF sorted, vs
<1>5. hp \in [Arrays -> Slots] /\ hp[Fresh] = sorted
  BY <1>3, <1>4, SlotsHold DEF IObjects, HeapInv
<1> HIDE DEF hp
<1>6. o \in ObjectRecords /\ o.kind = "map" /\ o.arr = Fresh /\ o.keysLen = Len(sorted) /\ o.values = vs
  BY <1>3, <1>4 DEF ObjectRecords
<1> HIDE DEF o
<1>7. KeysIn(hp, o) = sorted
  BY <1>3, <1>5, <1>6, KeysWhole
<1>8. ObjectHolds(hp, o, c)
  BY <1>2, <1>3, <1>4, <1>5, <1>6, <1>7 DEF ObjectHolds
<1>9. Apart(hp, h, o)
  BY <1>1, <1>6, ApartFresh DEF hp
<1> QED BY <1>1, <1>5, <1>8, <1>9, StepKeeps

\* So does the end of the decoder, which forgets its table.
LEMMA DecoderDoneKeeps ==
  ASSUME IObjects, DecoderDone
  PROVE  IObjects'
<1>1. /\ interning' = <<>> /\ heap' = Collected(heap, objs, <<>>) /\ objs' = objs /\ wanted' = wanted
  BY DEF DecoderDone
<1>2. heap' \in [Arrays -> Slots]
  <2>1. <<>> \in Slots
    BY DEF Slots
  <2> QED BY <1>1, <2>1 DEF Collected, IObjects, HeapInv
<1>3. \A g \in Handles : IsLive(g) => objs[g].arr \in Arrays /\ heap'[objs[g].arr] = heap[objs[g].arr]
  <2> SUFFICES ASSUME NEW g \in Handles, IsLive(g) PROVE objs[g].arr \in Arrays /\ heap'[objs[g].arr] = heap[objs[g].arr]
    OBVIOUS
  <2>1. objs[g].arr \in Arrays
    BY DEF IObjects, ObjectsInv, ObjectHolds
  <2>2. objs[g].arr \in Live(objs, <<>>)
    BY DEF Live, IsLive
  <2> QED BY <1>1, <2>1, <2>2 DEF Collected
<1>4. ObjectsInv'
  <2> SUFFICES ASSUME NEW g \in Handles, IsLive(g) PROVE ObjectHolds(heap', objs[g], wanted[g])
    BY <1>1 DEF ObjectsInv, IsLive
  <2>1. ObjectHolds(heap, objs[g], wanted[g])
    BY DEF IObjects, ObjectsInv
  <2> QED BY <1>3, <2>1, HoldsLocally
<1>5. SharedInv'
  BY <1>1, <1>3 DEF SharedInv, IsLive, IObjects
<1>6. TableInv'
  BY <1>1 DEF TableInv
<1> QED BY <1>1, <1>2, <1>4, <1>5, <1>6 DEF IObjects, HeapInv

\* So does a decoded object, with keys from the table or new ones.
LEMMA NewObjectMapCompactKeeps ==
  ASSUME IObjects, NEW h \in Handles, NEW c \in Contents, NewObjectMapCompact(h, c)
  PROVE  IObjects'
<1>0. PICK sorted, vs : sorted = SortedKeys(DOMAIN c) /\ vs = [i \in 1 .. Len(sorted) |-> c[sorted[i]]]
  OBVIOUS
<1>1. PICK arr, o : /\ arr = (IF sorted \in DOMAIN interning THEN interning[sorted] ELSE Fresh)
                    /\ o = [kind |-> KindOf(c), arr |-> arr, keysLen |-> Len(sorted), values |-> vs]
  OBVIOUS
<1>2. /\ ~IsLive(h) /\ CanAllocate
      /\ objs' = [objs EXCEPT ![h] = o] /\ wanted' = [wanted EXCEPT ![h] = c]
      /\ interning' = [k \in DOMAIN interning \cup {sorted} |-> IF k = sorted THEN arr ELSE interning[k]]
      /\ heap' = IF sorted \in DOMAIN interning THEN heap ELSE [heap EXCEPT ![arr] = sorted]
  BY <1>0, <1>1 DEF NewObjectMapCompact, IsLive, Interned
<1>3. Hold(sorted, vs, c)
  BY <1>0, NewHolds
<1>4. sorted \in Seq(Names) /\ vs \in Seq(ObjectValues) /\ Len(sorted) \in Nat /\ Len(vs) = Len(sorted)
  BY <1>3 DEF Hold
<1>5. arr \in Arrays /\ arr \in Nat
  BY <1>1, <1>2, FreshFacts DEF IObjects, TableInv, Arrays
<1>6. /\ o \in ObjectRecords /\ o.kind \in {"map", "compact", "strings"}
      /\ o.kind # "nil" /\ o.kind = KindOf(c) /\ o.arr = arr /\ o.keysLen = Len(sorted) /\ o.values = vs
  BY <1>1, <1>4, <1>5 DEF ObjectRecords, KindOf
<1>7. o.kind = "strings" => \A i \in 1 .. Len(o.values) : o.values[i] \in StringValues
  <2>1. KindOf(c) = "strings" => \A k \in DOMAIN c : c[k] \in StringValues
    BY DEF KindOf
  <2>2. \A i \in 1 .. Len(sorted) : sorted[i] \in DOMAIN c /\ vs[i] = c[sorted[i]]
    BY <1>3 DEF Hold
  <2> QED BY <1>4, <1>6, <2>1, <2>2
<1>8. heap' \in [Arrays -> Slots] /\ heap'[arr] = sorted
  <2>1. CASE sorted \in DOMAIN interning
    BY <1>1, <1>2, <2>1 DEF IObjects, HeapInv, TableInv
  <2>2. CASE sorted \notin DOMAIN interning
    BY <1>2, <1>4, <1>5, <2>2, SlotsHold DEF IObjects, HeapInv
  <2> QED BY <2>1, <2>2
<1>9. ObjectHolds(heap', o, c)
  <2>1. KeysIn(heap', o) = sorted
    BY <1>4, <1>6, <1>8, KeysWhole
  <2> QED BY <1>3, <1>4, <1>5, <1>6, <1>7, <1>8, <2>1 DEF ObjectHolds
<1>10. /\ objs' \in [Handles -> ObjectRecords] /\ DOMAIN wanted' = Handles /\ objs'[h] = o /\ wanted'[h] = c
       /\ \A g \in Handles : g # h => objs'[g] = objs[g] /\ wanted'[g] = wanted[g]
  BY <1>2, <1>6 DEF IObjects, HeapInv
<1>11. \A g \in Handles : IsLive(g) =>
          /\ objs[g].arr \in Arrays /\ heap'[objs[g].arr] = heap[objs[g].arr]
          /\ objs[g].arr = arr => objs[g].keysLen = Len(sorted)
  <2> SUFFICES ASSUME NEW g \in Handles, IsLive(g)
               PROVE  /\ objs[g].arr \in Arrays /\ heap'[objs[g].arr] = heap[objs[g].arr]
                      /\ objs[g].arr = arr => objs[g].keysLen = Len(sorted)
    OBVIOUS
  <2>0. objs[g].arr \in Arrays
    BY DEF IObjects, ObjectsInv, ObjectHolds
  <2>1. CASE sorted \in DOMAIN interning
    BY <1>1, <1>2, <2>0, <2>1 DEF IObjects, TableInv
  <2>2. CASE sorted \notin DOMAIN interning
    BY <1>1, <1>2, <2>0, <2>2, FreshFacts DEF IObjects, HeapInv
  <2> QED BY <2>1, <2>2
<1>12. \A k \in DOMAIN interning : k # sorted =>
          /\ interning[k] \in Arrays /\ heap'[interning[k]] = heap[interning[k]] /\ interning[k] # arr
  <2> SUFFICES ASSUME NEW k \in DOMAIN interning, k # sorted
               PROVE  /\ interning[k] \in Arrays /\ heap'[interning[k]] = heap[interning[k]] /\ interning[k] # arr
    OBVIOUS
  <2>1. interning[k] \in Arrays /\ heap[interning[k]] = k
    BY DEF IObjects, TableInv
  <2>2. CASE sorted \in DOMAIN interning
    BY <1>1, <1>2, <2>1, <2>2 DEF IObjects, TableInv
  <2>3. CASE sorted \notin DOMAIN interning
    BY <1>1, <1>2, <2>1, <2>3, FreshFacts DEF IObjects, HeapInv
  <2> QED BY <2>2, <2>3
<1>13. ObjectsInv'
  <2> SUFFICES ASSUME NEW g \in Handles, objs'[g].kind # "nil" PROVE ObjectHolds(heap', objs'[g], wanted'[g])
    BY DEF ObjectsInv, IsLive
  <2>1. CASE g = h
    BY <1>9, <1>10, <2>1
  <2>2. CASE g # h
    <3>1. ObjectHolds(heap, objs[g], wanted[g]) /\ heap'[objs[g].arr] = heap[objs[g].arr]
      BY <1>10, <1>11, <2>2 DEF IObjects, ObjectsInv, IsLive
    <3> QED BY <1>10, <2>2, <3>1, HoldsLocally
  <2> QED BY <2>1, <2>2
<1>14. SharedInv'
  <2> SUFFICES ASSUME NEW f \in Handles, NEW g \in Handles, f # g, objs'[f].kind # "nil", objs'[g].kind # "nil",
                      objs'[f].arr = objs'[g].arr
               PROVE  Len(heap'[objs'[f].arr]) = objs'[f].keysLen
    BY DEF SharedInv, IsLive
  <2>1. CASE f = h
    BY <1>6, <1>8, <1>10, <2>1
  <2>2. CASE g = h
    <3>1. IsLive(f) /\ objs'[f] = objs[f] /\ objs[f].arr = arr
      BY <1>6, <1>10, <2>2 DEF IsLive
    <3> QED BY <1>8, <1>11, <3>1
  <2>3. CASE f # h /\ g # h
    BY <1>10, <1>11, <2>3 DEF IsLive, IObjects, SharedInv
  <2> QED BY <2>1, <2>2, <2>3
<1>15. TableInv'
  <2> SUFFICES ASSUME NEW k \in DOMAIN interning'
               PROVE  /\ interning'[k] \in Arrays /\ heap'[interning'[k]] = k
                      /\ \A g \in Handles : objs'[g].kind # "nil" /\ objs'[g].arr = interning'[k] => objs'[g].keysLen = Len(k)
    BY DEF TableInv, IsLive
  <2>1. CASE k = sorted
    <3>1. interning'[k] = arr
      BY <1>2, <2>1
    <3>2. ASSUME NEW g \in Handles, objs'[g].kind # "nil", objs'[g].arr = arr PROVE objs'[g].keysLen = Len(k)
      BY <1>6, <1>10, <1>11, <2>1, <3>2 DEF IsLive
    <3> QED BY <1>5, <1>8, <2>1, <3>1, <3>2
  <2>2. CASE k # sorted
    <3>1. k \in DOMAIN interning /\ interning'[k] = interning[k]
      BY <1>2, <2>2
    <3>2. interning[k] \in Arrays /\ heap'[interning[k]] = k /\ interning[k] # arr
      BY <1>12, <2>2, <3>1 DEF IObjects, TableInv
    <3>3. ASSUME NEW g \in Handles, objs'[g].kind # "nil", objs'[g].arr = interning[k] PROVE objs'[g].keysLen = Len(k)
      <4>1. g # h
        BY <1>6, <1>10, <3>2, <3>3
      <4> QED BY <1>10, <3>1, <3>3, <4>1 DEF IsLive, IObjects, TableInv
    <3> QED BY <3>1, <3>2, <3>3
  <2> QED BY <2>1, <2>2
<1> QED BY <1>8, <1>10, <1>13, <1>14, <1>15 DEF IObjects, HeapInv

\* An object that is there, taken apart.
Parts(h, kind, arr, n, values, keys) ==
    /\ kind \in {"map", "compact", "strings"} /\ arr \in Arrays /\ arr \in Nat /\ n \in Nat /\ values \in Seq(ObjectValues)
    /\ objs[h] = [kind |-> kind, arr |-> arr, keysLen |-> n, values |-> values]
    /\ KeysOf(objs[h]) = keys /\ Hold(keys, values, wanted[h])
    /\ Len(keys) = n /\ Len(values) = n
    /\ heap[arr] \in Slots /\ n <= Len(heap[arr])
    /\ \A i \in 1 .. n : keys[i] = heap[arr][i]
    /\ kind # "map" => Len(heap[arr]) = n
    /\ kind = "strings" => \A i \in 1 .. n : values[i] \in StringValues

\* Every object that is there has such parts.
LEMMA LiveFacts ==
  ASSUME IObjects, NEW h \in Handles, IsLive(h)
  PROVE  \E kind, arr, n, values, keys : Parts(h, kind, arr, n, values, keys)
<1>1. PICK o : o = objs[h]
  OBVIOUS
<1>2. ObjectHolds(heap, o, wanted[h])
  BY <1>1 DEF IObjects, ObjectsInv
<1>3. PICK kind, arr, n, values : kind = o.kind /\ arr = o.arr /\ n = o.keysLen /\ values = o.values
  OBVIOUS
<1>4. /\ kind \in {"map", "compact", "strings"} /\ arr \in Arrays /\ n \in Nat /\ values \in Seq(ObjectValues)
      /\ o = [kind |-> kind, arr |-> arr, keysLen |-> n, values |-> values]
  BY <1>2, <1>3 DEF ObjectHolds, ObjectRecords
<1>5. heap \in [Arrays -> Slots] /\ heap[arr] \in Slots /\ n <= Len(heap[arr])
  BY <1>2, <1>3, <1>4 DEF IObjects, HeapInv, ObjectHolds
<1>6. PICK keys : keys = KeysIn(heap, o)
  OBVIOUS
<1>7. Len(keys) = n /\ \A i \in 1 .. n : keys[i] = heap[arr][i]
  BY <1>2, <1>3, <1>5, <1>6, KeysFacts DEF ObjectHolds
<1>8. Hold(keys, values, wanted[h])
  BY <1>2, <1>3, <1>6 DEF ObjectHolds
<1>9. Len(values) = n
  BY <1>7, <1>8 DEF Hold
<1>10. /\ kind # "map" => Len(heap[arr]) = n
       /\ kind = "strings" => \A i \in 1 .. n : values[i] \in StringValues
  BY <1>2, <1>3, <1>9 DEF ObjectHolds
<1>11. KeysOf(objs[h]) = keys
  BY <1>1, <1>6 DEF KeysOf
<1>12. Parts(h, kind, arr, n, values, keys)
  BY <1>1, <1>4, <1>5, <1>7, <1>8, <1>9, <1>10, <1>11 DEF Parts, Arrays
<1> QED BY <1>12

\* A value of an object is replaced; the object may turn into an ObjectMap.
LEMMA ReplaceKeeps ==
  ASSUME IObjects, NEW h \in Handles, IsLive(h),
         NEW kind, kind \in {"map", objs[h].kind}, NEW at \in 1 .. objs[h].keysLen, NEW v \in ObjectValues,
         kind = "strings" => v \in StringValues,
         Becomes(heap, h, [kind |-> kind, arr |-> objs[h].arr, keysLen |-> objs[h].keysLen,
                           values |-> [objs[h].values EXCEPT ![at] = v]],
                 With(wanted[h], KeysOf(objs[h])[at], v)),
         UNCHANGED interning
  PROVE  IObjects'
<1>1. PICK was, arr, n, values, keys : Parts(h, was, arr, n, values, keys)
  BY LiveFacts
<1>2. PICK w, u, o : /\ w = With(wanted[h], keys[at], v)
                     /\ u = [values EXCEPT ![at] = v]
                     /\ o = [kind |-> kind, arr |-> arr, keysLen |-> n, values |-> u]
  OBVIOUS
<1>3. at \in 1 .. n /\ kind \in {"map", was}
  BY <1>1 DEF Parts
<1>4. Hold(keys, u, w)
  BY <1>1, <1>2, <1>3, UpdateHolds DEF Parts
<1>5. u \in Seq(ObjectValues) /\ Len(u) = n /\ \A i \in 1 .. n : u[i] = IF i = at THEN v ELSE values[i]
  BY <1>1, <1>2, <1>3 DEF Parts
<1>6. arr \in Nat /\ n \in Nat /\ was \in {"map", "compact", "strings"}
  BY <1>1 DEF Parts
<1>7. /\ o \in ObjectRecords /\ o.kind = kind /\ kind # "nil" /\ o.arr = arr /\ o.keysLen = n /\ o.values = u
  BY <1>2, <1>3, <1>5, <1>6 DEF ObjectRecords
<1>8. KeysIn(heap, o) = keys
  BY <1>1, <1>2, <1>7 DEF KeysIn, KeysOf, Parts
<1>9. kind # "map" => Len(heap[arr]) = n
  BY <1>1, <1>3 DEF Parts
<1>10. kind = "strings" => \A i \in 1 .. n : u[i] \in StringValues
  BY <1>1, <1>3, <1>5 DEF Parts
<1>11. ObjectHolds(heap, o, w)
  BY <1>1, <1>4, <1>5, <1>7, <1>8, <1>9, <1>10 DEF ObjectHolds, Parts
<1>12. objs[h].arr = arr /\ objs[h].keysLen = n /\ objs[h].values = values
  BY <1>1 DEF Parts
<1>13. Apart(heap, h, o)
  BY <1>7, <1>12, ApartSame
<1>14. Becomes(heap, h, o, w)
  BY <1>1, <1>2, <1>12 DEF Parts
<1>15. heap \in [Arrays -> Slots]
  BY DEF IObjects, HeapInv
<1> QED BY <1>11, <1>13, <1>14, <1>15, StepKeeps

\* Where a name is, or belongs, among the keys of an object.
LEMMA FindHeld ==
  ASSUME NEW keys, NEW values, NEW w, Hold(keys, values, w), NEW name \in Names
  PROVE  \E at \in 1 .. Len(keys) + 1, found \in BOOLEAN :
            /\ FindKey(keys, name).index = at /\ FindKey(keys, name).found = found
            /\ found => at \in 1 .. Len(keys) /\ keys[at] = name
            /\ ~found => Splits(keys, at, name) /\ name \notin DOMAIN w
<1>1. keys \in Seq(Nat) /\ name \in Nat /\ Ordered(keys)
  BY NamesAreNumbers DEF Hold
<1>2. PICK at \in 1 .. Len(keys) + 1, found \in BOOLEAN :
            /\ FindKey(keys, name) = [index |-> at, found |-> found]
            /\ found <=> \E i \in 1 .. Len(keys) : keys[i] = name
            /\ found => at <= Len(keys) /\ keys[at] = name
            /\ ~found => \A i \in 1 .. Len(keys) : (i < at => keys[i] < name) /\ (i >= at => name < keys[i])
  BY <1>1, FindFacts
<1>3. FindKey(keys, name).index = at /\ FindKey(keys, name).found = found
  BY <1>2
<1>4. ~found => Splits(keys, at, name)
  BY <1>2 DEF Splits
<1>5. ~found => name \notin DOMAIN w
  BY <1>2 DEF Hold
<1>6. found => at \in 1 .. Len(keys)
  <2>1. Len(keys) \in Nat
    BY <1>1
  <2> QED BY <1>2, <2>1
<1> QED BY <1>2, <1>3, <1>4, <1>5, <1>6

\* The array append leaves: the keys with the new one, and maybe more slots.
GrownArray(grown, rest, cap) == [i \in 1 .. cap |-> IF i <= Len(grown) THEN grown[i] ELSE rest[i]]

\* Its first slots are the keys with the new one.
LEMMA GrownFacts ==
  ASSUME NEW grown \in Seq(Names), NEW cap \in Nat, Len(grown) <= cap,
         NEW rest, \A i \in 1 .. cap : rest[i] \in Names \cup {NoSlot}
  PROVE  LET s == GrownArray(grown, rest, cap)
         IN  s \in Slots /\ Len(s) = cap /\ SubSeq(s, 1, Len(grown)) = grown
<1>0. PICK s : s = GrownArray(grown, rest, cap)
  OBVIOUS
<1>1. PICK n \in Nat : n = Len(grown) /\ grown \in [1 .. n -> Names]
  OBVIOUS
<1>2. s \in [1 .. cap -> Names \cup {NoSlot}]
  BY <1>0, <1>1 DEF GrownArray
<1>3. s \in Slots /\ Len(s) = cap
  BY <1>2 DEF Slots
<1>4. \A i \in 1 .. n : s[i] = grown[i]
  BY <1>0, <1>1 DEF GrownArray
<1>5. s \in Seq(Names \cup {NoSlot}) /\ n <= Len(s)
  BY <1>1, <1>3 DEF Slots
<1>6. /\ SubSeq(s, 1, n) \in Seq(Names \cup {NoSlot}) /\ Len(SubSeq(s, 1, n)) = n
      /\ \A i \in 1 .. n : SubSeq(s, 1, n)[i] = s[i]
  <2>1. \A i \in 1 .. n : s[i] \in Names \cup {NoSlot}
    BY <1>1, <1>2
  <2> QED BY <1>5, <2>1
<1>7. SubSeq(s, 1, n) = grown
  <2>1. PICK q : q = SubSeq(s, 1, n)
    OBVIOUS
  <2>2. q \in Seq(Names \cup {NoSlot}) /\ Len(q) = n /\ \A i \in 1 .. n : q[i] = grown[i]
    BY <1>4, <1>6, <2>1
  <2>3. q \in [1 .. n -> Names \cup {NoSlot}]
    BY <2>2
  <2> QED BY <1>1, <2>1, <2>2, <2>3
<1> QED BY <1>0, <1>1, <1>3, <1>7

\* The arrays of the heap after an insertion.
LEMMA InsertKeyFacts ==
  ASSUME IObjects, CanAllocate, NEW h \in Handles, IsLive(h), NEW name \in Names,
         NEW at \in 1 .. objs[h].keysLen + 1, NEW o, o.arr = objs[h].arr, o.keysLen = objs[h].keysLen
  PROVE  \E arr \in Arrays, s \in Slots :
           /\ InsertKey(heap, o, at, name) = [arr |-> arr, heap |-> [heap EXCEPT ![arr] = s]]
           /\ Len(s) >= objs[h].keysLen + 1
           /\ SubSeq(s, 1, objs[h].keysLen + 1) = InsertAt(KeysOf(objs[h]), at, name)
           /\ arr = Fresh \/ (arr = objs[h].arr /\ Len(heap[objs[h].arr]) > objs[h].keysLen)
<1>1. PICK kind, mine, n, values, keys : Parts(h, kind, mine, n, values, keys)
  BY LiveFacts
<1>2. /\ n \in Nat /\ objs[h].arr = mine /\ objs[h].keysLen = n /\ KeysOf(objs[h]) = keys /\ Len(keys) = n
      /\ heap[mine] \in Slots /\ n <= Len(heap[mine]) /\ keys \in Seq(Names) /\ mine \in Arrays
  BY <1>1 DEF Parts, Hold
<1>3. PICK old \in Seq(Names \cup {NoSlot}) : old = heap[mine]
  BY <1>2 DEF Slots
<1>4. KeysIn(heap, o) = keys
  BY <1>2 DEF KeysIn, KeysOf
<1>5. PICK grown : grown = InsertAt(keys, at, name)
  OBVIOUS
<1>6. grown \in Seq(Names) /\ Len(grown) = n + 1
  <2>1. at \in 1 .. Len(keys) + 1 /\ keys \in Seq(Names)
    BY <1>2
  <2>2. Inserted(Names, keys, at, name, grown)
    BY <1>5, <2>1, InsertFacts
  <2> QED BY <1>2, <2>2 DEF Inserted
<1>7. PICK room \in BOOLEAN : room <=> Len(old) > n
  OBVIOUS
<1>8. PICK arr, cap : arr = (IF room THEN mine ELSE Fresh) /\ cap = (IF room THEN Len(old) ELSE IF n = 0 THEN 1 ELSE 2 * n)
  OBVIOUS
<1>9. PICK s : s = [i \in 1 .. cap |-> IF i <= Len(grown) THEN grown[i] ELSE IF room THEN old[i] ELSE NoSlot]
  OBVIOUS
<1>10. InsertKey(heap, o, at, name) = [arr |-> arr, heap |-> [heap EXCEPT ![arr] = s]]
  BY <1>2, <1>3, <1>4, <1>5, <1>7, <1>8, <1>9 DEF InsertKey
<1>11. Len(old) \in Nat
  BY <1>3
<1>12. cap \in Nat /\ n + 1 <= cap
  BY <1>2, <1>7, <1>8, <1>11
<1>13. PICK rest : rest = [i \in 1 .. cap |-> IF room THEN old[i] ELSE NoSlot]
  OBVIOUS
<1>14. \A i \in 1 .. cap : rest[i] \in Names \cup {NoSlot}
  BY <1>3, <1>8, <1>11, <1>13
<1>15. s = GrownArray(grown, rest, cap)
  BY <1>9, <1>13 DEF GrownArray
<1>16. s \in Slots /\ Len(s) = cap /\ SubSeq(s, 1, n + 1) = grown
  <2>1. Len(grown) <= cap
    BY <1>6, <1>12
  <2>2. s \in Slots /\ Len(s) = cap /\ SubSeq(s, 1, Len(grown)) = grown
    BY <1>6, <1>12, <1>14, <1>15, <2>1, GrownFacts
  <2> QED BY <1>6, <2>2
<1>17. arr \in Arrays /\ (arr = Fresh \/ (arr = mine /\ Len(old) > n))
  <2>1. Fresh \in Arrays
    BY FreshFacts
  <2> QED BY <1>2, <1>7, <1>8, <2>1
<1> QED BY <1>2, <1>3, <1>5, <1>10, <1>12, <1>16, <1>17

\* A name that is not there is put in.
LEMMA InsertKeeps ==
  ASSUME IObjects, CanAllocate, NEW h \in Handles, IsLive(h), NEW name \in Names, NEW v \in ObjectValues,
         NEW at \in 1 .. objs[h].keysLen + 1, Splits(KeysOf(objs[h]), at, name),
         NEW ins, ins = InsertKey(heap, CloneOf(objs[h]), at, name),
         Becomes(ins.heap, h, [kind |-> "map", arr |-> ins.arr, keysLen |-> objs[h].keysLen + 1,
                               values |-> InsertAt(objs[h].values, at, v)],
                 With(wanted[h], name, v)),
         UNCHANGED interning
  PROVE  IObjects'
<1>1. PICK kind, mine, n, values, keys : Parts(h, kind, mine, n, values, keys)
  BY LiveFacts
<1>2. /\ n \in Nat /\ objs[h].arr = mine /\ objs[h].keysLen = n /\ KeysOf(objs[h]) = keys /\ Len(keys) = n
      /\ objs[h].values = values /\ Hold(keys, values, wanted[h])
  BY <1>1 DEF Parts
<1>3. PICK c : c = CloneOf(objs[h]) /\ c.arr = objs[h].arr /\ c.keysLen = objs[h].keysLen
  BY <1>1 DEF CloneOf, Parts
<1>4. PICK arr \in Arrays, s \in Slots :
           /\ ins = [arr |-> arr, heap |-> [heap EXCEPT ![arr] = s]]
           /\ Len(s) >= n + 1
           /\ SubSeq(s, 1, n + 1) = InsertAt(keys, at, name)
           /\ arr = Fresh \/ (arr = mine /\ Len(heap[mine]) > n)
  <2>1. ins = InsertKey(heap, c, at, name) /\ at \in 1 .. objs[h].keysLen + 1
    BY <1>3
  <2>2. \E arr \in Arrays, s \in Slots :
           /\ InsertKey(heap, c, at, name) = [arr |-> arr, heap |-> [heap EXCEPT ![arr] = s]]
           /\ Len(s) >= objs[h].keysLen + 1
           /\ SubSeq(s, 1, objs[h].keysLen + 1) = InsertAt(KeysOf(objs[h]), at, name)
           /\ arr = Fresh \/ (arr = objs[h].arr /\ Len(heap[objs[h].arr]) > objs[h].keysLen)
    BY <1>3, <2>1, InsertKeyFacts
  <2> QED BY <1>2, <2>1, <2>2
<1>5. PICK hp, grown, u, w : hp = [heap EXCEPT ![arr] = s] /\ grown = InsertAt(keys, at, name)
                             /\ u = InsertAt(values, at, v) /\ w = With(wanted[h], name, v)
  OBVIOUS
<1>6. PICK o : o = [kind |-> "map", arr |-> arr, keysLen |-> n + 1, values |-> u]
  OBVIOUS
<1>7. Becomes(hp, h, o, w)
  BY <1>2, <1>4, <1>5, <1>6
<1>8. hp \in [Arrays -> Slots] /\ hp[arr] = s
  BY <1>5 DEF IObjects, HeapInv
<1>9. Hold(grown, u, w)
  BY <1>2, <1>5, InsertHolds
<1>10. arr \in Nat /\ n + 1 \in Nat
  BY <1>2 DEF Arrays
<1>11. o \in ObjectRecords /\ o.kind = "map" /\ o.arr = arr /\ o.keysLen = n + 1 /\ o.values = u
  BY <1>6, <1>9, <1>10 DEF ObjectRecords, Hold
<1>12. Len(hp[o.arr]) >= n + 1 /\ Len(s) \in Nat
  BY <1>4, <1>8, <1>11 DEF Slots
<1>13. KeysIn(hp, o) = grown
  BY <1>4, <1>5, <1>8, <1>11 DEF KeysIn
<1>14. ObjectHolds(hp, o, w)
  BY <1>2, <1>8, <1>9, <1>11, <1>12, <1>13 DEF ObjectHolds
<1>15. Apart(hp, h, o)
  <2>1. CASE arr = Fresh
    BY <1>5, <1>11, <2>1, ApartFresh
  <2>2. CASE arr = mine /\ Len(heap[mine]) > n
    BY <1>2, <1>5, <1>11, <2>2, ApartInRoom
  <2> QED BY <1>4, <2>1, <2>2
<1> QED BY <1>7, <1>8, <1>14, <1>15, StepKeeps

\* Set keeps the invariant: in place, in the room of the array or in a new
\* one.
LEMMA SetKeeps ==
  ASSUME IObjects, NEW h \in Handles, NEW name \in Names, NEW v \in ObjectValues, Set(h, name, v)
  PROVE  IObjects'
<1>1. PICK r : r = SetImpl(objs[h], name, v)
  OBVIOUS
<1>2. IsLive(h) /\ CanAllocate /\ Becomes(r.heap, h, r.obj, With(wanted[h], name, v)) /\ interning' = interning
  BY <1>1 DEF Set, IsLive, With
<1>3. PICK kind, arr, n, values, keys : Parts(h, kind, arr, n, values, keys)
  BY <1>2, LiveFacts
<1>4. /\ n \in Nat /\ Len(keys) = n /\ Hold(keys, values, wanted[h]) /\ KeysOf(objs[h]) = keys
      /\ objs[h] = [kind |-> kind, arr |-> arr, keysLen |-> n, values |-> values]
  BY <1>3 DEF Parts
<1>5. objs[h].kind = kind /\ objs[h].arr = arr /\ objs[h].keysLen = n /\ objs[h].values = values
  BY <1>4
<1>6. PICK at \in 1 .. Len(keys) + 1, found \in BOOLEAN :
            /\ FindKey(keys, name).index = at /\ FindKey(keys, name).found = found
            /\ found => at \in 1 .. Len(keys) /\ keys[at] = name
            /\ ~found => Splits(keys, at, name) /\ name \notin DOMAIN wanted[h]
  BY <1>4, FindHeld
<1>7. PICK c : c = CloneOf(objs[h])
  OBVIOUS
<1>8. c = [kind |-> "map", arr |-> arr, keysLen |-> n, values |-> values]
  BY <1>4, <1>7 DEF CloneOf
<1>9. c.arr = arr /\ c.keysLen = n /\ c.values = values
  BY <1>8
<1>10. KeysIn(heap, c) = keys
  BY <1>4, <1>5, <1>9 DEF KeysIn, KeysOf
<1>11. CASE found /\ kind # "map" /\ (kind = "strings" => v \in StringValues)
  <2>1. r = [heap |-> heap, obj |-> [objs[h] EXCEPT !.values[at] = v]]
    BY <1>1, <1>4, <1>5, <1>6, <1>11 DEF SetImpl
  <2>2. r.heap = heap /\ r.obj = [kind |-> kind, arr |-> arr, keysLen |-> n, values |-> [values EXCEPT ![at] = v]]
    BY <1>4, <2>1
  <2>3. at \in 1 .. objs[h].keysLen /\ KeysOf(objs[h])[at] = name /\ kind \in {"map", objs[h].kind}
    BY <1>4, <1>5, <1>6, <1>11
  <2>4. Becomes(heap, h, [kind |-> kind, arr |-> objs[h].arr, keysLen |-> objs[h].keysLen,
                           values |-> [objs[h].values EXCEPT ![at] = v]],
                 With(wanted[h], KeysOf(objs[h])[at], v))
    BY <1>2, <1>5, <2>2, <2>3
  <2> QED BY <1>2, <1>11, <2>3, <2>4, ReplaceKeeps
<1>12. CASE ~(found /\ kind # "map" /\ (kind = "strings" => v \in StringValues))
  <2>1. r = SetMap(heap, c, name, v)
    BY <1>1, <1>4, <1>5, <1>6, <1>7, <1>12 DEF SetImpl
  <2>2. CASE found
    <3>1. r = [heap |-> heap, obj |-> [c EXCEPT !.values[at] = v]]
      BY <1>6, <1>10, <2>1, <2>2 DEF SetMap
    <3>2. r.heap = heap /\ r.obj = [kind |-> "map", arr |-> arr, keysLen |-> n, values |-> [values EXCEPT ![at] = v]]
      BY <1>8, <3>1
    <3>3. at \in 1 .. objs[h].keysLen /\ KeysOf(objs[h])[at] = name
      BY <1>4, <1>5, <1>6, <2>2
    <3>4. Becomes(heap, h, [kind |-> "map", arr |-> objs[h].arr, keysLen |-> objs[h].keysLen,
                             values |-> [objs[h].values EXCEPT ![at] = v]],
                   With(wanted[h], KeysOf(objs[h])[at], v))
      BY <1>2, <1>5, <3>2, <3>3
    <3> QED BY <1>2, <3>3, <3>4, ReplaceKeeps
  <2>3. CASE ~found
    <3>1. PICK ins : ins = InsertKey(heap, c, at, name)
      OBVIOUS
    <3>2. r = [heap |-> ins.heap, obj |-> [c EXCEPT !.arr = ins.arr, !.keysLen = @ + 1, !.values = InsertAt(@, at, v)]]
      BY <1>6, <1>10, <2>1, <2>3, <3>1 DEF SetMap
    <3>3. /\ r.heap = ins.heap
          /\ r.obj = [kind |-> "map", arr |-> ins.arr, keysLen |-> n + 1, values |-> InsertAt(values, at, v)]
      BY <1>8, <3>2
    <3>4. at \in 1 .. objs[h].keysLen + 1 /\ Splits(KeysOf(objs[h]), at, name) /\ ins = InsertKey(heap, CloneOf(objs[h]), at, name)
      BY <1>4, <1>5, <1>6, <1>7, <2>3, <3>1
    <3>5. Becomes(ins.heap, h, [kind |-> "map", arr |-> ins.arr, keysLen |-> objs[h].keysLen + 1,
                               values |-> InsertAt(objs[h].values, at, v)],
                 With(wanted[h], name, v))
      BY <1>2, <1>5, <3>3
    <3> QED BY <1>2, <3>4, <3>5, InsertKeeps
  <2> QED BY <2>2, <2>3
<1> QED BY <1>11, <1>12

\* SetIdx keeps the invariant.
LEMMA SetIdxKeeps ==
  ASSUME IObjects, NEW h \in Handles, NEW i \in Nat \ {0}, NEW v \in ObjectValues, SetIdx(h, i, v)
  PROVE  IObjects'
<1>1. IsLive(h) /\ i <= Len(objs[h].values) /\ interning' = interning
  BY DEF SetIdx, IsLive
<1>2. PICK was, arr, n, values, keys : Parts(h, was, arr, n, values, keys)
  BY <1>1, LiveFacts
<1>3. PICK kind : kind = IF was = "strings" /\ v \notin StringValues THEN "map" ELSE was
  OBVIOUS
<1>4. /\ n \in Nat /\ Len(keys) = n /\ Len(values) = n /\ Hold(keys, values, wanted[h]) /\ KeysOf(objs[h]) = keys
      /\ objs[h] = [kind |-> was, arr |-> arr, keysLen |-> n, values |-> values]
  BY <1>2 DEF Parts
<1>5. objs[h].kind = was /\ objs[h].arr = arr /\ objs[h].keysLen = n /\ objs[h].values = values
  BY <1>4
<1>6. i \in 1 .. n
  BY <1>1, <1>4, <1>5
<1>7. keys[i] \in DOMAIN wanted[h]
  BY <1>4, <1>6 DEF Hold
<1>8. Becomes(heap, h, [objs[h] EXCEPT !.kind = kind, !.values[i] = v], [wanted[h] EXCEPT ![keys[i]] = v])
  BY <1>3, <1>4, <1>5, <1>7 DEF SetIdx
<1>9. [objs[h] EXCEPT !.kind = kind, !.values[i] = v] =
        [kind |-> kind, arr |-> arr, keysLen |-> n, values |-> [values EXCEPT ![i] = v]]
  <2>1. PICK o, p : o = objs[h] /\ p = [o EXCEPT !.kind = kind]
    OBVIOUS
  <2>2. p = [kind |-> kind, arr |-> arr, keysLen |-> n, values |-> values]
    BY <1>4, <2>1
  <2>3. [p EXCEPT !.values[i] = v] = [kind |-> kind, arr |-> arr, keysLen |-> n, values |-> [values EXCEPT ![i] = v]]
    BY <2>2
  <2>4. [o EXCEPT !.kind = kind, !.values[i] = v] = [p EXCEPT !.values[i] = v]
    BY <1>4, <2>1
  <2> QED BY <2>1, <2>3, <2>4
<1>10. [wanted[h] EXCEPT ![keys[i]] = v] = With(wanted[h], keys[i], v)
  <2>1. DOMAIN wanted[h] \cup {keys[i]} = DOMAIN wanted[h]
    BY <1>7
  <2>2. PICK w, x : w = wanted[h] /\ x = keys[i]
    OBVIOUS
  <2>3. [w EXCEPT ![x] = v] = [k \in DOMAIN w |-> IF k = x THEN v ELSE w[k]]
    OBVIOUS
  <2> QED BY <2>1, <2>2, <2>3 DEF With
<1>11. /\ kind \in {"map", objs[h].kind} /\ (kind = "strings" => v \in StringValues) /\ i \in 1 .. objs[h].keysLen
  BY <1>3, <1>5, <1>6
<1>12. Becomes(heap, h, [kind |-> kind, arr |-> objs[h].arr, keysLen |-> objs[h].keysLen,
                          values |-> [objs[h].values EXCEPT ![i] = v]],
                With(wanted[h], KeysOf(objs[h])[i], v))
  BY <1>4, <1>5, <1>8, <1>9, <1>10
<1> QED BY <1>1, <1>11, <1>12, ReplaceKeeps

\* Remove keeps the invariant.
LEMMA DeleteNameKeeps ==
  ASSUME IObjects, NEW h \in Handles, NEW name \in Names, DeleteName(h, name)
  PROVE  IObjects'
<1>1. IsLive(h) /\ CanAllocate /\ interning' = interning
  BY DEF DeleteName, IsLive
<1>2. PICK was, arr, n, values, keys : Parts(h, was, arr, n, values, keys)
  BY <1>1, LiveFacts
<1>3. /\ n \in Nat /\ Len(keys) = n /\ Len(values) = n /\ Hold(keys, values, wanted[h]) /\ KeysOf(objs[h]) = keys
      /\ objs[h] = [kind |-> was, arr |-> arr, keysLen |-> n, values |-> values] /\ arr \in Arrays /\ arr \in Nat
  BY <1>2 DEF Parts
<1>4. objs[h].kind = was /\ objs[h].arr = arr /\ objs[h].keysLen = n /\ objs[h].values = values
  BY <1>3
<1>5. PICK at \in 1 .. Len(keys) + 1, found \in BOOLEAN :
            /\ FindKey(keys, name).index = at /\ FindKey(keys, name).found = found
            /\ found => at \in 1 .. Len(keys) /\ keys[at] = name
            /\ ~found => Splits(keys, at, name) /\ name \notin DOMAIN wanted[h]
  BY <1>3, FindHeld
<1>6. PICK w : w = [k \in DOMAIN wanted[h] \ {name} |-> wanted[h][k]]
  OBVIOUS
<1>7. CASE found
  <2>1. PICK g, u, hp, o : /\ g = RemoveAt(keys, at) /\ u = RemoveAt(values, at) /\ hp = [heap EXCEPT ![Fresh] = g]
                           /\ o = [kind |-> "map", arr |-> Fresh, keysLen |-> n - 1, values |-> u]
    OBVIOUS
  <2>2. Becomes(hp, h, o, w)
    BY <1>3, <1>4, <1>5, <1>6, <1>7, <2>1 DEF DeleteName
  <2>3. Hold(g, u, w)
    <3>1. at \in 1 .. Len(keys) /\ keys[at] = name
      BY <1>5, <1>7
    <3>2. PICK old : old = wanted[h] /\ Hold(keys, values, old)
      BY <1>3
    <3>3. DOMAIN w = DOMAIN old \ {keys[at]} /\ \A k \in DOMAIN w : w[k] = old[k]
      BY <1>6, <3>1, <3>2
    <3>4. Hold(RemoveAt(keys, at), RemoveAt(values, at), w)
      BY <3>1, <3>2, <3>3, RemoveHolds
    <3> QED BY <2>1, <3>4
  <2>4. g \in Seq(Names) /\ u \in Seq(ObjectValues) /\ Len(g) = n - 1 /\ n - 1 \in Nat
    <3>1. at \in 1 .. Len(keys) /\ keys \in Seq(Names)
      BY <1>3, <1>5, <1>7 DEF Hold
    <3>2. Len(g) = Len(keys) - 1
      BY <2>1, <3>1, RemoveFacts DEF Removed
    <3>3. n - 1 \in Nat
      BY <1>3, <3>1
    <3> QED BY <1>3, <2>3, <3>2, <3>3 DEF Hold
  <2>5. Fresh \in Arrays /\ Fresh \in Nat
    BY <1>1, FreshFacts DEF Arrays
  <2>6. hp \in [Arrays -> Slots] /\ hp[Fresh] = g
    BY <2>1, <2>4, <2>5, SlotsHold DEF IObjects, HeapInv
  <2>7. o \in ObjectRecords /\ o.kind = "map" /\ o.arr = Fresh /\ o.keysLen = n - 1 /\ o.values = u
    BY <2>1, <2>4, <2>5 DEF ObjectRecords
  <2>8. KeysIn(hp, o) = g
    BY <2>4, <2>6, <2>7, KeysWhole
  <2>9. o.keysLen <= Len(hp[o.arr])
    BY <2>4, <2>6, <2>7
  <2>10. ObjectHolds(hp, o, w)
    BY <2>3, <2>5, <2>7, <2>8, <2>9 DEF ObjectHolds
  <2>11. Apart(hp, h, o)
    BY <1>1, <2>1, <2>7, ApartFresh
  <2> QED BY <1>1, <2>2, <2>6, <2>10, <2>11, StepKeeps
<1>8. CASE ~found
  <2>1. PICK o : o = CloneOf(objs[h])
    OBVIOUS
  <2>2. Becomes(heap, h, o, w)
    BY <1>3, <1>5, <1>6, <1>8, <2>1 DEF DeleteName
  <2>3. o = [kind |-> "map", arr |-> arr, keysLen |-> n, values |-> values]
    BY <1>3, <2>1 DEF CloneOf
  <2>4. o.kind = "map" /\ o.arr = arr /\ o.keysLen = n /\ o.values = values
    BY <2>3
  <2>5. Hold(keys, values, w)
    BY <1>3, <1>5, <1>6, <1>8 DEF Hold
  <2>6. KeysIn(heap, o) = keys
    BY <1>3, <1>4, <2>4 DEF KeysIn, KeysOf
  <2>7. o \in ObjectRecords /\ n <= Len(heap[arr])
    BY <1>2, <2>3 DEF ObjectRecords, Parts
  <2>8. ObjectHolds(heap, o, w)
    BY <1>3, <2>4, <2>5, <2>6, <2>7 DEF ObjectHolds
  <2>9. Apart(heap, h, o)
    BY <1>1, <1>4, <2>4, ApartSame
  <2>10. heap \in [Arrays -> Slots]
    BY DEF IObjects, HeapInv
  <2> QED BY <1>1, <2>2, <2>8, <2>9, <2>10, StepKeeps
<1> QED BY <1>7, <1>8

\* An object that uses all of its array may be cloned.
LEMMA CloneKeeps ==
  ASSUME ~CloneGrown, IObjects, NEW h \in Handles, NEW g \in Handles, Clone(h, g)
  PROVE  IObjects'
<1>1. /\ IsLive(h) /\ ~IsLive(g) /\ Len(heap[objs[h].arr]) = objs[h].keysLen
      /\ Becomes(heap, g, CloneOf(objs[h]), wanted[h]) /\ interning' = interning
  BY DEF Clone, IsLive
<1>2. CASE IsLive(h)
  <2>1. PICK was, arr, n, values, keys : Parts(h, was, arr, n, values, keys)
    BY <1>2, LiveFacts
  <2>2. /\ n \in Nat /\ Len(keys) = n /\ Hold(keys, values, wanted[h]) /\ KeysOf(objs[h]) = keys
        /\ objs[h] = [kind |-> was, arr |-> arr, keysLen |-> n, values |-> values] /\ arr \in Arrays
        /\ was # "map" => Len(heap[arr]) = n
    BY <2>1 DEF Parts
  <2>3. objs[h].kind = was /\ objs[h].arr = arr /\ objs[h].keysLen = n /\ objs[h].values = values
    BY <2>2
  <2>4. Len(heap[arr]) = n
    BY <1>1, <2>3
  <2>5. PICK o : o = CloneOf(objs[h])
    OBVIOUS
  <2>6. o = [kind |-> "map", arr |-> arr, keysLen |-> n, values |-> values]
    BY <2>2, <2>5 DEF CloneOf
  <2>7. o.kind = "map" /\ o.arr = arr /\ o.keysLen = n /\ o.values = values
    BY <2>6
  <2>8. KeysIn(heap, o) = keys
    BY <2>2, <2>3, <2>7 DEF KeysIn, KeysOf
  <2>9. o \in ObjectRecords /\ n <= Len(heap[arr])
    BY <2>1, <2>6 DEF ObjectRecords, Parts
  <2>10. ObjectHolds(heap, o, wanted[h])
    BY <2>2, <2>7, <2>8, <2>9 DEF ObjectHolds
  <2>11. Apart(heap, g, o)
    <3>1. ASSUME NEW f \in Handles, f # g, IsLive(f), objs[f].arr = o.arr
          PROVE  objs[f].keysLen = o.keysLen /\ Len(heap[o.arr]) = o.keysLen
      <4>1. CASE f = h
        BY <2>3, <2>4, <2>7, <4>1
      <4>2. CASE f # h
        <5>1. Len(heap[objs[f].arr]) = objs[f].keysLen
          BY <1>2, <2>3, <2>7, <3>1, <4>2 DEF IObjects, SharedInv
        <5> QED BY <2>4, <2>7, <3>1, <5>1
      <4> QED BY <4>1, <4>2
    <3>2. ASSUME NEW k \in DOMAIN interning, interning[k] = o.arr PROVE o.keysLen = Len(k)
      BY <1>2, <2>3, <2>7, <3>2 DEF IObjects, TableInv
    <3> QED BY <3>1, <3>2 DEF Apart
  <2>12. heap \in [Arrays -> Slots]
    BY DEF IObjects, HeapInv
  <2> QED BY <1>1, <2>5, <2>10, <2>11, <2>12, StepKeeps
<1> QED BY <1>1, <1>2

\* The invariant holds at the start,
LEMMA ObjectsInitially == ObjectsInit => IObjects
<1> SUFFICES ASSUME ObjectsInit PROVE IObjects
  OBVIOUS
<1>1. /\ heap = [a \in Arrays |-> <<>>] /\ interning = <<>>
      /\ objs = [h \in Handles |-> Nil] /\ wanted = [h \in Handles |-> <<>>]
  BY DEF ObjectsInit
<1>2. Nil \in ObjectRecords /\ Nil.kind = "nil" /\ <<>> \in Slots
  BY DEF Nil, ObjectRecords, Slots
<1>3. HeapInv
  BY <1>1, <1>2 DEF HeapInv
<1>4. \A h \in Handles : ~IsLive(h)
  BY <1>1, <1>2 DEF IsLive
<1> QED BY <1>1, <1>3, <1>4 DEF IObjects, ObjectsInv, SharedInv, TableInv

\* and every step keeps it.
LEMMA ObjectsStep == ~CloneGrown /\ IObjects /\ [ObjectsNext]_objectVars => IObjects'
<1> SUFFICES ASSUME ~CloneGrown, IObjects, [ObjectsNext]_objectVars PROVE IObjects'
  OBVIOUS
<1>1. CASE UNCHANGED objectVars
  BY <1>1 DEF objectVars, IObjects, HeapInv, ObjectsInv, SharedInv, TableInv, IsLive
<1>2. ASSUME NEW h \in Handles, NEW c \in Contents, NewObjectMapCompact(h, c) \/ NewObject(h, c) PROVE IObjects'
  BY <1>2, NewObjectMapCompactKeeps, NewObjectKeeps
<1>3. CASE DecoderDone
  BY <1>3, DecoderDoneKeeps
<1>4. ASSUME NEW h \in Handles, NEW name \in Names, NEW v \in ObjectValues, Set(h, name, v) PROVE IObjects'
  BY <1>4, SetKeeps
<1>5. ASSUME NEW h \in Handles, NEW i \in 1 .. Cardinality(Names), NEW v \in ObjectValues, SetIdx(h, i, v) PROVE IObjects'
  <2>1. i \in Nat \ {0}
    OBVIOUS
  <2> QED BY <1>5, <2>1, SetIdxKeeps
<1>6. ASSUME NEW h \in Handles, NEW name \in Names, DeleteName(h, name) PROVE IObjects'
  BY <1>6, DeleteNameKeeps
<1>7. ASSUME NEW h \in Handles, NEW g \in Handles, Clone(h, g) PROVE IObjects'
  BY <1>7, CloneKeeps
<1> QED BY <1>1, <1>2, <1>3, <1>4, <1>5, <1>6, <1>7 DEF ObjectsNext

\* The state of the objects keeps its types: an object of strings holds
\* strings only, and has as many values as keys, whatever calls came on the
\* objects that share its keys; as long as no object is cloned whose slice
\* has room.
THEOREM ObjectTypes == ~CloneGrown /\ ObjectsSpec => []ObjectsTypeOK
<1> SUFFICES ASSUME ~CloneGrown PROVE ObjectsSpec => []ObjectsTypeOK
  OBVIOUS
<1>1. IObjects => ObjectsTypeOK
  <2> SUFFICES ASSUME IObjects PROVE ObjectsTypeOK
    OBVIOUS
  <2>1. heap \in [Arrays -> Seq(Names \cup {NoSlot})] /\ \A k \in DOMAIN interning : interning[k] \in Arrays
    BY DEF IObjects, HeapInv, TableInv, Slots
  <2>2. ASSUME NEW h \in Handles
        PROVE  /\ objs[h].kind \in {"nil", "map", "compact", "strings"}
               /\ objs[h].kind = "strings" => \A i \in DOMAIN objs[h].values : objs[h].values[i] \in StringValues
               /\ objs[h].kind # "nil" => objs[h].keysLen = Len(objs[h].values)
    <3>1. CASE IsLive(h)
      <4>1. PICK kind, arr, n, values, keys : Parts(h, kind, arr, n, values, keys)
        BY <3>1, LiveFacts
      <4>2. /\ kind \in {"map", "compact", "strings"} /\ values \in Seq(ObjectValues) /\ Len(values) = n
            /\ objs[h] = [kind |-> kind, arr |-> arr, keysLen |-> n, values |-> values]
            /\ kind = "strings" => \A i \in 1 .. n : values[i] \in StringValues
        BY <4>1 DEF Parts
      <4>3. DOMAIN values = 1 .. n
        BY <4>2
      <4> QED BY <4>2, <4>3
    <3>2. CASE ~IsLive(h)
      BY <3>2 DEF IsLive
    <3> QED BY <3>1, <3>2
  <2> QED BY <2>1, <2>2 DEF ObjectsTypeOK
<1>2. IObjects /\ [ObjectsNext]_objectVars => IObjects'
  BY ObjectsStep
<1> QED BY <1>1, <1>2, ObjectsInitially, PTL DEF ObjectsSpec

\* An object holds what was set in it: ObjectsHoldWhatWasSet, for every set of
\* names, every size of a compact object and every number of objects that
\* share key slices; as long as no object is cloned whose slice has room.
THEOREM ObjectsHold == ~CloneGrown /\ ObjectsSpec => []ObjectsHoldWhatWasSet
<1> SUFFICES ASSUME ~CloneGrown PROVE ObjectsSpec => []ObjectsHoldWhatWasSet
  OBVIOUS
<1>1. IObjects => ObjectsHoldWhatWasSet
  <2> SUFFICES ASSUME IObjects, NEW h \in Handles, objs[h].kind # "nil"
               PROVE  /\ ToSet(KeysOf(objs[h])) = DOMAIN wanted[h] /\ Len(KeysOf(objs[h])) = Cardinality(DOMAIN wanted[h])
                      /\ \A i \in DOMAIN KeysOf(objs[h]) : objs[h].values[i] = wanted[h][KeysOf(objs[h])[i]]
                      /\ \A name \in DOMAIN wanted[h] : FindKey(KeysOf(objs[h]), name).found
    BY DEF ObjectsHoldWhatWasSet
  <2>1. PICK kind, arr, n, values, keys : Parts(h, kind, arr, n, values, keys)
    BY LiveFacts DEF IsLive
  <2>2. PICK w : w = wanted[h]
    OBVIOUS
  <2>3. KeysOf(objs[h]) = keys /\ objs[h].values = values /\ Hold(keys, values, w)
    BY <2>1, <2>2 DEF Parts
  <2>4. /\ keys \in Seq(Names) /\ Ordered(keys)
        /\ \A i \in 1 .. Len(keys) : keys[i] \in DOMAIN w /\ values[i] = w[keys[i]]
        /\ \A m \in DOMAIN w : \E i \in 1 .. Len(keys) : keys[i] = m
    BY <2>3 DEF Hold
  <2>5. DOMAIN keys = 1 .. Len(keys)
    BY <2>4
  <2>6. ToSet(keys) = DOMAIN w
    <3>1. ToSet(keys) = {keys[i] : i \in 1 .. Len(keys)}
      BY <2>5 DEF ToSet
    <3>2. PICK D, m : D = DOMAIN w /\ m = Len(keys)
      OBVIOUS
    <3>3. (\A i \in 1 .. m : keys[i] \in D) /\ \A x \in D : \E i \in 1 .. m : keys[i] = x
      BY <2>4, <3>2
    <3>4. {keys[i] : i \in 1 .. m} = D
      BY <3>3, Zenon
    <3> QED BY <3>1, <3>2, <3>4
  <2>7. Len(keys) = Cardinality(DOMAIN w)
    <3>1. keys \in Seq(Nat)
      BY <2>4, NamesAreNumbers
    <3>2. PICK D : D = DOMAIN w
      OBVIOUS
    <3>3. (\A i \in 1 .. Len(keys) : keys[i] \in D) /\ \A x \in D : \E i \in 1 .. Len(keys) : keys[i] = x
      BY <2>4, <3>2
    <3>4. Len(keys) = Cardinality(D)
      BY <2>4, <3>1, <3>3, OrderedCount
    <3> QED BY <3>2, <3>4
  <2>8. ASSUME NEW name \in DOMAIN w PROVE FindKey(keys, name).found
    <3>1. name \in Names
      BY <2>4
    <3> QED BY <2>3, <3>1, FindHeld
  <2> QED BY <2>2, <2>3, <2>4, <2>5, <2>6, <2>7, <2>8
<1>2. IObjects /\ [ObjectsNext]_objectVars => IObjects'
  BY ObjectsStep
<1> QED BY <1>1, <1>2, ObjectsInitially, PTL DEF ObjectsSpec

-----------------------------------------------------------------------------
(* The recursive functions of the preview API, unfolded.                   *)

\* Data along a path.
LEMMA PathFacts ==
  ASSUME NEW d, NEW path, Len(path) \in Nat
  PROVE  LET g == AlongPath(d, path)
         IN  /\ g[0] = d
             /\ \A k \in 1 .. Len(path) : g[k] = MemberOf(g[k - 1], path[k])
<1>0. PICK n, base : n = Len(path) /\ base = d
  OBVIOUS
<1> DEFINE Step(k, v) == MemberOf(v, path[k])
           Rec(f, m) == [k \in 0 .. m |-> IF k = 0 THEN base ELSE Step(k, f[k - 1])]
           S == {m \in Nat : \E f : f = Rec(f, m)}
<1>1. n \in Nat
  BY <1>0
<1>2. AlongPath(d, path) = CHOOSE f : f = Rec(f, n)
  BY <1>0 DEF AlongPath
<1> HIDE DEF Step
<1>3. 0 \in S
  <2>1. [k \in 0 .. 0 |-> base] = Rec([k \in 0 .. 0 |-> base], 0)
    OBVIOUS
  <2> QED BY <2>1
<1>4. ASSUME NEW m \in Nat, m \in S PROVE m + 1 \in S
  <2>1. PICK f : f = Rec(f, m)
    BY <1>4
  <2> DEFINE h == [k \in 0 .. m + 1 |-> IF k = 0 THEN base ELSE Step(k, f[k - 1])]
  <2>2. \A k \in 0 .. m : h[k] = f[k]
    BY <2>1
  <2>3. \A k \in 0 .. m + 1 : k # 0 => k - 1 \in 0 .. m
    OBVIOUS
  <2>4. \A k \in 0 .. m + 1 : k # 0 => h[k - 1] = f[k - 1]
    BY <2>2, <2>3
  <2> DEFINE x == Rec(h, m + 1)
  <2>5. \A k \in 0 .. m + 1 : h[k] = x[k]
    BY <2>4
  <2>6. h = x
    BY <2>5
  <2>7. h = Rec(h, m + 1)
    BY <2>6
  <2> HIDE DEF h
  <2>8. \E e : e = Rec(e, m + 1)
    BY <2>7
  <2> QED BY <2>8
<1> HIDE DEF S
<1>5. n \in S
  BY <1>1, <1>3, <1>4, Induction
<1>6. PICK g : g = AlongPath(d, path)
  OBVIOUS
<1>7. g = Rec(g, n)
  BY <1>2, <1>5, <1>6 DEF S
<1>8. g[0] = base /\ \A k \in 1 .. n : g[k] = Step(k, g[k - 1])
  BY <1>1, <1>7
<1> QED BY <1>0, <1>6, <1>8 DEF Step

\* There are seven options.
LEMMA SevenOptions ==
  /\ Len(OptionOrder) = 7
  /\ OptionOrder[1] = "wasm" /\ OptionOrder[2] = "environment" /\ OptionOrder[3] = "query" /\ OptionOrder[4] = "basic"
  /\ OptionOrder[5] = "ndb" /\ OptionOrder[6] = "print" /\ OptionOrder[7] = "provenance"
  BY DEF OptionOrder

\* The compiler after each of them.
LEMMA CompilerFacts ==
  ASSUME NEW r, NEW stored
  PROVE  LET g == CompilerHooks(r, stored)
         IN  /\ g[0] = EmptyCompiler
             /\ \A k \in 1 .. Len(OptionOrder) : g[k] = IF g[k - 1].failed \/ ~Hooked(k, r, "compiler") THEN g[k - 1]
                                                       ELSE PrepareCompiler(g[k - 1], OptionOrder[k], r, stored)
<1>0. PICK n, base : n = Len(OptionOrder) /\ base = EmptyCompiler
  OBVIOUS
<1> DEFINE Step(k, v) == IF v.failed \/ ~Hooked(k, r, "compiler") THEN v ELSE PrepareCompiler(v, OptionOrder[k], r, stored)
           Rec(f, m) == [k \in 0 .. m |-> IF k = 0 THEN base ELSE Step(k, f[k - 1])]
           S == {m \in Nat : \E f : f = Rec(f, m)}
<1>1. n \in Nat
  BY <1>0, SevenOptions
<1>2. CompilerHooks(r, stored) = CHOOSE f : f = Rec(f, n)
  BY <1>0 DEF CompilerHooks
<1> HIDE DEF Step
<1>3. 0 \in S
  <2>1. [k \in 0 .. 0 |-> base] = Rec([k \in 0 .. 0 |-> base], 0)
    OBVIOUS
  <2> QED BY <2>1
<1>4. ASSUME NEW m \in Nat, m \in S PROVE m + 1 \in S
  <2>1. PICK f : f = Rec(f, m)
    BY <1>4
  <2> DEFINE h == [k \in 0 .. m + 1 |-> IF k = 0 THEN base ELSE Step(k, f[k - 1])]
  <2>2. \A k \in 0 .. m : h[k] = f[k]
    BY <2>1
  <2>3. \A k \in 0 .. m + 1 : k # 0 => k - 1 \in 0 .. m
    OBVIOUS
  <2>4. \A k \in 0 .. m + 1 : k # 0 => h[k - 1] = f[k - 1]
    BY <2>2, <2>3
  <2> DEFINE x == Rec(h, m + 1)
  <2>5. \A k \in 0 .. m + 1 : h[k] = x[k]
    BY <2>4
  <2>6. h = x
    BY <2>5
  <2>7. h = Rec(h, m + 1)
    BY <2>6
  <2> HIDE DEF h
  <2>8. \E e : e = Rec(e, m + 1)
    BY <2>7
  <2> QED BY <2>8
<1> HIDE DEF S
<1>5. n \in S
  BY <1>1, <1>3, <1>4, Induction
<1>6. PICK g : g = CompilerHooks(r, stored)
  OBVIOUS
<1>7. g = Rec(g, n)
  BY <1>2, <1>5, <1>6 DEF S
<1>8. g[0] = base /\ \A k \in 1 .. n : g[k] = Step(k, g[k - 1])
  BY <1>1, <1>7
<1> QED BY <1>0, <1>6, <1>8 DEF Step

\* The response after each of them.
LEMMA ResultFacts ==
  ASSUME NEW p, NEW r
  PROVE  LET g == ResultHooks(p, r)
         IN  /\ g[0] = NoResponse
             /\ \A k \in 1 .. Len(OptionOrder) : g[k] = IF ~Hooked(k, r, "result") THEN g[k - 1] ELSE AddToResponse(g[k - 1], OptionOrder[k], p, r)
<1>0. PICK n, base : n = Len(OptionOrder) /\ base = NoResponse
  OBVIOUS
<1> DEFINE Step(k, v) == IF ~Hooked(k, r, "result") THEN v ELSE AddToResponse(v, OptionOrder[k], p, r)
           Rec(f, m) == [k \in 0 .. m |-> IF k = 0 THEN base ELSE Step(k, f[k - 1])]
           S == {m \in Nat : \E f : f = Rec(f, m)}
<1>1. n \in Nat
  BY <1>0, SevenOptions
<1>2. ResultHooks(p, r) = CHOOSE f : f = Rec(f, n)
  BY <1>0 DEF ResultHooks
<1> HIDE DEF Step
<1>3. 0 \in S
  <2>1. [k \in 0 .. 0 |-> base] = Rec([k \in 0 .. 0 |-> base], 0)
    OBVIOUS
  <2> QED BY <2>1
<1>4. ASSUME NEW m \in Nat, m \in S PROVE m + 1 \in S
  <2>1. PICK f : f = Rec(f, m)
    BY <1>4
  <2> DEFINE h == [k \in 0 .. m + 1 |-> IF k = 0 THEN base ELSE Step(k, f[k - 1])]
  <2>2. \A k \in 0 .. m : h[k] = f[k]
    BY <2>1
  <2>3. \A k \in 0 .. m + 1 : k # 0 => k - 1 \in 0 .. m
    OBVIOUS
  <2>4. \A k \in 0 .. m + 1 : k # 0 => h[k - 1] = f[k - 1]
    BY <2>2, <2>3
  <2> DEFINE x == Rec(h, m + 1)
  <2>5. \A k \in 0 .. m + 1 : h[k] = x[k]
    BY <2>4
  <2>6. h = x
    BY <2>5
  <2>7. h = Rec(h, m + 1)
    BY <2>6
  <2> HIDE DEF h
  <2>8. \E e : e = Rec(e, m + 1)
    BY <2>7
  <2> QED BY <2>8
<1> HIDE DEF S
<1>5. n \in S
  BY <1>1, <1>3, <1>4, Induction
<1>6. PICK g : g = ResultHooks(p, r)
  OBVIOUS
<1>7. g = Rec(g, n)
  BY <1>2, <1>5, <1>6 DEF S
<1>8. g[0] = base /\ \A k \in 1 .. n : g[k] = Step(k, g[k - 1])
  BY <1>1, <1>7
<1> QED BY <1>0, <1>6, <1>8 DEF Step

\* The options that have a hook for the compiler, and for the result.
LEMMA HookFacts ==
  ASSUME NEW r
  PROVE  /\ ~Hooked(1, r, "compiler") /\ Hooked(2, r, "compiler") /\ ~Hooked(3, r, "compiler") /\ Hooked(4, r, "compiler")
         /\ ~Hooked(5, r, "compiler") /\ (Hooked(6, r, "compiler") <=> r.print) /\ ~Hooked(7, r, "compiler")
         /\ ~Hooked(1, r, "result") /\ ~Hooked(2, r, "result") /\ Hooked(3, r, "result") /\ Hooked(4, r, "result")
         /\ ~Hooked(5, r, "result") /\ (Hooked(6, r, "result") <=> r.print) /\ (Hooked(7, r, "result") <=> r.provenance)
<1>1. /\ Registers("wasm", r) = {"rego"}
      /\ Registers("environment", r) = {"storage", "compiler", "rego"}
      /\ Registers("query", r) = {"rego", "result"}
      /\ Registers("basic", r) = {"compiler", "rego", "eval", "result"}
      /\ Registers("ndb", r) = (IF r.ndb = "none" THEN {} ELSE {"eval"})
      /\ Registers("print", r) = (IF r.print THEN {"compiler", "rego", "result"} ELSE {})
      /\ Registers("provenance", r) = (IF r.provenance THEN {"result"} ELSE {})
  BY DEF Registers
<1> QED BY <1>1, SevenOptions DEF Hooked

\* The modules of a compiler are those that a server would have that has the
\* modules of the request in place of its own; print calls are as there if
\* printing is enabled.
IdealModules(r, stored) == Over(r.modules, IF r.sandbox THEN << >> ELSE stored)
Compiled(r, stored, mods) ==
    /\ DOMAIN mods = DOMAIN IdealModules(r, stored)
    /\ \A n \in DOMAIN mods :
         /\ mods[n].package = IdealModules(r, stored)[n].package /\ mods[n].rule = IdealModules(r, stored)[n].rule
         /\ mods[n].looks = IdealModules(r, stored)[n].looks
         /\ r.print => (mods[n].prints <=> IdealModules(r, stored)[n].prints)

\* Compilation gives such modules.
LEMMA CompiledRight ==
  ASSUME NEW r \in PreviewRequests, NEW stored, NEW print, r.print => print
  PROVE  Compiled(r, stored, CompiledModules(r, stored, print))
<1>1. PICK mods, ideal : mods = LoadedModules(r, stored) /\ ideal = IdealModules(r, stored)
  OBVIOUS
<1>2. DOMAIN << >> = {}
  OBVIOUS
<1>3. DOMAIN mods = DOMAIN ideal /\ \A n \in DOMAIN mods : mods[n] = ideal[n]
  BY <1>1, <1>2 DEF LoadedModules, IdealModules, Over
<1>4. \A n \in DOMAIN r.modules : n \in DOMAIN mods => mods[n] = r.modules[n]
  BY <1>1 DEF LoadedModules, Over
<1>5. PICK c : c = CompiledModules(r, stored, print)
  OBVIOUS
<1>6. c = [n \in DOMAIN mods |-> IF n \in DOMAIN r.modules THEN [mods[n] EXCEPT !.prints = @ /\ print] ELSE mods[n]]
  BY <1>1, <1>5 DEF CompiledModules
<1>7. ASSUME NEW n \in DOMAIN mods
      PROVE  /\ c[n].package = mods[n].package /\ c[n].rule = mods[n].rule /\ c[n].looks = mods[n].looks
             /\ r.print => (c[n].prints <=> mods[n].prints)
  <2>1. CASE n \in DOMAIN r.modules
    <3>1. PICK x : x = mods[n]
      OBVIOUS
    <3>2. DOMAIN x = ModuleFields
      BY <1>4, <2>1, <3>1, PreviewAssumption
    <3>3. c[n] = [x EXCEPT !.prints = x.prints /\ print]
      BY <1>6, <2>1, <3>1
    <3>4. /\ c[n].package = x.package /\ c[n].rule = x.rule /\ c[n].looks = x.looks
      BY <3>2, <3>3 DEF ModuleFields
    <3>5. c[n].prints <=> (x.prints /\ print)
      BY <3>2, <3>3 DEF ModuleFields
    <3> QED BY <3>1, <3>4, <3>5
  <2>2. CASE n \notin DOMAIN r.modules
    BY <1>6, <2>2
  <2> QED BY <2>1, <2>2
<1> QED BY <1>1, <1>3, <1>5, <1>6, <1>7 DEF Compiled

\* What the hooks leave.
LEMMA HooksLeave ==
  ASSUME NEW r, NEW stored
  PROVE  LET c == RunCompilerHooks(r, stored)
         IN  /\ DOMAIN c = DOMAIN EmptyCompiler /\ (~c.failed /\ r.print => c.print)
             /\ c.modules = IF ~r.sandbox /\ r.modules = << >> THEN CompiledModules(r, stored, FALSE) ELSE << >>
<1>1. PICK g : g = CompilerHooks(r, stored)
  OBVIOUS
<1>2. g[0] = EmptyCompiler /\ \A k \in 1 .. 7 : g[k] = IF g[k - 1].failed \/ ~Hooked(k, r, "compiler") THEN g[k - 1]
                                                       ELSE PrepareCompiler(g[k - 1], OptionOrder[k], r, stored)
  BY <1>1, CompilerFacts, SevenOptions
<1>3. \A k \in 1 .. 7 : g[k] = IF g[k - 1].failed \/ ~Hooked(k, r, "compiler") THEN g[k - 1]
                                                       ELSE PrepareCompiler(g[k - 1], OptionOrder[k], r, stored)
  BY <1>2
<1>4. /\ g[1] = g[0] /\ g[3] = g[2] /\ g[5] = g[4] /\ g[7] = g[6]
  <2>1. g[1] = g[1 - 1] /\ g[3] = g[3 - 1] /\ g[5] = g[5 - 1] /\ g[7] = g[7 - 1]
    BY <1>3, HookFacts
  <2> QED BY <2>1
<1>5. /\ g[2] = IF g[1].failed THEN g[1] ELSE PrepareCompiler(g[1], "environment", r, stored)
      /\ g[4] = IF g[3].failed THEN g[3] ELSE PrepareCompiler(g[3], "basic", r, stored)
      /\ g[6] = IF g[5].failed \/ ~r.print THEN g[5] ELSE PrepareCompiler(g[5], "print", r, stored)
  <2>1. /\ g[2] = IF g[2 - 1].failed THEN g[2 - 1] ELSE PrepareCompiler(g[2 - 1], "environment", r, stored)
    BY <1>3, HookFacts, SevenOptions
  <2>2. g[4] = IF g[4 - 1].failed THEN g[4 - 1] ELSE PrepareCompiler(g[4 - 1], "basic", r, stored)
    BY <1>3, HookFacts, SevenOptions
  <2>3. g[6] = IF g[6 - 1].failed \/ ~r.print THEN g[6 - 1] ELSE PrepareCompiler(g[6 - 1], "print", r, stored)
    BY <1>3, HookFacts, SevenOptions
  <2> QED BY <2>1, <2>2, <2>3
<1>6. RunCompilerHooks(r, stored) = g[7]
  BY <1>1, SevenOptions DEF RunCompilerHooks
<1>7. PICK compiled, fails : compiled = CompiledModules(r, stored, FALSE) /\ fails = CompileFails(LoadedModules(r, stored), FALSE)
  OBVIOUS
<1>8. /\ g[1].failed = FALSE /\ g[1].print = FALSE /\ g[1].strict = FALSE /\ g[1].modules = << >>
      /\ DOMAIN g[1] = DOMAIN EmptyCompiler
  BY <1>2, <1>4 DEF EmptyCompiler
<1>10. g[2] = IF ~r.sandbox /\ r.modules = << >> THEN [g[1] EXCEPT !.modules = compiled, !.failed = fails] ELSE g[1]
  BY <1>5, <1>7, <1>8 DEF PrepareCompiler
<1>11. /\ DOMAIN g[2] = DOMAIN EmptyCompiler
       /\ g[2].modules = IF ~r.sandbox /\ r.modules = << >> THEN compiled ELSE << >>
  BY <1>8, <1>10 DEF EmptyCompiler
<1>12. g[4] = IF g[2].failed THEN g[2] ELSE [g[2] EXCEPT !.strict = r.strict]
  BY <1>4, <1>5 DEF PrepareCompiler
<1>13. DOMAIN g[4] = DOMAIN EmptyCompiler /\ g[4].modules = g[2].modules /\ (g[2].failed => g[4].failed)
  BY <1>11, <1>12 DEF EmptyCompiler
<1>14. g[6] = IF g[4].failed \/ ~r.print THEN g[4] ELSE [g[4] EXCEPT !.print = TRUE]
  BY <1>4, <1>5 DEF PrepareCompiler
<1>15. DOMAIN g[6] = DOMAIN EmptyCompiler /\ g[6].modules = g[4].modules /\ (~g[6].failed /\ r.print => g[6].print)
  BY <1>13, <1>14 DEF EmptyCompiler
<1> QED BY <1>4, <1>6, <1>7, <1>11, <1>13, <1>15

\* A compiler that is ready has the modules it should.
LEMMA ReadyRight ==
  ASSUME NEW r \in PreviewRequests, NEW stored, ~ReadyCompiler(r, stored).failed
  PROVE  Compiled(r, stored, ReadyCompiler(r, stored).modules)
<1>1. PICK c, d : c = RunCompilerHooks(r, stored) /\ d = ReadyCompiler(r, stored)
  OBVIOUS
<1>2. d = IF r.modules = << >> THEN c ELSE [c EXCEPT !.modules = CompiledModules(r, stored, c.print)]
  BY <1>1 DEF ReadyCompiler
<1>3. /\ DOMAIN c = DOMAIN EmptyCompiler /\ (~c.failed /\ r.print => c.print)
      /\ c.modules = IF ~r.sandbox /\ r.modules = << >> THEN CompiledModules(r, stored, FALSE) ELSE << >>
  BY <1>1, HooksLeave
<1>4. /\ d.failed <=> c.failed
      /\ r.print => c.print
      /\ c.modules = IF ~r.sandbox /\ r.modules = << >> THEN CompiledModules(r, stored, FALSE) ELSE << >>
  BY <1>1, <1>2, <1>3 DEF EmptyCompiler
<1>5. CASE r.modules # << >>
  <2>1. d.modules = CompiledModules(r, stored, c.print)
    BY <1>2, <1>3, <1>5 DEF EmptyCompiler
  <2> QED BY <1>1, <1>4, <2>1, CompiledRight
<1>6. CASE r.modules = << >> /\ ~r.sandbox
  <2>1. PICK mods : mods = CompiledModules(r, stored, FALSE)
    OBVIOUS
  <2>2. DOMAIN r.modules = {}
    BY <1>6
  <2>3. CompiledModules(r, stored, FALSE) = CompiledModules(r, stored, TRUE)
    BY <2>2 DEF CompiledModules
  <2>4. Compiled(r, stored, CompiledModules(r, stored, TRUE))
    BY CompiledRight
  <2> QED BY <1>1, <1>2, <1>4, <1>6, <2>3, <2>4
<1>7. CASE r.modules = << >> /\ r.sandbox
  <2>1. d.modules = << >> /\ DOMAIN << >> = {}
    BY <1>2, <1>4, <1>7
  <2>2. DOMAIN IdealModules(r, stored) = {}
    BY <1>7, <2>1 DEF IdealModules, Over
  <2> QED BY <1>1, <2>1, <2>2 DEF Compiled
<1> QED BY <1>5, <1>6, <1>7

-----------------------------------------------------------------------------
(* What a preview sees is what the ideal server holds.                     *)

\* The stores of a preview of r at some contents of the primary store.
Sees(p, r, contents) ==
    p.sent = r.data /\ p.primary = IF r.sandbox THEN NoData ELSE contents.data

\* The ideal server, field by field; nothing is below NoData.
LEMMA OverlayFacts ==
  ASSUME NEW r, NEW contents
  PROVE  LET base == IF r.sandbox THEN << >> ELSE contents.data.sub
         IN  /\ Overlay(r, contents).sent = NoData /\ Overlay(r, contents).modules = IdealModules(r, contents.modules)
             /\ Overlay(r, contents).primary.sub = Over(r.data.sub, base)
  BY DEF Overlay, TreeOf, IdealModules

\* NoData has no members.
LEMMA NoMembers == DOMAIN NoData.sub = {} /\ \A name : MemberOf(NoData, name) = NoData
<1>1. NoData.sub = << >> /\ DOMAIN << >> = {}
  BY DEF NoData, LeafOf
<1> QED BY <1>1 DEF MemberOf

\* The members of the primary store of a preview.
LEMMA PrimaryFacts ==
  ASSUME NEW p, NEW r, NEW contents, Sees(p, r, contents), NEW key
  PROVE  MemberOf(p.primary, key) =
           IF ~r.sandbox /\ key \in DOMAIN contents.data.sub THEN contents.data.sub[key] ELSE NoData
  BY NoMembers DEF Sees, MemberOf

\* Those of the ideal server: what the request brings goes first.
LEMMA IdealMember ==
  ASSUME NEW p, NEW r, NEW contents, Sees(p, r, contents), NEW key
  PROVE  MemberOf(Overlay(r, contents).primary, key) =
           IF key \in DOMAIN r.data.sub THEN r.data.sub[key] ELSE MemberOf(p.primary, key)
<1>1. PICK base, e : /\ base = (IF r.sandbox THEN << >> ELSE contents.data.sub)
                     /\ e = Overlay(r, contents).primary
  OBVIOUS
<1>2. e.sub = Over(r.data.sub, base)
  BY <1>1, OverlayFacts
<1>3. /\ key \in DOMAIN e.sub <=> key \in DOMAIN r.data.sub \/ key \in DOMAIN base
      /\ key \in DOMAIN e.sub => e.sub[key] = IF key \in DOMAIN r.data.sub THEN r.data.sub[key] ELSE base[key]
  BY <1>2 DEF Over
<1>4. DOMAIN << >> = {}
  OBVIOUS
<1>5. MemberOf(p.primary, key) = IF key \in DOMAIN base THEN base[key] ELSE NoData
  BY <1>1, <1>4, PrimaryFacts
<1> QED BY <1>1, <1>3, <1>5 DEF MemberOf

\* A key has the same value for both.
LEMMA SameGet ==
  ASSUME NEW p, NEW r, NEW contents, Sees(p, r, contents), NEW key
  PROVE  StoreGet(p, key) = StoreGet(Overlay(r, contents), key)
<1>1. StoreGet(Overlay(r, contents), key) = MemberOf(Overlay(r, contents).primary, key)
  BY OverlayFacts, NoMembers DEF StoreGet
<1> QED BY <1>1, IdealMember DEF StoreGet, Sees

\* An iteration also visits the members that are covered, nothing else.
LEMMA SameIter ==
  ASSUME NEW p, NEW r, NEW contents, Sees(p, r, contents)
  PROVE  /\ StoreIter(Overlay(r, contents)) \subseteq StoreIter(p)
         /\ StoreIter(p) \ StoreIter(Overlay(r, contents)) \subseteq (IF r.sandbox THEN {} ELSE Shadowed(r, contents))
<1>1. PICK mine, base, e : /\ base = (IF r.sandbox THEN << >> ELSE contents.data.sub)
                           /\ e = Over(mine, base) /\ mine = r.data.sub
  OBVIOUS
<1>2. DOMAIN << >> = {}
  OBVIOUS
<1>3. p.sent.sub = mine /\ DOMAIN p.primary.sub = DOMAIN base /\ \A k \in DOMAIN base : p.primary.sub[k] = base[k]
  BY <1>1, <1>2, NoMembers DEF Sees
<1>4. StoreIter(p) = {<<k, mine[k]>> : k \in DOMAIN mine} \cup {<<k, base[k]>> : k \in DOMAIN base}
  BY <1>3 DEF StoreIter
<1>5. Overlay(r, contents).primary.sub = e /\ DOMAIN Overlay(r, contents).sent.sub = {}
  BY <1>1, OverlayFacts, NoMembers
<1>6. StoreIter(Overlay(r, contents)) = {<<k, e[k]>> : k \in DOMAIN e}
  BY <1>5 DEF StoreIter
<1>7. DOMAIN e = DOMAIN mine \cup DOMAIN base /\ \A k \in DOMAIN e : e[k] = IF k \in DOMAIN mine THEN mine[k] ELSE base[k]
  BY <1>1 DEF Over
<1>8. StoreIter(Overlay(r, contents)) \subseteq StoreIter(p)
  BY <1>4, <1>6, <1>7
<1>9. ASSUME NEW x \in StoreIter(p), x \notin StoreIter(Overlay(r, contents))
      PROVE  \E k \in DOMAIN base : k \in DOMAIN mine /\ x = <<k, base[k]>>
  <2>1. CASE \E k \in DOMAIN mine : x = <<k, mine[k]>>
    BY <1>6, <1>7, <1>9, <2>1
  <2>2. CASE \E k \in DOMAIN base : x = <<k, base[k]>>
    <3>1. PICK k \in DOMAIN base : x = <<k, base[k]>>
      BY <2>2
    <3>2. k \in DOMAIN e
      BY <1>7, <3>1
    <3>3. k \notin DOMAIN mine => e[k] = base[k]
      BY <1>7, <3>2
    <3> QED BY <1>6, <1>9, <3>1, <3>2, <3>3
  <2> QED BY <1>4, <1>9, <2>1, <2>2
<1>10. CASE r.sandbox
  BY <1>1, <1>2, <1>8, <1>9, <1>10
<1>11. CASE ~r.sandbox
  <2>1. base = contents.data.sub
    BY <1>1, <1>11
  <2> QED BY <1>1, <1>8, <1>9, <1>11, <2>1 DEF Shadowed
<1> QED BY <1>10, <1>11

\* A look-up gives the same, but for such an iteration.
LEMMA SameLookUp ==
  ASSUME NEW p, NEW r, NEW contents, Sees(p, r, contents), NEW looks
  PROVE  /\ LookUp(Overlay(r, contents), looks) \subseteq LookUp(p, looks)
         /\ LookUp(p, looks) \ LookUp(Overlay(r, contents), looks) \subseteq (IF r.sandbox THEN {} ELSE Shadowed(r, contents))
<1>1. CASE looks = <<"*">>
  BY <1>1, SameIter DEF LookUp
<1>2. CASE looks # <<"*">>
  <2>1. PICK e : e = Overlay(r, contents)
    OBVIOUS
  <2>2. StoreGet(p, Head(looks)) = StoreGet(e, Head(looks))
    BY <2>1, SameGet
  <2>3. LookUp(p, looks) = LookUp(e, looks)
    BY <1>2, <2>2 DEF LookUp
  <2> QED BY <2>1, <2>3
<1> QED BY <1>1, <1>2

\* The same rules are at a reference, and so is what they give.
LEMMA SameRules ==
  ASSUME NEW r, NEW stored, NEW mods, Compiled(r, stored, mods), NEW ref
  PROVE  RulesAt(mods, ref) = RulesAt(IdealModules(r, stored), ref)
  BY DEF RulesAt, Compiled

\* So a query gives the same, but for such an iteration.
LEMMA SameResult ==
  ASSUME NEW p, NEW r, NEW contents, Sees(p, r, contents), NEW mods, Compiled(r, contents.modules, mods)
  PROVE  LET e == Overlay(r, contents)
             ought == Evaluate(e, e.modules, r)
         IN  /\ ought \subseteq Evaluate(p, mods, r)
             /\ Evaluate(p, mods, r) \ ought \subseteq (IF r.sandbox THEN {} ELSE Shadowed(r, contents))
<1>1. PICK e, ideal, ref, rules, rest : /\ e = Overlay(r, contents) /\ ideal = IdealModules(r, contents.modules) /\ ref = QueryRef(r)
                                        /\ rules = RulesAt(mods, ref) /\ rest = IF r.sandbox THEN {} ELSE Shadowed(r, contents)
  OBVIOUS
<1>2. e.modules = ideal /\ RulesAt(ideal, ref) = rules
  BY <1>1, OverlayFacts, SameRules
<1>3. \A looks : LookUp(e, looks) \subseteq LookUp(p, looks) /\ LookUp(p, looks) \ LookUp(e, looks) \subseteq rest
  BY <1>1, SameLookUp
<1>4. \A n \in rules : mods[n].looks = ideal[n].looks
  BY <1>1 DEF Compiled, RulesAt
<1>5. CASE rules = {}
  <2>1. Evaluate(e, ideal, r) = LookUp(e, ref) /\ Evaluate(p, mods, r) = LookUp(p, ref)
    BY <1>1, <1>2, <1>5 DEF Evaluate
  <2> QED BY <1>1, <1>2, <1>3, <2>1
<1>6. CASE rules # {}
  <2>1. /\ Evaluate(e, ideal, r) = UNION {LookUp(e, ideal[n].looks) : n \in rules}
        /\ Evaluate(p, mods, r) = UNION {LookUp(p, mods[n].looks) : n \in rules}
    BY <1>1, <1>2, <1>6 DEF Evaluate
  <2>2. Evaluate(p, mods, r) = UNION {LookUp(p, ideal[n].looks) : n \in rules}
    BY <1>4, <2>1
  <2>3. Evaluate(e, ideal, r) \subseteq Evaluate(p, mods, r)
    BY <1>3, <2>1, <2>2
  <2>4. Evaluate(p, mods, r) \ Evaluate(e, ideal, r) \subseteq rest
    BY <1>3, <2>1, <2>2
  <2> QED BY <1>1, <1>2, <2>3, <2>4
<1> QED BY <1>5, <1>6

\* So do the print calls, if printing is enabled.
LEMMA SamePrinted ==
  ASSUME NEW r, r.print, NEW contents, NEW mods, Compiled(r, contents.modules, mods)
  PROVE  Printed(mods, r) = Printed(Overlay(r, contents).modules, r)
<1>1. PICK ideal, ref : ideal = IdealModules(r, contents.modules) /\ ref = QueryRef(r)
  OBVIOUS
<1>2. RulesAt(mods, ref) = RulesAt(ideal, ref) /\ Overlay(r, contents).modules = ideal
  BY <1>1, SameRules, OverlayFacts
<1>3. \A n \in RulesAt(mods, ref) : mods[n].prints <=> ideal[n].prints
  BY <1>1 DEF Compiled, RulesAt
<1> QED BY <1>1, <1>2, <1>3 DEF Printed

\* What is at a path depends on the member it starts with.
LEMMA SamePath ==
  ASSUME NEW d, NEW e, NEW path, Len(path) \in Nat \ {0}, MemberOf(d, path[1]) = MemberOf(e, path[1])
  PROVE  DataAt(d, path) = DataAt(e, path)
<1>1. PICK n \in Nat \ {0} : n = Len(path)
  OBVIOUS
<1>2. PICK f, g : f = AlongPath(d, path) /\ g = AlongPath(e, path)
  OBVIOUS
<1>3. /\ f[0] = d /\ \A k \in 1 .. n : f[k] = MemberOf(f[k - 1], path[k])
      /\ g[0] = e /\ \A k \in 1 .. n : g[k] = MemberOf(g[k - 1], path[k])
  BY <1>1, <1>2, PathFacts
<1>4. f[1] = g[1]
  <2>1. f[1] = MemberOf(f[1 - 1], path[1]) /\ g[1] = MemberOf(g[1 - 1], path[1])
    BY <1>3
  <2> QED BY <1>3, <2>1
<1> DEFINE K == {k \in 0 .. n : k > 0 => f[k] = g[k]}
<1>5. 0 \in K
  OBVIOUS
<1>6. ASSUME NEW k \in 1 .. n, k - 1 \in K PROVE k \in K
  <2>1. CASE k = 1
    BY <1>4, <2>1
  <2>2. CASE k # 1
    <3>1. f[k - 1] = g[k - 1]
      BY <1>6, <2>2
    <3> QED BY <1>3, <3>1
  <2> QED BY <2>1, <2>2
<1> HIDE DEF K
<1>7. n \in K
  <2>1. 0 .. n \subseteq K
    BY <1>5, <1>6, AlongList
  <2> QED BY <2>1
<1>8. f[n] = g[n]
  BY <1>7 DEF K
<1> QED BY <1>1, <1>2, <1>8 DEF DataAt

\* Nothing is below NoData.
LEMMA NothingBelow ==
  ASSUME NEW path, Len(path) \in Nat
  PROVE  DataAt(NoData, path) = NoData
<1>1. PICK n \in Nat : n = Len(path)
  OBVIOUS
<1>2. PICK f : f = AlongPath(NoData, path)
  OBVIOUS
<1>3. f[0] = NoData /\ \A k \in 1 .. n : f[k] = MemberOf(f[k - 1], path[k])
  BY <1>1, <1>2, PathFacts
<1> DEFINE K == {k \in 0 .. n : f[k] = NoData}
<1>4. 0 \in K
  BY <1>3
<1>5. ASSUME NEW k \in 1 .. n, k - 1 \in K PROVE k \in K
  BY <1>3, <1>5, NoMembers
<1> HIDE DEF K
<1>6. 0 .. n \subseteq K
  BY <1>4, <1>5, AlongList
<1>7. f[n] = NoData
  BY <1>6 DEF K
<1> QED BY <1>1, <1>2, <1>7 DEF DataAt

\* Without data for it in the request, both read the same of the server's
\* own data.
LEMMA SameRead ==
  ASSUME NEW p, NEW r, NEW contents, Sees(p, r, contents), NEW path, Len(path) \in Nat \ {0}, path[1] \notin DOMAIN r.data.sub
  PROVE  StoreRead(p, path) = StoreRead(Overlay(r, contents), path)
<1>1. PICK e : e = Overlay(r, contents)
  OBVIOUS
<1>2. DataAt(NoData, path) = NoData
  BY NothingBelow
<1>3. DataAt(p.sent, path) = NoData
  <2>1. MemberOf(p.sent, path[1]) = MemberOf(NoData, path[1])
    BY NoMembers DEF Sees, MemberOf
  <2> QED BY <1>2, <2>1, SamePath
<1>4. DataAt(e.sent, path) = NoData
  BY <1>1, <1>2, OverlayFacts
<1>5. DataAt(p.primary, path) = DataAt(e.primary, path)
  <2>1. MemberOf(p.primary, path[1]) = MemberOf(e.primary, path[1])
    BY <1>1, IdealMember
  <2> QED BY <2>1, SamePath
<1> QED BY <1>1, <1>3, <1>4, <1>5 DEF StoreRead

\* So the revisions of the bundles are the same.
LEMMA SameRevisions ==
  ASSUME NEW p, NEW r, NEW contents, Sees(p, r, contents), "system" \notin DOMAIN r.data.sub
  PROVE  Revisions(p) = Revisions(Overlay(r, contents))
<1>1. PICK e, path : e = Overlay(r, contents) /\ path = BundlesPath
  OBVIOUS
<1>2. Len(path) = 2 /\ path[1] = "system"
  BY <1>1 DEF BundlesPath
<1>3. StoreRead(p, path) = StoreRead(e, path)
  BY <1>1, <1>2, SameRead
<1>4. ASSUME NEW n PROVE StoreRead(p, Append(path, n)) = StoreRead(e, Append(path, n))
  <2>1. PICK q, X : q = Append(path, n) /\ X = {"system", "bundles", n}
    OBVIOUS
  <2>2. path \in Seq(X) /\ n \in X
    BY <1>1, <2>1 DEF BundlesPath
  <2>3. Len(q) = Len(path) + 1 /\ \A i \in 1 .. Len(path) : q[i] = path[i]
    BY <2>1, <2>2, AppendProperties
  <2>5. Len(q) = 3 /\ q[1] = "system"
    BY <1>2, <2>3
  <2>4. StoreRead(p, q) = StoreRead(e, q)
    BY <1>1, <2>5, SameRead
  <2> QED BY <2>1, <2>4
<1> QED BY <1>1, <1>3, <1>4 DEF Revisions

\* The fields of a response.
LEMMA ResponseFacts ==
  ASSUME NEW p, NEW r
  PROVE  /\ Response(p, r).result = Evaluate(p, p.compiler.modules, r)
         /\ Response(p, r).printed = IF r.print THEN Printed(p.compiler.modules, r) ELSE {}
         /\ r.provenance => Response(p, r).revisions = Revisions(p)
<1>1. PICK g : g = ResultHooks(p, r)
  OBVIOUS
<1>2. g[0] = NoResponse /\ \A k \in 1 .. 7 : g[k] = IF ~Hooked(k, r, "result") THEN g[k - 1]
                                                    ELSE AddToResponse(g[k - 1], OptionOrder[k], p, r)
  BY <1>1, ResultFacts, SevenOptions
<1>3. \A k \in 1 .. 7 : g[k] = IF ~Hooked(k, r, "result") THEN g[k - 1]
                               ELSE AddToResponse(g[k - 1], OptionOrder[k], p, r)
  BY <1>2
<1>4. g[1] = g[0] /\ g[2] = g[1] /\ g[5] = g[4]
  <2>1. g[1] = g[1 - 1] /\ g[2] = g[2 - 1] /\ g[5] = g[5 - 1]
    BY <1>3, HookFacts
  <2> QED BY <2>1
<1>5. g[3] = AddToResponse(g[2], "query", p, r) /\ g[4] = AddToResponse(g[3], "basic", p, r)
  <2>1. g[3] = AddToResponse(g[3 - 1], "query", p, r) /\ g[4] = AddToResponse(g[4 - 1], "basic", p, r)
    BY <1>3, HookFacts, SevenOptions
  <2> QED BY <2>1
<1>6. /\ g[6] = IF r.print THEN AddToResponse(g[5], "print", p, r) ELSE g[5]
      /\ g[7] = IF r.provenance THEN AddToResponse(g[6], "provenance", p, r) ELSE g[6]
  <2>1. g[6] = IF r.print THEN AddToResponse(g[6 - 1], "print", p, r) ELSE g[6 - 1]
    BY <1>3, HookFacts, SevenOptions
  <2>2. g[7] = IF r.provenance THEN AddToResponse(g[7 - 1], "provenance", p, r) ELSE g[7 - 1]
    BY <1>3, HookFacts, SevenOptions
  <2> QED BY <2>1, <2>2
<1>7. PICK x, y, z : x = Evaluate(p, p.compiler.modules, r) /\ y = Printed(p.compiler.modules, r) /\ z = Revisions(p)
  OBVIOUS
<1> DEFINE F == {"result", "metrics", "printed", "revisions"}
<1>8. PICK u, v, w, e, f : u = g[2] /\ v = g[3] /\ w = g[4] /\ e = g[6] /\ f = g[7]
  OBVIOUS
<1>9. v = [u EXCEPT !.result = x] /\ w = [v EXCEPT !.metrics = r.metrics]
  BY <1>5, <1>7, <1>8 DEF AddToResponse
<1>10. DOMAIN u = F /\ u.printed = {}
  BY <1>2, <1>4, <1>8 DEF NoResponse
<1>11. DOMAIN v = F /\ v.result = x /\ v.printed = {}
  BY <1>9, <1>10
<1>12. DOMAIN w = F /\ w.result = x /\ w.printed = {}
  BY <1>9, <1>11
<1>13. e = IF r.print THEN [w EXCEPT !.printed = y] ELSE w
  BY <1>4, <1>6, <1>7, <1>8 DEF AddToResponse
<1>14. DOMAIN e = F /\ e.result = x /\ e.printed = IF r.print THEN y ELSE {}
  BY <1>12, <1>13
<1>16. f = IF r.provenance THEN [e EXCEPT !.revisions = z] ELSE e
  BY <1>6, <1>7, <1>8 DEF AddToResponse
<1>17. /\ f.result = x /\ f.printed = (IF r.print THEN y ELSE {})
       /\ r.provenance => f.revisions = z
  BY <1>14, <1>16
<1>15. Response(p, r) = g[7]
  BY <1>1, SevenOptions DEF Response
<1> QED BY <1>7, <1>8, <1>15, <1>17

\* An answer that is right for a commit.
RightAt(p, contents) ==
    LET r == p.request
        ideal == Overlay(r, contents)
        ought == Evaluate(ideal, ideal.modules, r)
    IN  /\ ought \subseteq p.response.result
        /\ p.response.result \ ought \subseteq (IF r.sandbox THEN {} ELSE Shadowed(r, contents))
        /\ p.response.printed = IF r.print THEN Printed(ideal.modules, r) ELSE {}
        /\ r.provenance /\ "system" \notin DOMAIN r.data.sub => p.response.revisions = Revisions(ideal)

\* The answer of a preview that sees one commit and has compiled its modules.
LEMMA AnswerRight ==
  ASSUME NEW p, NEW r, NEW contents, Sees(p, r, contents), Compiled(r, contents.modules, p.compiler.modules),
         NEW q, q.request = r, q.response = Response(p, r)
  PROVE  RightAt(q, contents)
<1>1. PICK mods, e, a : mods = p.compiler.modules /\ e = Overlay(r, contents) /\ a = Response(p, r)
  OBVIOUS
<1>2. /\ a.result = Evaluate(p, mods, r) /\ a.printed = (IF r.print THEN Printed(mods, r) ELSE {})
      /\ r.provenance => a.revisions = Revisions(p)
  BY <1>1, ResponseFacts
<1>3. /\ Evaluate(e, e.modules, r) \subseteq a.result
      /\ a.result \ Evaluate(e, e.modules, r) \subseteq (IF r.sandbox THEN {} ELSE Shadowed(r, contents))
  BY <1>1, <1>2, SameResult
<1>4. a.printed = IF r.print THEN Printed(e.modules, r) ELSE {}
  BY <1>1, <1>2, SamePrinted
<1>5. r.provenance /\ "system" \notin DOMAIN r.data.sub => a.revisions = Revisions(e)
  BY <1>1, <1>2, SameRevisions
<1> QED BY <1>1, <1>3, <1>4, <1>5 DEF RightAt

-----------------------------------------------------------------------------
(* The inductive invariant.                                                *)

\* The manager's compiler is behind only while a commit is under way.
CommitInv ==
    /\ committed \in Nat /\ compiledAt \in Nat /\ compiledAt >= 1 /\ committing \in BOOLEAN
    /\ committed <= Len(PrimaryContents) /\ compiledAt = IF committing THEN committed - 1 ELSE committed

\* A preview with a transaction open has the data of the last commit, of which
\* the compiler is too; so has what it has compiled.  A sandbox has neither.
PreviewAt(p) ==
    /\ DOMAIN p = DOMAIN NewPreview /\ p.phase \in ToSet(Phases) \cup {"none", "failed"}
    /\ p.phase # "none" => p.since \in Nat /\ p.since <= compiledAt /\ p.request \in PreviewRequests
    /\ p.txn => /\ p.phase \in {"compiler", "prepare", "eval", "result"} /\ ~committing
                /\ p.primary = PrimaryContents[committed].data
    /\ p.phase \in {"init", "storage", "transaction"} => p.primary = NoData
    /\ p.phase \in {"transaction", "compiler", "prepare", "eval", "result"} => p.sent = p.request.data
    /\ p.phase \in {"compiler", "prepare", "eval", "result"} => IF p.request.sandbox THEN p.primary = NoData ELSE p.txn
    /\ p.phase \in {"prepare", "eval", "result"} =>
         Compiled(p.request, PrimaryContents[committed].modules, p.compiler.modules)
    /\ p.phase = "end" => \E i \in p.since .. committed : RightAt(p, PrimaryContents[i])

IPreview == CommitInv /\ DOMAIN preview = Previews /\ \A s \in Previews : PreviewAt(preview[s])

\* The phases, in their order.
LEMMA PhaseFacts ==
  /\ ToSet(Phases) = {"init", "storage", "transaction", "compiler", "prepare", "eval", "result", "end"}
  /\ PhaseAfter("init") = "storage" /\ PhaseAfter("storage") = "transaction" /\ PhaseAfter("transaction") = "compiler"
  /\ PhaseAfter("compiler") = "prepare" /\ PhaseAfter("prepare") = "eval" /\ PhaseAfter("eval") = "result"
  /\ PhaseAfter("result") = "end"
<1>1. /\ DOMAIN Phases = 1 .. 8
      /\ Phases[1] = "init" /\ Phases[2] = "storage" /\ Phases[3] = "transaction" /\ Phases[4] = "compiler"
      /\ Phases[5] = "prepare" /\ Phases[6] = "eval" /\ Phases[7] = "result" /\ Phases[8] = "end"
  BY DEF Phases
<1>2. \A i \in 1 .. 8 : i = 1 \/ i = 2 \/ i = 3 \/ i = 4 \/ i = 5 \/ i = 6 \/ i = 7 \/ i = 8
  OBVIOUS
<1>3. \A i, j \in DOMAIN Phases : Phases[i] = Phases[j] => i = j
  BY <1>1, <1>2
<1>4. ASSUME NEW j \in 1 .. 8, NEW x, Phases[j] = x PROVE PhaseAfter(x) = Phases[j + 1]
  <2>1. PICK i : i = CHOOSE k \in DOMAIN Phases : Phases[k] = x
    OBVIOUS
  <2>2. i \in DOMAIN Phases /\ Phases[i] = x
    BY <1>1, <1>4, <2>1
  <2>3. i = j
    BY <1>1, <1>3, <1>4, <2>2
  <2> QED BY <2>1, <2>3 DEF PhaseAfter
<1>5. /\ PhaseAfter("init") = Phases[1 + 1] /\ PhaseAfter("storage") = Phases[2 + 1] /\ PhaseAfter("transaction") = Phases[3 + 1]
      /\ PhaseAfter("compiler") = Phases[4 + 1] /\ PhaseAfter("prepare") = Phases[5 + 1] /\ PhaseAfter("eval") = Phases[6 + 1]
      /\ PhaseAfter("result") = Phases[7 + 1]
  BY <1>1, <1>4
<1>6. ToSet(Phases) = {"init", "storage", "transaction", "compiler", "prepare", "eval", "result", "end"}
  BY <1>1, <1>2 DEF ToSet
<1> QED BY <1>1, <1>5, <1>6

\* A preview goes on; the others and the commits stay.
LEMMA GoesKeeps ==
  ASSUME IPreview, NEW s \in Previews, NEW q, Goes(s, q), PreviewAt(q)
  PROVE  IPreview'
<1>1. /\ preview' = [preview EXCEPT ![s] = q]
      /\ committed' = committed /\ committing' = committing /\ compiledAt' = compiledAt
  BY DEF Goes
<1>2. CommitInv'
  BY <1>1 DEF IPreview, CommitInv
<1>3. ASSUME NEW t \in Previews PROVE PreviewAt(preview[t])'
  <2>1. PreviewAt(preview'[t])
    BY <1>1 DEF IPreview
  <2> QED BY <1>1, <2>1 DEF PreviewAt
<1>4. DOMAIN preview' = Previews
  BY <1>1 DEF IPreview
<1> QED BY <1>2, <1>3, <1>4 DEF IPreview

\* A preview that fails keeps the invariant: its transaction is closed.
LEMMA FailedKeeps ==
  ASSUME IPreview, NEW s \in Previews, preview[s].phase # "none", EndFailed(s)
  PROVE  IPreview'
<1>1. PICK p, q : p = preview[s] /\ q = [p EXCEPT !.phase = "failed", !.txn = FALSE]
  OBVIOUS
<1>2. PreviewAt(p) /\ p.phase # "none"
  BY <1>1 DEF IPreview
<1>3. /\ DOMAIN q = DOMAIN p /\ q.phase = "failed" /\ ~q.txn /\ q.request = p.request /\ q.since = p.since
  BY <1>1, <1>2 DEF PreviewAt, NewPreview
<1>4. PreviewAt(q)
  BY <1>2, <1>3 DEF PreviewAt
<1> QED BY <1>1, <1>4, GoesKeeps DEF EndFailed

\* So does one that leaves,
LEMMA LeaveKeeps ==
  ASSUME IPreview, NEW s \in Previews, Leave(s)
  PROVE  IPreview'
<1>1. NewPreview.phase = "none" /\ ~NewPreview.txn
  BY DEF NewPreview
<1>2. PreviewAt(NewPreview)
  BY <1>1 DEF PreviewAt
<1> QED BY <1>2, GoesKeeps DEF Leave

\* and one that comes.
LEMMA ServePreviewKeeps ==
  ASSUME IPreview, NEW s \in Previews, NEW r \in PreviewRequests, ServePreview(s, r)
  PROVE  IPreview'
<1>1. PICK phase, q : /\ phase = (IF ~previewOn \/ r.body = "malformed" THEN "failed" ELSE "init")
                      /\ q = [NewPreview EXCEPT !.phase = phase, !.request = r, !.since = compiledAt]
  OBVIOUS
<1>2. Goes(s, q)
  BY <1>1 DEF ServePreview
<1>3. /\ DOMAIN q = DOMAIN NewPreview /\ q.phase \in {"failed", "init"} /\ q.request = r /\ q.since = compiledAt
      /\ ~q.txn /\ q.primary = NoData
  BY <1>1 DEF NewPreview
<1>4. PreviewAt(q)
  BY <1>3, PhaseFacts DEF PreviewAt, IPreview, CommitInv
<1> QED BY <1>2, <1>4, GoesKeeps

\* A preview of the phases before the transaction goes on.
LEMMA EarlyKeeps ==
  ASSUME IPreview, NEW s \in Previews, InitOptions(s) \/ PrepareStorage(s)
  PROVE  IPreview'
<1>1. PICK p : p = preview[s]
  OBVIOUS
<1>2. PreviewAt(p)
  BY <1>1 DEF IPreview
<1>3. CASE InitOptions(s)
  <2>1. p.phase = "init"
    BY <1>1, <1>3 DEF InitOptions, In
  <2>2. CASE EndFailed(s)
    BY <1>1, <2>1, <2>2, FailedKeeps
  <2>3. CASE Pass(s, p)
    <3>1. PICK q : q = [p EXCEPT !.phase = "storage"]
      OBVIOUS
    <3>2. Goes(s, q)
      BY <1>1, <2>1, <2>3, <3>1, PhaseFacts DEF Pass
    <3>3. /\ DOMAIN q = DOMAIN p /\ q.phase = "storage" /\ q.request = p.request /\ q.since = p.since /\ q.primary = p.primary
          /\ q.txn <=> p.txn
      BY <1>2, <3>1 DEF PreviewAt, NewPreview
    <3>4. PreviewAt(q)
      BY <1>2, <2>1, <3>3, PhaseFacts DEF PreviewAt
    <3> QED BY <3>2, <3>4, GoesKeeps
  <2> QED BY <1>1, <1>3, <2>2, <2>3 DEF InitOptions
<1>4. CASE PrepareStorage(s)
  <2>1. p.phase = "storage" /\ Pass(s, [p EXCEPT !.sent = p.request.data])
    BY <1>1, <1>4 DEF PrepareStorage, In
  <2>2. PICK o, q : o = [p EXCEPT !.sent = p.request.data] /\ q = [o EXCEPT !.phase = "transaction"]
    OBVIOUS
  <2>3. Goes(s, q)
    BY <1>1, <2>1, <2>2, PhaseFacts DEF Pass
  <2>4. /\ DOMAIN q = DOMAIN p /\ q.phase = "transaction" /\ q.request = p.request /\ q.since = p.since /\ q.primary = p.primary
        /\ q.txn <=> p.txn
        /\ q.sent = p.request.data
    BY <1>2, <2>2 DEF PreviewAt, NewPreview
  <2>5. PreviewAt(q)
    BY <1>2, <2>1, <2>4, PhaseFacts DEF PreviewAt
  <2> QED BY <2>3, <2>5, GoesKeeps
<1> QED BY <1>3, <1>4

\* The transaction begins between commits.
LEMMA PreviewBeginKeeps ==
  ASSUME IPreview, NEW s \in Previews, BeginTransaction(s)
  PROVE  IPreview'
<1>1. PICK p, r : p = preview[s] /\ r = p.request
  OBVIOUS
<1>2. PreviewAt(p) /\ p.phase = "transaction"
  BY <1>1 DEF IPreview, BeginTransaction, In
<1>3. p.primary = NoData /\ p.sent = r.data /\ ~p.txn
  BY <1>1, <1>2 DEF PreviewAt
<1>4. CASE r.sandbox
  <2>1. PICK q : q = [p EXCEPT !.phase = "compiler"]
    OBVIOUS
  <2>2. Goes(s, q)
    BY <1>1, <1>2, <1>4, <2>1, PhaseFacts DEF BeginTransaction, Pass
  <2>3. /\ DOMAIN q = DOMAIN p /\ q.phase = "compiler" /\ q.request = p.request /\ q.since = p.since /\ q.primary = p.primary
        /\ q.txn <=> p.txn
        /\ q.sent = p.sent
    BY <1>2, <2>1 DEF PreviewAt, NewPreview
  <2>4. PreviewAt(q)
    BY <1>1, <1>2, <1>3, <1>4, <2>3, PhaseFacts DEF PreviewAt
  <2> QED BY <2>2, <2>4, GoesKeeps
<1>5. CASE ~r.sandbox
  <2>1. PICK o, q : o = [p EXCEPT !.txn = TRUE, !.primary = PrimaryContents[committed].data] /\ q = [o EXCEPT !.phase = "compiler"]
    OBVIOUS
  <2>2. Goes(s, q) /\ ~committing
    BY <1>1, <1>2, <1>5, <2>1, PhaseFacts DEF BeginTransaction, Pass
  <2>3. DOMAIN o = DOMAIN p /\ o.request = p.request /\ o.since = p.since /\ o.sent = p.sent /\ o.txn
        /\ o.primary = PrimaryContents[committed].data
    BY <1>2, <2>1 DEF PreviewAt, NewPreview
  <2>4. DOMAIN q = DOMAIN p /\ q.phase = "compiler" /\ q.request = p.request /\ q.since = p.since /\ q.sent = p.sent /\ q.txn
        /\ q.primary = PrimaryContents[committed].data
    BY <1>2, <2>1, <2>3 DEF PreviewAt, NewPreview
  <2>5. PreviewAt(q)
    BY <1>1, <1>2, <1>3, <1>5, <2>2, <2>4, PhaseFacts DEF PreviewAt
  <2> QED BY <2>2, <2>5, GoesKeeps
<1> QED BY <1>4, <1>5

\* While a transaction is open the compiler is of the commit it reads; what a
\* sandbox compiles does not depend on the compiler.
LEMMA SandboxCompiled ==
  ASSUME NEW r, r.sandbox, NEW stored, NEW other, NEW mods, Compiled(r, stored, mods)
  PROVE  Compiled(r, other, mods)
  BY DEF Compiled, IdealModules

\* So what a preview compiles is of the commit whose data it reads.
LEMMA PrepareCompilersKeeps ==
  ASSUME IPreview, NEW s \in Previews, PrepareCompilers(s)
  PROVE  IPreview'
<1>1. PICK p, r, c : p = preview[s] /\ r = p.request /\ c = ReadyCompiler(r, ManagerModules)
  OBVIOUS
<1>2. PreviewAt(p) /\ p.phase = "compiler"
  BY <1>1 DEF IPreview, PrepareCompilers, In
<1>3. CASE c.failed
  BY <1>1, <1>2, <1>3, FailedKeeps DEF PrepareCompilers
<1>4. CASE ~c.failed
  <2>1. PICK o, q : o = [p EXCEPT !.compiler = c] /\ q = [o EXCEPT !.phase = "prepare"]
    OBVIOUS
  <2>2. Goes(s, q)
    BY <1>1, <1>2, <1>4, <2>1, PhaseFacts DEF PrepareCompilers, Pass
  <2>3. /\ DOMAIN q = DOMAIN p /\ q.phase = "prepare" /\ q.request = p.request /\ q.since = p.since /\ q.primary = p.primary
        /\ q.txn <=> p.txn
        /\ q.sent = p.sent /\ q.compiler = c
    BY <1>2, <2>1 DEF PreviewAt, NewPreview
  <2>4. r \in PreviewRequests
    BY <1>1, <1>2 DEF PreviewAt
  <2>5. Compiled(r, ManagerModules, c.modules)
    BY <1>1, <1>4, <2>4, ReadyRight
  <2>6. Compiled(r, PrimaryContents[committed].modules, c.modules)
    <3>1. CASE r.sandbox
      BY <2>5, <3>1, SandboxCompiled
    <3>2. CASE ~r.sandbox
      <4>1. compiledAt = committed
        BY <1>1, <1>2, <3>2 DEF PreviewAt, IPreview, CommitInv
      <4> QED BY <2>5, <4>1 DEF ManagerModules
    <3> QED BY <3>1, <3>2
  <2>7. PreviewAt(q)
    BY <1>1, <1>2, <2>3, <2>6, PhaseFacts DEF PreviewAt
  <2> QED BY <2>2, <2>7, GoesKeeps
<1> QED BY <1>3, <1>4

\* The phases between, and those that fail.
LEMMA PrepareAndEvalKeep ==
  ASSUME IPreview, NEW s \in Previews, PrepareQuery(s) \/ EvalQuery(s) \/ EvalFails(s) \/ TransactionFails(s)
  PROVE  IPreview'
<1>1. PICK p : p = preview[s]
  OBVIOUS
<1>2. PreviewAt(p) /\ p.phase \in {"transaction", "prepare", "eval"}
  BY <1>1 DEF IPreview, PrepareQuery, EvalQuery, EvalFails, TransactionFails, In
<1>3. CASE EndFailed(s)
  BY <1>1, <1>2, <1>3, FailedKeeps
<1>4. CASE p.phase \in {"prepare", "eval"} /\ Pass(s, p)
  <2>1. PICK q : q = [p EXCEPT !.phase = PhaseAfter(p.phase)]
    OBVIOUS
  <2>2. Goes(s, q)
    BY <1>1, <1>4, <2>1 DEF Pass
  <2>3. /\ DOMAIN q = DOMAIN p /\ q.phase \in {"eval", "result"} /\ q.request = p.request /\ q.since = p.since
        /\ q.primary = p.primary
        /\ q.txn <=> p.txn
        /\ q.sent = p.sent /\ q.compiler = p.compiler
    BY <1>2, <1>4, <2>1, PhaseFacts DEF PreviewAt, NewPreview
  <2>4. PreviewAt(q)
    BY <1>2, <1>4, <2>3, PhaseFacts DEF PreviewAt
  <2> QED BY <2>2, <2>4, GoesKeeps
<1> QED BY <1>1, <1>3, <1>4 DEF PrepareQuery, EvalQuery, EvalFails, TransactionFails, In

\* The answer is right for the last commit, which the transaction has kept out
\* of the way of others.
LEMMA AnswerKeeps ==
  ASSUME IPreview, NEW s \in Previews, AnswerPreview(s)
  PROVE  IPreview'
<1>1. PICK p, r, a : p = preview[s] /\ r = p.request /\ a = Response(p, r)
  OBVIOUS
<1>2. PreviewAt(p) /\ p.phase = "result"
  BY <1>1 DEF IPreview, AnswerPreview, In
<1>3. PICK o, q : o = [p EXCEPT !.response = a, !.txn = FALSE] /\ q = [o EXCEPT !.phase = "end"]
  OBVIOUS
<1>4. Goes(s, q)
  BY <1>1, <1>2, <1>3, PhaseFacts DEF AnswerPreview, Pass
<1>5. DOMAIN o = DOMAIN p /\ o.request = r /\ o.since = p.since /\ o.response = a /\ ~o.txn
  BY <1>1, <1>2, <1>3 DEF PreviewAt, NewPreview
<1>6. DOMAIN q = DOMAIN p /\ q.phase = "end" /\ q.request = r /\ q.since = p.since /\ q.response = a /\ ~q.txn
  BY <1>2, <1>3, <1>5 DEF PreviewAt, NewPreview
<1>7. Sees(p, r, PrimaryContents[committed]) /\ Compiled(r, PrimaryContents[committed].modules, p.compiler.modules)
  BY <1>1, <1>2 DEF PreviewAt, Sees
<1>8. RightAt(q, PrimaryContents[committed])
  BY <1>1, <1>6, <1>7, AnswerRight
<1>9. committed \in p.since .. committed
  BY <1>2 DEF PreviewAt, IPreview, CommitInv
<1>10. PreviewAt(q)
  BY <1>1, <1>2, <1>6, <1>8, <1>9, PhaseFacts DEF PreviewAt
<1> QED BY <1>4, <1>10, GoesKeeps

\* A commit, and the replacement of the compiler, in which no transaction is
\* open.
LEMMA PreviewCommitKeeps ==
  ASSUME IPreview, CommitPrimary \/ ReplaceCompiler
  PROVE  IPreview'
<1>0. PICK n : n = Len(PrimaryContents) /\ n \in Nat
  BY PreviewAssumption
<1>1. /\ preview' = preview /\ committed' \in Nat /\ compiledAt' \in Nat /\ committed <= committed' /\ compiledAt <= compiledAt'
      /\ CommitInv'
  <2>1. CASE CommitPrimary
    BY <1>0, <2>1 DEF CommitPrimary, IPreview, CommitInv
  <2>2. CASE ReplaceCompiler
    <3>1. committing /\ compiledAt' = committed /\ committed' = committed /\ preview' = preview
      BY <2>2 DEF ReplaceCompiler
    <3>2. committed \in Nat /\ compiledAt \in Nat /\ compiledAt >= 1 /\ committed <= n /\ compiledAt = committed - 1
      BY <1>0, <3>1 DEF IPreview, CommitInv
    <3>3. committing' = FALSE
      BY <2>2 DEF ReplaceCompiler
    <3>4. committing' \in BOOLEAN /\ compiledAt' = IF committing' THEN committed' - 1 ELSE committed'
      BY <3>1, <3>3, Zenon
    <3>5. compiledAt' >= 1 /\ compiledAt <= compiledAt' /\ compiledAt' \in Nat /\ committed <= committed'
      BY <3>1, <3>2
    <3> QED BY <1>0, <3>1, <3>2, <3>4, <3>5 DEF CommitInv
  <2> QED BY <2>1, <2>2
<1>2. ASSUME NEW s \in Previews PROVE PreviewAt(preview[s])'
  <2>1. PICK p, r : p = preview[s] /\ r = p.request
    OBVIOUS
  <2>2. PreviewAt(p)
    BY <2>1 DEF IPreview
  <2>3. ~p.txn
    BY <2>1, <2>2 DEF CommitPrimary, ReplaceCompiler, PreviewAt
  <2>4. p.phase \in {"prepare", "eval", "result"} => Compiled(r, PrimaryContents[committed'].modules, p.compiler.modules)
    <3>1. p.phase \in {"prepare", "eval", "result"} => r.sandbox /\ Compiled(r, PrimaryContents[committed].modules, p.compiler.modules)
      BY <2>1, <2>2, <2>3 DEF PreviewAt
    <3> QED BY <3>1, SandboxCompiled
  <2>5. p.phase = "end" => \E i \in p.since .. committed' : RightAt(p, PrimaryContents[i])
    <3> SUFFICES ASSUME p.phase = "end" PROVE \E i \in p.since .. committed' : RightAt(p, PrimaryContents[i])
      OBVIOUS
    <3>1. PICK i \in p.since .. committed : RightAt(p, PrimaryContents[i])
      BY <2>2 DEF PreviewAt
    <3>2. i \in p.since .. committed'
      BY <1>1, <2>2 DEF PreviewAt, IPreview, CommitInv
    <3> QED BY <3>1, <3>2
  <2>6. p.phase # "none" => p.since <= compiledAt'
    <3>1. p.phase # "none" => p.since \in Nat /\ p.since <= compiledAt
      BY <2>2 DEF PreviewAt
    <3>2. compiledAt \in Nat /\ compiledAt' \in Nat /\ compiledAt <= compiledAt'
      BY <1>1 DEF IPreview, CommitInv
    <3> QED BY <3>1, <3>2
  <2> QED BY <1>1, <2>1, <2>2, <2>3, <2>4, <2>5, <2>6 DEF PreviewAt
<1> QED BY <1>1, <1>2 DEF IPreview

\* The invariant holds at the start,
LEMMA PreviewInitially == PreviewInit => IPreview
<1> SUFFICES ASSUME PreviewInit PROVE IPreview
  OBVIOUS
<1>0. PICK n : n = Len(PrimaryContents) /\ n \in Nat \ {0}
  BY PreviewAssumption
<1>1. CommitInv
  <2>1. committed = 1 /\ compiledAt = 1 /\ committing = FALSE
    BY DEF PreviewInit
  <2>2. committing \in BOOLEAN /\ compiledAt = IF committing THEN committed - 1 ELSE committed
    BY <2>1, Zenon
  <2>3. committed \in Nat /\ compiledAt \in Nat /\ compiledAt >= 1 /\ committed <= n
    BY <1>0, <2>1
  <2> QED BY <1>0, <2>2, <2>3 DEF CommitInv
<1>2. PreviewAt(NewPreview)
  BY DEF PreviewAt, NewPreview
<1> QED BY <1>1, <1>2 DEF PreviewInit, IPreview

\* and every step keeps it.
LEMMA PreviewStepKeeps == IPreview /\ [PreviewNext]_previewVars => IPreview'
<1> SUFFICES ASSUME IPreview, [PreviewNext]_previewVars PROVE IPreview'
  OBVIOUS
<1>1. CASE UNCHANGED previewVars \/ \E on \in BOOLEAN : Configure(on)
  <2>1. UNCHANGED <<committed, committing, compiledAt, preview>>
    BY <1>1 DEF previewVars, Configure
  <2> QED BY <2>1 DEF IPreview, CommitInv, PreviewAt
<1>2. ASSUME NEW s \in Previews, PreviewStep(s) PROVE IPreview'
  <2>1. CASE \E r \in PreviewRequests : ServePreview(s, r)
    BY <2>1, ServePreviewKeeps
  <2>2. CASE InitOptions(s) \/ PrepareStorage(s)
    BY <2>2, EarlyKeeps
  <2>3. CASE BeginTransaction(s)
    BY <2>3, PreviewBeginKeeps
  <2>4. CASE PrepareCompilers(s)
    BY <2>4, PrepareCompilersKeeps
  <2>5. CASE PrepareQuery(s) \/ EvalQuery(s) \/ EvalFails(s) \/ TransactionFails(s)
    BY <2>5, PrepareAndEvalKeep
  <2>6. CASE AnswerPreview(s)
    BY <2>6, AnswerKeeps
  <2>7. CASE Leave(s)
    BY <2>7, LeaveKeeps
  <2> QED BY <1>2, <2>1, <2>2, <2>3, <2>4, <2>5, <2>6, <2>7 DEF PreviewStep
<1>3. CASE CommitPrimary \/ ReplaceCompiler
  BY <1>3, PreviewCommitKeeps
<1> QED BY <1>1, <1>2, <1>3 DEF PreviewNext

\* A preview that has been answered saw the policies and the data of one
\* commit that was current while it ran, with those of the request laid over
\* them, and none in a sandbox; one that has ended holds up no commit.  For
\* any number of previews, every list of commits and every request.
THEOREM PreviewsAreSafe == PreviewSpec => []PreviewSafety
<1>1. IPreview => PreviewSafety
  <2> SUFFICES ASSUME IPreview PROVE PreviewSafety
    OBVIOUS
  <2>1. ASSUME NEW s \in Previews, preview[s].phase = "end"
        PROVE  \E i \in preview[s].since .. committed : RightAt(preview[s], PrimaryContents[i])
    BY <2>1 DEF IPreview, PreviewAt
  <2>2. AnswersOneCommit
    BY <2>1 DEF AnswersOneCommit, RightAt, In
  <2>3. NothingHeld
    BY DEF NothingHeld, IPreview, PreviewAt
  <2> QED BY <2>2, <2>3 DEF PreviewSafety
<1> QED BY <1>1, PreviewInitially, PreviewStepKeeps, PTL DEF PreviewSpec

\* The state of the previews keeps its types, and the manager's compiler is at
\* most one commit behind.
THEOREM PreviewTypes == PreviewSpec => []PreviewTypeOK
<1>1. IPreview => PreviewTypeOK
  BY DEF IPreview, CommitInv, PreviewAt, PreviewTypeOK
<1> QED BY <1>1, PreviewInitially, PreviewStepKeeps, PTL DEF PreviewSpec
=============================================================================
