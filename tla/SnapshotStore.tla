---------------------------- MODULE SnapshotStore ----------------------------
(***************************************************************************)
(* What a store of this repository promises its callers ("multi-reader /   *)
(* single-writer concurrency with rollback", the package comment of        *)
(* pkg/storage/inmem/inmem.go): transactions behave as if every read       *)
(* transaction worked on the committed state of the moment it was opened,  *)
(* write transactions ran one at a time on a private copy, a commit        *)
(* installed that copy in one step and an abort threw it away.             *)
(***************************************************************************)
CONSTANTS Txns,    \* transaction handles, each used for one transaction
          Keys,    \* everything a store holds: documents and policies
          Vals     \* what a key can map to, the mark of a missing key included

VARIABLES committed,  \* the committed state
          status,     \* per handle: "idle", "read", "write" or "done"
          view        \* per open handle, the state its operations work on

State == [Keys -> Vals]

NoView == <<>>

vars == <<committed, status, view>>

Init ==
    /\ committed \in State
    /\ status = [t \in Txns |-> "idle"]
    /\ view = [t \in Txns |-> NoView]

\* Several readers may be admitted at once, when a writer leaves.
OpenReads(S) ==
    /\ S # {}
    /\ \A t \in S : status[t] = "idle"
    /\ status' = [t \in Txns |-> IF t \in S THEN "read" ELSE status[t]]
    /\ view' = [t \in Txns |-> IF t \in S THEN committed ELSE view[t]]
    /\ UNCHANGED committed

OpenWrite(t) ==
    /\ status[t] = "idle"
    /\ \A u \in Txns : status[u] # "write"
    /\ status' = [status EXCEPT ![t] = "write"]
    /\ view' = [view EXCEPT ![t] = committed]
    /\ UNCHANGED committed

\* Any operation of a writer works on its own copy.
Modify(t) ==
    /\ status[t] = "write"
    /\ view'[t] \in State
    /\ view' = [view EXCEPT ![t] = view'[t]]
    /\ UNCHANGED <<committed, status>>

Commit(t) ==
    /\ status[t] = "write"
    /\ committed' = view[t]
    /\ status' = [status EXCEPT ![t] = "done"]
    /\ view' = [view EXCEPT ![t] = NoView]

Close(t) ==
    /\ status[t] \in {"read", "write"}
    /\ status' = [status EXCEPT ![t] = "done"]
    /\ view' = [view EXCEPT ![t] = NoView]
    /\ UNCHANGED committed

Next ==
    \/ \E S \in SUBSET Txns : OpenReads(S)
    \/ \E t \in Txns : OpenWrite(t) \/ Modify(t) \/ Commit(t) \/ Close(t)

Spec == Init /\ [][Next]_vars
=============================================================================
