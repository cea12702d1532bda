------------------------------- MODULE RWMutex -------------------------------
(***************************************************************************)
(* Go's sync.RWMutex, as the stores of this repository use it (the lock    *)
(* itself is library code).  A lock is a record:                           *)
(*   held    the readers that hold it,                                     *)
(*   queue   the readers blocked in RLock,                                 *)
(*   pending the writer blocked in Lock (as a set of at most one),         *)
(*   writer  the writer that holds it (as a set of at most one).           *)
(* A writer that has called Lock keeps later readers out, also while it is *)
(* still waiting for the earlier ones; Unlock admits every reader that has *)
(* queued up in the meantime.  The stores serialise their calls of Lock    *)
(* with a second mutex, so one pending writer is enough.                   *)
(***************************************************************************)

RWLocks(P) ==
    [held : SUBSET P, queue : SUBSET P, pending : SUBSET P, writer : SUBSET P]

RWUnlocked == [held |-> {}, queue |-> {}, pending |-> {}, writer |-> {}]

RLock(m, p) ==
    IF m.pending = {} /\ m.writer = {}
    THEN [m EXCEPT !.held  = @ \cup {p}]
    ELSE [m EXCEPT !.queue = @ \cup {p}]

\* The last reader to leave hands the lock to the pending writer.
RUnlock(m, p) ==
    IF m.held = {p}
    THEN [m EXCEPT !.held = {}, !.writer = m.pending, !.pending = {}]
    ELSE [m EXCEPT !.held = @ \ {p}]

Lock(m, p) ==
    IF m.held = {} /\ m.writer = {}
    THEN [m EXCEPT !.writer  = {p}]
    ELSE [m EXCEPT !.pending = {p}]

Unlock(m) ==
    [m EXCEPT !.writer = {}, !.held = m.queue, !.queue = {}]
=============================================================================
