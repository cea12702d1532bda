---------------------------- MODULE SQLiteBuffer ----------------------------
(***************************************************************************)
(* The SQLite buffer of the decision log streams,                          *)
(* internal/benthos/impl/sql/buffer_sqlite.go: rows are inserted by the    *)
(* input, read by one loop, handed out to the output in parts (what the    *)
(* post processors make of a row), and deleted or put back when the output *)
(* has answered.  The database survives a restart, everything else is      *)
(* memory.                                                                 *)
(*                                                                         *)
(* A row has a requeue stamp: Fresh (maxRequeue) when it is inserted, the  *)
(* time of the failure (UnixNano) when it is put back.  Here the clock     *)
(* counts the failures, so that later stamps are larger.                   *)
(***************************************************************************)
EXTENDS Integers, FiniteSets

CONSTANTS
    MaxRows,        \* bound: rows ever inserted
    MaxStamp,       \* bound: rows put back
    MaxRestarts,    \* bound: restarts of the service
    MaxInFlight,    \* rows the output works on at a time
    MaxParts,       \* parts the post processors make of a row, at most
    ConcurrentAcks  \* does the output answer parts of a row concurrently?

ASSUME BoundsAssumption ==
    /\ MaxRows \in Nat /\ MaxStamp \in Nat /\ MaxRestarts \in Nat
    /\ MaxInFlight \in Nat \ {0} /\ MaxParts \in Nat \ {0}
    /\ ConcurrentAcks \in BOOLEAN

Ids   == 1..MaxRows
Slots == 1..MaxInFlight
Gone  == 0
Fresh == MaxStamp + 1

VARIABLES
    requeue,       \* the table: per id the requeue stamp, Gone if no such row
    lastId, clock, \* the last id and the last stamp given
    nextIndex, requeueFrom,  \* how far the loop has read
    slot,          \* the rows that have been read and not yet answered
    reader,        \* where the loop is
    ctx,           \* its context: "live", "cancelled", "broadcast"
    endOfInput, closed,
    accepted,      \* history: rows acknowledged to the input
    sent,          \* history: rows all parts of which the output has sent
    dropped,       \* history: rows read since the restart that will neither
                   \* be answered nor put back
    restarts       \* restarts so far

vars == <<requeue, lastId, clock, nextIndex, requeueFrom, slot, reader, ctx,
          endOfInput, closed, accepted, sent, dropped, restarts>>

\* A row being answered: its parts in m.pending, those the output has, those
\* that have not been answered (pendingResponses), ackOnce, and the answers
\* between the decrement of the counter and ackOnce.
EmptySlot ==
    [row |-> 0, unread |-> 0, flight |-> 0, resp |-> 0, once |-> FALSE,
     failed |-> FALSE, oks |-> 0, errs |-> 0]

SlotType ==
    [row : 0..MaxRows, unread : 0..MaxParts, flight : 0..MaxParts,
     resp : 0..MaxParts, once : BOOLEAN, failed : BOOLEAN,
     oks : 0..1, errs : 0..MaxParts]

TypeOK ==
    /\ requeue \in [Ids -> 0..Fresh]
    /\ lastId \in 0..MaxRows
    /\ clock \in 0..MaxStamp
    /\ nextIndex \in 0..(MaxRows + 1)
    /\ requeueFrom \in 0..MaxStamp
    /\ slot \in [Slots -> SlotType]
    /\ reader \in {"out", "locked", "asleep", "ended"}
    /\ ctx \in {"live", "cancelled", "broadcast"}
    /\ endOfInput \in BOOLEAN
    /\ closed \in BOOLEAN
    /\ accepted \subseteq Ids
    /\ sent \subseteq Ids
    /\ dropped \subseteq Ids
    /\ restarts \in 0..MaxRestarts

Init ==
    /\ requeue = [i \in Ids |-> Gone]
    /\ lastId = 0
    /\ clock = 0
    /\ nextIndex = 0
    /\ requeueFrom = 0
    /\ slot = [s \in Slots |-> EmptySlot]
    /\ reader = "out"
    /\ ctx = "live"
    /\ endOfInput = FALSE
    /\ closed = FALSE
    /\ accepted = {}
    /\ sent = {}
    /\ dropped = {}
    /\ restarts = 0

\* cond.L is held across steps only by a reader about to wait.
Locked == reader = "locked"

\* cond.Broadcast
Woken == IF reader = "asleep" THEN "out" ELSE reader

-----------------------------------------------------------------------------
(* The input. *)

\* The n rows the pre processors make of a batch, inserted in one statement.
Insert(n) ==
    /\ lastId + n <= MaxRows
    /\ lastId' = lastId + n
    /\ requeue' = [i \in Ids |-> IF i \in (lastId + 1)..(lastId + n)
                                 THEN Fresh ELSE requeue[i]]

\* WriteBatch: the rows are in the database before the input is told.
WriteBatch(n) ==
    /\ ~Locked /\ ~closed
    /\ Insert(n)
    /\ accepted' = accepted \cup (lastId + 1)..(lastId + n)
    /\ reader' = Woken
    /\ UNCHANGED <<clock, nextIndex, requeueFrom, slot, ctx, endOfInput, closed,
                   sent, dropped, restarts>>

\* The acknowledgement fails: WriteBatch returns before it broadcasts.
WriteBatchNotAcked(n) ==
    /\ ~Locked /\ ~closed
    /\ Insert(n)
    /\ UNCHANGED <<clock, nextIndex, requeueFrom, slot, reader, ctx, endOfInput,
                   closed, accepted, sent, dropped, restarts>>

\* Only the loop looks at the end of the input.
EndOfInput ==
    /\ ~Locked /\ ~endOfInput
    /\ reader # "ended"
    /\ endOfInput' = TRUE
    /\ reader' = Woken
    /\ UNCHANGED <<requeue, lastId, clock, nextIndex, requeueFrom, slot, ctx,
                   closed, accepted, sent, dropped, restarts>>

\* Close does not broadcast.
Close ==
    /\ ~Locked /\ ~closed
    /\ closed' = TRUE
    /\ UNCHANGED <<requeue, lastId, clock, nextIndex, requeueFrom, slot, reader,
                   ctx, endOfInput, accepted, sent, dropped, restarts>>

-----------------------------------------------------------------------------
(* ReadBatch, called in a loop. *)

\* Faulty variant: rows that were put back are forgotten.
SelectableUnread(i) == requeue[i] # Gone /\ i >= nextIndex

\* tryGetBatch: WHERE and ORDER BY of the query.
Selectable(i) ==
    /\ requeue[i] # Gone
    /\ \/ i >= nextIndex
       \/ requeue[i] > requeueFrom /\ requeue[i] # Fresh

IsFirst(i) ==
    /\ Selectable(i)
    /\ \A j \in Ids : Selectable(j) =>
          \/ requeue[i] < requeue[j]
          \/ requeue[i] = requeue[j] /\ i <= j

\* Faulty variant: maxRequeue is remembered like a stamp.
AdvanceAlways(i) ==
    /\ nextIndex' = i + 1
    /\ requeueFrom' = requeue[i]

\* ... and what the loop remembers of the row it got.
Advance(i) ==
    /\ nextIndex' = i + 1
    /\ requeueFrom' = IF requeue[i] # Fresh THEN requeue[i] ELSE requeueFrom

NothingPending == \A s \in Slots : slot[s].unread = 0
Reads == reader = "out" /\ ~closed /\ ctx = "live" /\ NothingPending

ReadPending(s) ==
    /\ reader = "out"
    /\ slot[s].unread > 0
    /\ slot' = [slot EXCEPT ![s].unread = @ - 1, ![s].flight = @ + 1]
    /\ UNCHANGED <<requeue, lastId, clock, nextIndex, requeueFrom, reader, ctx,
                   endOfInput, closed, accepted, sent, dropped, restarts>>

FirstFree(s) == slot[s] = EmptySlot /\ \A r \in 1..(s - 1) : slot[r] # EmptySlot

\* A row gives n parts; the first is returned.
ReadRow(s, i, n) ==
    /\ Reads
    /\ FirstFree(s)
    /\ IsFirst(i)
    /\ Advance(i)
    /\ slot' = [slot EXCEPT ![s] = [EmptySlot EXCEPT !.row = i, !.unread = n - 1,
                                                     !.flight = 1, !.resp = n]]
    /\ dropped' = dropped \ {i}
    /\ UNCHANGED <<requeue, lastId, clock, reader, ctx, endOfInput, closed,
                   accepted, sent, restarts>>

\* The row cannot be decoded, a post processor fails or leaves nothing of it.
ReadDrops(i) ==
    /\ Reads
    /\ IsFirst(i)
    /\ Advance(i)
    /\ dropped' = dropped \cup {i}
    /\ UNCHANGED <<requeue, lastId, clock, slot, reader, ctx, endOfInput, closed,
                   accepted, sent, restarts>>

\* No row: the loop ends at the end of the input, else it is going to wait.
ReadNone ==
    /\ Reads
    /\ ~ \E i \in Ids : Selectable(i)
    /\ reader' = IF endOfInput THEN "ended" ELSE "locked"
    /\ UNCHANGED <<requeue, lastId, clock, nextIndex, requeueFrom, slot, ctx,
                   endOfInput, closed, accepted, sent, dropped, restarts>>

ReadEnds ==
    /\ reader = "out" /\ NothingPending
    /\ closed \/ ctx # "live"
    /\ reader' = "ended"
    /\ ctx' = "live"
    /\ UNCHANGED <<requeue, lastId, clock, nextIndex, requeueFrom, slot,
                   endOfInput, closed, accepted, sent, dropped, restarts>>

\* cond.Wait
Wait ==
    /\ reader = "locked"
    /\ reader' = "asleep"
    /\ UNCHANGED <<requeue, lastId, clock, nextIndex, requeueFrom, slot, ctx,
                   endOfInput, closed, accepted, sent, dropped, restarts>>

\* The context of the call of ReadBatch is cancelled; a goroutine broadcasts,
\* without cond.L, and so may do it just before the reader waits.  (The one
\* that is left over from an earlier call only wakes the loop once more.)
Cancel ==
    /\ ctx = "live"
    /\ reader # "ended"
    /\ ctx' = "cancelled"
    /\ UNCHANGED <<requeue, lastId, clock, nextIndex, requeueFrom, slot, reader,
                   endOfInput, closed, accepted, sent, dropped, restarts>>

CancelBroadcast ==
    /\ ctx = "cancelled"
    /\ ctx' = "broadcast"
    /\ reader' = Woken
    /\ UNCHANGED <<requeue, lastId, clock, nextIndex, requeueFrom, slot,
                   endOfInput, closed, accepted, sent, dropped, restarts>>

-----------------------------------------------------------------------------
(* The output answers. *)

InTurn(s) == slot[s].oks + slot[s].errs > 0

\* A slot is free again when all parts of its row have been answered.
Settle(sl) ==
    IF sl.unread = 0 /\ sl.flight = 0 /\ sl.oks = 0 /\ sl.errs = 0
    THEN EmptySlot ELSE sl

\* One answer less is expected.
Answered(sl) == [sl EXCEPT !.flight = sl.flight - 1, !.resp = sl.resp - 1]

\* The closure of toAckableBatches counts the answer and goes on to ackOnce
\* if it is the last one or a failure.
AnswerOk(s) ==
    /\ slot[s].flight > 0
    /\ InTurn(s) => ConcurrentAcks
    /\ LET last == slot[s].resp = 1 IN
         /\ slot' = [slot EXCEPT ![s] =
              Settle([Answered(slot[s]) EXCEPT !.oks = IF last THEN 1 ELSE 0])]
         /\ sent' = IF last /\ ~slot[s].failed THEN sent \cup {slot[s].row} ELSE sent
    /\ UNCHANGED <<requeue, lastId, clock, nextIndex, requeueFrom, reader, ctx,
                   endOfInput, closed, accepted, dropped, restarts>>

\* Faulty variant: a failure counts only as the last answer.
AnswerErrorIfLast(s) ==
    /\ slot[s].flight > 0
    /\ InTurn(s) => ConcurrentAcks
    /\ clock + Cardinality({r \in Slots : slot[r].errs > 0}) < MaxStamp
    /\ slot' = [slot EXCEPT ![s] =
         Settle([Answered(slot[s]) EXCEPT
                   !.failed = TRUE,
                   !.errs = slot[s].errs + IF slot[s].resp = 1 THEN 1 ELSE 0])]
    /\ UNCHANGED <<requeue, lastId, clock, nextIndex, requeueFrom, reader, ctx,
                   endOfInput, closed, accepted, sent, dropped, restarts>>

AnswerError(s) ==
    /\ slot[s].flight > 0
    /\ InTurn(s) => ConcurrentAcks
    /\ clock + Cardinality({r \in Slots : slot[r].errs > 0}) < MaxStamp
    /\ slot' = [slot EXCEPT ![s] =
         [Answered(slot[s]) EXCEPT !.failed = TRUE, !.errs = slot[s].errs + 1]]
    /\ UNCHANGED <<requeue, lastId, clock, nextIndex, requeueFrom, reader, ctx,
                   endOfInput, closed, accepted, sent, dropped, restarts>>

\* Who comes second to ackOnce does nothing.
AckLate(s) ==
    /\ slot[s].once
    /\ \/ /\ slot[s].oks > 0
          /\ slot' = [slot EXCEPT ![s] = Settle([slot[s] EXCEPT !.oks = 0])]
       \/ /\ slot[s].errs > 0
          /\ slot' = [slot EXCEPT ![s] =
                         Settle([slot[s] EXCEPT !.errs = slot[s].errs - 1])]
    /\ UNCHANGED <<requeue, lastId, clock, nextIndex, requeueFrom, reader, ctx,
                   endOfInput, closed, accepted, sent, dropped, restarts>>

\* endAckFn without an error deletes the row, if the database lets it.
AckDelete(s, ok) ==
    /\ ~Locked /\ (ok => ~closed)
    /\ ~slot[s].once /\ slot[s].oks > 0
    /\ slot' = [slot EXCEPT ![s] =
                   Settle([slot[s] EXCEPT !.once = TRUE, !.oks = 0])]
    /\ requeue' = IF ok THEN [requeue EXCEPT ![slot[s].row] = Gone] ELSE requeue
    /\ dropped' = IF ok THEN dropped ELSE dropped \cup {slot[s].row}
    /\ UNCHANGED <<lastId, clock, nextIndex, requeueFrom, reader, ctx, endOfInput,
                   closed, accepted, sent, restarts>>

\* Faulty variant: requeue does not wake the loop.
AckRequeueSilent(s, ok) ==
    /\ ~Locked /\ (ok => ~closed)
    /\ ~slot[s].once /\ slot[s].errs > 0
    /\ slot' = [slot EXCEPT ![s] =
                   Settle([slot[s] EXCEPT !.once = TRUE, !.errs = slot[s].errs - 1])]
    /\ clock' = clock + 1
    /\ requeue' = IF ok /\ requeue[slot[s].row] # Gone
                  THEN [requeue EXCEPT ![slot[s].row] = clock + 1] ELSE requeue
    /\ dropped' = IF ok THEN dropped \ {slot[s].row} ELSE dropped \cup {slot[s].row}
    /\ UNCHANGED <<lastId, nextIndex, requeueFrom, reader, ctx, endOfInput, closed,
                   accepted, sent, restarts>>

\* endAckFn with an error: requeue stamps the row, if it is still there.
AckRequeue(s, ok) ==
    /\ ~Locked /\ (ok => ~closed)
    /\ ~slot[s].once /\ slot[s].errs > 0
    /\ slot' = [slot EXCEPT ![s] =
                   Settle([slot[s] EXCEPT !.once = TRUE, !.errs = slot[s].errs - 1])]
    /\ clock' = clock + 1
    /\ requeue' = IF ok /\ requeue[slot[s].row] # Gone
                  THEN [requeue EXCEPT ![slot[s].row] = clock + 1] ELSE requeue
    /\ dropped' = IF ok THEN dropped \ {slot[s].row} ELSE dropped \cup {slot[s].row}
    /\ reader' = Woken
    /\ UNCHANGED <<lastId, nextIndex, requeueFrom, ctx, endOfInput, closed,
                   accepted, sent, restarts>>

-----------------------------------------------------------------------------

\* The service is restarted, after a crash or in good order.
Restart ==
    /\ restarts < MaxRestarts
    /\ restarts' = restarts + 1
    /\ nextIndex' = 0
    /\ requeueFrom' = 0
    /\ slot' = [s \in Slots |-> EmptySlot]
    /\ reader' = "out"
    /\ ctx' = "live"
    /\ endOfInput' = FALSE
    /\ closed' = FALSE
    /\ dropped' = {}
    /\ UNCHANGED <<requeue, lastId, clock, accepted, sent>>

Read ==
    \/ \E s \in Slots : ReadPending(s) \/ \E i \in Ids, n \in 1..MaxParts : ReadRow(s, i, n)
    \/ \E i \in Ids : ReadDrops(i)
    \/ ReadNone \/ ReadEnds \/ Wait

Answer(s) == AnswerOk(s) \/ AnswerError(s)

Ack(s) ==
    AckLate(s) \/ \E ok \in BOOLEAN : AckDelete(s, ok) \/ AckRequeue(s, ok)

Next ==
    \/ \E n \in Ids : WriteBatch(n) \/ WriteBatchNotAcked(n)
    \/ EndOfInput \/ Close
    \/ Cancel \/ CancelBroadcast
    \/ Read
    \/ \E s \in Slots : Answer(s) \/ Ack(s)
    \/ Restart

Spec == Init /\ [][Next]_vars

\* The loop keeps reading, the output answers what it has been given, and
\* the goroutines of acknowledgements run.
Fairness ==
    /\ WF_vars(Read)
    /\ WF_vars(CancelBroadcast)
    /\ \A s \in Slots : WF_vars(Answer(s)) /\ WF_vars(Ack(s))

LiveSpec == Spec /\ Fairness

-----------------------------------------------------------------------------

\* "Messages ... are not removed from the SQLite database until they have
\* been successfully delivered ... at-least-once delivery guarantees are
\* preserved in cases where the service is shut down unexpectedly"
\* (buffer_sqlite.go:31): what the input was told is stored is in the
\* database or all of it has been sent.
AtLeastOnce == \A i \in accepted : requeue[i] # Gone \/ i \in sent

\* "When it starts again it will consume from the oldest message that has
\* not yet been delivered" (buffer_sqlite.go:27): a row stays within reach
\* of the loop.  If the query does not select it again the output has it, or
\* its processing or its acknowledgement failed.
WithinReach ==
    \A i \in Ids :
        requeue[i] # Gone =>
            \/ Selectable(i)
            \/ \E s \in Slots : slot[s].row = i
            \/ i \in dropped

\* The same until the first restart, although nextIndex and requeueFrom both
\* move backwards when a row that was put back is read.
WithinReachAtFirst == restarts = 0 => WithinReach

\* Until then every accepted row is sent as long as the service runs,
\* whatever fails and is put back on the way.
EventuallySent ==
    \A i \in Ids :
        i \in accepted ~>
            \/ i \in sent \cup dropped
            \/ reader = "ended" \/ closed \/ restarts > 0
=============================================================================
