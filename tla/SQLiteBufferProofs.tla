------------------------- MODULE SQLiteBufferProofs -------------------------
(***************************************************************************)
(* Proofs about the SQLite buffer, for any number of rows, parts, rows in  *)
(* flight, failures and restarts.                                          *)
(***************************************************************************)
EXTENDS SQLiteBuffer, FiniteSetTheorems, TLAPS

-----------------------------------------------------------------------------
(* The inductive invariant. *)

\* The counters of a slot: every part is unread, with the output, or
\* answered; the last answer to a row that has not been through ackOnce is
\* on its way there, so the slot is not free yet.
SlotOK(sl) ==
    /\ sl.resp = sl.unread + sl.flight
    /\ sl.resp + sl.errs <= MaxParts
    /\ sl.oks > 0 => sl.resp = 0
    /\ sl.row = 0 => sl = EmptySlot
    /\ sl.row # 0 /\ ~sl.once => sl.resp + sl.oks + sl.errs > 0

SlotInv == \A s \in Slots : SlotOK(slot[s])

\* The failures that are going to be stamped.
Owing == {s \in Slots : slot[s].errs > 0 /\ ~slot[s].once}

ClockInv == clock + Cardinality(Owing) <= MaxStamp

\* When parts are answered one after the other, who comes first to ackOnce
\* with a success stands for the whole row.
SentInv ==
    ~ConcurrentAcks =>
        /\ \A s \in Slots : slot[s].oks > 0 /\ ~slot[s].once => slot[s].row \in sent
        /\ \A s \in Slots : slot[s].failed => slot[s].once \/ slot[s].errs > 0
        /\ AtLeastOnce

Stamped(i) == requeue[i] # Gone /\ requeue[i] # Fresh

\* A row that has been put back has a stamp of its own.
StampInv ==
    /\ requeueFrom <= clock
    /\ \A i \in Ids : Stamped(i) => requeue[i] <= clock
    /\ \A i, j \in Ids : Stamped(i) /\ requeue[i] = requeue[j] => i = j

\* A row somebody will acknowledge; a row that has been read; one that has
\* not.
Held(i)   == \E s \in Slots : slot[s].row = i /\ ~slot[s].once
Seen(i)   == Held(i) \/ i \in dropped \/ Stamped(i)
Unseen(i) == requeue[i] = Fresh /\ ~Held(i) /\ i \notin dropped

KnownInv ==
    /\ nextIndex <= lastId + 1
    /\ \A i \in Ids : Seen(i) \/ requeue[i] # Gone => i <= lastId

\* Rows are read for the first time in the order of their ids, so wherever
\* nextIndex jumps it stays at or below them; stamps are read in order too.
ReadInv ==
    restarts = 0 =>
        /\ \A i \in Ids : Unseen(i) => i >= nextIndex
        /\ \A i, j \in Ids : Unseen(i) /\ Seen(j) => j < i
        /\ \A i \in Ids : Stamped(i) /\ ~Held(i) /\ i \notin dropped =>
             requeue[i] > requeueFrom

BInv ==
    TypeOK /\ SlotInv /\ ClockInv /\ SentInv /\ StampInv /\ KnownInv /\ ReadInv

-----------------------------------------------------------------------------
(* Slots. *)

\* The empty slot is a slot.
LEMMA EmptyOK == EmptySlot \in SlotType /\ SlotOK(EmptySlot)
  BY BoundsAssumption DEF EmptySlot, SlotType, SlotOK

\* Freeing a slot keeps its type and loses only rows that need no answer.
LEMMA SettleOK ==
    ASSUME NEW sl \in SlotType, SlotOK(sl), sl.row # 0
    PROVE  /\ Settle(sl) \in SlotType
           /\ SlotOK(Settle(sl))
           /\ Settle(sl) = sl \/ (Settle(sl) = EmptySlot /\ sl.once)
  <1>1. CASE sl.unread = 0 /\ sl.flight = 0 /\ sl.oks = 0 /\ sl.errs = 0
    BY <1>1, EmptyOK, BoundsAssumption DEF Settle, SlotOK, SlotType
  <1>2. CASE ~(sl.unread = 0 /\ sl.flight = 0 /\ sl.oks = 0 /\ sl.errs = 0)
    BY <1>2 DEF Settle
  <1> QED  BY <1>1, <1>2

\* Counting an answer.
LEMMA AnsweredOK ==
    ASSUME NEW sl \in SlotType, sl.flight > 0, sl.resp > 0
    PROVE  /\ Answered(sl) \in SlotType
           /\ Answered(sl).flight = sl.flight - 1
           /\ Answered(sl).resp = sl.resp - 1
           /\ Answered(sl).row = sl.row
           /\ Answered(sl).unread = sl.unread
           /\ Answered(sl).once = sl.once
           /\ Answered(sl).failed = sl.failed
           /\ Answered(sl).oks = sl.oks
           /\ Answered(sl).errs = sl.errs
  <1>1. sl.flight - 1 \in 0..MaxParts /\ sl.resp - 1 \in 0..MaxParts
    BY BoundsAssumption DEF SlotType
  <1>2. Answered(sl) \in SlotType
    BY <1>1 DEF SlotType, Answered
  <1> QED  BY <1>2 DEF SlotType, Answered

\* The set of slots that owe a stamp is finite.
LEMMA OwingFinite ==
    /\ IsFiniteSet(Slots)
    /\ \A S \in SUBSET Slots : IsFiniteSet(S) /\ Cardinality(S) \in Nat
  <1>1. IsFiniteSet(Slots)
    BY FS_Interval, BoundsAssumption DEF Slots
  <1> QED  BY <1>1, FS_Subset, FS_CardinalityType

\* The invariant holds when the buffer is created on a new database.
LEMMA BInit == Init => BInv
  <1> SUFFICES ASSUME Init PROVE BInv  OBVIOUS
  <1>1. TypeOK
    <2>1. requeue \in [Ids -> 0..Fresh] /\ slot \in [Slots -> SlotType]
      BY EmptyOK, BoundsAssumption DEF Init, Fresh, Gone
    <2>2. /\ clock \in 0..MaxStamp /\ requeueFrom \in 0..MaxStamp
          /\ nextIndex \in 0..(MaxRows + 1) /\ lastId \in 0..MaxRows
          /\ restarts \in 0..MaxRestarts
      BY BoundsAssumption DEF Init
    <2> QED  BY <2>1, <2>2 DEF Init, TypeOK
  <1>2. SlotInv
    BY EmptyOK DEF Init, SlotInv
  <1>3. ClockInv
    <2>1. Owing = {}
      BY DEF Init, Owing, EmptySlot
    <2> QED  BY <2>1, FS_EmptySet, BoundsAssumption DEF Init, ClockInv
  <1>4. SentInv
    BY DEF Init, SentInv, AtLeastOnce, EmptySlot
  <1>5. StampInv /\ KnownInv /\ ReadInv
    BY BoundsAssumption DEF Init, StampInv, KnownInv, ReadInv, Stamped, Seen, Held,
       Unseen, EmptySlot, Ids, Gone, Fresh
  <1> QED  BY <1>1, <1>2, <1>3, <1>4, <1>5 DEF BInv

-----------------------------------------------------------------------------
(* Steps that touch neither rows nor slots. *)

\* All that matters of the loop's waiting and of the end of the input.
LEMMA QuietStep ==
    ASSUME BInv,
           reader' \in {"out", "locked", "asleep", "ended"},
           ctx' \in {"live", "cancelled", "broadcast"},
           endOfInput' \in BOOLEAN, closed' \in BOOLEAN,
           UNCHANGED <<requeue, lastId, clock, nextIndex, requeueFrom, slot,
                       accepted, sent, dropped, restarts>>
    PROVE  BInv'
  <1>1. TypeOK'
    BY DEF BInv, TypeOK
  <1>2. SlotInv' /\ ClockInv' /\ SentInv'
    BY DEF BInv, SlotInv, ClockInv, SentInv, Owing, AtLeastOnce
  <1>3. StampInv' /\ KnownInv' /\ ReadInv'
    BY DEF BInv, StampInv, KnownInv, ReadInv, Stamped, Seen, Unseen, Held
  <1> QED  BY <1>1, <1>2, <1>3 DEF BInv

\* Waiting, waking, closing, cancelling.
LEMMA QuietActions ==
    ASSUME BInv,
           \/ EndOfInput \/ Close \/ ReadNone \/ ReadEnds \/ Wait
           \/ Cancel \/ CancelBroadcast \/ UNCHANGED vars
    PROVE  BInv'
  <1> USE DEF BInv, TypeOK
  <1>1. CASE EndOfInput       BY <1>1, QuietStep DEF EndOfInput, Woken
  <1>2. CASE Close            BY <1>2, QuietStep DEF Close
  <1>3. CASE ReadNone         BY <1>3, QuietStep DEF ReadNone
  <1>4. CASE ReadEnds         BY <1>4, QuietStep DEF ReadEnds
  <1>5. CASE Wait             BY <1>5, QuietStep DEF Wait
  <1>6. CASE Cancel           BY <1>6, QuietStep DEF Cancel
  <1>7. CASE CancelBroadcast  BY <1>7, QuietStep DEF CancelBroadcast, Woken
  <1>8. CASE UNCHANGED vars   BY <1>8, QuietStep DEF vars
  <1> QED  BY <1>1, <1>2, <1>3, <1>4, <1>5, <1>6, <1>7, <1>8

-----------------------------------------------------------------------------
(* The input. *)

\* New rows are above all others, and have not been read.
LEMMA InsertStep ==
    ASSUME BInv, NEW n \in Ids, WriteBatch(n) \/ WriteBatchNotAcked(n)
    PROVE  BInv'
  <1> DEFINE New == (lastId + 1)..(lastId + n)
  <1>1. /\ Insert(n)
        /\ UNCHANGED <<clock, nextIndex, requeueFrom, slot, ctx, endOfInput, closed,
                       sent, dropped, restarts>>
        /\ reader' \in {reader, Woken}
        /\ accepted' \in {accepted, accepted \cup New}
    BY DEF WriteBatch, WriteBatchNotAcked
  <1>2. /\ lastId \in Nat /\ MaxRows \in Nat /\ n \in Nat /\ n >= 1
        /\ MaxStamp \in Nat /\ Fresh \in Nat /\ Fresh # Gone
        /\ lastId' = lastId + n /\ lastId' <= MaxRows
        /\ New \subseteq Ids
    BY <1>1, BoundsAssumption DEF BInv, TypeOK, Ids, Insert, Fresh, Gone
  <1>3. /\ \A i \in Ids : requeue'[i] = IF i \in New THEN Fresh ELSE requeue[i]
        /\ requeue' \in [Ids -> 0..Fresh]
    BY <1>1, <1>2 DEF Insert, BInv, TypeOK
  <1>4. TypeOK'
    <2>1. accepted' \subseteq Ids  BY <1>1, <1>2 DEF BInv, TypeOK
    <2>2. reader' \in {"out", "locked", "asleep", "ended"}
      BY <1>1 DEF BInv, TypeOK, Woken
    <2> QED  BY <1>1, <1>2, <1>3, <2>1, <2>2 DEF BInv, TypeOK
  <1>5. SlotInv' /\ ClockInv'
    BY <1>1 DEF BInv, SlotInv, ClockInv, Owing
  <1>6. SentInv'
    BY <1>1, <1>2, <1>3 DEF BInv, SentInv, AtLeastOnce, TypeOK
  <1>7. \A i \in Ids : /\ Stamped(i)' <=> (i \notin New /\ Stamped(i))
                       /\ Held(i)' <=> Held(i)
                       /\ i \in dropped' <=> i \in dropped
    BY <1>1, <1>2, <1>3 DEF Stamped, Held
  <1>8. \A i \in Ids : i \in New <=> (lastId < i /\ i <= lastId')
    BY <1>2 DEF Ids
  <1>9. StampInv'
    BY <1>1, <1>3, <1>7 DEF BInv, StampInv, Stamped
  <1>10. KnownInv'
    <2> SUFFICES ASSUME NEW i \in Ids, Seen(i)' \/ requeue'[i] # Gone
                 PROVE  i <= lastId'
      BY <1>1, <1>2 DEF BInv, KnownInv, TypeOK
    <2>1. CASE i \in New  BY <2>1, <1>8
    <2>2. CASE i \notin New
      BY <2>2, <1>2, <1>3, <1>7 DEF BInv, KnownInv, Seen, Ids
    <2> QED  BY <2>1, <2>2
  <1>11. ReadInv'
    <2> SUFFICES ASSUME restarts' = 0 PROVE ReadInv'  BY DEF ReadInv
    <2>1. \A i \in Ids : /\ Seen(i)' => Seen(i)
                         /\ Unseen(i)' => Unseen(i) \/ i \in New
      BY <1>3, <1>7 DEF Seen, Unseen
    <2>2. \A i \in Ids : i \in New => i >= nextIndex /\ \A j \in Ids : Seen(j) => j < i
      <3>1. \A j \in Ids : Seen(j) => j <= lastId  BY DEF BInv, KnownInv
      <3>2. nextIndex <= lastId + 1  BY DEF BInv, KnownInv
      <3> QED  BY <3>1, <3>2, <1>8, <1>2 DEF BInv, TypeOK, Ids
    <2> QED  BY <1>1, <1>3, <1>7, <2>1, <2>2 DEF BInv, ReadInv, Stamped
  <1> QED  BY <1>4, <1>5, <1>6, <1>9, <1>10, <1>11 DEF BInv

-----------------------------------------------------------------------------
(* Steps of one slot. *)

\* Fewer slots that owe a stamp are fewer.
LEMMA OwingShrinks ==
    ASSUME BInv, UNCHANGED clock, Owing' \subseteq Owing
    PROVE  ClockInv'
  <1>1. Owing \subseteq Slots /\ Owing' \subseteq Slots  BY DEF Owing
  <1>2. /\ Cardinality(Owing) \in Nat
        /\ Cardinality(Owing') \in Nat
        /\ Cardinality(Owing') <= Cardinality(Owing)
    BY <1>1, OwingFinite, FS_Subset
  <1> QED  BY <1>2, BoundsAssumption DEF BInv, TypeOK, ClockInv

\* A slot that keeps its row, or is freed after ackOnce, holds the same rows.
LEMMA SlotStep ==
    ASSUME BInv, NEW s \in Slots, NEW sl \in SlotType, SlotOK(sl),
           slot' = [slot EXCEPT ![s] = sl],
           \/ sl.row = slot[s].row /\ sl.once = slot[s].once
           \/ sl = EmptySlot /\ slot[s].once,
           sent' \subseteq Ids,
           UNCHANGED <<requeue, lastId, clock, nextIndex, requeueFrom, reader, ctx,
                       endOfInput, closed, accepted, dropped, restarts>>
    PROVE  TypeOK' /\ SlotInv' /\ StampInv' /\ KnownInv' /\ ReadInv'
  <1>1. \A r \in Slots : slot'[r] = IF r = s THEN sl ELSE slot[r]
    BY DEF BInv, TypeOK
  <1>2. TypeOK'
    BY DEF BInv, TypeOK
  <1>3. SlotInv'
    BY <1>1 DEF BInv, SlotInv
  <1>4. \A i \in Ids : Held(i)' <=> Held(i)
    BY <1>1 DEF Held, EmptySlot, Ids
  <1>5. StampInv' /\ KnownInv' /\ ReadInv'
    BY <1>4 DEF BInv, StampInv, KnownInv, ReadInv, Stamped, Seen, Unseen
  <1> QED  BY <1>2, <1>3, <1>5

\* The next part of a row is handed out.
LEMMA ReadPendingStep ==
    ASSUME BInv, NEW s \in Slots, ReadPending(s)
    PROVE  BInv'
  <1> DEFINE old == slot[s]
             sl  == [old EXCEPT !.unread = old.unread - 1, !.flight = old.flight + 1]
  <1>1. /\ old \in SlotType /\ SlotOK(old)
        /\ MaxParts \in Nat
    BY BoundsAssumption DEF BInv, TypeOK, SlotInv
  <1>2. slot' = [slot EXCEPT ![s] = sl] /\ old.unread > 0
    BY <1>1 DEF ReadPending, BInv, TypeOK, SlotType
  <1>3. old.row # 0
    BY <1>1, <1>2 DEF SlotOK, EmptySlot
  <1>4. /\ sl.row = old.row /\ sl.once = old.once /\ sl.oks = old.oks
        /\ sl.errs = old.errs /\ sl.failed = old.failed /\ sl.resp = old.resp
        /\ sl.unread = old.unread - 1 /\ sl.flight = old.flight + 1
        /\ sl \in SlotType
    <2>1. /\ old.unread - 1 \in 0..MaxParts
          /\ old.flight + 1 \in 0..MaxParts
      BY <1>1, <1>2 DEF SlotType, SlotOK
    <2>2. sl \in SlotType
      BY <1>1, <2>1 DEF SlotType
    <2> QED  BY <1>1, <2>2 DEF SlotType
  <1>5. \A r \in Slots : slot'[r] = IF r = s THEN sl ELSE slot[r]
    BY <1>2 DEF BInv, TypeOK
  <1> HIDE DEF sl
  <1>9. SlotOK(sl)
    BY <1>1, <1>3, <1>4 DEF SlotOK, SlotType
  <1>6. TypeOK' /\ SlotInv' /\ StampInv' /\ KnownInv' /\ ReadInv'
    BY <1>2, <1>4, <1>9, SlotStep DEF ReadPending, BInv, TypeOK
  <1>7. ClockInv'
    BY <1>4, <1>5, OwingShrinks DEF Owing, ReadPending
  <1>8. SentInv'
    <2> SUFFICES ASSUME ~ConcurrentAcks PROVE SentInv'  BY DEF SentInv
    <2>1. ASSUME NEW r \in Slots, slot'[r].oks > 0, ~slot'[r].once
          PROVE  slot'[r].row \in sent'
      <3>1. slot[r].oks > 0 /\ ~slot[r].once /\ slot'[r].row = slot[r].row
        BY <1>4, <1>5, <2>1
      <3> QED  BY <3>1 DEF BInv, SentInv, ReadPending
    <2>2. \A r \in Slots : slot'[r].failed => slot'[r].once \/ slot'[r].errs > 0
      BY <1>4, <1>5 DEF BInv, SentInv
    <2>3. AtLeastOnce'
      BY DEF BInv, SentInv, AtLeastOnce, ReadPending
    <2> QED  BY <2>1, <2>2, <2>3 DEF SentInv
  <1> QED  BY <1>6, <1>7, <1>8 DEF BInv

\* A part has been sent.  The last one stands for the row: an earlier
\* failure would have been through ackOnce.
LEMMA AnswerOkStep ==
    ASSUME BInv, NEW s \in Slots, AnswerOk(s)
    PROVE  BInv'
  <1> DEFINE old  == slot[s]
             last == old.resp = 1
             sl   == [Answered(old) EXCEPT !.oks = IF last THEN 1 ELSE 0]
  <1>1. /\ old \in SlotType /\ SlotOK(old)
        /\ MaxParts \in Nat
        /\ old.flight > 0 /\ old.resp > 0
    BY BoundsAssumption DEF BInv, TypeOK, SlotInv, AnswerOk, SlotType, SlotOK
  <1>2. old.row # 0
    BY <1>1 DEF SlotOK, EmptySlot
  <1>4. /\ sl.row = old.row /\ sl.once = old.once /\ sl.failed = old.failed
        /\ sl.errs = old.errs /\ sl.oks = (IF last THEN 1 ELSE 0)
        /\ sl.resp = old.resp - 1 /\ sl.unread = old.unread
        /\ sl.flight = old.flight - 1
        /\ sl \in SlotType
    BY <1>1, AnsweredOK DEF SlotType
  <1>5. slot' = [slot EXCEPT ![s] = Settle(sl)]
    BY DEF AnswerOk
  <1> HIDE DEF sl
  <1>3. SlotOK(sl)
    BY <1>1, <1>2, <1>4 DEF SlotOK, SlotType
  <1>6. /\ Settle(sl) \in SlotType /\ SlotOK(Settle(sl))
        /\ Settle(sl) = sl \/ (Settle(sl) = EmptySlot /\ sl.once)
    BY <1>2, <1>3, <1>4, SettleOK
  <1>7. \A r \in Slots : slot'[r] = IF r = s THEN Settle(sl) ELSE slot[r]
    BY <1>5 DEF BInv, TypeOK
  <1>8. /\ sent \subseteq sent' /\ sent' \subseteq Ids
        /\ last /\ ~old.failed => old.row \in sent'
    BY <1>1, <1>2 DEF AnswerOk, BInv, TypeOK, SlotType, Ids
  <1>9. TypeOK' /\ SlotInv' /\ StampInv' /\ KnownInv' /\ ReadInv'
    BY <1>4, <1>5, <1>6, <1>8, SlotStep DEF AnswerOk
  <1>10. ClockInv'
    <2>1. Owing' \subseteq Owing  BY <1>4, <1>6, <1>7 DEF Owing, EmptySlot
    <2> QED  BY <2>1, OwingShrinks DEF AnswerOk
  <1>11. SentInv'
    <2> SUFFICES ASSUME ~ConcurrentAcks PROVE SentInv'  BY DEF SentInv
    <2>1. old.errs = 0
      BY <1>1 DEF AnswerOk, InTurn, SlotType
    <2>2. old.failed => old.once
      BY <2>1 DEF BInv, SentInv
    <2>3. \A r \in Slots : slot'[r].oks > 0 /\ ~slot'[r].once => slot'[r].row \in sent'
      BY <1>4, <1>6, <1>7, <1>8, <2>2 DEF BInv, SentInv, EmptySlot
    <2>4. \A r \in Slots : slot'[r].failed => slot'[r].once \/ slot'[r].errs > 0
      BY <1>4, <1>6, <1>7 DEF BInv, SentInv, EmptySlot
    <2>5. AtLeastOnce'
      BY <1>8 DEF BInv, SentInv, AtLeastOnce, AnswerOk
    <2> QED  BY <2>3, <2>4, <2>5 DEF SentInv
  <1> QED  BY <1>9, <1>10, <1>11 DEF BInv

\* A part has failed: one more stamp is owed, which the guard allows for.
LEMMA AnswerErrorStep ==
    ASSUME BInv, NEW s \in Slots, AnswerError(s)
    PROVE  BInv'
  <1> DEFINE old == slot[s]
             sl  == [Answered(old) EXCEPT !.failed = TRUE, !.errs = old.errs + 1]
             All == {r \in Slots : slot[r].errs > 0}
  <1>1. /\ old \in SlotType /\ SlotOK(old)
        /\ MaxParts \in Nat
        /\ old.flight > 0 /\ old.resp > 0
    BY BoundsAssumption DEF BInv, TypeOK, SlotInv, AnswerError, SlotType, SlotOK
  <1>2. old.row # 0
    BY <1>1 DEF SlotOK, EmptySlot
  <1>3. old.errs + 1 \in 0..MaxParts
    BY <1>1 DEF SlotOK, SlotType
  <1>4. /\ sl.row = old.row /\ sl.once = old.once /\ sl.failed
        /\ sl.errs = old.errs + 1 /\ sl.oks = old.oks
        /\ sl.resp = old.resp - 1 /\ sl.unread = old.unread
        /\ sl.flight = old.flight - 1
        /\ sl \in SlotType
    BY <1>1, <1>3, AnsweredOK DEF SlotType
  <1>5. slot' = [slot EXCEPT ![s] = sl]
    BY DEF AnswerError
  <1> HIDE DEF sl
  <1>6. SlotOK(sl)
    BY <1>1, <1>2, <1>4 DEF SlotOK, SlotType
  <1>7. \A r \in Slots : slot'[r] = IF r = s THEN sl ELSE slot[r]
    BY <1>5 DEF BInv, TypeOK
  <1>8. TypeOK' /\ SlotInv' /\ StampInv' /\ KnownInv' /\ ReadInv'
    BY <1>4, <1>5, <1>6, SlotStep DEF AnswerError, BInv, TypeOK
  <1>9. ClockInv'
    <2>1. Owing' \subseteq All \cup {s}  BY <1>7 DEF Owing
    <2>2. IsFiniteSet(All) /\ Cardinality(All) \in Nat  BY OwingFinite
    <2>3. /\ IsFiniteSet(All \cup {s})
          /\ Cardinality(All \cup {s}) <= Cardinality(All) + 1
      BY <2>2, FS_AddElement
    <2>4. /\ Cardinality(Owing') <= Cardinality(All \cup {s})
          /\ Cardinality(Owing') \in Nat
      <3>1. Owing' \subseteq Slots  BY DEF Owing
      <3> QED  BY <2>1, <2>3, <3>1, FS_Subset, OwingFinite
    <2>5. Cardinality(All \cup {s}) \in Nat
      BY <2>3, FS_CardinalityType
    <2>6. clock + Cardinality(All) < MaxStamp /\ clock' = clock /\ clock \in Nat
      BY BoundsAssumption DEF AnswerError, BInv, TypeOK
    <2> QED  BY <2>2, <2>3, <2>4, <2>5, <2>6, BoundsAssumption DEF ClockInv
  <1>10. SentInv'
    <2> SUFFICES ASSUME ~ConcurrentAcks PROVE SentInv'  BY DEF SentInv
    <2>1. ASSUME NEW r \in Slots, slot'[r].oks > 0, ~slot'[r].once
          PROVE  slot'[r].row \in sent'
      <3>1. slot[r].oks > 0 /\ ~slot[r].once /\ slot'[r].row = slot[r].row
        BY <1>4, <1>7, <2>1
      <3> QED  BY <3>1 DEF BInv, SentInv, AnswerError
    <2>2. \A r \in Slots : slot'[r].failed => slot'[r].once \/ slot'[r].errs > 0
      <3>1. sl.errs > 0  BY <1>1, <1>4 DEF SlotType
      <3> QED  BY <3>1, <1>7 DEF BInv, SentInv
    <2>3. AtLeastOnce'
      BY DEF BInv, SentInv, AtLeastOnce, AnswerError
    <2> QED  BY <2>1, <2>2, <2>3 DEF SentInv
  <1> QED  BY <1>8, <1>9, <1>10 DEF BInv

\* Who comes second to ackOnce changes no row.
LEMMA AckLateStep ==
    ASSUME BInv, NEW s \in Slots, AckLate(s)
    PROVE  BInv'
  <1> DEFINE old == slot[s]
  <1>1. /\ old \in SlotType /\ SlotOK(old) /\ old.once
        /\ MaxParts \in Nat
    BY BoundsAssumption DEF BInv, TypeOK, SlotInv, AckLate
  <1>2. old.row # 0
    BY <1>1 DEF SlotOK, EmptySlot
  <1>3. PICK new \in SlotType :
          /\ SlotOK(new) /\ new.row = old.row /\ new.once /\ new.errs <= old.errs
          /\ slot' = [slot EXCEPT ![s] = Settle(new)]
    <2>1. CASE old.oks > 0 /\ slot' = [slot EXCEPT ![s] = Settle([old EXCEPT !.oks = 0])]
      <3> DEFINE sl == [old EXCEPT !.oks = 0]
      <3>1. /\ sl \in SlotType /\ sl.row = old.row /\ sl.once /\ sl.errs = old.errs
            /\ sl.resp = old.resp /\ sl.unread = old.unread /\ sl.flight = old.flight
            /\ sl.oks = 0
        BY <1>1 DEF SlotType
      <3>2. slot' = [slot EXCEPT ![s] = Settle(sl)]  BY <2>1
      <3> HIDE DEF sl
      <3>3. SlotOK(sl)  BY <1>1, <1>2, <3>1 DEF SlotOK, SlotType
      <3>4. sl.errs <= old.errs  BY <1>1, <3>1 DEF SlotType
      <3> QED  BY <3>1, <3>2, <3>3, <3>4
    <2>2. CASE /\ old.errs > 0
               /\ slot' = [slot EXCEPT ![s] = Settle([old EXCEPT !.errs = old.errs - 1])]
      <3> DEFINE sl == [old EXCEPT !.errs = old.errs - 1]
      <3>1. old.errs - 1 \in 0..MaxParts  BY <1>1, <2>2 DEF SlotType
      <3>2. /\ sl \in SlotType /\ sl.row = old.row /\ sl.once /\ sl.errs = old.errs - 1
            /\ sl.resp = old.resp /\ sl.unread = old.unread /\ sl.flight = old.flight
            /\ sl.oks = old.oks
        BY <1>1, <3>1 DEF SlotType
      <3>3. slot' = [slot EXCEPT ![s] = Settle(sl)]  BY <2>2
      <3> HIDE DEF sl
      <3>4. SlotOK(sl)  BY <1>1, <1>2, <3>2 DEF SlotOK, SlotType
      <3>5. sl.errs <= old.errs  BY <1>1, <3>2 DEF SlotType
      <3> QED  BY <3>2, <3>3, <3>4, <3>5
    <2> QED  BY <2>1, <2>2 DEF AckLate
  <1>4. /\ Settle(new) \in SlotType /\ SlotOK(Settle(new))
        /\ Settle(new) = new \/ (Settle(new) = EmptySlot /\ new.once)
    BY <1>2, <1>3, SettleOK
  <1>5. \A r \in Slots : slot'[r] = IF r = s THEN Settle(new) ELSE slot[r]
    BY <1>3 DEF BInv, TypeOK
  <1>6. TypeOK' /\ SlotInv' /\ StampInv' /\ KnownInv' /\ ReadInv'
    BY <1>1, <1>3, <1>4, SlotStep DEF AckLate, BInv, TypeOK
  <1>7. ClockInv'
    <2>1. Owing' \subseteq Owing  BY <1>3, <1>4, <1>5 DEF Owing, EmptySlot
    <2> QED  BY <2>1, OwingShrinks DEF AckLate
  <1>8. SentInv'
    <2> SUFFICES ASSUME ~ConcurrentAcks PROVE SentInv'  BY DEF SentInv
    <2>1. \A r \in Slots : slot'[r].oks > 0 /\ ~slot'[r].once => slot'[r].row \in sent'
      BY <1>3, <1>4, <1>5 DEF BInv, SentInv, EmptySlot, AckLate
    <2>2. \A r \in Slots : slot'[r].failed => slot'[r].once \/ slot'[r].errs > 0
      BY <1>3, <1>4, <1>5 DEF BInv, SentInv, EmptySlot
    <2>3. AtLeastOnce'
      BY DEF BInv, SentInv, AtLeastOnce, AckLate
    <2> QED  BY <2>1, <2>2, <2>3 DEF SentInv
  <1> QED  BY <1>6, <1>7, <1>8 DEF BInv

-----------------------------------------------------------------------------
(* endAckFn. *)

\* What a slot that goes through ackOnce leaves to be shown: it gives up its
\* hold of its row.
LEMMA AckStep ==
    ASSUME BInv, NEW s \in Slots, NEW sl \in SlotType, SlotOK(sl),
           sl.row = slot[s].row, sl.row # 0, sl.once, ~slot[s].once,
           slot' = [slot EXCEPT ![s] = Settle(sl)]
    PROVE  /\ slot' \in [Slots -> SlotType]
           /\ SlotInv'
           /\ slot[s].row \in Ids
           /\ Held(slot[s].row)
           /\ \A i \in Ids : Held(i)' => Held(i)
           /\ \A i \in Ids : i # slot[s].row => (Held(i)' <=> Held(i))
           /\ Owing' \subseteq Owing \ {s}
           /\ \A r \in Slots : ~slot'[r].once =>
                /\ slot'[r].oks > 0 => slot'[r] = slot[r]
                /\ slot'[r].failed => slot'[r] = slot[r]
           /\ \A r \in Slots : r # s => slot'[r] = slot[r]
  <1>1. /\ Settle(sl) \in SlotType /\ SlotOK(Settle(sl))
        /\ Settle(sl) = sl \/ Settle(sl) = EmptySlot
    BY SettleOK
  <1>2. \A r \in Slots : slot'[r] = IF r = s THEN Settle(sl) ELSE slot[r]
    BY DEF BInv, TypeOK
  <1>3. slot' \in [Slots -> SlotType] /\ SlotInv'
    BY <1>1, <1>2 DEF BInv, TypeOK, SlotInv
  <1>4. slot[s].row \in Ids /\ Held(slot[s].row)
    BY BoundsAssumption DEF SlotType, Ids, Held
  <1>5. /\ \A i \in Ids : Held(i)' => Held(i)
        /\ \A i \in Ids : i # slot[s].row => (Held(i)' <=> Held(i))
    BY <1>1, <1>2 DEF Held, EmptySlot, Ids
  <1>6. Owing' \subseteq Owing \ {s}
    BY <1>1, <1>2 DEF Owing, EmptySlot
  <1>7. \A r \in Slots : ~slot'[r].once =>
                /\ slot'[r].oks > 0 => slot'[r] = slot[r]
                /\ slot'[r].failed => slot'[r] = slot[r]
    <2> SUFFICES ASSUME NEW r \in Slots, ~slot'[r].once
                 PROVE  /\ slot'[r].oks > 0 => slot'[r] = slot[r]
                        /\ slot'[r].failed => slot'[r] = slot[r]
      OBVIOUS
    <2>1. CASE r # s  BY <2>1, <1>2
    <2>2. CASE r = s
      <3>1. slot'[r] = EmptySlot  BY <2>2, <1>1, <1>2
      <3>2. EmptySlot.oks = 0 /\ EmptySlot.failed = FALSE  BY DEF EmptySlot
      <3> QED  BY <3>1, <3>2
    <2> QED  BY <2>1, <2>2
  <1> QED  BY <1>2, <1>3, <1>4, <1>5, <1>6, <1>7

\* A row is deleted, or stays because the database did not answer.
LEMMA AckDeleteStep ==
    ASSUME BInv, NEW s \in Slots, NEW ok \in BOOLEAN, AckDelete(s, ok)
    PROVE  BInv'
  <1> DEFINE old == slot[s]
             sl  == [old EXCEPT !.once = TRUE, !.oks = 0]
             row == old.row
  <1>1. /\ old \in SlotType /\ SlotOK(old) /\ ~old.once /\ old.oks > 0
        /\ MaxParts \in Nat
    BY BoundsAssumption DEF BInv, TypeOK, SlotInv, AckDelete
  <1>2. row # 0
    BY <1>1 DEF SlotOK, EmptySlot
  <1>3. /\ sl \in SlotType /\ sl.row = old.row /\ sl.once /\ sl.errs = old.errs
        /\ sl.resp = old.resp /\ sl.unread = old.unread /\ sl.flight = old.flight
        /\ sl.oks = 0
    <2>1. TRUE \in BOOLEAN /\ 0 \in 0..1  OBVIOUS
    <2>2. sl \in SlotType  BY <1>1, <2>1 DEF SlotType
    <2>3. sl.oks = 0 /\ sl.once  BY <1>1 DEF SlotType
    <2> QED  BY <1>1, <2>2, <2>3 DEF SlotType
  <1>4. slot' = [slot EXCEPT ![s] = Settle(sl)]
    BY DEF AckDelete
  <1> HIDE DEF sl
  <1>5. SlotOK(sl)
    BY <1>1, <1>2, <1>3 DEF SlotOK, SlotType
  <1>6. /\ slot' \in [Slots -> SlotType]
        /\ SlotInv'
        /\ row \in Ids
        /\ Held(row)
        /\ \A i \in Ids : Held(i)' => Held(i)
        /\ \A i \in Ids : i # row => (Held(i)' <=> Held(i))
        /\ Owing' \subseteq Owing \ {s}
        /\ \A r \in Slots : ~slot'[r].once =>
             /\ slot'[r].oks > 0 => slot'[r] = slot[r]
             /\ slot'[r].failed => slot'[r] = slot[r]
    BY <1>1, <1>2, <1>3, <1>4, <1>5, AckStep
  <1> HIDE DEF row, old
  <1>7. /\ \A i \in Ids : i # row => requeue'[i] = requeue[i]
        /\ ok => requeue'[row] = Gone
        /\ ~ok => requeue' = requeue /\ row \in dropped'
        /\ \A i \in Ids : i # row => (i \in dropped' <=> i \in dropped)
        /\ dropped \subseteq dropped'
        /\ requeue' \in [Ids -> 0..Fresh]
        /\ dropped' \subseteq Ids
        /\ ok => dropped' = dropped
    <2>1. /\ requeue' = IF ok THEN [requeue EXCEPT ![row] = Gone] ELSE requeue
          /\ dropped' = IF ok THEN dropped ELSE dropped \cup {row}
      BY DEF AckDelete, row, old
    <2>2. /\ requeue \in [Ids -> 0..Fresh] /\ dropped \subseteq Ids
          /\ Gone \in 0..Fresh /\ row \in Ids
      BY <1>6, BoundsAssumption DEF BInv, TypeOK, Gone, Fresh
    <2>3. CASE ok   BY <2>1, <2>2, <2>3
    <2>4. CASE ~ok  BY <2>1, <2>2, <2>4
    <2> QED  BY <2>3, <2>4
  <1>8. TypeOK'
    BY <1>6, <1>7 DEF AckDelete, BInv, TypeOK
  <1>9. ClockInv'
    BY <1>6, OwingShrinks DEF AckDelete
  <1>10. SentInv'
    <2> SUFFICES ASSUME ~ConcurrentAcks PROVE SentInv'  BY DEF SentInv
    <2>1. row \in sent
      BY <1>1 DEF BInv, SentInv, row, old
    <2>2. \A r \in Slots : slot'[r].oks > 0 /\ ~slot'[r].once => slot'[r].row \in sent'
      BY <1>6 DEF BInv, SentInv, AckDelete
    <2>3. \A r \in Slots : slot'[r].failed => slot'[r].once \/ slot'[r].errs > 0
      BY <1>6 DEF BInv, SentInv
    <2>4. AtLeastOnce'
      BY <2>1, <1>7 DEF BInv, SentInv, AtLeastOnce, AckDelete, TypeOK
    <2> QED  BY <2>2, <2>3, <2>4 DEF SentInv
  <1>11. \A i \in Ids : /\ Stamped(i)' => Stamped(i) /\ requeue'[i] = requeue[i]
                        /\ Seen(i)' => Seen(i)
                        /\ Unseen(i)' => Unseen(i)
                        /\ i # row => (Seen(i)' <=> Seen(i))
    <2>1. Gone # Fresh  BY BoundsAssumption DEF Gone, Fresh
    <2> SUFFICES ASSUME NEW i \in Ids
                 PROVE  /\ Stamped(i)' => Stamped(i) /\ requeue'[i] = requeue[i]
                        /\ Seen(i)' => Seen(i)
                        /\ Unseen(i)' => Unseen(i)
                        /\ i # row => (Seen(i)' <=> Seen(i))
      OBVIOUS
    <2>2. CASE i # row  BY <2>2, <1>6, <1>7 DEF Stamped, Seen, Unseen
    <2>3. CASE i = row  BY <2>1, <2>3, <1>6, <1>7 DEF Stamped, Seen, Unseen
    <2> QED  BY <2>2, <2>3
  <1>12. StampInv'
    BY <1>7, <1>11 DEF BInv, StampInv, AckDelete, Stamped
  <1>13. KnownInv'
    BY <1>6, <1>7, <1>11 DEF BInv, KnownInv, AckDelete, Seen
  <1>14. ReadInv'
    <2> SUFFICES ASSUME restarts' = 0 PROVE ReadInv'  BY DEF ReadInv
    <2>1. restarts = 0 /\ nextIndex' = nextIndex /\ requeueFrom' = requeueFrom
      BY DEF AckDelete
    <2>2. ASSUME NEW i \in Ids, Stamped(i)', ~Held(i)', i \notin dropped'
          PROVE  requeue'[i] > requeueFrom'
      <3>1. i # row  BY <2>2, <1>7 DEF Stamped
      <3> QED  BY <3>1, <2>1, <2>2, <1>6, <1>7, <1>11 DEF BInv, ReadInv
    <2> QED  BY <2>1, <2>2, <1>11 DEF BInv, ReadInv
  <1> QED  BY <1>6, <1>8, <1>9, <1>10, <1>12, <1>13, <1>14 DEF BInv

\* A row is put back with a stamp later than all others.
LEMMA AckRequeueStep ==
    ASSUME BInv, NEW s \in Slots, NEW ok \in BOOLEAN, AckRequeue(s, ok)
    PROVE  BInv'
  <1> DEFINE old == slot[s]
             sl  == [old EXCEPT !.once = TRUE, !.errs = old.errs - 1]
             row == old.row
  <1>1. /\ old \in SlotType /\ SlotOK(old) /\ ~old.once /\ old.errs > 0
        /\ MaxParts \in Nat
    BY BoundsAssumption DEF BInv, TypeOK, SlotInv, AckRequeue
  <1>2. row # 0 /\ old.errs - 1 \in 0..MaxParts
    BY <1>1 DEF SlotOK, EmptySlot, SlotType
  <1>3. /\ sl \in SlotType /\ sl.row = old.row /\ sl.once /\ sl.errs = old.errs - 1
        /\ sl.resp = old.resp /\ sl.unread = old.unread /\ sl.flight = old.flight
        /\ sl.oks = old.oks
    BY <1>1, <1>2 DEF SlotType
  <1>4. slot' = [slot EXCEPT ![s] = Settle(sl)]
    BY DEF AckRequeue
  <1> HIDE DEF sl
  <1>5. SlotOK(sl)
    BY <1>1, <1>2, <1>3 DEF SlotOK, SlotType
  <1>6. /\ slot' \in [Slots -> SlotType]
        /\ SlotInv'
        /\ row \in Ids
        /\ Held(row)
        /\ \A i \in Ids : Held(i)' => Held(i)
        /\ \A i \in Ids : i # row => (Held(i)' <=> Held(i))
        /\ Owing' \subseteq Owing \ {s}
        /\ \A r \in Slots : ~slot'[r].once =>
             /\ slot'[r].oks > 0 => slot'[r] = slot[r]
             /\ slot'[r].failed => slot'[r] = slot[r]
    BY <1>1, <1>2, <1>3, <1>4, <1>5, AckStep
  <1>7. /\ ClockInv'
        /\ clock \in Nat /\ clock' = clock + 1 /\ clock + 1 <= MaxStamp
        /\ clock' # Gone /\ clock' # Fresh
    <2>1. s \in Owing /\ Owing \subseteq Slots /\ Owing' \subseteq Slots
      BY <1>1 DEF Owing
    <2>2. IsFiniteSet(Owing) /\ Cardinality(Owing) \in Nat /\ Cardinality(Owing') \in Nat
      BY <2>1, OwingFinite
    <2>3. /\ IsFiniteSet(Owing \ {s})
          /\ Cardinality(Owing \ {s}) = Cardinality(Owing) - 1
      BY <2>1, <2>2, FS_RemoveElement
    <2>4. Cardinality(Owing') <= Cardinality(Owing \ {s})
      BY <1>6, <2>3, FS_Subset
    <2>5. Cardinality(Owing \ {s}) \in Nat
      BY <2>3, FS_CardinalityType
    <2>6. clock \in Nat /\ clock' = clock + 1 /\ clock + Cardinality(Owing) <= MaxStamp
      BY BoundsAssumption DEF AckRequeue, BInv, TypeOK, ClockInv
    <2> QED
      BY <2>2, <2>3, <2>4, <2>5, <2>6, BoundsAssumption DEF ClockInv, Gone, Fresh
  <1> HIDE DEF row, old
  <1>8. /\ \A i \in Ids : i # row => requeue'[i] = requeue[i]
        /\ ok => requeue'[row] \in {Gone, clock'} /\ row \notin dropped'
        /\ requeue[row] # Gone => requeue'[row] # Gone
        /\ requeue[row] = Gone => requeue'[row] = Gone
        /\ ~ok => requeue' = requeue /\ row \in dropped'
        /\ \A i \in Ids : i # row => (i \in dropped' <=> i \in dropped)
        /\ requeue' \in [Ids -> 0..Fresh]
        /\ dropped' \subseteq Ids
    <2>1. /\ requeue' = IF ok /\ requeue[row] # Gone
                        THEN [requeue EXCEPT ![row] = clock'] ELSE requeue
          /\ dropped' = IF ok THEN dropped \ {row} ELSE dropped \cup {row}
      BY <1>7 DEF AckRequeue, row, old
    <2>2. /\ requeue \in [Ids -> 0..Fresh] /\ dropped \subseteq Ids
          /\ clock' \in 0..Fresh /\ row \in Ids
      BY <1>6, <1>7, BoundsAssumption DEF BInv, TypeOK, Fresh
    <2>3. CASE ok /\ requeue[row] # Gone     BY <2>1, <2>2, <2>3, <1>7
    <2>4. CASE ok /\ requeue[row] = Gone     BY <2>1, <2>2, <2>4
    <2>5. CASE ~ok                           BY <2>1, <2>2, <2>5
    <2> QED  BY <2>3, <2>4, <2>5
  <1>9. TypeOK'
    BY <1>6, <1>7, <1>8, BoundsAssumption DEF AckRequeue, BInv, TypeOK, Woken
  <1>10. SentInv'
    <2> SUFFICES ASSUME ~ConcurrentAcks PROVE SentInv'  BY DEF SentInv
    <2>1. \A r \in Slots : slot'[r].oks > 0 /\ ~slot'[r].once => slot'[r].row \in sent'
      BY <1>6 DEF BInv, SentInv, AckRequeue
    <2>2. \A r \in Slots : slot'[r].failed => slot'[r].once \/ slot'[r].errs > 0
      BY <1>6 DEF BInv, SentInv
    <2>3. AtLeastOnce'
      BY <1>8 DEF BInv, SentInv, AtLeastOnce, AckRequeue, TypeOK
    <2> QED  BY <2>1, <2>2, <2>3 DEF SentInv
  <1>11. \A i \in Ids : /\ Seen(i)' => Seen(i)
                        /\ Unseen(i)' => Unseen(i)
                        /\ i # row => (Stamped(i)' <=> Stamped(i))
    <2>1. Gone # Fresh  BY BoundsAssumption DEF Gone, Fresh
    <2> SUFFICES ASSUME NEW i \in Ids
                 PROVE  /\ Seen(i)' => Seen(i)
                        /\ Unseen(i)' => Unseen(i)
                        /\ i # row => (Stamped(i)' <=> Stamped(i))
      OBVIOUS
    <2>2. CASE i # row  BY <2>2, <1>6, <1>8 DEF Stamped, Seen, Unseen
    <2>3. CASE i = row  BY <2>1, <2>3, <1>6, <1>7, <1>8 DEF Stamped, Seen, Unseen
    <2> QED  BY <2>2, <2>3
  <1>12. StampInv'
    <2>1. /\ requeueFrom' = requeueFrom /\ requeueFrom \in Nat
          /\ requeueFrom <= clock
          /\ \A i \in Ids : requeue[i] \in Nat /\ requeue'[i] \in Nat
      BY <1>8, BoundsAssumption DEF BInv, StampInv, AckRequeue, TypeOK, Fresh
    <2>2. \A i \in Ids : Stamped(i)' =>
            \/ Stamped(i) /\ requeue'[i] = requeue[i] /\ requeue[i] <= clock
            \/ i = row /\ requeue'[i] = clock + 1
      BY <1>7, <1>8 DEF BInv, StampInv, Stamped
    <2>3. \A i, j \in Ids : Stamped(i)' /\ requeue'[i] = requeue'[j] => i = j
      <3> SUFFICES ASSUME NEW i \in Ids, NEW j \in Ids, Stamped(i)',
                          requeue'[i] = requeue'[j]
                   PROVE  i = j
        OBVIOUS
      <3>1. Stamped(j)'  BY DEF Stamped
      <3> QED  BY <2>1, <2>2, <3>1, <1>7 DEF BInv, StampInv
    <2> QED  BY <2>1, <2>2, <2>3, <1>7 DEF StampInv
  <1>13. KnownInv'
    BY <1>6, <1>8, <1>11 DEF BInv, KnownInv, AckRequeue, Seen
  <1>14. ReadInv'
    <2> SUFFICES ASSUME restarts' = 0 PROVE ReadInv'  BY DEF ReadInv
    <2>1. /\ restarts = 0 /\ nextIndex' = nextIndex /\ requeueFrom' = requeueFrom
          /\ requeueFrom \in Nat /\ requeueFrom <= clock
      BY BoundsAssumption DEF AckRequeue, BInv, StampInv, TypeOK
    <2>2. ASSUME NEW i \in Ids, Stamped(i)', ~Held(i)', i \notin dropped'
          PROVE  requeue'[i] > requeueFrom'
      <3>1. CASE i # row
        BY <3>1, <2>1, <2>2, <1>6, <1>8, <1>11 DEF BInv, ReadInv
      <3>2. CASE i = row
        <4>1. requeue'[i] = clock + 1  BY <3>2, <2>2, <1>7, <1>8 DEF Stamped
        <4> QED  BY <4>1, <2>1, <1>7
      <3> QED  BY <3>1, <3>2
    <2> QED  BY <2>1, <2>2, <1>11 DEF BInv, ReadInv
  <1> QED  BY <1>6, <1>7, <1>9, <1>10, <1>12, <1>13, <1>14 DEF BInv

-----------------------------------------------------------------------------
(* The loop. *)

\* The row that comes first in the query has no unread row below it and no
\* earlier stamp before it, so nothing is left behind when the loop moves to
\* it, whether nextIndex goes up or down.
LEMMA ReadStep ==
    ASSUME BInv, NEW i \in Ids, IsFirst(i), Advance(i),
           UNCHANGED <<requeue, lastId, clock, restarts>>,
           \A j \in Ids : (Held(j)' \/ j \in dropped') <=>
                          (Held(j) \/ j \in dropped \/ j = i)
    PROVE  /\ nextIndex' \in 0..(MaxRows + 1)
           /\ requeueFrom' \in 0..MaxStamp
           /\ StampInv' /\ KnownInv' /\ ReadInv'
  <1>1. /\ MaxRows \in Nat /\ MaxStamp \in Nat /\ Fresh \in Nat /\ clock \in Nat
        /\ clock <= MaxStamp /\ i \in Nat /\ i <= MaxRows /\ lastId \in Nat
        /\ nextIndex \in Nat /\ requeueFrom \in Nat /\ requeueFrom <= MaxStamp
        /\ \A j \in Ids : j \in Nat /\ requeue[j] \in Nat /\ requeue[j] <= Fresh
    BY BoundsAssumption DEF BInv, TypeOK, Ids, Fresh
  <1>2. /\ requeue[i] # Gone
        /\ nextIndex' = i + 1
        /\ requeueFrom' = IF requeue[i] # Fresh THEN requeue[i] ELSE requeueFrom
        /\ \A j \in Ids : Selectable(j) =>
              requeue[i] < requeue[j] \/ (requeue[i] = requeue[j] /\ i <= j)
    BY DEF IsFirst, Selectable, Advance
  <1>3. Stamped(i) => requeue[i] <= clock
    BY DEF BInv, StampInv
  <1>4. /\ nextIndex' \in 0..(MaxRows + 1)
        /\ requeueFrom' \in 0..MaxStamp
        /\ requeueFrom' <= clock
    <2>1. requeueFrom <= clock  BY DEF BInv, StampInv
    <2> QED  BY <2>1, <1>1, <1>2, <1>3 DEF Stamped
  <1>5. StampInv'
    BY <1>4 DEF BInv, StampInv, Stamped
  <1>6. \A j \in Ids : /\ Stamped(j)' <=> Stamped(j)
                       /\ Seen(j)' <=> Seen(j) \/ j = i
                       /\ Unseen(j)' <=> Unseen(j) /\ j # i
    BY DEF Stamped, Seen, Unseen
  <1>7. KnownInv'
    <2>1. i <= lastId  BY <1>2 DEF BInv, KnownInv
    <2> QED  BY <2>1, <1>1, <1>2, <1>6 DEF BInv, KnownInv
  <1>8. ReadInv'
    <2> SUFFICES ASSUME restarts' = 0 PROVE ReadInv'  BY DEF ReadInv
    <2>1. /\ \A j \in Ids : Unseen(j) => j >= nextIndex
          /\ \A j, k \in Ids : Unseen(j) /\ Seen(k) => k < j
          /\ \A j \in Ids : Stamped(j) /\ ~Held(j) /\ j \notin dropped =>
               requeue[j] > requeueFrom
      BY DEF BInv, ReadInv
    <2>2. ASSUME NEW j \in Ids, Unseen(j), j # i
          PROVE  i < j
      <3>1. Selectable(j) /\ requeue[j] = Fresh
        BY <2>1, <2>2, BoundsAssumption DEF Selectable, Unseen, Gone, Fresh
      <3>2. CASE requeue[i] = Fresh  BY <3>1, <3>2, <2>2, <1>1, <1>2
      <3>3. CASE requeue[i] # Fresh
        <4>1. Seen(i)  BY <3>3, <1>2 DEF Seen, Stamped
        <4> QED  BY <4>1, <2>1, <2>2
      <3> QED  BY <3>2, <3>3
    <2>3. \A j \in Ids : Unseen(j)' => j >= nextIndex'
      BY <2>2, <1>1, <1>2, <1>6
    <2>4. \A j, k \in Ids : Unseen(j)' /\ Seen(k)' => k < j
      BY <2>1, <2>2, <1>6
    <2>5. ASSUME NEW j \in Ids, Stamped(j)', ~Held(j)', j \notin dropped'
          PROVE  requeue'[j] > requeueFrom'
      <3>1. /\ j # i /\ Stamped(j) /\ ~Held(j) /\ j \notin dropped
            /\ requeue'[j] = requeue[j] /\ requeue[j] > requeueFrom
        BY <2>1, <2>5, <1>6
      <3>2. Selectable(j)  BY <3>1 DEF Selectable, Stamped
      <3>3. requeue[i] # requeue[j]
        BY <3>1 DEF BInv, StampInv
      <3> QED  BY <3>1, <3>2, <3>3, <1>1, <1>2
    <2> QED  BY <2>3, <2>4, <2>5 DEF ReadInv
  <1> QED  BY <1>4, <1>5, <1>7, <1>8

\* A row is read into a free slot.
LEMMA ReadRowStep ==
    ASSUME BInv, NEW s \in Slots, NEW i \in Ids, NEW n \in 1..MaxParts, ReadRow(s, i, n)
    PROVE  BInv'
  <1> DEFINE sl == [EmptySlot EXCEPT !.row = i, !.unread = n - 1,
                                     !.flight = 1, !.resp = n]
  <1>1. /\ slot[s] = EmptySlot /\ slot' = [slot EXCEPT ![s] = sl]
        /\ MaxParts \in Nat /\ n \in Nat /\ 1 <= n /\ n <= MaxParts
        /\ i \in 0..MaxRows /\ i # 0
    BY BoundsAssumption DEF ReadRow, FirstFree, Ids
  <1>2. /\ sl.row = i /\ sl.unread = n - 1 /\ sl.flight = 1 /\ sl.resp = n
        /\ ~sl.once /\ ~sl.failed /\ sl.oks = 0 /\ sl.errs = 0
        /\ sl \in SlotType
    <2>1. /\ sl.row = i /\ sl.unread = n - 1 /\ sl.flight = 1 /\ sl.resp = n
          /\ ~sl.once /\ ~sl.failed /\ sl.oks = 0 /\ sl.errs = 0
      BY DEF EmptySlot
    <2>2. n - 1 \in 0..MaxParts /\ 1 \in 0..MaxParts /\ n \in 0..MaxParts
      BY <1>1
    <2>3. sl \in SlotType
      BY <1>1, <2>2, EmptyOK DEF SlotType
    <2> QED  BY <2>1, <2>3
  <1>3. SlotOK(sl)
    BY <1>1, <1>2 DEF SlotOK
  <1>4. \A r \in Slots : slot'[r] = IF r = s THEN sl ELSE slot[r]
    BY <1>1 DEF BInv, TypeOK
  <1>5. slot' \in [Slots -> SlotType]
    BY <1>1, <1>2 DEF BInv, TypeOK
  <1> HIDE DEF sl
  <1>6. SlotInv'
    BY <1>3, <1>4 DEF BInv, SlotInv
  <1>7. \A j \in Ids : Held(j)' <=> Held(j) \/ j = i
    <2> SUFFICES ASSUME NEW j \in Ids PROVE Held(j)' <=> Held(j) \/ j = i  OBVIOUS
    <2>1. slot[s].row # j  BY <1>1 DEF EmptySlot, Ids
    <2>2. ASSUME Held(j)' PROVE Held(j) \/ j = i  BY <2>2, <1>2, <1>4 DEF Held
    <2>3. ASSUME Held(j) PROVE Held(j)'  BY <2>1, <2>3, <1>4 DEF Held
    <2>4. Held(i)'  BY <1>2, <1>4 DEF Held
    <2> QED  BY <2>2, <2>3, <2>4
  <1>8. \A j \in Ids : (Held(j)' \/ j \in dropped') <=> (Held(j) \/ j \in dropped \/ j = i)
    BY <1>7 DEF ReadRow
  <1>9. /\ nextIndex' \in 0..(MaxRows + 1)
        /\ requeueFrom' \in 0..MaxStamp
        /\ StampInv' /\ KnownInv' /\ ReadInv'
    BY <1>8, ReadStep DEF ReadRow
  <1>10. TypeOK'
    BY <1>5, <1>9 DEF ReadRow, BInv, TypeOK
  <1>11. ClockInv'
    <2>1. Owing' \subseteq Owing  BY <1>2, <1>4 DEF Owing
    <2> QED  BY <2>1, OwingShrinks DEF ReadRow
  <1>12. SentInv'
    <2> SUFFICES ASSUME ~ConcurrentAcks PROVE SentInv'  BY DEF SentInv
    <2>1. \A r \in Slots : slot'[r].oks > 0 /\ ~slot'[r].once => slot'[r].row \in sent'
      <3> SUFFICES ASSUME NEW r \in Slots, slot'[r].oks > 0, ~slot'[r].once
                   PROVE  slot'[r].row \in sent'
        OBVIOUS
      <3>1. ~(0 > 0)  OBVIOUS
      <3>2. r # s  BY <3>1, <1>2, <1>4
      <3>3. slot'[r] = slot[r]  BY <3>2, <1>4
      <3>4. slot[r].oks > 0 /\ ~slot[r].once  BY <3>3
      <3>5. slot[r].row \in sent  BY <3>4 DEF BInv, SentInv
      <3>6. sent' = sent  BY DEF ReadRow
      <3> QED  BY <3>3, <3>5, <3>6
    <2>2. \A r \in Slots : slot'[r].failed => slot'[r].once \/ slot'[r].errs > 0
      BY <1>2, <1>4 DEF BInv, SentInv
    <2>3. AtLeastOnce'
      BY DEF BInv, SentInv, AtLeastOnce, ReadRow
    <2> QED  BY <2>1, <2>2, <2>3 DEF SentInv
  <1> QED  BY <1>6, <1>9, <1>10, <1>11, <1>12 DEF BInv

\* A row of which nothing is left.
LEMMA ReadDropsStep ==
    ASSUME BInv, NEW i \in Ids, ReadDrops(i)
    PROVE  BInv'
  <1>1. \A j \in Ids : (Held(j)' \/ j \in dropped') <=> (Held(j) \/ j \in dropped \/ j = i)
    BY DEF ReadDrops, Held
  <1>2. /\ nextIndex' \in 0..(MaxRows + 1)
        /\ requeueFrom' \in 0..MaxStamp
        /\ StampInv' /\ KnownInv' /\ ReadInv'
    BY <1>1, ReadStep DEF ReadDrops
  <1>3. TypeOK'
    BY <1>2 DEF ReadDrops, BInv, TypeOK
  <1>4. SlotInv' /\ ClockInv' /\ SentInv'
    BY DEF ReadDrops, BInv, SlotInv, ClockInv, SentInv, Owing, AtLeastOnce
  <1> QED  BY <1>2, <1>3, <1>4 DEF BInv

-----------------------------------------------------------------------------
(* The service is restarted: the table is all that is left. *)

\* Stamps keep their meaning, nobody holds a row.
LEMMA RestartStep ==
    ASSUME BInv, Restart
    PROVE  BInv'
  <1>1. \A s \in Slots : slot'[s] = EmptySlot
    BY DEF Restart
  <1>2. TypeOK'
    <2>1. slot' \in [Slots -> SlotType]  BY EmptyOK DEF Restart
    <2>2. /\ nextIndex' \in 0..(MaxRows + 1) /\ requeueFrom' \in 0..MaxStamp
          /\ restarts' \in 0..MaxRestarts
      BY BoundsAssumption DEF Restart, BInv, TypeOK
    <2> QED  BY <2>1, <2>2 DEF Restart, BInv, TypeOK
  <1>3. SlotInv'
    BY <1>1, EmptyOK DEF SlotInv
  <1>4. ClockInv'
    <2>1. Owing' \subseteq Owing  BY <1>1 DEF Owing, EmptySlot
    <2> QED  BY <2>1, OwingShrinks DEF Restart
  <1>5. SentInv'
    BY <1>1 DEF BInv, SentInv, AtLeastOnce, Restart, EmptySlot
  <1>6. \A i \in Ids : Stamped(i)' <=> Stamped(i)
    BY DEF Stamped, Restart
  <1>7. \A i \in Ids : Seen(i)' => Seen(i)
    BY <1>1, <1>6 DEF Seen, Held, Restart, EmptySlot, Ids
  <1>8. StampInv'
    <2>1. clock \in Nat /\ requeueFrom' = 0  BY BoundsAssumption DEF BInv, TypeOK, Restart
    <2> QED  BY <2>1, <1>6 DEF BInv, StampInv, Restart
  <1>9. KnownInv'
    <2>1. lastId \in Nat /\ nextIndex' = 0  BY BoundsAssumption DEF BInv, TypeOK, Restart
    <2> QED  BY <2>1, <1>7 DEF BInv, KnownInv, Restart
  <1>10. ReadInv'
    <2>1. restarts' # 0  BY BoundsAssumption DEF Restart, BInv, TypeOK
    <2> QED  BY <2>1 DEF ReadInv
  <1> QED  BY <1>2, <1>3, <1>4, <1>5, <1>8, <1>9, <1>10 DEF BInv

-----------------------------------------------------------------------------

\* Every step preserves the invariant.
LEMMA BStep == BInv /\ [Next]_vars => BInv'
  <1> SUFFICES ASSUME BInv, [Next]_vars PROVE BInv'  OBVIOUS
  <1>1. CASE \E n \in Ids : WriteBatch(n) \/ WriteBatchNotAcked(n)
    BY <1>1, InsertStep
  <1>2. CASE EndOfInput \/ Close \/ Cancel \/ CancelBroadcast \/ UNCHANGED vars
    BY <1>2, QuietActions
  <1>3. CASE Read
    <2>1. CASE \E s \in Slots : ReadPending(s)  BY <2>1, ReadPendingStep
    <2>2. CASE \E s \in Slots : \E i \in Ids, n \in 1..MaxParts : ReadRow(s, i, n)
      BY <2>2, ReadRowStep
    <2>3. CASE \E i \in Ids : ReadDrops(i)  BY <2>3, ReadDropsStep
    <2>4. CASE ReadNone \/ ReadEnds \/ Wait  BY <2>4, QuietActions
    <2> QED  BY <1>3, <2>1, <2>2, <2>3, <2>4 DEF Read
  <1>4. CASE \E s \in Slots : Answer(s)
    BY <1>4, AnswerOkStep, AnswerErrorStep DEF Answer
  <1>5. CASE \E s \in Slots : Ack(s)
    BY <1>5, AckLateStep, AckDeleteStep, AckRequeueStep DEF Ack
  <1>6. CASE Restart
    BY <1>6, RestartStep
  <1> QED  BY <1>1, <1>2, <1>3, <1>4, <1>5, <1>6 DEF Next

\* The invariant holds in every reachable state.
LEMMA Invariance == Spec => []BInv
  BY BInit, BStep, PTL DEF Spec

\* The counters of parts, answers and stamps keep their ranges: in
\* particular pendingResponses and the parts in m.pending never fall below
\* zero, however answers, restarts and failures of the database interleave.
THEOREM BufferTypeCorrect == Spec => []TypeOK
  <1>1. BInv => TypeOK  BY DEF BInv
  <1> QED  BY <1>1, Invariance, PTL

\* A row WriteBatch acknowledged is deleted by endAckFn only when all of its
\* parts have been sent, if the output answers the parts of a row one after
\* the other; across any number of restarts and failed statements.
THEOREM DeliveredAtLeastOnce ==
    ASSUME ~ConcurrentAcks PROVE Spec => []AtLeastOnce
  <1>1. BInv => AtLeastOnce  BY DEF BInv, SentInv
  <1> QED  BY <1>1, Invariance, PTL

\* Until the first restart tryGetBatch never skips a row: nextIndex and
\* requeueFrom stay below every row that nobody holds or has dropped.
THEOREM RowsWithinReach == Spec => []WithinReachAtFirst
  <1>1. ASSUME BInv PROVE WithinReachAtFirst
    <2> SUFFICES ASSUME restarts = 0, NEW i \in Ids, requeue[i] # Gone,
                        ~ \E s \in Slots : slot[s].row = i, i \notin dropped
                 PROVE  Selectable(i)
      BY DEF WithinReachAtFirst, WithinReach
    <2>1. ~Held(i)  BY DEF Held
    <2>2. CASE requeue[i] = Fresh
      BY <1>1, <2>1, <2>2 DEF BInv, ReadInv, Unseen, Selectable
    <2>3. CASE requeue[i] # Fresh
      BY <1>1, <2>1, <2>3 DEF BInv, ReadInv, Stamped, Selectable
    <2> QED  BY <2>2, <2>3
  <1> QED  BY <1>1, Invariance, PTL
=============================================================================
