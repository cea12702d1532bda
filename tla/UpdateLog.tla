------------------------------ MODULE UpdateLog ------------------------------
(***************************************************************************)
(* The update log of a write transaction, pkg/storage/inmem/txn.go: how    *)
(* writes to nested documents are compacted into a list of updates, what   *)
(* the writer reads back, and what a commit makes of the committed data.   *)
(* One write transaction runs at a time (module InmemStore).               *)
(*                                                                         *)
(* The JSON containers of pkg/json are mutable and shared by reference, so *)
(* they live in a memory.  A value is an integer: a positive one is the    *)
(* address of a container, a negative one is a scalar, 0 is nil.  A        *)
(* container maps member names to values; an array's are "0", "1", ...     *)
(*                                                                         *)
(* Documents that are compared are written flat, as the set of all pairs   *)
(* <<path, what is there>>.                                                *)
(***************************************************************************)
EXTENDS Integers, Sequences, FiniteSets, SequencesExt, TLC

CONSTANTS
    Paths,       \* the paths written to, sequences of member names
    Inputs,      \* the values written: scalars and containers of scalars
    InitHeap, InitRoot,   \* the data the store is created with
    MaxWrites    \* bound: writes in all transactions together

VARIABLES
    memory,    \* the containers
    root,      \* db.data
    log,       \* txn.updates, front first
    phase,     \* "none", "open", "failed" (a write failed) or "panic"
    writes,    \* writes so far
    base,      \* history: the committed document
    meant      \* history: base and the successful writes of the transaction

logVars == <<memory, root, log, phase, writes, base, meant>>

NilPtr == 0

-----------------------------------------------------------------------------
(* Arrays: strconv.Itoa and ValidateArrayIndex for the indices that occur. *)

IndexNames == <<"0", "1", "2", "3", "4", "5">>

Elements(at) == [i \in 1..Cardinality(DOMAIN at) |-> at[IndexNames[i]]]

ArrayOf(es) ==
    [kind |-> "arr",
     at   |-> [n \in {IndexNames[i] : i \in 1..Len(es)} |->
                 es[CHOOSE i \in 1..Len(es) : IndexNames[i] = n]]]

Position(name) == CHOOSE i \in 1..Len(IndexNames) : IndexNames[i] = name

-----------------------------------------------------------------------------
(* Flat documents and the reference meaning of a write (RFC 6902).         *)

RECURSIVE Flat(_, _)
Flat(h, v) ==
    IF v < 0 THEN {<<<<>>, ToString(v)>>}
    ELSE {<<<<>>, h[v].kind>>} \cup
         UNION {{<<<<n>> \o e[1], e[2]>> : e \in Flat(h, h[v].at[n])} :
                  n \in DOMAIN h[v].at}

FlatInput(in) ==
    IF in.kind = "scalar" THEN {<<<<>>, ToString(in.at)>>}
    ELSE {<<<<>>, in.kind>>} \cup {<<<<n>>, ToString(in.at[n])>> : n \in DOMAIN in.at}

Has(doc, p)     == \E e \in doc : e[1] = p
IsA(doc, p, k)  == <<p, k>> \in doc
Cut(doc, p)     == {e \in doc : ~IsPrefix(p, e[1])}
PutFlat(doc, p, in) == Cut(doc, p) \cup {<<p \o e[1], e[2]>> : e \in FlatInput(in)}
Length(doc, p)  ==
    Cardinality({e \in doc : Len(e[1]) = Len(p) + 1 /\ IsPrefix(p, e[1])})

\* Renumber the elements of the array at p from position pos on.
Shift(doc, p, pos, by) ==
    {IF /\ IsPrefix(p, e[1])
        /\ Len(e[1]) > Len(p)
        /\ Position(e[1][Len(p) + 1]) >= pos
     THEN <<[e[1] EXCEPT ![Len(p) + 1] = IndexNames[Position(@) + by]], e[2]>>
     ELSE e : e \in doc}

AtEnd(doc, path) ==
    Last(path) \in {"-", IndexNames[Length(doc, Front(path)) + 1]}

LegalWrite(doc, op, path, in) ==
    IF path = <<>> THEN op # "remove" /\ in.kind = "obj"
    ELSE \/ IsA(doc, Front(path), "obj") /\ (op = "add" \/ Has(doc, path))
         \/ IsA(doc, Front(path), "arr")
              /\ (Has(doc, path) \/ (op = "add" /\ AtEnd(doc, path)))

MeantWrite(doc, op, path, in) ==
    IF path = <<>> THEN FlatInput(in)
    ELSE LET p == Front(path) IN
         IF IsA(doc, p, "arr")
         THEN CASE op = "replace" -> PutFlat(doc, path, in)
                [] op = "remove"  ->
                     Shift(Cut(doc, path), p, Position(Last(path)) + 1, -1)
                [] op = "add" /\ AtEnd(doc, path) ->
                     PutFlat(doc, Append(p, IndexNames[Length(doc, p) + 1]), in)
                [] OTHER ->
                     PutFlat(Shift(doc, p, Position(Last(path)), 1), path, in)
         ELSE IF op = "remove" THEN Cut(doc, path) ELSE PutFlat(doc, path, in)

-----------------------------------------------------------------------------
(* The heap operations. *)

\* store.Write clones the value it is given.
CloneInput(h, in) ==
    IF in.kind = "scalar" THEN [memory |-> h, val |-> in.at]
    ELSE [memory |-> Append(h, in), val |-> Len(h) + 1]

\* ptr.Ptr: the value at path below v, Nil when there is none.
RECURSIVE Ptr(_, _, _)
Ptr(h, v, path) ==
    IF path = <<>> THEN v
    ELSE IF v > 0 /\ Head(path) \in DOMAIN h[v].at
         THEN Ptr(h, h[v].at[Head(path)], Tail(path))
         ELSE NilPtr

NoUpdate == [ok |-> FALSE]

UpdateOf(h, path, remove, val) ==
    [ok |-> TRUE, memory |-> h, upd |-> [path |-> path, remove |-> remove, val |-> val]]

\* Faulty variants: the array is appended to in place; an element is
\* inserted one position too far.
NewUpdateArrayInPlace(h, arr, op, path, val) ==
    LET es == Elements(h[arr].at)
    IN  IF op = "add" /\ Last(path) \in {"-", IndexNames[Len(es) + 1]}
        THEN UpdateOf([h EXCEPT ![arr] = ArrayOf(Append(es, val))],
                  Front(path), FALSE, arr)
        ELSE NoUpdate

NewUpdateArrayOffByOne(h, arr, op, path, val) ==
    LET es == Elements(h[arr].at)
    IN  IF op = "add" /\ Last(path) \in DOMAIN h[arr].at
        THEN UpdateOf(Append(h, ArrayOf(InsertAt(es, Position(Last(path)) + 1, val))),
                  Front(path), FALSE, Len(h) + 1)
        ELSE NoUpdate

\* newUpdateArray: the update of an element is an update of the array, to a
\* copy that has the elements of the original (Clone(false)).
NewUpdateArray(h, arr, op, path, val) ==
    LET es      == Elements(h[arr].at)
        k       == Last(path)
        Copy(s) == UpdateOf(Append(h, ArrayOf(s)), Front(path), FALSE, Len(h) + 1)
    IN  IF k \in {"-", IndexNames[Len(es) + 1]}
        THEN IF op = "add" THEN Copy(Append(es, val)) ELSE NoUpdate
        ELSE IF k \notin DOMAIN h[arr].at THEN NoUpdate
        ELSE CASE op = "add"     -> Copy(InsertAt(es, Position(k), val))
               [] op = "remove"  -> Copy(RemoveAt(es, Position(k)))
               [] op = "replace" -> Copy(ReplaceAt(es, Position(k), val))

NewUpdateObject(h, obj, op, path, val) ==
    IF op = "add" \/ Last(path) \in DOMAIN h[obj].at
    THEN UpdateOf(h, path, op = "remove", val)
    ELSE NoUpdate

\* newUpdate walks from v to the container of the last member of path.
NewUpdate(h, v, op, path, val) ==
    LET c == Ptr(h, v, Front(path)) IN
    CASE c <= 0              -> NoUpdate
      [] h[c].kind = "obj"   -> NewUpdateObject(h, c, op, path, val)
      [] h[c].kind = "arr"   -> NewUpdateArray(h, c, op, path, val)

\* update.Apply and update.set: Set and SetIdx change the container in
\* place, Remove builds a new object that takes its place.  A path that
\* does not lead to a container ends in a panic.
Apply(h, upd, v) ==
    LET c == Ptr(h, v, Front(upd.path))
        k == Last(upd.path)
        Set(g, a, n, x) == [g EXCEPT ![a].at = (n :> x) @@ @]
    IN  IF upd.path = <<>> THEN [ok |-> TRUE, memory |-> h, val |-> upd.val]
        ELSE IF c <= 0 THEN NoUpdate
        ELSE IF ~upd.remove
             THEN [ok |-> TRUE, memory |-> Set(h, c, k, upd.val), val |-> v]
        ELSE LET small == [h[c] EXCEPT !.at =
                             [n \in DOMAIN h[c].at \ {k} |-> h[c].at[n]]]
                 g     == Append(h, small)
             IN  IF c = v THEN [ok |-> TRUE, memory |-> g, val |-> Len(g)]
                 ELSE LET up == Ptr(h, v, Front(Front(upd.path)))
                      IN  [ok |-> TRUE, val |-> v,
                           memory |-> Set(g, up, Last(Front(upd.path)), Len(g))]

\* transaction.Commit: all updates, from the front of the list.
RECURSIVE ApplyAll(_, _, _)
ApplyAll(h, updates, v) ==
    IF updates = <<>> THEN [ok |-> TRUE, memory |-> h, val |-> v]
    ELSE LET r == Apply(h, Head(updates), v)
         IN  IF r.ok THEN ApplyAll(r.memory, Tail(updates), r.val) ELSE NoUpdate

\* transaction.Read of the root: an update of the root hides the rest, else
\* the updates are merged into a copy of the data.
ReadRoot ==
    LET r == IF \E i \in 1..Len(log) : log[i].path = <<>>
             THEN Apply(memory, log[SelectInSeq(log, LAMBDA u : u.path = <<>>)], root)
             ELSE ApplyAll(memory, log, root)
    IN  IF r.ok THEN Flat(r.memory, r.val) ELSE {}

-----------------------------------------------------------------------------
(* Transactions.  Callers abort a transaction in which a write failed.     *)

LogInit ==
    /\ memory = InitHeap
    /\ root = InitRoot
    /\ log = <<>>
    /\ phase = "none"
    /\ writes = 0
    /\ base = Flat(InitHeap, InitRoot)
    /\ meant = base

BeginUpdates ==
    /\ phase = "none"
    /\ phase' = "open"
    /\ UNCHANGED <<memory, root, log, writes, base, meant>>

\* The first entry at path or above it; 0 when there is none.
Covering(path) == SelectInSeq(log, LAMBDA u : IsPrefix(u.path, path))

\* Faulty variant: only the entry at path itself is taken out.
UnmaskedExact(path) == SelectSeq(log, LAMBDA u : u.path # path)

\* What the loop leaves of the log: it takes out the entries at or below
\* path and stops at the covering entry.
Unmasked(path) ==
    LET c       == Covering(path)
        Keep(i) == ~IsPrefix(path, log[i].path) \/ (c # 0 /\ i > c)
        is      == SelectSeq([i \in 1..Len(log) |-> i], Keep)
    IN  [n \in 1..Len(is) |-> log[is[n]]]

Accept(h, newLog, op, path, in) ==
    /\ memory' = h
    /\ log' = newLog
    /\ meant' = IF LegalWrite(meant, op, path, in)
               THEN MeantWrite(meant, op, path, in) ELSE {}
    /\ UNCHANGED <<root, phase, base>>

Reject ==
    /\ phase' = "failed"
    /\ UNCHANGED <<memory, root, log, base, meant>>

\* transaction.updateRoot
UpdateRoot(op, in) ==
    IF op = "remove" \/ in.kind # "obj" THEN Reject
    ELSE LET v == CloneInput(memory, in)
         IN  Accept(v.memory, <<[path |-> <<>>, remove |-> FALSE, val |-> v.val]>>,
                    op, <<>>, in)

\* The covering entry is modified.
WriteBelow(op, path, in) ==
    LET c == Covering(path)
        v == CloneInput(memory, in)
        r == NewUpdate(v.memory, log[c].val, op,
                       SubSeq(path, Len(log[c].path) + 1, Len(path)), v.val)
        a == Apply(r.memory, r.upd, log[c].val)
    IN  IF log[c].remove \/ ~r.ok THEN Reject
        ELSE Accept(a.memory, [log EXCEPT ![c].val = a.val], op, path, in)

\* A new entry is made from the committed data.
WriteNew(op, path, in) ==
    LET c == Covering(path)
        v == CloneInput(memory, in)
        r == NewUpdate(v.memory, root, op, path, v.val)
    IN  IF (c # 0 /\ log[c].remove /\ op # "add") \/ ~r.ok THEN Reject
        ELSE Accept(r.memory, <<r.upd>> \o Unmasked(path), op, path, in)

WriteUpdate(op, path, in) ==
    /\ phase = "open"
    /\ writes < MaxWrites
    /\ writes' = writes + 1
    /\ IF path = <<>> THEN UpdateRoot(op, in)
       ELSE IF Covering(path) # 0 /\ log[Covering(path)].path # path
       THEN WriteBelow(op, path, in)
       ELSE WriteNew(op, path, in)

CommitUpdates ==
    /\ phase = "open"
    /\ LET r == ApplyAll(memory, log, root) IN
         IF r.ok
         THEN /\ memory' = r.memory
              /\ root' = r.val
              /\ phase' = "none"
              /\ base' = meant
         ELSE /\ phase' = "panic"
              /\ UNCHANGED <<memory, root, base>>
    /\ log' = <<>>
    /\ UNCHANGED <<writes, meant>>

AbortUpdates ==
    /\ phase \in {"open", "failed"}
    /\ phase' = "none"
    /\ log' = <<>>
    /\ meant' = base
    /\ UNCHANGED <<memory, root, writes, base>>

Ops == {"add", "replace", "remove"}

LogNext ==
    \/ BeginUpdates
    \/ \E op \in Ops, path \in Paths, in \in Inputs : WriteUpdate(op, path, in)
    \/ CommitUpdates
    \/ AbortUpdates

LogSpec == LogInit /\ [][LogNext]_logVars

-----------------------------------------------------------------------------

\* "Each write operation compacts the set such that two updates never
\* overlap" (txn.go:22): Read stops at the first entry that covers a path
\* and Commit applies entries in list order, so both rely on it.
NoOverlap ==
    \A i, j \in 1..Len(log) : i # j => ~IsPrefix(log[i].path, log[j].path)

\* No commit runs into a path that has gone away.
CommitNeverPanics == phase # "panic"

\* However writes to overlapping paths follow each other, the log is one that
\* reads and the commit can rely on.
LogIsApplicable == NoOverlap /\ CommitNeverPanics

\* Whatever the open transaction writes, the committed data stay as they
\* were for readers and for a rollback; after a commit they are what the
\* transaction's writes mean.
CommittedDataIntact == phase # "panic" => Flat(memory, root) = base

\* The writer reads back the committed data with its writes applied in the
\* order it made them.
ReadsOwnWrites == phase = "open" => ReadRoot = meant
=============================================================================
