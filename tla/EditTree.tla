------------------------------- MODULE EditTree -------------------------------
(* Edit trees (pkg/internal/edittree): edits of a nested term are noted in a  *)
(* tree over it and the new term is rendered at the end.  Objects and sets    *)
(* keep their changed children by the hash of their key, with linear probing; *)
(* arrays by position, with two bit vectors that tell which of the original   *)
(* elements are gone and which positions were inserted.  The tests that are   *)
(* generated for a policy build their input with it (pkg/test_bootstrap).     *)
(*                                                                            *)
(* A term is [t |-> kind, ...]: "obj" with members p, "arr" with elements e,  *)
(* "set" with elements s, and scalars "str" and "num" with a value v.  The    *)
(* strings below 10 are numerals, and -1 is the string "-".                   *)
EXTENDS Integers, Sequences, SequencesExt, FiniteSets, Functions, TLC

CONSTANTS
    EditDocs,   \* terms to edit
    EditOps,    \* [op, path, value]: edits
    RefSets,    \* sets of references that tests are generated from
    MaxEdits,
    ByteBits    \* bits in a byte of a bit vector

VARIABLES
    editTree,
    editDoc,    \* the term the edits should give
    editOk,     \* the last edit succeeded, and should have
    editBad,    \* why the tree is no longer looked at
    editsLeft

editVars == <<editTree, editDoc, editOk, editBad, editsLeft>>
-----------------------------------------------------------------------------
(* Bit vectors (bitvector): [data, length], the first bit lowest in the first *)
(* byte.  Bits after the last are not looked at.                              *)
Byte == 2 ^ ByteBits
NewBitVector(n) == [data |-> [i \in 1 .. (IF n = 0 THEN 1 ELSE (n - 1) \div ByteBits + 1) |-> 0] \o << >>, length |-> n]
Bit(v, i) == (v.data[i \div ByteBits + 1] \div 2 ^ (i % ByteBits)) % 2
BytesLength(n) == (n + ByteBits - 1) \div ByteBits
WithBit(byte, at, bit) == byte + (bit - ((byte \div 2 ^ at) % 2)) * 2 ^ at
SetBit(v, i, bit) == [v EXCEPT !.data[i \div ByteBits + 1] = WithBit(@, i % ByteBits, bit)]
\* One more bit, and a byte for it when the last is full.
Room(v) ==
    [data |-> IF BytesLength(v.length + 1) > Len(v.data) THEN Append(v.data, 0) ELSE v.data, length |-> v.length + 1]
AppendBit(v, bit) == SetBit(Room(v), v.length, bit)

\* The bytes from position i on, shifted one bit up or down.
ShiftHigher(data, i, bit) ==
    [j \in DOMAIN data |->
        IF j < i THEN data[j]
        ELSE (data[j] * 2 + (IF j = i THEN bit ELSE data[j - 1] \div (Byte \div 2))) % Byte] \o << >>
ShiftLower(data, i) ==
    [j \in DOMAIN data |->
        IF j < i THEN data[j]
        ELSE data[j] \div 2 + (IF j = Len(data) THEN 0 ELSE (data[j + 1] % 2) * (Byte \div 2))] \o << >>
InsertBit(v, i, bit) ==
    LET w == Room(v)
        b == i \div ByteBits + 1
        low == 2 ^ (i % ByteBits)
        old == w.data[b]
        new == ((old % low) + bit * low + (old \div low) * low * 2) % Byte
    IN  [w EXCEPT !.data = [ShiftHigher(@, b + 1, old \div (Byte \div 2)) EXCEPT ![b] = new]]
DeleteBit(v, i) ==
    LET b == i \div ByteBits + 1
        low == 2 ^ (i % ByteBits)
        old == v.data[b]
        moved == IF b = Len(v.data) THEN 0 ELSE v.data[b + 1] % 2
        new == (old % low) + (old \div (low * 2)) * low + moved * (Byte \div 2)
    IN  [data |-> SubSeq([ShiftLower(v.data, b + 1) EXCEPT ![b] = new], 1, BytesLength(v.length - 1)),
         length |-> v.length - 1]

ZeroesBelow(v, i) == Cardinality({j \in 0 .. i - 1 : Bit(v, j) = 0})
IndexOfNthZero(v, n) == {j \in 0 .. v.length - 1 : Bit(v, j) = 0 /\ ZeroesBelow(v, j) = n - 1}
-----------------------------------------------------------------------------
NoTerm == [t |-> "none"]
Deleted == [t |-> "deleted"]
IsComposite(x) == x.t \in {"obj", "set", "arr"}
Object(members) == [t |-> "obj", p |-> members]
DropAt(f, h) == [x \in DOMAIN f \ {h} |-> f[x]]

NewEditTree(term) ==
    LET n == IF term.t = "arr" THEN Len(term.e) ELSE 0
    IN  [value |-> term, keys |-> << >>, scalars |-> << >>, composites |-> << >>,
         eliminated |-> NewBitVector(n), insertions |-> NewBitVector(n)]

KeyHash(key) == IF IsComposite(key) THEN 2 ELSE key.v
RECURSIVE Probe(_, _, _)
Probe(e, key, h) == IF h \in DOMAIN e.keys /\ e.keys[h] # key THEN Probe(e, key, h + 1) ELSE h
\* Faulty variant: keys with the same hash share a slot.
GetKeyHashUnprobed(e, key) == KeyHash(key)
GetKeyHash(e, key) == Probe(e, key, KeyHash(key))

\* What the original term has at a key.
FindIn(term, key) ==
    CASE term.t = "obj" /\ key \in DOMAIN term.p -> term.p[key]
      [] term.t = "set" /\ key \in term.s -> key
      [] term.t = "arr" /\ key.t = "num" /\ key.v \in 0 .. Len(term.e) - 1 -> term.e[key.v + 1]
      [] OTHER -> NoTerm
NotAnIndex == 0 - 9
ToIndex(length, key) ==
    CASE key.t = "num" -> key.v
      [] key.t = "str" /\ key.v = 0 - 1 -> length
      [] key.t = "str" /\ key.v \in 0 .. 9 -> key.v
      [] OTHER -> NotAnIndex
-----------------------------------------------------------------------------
RECURSIVE Render(_)
RenderChild(e, h) == IF h \in DOMAIN e.scalars THEN e.scalars[h] ELSE Render(e.composites[h])
LiveChild(e, h) == IF h \in DOMAIN e.scalars THEN e.scalars[h] # Deleted ELSE e.composites[h] # Deleted
Render(e) ==
    LET live == {h \in DOMAIN e.keys : LiveChild(e, h)}
        named == [h \in live |-> e.keys[h]]
        kept(S) == S \ Range(e.keys)
        original(i) == CHOOSE j \in IndexOfNthZero(e.eliminated, ZeroesBelow(e.insertions, i) + 1) : TRUE
    IN  CASE e.value.t = "obj" ->
               Object([k \in kept(DOMAIN e.value.p) \cup Range(named) |->
                          IF k \in Range(named) THEN RenderChild(e, GetKeyHash(e, k)) ELSE e.value.p[k]])
          [] e.value.t = "set" ->
               [t |-> "set", s |-> kept(e.value.s) \cup {RenderChild(e, h) : h \in live}]
          [] e.value.t = "arr" ->
               [t |-> "arr", e |-> [i \in 1 .. e.insertions.length |->
                    IF Bit(e.insertions, i - 1) = 1 THEN RenderChild(e, i - 1) ELSE e.value.e[original(i - 1) + 1]] \o << >>]
          [] OTHER -> e.value

\* The outcome of an operation: the tree, whether it succeeded, the position
\* of the new child, what was rendered, and what went wrong unnoticed.
EditOutcome(e, ok) == [e |-> e, ok |-> ok, at |-> 0, out |-> NoTerm, bad |-> ""]
WithChild(e, h, value) ==
    IF IsComposite(value)
    THEN [e EXCEPT !.composites = (h :> NewEditTree(value)) @@ @, !.scalars = DropAt(@, h)]
    ELSE [e EXCEPT !.scalars = (h :> value) @@ @, !.composites = DropAt(@, h)]
InsertMember(e, key, value) ==
    LET h == GetKeyHash(e, key)
    IN  [EditOutcome(WithChild([e EXCEPT !.keys = (h :> key) @@ @], h, value), TRUE) EXCEPT !.at = h]
\* Children at and after a position move up, or those after it move down.
MovedUp(f, i) == [j \in {IF x >= i THEN x + 1 ELSE x : x \in DOMAIN f} |-> IF j > i THEN f[j - 1] ELSE f[j]]
MovedDown(f, i) == [j \in {IF x > i THEN x - 1 ELSE x : x \in DOMAIN f \ {i}} |-> IF j >= i THEN f[j + 1] ELSE f[j]]
InsertArray(e, i, value) ==
    LET moved == [e EXCEPT !.scalars = MovedUp(@, i), !.composites = MovedUp(@, i),
                           !.insertions = IF i = @.length THEN AppendBit(@, 1) ELSE InsertBit(@, i, 1)]
    IN  [EditOutcome(WithChild(moved, i, value), TRUE) EXCEPT !.at = i]
Collapse(e) == NewEditTree(Render(e))

TreeInsert(e, key, value) ==
    LET i == ToIndex(e.insertions.length, key)
    IN  CASE e.value.t = "obj" -> InsertMember(e, key, value)
          [] e.value.t = "set" /\ key = value -> InsertMember(IF IsComposite(key) THEN Collapse(e) ELSE e, key, value)
          [] e.value.t = "arr" /\ i \in 0 .. e.insertions.length -> InsertArray(e, i, value)
          [] OTHER -> EditOutcome(e, FALSE)

FallbackDelete(e, key) ==
    LET found == FindIn(e.value, key)
        h == GetKeyHash(e, key)
        noted == [e EXCEPT !.keys = (h :> key) @@ @]
    IN  IF found = NoTerm THEN EditOutcome(e, FALSE)
        ELSE IF IsComposite(found) THEN EditOutcome([noted EXCEPT !.composites = (h :> Deleted) @@ @], TRUE)
        ELSE EditOutcome([noted EXCEPT !.scalars = (h :> Deleted) @@ @], TRUE)
DeleteKey(e, key) ==
    LET h == GetKeyHash(e, key)
    IN  IF h \notin DOMAIN e.keys THEN FallbackDelete(e, key)
        ELSE IF ~LiveChild(e, h) THEN EditOutcome(e, FALSE)
        ELSE IF h \in DOMAIN e.scalars THEN EditOutcome([e EXCEPT !.scalars[h] = Deleted], TRUE)
        ELSE EditOutcome([e EXCEPT !.composites[h] = Deleted], TRUE)
DeleteArray(e, i) ==
    LET gone == CHOOSE j \in IndexOfNthZero(e.eliminated, ZeroesBelow(e.insertions, i) + 1) : TRUE
    IN  EditOutcome([e EXCEPT !.scalars = MovedDown(@, i), !.composites = MovedDown(@, i),
                           !.eliminated = IF Bit(e.insertions, i) = 0 THEN SetBit(@, gone, 1) ELSE @,
                           !.insertions = DeleteBit(@, i)], TRUE)
TreeDelete(e, key) ==
    LET i == ToIndex(e.insertions.length, key)
    IN  CASE e.value.t = "obj" -> DeleteKey(e, key)
          [] e.value.t = "set" -> IF IsComposite(key) THEN FallbackDelete(Collapse(e), key) ELSE DeleteKey(e, key)
          [] e.value.t = "arr" /\ i \in 0 .. e.insertions.length - 1 -> DeleteArray(e, i)
          [] OTHER -> EditOutcome(e, FALSE)

Perform(e, act) ==
    CASE act.op = "render" -> [EditOutcome(e, TRUE) EXCEPT !.out = Render(e)]
      [] act.op # "render" /\ e.value = NoTerm -> EditOutcome(e, FALSE)
      [] act.op = "insert" /\ e.value # NoTerm -> TreeInsert(e, act.key, act.value)
      [] act.op = "delete" /\ e.value # NoTerm -> TreeDelete(e, act.key)
-----------------------------------------------------------------------------
(* Unfold: the tree is extended down a path, and the operation is done there. *)
(* What was extended stays when it fails.                                     *)
ChildAt(e, h) == [EditOutcome(e, TRUE) EXCEPT !.at = h]
\* A child that was not touched yet is put into the tree.
Extend(e, key, found) ==
    IF found = NoTerm THEN EditOutcome(e, FALSE) ELSE InsertMember(e, key, found)
ObjectChild(e, key, h) == IF h \in DOMAIN e.keys THEN ChildAt(e, h) ELSE Extend(e, key, FindIn(e.value, key))
SetChild(e, key, h) ==
    IF h \in DOMAIN e.keys /\ h \in DOMAIN e.scalars THEN ChildAt(e, h) ELSE Extend(e, key, FindIn(e.value, key))
\* In an array it replaces the element at the position, but it is looked up in
\* the original array, where another may be by now.
IsStale(e, i) ==
    i \in 0 .. e.insertions.length - 1 /\ IndexOfNthZero(e.eliminated, ZeroesBelow(e.insertions, i) + 1) # {i}
ExtendArray(e, i, found) ==
    IF found = NoTerm \/ i \notin 0 .. e.insertions.length - 1 THEN EditOutcome(e, FALSE)
    ELSE InsertArray(DeleteArray(e, i).e, i, found)
ArrayChild(e, i) ==
    IF i \in DOMAIN e.scalars \cup DOMAIN e.composites THEN ChildAt(e, i)
    ELSE [ExtendArray(e, i, FindIn(e.value, [t |-> "num", v |-> i])) EXCEPT !.bad = IF IsStale(e, i) THEN "stale element" ELSE ""]
ChildOfSet(e, key) == SetChild(e, key, GetKeyHash(e, key))
ChildOf(e, key) ==
    CASE e.value.t = "obj" -> ObjectChild(e, key, GetKeyHash(e, key))
      [] e.value.t = "set" -> ChildOfSet(IF IsComposite(key) THEN Collapse(e) ELSE e, key)
      [] e.value.t = "arr" -> ArrayChild(e, ToIndex(e.insertions.length, key))
      [] OTHER -> EditOutcome(e, FALSE)

\* Below a child: an operation on a scalar is done on a tree that is dropped.
IntoChild(e, h, r) == [r EXCEPT !.e = IF h \in DOMAIN e.scalars THEN e ELSE [e EXCEPT !.composites[h] = r.e]]
NoChild(e, h) ==
    [EditOutcome(e, FALSE) EXCEPT !.bad = IF h \in DOMAIN e.scalars /\ e.value.t = "set" THEN "nil child" ELSE ""]
Blamed(r, bad) == IF bad = "" THEN r ELSE [r EXCEPT !.bad = bad]
RECURSIVE UnfoldThen(_, _, _)
BelowChild(c, path, act) ==
    IF ~c.ok THEN c
    ELSE IF ~LiveChild(c.e, c.at) THEN Blamed(NoChild(c.e, c.at), c.bad)
    ELSE Blamed(IntoChild(c.e, c.at,
                   UnfoldThen(IF c.at \in DOMAIN c.e.scalars THEN NewEditTree(c.e.scalars[c.at]) ELSE c.e.composites[c.at], path, act)),
                c.bad)
UnfoldThen(e, path, act) ==
    IF path = << >> THEN Perform(e, act) ELSE BelowChild(ChildOf(e, Head(path)), Tail(path), act)

InsertAtPath(e, path, value) ==
    IF path = << >> THEN EditOutcome(NewEditTree(value), TRUE)
    ELSE UnfoldThen(e, Front(path), [op |-> "insert", key |-> Last(path), value |-> value])
DeleteAtPath(e, path) ==
    IF path = << >> THEN IF e.value = NoTerm THEN EditOutcome(e, FALSE) ELSE EditOutcome(NewEditTree(NoTerm), TRUE)
    ELSE UnfoldThen(e, Front(path), [op |-> "delete", key |-> Last(path)])
RenderAtPath(e, path) == UnfoldThen(e, path, [op |-> "render"])

RECURSIVE FindPath(_, _)
FindPath(term, path) ==
    IF path = << >> \/ term = NoTerm THEN term ELSE FindPath(FindIn(term, Head(path)), Tail(path))
\* Exists, on objects: it does not extend the tree.
RECURSIVE TreeExists(_, _)
TreeExists(e, path) ==
    LET h == GetKeyHash(e, Head(path))
    IN  CASE e.value = NoTerm -> FALSE
          [] e.value # NoTerm /\ path = << >> -> TRUE
          [] e.value.t = "obj" /\ path # << >> ->
               IF h \notin DOMAIN e.keys THEN FindPath(e.value, path) # NoTerm
               ELSE IF h \in DOMAIN e.scalars THEN e.scalars[h] # Deleted /\ Len(path) = 1
               ELSE e.composites[h] # Deleted /\ TreeExists(e.composites[h], Tail(path))
          [] OTHER -> FALSE
-----------------------------------------------------------------------------
(* Inputs of generated tests (testcase_gen.go): an object that has a value at *)
(* the end of every reference; long references come first, so that short      *)
(* ones find what they need.                                                  *)
Leaf == [t |-> "str", v |-> 12]
RECURSIVE VivifyTree(_, _, _)
VivifyTree(e, ref, i) ==
    IF i > Len(ref) THEN e
    ELSE IF TreeExists(e, SubSeq(ref, 1, i)) THEN VivifyTree(e, ref, i + 1)
    ELSE VivifyTree(InsertAtPath(e, SubSeq(ref, 1, i), Object(<< >>)).e, ref, i + 1)
LongestFirst(refs) == SetToSortSeq(refs, LAMBDA a, b : Len(a) > Len(b))
WithLeaf(e, ref) == IF Len(ref) > 1 THEN InsertAtPath(e, ref, Leaf).e ELSE e
RECURSIVE AddRefs(_, _)
AddRefs(e, refs) ==
    IF refs = << >> THEN e
    ELSE AddRefs(IF TreeExists(e, Head(refs)) THEN e ELSE WithLeaf(VivifyTree(e, Head(refs), 1), Head(refs)), Tail(refs))
RootName(n) == [t |-> "str", v |-> n]
TwoRoots == Object((RootName(10) :> Object(<< >>)) @@ (RootName(11) :> Object(<< >>)))
ObjectsFromRefs(refs) == AddRefs(NewEditTree(TwoRoots), LongestFirst(refs))
-----------------------------------------------------------------------------
(* What edits of a term should give, defined on the term itself. *)
Refused == [t |-> "refused"]
RefChild(term, key) ==
    LET i == ToIndex(Len(term.e), key)
    IN  CASE term.t \in {"obj", "set"} -> FindIn(term, key)
          [] term.t = "arr" -> IF i \in 0 .. Len(term.e) - 1 THEN term.e[i + 1] ELSE NoTerm
          [] OTHER -> NoTerm
RefHere(term, act) ==
    LET i == ToIndex(Len(term.e), act.key)
    IN  CASE act.op = "render" -> term
          [] act.op = "insert" /\ term.t = "obj" -> Object((act.key :> act.value) @@ term.p)
          [] act.op = "insert" /\ term.t = "set" /\ act.key = act.value -> [term EXCEPT !.s = @ \cup {act.value}]
          [] act.op = "insert" /\ term.t = "arr" /\ i \in 0 .. Len(term.e) -> [term EXCEPT !.e = InsertAt(@, i + 1, act.value)]
          [] act.op = "delete" /\ term.t = "obj" /\ act.key \in DOMAIN term.p -> Object(DropAt(term.p, act.key))
          [] act.op = "delete" /\ term.t = "set" /\ act.key \in term.s -> [term EXCEPT !.s = @ \ {act.key}]
          [] act.op = "delete" /\ term.t = "arr" /\ i \in 0 .. Len(term.e) - 1 -> [term EXCEPT !.e = RemoveAt(@, i + 1)]
          [] OTHER -> Refused
RECURSIVE RefAt(_, _, _)
RefAt(term, path, act) ==
    LET key == Head(path)
        new == RefAt(RefChild(term, key), Tail(path), act)
    IN  IF path = << >> THEN RefHere(term, act)
        ELSE IF RefChild(term, key) = NoTerm \/ new = Refused THEN Refused
        ELSE CASE term.t = "obj" -> Object((key :> new) @@ term.p)
               [] term.t = "set" -> [term EXCEPT !.s = (@ \ {key}) \cup {new}]
               [] term.t = "arr" -> [term EXCEPT !.e[ToIndex(Len(term.e), key) + 1] = new]
RECURSIVE RefFind(_, _)
RefFind(term, path) ==
    IF path = << >> THEN term
    ELSE IF RefChild(term, Head(path)) = NoTerm THEN Refused ELSE RefFind(RefChild(term, Head(path)), Tail(path))
RefEdit(term, o) ==
    CASE o.op = "insert" /\ o.path = << >> -> o.value
      [] o.op = "delete" /\ o.path = << >> -> IF term = NoTerm THEN Refused ELSE NoTerm
      [] o.op = "render" -> IF RefFind(term, o.path) = Refused THEN Refused ELSE term
      [] OTHER -> RefAt(term, Front(o.path), [op |-> o.op, key |-> Last(o.path), value |-> o.value])
-----------------------------------------------------------------------------
EditInit ==
    /\ \E d \in EditDocs : editTree = NewEditTree(d) /\ editDoc = d
    /\ editOk = TRUE /\ editBad = "" /\ editsLeft = MaxEdits

Edited(o) ==
    CASE o.op = "insert" -> InsertAtPath(editTree, o.path, o.value)
      [] o.op = "delete" -> DeleteAtPath(editTree, o.path)
      [] o.op = "render" -> RenderAtPath(editTree, o.path)
EditDone(o, r, ref) ==
    /\ editTree' = r.e /\ editBad' = r.bad
    /\ editDoc' = IF ref = Refused THEN editDoc ELSE ref
    /\ editOk' = /\ r.ok = (ref # Refused)
                 /\ o.op = "render" /\ r.ok => r.out = RefFind(editDoc, o.path)
Edit(o) ==
    /\ editsLeft > 0 /\ editBad = ""
    /\ EditDone(o, Edited(o), RefEdit(editDoc, o))
    /\ editsLeft' = editsLeft - 1
\* Input for the rules of a policy, made of the references in them.
HasAll(doc, refs) ==
    \A ref \in refs :
        RefFind(doc, ref) = IF \E longer \in refs : IsStrictPrefix(ref, longer) THEN Object(RefFind(doc, ref).p)
                           ELSE IF Len(ref) > 1 THEN Leaf ELSE Object(<< >>)
Bootstrap(refs) ==
    /\ editsLeft = MaxEdits
    /\ editTree' = ObjectsFromRefs(refs) /\ editDoc' = Render(editTree')
    /\ editOk' = HasAll(editDoc', refs)
    /\ editsLeft' = 0 /\ UNCHANGED editBad

EditNext == (\E o \in EditOps : Edit(o)) \/ (\E refs \in RefSets : Bootstrap(refs))
EditSpec == EditInit /\ [][EditNext]_editVars
-----------------------------------------------------------------------------
EditTypeOK ==
    /\ editBad \in {"", "stale element", "nil child"} /\ editsLeft \in 0 .. MaxEdits
    /\ editTree.value.t = "arr" =>
          /\ editTree.insertions.length = Cardinality(DOMAIN editTree.scalars) + Cardinality(DOMAIN editTree.composites)
                + ZeroesBelow(editTree.eliminated, editTree.eliminated.length)
          /\ DOMAIN editTree.scalars \cap DOMAIN editTree.composites = {}

RECURSIVE ObjectsOnly(_)
ObjectsOnly(term) ==
    ~IsComposite(term) \/ (term.t = "obj" /\ \A k \in DOMAIN term.p : ObjectsOnly(term.p[k]))
\* However edits, reads and refused edits are mixed, the tree renders to the
\* term with the edits that succeeded, and an edit succeeds exactly when it
\* could be done on that term; the input of a generated test has a value for
\* every reference.  Left out from where they happen are the two cases in
\* which the code goes wrong by itself: a descent into an array that was
\* shifted (edittree.go:728) and into a deleted scalar of a set (698).
EditFaithful ==
    editBad = "" =>
        /\ editOk
        /\ Render(editTree) = editDoc
        /\ ObjectsOnly(editDoc) => \A o \in EditOps :
              TreeExists(editTree, o.path) = (RefFind(editDoc, o.path) \notin {Refused, NoTerm})
=============================================================================
