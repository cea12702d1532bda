----------------------------- MODULE JsonDelta -----------------------------
(***************************************************************************)
(* The binary JSON of pkg/json: a document is written once (serialize), a  *)
(* later version as a delta over it (diff), and a JSON patch as a delta    *)
(* too (deltaPatch).  A reader of a delta sees the old bytes through a     *)
(* table that sends some offsets elsewhere.  Equal strings, numbers and    *)
(* object shapes are written once, so one offset may stand for many places *)
(* of a document, and null, true and false have no bytes at all.           *)
(*                                                                         *)
(* A buffer is a sequence of cells; what the code writes in one piece is   *)
(* one cell and its offset is its index.  A value is a record with its     *)
(* type t and v (a scalar), e (elements) or p (properties).                *)
(***************************************************************************)
EXTENDS Integers, Sequences, FiniteSets, SequencesExt

CONSTANT IntStrings \* strings that print an integer

Nulls == [nil |-> -1, false |-> -2, true |-> -3]
Removed == -10  \* -typeObjectPatch
NullOf(off) == [t |-> CHOOSE t \in DOMAIN Nulls : Nulls[t] = off]
ObjectCells == {"full", "thin", "patch"}
With(f, k, v) == [x \in DOMAIN f \cup {k} |-> IF x = k THEN v ELSE f[x]]
NameOrder(names) == SetToSortSeq(names, LAMBDA a, b : a < b)

\* A buffer that is being written, with the encoding cache.
NewBuffer == [buf |-> <<>>, strings |-> <<>>, numbers |-> <<>>, shapes |-> <<>>]
NextOffset(st, base) == base + Len(st.buf) + 1
Put(st, cell) == [st EXCEPT !.buf = Append(@, cell)]
Fill(st, base, off, cell) == [st EXCEPT !.buf[off - base] = cell]

\* CacheString and CacheNumber: the cell of an equal one, or a new cell.
PutString(st, base, cell, v) ==
  IF v \in DOMAIN st.strings THEN [st |-> st, off |-> st.strings[v]]
  ELSE [st |-> Put([st EXCEPT !.strings = With(@, v, NextOffset(st, base))], cell),
        off |-> NextOffset(st, base)]
PutNumber(st, base, v) ==
  IF v \in DOMAIN st.numbers THEN [st |-> st, off |-> st.numbers[v]]
  ELSE [st |-> Put([st EXCEPT !.numbers = With(@, v, NextOffset(st, base))], [t |-> "num", v |-> v]),
        off |-> NextOffset(st, base)]

\* Values written one after the other, each into what the one before left.
Joined(acc, one) == [st |-> one.st, offs |-> Append(acc.offs, one.off)]
PutAll(PutOne(_, _), vs, st) ==
  FoldLeft(LAMBDA acc, v : Joined(acc, PutOne(v, acc.st)), [st |-> st, offs |-> <<>>], vs)

\* The header of a container, once its children are written.
Closed(all, base, off, header) ==
  [st |-> Fill(all.st, base, off, header @@ [offs |-> all.offs]), off |-> off]

----------------------------------------------------------------------------
(***************************************************************************)
(* serialize: containers write their header first and their children after *)
(* it; an object whose names were seen before is thin and refers to the    *)
(* first one for them.                                                     *)
(***************************************************************************)
RECURSIVE Serialize(_, _, _)
SerializeAll(vs, base, st) == PutAll(LAMBDA v, s : Serialize(v, base, s), vs, st)

SerializeArray(v, base, st) ==
  Closed(SerializeAll(v.e, base, Put(st, <<>>)), base, NextOffset(st, base), [t |-> "arr"])

SerializeObject(v, base, st) ==
  LET off == NextOffset(st, base)
      names == NameOrder(DOMAIN v.p)
      seen == names \in DOMAIN st.shapes
      st0 == Put([st EXCEPT !.shapes = IF seen THEN @ ELSE With(@, names, off)], <<>>)
      st1 == IF seen THEN st0
             ELSE [st0 EXCEPT !.buf = @ \o [i \in 1 .. Len(names) |-> [t |-> "name", v |-> names[i]]]]
      header == IF seen THEN [t |-> "thin", full |-> st.shapes[names]]
                ELSE [t |-> "full", names |-> [i \in 1 .. Len(names) |-> off + i]]
  IN  Closed(SerializeAll([i \in 1 .. Len(names) |-> v.p[names[i]]], base, st1), base, off, header)

Serialize(v, base, st) ==
  CASE v.t \in DOMAIN Nulls ->
         IF st.buf # <<>> THEN [st |-> st, off |-> Nulls[v.t]]
         ELSE [st |-> Put(st, v), off |-> NextOffset(st, base)]
    [] v.t = "str" ->
         PutString(st, base, [t |-> IF v.v \in IntStrings THEN "strint" ELSE "str", v |-> v.v], v.v)
    [] v.t = "num" -> PutNumber(st, base, v.v)
    [] v.t = "arr" -> SerializeArray(v, base, st)
    [] v.t = "obj" -> SerializeObject(v, base, st)

----------------------------------------------------------------------------
(***************************************************************************)
(* Readers: content is the snapshot and the delta behind it, slen the      *)
(* snapshot's length, patches the table of offsets.                        *)
(***************************************************************************)
SnapshotReader(buf) == [content |-> buf, slen |-> Len(buf), patches |-> <<>>]

DeltaOffset(r, off) ==
  IF r.slen < off \/ off \notin DOMAIN r.patches THEN off ELSE r.patches[off]
CellAt(r, off) == r.content[DeltaOffset(r, off)]
TypeAt(r, off) == IF off < 0 THEN NullOf(off).t ELSE CellAt(r, off).t

\* newSnapshotObjectReader: names and values of a full or thin object, as a
\* function from the name to its two offsets.
RawEntries(content, cell) ==
  LET nameOffs == IF cell.t = "thin" THEN content[cell.full].names ELSE cell.names
  IN  [n \in {content[nameOffs[i]].v : i \in DOMAIN nameOffs} |->
         LET i == CHOOSE i \in DOMAIN nameOffs : content[nameOffs[i]].v = n
         IN  [name |-> nameOffs[i], value |-> cell.offs[i]]]

\* deltaObjectReaderImpl lays the changed entries over the object below.
Entries(r, off) ==
  LET cell == CellAt(r, off)
  IN  IF cell.t # "patch" THEN RawEntries(r.content, cell)
      ELSE LET below == RawEntries(r.content, r.content[cell.full])
               at(n) == CHOOSE i \in DOMAIN cell.names : r.content[cell.names[i]].v = n
               changed == {r.content[cell.names[i]].v : i \in DOMAIN cell.names}
               gone == {n \in changed : cell.offs[at(n)] = Removed}
           IN  [n \in (DOMAIN below \cup changed) \ gone |->
                  IF n \in changed THEN [name |-> cell.names[at(n)], value |-> cell.offs[at(n)]]
                  ELSE below[n]]

\* The document at an offset (newFile, and JSON of what it returns).
RECURSIVE ReadValue(_, _)
ReadValue(r, off) ==
  IF off < 0 THEN NullOf(off)
  ELSE LET cell == CellAt(r, off)
       IN  CASE cell.t = "arr" -> [t |-> "arr", e |-> [i \in DOMAIN cell.offs |-> ReadValue(r, cell.offs[i])]]
             [] cell.t \in ObjectCells ->
                  LET es == Entries(r, off)
                  IN  [t |-> "obj", p |-> [n \in DOMAIN es |-> ReadValue(r, es[n].value)]]
             [] cell.t = "strint" -> [t |-> "str", v |-> cell.v]
             [] OTHER -> cell

----------------------------------------------------------------------------
(***************************************************************************)
(* reserialize copies a value of the new document behind the old one.      *)
(***************************************************************************)
RECURSIVE Reserialize(_, _, _, _, _)
ReserializeAll(src, alen, offs, st) ==
  PutAll(LAMBDA off, s : Reserialize(src, alen, off, TRUE, s), offs, st)
PutNames(names, alen, st) ==
  PutAll(LAMBDA n, s : PutString(s, alen, [t |-> "str", v |-> n], n), names, st)
ReserializeObject(src, alen, es, names, ns, at) ==
  Closed(ReserializeAll(src, alen, [i \in DOMAIN names |-> es[names[i]].value], ns.st), alen, at,
         [t |-> "full", names |-> ns.offs])
ReserializeEntries(src, alen, es, names, at, st) ==
  ReserializeObject(src, alen, es, names, PutNames(names, alen, Put(st, <<>>)), at)

Reserialize(src, alen, off, embed, st) ==
  LET t == TypeAt(src, off)
      at == NextOffset(st, alen)
  IN  CASE t \in DOMAIN Nulls ->
             IF embed THEN [st |-> st, off |-> Nulls[t]] ELSE [st |-> Put(st, [t |-> t]), off |-> at]
        [] t = "str" -> PutString(st, alen, CellAt(src, off), CellAt(src, off).v)
        [] t = "strint" -> [st |-> Put(st, CellAt(src, off)), off |-> at]
        [] t = "num" -> PutNumber(st, alen, CellAt(src, off).v)
        [] t = "arr" ->
             Closed(ReserializeAll(src, alen, CellAt(src, off).offs, Put(st, <<>>)), alen, at, [t |-> "arr"])
        [] t \in ObjectCells ->
             LET es == Entries(src, off)
             IN  ReserializeEntries(src, alen, es, NameOrder(DOMAIN es), at, st)

----------------------------------------------------------------------------
(***************************************************************************)
(* arrayDiff: an element of the new array that the old one has anywhere is *)
(* taken from there (equal hashes are compared in full by elementEqual).   *)
(***************************************************************************)
ElementEqual(a, aoff, b, boff) ==
  LET ta == TypeAt(a, aoff)
      tb == TypeAt(b, boff)
  IN  ta = tb /\ ReadValue(a, aoff) = ReadValue(b, boff)

ArrayDiff(a, aoff, b, boff) ==
  LET av == CellAt(a, aoff).offs
      bv == CellAt(b, boff).offs
      same(i) == SelectInSeq(av, LAMBDA off : ElementEqual(a, off, b, bv[i]))
  IN  [i \in DOMAIN bv |-> IF same(i) = 0 THEN [b |-> TRUE, off |-> bv[i]]
                           ELSE [b |-> FALSE, off |-> av[same(i)]]]

\* Faulty variant: only the values taken from the new array decide whether
\* the array changed.
ArrayChangedByValue(a, aoff, result) ==
  Len(CellAt(a, aoff).offs) # Len(result) \/ \E i \in DOMAIN result : result[i].b

ArrayChanged(a, aoff, result) ==
  LET av == CellAt(a, aoff).offs
  IN  Len(av) # Len(result) \/ \E i \in DOMAIN result : result[i].b \/ result[i].off # av[i]

PutElements(b, alen, result, st) ==
  PutAll(LAMBDA r, s : IF r.b THEN Reserialize(b, alen, r.off, TRUE, s) ELSE [st |-> s, off |-> r.off],
         result, st)

----------------------------------------------------------------------------
(***************************************************************************)
(* diffImpl writes what is new in b into the delta.  A container patches   *)
(* its own offset; a scalar tells its container (changed), because other   *)
(* places may share the scalar's offset.                                   *)
(***************************************************************************)
Patched(d, off, to) == [d EXCEPT !.patches = With(@, off, to)]
Unpatched(d, off) == [d EXCEPT !.patches = [x \in DOMAIN @ \ {off} |-> @[x]]]
Same(d) == [d |-> d, off |-> 0, changed |-> FALSE]
WithBuffer(d, st) == [d EXCEPT !.st = st]

\* The value at aoff becomes b's value.
ReplacedAt(d, aoff, r) ==
  LET d1 == WithBuffer(d, r.st)
  IN  [d |-> IF r.off >= 0 THEN Patched(d1, aoff, r.off) ELSE d1, off |-> r.off, changed |-> TRUE]
ReplaceBy(b, boff, aoff, embed, alen, d) == ReplacedAt(d, aoff, Reserialize(b, alen, boff, embed, d.st))

DiffScalar(a, aoff, b, boff, alen, d) ==
  LET v == CellAt(b, boff)
      r == IF v.t = "str" THEN PutString(d.st, alen, v, v.v)
           ELSE [st |-> Put(d.st, v), off |-> NextOffset(d.st, alen)]
  IN  IF CellAt(a, aoff).v = v.v THEN Same(d)
      ELSE [d |-> Patched(WithBuffer(d, r.st), aoff, r.off), off |-> r.off, changed |-> TRUE]

PatchedAt(d, aoff, r) == [d |-> Patched(WithBuffer(d, r.st), aoff, r.off), off |-> r.off, changed |-> FALSE]
DiffElements(a, aoff, b, result, alen, d) ==
  IF ~ArrayChanged(a, aoff, result) THEN Same(d)
  ELSE PatchedAt(d, aoff, Closed(PutElements(b, alen, result, Put(d.st, <<>>)), alen, NextOffset(d.st, alen),
                                 [t |-> "arr"]))
DiffArray(a, aoff, b, boff, alen, d) == DiffElements(a, aoff, b, ArrayDiff(a, aoff, b, boff), alen, d)

RECURSIVE DiffImpl(_, _, _, _, _, _, _)

\* The old object's properties, in order: the changed and removed ones.
Noted(acc, n, noff, aoff, r) ==
  IF r.changed THEN [d |-> Unpatched(r.d, aoff), new |-> With(acc.new, n, [name |-> noff, value |-> r.off])]
  ELSE [acc EXCEPT !.d = r.d]
DiffProperty(a, ea, b, eb, alen, acc, n) ==
  IF n \notin DOMAIN eb THEN [acc EXCEPT !.new = With(@, n, [name |-> ea[n].name, value |-> Removed])]
  ELSE Noted(acc, n, ea[n].name, ea[n].value, DiffImpl(a, ea[n].value, b, eb[n].value, TRUE, alen, acc.d))
DiffProperties(a, ea, b, eb, alen, acc) ==
  FoldLeft(LAMBDA ac, n : DiffProperty(a, ea, b, eb, alen, ac, n), acc, NameOrder(DOMAIN ea))

\* The properties only the new object has.
Added(acc, n, noff, r) ==
  [d |-> WithBuffer(acc.d, r.st), new |-> With(acc.new, n, [name |-> noff, value |-> r.off])]
AddProperty(b, eb, alen, acc, n, s) == Added(acc, n, s.off, Reserialize(b, alen, eb[n].value, TRUE, s.st))
AddProperties(b, ea, eb, alen, acc) ==
  FoldLeft(LAMBDA ac, n : AddProperty(b, eb, alen, ac, n, PutString(ac.d.st, alen, [t |-> "str", v |-> n], n)),
           acc, NameOrder(DOMAIN eb \ DOMAIN ea))

\* The object is patched by the properties that are new, if there are any.
PatchEntries(aoff, size, all, names, alen) ==
  LET cell == [t |-> "patch", full |-> aoff, n |-> size,
               names |-> [i \in DOMAIN names |-> all.new[names[i]].name],
               offs |-> [i \in DOMAIN names |-> all.new[names[i]].value]]
  IN  IF names = <<>> THEN Same(all.d)
      ELSE PatchedAt(all.d, aoff, [st |-> Put(all.d.st, cell), off |-> NextOffset(all.d.st, alen)])
PatchObject(aoff, size, all, alen) == PatchEntries(aoff, size, all, NameOrder(DOMAIN all.new), alen)
DiffEntries(a, aoff, ea, b, eb, alen, d) ==
  PatchObject(aoff, Cardinality(DOMAIN eb),
              AddProperties(b, ea, eb, alen, DiffProperties(a, ea, b, eb, alen, [d |-> d, new |-> <<>>])), alen)
DiffObject(a, aoff, b, boff, alen, d) ==
  DiffEntries(a, aoff, Entries(a, aoff), b, Entries(b, boff), alen, d)

DiffImpl(a, aoff, b, boff, embed, alen, d) ==
  LET ta == TypeAt(a, aoff)
      tb == TypeAt(b, boff)
  IN  IF ta # tb /\ ~({ta, tb} \subseteq ObjectCells) THEN ReplaceBy(b, boff, aoff, embed, alen, d)
      ELSE CASE ta \in DOMAIN Nulls -> Same(d)
             [] ta \in {"str", "strint", "num"} -> DiffScalar(a, aoff, b, boff, alen, d)
             [] ta = "arr" -> DiffArray(a, aoff, b, boff, alen, d)
             [] ta \in ObjectCells -> DiffObject(a, aoff, b, boff, alen, d)

\* diff: the delta of b over a, its header cell first.
Diff(a, b) ==
  DiffImpl(a, 1, b, 1, FALSE, Len(a.content), [st |-> Put(NewBuffer, [t |-> "header"]), patches |-> <<>>]).d

\* newDeltaReader over the old content and a delta.
DeltaReader(snapshot, d) ==
  [content |-> snapshot \o d.st.buf, slen |-> Len(snapshot), patches |-> d.patches]
----------------------------------------------------------------------------
(***************************************************************************)
(* A JSON patch on a value (patch.go).  A path is a sequence of names; in  *)
(* an array a name is an index from 0, or Dash for the place behind the    *)
(* last.  Op: [op, path, value, from].                                     *)
(***************************************************************************)
Bad == [t |-> "err"]
Gone == [t |-> "gone"]  \* what removing a whole document leaves
Dash == 99
Adds(op) == op \in {"add", "create"}

RECURSIVE PatchAt(_, _, _, _)
PatchMember(v, ptr, value, op) ==
  LET k == Head(ptr)
      has == k \in DOMAIN v.p
      child == IF has THEN v.p[k] ELSE [t |-> "obj", p |-> <<>>]
      sub == PatchAt(child, Tail(ptr), value, op)
  IN  IF Len(ptr) = 1
      THEN CASE op = "remove" -> IF has THEN [v EXCEPT !.p = [x \in DOMAIN @ \ {k} |-> @[x]]] ELSE Bad
             [] Adds(op) -> [v EXCEPT !.p = With(@, k, value)]
             [] op = "replace" -> IF has THEN [v EXCEPT !.p = With(@, k, value)] ELSE Bad
             [] op = "test" -> IF has /\ v.p[k] = value THEN v ELSE Bad
      ELSE IF (~has /\ op # "create") \/ sub = Bad THEN Bad
      ELSE [v EXCEPT !.p = With(@, k, sub)]

PatchElement(v, ptr, value, op) ==
  LET i == IF Head(ptr) = Dash THEN Len(v.e) ELSE Head(ptr)
      sub == PatchAt(v.e[i + 1], Tail(ptr), value, op)
  IN  IF i > Len(v.e) \/ (~Adds(op) /\ i = Len(v.e)) THEN Bad
      ELSE IF Len(ptr) = 1
      THEN CASE op = "remove" -> [v EXCEPT !.e = RemoveAt(@, i + 1)]
             [] op = "replace" -> [v EXCEPT !.e[i + 1] = value]
             [] Adds(op) -> [v EXCEPT !.e = InsertAt(@, i + 1, value)]
             [] op = "test" -> IF v.e[i + 1] = value THEN v ELSE Bad
      ELSE IF i = Len(v.e) \/ sub = Bad THEN Bad
      ELSE [v EXCEPT !.e[i + 1] = sub]

PatchAt(v, ptr, value, op) ==
  IF ptr = <<>>
  THEN CASE op = "remove" -> Gone
         [] op \in {"add", "create", "replace"} -> value
         [] op = "test" -> IF v = value THEN v ELSE Bad
  ELSE CASE v.t = "obj" -> PatchMember(v, ptr, value, op)
         [] v.t = "arr" -> PatchElement(v, ptr, value, op)
         [] OTHER -> Bad

RECURSIVE Extract(_, _)
Extract(v, ptr) ==
  IF ptr = <<>> THEN v
  ELSE IF v.t = "obj" /\ Head(ptr) \in DOMAIN v.p THEN Extract(v.p[Head(ptr)], Tail(ptr))
  ELSE IF v.t = "arr" /\ Head(ptr) < Len(v.e) THEN Extract(v.e[Head(ptr) + 1], Tail(ptr))
  ELSE Bad

\* applyTo, the copy and move of which are an add and a remove.
ApplyOp(v, o) ==
  LET from == Extract(v, o.from)
      copied == IF from = Bad THEN Bad ELSE PatchAt(v, o.path, from, "add")
  IN  CASE o.op = "copy" -> copied
        [] o.op = "move" -> IF copied = Bad \/ o.from = o.path THEN copied
                            ELSE PatchAt(copied, o.from, from, "remove")
        [] OTHER -> PatchAt(v, o.path, o.value, o.op)

RECURSIVE ApplyPatch(_, _)
ApplyPatch(v, ops) ==
  IF ops = <<>> \/ v = Bad THEN v ELSE ApplyPatch(ApplyOp(v, Head(ops)), Tail(ops))

----------------------------------------------------------------------------
(***************************************************************************)
(* deltaPatch turns a patch into a delta over a snapshot.  Each operation  *)
(* rewrites the smallest part of the document that is still the snapshot's *)
(* and sends its offset there.                                             *)
(***************************************************************************)
NewDeltaPatch(snapshot) ==
  [snapshot |-> snapshot, delta |-> <<[t |-> "header"]>>, patches |-> <<>>, failed |-> FALSE]
PatchReader(d) ==
  [content |-> d.snapshot \o d.delta, slen |-> Len(d.snapshot) + Len(d.delta), patches |-> d.patches]

\* traverse: the offset of a member or an element, 0 when there is none.
Traverse(d, off, seg) ==
  LET r == PatchReader(d)
      t == TypeAt(r, off)
  IN  CASE t = "arr" /\ seg < Len(CellAt(r, off).offs) -> CellAt(r, off).offs[seg + 1]
        [] t \in ObjectCells /\ seg \in DOMAIN Entries(r, off) -> Entries(r, off)[seg].value
        [] OTHER -> 0

\* search walks down from the root and stops where the document was patched
\* before, or at the array the last step would enter.
RECURSIVE SearchFrom(_, _, _, _)
SearchFrom(d, ptr, i, off) ==
  IF off = 0 THEN [ok |-> FALSE, prefix |-> i, off |-> 0]
  ELSE IF off \in DOMAIN d.patches \/ i = Len(ptr) THEN [ok |-> TRUE, prefix |-> i, off |-> off]
  ELSE IF TypeAt(PatchReader(d), off) = "arr" /\ i = Len(ptr) - 1
  THEN [ok |-> TRUE, prefix |-> Len(ptr), off |-> off]
  ELSE SearchFrom(d, ptr, i + 1, Traverse(d, off, ptr[i + 1]))
Search(d, ptr) == SearchFrom(d, ptr, 0, 1)

\* create makes the containers that are missing part of the value.
RECURSIVE Nested(_, _)
Nested(segs, v) ==
  IF segs = <<>> THEN v ELSE [t |-> "obj", p |-> (Head(segs) :> Nested(Tail(segs), v))]
RECURSIVE MissingAt(_, _, _, _)
MissingAt(d, ptr, i, off) ==
  IF i = Len(ptr) - 1 THEN Len(ptr)
  ELSE LET next == Traverse(d, off, ptr[i + 1])
       IN  IF next = 0 THEN i + 1 ELSE MissingAt(d, ptr, i + 1, next)
CreatedAt(n, o) ==
  [o EXCEPT !.path = SubSeq(o.path, 1, n), !.value = Nested(SubSeq(o.path, n + 1, Len(o.path)), o.value)]
Created(d, o) == IF o.op # "create" THEN o ELSE CreatedAt(MissingAt(d, o.path, 0, 1), o)

\* remove: the offsets of everything below, patched or not.
RECURSIVE Below(_, _)
Below(r, off) ==
  IF off < 0 THEN {}
  ELSE LET cell == CellAt(r, off)
       IN  {off} \cup CASE cell.t = "arr" -> UNION {Below(r, cell.offs[i]) : i \in DOMAIN cell.offs}
                        [] cell.t \in ObjectCells ->
                             UNION {Below(r, Entries(r, off)[n].value) : n \in DOMAIN Entries(r, off)}
                        [] OTHER -> {}

\* One operation: where it is applied, the rewritten value, the new table.
RewriteAt(d, at, v, removed, base) ==
  [d EXCEPT !.delta = @ \o Serialize(v, base, NewBuffer).st.buf,
            !.patches = [x \in (DOMAIN @ \cup {at}) \ removed |-> IF x = at THEN base + 1 ELSE @[x]]]
Rewrite(d, at, v) ==
  IF v = Bad THEN [d EXCEPT !.failed = TRUE]
  ELSE RewriteAt(d, at, v, Below(PatchReader(d), at) \ {at}, Len(d.snapshot) + Len(d.delta))
ApplyFound(d, o, at) ==
  IF ~at.ok THEN [d EXCEPT !.failed = TRUE]
  ELSE Rewrite(d, at.off, ApplyOp(ReadValue(PatchReader(d), at.off),
                                  [o EXCEPT !.path = SubSeq(@, at.prefix + 1, Len(@))]))
ElseParent(d, o, exact) ==
  IF exact.ok \/ o.op = "replace" \/ o.path = <<>> THEN exact ELSE Search(d, Front(o.path))
ApplyCreated(d, o) ==
  IF (o.op = "remove" /\ o.path = <<>>) \/ o.op \notin {"add", "create", "replace", "remove"}
  THEN [d EXCEPT !.failed = TRUE]
  ELSE ApplyFound(d, o, IF o.op = "remove" THEN Search(d, Front(o.path)) ELSE ElseParent(d, o, Search(d, o.path)))
ApplyDeltaOp(d, op) == ApplyCreated(d, Created(d, op))

RECURSIVE ApplyDelta(_, _)
ApplyDelta(d, ops) ==
  IF ops = <<>> \/ d.failed THEN d ELSE ApplyDelta(ApplyDeltaOp(d, Head(ops)), Tail(ops))

\* serialize writes the table as differences to the snapshot.
RECURSIVE DiffPatches(_, _, _)
DiffPatches(offs, d, acc) ==
  IF offs = <<>> THEN acc
  ELSE DiffPatches(Tail(offs), d,
         DiffImpl(SnapshotReader(d.snapshot), Head(offs), PatchReader(d), Head(offs), Head(offs) # 1,
                  Len(d.snapshot), acc).d)
SerializePatch(d) ==
  DiffPatches(NameOrder(DOMAIN d.patches), d,
              [st |-> Put(NewBuffer, [t |-> "header"]), patches |-> <<>>])

\* PatchObjectBinary: the document read back, or the error.
PatchObjectBinary(snapshot, ops) ==
  LET d == ApplyDelta(NewDeltaPatch(snapshot), ops)
  IN  IF d.failed THEN Bad
      ELSE ReadValue(DeltaReader(snapshot, SerializePatch(d)), 1)
-----------------------------------------------------------------------------
(***************************************************************************)
(* The documents a difference is taken of, and the operations a patch has. *)
(***************************************************************************)
CONSTANTS
  DeltaDocs,  \* documents a difference is taken of, and to
  PatchDocs,  \* documents that are patched
  PatchOps,   \* operations
  MaxOps      \* bound on the operations of a patch

VARIABLES
  document,   \* the document a snapshot holds
  target,     \* what it is to become, as a sequence of at most one
  operations  \* the operations applied to it

deltaVars == <<document, target, operations>>

DeltaInit == document \in DeltaDocs \cup PatchDocs /\ target = <<>> /\ operations = <<>>

TakeDiff(b) ==
  /\ document \in DeltaDocs /\ target = <<>> /\ operations = <<>>
  /\ target' = <<b>> /\ UNCHANGED <<document, operations>>

TakeOp(op) ==
  /\ document \in PatchDocs /\ target = <<>> /\ Len(operations) < MaxOps
  /\ operations' = Append(operations, op) /\ UNCHANGED <<document, target>>

DeltaNext == (\E b \in DeltaDocs : TakeDiff(b)) \/ (\E op \in PatchOps : TakeOp(op))
DeltaSpec == DeltaInit /\ [][DeltaNext]_deltaVars

Binary(v) == Serialize(v, 0, NewBuffer).st.buf

\* A snapshot reads back as the document that was written; a snapshot and its
\* difference to another document read back as that one, although unchanged
\* parts, shared strings and embedded scalars stay where the snapshot has
\* them; and there is no difference only between equal documents.
DiffRoundTrips ==
  /\ ReadValue(SnapshotReader(Binary(document)), 1) = document
  /\ target # <<>> =>
       LET a == SnapshotReader(Binary(document))
           d == Diff(a, SnapshotReader(Binary(target[1])))
       IN  /\ ReadValue(DeltaReader(a.content, d), 1) = target[1]
           /\ d.patches = <<>> <=> document = target[1]

\* Patching the binary form, with its table of moved parts, gives what patching
\* the value gives, for every sequence of operations on objects whose strings
\* are all different (a shared string is changed everywhere).
PatchesAgree ==
  operations # <<>> =>
    LET v == ApplyPatch(document, operations)
    IN  v.t \in {"obj", "err"} => PatchObjectBinary(Binary(document), operations) = v

DeltaSafety == DiffRoundTrips /\ PatchesAgree
=============================================================================
