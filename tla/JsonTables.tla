----------------------------- MODULE JsonTables -----------------------------
(***************************************************************************)
(* The hash tables of pkg/json that policies build (Object2 and Set), the  *)
(* union of objects behind object.union, and equality across the two kinds *)
(* of object.  A small table is an array searched from the front; a full   *)
(* one is copied into the next size, and past the last size into a map of  *)
(* hash chains.  The hash is any function that gives equal keys equal      *)
(* numbers; with few Buckets different keys collide.                       *)
(*                                                                         *)
(* A value is a record with its type t: "str" and "num" have v, an Object  *)
(* "obj" has p (names to values), an Object2 "obj2" has a table.           *)
(***************************************************************************)
EXTENDS Naturals, Sequences, FiniteSets, SequencesExt

CONSTANTS
  Buckets,    \* number of hash values
  Sizes,      \* the capacities of the compact tables, ascending
  TableKeys,  \* keys a policy uses
  PlainValues,\* values a policy computes
  InputNames, \* names of the objects that come as input or data
  MaxEntries  \* bound on the entries of both operands

VARIABLES
  operands,   \* the two operands of object.union
  pairs       \* the pairs put into each (history)

tableVars == <<operands, pairs>>
Sides == {"left", "right"}

IsObject(v) == v.t \in {"obj", "obj2"}
StringKey(name) == [t |-> "str", v |-> name]

\* xxhash of what hashImpl writes, cut down to Buckets values: the type first
\* for a scalar; the entries' hashes added up for an object, the same for both
\* kinds, and for a set.
RECURSIVE Hash(_)
ObjectHashEntry(m, k, v) == m + Hash(k) + 2 * Hash(v)
Hash(x) ==
  (CASE x.t = "num" -> 2 + x.v
     [] x.t = "str" -> 3 + x.v
     [] x.t = "obj" -> 5 + FoldLeft(LAMBDA m, n : ObjectHashEntry(m, StringKey(n), x.p[n]), 0, SetToSeq(DOMAIN x.p))
     [] x.t = "obj2" -> 5 + FoldLeft(LAMBDA m, e : ObjectHashEntry(m, e.k, e.v), 0, x.table.entries)
     [] x.t = "set" -> 6 + FoldLeft(LAMBDA m, e : m + Hash(e.k), 0, x.table.entries)) % Buckets

Entry(k, v) == [hash |-> Hash(k), k |-> k, v |-> v]
IsLarge(tab) == tab.cap > Sizes[Len(Sizes)]

\* NewObject2 and NewSet: the first compact size that fits, or a map.
NewTable(n) ==
  LET fit == SelectInSeq(Sizes, LAMBDA c : n <= c)
  IN  [cap |-> IF fit = 0 THEN Sizes[Len(Sizes)] + 1 ELSE Sizes[fit], entries |-> <<>>]

RECURSIVE EqualOp(_, _)

\* The entry a search meets first, or 0: compact tables are searched from the
\* front, chains of a map from their newest entry.
Hit(e, k) == e.hash = Hash(k) /\ EqualOp(e.k, k)
LookupCompact(tab, k) == SelectInSeq(tab.entries, LAMBDA e : Hit(e, k))
LookupLarge(tab, k) == SelectLastInSeq(tab.entries, LAMBDA e : Hit(e, k))
Lookup(tab, k) == IF IsLarge(tab) THEN LookupLarge(tab, k) ELSE LookupCompact(tab, k)

TableLen(tab) == Len(tab.entries)

\* Equality of tables, and of an Object with an Object2.
EqualTables(o, other) ==
  /\ TableLen(o) = TableLen(other)
  /\ \A i \in DOMAIN o.entries :
       \E at \in {Lookup(other, o.entries[i].k)} \ {0} : EqualOp(o.entries[i].v, other.entries[at].v)

EqualMixed(o, tab) ==
  /\ Cardinality(DOMAIN o.p) = TableLen(tab)
  /\ \A i \in DOMAIN tab.entries :
       LET e == tab.entries[i]
       IN  e.k.t = "str" /\ e.k.v \in DOMAIN o.p /\ EqualOp(o.p[e.k.v], e.v)

\* equalOp, for scalars, objects of either kind and sets.
EqualOp(a, b) ==
  CASE a.t = "set" \/ b.t = "set" -> a.t = b.t /\ EqualTables(a.table, b.table)
    [] a.t # "set" /\ ~IsObject(a) -> a = b
    [] IsObject(a) /\ ~IsObject(b) /\ b.t # "set" -> FALSE
    [] a.t = "obj" /\ b.t = "obj" ->
         DOMAIN a.p = DOMAIN b.p /\ \A n \in DOMAIN a.p : EqualOp(a.p[n], b.p[n])
    [] a.t = "obj" /\ b.t = "obj2" -> EqualMixed(a, b.table)
    [] a.t = "obj2" /\ b.t = "obj" -> EqualMixed(b, a.table)
    [] a.t = "obj2" /\ b.t = "obj2" -> EqualTables(a.table, b.table)

\* add puts an entry in without looking for its key.
RECURSIVE AddEntry(_, _)
AddEntry(tab, e) ==
  IF ~IsLarge(tab) /\ Len(tab.entries) = tab.cap
  THEN AddEntry(FoldLeft(AddEntry, NewTable(tab.cap + 1), tab.entries), e)
  ELSE [tab EXCEPT !.entries = Append(@, e)]

\* A full compact table moves to the next size, whether or not the key is
\* already there.
Grown(tab) ==
  IF ~IsLarge(tab) /\ Len(tab.entries) = tab.cap
  THEN FoldLeft(AddEntry, NewTable(tab.cap + 1), tab.entries)
  ELSE tab

\* An entry found at a place, or at none (0), gets the value.
PutAt(tab, at, k, v) ==
  [tab EXCEPT !.entries = IF at # 0 THEN [@ EXCEPT ![at].v = v] ELSE Append(@, Entry(k, v))]

\* Faulty variant: the entry that made the table grow is added unseen.
InsertIntoGrown(tab, k, v) ==
  IF ~IsLarge(tab) /\ Len(tab.entries) = tab.cap THEN AddEntry(tab, Entry(k, v))
  ELSE PutAt(tab, Lookup(tab, k), k, v)

\* Insert (and insert, with the hash computed before).
InsertLarge(tab, k, v) == PutAt(tab, LookupLarge(tab, k), k, v)
InsertCompact(tab, k, v) == PutAt(tab, LookupCompact(tab, k), k, v)
InsertEither(tab, k, v) == IF IsLarge(tab) THEN InsertLarge(tab, k, v) ELSE InsertCompact(tab, k, v)
InsertInto(tab, k, v) == InsertEither(Grown(tab), k, v)

\* Set.Add: a compact set keeps the element it has, a large one takes the new.
AddLarge(tab, k) == InsertLarge(tab, k, k)
AddCompact(tab, k) ==
  IF LookupCompact(tab, k) # 0 THEN tab ELSE [tab EXCEPT !.entries = Append(@, Entry(k, k))]
AddEither(tab, k) == IF IsLarge(tab) THEN AddLarge(tab, k) ELSE AddCompact(tab, k)
AddElement(tab, k) == AddEither(Grown(tab), k)
MergeWith(tab, other) == FoldLeft(LAMBDA acc, e : AddElement(acc, e.k), tab, other.entries)

\* The built-in a | b: a new set that both are merged into.
SetUnion(a, b) ==
  MergeWith(MergeWith(NewTable(Max({TableLen(a), TableLen(b)})), a), b)

\* Diff: the entries of o whose keys other does not have.
Diff2(o, other) ==
  FoldLeft(AddEntry, NewTable(Max({TableLen(o), TableLen(other)})),
           SelectSeq(o.entries, LAMBDA e : Lookup(other, e.k) = 0))

----------------------------------------------------------------------------
RECURSIVE UnionObjects(_, _)

\* objectCompact.Union and objectLarge.Union; the other table has the key of
\* the entry at a place, or at none.
UnionEntry(acc, e, other, at) ==
  IF at = 0 THEN AddEntry(acc, e) ELSE InsertInto(acc, e.k, UnionObjects(e.v, other.entries[at].v))
UnionTables(o, other) ==
  FoldLeft(LAMBDA acc, e :
             UnionEntry(acc, e, other, Lookup(other, e.k)),
           Diff2(other, o), o.entries)

\* objectMapBase.Union of an Object with an Object or an Object2: what only
\* the other has, then the names of the Object.
EntriesOf(o) ==
  IF o.t = "obj" THEN [i \in 1 .. Cardinality(DOMAIN o.p) |->
                         LET n == SetToSeq(DOMAIN o.p)[i] IN Entry(StringKey(n), o.p[n])]
  ELSE o.table.entries
UnionName(acc, n, v, same) ==
  InsertInto(acc, StringKey(n), IF same = {} THEN v ELSE UnionObjects(v, (CHOOSE e \in same : TRUE).v))
UnionNames(o, theirs) ==
  LET foreign == SelectSeq(theirs, LAMBDA e : e.k.t # "str" \/ e.k.v \notin DOMAIN o.p)
      start == FoldLeft(LAMBDA acc, e : InsertInto(acc, e.k, e.v), NewTable(Cardinality(DOMAIN o.p)), foreign)
  IN  FoldLeft(LAMBDA acc, n : UnionName(acc, n, o.p[n], {e \in ToSet(theirs) : e.k = StringKey(n)}),
               start, SetToSeq(DOMAIN o.p))
UnionWithObject(o, other) == [t |-> "obj2", table |-> UnionNames(o, EntriesOf(other))]

\* UnionObjects chooses the Union of its first Object, wherever it stands.
UnionObjects(a, b) ==
  CASE ~IsObject(a) \/ ~IsObject(b) -> b
    [] a.t = "obj" -> UnionWithObject(a, b)
    [] a.t = "obj2" /\ b.t = "obj" -> UnionWithObject(b, a)
    [] a.t = "obj2" /\ b.t = "obj2" -> [t |-> "obj2", table |-> UnionTables(a.table, b.table)]

----------------------------------------------------------------------------
(***************************************************************************)
(* The reference: an object is a set of key-value pairs, and the union of  *)
(* two resolves a conflict by the right-hand one.                          *)
(***************************************************************************)
RECURSIVE Meaning(_)
Meaning(v) ==
  CASE v.t = "obj" -> [t |-> "o", m |-> {<<StringKey(n), Meaning(v.p[n])>> : n \in DOMAIN v.p}]
    [] v.t \in {"obj2", "set"} ->
         [t |-> IF v.t = "set" THEN "s" ELSE "o",
          m |-> {<<Meaning(v.table.entries[i].k), Meaning(v.table.entries[i].v)>> : i \in DOMAIN v.table.entries}]
    [] OTHER -> v

RECURSIVE UnionOf(_, _)
UnionOf(a, b) ==
  IF a.t # "o" \/ b.t # "o" THEN b
  ELSE LET of(x, k) == (CHOOSE kv \in x.m : kv[1] = k)[2]
           ka == {kv[1] : kv \in a.m}
           kb == {kv[1] : kv \in b.m}
       IN  [t |-> "o",
            m |-> {<<k, IF k \notin kb THEN of(a, k)
                        ELSE IF k \notin ka THEN of(b, k)
                        ELSE UnionOf(of(a, k), of(b, k))>> : k \in ka \cup kb}]

\* A table with exactly these pairs, each of which a search finds.
Holds(tab, m) ==
  /\ TableLen(tab) = Cardinality(m)
  /\ \A i \in DOMAIN tab.entries :
       LET e == tab.entries[i] IN <<Meaning(e.k), Meaning(e.v)>> \in m /\ Lookup(tab, e.k) = i

----------------------------------------------------------------------------
(***************************************************************************)
(* The operands of a union: objects or sets that a policy builds element   *)
(* by element, or objects that came with the input or the data.            *)
(***************************************************************************)
InputObjects == {[t |-> "obj", p |-> p] : p \in UNION {[S -> PlainValues] : S \in SUBSET InputNames}}
TableValues == PlainValues \cup InputObjects

TablesInit ==
  /\ \E type \in {"obj2", "set"} : operands = [s \in Sides |-> [t |-> type, table |-> NewTable(0)]]
  /\ pairs = [s \in Sides |-> {}]

HasRoom(s, k) ==
  \/ Meaning(k) \in {kv[1] : kv \in pairs[s]}
  \/ Cardinality(pairs["left"]) + Cardinality(pairs["right"]) < MaxEntries

InsertEntry(s, k, v) ==
  /\ operands[s].t = "obj2"
  /\ HasRoom(s, k)
  /\ operands' = [operands EXCEPT ![s].table = InsertInto(@, k, v)]
  /\ pairs' = [pairs EXCEPT ![s] = {kv \in @ : kv[1] # Meaning(k)} \cup {<<Meaning(k), Meaning(v)>>}]

Add(s, k) ==
  /\ operands[s].t = "set"
  /\ HasRoom(s, k)
  /\ operands' = [operands EXCEPT ![s].table = AddElement(@, k)]
  /\ pairs' = [pairs EXCEPT ![s] = @ \cup {<<Meaning(k), Meaning(k)>>}]

FromInput(s, o) ==
  /\ operands[s].t = "obj2" /\ pairs[s] = {}
  /\ operands' = [operands EXCEPT ![s] = o]
  /\ pairs' = [pairs EXCEPT ![s] = Meaning(o).m]

TablesNext ==
  \E s \in Sides :
    \/ \E k \in TableKeys, v \in TableValues : InsertEntry(s, k, v)
    \/ \E k \in TableKeys : Add(s, k)
    \/ \E o \in InputObjects : FromInput(s, o)

TablesSpec == TablesInit /\ [][TablesNext]_tableVars

\* An object or a set that a policy built holds exactly what was put in,
\* through every growth of its table and every collision of hashes; it equals
\* another one, of either kind, when both have the same pairs; and the union
\* of two sets holds the elements of both.
TablesHoldWhatWasInserted ==
  /\ \A s \in Sides : operands[s].t # "obj" => Holds(operands[s].table, pairs[s])
  /\ EqualOp(operands["left"], operands["right"]) <=> pairs["left"] = pairs["right"]
  /\ operands["left"].t = "set" =>
       Holds(SetUnion(operands["left"].table, operands["right"].table), pairs["left"] \cup pairs["right"])

\* object.union resolves conflicts by the right-hand operand, at every depth.
UnionPrefersRight ==
  operands["left"].t # "set" =>
    LET u == UnionObjects(operands["left"], operands["right"])
    IN  Holds(u.table, UnionOf(Meaning(operands["left"]), Meaning(operands["right"])).m)
=============================================================================
