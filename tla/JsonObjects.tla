---------------------------- MODULE JsonObjects ----------------------------
(***************************************************************************)
(* The mutable objects of pkg/json: ObjectMap, ObjectMapCompact and        *)
(* ObjectMapCompactStrings.  Their keys live in Go slices that objects     *)
(* share: a decoder interns equal key slices, and clone hands its          *)
(* receiver's slice on.  Only ObjectMap appends to one, so what an object  *)
(* holds depends on which slices have room left behind their last key.     *)
(*                                                                         *)
(* Names are numbers (only their order matters); a value is a string or    *)
(* not.  A handle stands for a variable or a field that holds an object:   *)
(* Set and Remove return the object the caller goes on with.               *)
(***************************************************************************)
EXTENDS Naturals, Sequences, FiniteSets, SequencesExt

CONSTANTS
  Names,        \* property names, a set of positive numbers
  Contents,     \* what is decoded or built: functions from names to values
  StringValues, \* values that are a *String
  OtherValues,  \* any other value
  Handles,      \* places an object can be held in
  CompactLimit, \* the largest compact object (32 in the code)
  CloneGrown,   \* whether callers clone objects whose key slice has room
  MaxArrays     \* bound on the key arrays in use at a time

ASSUME ObjectsAssumption ==
  /\ Names \subseteq Nat \ {0} /\ MaxArrays \in Nat /\ CompactLimit \in Nat
  /\ CloneGrown \in BOOLEAN
  /\ \A c \in Contents : /\ IsFiniteSet(DOMAIN c) /\ DOMAIN c \subseteq Names
                         /\ c \in [DOMAIN c -> StringValues \cup OtherValues]

VARIABLES
  heap,      \* backing array -> its slots, 0 while never written
  interning, \* the decoder's table: key slices it has handed out
  objs,      \* handle -> the object, or Nil
  wanted       \* handle -> what the calls on it have made of it (history)

objectVars == <<heap, interning, objs, wanted>>

ObjectValues == StringValues \cup OtherValues
Nil == [kind |-> "nil", arr |-> 0, keysLen |-> 0, values |-> <<>>]
NoSlot == 0
Arrays == 1 .. MaxArrays

\* The keys of an object: the slice of its backing array.
KeysIn(h, o) == SubSeq(h[o.arr], 1, o.keysLen)
KeysOf(o) == KeysIn(heap, o)

(***************************************************************************)
(* find is sort.Search written out: the least index whose key is not below *)
(* the name, and whether it is the name.  On keys that are out of order it *)
(* takes the path the binary search takes.  The interval <<i, j>> shrinks  *)
(* in every round of the loop, so Len(keys) rounds are enough.             *)
(***************************************************************************)
Narrow(keys, name, b) ==
  LET h == (b[1] + b[2] - 2) \div 2 + 1
  IN  IF b[1] >= b[2] THEN b ELSE IF keys[h] < name THEN <<h + 1, b[2]>> ELSE <<b[1], h>>
SearchRounds(keys, name) ==
  LET bounds[k \in 0 .. Len(keys)] ==
        IF k = 0 THEN <<1, Len(keys) + 1>> ELSE Narrow(keys, name, bounds[k - 1])
  IN  bounds
SearchKey(keys, name) == SearchRounds(keys, name)[Len(keys)][1]
FindKey(keys, name) ==
  LET at == SearchKey(keys, name)
  IN  [index |-> at, found |-> at <= Len(keys) /\ keys[at] = name]

\* The names in order: sort.Strings of the keys of a Go map.
SortedKeys(S) ==
  CHOOSE s \in [1 .. Cardinality(S) -> S] : \A i, j \in 1 .. Cardinality(S) : i < j => s[i] < s[j]

\* A backing array nothing refers to: the allocator's choice.
Live(os, table) ==
  {os[h].arr : h \in {g \in Handles : os[g].kind # "nil"}} \cup {table[k] : k \in DOMAIN table}
CanAllocate == Live(objs, interning) # Arrays
Fresh == CHOOSE a \in Arrays : a \notin Live(objs, interning)

\* Slots of arrays nothing refers to any more are forgotten.
Collected(h, os, table) ==
  [a \in Arrays |-> IF a \in Live(os, table) THEN h[a] ELSE <<>>]

\* One step of the mutator: the heap, a handle's object and its history.
Becomes(h, handle, o, contents) ==
  /\ objs' = [objs EXCEPT ![handle] = o]
  /\ wanted' = [wanted EXCEPT ![handle] = contents]
  /\ heap' = Collected(h, objs', interning)

----------------------------------------------------------------------------
\* Faulty variant: the interned copy is made by appending key after key, so
\* it keeps the room append leaves.
InternedWithRoom(sorted) == sorted \o [i \in 1 .. Len(sorted) |-> NoSlot]

\* newObjectMapCompact sorts the keys into a slice made with their number:
\* no room is left behind the last one.
Interned(sorted) == sorted

\* The kind a decoded object gets: strings only, small, or a map.
KindOf(contents) ==
  LET n == Cardinality(DOMAIN contents)
  IN  IF n > CompactLimit THEN "map"
      ELSE IF n > 0 /\ \A k \in DOMAIN contents : contents[k] \in StringValues THEN "strings"
      ELSE "compact"

\* The decoder makes an object; equal keys are taken from its table.
NewObjectMapCompact(h, contents) ==
  LET sorted == SortedKeys(DOMAIN contents)
      known == sorted \in DOMAIN interning
      arr == IF known THEN interning[sorted] ELSE Fresh
      o == [kind |-> KindOf(contents), arr |-> arr, keysLen |-> Len(sorted),
            values |-> [i \in 1 .. Len(sorted) |-> contents[sorted[i]]]]
  IN  /\ objs[h].kind = "nil" /\ CanAllocate
      /\ objs' = [objs EXCEPT ![h] = o]
      /\ wanted' = [wanted EXCEPT ![h] = contents]
      /\ interning' = [k \in DOMAIN interning \cup {sorted} |->
                         IF k = sorted THEN arr ELSE interning[k]]
      /\ heap' = IF known THEN heap ELSE [heap EXCEPT ![arr] = Interned(sorted)]

\* NewObject, without a table.
NewObject(h, contents) ==
  LET sorted == SortedKeys(DOMAIN contents)
  IN  /\ objs[h].kind = "nil" /\ CanAllocate
      /\ Becomes([heap EXCEPT ![Fresh] = sorted], h,
                 [kind |-> "map", arr |-> Fresh, keysLen |-> Len(sorted),
                  values |-> [i \in 1 .. Len(sorted) |-> contents[sorted[i]]]],
                 contents)
      /\ UNCHANGED interning

\* The decoder is done: its table goes.
DecoderDone ==
  /\ interning # <<>>
  /\ interning' = <<>>
  /\ heap' = Collected(heap, objs, <<>>)
  /\ UNCHANGED <<objs, wanted>>

----------------------------------------------------------------------------
\* clone of any kind gives an ObjectMap over the same key slice.
CloneOf(o) == [o EXCEPT !.kind = "map"]

\* append followed by the move of the tail: in place when the array has
\* room, in a new array of twice the size otherwise.
InsertKey(h, o, at, name) ==
  LET grown == InsertAt(KeysIn(h, o), at, name)
      room  == Len(h[o.arr]) > o.keysLen
      size  == IF o.keysLen = 0 THEN 1 ELSE 2 * o.keysLen
      arr   == IF room THEN o.arr ELSE Fresh
      cap   == IF room THEN Len(h[o.arr]) ELSE size
  IN  [arr |-> arr,
       heap |-> [h EXCEPT ![arr] = [i \in 1 .. cap |->
                   IF i <= Len(grown) THEN grown[i]
                   ELSE IF room THEN h[o.arr][i] ELSE NoSlot]]]

\* setImpl of an ObjectMap: the heap and the object after it.
SetMap(h, o, name, value) ==
  LET f == FindKey(KeysIn(h, o), name)
      ins == InsertKey(h, o, f.index, name)
  IN  IF f.found
      THEN [heap |-> h, obj |-> [o EXCEPT !.values[f.index] = value]]
      ELSE [heap |-> ins.heap,
            obj |-> [o EXCEPT !.arr = ins.arr, !.keysLen = @ + 1,
                              !.values = InsertAt(@, f.index, value)]]

\* Set of a compact object: in place when the name is there (and the value
\* is a string if all are), on a clone otherwise.
SetImpl(o, name, value) ==
  LET f == FindKey(KeysOf(o), name)
  IN  IF o.kind # "map" /\ f.found /\ (o.kind = "strings" => value \in StringValues)
      THEN [heap |-> heap, obj |-> [o EXCEPT !.values[f.index] = value]]
      ELSE SetMap(heap, CloneOf(o), name, value)

\* Set puts a property in.
Set(h, name, value) ==
  LET r == SetImpl(objs[h], name, value)
  IN  /\ objs[h].kind # "nil" /\ CanAllocate
      /\ Becomes(r.heap, h, r.obj,
                 [k \in DOMAIN wanted[h] \cup {name} |-> IF k = name THEN value ELSE wanted[h][k]])
      /\ UNCHANGED interning

\* Faulty variant: an object of strings takes any value.
SetIdxKeepsKind(h, i, value) ==
  LET o == objs[h]
  IN  /\ o.kind # "nil" /\ i <= Len(o.values)
      /\ Becomes(heap, h, [o EXCEPT !.values[i] = value], [wanted[h] EXCEPT ![KeysOf(o)[i]] = value])
      /\ UNCHANGED interning

\* SetIdx replaces the value at an index; the index is what the caller found.
SetIdx(h, i, value) ==
  LET o == objs[h]
      kind == IF o.kind = "strings" /\ value \notin StringValues THEN "map" ELSE o.kind
  IN  /\ o.kind # "nil" /\ i <= Len(o.values)
      /\ Becomes(heap, h, [o EXCEPT !.kind = kind, !.values[i] = value],
                 IF KeysOf(o)[i] \in DOMAIN wanted[h] THEN [wanted[h] EXCEPT ![KeysOf(o)[i]] = value]
                 ELSE wanted[h])
      /\ UNCHANGED interning

\* RemoveIdx copies keys and values without the one; Remove of a name that
\* is not there gives the object itself, a clone if it is compact.
DeleteName(h, name) ==
  LET o == objs[h]
      f == FindKey(KeysOf(o), name)
  IN  /\ o.kind # "nil" /\ CanAllocate
      /\ IF f.found
         THEN Becomes([heap EXCEPT ![Fresh] = RemoveAt(KeysOf(o), f.index)], h,
                      [kind |-> "map", arr |-> Fresh, keysLen |-> o.keysLen - 1,
                       values |-> RemoveAt(o.values, f.index)],
                      [k \in DOMAIN wanted[h] \ {name} |-> wanted[h][k]])
         ELSE Becomes(heap, h, CloneOf(o), [k \in DOMAIN wanted[h] \ {name} |-> wanted[h][k]])
      /\ UNCHANGED interning

\* Clone, of an object whose values need no copy.  An ObjectMap that has
\* grown may have room behind its keys, and its clone has the same room.
Clone(h, g) ==
  /\ objs[h].kind # "nil" /\ objs[g].kind = "nil"
  /\ CloneGrown \/ Len(heap[objs[h].arr]) = objs[h].keysLen
  /\ Becomes(heap, g, CloneOf(objs[h]), wanted[h])
  /\ UNCHANGED interning

----------------------------------------------------------------------------
ObjectsInit ==
  /\ heap = [a \in Arrays |-> <<>>]
  /\ interning = <<>>
  /\ objs = [h \in Handles |-> Nil]
  /\ wanted = [h \in Handles |-> <<>>]

ObjectsNext ==
  \/ \E h \in Handles, c \in Contents : NewObjectMapCompact(h, c) \/ NewObject(h, c)
  \/ DecoderDone
  \/ \E h \in Handles, name \in Names, v \in ObjectValues : Set(h, name, v)
  \/ \E h \in Handles, i \in 1 .. Cardinality(Names), v \in ObjectValues : SetIdx(h, i, v)
  \/ \E h \in Handles, name \in Names : DeleteName(h, name)
  \/ \E h, g \in Handles : Clone(h, g)

ObjectsSpec == ObjectsInit /\ [][ObjectsNext]_objectVars

----------------------------------------------------------------------------
ObjectsTypeOK ==
  /\ heap \in [Arrays -> Seq(Names \cup {NoSlot})]
  /\ \A k \in DOMAIN interning : interning[k] \in Arrays
  /\ \A h \in Handles :
       /\ objs[h].kind \in {"nil", "map", "compact", "strings"}
       /\ objs[h].kind = "strings" => \A i \in DOMAIN objs[h].values : objs[h].values[i] \in StringValues
       /\ objs[h].kind # "nil" => objs[h].keysLen = Len(objs[h].values)

\* An object holds what the calls on it have put there and nothing else: a
\* lookup (valueImpl) finds every name, and iteration (Names with iterate)
\* meets every name once, in order.  Calls on objects that share its keys,
\* through the decoder's table or through a clone, leave it alone.  With
\* CloneGrown it does not hold: Set on the clone of an object whose slice has
\* room writes into the keys of the original (object.go:218).
ObjectsHoldWhatWasSet ==
  \A h \in Handles : objs[h].kind # "nil" =>
    LET o == objs[h]
        keys == KeysOf(o)
    IN  /\ ToSet(keys) = DOMAIN wanted[h] /\ Len(keys) = Cardinality(DOMAIN wanted[h])
        /\ \A i \in DOMAIN keys : o.values[i] = wanted[h][keys[i]]
        /\ \A name \in DOMAIN wanted[h] : FindKey(keys, name).found
=============================================================================
