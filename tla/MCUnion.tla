------------------------------- MODULE MCUnion -------------------------------
(* Unions of objects: strings and numbers as keys, objects of either kind as  *)
(* operands.                                                                  *)
EXTENDS JsonTables

OneString(x) == [t |-> "str", v |-> x]
UnionKeys == {OneString(1), [t |-> "num", v |-> 1]}
UnionValues == {OneString(7)}
UnionSizes == <<0, 1>>
=============================================================================
