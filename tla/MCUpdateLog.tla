---------------------------- MODULE MCUpdateLog ----------------------------
EXTENDS UpdateLog

\* The values written: two scalars and an object.
MCInputs ==
    {[kind |-> "scalar", at |-> -1], [kind |-> "obj", at |-> [x |-> -2]]}

\* {"a": [-1, -1], "o": {"x": -1}}
FlatArrayHeap ==
    <<[kind |-> "obj", at |-> [a |-> 2, o |-> 3]],
      [kind |-> "arr", at |-> ("0" :> -1 @@ "1" :> -1)],
      [kind |-> "obj", at |-> [x |-> -1]]>>

\* No path leads through an array element.
FlatArrayPaths ==
    {<<>>, <<"a">>, <<"a", "-">>, <<"a", "0">>, <<"o">>, <<"o", "x">>,
     <<"o", "y">>, <<"o", "x", "x">>}

\* {"a": [{"x": -1}, {"x": -1}]}
NestedHeap ==
    <<[kind |-> "obj", at |-> [a |-> 2]],
      [kind |-> "arr", at |-> ("0" :> 3 @@ "1" :> 4)],
      [kind |-> "obj", at |-> [x |-> -1]],
      [kind |-> "obj", at |-> [x |-> -1]]>>

NestedPaths ==
    {<<"a">>, <<"a", "-">>, <<"a", "0">>, <<"a", "0", "x">>, <<"a", "1", "x">>}
=============================================================================
