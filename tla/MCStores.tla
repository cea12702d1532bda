------------------------------- MODULE MCStores -------------------------------
(* Instances of the components that hold policies, data and values: the       *)
(* update log of the in-memory store, the virtual store, the gRPC server,     *)
(* bundle activation, the objects, tables and deltas of pkg/json, the VM that *)
(* evaluates policies over them, the built-in functions that ask services,    *)
(* the SQL store, edit trees, the preview API and the key manager.  They      *)
(* share no state in these models, so a behaviour runs one of them, chosen at *)
(* the start.                                                                 *)
EXTENDS VirtualStore, GrpcServer, BundleActivator, JsonObjects, JsonTables, JsonDelta, RegoVM,
        BuiltinCaches, SQLTables, EditTree, Preview, KeyManager, MCUpdateLog

VARIABLE part \* the component that runs

\* The variables of the SQL store, edit trees, previews, the key manager and
\* the update log.
laterVars == <<sqlVars, editVars, previewVars, ekmVars, logVars>>
storesVars == <<part, virtualVars, gvars, bvars, objectVars, tableVars, deltaVars, vmVars,
                callVars, laterVars>>
-----------------------------------------------------------------------------
(* Virtual store: one SQL store, mounted at one or two places. *)
CONSTANT sql
MountAt(path, complete) == [path |-> path, complete |-> complete, store |-> sql]
AllStoreMounts == { <<MountAt(<<"a", "b">>, 3), MountAt(<<"a">>, 3), MountAt(<<"c", "d">>, 4)>> }
AllStorePaths == {<< >>, <<"a">>, <<"a", "b">>, <<"a", "x">>, <<"a", "b", "x">>, <<"c">>,
               <<"c", "x">>, <<"c", "d", "x">>, <<"c", "d", "x", "y">>, <<"x">>}

(* gRPC server: a bundle owns "own". *)
Text(kind, package, rule, needs) == [kind |-> kind, package |-> package, rule |-> rule, needs |-> needs]
AllCallTexts == [t1  |-> Text("module", <<"app">>, <<"app", "x">>, {}),
              t2  |-> Text("module", <<"app">>, <<"app", "y">>, {<<"app", "x">>}),
              own |-> Text("module", <<"own", "sub">>, <<"own", "sub", "z">>, {}),
              bad |-> Text("unparsable", <<>>, <<>>, {})]
CallBundles == [b |-> {<<"own">>}]
CallPaths == {<<"own", "sub">>, <<"app", "x">>}
Pol(op, id, text) == [op |-> op, id |-> id, text |-> text]
Dat(op, path, val, patch) == [op |-> op, path |-> path, val |-> val, patch |-> patch]
Qry(path) == [what |-> "data", path |-> path]
QryPolicy == [what |-> "policy", path |-> <<>>]
Req(api, policies, data, reads) == [api |-> api, policies |-> policies, data |-> data, reads |-> reads]
AllCallRequests == {
    Req("unary", <<>>, <<>>, <<Qry("k1")>>),
    Req("unary", <<Pol("delete", "i", "")>>, <<>>, <<>>),
    Req("bulk", <<Pol("create", "i", "t1")>>, <<Dat("create", <<"app", "x">>, "v", "")>>, <<Qry("k2"), QryPolicy>>),
    Req("bulk", <<Pol("create", "j", "t2"), Pol("update", "i", "bad")>>, <<>>, <<>>),
    Req("stream", <<>>, <<Dat("create", <<"app", "x">>, "v", ""), Dat("update", <<"app", "x">>, "w", "remove"),
                          Dat("empty", <<"app", "x">>, "v", "")>>, <<>>),
    Req("stream", <<>>, <<Dat("create", <<"app", "x">>, "v", ""), Dat("update", <<"app", "x">>, "w", "unspecified"),
                          Dat("delete", <<"own", "sub">>, "v", "")>>, <<>>),
    Req("stream", <<Pol("update", "j", "t2"), Pol("update", "j", "own")>>, <<>>, <<>>) }

(* Bundles: snapshots that exchange roots, and deltas. *)
Module(id, package, rule, needs) == [id |-> id, package |-> package, rule |-> rule, needs |-> needs]
File(dir, lvs) == [dir |-> dir, leaves |-> lvs]
Snapshot(roots, raw, files, mods, etag) ==
    [type |-> "snapshot", roots |-> roots, raw |-> raw, files |-> files, modules |-> mods,
     patches |-> <<>>, wasm |-> 0, etag |-> etag]
Delta(roots, patches, etag) ==
    [type |-> "delta", roots |-> roots, raw |-> FALSE, files |-> {}, modules |-> {},
     patches |-> patches, wasm |-> 0, etag |-> etag]
Patch(op, path, val) == [op |-> op, path |-> path, val |-> val]
Snapshots == {
    Snapshot({<<"a">>}, TRUE, {File(<<>>, {<<<<"a", "x">>, 1>>})}, {Module("p1", <<"a">>, <<"a", "r">>, {})}, 1),
    Snapshot({<<"a", "x">>, <<"ab">>}, FALSE,
             {File(<<"a">>, {<<<<"x">>, 2>>, <<<<"y">>, 3>>}), File(<<"ab">>, {<<<<>>, 4>>})},
             {Module("p2", <<"ab", "s">>, <<"ab", "s", "r">>, {<<"a", "r">>})}, 2),
    Snapshot({<<"ab">>}, TRUE, {File(<<"ab">>, {<<<<"k">>, 5>>})}, {}, 3),
    Snapshot({<<"a", "y">>}, TRUE, {File(<<"a">>, {<<<<"y">>, 6>>})},
             {Module("p3", <<"a", "y">>, <<"a", "y", "q">>, {})}, 4),
    Snapshot({<<"ab">>}, TRUE, {File(<<>>, {<<<<"a">>, 7>>})}, {}, 5),
    Snapshot({<<>>}, FALSE, {File(<<>>, {<<<<"c">>, 8>>})}, {}, 6) }
Deltas == {
    Delta({<<"a">>}, <<Patch("upsert", <<"a", "z", "w">>, 1), Patch("remove", <<"a", "x">>, 0)>>, 7),
    Delta({<<"ab">>}, <<Patch("replace", <<"ab", "k">>, 9), Patch("copy", <<"ab">>, 9)>>, 8),
    Delta({<<"ab">>}, <<Patch("replace", <<"ab", "k">>, 9)>>, 8) }
AllDownloads == {[n \in {m} |-> b] : m \in {"n1", "n2"}, b \in Snapshots \cup Deltas}
             \cup {[n1 |-> b, n2 |-> c] : b \in Snapshots, c \in Snapshots \cup Deltas}
PrefixNames == {<<"a", "ab">>}
WrittenLeaves == {<<<<"a", "x">>, 0>>, <<<<"c">>, 0>>, <<<<"ab">>, 0>>}
WrittenModules == {Module("u1", <<"c">>, <<"c", "r">>, {}), Module("u2", <<"a">>, <<"a", "r">>, {})}

(* Tables: a string, a number of the same hash, an object of either kind. *)
StrOf(x) == [t |-> "str", v |-> x]
NumOf(x) == [t |-> "num", v |-> x]
ObjOf(p) == [t |-> "obj", p |-> p]
ArrOf(s) == [t |-> "arr", e |-> s]
NilOf == [t |-> "nil"]
AllPolicyKeys == {StrOf(1), NumOf(1), ObjOf(1 :> StrOf(7)),
               [t |-> "obj2", table |-> InsertInto(NewTable(0), StrOf(1), StrOf(7))]}
AllPolicyValues == {StrOf(7)}
TableSizes == <<0, 1>>

(* Objects: names with gaps, all with the same value; Set brings the others. *)
DecodedObjects == {[k \in S |-> v] : S \in {{}, {2}, {1, 3}, {1, 2, 4}}, v \in ObjectValues}

(* Deltas: two names, shared strings, embedded scalars, nested containers. *)
DiffLeaves == {NilOf, StrOf(1), StrOf(3), NumOf(3)}
DiffParts == DiffLeaves
    \cup {ArrOf(<<>>), ArrOf(<<NilOf, StrOf(1)>>), ArrOf(<<StrOf(1), NilOf>>)}
    \cup {ObjOf(<<>>), ObjOf(1 :> StrOf(1)),
          ObjOf(1 :> ArrOf(<<StrOf(1), ObjOf(2 :> StrOf(1))>>))}
AllDiffDocs == {ObjOf(f) : f \in UNION {[S -> DiffParts] : S \in SUBSET {1, 2}}}
            \cup {StrOf(1), NilOf, ArrOf(<<StrOf(1)>>)}
AllPatchedDocs == {ObjOf((1 :> ObjOf((1 :> StrOf(11)) @@ (2 :> StrOf(12)))) @@ (2 :> StrOf(13))),
                ObjOf(1 :> StrOf(14)), ObjOf(1 :> ObjOf(2 :> StrOf(11)))}
AllOpsOnDocs == {o \in [op : {"add", "create", "replace", "remove"},
                     path : UNION {[1 .. n -> {1, 2}] : n \in 0 .. 3},
                     value : {StrOf(3), ObjOf(1 :> StrOf(6))}, from : {<<>>}] :
                o.op \in {"create", "remove"} => o.path # <<>>}

(* The VM: policies put together of two pieces each, over registers that are  *)
(* spread over three lists, with a function that depends on the input.        *)
Loc(n) == [t |-> "local", v |-> n]
Lit(n) == [t |-> "string", v |-> n]
Flag(n) == [t |-> "bool", v |-> n]
CallRule(arg, result) == [op |-> "call", func |-> 2, args |-> <<Loc(0), Loc(1), arg>>, result |-> result]
WithInput(path, v, body) == [op |-> "with", local |-> 0, path |-> path, value |-> v, block |-> body]
DotTo(src, key, to) == [op |-> "dot", source |-> Loc(src), key |-> key, target |-> to]
AddResult(n) == [op |-> "resultSetAdd", local |-> n]
BreakOut(n) == [op |-> "break", index |-> n]
OfBlocks(bs) == [op |-> "block", blocks |-> bs]
RuleBody ==
    << <<DotTo(0, Lit(0), 3), [op |-> "assignVarOnce", source |-> Loc(3), target |-> 5]>>,
       <<[op |-> "isUndefined", source |-> 5], [op |-> "equal", a |-> Loc(2), b |-> Lit(1)],
         [op |-> "assignVarOnce", source |-> Flag(1), target |-> 5]>>,
       <<[op |-> "returnLocal", local |-> 5]>> >>
\* A dynamic call as the planner emits it, with a default when it is undefined.
DynamicCall(name) ==
    LET dynamic == [op |-> "callDynamic", args |-> <<0, 1>>, path |-> <<Lit(0), name>>, result |-> 4]
        inner == OfBlocks(<< <<dynamic, BreakOut(1)>>, <<[op |-> "makeNull", target |-> 4], BreakOut(1)>> >>)
    IN  <<OfBlocks(<< <<OfBlocks(<< <<inner, BreakOut(1)>> >>), AddResult(4)>> >>)>>
Pieces == {
    <<CallRule(Lit(0), 3)>>,
    <<WithInput(<<0>>, Lit(2), <<CallRule(Lit(0), 4), AddResult(4)>>)>>,
    <<OfBlocks(<< <<WithInput(<< >>, Flag(1), <<CallRule(Lit(0), 4), AddResult(4)>>)>>,
                  <<[op |-> "nop"], CallRule(Lit(1), 5)>> >>)>>,
    <<WithInput(<<0, 1>>, Loc(1), <<DotTo(0, Lit(0), 4), [op |-> "isObject", source |-> Loc(4)],
                                    [op |-> "assignVar", source |-> Loc(4), target |-> 5]>>)>>,
    <<DotTo(1, Lit(0), 6), [op |-> "scan", source |-> 6, key |-> 3, value |-> 4, block |->
        <<[op |-> "notEqual", a |-> Loc(3), b |-> Loc(4)], AddResult(4), BreakOut(1)>>]>>,
    <<[op |-> "scan", source |-> 1, key |-> 3, value |-> 4, block |->
        <<[op |-> "not", block |-> <<[op |-> "isArray", source |-> Loc(4)]>>],
          [op |-> "setAdd", value |-> Loc(3), set |-> 7]>>]>>,
    <<[op |-> "makeSet", target |-> 7], [op |-> "makeArray", capacity |-> 2, target |-> 6],
      [op |-> "arrayAppend", value |-> Loc(3), array |-> 6]>>,
    <<[op |-> "not", block |-> <<CallRule(Lit(1), 3), [op |-> "equal", a |-> Loc(3), b |-> Flag(1)]>>],
      [op |-> "assignInt", value |-> -3, target |-> 3]>>,
    <<[op |-> "makeObject", target |-> 6], [op |-> "objectInsertOnce", key |-> Lit(0), value |-> Lit(1), object |-> 6],
      [op |-> "objectInsertOnce", key |-> Lit(0), value |-> Loc(3), object |-> 6]>>,
    <<[op |-> "makeNumberRef", index |-> 2, target |-> 4], DotTo(1, Loc(4), 5),
      [op |-> "len", source |-> Loc(5), target |-> 3]>>,
    DynamicCall(Lit(0)), DynamicCall(Lit(2)),
    <<[op |-> "call", func |-> 0, args |-> <<Loc(0)>>, result |-> 5],
      [op |-> "call", func |-> 1, args |-> <<Loc(1)>>, result |-> 3]>>,
    <<[op |-> "assignVar", source |-> Lit(0), target |-> 3], [op |-> "objectMerge", a |-> 0, b |-> 1, target |-> 7]>>,
    <<[op |-> "resetLocal", local |-> 3], [op |-> "isDefined", source |-> 3]>> }
PolicyOf(body) ==
    [strings |-> <<5, 6, 1>>,
     funcs |-> << [kind |-> "builtin", relation |-> FALSE, name |-> 30],
                  [kind |-> "specialized", relation |-> FALSE, name |-> 31, num |-> 13],
                  [kind |-> "function", name |-> 32, params |-> <<0, 1, 2>>, ret |-> 5, path |-> <<8>>, blocks |-> RuleBody],
                  [kind |-> "function", name |-> 33, params |-> <<0, 1>>, ret |-> 5, path |-> <<5, 5>>, blocks |-> RuleBody] >>,
     plans |-> << [name |-> 1, blocks |-> <<body, <<AddResult(3), AddResult(5), AddResult(6), AddResult(7)>> >>],
                  [name |-> 2, blocks |-> << <<AddResult(3)>> >>] >>]
SomeInput == Obj(Str(5) :> Str(6))
Ask(p, input, name, limit, cancelAt) ==
    [program |-> p, input |-> input, name |-> name, strict |-> FALSE, limit |-> limit, cancelAt |-> cancelAt]
AllPolicyRequests ==
    {Ask(PolicyOf(a \o b), SomeInput, 1, 1000, 1000) : a \in Pieces, b \in Pieces}
    \cup {Ask(PolicyOf(a \o <<CallRule(Lit(0), 3)>>), input, 1, l, c) :
            a \in Pieces, input \in {SomeInput, Undefined}, l \in {3, 5, 1000}, c \in {2, 4, 1000}}
    \cup {[Ask(PolicyOf(<<[op |-> "call", func |-> 0, args |-> <<Loc(0)>>, result |-> 5]>>), SomeInput, n, 1000, 1000)
              EXCEPT !.strict = st] : n \in {1, 2, 3}, st \in BOOLEAN}
DataDocument == Obj((Str(5) :> Arr(<<Num(0), Num(2)>>)) @@ (Str(1) :> Arr(<<Num(7)>>)))
FailingBuiltin == SomeInput :> Undefined

(* Built-in functions: two queries, with statements that evict each other,    *)
(* with shared and with separate keys.                                        *)
Asks(fn, role, query, cache, raise) ==
    [fn |-> fn, target |-> [at |-> "service", role |-> role], query |-> query,
     cache |-> cache, ttl |-> 1, raise |-> raise, strong |-> FALSE]
Strong(c) == [c EXCEPT !.strong = TRUE]
AllCallScripts == {
    << <<Asks("sql.send", "u", "q1", TRUE, FALSE), Asks("sql.send", "u", "q2", FALSE, FALSE)>>,
       <<Asks("sql.send", "u", "q1", FALSE, FALSE)>> >>,
    << <<Asks("sql.send", "u", "q1", FALSE, FALSE)>>, <<Asks("sql.send", "w", "q1", FALSE, FALSE)>> >>,
    << <<Asks("mongodb.find", "u", "f", TRUE, TRUE), Asks("mongodb.find_one", "u", "f", TRUE, TRUE)>>,
       <<Asks("mongodb.find_one", "u", "f", FALSE, TRUE), Asks("mongodb.find_one", "w", "f", TRUE, FALSE)>> >>,
    << <<Asks("vault.send", "r1", "s", TRUE, FALSE), Asks("redis.query", "u", "g", TRUE, TRUE)>>,
       <<Asks("vault.send", "r2", "s", FALSE, FALSE), Asks("redis.query", "u", "g", TRUE, TRUE)>> >>,
    << <<Asks("dynamodb.get", "u", "k", TRUE, FALSE), Strong(Asks("dynamodb.get", "u", "k", TRUE, FALSE))>>,
       <<Asks("dynamodb.query", "u", "k", TRUE, TRUE), Asks("dynamodb.get", "u", "k", TRUE, FALSE)>> >>,
    << <<Asks("rego.eval", "", "m", TRUE, TRUE), Asks("neo4j.query", "u", "c", FALSE, FALSE)>>,
       <<Asks("rego.eval", "", "m", TRUE, TRUE), Asks("rego.eval", "", "m", TRUE, TRUE)>> >> }

(* SQL store: two tables of documents, a table with typed columns, one that   *)
(* is discovered with what it holds, and configurations that are refused.     *)
TextOf(n) == [t |-> "str", v |-> n]
CountOf(n) == [t |-> "num", v |-> n]
FlagOf(n) == [t |-> "bool", v |-> n]
Doc(f) == [t |-> "obj", p |-> f]
List(s) == [t |-> "arr", e |-> s]
Column(type, path) == [column |-> "v", type |-> type, path |-> path]
Configured(path, name, keys, cols) == [path |-> path, name |-> name, keys |-> keys, cols |-> cols]
WithTables(tables) ==
    [tables |-> tables, schema |-> "", path |-> << >>, columns |-> {}, constraints |-> {}, usage |-> << >>, content |-> << >>]
DocTable == Configured(<<"a", "t">>, "t", <<"k">>, <<Column("json", << >>)>>)
DeepTable == Configured(<<"a", "u">>, "u", <<"k1", "k2">>, <<Column("json", << >>)>>)
TypedTable == Configured(<<"a", "t">>, "t", <<"k">>,
                         <<Column("string", <<"f">>), Column("bool", <<"g">>), Column("int64", <<"h">>)>>)
ColumnRow(schema, table, column, kind) == [schema |-> schema, table |-> table, column |-> column, kind |-> kind]
WithDiscovery(schema, constraints) ==
    [WithTables(<<DeepTable>>) EXCEPT
        !.schema = schema, !.path = <<"a">>, !.constraints = constraints,
        !.columns = {ColumnRow("public", "t", "id", "uuid"), ColumnRow("public", "t", "f", "text"),
                     ColumnRow("public", "t", "g", "jsonb"), ColumnRow("other", "w", "id", "xml")},
        !.usage = <<[schema |-> "public", table |-> "t", constraint |-> "pk", column |-> "id"],
                    [schema |-> "public", table |-> "t", constraint |-> "fk", column |-> "f"]>>,
        !.content = [t |-> (<<"x">> :> <<[t |-> "null"], [t |-> "null"]>>)]]
PrimaryKey == {[schema |-> "public", table |-> "t", constraint |-> "pk"]}
AllSQLConfigs ==
    { WithTables(<<DocTable, DeepTable>>), WithTables(<<TypedTable>>),
      WithDiscovery("public", PrimaryKey), WithDiscovery("public", {}), WithDiscovery("other", PrimaryKey),
      WithTables(<<DocTable, Configured(<<"a", "t">>, "w", <<"k1", "k2">>, <<Column("json", << >>)>>)>>),
      WithTables(<<Configured(<<"a", "t">>, "t", << >>, <<Column("json", << >>)>>)>>),
      WithTables(<<Configured(<<"a", "t">>, "t", <<"k">>, <<Column("float64", << >>)>>)>>) }
RowDoc == Doc(("f" :> TextOf(1)) @@ ("g" :> FlagOf(1)) @@ ("h" :> CountOf(3)))
ListDoc == Doc(("f" :> List(<<TextOf(1), CountOf(3)>>)) @@ ("g" :> NullDoc))
TwoRows == Doc(("x" :> RowDoc) @@ ("y" :> ListDoc))
RowDocs == {TextOf(1), NullDoc, RowDoc, ListDoc}
WritesAt(path, values) ==
    {[op |-> op, path |-> path, value |-> v] : op \in {"add", "replace"}, v \in values}
    \cup {[op |-> "remove", path |-> path, value |-> NullDoc]}
AllSQLCalls ==
    UNION {WritesAt(p, RowDocs) : p \in {<<"a", "t", "x">>, <<"a", "u", "x", "y">>, <<"a", "u", "y", "y">>}}
    \cup UNION {WritesAt(p, {TextOf(2), Doc("g" :> TextOf(2))}) :
                   p \in {<<"a", "t", "x", "f">>, <<"a", "t", "x", "f", "0">>, <<"a", "t", "x", "f", "-">>,
                          <<"a", "t", "x", "g", "f">>, <<"a", "u", "x", "y", "f">>, <<"a", "t", "y", "f", "1">>}}
    \cup WritesAt(<<"a", "t">>, {TwoRows, Doc("y" :> RowDoc), Doc(<< >>), TextOf(1)})
    \cup UNION {WritesAt(p, {TwoRows, Doc("x" :> Doc("y" :> RowDoc)), Doc("x" :> NullDoc)}) : p \in {<<"a", "u">>}}
    \cup WritesAt(<<"a", "u", "x">>, {TwoRows, NullDoc})
    \cup WritesAt(<<"a">>, {Doc("t" :> TwoRows), Doc(("t" :> Doc("x" :> TextOf(1))) @@ ("u" :> Doc("x" :> TwoRows))), TextOf(1)})
    \cup WritesAt(<< >>, {Doc("a" :> Doc("u" :> Doc("y" :> TwoRows)))})
    \cup WritesAt(<<"b">>, {RowDoc})

(* Edit trees: terms with keys whose hashes collide, nested arrays and sets.  *)
TermStr(n) == [t |-> "str", v |-> n]
TermNum(n) == [t |-> "num", v |-> n]
TermObj(p) == [t |-> "obj", p |-> p]
TermArr(e) == [t |-> "arr", e |-> e]
TermSet(s) == [t |-> "set", s |-> s]
AllEditDocs == {
    TermObj((TermStr(1) :> TermArr(<<TermNum(5), TermArr(<<TermNum(6)>>), TermNum(7)>>))
            @@ (TermNum(1) :> TermObj(TermStr(2) :> TermNum(5)))),
    TermArr(<<TermNum(5), TermNum(6), TermObj(TermStr(1) :> TermNum(5)), TermNum(7), TermNum(8)>>),
    TermSet({TermNum(5), TermArr(<<TermNum(6)>>), TermStr(2)}) }
KeysOfTerms == {TermStr(1), TermNum(1), TermStr(2), TermNum(0)}
EditPaths == {<< >>, <<TermArr(<<TermNum(6)>>), TermNum(0)>>, <<TermStr(0 - 1)>>, <<TermStr(1), TermStr(0 - 1)>>,
              <<TermArr(<<TermNum(6)>>)>>, <<TermNum(2), TermStr(1)>>, <<TermNum(5)>>, <<TermNum(5), TermNum(0)>>}
             \cup {<<k>> : k \in KeysOfTerms} \cup {<<k, m>> : k \in {TermStr(1), TermNum(1)}, m \in {TermNum(1), TermStr(2)}}
AllEditOps ==
    {[op |-> "insert", path |-> p, value |-> v] : p \in EditPaths, v \in {TermNum(5), TermArr(<<TermNum(6)>>)}}
    \cup {[op |-> op, path |-> p, value |-> TermNum(5)] : op \in {"delete", "render"}, p \in EditPaths}
Ref(s) == [i \in DOMAIN s |-> TermStr(s[i])] \o << >>
AllRefSets == SUBSET {Ref(<<10>>), Ref(<<10, 1>>), Ref(<<10, 1, 2>>), Ref(<<10, 1, 3>>), Ref(<<11, 1>>), Ref(<<10, 2>>)}

(* Previews: a rule over data, replaced, called and printed, in and out of a  *)
(* sandbox, while two commits change both policies and data.                  *)
RuleOf(name, looks, calls, prints, unused) ==
    [package |-> <<"p">>, rule |-> name, looks |-> looks, calls |-> calls, prints |-> prints, unused |-> unused]
Manifests(n) == TreeOf("bundles" :> TreeOf("b" :> LeafOf(n)))
PrimaryWith(mods, v) ==
    [modules |-> mods, data |-> TreeOf(("a" :> TreeOf(("x" :> LeafOf(v)) @@ ("y" :> LeafOf("one")))) @@ ("system" :> Manifests(v)))]
AllPrimaryContents == <<
    PrimaryWith("m1" :> RuleOf("r", <<"a", "x">>, {}, TRUE, TRUE), "v1"),
    PrimaryWith(("m1" :> RuleOf("r", <<"a", "y">>, {}, TRUE, FALSE)) @@ ("m2" :> RuleOf("f", <<"b">>, {}, FALSE, FALSE)), "v2") >>
PlainRequest ==
    [body |-> "sent", sandbox |-> FALSE, modules |-> << >>, data |-> TreeOf(<< >>), path |-> <<"p", "r">>, query |-> << >>,
     strict |-> FALSE, print |-> FALSE, ndb |-> "none", metrics |-> FALSE, provenance |-> FALSE]
SentData == TreeOf("a" :> TreeOf("x" :> LeafOf("sent")))
AllPreviewRequests == {
    [PlainRequest EXCEPT !.print = TRUE, !.provenance = TRUE, !.strict = TRUE],
    [PlainRequest EXCEPT !.data = SentData, !.provenance = TRUE],
    [PlainRequest EXCEPT !.modules = ("m1" :> RuleOf("r", <<"a", "x">>, {"f"}, TRUE, FALSE)), !.strict = TRUE, !.print = TRUE],
    [PlainRequest EXCEPT !.modules = ("n" :> RuleOf("q", <<"*">>, {"r"}, TRUE, FALSE)), !.path = <<"p">>, !.query = <<"q">>, !.data = SentData],
    [PlainRequest EXCEPT !.sandbox = TRUE, !.modules = ("n" :> RuleOf("r", <<"a", "x">>, {}, TRUE, FALSE)), !.data = SentData],
    [PlainRequest EXCEPT !.sandbox = TRUE, !.path = <<"a", "y">>, !.metrics = TRUE, !.ndb = "sent", !.provenance = TRUE],
    [PlainRequest EXCEPT !.ndb = "malformed"], [PlainRequest EXCEPT !.data = BadData], [PlainRequest EXCEPT !.body = "malformed"] }

(* Key manager: secrets that are rotated with an outage between, and          *)
(* configurations that override, reset, fail half-way and leave it out.       *)
VaultText(v) == [t |-> "str", v |-> v]
VaultWith(token, bearer) ==
    ("kv" :> ("data" :> [t |-> "map", m |-> ("token" :> VaultText(token)) @@ ("id" :> [t |-> "num", v |-> "7"])]))
    @@ ("plain" :> (("bearer" :> VaultText(bearer)) @@ ("flag" :> [t |-> "bool"])))
AllVaultContents == <<VaultWith("s1", "b1"), ("plain" :> ("bearer" :> VaultText("b2")))>>
TokenSpec == <<"kv", <<"data", "token">>>>
IdSpec == <<"kv", <<"data", "id">>>>
BearerSpec == <<"plain", <<"bearer">>>>
FlagSpec == <<"plain", <<"flag">>>>
SecretAt(spec) == [t |-> "str", s |-> <<TextPiece("x "), SecretPiece(spec)>>]
NoneDoc == [t |-> "none"]
EkmDoc(services, keys, plugins) == [services |-> services, keys |-> keys, plugins |-> plugins]
WebURL(scheme, host) == [kind |-> "url", scheme |-> scheme, host |-> host]
BadURL(kind) == [kind |-> kind, scheme |-> "", host |-> ""]
One(spec) == [kind |-> "one", spec |-> spec]
SendSet(params, headers) == [params |-> params, headers |-> headers]
PlainEkm ==
    [ekm |-> "vault", addr |-> "", access |-> "token", given |-> TRUE, file |-> "none", services |-> << >>,
     keys |-> << >>, send |-> << >>, doc |-> EkmDoc(NoneDoc, NoneDoc, << >>)]
AllEkmConfigs == {
    [PlainEkm EXCEPT
        !.services = (<<"a">> :> TokenSpec) @@ (<<"a", "b">> :> IdSpec) @@ (<<"c", "d">> :> BearerSpec),
        !.keys = (<<"k", "l">> :> TokenSpec) @@ (<<"k", "m">> :> FlagSpec),
        !.doc = EkmDoc(Document(("a" :> Document("b" :> TextDoc("old"))) @@ ("c" :> TextDoc("old"))), NoneDoc,
                       "p" :> Document(("auth" :> SecretAt(TokenSpec)) @@ ("l" :> [t |-> "arr", e |-> <<SecretAt(IdSpec), [t |-> "num"]>>])))],
    [PlainEkm EXCEPT
        !.access = "approle", !.doc = EkmDoc(NoneDoc, Document("k" :> SecretAt(IdSpec)), << >>),
        !.send = <<[url |-> WebURL("https", "h"), set |-> SendSet("body" :> One(TokenSpec), << >>)],
                   [url |-> WebURL("https", "h"), set |-> SendSet("body" :> One(FlagSpec),
                        "auth" :> [kind |-> "parts", parts |-> ("bearer" :> BearerSpec) @@ ("scheme" :> <<"kv">>)])],
                   [url |-> BadURL("malformed"), set |-> SendSet(<< >>, << >>)]>>],
    [PlainEkm EXCEPT
        !.access = "kubernetes", !.doc = EkmDoc(Document("a" :> TextDoc("own")), NoneDoc, ("p" :> [t |-> "num"]) @@ ("q" :> Document(<< >>))),
        !.send = <<[url |-> WebURL("http", "h"), set |-> SendSet(<< >>, ("id" :> One(IdSpec)) @@ ("bad" :> [kind |-> "other"]))]>>],
    [PlainEkm EXCEPT !.given = FALSE, !.file = "empty"],
    [PlainEkm EXCEPT !.services = (<<"a">> :> TokenSpec), !.doc = EkmDoc([t |-> "arr", e |-> << >>], NoneDoc, << >>)],
    [PlainEkm EXCEPT !.ekm = "none", !.doc = EkmDoc(Document("a" :> SecretAt(TokenSpec)), NoneDoc, << >>)],
    [PlainEkm EXCEPT !.ekm = "empty"], [PlainEkm EXCEPT !.addr = "malformed"], [PlainEkm EXCEPT !.access = "basic"] }
SendCall(url, params, headers) == [object |-> TRUE, url |-> url, params |-> params, headers |-> headers]
AllHTTPCalls == {
    SendCall(WebURL("https", "h"), "body" :> <<"own">>, [t |-> "none", m |-> << >>]),
    SendCall(WebURL("http", "h"), << >>, [t |-> "obj", m |-> "auth" :> <<"own">>]),
    SendCall(BadURL("other"), << >>, [t |-> "none", m |-> << >>]) }

(* The values of the constants, by name: TLC evaluates a definition once,     *)
(* but one that stands for a constant at every use.                           *)
StoreMounts == AllStoreMounts
StorePaths == AllStorePaths
CallTexts == AllCallTexts
CallRequests == AllCallRequests
Downloads == AllDownloads
PolicyKeys == AllPolicyKeys
PolicyValues == AllPolicyValues
DiffDocs == AllDiffDocs
PatchedDocs == AllPatchedDocs
OpsOnDocs == AllOpsOnDocs
PolicyRequests == AllPolicyRequests
ScriptsOfCalls == AllCallScripts
SQLSettings == AllSQLConfigs
WritesOfClients == AllSQLCalls
MemberPaths == {<<"f">>, <<"g">>, <<"h">>, <<"f", "0">>, <<"g", "f">>}
EditedTerms == AllEditDocs
EditsOfTerms == AllEditOps
ReferenceSets == AllRefSets
RequestsForPreview == AllPreviewRequests
ContentsOfPrimary == AllPrimaryContents
SecretsOverTime == AllVaultContents
ConfigsOfKeys == AllEkmConfigs
CallsOfPolicies == AllHTTPCalls
-----------------------------------------------------------------------------
Parts == {"virtual", "grpc", "bundle", "objects", "tables", "delta", "vm", "calls", "sql", "edits", "preview", "keys", "log"}

\* A component that does not run rests in one of its initial states.
StoresInit ==
    /\ part \in Parts
    /\ VirtualInit /\ (part # "virtual" => vtree = CHOOSE t \in {NewTree(ms) : ms \in AllStoreMounts} : t # << >>)
    /\ GrpcInit /\ BundleInit /\ ObjectsInit
    /\ TablesInit /\ (part # "tables" => operands["left"].t = "set")
    /\ DeltaInit /\ (part # "delta" => document = NilOf)
    /\ VMInit
    /\ CallInit /\ (part # "calls" => querier = [i \in Queriers |-> NewQuerier((CHOOSE s \in AllCallScripts : TRUE)[i])])
    /\ SQLInit /\ (part # "sql" => sqlConfig = WithTables(<<DocTable, DeepTable>>))
    /\ EditInit /\ (part # "edits" => editDoc = CHOOSE d \in AllEditDocs : d.t = "set")
    /\ PreviewInit /\ EkmInit /\ LogInit

StoresNext ==
    \/ part = "virtual" /\ VirtualNext /\ UNCHANGED <<part, gvars, bvars, objectVars, tableVars, deltaVars, vmVars, callVars, laterVars>>
    \/ part = "grpc" /\ GrpcNext /\ UNCHANGED <<part, virtualVars, bvars, objectVars, tableVars, deltaVars, vmVars, callVars, laterVars>>
    \/ part = "bundle" /\ BundleNext /\ UNCHANGED <<part, virtualVars, gvars, objectVars, tableVars, deltaVars, vmVars, callVars, laterVars>>
    \/ part = "objects" /\ ObjectsNext /\ UNCHANGED <<part, virtualVars, gvars, bvars, tableVars, deltaVars, vmVars, callVars, laterVars>>
    \/ part = "tables" /\ TablesNext /\ UNCHANGED <<part, virtualVars, gvars, bvars, objectVars, deltaVars, vmVars, callVars, laterVars>>
    \/ part = "delta" /\ DeltaNext /\ UNCHANGED <<part, virtualVars, gvars, bvars, objectVars, tableVars, vmVars, callVars, laterVars>>
    \/ part = "vm" /\ VMNext /\ UNCHANGED <<part, virtualVars, gvars, bvars, objectVars, tableVars, deltaVars, callVars, laterVars>>
    \/ part = "calls" /\ CallNext /\ UNCHANGED <<part, virtualVars, gvars, bvars, objectVars, tableVars, deltaVars, vmVars, laterVars>>
    \/ part = "sql" /\ SQLNext /\ UNCHANGED <<part, virtualVars, gvars, bvars, objectVars, tableVars, deltaVars, vmVars, callVars, editVars, previewVars, ekmVars, logVars>>
    \/ part = "edits" /\ EditNext /\ UNCHANGED <<part, virtualVars, gvars, bvars, objectVars, tableVars, deltaVars, vmVars, callVars, sqlVars, previewVars, ekmVars, logVars>>
    \/ part = "preview" /\ PreviewNext /\ UNCHANGED <<part, virtualVars, gvars, bvars, objectVars, tableVars, deltaVars, vmVars, callVars, sqlVars, editVars, ekmVars, logVars>>
    \/ part = "keys" /\ EkmNext /\ UNCHANGED <<part, virtualVars, gvars, bvars, objectVars, tableVars, deltaVars, vmVars, callVars, sqlVars, editVars, previewVars, logVars>>
    \/ part = "log" /\ LogNext /\ UNCHANGED <<part, virtualVars, gvars, bvars, objectVars, tableVars, deltaVars, vmVars, callVars, sqlVars, editVars, previewVars, ekmVars>>

StoresSpec == StoresInit /\ [][StoresNext]_storesVars

\* Transactions of the virtual store are interchangeable.
StoresSymmetry == Permutations(VTxns)

\* The types of the component that runs.
StoresTypeOK ==
    CASE part = "virtual" -> VirtualTypeOK
      [] part = "grpc" -> GrpcTypeOK
      [] part = "objects" -> ObjectsTypeOK
      [] part = "vm" -> VMTypeOK
      [] part = "calls" -> CallTypeOK
      [] part = "sql" -> SQLTypeOK
      [] part = "edits" -> EditTypeOK
      [] part = "preview" -> PreviewTypeOK
      [] OTHER -> TRUE
=============================================================================
