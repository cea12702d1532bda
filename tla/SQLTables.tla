------------------------------ MODULE SQLTables ------------------------------
(* The SQL store (pkg/storage/sql): documents kept in tables.  A table stands *)
(* at a path; below it are the columns of its primary key, and below those    *)
(* the columns with values.  A write at any path becomes deletes and inserts  *)
(* of rows, a read puts the rows it finds together.  The locks of the         *)
(* transactions are in VirtualStore; here one write transaction follows       *)
(* another.                                                                   *)
(*                                                                            *)
(* A document is [t |-> kind, ...]: "obj" with members p, "arr" with elements *)
(* e, scalars with a value v.  "raw" is text that was not parsed yet.         *)
EXTENDS Integers, Sequences, SequencesExt, FiniteSets, TLC

CONSTANTS
    SQLConfigs,   \* configurations, with what the database holds
    SQLCalls,     \* [op, path, value]: the writes clients make
    SQLKeys,      \* values of key columns
    SQLMembers,   \* paths below a row that properties look at
    MaxSQLWrites

VARIABLES
    sqlState,   \* "new", "refused", "idle", "txn", "wrote"
    sqlConfig,
    sqlTrie,    \* the tables by their paths
    sqlRows,    \* committed rows: table name -> key -> values of the columns
    sqlTxn,     \* the rows as the transaction sees them
    sqlLast,    \* the last write, and the rows before it
    sqlLeft     \* writes left

sqlVars == <<sqlState, sqlConfig, sqlTrie, sqlRows, sqlTxn, sqlLast, sqlLeft>>
-----------------------------------------------------------------------------
NullDoc == [t |-> "nil"]
NoDoc == [t |-> "none"]      \* nothing there
BadDoc == [t |-> "err"]      \* an error
ObjDoc(members) == [t |-> "obj", p |-> members]
RawDoc(d) == [t |-> "raw", d |-> d]
Parsed(d) == IF d.t = "raw" THEN d.d ELSE d
HasMember(d, k) == d.t = "obj" /\ k \in DOMAIN d.p
EmptyText == [t |-> "str", v |-> 0]
FalseDoc == [t |-> "bool", v |-> 0]

\* Array positions are counted from 0; "-" is the position after the last.
Indices == [i \in {"0", "1", "2"} |-> CASE i = "0" -> 0 [] i = "1" -> 1 [] i = "2" -> 2]
HasIndex(d, k) == d.t = "arr" /\ k \in DOMAIN Indices /\ Indices[k] < Len(d.e)
IsEnd(d, k) == k = "-" \/ (k \in DOMAIN Indices /\ Indices[k] = Len(d.e))

RECURSIVE PtrTo(_, _)
PtrTo(d, path) ==
    CASE path = << >> -> d
      [] path # << >> /\ HasMember(d, Head(path)) -> PtrTo(d.p[Head(path)], Tail(path))
      [] path # << >> /\ HasIndex(d, Head(path)) -> PtrTo(d.e[Indices[Head(path)] + 1], Tail(path))
      [] OTHER -> NoDoc

\* The last step of a patch, on the container of the path.  A container that
\* is not there is made, whatever the operation.
PatchLast(d, op, k, value) ==
    CASE d.t = "obj" /\ op # "add" /\ ~HasMember(d, k) -> BadDoc
      [] d.t = "obj" /\ op = "remove" /\ HasMember(d, k) -> ObjDoc([m \in DOMAIN d.p \ {k} |-> d.p[m]])
      [] d.t = "obj" /\ (op = "add" \/ (op = "replace" /\ HasMember(d, k))) -> ObjDoc((k :> value) @@ d.p)
      [] d.t = "arr" /\ op = "add" /\ IsEnd(d, k) -> [d EXCEPT !.e = Append(@, value)]
      [] d.t = "arr" /\ op = "add" /\ HasIndex(d, k) -> [d EXCEPT !.e = InsertAt(@, Indices[k] + 1, value)]
      [] d.t = "arr" /\ op = "replace" /\ HasIndex(d, k) -> [d EXCEPT !.e[Indices[k] + 1] = value]
      [] d.t = "arr" /\ op = "remove" /\ HasIndex(d, k) -> [d EXCEPT !.e = RemoveAt(@, Indices[k] + 1)]
      [] d.t = "nil" -> ObjDoc(k :> value)
      [] OTHER -> BadDoc
\* The container that the rest of a path goes into, and its new content.
NextOf(d, k) ==
    IF HasMember(d, k) THEN d.p[k]
    ELSE IF HasIndex(d, k) THEN d.e[Indices[k] + 1]
    ELSE IF d.t \in {"obj", "nil"} THEN NullDoc ELSE BadDoc
PutBelow(d, k, below) ==
    IF below = BadDoc THEN BadDoc
    ELSE IF d.t = "arr" THEN [d EXCEPT !.e[Indices[k] + 1] = below]
    ELSE ObjDoc((k :> below) @@ (IF d.t = "obj" THEN d.p ELSE << >>))
RECURSIVE PatchDoc(_, _, _, _)
PatchDoc(d, op, path, value) ==
    CASE path = << >> -> value
      [] Len(path) = 1 -> PatchLast(d, op, Head(path), value)
      [] Len(path) > 1 -> IF NextOf(d, Head(path)) = BadDoc THEN BadDoc
                          ELSE PutBelow(d, Head(path), PatchDoc(NextOf(d, Head(path)), op, Tail(path), value))

\* Documents put together: each part is added at its path.
RECURSIVE Assemble(_, _)
Assemble(d, parts) ==
    IF parts = {} THEN d
    ELSE LET x == CHOOSE x \in parts : TRUE
         IN  Assemble(PatchDoc(d, "add", x.path, x.doc), parts \ {x})
-----------------------------------------------------------------------------
(* Tables: [path, name, keys, cols, discovered]; the path ends with one       *)
(* wildcard for each key column.  A column has a type and the path of its     *)
(* value in the document of the row.                                          *)
NoTable == [name |-> ""]
Overlaps == [overlaps |-> TRUE]
BadOptions == {Overlaps}
Wildcards(n) == [i \in 1 .. n |-> "*"] \o << >>

\* Types of discovered columns.
ColumnTypes == [jsonb |-> "json", bigint |-> "json", boolean |-> "bool", text |-> "string", uuid |-> "string"]

\* Discovery: the columns of the schema's tables, and the keys of those that
\* have a primary key.
Discovered(c) ==
    LET inSchema == {r \in c.columns : r.schema = c.schema}
        keysOf(name) ==
            LET own == SelectSeq(c.usage, LAMBDA u : /\ u.schema = c.schema /\ u.table = name
                           /\ [schema |-> u.schema, table |-> u.table, constraint |-> u.constraint] \in c.constraints)
            IN  [i \in DOMAIN own |-> own[i].column] \o << >>
        colsOf(name) ==
            {[column |-> r.column, type |-> ColumnTypes[r.kind], path |-> <<r.column>>] :
                r \in {r \in inSchema : r.table = name /\ r.column \notin ToSet(keysOf(name))}}
    IN  IF c.schema = "" THEN {}
        ELSE IF \E r \in inSchema : r.kind \notin DOMAIN ColumnTypes /\ r.column \notin ToSet(keysOf(r.table)) THEN BadOptions
        ELSE {[path |-> c.path \o <<name>> \o Wildcards(Len(keysOf(name))), name |-> name, keys |-> keysOf(name),
               cols |-> SetToSeq(colsOf(name)), discovered |-> TRUE] : name \in {r.table : r \in inSchema}}
ConfigTypes == {"json", "string", "bool", "int64"}
OptionsFromConfig(c) ==
    IF \E i \in DOMAIN c.tables : \E j \in DOMAIN c.tables[i].cols : c.tables[i].cols[j].type \notin ConfigTypes
    THEN BadOptions
    ELSE {[path |-> t.path \o Wildcards(Len(t.keys)), name |-> t.name, keys |-> t.keys, cols |-> t.cols,
           discovered |-> FALSE] : t \in ToSet(c.tables)} \cup Discovered(c)

EmptyTrie == [table |-> NoTable, nodes |-> << >>]
WithNode(t, k, child) == IF child = Overlaps THEN Overlaps ELSE [t EXCEPT !.nodes = (k :> child) @@ @]
RECURSIVE InsertTable(_, _, _)
InsertTable(t, path, table) ==
    CASE path = << >> -> IF DOMAIN t.nodes # {} THEN Overlaps ELSE [t EXCEPT !.table = table]
      [] path # << >> /\ Head(path) \notin DOMAIN t.nodes /\ t.table # NoTable -> Overlaps
      [] OTHER -> WithNode(t, Head(path),
                     InsertTable(IF Head(path) \in DOMAIN t.nodes THEN t.nodes[Head(path)] ELSE EmptyTrie, Tail(path), table))
RECURSIVE BuildTablesTrie(_, _)
BuildTablesTrie(t, tables) ==
    IF tables = {} \/ t = Overlaps THEN t
    ELSE LET x == CHOOSE x \in tables : TRUE
         IN  BuildTablesTrie(InsertTable(t, x.path, x), tables \ {x})
RECURSIVE TablesOf(_)
TablesOf(t) ==
    IF t.table # NoTable THEN {t.table} ELSE UNION {TablesOf(t.nodes[k]) : k \in DOMAIN t.nodes}
RECURSIVE FindTables(_, _)
FindTables(t, path) ==
    IF path = << >> \/ t.table # NoTable THEN TablesOf(t)
    ELSE IF "*" \in DOMAIN t.nodes THEN FindTables(t.nodes["*"], Tail(path))
    ELSE IF Head(path) \in DOMAIN t.nodes THEN FindTables(t.nodes[Head(path)], Tail(path))
    ELSE {}

Base(t) == SubSeq(t.path, 1, Len(t.path) - Len(t.keys))
RelativePath(t, path) == SubSeq(path, Len(Base(t)) + 1, Len(path))
KeyPart(t, rpath) == SubSeq(rpath, 1, IF Len(rpath) < Len(t.keys) THEN Len(rpath) ELSE Len(t.keys))
DocPath(t, rpath) == SubSeq(rpath, Len(t.keys) + 1, Len(rpath))
-----------------------------------------------------------------------------
(* Rows.  InsertArgs and Scan: a value that is missing, or of another type,   *)
(* becomes the empty string or false; only integers are refused.              *)
ColumnValue(col, value) ==
    LET found == PtrTo(value, col.path)
        v == IF found = NoDoc THEN NullDoc ELSE found
    IN  CASE col.type = "json" -> Parsed(v)
          [] col.type = "string" -> IF v.t = "str" THEN v ELSE EmptyText
          [] col.type = "bool" -> IF v.t = "bool" THEN v ELSE FalseDoc
          [] col.type = "int64" -> IF Parsed(v).t = "num" THEN Parsed(v) ELSE BadDoc
InsertArgs(t, value) == [i \in DOMAIN t.cols |-> ColumnValue(t.cols[i], value)] \o << >>

ScanColumn(col, v) == IF v.t = "null" THEN (IF col.type = "string" THEN EmptyText ELSE NullDoc) ELSE v
RECURSIVE ScanFrom(_, _, _, _)
ScanFrom(t, row, i, doc) ==
    LET v == ScanColumn(t.cols[i], row[i])
        members == IF doc.t = "obj" THEN doc.p ELSE << >>
    IN  IF i > Len(t.cols) THEN doc
        ELSE IF t.cols[i].path = << >> THEN ScanFrom(t, row, i + 1, v)
        ELSE ScanFrom(t, row, i + 1, ObjDoc((t.cols[i].path[1] :> v) @@ members))
ScanRow(t, row) == ScanFrom(t, row, 1, NullDoc)

SelectKeys(rows, prefix) == {k \in DOMAIN rows : IsPrefix(prefix, k)}

\* One table: the rows the path selects, cut down to the part it points to.
Gathered(parts) == IF parts = {} THEN NoDoc ELSE Assemble(NullDoc, parts)
WithDocs(parts) == {x \in parts : x.doc # NoDoc}
ReadTable(t, rows, rpath) ==
    LET prefix == KeyPart(t, rpath)
    IN  Gathered(WithDocs({[path |-> SubSeq(k, Len(prefix) + 1, Len(k)), doc |-> PtrTo(ScanRow(t, rows[k]), DocPath(t, rpath))] :
                     k \in SelectKeys(rows, prefix)}))
FoundAt(path, d) == IF d = NoDoc /\ path = << >> THEN ObjDoc(<< >>) ELSE d
ReadDoc(trie, rows, path) ==
    FoundAt(path, Gathered(WithDocs({[path |-> SubSeq(Base(t), Len(path) + 1, Len(Base(t))),
                   doc |-> ReadTable(t, rows[t.name], RelativePath(t, path))] : t \in FindTables(trie, path)})))
-----------------------------------------------------------------------------
(* Writes: first the updates of all tables are found, then they are applied.  *)
Update(t, key, value, delete) == [table |-> t, key |-> key, value |-> value, delete |-> delete]
Wrong(t) == Update(t, << >>, BadDoc, FALSE)

\* A document is cut into the rows of a table, which must be objects down to
\* the last key column.  Up to three of those each row has a path of its own;
\* from four on the paths would share their memory.
RECURSIVE Partition(_, _, _)
Partition(t, path, value) ==
    LET d == Parsed(value)
    IN  IF Len(path) = Len(t.keys) THEN {Update(t, path, value, FALSE)}
        ELSE IF d.t = "obj" THEN UNION {Partition(t, Append(path, k), RawDoc(d.p[k])) : k \in DOMAIN d.p}
        ELSE IF value = RawDoc(NullDoc) THEN {}
        ELSE {Wrong(t)}

\* Faulty variant: only the row with exactly that key is looked for.
RemovalsOfOne(t, rows, rpath) == {Update(t, k, NullDoc, TRUE) : k \in {k \in DOMAIN rows : k = rpath}}
Removals(t, rows, rpath) == {Update(t, k, NullDoc, TRUE) : k \in SelectKeys(rows, rpath)}
RowPatched(t, row, op, path, value, current) ==
    IF current = NoDoc THEN <<Wrong(t)>> ELSE <<Update(t, row, PatchDoc(current, op, path, value), FALSE)>>
TableUpdates(t, rows, op, rpath, value) ==
    CASE Len(rpath) = Len(t.keys) -> <<Update(t, rpath, value, op = "remove")>>
      [] Len(rpath) > Len(t.keys) ->
           RowPatched(t, KeyPart(t, rpath), op, DocPath(t, rpath), value, ReadTable(t, rows, KeyPart(t, rpath)))
      [] Len(rpath) < Len(t.keys) ->
           SetToSeq(Removals(t, rows, rpath))
             \o (IF op = "remove" THEN << >> ELSE SetToSeq(Partition(t, rpath, value)))

\* What a table has to do with a write at a path above it: the part of the
\* value at the table, and nothing there means that its rows go.
UpdatesForPart(t, rows, op, rpath, part) ==
    TableUpdates(t, rows, IF part = NoDoc THEN "remove" ELSE op, rpath, IF part = NoDoc THEN NullDoc ELSE part)
UpdatesFor(t, rows, c) ==
    LET inner == Base(t) \o RelativePath(t, c.path)
    IN  UpdatesForPart(t, rows[t.name], c.op, RelativePath(t, c.path),
                       PtrTo(c.value, SubSeq(inner, Len(c.path) + 1, Len(inner))))

\* The updates in turn; one that fails has already removed its row.
WithRow(rows, name, less, key, args) ==
    IF BadDoc \in ToSet(args) THEN [ok |-> FALSE, rows |-> [rows EXCEPT ![name] = less]]
    ELSE [ok |-> TRUE, rows |-> [rows EXCEPT ![name] = (key :> args) @@ less]]
WithoutRow(rows, u) == [k \in DOMAIN rows \ {u.key} |-> rows[k]]
ApplyUpdate(rows, u) ==
    IF u.delete THEN [ok |-> TRUE, rows |-> [rows EXCEPT ![u.table.name] = WithoutRow(@, u)]]
    ELSE WithRow(rows, u.table.name, WithoutRow(rows[u.table.name], u), u.key, InsertArgs(u.table, u.value))
ApplyUpdates(rows, ups) ==
    LET step(acc, u) == IF acc.ok THEN ApplyUpdate(acc.rows, u) ELSE acc
    IN  IF \E i \in DOMAIN ups : ups[i].value = BadDoc THEN [ok |-> FALSE, rows |-> rows]
        ELSE FoldLeft(step, [ok |-> TRUE, rows |-> rows], ups)
Orders(S) == {s \in [1 .. Cardinality(S) -> S] : ToSet(s) = S}
WriteDoc(rows, c, tables) ==
    ApplyUpdates(rows, FlattenSeq([i \in DOMAIN tables |-> UpdatesFor(tables[i], rows, c)]))
-----------------------------------------------------------------------------
NoWrite == [op |-> ""]
SQLInit ==
    /\ sqlState = "new" /\ sqlConfig \in SQLConfigs /\ sqlTrie = EmptyTrie
    /\ sqlRows = sqlConfig.content /\ sqlTxn = << >> /\ sqlLast = NoWrite /\ sqlLeft = MaxSQLWrites

\* New: the tables are checked, and created when they are not there.
Opened(opts, trie) ==
    IF trie = Overlaps \/ \E t \in opts : t.keys = << >> \/ t.cols = << >>
    THEN sqlState' = "refused" /\ UNCHANGED <<sqlTrie, sqlRows>>
    ELSE /\ sqlState' = "idle" /\ sqlTrie' = trie
         /\ sqlRows' = sqlRows @@ [n \in {t.name : t \in {t \in opts : ~t.discovered}} |-> << >>]
OpenWith(opts) == Opened(opts, IF Overlaps \in opts THEN Overlaps ELSE BuildTablesTrie(EmptyTrie, opts))
SQLOpen ==
    /\ sqlState = "new" /\ OpenWith(OptionsFromConfig(sqlConfig))
    /\ UNCHANGED <<sqlConfig, sqlTxn, sqlLast, sqlLeft>>
SQLBegin ==
    /\ sqlState = "idle" /\ sqlLeft > 0
    /\ sqlState' = "txn" /\ sqlTxn' = sqlRows
    /\ UNCHANGED <<sqlConfig, sqlTrie, sqlRows, sqlLast, sqlLeft>>
Wrote(c, r) ==
    /\ sqlTxn' = r.rows
    /\ sqlLast' = [op |-> c.op, path |-> c.path, value |-> c.value, ok |-> r.ok, before |-> sqlTxn]
\* Tables are found in no particular order, which shows when one of them fails.
SQLWrite(c) ==
    /\ sqlState = "txn" /\ sqlLeft > 0
    /\ \E tables \in Orders(FindTables(sqlTrie, c.path)) : Wrote(c, WriteDoc(sqlTxn, c, tables))
    /\ sqlState' = "wrote" /\ sqlLeft' = sqlLeft - 1
    /\ UNCHANGED <<sqlConfig, sqlTrie, sqlRows>>
SQLReturn ==
    /\ sqlState = "wrote" /\ sqlState' = "txn" /\ sqlLast' = NoWrite
    /\ UNCHANGED <<sqlConfig, sqlTrie, sqlRows, sqlTxn, sqlLeft>>
SQLCommit ==
    /\ sqlState = "txn" /\ sqlState' = "idle" /\ sqlRows' = sqlTxn /\ sqlTxn' = << >>
    /\ UNCHANGED <<sqlConfig, sqlTrie, sqlLast, sqlLeft>>
\* Abort, or a commit that the database refuses.
SQLAbort ==
    /\ sqlState = "txn" /\ sqlState' = "idle" /\ sqlTxn' = << >>
    /\ UNCHANGED <<sqlConfig, sqlTrie, sqlRows, sqlLast, sqlLeft>>

SQLNext == SQLOpen \/ SQLBegin \/ (\E c \in SQLCalls : SQLWrite(c)) \/ SQLReturn \/ SQLCommit \/ SQLAbort
SQLSpec == SQLInit /\ [][SQLNext]_sqlVars
-----------------------------------------------------------------------------
SQLTypeOK ==
    /\ sqlState \in {"new", "refused", "idle", "txn", "wrote"} /\ sqlLeft \in 0 .. MaxSQLWrites
    /\ sqlTrie # Overlaps
    /\ \A t \in TablesOf(sqlTrie) : \A k \in DOMAIN sqlRows[t.name] :
          Len(k) = Len(t.keys) /\ Len(sqlRows[t.name][k]) = Len(t.cols)

After(p, q) == SubSeq(q, Len(p) + 1, Len(q))
\* A row that keeps the document as it is.
Whole(t) == Len(t.cols) = 1 /\ t.cols[1].path = << >> /\ t.cols[1].type = "json"
Fits(col, d) ==
    IF col.type = "json" THEN d # NoDoc ELSE d.t = [string |-> "str", bool |-> "bool", int64 |-> "num"][col.type]
DocOf(t, rows, k) == IF k \in DOMAIN rows[t.name] THEN ScanRow(t, rows[t.name][k]) ELSE NoDoc
Wanted == IF sqlLast.op = "remove" THEN NoDoc ELSE sqlLast.value

\* A write that succeeds does what it says to every row, at once or not at
\* all: the rows at or below its path hold the part of the value that belongs
\* there, or are gone, and all others are as they were.  Where rows have
\* several columns this holds for writes of whole rows, up to the members that
\* have columns; a write above the rows loses them (options.go:244).
RowsWritten ==
    sqlState = "wrote" /\ sqlLast.ok =>
        \A t \in TablesOf(sqlTrie) : \A k \in [1 .. Len(t.keys) -> SQLKeys] :
            LET full == Base(t) \o k
                now == DocOf(t, sqlTxn, k)
                old == DocOf(t, sqlLast.before, k)
                want == PtrTo(Wanted, After(sqlLast.path, full))
            IN  IF IsPrefix(sqlLast.path, full)
                THEN /\ (now = NoDoc) = (want = NoDoc)
                     /\ Whole(t) => now = want
                     /\ sqlLast.path = full /\ want.t = "obj" =>
                           \A i \in DOMAIN t.cols : t.cols[i].path # << >> /\ Fits(t.cols[i], PtrTo(want, t.cols[i].path)) =>
                               PtrTo(now, t.cols[i].path) = PtrTo(want, t.cols[i].path)
                ELSE ~IsPrefix(full, sqlLast.path) => now = old
\* A write inside a row changes what its path points to and nothing beside it,
\* unless the container is an array, whose elements move.  An operation on a
\* member of nothing is left out: it makes the member, even to remove it
\* (txn.go:503).
MembersWritten ==
    sqlState = "wrote" /\ sqlLast.ok =>
        \A t \in {t \in TablesOf(sqlTrie) : Whole(t)} : \A k \in [1 .. Len(t.keys) -> SQLKeys] :
            LET full == Base(t) \o k
                inside == After(full, sqlLast.path)
                now == DocOf(t, sqlTxn, k)
                old == DocOf(t, sqlLast.before, k)
            IN  IsPrefix(full, sqlLast.path) /\ inside # << >> =>
                    LET holder == PtrTo(old, Front(inside))
                    IN  /\ holder.t = "obj" => PtrTo(now, inside) = Wanted
                        /\ holder.t \in {"obj", "nil"} => \A m \in SQLMembers :
                              ~IsPrefix(m, inside) /\ ~IsPrefix(inside, m) => PtrTo(now, m) = PtrTo(old, m)
\* Reads at every path see one document: what a read finds at a path is what
\* the read of everything has there, whichever tables and rows it is spread over.
ReadsAgree ==
    sqlState = "txn" => LET All(root) == \A p \in {c.path : c \in SQLCalls} :
                                             ReadDoc(sqlTrie, sqlTxn, p) = PtrTo(root, p)
                        IN  All(ReadDoc(sqlTrie, sqlTxn, << >>))
SQLSafety == RowsWritten /\ MembersWritten /\ ReadsAgree
=============================================================================
