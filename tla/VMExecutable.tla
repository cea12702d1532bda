----------------------------- MODULE VMExecutable -----------------------------
(* The executable of the Rego VM (pkg/vm/compiler.go, executable.go): a       *)
(* policy in intermediate representation is written as one array of words,    *)
(* and the VM reads every operand from it at fixed or stored offsets.         *)
(*                                                                            *)
(* A word stands for four bytes, so that offset n of the model is byte offset *)
(* 4 * n of the code; a string is one word after its length.  A word has      *)
(* WordBits bits (32 in the code); the first word of a statement holds its    *)
(* type above LenBits bits of length, and an operand its kind above its value *)
(* (24 bits in the code).                                                     *)
EXTENDS Integers, Sequences, SequencesExt

LOCAL INSTANCE Bitwise

CONSTANTS WordBits, LenBits

\* The same sequence; TLC computes its elements here, and not at every use.
Once(seq) == seq \o << >>

(* Primitive types. *)
Word(n) == n % 2^WordBits
WordAt(c, i) == c[i + 1]
TailAt(c, i) == SubSeq(c, i + 1, Len(c))
Int64Cells(v) == <<Word(v \div 2^WordBits), Word(v)>>
Int64At(c, i) ==
    LET n == WordAt(c, i) * 2^WordBits + WordAt(c, i + 1)
    IN  IF WordAt(c, i) >= 2^(WordBits - 1) THEN n - 2^(2 * WordBits) ELSE n
Tagged(t, v) == Word((t * 2^LenBits) | v)
TagOf(w) == w \div 2^LenBits
RestOf(w) == w % 2^LenBits
StringCells(x) == <<1, x>>
StringAt(c, i) == WordAt(c, i + 1)
ArrayCells(ws) == <<Len(ws)>> \o ws
ArrayAt(c, i) == SubSeq(c, i + 2, i + 1 + WordAt(c, i))
ArraySize(c, i) == 1 + WordAt(c, i)

\* Parts behind an index of their offsets; base words come before the index.
Indexed(parts, base) ==
    LET before(i) == Len(FlattenSeq(SubSeq(parts, 1, i - 1)))
    IN  [i \in 1 .. Len(parts) |-> Word(base + Len(parts) + before(i))] \o FlattenSeq(parts)
PartAt(c, first, i) == TailAt(c, WordAt(c, first + i - 1))

StringArrayCells(xs) == <<Len(xs)>> \o Indexed(Once([i \in DOMAIN xs |-> StringCells(xs[i])]), 1)
StringArrayAt(c, i) ==
    LET a == TailAt(c, i) IN [n \in 1 .. WordAt(a, 0) |-> StringAt(a, WordAt(a, n))]

OperandKinds == <<"local", "bool", "string">>
OperandCell(o) == Tagged((CHOOSE k \in 1 .. 3 : OperandKinds[k] = o.t) - 1, o.v)
OperandOf(w) == [t |-> OperandKinds[TagOf(w) + 1], v |-> RestOf(w)]
OperandAt(c, i) == OperandOf(WordAt(c, i))
OperandCells(os) == ArrayCells([i \in DOMAIN os |-> OperandCell(os[i])])
OperandsAt(c, i) == LET ws == ArrayAt(c, i) IN Once([n \in DOMAIN ws |-> OperandOf(ws[n])])
-----------------------------------------------------------------------------
(* Statements. *)
StatementTypes ==
    <<"arrayAppend", "assignInt", "assignVar", "assignVarOnce", "block", "break", "call",
      "callDynamic", "dot", "equal", "isArray", "isDefined", "isObject", "isSet",
      "isUndefined", "len", "makeArray", "makeNull", "makeNumberInt", "makeNumberRef",
      "makeObject", "makeSet", "nop", "not", "notEqual", "objectInsert",
      "objectInsertOnce", "objectMerge", "resetLocal", "resultSetAdd", "returnLocal",
      "scan", "setAdd", "with">>
\* putTypeLength: the type above the length of the whole statement, in words.
Statement(op, fields) ==
    <<Tagged(CHOOSE t \in DOMAIN StatementTypes : StatementTypes[t] = op, Len(fields) + 1)>> \o fields
OpAt(c) == StatementTypes[TagOf(WordAt(c, 0)) % 64]
LengthAt(c) == RestOf(WordAt(c, 0))

Assigns == {"assignInt", "assignVar", "assignVarOnce"}
AssignCells(st) ==
    IF st.op = "assignInt" THEN Int64Cells(st.value) \o <<st.target>>
    ELSE <<st.target, OperandCell(st.source)>>
ReadAssign(op, c) ==
    IF op = "assignInt" THEN [op |-> op, value |-> Int64At(c, 1), target |-> WordAt(c, 3)]
    ELSE [op |-> op, source |-> OperandAt(c, 2), target |-> WordAt(c, 1)]

Calls == {"call", "callDynamic"}
CallCells(st) ==
    IF st.op = "call" THEN <<st.result, st.func>> \o OperandCells(st.args)
    ELSE <<st.result>> \o ArrayCells(st.args) \o OperandCells(st.path)
ReadCall(op, c) ==
    IF op = "call"
    THEN [op |-> op, func |-> WordAt(c, 2), args |-> OperandsAt(c, 3), result |-> WordAt(c, 1)]
    ELSE [op |-> op, args |-> ArrayAt(c, 2), path |-> OperandsAt(c, 2 + ArraySize(c, 2)),
          result |-> WordAt(c, 1)]

Compares == {"dot", "equal", "notEqual"}
CompareCells(st) ==
    IF st.op = "dot" THEN <<st.target, OperandCell(st.source), OperandCell(st.key)>>
    ELSE <<OperandCell(st.a), OperandCell(st.b)>>
ReadCompare(op, c) ==
    IF op = "dot"
    THEN [op |-> op, source |-> OperandAt(c, 2), key |-> OperandAt(c, 3), target |-> WordAt(c, 1)]
    ELSE [op |-> op, a |-> OperandAt(c, 1), b |-> OperandAt(c, 2)]

Tests == {"isArray", "isSet", "isObject", "isDefined", "isUndefined"}
OfLocal == {"isDefined", "isUndefined"}
TestCells(st) == <<IF st.op \in OfLocal THEN st.source ELSE OperandCell(st.source)>>
ReadTest(op, c) ==
    [op |-> op, source |-> IF op \in OfLocal THEN WordAt(c, 1) ELSE OperandAt(c, 1)]

Makes == {"makeNull", "makeNumberInt", "makeNumberRef", "makeArray", "makeObject", "makeSet"}
MakeCells(st) ==
    CASE st.op = "makeNumberInt" -> Int64Cells(st.value) \o <<st.target>>
      [] st.op = "makeNumberRef" -> <<st.index, st.target>>
      [] st.op = "makeArray" -> <<st.capacity, st.target>>
      [] OTHER -> <<st.target>>
ReadMake(op, c) ==
    CASE op = "makeNumberInt" -> [op |-> op, value |-> Int64At(c, 1), target |-> WordAt(c, 3)]
      [] op = "makeNumberRef" -> [op |-> op, index |-> WordAt(c, 1), target |-> WordAt(c, 2)]
      [] op = "makeArray" -> [op |-> op, capacity |-> WordAt(c, 1), target |-> WordAt(c, 2)]
      [] OTHER -> [op |-> op, target |-> WordAt(c, 1)]

Collects == {"len", "arrayAppend", "setAdd"}
CollectCells(st) ==
    CASE st.op = "len" -> <<st.target, OperandCell(st.source)>>
      [] st.op = "arrayAppend" -> <<st.array, OperandCell(st.value)>>
      [] OTHER -> <<st.set, OperandCell(st.value)>>
ReadCollect(op, c) ==
    CASE op = "len" -> [op |-> op, source |-> OperandAt(c, 2), target |-> WordAt(c, 1)]
      [] op = "arrayAppend" -> [op |-> op, value |-> OperandAt(c, 2), array |-> WordAt(c, 1)]
      [] OTHER -> [op |-> op, value |-> OperandAt(c, 2), set |-> WordAt(c, 1)]

Inserts == {"objectInsertOnce", "objectInsert", "objectMerge"}
InsertCells(st) ==
    IF st.op = "objectMerge" THEN <<st.a, st.b, st.target>>
    ELSE <<st.object, OperandCell(st.key), OperandCell(st.value)>>
ReadInsert(op, c) ==
    IF op = "objectMerge" THEN [op |-> op, a |-> WordAt(c, 1), b |-> WordAt(c, 2), target |-> WordAt(c, 3)]
    ELSE [op |-> op, key |-> OperandAt(c, 2), value |-> OperandAt(c, 3), object |-> WordAt(c, 1)]

Results == {"resetLocal", "resultSetAdd", "returnLocal"}
ResultCells(st) == <<st.local>>
ReadResult(op, c) == [op |-> op, local |-> WordAt(c, 1)]
-----------------------------------------------------------------------------
(* Blocks: a length, the number of parts, and statements one after the other, *)
(* or blocks behind an index.                                                 *)
RECURSIVE BlockCells(_), BlocksCells(_), StatementCells(_)
BlockCells(b) == LET body == FlattenSeq(Once([i \in DOMAIN b |-> StatementCells(b[i])]))
                 IN  <<Len(body) + 2, Len(b)>> \o body
BlocksCells(bs) == LET body == Indexed(Once([i \in DOMAIN bs |-> BlockCells(bs[i])]), 2)
                   IN  <<Len(body) + 2, Len(bs)>> \o body
ScanCells(st) == <<st.source, st.key, st.value>> \o BlockCells(st.block)
WithCells(st) == <<st.local, OperandCell(st.value)>> \o ArrayCells(st.path) \o BlockCells(st.block)
\* compileBlock: one case per kind of statement.
StatementCells(st) ==
    Statement(st.op,
        CASE st.op \in Assigns -> AssignCells(st)   [] st.op \in Calls -> CallCells(st)
          [] st.op \in Compares -> CompareCells(st) [] st.op \in Tests -> TestCells(st)
          [] st.op \in Makes -> MakeCells(st)       [] st.op \in Collects -> CollectCells(st)
          [] st.op \in Inserts -> InsertCells(st)   [] st.op \in Results -> ResultCells(st)
          [] st.op = "block" -> BlocksCells(st.blocks)
          [] st.op = "break" -> <<st.index>>
          [] st.op = "not" -> BlockCells(st.block)
          [] st.op = "scan" -> ScanCells(st)
          [] st.op = "with" -> WithCells(st)
          [] st.op = "nop" -> << >>)

RECURSIVE ReadBlock(_), ReadBlocks(_), ReadStatement(_), ReadStatements(_, _)
\* Each statement starts where the length of the one before it ends.
ReadStatements(c, n) ==
    IF n = 0 THEN << >>
    ELSE <<ReadStatement(c)>> \o ReadStatements(TailAt(c, LengthAt(c)), n - 1)
ReadBlock(c) == ReadStatements(TailAt(c, 2), WordAt(c, 1))
ReadBlocks(c) == Once([i \in 1 .. WordAt(c, 1) |-> ReadBlock(PartAt(c, 2, i))])
ReadScan(c) == [op |-> "scan", source |-> WordAt(c, 1), key |-> WordAt(c, 2),
                value |-> WordAt(c, 3), block |-> ReadBlock(TailAt(c, 4))]
ReadWith(c) == [op |-> "with", local |-> WordAt(c, 1), path |-> ArrayAt(c, 3),
                value |-> OperandAt(c, 2), block |-> ReadBlock(TailAt(c, 3 + ArraySize(c, 3)))]
ReadStatement(c) ==
    LET op == OpAt(c)
    IN  CASE op \in Assigns -> ReadAssign(op, c)   [] op \in Calls -> ReadCall(op, c)
          [] op \in Compares -> ReadCompare(op, c) [] op \in Tests -> ReadTest(op, c)
          [] op \in Makes -> ReadMake(op, c)       [] op \in Collects -> ReadCollect(op, c)
          [] op \in Inserts -> ReadInsert(op, c)   [] op \in Results -> ReadResult(op, c)
          [] op = "block" -> [op |-> op, blocks |-> ReadBlocks(TailAt(c, 1))]
          [] op = "break" -> [op |-> op, index |-> WordAt(c, 1)]
          [] op = "not" -> [op |-> op, block |-> ReadBlock(TailAt(c, 1))]
          [] op = "scan" -> ReadScan(c)
          [] op = "with" -> ReadWith(c)
          [] op = "nop" -> [op |-> op]
-----------------------------------------------------------------------------
(* Functions: built-ins of topdown, specialized ones, and rules.  A           *)
(* specialized built-in is followed by the general form, which nobody reads.  *)
BuiltinCells(f) == <<5, 0, IF f.relation THEN 1 ELSE 0>> \o StringCells(f.name)
SpecializedCells(f) == <<3, 1, f.num>> \o BuiltinCells(f)
RegoCompileCells(f) == <<2, 3>> \o BuiltinCells(f)
FunctionCells(f, index) ==
    LET parts == <<ArrayCells(f.params), StringCells(f.name), StringArrayCells(f.path),
                   BlocksCells(f.blocks)>>
        body == Indexed(parts, 4)
    IN  <<Len(body) + 4, 2, index, f.ret>> \o body
FuncCells(f, index) ==
    CASE f.kind = "builtin" -> BuiltinCells(f)
      [] f.kind = "specialized" -> SpecializedCells(f)
      [] f.kind = "regoCompile" -> RegoCompileCells(f)
      [] f.kind = "function" -> FunctionCells(f, index)
ReadFunction(c) ==
    CASE WordAt(c, 1) = 0 -> [kind |-> "builtin", relation |-> WordAt(c, 2) # 0, name |-> StringAt(c, 3)]
      [] WordAt(c, 1) = 1 -> [kind |-> "specialized", num |-> WordAt(c, 2)]
      [] WordAt(c, 1) = 3 -> [kind |-> "regoCompile"]
      [] WordAt(c, 1) = 2 ->
            [kind |-> "function", index |-> WordAt(c, 2), params |-> ArrayAt(c, 8), ret |-> WordAt(c, 3),
             name |-> StringAt(c, WordAt(c, 5)), path |-> StringArrayAt(c, WordAt(c, 6)),
             blocks |-> ReadBlocks(TailAt(c, WordAt(c, 7)))]

PlanCells(p) == LET body == Indexed(<<StringCells(p.name), BlocksCells(p.blocks)>>, 1)
                IN  <<Len(body) + 1>> \o body
ReadPlan(c) == [name |-> StringAt(c, WordAt(c, 1)), blocks |-> ReadBlocks(TailAt(c, WordAt(c, 2)))]

\* compileStrings, compileFuncs, compilePlans: each a count and indexed parts.
StringsCells(p) == StringArrayCells(p.strings)
FunctionsCells(p) ==
    <<Len(p.funcs)>> \o Indexed(Once([i \in DOMAIN p.funcs |-> FuncCells(p.funcs[i], i - 1)]), 1)
PlansCells(p) == <<Len(p.plans)>> \o Indexed(Once([i \in DOMAIN p.plans |-> PlanCells(p.plans[i])]), 1)

Magic == 7
Version == 0
HeaderLength == 6
Header(length, strings, functions, plans) == <<Magic, Version, length, strings, functions, plans>>
Laid(s, f, l) ==
    Header(HeaderLength + Len(s) + Len(f) + Len(l), 0, Len(s), Len(s) + Len(f)) \o s \o f \o l
Compile(p) == Laid(StringsCells(p), FunctionsCells(p), PlansCells(p))

IsValidHeader(e) == Len(e) >= HeaderLength /\ WordAt(e, 0) = Magic
IsValidExecutable(e) == IsValidHeader(e) /\ WordAt(e, 1) = Version /\ WordAt(e, 2) >= Len(e)
Section(e, n) == TailAt(e, HeaderLength + WordAt(e, 3 + n))
ReadExecutable(e) ==
    LET s == Section(e, 0)
        f == Section(e, 1)
        p == Section(e, 2)
    IN  [strings |-> Once(StringArrayAt(s, 0)),
         funcs |-> Once([i \in 1 .. WordAt(f, 0) |-> ReadFunction(PartAt(f, 1, i))]),
         plans |-> Once([i \in 1 .. WordAt(p, 0) |-> ReadPlan(PartAt(p, 1, i))])]
=============================================================================
