-------------------------------- MODULE RegoVM --------------------------------
(* Evaluation of a compiled policy (pkg/vm/vm.go, statements.go, data.go):    *)
(* statements over registers, calls with memoized results, `with`, and the    *)
(* pool of register lists that all evaluations of the process share.          *)
(*                                                                            *)
(* A value is a record: scalars carry an integer (the string that is the text *)
(* of a number carries that number), arrays a sequence, sets a set, objects a *)
(* function on values.  Values are compared and copied by value here; what    *)
(* sharing does to them is the subject of JsonObjects and UpdateLog.          *)
EXTENDS VMExecutable, FiniteSets, Functions

CONSTANTS
    Requests,     \* policies and how they are evaluated
    ProgramData,  \* the data document
    BuiltinValues,\* what the general built-in returns for an argument
    RegistersSize,\* values in one list of registers (32 in the code)
    InstrBatch,   \* statements between two looks at the limit (32 in the code)
    Unlimited     \* more instructions, or looks at the limit, than any request needs

VARIABLES
    registersPool,\* lists of registers that were given back
    evaluated     \* the last evaluation: what was asked and what came back

vmVars == <<registersPool, evaluated>>
-----------------------------------------------------------------------------
Undefined == [k |-> "undefined"]
Null == [k |-> "null"]
Bool(b) == [k |-> "bool", v |-> IF b THEN 1 ELSE 0]
Str(x) == [k |-> "str", v |-> x]
Num(n) == [k |-> "num", v |-> n]
Arr(e) == [k |-> "arr", e |-> e]
Obj(m) == [k |-> "obj", m |-> m]
SetOf(s) == [k |-> "set", s |-> s]
Defined(v) == v # Undefined

(* Operations on values (data.go). *)
\* DataOperations.Get: elements by index, members by key, and sets by element.
ValueGet(v, key) ==
    CASE v.k = "arr" -> IF key.k = "num" /\ key.v \in 0 .. Len(v.e) - 1 THEN v.e[key.v + 1] ELSE Undefined
      [] v.k = "obj" -> IF key \in DOMAIN v.m THEN v.m[key] ELSE Undefined
      [] v.k = "set" -> IF key \in v.s THEN key ELSE Undefined
      [] OTHER -> Undefined
\* State.DataGet: a number also finds the member its text names.
DataGet(v, key) ==
    LET found == ValueGet(v, key)
    IN  IF Defined(found) \/ key.k # "num" THEN found ELSE ValueGet(v, Str(key.v))
\* DataOperations.Iter: nothing for a value that holds no others.
Pairs(v) ==
    CASE v.k = "arr" -> [i \in DOMAIN v.e |-> <<Num(i - 1), v.e[i]>>]
      [] v.k = "obj" -> SetToSeq({<<x, v.m[x]>> : x \in DOMAIN v.m})
      [] v.k = "set" -> SetToSeq({<<x, x>> : x \in v.s})
      [] OTHER -> << >>
SizeOf(v) ==
    CASE v.k = "arr" -> Len(v.e) [] v.k = "obj" -> Cardinality(DOMAIN v.m)
      [] v.k = "set" -> Cardinality(v.s) [] v.k = "str" -> 1 [] OTHER -> 0
ObjectInsert(o, key, v) == Obj([x \in DOMAIN o.m \cup {key} |-> IF x = key THEN v ELSE o.m[x]])
RECURSIVE ObjectMerge(_, _)
ObjectMerge(a, b) ==
    IF a.k # "obj" \/ b.k # "obj" THEN a
    ELSE Obj([x \in DOMAIN a.m \cup DOMAIN b.m |->
                IF x \notin DOMAIN b.m THEN a.m[x]
                ELSE IF x \notin DOMAIN a.m THEN b.m[x]
                ELSE ObjectMerge(a.m[x], b.m[x])])
\* with.upsert: copies along the path; anything else than an object gives way.
RECURSIVE Upsert(_, _, _)
Upsert(v, path, new) ==
    LET o == IF v.k = "obj" THEN v ELSE Obj(<< >>)
    IN  IF path = << >> THEN new
        ELSE ObjectInsert(o, Head(path), Upsert(ValueGet(o, Head(path)), Tail(path), new))
-----------------------------------------------------------------------------
(* The state of one evaluation.  A frame is a plan or a function call: lists  *)
(* of registers, which of them hold data, and the register to return.  The    *)
(* globals g are shared by the frames of an evaluation.                       *)
Input == 0
Data == 1
Unused == 2
NoReturn == -1
FreshRegisters == [i \in 0 .. RegistersSize - 1 |-> Undefined]

\* State.findReg: the frame with as many lists as register l needs; lists
\* come from the pool as they are, and are made new when it is empty.
FindReg(s, l) ==
    LET missing == (l \div RegistersSize + 1) - Len(s.regs)
        n == Len(s.g.pool)
    IN  IF missing <= 0 THEN s
        ELSE LET pooled == IF missing < n THEN missing ELSE n
             IN  [s EXCEPT !.regs = @ \o SubSeq(s.g.pool, n - pooled + 1, n)
                                      \o [i \in 1 .. missing - pooled |-> FreshRegisters],
                           !.g.pool = SubSeq(@, 1, n - pooled)]
Local(s, l) == FindReg(s, l).regs[l \div RegistersSize + 1][l % RegistersSize]
SetValue(s, l, v) ==
    [FindReg(s, l) EXCEPT !.regs[l \div RegistersSize + 1][l % RegistersSize] = v]
Unset(s, l) == [SetValue(s, l, Undefined) EXCEPT !.data = @ \ {l}]
SetReturn(s, l) == [s EXCEPT !.ret = IF Defined(Local(s, l)) THEN l ELSE NoReturn]
SetReturnValue(s, l, v) == [SetValue(s, l, v) EXCEPT !.ret = l]
Value(s, o) ==
    CASE o.t = "local" -> Local(s, o.v)
      [] o.t = "bool" -> Bool(o.v = 1)
      [] o.t = "string" -> Str(s.g.policy.strings[o.v + 1])

NewState(g) ==
    LET s == [regs |-> <<FreshRegisters>>, data |-> {Data}, ret |-> NoReturn, g |-> g]
    IN  SetValue(SetValue(s, Input, g.input), Data, g.doc)
\* State.Release: all lists but the first, which is part of the frame, are
\* cleared and go back to the pool.
Release(s) ==
    [s.g EXCEPT !.pool = @ \o [i \in 1 .. Len(s.regs) - 1 |-> FreshRegisters]]

(* Outcome of a statement: the frame, whether to leave blocks and how many    *)
(* more than one, and an error.                                               *)
Outcome(s, stop, index, err) == [s |-> s, stop |-> stop, index |-> index, err |-> err]
Go(s) == Outcome(s, FALSE, 0, "")
Stop(s) == Outcome(s, TRUE, 0, "")
StopIf(s, b) == Outcome(s, b, 0, "")
Fail(s, err) == Outcome(s, FALSE, 0, err)

\* State.Instr: cancellation, then the limit, and only then the count.
Instr(s, n) ==
    LET looked == [s EXCEPT !.g.looks = @ + 1]
    IN  IF s.g.looks >= s.g.cancelAt THEN Fail(looked, "canceled")
        ELSE IF s.g.instr > s.g.limit THEN Fail(looked, "limit")
        ELSE Go([looked EXCEPT !.g.instr = @ + n])

\* Results of functions are kept by function and arguments, on the top of a
\* stack that `with` pushes on.  An undefined argument is the empty string.
EmptyString == Str(0)
MemoArg(v) == IF Defined(v) THEN v ELSE EmptyString
MemoKey(f, args) == <<f.index, [i \in DOMAIN args |-> MemoArg(args[i])]>>
IsHashable(s, args) ==
    /\ s.g.memoizing
    /\ Len(args) <= 9
    /\ \A i \in DOMAIN args : args[i].k \notin {"arr", "obj", "set"}
\* Faulty variant: the results from outside stay valid inside.
MemoizePushShared(s) == [s EXCEPT !.g.memo = Append(@, Last(@))]
MemoizePush(s) == [s EXCEPT !.g.memo = Append(@, << >>)]
MemoizePop(s) == [s EXCEPT !.g.memo = Front(@)]
MemoizeInsert(s, key, v) ==
    [s EXCEPT !.g.memo[Len(s.g.memo)] = [x \in DOMAIN @ \cup {key} |-> IF x = key THEN v ELSE @[x]]]
-----------------------------------------------------------------------------
(* Statements (statements.go). *)
RECURSIVE Execute(_, _), Block(_, _), Straight(_, _), Counted(_, _, _, _), InOrder(_, _), InTurn(_, _), ForEach(_, _, _)
Ended(o) == o.stop \/ o.err # ""

\* not and with: the statements of a block one after the other.
Straight(stmts, o) ==
    IF stmts = << >> \/ Ended(o) THEN o ELSE Straight(Tail(stmts), Execute(Head(stmts), o.s))

\* block.Execute: looks at the limit before every InstrBatch-th statement and
\* at the end; n statements are not counted yet.  A break of index 0 ends
\* this block and no other.
CountedFrom(stmts, i, n, look) ==
    IF look.err # "" THEN [o |-> look, last |-> Instr(look.s, 0)]
    ELSE Counted(stmts, i + 1, n + 1, Execute(stmts[i], look.s))
Counted(stmts, i, n, o) ==
    LET due == (i - 1) % InstrBatch = 0
    IN  IF i > Len(stmts) \/ Ended(o) THEN [o |-> o, last |-> Instr(o.s, n)]
        ELSE CountedFrom(stmts, i, IF due THEN 0 ELSE n, IF due THEN Instr(o.s, n) ELSE Go(o.s))
BlockEnd(o, last) ==
    IF o.err # "" THEN Fail(last.s, o.err)
    ELSE IF last.err # "" THEN last
    ELSE IF o.stop /\ o.index > 0 THEN Outcome(last.s, TRUE, o.index - 1, "")
    ELSE Go(last.s)
BlockRan(run) == BlockEnd(run.o, run.last)
Block(stmts, s) == BlockRan(Counted(stmts, 1, 0, Go(s)))

\* Blocks of a statement: until one says to leave more than itself.
InOrder(blocks, o) ==
    IF blocks = << >> \/ Ended(o) THEN o ELSE InOrder(Tail(blocks), Block(Head(blocks), o.s))
\* Blocks of a function: all of them.
InTurn(blocks, o) ==
    IF blocks = << >> \/ o.err # "" THEN o ELSE InTurn(Tail(blocks), Block(Head(blocks), o.s))

ForEach(st, pairs, o) ==
    IF pairs = << >> \/ Ended(o) THEN o
    ELSE ForEach(st, Tail(pairs),
                 Block(st.block, SetValue(SetValue(o.s, st.key, pairs[1][1]), st.value, pairs[1][2])))
LoopEnd(run) ==
    IF run.err # "" THEN Fail(run.s, run.err)
    ELSE IF run.stop /\ run.index > 0 THEN Outcome(run.s, TRUE, run.index - 1, "")
    ELSE Go(run.s)
Scan(st, s) == LoopEnd(ForEach(st, Pairs(Local(s, st.source)), Go(s)))

Inverted(run) ==
    IF run.err # "" THEN Fail(run.s, run.err)
    ELSE IF ~run.stop THEN Stop(run.s)
    ELSE IF run.index = 0 THEN Go(run.s) ELSE Outcome(run.s, TRUE, run.index - 1, "")
Not(st, s) == Inverted(Straight(st.block, Go(s)))

\* The register is set for the block and restored on every way out; a break
\* out of the block loses its index.
Restored(run, l, old) ==
    Outcome(MemoizePop(SetValue(run.s, l, old)), run.err = "" /\ run.stop, 0, run.err)
WithStatement(st, s) ==
    LET old == Local(s, st.local)
        path == [i \in DOMAIN st.path |-> Str(s.g.policy.strings[st.path[i] + 1])]
    IN  Restored(Straight(st.block, Go(SetValue(MemoizePush(s), st.local, Upsert(old, path, Value(s, st.value))))),
                 st.local, old)

RECURSIVE Bound(_, _, _)
Bound(s, params, args) ==
    IF params = << >> THEN s ELSE Bound(SetValue(s, Head(params), Head(args)), Tail(params), Tail(args))
\* function.Execute, in a frame of its own.
ResultOf(s) == IF s.ret = NoReturn THEN Undefined ELSE Local(s, s.ret)
Remember(run, hashable, key) ==
    Outcome(IF hashable THEN MemoizeInsert(run.s, key, ResultOf(run.s)) ELSE run.s, FALSE, 0, run.err)
Recall(f, s, v) == Go(IF Defined(v) THEN SetReturnValue(s, f.ret, v) ELSE s)
FunctionMemoized(f, s, args, hashable, key) ==
    IF hashable /\ key \in DOMAIN Last(s.g.memo) THEN Recall(f, s, Last(s.g.memo)[key])
    ELSE Remember(InTurn(f.blocks, Go(Bound(s, f.params, args))), hashable, key)
FunctionExecute(f, s, args) ==
    LET own == SubSeq(args, 3, Len(f.params))
    IN  FunctionMemoized(f, s, args, IsHashable(s, own), MemoKey(f, own))

\* builtin.Execute: undefined for an undefined argument; a relation collects
\* its values in an array; what is not deterministic is asked once.
BuiltinExecute(f, s, args) ==
    LET asked == args \in DOMAIN s.g.ndb
        v == IF asked THEN s.g.ndb[args] ELSE BuiltinValues[args[1]]
        noted == IF asked THEN s ELSE [s EXCEPT !.g.ndb = [x \in DOMAIN @ \cup {args} |->
                                                              IF x = args THEN v ELSE @[x]]]
    IN  IF \E i \in DOMAIN args : ~Defined(args[i]) THEN Go(s)
        ELSE IF f.relation THEN Go(SetReturnValue(s, Unused, Arr([i \in 1 .. SizeOf(args[1]) |-> Num(i)])))
        ELSE IF v = Undefined THEN Go([s EXCEPT !.g.errors = @ + 1])
        ELSE Go(SetReturnValue(noted, Unused, v))
\* Specialized built-ins: counting, and equality.
SpecializedExecute(f, s, args) ==
    IF f.num = 13 THEN Go(SetReturnValue(s, Unused, Num(SizeOf(args[1]))))
    ELSE Go(SetReturnValue(s, Unused, Bool(args[1] = args[2])))

\* call.Execute and callDynamic.Execute: a frame for the call, its result in
\* a register of the caller, and the frame is released.
Invoke(f, inner, args) ==
    CASE f.kind = "function" -> FunctionExecute(f, inner, args)
      [] f.kind = "builtin" -> BuiltinExecute(f, inner, args)
      [] OTHER -> SpecializedExecute(f, inner, args)
Returned(st, run, back, undefined) ==
    IF run.err # "" THEN Fail(back, run.err)
    ELSE IF run.s.ret = NoReturn THEN undefined
    ELSE Go(SetValue(back, st.result, Local(run.s, run.s.ret)))
CallReturns(st, s, run, levels) ==
    LET back == [s EXCEPT !.g = Release(run.s)] IN Returned(st, run, back, Outcome(back, TRUE, levels, ""))
Call(st, s) ==
    LET args == Once([i \in DOMAIN st.args |-> Value(s, st.args[i])])
    IN  CallReturns(st, s, Invoke(s.g.policy.funcs[st.func + 1], NewState(s.g), args), 0)

\* A path that names no function: the data document itself, or no mapping.
ExternalCall(st, s, path) ==
    CASE Len(path) > 1 \/ ~Defined(Local(s, Data)) -> Stop(s)
      [] Len(st.args) = 2 -> Go(SetValue(s, st.result, Local(s, Data)))
      [] OTHER -> Fail(s, "call to data")
CallFound(st, s, path, found) ==
    LET args == Once([i \in DOMAIN st.args |-> Local(s, st.args[i])])
    IN  IF found = {} THEN ExternalCall(st, s, path)
        ELSE CallReturns(st, s, FunctionExecute(s.g.policy.funcs[Min(found)], NewState(s.g), args), 3)
CallPath(st, s, path) ==
    CallFound(st, s, path, {i \in DOMAIN s.g.policy.funcs : /\ s.g.policy.funcs[i].kind = "function"
                                                          /\ s.g.policy.funcs[i].path = path})
CallDynamic(st, s) == CallPath(st, s, Once([i \in DOMAIN st.path |-> Value(s, st.path[i]).v]))

Dot(st, s) ==
    LET src == Local(s, st.source.v)
        key == Value(s, st.key)
        isData == st.source.v \in s.data
        v == IF isData THEN DataGet(src, key) ELSE ValueGet(src, key)
    IN  IF st.source.t # "local" THEN Stop(s)
        ELSE IF ~Defined(src) \/ ~Defined(key) THEN Stop(Unset(s, st.target))
        ELSE IF ~Defined(v) THEN Stop(Unset(s, st.target))
        ELSE Go([SetValue(s, st.target, v) EXCEPT !.data = IF isData THEN @ \cup {st.target} ELSE @])

Test(st, s) ==
    CASE st.op = "equal" -> StopIf(s, Value(s, st.a) # Value(s, st.b))
      [] st.op = "notEqual" -> StopIf(s, Value(s, st.a) = Value(s, st.b))
      [] st.op = "isArray" -> StopIf(s, Value(s, st.source).k # "arr")
      [] st.op = "isSet" -> StopIf(s, Value(s, st.source).k # "set")
      [] st.op = "isObject" -> StopIf(s, Value(s, st.source).k # "obj")
      [] st.op = "isDefined" -> StopIf(s, ~Defined(Local(s, st.source)))
      [] st.op = "isUndefined" -> StopIf(s, Defined(Local(s, st.source)))

AssignVarOnce(st, s) ==
    IF ~Defined(Local(s, st.target)) THEN Go(SetValue(s, st.target, Value(s, st.source)))
    ELSE IF Value(s, st.source) = Local(s, st.target) THEN Go(s)
    ELSE Fail(s, "assign conflict")

\* Made is the new value of a register; an undefined part is invalid data.
Made(s, st) ==
    CASE st.op = "assignInt" -> Num(st.value)
      [] st.op = "assignVar" -> Value(s, st.source)
      [] st.op = "makeNull" -> Null
      [] st.op = "makeNumberInt" -> Num(st.value)
      [] st.op = "makeNumberRef" -> Num(s.g.policy.strings[st.index + 1])
      [] st.op = "makeArray" -> Arr(<< >>)
      [] st.op = "makeSet" -> SetOf({})
      [] st.op = "makeObject" -> Obj(<< >>)
      [] st.op = "len" -> Num(SizeOf(Value(s, st.source)))

Collect(st, s) ==
    LET to == IF st.op = "arrayAppend" THEN st.array ELSE st.set
        old == Local(s, to)
        v == Value(s, st.value)
    IN  IF ~Defined(v) \/ ~Defined(old) THEN Fail(s, "invalid data")
        ELSE IF st.op = "arrayAppend"
        THEN Go(IF old.k = "arr" THEN SetValue(s, to, Arr(Append(old.e, v))) ELSE s)
        ELSE Go(IF old.k = "set" THEN SetValue(s, to, SetOf(old.s \cup {v})) ELSE s)

ObjectPut(st, s) ==
    LET old == Local(s, st.object)
        key == Value(s, st.key)
        v == Value(s, st.value)
        there == ValueGet(old, key)
    IN  IF \E x \in {old, key, v} : ~Defined(x) THEN Fail(s, "invalid data")
        ELSE IF st.op = "objectInsertOnce" /\ old.k = "obj" /\ Defined(there) /\ there # v
        THEN Fail(s, "insert conflict")
        ELSE Go(IF old.k = "obj" THEN SetValue(s, st.object, ObjectInsert(old, key, v)) ELSE s)

Merge(st, s) ==
    LET a == Local(s, st.a)
        b == Local(s, st.b)
    IN  IF ~Defined(a) THEN Go(SetValue(s, st.target, b))
        ELSE IF ~Defined(b) THEN Go(SetValue(s, st.target, a))
        ELSE IF a.k # "obj" \/ b.k # "obj" THEN Fail(s, "insert conflict")
        ELSE Go(SetValue(s, st.target, ObjectMerge(a, b)))

ResultSetAdd(st, s) ==
    LET v == Local(s, st.local) IN Go(IF Defined(v) THEN [s EXCEPT !.g.results = @ \cup {v}] ELSE s)

\* statement.Execute: the table of statement types.
Execute(st, s) ==
    CASE st.op = "nop" -> Go(s)
      [] st.op = "break" -> Outcome(s, TRUE, st.index, "")
      [] st.op = "block" -> InOrder(st.blocks, Go(s))
      [] st.op = "scan" -> Scan(st, s)
      [] st.op = "not" -> Not(st, s)
      [] st.op = "with" -> WithStatement(st, s)
      [] st.op = "call" -> Call(st, s)
      [] st.op = "callDynamic" -> CallDynamic(st, s)
      [] st.op = "dot" -> Dot(st, s)
      [] st.op = "assignVarOnce" -> AssignVarOnce(st, s)
      [] st.op \in {"equal", "notEqual"} \cup Tests -> Test(st, s)
      [] st.op = "len" /\ ~Defined(Value(s, st.source)) -> Fail(s, "invalid data")
      [] st.op \in {"assignInt", "assignVar", "len"} \cup Makes -> Go(SetValue(s, st.target, Made(s, st)))
      [] st.op \in {"arrayAppend", "setAdd"} -> Collect(st, s)
      [] st.op \in {"objectInsert", "objectInsertOnce"} -> ObjectPut(st, s)
      [] st.op = "objectMerge" -> Merge(st, s)
      [] st.op = "returnLocal" -> Go(SetReturn(s, st.local))
      [] st.op = "resetLocal" -> Go(Unset(s, st.local))
      [] st.op = "resultSetAdd" -> ResultSetAdd(st, s)
-----------------------------------------------------------------------------
(* VM.Eval: finds the plan by name, runs it on a fresh frame and returns the  *)
(* result set, the first error of a built-in when these are strict, or the    *)
(* error that ended the plan.  A request r has a program, the name of a plan, *)
(* an input or Undefined, whether errors are strict, a limit, and the number  *)
(* of looks after which a cancellation is seen.                               *)
Globals(r, policy, pool, memoizing) ==
    [policy |-> policy, input |-> r.input, doc |-> ProgramData, memo |-> <<<< >>>>, memoizing |-> memoizing,
     results |-> {}, instr |-> 0, looks |-> 0, limit |-> r.limit, cancelAt |-> r.cancelAt,
     pool |-> pool, ndb |-> << >>, errors |-> 0]
RECURSIVE PlanBlocks(_, _)
PlanFrom(blocks, look) ==
    IF look.err # "" THEN look ELSE PlanBlocks(Tail(blocks), Block(Head(blocks), look.s))
PlanBlocks(blocks, o) ==
    IF blocks = << >> \/ o.err # "" THEN o ELSE PlanFrom(blocks, Instr(o.s, 1))
EvalEnd(r, run) ==
    LET err == CASE run.err # "" -> run.err
                 [] run.err = "" /\ r.strict /\ run.s.g.errors > 0 -> "builtin error"
                 [] OTHER -> ""
    IN  [err |-> err, results |-> IF err = "" THEN run.s.g.results ELSE {}, pool |-> Release(run.s).pool]
EvalPlan(r, named, policy, pool, memoizing) ==
    IF named = << >> THEN [err |-> "not found", results |-> {}, pool |-> pool]
    ELSE EvalEnd(r, PlanBlocks(named[1].blocks, Go(NewState(Globals(r, policy, pool, memoizing)))))
EvalWith(r, policy, pool, memoizing) ==
    EvalPlan(r, SelectSeq(policy.plans, LAMBDA p : p.name = r.name), policy, pool, memoizing)

NoEval == [err |-> "none"]
VMInit == registersPool = << >> /\ evaluated = NoEval

\* An evaluation reads the executable the compiler wrote.  The pool keeps at
\* most MaxPooled lists; the rest is left to the garbage collector.
MaxPooled == 3
VMAnswered(r, out) ==
    /\ evaluated' = [ask |-> r, err |-> out.err, results |-> out.results]
    /\ registersPool' = SubSeq(out.pool, 1, Min({Len(out.pool), MaxPooled}))
EvalExecutable(r, e) ==
    IF IsValidExecutable(e) THEN EvalWith(r, ReadExecutable(e), registersPool, TRUE)
    ELSE [err |-> "invalid executable", results |-> {}, pool |-> registersPool]
VMEval(r) ==
    /\ evaluated = NoEval
    /\ VMAnswered(r, EvalExecutable(r, Compile(r.program)))

\* The caller takes the result.
Taken == evaluated # NoEval /\ evaluated' = NoEval /\ UNCHANGED registersPool

VMNext == (\E r \in Requests : VMEval(r)) \/ Taken
VMSpec == VMInit /\ [][VMNext]_vmVars
-----------------------------------------------------------------------------
VMTypeOK ==
    /\ registersPool \in Seq([0 .. RegistersSize - 1 -> {Undefined}])
    /\ evaluated = NoEval \/ evaluated.ask \in Requests

AnswerOf(out) == [err |-> out.err, results |-> out.results]
Reference(r) ==
    AnswerOf(EvalWith([r EXCEPT !.limit = Unlimited, !.cancelAt = Unlimited], r.program, << >>, FALSE))

\* Whatever was evaluated before, an evaluation of the executable gives what
\* the policy means when it is evaluated as it stands, without memoized
\* results, on new registers and without a limit; a limit or a cancellation
\* ends it with that error and no result (VM.Eval, vm.go:214).
EvalFaithful ==
    evaluated # NoEval =>
        \/ [err |-> evaluated.err, results |-> evaluated.results] = Reference(evaluated.ask)
        \/ evaluated.err \in {"limit", "canceled"} /\ evaluated.results = {}
=============================================================================
