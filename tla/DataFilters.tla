----------------------------- MODULE DataFilters -----------------------------
(* The rego.compile built-in (pkg/vm/rego_compile.go): the policy is          *)
(* evaluated partially, what remains is checked against what the target can   *)
(* express (pkg/compile/checks.go, constraints.go), turned into a tree of     *)
(* conditions (pkg/compile/ucast.go) and the tree into the WHERE clause of a  *)
(* query (pkg/ucast/ucast.go).  Partial evaluation is OPA's: its answer, a    *)
(* set of bodies over unknown columns, is part of the request here.  What a   *)
(* database makes of a clause is modelled with SQL's three truth values.      *)
EXTENDS Integers, Sequences, SequencesExt, FiniteSets, FiniteSetsExt

CONSTANTS FilterRequests, \* calls of rego.compile
          FilterRows      \* rows a database may hold

VARIABLES filterReq, \* the call, before and after its answer
          filterAns  \* its answer

filterVars == <<filterReq, filterAns>>

\* Characters of strings; a string is a sequence of them.
Under == 2
Percent == 3
Backslash == 4

NoAnswer == [t |-> "none"]
UndefinedAnswer == [t |-> "undefined"]
Raised(e) == [t |-> "raised", e |-> e]
ErrorObject(e) == [t |-> "error", e |-> e]
-----------------------------------------------------------------------------
(* Constraints of targets. *)

UcastBuiltins == {"eq", "neq", "lt", "lte", "gt", "gte"}
UcastLINQBuiltins == UcastBuiltins \cup {"internal.member_2"}
SQLiteBuiltins == UcastBuiltins \cup {"internal.member_2"}
AllBuiltins == UcastBuiltins \cup {"internal.member_2", "startswith", "endswith", "contains"}

NewConstraints(target, variant) ==
    CASE target = "sql" /\ variant = "sqlite" ->
            [builtins |-> SQLiteBuiltins, features |-> {"not", "field-ref"}]
      [] target = "sql" /\ variant \in {"mysql", "postgresql", "sqlserver", "sqlite-internal"} ->
            [builtins |-> AllBuiltins, features |-> {"not", "field-ref"}]
      [] target = "ucast" /\ variant = "all" -> [builtins |-> AllBuiltins, features |-> {"not", "field-ref"}]
      [] target = "ucast" /\ variant = "prisma" -> [builtins |-> AllBuiltins, features |-> {"not"}]
      [] target = "ucast" /\ variant = "linq" -> [builtins |-> UcastLINQBuiltins, features |-> {}]
      [] target = "ucast" /\ variant \notin {"all", "prisma", "linq"} ->
            [builtins |-> UcastBuiltins, features |-> {}]
      [] OTHER -> [unsupported |-> target]

\* The names of columns that can be written without their table.
ShortsFromMappings(mappings) ==
    UNION {{n \in DOMAIN mappings[d] : "$table" \in DOMAIN mappings[d][n]} : d \in DOMAIN mappings}
-----------------------------------------------------------------------------
(* The checks of what partial evaluation leaves.  An expression is a call or  *)
(* a term, perhaps negated, perhaps under `with`; an operand is a reference,  *)
(* a scalar, a collection of scalars or a nested call.                        *)

IsRef(o) == o.t = "ref"
IsScalar(o) == o.t \in {"null", "bool", "num", "str"}

\* No error is the empty set, an error a set of one.
CheckCall(c, e) ==
    IF e.kind = "call" THEN IF e.neg /\ "not" \notin c.features THEN {"not"} ELSE {}
    ELSE IF e.neg THEN {"not"}
    ELSE IF e.kind = "every" THEN {"every"}
    ELSE IF e.with THEN {"with"} ELSE {"statement"}

\* A table and a column, or a column alone that a mapping gives a table.
CheckOperand(shorts, o) ==
    CASE o.t = "call" -> {"nested call"}
      [] IsRef(o) /\ ~(o.root = "input" /\ (Len(o.path) = 2 \/ (Len(o.path) = 1 /\ o.path[1] \in shorts))) -> {"ref"}
      [] OTHER -> {}

\* An expression under `with` is left to CheckCall.
CheckBuiltins(c, shorts, e) ==
    LET refs == {i \in 1 .. 2 : IsRef(e.args[i])}
        operands == UNION {CheckOperand(shorts, e.args[i]) : i \in 1 .. 2}
        unknownFirst == e.op \in AllBuiltins \ UcastBuiltins
    IN  IF e.with \/ e.kind # "call" THEN {}
        ELSE IF e.op \notin AllBuiltins THEN {"builtin"}
        ELSE IF e.op \notin c.builtins THEN {"unsupported"}
        ELSE IF operands # {} THEN operands
        ELSE IF Cardinality(refs) = 2 /\ "field-ref" \notin c.features THEN {"field-ref"}
        ELSE IF unknownFirst /\ 1 \notin refs THEN {"rhs must be known"}
        ELSE IF ~unknownFirst /\ Cardinality(refs) # 2 /\ ~ \E i \in 1 .. 2 : IsScalar(e.args[i]) THEN {"non-scalar"}
        ELSE {}

Check(queries, c, shorts) ==
    UNION {CheckCall(c, e) \cup CheckBuiltins(c, shorts, e) : e \in UNION {ToSet(body) : body \in ToSet(queries)}}
-----------------------------------------------------------------------------
(* From bodies to a tree of conditions. Nothing is the empty record; it       *)
(* stands for no condition at all.                                            *)

Nothing == [type |-> "nil"]
Compound(op, nodes) == [type |-> "compound", op |-> op, value |-> nodes]

\* The table and the column that a reference means, as the mapping of the
\* dialect has it.
TranslateField(path, translations) ==
    LET at(n, key) == n \in DOMAIN translations /\ key \in DOMAIN translations[n]
        short == at(path[1], "$table")
        full == IF short THEN <<translations[path[1]]["$table"], path[1]>> ELSE path
        table == IF at(full[1], "$self") THEN translations[full[1]]["$self"] ELSE full[1]
    IN  IF Len(full) = 1 THEN <<table>>
        ELSE <<table, IF at(full[1], full[2]) THEN translations[full[1]][full[2]] ELSE full[2]>>

\* A reference with a number in it names no field.
RefToField(o, translations) ==
    IF "0" \in ToSet(o.path) THEN << >> ELSE TranslateField(o.path, translations)

\* Sets and arrays become lists, objects do not.
ToFieldNode(op, ref, o, translations, refOK) ==
    LET field == RefToField(ref, translations)
        value == CASE IsRef(o) /\ refOK -> [t |-> "field", field |-> RefToField(o, translations)]
                   [] IsRef(o) /\ ~refOK -> [t |-> "null"]
                   [] OTHER -> o
    IN  IF field = << >> \/ (value.t = "field" /\ value.field = << >>) THEN Nothing
        ELSE [type |-> "field", op |-> op, field |-> field, value |-> value]

\* What replaces an operator when its operands change places.
Reversed(op) ==
    CASE op = "lt" -> "gte" [] op = "lte" -> "gt" [] op = "gt" -> "lte" [] op = "gte" -> "lt" [] OTHER -> op

\* The unknown is the left operand if that is a reference, else the right
\* one: partial evaluation leaves no call whose operands are both known.
RefFromCall(e) == IF IsRef(e.args[1]) THEN <<e.args[1], FALSE>> ELSE <<e.args[2], TRUE>>

\* The unknown is the field.  A negated call without a node panics.
CallToNode(e, translations) ==
    LET from == RefFromCall(e)
        name == CASE e.op = "neq" -> "ne" [] e.op = "internal.member_2" -> "in" [] OTHER -> e.op
        op == IF from[2] THEN Reversed(name) ELSE name
        node == ToFieldNode(op, from[1], e.args[IF from[2] THEN 1 ELSE 2], translations, e.op \in UcastBuiltins)
    IN  IF e.op \notin AllBuiltins THEN Nothing
        ELSE IF ~e.neg THEN node
        ELSE IF node = Nothing THEN [type |-> "panic"] ELSE Compound("not", <<node>>)

ExprToUCAST(e, translations) ==
    IF e.kind # "call" THEN Nothing ELSE CallToNode(e, translations)

\* The nodes under op; nothing if one of them is.  A panic ends everything.
Combined(op, nodes) ==
    LET stops == {i \in DOMAIN nodes : nodes[i].type \in {"nil", "panic"}}
    IN  IF nodes = << >> THEN Nothing
        ELSE IF Len(nodes) = 1 THEN nodes[1]
        ELSE IF stops = {} THEN Compound(op, nodes)
        ELSE nodes[Min(stops)]

BodyToUCAST(body, translations) ==
    Combined("and", [i \in DOMAIN body |-> ExprToUCAST(body[i], translations)])

BodiesToUCAST(queries, translations) ==
    Combined("or", [i \in DOMAIN queries |-> BodyToUCAST(queries[i], translations)])
-----------------------------------------------------------------------------
(* From the tree to a clause. *)

\* Faulty variant: the escape character itself is not escaped.
EscapedWildcards(s) ==
    FlattenSeq([i \in DOMAIN s |-> IF s[i] \in {Under, Percent} THEN <<Backslash, s[i]>> ELSE <<s[i]>>])

Escaped(s) ==
    FlattenSeq([i \in DOMAIN s |-> IF s[i] \in {Under, Percent, Backslash} THEN <<Backslash, s[i]>> ELSE <<s[i]>>])

\* A pattern of LIKE: what the string starts with, ends with or contains.
LikePattern(op, s) ==
    (IF op = "startswith" THEN << >> ELSE <<Percent>>) \o Escaped(s)
        \o (IF op = "endswith" THEN << >> ELSE <<Percent>>)

SQLError(e) == [sql |-> "error", e |-> e]

FieldAsSQL(u, dialect) ==
    CASE u.value.t = "null" ->
            CASE u.op = "eq" -> [sql |-> "is null", field |-> u.field]
              [] u.op = "ne" -> [sql |-> "is not null", field |-> u.field]
              [] OTHER -> SQLError("null")
      [] u.value.t # "null" /\ u.op \in {"eq", "ne", "gt", "lt", "gte", "lte"} ->
            [sql |-> "compare", op |-> u.op, field |-> u.field, value |-> u.value]
      [] u.value.t # "null" /\ u.op = "in" ->
            IF u.value.t \in {"set", "arr"} THEN [sql |-> "in", field |-> u.field, value |-> u.value]
            ELSE SQLError("collection")
      [] u.value.t # "null" /\ u.op \in {"startswith", "endswith", "contains"} ->
            IF dialect = "sqlite-internal" THEN [sql |-> "internal", op |-> u.op, field |-> u.field, value |-> u.value]
            ELSE IF u.value.t # "str" THEN SQLError("string")
            ELSE [sql |-> "like", field |-> u.field, pattern |-> LikePattern(u.op, u.value.v)]

RECURSIVE AsSQL(_, _)
AsSQL(u, dialect) ==
    IF u.type = "field" THEN FieldAsSQL(u, dialect)
    ELSE LET conds == [i \in DOMAIN u.value |-> AsSQL(u.value[i], dialect)]
             failed == {i \in DOMAIN conds : conds[i].sql = "error"}
         IN  IF failed # {} THEN conds[Min(failed)]
             ELSE [sql |-> u.op, conds |-> conds]
-----------------------------------------------------------------------------
(* The call of the built-in.                                                  *)

MaybeRaise(r, e) == IF r.raise THEN Raised(e) ELSE ErrorObject(e)

\* Every reference under `unknowns` of the annotations must start with data
\* or input.  The argument of the call wins over the rule of the annotations.
UnknownsInvalid(r) == \E u \in r.unknowns : u \notin {"data", "input"}
MaskingRule(r) == IF r.maskRule # "" THEN r.maskRule ELSE r.maskAnnotation

\* The masks are there when a rule is named, and null when it is undefined.
Clause(r, sql) ==
    [t |-> "result", query |-> sql, masks |-> IF MaskingRule(r) = "" THEN "absent" ELSE r.masks]

Translations(r) == IF r.dialect \in DOMAIN r.mappings THEN r.mappings[r.dialect] ELSE << >>

\* After partial evaluation.
Filter(r) ==
    LET c == NewConstraints(r.target, r.dialect)
        errs == Check(r.queries, c, ShortsFromMappings(r.mappings))
        u == BodiesToUCAST(r.queries, Translations(r))
        sql == AsSQL(u, r.dialect)
    IN  IF r.target = "" THEN UndefinedAnswer
        ELSE IF "unsupported" \in DOMAIN c THEN MaybeRaise(r, {"target"})
        ELSE IF errs # {} THEN MaybeRaise(r, errs)
        ELSE IF r.target # "sql" THEN IF r.raise THEN UndefinedAnswer ELSE ErrorObject({"ucast"})
        ELSE IF r.queries = << >> THEN UndefinedAnswer
        ELSE IF u.type = "nil" THEN Clause(r, [sql |-> "everything"])
        ELSE IF u.type = "panic" THEN Raised({"panic"})
        ELSE IF sql.sql = "error" THEN MaybeRaise(r, {sql.e})
        ELSE Clause(r, sql)

\* The compiler, the masks and partial evaluation may fail, in this order.
RegoCompile(r) ==
    /\ filterAns = NoAnswer
    /\ filterReq' = r
    /\ filterAns' =
         IF r.arg = "undefined" THEN UndefinedAnswer
         ELSE IF r.arg = "other" THEN Raised({"type"})
         ELSE IF r.fails = "compile" THEN Raised({"compile"})
         ELSE IF UnknownsInvalid(r) THEN ErrorObject({"unknowns"})
         ELSE IF r.fails = "mask" /\ MaskingRule(r) # "" THEN Raised({"mask"})
         ELSE IF r.fails = "prepare" THEN Raised({"prepare"})
         ELSE IF r.fails = "partial" THEN UndefinedAnswer
         ELSE Filter(r)

FilterInit == filterReq = NoAnswer /\ filterAns = NoAnswer
FilterNext == \E r \in FilterRequests : RegoCompile(r)
FilterSpec == FilterInit /\ [][FilterNext]_filterVars
-----------------------------------------------------------------------------
(* What a database makes of a clause: "true", "false" or, when a column is    *)
(* NULL, "unknown"; it selects the rows on which the clause is true.          *)

\* PostgreSQL and MySQL take a backslash in a pattern for an escape.
Escapes(dialect) == dialect \in {"postgresql", "mysql"}

RECURSIVE Like(_, _, _)
Like(s, p, escapes) ==
    IF p = << >> THEN s = << >>
    ELSE IF p[1] = Percent THEN Like(s, Tail(p), escapes) \/ (s # << >> /\ Like(Tail(s), p, escapes))
    ELSE IF escapes /\ p[1] = Backslash /\ Len(p) > 1
         THEN s # << >> /\ s[1] = p[2] /\ Like(Tail(s), SubSeq(p, 3, Len(p)), escapes)
    ELSE s # << >> /\ (p[1] = Under \/ s[1] = p[1]) /\ Like(Tail(s), Tail(p), escapes)

\* Numbers, and null before them (SQL never orders a null).
Less(a, b) == b.t # "null" /\ (a.t = "null" \/ a.v < b.v)

\* The comparisons and functions on known values, in SQL as in Rego.
Compares(op, a, b) ==
    CASE op = "eq" -> a = b
      [] op \in {"ne", "neq"} -> a # b
      [] op = "lt" -> Less(a, b)
      [] op = "lte" -> ~Less(b, a)
      [] op = "gt" -> Less(b, a)
      [] op = "gte" -> ~Less(a, b)
      [] op \in {"in", "internal.member_2"} -> a \in b.s
      [] op = "startswith" -> IsPrefix(b.v, a.v)
      [] op = "endswith" -> IsSuffix(b.v, a.v)
      [] op = "contains" -> \E i \in 1 .. Len(a.v) + 1 : IsPrefix(b.v, SubSeq(a.v, i, Len(a.v)))

\* The table of the unknowns is "fruits"; a mapping may rename it and its
\* columns in the database.
ColumnName(column, translations) ==
    LET names == IF "fruits" \in DOMAIN translations THEN translations["fruits"] ELSE << >>
        named(n, default) == IF n \in DOMAIN names THEN names[n] ELSE default
    IN  <<named("$self", "fruits"), named(column, column)>>

ColumnValue(row, field, translations) ==
    LET columns == {c \in DOMAIN row : ColumnName(c, translations) = field}
    IN  IF columns = {} THEN [t |-> "missing"] ELSE row[CHOOSE c \in columns : TRUE]

RECURSIVE Truth(_, _, _)
Truth(q, row, r) ==
    LET value == ColumnValue(row, q.field, Translations(r))
        other == IF q.value.t = "field" THEN ColumnValue(row, q.value.field, Translations(r)) ELSE q.value
        truths == {Truth(q.conds[i], row, r) : i \in DOMAIN q.conds}
        truth(b) == IF b THEN "true" ELSE "false"
    IN  CASE q.sql = "everything" -> "true"
          [] q.sql = "and" -> IF "false" \in truths THEN "false" ELSE IF "unknown" \in truths THEN "unknown" ELSE "true"
          [] q.sql = "or" -> IF "true" \in truths THEN "true" ELSE IF "unknown" \in truths THEN "unknown" ELSE "false"
          [] q.sql = "not" -> IF truths = {"true"} THEN "false" ELSE IF truths = {"false"} THEN "true" ELSE "unknown"
          [] q.sql = "is null" -> truth(value.t = "null")
          [] q.sql = "is not null" -> truth(value.t # "null")
          [] q.sql = "like" -> IF value.t = "null" THEN "unknown" ELSE truth(Like(value.v, q.pattern, Escapes(r.dialect)))
          [] q.sql \in {"compare", "internal"} ->
                IF "null" \in {value.t, other.t} THEN "unknown" ELSE truth(Compares(q.op, value, other))
          [] q.sql = "in" -> IF value.t = "null" THEN "unknown" ELSE truth(Compares("in", value, q.value))
-----------------------------------------------------------------------------
(* Properties. *)

ExprsOf(r) == UNION {ToSet(body) : body \in ToSet(r.queries)}

\* What the policy says of a row: one of its bodies holds, all expressions of
\* it.  The unknowns are the columns of the row.
Holds(e, row) ==
    LET value(o) == IF IsRef(o) THEN row[Last(o.path)] ELSE o
    IN  Compares(e.op, value(e.args[1]), value(e.args[2])) # e.neg
PolicyHolds(r, row) ==
    \E i \in DOMAIN r.queries : \A j \in DOMAIN r.queries[i] : Holds(r.queries[i][j], row)

\* Rego has no third truth value: a row is compared when no column is NULL
\* that the policy compares with anything but null.
WithoutUnknowns(r, row) ==
    \A e \in ExprsOf(r) :
        (\A i \in 1 .. 2 : e.args[i].t # "null") =>
            \A i \in 1 .. 2 : IsRef(e.args[i]) => row[Last(e.args[i].path)].t # "null"

FilterFits(r, query) ==
    \A row \in FilterRows :
        WithoutUnknowns(r, row) => ((Truth(query, row, r) = "true") <=> PolicyHolds(r, row))

\* The fragment of the documentation: names as columns, no `with`; and a
\* database in which a backslash escapes, where a pattern needs it.
InFragment(r) ==
    /\ \A e \in ExprsOf(r) :
         /\ ~e.with
         /\ \A i \in 1 .. 2 : IsRef(e.args[i]) => "0" \notin ToSet(e.args[i].path)
    /\ r.dialect # "sqlserver"

\* An unknown on the right of an ordering.
OrderedFromRight(r) ==
    \E e \in ExprsOf(r) : e.op \in {"lt", "lte", "gt", "gte"} /\ ~IsRef(e.args[1])

\* A filter selects the rows on which the policy holds, for every database
\* and mapping: bodies are alternatives, expressions conditions; "not", null,
\* memberships, patterns with wildcards in them and comparisons of two columns
\* included (BodiesToUCAST, AsSQL).  An undefined answer means that none does,
\* unless the target is another or nothing was compiled.
FilterMeansPolicy ==
    LET r == filterReq
    IN  /\ filterAns.t = "result" /\ InFragment(r) /\ ~OrderedFromRight(r) => FilterFits(r, filterAns.query)
        /\ filterAns = UndefinedAnswer /\ r.arg = "object" /\ r.fails = "" /\ r.target = "sql" =>
               \A row \in FilterRows : ~PolicyHolds(r, row)

\* "It is not important if the unknown is on the left-hand side or right-hand
\* side" of a comparison (fragment.md:66): the filter selects the same rows.
SidesDoNotMatter ==
    filterAns.t = "result" /\ InFragment(filterReq) => FilterFits(filterReq, filterAns.query)
=============================================================================
