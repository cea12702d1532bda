------------------------------ MODULE MCFilters ------------------------------
(* Filters over a table with a number, two strings and a nullable column, for *)
(* all targets, with and without names of the database.                       *)
EXTENDS DataFilters, TLC

Text1(s) == [t |-> "str", v |-> s]
Price(n) == [t |-> "num", v |-> n]
NullValue == [t |-> "null"]
SetValue(s) == [t |-> "set", s |-> s]
FieldOf(path) == [t |-> "ref", root |-> "input", path |-> path]
Name == FieldOf(<<"fruits", "name">>)
Colour == FieldOf(<<"fruits", "colour">>)
ShortColour == FieldOf(<<"colour">>)
PriceOf == FieldOf(<<"fruits", "price">>)
Stock == FieldOf(<<"fruits", "stock">>)
CallOf(neg, op, a, b) == [kind |-> "call", neg |-> neg, with |-> FALSE, op |-> op, args |-> <<a, b>>]
Ops == {"lt", "lte", "gt", "gte", "eq", "neq"}
Words == {<< >>, <<1>>, <<Under>>, <<Percent>>, <<Backslash>>, <<1, Under>>, <<Backslash, Percent>>}

Exprs ==
    {CallOf(neg, op, PriceOf, Price(2)) : neg \in BOOLEAN, op \in Ops}
    \cup {CallOf(FALSE, op, Price(2), PriceOf) : op \in {"eq", "neq", "lt"}}
    \cup {CallOf(neg, op, c, Text1(w)) : neg \in BOOLEAN, op \in {"startswith", "endswith", "contains"}, w \in Words, c \in {Name}}
    \cup {CallOf(neg, op, Stock, NullValue) : neg \in BOOLEAN, op \in {"eq", "neq", "lt"}}
    \cup {CallOf(neg, op, Stock, PriceOf) : neg \in BOOLEAN, op \in Ops}
    \cup {CallOf(neg, "internal.member_2", c, v) :
             neg \in BOOLEAN, c \in {Name, ShortColour},
             v \in {SetValue({Text1(<<1>>), Text1(<<Under>>)}), SetValue({}), [t |-> "arr", s |-> {Text1(<<1>>)}],
                    [t |-> "obj", s |-> {Text1(<<1>>)}], Text1(<<1>>)}}
    \cup {CallOf(FALSE, "startswith", Text1(<<1>>), Name), CallOf(FALSE, "eq", Name, SetValue({})),
          CallOf(FALSE, "startswith", Name, Colour), CallOf(FALSE, "plus", Name, Colour),
          CallOf(FALSE, "eq", [t |-> "call"], Name), CallOf(FALSE, "eq", FieldOf(<<"user">>), Price(1)),
          CallOf(TRUE, "eq", FieldOf(<<"fruits", "0">>), Price(1)), CallOf(FALSE, "eq", FieldOf(<<"fruits", "0">>), Price(1)),
          [CallOf(FALSE, "lt", PriceOf, Price(2)) EXCEPT !.with = TRUE],
          [kind |-> "every", neg |-> FALSE, with |-> FALSE, op |-> "", args |-> <<Name, Name>>],
          [kind |-> "term", neg |-> FALSE, with |-> TRUE, op |-> "", args |-> <<Name, Name>>],
          [kind |-> "term", neg |-> FALSE, with |-> FALSE, op |-> "", args |-> <<Name, Name>>],
          [kind |-> "term", neg |-> TRUE, with |-> FALSE, op |-> "", args |-> <<Name, Name>>]}
Partners == {CallOf(FALSE, "lte", Stock, PriceOf), CallOf(TRUE, "eq", ShortColour, Text1(<<1>>)), CallOf(FALSE, "lt", Stock, NullValue)}
Bodies == {<< >>} \cup {<<e>> : e \in Exprs}
QueriesOf == {<<b>> : b \in Bodies} \cup {<< >>}
    \cup {<<<<e, p>>>> : e \in Exprs, p \in Partners} \cup {<<<<p>>, <<e>>>> : e \in Exprs, p \in Partners}
    \cup {<<<<p>>, << >>>> : p \in Partners}

Names == [fruits |-> ("$self" :> "F") @@ ("name" :> "N") @@ ("colour" :> "C"), colour |-> ("$table" :> "fruits")]
Request(queries, target, dialect) ==
    [arg |-> "object", fails |-> "", unknowns |-> {"input"}, maskRule |-> "", maskAnnotation |-> "", masks |-> "null",
     raise |-> TRUE, target |-> target, dialect |-> dialect, queries |-> queries,
     mappings |-> IF dialect = "mysql" THEN << >> ELSE dialect :> Names]
Targets == {<<"sql", "postgresql">>, <<"sql", "mysql">>, <<"sql", "sqlite">>, <<"sql", "sqlite-internal">>}
OtherTargets == {<<"sql", "sqlserver">>, <<"sql", "oracle">>, <<"ucast", "all">>, <<"ucast", "prisma">>, <<"ucast", "linq">>, <<"ucast", "">>, <<"", "">>}
SomeQueries == <<<<CallOf(FALSE, "lt", PriceOf, Price(2))>>>>
AllFilterRequests ==
    {Request(q, t[1], t[2]) : q \in QueriesOf, t \in Targets}
    \cup {[Request(<<<<e>>>>, t[1], t[2]) EXCEPT !.raise = FALSE] : e \in Exprs, t \in OtherTargets}
    \cup {[Request(SomeQueries, "sql", "mysql") EXCEPT !.arg = a, !.fails = f, !.unknowns = u, !.maskRule = m, !.maskAnnotation = n] :
             a \in {"object", "undefined", "other"}, f \in {"", "compile", "mask", "prepare", "partial"},
             u \in {{"input"}, {"data", "x"}}, m \in {"", "data.m"}, n \in {"", "data.n"}}
AllFilterRows ==
    {[name |-> Text1(n), colour |-> Text1(c), price |-> Price(p), stock |-> s] :
        n \in Words, c \in {<<1>>, <<Under>>}, p \in {1, 2, 3}, s \in {NullValue, Price(1), Price(3)}}
\* The right side, alone: what the documentation says of it.
RightSides == {Request(<<<<CallOf(FALSE, op, Price(2), PriceOf)>>>>, "sql", "postgresql") : op \in {"lt", "lte", "gt", "gte"}}
CallsForFilters == AllFilterRequests
RowsToFilter == AllFilterRows
=============================================================================
