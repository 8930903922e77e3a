------------------------------ MODULE Meaning -------------------------------
(***************************************************************************)
(* What a Datalog query means, and which queries the compiler is meant to  *)
(* get right. The meaning knows no tables, columns or encodings: it is     *)
(* the set of environments, from variables to Go values, that satisfy      *)
(* all clauses.                                                            *)
(***************************************************************************)
EXTENDS Compiler, TLC

IdentOf(id) == CHOOSE ident \in DOMAIN Schema : Schema[ident].id = id

\* The Go value of a stored value.
decodeValue(v) ==
    <<CASE Word(v[1]) -> "int" [] v[1] = "string" -> "text" [] OTHER -> v[1], v[2]>>

FactValues(fact) ==
    [e |-> <<"int", fact.e>>, a |-> <<"text", IdentOf(fact.a)>>,
     v |-> decodeValue(fact.v), tx |-> <<"int", fact.tx>>]

Spots == ToSet(Positions)

\* The pattern holds of the fact in an environment that extends env.
Fits(p, fact, env) ==
    LET vals == FactValues(fact) IN
    \A c \in Spots :
        /\ IsConst(p[c]) => p[c][2] = vals[c]
        /\ IsVar(p[c]) =>
              /\ p[c][2] \in DOMAIN env => env[p[c][2]] = vals[c]
              /\ \A d \in Spots : p[d] = p[c] => vals[d] = vals[c]

Extended(p, fact, env) ==
    LET names == {p[c][2] : c \in {d \in Spots : IsVar(p[d])}}
    IN  [n \in names |-> FactValues(fact)[CHOOSE c \in Spots : p[c] = Var(n)]] @@ env

Holds(c, env) ==
    LET val(el) == IF IsVar(el) THEN env[el[2]] ELSE BoundTo(el)
    IN  SQLCompare(c.fn, Param(val(c.args[1])), Param(val(c.args[2])))

RECURSIVE Solve(_, _, _)
Solve(clauses, envs, facts) ==
    LET match(es, p) == UNION {{Extended(p, f, env) : f \in {g \in facts : Fits(p, g, env)}} :
                                  env \in es}
        either(es, c) == UNION {Solve(b, es, facts) : b \in ToSet(c.branches)}
        matched == FoldLeft(match, envs, SelectSeq(clauses, IsPattern))
    IN  {env \in FoldLeft(either, matched, SelectSeq(clauses, IsOr)) :
            \A c \in ToSet(clauses) :
                /\ IsExpr(c) => Holds(c, env)
                /\ IsNot(c) => Solve(c.clauses, {env}, facts) = {}}

\* The values of the inputs.
Given(q, args) ==
    [name \in ToSet(q.in) |-> args[CHOOSE i \in DOMAIN q.in : q.in[i] = name]]

\* The rows q finds among facts with args for its inputs.
Meaning(q, args, facts) ==
    {[i \in DOMAIN q.find |-> env[q.find[i].var]] :
        env \in Solve(q.where, {Given(q, args)}, facts)}

-----------------------------------------------------------------------------
(***************************************************************************)
(* Columns whose values SQLite may find equal have one class. A query is   *)
(* well typed if each variable has one class; variables of the value of an *)
(* unknown attribute (class "v") then meet only their like.                *)
(***************************************************************************)
Class(col) == IF col \in {"e", "tx", "v_int"} THEN "number" ELSE col

Classes(tables, name) ==
    {Class(resolveJoinCol(l.col, tables[l.table].type)) :
        l \in ToSet(Locations(tables, name))}

WellTyped(tables) == \A name \in NamesIn(tables) : Cardinality(Classes(tables, name)) = 1

\* The class of the columns that hold a Go value as it is bound.
ClassOf(val) ==
    CASE val[1] = "int" -> "number" [] val[1] = "text" -> "v_text" [] OTHER -> "other"

\* Constants are compared with a column of their own class: SQLite would take
\* a text that spells a number for the number, and a number for its spelling.
ConstantsTyped(tables) ==
    \A i \in DOMAIN tables :
        LET tb == tables[i]
        IN  /\ tb.v # Null => Class(TypedColumn(tb.type)) = ClassOf(tb.v)
            /\ \A val \in {tb.e, tb.tx} \ {Null} : ClassOf(val) = "number"

\* A comparison of two numbers or of two texts; given holds the inputs.
ComparisonOK(c, tables, given) ==
    LET classes(el) == CASE IsVar(el) /\ el[2] \in DOMAIN given -> {ClassOf(given[el[2]])}
                         [] IsVar(el) -> Classes(tables, el[2])
                         [] IsConst(el) -> {ClassOf(el[2])}
                         [] OTHER -> {}
    IN  /\ Len(c.args) = 2 /\ c.binding = Blank
        /\ classes(c.args[1]) \cap classes(c.args[2]) \cap {"number", "v_text"} # {}

Mentions(clauses, name) ==
    {x \in (DOMAIN clauses) \X (1..2) :
        LET c == clauses[x[1]]
        IN  IsExpr(c) /\ x[2] \in DOMAIN c.args /\ c.args[x[2]] = Var(name)}

\* An input stands in patterns, as anything but an attribute or the value of
\* an unknown one, or once in a filter. It is given a number where numbers are
\* stored, a text where texts are, and a byte slice for bytes.
InputOK(q, tables, name, val) ==
    IF name \in NamesIn(tables)
    THEN /\ Mentions(q.where, name) = {}
         /\ \/ Classes(tables, name) = {ClassOf(val)}
            \/ /\ val[1] = "bytes"
               /\ \A l \in ToSet(Locations(tables, name)) :
                     l.col = "v" /\ tables[l.table].type = "bytes"
    ELSE Cardinality(Mentions(q.where, name)) = 1

\* Patterns of a NOT are joined as stored, so a variable needs one column, and
\* to the first outer table of a variable only if its number is too large to
\* be the number of an inner table.
NotOK(clauses, tables, ins) ==
    LET inner == TablesOf(clauses)
        raw(col) == IF col = "tx" THEN "e" ELSE col
        first(name) == Locations(tables, name)[1]
    IN  /\ inner # <<>> /\ WellTyped(inner) /\ ConstantsTyped(inner)
        /\ \A i \in DOMAIN clauses :
              /\ clauses[i].kind \in {"pattern", "expr"}
              /\ IsExpr(clauses[i]) =>
                    ComparisonOK(clauses[i], TablesOf(SubSeq(clauses, 1, i)), <<>>)
        /\ \A name \in NamesIn(inner) :
              /\ name \notin ins
              /\ \A l \in ToSet(Locations(inner, name)) :
                    raw(l.col) = raw(Locations(inner, name)[1].col)
              /\ name \in NamesIn(tables) =>
                    /\ first(name).table > Len(inner)
                    /\ raw(first(name).col) = raw(Locations(inner, name)[1].col)
                    /\ Classes(tables, name) = Classes(inner, name)

NamesKnown(clauses) == \A c \in ToSet(clauses) : IsPattern(c) => ~PatternFails(c)

\* The queries that are answered as they are meant.
Supported(q, args, isNow) ==
    LET tables == TablesOf(q.where)
        ins == ToSet(q.in)
    IN  /\ tables # <<>> /\ q.find # <<>> /\ NamesKnown(q.where)
        /\ WellTyped(tables) /\ ConstantsTyped(tables)
        /\ \A i \in DOMAIN q.find :
              q.find[i].agg = "" /\ q.find[i].var \in NamesIn(tables) \ ins
        /\ \A i \in DOMAIN q.orderBy : q.orderBy[i].var \in NamesIn(tables) \ ins
        /\ Len(q.in) <= Len(args) /\ Cardinality(ins) = Len(q.in)
        /\ \A i \in DOMAIN q.in : InputOK(q, tables, q.in[i], args[i])
        /\ \A c \in ToSet(q.where) :
              /\ c.kind \in {"pattern", "expr", "not"}
              /\ IsExpr(c) => ComparisonOK(c, tables, Given(q, args))
              /\ IsNot(c) => isNow /\ NamesKnown(c.clauses) /\ NotOK(c.clauses, tables, ins)
=============================================================================
