------------------------------ MODULE Compiler ------------------------------
(***************************************************************************)
(* From a query to SQL (query/algebrize.go, query/translate.go) and what   *)
(* SQLite makes of it. Tables are numbered from 1 in the order of their    *)
(* patterns, and 0 is the place of an input. Where the code would not      *)
(* come to a result, the operator that says so ends in "Fails".            *)
(***************************************************************************)
EXTENDS Datalog, FiniteSetsExt

CONSTANTS
    Schema,     \* [ident -> [id, type]]
    Collation   \* the order of texts and byte slices: [text -> Nat]

NoType == "none"
Null == <<"null">>
Positions == <<"e", "a", "v", "tx">>

\* The column that holds values of a type; v holds the blob of any value.
TypedColumn(type) ==
    CASE type \in {"int", "ref", "bool", "inst"} -> "v_int"
      [] type = "string" -> "v_text"
      [] type = "float" -> "v_float"
      [] OTHER -> "v"

-----------------------------------------------------------------------------
(***************************************************************************)
(* Algebrize                                                               *)
(***************************************************************************)
IsPattern(c) == c.kind = "pattern"
IsExpr(c) == c.kind = "expr"
IsNot(c) == c.kind = "not"
IsOr(c) == c.kind = "or"

BoundTo(el) == IF IsConst(el) THEN el[2] ELSE Null

PatternFails(p) ==
    IsConst(p.a) /\ (p.a[2][1] # "text" \/ p.a[2][2] \notin DOMAIN Schema)

addPattern(p) ==
    LET known == IsConst(p.a) /\ ~PatternFails(p)
    IN  [pat |-> p,
         attr |-> IF known THEN Schema[p.a[2][2]].id ELSE 0,
         type |-> IF known THEN Schema[p.a[2][2]].type ELSE NoType,
         e |-> BoundTo(p.e), v |-> BoundTo(p.v), tx |-> BoundTo(p.tx)]

TablesOf(clauses) ==
    LET ps == SelectSeq(clauses, IsPattern)
    IN  [i \in DOMAIN ps |-> addPattern(ps[i])]

\* Where a variable stands in the patterns: varMap without inputs.
Locations(tables, name) ==
    FlattenSeq([i \in DOMAIN tables |->
        LET here == [j \in 1..4 |-> [table |-> i, col |-> Positions[j]]]
        IN  SelectSeq(here, LAMBDA l : tables[i].pat[l.col] = Var(name))])

\* An algebrizer: its tables, its inputs and the types of its variables.
Input == [table |-> 0, col |-> "input"]

VarMap(alg, name) ==
    (IF name \in alg.ins THEN <<Input>> ELSE <<>>) \o Locations(alg.tables, name)

VarTypes(tables, inherited) ==
    [name \in Variables |->
        LET typed == {i \in DOMAIN tables :
                         tables[i].pat.v = Var(name) /\ tables[i].type # NoType}
        IN  IF typed = {} THEN inherited[name] ELSE tables[Max(typed)].type]

Untyped == [name \in Variables |-> NoType]

Algebrizer(ins, tables, inherited) ==
    [ins |-> ins, tables |-> tables, types |-> VarTypes(tables, inherited)]

NamesIn(tables) ==
    {tables[i].pat[c][2] : <<i, c>> \in
        {x \in (DOMAIN tables) \X ToSet(Positions) : IsVar(tables[x[1]].pat[x[2]])}}

\* Mutant: each place is joined to the next, but the first one to none.
MutBuildJoins(tables) ==
    UNION {LET l == Locations(tables, name)
           IN  {[left |-> l[i - 1], right |-> l[i]] : i \in 3..Len(l)} :
              name \in NamesIn(tables)}

buildJoins(tables) ==
    UNION {LET l == Locations(tables, name)
           IN  {[left |-> l[1], right |-> l[i]] : i \in 2..Len(l)} :
              name \in NamesIn(tables)}

ArgFails(alg, el) == IsVar(el) /\ VarMap(alg, el[2]) = <<>>

resolveFilterArg(alg, el) ==
    IF IsVar(el)
    THEN LET l == VarMap(alg, el[2])[1]
         IN  [var |-> el[2], table |-> l.table, col |-> l.col,
              type |-> alg.types[el[2]], const |-> Null]
    ELSE [var |-> "", table |-> 0, col |-> "", type |-> NoType,
          const |-> BoundTo(el)]

FilterFails(alg, c) ==
    (\E i \in DOMAIN c.args : ArgFails(alg, c.args[i])) \/ ArgFails(alg, c.binding)

\* Constants take the type of the first variable that has one. The binding is
\* resolved and never used.
resolveFilter(alg, c) ==
    LET args == [i \in DOMAIN c.args |-> resolveFilterArg(alg, c.args[i])]
        typed == {i \in DOMAIN args : args[i].var # "" /\ args[i].type # NoType}
    IN  [fn |-> c.fn,
         args |-> [i \in DOMAIN args |->
                      IF typed # {} /\ args[i].var = ""
                      THEN [args[i] EXCEPT !.type = args[Min(typed)].type]
                      ELSE args[i]]]

\* An inner query resolves a filter by the patterns before it, and its names
\* are those of no input.
SubUpTo(clauses, i, inherited) ==
    Algebrizer({}, TablesOf(SubSeq(clauses, 1, i)), inherited)

RECURSIVE SubqueryFails(_, _)
SubqueryFails(clauses, inherited) ==
    \E i \in DOMAIN clauses :
        LET c == clauses[i]
            alg == SubUpTo(clauses, i, inherited)
        IN  CASE IsPattern(c) -> PatternFails(c)
              [] IsExpr(c) -> FilterFails(alg, c)
              [] IsNot(c) -> SubqueryFails(c.clauses, alg.types)
              [] IsOr(c) -> \E b \in ToSet(c.branches) : SubqueryFails(b, alg.types)
              [] OTHER -> TRUE

\* The joins of a subquery to its parent, from the parent's first place.
buildSubqueryJoins(alg, tables) ==
    {[left |-> VarMap(alg, name)[1], right |-> Locations(tables, name)[1]] :
        name \in {n \in NamesIn(tables) : VarMap(alg, n) # <<>>}}

\* Clauses nested in a subquery are algebrized (they may fail) and dropped.
algebrizeSubquery(alg, clauses) ==
    LET tables == TablesOf(clauses)
        exprs == SelectSeq([i \in DOMAIN clauses |-> i],
                           LAMBDA i : IsExpr(clauses[i]))
    IN  [tables |-> tables,
         joins |-> buildJoins(tables) \cup buildSubqueryJoins(alg, tables),
         filters |-> [i \in DOMAIN exprs |->
                         resolveFilter(SubUpTo(clauses, exprs[i], alg.types),
                                       clauses[exprs[i]])]]

AlgebrizerOf(q) == Algebrizer(ToSet(q.in) \ {""}, TablesOf(q.where), Untyped)

AlgebrizeFails(q) ==
    \/ \E c \in ToSet(q.where) : c.kind = "rule" \/ (IsPattern(c) /\ PatternFails(c))
    \/ LET alg == AlgebrizerOf(q) IN
       \/ \E c \in ToSet(q.where) :
             CASE IsExpr(c) -> FilterFails(alg, c)
               [] IsNot(c) -> SubqueryFails(c.clauses, alg.types)
               [] IsOr(c) -> \E b \in ToSet(c.branches) : SubqueryFails(b, alg.types)
               [] OTHER -> FALSE
       \/ \E f \in ToSet(q.find) : VarMap(alg, f.var) = <<>>
       \/ \E o \in ToSet(q.orderBy) : VarMap(alg, o.var) = <<>>

Algebrize(q) ==
    LET alg == AlgebrizerOf(q)
        Each(cs, Op(_)) == [i \in DOMAIN cs |-> Op(cs[i])]
        filter(c) == resolveFilter(alg, c)
        not(c) == algebrizeSubquery(alg, c.clauses)
        or(c) == [i \in DOMAIN c.branches |-> algebrizeSubquery(alg, c.branches[i])]
        resolveFindElem(f) == [at |-> VarMap(alg, f.var)[1], agg |-> f.agg,
                               type |-> IF f.var \in Variables THEN alg.types[f.var]
                                        ELSE NoType]
        resolveOrderBy(o) == [at |-> VarMap(alg, o.var)[1], desc |-> o.desc]
    IN  [tables |-> alg.tables,
         joins |-> buildJoins(alg.tables),
         filters |-> Each(SelectSeq(q.where, IsExpr), filter),
         nots |-> Each(SelectSeq(q.where, IsNot), not),
         ors |-> Each(SelectSeq(q.where, IsOr), or),
         find |-> Each(q.find, resolveFindElem),
         orderBy |-> Each(q.orderBy, resolveOrderBy)]

-----------------------------------------------------------------------------
(***************************************************************************)
(* Translate                                                               *)
(***************************************************************************)
NamesInput(filter) ==
    \E i \in DOMAIN filter.args : filter.args[i].var # "" /\ filter.args[i].table = 0

\* An error, or a panic where an input is taken for a table. SQLite refuses a
\* SELECT without columns: that of an empty :find, and that of a branch of an
\* OR, which has none (or is joined to a table that it does not have, which
\* panics).
TranslateFails(aq) ==
    \/ aq.tables = <<>>
    \/ aq.find = <<>>
    \/ aq.ors # <<>>
    \/ \E i \in DOMAIN aq.find : aq.find[i].at = Input
    \/ \E i \in DOMAIN aq.orderBy : aq.orderBy[i].at = Input
    \/ \E i \in DOMAIN aq.filters : NamesInput(aq.filters[i])
    \/ \E i \in DOMAIN aq.nots :
          \/ aq.nots[i].tables = <<>>
          \/ \E j \in aq.nots[i].joins : j.left = Input

-----------------------------------------------------------------------------
(***************************************************************************)
(* external: SQLite. An SQL value is <<class, ...>>. A row is a datom      *)
(* [e, a, v, tx] whose v is <<type, x>>.                                   *)
(***************************************************************************)
Word(type) == type \in {"int", "ref", "bool", "inst"}

Blob(v) == <<"blob", IF Word(v[1]) THEN "word" ELSE "raw", v[2]>>

Column(row, col) ==
    CASE col \in {"e", "a", "tx"} -> <<"int", row[col]>>
      [] col = "v" -> Blob(row.v)
      [] col = "v_int" /\ Word(row.v[1]) -> <<"int", row.v[2]>>
      [] col = "v_text" /\ row.v[1] = "string" -> <<"text", row.v[2]>>
      [] OTHER -> Null

\* A Go value as it is bound.
Param(val) ==
    CASE val[1] = "bool" -> <<"int", IF val[2] THEN 1 ELSE 0>>
      [] val[1] = "bytes" -> <<"blob", "raw", val[2]>>
      [] OTHER -> val

ClassRank == [int |-> 1, text |-> 2, blob |-> 3]
Rank(x) == IF x[1] = "int" \/ x[2] = "word" THEN Last(x) ELSE Collation[Last(x)]

SQLLess(x, y) ==
    IF x[1] # y[1] THEN ClassRank[x[1]] < ClassRank[y[1]] ELSE Rank(x) < Rank(y)

\* Two values as they are, without conversion.
SQLCompare(fn, x, y) ==
    /\ x # Null /\ y # Null
    /\ CASE fn = "=" -> x = y
         [] fn = "!=" -> x # y
         [] fn = "<" -> SQLLess(x, y)
         [] fn = ">" -> SQLLess(y, x)
         [] fn = "<=" -> ~SQLLess(y, x)
         [] fn = ">=" -> ~SQLLess(x, y)

\* What an operand of a comparison is: the value of a column, with the affinity
\* the schema declares for it, or a bound parameter, which has none.
Affinity(col) ==
    CASE col \in {"e", "a", "tx", "v_int", "v_float"} -> "numeric"
      [] col = "v_text" -> "text"
      [] OTHER -> "none"

Stored(row, col) == [aff |-> Affinity(col), val |-> Column(row, col)]
Bound(val) == [aff |-> "none", val |-> Param(val)]

\* A numeric column makes a number of a text that spells one; a text column
\* that meets no numeric one makes a text of a number.
Converted(val, affinities) ==
    CASE "numeric" \in affinities /\ val[1] = "text" /\ val[2] \in DOMAIN IntVal ->
            <<"int", IntVal[val[2]]>>
      [] affinities = {"text", "none"} /\ val[1] = "int" ->
            <<"text", CHOOSE s \in DOMAIN IntVal : IntVal[s] = val[2]>>
      [] OTHER -> val

SQLOperator(fn, x, y) ==
    LET affinities == {x.aff, y.aff}
    IN  SQLCompare(fn, Converted(x.val, affinities), Converted(y.val, affinities))

Equal(x, y) == SQLOperator("=", x, y)

-----------------------------------------------------------------------------
(***************************************************************************)
(* What the statement selects.                                             *)
(***************************************************************************)
\* The constants of a pattern.
TableWhere(tb, row) ==
    /\ tb.attr # 0 => row.a = tb.attr
    /\ tb.e # Null => Equal(Stored(row, "e"), Bound(tb.e))
    /\ tb.v # Null => Equal(Stored(row, TypedColumn(tb.type)), Bound(tb.v))
    /\ tb.tx # Null => Equal(Stored(row, "tx"), Bound(tb.tx))

resolveJoinCol(col, type) == IF col = "v" THEN TypedColumn(type) ELSE col

JoinWhere(tables, j, rows) ==
    LET side(l) == Stored(rows[l.table], resolveJoinCol(l.col, tables[l.table].type))
    IN  Equal(side(j.left), side(j.right))

\* A comparison of two arguments; calls of user functions are left out.
buildFilter(f, rows) ==
    LET ref(arg) == IF arg.var = "" THEN Bound(arg.const)
                    ELSE Stored(rows[arg.table], resolveJoinCol(arg.col, arg.type))
    IN  SQLOperator(f.fn, ref(f.args[1]), ref(f.args[2]))

\* All choices of one row for each table that fit its pattern. An index hint
\* changes how they are found, not which they are.
FromTables(tables, source) ==
    {rows \in [DOMAIN tables -> source] :
        \A i \in DOMAIN tables : TableWhere(tables[i], rows[i])}

\* The left side of a join is an inner table if there is one with its number,
\* and otherwise an outer table. Columns are compared as they are stored.
NotJoin(inner, j, rows, outer) ==
    Equal(Stored(IF j.left.table <= Len(inner.tables) THEN rows[j.left.table]
                 ELSE outer[j.left.table], j.left.col),
          Stored(rows[j.right.table], j.right.col))

\* An inner query reads the current datoms, whatever the outer one reads.
buildNotExists(inner, current, outer) ==
    ~\E rows \in FromTables(inner.tables, current) :
        /\ \A j \in inner.joins : NotJoin(inner, j, rows, outer)
        /\ \A i \in DOMAIN inner.filters : buildFilter(inner.filters[i], rows)

Selected(aq, source, current) ==
    {rows \in FromTables(aq.tables, source) :
        /\ \A j \in aq.joins : JoinWhere(aq.tables, j, rows)
        /\ \A i \in DOMAIN aq.filters : buildFilter(aq.filters[i], rows)
        /\ \A i \in DOMAIN aq.nots : buildNotExists(aq.nots[i], current, rows)}
=============================================================================
