------------------------------ MODULE Datalog -------------------------------
(***************************************************************************)
(* From an EDN value to a query (query/parser.go, query/ast.go).           *)
(*                                                                         *)
(* A constant is a Go value <<type, x>>; an element of a clause is         *)
(* <<"var", name>>, <<"const", value>> or <<"blank">>, which stands for a  *)
(* blank, for nil and for an element left out: nobody tells them apart.    *)
(***************************************************************************)
EXTENDS EDN

CONSTANT IntVal     \* the numbers of the spellings in Integers64

Var(name) == <<"var", name>>
Const(val) == <<"const", val>>
Blank == <<"blank">>

IsVar(el) == el[1] = "var"
IsConst(el) == el[1] = "const"

nodeToPatternElem(n) ==
    IF n.value = "_" THEN Blank
    ELSE IF n.type = "Symbol" /\ n.value \in Variables THEN Var(n.value)
    ELSE CASE n.type = "Int" -> Const(<<"int", IntVal[n.value]>>)
           [] n.type = "Float" -> Const(<<"float", n.value>>)
           [] n.type = "Bool" -> Const(<<"bool", n.value = "true">>)
           [] n.type = "Nil" -> Blank
           [] OTHER -> Const(<<"text", n.value>>)

Elems(ns) == [i \in DOMAIN ns |-> nodeToPatternElem(ns[i])]

Pattern(e, a, v, tx) == [kind |-> "pattern", e |-> e, a |-> a, v |-> v, tx |-> tx]
ExprClause(fn, args, binding) ==
    [kind |-> "expr", fn |-> fn, args |-> args, binding |-> binding]
NotClause(clauses) == [kind |-> "not", clauses |-> clauses]
OrClause(branches) == [kind |-> "or", branches |-> branches]
RuleApplication(name, args) == [kind |-> "rule", name |-> name, args |-> args]

-----------------------------------------------------------------------------
\* parseClause and what it calls: where it returns an error, and otherwise what.
RECURSIVE ClauseFails(_)
ClauseFails(n) ==
    LET ch == n.children IN
    \/ n.type \notin {"Vector", "List"}
    \/ ch = <<>>
    \/ /\ ch # <<>>
       /\ \/ /\ n.type = "Vector"
             /\ IF ch[1].type = "List" THEN ch[1].children = <<>>
                ELSE Len(ch) \notin 2..4
          \/ /\ n.type = "List" /\ ch[1].value \in {"not", "or"}
             /\ \E i \in 2..Len(ch) : ClauseFails(ch[i])

parseVectorClause(ch) ==
    LET At4(i) == IF i <= Len(ch) THEN nodeToPatternElem(ch[i]) ELSE Blank
    IN  Pattern(At4(1), At4(2), At4(3), At4(4))

parseExpressionClause(ch) ==
    ExprClause(ch[1].children[1].value, Elems(Tail(ch[1].children)),
               IF Len(ch) >= 2 THEN nodeToPatternElem(ch[2]) ELSE Blank)

RECURSIVE parseClause(_)
parseClause(n) ==
    LET ch == n.children
        clauses == [i \in 1..Len(ch) - 1 |-> parseClause(ch[i + 1])]
    IN  IF n.type = "Vector"
        THEN IF ch[1].type = "List" THEN parseExpressionClause(ch)
             ELSE parseVectorClause(ch)
        ELSE CASE ch[1].value = "not" -> NotClause(clauses)
               [] ch[1].value = "or" ->
                     OrClause([i \in DOMAIN clauses |-> <<clauses[i]>>])
               [] OTHER -> RuleApplication(ch[1].value, Elems(Tail(ch)))

FindFails(n) == n.type # "Symbol" /\ ~(n.type = "List" /\ Len(n.children) >= 2)

parseFind(n) ==
    IF n.type = "Symbol" THEN [var |-> n.value, agg |-> ""]
    ELSE [var |-> n.children[2].value, agg |-> n.children[1].value]

OrderFails(n) == n.type # "Symbol" /\ ~(n.type = "Vector" /\ Len(n.children) = 2)

parseOrderBy(n) ==
    IF n.type = "Symbol" THEN [var |-> n.value, desc |-> FALSE]
    ELSE [var |-> n.children[1].value, desc |-> n.children[2].value = ":desc"]

-----------------------------------------------------------------------------
\* Mutant: of a section given twice the first one counts.
MutSectionFirst(children, key) ==
    LET marks == {i \in DOMAIN children : children[i].type = "Keyword"}
        here == {i \in marks : children[i].value = key}
        first == CHOOSE i \in here : \A j \in here : i <= j
        next == {i \in marks : i > first} \cup {Len(children) + 1}
        end == CHOOSE i \in next : \A j \in next : i <= j
    IN  IF here = {} THEN <<>> ELSE SubSeq(children, first + 1, end - 1)

\* The elements after the last keyword key up to the next keyword.
Section(children, key) ==
    LET marks == {i \in DOMAIN children : children[i].type = "Keyword"}
        here == {i \in marks : children[i].value = key}
        last == CHOOSE i \in here : \A j \in here : j <= i
        next == {i \in marks : i > last} \cup {Len(children) + 1}
        end == CHOOSE i \in next : \A j \in next : i <= j
    IN  IF here = {} THEN <<>> ELSE SubSeq(children, last + 1, end - 1)

QueryFails(n) ==
    LET SomeIn(key, Fails(_)) ==
            \E i \in DOMAIN Section(n.children, key) :
                Fails(Section(n.children, key)[i])
    IN  \/ n.type # "Vector"
        \/ n.children # <<>> /\ n.children[1].type # "Keyword"
        \/ ~\E i \in DOMAIN n.children :
               n.children[i].type = "Keyword" /\ n.children[i].value = ":find"
        \/ SomeIn(":find", FindFails) \/ SomeIn(":where", ClauseFails)
        \/ SomeIn(":order-by", OrderFails)

\* The inputs are names; $ and names that begin with it are sources.
Sources == {"$"}

ParseQuery(n) ==
    LET Each(key, Op(_)) == [i \in DOMAIN Section(n.children, key) |->
                                Op(Section(n.children, key)[i])]
        value(m) == m.value
        IsInput(v) == v \notin Sources
    IN  [find |-> Each(":find", parseFind),
         where |-> Each(":where", parseClause),
         in |-> SelectSeq(Each(":in", value), IsInput),
         orderBy |-> Each(":order-by", parseOrderBy)]
=============================================================================
