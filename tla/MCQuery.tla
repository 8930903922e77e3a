------------------------------- MODULE MCQuery ------------------------------
(***************************************************************************)
(* Instances of Query for TLC: two entities with a name (string), an age   *)
(* (int), a boss (ref) and a key (bytes). One name spells a number.        *)
(***************************************************************************)
EXTENDS Query

MCKeywords == {":find", ":in", ":where", ":order-by", ":desc",
               ":name", ":age", ":boss", ":key", ":gone"}
MCVariables == {"?e", "?f", "?b", "?n", "?x", "?y", "?t", "?a", "?k", "?i"}
MCIntegers == {"1", "2"}
MCFloats == {"1.5", "9223372036854775808", "Inf"}
MCIntVal == ("1" :> 1) @@ ("2" :> 2)
MCCollation == ("" :> 0) @@ ("a" :> 1) @@ ("k" :> 2) @@ ("1" :> 3) @@ ("2" :> 4)

Attr(id, type) == [id |-> id, type |-> type]
MCSchema == (":name" :> Attr(1, "string")) @@ (":age" :> Attr(2, "int"))
            @@ (":boss" :> Attr(3, "ref")) @@ (":key" :> Attr(4, "bytes"))
MCNoQuery == [find |-> <<>>, where |-> <<>>, in |-> <<>>, orderBy |-> <<>>]

-----------------------------------------------------------------------------
\* All databases of some of these facts, some of them retracted later.
Fact(e, ident, x, tx) ==
    [e |-> e, a |-> MCSchema[ident].id, v |-> <<MCSchema[ident].type, x>>,
     tx |-> tx, added |-> TRUE]
Lasting == {Fact(2, ":name", "1", 1), Fact(2, ":age", 1, 2), Fact(1, ":key", "k", 2)}
Passing == {Fact(1, ":name", "a", 1), Fact(1, ":age", 2, 1), Fact(1, ":boss", 2, 1)}
Retraction(f) == [f EXCEPT !.tx = 2, !.added = FALSE]
MCDatabases ==
    {kept \cup past \cup {Retraction(f) : f \in gone} :
        <<kept, past, gone>> \in
            {x \in (SUBSET Lasting) \X (SUBSET Passing) \X (SUBSET Passing) :
                x[3] \subseteq x[2]}}

-----------------------------------------------------------------------------
\* A query as text.
PrintElem(el) ==
    IF IsVar(el) THEN <<Atom(el[2])>>
    ELSE IF el = Blank THEN <<Atom("_")>>
    ELSE CASE el[2][1] = "int" -> <<Atom(CHOOSE s \in MCIntegers : MCIntVal[s] = el[2][2])>>
           [] el[2][2] \in MCKeywords -> <<Atom(el[2][2])>>
           [] OTHER -> <<Text(el[2][2])>>
PrintAll(els) == FlattenSeq([i \in DOMAIN els |-> PrintElem(els[i])])
In(open, ts, close) == <<Punct(open)>> \o ts \o <<Punct(close)>>

RECURSIVE PrintClause(_)
PrintClause(c) ==
    LET all(cs) == FlattenSeq([i \in DOMAIN cs |-> PrintClause(cs[i])]) IN
    CASE IsPattern(c) ->
            In("[", PrintAll(IF c.tx # Blank THEN <<c.e, c.a, c.v, c.tx>>
                             ELSE IF c.v # Blank THEN <<c.e, c.a, c.v>>
                             ELSE <<c.e, c.a>>), "]")
      [] IsExpr(c) ->
            In("[", In("(", <<Atom(c.fn)>> \o PrintAll(c.args), ")")
                    \o IF c.binding = Blank THEN <<>> ELSE PrintElem(c.binding), "]")
      [] IsNot(c) -> In("(", <<Atom("not")>> \o all(c.clauses), ")")
      [] IsOr(c) -> In("(", <<Atom("or")>> \o all(FlattenSeq(c.branches)), ")")
      [] OTHER -> In("(", <<Atom(c.name)>> \o PrintAll(c.args), ")")

Names(vs) == [i \in DOMAIN vs |-> Atom(vs[i])]
PrintFind(q) ==
    <<Atom(":find")>> \o FlattenSeq([i \in DOMAIN q.find |->
        IF q.find[i].agg = "" THEN <<Atom(q.find[i].var)>>
        ELSE In("(", <<Atom(q.find[i].agg), Atom(q.find[i].var)>>, ")")])
PrintWhere(q) ==
    <<Atom(":where")>> \o FlattenSeq([i \in DOMAIN q.where |-> PrintClause(q.where[i])])
PrintIn(q) == IF q.in = <<>> THEN <<>>
              ELSE <<Atom(":in"), Atom("$")>> \o Names(q.in)
PrintOrder(q) ==
    IF q.orderBy = <<>> THEN <<>>
    ELSE <<Atom(":order-by")>> \o FlattenSeq([i \in DOMAIN q.orderBy |->
            IF q.orderBy[i].desc
            THEN In("[", <<Atom(q.orderBy[i].var), Atom(":desc")>>, "]")
            ELSE <<Atom(q.orderBy[i].var)>>])

-----------------------------------------------------------------------------
V(x) == Var(x)
K(ident) == Const(<<"text", ident>>)
I(n) == Const(<<"int", n>>)
P(e, ident, v) == Pattern(e, K(ident), v, Blank)
Cmp(fn, x, y) == ExprClause(fn, <<x, y>>, Blank)

Q(find, in, where) ==
    [find |-> [i \in DOMAIN find |-> [var |-> find[i], agg |-> ""]],
     where |-> where, in |-> in, orderBy |-> <<>>]
Order(name, desc) == [var |-> name, desc |-> desc]
Ask(q, args, view) ==
    [tokens |-> In("[", PrintFind(q) \o PrintIn(q) \o PrintWhere(q) \o PrintOrder(q), "]"),
     query |-> q, args |-> args, view |-> view]

\* Every pair of patterns of every kind, finding all their variables.
Pool == {P(V("?e"), ":name", V("?n")), P(V("?e"), ":age", V("?x")),
         P(V("?e"), ":boss", V("?f")), P(V("?f"), ":name", V("?n")),
         P(V("?f"), ":age", V("?x")), P(V("?e"), ":name", K("a")),
         P(V("?x"), ":boss", V("?x")), P(I(1), ":key", V("?k")),
         P(V("?e"), ":boss", Blank), Pattern(V("?e"), V("?a"), V("?y"), Blank),
         Pattern(V("?f"), V("?a"), I(1), Blank),
         Pattern(Blank, V("?b"), V("?x"), V("?t")),
         Pattern(V("?f"), K(":age"), I(1), V("?t"))}
Pairs ==
    {Ask(Q(SetToSeq(NamesIn(TablesOf(ps))), <<>>, ps), <<>>, view) :
        ps \in Pool \X Pool, view \in {Now, 1}}

eName == P(V("?e"), ":name", V("?n"))
eAge == P(V("?e"), ":age", V("?x"))
eBoss == P(V("?e"), ":boss", V("?f"))
bBoss == P(V("?b"), ":boss", V("?f"))
notA == NotClause(<<P(V("?e"), ":name", K("a"))>>)

\* Three patterns, comparisons, negation at each number of tables.
Wheres ==
    {<<eName, eAge, eBoss>>, <<eBoss, P(V("?f"), ":name", V("?n")), eAge>>,
     <<eName, eAge, Cmp(">", V("?x"), I(1))>>, <<Cmp("<=", V("?x"), I(1)), eAge, eName>>,
     <<eAge, eName, Cmp("!=", I(2), V("?x")), Cmp("=", V("?n"), K("1"))>>,
     <<eAge, P(V("?f"), ":age", V("?y")), eName, Cmp("<", V("?x"), V("?y"))>>,
     <<eName, Cmp(">=", V("?e"), I(2))>>, <<eName, notA>>, <<bBoss, eName, notA>>,
     <<P(V("?f"), ":age", V("?x")), eName, NotClause(<<eBoss>>)>>,
     <<P(V("?f"), ":age", V("?y")), eName,
       NotClause(<<eAge, Cmp(">", V("?x"), I(1))>>)>>,
     <<P(V("?f"), ":age", V("?y")), P(V("?b"), ":age", V("?y")), eName,
       NotClause(<<eAge, P(V("?i"), ":age", V("?x")), P(V("?i"), ":key", V("?k"))>>)>>,
     <<P(V("?f"), ":age", V("?y")), P(V("?b"), ":age", V("?y")), eName,
       NotClause(<<eAge, P(V("?i"), ":age", V("?x"))>>)>>,
     <<bBoss, eName, NotClause(<<eAge, NotClause(<<eBoss>>)>>)>>,
     <<eName, OrClause(<<<<eAge>>, <<eBoss>>>>)>>}
Formed == {Ask(Q(<<"?n">>, <<>>, w), <<>>, view) : w \in {x \in Wheres : \E i \in DOMAIN x :
              IsPattern(x[i]) /\ x[i].v = V("?n")}, view \in {Now, 1}}

\* Inputs in every place, and calls that fail at each step.
Called(ins, w, args) == Ask(Q(<<"?n">>, ins, w), args, Now)
Calls ==
    {Called(<<"?x">>, <<eName, eAge>>, <<<<"int", 2>>>>),
     Called(<<"?e">>, <<eName, eAge>>, <<<<"int", 2>>>>),
     Called(<<"?e">>, <<P(V("?f"), ":boss", V("?e")), eName>>, <<<<"int", 2>>>>),
     Called(<<"?t">>, <<Pattern(V("?e"), K(":name"), V("?n"), V("?t"))>>, <<<<"int", 2>>>>),
     Called(<<"?k">>, <<eName, P(V("?e"), ":key", V("?k"))>>, <<<<"bytes", "k">>>>),
     Called(<<"?k">>, <<eName, P(V("?e"), ":key", V("?k"))>>, <<<<"text", "k">>>>),
     Called(<<"?i">>, <<eName, eAge, Cmp(">=", V("?x"), V("?i"))>>, <<<<"int", 2>>>>),
     Called(<<"?i", "?x">>, <<eName, eAge, Cmp("!=", V("?i"), V("?n"))>>,
           <<<<"text", "a">>, <<"int", 1>>>>),
     Called(<<"?i">>, <<eName, Cmp("<", V("?i"), V("?e"))>>, <<<<"int", 1>>>>),
     Called(<<"?i">>, <<eName>>, <<<<"int", 1>>>>),
     Called(<<"?i", "?i">>, <<eName, Cmp("<", V("?i"), V("?e"))>>, <<<<"int", 1>>, <<"int", 2>>>>),
     Called(<<"?x", "?x">>, <<eName, eAge>>, <<<<"int", 1>>, <<"int", 2>>>>),
     Called(<<"?x">>, <<eName, eAge>>, <<>>),
     Called(<<"?x">>, <<eName, eAge, Cmp(">", V("?x"), I(1))>>, <<<<"int", 2>>>>),
     Called(<<"?a">>, <<eName, Pattern(V("?e"), V("?a"), V("?x"), Blank)>>, <<<<"int", 2>>>>),
     Called(<<"?x">>, <<eName, Pattern(V("?e"), V("?a"), V("?x"), Blank)>>, <<<<"int", 2>>>>),
     Called(<<"?n">>, <<eName>>, <<<<"text", "a">>>>),
     Called(<<>>, <<P(V("?e"), ":gone", V("?n"))>>, <<>>),
     Called(<<>>, <<eName, RuleApplication("old", <<V("?e")>>)>>, <<>>),
     Called(<<>>, <<eName, Cmp(">", V("?y"), I(1))>>, <<>>),
     Called(<<>>, <<eName, NotClause(<<Cmp(">", V("?e"), I(1)), eAge>>)>>, <<>>),
     Called(<<>>, <<eName, ExprClause("<", <<V("?e"), I(2)>>, V("?y"))>>, <<>>),
     Called(<<>>, <<eName, P(V("?e"), ":key", K("k"))>>, <<>>),
     Called(<<>>, <<>>, <<>>),
     Called(<<>>, <<eName, P(V("?e"), ":age", K("1"))>>, <<>>),
     Called(<<>>, <<eName, P(V("?e"), ":name", I(1))>>, <<>>),
     Called(<<>>, <<eName, P(K("2"), ":age", V("?x"))>>, <<>>),
     Called(<<>>, <<eName, P(V("?e"), ":age", V("?n"))>>, <<>>),
     Called(<<>>, <<eName, Cmp(">=", V("?n"), I(2))>>, <<>>),
     Called(<<"?x">>, <<eName, eAge>>, <<<<"text", "1">>>>),
     Called(<<"?i">>, <<eName, Cmp("<", V("?i"), V("?e"))>>, <<<<"text", "1">>>>),
     Ask(Q(<<>>, <<>>, <<eName>>), <<>>, Now),
     Ask([Q(<<"?n", "?e">>, <<>>, <<eName>>) EXCEPT !.orderBy = <<Order("?e", TRUE), Order("?n", FALSE)>>], <<>>, Now),
     Ask([Q(<<"?n">>, <<>>, <<eName>>) EXCEPT !.orderBy = <<Order("?x", FALSE)>>], <<>>, Now)}

\* The same sections in another order, and one given twice.
Turned ==
    LET q == Q(<<"?n">>, <<"?x">>, <<eName, eAge>>)
        r == Q(<<"?e">>, <<>>, <<eAge>>)
        as(ts) == [tokens |-> In("[", ts, "]"), query |-> q, args |-> <<<<"int", 2>>>>, view |-> Now]
    IN  {as(PrintWhere(q) \o PrintIn(q) \o PrintFind(q)),
         as(PrintFind(r) \o PrintWhere(r) \o PrintIn(q) \o PrintFind(q) \o PrintWhere(q))}

\* Tokens that mean no query.
Tokens == {Punct(t) : t \in {"(", ")", "[", "]", "{", "}", "#"}} \cup {Atom("1")}
NoMeaning(ts) == [tokens |-> ts, query |-> MCNoQuery, args |-> <<>>, view |-> Now]
Loose ==
    {NoMeaning(ts) : ts \in UNION {[1..n -> Tokens] : n \in 0..4}}
    \cup {NoMeaning(In("[", <<Atom(":find"), Atom("?e"), Atom(":where")>> \o ts, "]")) :
             ts \in {<<Atom("?e")>>, In("[", <<>>, "]"), In("[", <<Atom("?e")>>, "]"),
                     In("(", <<>>, ")"), In("[", In("(", <<>>, ")"), "]"),
                     In("(", <<Atom("not"), Text("_")>>, ")"),
                     In("[", <<Atom("nil"), Atom("true"), Atom("1.5"), Text("_"), Atom("_")>>, "]")}}

MCRequests == Pairs \cup Formed \cup Calls \cup Turned \cup Loose
=============================================================================
