----------------------------- MODULE Recursive -----------------------------
(***************************************************************************)
(* The plan of PlanRecursive (query/recursive.go), run as its type says:   *)
(* BaseSQL once, then DeltaSQL until a round adds no row.                  *)
(*                                                                         *)
(* A value in a column is [t, x]: column v of current_datoms holds blobs,  *)
(* its other columns and every parameter of a plan hold integers. SQLite   *)
(* never finds an integer equal to a blob and puts it before any blob.     *)
(* A rule is [name, head, body]; a clause of its body is [kind, args], and *)
(* [name] or [fn]; a term is a variable, a constant or a blank, [kind, x]. *)
(***************************************************************************)
EXTENDS Naturals, Sequences, SequencesExt

CONSTANTS
    Dom,        \* entities, attribute IDs, transactions and values
    Attrs,      \* attributes SchemaLookup knows
    Databases,  \* sets of datoms [a, e, v, tx]
    RuleSets    \* sequences of rules

\* What the parser makes of rules (query/ast.go). A clause that is no pattern, rule
\* application or comparison is of a kind PlanRecursive does not support.
Terms == [kind : {"var"}, x : STRING] \cup [kind : {"const"}, x : Dom]
            \cup [kind : {"blank"}]
Clauses == [kind : {"pattern"}, args : [1..4 -> Terms]]
              \cup [kind : {"rule"}, name : STRING, args : Seq(Terms)]
              \cup [kind : {"expr"}, fn : {"<", "!="}, args : [1..2 -> Terms]]
              \cup [kind : {"not", "or"}, args : Seq(Terms)]
Rules == [name : STRING, head : Seq(Terms), body : Seq(Clauses)]
Datoms == [a : Dom, e : Dom, v : Dom, tx : Dom]

ASSUME RulesAssumption == RuleSets \subseteq Seq(Rules)
ASSUME DatabasesAssumption == Databases \subseteq SUBSET Datoms

VARIABLES
    db,         \* current_datoms
    rules,      \* the argument of PlanRecursive
    plan,       \* its result
    derived,    \* tables _rule_name
    delta,      \* tables _delta_name
    pc, pos,    \* what runs, and the statement it is at
    grew        \* the round has added a row

vars == <<db, rules, plan, derived, delta, pc, pos, grew>>

IntVal(n) == [t |-> "int", x |-> n]
BlobVal(n) == [t |-> "blob", x |-> n]
SQLValues == {IntVal(n) : n \in Dom} \cup {BlobVal(n) : n \in Dom}

\* A datom as current_datoms holds it, and as a reader means it. Columns are
\* in the order in which ruleBodyToSQL binds them.
Stored(d) == <<IntVal(d.a), IntVal(d.e), BlobVal(d.v), IntVal(d.tx)>>
Plain(d) == <<IntVal(d.a), IntVal(d.e), IntVal(d.v), IntVal(d.tx)>>

-----------------------------------------------------------------------------
(***************************************************************************)
(* Rule bodies.                                                            *)
(***************************************************************************)
VarsAt(terms, columns) ==
    {terms[i].x : i \in {j \in columns : terms[j].kind = "var"}}
VarsIn(terms) == VarsAt(terms, 1..Len(terms))

\* The variables varTracker knows after the first n clauses.
BoundBy(body, n) ==
    UNION {VarsIn(body[i].args) :
               i \in {j \in 1..n : body[j].kind \in {"pattern", "rule"}}}

\* A column with value val agrees with term t under the binding b.
Agrees(t, val, b) == /\ t.kind = "var" => val = b[t.x]
                     /\ t.kind = "const" => val = IntVal(t.x)

\* exprClauseToSQL, for the comparisons < and !=. A blank is bound as NULL, of
\* which no comparison holds.
NullVal == [t |-> "null", x |-> 0]
Compare(fn, p, q) ==
    /\ p.t # "null" /\ q.t # "null"
    /\ IF fn = "!=" THEN p # q
       ELSE IF p.t = q.t THEN p.x < q.x ELSE p.t = "int"

TermValue(t, b) ==
    IF t.kind = "var" THEN b[t.x]
    ELSE IF t.kind = "blank" THEN NullVal ELSE IntVal(t.x)

\* One clause under b, over rows of datoms and tables of derived tuples.
Satisfies(cl, b, rows, tables) ==
    IF cl.kind = "expr"
    THEN Compare(cl.fn, TermValue(cl.args[1], b), TermValue(cl.args[2], b))
    ELSE \E u \in IF cl.kind = "rule" THEN tables[cl.name] ELSE rows :
            \A i \in 1..Len(cl.args) : Agrees(cl.args[i], u[i], b)

\* The head of r under every binding that satisfies its body.
Consequences(r, rows, tables) ==
    {[i \in 1..Len(r.head) |-> TermValue(r.head[i], b)] :
        b \in {c \in [BoundBy(r.body, Len(r.body)) -> SQLValues] :
                  \A i \in 1..Len(r.body) :
                      Satisfies(r.body[i], c, rows, tables)}}

-----------------------------------------------------------------------------
(***************************************************************************)
(* PlanRecursive. A statement is [op, rule, uses] or [op, name].           *)
(***************************************************************************)
ruleNames(rs) == {rs[i].name : i \in 1..Len(rs)}

bodyRuleRefs(r, names) ==
    {r.body[i].name : i \in {j \in 1..Len(r.body) :
        r.body[j].kind = "rule" /\ r.body[j].name \in names}}

\* Mutant: every rule is taken for a recursive one.
MutRuleIsRecursiveAlways(r, names) == TRUE

ruleIsRecursive(r, names) == bodyRuleRefs(r, names) # {}

\* ruleBodyToSQL returns an error for this clause.
ClauseFails(rs, body, i) ==
    LET cl == body[i] IN
    \/ cl.kind \notin {"pattern", "rule", "expr"}
    \/ cl.kind = "pattern" /\ cl.args[1].kind = "const" /\ cl.args[1].x \notin Attrs
    \/ cl.kind = "rule" /\ cl.name \notin ruleNames(rs)
    \/ /\ cl.kind = "rule"
       /\ \E j \in 1..Len(rs) : rs[j].name = cl.name /\ Len(rs[j].head) # Len(cl.args)
    \/ cl.kind = "expr" /\ ~(VarsIn(cl.args) \subseteq BoundBy(body, i - 1))

RuleFails(rs, r) ==
    \/ \E i \in 1..Len(r.body) : ClauseFails(rs, r.body, i)
    \/ ~(VarsIn(r.head) \subseteq BoundBy(r.body, Len(r.body)))
    \/ \E i \in 1..Len(r.head) : r.head[i].kind = "blank"

\* No rules, two arities under one name, or a rule without translation.
PlanFails(rs) ==
    \/ rs = <<>>
    \/ \E i, j \in 1..Len(rs) : /\ rs[i].name = rs[j].name
                                /\ Len(rs[i].head) # Len(rs[j].head)
    \/ \E i \in 1..Len(rs) : RuleFails(rs, rs[i])

\* The pairs of S in lexicographic order, as nested loops visit them.
Before(u, v) == u[1] < v[1] \/ (u[1] = v[1] /\ u[2] < v[2])
Nth(S, n) == CHOOSE s \in S : Cardinality({u \in S : Before(u, s)}) = n - 1
Listing(S) == [n \in 1..Cardinality(S) |-> Nth(S, n)]

\* BaseSQL and DeltaSQL, of pairs <<rule, reference>>. The order of names and
\* that of each rule's references are those of Go maps; one order of names
\* serves both loops over them, since the seeds commute and so do the clears.
BasePairs(rs) ==
    {i \in 1..Len(rs) : ~ruleIsRecursive(rs[i], ruleNames(rs))} \X {0}
BaseSQL(rs, order) ==
    LET base == Listing(BasePairs(rs))
    IN  [k \in 1..Len(base) |->
            [op |-> "insert", rule |-> rs[base[k][1]], uses |-> {}]]
        \o [k \in 1..Len(order) |-> [op |-> "seed", name |-> order[k]]]

RefOrders(rs, i) == SetToSeqs(bodyRuleRefs(rs[i], ruleNames(rs)))
DeltaPairs(rs, refs) ==
    UNION {{i} \X (1..Len(refs[i])) :
              i \in {j \in 1..Len(rs) : ruleIsRecursive(rs[j], ruleNames(rs))}}
DeltaSQL(rs, order, refs) ==
    LET variants == Listing(DeltaPairs(rs, refs))
    IN  [k \in 1..Len(order) |-> [op |-> "clear", name |-> order[k]]]
        \o [k \in 1..Len(variants) |->
               LET v == variants[k]
               IN  [op |-> "insert", rule |-> rs[v[1]], uses |-> {refs[v[1]][v[2]]}]]

\* Where a rule's statement has placeholders: <<0, i>> in the SELECT list,
\* <<c, i>> in the condition of clause c. They stand for constants and for the
\* blanks of expressions.
Term(r, s) == IF s[1] = 0 THEN r.head[s[2]] ELSE r.body[s[1]].args[s[2]]
Placeholder(r, s) ==
    \/ Term(r, s).kind = "const"
    \/ s[1] # 0 /\ r.body[s[1]].kind = "expr" /\ Term(r, s).kind = "blank"
Slots(r, c) ==
    LET terms == IF c = 0 THEN r.head ELSE r.body[c].args
    IN  {s \in {c} \X (1..Len(terms)) : Placeholder(r, s)}
BodySlots(r) == UNION {Slots(r, c) : c \in 1..Len(r.body)}

\* The constant that the placeholder at s gets: the parameters of the SELECT
\* list come last, its placeholders first.
Given(r, s) ==
    LET text == Listing(Slots(r, 0)) \o Listing(BodySlots(r))
        params == Listing(BodySlots(r)) \o Listing(Slots(r, 0))
    IN  IF Placeholder(r, s)
        THEN Term(r, params[CHOOSE k \in DOMAIN text : text[k] = s])
        ELSE Term(r, s)

\* The rule with its constants as its placeholders get them.
Bound(r) ==
    [r EXCEPT !.head = [i \in 1..Len(@) |-> Given(r, <<0, i>>)],
              !.body = [c \in 1..Len(@) |-> [r.body[c] EXCEPT
                  !.args = [i \in 1..Len(@) |-> Given(r, <<c, i>>)]]]]

\* The tables a statement reads, those in uses as deltas.
Sources(uses) == [n \in ruleNames(rules) |->
                     IF n \in uses THEN delta[n] ELSE derived[n]]

\* Mutant: the conditions of expression clauses are left out.
MutRuleBodyNoFilters(r, uses) ==
    LET body == SelectSeq(r.body, LAMBDA cl : cl.kind # "expr")
    IN  Consequences([r EXCEPT !.body = body],
                     {Stored(d) : d \in db}, Sources(uses))

\* The rows a rule's INSERT OR IGNORE ... SELECT DISTINCT selects.
ruleBodyToSQL(r, uses) ==
    Consequences(Bound(r), {Stored(d) : d \in db}, Sources(uses))

-----------------------------------------------------------------------------
Empty(rs) == [n \in ruleNames(rs) |-> {}]
NoPlan == [base |-> <<>>, iter |-> <<>>]

Init ==
    /\ db \in Databases
    /\ rules \in RuleSets
    /\ plan = NoPlan
    /\ derived = Empty(rules) /\ delta = Empty(rules)
    /\ pc = "plan" /\ pos = 1 /\ grew = FALSE

PlanRecursive ==
    /\ pc = "plan"
    /\ \/ /\ PlanFails(rules)
          /\ pc' = "error"
          /\ UNCHANGED plan
       \/ /\ ~PlanFails(rules)
          /\ pc' = "base"
          /\ \E order \in SetToSeqs(ruleNames(rules)),
                refs \in [1..Len(rules) ->
                            UNION {RefOrders(rules, i) : i \in 1..Len(rules)}] :
                /\ \A i \in 1..Len(rules) : refs[i] \in RefOrders(rules, i)
                /\ plan' = [base |-> BaseSQL(rules, order),
                            iter |-> DeltaSQL(rules, order, refs)]
    /\ UNCHANGED <<db, rules, derived, delta, pos, grew>>

Execute(st) ==
    \/ /\ st.op = "insert"
       /\ derived' = [derived EXCEPT ![st.rule.name] =
                         @ \cup ruleBodyToSQL(st.rule, st.uses)]
       /\ UNCHANGED delta
    \/ /\ st.op = "seed"
       /\ delta' = [delta EXCEPT ![st.name] = @ \cup derived[st.name]]
       /\ UNCHANGED derived
    \/ /\ st.op = "clear"
       /\ delta' = [delta EXCEPT ![st.name] = {}]
       /\ UNCHANGED derived

RunBase ==
    /\ pc = "base"
    /\ pos <= Len(plan.base)
    /\ Execute(plan.base[pos])
    /\ pos' = pos + 1
    /\ UNCHANGED <<db, rules, plan, pc, grew>>

RunDelta ==
    /\ pc = "delta"
    /\ pos <= Len(plan.iter)
    /\ Execute(plan.iter[pos])
    /\ pos' = pos + 1
    /\ grew' = (grew \/ derived' # derived)
    /\ UNCHANGED <<db, rules, plan, pc>>

\* The caller goes on to the next round, or has the result.
NextRound ==
    /\ \/ pc = "base" /\ pos > Len(plan.base)
       \/ pc = "delta" /\ pos > Len(plan.iter)
    /\ pc' = IF pc = "base" \/ grew THEN "delta" ELSE "done"
    /\ pos' = 1
    /\ grew' = FALSE
    /\ UNCHANGED <<db, rules, plan, derived, delta>>

Next == PlanRecursive \/ RunBase \/ RunDelta \/ NextRound

Spec == Init /\ [][Next]_vars

-----------------------------------------------------------------------------
\* The derived tuples and the datoms, with the values themselves.
Meaning(tuples) == {[i \in DOMAIN u |-> IntVal(u[i].x)] : u \in tuples}
Known == [n \in ruleNames(rules) |-> Meaning(derived[n])]

\* What the rules named n derive from the datoms and from what is known.
Follows(n, tuple) ==
    \E i \in 1..Len(rules) :
        /\ rules[i].name = n
        /\ tuple \in Consequences(rules[i], {Plain(d) : d \in db}, Known)

\* Whatever statement of the plan runs, in whatever order the maps gave them,
\* every row it adds to a _rule_ table follows by one of the rules from
\* current_datoms and the rows already there.
DerivedIsSound ==
    [][\A n \in ruleNames(rules) :
          \A u \in Meaning(derived'[n]) \ Known[n] : Follows(n, u)]_vars

\* The column of clause cl that holds values, and the variables of r that occur
\* in such a column and in any other.
ValueColumn(cl) == IF cl.kind = "pattern" THEN {3} ELSE {}
ValueVars(r) == UNION {VarsAt(r.body[i].args, ValueColumn(r.body[i])) :
                          i \in 1..Len(r.body)}
OtherVars(r) == UNION {VarsAt(r.body[i].args,
                              1..Len(r.body[i].args) \ ValueColumn(r.body[i])) :
                          i \in 1..Len(r.body)}

\* No variable of r is a value in one place and something else in another, and
\* no constant is a value or in the head.
Separated(r) ==
    /\ ValueVars(r) \cap OtherVars(r) = {}
    /\ \A i \in 1..Len(r.body) :
          r.body[i].kind = "pattern" => r.body[i].args[3].kind # "const"
    /\ Slots(r, 0) = {}

\* The tables hold whatever follows by r.
ClosedUnder(r) ==
    Consequences(r, {Plain(d) : d \in db}, Known) \subseteq Known[r.name]

\* When the loop stops, the _rule_ tables are closed under the rules that refer
\* to no rule and keep values apart: none was left out of BaseSQL and no order
\* of the statements loses a row.
BaseIsComplete ==
    pc = "done" => \A i \in 1..Len(rules) :
        /\ bodyRuleRefs(rules[i], ruleNames(rules)) = {}
        /\ Separated(rules[i])
        => ClosedUnder(rules[i])

\* When the loop stops, the _rule_ tables are closed under all rules: no further
\* row follows (it does, of every recursive rule).
ResultIsFixpoint ==
    pc = "done" => \A i \in 1..Len(rules) : ClosedUnder(rules[i])
=============================================================================
