------------------------------- MODULE Query --------------------------------
(***************************************************************************)
(* A call of Query, on the database or on a view AsOf(t): compileQuery and *)
(* executeQuery (query_api.go) over the reader and the compiler, and what  *)
(* a query means. Aggregates, user functions in filters, the order of rows *)
(* and views by valid time are left out.                                   *)
(***************************************************************************)
EXTENDS Meaning

CONSTANTS
    Requests,   \* calls [tokens, query, args, view]: query is what was meant
    Databases,  \* logs: sets of [e, a, v, tx, added]
    NoQuery,    \* the query of tokens that mean none
    Now         \* the view of a call on the database itself

VARIABLES
    request,    \* the call
    phase,      \* the next step of the call, "answered" or "failed"
    query,      \* what ParseQuery has returned
    aq,         \* the algebraic query, rewritten by the steps
    log,        \* the datoms, once the statement runs
    answer      \* the rows returned

vars == <<reader, request, phase, query, aq, log, answer>>

-----------------------------------------------------------------------------
(***************************************************************************)
(* The tables. Each fact is asserted once and then perhaps retracted; the  *)
(* module Views covers facts that come back.                               *)
(***************************************************************************)
EAV(r) == <<r.e, r.a, r.v>>

\* applyAsOf: what a table of the query reads under AsOf(t).
applyAsOf(datoms, t) ==
    {r \in datoms : /\ r.added /\ r.tx <= t
                    /\ ~\E s \in datoms : /\ EAV(s) = EAV(r) /\ ~s.added
                                          /\ s.tx <= t}

Current(datoms) ==
    {r \in datoms : r.added /\ ~\E s \in datoms : EAV(s) = EAV(r) /\ s.tx > r.tx}

-----------------------------------------------------------------------------
(***************************************************************************)
(* bindInputArgs. encodeValue leaves a byte slice as it is.                *)
(***************************************************************************)
encodeValueFails(val, type) ==
    TypedColumn(type) = "v" /\ ~(type = "bytes" /\ val[1] = "bytes")

TablesWith(q, name) ==
    {i \in DOMAIN q.tables : \E c \in {"v", "e", "tx"} : q.tables[i].pat[c] = Var(name)}

BindTable(tb, name, val) ==
    IF tb.pat.v = Var(name) THEN [tb EXCEPT !.v = val]
    ELSE IF tb.pat.e = Var(name) THEN [tb EXCEPT !.e = val]
    ELSE [tb EXCEPT !.tx = val]

\* The filter arguments that wait for an input, as <<filter, argument>>.
ArgsFor(q, name) ==
    {x \in (DOMAIN q.filters) \X (1..2) :
        /\ x[2] \in DOMAIN q.filters[x[1]].args
        /\ LET arg == q.filters[x[1]].args[x[2]]
           IN  arg.var = name /\ arg.table = 0}

First(places) ==
    CHOOSE x \in places : \A y \in places : x[1] < y[1] \/ (x[1] = y[1] /\ x[2] <= y[2])

\* The type of an argument, or of the first one beside it that has a type.
TypeBeside(args, i) ==
    LET typed == {j \in DOMAIN args : args[j].type # NoType}
    IN  IF args[i].type # NoType \/ typed = {} THEN args[i].type
        ELSE args[Min(typed)].type

InputFails(q, name, val) ==
    IF TablesWith(q, name) # {}
    THEN LET tb == q.tables[Min(TablesWith(q, name))]
         IN  tb.pat.v = Var(name) /\ encodeValueFails(val, tb.type)
    ELSE IF ArgsFor(q, name) = {} THEN TRUE
    ELSE LET x == First(ArgsFor(q, name))
             type == TypeBeside(q.filters[x[1]].args, x[2])
         IN  type # NoType /\ encodeValueFails(val, type)

\* Only the first place is bound; the joins carry the value to other patterns.
BindInput(q, name, val) ==
    IF TablesWith(q, name) # {}
    THEN [q EXCEPT !.tables[Min(TablesWith(q, name))] = BindTable(@, name, val)]
    ELSE LET x == First(ArgsFor(q, name))
         IN  [q EXCEPT !.filters[x[1]].args[x[2]] =
                 [@ EXCEPT !.var = "", !.const = val]]

bindInputArgs(q, names, args) ==
    FoldLeftDomain(LAMBDA acc, i : BindInput(acc, names[i], args[i]), q, names)

\* encodeParams: constants compared with the blob of a known type.
encodeParamsFails(q) ==
    \/ \E i \in DOMAIN q.tables :
          LET tb == q.tables[i]
          IN  tb.v # Null /\ tb.type # NoType /\ encodeValueFails(tb.v, tb.type)
    \/ \E i \in DOMAIN q.filters : \E j \in DOMAIN q.filters[i].args :
          LET arg == q.filters[i].args[j]
          IN  arg.var = "" /\ arg.type # NoType /\ encodeValueFails(arg.const, arg.type)

-----------------------------------------------------------------------------
(***************************************************************************)
(* executeQuery and resolveAttributes: a column of the result as Go value. *)
(***************************************************************************)
Decoded(fm, row) ==
    CASE fm.at.col = "a" -> <<"text", IdentOf(row.a)>>
      [] fm.at.col = "v" /\ TypedColumn(fm.type) = "v" -> decodeValue(row.v)
      [] fm.at.col = "v" -> Column(row, TypedColumn(fm.type))
      [] OTHER -> Column(row, fm.at.col)

-----------------------------------------------------------------------------
Init ==
    /\ request \in Requests
    /\ ReaderInit(request.tokens)
    /\ phase = "parse"
    /\ query = NoQuery /\ aq = <<>> /\ log = {} /\ answer = {}

Parsing == phase = "parse" /\ Read /\ UNCHANGED <<request, phase, query, aq, log, answer>>

Fail ==
    /\ phase' = "failed"
    /\ UNCHANGED <<reader, request, query, aq, log, answer>>

ParseQueryStep ==
    /\ phase = "parse" /\ reading = "read"
    /\ ~QueryFails(node)
    /\ query' = ParseQuery(node)
    /\ phase' = "algebrize"
    /\ UNCHANGED <<reader, request, aq, log, answer>>

ParseQueryFails ==
    /\ phase = "parse"
    /\ reading = "failed" \/ (reading = "read" /\ QueryFails(node))
    /\ Fail

AlgebrizeStep ==
    /\ phase = "algebrize"
    /\ ~AlgebrizeFails(query)
    /\ aq' = Algebrize(query)
    /\ phase' = "bind"
    /\ UNCHANGED <<reader, request, query, log, answer>>

AlgebrizeStepFails == phase = "algebrize" /\ AlgebrizeFails(query) /\ Fail

BindFails ==
    \/ Len(request.args) < Len(query.in)
    \/ \E i \in DOMAIN query.in :
          /\ i <= Len(request.args)
          /\ InputFails(bindInputArgs(aq, SubSeq(query.in, 1, i - 1), request.args),
                        query.in[i], request.args[i])

BindStep ==
    /\ phase = "bind"
    /\ ~BindFails
    /\ aq' = bindInputArgs(aq, query.in, request.args)
    /\ phase' = "translate"
    /\ UNCHANGED <<reader, request, query, log, answer>>

BindStepFails == phase = "bind" /\ BindFails /\ Fail

TranslateStep ==
    /\ phase = "translate"
    /\ ~TranslateFails(aq) /\ ~encodeParamsFails(aq)
    /\ phase' = "execute"
    /\ UNCHANGED <<reader, request, query, aq, log, answer>>

TranslateStepFails ==
    /\ phase = "translate"
    /\ TranslateFails(aq) \/ encodeParamsFails(aq)
    /\ Fail

\* The tables are read only now, so their contents are chosen only now.
executeQuery ==
    /\ phase = "execute"
    /\ log' \in Databases
    /\ LET source == IF request.view = Now THEN Current(log')
                     ELSE applyAsOf(log', request.view)
       IN  answer' = {[i \in DOMAIN aq.find |->
                          Decoded(aq.find[i], rows[aq.find[i].at.table])] :
                         rows \in Selected(aq, source, Current(log'))}
    /\ phase' = "answered"
    /\ UNCHANGED <<reader, request, query, aq>>

Next ==
    \/ Parsing \/ ParseQueryStep \/ ParseQueryFails
    \/ AlgebrizeStep \/ AlgebrizeStepFails \/ BindStep \/ BindStepFails
    \/ TranslateStep \/ TranslateStepFails \/ executeQuery

Spec == Init /\ [][Next]_vars

-----------------------------------------------------------------------------
\* The facts that hold after transaction t.
HeldAt(datoms, t) == Current({r \in datoms : r.tx <= t})

Meant ==
    Meaning(request.query, request.args,
            IF request.view = Now THEN Current(log) ELSE HeldAt(log, request.view))

\* A query the compiler supports is answered, with exactly the rows it means,
\* from its text to the decoded values: over all databases, now or as of an
\* earlier transaction, whatever joins, comparisons, inputs and negations.
AnswerIsRight ==
    /\ phase \in {"answered", "failed"}
    /\ request.query # NoQuery
    /\ Supported(request.query, request.args, request.view = Now)
    => phase = "answered" /\ answer = Meant

\* The query that is compiled is the one that was written, with every clause,
\* input and element in its place: supported or not, its sections in any order
\* and, of a section given twice, the last one.
ParsedAsWritten ==
    phase \in {"algebrize", "bind", "translate", "execute", "answered"}
    /\ request.query # NoQuery
    => query = request.query
=============================================================================
