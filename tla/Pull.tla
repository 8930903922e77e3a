-------------------------------- MODULE Pull --------------------------------
(***************************************************************************)
(* Pull and PullMany (pull.go) on one connection, while other connections  *)
(* commit. A connection caches prepared statements by their text, so a     *)
(* pull of named attributes and the pulls nested in it step one statement. *)
(* Outside a statement the connection is in no transaction: each statement *)
(* reads what is committed when it is first stepped.                       *)
(*                                                                         *)
(* A pattern is [wildcard, attrs], an element of attrs [ident, key,        *)
(* nested], where key is the alias or the ident. A pulled entity is        *)
(* [id, attrs]; attrs has for each key the attribute and its values, each  *)
(* [val] or a pulled entity. A CardOne value is a list of one.             *)
(***************************************************************************)
EXTENDS Naturals, Sequences, SequencesExt

CONSTANTS
    Attrs,          \* attributes the schema cache knows
    ManyAttrs,      \* those that are CardMany
    RefAttrs,       \* those of TypeRef
    Refs,           \* the values that decode to an int64
    MaxPullDepth,   \* maxPullDepth
    NoPattern,      \* no nested pattern
    NoView,         \* the pull is not of a temporal view
    Tables,         \* contents of current_datoms: sets of rows [e, a, v, tx]
    Shown,          \* what temporal views show of the log
    Patterns,       \* the patterns of calls and those nested in them
    Requests,       \* calls [eids, pattern]
    MaxCommits,     \* bound: commits of others
    MaxErrors       \* bound: statements that fail

ASSUME PullAssumption ==
    /\ ManyAttrs \subseteq Attrs /\ RefAttrs \subseteq Attrs
    /\ MaxPullDepth \in Nat /\ MaxCommits \in Nat /\ MaxErrors \in Nat

ASSUME PatternsAssumption ==
    /\ NoPattern \notin Patterns
    /\ \A p \in Patterns :
          /\ p.wildcard \in BOOLEAN /\ p.attrs \in Seq(ToSet(p.attrs))
          /\ \A pa \in ToSet(p.attrs) : pa.nested \in Patterns \cup {NoPattern}
    /\ \A q \in Requests : q.pattern \in Patterns /\ q.eids \in Seq(ToSet(q.eids))

VARIABLES
    current,    \* current_datoms
    view,       \* the rows a DBView shows, or NoView
    stmt,       \* the cached statement: its parameters and its open cursor
    stack,      \* calls of pullEntity in progress, the innermost last
    request,    \* the call
    results,    \* what it has pulled so far
    failed,     \* the call has returned an error
    commits,    \* commits so far
    errors,     \* statements that have failed so far
    instants,   \* history: contents of current_datoms since the call began
    pulled      \* history: what calls of pullEntity have returned

vars == <<current, view, stmt, stack, request, results, failed, commits, errors,
          instants, pulled>>

\* The call has something left to do.
Running == ~failed /\ Len(results) < Len(request.eids)

-----------------------------------------------------------------------------
(***************************************************************************)
(* The cached statement. While it has been stepped and not reset, all that *)
(* the connection reads comes from one snapshot. external: Conn.Prepare    *)
(* resets a cached statement and clears its parameters; a statement that   *)
(* has been reset runs anew, with the parameters it has, when stepped.     *)
(***************************************************************************)
Unbound == [bound |-> <<>>, open |-> FALSE]
Bind(e, a) == [bound |-> <<e, a>>, open |-> FALSE]
Reset(st) == [bound |-> st.bound, open |-> FALSE]

\* The rows the connection's statements read.
Readable == IF view # NoView THEN view
            ELSE IF stmt.open THEN stmt.snapshot ELSE current

\* Rows in the order of the table's index, the same for every statement.
InOrder(rows) == SetToSeq(rows)

Selected(st, rows) ==
    InOrder({r \in rows : <<r.e, r.a>> = st.bound})

\* Mutant: each row is looked up by a query of its own.
MutCursorReruns(st) ==
    LET rest == Selected(st, IF view = NoView THEN current ELSE view)
        from == IF st.open THEN st.from + 1 ELSE 1
    IN  [bound |-> st.bound, open |-> TRUE, from |-> from, snapshot |-> current,
         todo |-> SubSeq(rest, from, Len(rest))]

\* The statement with its cursor at the first row, or where it is.
Cursor(st) ==
    IF st.open THEN st
    ELSE [bound |-> st.bound, open |-> TRUE, snapshot |-> Readable,
          todo |-> Selected(st, Readable)]

-----------------------------------------------------------------------------
Frame(e, p) == [e |-> e, pat |-> p, phase |-> "enter", at |-> 1, rows |-> <<>>,
                vals |-> <<>>, attrs |-> <<>>]

Top == Last(stack)
Depth == Len(stack) - 1
Becomes(f) == Front(stack) \o <<f>>

Entry(a, vals) == [attr |-> a, vals |-> vals]

\* result[k] = x.
Put(result, k, x) ==
    [j \in {k} \cup DOMAIN result |-> IF j = k THEN x ELSE result[j]]

\* The value of a row as it stands, or the call that replaces it.
IsFollowed(a, v, nested) == a \in RefAttrs /\ v \in Refs /\ nested # NoPattern

\* The loop of a wildcard pull adds a value to its result.
WildcardAdds(f, val) ==
    LET a == Head(f.rows).a
        old == IF a \in ManyAttrs /\ a \in DOMAIN f.attrs
               THEN f.attrs[a].vals ELSE <<>>
    IN  [f EXCEPT !.rows = Tail(@),
                  !.attrs = Put(@, a, Entry(a, Append(old, val)))]

\* The loop over the attributes of a pattern takes a value of a CardMany or of
\* a CardOne attribute, and goes on to the next attribute.
PA(f) == f.pat.attrs[f.at]
IsMany(f) == PA(f).ident \in ManyAttrs

NextAttr(f) == [f EXCEPT !.at = @ + 1, !.phase = "attr", !.vals = <<>>]

SpecificEnds(f, vals) ==
    IF vals = <<>> THEN NextAttr(f)
    ELSE [NextAttr(f) EXCEPT
             !.attrs = Put(@, PA(f).key, Entry(PA(f).ident, vals))]

SpecificAdds(f, val) ==
    IF IsMany(f) THEN [f EXCEPT !.vals = Append(@, val)]
    ELSE SpecificEnds(f, <<val>>)

Adds(f, val) == IF f.pat.wildcard THEN WildcardAdds(f, val)
                ELSE SpecificAdds(f, val)

\* The value a frame waits for is replaced by what was pulled, or kept.
Deliver(val) ==
    LET below == Front(stack)
        f == Last(below)
    IN  stack' = Front(below) \o <<Adds(f, val)>>

\* A pull under a CardOne attribute is the last use of the statement there.
EndsAttr(f) == ~f.pat.wildcard /\ ~IsMany(f)

Init ==
    /\ current \in Tables
    /\ view \in {NoView} \cup Shown
    /\ stmt = Unbound
    /\ stack = <<>>
    /\ request \in Requests
    /\ view # NoView => Len(request.eids) = 1   \* a DBView has no PullMany
    /\ results = <<>> /\ failed = FALSE
    /\ commits = 0 /\ errors = 0
    /\ instants = {current} /\ pulled = {}

\* Other connections commit.
Commit ==
    /\ commits < MaxCommits
    /\ Running
    /\ current' \in Tables \ {current}
    /\ commits' = commits + 1
    /\ instants' = instants \cup {current'}
    /\ UNCHANGED <<view, stmt, stack, request, results, failed, errors, pulled>>

\* Pull, and the loop of PullMany, which stays on its connection.
Pull ==
    /\ stack = <<>>
    /\ Running
    /\ stack' = <<Frame(request.eids[Len(results) + 1], request.pattern)>>
    /\ UNCHANGED <<current, view, stmt, request, results, failed, commits, errors,
                   instants, pulled>>

\* What no step of a pull changes, and what few do.
Outside == <<current, view, request, commits, instants>>
Own == <<Outside, failed, errors, pulled>>

Entering == stack # <<>> /\ Top.phase = "enter"

\* Mutant: the limit is one short.
MutExceedsDepthEarly == Depth >= MaxPullDepth
ExceedsDepth == Depth > MaxPullDepth

\* Too deep: the caller keeps the entity ID.
pullEntityFails ==
    /\ Entering
    /\ ExceedsDepth
    /\ Deliver([val |-> Top.e])
    /\ stmt' = IF EndsAttr(stack[Len(stack) - 1]) THEN Reset(stmt) ELSE stmt
    /\ UNCHANGED <<Own, results>>

\* A wildcard reads all rows of the entity before it follows any.
ReadWildcard ==
    /\ Entering
    /\ ~ExceedsDepth
    /\ Top.pat.wildcard
    /\ stack' = Becomes([Top EXCEPT
                    !.rows = InOrder({r \in Readable : r.e = Top.e}),
                    !.phase = "wild"])
    /\ UNCHANGED <<Own, stmt, results>>

pullWildcard == view = NoView /\ ReadWildcard
pullWildcardTemporal == view # NoView /\ ReadWildcard

\* The loop over named attributes begins. pullSpecific prepares its statement
\* here, pullSpecificTemporal for each attribute.
BeginNamed ==
    /\ Entering
    /\ ~ExceedsDepth
    /\ ~Top.pat.wildcard
    /\ stack' = Becomes([Top EXCEPT !.phase = "attr"])
    /\ UNCHANGED <<Own, results>>

pullSpecific == view = NoView /\ BeginNamed /\ stmt' = Unbound
pullSpecificTemporal == view # NoView /\ BeginNamed /\ UNCHANGED stmt

SkipUnknown ==
    /\ stack # <<>> /\ Top.phase = "attr"
    /\ Top.at <= Len(Top.pat.attrs)
    /\ PA(Top).ident \notin Attrs
    /\ stack' = Becomes(NextAttr(Top))
    /\ UNCHANGED <<Own, stmt, results>>

BindAttr ==
    /\ stack # <<>> /\ Top.phase = "attr"
    /\ Top.at <= Len(Top.pat.attrs)
    /\ PA(Top).ident \in Attrs
    /\ stmt' = Bind(Top.e, PA(Top).ident)
    /\ stack' = Becomes([Top EXCEPT !.phase = "step"])
    /\ UNCHANGED <<Own, results>>

\* Mutant: the loop over the rows of a CardMany attribute goes on instead (the
\* `continue` of the CardOne case where `break` belongs).
MutStepDoneContinues ==
    /\ stack # <<>> /\ Top.phase = "step"
    /\ Cursor(stmt).todo = <<>>
    /\ stack' = IF IsMany(Top) THEN stack ELSE Becomes(SpecificEnds(Top, Top.vals))
    /\ stmt' = Reset(stmt)
    /\ UNCHANGED <<Own, results>>

\* Step finds no row: the attribute is done.
StepDone ==
    /\ stack # <<>> /\ Top.phase = "step"
    /\ Cursor(stmt).todo = <<>>
    /\ stack' = Becomes(SpecificEnds(Top, Top.vals))
    /\ stmt' = Reset(stmt)
    /\ UNCHANGED <<Own, results>>

\* Step finds a row: its value is followed or taken.
StepRow ==
    LET st == Cursor(stmt)
        v == Head(st.todo).v
        after == [st EXCEPT !.todo = Tail(@)]
    IN
    /\ stack # <<>> /\ Top.phase = "step"
    /\ st.todo # <<>>
    /\ IF IsFollowed(PA(Top).ident, v, PA(Top).nested)
       THEN /\ stack' = Append(stack, Frame(v, PA(Top).nested))
            /\ stmt' = after
       ELSE /\ stack' = Becomes(SpecificAdds(Top, [val |-> v]))
            /\ stmt' = IF IsMany(Top) THEN after ELSE Reset(stmt)
    /\ UNCHANGED <<Own, results>>

\* The second loop of pullWildcard.
WildcardRow ==
    /\ stack # <<>> /\ Top.phase = "wild"
    /\ Top.rows # <<>>
    /\ LET r == Head(Top.rows) IN
       stack' = IF r.a \notin Attrs
                THEN Becomes([Top EXCEPT !.rows = Tail(@)])
                ELSE IF IsFollowed(r.a, r.v, Top.pat)
                THEN Append(stack, Frame(r.v, Top.pat))
                ELSE Becomes(WildcardAdds(Top, [val |-> r.v]))
    /\ UNCHANGED <<Own, stmt, results>>

\* What a call of pullEntity has returned, and for which arguments.
Answer(m, p, depth) == [m |-> m, pat |-> p, depth |-> depth]

\* pullEntity returns its result, to the frame below or to the caller.
Return ==
    /\ stack # <<>>
    /\ \/ Top.phase = "wild" /\ Top.rows = <<>>
       \/ Top.phase = "attr" /\ Top.at > Len(Top.pat.attrs)
    /\ LET m == [id |-> Top.e, attrs |-> Top.attrs] IN
       /\ \/ /\ Len(stack) = 1
             /\ results' = Append(results, m)
             /\ stack' = <<>>
             /\ UNCHANGED stmt
          \/ /\ Len(stack) > 1
             /\ Deliver(m)
             /\ stmt' = IF EndsAttr(stack[Len(stack) - 1]) THEN Reset(stmt)
                        ELSE stmt
             /\ UNCHANGED results
       /\ pulled' = pulled \cup {Answer(m, Top.pat, Depth)}
    /\ UNCHANGED <<Outside, failed, errors>>

\* Prepare or Step fails, or a value cannot be decoded: the pull of this entity
\* returns the error, which the pull around it drops.
StatementFails ==
    /\ errors < MaxErrors
    /\ stack # <<>>
    /\ Top.phase \in {"enter", "step"}
    /\ errors' = errors + 1
    /\ \/ /\ Len(stack) = 1
          /\ failed' = TRUE
          /\ stack' = <<>>
          /\ stmt' = Reset(stmt)
       \/ /\ Len(stack) > 1
          /\ Deliver([val |-> Top.e])
          /\ stmt' = IF Top.phase = "step" \/ EndsAttr(stack[Len(stack) - 1])
                     THEN Reset(stmt) ELSE stmt
          /\ UNCHANGED failed
    /\ UNCHANGED <<Outside, results, pulled>>

Step ==
    \/ Pull \/ pullEntityFails \/ pullWildcard \/ pullWildcardTemporal
    \/ pullSpecific \/ pullSpecificTemporal
    \/ SkipUnknown \/ BindAttr \/ StepDone \/ StepRow \/ WildcardRow \/ Return

Next == Commit \/ StatementFails \/ Step

Spec == Init /\ [][Next]_vars

\* The goroutine that pulls keeps running.
FairSpec == Spec /\ WF_vars(Step)

-----------------------------------------------------------------------------
(***************************************************************************)
(* What a pull means. An answer of pullEntity is judged level by level:    *)
(* the values it has itself, and that the entities among them are answers  *)
(* of pullEntity too, one level deeper.                                    *)
(***************************************************************************)
ValuesIn(table, e, a) == {r.v : r \in {s \in table : s.e = e /\ s.a = a}}

\* The elements of p that the schema cache knows.
Asked(p) == IF p.wildcard
            THEN {[ident |-> a, key |-> a, nested |-> p] : a \in Attrs}
            ELSE {pa \in ToSet(p.attrs) : pa.ident \in Attrs}

\* The value itself, or the ID of the entity pulled in its place.
IsEntity(val) == "id" \in DOMAIN val
Of(val) == IF IsEntity(val) THEN val.id ELSE val.val

\* vals has each member of S once.
Lists(vals, S) ==
    /\ {Of(vals[i]) : i \in DOMAIN vals} = S
    /\ \A i, j \in DOMAIN vals : Of(vals[i]) = Of(vals[j]) => i = j

\* The entry of element q is the list of S, and missing if S is empty.
Agrees(attrs, q, S) ==
    /\ q.key \in DOMAIN attrs <=> S # {}
    /\ S # {} => attrs[q.key].attr = q.ident /\ Lists(attrs[q.key].vals, S)

\* The values of m for element q, if it has any.
EntryVals(m, q) ==
    IF q.key \in DOMAIN m.attrs THEN ToSet(m.attrs[q.key].vals) ELSE {}

\* Nothing else is in the answer, and its entities are among the answers.
Sound(x, answers) ==
    /\ DOMAIN x.m.attrs \subseteq {q.key : q \in Asked(x.pat)}
    /\ \A q \in Asked(x.pat) : \A val \in EntryVals(x.m, q) : IsEntity(val) =>
          /\ IsFollowed(q.ident, Of(val), q.nested) /\ x.depth < MaxPullDepth
          /\ Answer(val, q.nested, x.depth + 1) \in answers

\* References are followed wherever the pattern and the limit allow it.
Deep(x) ==
    \A q \in Asked(x.pat) : \A val \in EntryVals(x.m, q) :
        IsFollowed(q.ident, Of(val), q.nested) /\ x.depth < MaxPullDepth
            => IsEntity(val)

\* What the statements may have read.
Sources == IF view = NoView THEN instants ELSE {view}

Shows(x, q, table) == Agrees(x.m.attrs, q, ValuesIn(table, x.m.id, q.ident))

\* Each statement behind the answer has read one instant: the one for all
\* attributes of a wildcard, the one for each attribute of another pattern.
FromInstants(x, tables) ==
    IF x.pat.wildcard
    THEN \E T \in tables : \A q \in Asked(x.pat) : Shows(x, q, T)
    ELSE \A q \in Asked(x.pat) : \E T \in tables : Shows(x, q, T)

-----------------------------------------------------------------------------
\* No pattern follows a CardMany reference to named attributes. The pull of those
\* would prepare, bind and reset the very statement the rows of the reference are
\* stepped from (pull.go:190, 203): the properties below are not true of it.
ManyByWildcard ==
    \A p \in Patterns : \A pa \in ToSet(p.attrs) :
        pa.ident \in ManyAttrs \cap RefAttrs /\ pa.nested # NoPattern
            => pa.nested.wildcard

\* Every entity pulled has exactly the shape and the values of the table (or of
\* the view) when nobody commits meanwhile and no statement fails, through cycles
\* of references and down to the depth limit; of patterns as in ManyByWildcard,
\* whose nested pulls also share the statement, but after its last row.
PullIsExact ==
    errors = 0 /\ (view # NoView \/ commits = 0) =>
        /\ \A i \in DOMAIN results :
              /\ results[i].id = request.eids[i]
              /\ Answer(results[i], request.pattern, 0) \in pulled
        /\ \A x \in pulled :
              /\ Sound(x, pulled) /\ Deep(x)
              /\ \A q \in Asked(x.pat) :
                    Shows(x, q, IF view = NoView THEN current ELSE view)

\* Commits between the statements of a pull mix states, but never inside what
\* one statement reads: each list of values was complete at one instant of the
\* call, and so was each entity of a wildcard pull. Failures that are dropped
\* on the way cost no value. Again of patterns as in ManyByWildcard.
ListsAreInstants ==
    /\ \A i \in DOMAIN results : Answer(results[i], request.pattern, 0) \in pulled
    /\ \A x \in pulled : Sound(x, pulled) /\ FromInstants(x, Sources)

\* With such patterns a pull returns: the depth limit ends every cycle of
\* references, and no commit or failed statement keeps a loop from its end.
PullReturns == ManyByWildcard => <>~Running

-----------------------------------------------------------------------------
(***************************************************************************)
(* What the documentation says and the code does not do.                   *)
(***************************************************************************)
\* References that run in a circle add no value twice to the list a pull builds
\* for an attribute. (In named attributes under a CardMany reference they do,
\* without end: each nested pull leaves the statement at its own last attribute,
\* reset, and the loop of its caller steps on through that one's rows.)
CirclesEnd ==
    \A k \in DOMAIN stack : \A i, j \in DOMAIN stack[k].vals :
        Of(stack[k].vals[i]) = Of(stack[k].vals[j]) => i = j
=============================================================================
