----------------------------- MODULE PullProofs -----------------------------
(***************************************************************************)
(* Theorems about Pull: what pullEntity answers.                           *)
(***************************************************************************)
EXTENDS Pull, FiniteSetTheorems, SequenceTheorems, TLAPS

IsSeq(s) == s \in Seq({s[i] : i \in DOMAIN s})

\* q has each member of R once.
Enum(q, R) ==
    /\ q \in Seq(R)
    /\ \A r \in R : \E i \in 1..Len(q) : q[i] = r
    /\ \A i, j \in 1..Len(q) : q[i] = q[j] => i = j

(***************************************************************************)
(* What the theorems ask of the constants. A table has one row per fact    *)
(* and one per entity and CardOne attribute, as the Transactor keeps it    *)
(* (CardOneHolds). The elements of a pattern have keys of their own, and a *)
(* CardMany reference is followed by a wildcard if at all: pulls by name   *)
(* would step the statement its rows come from (pull.go:203).              *)
(***************************************************************************)
Keyed(T) ==
    /\ IsFiniteSet(T)
    /\ \A r, s \in T : r.e = s.e /\ r.a = s.a /\ (r.v = s.v \/ r.a \notin ManyAttrs)
                          => r = s

TablesKeyed == \A T \in Tables \cup Shown : Keyed(T)

CallsPlain ==
    \A p \in Patterns :
        /\ \A i, j \in DOMAIN p.attrs : p.attrs[i].key = p.attrs[j].key => i = j
        /\ \A pa \in ToSet(p.attrs) :
              pa.ident \in ManyAttrs \cap RefAttrs /\ pa.nested # NoPattern
                  => pa.nested.wildcard

-----------------------------------------------------------------------------
(***************************************************************************)
(* The inductive invariant. Its parts are about values: A the answers, S   *)
(* the tables read from, n the errors, st the statement, d a depth.        *)
(***************************************************************************)
\* A value of an attribute is an answer one level deeper where it can be.
ValueOK(w, a, nested, d, A, n) ==
    IF IsEntity(w)
    THEN /\ IsFollowed(a, Of(w), nested) /\ d < MaxPullDepth
         /\ Answer(w, nested, d + 1) \in A
    ELSE n = 0 => ~(IsFollowed(a, Of(w), nested) /\ d < MaxPullDepth)

ValuesOK(vals, a, nested, d, A, n) ==
    /\ IsSeq(vals)
    /\ \A i \in 1..Len(vals) : ValueOK(vals[i], a, nested, d, A, n)

\* What a frame has gathered for element q is V.
Holds(attrs, q, V, d, A, n) ==
    /\ Agrees(attrs, q, V)
    /\ q.key \in DOMAIN attrs =>
          ValuesOK(attrs[q.key].vals, q.ident, q.nested, d, A, n)

IsFrame(f) == DOMAIN f = {"e", "pat", "phase", "at", "rows", "vals", "attrs"}

RowsOf(T, e) == {r \in T : r.e = e}
RowsFor(T, e, a) == {r \in T : r.e = e /\ r.a = a}

\* A wildcard has gathered the rows of T that it is past.
WildRead(f, d, A, n, T, R) ==
    /\ R \subseteq RowsOf(T, f.e)
    /\ Enum(f.rows, R)
    /\ \A q \in Asked(f.pat) :
          Holds(f.attrs, q, ValuesIn(T \ R, f.e, q.ident), d, A, n)

WildOK(f, d, A, S, n) ==
    /\ f.pat.wildcard
    /\ DOMAIN f.attrs \subseteq Attrs
    /\ \E T \in S : \E R \in SUBSET T : WildRead(f, d, A, n, T, R)

\* A pull by name has gathered the elements that it is past.
Past(f) == {f.pat.attrs[i] : i \in {j \in 1..(f.at - 1) :
                                        f.pat.attrs[j].ident \in Attrs}}

NamedOK(f, d, A, S, n) ==
    /\ ~f.pat.wildcard
    /\ f.at \in 1..(Len(f.pat.attrs) + 1)
    /\ DOMAIN f.attrs \subseteq {q.key : q \in Past(f)}
    /\ \A q \in Past(f) : \E T \in S :
          Holds(f.attrs, q, ValuesIn(T, f.e, q.ident), d, A, n)
    /\ f.phase = "attr" => f.vals = <<>>
    /\ f.phase = "step" =>
          /\ f.at <= Len(f.pat.attrs) /\ PA(f).ident \in Attrs
          /\ ValuesOK(f.vals, PA(f).ident, PA(f).nested, d, A, n)
          /\ ~IsMany(f) => f.vals = <<>>

FrameOK(f, d, A, S, n) ==
    /\ IsFrame(f) /\ f.pat \in Patterns
    /\ f.phase \in {"enter", "wild", "attr", "step"}
    /\ d <= MaxPullDepth + 1
    /\ f.phase = "enter" => f.at = 1 /\ f.vals = <<>> /\ f.attrs = <<>>
    /\ f.phase # "enter" => d <= MaxPullDepth
    /\ f.phase = "wild" => WildOK(f, d, A, S, n)
    /\ f.phase \in {"attr", "step"} => NamedOK(f, d, A, S, n)

\* The cursor of a CardMany attribute is past the rows whose values the frame
\* has, and past those of X.
Reading(f, st, X, R) ==
    LET rows == RowsFor(st.snapshot, f.e, PA(f).ident) IN
    /\ R \subseteq rows /\ X \subseteq rows /\ X \cap R = {}
    /\ Enum(st.todo, R)
    /\ Lists(f.vals, ValuesIn(st.snapshot \ (R \cup X), f.e, PA(f).ident))

\* The innermost frame steps the statement.
StepOK(f, st) ==
    /\ st.bound = <<f.e, PA(f).ident>>
    /\ st.open => IsMany(f) /\ \E R \in SUBSET st.snapshot : Reading(f, st, {}, R)
    /\ ~st.open => f.vals = <<>>

\* Frame f waits for frame g, which pulls the value of its current row.
WaitsMany(f, g, st) ==
    /\ st.open /\ st.bound = <<f.e, PA(f).ident>>
    /\ \E R \in SUBSET st.snapshot : \E r \in st.snapshot :
          r.v = g.e /\ Reading(f, st, {r}, R)

Waits(f, g, st, S) ==
    \/ /\ f.phase = "wild"
       /\ f.rows # <<>> /\ Head(f.rows).a \in Attrs
       /\ Head(f.rows).v = g.e /\ f.pat = g.pat
       /\ IsFollowed(Head(f.rows).a, g.e, g.pat)
    \/ /\ f.phase = "step"
       /\ PA(f).nested = g.pat /\ IsFollowed(PA(f).ident, g.e, g.pat)
       /\ IsMany(f) => WaitsMany(f, g, st)
       /\ ~IsMany(f) => \E T \in S : ValuesIn(T, f.e, PA(f).ident) = {g.e}

\* The statement is not in use by a frame that waits, except under wildcards.
UsesCursor(f) == f.phase = "step" /\ IsMany(f)

Quiet(stk) ==
    \A j, k \in 1..Len(stk) : j < k /\ UsesCursor(stk[j]) => stk[k].pat.wildcard

StackOK(stk, st, A, S, n) ==
    /\ IsSeq(stk)
    /\ \A k \in 1..Len(stk) : FrameOK(stk[k], k - 1, A, S, n)
    /\ \A k \in 1..Len(stk) : k < Len(stk) => Waits(stk[k], stk[k + 1], st, S)
    /\ Quiet(stk)
    /\ stk # <<>> /\ stk[Len(stk)].phase = "step" => StepOK(stk[Len(stk)], st)

StmtOK(st, S) ==
    /\ st.open \in BOOLEAN
    /\ st.open => /\ DOMAIN st = {"bound", "open", "snapshot", "todo"}
                  /\ st.snapshot \in S

AnswerOK(x, A, S, n) ==
    Sound(x, A) /\ FromInstants(x, S) /\ (n = 0 => Deep(x))

AnswersOK(A, S, n) == \A x \in A : AnswerOK(x, A, S, n)

ResultsOK(stk, res, req, A) ==
    /\ IsSeq(res) /\ Len(res) <= Len(req.eids)
    /\ \A i \in 1..Len(res) : /\ res[i].id = req.eids[i]
                              /\ Answer(res[i], req.pattern, 0) \in A
    /\ stk # <<>> => /\ Len(res) < Len(req.eids)
                     /\ stk[1].e = req.eids[Len(res) + 1]
                     /\ stk[1].pat = req.pattern

SourcesOK ==
    /\ instants \subseteq Tables /\ current \in instants
    /\ view \in {NoView} \cup Shown
    /\ commits = 0 => instants = {current}
    /\ commits \in Nat /\ errors \in Nat
    /\ request \in Requests

PullInv ==
    /\ SourcesOK
    /\ StmtOK(stmt, Sources)
    /\ StackOK(stack, stmt, pulled, Sources, errors)
    /\ AnswersOK(pulled, Sources, errors)
    /\ ResultsOK(stack, results, request, pulled)

-----------------------------------------------------------------------------
(***************************************************************************)
(* Sequences.                                                              *)
(***************************************************************************)
LEMMA IsSeqIntro == ASSUME NEW S, NEW s \in Seq(S) PROVE IsSeq(s)
BY DEF IsSeq

LEMMA SeqFacts ==
    ASSUME NEW s, IsSeq(s)
    PROVE  /\ Len(s) \in Nat /\ DOMAIN s = 1..Len(s)
           /\ s = <<>> <=> Len(s) = 0
BY DEF IsSeq

LEMMA FrontTyped ==
    ASSUME NEW S, NEW s \in Seq(S), s # <<>>
    PROVE  /\ Front(s) \in Seq(S) /\ Len(Front(s)) = Len(s) - 1
           /\ \A i \in 1..(Len(s) - 1) : Front(s)[i] = s[i]
<1>1. Len(s) \in Nat \ {0} /\ \A i \in 1..(Len(s) - 1) : s[i] \in S
  BY EmptySeq, ElementOfSeq
<1> DEFINE n == Len(s) - 1
<1>2. n \in Nat /\ \A i \in 1..n : s[i] \in S
  BY <1>1
<1> HIDE DEF n
<1>3. /\ SubSeq(s, 1, n) \in Seq(S)
      /\ Len(SubSeq(s, 1, n)) = n
      /\ \A i \in 1..n : SubSeq(s, 1, n)[i] = s[i]
  <2>1. SubSeq(s, 1, n) \in Seq(S)
    BY <1>2, SubSeqProperties
  <2> QED
    BY <1>2
<1> QED
  BY <1>3 DEF Front, n

LEMMA SeqAppend ==
    ASSUME NEW s, IsSeq(s), NEW x
    PROVE  /\ IsSeq(Append(s, x)) /\ Len(Append(s, x)) = Len(s) + 1
           /\ Append(s, x)[Len(s) + 1] = x
           /\ \A i \in 1..Len(s) : Append(s, x)[i] = s[i]
<1> DEFINE S == {s[i] : i \in DOMAIN s} \cup {x}
<1>1. s \in Seq(S) /\ x \in S
  BY SeqMonotonic DEF IsSeq
<1> HIDE DEF S
<1>2. /\ Append(s, x) \in Seq(S) /\ Len(Append(s, x)) = Len(s) + 1
      /\ Append(s, x)[Len(s) + 1] = x
      /\ \A i \in 1..Len(s) : Append(s, x)[i] = s[i]
  BY <1>1, AppendProperties
<1> QED
  BY <1>2, IsSeqIntro

LEMMA SeqReplaceLast ==
    ASSUME NEW s, IsSeq(s), s # <<>>, NEW x
    PROVE  LET t == Front(s) \o <<x>>
           IN  /\ IsSeq(t) /\ Len(t) = Len(s) /\ t[Len(s)] = x
               /\ \A i \in 1..(Len(s) - 1) : t[i] = s[i]
<1> DEFINE S == {s[i] : i \in DOMAIN s} \cup {x}
           t == Front(s) \o <<x>>
<1>1. s \in Seq(S) /\ x \in S /\ Len(s) \in Nat \ {0}
  BY SeqMonotonic, SeqFacts DEF IsSeq
<1> HIDE DEF S
<1>2. /\ Front(s) \in Seq(S) /\ Len(Front(s)) = Len(s) - 1
      /\ \A i \in 1..(Len(s) - 1) : Front(s)[i] = s[i]
  BY <1>1, FrontTyped
<1>3. <<x>> \in Seq(S) /\ Len(<<x>>) = 1 /\ <<x>>[1] = x
  BY <1>1
<1>4. t \in Seq(S) /\ Len(t) = Len(s)
  BY <1>1, <1>2, <1>3, ConcatProperties
<1>5. /\ t[Len(s)] = x
      /\ \A i \in 1..(Len(s) - 1) : t[i] = s[i]
  BY <1>1, <1>2, <1>3, ConcatProperties
<1> QED
  BY <1>4, <1>5, IsSeqIntro

LEMMA SeqFront ==
    ASSUME NEW s, IsSeq(s), s # <<>>
    PROVE  /\ IsSeq(Front(s)) /\ Len(Front(s)) = Len(s) - 1
           /\ \A i \in 1..(Len(s) - 1) : Front(s)[i] = s[i]
<1> DEFINE S == {s[i] : i \in DOMAIN s}
<1>1. s \in Seq(S) /\ Len(s) \in Nat \ {0}
  BY SeqFacts DEF IsSeq
<1> HIDE DEF S
<1>2. /\ Front(s) \in Seq(S) /\ Len(Front(s)) = Len(s) - 1
      /\ \A i \in 1..(Len(s) - 1) : Front(s)[i] = s[i]
  BY <1>1, FrontTyped
<1> QED
  BY <1>2, IsSeqIntro

\* Taking the head of an enumeration leaves one of the other members.
LEMMA EnumTail ==
    ASSUME NEW R, NEW q, Enum(q, R), q # <<>>
    PROVE  Head(q) \in R /\ Enum(Tail(q), R \ {Head(q)})
<1>1. q \in Seq(R) /\ Len(q) \in Nat \ {0} /\ Head(q) = q[1] /\ q[1] \in R
  BY DEF Enum
<1>2. /\ Tail(q) \in Seq(R) /\ Len(Tail(q)) = Len(q) - 1
      /\ \A i \in 1..(Len(q) - 1) : Tail(q)[i] = q[i + 1]
  BY <1>1
<1>3. \A i \in 1..Len(Tail(q)) : Tail(q)[i] \in R \ {q[1]}
  BY <1>1, <1>2 DEF Enum
<1>4. Tail(q) \in Seq(R \ {q[1]})
  <2>1. Tail(q) \in [1..Len(Tail(q)) -> R \ {q[1]}] /\ Len(Tail(q)) \in Nat
    BY <1>2, <1>3, LenProperties
  <2> QED
    BY <2>1, SeqDef
<1>5. \A r \in R \ {q[1]} : \E i \in 1..Len(Tail(q)) : Tail(q)[i] = r
  <2> SUFFICES ASSUME NEW r \in R, r # q[1]
               PROVE  \E i \in 1..Len(Tail(q)) : Tail(q)[i] = r
    OBVIOUS
  <2>1. PICK i \in 1..Len(q) : q[i] = r
    BY DEF Enum
  <2>2. i - 1 \in 1..Len(Tail(q)) /\ Tail(q)[i - 1] = q[i]
    BY <1>1, <1>2, <2>1
  <2> QED
    BY <2>1, <2>2
<1>6. \A i, j \in 1..Len(Tail(q)) : Tail(q)[i] = Tail(q)[j] => i = j
  BY <1>1, <1>2 DEF Enum
<1> QED
  BY <1>1, <1>4, <1>5, <1>6 DEF Enum

LEMMA EnumEmpty ==
    ASSUME NEW R, NEW q, Enum(q, R)
    PROVE  q = <<>> <=> R = {}
BY DEF Enum

\* InOrder enumerates a finite set.
LEMMA InOrderEnum ==
    ASSUME NEW R, IsFiniteSet(R)
    PROVE  Enum(InOrder(R), R)
<1> DEFINE n == Cardinality(R)
           f == SetToSeq(R)
<1>1. n \in Nat /\ Bijection(1..n, R) # {}
  BY FS_CardinalityType DEF ExistsBijection
<1>2. \E g \in [1..n -> R] : IsInjective(g)
  BY <1>1 DEF Bijection, Injection
<1>3. f \in [1..n -> R] /\ IsInjective(f)
  BY <1>2 DEF SetToSeq
<1> HIDE DEF f
<1>4. f \in Injection(1..n, R)
  BY <1>3 DEF Injection
<1>5. Cardinality(1..n) = n
  BY <1>1, FS_Interval
<1>6. f \in Surjection(1..n, R)
  BY <1>4, <1>5, FS_Injection
<1>7. f \in Seq(R) /\ Len(f) = n
  BY <1>1, <1>3, SeqDef
<1>8. Enum(f, R)
  BY <1>3, <1>6, <1>7 DEF Enum, Surjection, IsInjective
<1> QED
  BY <1>8 DEF InOrder, f

-----------------------------------------------------------------------------
(***************************************************************************)
(* Values, lists of values and the entries of a result.                    *)
(***************************************************************************)
\* Row r moves from the rows that are left to those that are read.
LEMMA ValuesGain ==
    ASSUME NEW T, Keyed(T), NEW L, L \subseteq T, NEW r \in T, r \notin L
    PROVE  /\ ValuesIn(L \cup {r}, r.e, r.a) = ValuesIn(L, r.e, r.a) \cup {r.v}
           /\ r.v \notin ValuesIn(L, r.e, r.a)
           /\ r.a \notin ManyAttrs => ValuesIn(L, r.e, r.a) = {}
BY DEF ValuesIn, Keyed

LEMMA LeftOver ==
    ASSUME NEW T, NEW R, NEW r \in T, r \in R
    PROVE  T \ (R \ {r}) = (T \ R) \cup {r}
OBVIOUS

LEMMA ListsNone ==
    /\ Lists(<<>>, {}) /\ IsSeq(<<>>) /\ Len(<<>>) = 0
    /\ \A vals, V : IsSeq(vals) /\ Lists(vals, V) => (vals = <<>> <=> V = {})
<1>1. Lists(<<>>, {}) /\ IsSeq(<<>>) /\ Len(<<>>) = 0
  BY DEF Lists, IsSeq
<1>2. ASSUME NEW vals, NEW V, IsSeq(vals), Lists(vals, V)
      PROVE  vals = <<>> <=> V = {}
  <2>1. Len(vals) \in Nat /\ DOMAIN vals = 1..Len(vals) /\ (vals = <<>> <=> Len(vals) = 0)
    BY <1>2, SeqFacts
  <2>2. V = {Of(vals[i]) : i \in DOMAIN vals}
    BY <1>2 DEF Lists
  <2>3. CASE Len(vals) = 0
    BY <2>1, <2>2, <2>3
  <2>4. CASE Len(vals) # 0
    <3>1. 1 \in DOMAIN vals
      BY <2>1, <2>4
    <3> QED
      BY <2>1, <2>2, <2>4, <3>1
  <2> QED
    BY <2>3, <2>4
<1> QED
  BY <1>1, <1>2

LEMMA ListsAppend ==
    ASSUME NEW vals, IsSeq(vals), NEW V, Lists(vals, V), NEW w, Of(w) \notin V
    PROVE  Lists(Append(vals, w), V \cup {Of(w)})
<1> DEFINE t == Append(vals, w)
           k == Len(vals)
<1>1. /\ IsSeq(t) /\ Len(t) = k + 1 /\ t[k + 1] = w
      /\ \A i \in 1..k : t[i] = vals[i]
  BY SeqAppend
<1>2. k \in Nat /\ DOMAIN vals = 1..k /\ DOMAIN t = 1..(k + 1)
  BY <1>1, SeqFacts
<1> HIDE DEF t, k
<1>3. {Of(t[i]) : i \in 1..(k + 1)} = {Of(vals[i]) : i \in 1..k} \cup {Of(w)}
  BY <1>1, <1>2
<1>4. \A i \in 1..k : Of(t[i]) = Of(vals[i]) /\ Of(t[i]) # Of(w)
  BY <1>1, <1>2 DEF Lists
<1>5. \A i, j \in 1..(k + 1) : Of(t[i]) = Of(t[j]) => i = j
  <2> SUFFICES ASSUME NEW i \in 1..(k + 1), NEW j \in 1..(k + 1),
                      Of(t[i]) = Of(t[j])
               PROVE  i = j
    OBVIOUS
  <2>1. CASE i = k + 1 /\ j = k + 1
    BY <2>1
  <2>2. CASE i = k + 1 /\ j \in 1..k
    BY <2>2, <1>1, <1>4
  <2>3. CASE i \in 1..k /\ j = k + 1
    BY <2>3, <1>1, <1>4
  <2>4. CASE i \in 1..k /\ j \in 1..k
    BY <2>4, <1>2, <1>4 DEF Lists
  <2> QED
    BY <1>2, <2>1, <2>2, <2>3, <2>4
<1>6. {Of(vals[i]) : i \in 1..k} = V
  BY <1>2 DEF Lists
<1> QED
  BY <1>2, <1>3, <1>5, <1>6 DEF Lists, t

LEMMA ValuesOKAppend ==
    ASSUME NEW vals, NEW a, NEW nested, NEW d, NEW A, NEW n,
           ValuesOK(vals, a, nested, d, A, n),
           NEW w, ValueOK(w, a, nested, d, A, n)
    PROVE  ValuesOK(Append(vals, w), a, nested, d, A, n)
<1>1. IsSeq(vals) /\ Len(vals) \in Nat
  BY SeqFacts DEF ValuesOK
<1>2. /\ IsSeq(Append(vals, w)) /\ Len(Append(vals, w)) = Len(vals) + 1
      /\ Append(vals, w)[Len(vals) + 1] = w
      /\ \A i \in 1..Len(vals) : Append(vals, w)[i] = vals[i]
  BY <1>1, SeqAppend
<1>3. \A i \in 1..(Len(vals) + 1) : i \in 1..Len(vals) \/ i = Len(vals) + 1
  BY <1>1
<1>4. \A i \in 1..Len(vals) : ValueOK(vals[i], a, nested, d, A, n)
  BY DEF ValuesOK
<1> QED
  BY <1>2, <1>3, <1>4 DEF ValuesOK

LEMMA ValuesOKOne ==
    ASSUME NEW a, NEW nested, NEW d, NEW A, NEW n
    PROVE  /\ ValuesOK(<<>>, a, nested, d, A, n)
           /\ \A w : ValueOK(w, a, nested, d, A, n) =>
                 /\ ValuesOK(<<w>>, a, nested, d, A, n)
                 /\ Lists(<<w>>, {Of(w)}) /\ <<w>> # <<>>
<1>1. IsSeq(<<>>) /\ Len(<<>>) = 0 /\ Lists(<<>>, {})
  BY ListsNone
<1>2. ValuesOK(<<>>, a, nested, d, A, n)
  BY <1>1 DEF ValuesOK
<1>3. ASSUME NEW w, ValueOK(w, a, nested, d, A, n)
      PROVE  /\ ValuesOK(<<w>>, a, nested, d, A, n)
             /\ Lists(<<w>>, {Of(w)}) /\ <<w>> # <<>>
  <2>1. Append(<<>>, w) = <<w>> /\ {} \cup {Of(w)} = {Of(w)}
    OBVIOUS
  <2>2. ValuesOK(Append(<<>>, w), a, nested, d, A, n)
    BY <1>2, <1>3, ValuesOKAppend
  <2>3. Lists(Append(<<>>, w), {} \cup {Of(w)})
    BY <1>1, ListsAppend
  <2> QED
    BY <2>1, <2>2, <2>3
<1> QED
  BY <1>2, <1>3

\* The entries of other elements stay.
LEMMA HoldsOther ==
    ASSUME NEW g, NEW k, NEW x, NEW q, q.key # k, NEW V, NEW d, NEW A, NEW n,
           Holds(g, q, V, d, A, n)
    PROVE  Holds(Put(g, k, x), q, V, d, A, n)
<1> DEFINE h == Put(g, k, x)
<1>1. /\ DOMAIN h = {k} \cup DOMAIN g
      /\ \A j \in DOMAIN g : j # k => h[j] = g[j]
  BY DEF Put
<1> HIDE DEF h
<1>2. q.key \in DOMAIN h <=> q.key \in DOMAIN g
  BY <1>1
<1>3. q.key \in DOMAIN g => h[q.key] = g[q.key]
  BY <1>1
<1>4. Holds(h, q, V, d, A, n)
  BY <1>2, <1>3 DEF Holds, Agrees
<1> QED
  BY <1>4 DEF h

LEMMA HoldsNew ==
    ASSUME NEW g, NEW q, NEW vals, NEW V, Lists(vals, V), V # {},
           NEW d, NEW A, NEW n, ValuesOK(vals, q.ident, q.nested, d, A, n)
    PROVE  Holds(Put(g, q.key, Entry(q.ident, vals)), q, V, d, A, n)
<1> DEFINE h == Put(g, q.key, Entry(q.ident, vals))
<1>1. q.key \in DOMAIN h /\ h[q.key] = Entry(q.ident, vals)
  BY DEF Put
<1> HIDE DEF h
<1>2. h[q.key].attr = q.ident /\ h[q.key].vals = vals
  BY <1>1 DEF Entry
<1>3. Holds(h, q, V, d, A, n)
  BY <1>1, <1>2 DEF Holds, Agrees
<1> QED
  BY <1>3 DEF h

-----------------------------------------------------------------------------
(***************************************************************************)
(* What holds stays true as answers, tables and errors are added.          *)
(***************************************************************************)
LEMMA MonoHolds ==
    ASSUME NEW A, NEW A2, A \subseteq A2, NEW n, NEW n2, n2 = 0 => n = 0, NEW d
    PROVE  /\ \A vals, a, nested :
                 ValuesOK(vals, a, nested, d, A, n) =>
                     ValuesOK(vals, a, nested, d, A2, n2)
           /\ \A attrs, q, V :
                 Holds(attrs, q, V, d, A, n) => Holds(attrs, q, V, d, A2, n2)
<1>1. \A w, a, nested :
         ValueOK(w, a, nested, d, A, n) => ValueOK(w, a, nested, d, A2, n2)
  BY DEF ValueOK
<1>2. \A vals, a, nested : ValuesOK(vals, a, nested, d, A, n) =>
                               ValuesOK(vals, a, nested, d, A2, n2)
  BY <1>1 DEF ValuesOK
<1>3. \A attrs, q, V :
         Holds(attrs, q, V, d, A, n) => Holds(attrs, q, V, d, A2, n2)
  BY <1>2 DEF Holds
<1> QED
  BY <1>2, <1>3

LEMMA MonoFrame ==
    ASSUME NEW A, NEW A2, A \subseteq A2, NEW S, NEW S2, S \subseteq S2,
           NEW n, NEW n2, n2 = 0 => n = 0,
           NEW f, NEW d, FrameOK(f, d, A, S, n)
    PROVE  FrameOK(f, d, A2, S2, n2)
<1>1. /\ \A vals, a, nested :
            ValuesOK(vals, a, nested, d, A, n) =>
                ValuesOK(vals, a, nested, d, A2, n2)
      /\ \A attrs, q, V :
            Holds(attrs, q, V, d, A, n) => Holds(attrs, q, V, d, A2, n2)
  BY MonoHolds
<1>2. WildOK(f, d, A, S, n) => WildOK(f, d, A2, S2, n2)
  <2>1. \A T, R : WildRead(f, d, A, n, T, R) => WildRead(f, d, A2, n2, T, R)
    BY <1>1 DEF WildRead
  <2> QED
    BY <2>1 DEF WildOK
<1>3. NamedOK(f, d, A, S, n) => NamedOK(f, d, A2, S2, n2)
  <2>1. ASSUME NamedOK(f, d, A, S, n), NEW q \in Past(f)
        PROVE  \E T \in S2 : Holds(f.attrs, q, ValuesIn(T, f.e, q.ident), d, A2, n2)
    <3>1. PICK T \in S : Holds(f.attrs, q, ValuesIn(T, f.e, q.ident), d, A, n)
      BY <2>1 DEF NamedOK
    <3>2. T \in S2
      OBVIOUS
    <3>3. Holds(f.attrs, q, ValuesIn(T, f.e, q.ident), d, A2, n2)
      BY <3>1, <1>1
    <3> QED
      BY <3>2, <3>3
  <2>2. ValuesOK(f.vals, PA(f).ident, PA(f).nested, d, A, n) =>
            ValuesOK(f.vals, PA(f).ident, PA(f).nested, d, A2, n2)
    BY <1>1
  <2> QED
    BY <2>1, <2>2 DEF NamedOK
<1> QED
  BY <1>2, <1>3 DEF FrameOK

LEMMA MonoStack ==
    ASSUME NEW A, NEW A2, A \subseteq A2, NEW S, NEW S2, S \subseteq S2,
           NEW n, NEW n2, n2 = 0 => n = 0,
           NEW stk, NEW st, StackOK(stk, st, A, S, n)
    PROVE  StackOK(stk, st, A2, S2, n2)
<1>1. \A k \in 1..Len(stk) : FrameOK(stk[k], k - 1, A2, S2, n2)
  BY MonoFrame DEF StackOK
<1>2. \A f, g : Waits(f, g, st, S) => Waits(f, g, st, S2)
  <2> SUFFICES ASSUME NEW f, NEW g, Waits(f, g, st, S)
               PROVE  Waits(f, g, st, S2)
    OBVIOUS
  <2>1. (\E T \in S : ValuesIn(T, f.e, PA(f).ident) = {g.e}) =>
            \E T \in S2 : ValuesIn(T, f.e, PA(f).ident) = {g.e}
    OBVIOUS
  <2> QED
    BY <2>1 DEF Waits
<1> QED
  BY <1>1, <1>2 DEF StackOK

LEMMA MonoAnswers ==
    ASSUME NEW A, NEW A2, A \subseteq A2, NEW S, NEW S2, S \subseteq S2,
           NEW n, NEW n2, n2 = 0 => n = 0, AnswersOK(A, S, n)
    PROVE  \A x \in A : AnswerOK(x, A2, S2, n2)
<1> SUFFICES ASSUME NEW x \in A
             PROVE  AnswerOK(x, A2, S2, n2)
  OBVIOUS
<1>1. AnswerOK(x, A, S, n)
  BY DEF AnswersOK
<1>2. Sound(x, A2)
  BY <1>1 DEF AnswerOK, Sound
<1>3. FromInstants(x, S2)
  BY <1>1 DEF AnswerOK, FromInstants
<1> QED
  BY <1>1, <1>2, <1>3 DEF AnswerOK

LEMMA MonoStmt ==
    ASSUME NEW S, NEW S2, S \subseteq S2, NEW st, StmtOK(st, S)
    PROVE  StmtOK(st, S2)
BY DEF StmtOK

-----------------------------------------------------------------------------
(***************************************************************************)
(* The steps of one frame.                                                 *)
(***************************************************************************)
\* The fields of a frame after an update.
Fields(g, e, p, phase, at, rows, vals, attrs) ==
    /\ IsFrame(g) /\ g.e = e /\ g.pat = p /\ g.phase = phase /\ g.at = at
    /\ g.rows = rows /\ g.vals = vals /\ g.attrs = attrs

LEMMA FrameUpdates ==
    ASSUME NEW f, IsFrame(f), NEW x, NEW y
    PROVE  /\ Fields([f EXCEPT !.rows = x, !.phase = y],
                     f.e, f.pat, y, f.at, x, f.vals, f.attrs)
           /\ Fields([f EXCEPT !.phase = x],
                     f.e, f.pat, x, f.at, f.rows, f.vals, f.attrs)
           /\ Fields([f EXCEPT !.vals = Append(@, x)],
                     f.e, f.pat, f.phase, f.at, f.rows, Append(f.vals, x), f.attrs)
           /\ Fields([f EXCEPT !.rows = Tail(@)],
                     f.e, f.pat, f.phase, f.at, Tail(f.rows), f.vals, f.attrs)
           /\ Fields(NextAttr(f),
                     f.e, f.pat, "attr", f.at + 1, f.rows, <<>>, f.attrs)
<1>1. Fields([f EXCEPT !.rows = x, !.phase = y],
             f.e, f.pat, y, f.at, x, f.vals, f.attrs)
  BY DEF IsFrame, Fields
<1>2. Fields([f EXCEPT !.phase = x],
             f.e, f.pat, x, f.at, f.rows, f.vals, f.attrs)
  BY DEF IsFrame, Fields
<1>3. Fields([f EXCEPT !.vals = Append(@, x)],
             f.e, f.pat, f.phase, f.at, f.rows, Append(f.vals, x), f.attrs)
  BY DEF IsFrame, Fields
<1>4. Fields([f EXCEPT !.rows = Tail(@)],
             f.e, f.pat, f.phase, f.at, Tail(f.rows), f.vals, f.attrs)
  BY DEF IsFrame, Fields
<1>5. Fields(NextAttr(f), f.e, f.pat, "attr", f.at + 1, f.rows, <<>>, f.attrs)
  BY DEF IsFrame, Fields, NextAttr
<1> QED
  BY <1>1, <1>2, <1>3, <1>4, <1>5

LEMMA EndsFields ==
    ASSUME NEW f, IsFrame(f), NEW vals
    PROVE  Fields(SpecificEnds(f, vals), f.e, f.pat, "attr", f.at + 1, f.rows, <<>>,
                  IF vals = <<>> THEN f.attrs
                  ELSE Put(f.attrs, PA(f).key, Entry(PA(f).ident, vals)))
<1> DEFINE g == NextAttr(f)
<1>1. Fields(g, f.e, f.pat, "attr", f.at + 1, f.rows, <<>>, f.attrs)
  BY FrameUpdates
<1>2. SpecificEnds(f, vals) =
          IF vals = <<>> THEN g
          ELSE [g EXCEPT !.attrs = Put(g.attrs, PA(f).key, Entry(PA(f).ident, vals))]
  BY DEF SpecificEnds
<1> HIDE DEF g
<1> QED
  BY <1>1, <1>2 DEF Fields, IsFrame

\* What a wildcard has for attribute a.
Old(f, a) ==
    IF a \in ManyAttrs /\ a \in DOMAIN f.attrs THEN f.attrs[a].vals ELSE <<>>

LEMMA WildFields ==
    ASSUME NEW f, IsFrame(f), NEW w
    PROVE  LET a == Head(f.rows).a
           IN  Fields(WildcardAdds(f, w), f.e, f.pat, f.phase, f.at, Tail(f.rows),
                      f.vals, Put(f.attrs, a, Entry(a, Append(Old(f, a), w))))
<1> DEFINE a == Head(f.rows).a
           new == Put(f.attrs, a, Entry(a, Append(Old(f, a), w)))
<1>1. WildcardAdds(f, w) = [f EXCEPT !.rows = Tail(f.rows), !.attrs = new]
  BY DEF WildcardAdds, Old
<1> HIDE DEF new
<1>2. Fields(WildcardAdds(f, w), f.e, f.pat, f.phase, f.at, Tail(f.rows), f.vals, new)
  BY <1>1 DEF IsFrame, Fields
<1> QED
  BY <1>2 DEF new

\* The call of pullEntity begins.
LEMMA FrameNew ==
    ASSUME NEW e, NEW p \in Patterns, NEW d, d <= MaxPullDepth + 1,
           NEW A, NEW S, NEW n
    PROVE  /\ FrameOK(Frame(e, p), d, A, S, n)
           /\ Frame(e, p).e = e /\ Frame(e, p).pat = p
           /\ Frame(e, p).phase = "enter"
<1> DEFINE f == Frame(e, p)
<1>1. Fields(f, e, p, "enter", 1, <<>>, <<>>, <<>>)
  BY DEF Frame, Fields, IsFrame
<1> HIDE DEF f
<1>2. FrameOK(f, d, A, S, n) /\ f.e = e /\ f.pat = p /\ f.phase = "enter"
  BY <1>1 DEF FrameOK, Fields
<1> QED
  BY <1>2 DEF f

LEMMA HoldsNothing ==
    ASSUME NEW q, NEW d, NEW A, NEW n
    PROVE  Holds(<<>>, q, {}, d, A, n)
<1>1. DOMAIN <<>> = {}
  OBVIOUS
<1> QED
  BY <1>1 DEF Holds, Agrees

\* A wildcard reads the rows of the entity.
Reads(f, T) == [f EXCEPT !.rows = InOrder({r \in T : r.e = f.e}), !.phase = "wild"]

LEMMA FrameReads ==
    ASSUME NEW d, NEW A, NEW S, NEW n, NEW f, FrameOK(f, d, A, S, n),
           f.phase = "enter", f.pat.wildcard, d <= MaxPullDepth,
           NEW T \in S, Keyed(T)
    PROVE  LET g == Reads(f, T)
           IN  FrameOK(g, d, A, S, n) /\ g.e = f.e /\ g.pat = f.pat
                 /\ g.phase = "wild"
<1> DEFINE R == RowsOf(T, f.e)
           g == [f EXCEPT !.rows = InOrder(R), !.phase = "wild"]
<1>1. Fields(g, f.e, f.pat, "wild", f.at, InOrder(R), f.vals, f.attrs)
  BY FrameUpdates DEF FrameOK
<1>2. f.attrs = <<>> /\ DOMAIN <<>> = {}
  BY DEF FrameOK
<1>3. R \in SUBSET T /\ IsFiniteSet(R)
  BY FS_Subset DEF RowsOf, Keyed
<1>4. Enum(InOrder(R), R)
  BY <1>3, InOrderEnum
<1>5. \A a : ValuesIn(T \ R, f.e, a) = {}
  BY DEF ValuesIn, RowsOf
<1> HIDE DEF R, g
<1>6. \A q \in Asked(g.pat) :
         Holds(g.attrs, q, ValuesIn(T \ R, g.e, q.ident), d, A, n)
  BY <1>1, <1>2, <1>5, HoldsNothing DEF Fields
<1>7. R \subseteq RowsOf(T, g.e)
  BY <1>1 DEF Fields, R
<1>8. WildRead(g, d, A, n, T, R)
  BY <1>1, <1>4, <1>6, <1>7 DEF WildRead, Fields
<1>9. WildOK(g, d, A, S, n)
  BY <1>1, <1>2, <1>3, <1>8 DEF WildOK, Fields
<1>10. FrameOK(g, d, A, S, n) /\ g.e = f.e /\ g.pat = f.pat /\ g.phase = "wild"
  BY <1>1, <1>9 DEF FrameOK, Fields
<1> QED
  BY <1>10 DEF g, R, RowsOf, Reads

\* A pull by name begins, and binds an attribute that the cache knows.
LEMMA FrameBegins ==
    ASSUME NEW d, NEW A, NEW S, NEW n, NEW f, FrameOK(f, d, A, S, n),
           f.phase = "enter", ~f.pat.wildcard, d <= MaxPullDepth
    PROVE  LET g == [f EXCEPT !.phase = "attr"]
           IN  FrameOK(g, d, A, S, n) /\ g.e = f.e /\ g.pat = f.pat
                 /\ g.phase = "attr"
<1> DEFINE g == [f EXCEPT !.phase = "attr"]
<1>1. Fields(g, f.e, f.pat, "attr", f.at, f.rows, f.vals, f.attrs)
  BY FrameUpdates DEF FrameOK
<1>2. f.attrs = <<>> /\ DOMAIN <<>> = {} /\ f.at = 1 /\ f.vals = <<>>
  BY DEF FrameOK
<1> HIDE DEF g
<1>3. Past(g) = {}
  BY <1>1, <1>2 DEF Fields, Past
<1>4. Len(g.pat.attrs) \in Nat
  BY <1>1, PatternsAssumption DEF Fields, FrameOK
<1>5. NamedOK(g, d, A, S, n)
  BY <1>1, <1>2, <1>3, <1>4 DEF NamedOK, Fields
<1>6. FrameOK(g, d, A, S, n) /\ g.e = f.e /\ g.pat = f.pat /\ g.phase = "attr"
  BY <1>1, <1>5 DEF FrameOK, Fields
<1> QED
  BY <1>6 DEF g

LEMMA FrameBinds ==
    ASSUME NEW d, NEW A, NEW S, NEW n, NEW f, FrameOK(f, d, A, S, n),
           f.phase = "attr", f.at <= Len(f.pat.attrs), PA(f).ident \in Attrs
    PROVE  LET g == [f EXCEPT !.phase = "step"]
           IN  /\ FrameOK(g, d, A, S, n) /\ g.e = f.e /\ g.pat = f.pat
               /\ g.phase = "step" /\ PA(g) = PA(f) /\ g.vals = <<>>
<1> DEFINE g == [f EXCEPT !.phase = "step"]
<1>1. Fields(g, f.e, f.pat, "step", f.at, f.rows, f.vals, f.attrs)
  BY FrameUpdates DEF FrameOK
<1>2. NamedOK(f, d, A, S, n)
  BY DEF FrameOK
<1> HIDE DEF g
<1>3. PA(g) = PA(f) /\ Past(g) = Past(f) /\ IsMany(g) = IsMany(f)
  BY <1>1 DEF Fields, PA, Past, IsMany
<1>4. ValuesOK(g.vals, PA(g).ident, PA(g).nested, d, A, n) /\ g.vals = <<>>
  BY <1>1, <1>2, ValuesOKOne DEF NamedOK, Fields
<1>5. NamedOK(g, d, A, S, n)
  BY <1>1, <1>2, <1>3, <1>4 DEF NamedOK, Fields
<1>6. FrameOK(g, d, A, S, n) /\ g.e = f.e /\ g.pat = f.pat /\ g.phase = "step"
  BY <1>1, <1>5 DEF FrameOK, Fields
<1> QED
  BY <1>3, <1>4, <1>6 DEF g

\* The elements a pull by name is past after the next one, and its key.
LEMMA PastNext ==
    ASSUME CallsPlain, NEW f, f.pat \in Patterns, f.at \in 1..Len(f.pat.attrs),
           NEW g, g.pat = f.pat, g.at = f.at + 1
    PROVE  /\ Past(g) = IF PA(f).ident \in Attrs THEN Past(f) \cup {PA(f)}
                        ELSE Past(f)
           /\ \A q \in Past(f) : q.key # PA(f).key
           /\ PA(f) \in ToSet(f.pat.attrs)
<1> DEFINE s == f.pat.attrs
<1>1. s \in Seq(ToSet(s)) /\ Len(s) \in Nat /\ DOMAIN s = 1..Len(s)
  BY PatternsAssumption
<1>2. \A i, j \in DOMAIN s : s[i].key = s[j].key => i = j
  BY DEF CallsPlain
<1>3. f.at \in Nat /\ PA(f) = s[f.at] /\ g.pat.attrs = s
  BY <1>1 DEF PA
<1> HIDE DEF s
<1>4. \A j : j \in 1..(g.at - 1) <=> j \in 1..(f.at - 1) \/ j = f.at
  BY <1>1, <1>3
<1>5. Past(f) = {s[i] : i \in {j \in 1..(f.at - 1) : s[j].ident \in Attrs}}
  BY DEF Past, s
<1>6. Past(g) = {s[i] : i \in {j \in 1..(g.at - 1) : s[j].ident \in Attrs}}
  BY <1>3 DEF Past
<1>7. Past(g) = IF PA(f).ident \in Attrs THEN Past(f) \cup {PA(f)} ELSE Past(f)
  BY <1>3, <1>4, <1>5, <1>6
<1>8. \A q \in Past(f) : q.key # PA(f).key
  BY <1>1, <1>2, <1>3, <1>5
<1>9. PA(f) \in ToSet(s)
  BY <1>1, <1>3 DEF ToSet
<1> QED
  BY <1>7, <1>8, <1>9 DEF s

\* An unknown attribute is skipped.
LEMMA FrameSkips ==
    ASSUME CallsPlain, NEW d, NEW A, NEW S, NEW n, NEW f, FrameOK(f, d, A, S, n),
           f.phase = "attr", f.at <= Len(f.pat.attrs), PA(f).ident \notin Attrs
    PROVE  LET g == NextAttr(f)
           IN  FrameOK(g, d, A, S, n) /\ g.e = f.e /\ g.pat = f.pat
                 /\ g.phase = "attr"
<1> DEFINE g == NextAttr(f)
<1>1. Fields(g, f.e, f.pat, "attr", f.at + 1, f.rows, <<>>, f.attrs)
  BY FrameUpdates DEF FrameOK
<1>2. NamedOK(f, d, A, S, n)
  BY DEF FrameOK
<1> HIDE DEF g
<1>3. Len(f.pat.attrs) \in Nat /\ f.at \in 1..Len(f.pat.attrs)
  BY <1>2, PatternsAssumption DEF FrameOK, NamedOK
<1>4. Past(g) = Past(f)
  BY <1>1, <1>3, PastNext DEF FrameOK, Fields
<1>5. g.at \in 1..(Len(g.pat.attrs) + 1)
  BY <1>1, <1>3 DEF Fields
<1>6. NamedOK(g, d, A, S, n)
  BY <1>1, <1>2, <1>4, <1>5 DEF NamedOK, Fields
<1>7. FrameOK(g, d, A, S, n) /\ g.e = f.e /\ g.pat = f.pat /\ g.phase = "attr"
  BY <1>1, <1>6 DEF FrameOK, Fields
<1> QED
  BY <1>7 DEF g

\* The values of an attribute are complete.
LEMMA FrameEnds ==
    ASSUME CallsPlain, NEW d, NEW A, NEW S, NEW n, NEW f, FrameOK(f, d, A, S, n),
           f.phase = "step", NEW vals,
           ValuesOK(vals, PA(f).ident, PA(f).nested, d, A, n),
           NEW T \in S, Lists(vals, ValuesIn(T, f.e, PA(f).ident))
    PROVE  LET g == SpecificEnds(f, vals)
           IN  FrameOK(g, d, A, S, n) /\ g.e = f.e /\ g.pat = f.pat
                 /\ g.phase = "attr"
<1> DEFINE g == SpecificEnds(f, vals)
           q0 == PA(f)
           V == ValuesIn(T, f.e, q0.ident)
<1>1. Fields(g, f.e, f.pat, "attr", f.at + 1, f.rows, <<>>,
             IF vals = <<>> THEN f.attrs
             ELSE Put(f.attrs, q0.key, Entry(q0.ident, vals)))
  BY EndsFields DEF FrameOK
<1>2. NamedOK(f, d, A, S, n)
  BY DEF FrameOK
<1>3. Len(f.pat.attrs) \in Nat /\ f.at \in 1..Len(f.pat.attrs) /\ q0.ident \in Attrs
  BY <1>2, PatternsAssumption DEF FrameOK, NamedOK
<1>4. vals = <<>> <=> V = {}
  BY ListsNone DEF ValuesOK
<1>5. Lists(vals, V)
  OBVIOUS
<1> HIDE DEF g, q0, V
<1>6. /\ Past(g) = Past(f) \cup {q0}
      /\ \A q \in Past(f) : q.key # q0.key
  BY <1>1, <1>3, PastNext DEF FrameOK, Fields, q0
<1>7. DOMAIN f.attrs \subseteq {q.key : q \in Past(f)}
  BY <1>2 DEF NamedOK
<1>8. DOMAIN g.attrs \subseteq {q.key : q \in Past(g)}
  <2>1. DOMAIN g.attrs \subseteq DOMAIN f.attrs \cup {q0.key}
    BY <1>1 DEF Fields, Put
  <2> QED
    BY <1>6, <1>7, <2>1
<1>9. Holds(g.attrs, q0, V, d, A, n)
  <2>1. CASE vals = <<>>
    <3>1. q0.key \notin DOMAIN g.attrs
      BY <1>1, <1>6, <1>7, <2>1 DEF Fields
    <3> QED
      BY <1>4, <2>1, <3>1 DEF Holds, Agrees
  <2>2. CASE vals # <<>>
    <3>1. g.attrs = Put(f.attrs, q0.key, Entry(q0.ident, vals))
      BY <1>1, <2>2 DEF Fields
    <3>2. ValuesOK(vals, q0.ident, q0.nested, d, A, n) /\ V # {}
      BY <1>4, <2>2 DEF q0
    <3> QED
      BY <1>5, <3>1, <3>2, HoldsNew
  <2> QED
    BY <2>1, <2>2
<1>10. ASSUME NEW q \in Past(f)
       PROVE  \E U \in S : Holds(g.attrs, q, ValuesIn(U, f.e, q.ident), d, A, n)
  <2>1. PICK U \in S : Holds(f.attrs, q, ValuesIn(U, f.e, q.ident), d, A, n)
    BY <1>2 DEF NamedOK
  <2>2. q.key # q0.key
    BY <1>6
  <2>3. Holds(g.attrs, q, ValuesIn(U, f.e, q.ident), d, A, n)
    <3>1. CASE vals = <<>>
      BY <1>1, <2>1, <3>1 DEF Fields
    <3>2. CASE vals # <<>>
      <4>1. g.attrs = Put(f.attrs, q0.key, Entry(q0.ident, vals))
        BY <1>1, <3>2 DEF Fields
      <4> QED
        BY <2>1, <2>2, <4>1, HoldsOther
    <3> QED
      BY <3>1, <3>2
  <2> QED
    BY <2>3
<1>11. \A q \in Past(g) : \E U \in S :
          Holds(g.attrs, q, ValuesIn(U, g.e, q.ident), d, A, n)
  <2>1. g.e = f.e
    BY <1>1 DEF Fields
  <2> QED
    BY <1>6, <1>9, <1>10, <2>1 DEF V
<1>12. g.at \in 1..(Len(g.pat.attrs) + 1)
  BY <1>1, <1>3 DEF Fields
<1>13. NamedOK(g, d, A, S, n)
  BY <1>1, <1>2, <1>8, <1>11, <1>12 DEF NamedOK, Fields
<1>14. FrameOK(g, d, A, S, n) /\ g.e = f.e /\ g.pat = f.pat /\ g.phase = "attr"
  BY <1>1, <1>13 DEF FrameOK, Fields
<1> QED
  BY <1>14 DEF g

\* A value of a CardMany attribute is taken.
Takes(f, w) == [f EXCEPT !.vals = Append(@, w)]

LEMMA FrameTakes ==
    ASSUME NEW d, NEW A, NEW S, NEW n, NEW f, FrameOK(f, d, A, S, n),
           f.phase = "step", IsMany(f),
           NEW w, ValueOK(w, PA(f).ident, PA(f).nested, d, A, n)
    PROVE  LET g == Takes(f, w)
           IN  /\ FrameOK(g, d, A, S, n) /\ g.e = f.e /\ g.pat = f.pat
               /\ g.phase = "step" /\ PA(g) = PA(f) /\ g.vals = Append(f.vals, w)
<1> DEFINE g == Takes(f, w)
<1>1. Fields(g, f.e, f.pat, f.phase, f.at, f.rows, Append(f.vals, w), f.attrs)
  BY FrameUpdates DEF FrameOK, Takes
<1>2. NamedOK(f, d, A, S, n)
  BY DEF FrameOK
<1> HIDE DEF g
<1>3. PA(g) = PA(f) /\ Past(g) = Past(f) /\ IsMany(g)
  BY <1>1 DEF Fields, PA, Past, IsMany
<1>4. ValuesOK(g.vals, PA(g).ident, PA(g).nested, d, A, n)
  BY <1>1, <1>2, <1>3, ValuesOKAppend DEF NamedOK, Fields
<1>5. NamedOK(g, d, A, S, n)
  BY <1>1, <1>2, <1>3, <1>4 DEF NamedOK, Fields
<1>6. FrameOK(g, d, A, S, n) /\ g.e = f.e /\ g.pat = f.pat /\ g.phase = "step"
        /\ g.vals = Append(f.vals, w)
  BY <1>1, <1>5 DEF FrameOK, Fields
<1> QED
  BY <1>3, <1>6 DEF g

\* The row a wildcard is at.
AtRow(f, r, d, A, n, T, R) ==
    /\ WildRead(f, d, A, n, T, R)
    /\ r \in R /\ r.e = f.e
    /\ R \ {r} \subseteq RowsOf(T, f.e)
    /\ Enum(Tail(f.rows), R \ {r})
    /\ T \ (R \ {r}) = (T \ R) \cup {r}
    /\ Keyed(T)

LEMMA WildHead ==
    ASSUME NEW d, NEW A, NEW S, NEW n, NEW f, FrameOK(f, d, A, S, n),
           f.phase = "wild", f.rows # <<>>, \A T \in S : Keyed(T)
    PROVE  \E T \in S : \E R \in SUBSET T : AtRow(f, Head(f.rows), d, A, n, T, R)
<1>1. PICK T \in S : \E R \in SUBSET T : WildRead(f, d, A, n, T, R)
  BY DEF FrameOK, WildOK
<1>2. PICK R \in SUBSET T : WildRead(f, d, A, n, T, R)
  BY <1>1
<1>3. R \subseteq RowsOf(T, f.e) /\ Enum(f.rows, R)
  BY <1>2 DEF WildRead
<1>4. Head(f.rows) \in R /\ Enum(Tail(f.rows), R \ {Head(f.rows)})
  BY <1>3, EnumTail
<1>5. Head(f.rows).e = f.e /\ Head(f.rows) \in T
  BY <1>3, <1>4 DEF RowsOf
<1>6. T \ (R \ {Head(f.rows)}) = (T \ R) \cup {Head(f.rows)}
  BY <1>4, <1>5, LeftOver
<1>7. AtRow(f, Head(f.rows), d, A, n, T, R)
  BY <1>2, <1>3, <1>4, <1>5, <1>6 DEF AtRow
<1> QED
  BY <1>7

\* A wildcard passes a row of an attribute that the cache does not know.
LEMMA FramePasses ==
    ASSUME NEW d, NEW A, NEW S, NEW n, NEW f, FrameOK(f, d, A, S, n),
           f.phase = "wild", f.rows # <<>>, \A T \in S : Keyed(T),
           Head(f.rows).a \notin Attrs
    PROVE  LET g == [f EXCEPT !.rows = Tail(@)]
           IN  FrameOK(g, d, A, S, n) /\ g.e = f.e /\ g.pat = f.pat
                 /\ g.phase = "wild"
<1> DEFINE g == [f EXCEPT !.rows = Tail(@)]
           r == Head(f.rows)
<1>1. Fields(g, f.e, f.pat, f.phase, f.at, Tail(f.rows), f.vals, f.attrs)
  BY FrameUpdates DEF FrameOK
<1>2. PICK T \in S : \E R \in SUBSET T : AtRow(f, r, d, A, n, T, R)
  BY WildHead
<1>3. PICK R \in SUBSET T : AtRow(f, r, d, A, n, T, R)
  BY <1>2
<1>4. WildOK(f, d, A, S, n)
  BY DEF FrameOK
<1> DEFINE Q == R \ {r}
           L == T \ R
<1>5. /\ L \subseteq T /\ r \in T /\ r \notin L /\ T \ Q = L \cup {r}
      /\ r.e = f.e /\ Keyed(T)
  BY <1>3 DEF AtRow
<1>6. r.a \notin Attrs
  OBVIOUS
<1> HIDE DEF g, r
<1>7. ASSUME NEW q \in Asked(f.pat)
      PROVE  Holds(f.attrs, q, ValuesIn(T \ Q, f.e, q.ident), d, A, n)
  <2>1. q.ident \in Attrs
    BY <1>4 DEF WildOK, Asked
  <2>2. Holds(f.attrs, q, ValuesIn(L, f.e, q.ident), d, A, n)
    BY <1>3 DEF AtRow, WildRead
  <2> HIDE DEF L, Q
  <2>3. ValuesIn(L \cup {r}, f.e, q.ident) = ValuesIn(L, f.e, q.ident)
    BY <1>6, <2>1 DEF ValuesIn
  <2> QED
    BY <1>5, <2>2, <2>3
<1>8. Q \in SUBSET T
  OBVIOUS
<1>9. WildRead(g, d, A, n, T, Q)
  BY <1>1, <1>3, <1>7 DEF AtRow, WildRead, Fields
<1> HIDE DEF Q
<1>10. WildOK(g, d, A, S, n)
  BY <1>1, <1>4, <1>8, <1>9 DEF WildOK, Fields
<1>11. FrameOK(g, d, A, S, n) /\ g.e = f.e /\ g.pat = f.pat /\ g.phase = "wild"
  BY <1>1, <1>10 DEF FrameOK, Fields
<1> QED
  BY <1>11 DEF g

\* A wildcard takes the value of a row.
LEMMA FrameWildTakes ==
    ASSUME NEW d, NEW A, NEW S, NEW n, NEW f, FrameOK(f, d, A, S, n),
           f.phase = "wild", f.rows # <<>>, \A T \in S : Keyed(T),
           Head(f.rows).a \in Attrs, NEW w, Of(w) = Head(f.rows).v,
           ValueOK(w, Head(f.rows).a, f.pat, d, A, n)
    PROVE  LET g == WildcardAdds(f, w)
           IN  FrameOK(g, d, A, S, n) /\ g.e = f.e /\ g.pat = f.pat
                 /\ g.phase = "wild"
<1> DEFINE g == WildcardAdds(f, w)
           r == Head(f.rows)
           q0 == [ident |-> r.a, key |-> r.a, nested |-> f.pat]
           vals == Append(Old(f, r.a), w)
<1>1. Fields(g, f.e, f.pat, f.phase, f.at, Tail(f.rows), f.vals,
             Put(f.attrs, r.a, Entry(r.a, vals)))
  BY WildFields DEF FrameOK
<1>2. PICK T \in S : \E R \in SUBSET T : AtRow(f, r, d, A, n, T, R)
  BY WildHead
<1>3. PICK R \in SUBSET T : AtRow(f, r, d, A, n, T, R)
  BY <1>2
<1>4. WildOK(f, d, A, S, n)
  BY DEF FrameOK
<1> DEFINE Q == R \ {r}
           L == T \ R
           V == ValuesIn(L, f.e, r.a)
<1>5. /\ L \subseteq T /\ r \in T /\ r \notin L /\ T \ Q = L \cup {r}
      /\ r.e = f.e /\ Keyed(T)
  BY <1>3 DEF AtRow
<1>6. r.a \in Attrs /\ Of(w) = r.v /\ ValueOK(w, r.a, f.pat, d, A, n)
  OBVIOUS
<1>7. \A q \in Asked(f.pat) : Holds(f.attrs, q, ValuesIn(L, f.e, q.ident), d, A, n)
  BY <1>3 DEF AtRow, WildRead
<1>8. Asked(f.pat) = {[ident |-> a, key |-> a, nested |-> f.pat] : a \in Attrs}
  BY <1>4 DEF WildOK, Asked
<1>9. q0 \in Asked(f.pat) /\ q0.ident = r.a /\ q0.key = r.a /\ q0.nested = f.pat
  BY <1>6, <1>8
<1>10. Q \in SUBSET T /\ Q \subseteq RowsOf(T, f.e) /\ Enum(Tail(f.rows), Q)
  BY <1>3 DEF AtRow
<1> HIDE DEF g, r, q0, Q, L
<1>11. /\ \A a : r.a # a => ValuesIn(L \cup {r}, f.e, a) = ValuesIn(L, f.e, a)
       /\ ValuesIn(L \cup {r}, f.e, r.a) = V \cup {r.v}
       /\ r.v \notin V
       /\ r.a \notin ManyAttrs => V = {}
  <2>1. /\ ValuesIn(L \cup {r}, r.e, r.a) = ValuesIn(L, r.e, r.a) \cup {r.v}
        /\ r.v \notin ValuesIn(L, r.e, r.a)
        /\ r.a \notin ManyAttrs => ValuesIn(L, r.e, r.a) = {}
    BY <1>5, ValuesGain
  <2>2. \A a : r.a # a => ValuesIn(L \cup {r}, f.e, a) = ValuesIn(L, f.e, a)
    BY DEF ValuesIn
  <2> QED
    BY <1>5, <2>1, <2>2
<1>12. Holds(f.attrs, q0, V, d, A, n)
  BY <1>7, <1>9
<1> HIDE DEF V
<1>13. Lists(Old(f, r.a), V) /\ ValuesOK(Old(f, r.a), r.a, f.pat, d, A, n)
  <2>1. CASE r.a \in ManyAttrs /\ r.a \in DOMAIN f.attrs
    BY <1>9, <1>12, <2>1 DEF Old, Holds, Agrees
  <2>2. CASE ~(r.a \in ManyAttrs /\ r.a \in DOMAIN f.attrs)
    <3>1. Old(f, r.a) = <<>> /\ V = {}
      BY <1>9, <1>11, <1>12, <2>2 DEF Old, Holds, Agrees
    <3> QED
      BY <3>1, ListsNone, ValuesOKOne
  <2> QED
    BY <2>1, <2>2
<1>14. Lists(vals, V \cup {r.v})
  BY <1>6, <1>11, <1>13, ListsAppend DEF ValuesOK
<1>15. ValuesOK(vals, r.a, f.pat, d, A, n)
  BY <1>6, <1>13, ValuesOKAppend
<1> HIDE DEF vals
<1>16. ASSUME NEW q \in Asked(f.pat)
       PROVE  Holds(g.attrs, q, ValuesIn(T \ Q, f.e, q.ident), d, A, n)
  <2>1. g.attrs = Put(f.attrs, r.a, Entry(r.a, vals))
    BY <1>1 DEF Fields
  <2>2. CASE q = q0
    <3>1. Holds(Put(f.attrs, q0.key, Entry(q0.ident, vals)), q0, V \cup {r.v}, d, A, n)
      BY <1>9, <1>14, <1>15, HoldsNew
    <3> QED
      BY <1>5, <1>9, <1>11, <2>1, <2>2, <3>1
  <2>3. CASE q # q0
    <3>1. q.key # r.a /\ q.ident # r.a
      BY <1>8, <2>3 DEF q0
    <3>2. Holds(f.attrs, q, ValuesIn(L, f.e, q.ident), d, A, n)
      BY <1>7
    <3>3. Holds(g.attrs, q, ValuesIn(L, f.e, q.ident), d, A, n)
      BY <2>1, <3>1, <3>2, HoldsOther
    <3> QED
      BY <1>5, <1>11, <3>1, <3>3
  <2> QED
    BY <2>2, <2>3
<1>17. WildRead(g, d, A, n, T, Q)
  BY <1>1, <1>10, <1>16 DEF WildRead, Fields
<1>18. DOMAIN g.attrs \subseteq Attrs
  BY <1>1, <1>4, <1>6 DEF WildOK, Fields, Put
<1>19. WildOK(g, d, A, S, n)
  BY <1>1, <1>4, <1>10, <1>17, <1>18 DEF WildOK, Fields
<1>20. FrameOK(g, d, A, S, n) /\ g.e = f.e /\ g.pat = f.pat /\ g.phase = "wild"
  BY <1>1, <1>19 DEF FrameOK, Fields
<1> QED
  BY <1>20 DEF g

-----------------------------------------------------------------------------
(***************************************************************************)
(* The cursor of the statement.                                            *)
(***************************************************************************)
\* Cursor, with the table that a fresh statement reads as an argument.
CursorOn(st, T) ==
    IF st.open THEN st
    ELSE [bound |-> st.bound, open |-> TRUE, snapshot |-> T,
          todo |-> Selected(st, T)]

LEMMA ReadingStarts ==
    ASSUME NEW f, NEW st, StepOK(f, st), st.open \in BOOLEAN,
           NEW T, Keyed(T)
    PROVE  LET c == CursorOn(st, T)
           IN  /\ \E R \in SUBSET c.snapshot : Reading(f, c, {}, R)
               /\ c.open /\ c.bound = <<f.e, PA(f).ident>>
               /\ st.open => c = st
               /\ ~st.open => c.snapshot = T
<1> DEFINE c == CursorOn(st, T)
           R == RowsFor(T, f.e, PA(f).ident)
<1>1. CASE st.open
  BY <1>1 DEF CursorOn, StepOK
<1>2. CASE ~st.open
  <2>1. c = [bound |-> st.bound, open |-> TRUE, snapshot |-> T,
             todo |-> Selected(st, T)]
    BY <1>2 DEF CursorOn
  <2>2. st.bound = <<f.e, PA(f).ident>> /\ f.vals = <<>>
    BY <1>2 DEF StepOK
  <2>3. {r \in T : <<r.e, r.a>> = st.bound} = R
    BY <2>2 DEF RowsFor
  <2>4. Selected(st, T) = InOrder(R)
    BY <2>3 DEF Selected
  <2>5. IsFiniteSet(R) /\ R \in SUBSET T
    BY FS_Subset DEF Keyed, RowsFor
  <2>6. Enum(InOrder(R), R)
    BY <2>5, InOrderEnum
  <2>7. ValuesIn(T \ (R \cup {}), f.e, PA(f).ident) = {}
    BY DEF ValuesIn, RowsFor
  <2>8. c.snapshot = T /\ c.todo = InOrder(R) /\ c.open /\ c.bound = st.bound
    BY <2>1, <2>4
  <2> HIDE DEF c
  <2>9. Reading(f, c, {}, R)
    <3>1. RowsFor(c.snapshot, f.e, PA(f).ident) = R
      BY <2>8
    <3>2. Lists(f.vals, ValuesIn(c.snapshot \ (R \cup {}), f.e, PA(f).ident))
      BY <2>2, <2>7, <2>8, ListsNone
    <3>3. Enum(c.todo, R)
      BY <2>6, <2>8
    <3> HIDE DEF R
    <3> QED
      BY <3>1, <3>2, <3>3 DEF Reading
  <2>10. /\ \E Q \in SUBSET c.snapshot : Reading(f, c, {}, Q)
         /\ c.open /\ c.bound = <<f.e, PA(f).ident>> /\ c.snapshot = T
    BY <2>2, <2>5, <2>8, <2>9
  <2> QED
    BY <1>2, <2>10 DEF c
<1> QED
  BY <1>1, <1>2

\* The cursor moves over a row.
LEMMA ReadingMoves ==
    ASSUME NEW f, NEW c, NEW R \in SUBSET c.snapshot, Reading(f, c, {}, R),
           c.todo # <<>>, "todo" \in DOMAIN c, "snapshot" \in DOMAIN c,
           "open" \in DOMAIN c, "bound" \in DOMAIN c
    PROVE  LET r == Head(c.todo)
               after == [c EXCEPT !.todo = Tail(@)]
           IN  /\ r \in c.snapshot /\ r.e = f.e /\ r.a = PA(f).ident
               /\ R \ {r} \in SUBSET after.snapshot
               /\ Reading(f, after, {r}, R \ {r})
               /\ after.snapshot = c.snapshot /\ after.open = c.open
               /\ after.bound = c.bound
<1> DEFINE r == Head(c.todo)
           after == [c EXCEPT !.todo = Tail(@)]
           Q == R \ {r}
           a == PA(f).ident
<1>1. Enum(c.todo, R) /\ R \subseteq RowsFor(c.snapshot, f.e, a)
  BY DEF Reading
<1>2. r \in R /\ Enum(Tail(c.todo), Q)
  BY <1>1, EnumTail
<1>3. r \in RowsFor(c.snapshot, f.e, a)
  BY <1>1, <1>2
<1>4. r \in c.snapshot /\ r.e = f.e /\ r.a = a
  BY <1>3 DEF RowsFor
<1>5. /\ after.todo = Tail(c.todo) /\ after.snapshot = c.snapshot
      /\ after.open = c.open /\ after.bound = c.bound
  OBVIOUS
<1>6. c.snapshot \ (Q \cup {r}) = c.snapshot \ (R \cup {})
  BY <1>2
<1>7. Lists(f.vals, ValuesIn(c.snapshot \ (R \cup {}), f.e, a))
  BY DEF Reading
<1> HIDE DEF after
<1>8. Reading(f, after, {r}, Q)
  <2>1. Q \subseteq RowsFor(c.snapshot, f.e, a) /\ {r} \cap Q = {}
    BY <1>1
  <2>2. Lists(f.vals, ValuesIn(after.snapshot \ (Q \cup {r}), f.e, a))
    BY <1>5, <1>6, <1>7
  <2> HIDE DEF Q, r
  <2> QED
    BY <1>2, <1>3, <1>5, <2>1, <2>2 DEF Reading
<1> QED
  BY <1>4, <1>5, <1>8 DEF after

\* The value of the row that the cursor has moved over is taken.
LEMMA ReadingTakes ==
    ASSUME NEW f, IsSeq(f.vals), NEW c, Keyed(c.snapshot),
           NEW R \in SUBSET c.snapshot, NEW r \in c.snapshot,
           Reading(f, c, {r}, R), NEW w, Of(w) = r.v,
           NEW g, g.e = f.e, PA(g) = PA(f), g.vals = Append(f.vals, w)
    PROVE  Reading(g, c, {}, R)
<1> DEFINE a == PA(f).ident
           T == c.snapshot
           L == T \ (R \cup {r})
<1>1. /\ R \subseteq RowsFor(T, f.e, a) /\ {r} \subseteq RowsFor(T, f.e, a)
      /\ r \notin R /\ Enum(c.todo, R)
      /\ Lists(f.vals, ValuesIn(L, f.e, a))
  BY DEF Reading
<1>2. r.e = f.e /\ r.a = a
  BY <1>1 DEF RowsFor
<1>3. L \subseteq T /\ r \notin L /\ T \ (R \cup {}) = L \cup {r}
        /\ Keyed(T) /\ r \in T
  BY <1>1
<1> HIDE DEF L, T
<1>4. /\ ValuesIn(L \cup {r}, r.e, r.a) = ValuesIn(L, r.e, r.a) \cup {r.v}
      /\ r.v \notin ValuesIn(L, r.e, r.a)
  <2>1. /\ ValuesIn(L \cup {r}, r.e, r.a) = ValuesIn(L, r.e, r.a) \cup {r.v}
        /\ r.v \notin ValuesIn(L, r.e, r.a)
        /\ r.a \notin ManyAttrs => ValuesIn(L, r.e, r.a) = {}
    BY <1>3, ValuesGain
  <2> QED
    BY <2>1
<1>5. Lists(Append(f.vals, w), ValuesIn(L, f.e, a) \cup {Of(w)})
  BY <1>1, <1>2, <1>4, ListsAppend
<1>6. Lists(g.vals, ValuesIn(T \ (R \cup {}), g.e, a))
  BY <1>2, <1>3, <1>4, <1>5
<1> QED
  BY <1>1, <1>6 DEF Reading, T

\* The cursor is at the end.
LEMMA ReadingEnds ==
    ASSUME NEW f, NEW c, NEW R \in SUBSET c.snapshot, Reading(f, c, {}, R),
           c.todo = <<>>
    PROVE  Lists(f.vals, ValuesIn(c.snapshot, f.e, PA(f).ident))
<1>1. Enum(c.todo, R) /\ Lists(f.vals, ValuesIn(c.snapshot \ (R \cup {}), f.e, PA(f).ident))
  BY DEF Reading
<1>2. R = {}
  BY <1>1, EnumEmpty
<1>3. c.snapshot \ (R \cup {}) = c.snapshot
  BY <1>2
<1> QED
  BY <1>1, <1>3

\* A CardOne attribute has one row.
LEMMA OneRow ==
    ASSUME NEW T, Keyed(T), NEW r \in T, r.a \notin ManyAttrs
    PROVE  ValuesIn(T, r.e, r.a) = {r.v}
BY DEF ValuesIn, Keyed

-----------------------------------------------------------------------------
(***************************************************************************)
(* The stack.                                                              *)
(***************************************************************************)
\* A frame waits for a call, not for what that call has gathered, and only a
\* frame that uses the cursor depends on the statement.
LEMMA WaitsStable ==
    ASSUME NEW S, NEW f, NEW g, NEW st, Waits(f, g, st, S),
           NEW h, h.e = g.e, h.pat = g.pat, NEW st2, st2 = st \/ ~UsesCursor(f)
    PROVE  Waits(f, h, st2, S)
<1>1. WaitsMany(f, g, st) => WaitsMany(f, h, st)
  BY DEF WaitsMany
<1> QED
  BY <1>1 DEF Waits, UsesCursor

LEMMA StackReplace ==
    ASSUME NEW A, NEW S, NEW n, NEW stk, NEW st, StackOK(stk, st, A, S, n),
           NEW m \in 1..Len(stk), NEW t, IsSeq(t), Len(t) = m,
           \A i \in 1..(m - 1) : t[i] = stk[i],
           t[m].e = stk[m].e, t[m].pat = stk[m].pat,
           FrameOK(t[m], m - 1, A, S, n),
           NEW st2, st2 = st \/ ~stk[m].pat.wildcard,
           t[m].phase = "step" => StepOK(t[m], st2)
    PROVE  StackOK(t, st2, A, S, n)
<1>1. Len(stk) \in Nat /\ m \in Nat \ {0}
  BY SeqFacts DEF StackOK
<1>2. \A k \in 1..m : k \in 1..Len(stk) /\ (k = m \/ k \in 1..(m - 1))
  BY <1>1
<1>3. \A k \in 1..m : FrameOK(t[k], k - 1, A, S, n)
  BY <1>2 DEF StackOK
<1>4. \A k \in 1..m : t[k].pat = stk[k].pat /\ t[k].e = stk[k].e
  BY <1>2
<1>5. Quiet(t)
  <2> SUFFICES ASSUME NEW j \in 1..m, NEW k \in 1..m, j < k, UsesCursor(t[j])
               PROVE  t[k].pat.wildcard
    BY DEF Quiet
  <2>1. t[j] = stk[j]
    BY <1>1
  <2>2. stk[k].pat.wildcard
    BY <1>2, <2>1 DEF StackOK, Quiet
  <2> QED
    BY <1>4, <2>2
<1>6. ASSUME NEW k \in 1..m, k < m
      PROVE  Waits(t[k], t[k + 1], st2, S)
  <2>1. k \in 1..Len(stk) /\ k < Len(stk) /\ k + 1 \in 1..m /\ t[k] = stk[k]
    BY <1>1, <1>6
  <2>2. Waits(stk[k], stk[k + 1], st, S)
    BY <2>1 DEF StackOK
  <2>3. st2 = st \/ ~UsesCursor(stk[k])
    BY <1>2, <1>6 DEF StackOK, Quiet
  <2>4. t[k + 1].e = stk[k + 1].e /\ t[k + 1].pat = stk[k + 1].pat
    BY <1>4, <2>1
  <2>5. Waits(stk[k], t[k + 1], st2, S)
    BY <2>2, <2>3, <2>4, WaitsStable
  <2> QED
    BY <2>1, <2>5
<1> QED
  BY <1>3, <1>5, <1>6 DEF StackOK

LEMMA StackPush ==
    ASSUME NEW A, NEW S, NEW n, NEW stk, NEW st, StackOK(stk, st, A, S, n),
           NEW m \in 1..Len(stk), m = Len(stk), NEW g,
           FrameOK(g, m, A, S, n), g.phase = "enter",
           UsesCursor(stk[m]) \/ stk[m].pat.wildcard => g.pat.wildcard,
           NEW st2, st2 = st \/ ~stk[m].pat.wildcard, Waits(stk[m], g, st2, S)
    PROVE  StackOK(Append(stk, g), st2, A, S, n)
<1> DEFINE t == Append(stk, g)
<1>1. IsSeq(stk) /\ m \in Nat \ {0}
  BY SeqFacts DEF StackOK
<1>2. IsSeq(t) /\ Len(t) = m + 1 /\ t[m + 1] = g /\ \A i \in 1..m : t[i] = stk[i]
  BY <1>1, SeqAppend
<1> HIDE DEF t
<1>3. \A k \in 1..(m + 1) : k \in 1..m \/ k = m + 1
  BY <1>1
<1>4. \A k \in 1..(m + 1) : FrameOK(t[k], k - 1, A, S, n)
  <2>1. \A k \in 1..m : FrameOK(t[k], k - 1, A, S, n)
    BY <1>2 DEF StackOK
  <2>2. (m + 1) - 1 = m
    BY <1>1
  <2> QED
    BY <1>2, <1>3, <2>1, <2>2
<1>5. Quiet(t)
  <2> SUFFICES ASSUME NEW j \in 1..(m + 1), NEW k \in 1..(m + 1), j < k,
                      UsesCursor(t[j])
               PROVE  t[k].pat.wildcard
    BY <1>2 DEF Quiet
  <2>1. j \in 1..m /\ t[j] = stk[j] /\ UsesCursor(stk[j])
    BY <1>1, <1>2
  <2>2. CASE k \in 1..m
    BY <1>2, <2>1, <2>2 DEF StackOK, Quiet
  <2>3. CASE k = m + 1
    <3>1. UsesCursor(stk[m]) \/ stk[m].pat.wildcard
      BY <1>1, <2>1 DEF StackOK, Quiet
    <3> QED
      BY <1>2, <2>3, <3>1
  <2> QED
    BY <1>3, <2>2, <2>3
<1>6. ASSUME NEW k \in 1..(m + 1), k < m + 1
      PROVE  Waits(t[k], t[k + 1], st2, S)
  <2>1. k \in 1..m /\ t[k] = stk[k]
    BY <1>1, <1>2, <1>6
  <2>2. CASE k = m
    BY <1>2, <2>1, <2>2
  <2>3. CASE k < m
    <3>1. k + 1 \in 1..m /\ t[k + 1] = stk[k + 1]
      BY <1>1, <1>2, <2>1, <2>3
    <3>2. Waits(stk[k], stk[k + 1], st, S)
      BY <2>1, <2>3 DEF StackOK
    <3>3. st2 = st \/ ~UsesCursor(stk[k])
      BY <1>1, <2>1, <2>3 DEF StackOK, Quiet
    <3>4. Waits(stk[k], stk[k + 1], st2, S)
      BY <3>2, <3>3, WaitsStable
    <3> QED
      BY <2>1, <3>1, <3>4
  <2> QED
    BY <1>1, <2>1, <2>2, <2>3
<1>7. StackOK(t, st2, A, S, n)
  BY <1>2, <1>4, <1>5, <1>6 DEF StackOK
<1> QED
  BY <1>7 DEF t

\* What a frame gets for the value it waits for.
Delivered(w, g, d, A, n) ==
    /\ Of(w) = g.e
    /\ \A a : IsFollowed(a, g.e, g.pat) => ValueOK(w, a, g.pat, d, A, n)

LEMMA FrameDelivered ==
    ASSUME CallsPlain, NEW d, NEW A, NEW S, \A T \in S : Keyed(T), NEW n,
           NEW f, FrameOK(f, d, A, S, n), NEW st, StmtOK(st, S),
           NEW g, Waits(f, g, st, S), NEW w, Delivered(w, g, d, A, n)
    PROVE  LET h == Adds(f, w)
           IN  /\ FrameOK(h, d, A, S, n) /\ h.e = f.e /\ h.pat = f.pat
               /\ h.phase = "step" => UsesCursor(f) /\ StepOK(h, st)
<1> DEFINE h == Adds(f, w)
<1>1. CASE f.phase = "wild"
  <2>1. /\ f.rows # <<>> /\ Head(f.rows).a \in Attrs /\ Head(f.rows).v = g.e
        /\ f.pat = g.pat /\ IsFollowed(Head(f.rows).a, g.e, g.pat)
    BY <1>1 DEF Waits
  <2>2. f.pat.wildcard
    BY <1>1 DEF FrameOK, WildOK
  <2>3. h = WildcardAdds(f, w)
    BY <2>2 DEF Adds
  <2>4. Of(w) = Head(f.rows).v /\ ValueOK(w, Head(f.rows).a, f.pat, d, A, n)
    BY <2>1 DEF Delivered
  <2> HIDE DEF h
  <2>5. FrameOK(h, d, A, S, n) /\ h.e = f.e /\ h.pat = f.pat /\ h.phase = "wild"
    BY <1>1, <2>1, <2>3, <2>4, FrameWildTakes
  <2>6. /\ FrameOK(h, d, A, S, n) /\ h.e = f.e /\ h.pat = f.pat
        /\ h.phase = "step" => UsesCursor(f) /\ StepOK(h, st)
    BY <2>5
  <2> QED
    BY <2>6 DEF h
<1>2. CASE f.phase = "step"
  <2>1. /\ PA(f).nested = g.pat /\ IsFollowed(PA(f).ident, g.e, g.pat)
        /\ IsMany(f) => WaitsMany(f, g, st)
        /\ ~IsMany(f) => \E T \in S : ValuesIn(T, f.e, PA(f).ident) = {g.e}
    BY <1>2 DEF Waits
  <2>2. /\ ~f.pat.wildcard
        /\ ValuesOK(f.vals, PA(f).ident, PA(f).nested, d, A, n)
    BY <1>2 DEF FrameOK, NamedOK
  <2>3. Of(w) = g.e /\ ValueOK(w, PA(f).ident, PA(f).nested, d, A, n)
    BY <2>1 DEF Delivered
  <2>4. CASE IsMany(f)
    <3> DEFINE k == Takes(f, w)
    <3>0. /\ FrameOK(k, d, A, S, n) /\ k.e = f.e /\ k.pat = f.pat
          /\ k.phase = "step" /\ PA(k) = PA(f) /\ k.vals = Append(f.vals, w)
      BY <1>2, <2>3, <2>4, FrameTakes
    <3>1. h = k
      BY <2>2, <2>4 DEF Adds, SpecificAdds, Takes
    <3> HIDE DEF h, k
    <3>2. /\ FrameOK(h, d, A, S, n) /\ h.e = f.e /\ h.pat = f.pat
          /\ h.phase = "step" /\ PA(h) = PA(f) /\ h.vals = Append(f.vals, w)
      BY <3>0, <3>1
    <3>3. PICK R \in SUBSET st.snapshot : \E r \in st.snapshot :
              r.v = g.e /\ Reading(f, st, {r}, R)
      BY <2>1, <2>4 DEF WaitsMany
    <3>4. PICK r \in st.snapshot : r.v = g.e /\ Reading(f, st, {r}, R)
      BY <3>3
    <3>5. st.open /\ st.bound = <<f.e, PA(f).ident>>
      BY <2>1, <2>4 DEF WaitsMany
    <3>6. Keyed(st.snapshot)
      BY <3>5 DEF StmtOK
    <3>7. IsSeq(f.vals)
      BY <2>2 DEF ValuesOK
    <3>8. Reading(h, st, {}, R)
      BY <2>3, <3>2, <3>4, <3>6, <3>7, ReadingTakes
    <3>9. IsMany(h)
      BY <2>4, <3>2 DEF IsMany
    <3>10. StepOK(h, st)
      BY <3>2, <3>5, <3>8, <3>9 DEF StepOK
    <3>11. UsesCursor(f)
      BY <1>2, <2>4 DEF UsesCursor
    <3>12. /\ FrameOK(h, d, A, S, n) /\ h.e = f.e /\ h.pat = f.pat
           /\ h.phase = "step" => UsesCursor(f) /\ StepOK(h, st)
      BY <3>2, <3>10, <3>11
    <3> QED
      BY <3>12 DEF h
  <2>5. CASE ~IsMany(f)
    <3>1. h = SpecificEnds(f, <<w>>)
      BY <2>2, <2>5 DEF Adds, SpecificAdds
    <3>2. PICK T \in S : ValuesIn(T, f.e, PA(f).ident) = {g.e}
      BY <2>1, <2>5
    <3>3. /\ ValuesOK(<<w>>, PA(f).ident, PA(f).nested, d, A, n)
          /\ Lists(<<w>>, {Of(w)})
      BY <2>3, ValuesOKOne
    <3>4. Lists(<<w>>, ValuesIn(T, f.e, PA(f).ident))
      BY <2>3, <3>2, <3>3
    <3> HIDE DEF h
    <3>5. FrameOK(h, d, A, S, n) /\ h.e = f.e /\ h.pat = f.pat /\ h.phase = "attr"
      BY <1>2, <3>1, <3>3, <3>4, FrameEnds
    <3>6. /\ FrameOK(h, d, A, S, n) /\ h.e = f.e /\ h.pat = f.pat
          /\ h.phase = "step" => UsesCursor(f) /\ StepOK(h, st)
      BY <3>5
    <3> QED
      BY <3>6 DEF h
  <2> QED
    BY <2>4, <2>5
<1> QED
  BY <1>1, <1>2 DEF Waits

DeliverTo(stk, w) == Front(Front(stk)) \o <<Adds(Last(Front(stk)), w)>>

LEMMA StackDelivers ==
    ASSUME CallsPlain, NEW A, NEW S, \A T \in S : Keyed(T), NEW n,
           NEW stk, NEW st, StackOK(stk, st, A, S, n), StmtOK(st, S),
           Len(stk) > 1, NEW w, Delivered(w, stk[Len(stk)], Len(stk) - 2, A, n),
           NEW st2,
           \/ st2 = st
           \/ EndsAttr(stk[Len(stk) - 1])
           \/ stk[Len(stk)].phase = "step"
    PROVE  LET t == DeliverTo(stk, w)
           IN  /\ StackOK(t, st2, A, S, n)
               /\ t # <<>> /\ t[1].e = stk[1].e /\ t[1].pat = stk[1].pat
<1> DEFINE m == Len(stk) - 1
           f == stk[m]
           g == stk[Len(stk)]
           h == Adds(f, w)
           below == Front(stk)
           t == Front(below) \o <<Adds(Last(below), w)>>
<1>1. IsSeq(stk) /\ Len(stk) \in Nat /\ stk # <<>>
  BY SeqFacts DEF StackOK
<1>2. m \in 1..Len(stk) /\ m < Len(stk) /\ m + 1 = Len(stk) /\ m - 1 = Len(stk) - 2
        /\ m \in Nat \ {0}
  BY <1>1
<1>3. IsSeq(below) /\ Len(below) = m /\ \A i \in 1..m : below[i] = stk[i]
  BY <1>1, SeqFront
<1>4. below # <<>> /\ Last(below) = f
  BY <1>2, <1>3, SeqFacts DEF Last
<1>5. FrameOK(f, m - 1, A, S, n) /\ Waits(f, g, st, S)
  BY <1>2 DEF StackOK
<1>6. Delivered(w, g, m - 1, A, n)
  BY <1>2
<1> HIDE DEF m, below
<1>7. /\ FrameOK(h, m - 1, A, S, n) /\ h.e = f.e /\ h.pat = f.pat
      /\ h.phase = "step" => UsesCursor(f) /\ StepOK(h, st)
  <2> HIDE DEF f, g
  <2> QED
    BY <1>5, <1>6, FrameDelivered
<1> HIDE DEF h
<1>8. /\ IsSeq(t) /\ Len(t) = m /\ t[m] = h
      /\ \A i \in 1..(m - 1) : t[i] = stk[i]
  <2>1. /\ IsSeq(t) /\ Len(t) = Len(below) /\ t[Len(below)] = Adds(Last(below), w)
        /\ \A i \in 1..(Len(below) - 1) : t[i] = below[i]
    BY <1>3, <1>4, SeqReplaceLast
  <2>2. \A i \in 1..(m - 1) : i \in 1..m
    BY <1>2
  <2> QED
    BY <1>3, <1>4, <2>1, <2>2 DEF h
<1> HIDE DEF t
<1>9. UsesCursor(f) => g.pat.wildcard
  BY <1>2 DEF StackOK, Quiet
<1>10. g.phase = "step" => ~g.pat.wildcard /\ ~f.pat.wildcard
  <2> SUFFICES ASSUME g.phase = "step"
               PROVE  ~g.pat.wildcard /\ ~f.pat.wildcard
    OBVIOUS
  <2>1. ~g.pat.wildcard
    BY <1>1 DEF StackOK, FrameOK, NamedOK
  <2> QED
    BY <1>5, <2>1 DEF Waits, FrameOK, NamedOK
<1>11. st2 = st \/ ~f.pat.wildcard
  BY <1>10 DEF EndsAttr, m
<1>12. h.phase = "step" => StepOK(h, st2)
  <2> SUFFICES ASSUME h.phase = "step"
               PROVE  st2 = st
    BY <1>7
  <2>1. UsesCursor(f)
    BY <1>7
  <2>2. ~EndsAttr(f) /\ g.phase # "step"
    BY <1>9, <1>10, <2>1 DEF EndsAttr, UsesCursor
  <2> QED
    BY <2>2 DEF m
<1>13. StackOK(t, st2, A, S, n)
  BY <1>2, <1>7, <1>8, <1>11, <1>12, StackReplace
<1>14. t # <<>> /\ t[1].e = stk[1].e /\ t[1].pat = stk[1].pat
  <2>1. t # <<>>
    BY <1>2, <1>8, SeqFacts
  <2>2. CASE m = 1
    BY <1>7, <1>8, <2>1, <2>2
  <2>3. CASE m # 1
    BY <1>2, <1>8, <2>1, <2>3
  <2> QED
    BY <2>1, <2>2, <2>3
<1> QED
  BY <1>13, <1>14 DEF t, below, DeliverTo

-----------------------------------------------------------------------------
(***************************************************************************)
(* The state.                                                              *)
(***************************************************************************)
LEMMA SourcesKeyed ==
    ASSUME TablesKeyed, SourcesOK
    PROVE  \A T \in Sources : Keyed(T)
BY DEF TablesKeyed, SourcesOK, Sources

LEMMA StmtFacts ==
    ASSUME NEW S, NEW st
    PROVE  /\ StmtOK(st, S) => st.open \in BOOLEAN /\ StmtOK(Reset(st), S)
           /\ StmtOK(Unbound, S)
           /\ \A e, a : StmtOK(Bind(e, a), S)
BY DEF StmtOK, Reset, Unbound, Bind

\* What a statement may read is one of the sources.
LEMMA ReadableFacts ==
    ASSUME SourcesOK, StmtOK(stmt, Sources)
    PROVE  /\ Readable \in Sources
           /\ Cursor(stmt) = CursorOn(stmt, Readable)
<1>1. view # NoView => Sources = {view} /\ Readable = view
  BY DEF Sources, Readable
<1>2. view = NoView => Sources = instants /\
          Readable = IF stmt.open THEN stmt.snapshot ELSE current
  BY DEF Sources, Readable
<1>3. stmt.open => stmt.snapshot \in Sources
  BY DEF StmtOK
<1> QED
  BY <1>1, <1>2, <1>3 DEF SourcesOK, Cursor, CursorOn

LEMMA TopFacts ==
    ASSUME PullInv, stack # <<>>
    PROVE  /\ IsSeq(stack) /\ Len(stack) \in Nat \ {0}
           /\ Len(stack) \in 1..Len(stack)
           /\ Top = stack[Len(stack)] /\ Depth = Len(stack) - 1
           /\ FrameOK(Top, Len(stack) - 1, pulled, Sources, errors)
           /\ Top.phase = "step" => StepOK(Top, stmt)
<1>1. IsSeq(stack) /\ Len(stack) \in Nat \ {0}
  BY SeqFacts DEF PullInv, StackOK
<1> QED
  BY <1>1 DEF PullInv, StackOK, Top, Last, Depth

\* The innermost frame takes a step.
LEMMA TopReplaced ==
    ASSUME PullInv, stack # <<>>,
           NEW h, h.e = Top.e, h.pat = Top.pat,
           FrameOK(h, Len(stack) - 1, pulled, Sources, errors),
           NEW st2, st2 = stmt \/ ~Top.pat.wildcard,
           h.phase = "step" => StepOK(h, st2)
    PROVE  /\ StackOK(Becomes(h), st2, pulled, Sources, errors)
           /\ ResultsOK(Becomes(h), results, request, pulled)
<1> DEFINE m == Len(stack)
           t == Becomes(h)
<1>1. IsSeq(stack) /\ m \in Nat \ {0} /\ m \in 1..Len(stack) /\ Top = stack[m]
  BY TopFacts
<1>2. IsSeq(t) /\ Len(t) = m /\ t[m] = h /\ \A i \in 1..(m - 1) : t[i] = stack[i]
  BY <1>1, SeqReplaceLast DEF Becomes
<1>3. StackOK(stack, stmt, pulled, Sources, errors)
  BY DEF PullInv
<1> HIDE DEF t
<1>4. StackOK(t, st2, pulled, Sources, errors)
  <2>1. t[m].e = stack[m].e /\ t[m].pat = stack[m].pat
    BY <1>1, <1>2
  <2>2. FrameOK(t[m], m - 1, pulled, Sources, errors)
    BY <1>2
  <2>3. st2 = stmt \/ ~stack[m].pat.wildcard
    BY <1>1
  <2>4. t[m].phase = "step" => StepOK(t[m], st2)
    BY <1>2
  <2>5. Len(t) = m
    BY <1>2
  <2> HIDE DEF m
  <2> QED
    BY <1>1, <1>2, <1>3, <2>1, <2>2, <2>3, <2>4, <2>5, StackReplace
<1>5. t # <<>> /\ t[1].e = stack[1].e /\ t[1].pat = stack[1].pat
  <2>1. t # <<>>
    BY <1>1, <1>2, SeqFacts
  <2>2. CASE m = 1
    BY <1>1, <1>2, <2>1, <2>2
  <2>3. CASE m # 1
    BY <1>1, <1>2, <2>1, <2>3
  <2> QED
    BY <2>2, <2>3
<1>6. ResultsOK(t, results, request, pulled)
  BY <1>5 DEF PullInv, ResultsOK
<1> QED
  BY <1>4, <1>6 DEF t

\* A step that touches the stack and the statement only.
LEMMA OwnStep ==
    ASSUME PullInv, UNCHANGED <<Own, results>>, StmtOK(stmt', Sources),
           StackOK(stack', stmt', pulled, Sources, errors),
           ResultsOK(stack', results, request, pulled)
    PROVE  PullInv'
<1>1. /\ current' = current /\ view' = view /\ request' = request
      /\ commits' = commits /\ instants' = instants /\ errors' = errors
      /\ pulled' = pulled /\ results' = results
  BY DEF Own, Outside
<1>2. Sources' = Sources
  BY <1>1 DEF Sources
<1>3. SourcesOK'
  BY <1>1 DEF PullInv, SourcesOK
<1>4. AnswersOK(pulled', Sources', errors')
  BY <1>1, <1>2 DEF PullInv
<1> QED
  BY <1>1, <1>2, <1>3, <1>4 DEF PullInv

\* The value of a row as it stands, and an entity pulled in its place.
LEMMA ValueFacts ==
    /\ \A e : ~IsEntity([val |-> e]) /\ Of([val |-> e]) = e
    /\ \A e, attrs : /\ IsEntity([id |-> e, attrs |-> attrs])
                     /\ Of([id |-> e, attrs |-> attrs]) = e
<1>1. \A e : ~IsEntity([val |-> e])
  BY DEF IsEntity
<1>2. \A e, attrs : IsEntity([id |-> e, attrs |-> attrs])
  BY DEF IsEntity
<1> QED
  BY <1>1, <1>2 DEF Of

\* What pullEntity returns is right.
LEMMA ReturnIsRight ==
    ASSUME CallsPlain, NEW d, NEW A, NEW A2, A \subseteq A2, NEW S, NEW n,
           NEW f, FrameOK(f, d, A, S, n),
           \/ f.phase = "wild" /\ f.rows = <<>>
           \/ f.phase = "attr" /\ f.at > Len(f.pat.attrs)
    PROVE  AnswerOK(Answer([id |-> f.e, attrs |-> f.attrs], f.pat, d), A2, S, n)
<1> DEFINE m == [id |-> f.e, attrs |-> f.attrs]
           x == Answer(m, f.pat, d)
           K == {q.key : q \in Asked(f.pat)}
<1>1. /\ x.m = m /\ x.pat = f.pat /\ x.depth = d
      /\ m.attrs = f.attrs /\ m.id = f.e
  BY DEF Answer
<1> HIDE DEF x, m
<1>2. /\ DOMAIN f.attrs \subseteq K
      /\ \A q \in Asked(f.pat) : \E V : Holds(f.attrs, q, V, d, A, n)
      /\ FromInstants(x, S)
  <2>1. CASE f.phase = "wild" /\ f.rows = <<>>
    <3>1. WildOK(f, d, A, S, n)
      BY <2>1 DEF FrameOK
    <3>2. PICK T \in S : \E R \in SUBSET T : WildRead(f, d, A, n, T, R)
      BY <3>1 DEF WildOK
    <3>3. PICK R \in SUBSET T : WildRead(f, d, A, n, T, R)
      BY <3>2
    <3>4. R = {}
      BY <2>1, <3>3, EnumEmpty DEF WildRead
    <3>5. T \ R = T
      BY <3>4
    <3>6. \A q \in Asked(f.pat) :
             Holds(f.attrs, q, ValuesIn(T, f.e, q.ident), d, A, n)
      BY <3>3, <3>5 DEF WildRead
    <3>7. \A q \in Asked(f.pat) : Shows(x, q, T)
      BY <1>1, <3>6 DEF Shows, Holds
    <3>8. FromInstants(x, S)
      BY <1>1, <3>1, <3>7 DEF FromInstants, WildOK
    <3>9. Asked(f.pat) = {[ident |-> a, key |-> a, nested |-> f.pat] : a \in Attrs}
      BY <3>1 DEF Asked, WildOK
    <3>10. Attrs \subseteq K
      <4> SUFFICES ASSUME NEW a \in Attrs
                   PROVE  a \in K
        OBVIOUS
      <4>1. [ident |-> a, key |-> a, nested |-> f.pat] \in Asked(f.pat)
        BY <3>9
      <4>2. [ident |-> a, key |-> a, nested |-> f.pat].key = a
        OBVIOUS
      <4> QED
        BY <4>1, <4>2
    <3>11. DOMAIN f.attrs \subseteq K
      BY <3>1, <3>10 DEF WildOK
    <3> HIDE DEF K
    <3> QED
      BY <3>6, <3>8, <3>11
  <2>2. CASE f.phase = "attr" /\ f.at > Len(f.pat.attrs)
    <3>1. NamedOK(f, d, A, S, n)
      BY <2>2 DEF FrameOK
    <3>2. f.pat.attrs \in Seq(ToSet(f.pat.attrs))
      BY PatternsAssumption DEF FrameOK
    <3>3. f.at - 1 = Len(f.pat.attrs)
      BY <2>2, <3>1, <3>2 DEF NamedOK
    <3>4. DOMAIN f.pat.attrs = 1..(f.at - 1)
      BY <3>2, <3>3
    <3>5. Asked(f.pat) = Past(f)
      BY <3>1, <3>4 DEF NamedOK, Asked, Past, ToSet
    <3>6. \A q \in Asked(f.pat) : \E T \in S :
             Holds(f.attrs, q, ValuesIn(T, f.e, q.ident), d, A, n)
      BY <3>1, <3>5 DEF NamedOK
    <3>7. \A q \in Asked(f.pat) : \E T \in S : Shows(x, q, T)
      BY <1>1, <3>6 DEF Shows, Holds
    <3>8. FromInstants(x, S)
      BY <1>1, <3>1, <3>7 DEF FromInstants, NamedOK
    <3>9. DOMAIN f.attrs \subseteq K
      BY <3>1, <3>5 DEF NamedOK
    <3> HIDE DEF K
    <3> QED
      BY <3>6, <3>8, <3>9
  <2> QED
    BY <2>1, <2>2
<1>3. ASSUME NEW q \in Asked(f.pat), NEW val \in EntryVals(m, q)
      PROVE  ValueOK(val, q.ident, q.nested, d, A, n)
  <2>1. q.key \in DOMAIN f.attrs /\ val \in ToSet(f.attrs[q.key].vals)
    BY <1>1 DEF EntryVals
  <2>2. ValuesOK(f.attrs[q.key].vals, q.ident, q.nested, d, A, n)
    BY <1>2, <2>1 DEF Holds
  <2>3. DOMAIN f.attrs[q.key].vals = 1..Len(f.attrs[q.key].vals)
    BY <2>2, SeqFacts DEF ValuesOK
  <2> QED
    BY <2>1, <2>2, <2>3 DEF ValuesOK, ToSet
<1>4. Sound(x, A2)
  <2> HIDE DEF K
  <2>1. \A q \in Asked(f.pat) : \A val \in EntryVals(m, q) : IsEntity(val) =>
            /\ IsFollowed(q.ident, Of(val), q.nested) /\ d < MaxPullDepth
            /\ Answer(val, q.nested, d + 1) \in A2
    BY <1>3 DEF ValueOK
  <2>2. DOMAIN f.attrs \subseteq {q.key : q \in Asked(f.pat)}
    BY <1>2 DEF K
  <2> QED
    BY <1>1, <2>1, <2>2 DEF Sound
<1>5. n = 0 => Deep(x)
  BY <1>1, <1>3 DEF ValueOK, Deep
<1> QED
  BY <1>2, <1>4, <1>5 DEF AnswerOK, x, m

-----------------------------------------------------------------------------
(***************************************************************************)
(* The actions keep the invariant.                                         *)
(***************************************************************************)
LEMMA InitInv == Init => PullInv
<1> SUFFICES ASSUME Init
             PROVE  PullInv
  OBVIOUS
<1>1. stack = <<>> /\ results = <<>> /\ IsSeq(<<>>) /\ Len(<<>>) = 0
  BY ListsNone DEF Init
<1>2. SourcesOK
  BY DEF Init, SourcesOK
<1>3. StmtOK(stmt, Sources)
  BY StmtFacts DEF Init
<1>4. StackOK(stack, stmt, pulled, Sources, errors)
  BY <1>1 DEF StackOK, Quiet
<1>5. AnswersOK(pulled, Sources, errors)
  BY DEF Init, AnswersOK
<1>6. request.eids \in Seq(ToSet(request.eids))
  BY PatternsAssumption DEF Init
<1>7. ResultsOK(stack, results, request, pulled)
  BY <1>1, <1>6 DEF ResultsOK
<1> QED
  BY <1>2, <1>3, <1>4, <1>5, <1>7 DEF PullInv

LEMMA CommitInv == ASSUME PullInv, Commit PROVE PullInv'
<1>1. /\ view' = view /\ stmt' = stmt /\ stack' = stack /\ request' = request
      /\ results' = results /\ errors' = errors /\ pulled' = pulled
      /\ commits' = commits + 1 /\ current' \in Tables
      /\ instants' = instants \cup {current'}
  BY DEF Commit
<1>2. Sources \subseteq Sources'
  BY <1>1 DEF Sources
<1>3. SourcesOK'
  BY <1>1 DEF PullInv, SourcesOK
<1>4. StmtOK(stmt, Sources')
  BY <1>2, MonoStmt DEF PullInv
<1>5. StackOK(stack, stmt, pulled, Sources', errors)
  BY <1>2, MonoStack DEF PullInv
<1>6. AnswersOK(pulled, Sources', errors)
  BY <1>2, MonoAnswers DEF PullInv, AnswersOK
<1> QED
  BY <1>1, <1>3, <1>4, <1>5, <1>6 DEF PullInv

LEMMA PullStepInv == ASSUME PullInv, Pull PROVE PullInv'
<1> DEFINE e == request.eids[Len(results) + 1]
           g == Frame(e, request.pattern)
<1>1. stack = <<>> /\ stack' = <<g>> /\ Len(results) < Len(request.eids)
        /\ stmt' = stmt /\ UNCHANGED <<Own, results>>
  BY DEF Pull, Running, Own, Outside
<1>2. request.pattern \in Patterns
  BY PatternsAssumption DEF PullInv, SourcesOK
<1>3. 0 <= MaxPullDepth + 1
  BY PullAssumption
<1> HIDE DEF e
<1>4. /\ FrameOK(g, 0, pulled, Sources, errors)
      /\ g.e = e /\ g.pat = request.pattern /\ g.phase = "enter"
  BY <1>2, <1>3, FrameNew
<1> HIDE DEF g
<1>5. IsSeq(<<g>>) /\ Len(<<g>>) = 1 /\ <<g>>[1] = g
  BY DEF IsSeq
<1>6. StackOK(<<g>>, stmt, pulled, Sources, errors)
  <2>1. \A k \in 1..1 : k = 1
    OBVIOUS
  <2>2. Quiet(<<g>>)
    BY <1>5, <2>1 DEF Quiet
  <2> QED
    BY <1>4, <1>5, <2>1, <2>2 DEF StackOK
<1>7. ResultsOK(<<g>>, results, request, pulled)
  BY <1>1, <1>4, <1>5 DEF PullInv, ResultsOK, e
<1>8. StmtOK(stmt, Sources)
  BY DEF PullInv
<1> QED
  BY <1>1, <1>6, <1>7, <1>8, OwnStep

\* A frame gets the value it waits for.
LEMMA DeliverKeeps ==
    ASSUME TablesKeyed, CallsPlain, PullInv, Len(stack) > 1,
           NEW A2, pulled \subseteq A2, NEW n2, n2 = 0 => errors = 0,
           NEW w, Deliver(w), Delivered(w, Top, Len(stack) - 2, A2, n2),
           \/ stmt' = stmt
           \/ stmt' = Reset(stmt) /\ EndsAttr(stack[Len(stack) - 1])
           \/ stmt' = Reset(stmt) /\ Top.phase = "step"
    PROVE  /\ StackOK(stack', stmt', A2, Sources, n2)
           /\ StmtOK(stmt', Sources)
           /\ ResultsOK(stack', results, request, A2)
<1> DEFINE m == Len(stack)
<1>1. \A T \in Sources : Keyed(T)
  BY SourcesKeyed DEF PullInv
<1>2. /\ StackOK(stack, stmt, pulled, Sources, errors) /\ StmtOK(stmt, Sources)
      /\ IsSeq(stack)
  BY DEF PullInv, StackOK
<1>3. StackOK(stack, stmt, A2, Sources, n2)
  BY <1>2, MonoStack
<1>4. Top = stack[m]
  BY DEF Top, Last
<1>5. stack' = Front(Front(stack)) \o <<Adds(Last(Front(stack)), w)>>
  BY DEF Deliver
<1>6. Delivered(w, stack[m], m - 2, A2, n2)
  BY <1>4
<1>7. stmt' = stmt \/ EndsAttr(stack[m - 1]) \/ stack[m].phase = "step"
  BY <1>4
<1>8. /\ StackOK(stack', stmt', A2, Sources, n2)
      /\ stack' # <<>> /\ stack'[1].e = stack[1].e /\ stack'[1].pat = stack[1].pat
  <2> DEFINE t == DeliverTo(stack, w)
  <2>1. /\ StackOK(t, stmt', A2, Sources, n2)
        /\ t # <<>> /\ t[1].e = stack[1].e /\ t[1].pat = stack[1].pat
    BY <1>1, <1>2, <1>3, <1>6, <1>7, StackDelivers
  <2>2. stack' = t
    BY <1>5 DEF DeliverTo
  <2> HIDE DEF t
  <2> QED
    BY <2>1, <2>2
<1>9. stack # <<>>
  BY <1>2, SeqFacts
<1>10. ResultsOK(stack', results, request, A2)
  BY <1>8, <1>9 DEF PullInv, ResultsOK
<1>11. StmtOK(stmt', Sources)
  BY <1>2, StmtFacts
<1> QED
  BY <1>8, <1>10, <1>11

\* Too deep: the value stays as it is.
LEMMA FailsInv ==
    ASSUME TablesKeyed, CallsPlain, PullInv, pullEntityFails
    PROVE  PullInv'
<1> DEFINE w == [val |-> Top.e]
           m == Len(stack)
<1>1. stack # <<>> /\ Depth > MaxPullDepth /\ Deliver(w) /\ UNCHANGED <<Own, results>>
  BY DEF pullEntityFails, Entering, ExceedsDepth
<1>2. stmt' = stmt \/ (stmt' = Reset(stmt) /\ EndsAttr(stack[m - 1]))
  <2>1. stmt' = IF EndsAttr(stack[m - 1]) THEN Reset(stmt) ELSE stmt
    BY DEF pullEntityFails
  <2>2. CASE EndsAttr(stack[m - 1])
    BY <2>1, <2>2
  <2>3. CASE ~EndsAttr(stack[m - 1])
    BY <2>1, <2>3
  <2> QED
    BY <2>2, <2>3
<1>3. m \in Nat \ {0} /\ Top = stack[m] /\ Depth = m - 1
  BY <1>1, TopFacts
<1>4. m > 1 /\ ~(m - 2 < MaxPullDepth)
  BY <1>1, <1>3, PullAssumption
<1>5. ~IsEntity(w) /\ Of(w) = Top.e
  BY ValueFacts
<1> HIDE DEF w
<1>6. Delivered(w, Top, m - 2, pulled, errors)
  BY <1>4, <1>5 DEF Delivered, ValueOK
<1>7. /\ StackOK(stack', stmt', pulled, Sources, errors)
      /\ StmtOK(stmt', Sources)
      /\ ResultsOK(stack', results, request, pulled)
  BY <1>1, <1>2, <1>4, <1>6, DeliverKeeps
<1> QED
  BY <1>1, <1>7, OwnStep

LEMMA ReadWildcardInv ==
    ASSUME TablesKeyed, PullInv, ReadWildcard
    PROVE  PullInv'
<1> DEFINE T == Readable
           m == Len(stack)
           f == Top
           g == Reads(f, T)
<1>1. /\ stack # <<>> /\ f.phase = "enter" /\ ~ExceedsDepth /\ f.pat.wildcard
      /\ stack' = Becomes(g) /\ stmt' = stmt /\ UNCHANGED <<Own, results>>
  BY DEF ReadWildcard, Entering, Reads
<1>2. /\ m \in Nat \ {0} /\ Depth = m - 1
      /\ FrameOK(f, m - 1, pulled, Sources, errors)
  BY <1>1, TopFacts
<1>3. m - 1 <= MaxPullDepth
  BY <1>1, <1>2, PullAssumption DEF ExceedsDepth
<1>4. T \in Sources /\ Keyed(T)
  BY ReadableFacts, SourcesKeyed DEF PullInv
<1>5. /\ FrameOK(g, m - 1, pulled, Sources, errors)
      /\ g.e = f.e /\ g.pat = f.pat /\ g.phase = "wild"
  <2> HIDE DEF T, f
  <2> QED
    BY <1>1, <1>2, <1>3, <1>4, FrameReads
<1>6. StmtOK(stmt, Sources)
  BY DEF PullInv
<1> HIDE DEF g
<1>7. /\ StackOK(Becomes(g), stmt, pulled, Sources, errors)
      /\ ResultsOK(Becomes(g), results, request, pulled)
  BY <1>1, <1>5, TopReplaced
<1> QED
  BY <1>1, <1>6, <1>7, OwnStep

LEMMA BeginNamedInv ==
    ASSUME PullInv, BeginNamed, stmt' = Unbound \/ stmt' = stmt
    PROVE  PullInv'
<1> DEFINE m == Len(stack)
           f == Top
           g == [f EXCEPT !.phase = "attr"]
<1>1. /\ stack # <<>> /\ f.phase = "enter" /\ ~ExceedsDepth /\ ~f.pat.wildcard
      /\ stack' = Becomes(g) /\ UNCHANGED <<Own, results>>
  BY DEF BeginNamed, Entering
<1>2. /\ m \in Nat \ {0} /\ Depth = m - 1
      /\ FrameOK(f, m - 1, pulled, Sources, errors)
  BY <1>1, TopFacts
<1>3. m - 1 <= MaxPullDepth
  BY <1>1, <1>2, PullAssumption DEF ExceedsDepth
<1>4. /\ FrameOK(g, m - 1, pulled, Sources, errors)
      /\ g.e = f.e /\ g.pat = f.pat /\ g.phase = "attr"
  <2> HIDE DEF f
  <2> QED
    BY <1>1, <1>2, <1>3, FrameBegins
<1>5. StmtOK(stmt', Sources)
  BY StmtFacts DEF PullInv
<1> HIDE DEF g
<1>6. /\ StackOK(Becomes(g), stmt', pulled, Sources, errors)
      /\ ResultsOK(Becomes(g), results, request, pulled)
  BY <1>1, <1>4, TopReplaced
<1> QED
  BY <1>1, <1>5, <1>6, OwnStep

LEMMA SkipUnknownInv ==
    ASSUME CallsPlain, PullInv, SkipUnknown
    PROVE  PullInv'
<1> DEFINE m == Len(stack)
           f == Top
           g == NextAttr(f)
<1>1. /\ stack # <<>> /\ f.phase = "attr" /\ f.at <= Len(f.pat.attrs)
      /\ PA(f).ident \notin Attrs
      /\ stack' = Becomes(g) /\ stmt' = stmt /\ UNCHANGED <<Own, results>>
  BY DEF SkipUnknown
<1>2. FrameOK(f, m - 1, pulled, Sources, errors)
  BY <1>1, TopFacts
<1>3. /\ FrameOK(g, m - 1, pulled, Sources, errors)
      /\ g.e = f.e /\ g.pat = f.pat /\ g.phase = "attr"
  <2> HIDE DEF f
  <2> QED
    BY <1>1, <1>2, FrameSkips
<1>4. StmtOK(stmt, Sources)
  BY DEF PullInv
<1> HIDE DEF g
<1>5. /\ StackOK(Becomes(g), stmt, pulled, Sources, errors)
      /\ ResultsOK(Becomes(g), results, request, pulled)
  BY <1>1, <1>3, TopReplaced
<1> QED
  BY <1>1, <1>4, <1>5, OwnStep

LEMMA BindAttrInv ==
    ASSUME PullInv, BindAttr
    PROVE  PullInv'
<1> DEFINE m == Len(stack)
           f == Top
           g == [f EXCEPT !.phase = "step"]
           st == Bind(f.e, PA(f).ident)
<1>1. /\ stack # <<>> /\ f.phase = "attr" /\ f.at <= Len(f.pat.attrs)
      /\ PA(f).ident \in Attrs
      /\ stack' = Becomes(g) /\ stmt' = st /\ UNCHANGED <<Own, results>>
  BY DEF BindAttr
<1>2. FrameOK(f, m - 1, pulled, Sources, errors)
  BY <1>1, TopFacts
<1>3. ~f.pat.wildcard
  BY <1>1, <1>2 DEF FrameOK, NamedOK
<1>4. /\ FrameOK(g, m - 1, pulled, Sources, errors) /\ g.e = f.e /\ g.pat = f.pat
      /\ g.phase = "step" /\ PA(g) = PA(f) /\ g.vals = <<>>
  <2> HIDE DEF f
  <2> QED
    BY <1>1, <1>2, FrameBinds
<1>5. StmtOK(st, Sources)
  BY StmtFacts
<1> HIDE DEF g
<1>6. StepOK(g, st)
  BY <1>4 DEF StepOK, Bind
<1> HIDE DEF st
<1>7. /\ StackOK(Becomes(g), st, pulled, Sources, errors)
      /\ ResultsOK(Becomes(g), results, request, pulled)
  BY <1>1, <1>3, <1>4, <1>6, TopReplaced
<1> QED
  BY <1>1, <1>5, <1>7, OwnStep

\* What Step finds: the rest of what the statement reads.
LEMMA CursorFacts ==
    ASSUME TablesKeyed, PullInv, stack # <<>>, Top.phase = "step"
    PROVE  LET c == Cursor(stmt)
           IN  /\ c.snapshot \in Sources /\ Keyed(c.snapshot)
               /\ c.open /\ c.bound = <<Top.e, PA(Top).ident>>
               /\ DOMAIN c = {"bound", "open", "snapshot", "todo"}
               /\ \E R \in SUBSET c.snapshot : Reading(Top, c, {}, R)
<1> DEFINE c == Cursor(stmt)
           f == Top
<1>1. StmtOK(stmt, Sources) /\ SourcesOK
  BY DEF PullInv
<1>2. Readable \in Sources /\ c = CursorOn(stmt, Readable)
  BY <1>1, ReadableFacts
<1>3. \A T \in Sources : Keyed(T)
  BY <1>1, SourcesKeyed
<1>4. StepOK(f, stmt) /\ stmt.open \in BOOLEAN
  BY <1>1, TopFacts, StmtFacts
<1>5. Keyed(Readable)
  BY <1>2, <1>3
<1> HIDE DEF c, f
<1>6. /\ \E R \in SUBSET c.snapshot : Reading(f, c, {}, R)
      /\ c.open /\ c.bound = <<f.e, PA(f).ident>>
      /\ stmt.open => c = stmt
      /\ ~stmt.open => c.snapshot = Readable
  BY <1>2, <1>4, <1>5, ReadingStarts
<1>7. DOMAIN c = {"bound", "open", "snapshot", "todo"}
  BY <1>1, <1>2 DEF CursorOn, StmtOK
<1>8. c.snapshot \in Sources
  BY <1>1, <1>2, <1>4, <1>6 DEF StmtOK
<1>9. Keyed(c.snapshot)
  BY <1>3, <1>8
<1> QED
  BY <1>6, <1>7, <1>8, <1>9 DEF c, f

LEMMA StepDoneInv ==
    ASSUME TablesKeyed, CallsPlain, PullInv, StepDone
    PROVE  PullInv'
<1> DEFINE m == Len(stack)
           f == Top
           c == Cursor(stmt)
           g == SpecificEnds(f, f.vals)
<1>1. /\ stack # <<>> /\ f.phase = "step" /\ c.todo = <<>>
      /\ stack' = Becomes(g) /\ stmt' = Reset(stmt) /\ UNCHANGED <<Own, results>>
  BY DEF StepDone
<1>2. FrameOK(f, m - 1, pulled, Sources, errors)
  BY <1>1, TopFacts
<1>3. ~f.pat.wildcard /\ ValuesOK(f.vals, PA(f).ident, PA(f).nested, m - 1, pulled, errors)
  BY <1>1, <1>2 DEF FrameOK, NamedOK
<1>4. /\ c.snapshot \in Sources
      /\ \E R \in SUBSET c.snapshot : Reading(f, c, {}, R)
  BY <1>1, CursorFacts
<1> HIDE DEF c
<1>5. Lists(f.vals, ValuesIn(c.snapshot, f.e, PA(f).ident))
  BY <1>1, <1>4, ReadingEnds
<1>6. /\ FrameOK(g, m - 1, pulled, Sources, errors)
      /\ g.e = f.e /\ g.pat = f.pat /\ g.phase = "attr"
  <2> HIDE DEF f
  <2> QED
    BY <1>1, <1>2, <1>3, <1>4, <1>5, FrameEnds
<1>7. StmtOK(Reset(stmt), Sources)
  BY StmtFacts DEF PullInv
<1> HIDE DEF g
<1>8. /\ StackOK(Becomes(g), Reset(stmt), pulled, Sources, errors)
      /\ ResultsOK(Becomes(g), results, request, pulled)
  BY <1>1, <1>3, <1>6, TopReplaced
<1> QED
  BY <1>1, <1>7, <1>8, OwnStep

\* A call of pullEntity for the value of a row.
LEMMA PushKeeps ==
    ASSUME PullInv, stack # <<>>, NEW v, NEW p, p \in Patterns,
           Len(stack) - 1 <= MaxPullDepth,
           UsesCursor(Top) \/ Top.pat.wildcard => p.wildcard,
           NEW st2, st2 = stmt \/ ~Top.pat.wildcard,
           Waits(Top, Frame(v, p), st2, Sources)
    PROVE  /\ StackOK(Append(stack, Frame(v, p)), st2, pulled, Sources, errors)
           /\ ResultsOK(Append(stack, Frame(v, p)), results, request, pulled)
<1> DEFINE m == Len(stack)
           g == Frame(v, p)
<1>1. IsSeq(stack) /\ m \in Nat \ {0} /\ m \in 1..Len(stack) /\ Top = stack[m]
  BY TopFacts
<1>2. m <= MaxPullDepth + 1
  BY <1>1, PullAssumption
<1>3. /\ FrameOK(g, m, pulled, Sources, errors)
      /\ g.e = v /\ g.pat = p /\ g.phase = "enter"
  BY <1>2, FrameNew
<1>4. StackOK(stack, stmt, pulled, Sources, errors)
  BY DEF PullInv
<1> HIDE DEF g
<1>5. Waits(stack[m], g, st2, Sources)
  BY <1>1 DEF g
<1>6. StackOK(Append(stack, g), st2, pulled, Sources, errors)
  BY <1>1, <1>3, <1>4, <1>5, StackPush
<1>7. /\ IsSeq(Append(stack, g)) /\ Len(Append(stack, g)) = m + 1
      /\ \A i \in 1..m : Append(stack, g)[i] = stack[i]
  BY <1>1, SeqAppend
<1>8. Append(stack, g) # <<>> /\ Append(stack, g)[1] = stack[1]
  BY <1>1, <1>7, SeqFacts
<1>9. ResultsOK(Append(stack, g), results, request, pulled)
  BY <1>8 DEF PullInv, ResultsOK
<1> QED
  BY <1>6, <1>9 DEF g

LEMMA StepRowInv ==
    ASSUME TablesKeyed, CallsPlain, PullInv, StepRow
    PROVE  PullInv'
<1> DEFINE m == Len(stack)
           f == Top
           c == Cursor(stmt)
           r == Head(c.todo)
           after == [c EXCEPT !.todo = Tail(@)]
           a == PA(f).ident
           nested == PA(f).nested
           w == [val |-> r.v]
<1>1. /\ stack # <<>> /\ f.phase = "step" /\ c.todo # <<>>
      /\ UNCHANGED <<Own, results>>
  BY DEF StepRow
<1>2. FrameOK(f, m - 1, pulled, Sources, errors) /\ StepOK(f, stmt)
  BY <1>1, TopFacts
<1>3. /\ ~f.pat.wildcard /\ f.pat \in Patterns /\ m - 1 <= MaxPullDepth
      /\ f.at <= Len(f.pat.attrs) /\ f.at \in 1..(Len(f.pat.attrs) + 1)
      /\ ValuesOK(f.vals, a, nested, m - 1, pulled, errors)
      /\ ~IsMany(f) => f.vals = <<>>
  BY <1>1, <1>2 DEF FrameOK, NamedOK
<1>4. /\ c.snapshot \in Sources /\ Keyed(c.snapshot)
      /\ c.open /\ c.bound = <<f.e, a>>
      /\ DOMAIN c = {"bound", "open", "snapshot", "todo"}
      /\ \E R \in SUBSET c.snapshot : Reading(f, c, {}, R)
  BY <1>1, CursorFacts
<1>5. PICK R \in SUBSET c.snapshot : Reading(f, c, {}, R)
  BY <1>4
<1>6. /\ "todo" \in DOMAIN c /\ "snapshot" \in DOMAIN c
      /\ "open" \in DOMAIN c /\ "bound" \in DOMAIN c
  BY <1>4
<1>7. PA(f) \in ToSet(f.pat.attrs)
  <2>1. f.pat.attrs \in Seq(ToSet(f.pat.attrs))
    BY <1>3, PatternsAssumption
  <2>2. f.at \in 1..Len(f.pat.attrs)
    BY <1>3, <2>1
  <2> QED
    BY <2>1, <2>2 DEF PA, ToSet
<1>8. IF IsFollowed(a, r.v, nested)
      THEN stack' = Append(stack, Frame(r.v, nested)) /\ stmt' = after
      ELSE /\ stack' = Becomes(SpecificAdds(f, w))
           /\ stmt' = IF IsMany(f) THEN after ELSE Reset(stmt)
  BY DEF StepRow
<1> HIDE DEF c, f
<1>9. /\ r \in c.snapshot /\ r.e = f.e /\ r.a = a
      /\ R \ {r} \in SUBSET after.snapshot
      /\ Reading(f, after, {r}, R \ {r})
      /\ after.snapshot = c.snapshot /\ after.open = c.open
      /\ after.bound = c.bound
  BY <1>1, <1>5, <1>6, ReadingMoves
<1>10. StmtOK(after, Sources)
  <2>1. DOMAIN after = {"bound", "open", "snapshot", "todo"} /\ after.open = TRUE
    <3>1. DOMAIN after = DOMAIN c
      OBVIOUS
    <3>2. c.open = TRUE
      <4>1. c = CursorOn(stmt, Readable) /\ stmt.open \in BOOLEAN
        BY ReadableFacts, StmtFacts DEF PullInv, c
      <4> QED
        BY <4>1 DEF CursorOn
    <3> QED
      BY <1>4, <1>9, <3>1, <3>2
  <2> HIDE DEF after
  <2> QED
    BY <1>4, <1>9, <2>1 DEF StmtOK
<1> HIDE DEF after, r, w
<1>11. ~IsMany(f) => ValuesIn(c.snapshot, f.e, a) = {r.v}
  <2> SUFFICES ASSUME ~IsMany(f)
               PROVE  ValuesIn(c.snapshot, r.e, r.a) = {r.v}
    BY <1>9
  <2>1. r.a \notin ManyAttrs
    BY <1>9 DEF IsMany
  <2> QED
    BY <1>4, <1>9, <2>1, OneRow
<1>12. CASE IsFollowed(a, r.v, nested)
  <2> DEFINE g == Frame(r.v, nested)
  <2>1. stack' = Append(stack, g) /\ stmt' = after
    BY <1>8, <1>12
  <2>2. nested \in Patterns /\ (IsMany(f) => nested.wildcard)
    BY <1>3, <1>7, <1>12, PatternsAssumption DEF CallsPlain, IsFollowed, IsMany
  <2>3. g.e = r.v /\ g.pat = nested
    BY DEF Frame
  <2> HIDE DEF g
  <2>4. IsMany(f) => WaitsMany(f, g, after)
    BY <1>4, <1>9, <2>3 DEF WaitsMany
  <2>5. Waits(f, g, after, Sources)
    BY <1>1, <1>4, <1>11, <1>12, <2>3, <2>4 DEF Waits, f
  <2>6. UsesCursor(f) \/ f.pat.wildcard => nested.wildcard
    BY <1>3, <2>2 DEF UsesCursor
  <2>7. /\ StackOK(Append(stack, g), after, pulled, Sources, errors)
        /\ ResultsOK(Append(stack, g), results, request, pulled)
    BY <1>1, <1>3, <2>2, <2>5, <2>6, PushKeeps DEF f, g
  <2> QED
    BY <1>1, <1>10, <2>1, <2>7, OwnStep
<1>13. CASE ~IsFollowed(a, r.v, nested)
  <2>1. ~IsEntity(w) /\ Of(w) = r.v
    BY ValueFacts DEF w
  <2>2. ValueOK(w, a, nested, m - 1, pulled, errors)
    BY <1>13, <2>1 DEF ValueOK
  <2>3. CASE IsMany(f)
    <3> DEFINE g == Takes(f, w)
    <3>1. stack' = Becomes(g) /\ stmt' = after
      BY <1>8, <1>13, <2>3 DEF SpecificAdds, Takes
    <3>2. /\ FrameOK(g, m - 1, pulled, Sources, errors) /\ g.e = f.e /\ g.pat = f.pat
          /\ g.phase = "step" /\ PA(g) = PA(f) /\ g.vals = Append(f.vals, w)
      BY <1>1, <1>2, <2>2, <2>3, FrameTakes DEF f
    <3> HIDE DEF g
    <3>3. IsSeq(f.vals) /\ Keyed(after.snapshot) /\ r \in after.snapshot
      BY <1>3, <1>4, <1>9 DEF ValuesOK
    <3>4. Reading(g, after, {}, R \ {r})
      BY <1>9, <2>1, <3>2, <3>3, ReadingTakes
    <3>5. IsMany(g)
      BY <2>3, <3>2 DEF IsMany
    <3>6. StepOK(g, after)
      BY <1>4, <1>9, <3>2, <3>4, <3>5 DEF StepOK
    <3>7. /\ StackOK(Becomes(g), after, pulled, Sources, errors)
          /\ ResultsOK(Becomes(g), results, request, pulled)
      BY <1>1, <1>3, <3>2, <3>6, TopReplaced DEF f
    <3> QED
      BY <1>1, <1>10, <3>1, <3>7, OwnStep
  <2>4. CASE ~IsMany(f)
    <3> DEFINE g == SpecificEnds(f, <<w>>)
    <3>1. stack' = Becomes(g) /\ stmt' = Reset(stmt)
      BY <1>8, <1>13, <2>4 DEF SpecificAdds
    <3>2. /\ ValuesOK(<<w>>, a, nested, m - 1, pulled, errors)
          /\ Lists(<<w>>, {Of(w)})
      BY <2>2, ValuesOKOne
    <3>3. Lists(<<w>>, ValuesIn(c.snapshot, f.e, a))
      BY <1>11, <2>1, <2>4, <3>2
    <3>4. /\ FrameOK(g, m - 1, pulled, Sources, errors)
          /\ g.e = f.e /\ g.pat = f.pat /\ g.phase = "attr"
      BY <1>1, <1>2, <1>4, <3>2, <3>3, FrameEnds DEF f
    <3> HIDE DEF g
    <3>5. StmtOK(Reset(stmt), Sources)
      BY StmtFacts DEF PullInv
    <3>6. /\ StackOK(Becomes(g), Reset(stmt), pulled, Sources, errors)
          /\ ResultsOK(Becomes(g), results, request, pulled)
      BY <1>1, <1>3, <3>4, TopReplaced DEF f
    <3> QED
      BY <1>1, <3>1, <3>5, <3>6, OwnStep
  <2> QED
    BY <2>3, <2>4
<1> QED
  BY <1>12, <1>13

LEMMA WildcardRowInv ==
    ASSUME TablesKeyed, PullInv, WildcardRow
    PROVE  PullInv'
<1> DEFINE m == Len(stack)
           f == Top
           r == Head(f.rows)
           w == [val |-> r.v]
<1>1. /\ stack # <<>> /\ f.phase = "wild" /\ f.rows # <<>>
      /\ stmt' = stmt /\ UNCHANGED <<Own, results>>
      /\ stack' = IF r.a \notin Attrs THEN Becomes([f EXCEPT !.rows = Tail(@)])
                  ELSE IF IsFollowed(r.a, r.v, f.pat)
                  THEN Append(stack, Frame(r.v, f.pat))
                  ELSE Becomes(WildcardAdds(f, w))
  BY DEF WildcardRow
<1>2. FrameOK(f, m - 1, pulled, Sources, errors)
  BY <1>1, TopFacts
<1>3. f.pat.wildcard /\ f.pat \in Patterns /\ m - 1 <= MaxPullDepth
  BY <1>1, <1>2 DEF FrameOK, WildOK
<1>4. StmtOK(stmt, Sources) /\ \A T \in Sources : Keyed(T)
  BY SourcesKeyed DEF PullInv
<1> HIDE DEF f
<1>5. CASE r.a \notin Attrs
  <2> DEFINE g == [f EXCEPT !.rows = Tail(@)]
  <2>1. /\ FrameOK(g, m - 1, pulled, Sources, errors)
        /\ g.e = f.e /\ g.pat = f.pat /\ g.phase = "wild"
    BY <1>1, <1>2, <1>4, <1>5, FramePasses
  <2> HIDE DEF g
  <2>2. /\ StackOK(Becomes(g), stmt, pulled, Sources, errors)
        /\ ResultsOK(Becomes(g), results, request, pulled)
    BY <1>1, <2>1, TopReplaced DEF f
  <2>3. stack' = Becomes(g)
    BY <1>1, <1>5 DEF g
  <2> QED
    BY <1>1, <1>4, <2>2, <2>3, OwnStep
<1>6. CASE r.a \in Attrs /\ IsFollowed(r.a, r.v, f.pat)
  <2> DEFINE g == Frame(r.v, f.pat)
  <2>1. stack' = Append(stack, g)
    BY <1>1, <1>6
  <2>2. g.e = r.v /\ g.pat = f.pat
    BY DEF Frame
  <2> HIDE DEF g
  <2>3. Waits(f, g, stmt, Sources)
    BY <1>1, <1>6, <2>2 DEF Waits
  <2>4. /\ StackOK(Append(stack, g), stmt, pulled, Sources, errors)
        /\ ResultsOK(Append(stack, g), results, request, pulled)
    BY <1>1, <1>3, <2>3, PushKeeps DEF f, g
  <2> QED
    BY <1>1, <1>4, <2>1, <2>4, OwnStep
<1>7. CASE r.a \in Attrs /\ ~IsFollowed(r.a, r.v, f.pat)
  <2> DEFINE g == WildcardAdds(f, w)
  <2>1. stack' = Becomes(g)
    BY <1>1, <1>7
  <2>2. ~IsEntity(w) /\ Of(w) = r.v
    BY ValueFacts
  <2> HIDE DEF w
  <2>3. ValueOK(w, r.a, f.pat, m - 1, pulled, errors)
    BY <1>7, <2>2 DEF ValueOK
  <2>4. /\ FrameOK(g, m - 1, pulled, Sources, errors)
        /\ g.e = f.e /\ g.pat = f.pat /\ g.phase = "wild"
    BY <1>1, <1>2, <1>4, <1>7, <2>2, <2>3, FrameWildTakes
  <2> HIDE DEF g
  <2>5. /\ StackOK(Becomes(g), stmt, pulled, Sources, errors)
        /\ ResultsOK(Becomes(g), results, request, pulled)
    BY <1>1, <2>4, TopReplaced DEF f
  <2> QED
    BY <1>1, <1>4, <2>1, <2>5, OwnStep
<1> QED
  BY <1>5, <1>6, <1>7

LEMMA ReturnInv ==
    ASSUME TablesKeyed, CallsPlain, PullInv, Return
    PROVE  PullInv'
<1> DEFINE m == [id |-> Top.e, attrs |-> Top.attrs]
           x == Answer(m, Top.pat, Depth)
           k == Len(stack)
<1>1. /\ stack # <<>>
      /\ \/ Top.phase = "wild" /\ Top.rows = <<>>
         \/ Top.phase = "attr" /\ Top.at > Len(Top.pat.attrs)
      /\ pulled' = pulled \cup {x}
      /\ UNCHANGED <<Outside, failed, errors>>
  BY DEF Return
<1>2. /\ current' = current /\ view' = view /\ request' = request
      /\ commits' = commits /\ instants' = instants /\ errors' = errors
  BY <1>1 DEF Outside
<1>3. Sources' = Sources /\ SourcesOK'
  BY <1>2 DEF PullInv, SourcesOK, Sources
<1>4. /\ IsSeq(stack) /\ k \in Nat \ {0} /\ Depth = k - 1 /\ Top = stack[k]
      /\ FrameOK(Top, k - 1, pulled, Sources, errors)
  BY <1>1, TopFacts
<1>5. x \in pulled' /\ pulled \subseteq pulled'
  BY <1>1
<1>6. AnswersOK(pulled', Sources, errors)
  <2>1. AnswerOK(x, pulled', Sources, errors)
    BY <1>1, <1>4, <1>5, ReturnIsRight
  <2>2. AnswersOK(pulled, Sources, errors)
    BY DEF PullInv
  <2>3. \A y \in pulled : AnswerOK(y, pulled', Sources, errors)
    BY <1>5, <2>2, MonoAnswers
  <2> HIDE DEF x
  <2> QED
    BY <1>1, <2>1, <2>3 DEF AnswersOK
<1>7. IsEntity(m) /\ Of(m) = Top.e
  BY ValueFacts
<1>8. CASE k = 1
  <2>1. stack' = <<>> /\ results' = Append(results, m) /\ stmt' = stmt
    BY <1>8 DEF Return
  <2>2. /\ IsSeq(results) /\ Len(results) < Len(request.eids)
        /\ \A i \in 1..Len(results) :
              /\ results[i].id = request.eids[i]
              /\ Answer(results[i], request.pattern, 0) \in pulled
        /\ Top.e = request.eids[Len(results) + 1] /\ Top.pat = request.pattern
    BY <1>1, <1>4, <1>8 DEF PullInv, ResultsOK
  <2>3. Len(results) \in Nat /\ Len(request.eids) \in Nat
    BY <2>2, SeqFacts, PatternsAssumption DEF PullInv, SourcesOK
  <2>4. /\ IsSeq(results') /\ Len(results') = Len(results) + 1
        /\ results'[Len(results) + 1] = m
        /\ \A i \in 1..Len(results) : results'[i] = results[i]
    BY <2>1, <2>2, SeqAppend
  <2>5. m.id = Top.e /\ Answer(m, request.pattern, 0) \in pulled'
    BY <1>4, <1>5, <1>8, <2>2
  <2> HIDE DEF m
  <2>6. ASSUME NEW i \in 1..Len(results')
        PROVE  /\ results'[i].id = request.eids[i]
               /\ Answer(results'[i], request.pattern, 0) \in pulled'
    <3>1. CASE i = Len(results) + 1
      BY <2>2, <2>4, <2>5, <3>1
    <3>2. CASE i \in 1..Len(results)
      BY <1>5, <2>2, <2>4, <3>2
    <3> QED
      BY <2>3, <2>4, <3>1, <3>2
  <2>7. ResultsOK(stack', results', request, pulled')
    BY <2>1, <2>2, <2>3, <2>4, <2>6 DEF ResultsOK
  <2>8. IsSeq(<<>>) /\ Len(<<>>) = 0
    BY ListsNone
  <2>9. StackOK(stack', stmt', pulled', Sources, errors)
    BY <2>1, <2>8 DEF StackOK, Quiet
  <2>10. StmtOK(stmt', Sources)
    BY <2>1 DEF PullInv
  <2> QED
    BY <1>2, <1>3, <1>6, <2>7, <2>9, <2>10 DEF PullInv
<1>9. CASE k > 1
  <2>0. k # 1
    BY <1>4, <1>9
  <2>1. Deliver(m) /\ results' = results
    BY <2>0, Zenon DEF Return
  <2>2. stmt' = stmt \/ (stmt' = Reset(stmt) /\ EndsAttr(stack[k - 1]))
    <3>1. stmt' = IF EndsAttr(stack[k - 1]) THEN Reset(stmt) ELSE stmt
      BY <2>0, Zenon DEF Return
    <3>2. CASE EndsAttr(stack[k - 1])
      BY <3>1, <3>2
    <3>3. CASE ~EndsAttr(stack[k - 1])
      BY <3>1, <3>3
    <3> QED
      BY <3>2, <3>3
  <2>3. k - 2 < MaxPullDepth /\ (k - 2) + 1 = Depth
    BY <1>1, <1>4, PullAssumption DEF FrameOK
  <2>4. Delivered(m, Top, k - 2, pulled', errors)
    BY <1>5, <1>7, <2>3 DEF Delivered, ValueOK
  <2> HIDE DEF m, x
  <2>5. /\ StackOK(stack', stmt', pulled', Sources, errors)
        /\ StmtOK(stmt', Sources)
        /\ ResultsOK(stack', results, request, pulled')
    BY <1>5, <1>9, <2>1, <2>2, <2>4, DeliverKeeps
  <2> QED
    BY <1>2, <1>3, <1>6, <2>1, <2>5 DEF PullInv
<1> QED
  BY <1>4, <1>8, <1>9

LEMMA StatementFailsInv ==
    ASSUME TablesKeyed, CallsPlain, PullInv, StatementFails
    PROVE  PullInv'
<1> DEFINE w == [val |-> Top.e]
           k == Len(stack)
<1>1. /\ stack # <<>> /\ errors' = errors + 1
      /\ UNCHANGED <<Outside, results, pulled>>
  BY DEF StatementFails
<1>2. /\ current' = current /\ view' = view /\ request' = request
      /\ commits' = commits /\ instants' = instants /\ results' = results
      /\ pulled' = pulled
  BY <1>1 DEF Outside
<1>3. Sources' = Sources /\ SourcesOK' /\ errors' # 0
  BY <1>1, <1>2 DEF PullInv, SourcesOK, Sources
<1>4. k \in Nat /\ (k = 1 \/ k > 1) /\ (k > 1 => k # 1)
  <2>1. k \in Nat \ {0}
    BY <1>1, TopFacts
  <2> HIDE DEF k
  <2> QED
    BY <2>1
<1>5. AnswersOK(pulled, Sources, errors')
  <2>1. AnswersOK(pulled, Sources, errors)
    BY DEF PullInv
  <2>2. errors' = 0 => errors = 0
    BY <1>3
  <2>3. \A y \in pulled : AnswerOK(y, pulled, Sources, errors')
    BY <2>1, <2>2, MonoAnswers
  <2> QED
    BY <2>3 DEF AnswersOK
<1>6. CASE k = 1
  <2>1. stack' = <<>> /\ stmt' = Reset(stmt)
    BY <1>6 DEF StatementFails
  <2>2. IsSeq(<<>>) /\ Len(<<>>) = 0
    BY ListsNone
  <2>3. StackOK(stack', stmt', pulled, Sources, errors')
    BY <2>1, <2>2 DEF StackOK, Quiet
  <2>4. StmtOK(stmt', Sources)
    BY <2>1, StmtFacts DEF PullInv
  <2>5. ResultsOK(stack', results, request, pulled)
    BY <2>1 DEF PullInv, ResultsOK
  <2> QED
    BY <1>2, <1>3, <1>5, <2>3, <2>4, <2>5 DEF PullInv
<1>7. CASE k > 1
  <2>0. k # 1
    BY <1>4, <1>7
  <2> DEFINE B == Top.phase = "step" \/ EndsAttr(stack[k - 1])
  <2>1. Deliver(w) /\ stmt' = IF B THEN Reset(stmt) ELSE stmt
    <3>1. Deliver(w)
      BY <2>0, Zenon DEF StatementFails
    <3>2. stmt' = IF B THEN Reset(stmt) ELSE stmt
      BY <2>0, Zenon DEF StatementFails
    <3> QED
      BY <3>1, <3>2
  <2>2. \/ stmt' = stmt
        \/ stmt' = Reset(stmt) /\ EndsAttr(stack[k - 1])
        \/ stmt' = Reset(stmt) /\ Top.phase = "step"
    <3>1. CASE B
      BY <2>1, <3>1
    <3>2. CASE ~B
      BY <2>1, <3>2
    <3> QED
      BY <3>1, <3>2
  <2>3. ~IsEntity(w) /\ Of(w) = Top.e
    BY ValueFacts
  <2> HIDE DEF w
  <2>4. Delivered(w, Top, k - 2, pulled, errors')
    BY <1>3, <2>3 DEF Delivered, ValueOK
  <2>5. errors' = 0 => errors = 0
    BY <1>3
  <2>6. /\ StackOK(stack', stmt', pulled, Sources, errors')
        /\ StmtOK(stmt', Sources)
        /\ ResultsOK(stack', results, request, pulled)
    BY <1>7, <2>1, <2>2, <2>4, <2>5, DeliverKeeps
  <2> QED
    BY <1>2, <1>3, <1>5, <2>6 DEF PullInv
<1> QED
  BY <1>4, <1>6, <1>7

LEMMA NextInv ==
    ASSUME TablesKeyed, CallsPlain, PullInv, [Next]_vars
    PROVE  PullInv'
<1>1. CASE Commit
  BY <1>1, CommitInv
<1>2. CASE StatementFails
  BY <1>2, StatementFailsInv
<1>3. CASE Pull
  BY <1>3, PullStepInv
<1>4. CASE pullEntityFails
  BY <1>4, FailsInv
<1>5. CASE pullWildcard \/ pullWildcardTemporal
  BY <1>5, ReadWildcardInv DEF pullWildcard, pullWildcardTemporal
<1>6. CASE pullSpecific
  BY <1>6, BeginNamedInv DEF pullSpecific
<1>7. CASE pullSpecificTemporal
  BY <1>7, BeginNamedInv DEF pullSpecificTemporal
<1>8. CASE SkipUnknown
  BY <1>8, SkipUnknownInv
<1>9. CASE BindAttr
  BY <1>9, BindAttrInv
<1>10. CASE StepDone
  BY <1>10, StepDoneInv
<1>11. CASE StepRow
  BY <1>11, StepRowInv
<1>12. CASE WildcardRow
  BY <1>12, WildcardRowInv
<1>13. CASE Return
  BY <1>13, ReturnInv
<1>14. CASE UNCHANGED vars
  <2>1. UNCHANGED <<Own, results>> /\ stmt' = stmt /\ stack' = stack
    BY <1>14 DEF vars, Own, Outside
  <2>2. /\ StmtOK(stmt, Sources)
        /\ StackOK(stack, stmt, pulled, Sources, errors)
        /\ ResultsOK(stack, results, request, pulled)
    BY DEF PullInv
  <2> QED
    BY <2>1, <2>2, OwnStep
<1> QED
  BY <1>1, <1>2, <1>3, <1>4, <1>5, <1>6, <1>7, <1>8, <1>9, <1>10, <1>11, <1>12,
     <1>13, <1>14 DEF Next, Step

LEMMA PullInvHolds ==
    ASSUME TablesKeyed, CallsPlain
    PROVE  Spec => []PullInv
<1>1. Init => PullInv
  BY InitInv
<1>2. PullInv /\ [Next]_vars => PullInv'
  BY NextInv
<1> QED
  BY <1>1, <1>2, PTL DEF Spec

-----------------------------------------------------------------------------
\* Commits between the statements of a pull never show inside what one statement
\* read, however calls of pullEntity nest, fail and share the statement: every
\* list of values, and every entity of a wildcard, was complete at one instant.
THEOREM ListsAlwaysInstants ==
    ASSUME TablesKeyed, CallsPlain
    PROVE  Spec => []ListsAreInstants
<1>1. PullInv => ListsAreInstants
  <2> SUFFICES ASSUME PullInv
               PROVE  ListsAreInstants
    OBVIOUS
  <2>1. \A i \in 1..Len(results) : Answer(results[i], request.pattern, 0) \in pulled
    BY DEF PullInv, ResultsOK
  <2>2. DOMAIN results = 1..Len(results)
    BY SeqFacts DEF PullInv, ResultsOK
  <2>3. \A x \in pulled : Sound(x, pulled) /\ FromInstants(x, Sources)
    BY DEF PullInv, AnswersOK, AnswerOK
  <2> QED
    BY <2>1, <2>2, <2>3 DEF ListsAreInstants
<1>2. Spec => []PullInv
  BY PullInvHolds
<1> QED
  BY <1>1, <1>2, PTL

\* Pull and PullMany answer exactly what the table (or the view) holds and the
\* pattern asks for, to the depth limit, when nobody commits meanwhile and no
\* statement fails.
THEOREM PullAlwaysExact ==
    ASSUME TablesKeyed, CallsPlain
    PROVE  Spec => []PullIsExact
<1>1. PullInv => PullIsExact
  <2> DEFINE T == IF view = NoView THEN current ELSE view
  <2> SUFFICES ASSUME PullInv, errors = 0, view # NoView \/ commits = 0
               PROVE  /\ \A i \in DOMAIN results :
                            /\ results[i].id = request.eids[i]
                            /\ Answer(results[i], request.pattern, 0) \in pulled
                      /\ \A x \in pulled :
                            /\ Sound(x, pulled) /\ Deep(x)
                            /\ \A q \in Asked(x.pat) : Shows(x, q, T)
    BY DEF PullIsExact
  <2>1. \A i \in 1..Len(results) :
            /\ results[i].id = request.eids[i]
            /\ Answer(results[i], request.pattern, 0) \in pulled
    BY DEF PullInv, ResultsOK
  <2>2. DOMAIN results = 1..Len(results)
    BY SeqFacts DEF PullInv, ResultsOK
  <2>3. Sources = {T}
    BY DEF PullInv, SourcesOK, Sources
  <2> HIDE DEF T
  <2>4. ASSUME NEW x \in pulled
        PROVE  /\ Sound(x, pulled) /\ Deep(x)
               /\ \A q \in Asked(x.pat) : Shows(x, q, T)
    <3>1. Sound(x, pulled) /\ FromInstants(x, {T}) /\ Deep(x)
      BY <2>3 DEF PullInv, AnswersOK, AnswerOK
    <3>2. \A q \in Asked(x.pat) : Shows(x, q, T)
      BY <3>1 DEF FromInstants
    <3> QED
      BY <3>1, <3>2
  <2> QED
    BY <2>1, <2>2, <2>4
<1>2. Spec => []PullInv
  BY PullInvHolds
<1> QED
  BY <1>1, <1>2, PTL
=============================================================================
