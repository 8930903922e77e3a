---------------------------- MODULE MCRecursive ----------------------------
(***************************************************************************)
(* Instances of Recursive for TLC: three entities, one attribute whose     *)
(* values are references, and up to three datoms.                          *)
(***************************************************************************)
EXTENDS Recursive, FiniteSetsExt

Var(name) == [kind |-> "var", x |-> name]
Const(n) == [kind |-> "const", x |-> n]
Blank == [kind |-> "blank"]

Parent == 1
Pattern(e, v) == [kind |-> "pattern", args |-> <<Const(Parent), e, v, Blank>>]
App(n, args) == [kind |-> "rule", name |-> n, args |-> args]
Expr(f, p, q) == [kind |-> "expr", fn |-> f, args |-> <<p, q>>]
Rule(n, head, body) == [name |-> n, head |-> head, body |-> body]

X == Var("x")
Y == Var("y")
Z == Var("z")

MCDom == 1..3
MCDatoms == [e : MCDom, a : {Parent}, v : MCDom, tx : {1}]
MCDatabases == UNION {kSubset(k, MCDatoms) : k \in 0..3}

\* Enough datoms for two pairs of siblings that share a member.
MCChains == kSubset(4, MCDatoms)

\* Two entities with one parent; a chain of such pairs.
Sibling == Rule("sibling", <<X, Y>>, <<Pattern(X, Z), Pattern(Y, Z)>>)
Linked == Rule("sibling", <<X, Y>>,
               <<App("sibling", <<X, Z>>), App("sibling", <<Z, Y>>)>>)
Child == Rule("child", <<X>>, <<Pattern(X, Blank)>>)
Elder == Rule("elder", <<X, Y>>,
              <<Pattern(X, Z), Pattern(Y, Z), Expr("<", X, Y)>>)

\* The rules of the README: a parent, and a parent's ancestor.
Direct == Rule("ancestor", <<X, Y>>, <<Pattern(X, Y)>>)
Ancestor == Rule("ancestor", <<X, Y>>,
                 <<Pattern(X, Z), App("ancestor", <<Z, Y>>)>>)
Grand == Rule("grand", <<X, Y>>, <<Pattern(X, Z), Pattern(Z, Y)>>)
Younger == Rule("younger", <<X, Y>>, <<Pattern(X, Y), Expr("<", Y, X)>>)
NoOther == Rule("noother", <<X>>, <<Pattern(X, Blank), Expr("!=", X, Blank)>>)
OfTwo == Rule("oftwo", <<X>>, <<Pattern(Const(2), Z), Pattern(X, Z)>>)

\* Mutual recursion through two names.
Even == Rule("even", <<X, Y>>, <<App("sibling", <<X, Z>>), App("odd", <<Z, Y>>)>>)
Odd == Rule("odd", <<X, Y>>, <<App("even", <<X, Y>>)>>)

\* What PlanRecursive refuses.
Refused == {<<>>, <<Child, Rule("child", <<X, Y>>, <<Pattern(X, Y)>>)>>,
            <<Rule("r", <<X>>, <<Pattern(Y, Z)>>)>>,
            <<Rule("r", <<X>>, <<App("s", <<X>>)>>)>>,
            <<Rule("r", <<Y>>, <<Expr("<", X, Y), Pattern(X, Y)>>)>>,
            <<Rule("r", <<X>>, <<Pattern(X, Y), [kind |-> "not", args |-> <<>>]>>)>>}

\* These, and rule sets of every shape whose plans are run.
RuleBases ==
    Refused \cup {<<Sibling>>, <<Child, Elder>>, <<Sibling, Child>>, <<OfTwo>>,
                  <<Sibling, Linked>>, <<Direct, Ancestor>>,
                  <<Sibling, Even, Odd>>, <<Grand, Linked, Sibling>>,
                  <<Younger>>, <<NoOther>>}

\* Rule sets whose results are no fixpoint: recursion, a value that is an entity,
\* a value compared with an entity, a constant in the head.
ChainRules == {<<Sibling, Linked>>}
GrandRules == {<<Grand>>}
FilterRules == {<<Younger>>}
HeadRules == {<<Rule("tagged", <<X, Const(2)>>, <<Pattern(X, Blank)>>)>>}
=============================================================================
