-------------------------------- MODULE EDN ---------------------------------
(***************************************************************************)
(* The EDN reader (edn/parser.go): Parse reads one value from a sequence   *)
(* of tokens. Recursion of readNode and readUntil is a stack of open       *)
(* collections. A token is <<type, text>>; how the lexer finds them in     *)
(* characters is left out. A node is [type, value, children].              *)
(***************************************************************************)
EXTENDS Naturals, Sequences, SequencesExt

CONSTANTS
    Keywords,       \* the spellings that begin with a colon
    Variables,      \* the spellings that begin with a question mark
    Integers64,     \* the spellings strconv.ParseInt accepts
    Floats64        \* the further spellings strconv.ParseFloat accepts

ASSUME SpellingAssumption ==
    /\ Keywords \cap Variables = {}
    /\ (Integers64 \cup Floats64) \cap (Keywords \cup Variables) = {}

VARIABLES
    tokens,     \* the input
    pos,        \* the next token
    stack,      \* collections being read, the innermost last
    node,       \* the value read, once there is one
    reading     \* "reading", "read" or "failed"

reader == <<tokens, pos, stack, node, reading>>

-----------------------------------------------------------------------------
Atom(text) == <<"Atom", text>>
Text(text) == <<"String", text>>
Punct(text) == <<"Punct", text>>

Node(type, value, children) ==
    [type |-> type, value |-> value, children |-> children]

NoNode == Node("none", "", <<>>)

\* The delimiters of each collection.
Opening == [List |-> <<Punct("(")>>, Vector |-> <<Punct("[")>>,
            Map |-> <<Punct("{")>>, Set |-> <<Punct("#"), Punct("{")>>]
Closing == [List |-> Punct(")"), Vector |-> Punct("]"),
            Map |-> Punct("}"), Set |-> Punct("}")]

\* The first kind of atom that fits, in the order they are tried.
classifyAtom(v) ==
    Node(IF v = "nil" THEN "Nil"
         ELSE IF v \in {"true", "false"} THEN "Bool"
         ELSE IF v \in Keywords THEN "Keyword"
         ELSE IF v \in Integers64 THEN "Int"
         ELSE IF v \in Floats64 THEN "Float"
         ELSE "Symbol", v, <<>>)

-----------------------------------------------------------------------------
More == reading = "reading" /\ pos <= Len(tokens)
Tok == tokens[pos]
At(delimiter) == IsPrefix(delimiter, SubSeq(tokens, pos, Len(tokens)))

ReaderInit(input) ==
    /\ tokens = input
    /\ pos = 1 /\ stack = <<>> /\ node = NoNode /\ reading = "reading"

\* readNode returns n, to the collection around it or to the caller of Parse,
\* which does not look at what follows.
Deliver(n, below) ==
    IF below = <<>>
    THEN node' = n /\ reading' = "read" /\ stack' = <<>>
    ELSE /\ stack' = [below EXCEPT ![Len(below)].children = Append(@, n)]
         /\ UNCHANGED <<node, reading>>

ReadAtom ==
    /\ More
    /\ Tok[1] \in {"Atom", "String"}
    /\ pos' = pos + 1
    /\ Deliver(IF Tok[1] = "Atom" THEN classifyAtom(Tok[2])
               ELSE Node("String", Tok[2], <<>>), stack)
    /\ UNCHANGED tokens

Open ==
    /\ More
    /\ \E kind \in DOMAIN Opening :
          /\ At(Opening[kind])
          /\ pos' = pos + Len(Opening[kind])
          /\ stack' = Append(stack, Node(kind, "", <<>>))
    /\ UNCHANGED <<tokens, node, reading>>

\* Mutant: any closing delimiter ends the innermost collection.
MutEndsAny(tok, kind) == tok \in {Closing[k] : k \in DOMAIN Closing}

\* The delimiter that ends a collection, the peek of readUntil.
Ends(tok, kind) == tok = Closing[kind]

AtClosing == stack # <<>> /\ More /\ Ends(Tok, Last(stack).type)

\* A map has a value for each key.
OddMap == Last(stack).type = "Map" /\ Len(Last(stack).children) % 2 # 0

Close ==
    /\ AtClosing
    /\ ~OddMap
    /\ pos' = pos + 1
    /\ Deliver(Last(stack), Front(stack))
    /\ UNCHANGED tokens

\* The input ends, a delimiter closes nothing or the wrong thing, a # does not
\* open a set, a key has no value.
ReadFails ==
    /\ reading = "reading"
    /\ \/ pos > Len(tokens)
       \/ /\ More
          /\ Tok[1] = "Punct"
          /\ \A kind \in DOMAIN Opening : ~At(Opening[kind])
          /\ ~AtClosing
       \/ AtClosing /\ OddMap
    /\ reading' = "failed"
    /\ UNCHANGED <<tokens, pos, stack, node>>

Read == ReadAtom \/ Open \/ Close \/ ReadFails

-----------------------------------------------------------------------------
(***************************************************************************)
(* The grammar the reader is checked against.                              *)
(***************************************************************************)
RECURSIVE Printed(_)
Printed(n) ==
    IF n.type \in DOMAIN Opening
    THEN Opening[n.type]
         \o FlattenSeq([i \in DOMAIN n.children |-> Printed(n.children[i])])
         \o <<Closing[n.type]>>
    ELSE IF n.type = "String" THEN <<Text(n.value)>> ELSE <<Atom(n.value)>>

\* ts is one value; the numbers of values ts can be split into.
RECURSIVE IsValue(_), Counts(_)
IsValue(ts) ==
    \/ Len(ts) = 1 /\ ts[1][1] # "Punct"
    \/ \E kind \in DOMAIN Opening :
          LET k == Len(Opening[kind])
              inner == SubSeq(ts, k + 1, Len(ts) - 1)
          IN  /\ Len(ts) > k
              /\ SubSeq(ts, 1, k) = Opening[kind]
              /\ Last(ts) = Closing[kind]
              /\ \E n \in Counts(inner) : kind = "Map" => n % 2 = 0
Counts(ts) ==
    IF ts = <<>> THEN {0}
    ELSE UNION {{n + 1 : n \in Counts(SubSeq(ts, i + 1, Len(ts)))} :
                   i \in {j \in 1..Len(ts) : IsValue(SubSeq(ts, 1, j))}}

\* Parse returns the value the tokens begin with, whatever follows it, with
\* every token in its place; and it fails only when they begin with none.
ReadsWhatIsThere ==
    /\ reading = "read" =>
          Printed(node) = SubSeq(tokens, 1, pos - 1)
    /\ reading = "failed" =>
          \A i \in 1..Len(tokens) : ~IsValue(SubSeq(tokens, 1, i))
=============================================================================
