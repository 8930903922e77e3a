------------------------------- MODULE Values -------------------------------
(***************************************************************************)
(* The value encodings of values.go. A 64-bit word is modelled at a width  *)
(* given by Half = 2^(w-1); the blob of an integer, a float or an instant  *)
(* is the big-endian word, so blobs compare as words do. Strings and byte  *)
(* slices are their own blobs.                                             *)
(***************************************************************************)
EXTENDS Integers

CONSTANTS
    Half,       \* 2^63 in the code
    NsPerMs,    \* 10^6 in the code
    Texts       \* strings and byte slices

ASSUME WidthAssumption == Half \in Nat \ {0} /\ NsPerMs \in Nat \ {0}

Word == 0..(2 * Half - 1)
Int64 == (-Half)..(Half - 1)

\* Mutants: the sign is dropped, or is the last bit (as binary.PutVarint has it).
MutEncodeInt64Magnitude(n) == IF n < 0 THEN -n ELSE n
MutEncodeInt64Zigzag(n) == IF n < 0 THEN -2 * n - 1 ELSE 2 * n

\* uint64(n), and back.
encodeInt64(n) == IF n < 0 THEN n + 2 * Half ELSE n
decodeInt64(w) == IF w < Half THEN w ELSE w - 2 * Half

\* Mutant: the bits of negative floats are not complemented.
MutEncodeFloat64FlipSign(bits) ==
    IF bits >= Half THEN bits - Half ELSE bits + Half

\* The sign bit is bits >= Half; ^bits is 2 * Half - 1 - bits.
encodeFloat64(bits) ==
    IF bits >= Half THEN 2 * Half - 1 - bits ELSE bits + Half
decodeFloat64(w) == IF w >= Half THEN w - Half ELSE 2 * Half - 1 - w

\* A number ordered as the float with these bits is: the magnitude is monotone in
\* the bits below the sign, and both zeros are 0.
FloatValue(bits) == IF bits < Half THEN bits ELSE Half - bits

-----------------------------------------------------------------------------
Types == {"int", "ref", "string", "float", "bool", "bytes", "inst"}

\* Go values by dynamic type; a time is in nanoseconds
\* from 1970, either way.
GoValue ==
    [go : {"int64", "int"}, x : Int64] \cup [go : {"float64"}, x : Word]
        \cup [go : {"bool"}, x : BOOLEAN] \cup [go : {"string", "[]byte"}, x : Texts]
        \cup [go : {"time"}, x : (-Half * NsPerMs)..(Half * NsPerMs - 1)]

\* Mutant: int is not accepted.
MutAcceptedNoInt == [int |-> {"int64"}, ref |-> {"int64"}, string |-> {"string"},
    float |-> {"float64"}, bool |-> {"bool"}, bytes |-> {"[]byte"}, inst |-> {"time"}]

\* The dynamic types encodeValue accepts for a declared type.
Accepted == [int |-> {"int64", "int"}, ref |-> {"int64", "int"},
    string |-> {"string"}, float |-> {"float64"}, bool |-> {"bool"},
    bytes |-> {"[]byte"}, inst |-> {"time"}]

\* The blob of v, if encodeValue returns no error.
encodeValue(v, t) ==
    IF v.go \notin Accepted[t] THEN {}
    ELSE {CASE t \in {"int", "ref"} -> encodeInt64(v.x)
            [] t = "float" -> encodeFloat64(v.x)
            [] t = "bool" -> IF v.x THEN 1 ELSE 0
            [] t = "inst" -> encodeInt64(v.x \div NsPerMs)
            [] OTHER -> v.x}

decodeValue(b, t) ==
    CASE t \in {"int", "ref"} -> [go |-> "int64", x |-> decodeInt64(b)]
      [] t = "float" -> [go |-> "float64", x |-> decodeFloat64(b)]
      [] t = "bool" -> [go |-> "bool", x |-> b # 0]
      [] t = "inst" -> [go |-> "time", x |-> decodeInt64(b) * NsPerMs]
      [] t = "string" -> [go |-> "string", x |-> b]
      [] t = "bytes" -> [go |-> "[]byte", x |-> b]

inferValueType(v) ==
    CASE v.go \in {"int64", "int"} -> "int"
      [] v.go = "float64" -> "float"
      [] v.go = "bool" -> "bool"
      [] v.go = "string" -> "string"
      [] v.go = "[]byte" -> "bytes"
      [] v.go = "time" -> "inst"

-----------------------------------------------------------------------------
\* Two values a caller may store under one attribute, and its type.
VARIABLES u, v, vtype

vars == <<u, v, vtype>>

Init == u \in GoValue /\ v \in GoValue /\ vtype \in Types
Next == v' \in GoValue /\ UNCHANGED <<u, vtype>>
Spec == Init /\ [][Next]_vars

\* What a value is once stored: an int64, or a time in whole milliseconds.
Stored(val) ==
    CASE val.go \in {"int64", "int"} -> [go |-> "int64", x |-> val.x]
      [] val.go = "time" ->
            [go |-> "time", x |-> (val.x \div NsPerMs) * NsPerMs]
      [] OTHER -> val

\* decodeValue gives back what encodeValue stored, at both ends of the range.
RoundTrip ==
    \A b \in encodeValue(v, vtype) : decodeValue(b, vtype) = Stored(v)

\* The integer in a value's blob: of a time, its milliseconds.
Whole(val) == IF val.go = "time" THEN val.x \div NsPerMs ELSE val.x

\* How SQLite, which compares blobs byte by byte, orders integers, references and
\* instants stored by encodeInt64: as numbers among those of one sign, but every
\* negative one after every other, since the sign bit is the first bit.
IntOrderBySign ==
    vtype \in {"int", "ref", "inst"} =>
        \A a \in encodeValue(u, vtype), b \in encodeValue(v, vtype) :
            LET m == Whole(u)
                n == Whole(v)
            IN  a < b <=> IF (m < 0) = (n < 0) THEN m < n ELSE n < 0

\* The blobs of floats are ordered as the floats are, across the signs.
FloatOrderKept ==
    u.go = "float64" /\ v.go = "float64" /\ FloatValue(u.x) < FloatValue(v.x)
        => encodeFloat64(u.x) < encodeFloat64(v.x)

\* A value can be encoded under the type inferValueType gives it.
InferredEncodes == encodeValue(v, inferValueType(v)) # {}

\* The comparison of blobs is the comparison of floats, equality included.
FloatOrderMatches ==
    u.go = "float64" /\ v.go = "float64" =>
        (FloatValue(u.x) < FloatValue(v.x)
            <=> encodeFloat64(u.x) < encodeFloat64(v.x))

\* The comparison of blobs is the comparison of integers.
IntOrderMatches ==
    u.go = "int64" /\ v.go = "int64" =>
        (u.x < v.x <=> encodeInt64(u.x) < encodeInt64(v.x))
=============================================================================
