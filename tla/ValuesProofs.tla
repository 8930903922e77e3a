---------------------------- MODULE ValuesProofs ----------------------------
(***************************************************************************)
(* Facts about the encodings of values.go at any width.                    *)
(***************************************************************************)
EXTENDS Values, TLAPS

\* int64 survives encodeInt64 and decodeInt64.
LEMMA Int64RoundTrip ==
    ASSUME NEW n \in Int64
    PROVE  encodeInt64(n) \in Word /\ decodeInt64(encodeInt64(n)) = n
BY WidthAssumption DEF Int64, Word, encodeInt64, decodeInt64

\* float64 bits survive encodeFloat64 and decodeFloat64.
LEMMA Float64RoundTrip ==
    ASSUME NEW bits \in Word
    PROVE  encodeFloat64(bits) \in Word /\ decodeFloat64(encodeFloat64(bits)) = bits
BY WidthAssumption DEF Word, encodeFloat64, decodeFloat64

\* Smaller floats have smaller blobs.
LEMMA FloatMonotone ==
    ASSUME NEW x \in Word, NEW y \in Word, FloatValue(x) < FloatValue(y)
    PROVE  encodeFloat64(x) < encodeFloat64(y)
BY WidthAssumption DEF Word, encodeFloat64, FloatValue

\* The values each dynamic type holds.
LEMMA GoTyped ==
    ASSUME NEW val \in GoValue
    PROVE  /\ val.go \in {"int64", "int", "float64", "bool", "string", "[]byte", "time"}
           /\ val.go \in {"int64", "int"} => val.x \in Int64
           /\ val.go = "float64" => val.x \in Word
           /\ val.go = "bool" => val.x \in BOOLEAN
           /\ val.go = "time" => val.x \in (-Half * NsPerMs)..(Half * NsPerMs - 1)
           /\ val = [go |-> val.go, x |-> val.x]
BY DEF GoValue

\* UnixMilli of a time in range is an int64.
LEMMA MillisInRange ==
    ASSUME NEW x \in (-Half * NsPerMs)..(Half * NsPerMs - 1)
    PROVE  x \div NsPerMs \in Int64
<1> DEFINE q == x \div NsPerMs
<1>1. /\ q \in Int /\ Half \in Nat /\ NsPerMs \in Nat \ {0} /\ x \in Int
      /\ -Half * NsPerMs <= x /\ x < Half * NsPerMs
      /\ q * NsPerMs <= x /\ x < (q + 1) * NsPerMs
  BY WidthAssumption
<1> HIDE DEF q
<1>2. ASSUME NEW m \in Int, NEW n \in Int, m < n
      PROVE  (m + 1) * NsPerMs <= n * NsPerMs
  BY <1>1, <1>2
<1>3. q < Half
  BY <1>1, <1>2
<1>4. -Half <= q
  BY <1>1, <1>2
<1> QED
  BY <1>1, <1>3, <1>4 DEF Int64, q

-----------------------------------------------------------------------------
\* What encodeValue writes under a declared type, decodeValue reads back as the
\* value the type can hold.
LEMMA DecodeEncode ==
    ASSUME NEW val \in GoValue, NEW t \in Types, NEW b \in encodeValue(val, t)
    PROVE  decodeValue(b, t) = Stored(val)
<1>1. val.go \in Accepted[t]
  BY DEF encodeValue
<1>2. CASE t \in {"int", "ref"}
  <2>1. val.go \in {"int64", "int"} /\ val.x \in Int64
    BY <1>1, <1>2, GoTyped DEF Accepted
  <2>2. b = encodeInt64(val.x)
    BY <1>1, <1>2 DEF encodeValue
  <2> QED
    BY <1>2, <2>1, <2>2, Int64RoundTrip DEF decodeValue, Stored
<1>3. CASE t = "float"
  <2>1. val.go = "float64" /\ val.x \in Word
    BY <1>1, <1>3, GoTyped DEF Accepted
  <2>2. b = encodeFloat64(val.x)
    BY <1>1, <1>3 DEF encodeValue
  <2>3. decodeValue(b, t) = [go |-> "float64", x |-> val.x]
    BY <1>3, <2>1, <2>2, Float64RoundTrip DEF decodeValue
  <2> QED
    BY <2>1, <2>3, GoTyped DEF Stored
<1>4. CASE t = "bool"
  <2>1. val.go = "bool" /\ val.x \in BOOLEAN
    BY <1>1, <1>4, GoTyped DEF Accepted
  <2>2. b = IF val.x THEN 1 ELSE 0
    BY <1>1, <1>4 DEF encodeValue
  <2>3. decodeValue(b, t) = [go |-> "bool", x |-> b # 0]
    BY <1>4 DEF decodeValue
  <2>4. (b # 0) = val.x
    BY <2>1, <2>2
  <2> QED
    BY <2>1, <2>3, <2>4, GoTyped DEF Stored
<1>5. CASE t = "inst"
  <2>1. val.go = "time" /\ val.x \in (-Half * NsPerMs)..(Half * NsPerMs - 1)
    BY <1>1, <1>5, GoTyped DEF Accepted
  <2>2. b = encodeInt64(val.x \div NsPerMs)
    BY <1>1, <1>5 DEF encodeValue
  <2>3. decodeInt64(b) = val.x \div NsPerMs
    BY <2>1, <2>2, MillisInRange, Int64RoundTrip
  <2> QED
    BY <1>5, <2>1, <2>3 DEF decodeValue, Stored
<1>6. CASE t \in {"string", "bytes"}
  <2>1. val.go = (IF t = "string" THEN "string" ELSE "[]byte")
    BY <1>1, <1>6 DEF Accepted
  <2>2. b = val.x
    BY <1>1, <1>6 DEF encodeValue
  <2>3. decodeValue(b, t) = [go |-> val.go, x |-> val.x]
    BY <1>6, <2>1, <2>2 DEF decodeValue
  <2> QED
    BY <2>1, <2>3, GoTyped DEF Stored
<1> QED
  BY <1>2, <1>3, <1>4, <1>5, <1>6 DEF Types

\* The values and the type of the specification stay what they are.
LEMMA ValuesTyped == Spec => [](u \in GoValue /\ v \in GoValue /\ vtype \in Types)
<1> DEFINE Inv == u \in GoValue /\ v \in GoValue /\ vtype \in Types
<1>1. Init => Inv
  BY DEF Init
<1>2. Inv /\ [Next]_vars => Inv'
  BY DEF Next, vars
<1> QED
  BY <1>1, <1>2, PTL DEF Spec

\* decodeValue gives back every value encodeValue accepts, at every width: both
\* ends of int64, both signs of a float, times before 1970.
THEOREM RoundTripAlways == Spec => []RoundTrip
<1>1. u \in GoValue /\ v \in GoValue /\ vtype \in Types => RoundTrip
  BY DecodeEncode DEF RoundTrip
<1> QED
  BY <1>1, ValuesTyped, PTL

\* At every width the blobs of integers, references and instants are ordered as
\* the numbers are within a sign, and against them across the signs.
THEOREM IntOrderAlways == Spec => []IntOrderBySign
<1>1. ASSUME NEW m \in Int64, NEW n \in Int64
      PROVE  encodeInt64(m) < encodeInt64(n)
                 <=> IF (m < 0) = (n < 0) THEN m < n ELSE n < 0
  <2>1. CASE m < 0 /\ n < 0
    BY <2>1, WidthAssumption DEF Int64, encodeInt64
  <2>2. CASE m < 0 /\ ~(n < 0)
    BY <2>2, WidthAssumption DEF Int64, encodeInt64
  <2>3. CASE ~(m < 0) /\ n < 0
    BY <2>3, WidthAssumption DEF Int64, encodeInt64
  <2>4. CASE ~(m < 0) /\ ~(n < 0)
    BY <2>4, WidthAssumption DEF Int64, encodeInt64
  <2> QED
    BY <2>1, <2>2, <2>3, <2>4
<1>2. ASSUME NEW val \in GoValue, NEW t \in {"int", "ref", "inst"},
             NEW b \in encodeValue(val, t)
      PROVE  Whole(val) \in Int64 /\ b = encodeInt64(Whole(val))
  <2>1. val.go \in Accepted[t]
    BY DEF encodeValue
  <2>2. CASE t = "inst"
    <3>1. val.go = "time"
      BY <2>1, <2>2 DEF Accepted
    <3> QED
      BY <2>1, <2>2, <3>1, GoTyped, MillisInRange DEF Whole, encodeValue
  <2>3. CASE t \in {"int", "ref"}
    <3>1. val.go \in {"int64", "int"}
      BY <2>1, <2>3 DEF Accepted
    <3> QED
      BY <2>1, <2>3, <3>1, GoTyped DEF Whole, encodeValue
  <2> QED
    BY <2>2, <2>3
<1>3. u \in GoValue /\ v \in GoValue /\ vtype \in Types => IntOrderBySign
  <2> SUFFICES ASSUME u \in GoValue, v \in GoValue,
                      vtype \in {"int", "ref", "inst"},
                      NEW a \in encodeValue(u, vtype),
                      NEW b \in encodeValue(v, vtype)
               PROVE  a < b <=> IF (Whole(u) < 0) = (Whole(v) < 0)
                                  THEN Whole(u) < Whole(v) ELSE Whole(v) < 0
    BY DEF IntOrderBySign
  <2>1. /\ Whole(u) \in Int64 /\ a = encodeInt64(Whole(u))
        /\ Whole(v) \in Int64 /\ b = encodeInt64(Whole(v))
    BY <1>2
  <2> QED
    BY <1>1, <2>1
<1> QED
  BY <1>3, ValuesTyped, PTL

\* encodeValue accepts what inferValueType says of a value, for every Go value.
THEOREM InferredAlwaysEncodes == Spec => []InferredEncodes
<1>1. u \in GoValue /\ v \in GoValue /\ vtype \in Types => InferredEncodes
  <2> SUFFICES ASSUME v \in GoValue PROVE v.go \in Accepted[inferValueType(v)]
    BY DEF InferredEncodes, encodeValue
  <2> QED
    BY GoTyped DEF inferValueType, Accepted
<1> QED
  BY <1>1, ValuesTyped, PTL

\* encodeFloat64 keeps the order of floats at every width, across the signs.
THEOREM FloatOrderAlways == Spec => []FloatOrderKept
<1>1. u \in GoValue /\ v \in GoValue /\ vtype \in Types => FloatOrderKept
  BY GoTyped, FloatMonotone DEF FloatOrderKept
<1> QED
  BY <1>1, ValuesTyped, PTL
=============================================================================
