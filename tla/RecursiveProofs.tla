-------------------------- MODULE RecursiveProofs --------------------------
(***************************************************************************)
(* Proofs about the plans of PlanRecursive, for any rules and datoms.      *)
(***************************************************************************)
EXTENDS Recursive, FiniteSetTheorems, SequenceTheorems, TLAPS

-----------------------------------------------------------------------------
(***************************************************************************)
(* The order of statements and placeholders: Listing(S) holds the pairs of *)
(* S and no others. A pair's rank is the number of those before it, and no *)
(* two pairs have one rank.                                                *)
(***************************************************************************)
Below(S, s) == {u \in S : Before(u, s)}
Rank(S, s) == Cardinality(Below(S, s))

LEMMA RankFacts ==
    ASSUME NEW S, IsFiniteSet(S), S \subseteq Nat \X Nat
    PROVE  /\ \A s \in S : Rank(S, s) \in 0..(Cardinality(S) - 1)
           /\ \A s, u \in S : Rank(S, s) = Rank(S, u) => s = u
<1>1. Cardinality(S) \in Nat
  BY FS_CardinalityType
<1>2. \A s \in S : IsFiniteSet(Below(S, s)) /\ Rank(S, s) \in Nat
  <2> SUFFICES ASSUME NEW s \in S
               PROVE  IsFiniteSet(Below(S, s)) /\ Rank(S, s) \in Nat
    OBVIOUS
  <2>1. Below(S, s) \in SUBSET S
    BY DEF Below
  <2> QED
    BY <2>1, FS_Subset, FS_CardinalityType DEF Rank
<1>3. \A s \in S : Rank(S, s) < Cardinality(S)
  <2> SUFFICES ASSUME NEW s \in S
               PROVE  Rank(S, s) < Cardinality(S)
    OBVIOUS
  <2>1. Below(S, s) \in SUBSET S
    BY DEF Below
  <2>2. s[1] \in Nat /\ s[2] \in Nat
    OBVIOUS
  <2>3. s \notin Below(S, s)
    BY <2>2 DEF Below, Before
  <2>4. Below(S, s) # S
    BY <2>3
  <2>5. Cardinality(Below(S, s)) <= Cardinality(S) /\ Cardinality(S) # Cardinality(Below(S, s))
    BY <2>1, <2>4, FS_Subset
  <2> QED
    BY <2>5, <1>1, <1>2 DEF Rank
<1>4. ASSUME NEW s \in S, NEW u \in S, Before(s, u)
      PROVE  Rank(S, s) < Rank(S, u)
  <2>1. s[1] \in Nat /\ s[2] \in Nat /\ u[1] \in Nat /\ u[2] \in Nat
    OBVIOUS
  <2>2. ASSUME NEW w \in S, Before(w, s)
        PROVE  Before(w, u)
    <3>1. w[1] \in Nat /\ w[2] \in Nat
      OBVIOUS
    <3> QED
      BY <2>1, <2>2, <3>1, <1>4 DEF Before
  <2>3. Below(S, s) \in SUBSET Below(S, u)
    BY <2>2 DEF Below
  <2>4. s \in Below(S, u) /\ s \notin Below(S, s)
    BY <2>1, <1>4 DEF Below, Before
  <2>5. Below(S, s) # Below(S, u)
    BY <2>4
  <2>6. /\ Cardinality(Below(S, s)) <= Cardinality(Below(S, u))
        /\ Cardinality(Below(S, u)) # Cardinality(Below(S, s))
    BY <2>3, <2>5, <1>2, FS_Subset
  <2> QED
    BY <2>6, <1>2 DEF Rank
<1>5. ASSUME NEW s \in S, NEW u \in S, s # u
      PROVE  Before(s, u) \/ Before(u, s)
  <2>1. s[1] \in Nat /\ s[2] \in Nat /\ u[1] \in Nat /\ u[2] \in Nat
    OBVIOUS
  <2>2. s = <<s[1], s[2]>> /\ u = <<u[1], u[2]>>
    OBVIOUS
  <2>3. s[1] # u[1] \/ s[2] # u[2]
    BY <2>2, <1>5
  <2> QED
    BY <2>1, <2>3 DEF Before
<1>6. \A s, u \in S : Rank(S, s) = Rank(S, u) => s = u
  BY <1>2, <1>4, <1>5
<1> QED
  BY <1>1, <1>2, <1>3, <1>6

LEMMA RankOnto ==
    ASSUME NEW S, IsFiniteSet(S), S \subseteq Nat \X Nat,
           NEW n \in 1..Cardinality(S)
    PROVE  \E s \in S : Rank(S, s) = n - 1
<1> DEFINE f == [s \in S |-> Rank(S, s)]
           T == 0..(Cardinality(S) - 1)
<1>1. Cardinality(S) \in Nat
  BY FS_CardinalityType
<1>2. f \in Injection(S, T)
  <2>1. f \in [S -> T]
    BY RankFacts
  <2>2. ASSUME NEW s \in S, NEW u \in S, f[s] = f[u]
        PROVE  s = u
    BY <2>2, RankFacts
  <2>3. IsInjective(f)
    BY <2>1, <2>2 DEF IsInjective
  <2> QED
    BY <2>1, <2>3 DEF Injection
<1>3. IsFiniteSet(T) /\ Cardinality(T) = Cardinality(S)
  <2>1. ASSUME NEW m \in Nat
        PROVE  IsFiniteSet(0..(m - 1)) /\ Cardinality(0..(m - 1)) = m
    <3>1. 0 \in Int /\ m - 1 \in Int
      OBVIOUS
    <3>2. /\ IsFiniteSet(0..(m - 1))
          /\ Cardinality(0..(m - 1)) = IF 0 > m - 1 THEN 0 ELSE (m - 1) - 0 + 1
      BY <3>1, FS_Interval
    <3> QED
      BY <3>2
  <2> QED
    BY <1>1, <2>1
<1>4. f \in Surjection(S, T)
  BY <1>2, <1>3, FS_Injection
<1>5. n - 1 \in T
  BY <1>1
<1> QED
  BY <1>4, <1>5 DEF Surjection

LEMMA ListingFacts ==
    ASSUME NEW S, IsFiniteSet(S), S \subseteq Nat \X Nat
    PROVE  /\ Listing(S) \in Seq(S)
           /\ Len(Listing(S)) = Cardinality(S)
           /\ \A s \in S : \E k \in 1..Len(Listing(S)) : Listing(S)[k] = s
<1>1. Cardinality(S) \in Nat
  BY FS_CardinalityType
<1>2. ASSUME NEW n \in 1..Cardinality(S)
      PROVE  Nth(S, n) \in S /\ Rank(S, Nth(S, n)) = n - 1
  BY RankOnto DEF Nth, Rank, Below
<1>3. Listing(S) \in Seq(S) /\ Len(Listing(S)) = Cardinality(S)
  BY <1>1, <1>2 DEF Listing
<1>4. ASSUME NEW s \in S
      PROVE  \E k \in 1..Len(Listing(S)) : Listing(S)[k] = s
  <2> DEFINE k == Rank(S, s) + 1
  <2>1. k \in 1..Cardinality(S) /\ k - 1 = Rank(S, s)
    BY <1>1, RankFacts
  <2>2. Nth(S, k) \in S /\ Rank(S, Nth(S, k)) = Rank(S, s)
    BY <1>2, <2>1
  <2>3. Nth(S, k) = s
    BY <2>2, RankFacts
  <2> QED
    BY <1>3, <2>1, <2>3 DEF Listing
<1> QED
  BY <1>3, <1>4

-----------------------------------------------------------------------------
(***************************************************************************)
(* Plans: their statements are inserts of the rules, seeds and clears, and *)
(* BaseSQL has the insert of every rule that refers to none.               *)
(***************************************************************************)
InsertOf(r, uses) == [op |-> "insert", rule |-> r, uses |-> uses]
RulesOf(rs) == {rs[i] : i \in 1..Len(rs)}
Statements(rs) ==
    [op : {"insert"}, rule : RulesOf(rs), uses : SUBSET ruleNames(rs)]
        \cup [op : {"seed", "clear"}, name : ruleNames(rs)]

LEMMA NamesFinite ==
    ASSUME NEW rs \in Seq(Rules)
    PROVE  IsFiniteSet(ruleNames(rs))
<1> DEFINE f == [i \in 1..Len(rs) |-> rs[i].name]
<1>1. f \in Surjection(1..Len(rs), ruleNames(rs))
  <2>1. f \in [1..Len(rs) -> ruleNames(rs)]
    BY DEF ruleNames
  <2>2. \A n \in ruleNames(rs) : \E i \in 1..Len(rs) : f[i] = n
    BY DEF ruleNames
  <2> QED
    BY <2>1, <2>2 DEF Surjection
<1>2. IsFiniteSet(1..Len(rs))
  <2>1. 1 \in Int /\ Len(rs) \in Int
    OBVIOUS
  <2> QED
    BY <2>1, FS_Interval
<1> QED
  BY <1>1, <1>2, FS_Surjection

LEMMA OrderTyped ==
    ASSUME NEW S, IsFiniteSet(S), NEW o \in SetToSeqs(S)
    PROVE  o \in Seq(S) /\ Len(o) = Cardinality(S)
<1>1. Cardinality(S) \in Nat
  BY FS_CardinalityType
<1>2. o \in [1..Cardinality(S) -> S]
  BY DEF SetToSeqs
<1> QED
  BY <1>1, <1>2

\* The seeds and the clears are statements about rules' names.
LEMMA NamedTyped ==
    ASSUME NEW rs, NEW o \in Seq(ruleNames(rs)), NEW op \in {"seed", "clear"}
    PROVE  [k \in 1..Len(o) |-> [op |-> op, name |-> o[k]]] \in Seq(Statements(rs))
<1>1. ASSUME NEW k \in 1..Len(o)
      PROVE  [op |-> op, name |-> o[k]] \in Statements(rs)
  BY DEF Statements
<1> QED
  BY <1>1

LEMMA InsertTyped ==
    ASSUME NEW rs, NEW i \in 1..Len(rs), NEW uses \in SUBSET ruleNames(rs)
    PROVE  InsertOf(rs[i], uses) \in Statements(rs)
BY DEF InsertOf, Statements, RulesOf

LEMMA BasePairsFacts ==
    ASSUME NEW rs \in Seq(Rules)
    PROVE  IsFiniteSet(BasePairs(rs)) /\ BasePairs(rs) \subseteq (1..Len(rs)) \X {0}
<1> DEFINE B == {i \in 1..Len(rs) : ~ruleIsRecursive(rs[i], ruleNames(rs))}
<1>1. 1 \in Int /\ Len(rs) \in Int
  OBVIOUS
<1>2. IsFiniteSet(1..Len(rs))
  BY <1>1, FS_Interval
<1>3. B \in SUBSET (1..Len(rs))
  OBVIOUS
<1>4. IsFiniteSet(B)
  BY <1>2, <1>3, FS_Subset
<1>5. IsFiniteSet({0})
  BY FS_Singleton
<1>6. IsFiniteSet(B \X {0})
  BY <1>4, <1>5, FS_Product
<1>7. BasePairs(rs) = B \X {0}
  BY DEF BasePairs
<1> HIDE DEF B
<1> QED
  BY <1>3, <1>6, <1>7

LEMMA BaseTyped ==
    ASSUME NEW rs \in Seq(Rules), NEW order \in Seq(ruleNames(rs))
    PROVE  /\ BaseSQL(rs, order) \in Seq(Statements(rs))
           /\ \A i \in 1..Len(rs) : bodyRuleRefs(rs[i], ruleNames(rs)) = {} =>
                 \E k \in 1..Len(BaseSQL(rs, order)) :
                    BaseSQL(rs, order)[k] = InsertOf(rs[i], {})
<1> DEFINE base == Listing(BasePairs(rs))
           inserts == [k \in 1..Len(base) |-> InsertOf(rs[base[k][1]], {})]
           seeds == [k \in 1..Len(order) |-> [op |-> "seed", name |-> order[k]]]
<1>1. BasePairs(rs) \subseteq Nat \X Nat
  BY BasePairsFacts
<1>2. /\ base \in Seq(BasePairs(rs))
      /\ \A s \in BasePairs(rs) : \E k \in 1..Len(base) : base[k] = s
  BY <1>1, BasePairsFacts, ListingFacts
<1> HIDE DEF base
<1>3. ASSUME NEW k \in 1..Len(base)
      PROVE  InsertOf(rs[base[k][1]], {}) \in Statements(rs)
  <2>1. base[k] \in (1..Len(rs)) \X {0}
    BY <1>2, BasePairsFacts
  <2> QED
    BY <2>1, InsertTyped
<1>4. inserts \in Seq(Statements(rs)) /\ Len(inserts) = Len(base)
  BY <1>2, <1>3
<1>5. seeds \in Seq(Statements(rs))
  BY NamedTyped
<1>6. BaseSQL(rs, order) = inserts \o seeds
  BY DEF BaseSQL, base, InsertOf
<1>7. ASSUME NEW i \in 1..Len(rs), bodyRuleRefs(rs[i], ruleNames(rs)) = {}
      PROVE  \E k \in 1..Len(inserts) : inserts[k] = InsertOf(rs[i], {})
  <2>1. <<i, 0>> \in BasePairs(rs)
    BY <1>7 DEF BasePairs, ruleIsRecursive
  <2>2. PICK k \in 1..Len(base) : base[k] = <<i, 0>>
    BY <1>2, <2>1
  <2>3. k \in 1..Len(inserts) /\ inserts[k] = InsertOf(rs[base[k][1]], {})
    BY <1>4
  <2>4. base[k][1] = i
    BY <2>2
  <2> HIDE DEF inserts
  <2> QED
    BY <2>3, <2>4
<1> HIDE DEF inserts, seeds
<1>8. /\ inserts \o seeds \in Seq(Statements(rs))
      /\ Len(inserts) <= Len(inserts \o seeds)
      /\ \A k \in 1..Len(inserts) : (inserts \o seeds)[k] = inserts[k]
  BY <1>4, <1>5, ConcatProperties
<1>9. ASSUME NEW i \in 1..Len(rs), bodyRuleRefs(rs[i], ruleNames(rs)) = {}
      PROVE  \E k \in 1..Len(inserts \o seeds) : (inserts \o seeds)[k] = InsertOf(rs[i], {})
  <2>1. PICK k \in 1..Len(inserts) : inserts[k] = InsertOf(rs[i], {})
    BY <1>7, <1>9
  <2>2. k \in 1..Len(inserts \o seeds)
    BY <1>4, <1>8
  <2> QED
    BY <1>8, <2>1, <2>2
<1> QED
  BY <1>6, <1>8, <1>9

\* The orders in which Go's maps may list names and references.
IsOrders(rs, refs) ==
    \A i \in 1..Len(rs) : refs[i] \in RefOrders(rs, i)

LEMMA RefsTyped ==
    ASSUME NEW rs \in Seq(Rules), NEW refs, IsOrders(rs, refs), NEW i \in 1..Len(rs)
    PROVE  /\ refs[i] \in Seq(ruleNames(rs))
           /\ Len(refs[i]) <= Cardinality(ruleNames(rs))
<1> DEFINE R == bodyRuleRefs(rs[i], ruleNames(rs))
<1>1. R \in SUBSET ruleNames(rs)
  BY DEF bodyRuleRefs
<1>2. IsFiniteSet(R) /\ Cardinality(R) <= Cardinality(ruleNames(rs))
  BY <1>1, NamesFinite, FS_Subset
<1>3. refs[i] \in SetToSeqs(R)
  BY DEF IsOrders, RefOrders
<1> HIDE DEF R
<1>4. refs[i] \in Seq(R) /\ Len(refs[i]) = Cardinality(R)
  BY <1>2, <1>3, OrderTyped
<1> QED
  BY <1>1, <1>2, <1>4

LEMMA DeltaPairsFacts ==
    ASSUME NEW rs \in Seq(Rules), NEW refs, IsOrders(rs, refs)
    PROVE  /\ IsFiniteSet(DeltaPairs(rs, refs))
           /\ DeltaPairs(rs, refs) \subseteq Nat \X Nat
           /\ \A s \in DeltaPairs(rs, refs) :
                 s[1] \in 1..Len(rs) /\ s[2] \in 1..Len(refs[s[1]])
<1> DEFINE N == Cardinality(ruleNames(rs))
<1>1. N \in Nat
  BY NamesFinite, FS_CardinalityType
<1> HIDE DEF N
<1>2. DeltaPairs(rs, refs) \subseteq (1..Len(rs)) \X (1..N)
  <2> SUFFICES ASSUME NEW i \in 1..Len(rs), NEW s \in {i} \X (1..Len(refs[i]))
               PROVE  s \in (1..Len(rs)) \X (1..N)
    BY DEF DeltaPairs
  <2>1. Len(refs[i]) \in Nat /\ Len(refs[i]) <= N
    BY RefsTyped DEF N
  <2> QED
    BY <1>1, <2>1
<1>3. \A s \in DeltaPairs(rs, refs) : s[1] \in 1..Len(rs) /\ s[2] \in 1..Len(refs[s[1]])
  <2> SUFFICES ASSUME NEW i \in 1..Len(rs), NEW s \in {i} \X (1..Len(refs[i]))
               PROVE  s[1] \in 1..Len(rs) /\ s[2] \in 1..Len(refs[s[1]])
    BY DEF DeltaPairs
  <2> QED
    OBVIOUS
<1>4. 1 \in Int /\ Len(rs) \in Int /\ N \in Int
  BY <1>1
<1>5. IsFiniteSet((1..Len(rs)) \X (1..N))
  BY <1>4, FS_Interval, FS_Product
<1>6. IsFiniteSet(DeltaPairs(rs, refs))
  BY <1>2, <1>5, FS_Subset
<1> QED
  BY <1>1, <1>2, <1>3, <1>6

LEMMA DeltaTyped ==
    ASSUME NEW rs \in Seq(Rules), NEW order \in Seq(ruleNames(rs)),
           NEW refs, IsOrders(rs, refs)
    PROVE  DeltaSQL(rs, order, refs) \in Seq(Statements(rs))
<1> DEFINE variants == Listing(DeltaPairs(rs, refs))
           clears == [k \in 1..Len(order) |-> [op |-> "clear", name |-> order[k]]]
           Variant(v) == InsertOf(rs[v[1]], {refs[v[1]][v[2]]})
           inserts == [k \in 1..Len(variants) |-> Variant(variants[k])]
<1>1. variants \in Seq(DeltaPairs(rs, refs))
  BY DeltaPairsFacts, ListingFacts
<1> HIDE DEF variants
<1>2. ASSUME NEW v \in DeltaPairs(rs, refs)
      PROVE  Variant(v) \in Statements(rs)
  <2>1. v[1] \in 1..Len(rs) /\ v[2] \in 1..Len(refs[v[1]])
    BY DeltaPairsFacts
  <2>2. refs[v[1]] \in Seq(ruleNames(rs))
    BY <2>1, RefsTyped
  <2>3. refs[v[1]][v[2]] \in ruleNames(rs)
    BY <2>1, <2>2
  <2>4. {refs[v[1]][v[2]]} \in SUBSET ruleNames(rs)
    BY <2>3
  <2> QED
    BY <2>1, <2>4, InsertTyped
<1>3. DeltaSQL(rs, order, refs) = clears \o inserts
  BY DEF DeltaSQL, variants, InsertOf
<1> HIDE DEF Variant
<1>4. inserts \in Seq(Statements(rs))
  BY <1>1, <1>2
<1>5. clears \in Seq(Statements(rs))
  BY NamedTyped
<1> HIDE DEF inserts, clears
<1> QED
  BY <1>3, <1>4, <1>5, ConcatProperties

-----------------------------------------------------------------------------
(***************************************************************************)
(* Parameters: a rule without a constant in its head gets its own          *)
(* constants, since its placeholders and its parameters are in one order.  *)
(***************************************************************************)
LEMMA SlotsFacts ==
    ASSUME NEW r \in Rules, NEW c \in 1..Len(r.body)
    PROVE  /\ Slots(r, c) \subseteq Nat \X Nat
           /\ \A s \in Slots(r, c) : s[1] = c /\ s[2] \in 1..Len(r.body[c].args)
           /\ IsFiniteSet(Slots(r, c))
<1>1. c # 0 /\ c \in Nat
  OBVIOUS
<1>2. r.body[c] \in Clauses
  BY DEF Rules
<1>3. Len(r.body[c].args) \in Nat
  BY <1>2 DEF Clauses
<1>4. Slots(r, c) \in SUBSET ({c} \X (1..Len(r.body[c].args)))
  BY <1>1 DEF Slots
<1>5. 1 \in Int /\ Len(r.body[c].args) \in Int
  BY <1>3
<1>6. IsFiniteSet({c}) /\ IsFiniteSet(1..Len(r.body[c].args))
  BY <1>5, FS_Interval, FS_Singleton
<1>7. IsFiniteSet({c} \X (1..Len(r.body[c].args)))
  BY <1>6, FS_Product
<1>8. IsFiniteSet(Slots(r, c))
  BY <1>4, <1>7, FS_Subset
<1> QED
  BY <1>1, <1>3, <1>4, <1>8

LEMMA BodySlotsFacts ==
    ASSUME NEW r \in Rules
    PROVE  BodySlots(r) \subseteq Nat \X Nat /\ IsFiniteSet(BodySlots(r))
<1> DEFINE C == 1..Len(r.body)
           f == [c \in C |-> Slots(r, c)]
           SS == {Slots(r, c) : c \in C}
<1>1. Len(r.body) \in Nat
  BY DEF Rules
<1>2. IsFiniteSet(C)
  <2>1. 1 \in Int /\ Len(r.body) \in Int
    BY <1>1
  <2> QED
    BY <2>1, FS_Interval
<1>3. f \in Surjection(C, SS)
  <2>1. f \in [C -> SS] /\ \A t \in SS : \E c \in C : f[c] = t
    OBVIOUS
  <2> QED
    BY <2>1 DEF Surjection
<1>4. IsFiniteSet(SS)
  BY <1>2, <1>3, FS_Surjection
<1>5. \A T \in SS : IsFiniteSet(T) /\ T \subseteq Nat \X Nat
  BY SlotsFacts
<1>6. BodySlots(r) = UNION SS
  BY DEF BodySlots
<1> HIDE DEF SS
<1>7. IsFiniteSet(UNION SS)
  BY <1>4, <1>5, FS_UNION
<1>8. UNION SS \subseteq Nat \X Nat
  BY <1>5
<1> QED
  BY <1>6, <1>7, <1>8

LEMMA GivenSame ==
    ASSUME NEW r \in Rules, Slots(r, 0) = {}, NEW s,
           Placeholder(r, s) => s \in BodySlots(r)
    PROVE  Given(r, s) = Term(r, s)
<1> DEFINE L == Listing(BodySlots(r))
           text == Listing(Slots(r, 0)) \o L
           params == L \o Listing(Slots(r, 0))
           k == CHOOSE j \in DOMAIN text : text[j] = s
<1>1. Given(r, s) = IF Placeholder(r, s) THEN Term(r, params[k]) ELSE Term(r, s)
  BY DEF Given
<1>2. /\ L \in Seq(BodySlots(r))
      /\ \A u \in BodySlots(r) : \E j \in 1..Len(L) : L[j] = u
  BY BodySlotsFacts, ListingFacts
<1>3. Listing(Slots(r, 0)) = <<>>
  <2>1. Cardinality({}) = 0
    BY FS_EmptySet
  <2>2. Listing({}) = [n \in 1..0 |-> Nth({}, n)]
    BY <2>1 DEF Listing
  <2> QED
    BY <2>2
<1> HIDE DEF L
<1>4. text = L /\ params = L
  BY <1>2, <1>3, ConcatEmptySeq
<1> HIDE DEF text, params
<1>5. CASE Placeholder(r, s)
  <2>1. \E j \in DOMAIN text : text[j] = s
    BY <1>2, <1>4, <1>5
  <2>2. text[k] = s
    BY <2>1
  <2> HIDE DEF k
  <2> QED
    BY <1>1, <1>4, <1>5, <2>2
<1>6. CASE ~Placeholder(r, s)
  BY <1>1, <1>6
<1> QED
  BY <1>5, <1>6

\* A sequence is the function of its elements.
LEMMA SeqAsFunction ==
    ASSUME NEW S, NEW q \in Seq(S)
    PROVE  q = [i \in 1..Len(q) |-> q[i]]
OBVIOUS

LEMMA BoundSame ==
    ASSUME NEW r \in Rules, Slots(r, 0) = {}
    PROVE  Bound(r) = r
<1> DEFINE head == [i \in 1..Len(r.head) |-> Given(r, <<0, i>>)]
           Args(c) == [i \in 1..Len(r.body[c].args) |-> Given(r, <<c, i>>)]
           body == [c \in 1..Len(r.body) |-> [r.body[c] EXCEPT !.args = Args(c)]]
<1>1. r.head \in Seq(Terms) /\ r.body \in Seq(Clauses)
  BY DEF Rules
<1>2. head = r.head
  <2>1. ASSUME NEW i \in 1..Len(r.head)
        PROVE  Given(r, <<0, i>>) = r.head[i]
    <3>1. Term(r, <<0, i>>) = r.head[i]
      BY DEF Term
    <3>2. <<0, i>> \in {0} \X (1..Len(r.head))
      OBVIOUS
    <3>3. ~Placeholder(r, <<0, i>>)
      BY <3>2 DEF Slots
    <3> QED
      BY <3>1, <3>3, GivenSame
  <2>2. head = [i \in 1..Len(r.head) |-> r.head[i]]
    BY <2>1
  <2> QED
    BY <1>1, <2>2, SeqAsFunction
<1>3. ASSUME NEW c \in 1..Len(r.body)
      PROVE  [r.body[c] EXCEPT !.args = Args(c)] = r.body[c]
  <2>1. r.body[c] \in Clauses
    BY <1>1
  <2>2. r.body[c].args = [i \in 1..Len(r.body[c].args) |-> r.body[c].args[i]]
    BY <2>1 DEF Clauses
  <2>3. ASSUME NEW i \in 1..Len(r.body[c].args)
        PROVE  Given(r, <<c, i>>) = r.body[c].args[i]
    <3>1. Term(r, <<c, i>>) = r.body[c].args[i]
      BY DEF Term
    <3>2. ASSUME Placeholder(r, <<c, i>>)
          PROVE  <<c, i>> \in BodySlots(r)
      <4>1. <<c, i>> \in {c} \X (1..Len(r.body[c].args))
        OBVIOUS
      <4>2. <<c, i>> \in Slots(r, c)
        BY <3>2, <4>1 DEF Slots
      <4> QED
        BY <4>2 DEF BodySlots
    <3>3. Given(r, <<c, i>>) = Term(r, <<c, i>>)
      BY <3>2, GivenSame
    <3> QED
      BY <3>1, <3>3
  <2>4. Args(c) = r.body[c].args
    BY <2>2, <2>3
  <2> HIDE DEF Args
  <2> QED
    BY <2>1, <2>4 DEF Clauses
<1> HIDE DEF Args
<1>4. body = r.body
  <2>1. body = [c \in 1..Len(r.body) |-> r.body[c]]
    BY <1>3
  <2> QED
    BY <1>1, <2>1, SeqAsFunction
<1>5. Bound(r) = [r EXCEPT !.head = head, !.body = body]
  BY DEF Bound, Args
<1> HIDE DEF head, body
<1> QED
  BY <1>2, <1>4, <1>5 DEF Rules

-----------------------------------------------------------------------------
(***************************************************************************)
(* What a body selects. Holds(r, b, ...) is a binding that satisfies it.   *)
(***************************************************************************)
AllVars(r) == BoundBy(r.body, Len(r.body))
Holds(r, b, rows, tables) ==
    /\ b \in [AllVars(r) -> SQLValues]
    /\ \A i \in 1..Len(r.body) : Satisfies(r.body[i], b, rows, tables)
HeadOf(r, b) == [i \in 1..Len(r.head) |-> TermValue(r.head[i], b)]

LEMMA ConsequencesAre ==
    ASSUME NEW r, NEW rows, NEW tables, NEW w
    PROVE  w \in Consequences(r, rows, tables)
              <=> \E b : Holds(r, b, rows, tables) /\ w = HeadOf(r, b)
BY DEF Consequences, Holds, HeadOf, AllVars

\* A rule that ruleBodyToSQL translates has clauses of three kinds, and the
\* tracker knows all their variables.
LEMMA Translated ==
    ASSUME NEW rs, NEW r \in Rules, ~RuleFails(rs, r), NEW i \in 1..Len(r.body)
    PROVE  /\ r.body[i] \in Clauses
           /\ r.body[i].kind \in {"pattern", "rule", "expr"}
           /\ VarsIn(r.body[i].args) \subseteq AllVars(r)
<1> DEFINE cl == r.body[i]
<1>1. r.body \in Seq(Clauses)
  BY DEF Rules
<1>2. cl \in Clauses
  BY <1>1
<1>3. ~ClauseFails(rs, r.body, i)
  BY DEF RuleFails
<1>4. cl.kind \in {"pattern", "rule", "expr"}
  BY <1>3 DEF ClauseFails
<1>5. CASE cl.kind \in {"pattern", "rule"}
  BY <1>2, <1>4, <1>5 DEF AllVars, BoundBy
<1>6. CASE cl.kind = "expr"
  <2>1. VarsIn(cl.args) \subseteq BoundBy(r.body, i - 1)
    BY <1>3, <1>6 DEF ClauseFails
  <2>2. \A j \in 1..(i - 1) : j \in 1..Len(r.body)
    BY <1>1
  <2>3. BoundBy(r.body, i - 1) \subseteq BoundBy(r.body, Len(r.body))
    BY <2>2 DEF BoundBy
  <2> QED
    BY <1>2, <1>4, <2>1, <2>3 DEF AllVars
<1> QED
  BY <1>2, <1>4, <1>5, <1>6

LEMMA VarKnown ==
    ASSUME NEW rs, NEW r \in Rules, ~RuleFails(rs, r), NEW i \in 1..Len(r.body),
           NEW j \in 1..Len(r.body[i].args), r.body[i].args[j].kind = "var"
    PROVE  r.body[i].args[j].x \in AllVars(r)
<1>1. r.body[i].args[j].x \in VarsIn(r.body[i].args)
  BY DEF VarsIn, VarsAt
<1> QED
  BY <1>1, Translated

LEMMA HeadKnown ==
    ASSUME NEW rs, NEW r \in Rules, ~RuleFails(rs, r), NEW i \in 1..Len(r.head)
    PROVE  /\ r.head[i] \in Terms
           /\ r.head[i].kind = "var" => r.head[i].x \in AllVars(r)
           /\ r.head[i].kind \in {"var", "const"}
<1>1. r.head[i] \in Terms
  BY DEF Rules
<1>2. r.head[i].kind # "blank"
  BY DEF RuleFails
<1>3. r.head[i].kind \in {"var", "const"}
  BY <1>1, <1>2 DEF Terms
<1>4. VarsIn(r.head) \subseteq AllVars(r)
  BY DEF RuleFails, AllVars
<1>5. r.head[i].kind = "var" => r.head[i].x \in VarsIn(r.head)
  BY DEF VarsIn, VarsAt
<1> QED
  BY <1>1, <1>3, <1>4, <1>5

-----------------------------------------------------------------------------
(***************************************************************************)
(* Meaning: the values themselves, without their storage class.            *)
(***************************************************************************)
Meant(val) == IntVal(val.x)
MeantBy(b) == [x \in DOMAIN b |-> Meant(b[x])]

LEMMA ValueFacts ==
    ASSUME NEW p \in SQLValues
    PROVE  /\ p.x \in Dom /\ p.t \in {"int", "blob"}
           /\ p = [t |-> p.t, x |-> p.x]
           /\ Meant(p) \in SQLValues
BY DEF SQLValues, IntVal, BlobVal, Meant

LEMMA AgreesMeant ==
    ASSUME NEW V, NEW b \in [V -> SQLValues], NEW t, t.kind = "var" => t.x \in V,
           NEW val, Agrees(t, val, b)
    PROVE  Agrees(t, Meant(val), MeantBy(b))
BY DEF Agrees, Meant, MeantBy, IntVal

LEMMA TermMeant ==
    ASSUME NEW V, NEW b \in [V -> SQLValues], NEW t, t.kind = "var" => t.x \in V,
           t.kind # "blank"
    PROVE  TermValue(t, MeantBy(b)) = Meant(TermValue(t, b))
BY DEF TermValue, Meant, MeantBy, IntVal

LEMMA RowMeant ==
    ASSUME NEW d \in Datoms, NEW k \in 1..4
    PROVE  /\ Plain(d)[k] = Meant(Stored(d)[k])
           /\ Stored(d)[k] \in SQLValues
           /\ Stored(d)[k].t = IF k = 3 THEN "blob" ELSE "int"
           /\ Plain(d)[k].t = "int"
<1>1. k = 1 \/ k = 2 \/ k = 3 \/ k = 4
  OBVIOUS
<1> QED
  BY <1>1 DEF Plain, Stored, Meant, IntVal, BlobVal, SQLValues, Datoms

LEMMA BindingMeant ==
    ASSUME NEW V, NEW b \in [V -> SQLValues]
    PROVE  MeantBy(b) \in [V -> SQLValues]
BY ValueFacts DEF MeantBy

\* A comparison of two entities, or of two values, means what it compares; a
\* value is never less than an entity.
LEMMA CompareMeant ==
    ASSUME NEW p \in SQLValues, NEW q \in SQLValues, NEW fn, Compare(fn, p, q),
           p.t = q.t \/ (fn = "<" /\ p.t = "blob" /\ q.t = "int")
    PROVE  Compare(fn, Meant(p), Meant(q))
<1>1. CASE fn = "!="
  <2>1. p.t = q.t /\ p # q
    BY <1>1 DEF Compare
  <2>2. p.x # q.x
    BY <2>1, ValueFacts
  <2> QED
    BY <1>1, <2>2 DEF Compare, Meant, IntVal
<1>2. CASE fn # "!="
  <2>1. p.t = q.t
    BY <1>2 DEF Compare
  <2>2. p.x < q.x
    BY <1>2, <2>1 DEF Compare
  <2> QED
    BY <1>2, <2>2 DEF Compare, Meant, IntVal
<1> QED
  BY <1>1, <1>2

-----------------------------------------------------------------------------
(***************************************************************************)
(* Rules whose plans are sound: no constant in a head (its parameter would *)
(* go to another placeholder), and no comparison of an entity with a value *)
(* that the storage classes decide, not the values.                        *)
(***************************************************************************)
EntityVars(r) == UNION {VarsAt(r.body[i].args, {1, 2, 4}) :
                           i \in {j \in 1..Len(r.body) : r.body[j].kind = "pattern"}}
IsEntity(r, t) == t.kind = "const" \/ (t.kind = "var" /\ t.x \in EntityVars(r))
IsValue(r, t) == t.kind = "var" /\ t.x \in ValueVars(r)
Comparable(r, cl) ==
    \/ IsEntity(r, cl.args[1]) /\ IsEntity(r, cl.args[2])
    \/ IsValue(r, cl.args[1]) /\ IsValue(r, cl.args[2])
    \/ cl.fn = "<" /\ IsValue(r, cl.args[1]) /\ IsEntity(r, cl.args[2])
PlainRule(r) ==
    /\ Slots(r, 0) = {}
    /\ \A i \in 1..Len(r.body) : r.body[i].kind = "expr" => Comparable(r, r.body[i])
RulesPlain ==
    \A rs \in RuleSets : PlanFails(rs) \/ \A i \in 1..Len(rs) : PlainRule(rs[i])

StoredRows == {Stored(d) : d \in db}
PlainRows == {Plain(d) : d \in db}

\* A column of a pattern gives its variable the storage class of the column.
LEMMA PatternKinds ==
    ASSUME db \subseteq Datoms, NEW rs, NEW r \in Rules, ~RuleFails(rs, r),
           NEW b, NEW tables, Holds(r, b, StoredRows, tables),
           NEW i \in 1..Len(r.body), r.body[i].kind = "pattern",
           NEW j \in 1..4, r.body[i].args[j].kind = "var"
    PROVE  b[r.body[i].args[j].x].t = IF j = 3 THEN "blob" ELSE "int"
<1>1. r.body[i] \in Clauses
  BY Translated
<1>2. Len(r.body[i].args) = 4
  BY <1>1 DEF Clauses
<1>3. Satisfies(r.body[i], b, StoredRows, tables)
  BY DEF Holds
<1>4. PICK u \in StoredRows : \A k \in 1..4 : Agrees(r.body[i].args[k], u[k], b)
  BY <1>2, <1>3 DEF Satisfies
<1>5. PICK d \in db : u = Stored(d)
  BY DEF StoredRows
<1>6. Stored(d)[j] = b[r.body[i].args[j].x]
  BY <1>4, <1>5 DEF Agrees
<1> QED
  BY <1>6, RowMeant

\* The place of a variable.
LEMMA VarPlace ==
    ASSUME NEW terms, NEW columns, NEW x \in VarsAt(terms, columns)
    PROVE  \E j \in columns : terms[j].kind = "var" /\ x = terms[j].x
BY DEF VarsAt

LEMMA TermKinds ==
    ASSUME db \subseteq Datoms, NEW rs, NEW r \in Rules, ~RuleFails(rs, r),
           NEW b, NEW tables, Holds(r, b, StoredRows, tables), NEW t
    PROVE  /\ IsEntity(r, t) => TermValue(t, b).t = "int"
           /\ IsValue(r, t) => TermValue(t, b).t = "blob"
<1>1. ASSUME t.kind = "const"
      PROVE  TermValue(t, b).t = "int"
  BY <1>1 DEF TermValue, IntVal
<1>2. ASSUME t.kind = "var", t.x \in EntityVars(r)
      PROVE  TermValue(t, b).t = "int"
  <2>1. PICK i \in 1..Len(r.body) : /\ r.body[i].kind = "pattern"
                                    /\ t.x \in VarsAt(r.body[i].args, {1, 2, 4})
    BY <1>2 DEF EntityVars
  <2>2. PICK j \in {1, 2, 4} : r.body[i].args[j].kind = "var" /\ t.x = r.body[i].args[j].x
    BY <2>1, VarPlace
  <2>3. j \in 1..4 /\ j # 3
    OBVIOUS
  <2>4. b[r.body[i].args[j].x].t = "int"
    BY <2>1, <2>2, <2>3, PatternKinds
  <2> QED
    BY <1>2, <2>2, <2>4 DEF TermValue
<1>3. ASSUME t.kind = "var", t.x \in ValueVars(r)
      PROVE  TermValue(t, b).t = "blob"
  <2>1. PICK i \in 1..Len(r.body) : t.x \in VarsAt(r.body[i].args, ValueColumn(r.body[i]))
    BY <1>3 DEF ValueVars
  <2>2. /\ r.body[i].kind = "pattern"
        /\ r.body[i].args[3].kind = "var"
        /\ t.x = r.body[i].args[3].x
    <3>1. PICK j \in ValueColumn(r.body[i]) :
              r.body[i].args[j].kind = "var" /\ t.x = r.body[i].args[j].x
      BY <2>1, VarPlace
    <3>2. r.body[i].kind = "pattern" /\ j = 3
      BY DEF ValueColumn
    <3> QED
      BY <3>1, <3>2
  <2>3. b[r.body[i].args[3].x].t = "blob"
    BY <2>2, PatternKinds
  <2> QED
    BY <1>3, <2>2, <2>3 DEF TermValue
<1> QED
  BY <1>1, <1>2, <1>3 DEF IsEntity, IsValue

\* Tables typed as SetupSQL makes them: one column for each argument of a head.
TuplesTyped(rs, tables) ==
    \A i \in 1..Len(rs) : tables[rs[i].name] \subseteq [1..Len(rs[i].head) -> SQLValues]

\* What a rule of the plan selects from current_datoms and from tables of
\* derived rows follows by that rule.
LEMMA ClauseMeant ==
    ASSUME db \subseteq Datoms, rules \in Seq(Rules),
           TuplesTyped(rules, derived),
           NEW r \in Rules, ~RuleFails(rules, r), PlainRule(r),
           NEW tables, \A n \in ruleNames(rules) : tables[n] \subseteq derived[n],
           NEW b, Holds(r, b, StoredRows, tables), NEW i \in 1..Len(r.body)
    PROVE  Satisfies(r.body[i], MeantBy(b), PlainRows, Known)
<1> DEFINE cl == r.body[i]
<1>1. /\ cl \in Clauses
      /\ cl.kind \in {"pattern", "rule", "expr"}
  BY Translated
<1>2. b \in [AllVars(r) -> SQLValues] /\ Satisfies(cl, b, StoredRows, tables)
  BY DEF Holds
<1>3. ASSUME NEW j \in 1..Len(cl.args)
      PROVE  cl.args[j].kind = "var" => cl.args[j].x \in AllVars(r)
  BY VarKnown
<1>4. CASE cl.kind = "pattern"
  <2>1. Len(cl.args) = 4
    BY <1>1, <1>4 DEF Clauses
  <2>2. PICK u \in StoredRows : \A k \in 1..4 : Agrees(cl.args[k], u[k], b)
    BY <1>2, <1>4, <2>1 DEF Satisfies
  <2>3. PICK d \in db : u = Stored(d)
    BY DEF StoredRows
  <2>4. ASSUME NEW k \in 1..4
        PROVE  Agrees(cl.args[k], Plain(d)[k], MeantBy(b))
    <3>1. Agrees(cl.args[k], Stored(d)[k], b)
      BY <2>2, <2>3
    <3>2. Agrees(cl.args[k], Meant(Stored(d)[k]), MeantBy(b))
      BY <1>2, <1>3, <2>1, <3>1, AgreesMeant
    <3> QED
      BY <3>2, RowMeant
  <2>5. Plain(d) \in PlainRows
    BY DEF PlainRows
  <2> QED
    BY <1>4, <2>1, <2>4, <2>5 DEF Satisfies
<1>5. CASE cl.kind = "rule"
  <2>1. ~ClauseFails(rules, r.body, i)
    BY DEF RuleFails
  <2>2. cl.name \in ruleNames(rules)
    BY <1>5, <2>1 DEF ClauseFails
  <2>3. PICK j \in 1..Len(rules) : rules[j].name = cl.name
    BY <2>2 DEF ruleNames
  <2>4. Len(rules[j].head) = Len(cl.args)
    BY <1>5, <2>1, <2>3 DEF ClauseFails
  <2>5. PICK u \in tables[cl.name] : \A k \in 1..Len(cl.args) : Agrees(cl.args[k], u[k], b)
    BY <1>2, <1>5 DEF Satisfies
  <2>6. u \in derived[cl.name]
    BY <2>2, <2>5
  <2>7. u \in [1..Len(cl.args) -> SQLValues]
    BY <2>3, <2>4, <2>6 DEF TuplesTyped
  <2> DEFINE w == [k \in DOMAIN u |-> IntVal(u[k].x)]
  <2>8. w \in Known[cl.name]
    BY <2>2, <2>6 DEF Known, Meaning
  <2>9. ASSUME NEW k \in 1..Len(cl.args)
        PROVE  Agrees(cl.args[k], w[k], MeantBy(b))
    <3>1. Agrees(cl.args[k], Meant(u[k]), MeantBy(b))
      BY <1>2, <1>3, <2>5, AgreesMeant
    <3>2. w[k] = Meant(u[k])
      BY <2>7 DEF Meant
    <3> QED
      BY <3>1, <3>2
  <2> HIDE DEF w
  <2> QED
    BY <1>5, <2>8, <2>9 DEF Satisfies
<1>6. CASE cl.kind = "expr"
  <2> DEFINE p == TermValue(cl.args[1], b)
             q == TermValue(cl.args[2], b)
  <2>1. Len(cl.args) = 2 /\ cl.args[1] \in Terms /\ cl.args[2] \in Terms
    BY <1>1, <1>6 DEF Clauses
  <2>2. Comparable(r, cl)
    BY <1>6 DEF PlainRule
  <2>3. Compare(cl.fn, p, q)
    BY <1>2, <1>6 DEF Satisfies
  <2>4. p.t = q.t \/ (cl.fn = "<" /\ p.t = "blob" /\ q.t = "int")
    <3>1. ASSUME NEW t
          PROVE  /\ IsEntity(r, t) => TermValue(t, b).t = "int"
                 /\ IsValue(r, t) => TermValue(t, b).t = "blob"
      BY TermKinds
    <3> QED
      BY <2>2, <3>1 DEF Comparable
  <2>5. ASSUME NEW j \in {1, 2}
        PROVE  /\ TermValue(cl.args[j], b) \in SQLValues
               /\ TermValue(cl.args[j], MeantBy(b)) = Meant(TermValue(cl.args[j], b))
    <3>1. cl.args[j].kind \in {"var", "const"}
      BY <2>2 DEF Comparable, IsEntity, IsValue
    <3>2. cl.args[j].kind = "var" => cl.args[j].x \in AllVars(r)
      BY <1>3, <2>1
    <3>3. cl.args[j].kind = "const" => cl.args[j].x \in Dom
      BY <2>1 DEF Terms
    <3>4. TermValue(cl.args[j], b) \in SQLValues
      BY <1>2, <3>1, <3>2, <3>3 DEF TermValue, SQLValues
    <3> QED
      BY <1>2, <3>1, <3>2, <3>4, TermMeant
  <2>6. Compare(cl.fn, Meant(p), Meant(q))
    BY <2>3, <2>4, <2>5, CompareMeant
  <2> QED
    BY <1>6, <2>5, <2>6 DEF Satisfies
<1> QED
  BY <1>1, <1>4, <1>5, <1>6

MeantTuple(w) == [k \in DOMAIN w |-> IntVal(w[k].x)]

LEMMA SelectMeant ==
    ASSUME db \subseteq Datoms, rules \in Seq(Rules),
           TuplesTyped(rules, derived),
           NEW r \in Rules, ~RuleFails(rules, r), PlainRule(r),
           NEW tables, \A n \in ruleNames(rules) : tables[n] \subseteq derived[n],
           NEW w \in Consequences(r, StoredRows, tables)
    PROVE  /\ w \in [1..Len(r.head) -> SQLValues]
           /\ MeantTuple(w) \in Consequences(r, PlainRows, Known)
<1>1. PICK b : Holds(r, b, StoredRows, tables) /\ w = HeadOf(r, b)
  BY ConsequencesAre
<1>2. b \in [AllVars(r) -> SQLValues]
  BY <1>1 DEF Holds
<1>3. ASSUME NEW i \in 1..Len(r.head)
      PROVE  /\ TermValue(r.head[i], b) \in SQLValues
             /\ TermValue(r.head[i], MeantBy(b)) = Meant(TermValue(r.head[i], b))
  <2>1. /\ r.head[i] \in Terms
        /\ r.head[i].kind = "var" => r.head[i].x \in AllVars(r)
        /\ r.head[i].kind \in {"var", "const"}
    BY HeadKnown
  <2>2. r.head[i].kind = "const" => r.head[i].x \in Dom
    BY <2>1 DEF Terms
  <2>3. TermValue(r.head[i], b) \in SQLValues
    BY <1>2, <2>1, <2>2 DEF TermValue, SQLValues
  <2> QED
    BY <1>2, <2>1, <2>3, TermMeant
<1>4. w \in [1..Len(r.head) -> SQLValues]
  BY <1>1, <1>3 DEF HeadOf
<1>5. MeantTuple(w) = HeadOf(r, MeantBy(b))
  <2>1. ASSUME NEW i \in 1..Len(r.head)
        PROVE  IntVal(w[i].x) = TermValue(r.head[i], MeantBy(b))
    BY <1>1, <1>3 DEF HeadOf, Meant
  <2> QED
    BY <1>4, <2>1 DEF MeantTuple, HeadOf
<1>6. Holds(r, MeantBy(b), PlainRows, Known)
  <2>1. MeantBy(b) \in [AllVars(r) -> SQLValues]
    BY <1>2, BindingMeant
  <2>2. ASSUME NEW i \in 1..Len(r.body)
        PROVE  Satisfies(r.body[i], MeantBy(b), PlainRows, Known)
    BY <1>1, ClauseMeant
  <2> QED
    BY <2>1, <2>2 DEF Holds
<1>7. MeantTuple(w) \in Consequences(r, PlainRows, Known)
  BY <1>5, <1>6, ConsequencesAre
<1> QED
  BY <1>4, <1>7

-----------------------------------------------------------------------------
(***************************************************************************)
(* The plan that runs is one of rules that PlanRecursive accepted.         *)
(***************************************************************************)
PlanInv ==
    /\ db \in Databases /\ rules \in RuleSets
    /\ DOMAIN derived = ruleNames(rules) /\ DOMAIN delta = ruleNames(rules)
    /\ pos \in Nat \ {0}
    /\ pc \in {"plan", "error", "base", "delta", "done"}
    /\ pc \in {"base", "delta", "done"} =>
          /\ ~PlanFails(rules)
          /\ plan.base \in Seq(Statements(rules))
          /\ plan.iter \in Seq(Statements(rules))

LEMMA PlanInit == Init => PlanInv
BY DEF Init, PlanInv, Empty

LEMMA PlanMade ==
    ASSUME PlanInv, PlanRecursive, pc' = "base"
    PROVE  /\ ~PlanFails(rules)
           /\ plan'.base \in Seq(Statements(rules))
           /\ plan'.iter \in Seq(Statements(rules))
           /\ \A i \in 1..Len(rules) : bodyRuleRefs(rules[i], ruleNames(rules)) = {} =>
                 \E k \in 1..Len(plan'.base) : plan'.base[k] = InsertOf(rules[i], {})
<1>1. rules \in Seq(Rules)
  BY RulesAssumption DEF PlanInv
<1>2. ~PlanFails(rules)
  BY DEF PlanRecursive
<1>3. PICK order \in SetToSeqs(ruleNames(rules)),
           refs \in [1..Len(rules) -> UNION {RefOrders(rules, i) : i \in 1..Len(rules)}] :
        /\ \A i \in 1..Len(rules) : refs[i] \in RefOrders(rules, i)
        /\ plan' = [base |-> BaseSQL(rules, order), iter |-> DeltaSQL(rules, order, refs)]
  BY DEF PlanRecursive
<1>4. order \in Seq(ruleNames(rules))
  BY <1>1, NamesFinite, OrderTyped
<1>5. IsOrders(rules, refs)
  BY <1>3 DEF IsOrders
<1>6. plan'.base = BaseSQL(rules, order) /\ plan'.iter = DeltaSQL(rules, order, refs)
  BY <1>3
<1>7. plan'.iter \in Seq(Statements(rules))
  BY <1>1, <1>4, <1>5, <1>6, DeltaTyped
<1> QED
  BY <1>1, <1>2, <1>4, <1>6, <1>7, BaseTyped

LEMMA ExecuteDomains ==
    ASSUME PlanInv, NEW st, Execute(st)
    PROVE  DOMAIN derived' = ruleNames(rules) /\ DOMAIN delta' = ruleNames(rules)
BY DEF Execute, PlanInv

LEMMA PlanStep == PlanInv /\ [Next]_vars => PlanInv'
<1> SUFFICES ASSUME PlanInv, [Next]_vars
             PROVE  PlanInv'
  OBVIOUS
<1>1. CASE UNCHANGED vars
  BY <1>1 DEF vars, PlanInv
<1>2. CASE PlanRecursive
  <2>1. CASE pc' = "base"
    <3>1. /\ ~PlanFails(rules)
          /\ plan'.base \in Seq(Statements(rules))
          /\ plan'.iter \in Seq(Statements(rules))
      BY <1>2, <2>1, PlanMade
    <3> QED
      BY <1>2, <2>1, <3>1 DEF PlanInv, PlanRecursive
  <2>2. CASE pc' # "base"
    BY <1>2, <2>2 DEF PlanInv, PlanRecursive
  <2> QED
    BY <2>1, <2>2
<1>3. CASE RunBase
  <2>1. DOMAIN derived' = ruleNames(rules) /\ DOMAIN delta' = ruleNames(rules)
    BY <1>3, ExecuteDomains DEF RunBase
  <2> QED
    BY <1>3, <2>1 DEF PlanInv, RunBase
<1>4. CASE RunDelta
  <2>1. DOMAIN derived' = ruleNames(rules) /\ DOMAIN delta' = ruleNames(rules)
    BY <1>4, ExecuteDomains DEF RunDelta
  <2> QED
    BY <1>4, <2>1 DEF PlanInv, RunDelta
<1>5. CASE NextRound
  BY <1>5 DEF PlanInv, NextRound
<1> QED
  BY <1>1, <1>2, <1>3, <1>4, <1>5 DEF Next

\* What the run executes is a statement of an accepted plan.
LEMMA Running ==
    ASSUME PlanInv, NEW st, \/ RunBase /\ st = plan.base[pos]
                            \/ RunDelta /\ st = plan.iter[pos]
    PROVE  /\ Execute(st)
           /\ st \in Statements(rules)
           /\ ~PlanFails(rules)
           /\ UNCHANGED <<db, rules>>
<1>1. CASE RunBase /\ st = plan.base[pos]
  BY <1>1 DEF RunBase, PlanInv
<1>2. CASE RunDelta /\ st = plan.iter[pos]
  BY <1>2 DEF RunDelta, PlanInv
<1> QED
  BY <1>1, <1>2

LEMMA NextExecutes ==
    ASSUME PlanInv, [Next]_vars
    PROVE  \/ UNCHANGED <<db, rules, derived, delta>>
           \/ \E st : /\ Execute(st)
                      /\ st \in Statements(rules)
                      /\ ~PlanFails(rules)
                      /\ UNCHANGED <<db, rules>>
<1>1. CASE RunBase
  BY <1>1, Running
<1>2. CASE RunDelta
  BY <1>2, Running
<1>3. CASE ~RunBase /\ ~RunDelta
  BY <1>3 DEF Next, vars, PlanRecursive, NextRound
<1> QED
  BY <1>1, <1>2, <1>3

-----------------------------------------------------------------------------
(***************************************************************************)
(* Soundness. A statement may read the delta tables: they hold only rows   *)
(* of the derived ones, so what it selects follows from these.             *)
(***************************************************************************)
TablesSound ==
    /\ TuplesTyped(rules, derived)
    /\ \A n \in ruleNames(rules) : delta[n] \subseteq derived[n]
SoundInv == PlanInv /\ TablesSound

\* The rows of an INSERT ... SELECT of a rule, and what they mean.
LEMMA InsertMeant ==
    ASSUME RulesPlain, PlanInv, TablesSound, ~PlanFails(rules),
           NEW r \in RulesOf(rules), NEW uses,
           NEW w \in ruleBodyToSQL(r, uses)
    PROVE  /\ w \in [1..Len(r.head) -> SQLValues]
           /\ MeantTuple(w) \in Consequences(r, PlainRows, Known)
<1>1. rules \in Seq(Rules) /\ db \subseteq Datoms
  BY RulesAssumption, DatabasesAssumption DEF PlanInv
<1>2. r \in Rules /\ PlainRule(r) /\ ~RuleFails(rules, r)
  BY <1>1 DEF RulesOf, PlanFails, RulesPlain, PlanInv
<1>3. Bound(r) = r
  BY <1>2, BoundSame DEF PlainRule
<1>4. \A n \in ruleNames(rules) : Sources(uses)[n] \subseteq derived[n]
  BY DEF Sources, TablesSound
<1>5. w \in Consequences(r, StoredRows, Sources(uses))
  BY <1>3 DEF ruleBodyToSQL, StoredRows
<1>6. TuplesTyped(rules, derived)
  BY DEF TablesSound
<1> QED
  BY <1>1, <1>2, <1>4, <1>5, <1>6, SelectMeant

LEMMA ExecuteSound ==
    ASSUME RulesPlain, PlanInv, TablesSound, ~PlanFails(rules),
           NEW st \in Statements(rules), Execute(st), UNCHANGED <<db, rules>>
    PROVE  /\ TablesSound'
           /\ \A n \in ruleNames(rules) : \A w \in derived'[n] \ derived[n] :
                 \E r \in RulesOf(rules) :
                    r.name = n /\ MeantTuple(w) \in Consequences(r, PlainRows, Known)
<1>1. CASE st.op = "insert"
  <2> DEFINE new == ruleBodyToSQL(st.rule, st.uses)
  <2>1. st.rule \in RulesOf(rules) /\ st.rule.name \in ruleNames(rules)
    BY <1>1 DEF Statements, RulesOf, ruleNames
  <2>2. /\ derived' = [derived EXCEPT ![st.rule.name] = derived[st.rule.name] \cup new]
        /\ delta' = delta
    BY <1>1 DEF Execute
  <2>3. ASSUME NEW w \in new
        PROVE  /\ w \in [1..Len(st.rule.head) -> SQLValues]
               /\ MeantTuple(w) \in Consequences(st.rule, PlainRows, Known)
    BY <2>1, InsertMeant
  <2> HIDE DEF new
  <2>4. ASSUME NEW n \in ruleNames(rules)
        PROVE  derived'[n] = IF n = st.rule.name THEN derived[n] \cup new ELSE derived[n]
    BY <2>1, <2>2 DEF PlanInv
  <2>5. ASSUME NEW i \in 1..Len(rules)
        PROVE  derived'[rules[i].name] \subseteq [1..Len(rules[i].head) -> SQLValues]
    <3>1. rules[i].name \in ruleNames(rules)
      BY DEF ruleNames
    <3>2. derived[rules[i].name] \subseteq [1..Len(rules[i].head) -> SQLValues]
      BY DEF TablesSound, TuplesTyped
    <3>3. CASE rules[i].name = st.rule.name
      <4>1. Len(rules[i].head) = Len(st.rule.head)
        BY <2>1, <3>3 DEF RulesOf, PlanFails
      <4> QED
        BY <2>3, <2>4, <3>1, <3>2, <3>3, <4>1
    <3>4. CASE rules[i].name # st.rule.name
      BY <2>4, <3>1, <3>2, <3>4
    <3> QED
      BY <3>3, <3>4
  <2>6. \A n \in ruleNames(rules) : delta'[n] \subseteq derived'[n]
    BY <2>2, <2>4 DEF TablesSound
  <2>7. TablesSound'
    BY <2>5, <2>6 DEF TablesSound, TuplesTyped
  <2> QED
    BY <2>1, <2>3, <2>4, <2>7
<1>2. CASE st.op \in {"seed", "clear"}
  <2>1. /\ derived' = derived
        /\ \A n \in ruleNames(rules) : delta'[n] \subseteq derived[n]
    BY <1>2 DEF Execute, Statements, TablesSound, PlanInv
  <2>2. TablesSound'
    BY <2>1 DEF TablesSound, TuplesTyped
  <2> QED
    BY <2>1, <2>2
<1> QED
  BY <1>1, <1>2 DEF Statements

LEMMA SoundStep ==
    ASSUME RulesPlain, SoundInv, [Next]_vars
    PROVE  SoundInv'
<1>1. PlanInv'
  BY PlanStep DEF SoundInv
<1>2. CASE UNCHANGED <<db, rules, derived, delta>>
  BY <1>1, <1>2 DEF SoundInv, TablesSound
<1>3. ASSUME NEW st, Execute(st), st \in Statements(rules), ~PlanFails(rules),
             UNCHANGED <<db, rules>>
      PROVE  TablesSound'
  BY <1>3, ExecuteSound DEF SoundInv
<1> QED
  BY <1>1, <1>2, <1>3, NextExecutes DEF SoundInv

\* One step of the run, in any state the run can be in.
LEMMA SoundAction ==
    ASSUME RulesPlain, SoundInv, [Next]_vars,
           NEW n \in ruleNames(rules), NEW u \in Meaning(derived'[n]) \ Known[n]
    PROVE  Follows(n, u)
<1>1. PICK w \in derived'[n] : u = MeantTuple(w)
  BY DEF Meaning, MeantTuple
<1>2. Known[n] = Meaning(derived[n])
  BY DEF Known
<1>3. w \notin derived[n]
  BY <1>1, <1>2 DEF Meaning, MeantTuple
<1>4. ASSUME NEW st, Execute(st), st \in Statements(rules), ~PlanFails(rules),
             UNCHANGED <<db, rules>>
      PROVE  \E r \in RulesOf(rules) : r.name = n /\ u \in Consequences(r, PlainRows, Known)
  BY <1>1, <1>3, <1>4, ExecuteSound DEF SoundInv
<1>5. PICK r \in RulesOf(rules) : r.name = n /\ u \in Consequences(r, PlainRows, Known)
  BY <1>3, <1>4, NextExecutes DEF SoundInv
<1> QED
  BY <1>5 DEF Follows, RulesOf, PlainRows

LEMMA SoundStart == Init => SoundInv
<1> SUFFICES ASSUME Init
             PROVE  SoundInv
  OBVIOUS
<1>1. PlanInv
  BY PlanInit
<1>2. \A n \in ruleNames(rules) : derived[n] = {} /\ delta[n] = {}
  BY DEF Init, Empty
<1>3. \A i \in 1..Len(rules) : rules[i].name \in ruleNames(rules)
  BY DEF ruleNames
<1> QED
  BY <1>1, <1>2, <1>3 DEF SoundInv, TablesSound, TuplesTyped

\* Whatever rules PlanRecursive accepts, in whatever order the maps give names
\* and references, every row that a statement of the plan adds to a _rule_ table
\* follows by one of the rules, if no constant is in a head and no comparison is
\* between an entity and a value.
THEOREM DerivedAlwaysSound ==
    ASSUME RulesPlain
    PROVE  Spec => DerivedIsSound
<1>1. SoundInv /\ [Next]_vars => SoundInv'
  BY SoundStep
<1>2. SoundInv /\ [Next]_vars =>
        [\A n \in ruleNames(rules) :
            \A u \in Meaning(derived'[n]) \ Known[n] : Follows(n, u)]_vars
  BY SoundAction
<1> QED
  BY <1>1, <1>2, SoundStart, PTL DEF Spec, DerivedIsSound

-----------------------------------------------------------------------------
(***************************************************************************)
(* Completeness. A rule that refers to none selects the same rows at any   *)
(* time, and BaseSQL has its insert: once that has run, they are there.    *)
(***************************************************************************)
IsBase(r) == bodyRuleRefs(r, ruleNames(rules)) = {} /\ Separated(r)
BaseRows(r) == Consequences(r, StoredRows, Empty(rules))

LEMMA NoApplication ==
    ASSUME NEW r \in Rules, ~RuleFails(rules, r),
           bodyRuleRefs(r, ruleNames(rules)) = {}, NEW i \in 1..Len(r.body)
    PROVE  r.body[i].kind \in {"pattern", "expr"}
<1>1. r.body[i].kind \in {"pattern", "rule", "expr"}
  BY Translated
<1>2. ASSUME r.body[i].kind = "rule"
      PROVE  FALSE
  <2>1. ~ClauseFails(rules, r.body, i)
    BY DEF RuleFails
  <2>2. r.body[i].name \in ruleNames(rules)
    BY <1>2, <2>1 DEF ClauseFails
  <2> QED
    BY <1>2, <2>2 DEF bodyRuleRefs
<1> QED
  BY <1>1, <1>2

LEMMA SameSelection ==
    ASSUME NEW r \in Rules, ~RuleFails(rules, r),
           bodyRuleRefs(r, ruleNames(rules)) = {},
           NEW rows, NEW tables, NEW others
    PROVE  Consequences(r, rows, tables) = Consequences(r, rows, others)
<1>1. ASSUME NEW b, NEW i \in 1..Len(r.body)
      PROVE  Satisfies(r.body[i], b, rows, tables) <=> Satisfies(r.body[i], b, rows, others)
  <2>1. r.body[i].kind # "rule"
    BY NoApplication
  <2> QED
    BY <2>1 DEF Satisfies
<1>2. ASSUME NEW b
      PROVE  Holds(r, b, rows, tables) <=> Holds(r, b, rows, others)
  BY <1>1 DEF Holds
<1>3. ASSUME NEW w
      PROVE  w \in Consequences(r, rows, tables) <=> w \in Consequences(r, rows, others)
  BY <1>2, ConsequencesAre
<1> QED
  BY <1>3

\* The binding of the stored columns for one c of the values themselves.
StoredBy(r, c) == [x \in AllVars(r) |->
                      IF x \in ValueVars(r) THEN BlobVal(c[x].x) ELSE c[x]]

\* The tracker's variables are integers where datoms are read as they are meant.
LEMMA PlainKinds ==
    ASSUME db \subseteq Datoms, NEW r \in Rules, ~RuleFails(rules, r),
           bodyRuleRefs(r, ruleNames(rules)) = {},
           NEW c, NEW tables, Holds(r, c, PlainRows, tables), NEW x \in AllVars(r)
    PROVE  c[x] = IntVal(c[x].x) /\ c[x].x \in Dom
<1>1. PICK i \in 1..Len(r.body) : /\ r.body[i].kind \in {"pattern", "rule"}
                                  /\ x \in VarsIn(r.body[i].args)
  BY DEF AllVars, BoundBy
<1>2. r.body[i].kind = "pattern" /\ r.body[i] \in Clauses
  BY <1>1, NoApplication, Translated
<1>3. Len(r.body[i].args) = 4
  BY <1>2 DEF Clauses
<1>4. PICK j \in 1..4 : r.body[i].args[j].kind = "var" /\ x = r.body[i].args[j].x
  BY <1>1, <1>3 DEF VarsIn, VarsAt
<1>5. PICK u \in PlainRows : \A k \in 1..4 : Agrees(r.body[i].args[k], u[k], c)
  BY <1>2, <1>3 DEF Holds, Satisfies
<1>6. PICK d \in db : u = Plain(d)
  BY DEF PlainRows
<1>7. c[x] = Plain(d)[j]
  BY <1>4, <1>5, <1>6 DEF Agrees
<1>8. Plain(d)[j] = Meant(Stored(d)[j]) /\ Stored(d)[j] \in SQLValues
  BY RowMeant
<1>9. Stored(d)[j].x \in Dom
  BY <1>8, ValueFacts
<1> QED
  BY <1>7, <1>8, <1>9 DEF Meant, IntVal

LEMMA ClauseStored ==
    ASSUME db \subseteq Datoms, NEW r \in Rules, ~RuleFails(rules, r), IsBase(r),
           NEW c, NEW tables, Holds(r, c, PlainRows, tables), NEW i \in 1..Len(r.body),
           NEW others
    PROVE  Satisfies(r.body[i], StoredBy(r, c), StoredRows, others)
<1> DEFINE cl == r.body[i]
           b == StoredBy(r, c)
<1>1. cl.kind \in {"pattern", "expr"} /\ cl \in Clauses
  BY NoApplication, Translated DEF IsBase
<1>2. Satisfies(cl, c, PlainRows, tables)
  BY DEF Holds
<1>3. ASSUME NEW j \in 1..Len(cl.args), cl.args[j].kind = "var", j \notin ValueColumn(cl)
      PROVE  b[cl.args[j].x] = c[cl.args[j].x]
  <2>1. cl.args[j].x \in AllVars(r)
    BY <1>3, VarKnown
  <2>2. cl.args[j].x \in VarsAt(cl.args, 1..Len(cl.args) \ ValueColumn(cl))
    BY <1>3 DEF VarsAt
  <2>3. cl.args[j].x \in OtherVars(r)
    BY <2>2 DEF OtherVars
  <2>4. cl.args[j].x \notin ValueVars(r)
    BY <2>3 DEF IsBase, Separated
  <2> QED
    BY <2>1, <2>4 DEF StoredBy
<1>4. CASE cl.kind = "pattern"
  <2>1. Len(cl.args) = 4 /\ ValueColumn(cl) = {3}
    BY <1>1, <1>4 DEF Clauses, ValueColumn
  <2>2. PICK u \in PlainRows : \A k \in 1..4 : Agrees(cl.args[k], u[k], c)
    BY <1>2, <1>4, <2>1 DEF Satisfies
  <2>3. PICK d \in db : u = Plain(d)
    BY DEF PlainRows
  <2>4. ASSUME NEW k \in 1..4
        PROVE  Agrees(cl.args[k], Stored(d)[k], b)
    <3>1. Agrees(cl.args[k], Plain(d)[k], c)
      BY <2>2, <2>3
    <3>2. CASE k = 3
      <4>1. cl.args[3].kind # "const"
        BY <1>4 DEF IsBase, Separated
      <4>2. ASSUME cl.args[3].kind = "var"
            PROVE  Stored(d)[3] = b[cl.args[3].x]
        <5>1. cl.args[3].x \in VarsAt(cl.args, ValueColumn(cl))
          BY <2>1, <4>2 DEF VarsAt
        <5>2. cl.args[3].x \in ValueVars(r)
          BY <5>1 DEF ValueVars
        <5>3. cl.args[3].x \in AllVars(r)
          BY <2>1, <4>2, VarKnown
        <5>4. b[cl.args[3].x] = BlobVal(c[cl.args[3].x].x)
          BY <5>2, <5>3 DEF StoredBy
        <5>5. Plain(d)[3] = c[cl.args[3].x]
          BY <3>1, <3>2, <4>2 DEF Agrees
        <5> QED
          BY <5>4, <5>5 DEF Plain, Stored, IntVal
      <4> QED
        BY <3>2, <4>1, <4>2 DEF Agrees
    <3>3. CASE k # 3
      <4>1. Stored(d)[k] = Plain(d)[k]
        <5>1. k = 1 \/ k = 2 \/ k = 4
          BY <3>3
        <5> QED
          BY <5>1 DEF Stored, Plain
      <4>2. cl.args[k].kind = "var" => b[cl.args[k].x] = c[cl.args[k].x]
        BY <1>3, <2>1, <3>3
      <4> HIDE DEF b
      <4> QED
        BY <3>1, <4>1, <4>2 DEF Agrees
    <3> QED
      BY <3>2, <3>3
  <2>5. Stored(d) \in StoredRows
    BY DEF StoredRows
  <2> QED
    BY <1>4, <2>1, <2>4, <2>5 DEF Satisfies
<1>5. CASE cl.kind = "expr"
  <2>1. Len(cl.args) = 2 /\ ValueColumn(cl) = {}
    BY <1>1, <1>5 DEF Clauses, ValueColumn
  <2>2. Compare(cl.fn, TermValue(cl.args[1], c), TermValue(cl.args[2], c))
    BY <1>2, <1>5 DEF Satisfies
  <2>3. ASSUME NEW j \in 1..2
        PROVE  TermValue(cl.args[j], b) = TermValue(cl.args[j], c)
    BY <1>3, <2>1 DEF TermValue
  <2>4. /\ TermValue(cl.args[1], b) = TermValue(cl.args[1], c)
        /\ TermValue(cl.args[2], b) = TermValue(cl.args[2], c)
    BY <2>3
  <2> HIDE DEF b
  <2>5. Satisfies(cl, b, StoredRows, others)
    BY <1>5, <2>2, <2>4 DEF Satisfies
  <2> QED
    BY <2>5 DEF b
<1> QED
  BY <1>1, <1>4, <1>5

LEMMA SelectStored ==
    ASSUME db \subseteq Datoms, NEW r \in Rules, ~RuleFails(rules, r), IsBase(r),
           NEW tables, NEW u \in Consequences(r, PlainRows, tables)
    PROVE  \E w \in BaseRows(r) : u = MeantTuple(w)
<1>1. PICK c : Holds(r, c, PlainRows, tables) /\ u = HeadOf(r, c)
  BY ConsequencesAre
<1> DEFINE b == StoredBy(r, c)
<1>2. \A x \in AllVars(r) : c[x] = IntVal(c[x].x) /\ c[x].x \in Dom
  BY <1>1, PlainKinds DEF IsBase
<1>3. \A x \in AllVars(r) : b[x] \in SQLValues /\ IntVal(b[x].x) = c[x]
  <2> SUFFICES ASSUME NEW x \in AllVars(r)
               PROVE  b[x] \in SQLValues /\ IntVal(b[x].x) = c[x]
    OBVIOUS
  <2>1. c[x] = IntVal(c[x].x) /\ c[x].x \in Dom
    BY <1>2
  <2>2. b[x] = IF x \in ValueVars(r) THEN BlobVal(c[x].x) ELSE c[x]
    BY DEF StoredBy
  <2>3. BlobVal(c[x].x).x = c[x].x
    BY DEF BlobVal
  <2>4. BlobVal(c[x].x) \in SQLValues /\ IntVal(c[x].x) \in SQLValues
    BY <2>1 DEF SQLValues
  <2> HIDE DEF b
  <2> QED
    BY <2>1, <2>2, <2>3, <2>4
<1>4. b \in [AllVars(r) -> SQLValues]
  BY <1>3 DEF StoredBy
<1>5. Holds(r, b, StoredRows, Empty(rules))
  <2>1. \A i \in 1..Len(r.body) : Satisfies(r.body[i], b, StoredRows, Empty(rules))
    BY <1>1, ClauseStored
  <2> QED
    BY <1>4, <2>1 DEF Holds
<1> HIDE DEF b
<1>6. HeadOf(r, b) \in BaseRows(r)
  BY <1>5, ConsequencesAre DEF BaseRows
<1>7. u = MeantTuple(HeadOf(r, b))
  <2>1. ASSUME NEW i \in 1..Len(r.head)
        PROVE  IntVal(TermValue(r.head[i], b).x) = TermValue(r.head[i], c)
    <3>1. r.head[i].kind \in {"var", "const"} /\ (r.head[i].kind = "var" => r.head[i].x \in AllVars(r))
      BY HeadKnown
    <3>2. CASE r.head[i].kind = "var"
      BY <1>3, <3>1, <3>2 DEF TermValue
    <3>3. CASE r.head[i].kind = "const"
      BY <3>3 DEF TermValue, IntVal
    <3> QED
      BY <3>1, <3>2, <3>3
  <2> QED
    BY <1>1, <2>1 DEF HeadOf, MeantTuple
<1> QED
  BY <1>6, <1>7

\* A rule of BaseSQL waits for its insert, or its rows are there.
BaseDone(r) == BaseRows(r) \subseteq derived[r.name]
BaseWaits(r) ==
    /\ pc = "base" => \E k \in 1..Len(plan.base) :
                         /\ plan.base[k] = InsertOf(r, {})
                         /\ k < pos => BaseDone(r)
    /\ pc \in {"delta", "done"} => BaseDone(r)

BaseInv ==
    /\ PlanInv
    /\ pc = "plan" => pos = 1
    /\ \A i \in 1..Len(rules) : IsBase(rules[i]) => BaseWaits(rules[i])

LEMMA RuleFacts ==
    ASSUME PlanInv, ~PlanFails(rules), NEW i \in 1..Len(rules)
    PROVE  /\ db \subseteq Datoms
           /\ rules[i] \in Rules
           /\ ~RuleFails(rules, rules[i])
           /\ rules[i].name \in ruleNames(rules)
<1>1. rules \in Seq(Rules) /\ db \subseteq Datoms
  BY RulesAssumption, DatabasesAssumption DEF PlanInv
<1> QED
  BY <1>1 DEF PlanFails, ruleNames

LEMMA ExecuteGrows ==
    ASSUME PlanInv, ~PlanFails(rules), NEW st \in Statements(rules), Execute(st),
           NEW n \in ruleNames(rules)
    PROVE  derived[n] \subseteq derived'[n]
BY DEF Execute, PlanInv

\* The insert of a base rule adds its rows, and no statement removes any.
LEMMA ExecuteBase ==
    ASSUME PlanInv, ~PlanFails(rules), NEW st \in Statements(rules), Execute(st),
           UNCHANGED <<db, rules>>, NEW i \in 1..Len(rules), IsBase(rules[i]),
           BaseDone(rules[i]) \/ st = InsertOf(rules[i], {})
    PROVE  BaseDone(rules[i])'
<1> DEFINE r == rules[i]
<1>1. /\ db \subseteq Datoms
      /\ r \in Rules
      /\ ~RuleFails(rules, r)
      /\ r.name \in ruleNames(rules)
  BY RuleFacts
<1>2. BaseRows(r)' = BaseRows(r)
  BY DEF BaseRows, StoredRows, Empty, ruleNames, Consequences, SQLValues
<1>3. derived[r.name] \subseteq derived'[r.name]
  BY <1>1, ExecuteGrows
<1>4. CASE BaseDone(r)
  BY <1>2, <1>3, <1>4 DEF BaseDone
<1>5. CASE st = InsertOf(r, {})
  <2>1. st.op = "insert" /\ st.rule = r /\ st.uses = {}
    BY <1>5 DEF InsertOf
  <2>2. derived' = [derived EXCEPT ![r.name] = derived[r.name] \cup ruleBodyToSQL(r, {})]
    BY <2>1 DEF Execute
  <2>3. ruleBodyToSQL(r, {}) \subseteq derived'[r.name]
    BY <1>1, <2>2 DEF PlanInv
  <2>4. ruleBodyToSQL(r, {}) = Consequences(r, StoredRows, Sources({}))
    BY <1>1, BoundSame DEF ruleBodyToSQL, StoredRows, IsBase, Separated
  <2>5. Consequences(r, StoredRows, Sources({})) = BaseRows(r)
    BY <1>1, SameSelection DEF BaseRows, IsBase
  <2> QED
    BY <1>2, <2>3, <2>4, <2>5 DEF BaseDone
<1> QED
  BY <1>4, <1>5

\* The rows a rule selects are the same in the next state.
LEMMA SameDone ==
    ASSUME UNCHANGED <<db, rules, derived>>, NEW r
    PROVE  BaseDone(r)' <=> BaseDone(r)
BY DEF BaseDone, BaseRows, StoredRows, Empty, ruleNames, Consequences

LEMMA BaseStep == BaseInv /\ [Next]_vars => BaseInv'
<1> SUFFICES ASSUME BaseInv, [Next]_vars
             PROVE  BaseInv'
  OBVIOUS
<1>1. PlanInv /\ PlanInv'
  BY PlanStep DEF BaseInv
<1>2. rules' = rules /\ db' = db
  BY DEF Next, vars, PlanRecursive, RunBase, RunDelta, NextRound
<1>3. (pc = "plan" => pos = 1)'
  BY DEF BaseInv, Next, vars, PlanRecursive, RunBase, RunDelta, NextRound
<1>4. ASSUME NEW i \in 1..Len(rules), IsBase(rules[i])
      PROVE  BaseWaits(rules[i])'
  <2> DEFINE r == rules[i]
  <2>1. BaseWaits(r)
    BY <1>4 DEF BaseInv
  <2>2. CASE UNCHANGED vars
    <3>1. BaseDone(r)' <=> BaseDone(r)
      BY <2>2, SameDone DEF vars
    <3> QED
      BY <1>2, <2>1, <2>2, <3>1 DEF BaseWaits, vars
  <2>3. CASE PlanRecursive
    <3>1. pc' \in {"error", "base"} /\ pos' = 1
      BY <2>3 DEF PlanRecursive, BaseInv
    <3>2. CASE pc' = "base"
      <4>1. \E k \in 1..Len(plan'.base) : plan'.base[k] = InsertOf(r, {})
        BY <1>1, <1>4, <2>3, <3>2, PlanMade DEF IsBase
      <4>2. PICK k \in 1..Len(plan'.base) : plan'.base[k] = InsertOf(r, {})
        BY <4>1
      <4>3. ~(k < pos')
        BY <3>1
      <4> QED
        BY <1>2, <3>2, <4>2, <4>3 DEF BaseWaits
    <3>3. CASE pc' = "error"
      BY <1>2, <3>3 DEF BaseWaits
    <3> QED
      BY <3>1, <3>2, <3>3
  <2>4. CASE RunBase
    <3>1. /\ pc = "base" /\ pc' = "base" /\ pos' = pos + 1 /\ pos \in Nat
          /\ plan' = plan
      BY <1>1, <2>4 DEF RunBase, PlanInv
    <3>2. PICK k \in 1..Len(plan.base) : plan.base[k] = InsertOf(r, {}) /\ (k < pos => BaseDone(r))
      BY <2>1, <3>1 DEF BaseWaits
    <3>3. ASSUME k < pos'
          PROVE  BaseDone(r)'
      <4>1. k < pos \/ k = pos
        BY <3>1, <3>3
      <4>2. BaseDone(r) \/ plan.base[pos] = InsertOf(r, {})
        BY <3>2, <4>1
      <4>3. /\ Execute(plan.base[pos])
            /\ plan.base[pos] \in Statements(rules)
            /\ ~PlanFails(rules)
        BY <1>1, <2>4, Running
      <4> QED
        BY <1>1, <1>2, <1>4, <4>2, <4>3, ExecuteBase
    <3> QED
      BY <1>2, <3>1, <3>2, <3>3 DEF BaseWaits
  <2>5. CASE RunDelta
    <3>1. pc = "delta" /\ pc' = "delta"
      BY <2>5 DEF RunDelta
    <3>2. BaseDone(r)
      BY <2>1, <3>1 DEF BaseWaits
    <3>3. /\ Execute(plan.iter[pos])
          /\ plan.iter[pos] \in Statements(rules)
          /\ ~PlanFails(rules)
      BY <1>1, <2>5, Running
    <3>4. BaseDone(r)'
      BY <1>1, <1>2, <1>4, <3>2, <3>3, ExecuteBase
    <3> QED
      BY <1>2, <3>1, <3>4 DEF BaseWaits
  <2>6. CASE NextRound
    <3>1. BaseDone(r)
      <4>1. CASE pc = "base"
        <5>1. pos > Len(plan.base) /\ Len(plan.base) \in Nat /\ pos \in Nat
          BY <1>1, <2>6, <4>1 DEF NextRound, PlanInv
        <5>2. PICK k \in 1..Len(plan.base) : k < pos => BaseDone(r)
          BY <2>1, <4>1 DEF BaseWaits
        <5>3. k < pos
          BY <5>1
        <5> QED
          BY <5>2, <5>3
      <4>2. CASE pc = "delta"
        BY <2>1, <4>2 DEF BaseWaits
      <4> QED
        BY <2>6, <4>1, <4>2 DEF NextRound
    <3>2. BaseDone(r)'
      BY <2>6, <3>1, SameDone DEF NextRound
    <3>3. pc' # "base"
      BY <2>6 DEF NextRound
    <3> QED
      BY <1>2, <3>2, <3>3 DEF BaseWaits
  <2> QED
    BY <2>2, <2>3, <2>4, <2>5, <2>6 DEF Next
<1>5. (\A i \in 1..Len(rules) : IsBase(rules[i]) => BaseWaits(rules[i]))'
  <2> SUFFICES ASSUME NEW i \in 1..Len(rules'), IsBase(rules[i])'
               PROVE  BaseWaits(rules[i])'
    OBVIOUS
  <2>1. i \in 1..Len(rules)
    BY <1>2
  <2>2. IsBase(rules[i])
    BY <1>2 DEF IsBase
  <2> QED
    BY <2>1, <2>2, <1>4
<1> QED
  BY <1>1, <1>3, <1>5 DEF BaseInv

\* Whatever rules PlanRecursive accepts, when the loop stops the _rule_ tables
\* hold everything that follows by the rules that refer to no rule and keep
\* values apart.
THEOREM BaseAlwaysComplete == Spec => []BaseIsComplete
<1>1. Init => BaseInv
  BY PlanInit DEF Init, BaseInv, BaseWaits
<1>2. BaseInv => BaseIsComplete
  <2> SUFFICES ASSUME BaseInv, pc = "done", NEW i \in 1..Len(rules), IsBase(rules[i]),
                      NEW u \in Consequences(rules[i], {Plain(d) : d \in db}, Known)
               PROVE  u \in Known[rules[i].name]
    BY DEF BaseIsComplete, ClosedUnder, IsBase
  <2>1. PlanInv /\ ~PlanFails(rules)
    BY DEF BaseInv, PlanInv
  <2>2. /\ db \subseteq Datoms
        /\ rules[i] \in Rules
        /\ ~RuleFails(rules, rules[i])
        /\ rules[i].name \in ruleNames(rules)
    BY <2>1, RuleFacts
  <2>3. u \in Consequences(rules[i], PlainRows, Known)
    BY DEF PlainRows
  <2>4. PICK w \in BaseRows(rules[i]) : u = MeantTuple(w)
    BY <2>2, <2>3, SelectStored
  <2>5. w \in derived[rules[i].name]
    BY DEF BaseInv, BaseDone, BaseWaits
  <2> QED
    BY <2>2, <2>4, <2>5 DEF Known, Meaning, MeantTuple
<1> QED
  BY <1>1, <1>2, BaseStep, PTL DEF Spec
=============================================================================
