--------------------------- MODULE RegistryProofs ---------------------------
(***************************************************************************)
(* Proofs about Registry, for any callers, idents, definitions and bounds. *)
(***************************************************************************)
EXTENDS Registry, TLAPS

Busy == {"begin", "insert", "commit", "put"}

\* A call in progress has an ID of its own.
Owned ==
    \A c \in Clients : pc[c] \in Busy =>
        /\ req[c] \in Attribute /\ req[c].id < nextEID
        /\ \A d \in Clients : pc[d] \in Busy /\ req[d].id = req[c].id => d = c

\* What is about to be committed clashes with no stored attribute.
Committing ==
    \A c \in Clients : pc[c] = "commit" =>
        inserted = {req[c]} /\ ~Clashes(req[c], attributes)

\* Unless a COMMIT failed, what is about to enter the cache is stored.
Putting ==
    ~lost => \A c \in Clients : pc[c] = "put" => req[c] \in attributes

\* Unless a COMMIT failed, an answer is about the attribute stored under the ident.
Answered ==
    ~lost => \A c \in Clients : pc[c] = "idle" /\ result[c] \in {"nil", "differs"} =>
        /\ req[c] \in Attribute
        /\ \E x \in attributes : /\ x.ident = req[c].ident
                                 /\ result[c] = "nil" <=> x.def = req[c].def

\* Both indexes of the cache hold the same stored attributes.
Cached == ~lost => byIdent = byID /\ byIdent \subseteq attributes

IInv == TypeOK /\ Owned /\ Committing /\ StoreKeyed /\ Putting /\ Answered /\ Cached

-----------------------------------------------------------------------------
LEMMA InitInv == Init => IInv
  <1> SUFFICES ASSUME Init PROVE IInv
    OBVIOUS
  <1> USE DEF Init
  <1>1. TypeOK
    BY ConstantsAssumption DEF TypeOK
  <1>2. Owned /\ Committing /\ Putting
    BY DEF Owned, Committing, Putting, Busy
  <1>3. StoreKeyed /\ Answered /\ Cached
    BY DEF StoreKeyed, Answered, Cached
  <1> QED BY <1>1, <1>2, <1>3 DEF IInv

\* An answer from the cache.
LEMMA DefineCachedInv ==
  ASSUME IInv, NEW c \in Clients, DefineCached(c)
  PROVE  IInv'
  <1> USE DEF IInv
  <1>0. /\ pc[c] = "idle" /\ pc' = [pc EXCEPT ![c] = "idle"]
        /\ UNCHANGED <<attributes, inserted, byIdent, byID, writer, nextEID, opens, lost>>
    BY DEF DefineCached, Return
  <1>1. PICK i \in Idents, d \in Defs, x \in byIdent :
          /\ x.ident = i
          /\ req' = [req EXCEPT ![c] = [id |-> 0, ident |-> i, def |-> d]]
          /\ result' = [result EXCEPT ![c] = IF x.def = d THEN "nil" ELSE "differs"]
    BY DEF DefineCached, GetByIdent, Return
  <1>2. pc' = pc
    BY <1>0 DEF TypeOK
  <1>3. TypeOK'
    BY <1>0, <1>1, <1>2 DEF TypeOK, Attribute
  <1>4. \A e \in Clients : pc[e] \in Busy => req'[e] = req[e]
    BY <1>0, <1>1 DEF TypeOK, Busy
  <1>5. Owned' /\ Committing' /\ Putting'
    BY <1>0, <1>2, <1>4 DEF Owned, Committing, Putting, Clashes, Busy
  <1>6. StoreKeyed' /\ Cached'
    BY <1>0 DEF StoreKeyed, Cached
  <1>7. Answered'
    <2> SUFFICES ASSUME ~lost, NEW e \in Clients, pc[e] = "idle", result'[e] \in {"nil", "differs"}
                 PROVE  /\ req'[e] \in Attribute
                        /\ \E y \in attributes : /\ y.ident = req'[e].ident
                                                 /\ result'[e] = "nil" <=> y.def = req'[e].def
      BY <1>0, <1>2 DEF Answered
    <2>1. CASE e = c
      BY <2>1, <1>1 DEF TypeOK, Cached, Attribute
    <2>2. CASE e # c
      BY <2>2, <1>1 DEF TypeOK, Answered
    <2> QED BY <2>1, <2>2
  <1> QED BY <1>3, <1>5, <1>6, <1>7

\* A new ID is above the others.
LEMMA DefineNewInv ==
  ASSUME IInv, NEW c \in Clients, DefineNew(c)
  PROVE  IInv'
  <1> USE DEF IInv
  <1>0. /\ pc[c] = "idle" /\ pc' = [pc EXCEPT ![c] = "begin"]
        /\ nextEID' = nextEID + 1
        /\ result' = [result EXCEPT ![c] = "none"]
        /\ UNCHANGED <<attributes, inserted, byIdent, byID, writer, opens, lost>>
    BY DEF DefineNew
  <1>1. PICK i \in Idents, d \in Defs :
          req' = [req EXCEPT ![c] = [id |-> nextEID, ident |-> i, def |-> d]]
    BY DEF DefineNew
  <1>2. TypeOK'
    BY <1>0, <1>1 DEF TypeOK, Attribute
  <1>3. \A e \in Clients : e # c => pc'[e] = pc[e] /\ req'[e] = req[e] /\ result'[e] = result[e]
    BY <1>0, <1>1 DEF TypeOK
  <1>4. pc'[c] = "begin" /\ req'[c] \in Attribute /\ req'[c].id = nextEID
    BY <1>0, <1>1 DEF TypeOK, Attribute
  <1>5. \A e \in Clients : req[e] \in Attribute => req[e].id \in Nat
    BY DEF Attribute
  <1>6. Owned'
    BY <1>0, <1>3, <1>4, <1>5 DEF Owned, Busy, TypeOK
  <1>7. Committing' /\ Putting'
    BY <1>0, <1>3, <1>4 DEF Committing, Putting, Clashes
  <1>8. StoreKeyed'
    BY <1>0 DEF StoreKeyed, TypeOK, Attribute
  <1>9. Answered' /\ Cached'
    BY <1>0, <1>3, <1>4 DEF Answered, Cached
  <1> QED BY <1>2, <1>6, <1>7, <1>8, <1>9

\* The call ends with an error and nothing inserted: BeginFails, InsertFails, Interrupted.
LEMMA ErrorInv ==
  ASSUME IInv, NEW c \in Clients, BeginFails(c) \/ InsertFails(c) \/ Interrupted(c)
  PROVE  IInv'
  <1> USE DEF IInv
  <1>0. /\ pc[c] \in {"begin", "insert"} /\ pc' = [pc EXCEPT ![c] = "idle"]
        /\ writer' = IF pc[c] = "begin" THEN writer ELSE NoClient
        /\ \E r \in {"busy", "unique", "interrupted"} : result' = [result EXCEPT ![c] = r]
        /\ UNCHANGED <<attributes, inserted, byIdent, byID, nextEID, opens, req, lost>>
    BY DEF BeginFails, InsertFails, Interrupted, Return
  <1>1. PICK r \in {"busy", "unique", "interrupted"} : result' = [result EXCEPT ![c] = r]
    BY <1>0
  <1>2. \A e \in Clients : e # c => pc'[e] = pc[e] /\ result'[e] = result[e]
    BY <1>0, <1>1 DEF TypeOK
  <1>3. pc'[c] = "idle" /\ result'[c] = r
    BY <1>0, <1>1 DEF TypeOK
  <1>4. TypeOK'
    BY <1>0, <1>1, ConstantsAssumption DEF TypeOK
  <1>5. Owned' /\ Committing' /\ Putting'
    BY <1>0, <1>2, <1>3 DEF Owned, Committing, Putting, Clashes, Busy
  <1>6. StoreKeyed' /\ Cached'
    BY <1>0 DEF StoreKeyed, Cached
  <1>7. Answered'
    BY <1>0, <1>2, <1>3 DEF Answered
  <1> QED BY <1>4, <1>5, <1>6, <1>7

LEMMA BeginInv ==
  ASSUME IInv, NEW c \in Clients, BeginImmediate(c)
  PROVE  IInv'
  <1> USE DEF IInv, BeginImmediate
  <1>1. TypeOK'
    BY ConstantsAssumption DEF TypeOK
  <1>2. \A e \in Clients : e # c => pc'[e] = pc[e]
    BY DEF TypeOK
  <1>3. pc'[c] = "insert"
    BY DEF TypeOK
  <1>4. Owned' /\ Committing' /\ Putting'
    BY <1>2, <1>3 DEF Owned, Committing, Putting, Clashes, Busy
  <1>5. StoreKeyed' /\ Answered' /\ Cached'
    BY <1>2, <1>3 DEF StoreKeyed, Answered, Cached
  <1> QED BY <1>1, <1>4, <1>5

\* The constraints of the table are those Committing speaks of.
LEMMA InsertInv ==
  ASSUME IInv, NEW c \in Clients, Insert(c)
  PROVE  IInv'
  <1> USE DEF IInv, Insert
  <1>1. \A e \in Clients : e # c => pc'[e] = pc[e]
    BY DEF TypeOK
  <1>2. pc'[c] = "commit"
    BY DEF TypeOK
  <1>3. writer = c /\ \A e \in Clients : pc[e] # "commit"
    BY DEF TypeOK
  <1>4. TypeOK'
    BY <1>1, <1>2, <1>3 DEF TypeOK, Owned, Busy
  <1>5. Owned' /\ Committing' /\ Putting'
    BY <1>1, <1>2, <1>3 DEF Owned, Committing, Putting, Clashes, Busy
  <1>6. StoreKeyed' /\ Answered' /\ Cached'
    BY <1>1, <1>2 DEF StoreKeyed, Answered, Cached
  <1> QED BY <1>4, <1>5, <1>6

\* The row inserted enters the table, or is lost.
LEMMA CommitInv ==
  ASSUME IInv, NEW c \in Clients, Commit(c) \/ CommitFails(c)
  PROVE  IInv'
  <1> USE DEF IInv
  <1>0. /\ pc[c] = "commit" /\ pc' = [pc EXCEPT ![c] = "put"]
        /\ inserted' = {} /\ writer' = NoClient
        /\ UNCHANGED <<byIdent, byID, nextEID, opens, req, result>>
        /\ \/ attributes' = attributes \cup inserted /\ lost' = lost
           \/ attributes' = attributes /\ lost' = TRUE
    BY DEF Commit, CommitFails, EndTransaction
  <1>1. \A e \in Clients : e # c => pc'[e] = pc[e] /\ pc[e] \notin {"insert", "commit"}
    BY <1>0 DEF TypeOK
  <1>2. pc'[c] = "put"
    BY <1>0 DEF TypeOK
  <1>3. /\ inserted = {req[c]} /\ req[c] \in Attribute /\ req[c].id < nextEID
        /\ \A x \in attributes : x.ident # req[c].ident /\ x.id # req[c].id
    BY <1>0 DEF Committing, Owned, Clashes, Busy
  <1>4. TypeOK'
    BY <1>0, <1>1, <1>2, ConstantsAssumption DEF TypeOK
  <1>5. Owned' /\ Committing'
    BY <1>0, <1>1, <1>2 DEF Owned, Committing, Busy
  <1>6. StoreKeyed'
    BY <1>0, <1>3 DEF StoreKeyed
  <1>7. attributes \subseteq attributes' /\ (~lost' => ~lost /\ req[c] \in attributes')
    BY <1>0, <1>3
  <1>8. Putting' /\ Answered' /\ Cached'
    BY <1>0, <1>1, <1>2, <1>7 DEF Putting, Answered, Cached
  <1> QED BY <1>4, <1>5, <1>6, <1>8

\* Unless a COMMIT failed, put adds a stored attribute and removes none: the
\* table has one attribute per ident and per ID.
LEMMA PutAdds ==
  ASSUME IInv, ~lost, NEW c \in Clients, pc[c] = "put"
  PROVE  /\ PutByIdent(byIdent, req[c]) = byIdent \cup {req[c]}
         /\ PutByID(byID, req[c]) = byID \cup {req[c]}
         /\ req[c] \in attributes
  BY DEF IInv, Cached, Putting, StoreKeyed, PutByIdent, PutByID

LEMMA PutInv ==
  ASSUME IInv, NEW c \in Clients, Put(c)
  PROVE  IInv'
  <1> USE DEF IInv
  <1>0. /\ pc[c] = "put" /\ pc' = [pc EXCEPT ![c] = "idle"]
        /\ byIdent' = PutByIdent(byIdent, req[c]) /\ byID' = PutByID(byID, req[c])
        /\ result' = [result EXCEPT ![c] = "nil"]
        /\ UNCHANGED <<attributes, inserted, writer, nextEID, opens, req, lost>>
    BY DEF Put, Return
  <1>1. \A e \in Clients : e # c => pc'[e] = pc[e] /\ result'[e] = result[e]
    BY <1>0 DEF TypeOK
  <1>2. pc'[c] = "idle" /\ result'[c] = "nil" /\ req[c] \in Attribute
    BY <1>0 DEF TypeOK, Owned, Busy
  <1>3. byIdent' \subseteq Attribute /\ byID' \subseteq Attribute
    BY <1>0, <1>2 DEF TypeOK, PutByIdent, PutByID
  <1>4. TypeOK'
    BY <1>0, <1>1, <1>2, <1>3 DEF TypeOK
  <1>5. Owned' /\ Committing' /\ Putting'
    BY <1>0, <1>1, <1>2 DEF Owned, Committing, Putting, Clashes, Busy
  <1>6. StoreKeyed'
    BY <1>0 DEF StoreKeyed
  <1>7. Cached'
    BY <1>0, PutAdds DEF Cached
  <1>8. Answered'
    BY <1>0, <1>1, <1>2, PutAdds DEF Answered
  <1> QED BY <1>4, <1>5, <1>6, <1>7, <1>8

\* Reopening reads the cache and the counter from the table.
LEMMA ReopenInv ==
  ASSUME IInv, Reopen
  PROVE  IInv'
  <1> USE DEF IInv
  <1>1. PICK rows \in {{}, inserted} :
          /\ attributes' = attributes \cup rows
          /\ byIdent' = attributes \cup rows /\ byID' = attributes \cup rows
          /\ nextEID' \in loadEID(attributes \cup rows)
    BY DEF Reopen
  <1>2. /\ pc' = [c \in Clients |-> "idle"] /\ req' = [c \in Clients |-> NoReq]
        /\ result' = [c \in Clients |-> "none"]
        /\ inserted' = {} /\ writer' = NoClient /\ opens' = opens + 1 /\ lost' = FALSE
    BY DEF Reopen
  <1>3. attributes' \subseteq Attribute
    BY <1>1 DEF TypeOK
  <1>4. /\ nextEID' \in Nat
        /\ \A x \in attributes' : x.id < nextEID'
    BY <1>1, <1>3 DEF loadEID, Attribute
  <1>5. \A x, y \in attributes' : (x.ident = y.ident \/ x.id = y.id) => x = y
    <2>1. CASE rows = {}
      BY <2>1, <1>1 DEF StoreKeyed
    <2>2. CASE rows = inserted /\ inserted # {}
      <3>1. PICK c \in Clients : pc[c] = "commit"
        BY <2>2 DEF TypeOK
      <3>2. /\ inserted = {req[c]}
            /\ \A x \in attributes : x.ident # req[c].ident /\ x.id # req[c].id
        BY <3>1 DEF Committing, Clashes
      <3> QED BY <1>1, <2>2, <3>2 DEF StoreKeyed
    <2> QED BY <2>1, <2>2
  <1>6. TypeOK'
    <2>1. byIdent' \subseteq Attribute /\ byID' \subseteq Attribute /\ opens' \in Nat
      BY <1>1, <1>2, <1>3 DEF TypeOK
    <2> QED BY <1>2, <1>3, <1>4, <2>1, ConstantsAssumption DEF TypeOK
  <1>7. Owned' /\ Committing' /\ Putting' /\ Answered' /\ Cached'
    BY <1>1, <1>2 DEF Owned, Committing, Putting, Answered, Cached, Busy
  <1> QED BY <1>4, <1>5, <1>6, <1>7 DEF StoreKeyed

LEMMA StepInv == IInv /\ [Next]_vars => IInv'
  <1> SUFFICES ASSUME IInv, [Next]_vars PROVE IInv'
    OBVIOUS
  <1>1. ASSUME NEW c \in Clients, DefineCached(c) \/ DefineNew(c) PROVE IInv'
    BY <1>1, DefineCachedInv, DefineNewInv
  <1>2. ASSUME NEW c \in Clients, BeginFails(c) \/ InsertFails(c) \/ Interrupted(c) PROVE IInv'
    BY <1>2, ErrorInv
  <1>3. ASSUME NEW c \in Clients, BeginImmediate(c) \/ Insert(c) PROVE IInv'
    BY <1>3, BeginInv, InsertInv
  <1>4. ASSUME NEW c \in Clients, Commit(c) \/ CommitFails(c) \/ Put(c) PROVE IInv'
    BY <1>4, CommitInv, PutInv
  <1>5. CASE Reopen
    BY <1>5, ReopenInv
  <1>6. CASE UNCHANGED vars
    <2> USE <1>6 DEF vars, clients, IInv
    <2>1. TypeOK' /\ StoreKeyed' /\ Cached'
      BY DEF TypeOK, StoreKeyed, Cached
    <2>2. Owned' /\ Committing' /\ Putting' /\ Answered'
      BY DEF Owned, Committing, Putting, Answered, Clashes
    <2> QED BY <2>1, <2>2
  <1> QED BY <1>1, <1>2, <1>3, <1>4, <1>5, <1>6 DEF Next

LEMMA AlwaysInv == Spec => []IInv
  BY InitInv, StepInv, PTL DEF Spec

\* The types of the registry; a caller is in its transaction exactly while it
\* holds the write lock (withWriteConn).
THEOREM TypeCorrect == Spec => []TypeOK
  <1>1. IInv => TypeOK
    BY DEF IInv
  <1> QED BY <1>1, AlwaysInv, PTL

\* Races of DefineAttribute, lost commits and restarts leave one stored
\* attribute per ident and per ID, all below the next ID to hand out.
THEOREM StoreAlwaysKeyed == Spec => []StoreKeyed
  <1>1. IInv => StoreKeyed
    BY DEF IInv
  <1> QED BY <1>1, AlwaysInv, PTL

\* Unless a COMMIT failed, the cache DefineAttribute fills holds stored
\* attributes only.
THEOREM CacheAlwaysStored == Spec => []CachedIsStored
  <1>1. IInv => CachedIsStored
    BY DEF IInv, Cached, CachedIsStored
  <1> QED BY <1>1, AlwaysInv, PTL

\* Unless a COMMIT failed, the two indexes put fills hold the same attributes,
\* one per ident and one per ID.
THEOREM CacheAlwaysCoherent == Spec => []CacheCoherent
  <1>1. IInv => CacheCoherent
    BY DEF IInv, Cached, StoreKeyed, CacheCoherent
  <1> QED BY <1>1, AlwaysInv, PTL

\* Unless a COMMIT failed, what DefineAttribute answered stays true of the
\* table, whatever other callers define later.
THEOREM AnswersAlwaysAgree == Spec => []AnswersAgree
  <1>1. IInv => AnswersAgree
    BY DEF IInv, Answered, StoreKeyed, AnswersAgree
  <1> QED BY <1>1, AlwaysInv, PTL

\* No step of DefineAttribute or of a restart redefines or drops an attribute,
\* and put replaces nothing in the cache unless a COMMIT failed.
THEOREM DefinitionsStay == Spec => DefinitionsAreForever
  <1> DEFINE Grows == /\ attributes \subseteq attributes'
                      /\ opens' = opens /\ ~lost => byIdent \subseteq byIdent'
  <1>1. IInv /\ [Next]_vars => [Grows]_vars
    <2> SUFFICES ASSUME IInv, Next PROVE Grows
      OBVIOUS
    <2>1. ASSUME NEW c \in Clients, DefineCached(c) \/ DefineNew(c) \/ BeginFails(c)
                   \/ BeginImmediate(c) \/ Insert(c) \/ InsertFails(c) \/ Interrupted(c)
          PROVE  Grows
      BY <2>1 DEF DefineCached, DefineNew, BeginFails, BeginImmediate, Insert, InsertFails,
                  Interrupted
    <2>2. ASSUME NEW c \in Clients, Commit(c) \/ CommitFails(c) PROVE Grows
      BY <2>2 DEF Commit, CommitFails, EndTransaction
    <2>3. ASSUME NEW c \in Clients, Put(c) PROVE Grows
      BY <2>3, PutAdds DEF Put
    <2>4. CASE Reopen
      BY <2>4 DEF Reopen, IInv, TypeOK
    <2> QED BY <2>1, <2>2, <2>3, <2>4 DEF Next
  <1> QED BY <1>1, AlwaysInv, PTL DEF Spec, DefinitionsAreForever
=============================================================================
