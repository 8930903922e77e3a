------------------------------ MODULE Registry ------------------------------
(***************************************************************************)
(* DefineAttribute and the schema cache (attributes.go), with the write    *)
(* transaction and the restart of pool.go. A definition is the six fields  *)
(* DefineAttribute compares; the cache is keyed by ident and by ID.        *)
(***************************************************************************)
EXTENDS Naturals

CONSTANTS
    Clients,        \* goroutines that call DefineAttribute
    NoClient,       \* the write lock is free
    Idents,         \* attribute names
    Defs,           \* definitions
    MaxID,          \* bound: IDs handed out
    MaxOpens        \* bound: restarts

ASSUME ConstantsAssumption ==
    /\ NoClient \notin Clients
    /\ MaxID \in Nat /\ MaxOpens \in Nat

\* A row of table attributes, which is also a CachedAttribute.
Attribute == [id : Nat, ident : Idents, def : Defs]

\* A client that has not called yet.
NoReq == [id |-> 0]

VARIABLES
    attributes, \* committed rows of table attributes
    inserted,   \* rows inserted by the write transaction in progress
    byIdent,    \* cache: at most one attribute per ident
    byID,       \* cache: at most one attribute per ID
    writer,     \* holder of the write lock
    nextEID,    \* db.nextEID
    opens,      \* restarts so far
    pc, req,    \* where each client is, and the attribute it defines
    result,     \* what its last call returned
    lost        \* history: a COMMIT has failed since Open

clients == <<pc, req, result>>
vars == <<attributes, inserted, byIdent, byID, writer, nextEID, opens, clients,
          lost>>

\* GetByIdent and put.
GetByIdent(cache, i) == {x \in cache : x.ident = i}

PutByIdent(cache, attr) == {x \in cache : x.ident # attr.ident} \cup {attr}

\* Mutant: put fills one index only.
MutPutByIDNothing(cache, attr) == cache
PutByID(cache, attr) == {x \in cache : x.id # attr.id} \cup {attr}

\* loadState: MAX over attributes; the database holds no datoms yet. In the
\* mutant the greatest ID is handed out again.
MutLoadEIDNoIncrement(rows) ==
    {m \in {0} \cup {x.id : x \in rows} : \A x \in rows : x.id <= m}
loadEID(rows) ==
    {m + 1 : m \in {n \in {0} \cup {x.id : x \in rows} :
                        \A x \in rows : x.id <= n}}

Init ==
    /\ attributes = {} /\ inserted = {}
    /\ byIdent = {} /\ byID = {}
    /\ writer = NoClient
    /\ nextEID = 1
    /\ opens = 0
    /\ pc = [c \in Clients |-> "idle"]
    /\ req = [c \in Clients |-> NoReq]
    /\ result = [c \in Clients |-> "none"]
    /\ lost = FALSE

Return(c, r) ==
    /\ pc' = [pc EXCEPT ![c] = "idle"]
    /\ result' = [result EXCEPT ![c] = r]

\* The ident is in the cache, with this definition or another one.
DefineCached(c) ==
    /\ pc[c] = "idle"
    /\ \E i \in Idents, d \in Defs : \E x \in GetByIdent(byIdent, i) :
          /\ req' = [req EXCEPT ![c] = [id |-> 0, ident |-> i, def |-> d]]
          /\ Return(c, IF x.def = d THEN "nil" ELSE "differs")
    /\ UNCHANGED <<attributes, inserted, byIdent, byID, writer, nextEID, opens,
                   lost>>

\* It is not: hand out an ID. The cache lock is released meanwhile.
DefineNew(c) ==
    /\ pc[c] = "idle"
    /\ nextEID <= MaxID
    /\ \E i \in Idents, d \in Defs :
          /\ GetByIdent(byIdent, i) = {}
          /\ req' = [req EXCEPT ![c] = [id |-> nextEID, ident |-> i, def |-> d]]
    /\ nextEID' = nextEID + 1
    /\ pc' = [pc EXCEPT ![c] = "begin"]
    /\ result' = [result EXCEPT ![c] = "none"]
    /\ UNCHANGED <<attributes, inserted, byIdent, byID, writer, opens, lost>>

\* No connection or no write lock in time.
BeginFails(c) ==
    /\ pc[c] = "begin"
    /\ Return(c, "busy")
    /\ UNCHANGED <<attributes, inserted, byIdent, byID, writer, nextEID, opens,
                   req, lost>>

BeginImmediate(c) ==
    /\ pc[c] = "begin"
    /\ writer = NoClient
    /\ writer' = c
    /\ pc' = [pc EXCEPT ![c] = "insert"]
    /\ UNCHANGED <<attributes, inserted, byIdent, byID, nextEID, opens, req,
                   result, lost>>

\* Mutant: ident is not UNIQUE.
MutClashesIDOnly(attr, rows) == \E x \in rows : x.id = attr.id

\* ident is UNIQUE and id the primary key.
Clashes(attr, rows) ==
    \E x \in rows : x.ident = attr.ident \/ x.id = attr.id

Insert(c) ==
    /\ pc[c] = "insert"
    /\ ~Clashes(req[c], attributes)
    /\ inserted' = {req[c]}
    /\ pc' = [pc EXCEPT ![c] = "commit"]
    /\ UNCHANGED <<attributes, byIdent, byID, writer, nextEID, opens, req,
                   result, lost>>

\* Mutant: the transaction is left open.
MutInsertFailsKeepsLock(c) ==
    /\ pc[c] = "insert"
    /\ Clashes(req[c], attributes)
    /\ Return(c, "unique")
    /\ UNCHANGED <<attributes, inserted, byIdent, byID, writer, nextEID, opens,
                   req, lost>>

\* INSERT fails: the (empty) transaction is committed and the error returned.
InsertFails(c) ==
    /\ pc[c] = "insert"
    /\ Clashes(req[c], attributes)
    /\ writer' = NoClient
    /\ Return(c, "unique")
    /\ UNCHANGED <<attributes, inserted, byIdent, byID, nextEID, opens, req,
                   lost>>

\* The INSERT is interrupted or hits an I/O error: rolled back and reported.
Interrupted(c) ==
    /\ pc[c] = "insert"
    /\ writer' = NoClient
    /\ Return(c, "interrupted")
    /\ UNCHANGED <<attributes, inserted, byIdent, byID, nextEID, opens, req,
                   lost>>

\* COMMIT of rows, or its failure, which withWriteConn does not report.
EndTransaction(c, rows) ==
    /\ pc[c] = "commit"
    /\ attributes' = attributes \cup rows
    /\ inserted' = {}
    /\ writer' = NoClient
    /\ pc' = [pc EXCEPT ![c] = "put"]
    /\ UNCHANGED <<byIdent, byID, nextEID, opens, req, result>>

\* Mutant: the row never reaches the table.
MutCommitLoses(c) == EndTransaction(c, {}) /\ UNCHANGED lost
Commit(c) == EndTransaction(c, inserted) /\ UNCHANGED lost

CommitFails(c) == EndTransaction(c, {}) /\ lost' = TRUE

Put(c) ==
    /\ pc[c] = "put"
    /\ byIdent' = PutByIdent(byIdent, req[c])
    /\ byID' = PutByID(byID, req[c])
    /\ Return(c, "nil")
    /\ UNCHANGED <<attributes, inserted, writer, nextEID, opens, req, lost>>

\* Crash or Close, then Open with loadState and loadAttributes.
Reopen ==
    /\ opens < MaxOpens
    /\ opens' = opens + 1
    /\ \E rows \in {{}, inserted} :
          /\ attributes' = attributes \cup rows
          /\ byIdent' = attributes \cup rows
          /\ byID' = attributes \cup rows
          /\ nextEID' \in loadEID(attributes \cup rows)
    /\ inserted' = {}
    /\ writer' = NoClient
    /\ pc' = [c \in Clients |-> "idle"]
    /\ result' = [c \in Clients |-> "none"]
    /\ req' = [c \in Clients |-> NoReq]
    /\ lost' = FALSE

Next == \/ \E c \in Clients : \/ DefineCached(c) \/ DefineNew(c)
                              \/ BeginFails(c) \/ BeginImmediate(c)
                              \/ Insert(c) \/ InsertFails(c) \/ Interrupted(c)
                              \/ Commit(c) \/ CommitFails(c) \/ Put(c)
        \/ Reopen

Spec == Init /\ [][Next]_vars

-----------------------------------------------------------------------------
\* The types; the lock is held exactly while a caller is inside its transaction.
TypeOK ==
    /\ attributes \subseteq Attribute /\ inserted \subseteq Attribute
    /\ byIdent \subseteq Attribute /\ byID \subseteq Attribute
    /\ writer \in Clients \cup {NoClient}
    /\ nextEID \in Nat /\ opens \in Nat
    /\ pc \in [Clients -> {"idle", "begin", "insert", "commit", "put"}]
    /\ req \in [Clients -> Attribute \cup {NoReq}]
    /\ result \in [Clients -> {"none", "nil", "differs", "busy", "unique",
                              "interrupted"}]
    /\ lost \in BOOLEAN
    /\ \A c \in Clients : writer = c <=> pc[c] \in {"insert", "commit"}
    /\ (\A c \in Clients : pc[c] # "commit") => inserted = {}

\* Unless a COMMIT failed, every attribute DefineAttribute has put in the cache
\* is in the database, as cached: a transaction never logs datoms of an
\* attribute that a restart loses. Reopening repairs the cache.
CachedIsStored ==
    ~lost => byIdent \subseteq attributes /\ byID \subseteq attributes

\* Unless a COMMIT failed, a caller that was told nil asked for the definition in
\* the database, and one that was told there is another definition did not.
AnswersAgree ==
    ~lost => \A c \in Clients : pc[c] = "idle" =>
        /\ result[c] = "nil" =>
              \E x \in attributes : x.ident = req[c].ident /\ x.def = req[c].def
        /\ result[c] = "differs" =>
              \A x \in attributes : x.ident = req[c].ident => x.def # req[c].def

\* Unless a COMMIT failed, both indexes of the cache hold the same attributes, at
\* most one per ident and one per ID.
CacheCoherent ==
    ~lost => /\ byIdent = byID
             /\ \A x, y \in byIdent :
                    (x.ident = y.ident \/ x.id = y.id) => x = y

\* The table has one attribute per ident and per ID, and no attribute in it has
\* an ID that an attribute or an entity may still be given: restarts, races and
\* lost commits included.
StoreKeyed ==
    /\ \A x, y \in attributes : (x.ident = y.ident \/ x.id = y.id) => x = y
    /\ \A x \in attributes : x.id < nextEID

\* An attribute, once stored, is never redefined or dropped; within one run of
\* the program, unless a COMMIT fails, the same holds of the cache.
DefinitionsAreForever ==
    [][/\ attributes \subseteq attributes'
       /\ opens' = opens /\ ~lost => byIdent \subseteq byIdent']_vars

\* Defining an attribute that exists with the same definition is no error (it
\* is one for the loser of a race).
SameDefinitionIsNoOp ==
    \A c \in Clients : pc[c] = "idle" /\ result[c] = "unique" =>
        \A x \in attributes : x.ident = req[c].ident => x.def # req[c].def
=============================================================================
