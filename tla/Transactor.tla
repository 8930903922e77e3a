----------------------------- MODULE Transactor -----------------------------
(***************************************************************************)
(* Concurrent calls of Transact on one open database: transact.go          *)
(* with the connection pool, the write transaction, the ID counters and    *)
(* the restart of pool.go.                                                 *)
(*                                                                         *)
(* `disk` is what SQLite has committed, `work` what the write transaction  *)
(* in progress sees. BEGIN IMMEDIATE admits one writer, so the variables   *)
(* local to the write closure (pos .. err) exist once. Attributes are      *)
(* their IDs; they were defined before the first call.                     *)
(***************************************************************************)
EXTENDS FiniteSets, Tables

CONSTANTS
    Clients,        \* goroutines that call Transact
    NoClient,       \* the write lock is free
    Attrs,          \* IDs of the attributes in the schema cache
    CardOneAttrs,   \* those with Cardinality CardOne
    IdentityAttrs,  \* those with Identity
    Values,         \* values a caller passes
    BadValues,      \* those encodeValue rejects for their attribute's type
    TempIDs,        \* temporary IDs
    Batches,        \* batches a caller passes
    Times,          \* transaction times and valid times
    PoolSize,       \* Options.PoolSize
    Partitioned,    \* Options.HistoryPath is set
    MaxTx,          \* bound: transaction IDs handed out
    MaxOpens        \* bound: crashes (or closes) followed by Open

\* TxDatom.E: a TempID, an int64, a LookupRef, or a value of any other type.
EntityRef ==
    [kind : {"temp"}, temp : TempIDs] \cup [kind : {"id"}, id : Nat]
        \cup [kind : {"ref"}, a : Nat, v : Values] \cup [kind : {"other"}]

TxDatom == [e : EntityRef, a : Nat, v : Values, retract : BOOLEAN]

ASSUME ClientsAssumption == NoClient \notin Clients
ASSUME SchemaAssumption ==
    /\ Attrs \subseteq Nat /\ IsFiniteSet(Attrs)
    /\ CardOneAttrs \subseteq Attrs
    /\ IdentityAttrs \subseteq Attrs
ASSUME BatchAssumption == Batches \subseteq Seq(TxDatom)
ASSUME BoundAssumption ==
    /\ Times \subseteq Nat
    /\ PoolSize \in Nat \ {0} /\ MaxTx \in Nat /\ MaxOpens \in Nat
    /\ Partitioned \in BOOLEAN

VARIABLES
    disk,       \* committed tables
    work,       \* tables as the write transaction sees them
    writer,     \* holder of SQLite's write lock
    nextTx,     \* db.nextTx
    nextEID,    \* db.nextEID
    opens,      \* restarts so far
    pc,         \* where each client is
    call,       \* each client's arguments
    txID,       \* each client's transaction ID
    result,     \* what each client's last call returned
    pos,        \* index of the datom the write closure is at
    tempids,    \* tempids map of the closure; 0 where absent
    pending,    \* pending map of the closure; 0 where absent
    seen,       \* seen set of the closure
    eid,        \* entity resolved for the datom at pos
    produced,   \* datoms produced so far
    err         \* what the closure returns

closure == <<pos, tempids, pending, seen, eid, produced, err>>
clients == <<pc, call, txID, result>>
vars == <<disk, work, writer, nextTx, nextEID, opens, clients, closure>>

NoCall == [batch |-> <<>>, txTime |-> 0, validFrom |-> 0]

IdentityKeys == IdentityAttrs \X Values

\* Mutants: the greatest ID is handed out again; transactions are counted; only
\* attributes are looked at.
MutLoadTxNoIncrement(db) == Maxima({0} \cup TxIDs(db))
MutLoadTxCount(db) == {Cardinality(db.transactions) + 1}
MutLoadEIDAttributesOnly(db) == {m + 1 : m \in Maxima({0} \cup Attrs)}

\* The IDs loadState derives from the tables.
loadTx(db) == {m + 1 : m \in Maxima({0} \cup TxIDs(db))}
loadEID(db) == {m + 1 : m \in Maxima({0} \cup Entities(db) \cup Attrs)}

ClosureReset ==
    /\ pos' = 1
    /\ tempids' = [t \in TempIDs |-> 0]
    /\ pending' = [k \in IdentityKeys |-> 0]
    /\ seen' = {}
    /\ eid' = 0
    /\ produced' = <<>>
    /\ err' = "none"

Init ==
    /\ disk = EmptyTables
    /\ work = EmptyTables
    /\ writer = NoClient
    /\ nextTx = 1
    /\ nextEID \in loadEID(EmptyTables)
    /\ opens = 0
    /\ pc = [c \in Clients |-> "idle"]
    /\ call = [c \in Clients |-> NoCall]
    /\ txID = [c \in Clients |-> 0]
    /\ result = [c \in Clients |-> "none"]
    /\ pos = 1
    /\ tempids = [t \in TempIDs |-> 0]
    /\ pending = [k \in IdentityKeys |-> 0]
    /\ seen = {}
    /\ eid = 0
    /\ produced = <<>>
    /\ err = "none"

-----------------------------------------------------------------------------
(***************************************************************************)
(* Entering and leaving withWriteConn.                                     *)
(***************************************************************************)
\* transact hands out the transaction ID before it has a connection.
Transact(c) ==
    /\ pc[c] = "idle"
    /\ nextTx <= MaxTx
    /\ \E b \in Batches, tt \in Times, vf \in Times :
          call' = [call EXCEPT ![c] =
                      [batch |-> b, txTime |-> tt, validFrom |-> vf]]
    /\ txID' = [txID EXCEPT ![c] = nextTx]
    /\ nextTx' = nextTx + 1
    /\ result' = [result EXCEPT ![c] = "none"]
    /\ pc' = [pc EXCEPT ![c] = "take"]
    /\ UNCHANGED <<disk, work, writer, nextEID, opens, closure>>

\* Mutant: a waiting caller already counts against the pool.
MutTakenWhileWaiting == {c \in Clients : pc[c] # "idle"}

\* Connections taken from the pool.
Taken == {c \in Clients : pc[c] \notin {"idle", "take"}}

TakeConn(c) ==
    /\ pc[c] = "take"
    /\ Cardinality(Taken) < PoolSize
    /\ pc' = [pc EXCEPT ![c] = "begin"]
    /\ UNCHANGED <<disk, work, writer, nextTx, nextEID, opens, call, txID,
                   result, closure>>

\* The call returns r; its connection, if any, goes back to the pool.
Return(c, r) ==
    /\ pc' = [pc EXCEPT ![c] = "idle"]
    /\ call' = [call EXCEPT ![c] = NoCall]
    /\ result' = [result EXCEPT ![c] = r]
    /\ UNCHANGED <<txID, nextTx, nextEID, opens>>

\* The context ends while the call waits for a connection.
TakeFails(c) ==
    /\ pc[c] = "take"
    /\ Return(c, "cancelled")
    /\ UNCHANGED <<disk, work, writer, closure>>

BeginImmediate(c) ==
    /\ pc[c] = "begin"
    /\ writer = NoClient
    /\ writer' = c
    /\ work' = disk
    /\ ClosureReset
    /\ pc' = [pc EXCEPT ![c] = "resolve"]
    /\ UNCHANGED <<disk, nextTx, nextEID, opens, call, txID, result>>

\* SQLITE_BUSY after the busy timeout, or the context ends.
BeginFails(c) ==
    /\ pc[c] = "begin"
    /\ Return(c, IF writer = NoClient THEN "cancelled" ELSE "busy")
    /\ UNCHANGED <<disk, work, writer, closure>>

\* The write transaction of c is over, with db committed.
EndTransaction(c, db, r) ==
    /\ disk' = db
    /\ work' = db
    /\ writer' = NoClient
    /\ ClosureReset
    /\ Return(c, r)

\* The closure has returned err, nil or not; endFn(&err) sees withWriteConn's
\* own err, which is nil, and commits.
Commit(c) ==
    /\ pc[c] = "end"
    /\ EndTransaction(c, work, err)

\* Mutant: a failed COMMIT is not followed by ROLLBACK.
MutCommitFailsNoRollback(c) ==
    /\ pc[c] = "end"
    /\ writer' = NoClient
    /\ ClosureReset
    /\ Return(c, err)
    /\ UNCHANGED <<disk, work>>

\* COMMIT itself fails (context ended, disk full): endFn rolls back and sets
\* withWriteConn's err, which is no longer its result.
CommitFails(c) ==
    /\ pc[c] = "end"
    /\ EndTransaction(c, disk, err)

\* A statement of the closure is interrupted or hits an I/O error: SQLite rolls
\* the transaction back and the closure returns the error.
Interrupted(c) ==
    /\ pc[c] \in {"resolve", "entity", "apply"}
    /\ EndTransaction(c, disk, "interrupted")

-----------------------------------------------------------------------------
(***************************************************************************)
(* The write closure of transact.                                          *)
(***************************************************************************)
Datom(c) == call[c].batch[pos]

\* The closure stops at the datom at pos, leaving the writes made so far.
Fail(c, kind, db) ==
    /\ err' = kind
    /\ work' = db
    /\ pc' = [pc EXCEPT ![c] = "end"]
    /\ UNCHANGED <<disk, writer, nextTx, nextEID, opens, call, txID, result,
                   pos, tempids, pending, seen, eid, produced>>

\* At the datom at pos, in the first loop ("resolve") or in the second one.
At(c, where) == pc[c] = where /\ pos <= Len(call[c].batch)

\* A TempID asserted with the value of an Identity attribute.
Upserts(td) == /\ td.e.kind = "temp"
               /\ ~td.retract
               /\ td.a \in IdentityAttrs

ResolveSkip(c) ==
    /\ At(c, "resolve")
    /\ ~Upserts(Datom(c))
    /\ pos' = pos + 1
    /\ UNCHANGED <<disk, work, writer, nextTx, nextEID, opens, clients,
                   tempids, pending, seen, eid, produced, err>>

\* Mutants: TempIDs do not meet on a new value; a new ID is not used up.
MutUpsertTargetsNoPending(td) ==
    LET held == LookupAV(work, td.a, td.v, 0)
        prev == tempids[td.e.temp]
    IN  IF held # {} THEN held ELSE IF prev # 0 THEN {prev} ELSE {nextEID}
MutUpsertAllocatesNever(td) == FALSE

\* The entities an upsert may resolve to: the one another datom of the batch
\* chose for the same value, a holder of the value, the TempID's own entity, or
\* a new one.
UpsertTargets(td) ==
    LET chosen == pending[<<td.a, td.v>>]
        held == LookupAV(work, td.a, td.v, 0)
        prev == tempids[td.e.temp]
    IN  IF chosen # 0 THEN {chosen}
        ELSE IF held # {} THEN held
        ELSE IF prev # 0 THEN {prev}
        ELSE {nextEID}

\* The last of these cases: allocEntityID is called.
UpsertAllocates(td) ==
    /\ pending[<<td.a, td.v>>] = 0
    /\ LookupAV(work, td.a, td.v, 0) = {}
    /\ tempids[td.e.temp] = 0

ResolveUpsert(c) ==
    LET td == Datom(c) IN
    /\ At(c, "resolve")
    /\ Upserts(td)
    /\ td.v \notin BadValues
    /\ \E e \in UpsertTargets(td) :
          /\ tempids[td.e.temp] \in {0, e}
          /\ tempids' = [tempids EXCEPT ![td.e.temp] = e]
          /\ pending' = [pending EXCEPT ![<<td.a, td.v>>] = e]
    /\ nextEID' = IF UpsertAllocates(td) THEN nextEID + 1 ELSE nextEID
    /\ pos' = pos + 1
    /\ UNCHANGED <<disk, work, writer, nextTx, opens, clients, seen, eid,
                   produced, err>>

\* One TempID, two entities.
ResolveConflict(c) ==
    LET td == Datom(c) IN
    /\ At(c, "resolve")
    /\ Upserts(td)
    /\ td.v \notin BadValues
    /\ \E e \in UpsertTargets(td) : tempids[td.e.temp] \notin {0, e}
    /\ Fail(c, "conflict", work)

\* encodeValue fails in either loop.
EncodeFails(c) ==
    /\ \/ At(c, "resolve") /\ Upserts(Datom(c))
       \/ At(c, "apply")
    /\ Datom(c).v \in BadValues
    /\ Fail(c, "encode", work)

\* stmtInsertTx. The PRIMARY KEY of transactions refuses an ID that is recorded
\* (which TxIDsFresh says never happens).
RecordTx(c) ==
    /\ pc[c] = "resolve"
    /\ pos > Len(call[c].batch)
    /\ IF txID[c] \in TxIDs(work) THEN Fail(c, "unique", work)
       ELSE /\ work' = InsertTx(work, txID[c], call[c].txTime)
            /\ pos' = 1
            /\ pc' = [pc EXCEPT ![c] = "entity"]
            /\ UNCHANGED <<disk, writer, nextTx, nextEID, opens, call, txID,
                           result, tempids, pending, seen, eid, produced, err>>

ToApply(c, e) ==
    /\ eid' = e
    /\ pc' = [pc EXCEPT ![c] = "apply"]
    /\ UNCHANGED <<disk, work, writer, nextTx, opens, call, txID, result, pos,
                   pending, seen, produced, err>>

\* A TempID met for the first time gets a new entity.
EntityTemp(c) ==
    LET td == Datom(c) IN
    /\ At(c, "entity")
    /\ td.a \in Attrs
    /\ td.e.kind = "temp"
    /\ \/ /\ tempids[td.e.temp] # 0
          /\ ToApply(c, tempids[td.e.temp])
          /\ UNCHANGED <<tempids, nextEID>>
       \/ /\ tempids[td.e.temp] = 0
          /\ ToApply(c, nextEID)
          /\ tempids' = [tempids EXCEPT ![td.e.temp] = nextEID]
          /\ nextEID' = nextEID + 1

EntityID(c) ==
    LET td == Datom(c) IN
    /\ At(c, "entity")
    /\ td.a \in Attrs
    /\ td.e.kind = "id"
    /\ ToApply(c, td.e.id)
    /\ UNCHANGED <<tempids, nextEID>>

\* resolveLookupRef.
RefTargets(ref) ==
    IF ref.a \in IdentityAttrs /\ ref.v \notin BadValues
      THEN LookupAV(work, ref.a, ref.v, 0)
      ELSE {}

EntityLookup(c) ==
    LET td == Datom(c) IN
    /\ At(c, "entity")
    /\ td.a \in Attrs
    /\ td.e.kind = "ref"
    /\ \E e \in RefTargets(td.e) : ToApply(c, e)
    /\ UNCHANGED <<tempids, nextEID>>

\* Unknown attribute, unsupported entity type, or a lookup ref that names none.
EntityFails(c) ==
    LET td == Datom(c) IN
    /\ At(c, "entity")
    /\ \/ td.a \notin Attrs
       \/ td.e.kind = "other"
       \/ td.e.kind = "ref" /\ RefTargets(td.e) = {}
    /\ Fail(c, "entity", work)

-----------------------------------------------------------------------------
(***************************************************************************)
(* One datom of the second loop, its entity resolved to eid.               *)
(***************************************************************************)
\* Mutant: an assertion and a retraction of one fact have one key.
MutSeenKeyNoRetract(td) == <<eid, td.a, TRUE, td.v>>

\* The datom's key in seen, and whether the closure keeps seen at all.
SeenKey(td) == <<eid, td.a, td.retract, td.v>>
Dedupes == \E k \in IdentityKeys : pending[k] # 0
Duplicate(td) == Dedupes /\ SeenKey(td) \in seen

Applies(c) ==
    /\ At(c, "apply")
    /\ Datom(c).v \notin BadValues
    /\ ~Duplicate(Datom(c))

\* On to the next datom, with the tables now db and rows produced.
NextDatom(c, db, rows) ==
    /\ work' = db
    /\ produced' = produced \o rows
    /\ seen' = IF Dedupes THEN seen \cup {SeenKey(Datom(c))} ELSE seen
    /\ pos' = pos + 1
    /\ eid' = 0
    /\ pc' = [pc EXCEPT ![c] = "entity"]
    /\ UNCHANGED <<disk, writer, nextTx, nextEID, opens, call, txID, result,
                   tempids, pending, err>>

SkipDuplicate(c) ==
    /\ At(c, "apply")
    /\ Datom(c).v \notin BadValues
    /\ Duplicate(Datom(c))
    /\ NextDatom(c, work, <<>>)

\* Mutant: valid_from of the log is the transaction time.
MutRowTxTime(c, v, added) ==
    LogRow(eid, Datom(c).a, v, txID[c], added, call[c].txTime)

\* The log row of this datom with value v.
Row(c, v, added) ==
    LogRow(eid, Datom(c).a, v, txID[c], added, call[c].validFrom)

RetractDatom(c) ==
    LET td == Datom(c)
        row == Row(c, td.v, FALSE)
        db == DeleteCurrentEAV(work, eid, td.a, td.v)
    IN  /\ Applies(c)
        /\ td.retract
        /\ \/ /\ ~Logged(db, row)
              /\ NextDatom(c, InsertDatom(db, row), <<row>>)
           \/ /\ Logged(db, row)
              /\ Fail(c, "unique", db)

\* The value of an Identity attribute is held by another entity.
IdentityTaken(c) ==
    LET td == Datom(c) IN
    /\ Applies(c)
    /\ ~td.retract
    /\ td.a \in IdentityAttrs
    /\ LookupAV(work, td.a, td.v, eid) # {}
    /\ Fail(c, "identity", work)

MayAssert(c) ==
    LET td == Datom(c) IN
    /\ Applies(c)
    /\ ~td.retract
    /\ ~(td.a \in IdentityAttrs /\ LookupAV(work, td.a, td.v, eid) # {})

\* Log the assertion (after rows) and show it in current_datoms.
Store(c, db, rows) ==
    LET td == Datom(c)
        row == Row(c, td.v, TRUE)
        current == CurrentRow(eid, td.a, td.v, txID[c], call[c].validFrom)
    IN  \/ /\ ~Logged(db, row)
           /\ NextDatom(c, UpsertCurrent(InsertDatom(db, row), current),
                        Append(rows, row))
        \/ /\ Logged(db, row)
           /\ Fail(c, "unique", db)

\* A CardMany attribute, or a CardOne attribute without a value.
AssertDatom(c) ==
    /\ MayAssert(c)
    /\ Datom(c).a \in CardOneAttrs => ReadCurrent(work, eid, Datom(c).a) = {}
    /\ Store(c, work, <<>>)

\* A CardOne attribute with a value: retract that value first.
Supersede(c) ==
    LET td == Datom(c) IN
    /\ MayAssert(c)
    /\ td.a \in CardOneAttrs
    /\ \E old \in ReadCurrent(work, eid, td.a) :
          LET row == Row(c, old.v, FALSE)
          IN  \/ /\ ~Logged(work, row)
                 /\ Store(c,
                          DeleteCurrentEA(InsertDatom(work, row), eid, td.a),
                          <<row>>)
              \/ /\ Logged(work, row)
                 /\ Fail(c, "unique", work)

\* The loop is done and the closure returns nil.
BatchDone(c) ==
    /\ pc[c] = "entity"
    /\ pos > Len(call[c].batch)
    /\ pc' = [pc EXCEPT ![c] = "end"]
    /\ UNCHANGED <<disk, work, writer, nextTx, nextEID, opens, call, txID,
                   result, closure>>

-----------------------------------------------------------------------------
(***************************************************************************)
(* Crash (or Close) and Open. A COMMIT under way may have happened or not; *)
(* of a partitioned database, whose log is in an attached file, either     *)
(* file may have it alone: SQLite does not commit attached files           *)
(* atomically when the main one is in WAL mode.                            *)
(***************************************************************************)
AtCommit == \E c \in Clients : pc[c] = "end"

\* Mutant: the transactions table is in the history file too.
MutSurvivorsTxInHistory ==
    {disk} \cup (IF AtCommit THEN {work} ELSE {})
           \cup (IF AtCommit /\ Partitioned
                   THEN {[disk EXCEPT !.current = work.current],
                         [work EXCEPT !.current = disk.current]}
                   ELSE {})

Survivors ==
    {disk} \cup (IF AtCommit THEN {work} ELSE {})
           \cup (IF AtCommit /\ Partitioned
                   THEN {[disk EXCEPT !.datoms = work.datoms],
                         [work EXCEPT !.datoms = disk.datoms]}
                   ELSE {})

Reopen ==
    /\ opens < MaxOpens
    /\ opens' = opens + 1
    /\ \E db \in Survivors :
          /\ disk' = db
          /\ work' = db
          /\ nextTx' \in loadTx(db)
          /\ nextEID' \in loadEID(db)
    /\ writer' = NoClient
    /\ pc' = [c \in Clients |-> "idle"]
    /\ call' = [c \in Clients |-> NoCall]
    /\ txID' = [c \in Clients |-> 0]
    /\ result' = [c \in Clients |-> "none"]
    /\ ClosureReset

-----------------------------------------------------------------------------
Resolve(c) == \/ ResolveSkip(c) \/ ResolveUpsert(c) \/ ResolveConflict(c)
              \/ EncodeFails(c) \/ RecordTx(c)

Entity(c) == \/ EntityTemp(c) \/ EntityID(c) \/ EntityLookup(c)
             \/ EntityFails(c) \/ BatchDone(c)

Apply(c) == \/ SkipDuplicate(c) \/ RetractDatom(c) \/ IdentityTaken(c)
            \/ AssertDatom(c) \/ Supersede(c)

\* What a caller that holds a connection does next.
Step(c) == \/ BeginImmediate(c) \/ BeginFails(c)
           \/ Resolve(c) \/ Entity(c) \/ Apply(c)
           \/ Commit(c) \/ CommitFails(c) \/ Interrupted(c)

Next == \/ \E c \in Clients : \/ Transact(c)
                              \/ TakeConn(c) \/ TakeFails(c)
                              \/ Step(c)
        \/ Reopen

Spec == Init /\ [][Next]_vars

\* A goroutine that holds a connection runs on; one that waits for a connection
\* is served by the pool's channel once connections keep coming back.
Fairness == \A c \in Clients : WF_vars(Step(c)) /\ SF_vars(TakeConn(c))

FairSpec == Spec /\ Fairness

-----------------------------------------------------------------------------
(***************************************************************************)
(* Properties.                                                             *)
(***************************************************************************)
Rows == [e : Nat, a : Attrs, v : Values, tx : Nat, added : BOOLEAN, vf : Nat]

TablesType ==
    [transactions : SUBSET [id : Nat, time : Nat],
     datoms : Seq(Rows),
     current : SUBSET [e : Nat, a : Attrs, v : Values, tx : Nat, vf : Nat]]

Errors == {"encode", "conflict", "entity", "unique", "identity"}

\* The types of the variables. The write closure of transact runs exactly in the
\* holder of the write lock, and between write transactions nothing is pending.
TypeOK ==
    /\ disk \in TablesType
    /\ work \in TablesType
    /\ writer \in Clients \cup {NoClient}
    /\ nextTx \in Nat \ {0}
    /\ nextEID \in Nat \ {0}
    /\ opens \in Nat
    /\ pc \in [Clients -> {"idle", "take", "begin", "resolve", "entity",
                           "apply", "end"}]
    /\ call \in [Clients -> [batch : Seq(TxDatom), txTime : Nat,
                             validFrom : Nat]]
    /\ txID \in [Clients -> Nat]
    /\ result \in [Clients -> Errors \cup {"none", "cancelled", "busy",
                                           "interrupted"}]
    /\ pos \in Nat \ {0}
    /\ tempids \in [TempIDs -> Nat]
    /\ pending \in [IdentityKeys -> Nat]
    /\ seen \subseteq Nat \X Attrs \X BOOLEAN \X Values
    /\ eid \in Nat
    /\ produced \in Seq(Rows)
    /\ err \in Errors \cup {"none"}
    /\ \A c \in Clients :
          writer = c <=> pc[c] \in {"resolve", "entity", "apply", "end"}
    /\ writer = NoClient => work = disk

\* What the next three properties say of one state of the tables.
CardOneIn(db) ==
    \A r, s \in db.current :
        r.e = s.e /\ r.a = s.a /\ r.a \in CardOneAttrs => r = s

IdentityIn(db) ==
    \A r, s \in db.current :
        r.a = s.a /\ r.v = s.v /\ r.a \in IdentityAttrs => r = s

LiveIn(db) == \A r \in db.current : IsLive(db.datoms, r.e, r.a, r.v)

\* transact retracts the old value of a CardOne attribute before it asserts a
\* new one: at no point of any call does an entity have two values.
CardOneHolds == CardOneIn(disk) /\ CardOneIn(work)

\* An Identity value names at most one entity: the check of transact against
\* current_datoms, under the write lock, is enough for concurrent callers too.
IdentityUnique == IdentityIn(disk) /\ IdentityIn(work)

\* Every fact current_datoms shows is one the log says holds: whatever fails
\* half-way, a present-time read never shows a fact the history has retracted.
CurrentIsLive == LiveIn(disk) /\ LiveIn(work)

\* current_datoms is the replay of the log, no less and no more.
CurrentIsReplay == Facts(disk) = Live(disk.datoms)

\* When the closure succeeds every datom of the batch is in the log of its
\* transaction, on one entity per TempID: deduplication and CardOne retraction
\* drop nothing.
BatchApplied ==
    \A c \in Clients : pc[c] = "end" /\ err = "none" =>
        \A i \in 1..Len(call[c].batch) :
            LET td == call[c].batch[i]
                On(e) == Logged(work, LogRow(e, td.a, td.v, txID[c],
                                             ~td.retract, call[c].validFrom))
            IN  CASE td.e.kind = "temp" -> On(tempids[td.e.temp])
                  [] td.e.kind = "id" -> On(td.e.id)
                  [] OTHER -> \E j \in 1..Len(work.datoms) :
                                  On(work.datoms[j].e)

\* TxResult.Datoms is what this transaction appended to the log, in order.
ProducedIsLogged ==
    writer # NoClient /\ err = "none" => work.datoms = disk.datoms \o produced

\* A batch that names its entities by TempID only never fails the identity
\* check: the first loop has sent each TempID to the holder of its value.
UpsertsNeverTaken ==
    \A c \in Clients :
        /\ pc[c] = "end"
        /\ \A i \in 1..Len(call[c].batch) : call[c].batch[i].e.kind = "temp"
        => err # "identity"

\* The transaction ID of a call in progress is its own: no other call has it and
\* no transaction recorded before or after a restart does.
TxIDsFresh ==
    \A c \in Clients : pc[c] # "idle" =>
        /\ txID[c] < nextTx
        /\ txID[c] \notin TxIDs(disk)
        /\ \A d \in Clients \ {c} : pc[d] # "idle" => txID[c] # txID[d]

\* Every fact of current_datoms carries the ID of a transaction on record, so that
\* loadState, which looks at the record only, hands no such ID out again: also
\* after a crash in COMMIT that keeps the main file or the history file alone.
CurrentIsRecorded ==
    \A db \in {disk, work} : \A r \in db.current : r.tx \in TxIDs(db)

\* The next entity ID to be handed out names an entity without facts. Holds when
\* callers assert nothing by explicit ID.
NewEntitiesBlank ==
    \A db \in {disk, work} : \A r \in db.current : r.e < nextEID

\* Each call comes to an end: no error path keeps the write lock or a
\* connection, so nobody waits for ever.
CallReturns == \A c \in Clients : pc[c] # "idle" ~> pc[c] = "idle"

\* The committed tables behave as DatomLog says: calls, failures, restarts and
\* concurrent callers change the log only by appending one transaction to it,
\* and current_datoms only where that transaction says.
Log == INSTANCE DatomLog WITH
           log <- disk.datoms, facts <- Facts(disk), committed <- TxIDs(disk)

ImplementsLog == Log!Spec

-----------------------------------------------------------------------------
(***************************************************************************)
(* What the documentation and the tests say and the code does not do.      *)
(***************************************************************************)
\* A call that returned an error left nothing in the database.
FailedLeavesNoTrace ==
    \A c \in Clients : pc[c] = "idle" /\ result[c] \in Errors =>
        txID[c] \notin TxIDs(disk)

\* A call that returned a TxResult is recorded.
SucceededIsRecorded ==
    \A c \in Clients : pc[c] = "idle" /\ result[c] = "none" /\ txID[c] # 0 =>
        txID[c] \in TxIDs(disk)

\* The log is in the order of transaction IDs.
LogInTxOrder ==
    \A i, j \in 1..Len(disk.datoms) :
        i < j => disk.datoms[i].tx <= disk.datoms[j].tx

\* The next entity ID to be handed out appears nowhere in the log.
EntityIDsNeverReused ==
    \A i \in 1..Len(disk.datoms) : disk.datoms[i].e < nextEID

\* Log and transactions commit together: every logged datom has its
\* transaction on record.
LoggedIsRecorded ==
    \A i \in 1..Len(disk.datoms) : disk.datoms[i].tx \in TxIDs(disk)
=============================================================================
