-------------------------- MODULE TransactorProofs --------------------------
(***************************************************************************)
(* Proofs about Transactor, for any clients, schema, batches and bounds:   *)
(* types, the table invariants, the IDs, the refinement of DatomLog, and   *)
(* what one call does.                                                     *)
(***************************************************************************)
EXTENDS Transactor, SequenceTheorems, TLAPS

\* The second loop looks an attribute up before it applies its datom.
AttrKnown ==
    \A c \in Clients : pc[c] = "apply" =>
        pos <= Len(call[c].batch) /\ Datom(c).a \in Attrs

TypeInv == TypeOK /\ AttrKnown

-----------------------------------------------------------------------------
\* A log row of typed columns (the bindings of stmtInsertDatom) is a row.
LEMMA RowTyped ==
    ASSUME NEW e \in Nat, NEW a \in Attrs, NEW v \in Values, NEW tx \in Nat,
           NEW added \in BOOLEAN, NEW vf \in Nat
    PROVE  LogRow(e, a, v, tx, added, vf) \in Rows
BY DEF LogRow, Rows

\* One row is a log of length one.
LEMMA SingletonTyped ==
    ASSUME NEW row \in Rows
    PROVE  <<row>> \in Seq(Rows)
OBVIOUS

\* stmtInsertDatom keeps the tables typed.
LEMMA InsertTyped ==
    ASSUME NEW db \in TablesType, NEW row \in Rows
    PROVE  InsertDatom(db, row) \in TablesType
<1>1. db.datoms \in Seq(Rows)
  BY DEF TablesType
<1>2. Append(db.datoms, row) \in Seq(Rows)
  BY <1>1, AppendProperties
<1> QED
  BY <1>2 DEF InsertDatom, TablesType

\* stmtInsertTx keeps the tables typed.
LEMMA InsertTxTyped ==
    ASSUME NEW db \in TablesType, NEW id \in Nat, NEW time \in Nat
    PROVE  InsertTx(db, id, time) \in TablesType
BY DEF InsertTx, TablesType

\* The two DELETEs on current_datoms keep the tables typed.
LEMMA DeleteTyped ==
    ASSUME NEW db \in TablesType, NEW e, NEW a, NEW v
    PROVE  /\ DeleteCurrentEA(db, e, a) \in TablesType
           /\ DeleteCurrentEAV(db, e, a, v) \in TablesType
BY DEF DeleteCurrentEA, DeleteCurrentEAV, TablesType

\* stmtUpsertCurrent keeps the tables typed.
LEMMA UpsertTyped ==
    ASSUME NEW db \in TablesType, NEW e \in Nat, NEW a \in Attrs,
           NEW v \in Values, NEW tx \in Nat, NEW vf \in Nat
    PROVE  UpsertCurrent(db, CurrentRow(e, a, v, tx, vf)) \in TablesType
BY DEF UpsertCurrent, CurrentRow, TablesType

\* lookupEntity finds entity IDs only.
LEMMA LookupTyped ==
    ASSUME NEW db \in TablesType, NEW a, NEW v, NEW x
    PROVE  LookupAV(db, a, v, x) \subseteq Nat
BY DEF LookupAV, TablesType

\* loadState starts both counters above zero.
LEMMA LoadTyped ==
    ASSUME NEW db \in TablesType
    PROVE  /\ loadTx(db) \subseteq Nat \ {0}
           /\ loadEID(db) \subseteq Nat \ {0}
BY SchemaAssumption DEF loadTx, loadEID, Maxima, TxIDs, Entities, TablesType

\* The tables of a new database are typed.
LEMMA EmptyTyped == EmptyTables \in TablesType
BY DEF EmptyTables, TablesType

-----------------------------------------------------------------------------
\* A freshly opened database is typed.
LEMMA TypeInit == Init => TypeInv
<1> SUFFICES ASSUME Init PROVE TypeInv
  OBVIOUS
<1>1. nextEID \in Nat \ {0}
  BY EmptyTyped, LoadTyped DEF Init
<1>2. NoCall \in [batch : Seq(TxDatom), txTime : Nat, validFrom : Nat]
  BY DEF NoCall
<1>3. TypeOK
  BY <1>1, <1>2, EmptyTyped, ClientsAssumption DEF Init, TypeOK, Errors
<1>4. AttrKnown
  BY DEF Init, AttrKnown
<1> QED
  BY <1>3, <1>4 DEF TypeInv

\* The datom a loop of transact is at is one of the batch.
LEMMA DatomTyped ==
    ASSUME TypeInv, NEW c \in Clients, NEW w, At(c, w)
    PROVE  Datom(c) \in TxDatom
<1>1. call[c].batch \in Seq(TxDatom)
  BY DEF TypeInv, TypeOK
<1>2. pos \in 1..Len(call[c].batch)
  BY <1>1 DEF TypeInv, TypeOK, At
<1> QED
  BY <1>1, <1>2, ElementOfSeq DEF Datom

\* The fields of a TxDatom, and those of its entity by kind.
LEMMA RefTyped ==
    ASSUME NEW td \in TxDatom
    PROVE  /\ td.e \in EntityRef /\ td.a \in Nat /\ td.v \in Values
           /\ td.retract \in BOOLEAN
           /\ td.e.kind = "temp" => td.e.temp \in TempIDs
           /\ td.e.kind = "id" => td.e.id \in Nat
BY DEF TxDatom, EntityRef

\* What the first loop may resolve a TempID to is an entity ID.
LEMMA UpsertTargetsTyped ==
    ASSUME TypeInv, NEW td \in TxDatom, Upserts(td)
    PROVE  /\ td.e.temp \in TempIDs
           /\ <<td.a, td.v>> \in IdentityKeys
           /\ UpsertTargets(td) \subseteq Nat
<1>1. td.e.temp \in TempIDs /\ <<td.a, td.v>> \in IdentityKeys
  BY RefTyped DEF Upserts, IdentityKeys
<1>2. pending[<<td.a, td.v>>] \in Nat /\ tempids[td.e.temp] \in Nat
  BY <1>1 DEF TypeInv, TypeOK
<1>3. LookupAV(work, td.a, td.v, 0) \subseteq Nat
  BY LookupTyped DEF TypeInv, TypeOK
<1>4. nextEID \in Nat
  BY DEF TypeInv, TypeOK
<1> QED
  BY <1>1, <1>2, <1>3, <1>4 DEF UpsertTargets

\* Steps before and after the write transaction.
LEMMA TypeOutside ==
    ASSUME TypeInv, NEW c \in Clients,
           Transact(c) \/ TakeConn(c) \/ TakeFails(c) \/ BeginFails(c)
    PROVE  TypeInv'
<1> USE DEF TypeInv, TypeOK, AttrKnown, Datom, closure, Errors
<1>1. CASE Transact(c)
  <2>1. PICK b \in Batches, tt \in Times, vf \in Times :
            call' = [call EXCEPT ![c] =
                        [batch |-> b, txTime |-> tt, validFrom |-> vf]]
    BY <1>1 DEF Transact
  <2>2. [batch |-> b, txTime |-> tt, validFrom |-> vf]
            \in [batch : Seq(TxDatom), txTime : Nat, validFrom : Nat]
    BY BatchAssumption, BoundAssumption
  <2>3. call' \in [Clients -> [batch : Seq(TxDatom), txTime : Nat,
                              validFrom : Nat]]
    BY <2>1, <2>2
  <2>4. \A d \in Clients : writer' = d <=>
            pc'[d] \in {"resolve", "entity", "apply", "end"}
    BY <1>1, ClientsAssumption DEF Transact
  <2>5. /\ pc' \in [Clients -> {"idle", "take", "begin", "resolve", "entity",
                                "apply", "end"}]
        /\ txID' \in [Clients -> Nat]
        /\ nextTx' \in Nat \ {0}
        /\ result' \in [Clients -> Errors \cup {"none", "cancelled", "busy",
                                                "interrupted"}]
    BY <1>1 DEF Transact
  <2>6. TypeOK'
    BY <1>1, <2>3, <2>4, <2>5 DEF Transact
  <2>7. AttrKnown'
    BY <1>1, <2>1 DEF Transact
  <2> QED
    BY <2>6, <2>7
<1>2. CASE TakeConn(c)
  BY <1>2, ClientsAssumption DEF TakeConn
<1>3. CASE TakeFails(c)
  <2>1. NoCall \in [batch : Seq(TxDatom), txTime : Nat, validFrom : Nat]
    BY DEF NoCall
  <2>2. TypeOK'
    BY <1>3, <2>1, ClientsAssumption DEF TakeFails, Return
  <2>3. AttrKnown'
    BY <1>3 DEF TakeFails, Return
  <2> QED
    BY <2>2, <2>3
<1>4. CASE BeginFails(c)
  BY <1>4, ClientsAssumption DEF BeginFails, Return, NoCall
<1> QED
  BY <1>1, <1>2, <1>3, <1>4

\* Steps that begin or end the write transaction.
LEMMA TypeBoundary ==
    ASSUME TypeInv, NEW c \in Clients,
           \/ BeginImmediate(c) \/ Commit(c) \/ CommitFails(c)
           \/ Interrupted(c)
    PROVE  TypeInv'
<1> USE DEF TypeInv, TypeOK, AttrKnown, Datom, Errors, ClosureReset
<1>1. CASE BeginImmediate(c)
  BY <1>1, ClientsAssumption DEF BeginImmediate
<1>2. ASSUME NEW db \in TablesType, NEW r, EndTransaction(c, db, r),
             pc[c] \in {"resolve", "entity", "apply", "end"},
             r \in Errors \cup {"none", "interrupted"}
      PROVE  TypeInv'
  BY <1>2, ClientsAssumption DEF EndTransaction, Return, NoCall
<1>3. CASE Commit(c)
  BY <1>2, <1>3 DEF Commit
<1>4. CASE CommitFails(c)
  BY <1>2, <1>4 DEF CommitFails
<1>5. CASE Interrupted(c)
  BY <1>2, <1>5 DEF Interrupted
<1> QED
  BY <1>1, <1>3, <1>4, <1>5
\* The ways a step of the closure ends.
LEMMA TypeFail ==
    ASSUME TypeInv, NEW c \in Clients, NEW kind \in Errors,
           NEW db \in TablesType, Fail(c, kind, db),
           pc[c] \in {"resolve", "entity", "apply"}
    PROVE  TypeInv'
BY ClientsAssumption DEF TypeInv, TypeOK, AttrKnown, Datom, Fail, Errors

\* Going on to the next datom of the batch.
LEMMA TypeNextDatom ==
    ASSUME TypeInv, NEW c \in Clients, At(c, "apply"),
           NEW db \in TablesType, NEW rows \in Seq(Rows),
           NextDatom(c, db, rows)
    PROVE  TypeInv'
<1>1. Datom(c) \in TxDatom /\ Datom(c).a \in Attrs
  BY DatomTyped DEF TypeInv, AttrKnown, At
<1>2. SeenKey(Datom(c)) \in Nat \X Attrs \X BOOLEAN \X Values
  BY <1>1, RefTyped DEF SeenKey, TypeInv, TypeOK
<1>3. produced' \in Seq(Rows)
  BY ConcatProperties DEF NextDatom, TypeInv, TypeOK
<1>4. TypeOK'
  <2>1. writer = c /\ writer' = c /\ pos' \in Nat \ {0} /\ eid' \in Nat
    BY DEF NextDatom, At, TypeInv, TypeOK
  <2>2. seen' \subseteq Nat \X Attrs \X BOOLEAN \X Values
    BY <1>2 DEF NextDatom, TypeInv, TypeOK
  <2>3. /\ pc' \in [Clients -> {"idle", "take", "begin", "resolve", "entity",
                               "apply", "end"}]
        /\ \A d \in Clients :
              writer' = d <=> pc'[d] \in {"resolve", "entity", "apply", "end"}
    BY <2>1 DEF NextDatom, TypeInv, TypeOK
  <2>4. /\ disk' = disk /\ work' \in TablesType /\ nextTx' = nextTx
        /\ nextEID' = nextEID /\ opens' = opens /\ call' = call
        /\ txID' = txID /\ result' = result /\ tempids' = tempids
        /\ pending' = pending /\ err' = err
    BY DEF NextDatom
  <2> QED
    BY <1>3, <2>1, <2>2, <2>3, <2>4, ClientsAssumption DEF TypeInv, TypeOK
<1>5. AttrKnown'
  BY ClientsAssumption DEF NextDatom, At, TypeInv, TypeOK, AttrKnown, Datom
<1> QED
  BY <1>4, <1>5 DEF TypeInv

\* The second loop has found the entity of its datom.
LEMMA TypeToApply ==
    ASSUME TypeInv, NEW c \in Clients, At(c, "entity"), NEW e \in Nat,
           Datom(c).a \in Attrs, ToApply(c, e),
           tempids' \in [TempIDs -> Nat], nextEID' \in Nat \ {0}
    PROVE  TypeInv'
<1>1. TypeOK'
  BY ClientsAssumption DEF ToApply, At, TypeInv, TypeOK
<1>2. AttrKnown'
  BY ClientsAssumption DEF ToApply, At, TypeInv, TypeOK, AttrKnown, Datom
<1> QED
  BY <1>1, <1>2 DEF TypeInv

\* The first loop changes TempIDs, identities and counters alone.
LEMMA TypeResolved ==
    ASSUME TypeOK, tempids' \in [TempIDs -> Nat],
           pending' \in [IdentityKeys -> Nat],
           nextEID' \in Nat \ {0}, pos' \in Nat \ {0},
           UNCHANGED <<disk, work, writer, nextTx, opens, pc, call, txID, result,
                       seen, eid, produced, err>>
    PROVE  TypeOK'
BY DEF TypeOK

\* What stmtInsertTx does with a new ID, and with one on record.
TxRecorded(c) ==
    /\ pc[c] = "resolve"
    /\ pos > Len(call[c].batch)
    /\ work' = InsertTx(work, txID[c], call[c].txTime)
    /\ pos' = 1
    /\ pc' = [pc EXCEPT ![c] = "entity"]
    /\ UNCHANGED <<disk, writer, nextTx, nextEID, opens, call, txID, result,
                   tempids, pending, seen, eid, produced, err>>

TxRefused(c) == pc[c] = "resolve" /\ Fail(c, "unique", work)

LEMMA RecordTxCases ==
    ASSUME NEW c
    PROVE  RecordTx(c) => TxRecorded(c) \/ TxRefused(c)
BY DEF RecordTx, TxRecorded, TxRefused

\* The steps of the first loop, and the record of the transaction.
LEMMA TypeResolve ==
    ASSUME TypeInv, NEW c \in Clients, Resolve(c)
    PROVE  TypeInv'
<1>1. CASE ResolveSkip(c)
  BY <1>1 DEF ResolveSkip, At, TypeInv, TypeOK, AttrKnown, Datom, clients
<1>2. CASE ResolveUpsert(c)
  <2>1. Datom(c) \in TxDatom /\ At(c, "resolve") /\ Upserts(Datom(c))
    BY <1>2, DatomTyped DEF ResolveUpsert
  <2>2. PICK e \in UpsertTargets(Datom(c)) :
            /\ tempids' = [tempids EXCEPT ![Datom(c).e.temp] = e]
            /\ pending' = [pending EXCEPT ![<<Datom(c).a, Datom(c).v>>] = e]
    BY <1>2 DEF ResolveUpsert
  <2>3. tempids' \in [TempIDs -> Nat] /\ pending' \in [IdentityKeys -> Nat]
    BY <2>1, <2>2, UpsertTargetsTyped DEF TypeInv, TypeOK
  <2>4. nextEID' \in Nat \ {0} /\ pos' \in Nat \ {0}
    <3>1. nextEID' \in {nextEID, nextEID + 1} /\ pos' = pos + 1
      BY <1>2 DEF ResolveUpsert
    <3>2. nextEID \in Nat \ {0} /\ pos \in Nat \ {0}
      BY DEF TypeInv, TypeOK
    <3> QED
      BY <3>1, <3>2
  <2>5. UNCHANGED <<disk, work, writer, nextTx, opens, pc, call, txID, result,
                    seen, eid, produced, err>>
    BY <1>2 DEF ResolveUpsert, clients
  <2>6. TypeOK'
    BY <2>3, <2>4, <2>5, TypeResolved DEF TypeInv
  <2>7. AttrKnown'
    BY <2>1, <2>5 DEF At, TypeInv, TypeOK, AttrKnown, Datom
  <2> QED
    BY <2>6, <2>7 DEF TypeInv
<1>3. CASE ResolveConflict(c)
  BY <1>3, TypeFail DEF ResolveConflict, At, Errors, TypeInv, TypeOK
<1>4. CASE EncodeFails(c)
  BY <1>4, TypeFail DEF EncodeFails, At, Errors, TypeInv, TypeOK
<1>5. CASE TxRecorded(c)
  <2>1. work' \in TablesType
    BY <1>5, InsertTxTyped DEF TxRecorded, TypeInv, TypeOK
  <2> QED
    BY <1>5, <2>1, ClientsAssumption
       DEF TxRecorded, TypeInv, TypeOK, AttrKnown, Datom
<1>6. CASE TxRefused(c)
  BY <1>6, TypeFail DEF TxRefused, Errors, TypeInv, TypeOK
<1> QED
  BY <1>1, <1>2, <1>3, <1>4, <1>5, <1>6, RecordTxCases DEF Resolve

\* The steps of the second loop that find the entity of a datom.
LEMMA TypeEntity ==
    ASSUME TypeInv, NEW c \in Clients, Entity(c)
    PROVE  TypeInv'
<1>1. CASE EntityTemp(c)
  <2>1. At(c, "entity") /\ Datom(c) \in TxDatom /\ Datom(c).e.kind = "temp"
    BY <1>1, DatomTyped DEF EntityTemp
  <2>2. Datom(c).e.temp \in TempIDs
    BY <2>1, RefTyped
  <2> QED
    <3>1. CASE tempids[Datom(c).e.temp] # 0
      <4>1. /\ ToApply(c, tempids[Datom(c).e.temp])
            /\ UNCHANGED <<tempids, nextEID>>
            /\ Datom(c).a \in Attrs
        BY <1>1, <3>1 DEF EntityTemp
      <4> QED
        BY <2>1, <2>2, <4>1, TypeToApply DEF TypeInv, TypeOK
    <3>2. CASE tempids[Datom(c).e.temp] = 0
      <4>1. /\ ToApply(c, nextEID)
            /\ tempids' = [tempids EXCEPT ![Datom(c).e.temp] = nextEID]
            /\ nextEID' = nextEID + 1
            /\ Datom(c).a \in Attrs
        BY <1>1, <3>2 DEF EntityTemp
      <4>2. nextEID \in Nat /\ nextEID' \in Nat \ {0}
            /\ tempids' \in [TempIDs -> Nat]
        BY <2>2, <4>1 DEF TypeInv, TypeOK
      <4> QED
        BY <2>1, <4>1, <4>2, TypeToApply
    <3> QED
      BY <3>1, <3>2
<1>2. CASE EntityID(c)
  <2>1. At(c, "entity") /\ Datom(c) \in TxDatom /\ Datom(c).e.kind = "id"
    BY <1>2, DatomTyped DEF EntityID
  <2>2. Datom(c).e.id \in Nat
    BY <2>1, RefTyped
  <2> QED
    BY <1>2, <2>1, <2>2, TypeToApply DEF EntityID, TypeInv, TypeOK
<1>3. CASE EntityLookup(c)
  <2>1. PICK e \in RefTargets(Datom(c).e) : ToApply(c, e)
    BY <1>3 DEF EntityLookup
  <2>2. e \in Nat
    BY <2>1, LookupTyped DEF RefTargets, TypeInv, TypeOK
  <2> QED
    BY <1>3, <2>1, <2>2, TypeToApply DEF EntityLookup, TypeInv, TypeOK
<1>4. CASE EntityFails(c)
  BY <1>4, TypeFail DEF EntityFails, At, Errors, TypeInv, TypeOK
<1>5. CASE BatchDone(c)
  BY <1>5, ClientsAssumption
     DEF BatchDone, TypeInv, TypeOK, AttrKnown, Datom, closure
<1> QED
  BY <1>1, <1>2, <1>3, <1>4, <1>5 DEF Entity
\* The tables each step of the second loop leaves behind are well typed.
LEMMA TypeStore ==
    ASSUME TypeInv, NEW c \in Clients, At(c, "apply"),
           NEW db \in TablesType, NEW rows \in Seq(Rows), Store(c, db, rows)
    PROVE  TypeInv'
<1> DEFINE td == Datom(c)
           row == Row(c, td.v, TRUE)
           cur == CurrentRow(eid, td.a, td.v, txID[c], call[c].validFrom)
<1>1. td \in TxDatom /\ td.a \in Attrs /\ td.v \in Values
  BY DatomTyped, RefTyped DEF TypeInv, AttrKnown, At
<1>2. eid \in Nat /\ txID[c] \in Nat /\ call[c].validFrom \in Nat
  BY DEF TypeInv, TypeOK
<1>3. row \in Rows
  BY <1>1, <1>2, RowTyped DEF Row
<1>4. UpsertCurrent(InsertDatom(db, row), cur) \in TablesType
  BY <1>1, <1>2, <1>3, InsertTyped, UpsertTyped
<1>5. Append(rows, row) \in Seq(Rows)
  BY <1>3, AppendProperties
<1>6. CASE NextDatom(c, UpsertCurrent(InsertDatom(db, row), cur),
                     Append(rows, row))
  BY <1>4, <1>5, <1>6, TypeNextDatom
<1>7. CASE Fail(c, "unique", db)
  BY <1>7, TypeFail DEF At, Errors
<1> QED
  BY <1>6, <1>7 DEF Store

\* The steps of the second loop that write.
LEMMA TypeApply ==
    ASSUME TypeInv, NEW c \in Clients, Apply(c)
    PROVE  TypeInv'
<1>1. At(c, "apply")
  BY DEF Apply, SkipDuplicate, RetractDatom, IdentityTaken, AssertDatom,
         Supersede, MayAssert, Applies
<1>2. Datom(c) \in TxDatom /\ Datom(c).a \in Attrs /\ Datom(c).v \in Values
  BY <1>1, DatomTyped, RefTyped DEF TypeInv, AttrKnown, At
<1>3. /\ eid \in Nat /\ txID[c] \in Nat /\ call[c].validFrom \in Nat
      /\ work \in TablesType
  BY DEF TypeInv, TypeOK
<1>4. CASE SkipDuplicate(c)
  <2>1. <<>> \in Seq(Rows)
    OBVIOUS
  <2> QED
    BY <1>1, <1>3, <1>4, <2>1, TypeNextDatom DEF SkipDuplicate
<1>5. CASE RetractDatom(c)
  <2> DEFINE row == Row(c, Datom(c).v, FALSE)
             db == DeleteCurrentEAV(work, eid, Datom(c).a, Datom(c).v)
  <2>1. row \in Rows
    BY <1>2, <1>3, RowTyped DEF Row
  <2>2. db \in TablesType
    BY <1>3, DeleteTyped
  <2>3. InsertDatom(db, row) \in TablesType /\ <<row>> \in Seq(Rows)
    BY <2>1, <2>2, InsertTyped, SingletonTyped
  <2>4. CASE NextDatom(c, InsertDatom(db, row), <<row>>)
    BY <1>1, <2>3, <2>4, TypeNextDatom
  <2>5. CASE Fail(c, "unique", db)
    BY <1>1, <2>2, <2>5, TypeFail DEF At, Errors
  <2> QED
    BY <1>5, <2>4, <2>5 DEF RetractDatom
<1>6. CASE IdentityTaken(c)
  BY <1>1, <1>3, <1>6, TypeFail DEF IdentityTaken, At, Errors
<1>7. CASE AssertDatom(c)
  <2>1. <<>> \in Seq(Rows)
    OBVIOUS
  <2> QED
    BY <1>1, <1>3, <1>7, <2>1, TypeStore DEF AssertDatom
<1>8. CASE Supersede(c)
  <2>1. PICK old \in ReadCurrent(work, eid, Datom(c).a) :
            LET row == Row(c, old.v, FALSE)
            IN  \/ Store(c, DeleteCurrentEA(InsertDatom(work, row), eid,
                                            Datom(c).a), <<row>>)
                \/ Fail(c, "unique", work)
    BY <1>8 DEF Supersede
  <2> DEFINE row == Row(c, old.v, FALSE)
  <2>2. old.v \in Values
    BY <1>3 DEF ReadCurrent, TablesType
  <2>3. row \in Rows
    BY <1>2, <1>3, <2>2, RowTyped DEF Row
  <2>4. DeleteCurrentEA(InsertDatom(work, row), eid, Datom(c).a) \in TablesType
    BY <1>3, <2>3, InsertTyped, DeleteTyped
  <2>5. <<row>> \in Seq(Rows)
    BY <2>3, SingletonTyped
  <2>6. CASE Store(c, DeleteCurrentEA(InsertDatom(work, row), eid,
                                      Datom(c).a), <<row>>)
    BY <1>1, <2>4, <2>5, <2>6, TypeStore
  <2>7. CASE Fail(c, "unique", work)
    BY <1>1, <1>3, <2>7, TypeFail DEF At, Errors
  <2> QED
    BY <2>1, <2>6, <2>7
<1> QED
  BY <1>4, <1>5, <1>6, <1>7, <1>8 DEF Apply

\* A crash or Close, and Open.
LEMMA TypeReopen == TypeInv /\ Reopen => TypeInv'
<1> SUFFICES ASSUME TypeInv, Reopen PROVE TypeInv'
  OBVIOUS
<1>1. Survivors \subseteq TablesType
  <2>1. disk \in TablesType /\ work \in TablesType
    BY DEF TypeInv, TypeOK
  <2>2. \A x, y \in TablesType : [x EXCEPT !.datoms = y.datoms] \in TablesType
    BY DEF TablesType
  <2>3. Survivors \subseteq {disk, work, [disk EXCEPT !.datoms = work.datoms],
                            [work EXCEPT !.datoms = disk.datoms]}
    BY DEF Survivors
  <2> QED
    BY <2>1, <2>2, <2>3
<1>2. PICK db \in Survivors : /\ disk' = db /\ work' = db
                             /\ nextTx' \in loadTx(db)
                             /\ nextEID' \in loadEID(db)
  BY DEF Reopen
<1>3. nextTx' \in Nat \ {0} /\ nextEID' \in Nat \ {0}
  BY <1>1, <1>2, LoadTyped
<1>4. NoCall \in [batch : Seq(TxDatom), txTime : Nat, validFrom : Nat]
  BY DEF NoCall
<1>5. TypeOK'
  BY <1>1, <1>2, <1>3, <1>4, ClientsAssumption
     DEF Reopen, ClosureReset, TypeInv, TypeOK
<1>6. AttrKnown'
  BY DEF Reopen, AttrKnown
<1> QED
  BY <1>5, <1>6 DEF TypeInv

\* Every step preserves the type invariant.
LEMMA TypeStep == TypeInv /\ [Next]_vars => TypeInv'
<1> SUFFICES ASSUME TypeInv, [Next]_vars PROVE TypeInv'
  OBVIOUS
<1>1. CASE \E c \in Clients : \/ Transact(c) \/ TakeConn(c) \/ TakeFails(c)
                             \/ Step(c)
  BY <1>1, TypeOutside, TypeBoundary, TypeResolve, TypeEntity, TypeApply
     DEF Step
<1>2. CASE Reopen
  BY <1>2, TypeReopen
<1>3. CASE UNCHANGED vars
  BY <1>3 DEF TypeInv, TypeOK, AttrKnown, Datom, vars, clients, closure
<1> QED
  BY <1>1, <1>2, <1>3 DEF Next

\* The state of every reachable database, caller and write closure of transact
\* has its type, one closure runs at a time, in the holder of the write lock,
\* and between write transactions SQLite has nothing pending.
THEOREM TypeCorrect == Spec => []TypeOK
<1>1. TypeInv => TypeOK
  BY DEF TypeInv
<1> QED
  BY <1>1, TypeInit, TypeStep, PTL DEF Spec
-----------------------------------------------------------------------------
(***************************************************************************)
(* The tables stay consistent. Shown for each statement sequence of        *)
(* transact first, as facts about the tables alone.                        *)
(***************************************************************************)
Consistent(db) == CardOneIn(db) /\ IdentityIn(db)

\* Appending a row to the log makes that row the last of its fact and leaves
\* the last rows of other facts as they are.
LEMMA AppendLive ==
    ASSUME NEW log \in Seq(Rows), NEW row \in Rows, NEW e, NEW a, NEW v
    PROVE  IsLive(Append(log, row), e, a, v) <=>
             IF EAV(row) = <<e, a, v>> THEN row.added ELSE IsLive(log, e, a, v)
<1> DEFINE new == Append(log, row)
<1>1. /\ Len(log) \in Nat
      /\ Len(new) = Len(log) + 1
      /\ new[Len(log) + 1] = row
      /\ \A i \in 1..Len(log) : new[i] = log[i]
  BY AppendProperties, LenProperties
<1> HIDE DEF new
<1>2. CASE EAV(row) = <<e, a, v>>
  <2>1. \A i \in 1..Len(new) : i # Len(log) + 1 => i \in 1..Len(log) /\ Len(log) + 1 > i
    BY <1>1
  <2>2. Len(log) + 1 \in 1..Len(new)
    BY <1>1
  <2>3. row.added => IsLive(new, e, a, v)
    BY <1>1, <1>2, <2>2 DEF IsLive
  <2>4. IsLive(new, e, a, v) => row.added
    BY <1>1, <1>2, <2>1, <2>2 DEF IsLive
  <2> QED
    BY <1>2, <2>3, <2>4 DEF new
<1>3. CASE EAV(row) # <<e, a, v>>
  <2>1. ASSUME IsLive(log, e, a, v) PROVE IsLive(new, e, a, v)
    <3>1. PICK i \in 1..Len(log) :
              /\ EAV(log[i]) = <<e, a, v>>
              /\ log[i].added
              /\ \A j \in 1..Len(log) : j > i => EAV(log[j]) # <<e, a, v>>
      BY <2>1 DEF IsLive
    <3>2. i \in 1..Len(new) /\ new[i] = log[i]
      BY <1>1
    <3>3. ASSUME NEW j \in 1..Len(new), j > i
          PROVE  EAV(new[j]) # <<e, a, v>>
      <4>1. CASE j = Len(log) + 1
        BY <1>1, <1>3, <4>1
      <4>2. CASE j # Len(log) + 1
        <5>1. j \in 1..Len(log)
          BY <1>1, <4>2
        <5> QED
          BY <1>1, <3>1, <3>3, <5>1
      <4> QED
        BY <4>1, <4>2
    <3> QED
      BY <3>1, <3>2, <3>3 DEF IsLive
  <2>2. ASSUME IsLive(new, e, a, v) PROVE IsLive(log, e, a, v)
    <3>1. PICK i \in 1..Len(new) :
              /\ EAV(new[i]) = <<e, a, v>>
              /\ new[i].added
              /\ \A j \in 1..Len(new) : j > i => EAV(new[j]) # <<e, a, v>>
      BY <2>2 DEF IsLive
    <3>2. i # Len(log) + 1
      BY <1>1, <1>3, <3>1
    <3>3. i \in 1..Len(log) /\ new[i] = log[i]
      BY <1>1, <3>2
    <3>4. \A j \in 1..Len(log) : j \in 1..Len(new) /\ new[j] = log[j]
      BY <1>1
    <3> QED
      BY <3>1, <3>3, <3>4 DEF IsLive
  <2> QED
    BY <1>3, <2>1, <2>2 DEF new
<1> QED
  BY <1>2, <1>3

\* DELETE ... WHERE e, a, v and the row that logs it.
LEMMA RetractConsistent ==
    ASSUME NEW db \in TablesType, NEW row \in Rows, ~row.added
    PROVE  LET del == DeleteCurrentEAV(db, row.e, row.a, row.v)
           IN  /\ Consistent(db) => /\ Consistent(del)
                                    /\ Consistent(InsertDatom(del, row))
               /\ LiveIn(db) => LiveIn(del) /\ LiveIn(InsertDatom(del, row))
<1> DEFINE del == DeleteCurrentEAV(db, row.e, row.a, row.v)
<1>1. /\ del.current = {r \in db.current : EAV(r) # EAV(row)}
      /\ del.datoms = db.datoms
      /\ InsertDatom(del, row).current = del.current
      /\ InsertDatom(del, row).datoms = Append(db.datoms, row)
  BY DEF DeleteCurrentEAV, InsertDatom, TablesType, EAV
<1>2. Consistent(db) => Consistent(del) /\ Consistent(InsertDatom(del, row))
  BY <1>1 DEF Consistent, CardOneIn, IdentityIn
<1>3. LiveIn(db) => LiveIn(del)
  BY <1>1 DEF LiveIn
<1>4. ASSUME LiveIn(db), NEW r \in del.current
      PROVE  IsLive(Append(db.datoms, row), r.e, r.a, r.v)
  <2>1. db.datoms \in Seq(Rows) /\ EAV(row) # <<r.e, r.a, r.v>>
    BY <1>1 DEF TablesType, EAV
  <2>2. IsLive(db.datoms, r.e, r.a, r.v)
    BY <1>1, <1>4 DEF LiveIn
  <2> QED
    BY <2>1, <2>2, AppendLive
<1>5. LiveIn(db) => LiveIn(InsertDatom(del, row))
  BY <1>1, <1>4 DEF LiveIn
<1> HIDE DEF del
<1> QED
  BY <1>2, <1>3, <1>5 DEF del

\* The retraction of the old value of a CardOne attribute.
LEMMA SupersedeConsistent ==
    ASSUME NEW db \in TablesType, NEW row \in Rows
    PROVE  LET del == DeleteCurrentEA(InsertDatom(db, row), row.e, row.a)
           IN  /\ Consistent(db) => Consistent(del)
               /\ LiveIn(db) => LiveIn(del)
               /\ ReadCurrent(del, row.e, row.a) = {}
               /\ \A a, v, x : LookupAV(del, a, v, x) \subseteq
                                LookupAV(db, a, v, x)
<1> DEFINE del == DeleteCurrentEA(InsertDatom(db, row), row.e, row.a)
<1>1. /\ del.current = {r \in db.current : ~(r.e = row.e /\ r.a = row.a)}
      /\ del.datoms = Append(db.datoms, row)
  BY DEF DeleteCurrentEA, InsertDatom, TablesType
<1> HIDE DEF del
<1>2. Consistent(db) => Consistent(del)
  BY <1>1 DEF Consistent, CardOneIn, IdentityIn
<1>3. ASSUME LiveIn(db), NEW r \in del.current
      PROVE  IsLive(del.datoms, r.e, r.a, r.v)
  <2>1. db.datoms \in Seq(Rows) /\ EAV(row) # <<r.e, r.a, r.v>>
    BY <1>1 DEF TablesType, EAV
  <2>2. IsLive(db.datoms, r.e, r.a, r.v)
    BY <1>1, <1>3 DEF LiveIn
  <2> QED
    BY <1>1, <2>1, <2>2, AppendLive
<1>4. ReadCurrent(del, row.e, row.a) = {}
  BY <1>1 DEF ReadCurrent
<1>5. \A a, v, x : LookupAV(del, a, v, x) \subseteq LookupAV(db, a, v, x)
  BY <1>1 DEF LookupAV
<1> QED
  BY <1>2, <1>3, <1>4, <1>5 DEF del, LiveIn

\* The assertion: its log row and its row in current_datoms.
LEMMA AssertConsistent ==
    ASSUME NEW db \in TablesType, NEW row \in Rows, row.added,
           row.a \in CardOneAttrs => ReadCurrent(db, row.e, row.a) = {},
           row.a \in IdentityAttrs => LookupAV(db, row.a, row.v, row.e) = {}
    PROVE  LET cur == CurrentRow(row.e, row.a, row.v, row.tx, row.vf)
               new == UpsertCurrent(InsertDatom(db, row), cur)
           IN  /\ Consistent(db) => Consistent(new)
               /\ LiveIn(db) => LiveIn(new)
<1> DEFINE cur == CurrentRow(row.e, row.a, row.v, row.tx, row.vf)
           new == UpsertCurrent(InsertDatom(db, row), cur)
<1>1. /\ cur.e = row.e /\ cur.a = row.a /\ cur.v = row.v
      /\ new.current = {r \in db.current : EAV(r) # EAV(cur)} \cup {cur}
      /\ new.datoms = Append(db.datoms, row)
      /\ EAV(cur) = EAV(row)
  BY DEF UpsertCurrent, InsertDatom, CurrentRow, TablesType, EAV
<1> HIDE DEF cur, new
<1>2. CardOneIn(db) => CardOneIn(new)
  BY <1>1 DEF CardOneIn, ReadCurrent
<1>3. IdentityIn(db) => IdentityIn(new)
  <2>1. \A r \in db.current :
            /\ row.a \in IdentityAttrs /\ r.a = row.a /\ r.v = row.v
            => EAV(r) = EAV(cur)
    BY <1>1 DEF LookupAV, EAV
  <2> QED
    BY <1>1, <2>1 DEF IdentityIn
<1>4. ASSUME LiveIn(db), NEW r \in new.current
      PROVE  IsLive(new.datoms, r.e, r.a, r.v)
  <2>1. db.datoms \in Seq(Rows)
    BY DEF TablesType
  <2>2. CASE EAV(row) = <<r.e, r.a, r.v>>
    BY <1>1, <2>1, <2>2, AppendLive
  <2>3. CASE EAV(row) # <<r.e, r.a, r.v>>
    <3>1. r \in db.current
      BY <1>1, <2>3 DEF EAV
    <3>2. IsLive(db.datoms, r.e, r.a, r.v)
      BY <1>4, <3>1 DEF LiveIn
    <3> QED
      BY <1>1, <2>1, <2>3, <3>2, AppendLive
  <2> QED
    BY <2>2, <2>3
<1> QED
  BY <1>2, <1>3, <1>4 DEF Consistent, LiveIn, cur, new
-----------------------------------------------------------------------------
(***************************************************************************)
(* The same for every step of the system. A crash of a partitioned         *)
(* database may keep the new log with the old current_datoms, so LiveIn is *)
(* claimed for databases in one file only.                                 *)
(***************************************************************************)
TablesInv(db) == Consistent(db) /\ (~Partitioned => LiveIn(db))

SafeInv == TypeInv /\ TablesInv(disk) /\ TablesInv(work)

\* The writes of one datom, made by the closure.
LEMMA ApplySafe ==
    ASSUME SafeInv, NEW c \in Clients, Apply(c)
    PROVE  disk' = disk /\ TablesInv(work')
<1>1. At(c, "apply") /\ TypeInv
  BY DEF SafeInv, Apply, SkipDuplicate, RetractDatom, IdentityTaken,
         AssertDatom, Supersede, MayAssert, Applies
<1>2. Datom(c) \in TxDatom /\ Datom(c).a \in Attrs /\ Datom(c).v \in Values
  BY <1>1, DatomTyped, RefTyped DEF TypeInv, AttrKnown, At
<1>3. /\ eid \in Nat /\ txID[c] \in Nat /\ call[c].validFrom \in Nat
      /\ work \in TablesType
  BY <1>1 DEF TypeInv, TypeOK
<1>4. ASSUME NEW v \in Values, NEW b \in BOOLEAN
      PROVE  LET row == Row(c, v, b)
             IN  /\ row \in Rows /\ row.e = eid /\ row.a = Datom(c).a
                 /\ row.v = v /\ row.added = b /\ row.tx = txID[c]
                 /\ row.vf = call[c].validFrom
  BY <1>2, <1>3, RowTyped DEF Row, LogRow
<1>5. ASSUME NEW db \in TablesType, NEW rows, MayAssert(c), TablesInv(db),
             Datom(c).a \in CardOneAttrs =>
                 ReadCurrent(db, eid, Datom(c).a) = {},
             LookupAV(db, Datom(c).a, Datom(c).v, eid) \subseteq
                 LookupAV(work, Datom(c).a, Datom(c).v, eid),
             Store(c, db, rows)
      PROVE  disk' = disk /\ TablesInv(work')
  <2> DEFINE row == Row(c, Datom(c).v, TRUE)
             new == UpsertCurrent(InsertDatom(db, row),
                        CurrentRow(row.e, row.a, row.v, row.tx, row.vf))
  <2>1. /\ row \in Rows /\ row.e = eid /\ row.a = Datom(c).a
        /\ row.v = Datom(c).v /\ row.added /\ row.tx = txID[c]
        /\ row.vf = call[c].validFrom
    BY <1>2, <1>4
  <2>2. /\ disk' = disk
        /\ work' \in {new, db}
    BY <1>5, <2>1 DEF Store, NextDatom, Fail
  <2>3. row.a \in IdentityAttrs => LookupAV(db, row.a, row.v, row.e) = {}
    BY <1>5, <2>1 DEF MayAssert
  <2>4. TablesInv(new)
    <3> HIDE DEF row
    <3> QED
      BY <1>5, <2>1, <2>3, AssertConsistent DEF TablesInv
  <2> QED
    BY <1>5, <2>2, <2>4
<1>6. CASE SkipDuplicate(c)
  BY <1>6 DEF SkipDuplicate, NextDatom, SafeInv
<1>7. CASE RetractDatom(c)
  <2> DEFINE row == Row(c, Datom(c).v, FALSE)
             del == DeleteCurrentEAV(work, eid, Datom(c).a, Datom(c).v)
  <2>1. /\ row \in Rows /\ row.e = eid /\ row.a = Datom(c).a
        /\ row.v = Datom(c).v /\ row.added = FALSE
    BY <1>2, <1>4
  <2>2. disk' = disk /\ work' \in {InsertDatom(del, row), del}
    BY <1>7 DEF RetractDatom, NextDatom, Fail
  <2>3. TablesInv(del) /\ TablesInv(InsertDatom(del, row))
    <3> HIDE DEF row
    <3> QED
      BY <1>3, <2>1, RetractConsistent DEF TablesInv, SafeInv
  <2> QED
    BY <2>2, <2>3
<1>8. CASE IdentityTaken(c)
  BY <1>8 DEF IdentityTaken, Fail, SafeInv
<1>9. CASE AssertDatom(c)
  BY <1>3, <1>5, <1>9 DEF AssertDatom, SafeInv
<1>10. CASE Supersede(c)
  <2>1. PICK old \in ReadCurrent(work, eid, Datom(c).a) :
            LET row == Row(c, old.v, FALSE)
            IN  \/ Store(c, DeleteCurrentEA(InsertDatom(work, row), eid,
                                            Datom(c).a), <<row>>)
                \/ Fail(c, "unique", work)
    BY <1>10 DEF Supersede
  <2> DEFINE row == Row(c, old.v, FALSE)
             del == DeleteCurrentEA(InsertDatom(work, row), eid, Datom(c).a)
  <2>2. old.v \in Values
    BY <1>3 DEF ReadCurrent, TablesType
  <2>3. row \in Rows /\ row.e = eid /\ row.a = Datom(c).a
    BY <1>4, <2>2
  <2>4. del \in TablesType
    BY <1>3, <2>3, InsertTyped, DeleteTyped
  <2>5. /\ TablesInv(del)
        /\ ReadCurrent(del, eid, Datom(c).a) = {}
        /\ LookupAV(del, Datom(c).a, Datom(c).v, eid) \subseteq
               LookupAV(work, Datom(c).a, Datom(c).v, eid)
    <3> HIDE DEF row
    <3> QED
      BY <1>3, <2>3, SupersedeConsistent DEF TablesInv, SafeInv
  <2>6. CASE Store(c, del, <<row>>)
    BY <1>5, <1>10, <2>4, <2>5, <2>6 DEF Supersede
  <2>7. CASE Fail(c, "unique", work)
    BY <2>7 DEF Fail, SafeInv
  <2> QED
    BY <2>1, <2>6, <2>7
<1> QED
  BY <1>6, <1>7, <1>8, <1>9, <1>10 DEF Apply

\* Any other step of a caller leaves both tables alone, copies one to the
\* other, or records the transaction.
LEMMA OtherSafe ==
    ASSUME SafeInv, NEW c \in Clients,
           \/ Transact(c) \/ TakeConn(c) \/ TakeFails(c)
           \/ (Step(c) /\ ~Apply(c))
    PROVE  TablesInv(disk') /\ TablesInv(work')
<1>1. CASE Transact(c) \/ TakeConn(c) \/ TakeFails(c) \/ BeginFails(c)
  BY <1>1 DEF Transact, TakeConn, TakeFails, BeginFails, SafeInv
<1>2. CASE BeginImmediate(c) \/ Commit(c) \/ CommitFails(c) \/ Interrupted(c)
  BY <1>2 DEF BeginImmediate, Commit, CommitFails, Interrupted,
              EndTransaction, SafeInv
<1>3. CASE ResolveSkip(c) \/ ResolveUpsert(c) \/ ResolveConflict(c)
           \/ EncodeFails(c)
  BY <1>3 DEF ResolveSkip, ResolveUpsert, ResolveConflict, EncodeFails, Fail,
              SafeInv
<1>4. CASE RecordTx(c)
  <2>1. work \in TablesType
    BY DEF SafeInv, TypeInv, TypeOK
  <2>2. /\ disk' = disk
        /\ work'.current = work.current
        /\ work'.datoms = work.datoms
    BY <1>4, <2>1, RecordTxCases
       DEF TxRecorded, TxRefused, Fail, InsertTx, TablesType
  <2> QED
    BY <2>2 DEF SafeInv, TablesInv, Consistent, CardOneIn, IdentityIn, LiveIn
<1>5. CASE Entity(c)
  BY <1>5 DEF Entity, EntityTemp, EntityID, EntityLookup, EntityFails,
              BatchDone, ToApply, Fail, SafeInv
<1> QED
  BY <1>1, <1>2, <1>3, <1>4, <1>5 DEF Step, Resolve

\* A restart finds tables that were consistent on disk.
LEMMA ReopenSafe ==
    ASSUME SafeInv, Reopen
    PROVE  TablesInv(disk') /\ TablesInv(work')
<1>1. PICK db \in Survivors : disk' = db /\ work' = db
  BY DEF Reopen
<1>2. disk \in TablesType /\ work \in TablesType
  BY DEF SafeInv, TypeInv, TypeOK
<1>3. db.current \in {disk.current, work.current}
  BY <1>2 DEF Survivors, TablesType
<1>4. Consistent(db)
  BY <1>3 DEF SafeInv, TablesInv, Consistent, CardOneIn, IdentityIn
<1>5. ~Partitioned => db \in {disk, work}
  BY DEF Survivors
<1> QED
  BY <1>1, <1>4, <1>5 DEF SafeInv, TablesInv

\* Every step preserves the invariant behind the theorems on current_datoms.
LEMMA SafeStep == SafeInv /\ [Next]_vars => SafeInv'
<1> SUFFICES ASSUME SafeInv, [Next]_vars PROVE SafeInv'
  OBVIOUS
<1>1. TypeInv'
  BY TypeStep DEF SafeInv
<1>2. CASE \E c \in Clients : Apply(c)
  BY <1>1, <1>2, ApplySafe DEF SafeInv
<1>3. CASE \E c \in Clients : \/ Transact(c) \/ TakeConn(c) \/ TakeFails(c)
                              \/ (Step(c) /\ ~Apply(c))
  BY <1>1, <1>3, OtherSafe DEF SafeInv
<1>4. CASE Reopen
  BY <1>1, <1>4, ReopenSafe DEF SafeInv
<1>5. CASE UNCHANGED vars
  BY <1>1, <1>5 DEF SafeInv, vars
<1> QED
  BY <1>2, <1>3, <1>4, <1>5 DEF Next, Step

LEMMA SafeInit == Init => SafeInv
BY TypeInit DEF Init, SafeInv, TablesInv, Consistent, CardOneIn, IdentityIn,
                LiveIn, EmptyTables

LEMMA SafeInductive == Spec => []SafeInv
BY SafeInit, SafeStep, PTL DEF Spec

\* No entity ever has two values of a CardOne attribute, whatever the batches,
\* the concurrent callers, the failures half-way and the restarts.
THEOREM CardOneAlways == Spec => []CardOneHolds
<1>1. SafeInv => CardOneHolds
  BY DEF SafeInv, TablesInv, Consistent, CardOneHolds
<1> QED
  BY <1>1, SafeInductive, PTL

\* No Identity value is ever held by two entities.
THEOREM IdentityAlways == Spec => []IdentityUnique
<1>1. SafeInv => IdentityUnique
  BY DEF SafeInv, TablesInv, Consistent, IdentityUnique
<1> QED
  BY <1>1, SafeInductive, PTL

\* In a database of one file current_datoms never shows a fact that the log has
\* retracted or never held.
THEOREM CurrentAlwaysLive ==
    ASSUME ~Partitioned
    PROVE  Spec => []CurrentIsLive
<1>1. SafeInv => CurrentIsLive
  BY DEF SafeInv, TablesInv, CurrentIsLive
<1> QED
  BY <1>1, SafeInductive, PTL

-----------------------------------------------------------------------------
(***************************************************************************)
(* Transaction IDs. TxIDsFresh alone is not inductive: a commit makes the  *)
(* IDs of `work` those of `disk`, so `work` may hold no ID but the         *)
(* writer's beyond the recorded ones, and the counter is above them all.   *)
(***************************************************************************)
IDInv ==
    /\ TypeInv
    /\ TxIDsFresh
    /\ \A t \in TxIDs(disk) : t < nextTx
    /\ \A c \in Clients : writer = c => TxIDs(work) \subseteq TxIDs(disk) \cup {txID[c]}

\* Whatever db a restart finds, the counter it loads is above the IDs in db.
LEMMA LoadAbove ==
    ASSUME NEW db \in TablesType, NEW n \in loadTx(db), NEW t \in TxIDs(db)
    PROVE  t < n
<1>1. TxIDs(db) \subseteq Nat
  BY DEF TxIDs, TablesType
<1> QED
  BY <1>1 DEF loadTx, Maxima

\* Only RecordTx touches table transactions, with the writer's ID.
LEMMA RecordedIDs ==
    ASSUME NEW db \in TablesType, NEW id, NEW time
    PROVE  TxIDs(InsertTx(db, id, time)) \subseteq TxIDs(db) \cup {id}
<1>1. InsertTx(db, id, time).transactions =
          db.transactions \cup {[id |-> id, time |-> time]}
  BY DEF InsertTx, TablesType
<1>2. ASSUME NEW t \in InsertTx(db, id, time).transactions
      PROVE  t.id \in {u.id : u \in db.transactions} \cup {id}
  BY <1>1, <1>2
<1> QED
  BY <1>2 DEF TxIDs

\* The statements on datoms and current_datoms leave it alone.
LEMMA SameIDs ==
    ASSUME NEW db \in TablesType
    PROVE  /\ \A row : TxIDs(InsertDatom(db, row)) = TxIDs(db)
           /\ \A e, a : TxIDs(DeleteCurrentEA(db, e, a)) = TxIDs(db)
           /\ \A e, a, v : TxIDs(DeleteCurrentEAV(db, e, a, v)) = TxIDs(db)
           /\ \A cur : TxIDs(UpsertCurrent(db, cur)) = TxIDs(db)
BY DEF TxIDs, InsertDatom, DeleteCurrentEA, DeleteCurrentEAV, UpsertCurrent,
       TablesType

\* A datom is applied without any change to IDs, callers or committed tables.
LEMMA ApplyKeeps ==
    ASSUME TypeInv, NEW c \in Clients, Apply(c)
    PROVE  /\ UNCHANGED <<disk, writer, nextTx, txID>>
           /\ pc' \in {[pc EXCEPT ![c] = "end"], [pc EXCEPT ![c] = "entity"]}
           /\ writer = c
           /\ TxIDs(work') = TxIDs(work)
<1> USE DEF Fail, NextDatom
<1>1. At(c, "apply")
  BY DEF Apply, SkipDuplicate, RetractDatom, IdentityTaken,
         AssertDatom, Supersede, MayAssert, Applies
<1>2. writer = c /\ work \in TablesType
  BY <1>1 DEF At, TypeInv, TypeOK
<1>3. ASSUME NEW db \in TablesType, NEW rows, TxIDs(db) = TxIDs(work),
             Store(c, db, rows)
      PROVE  /\ UNCHANGED <<disk, writer, nextTx, txID>>
             /\ pc' \in {[pc EXCEPT ![c] = "end"], [pc EXCEPT ![c] = "entity"]}
             /\ TxIDs(work') = TxIDs(work)
  <2> DEFINE row == Row(c, Datom(c).v, TRUE)
             cur == CurrentRow(eid, Datom(c).a, Datom(c).v, txID[c],
                               call[c].validFrom)
  <2>1. Datom(c).v \in Values /\ Datom(c).a \in Attrs
    BY <1>1, DatomTyped, RefTyped DEF TypeInv, AttrKnown, At
  <2>2. row \in Rows
    BY <2>1, RowTyped DEF Row, TypeInv, TypeOK
  <2>3. InsertDatom(db, row) \in TablesType
    BY <2>2, InsertTyped
  <2>4. TxIDs(UpsertCurrent(InsertDatom(db, row), cur)) = TxIDs(work)
    <3> DEFINE new == InsertDatom(db, row)
    <3>1. TxIDs(new) = TxIDs(work)
      BY <1>3, SameIDs
    <3> HIDE DEF row, cur, new
    <3>2. TxIDs(UpsertCurrent(new, cur)) = TxIDs(new)
      BY <2>3, SameIDs DEF new
    <3> QED
      BY <3>1, <3>2 DEF new
  <2> QED
    BY <1>3, <2>4 DEF Store
<1>4. CASE SkipDuplicate(c)
  BY <1>2, <1>4 DEF SkipDuplicate
<1>5. CASE IdentityTaken(c)
  BY <1>2, <1>5 DEF IdentityTaken
<1>6. CASE RetractDatom(c)
  <2> DEFINE del == DeleteCurrentEAV(work, eid, Datom(c).a, Datom(c).v)
  <2>1. del \in TablesType
    BY <1>2, DeleteTyped
  <2>2. TxIDs(del) = TxIDs(work)
        /\ \A row : TxIDs(InsertDatom(del, row)) = TxIDs(work)
    BY <1>2, <2>1, SameIDs
  <2> QED
    BY <1>2, <1>6, <2>2 DEF RetractDatom
<1>7. CASE AssertDatom(c)
  BY <1>2, <1>3, <1>7 DEF AssertDatom
<1>8. CASE Supersede(c)
  <2>1. PICK old \in ReadCurrent(work, eid, Datom(c).a) :
            LET row == Row(c, old.v, FALSE)
            IN  \/ Store(c, DeleteCurrentEA(InsertDatom(work, row), eid,
                                            Datom(c).a), <<row>>)
                \/ Fail(c, "unique", work)
    BY <1>8 DEF Supersede
  <2> DEFINE row == Row(c, old.v, FALSE)
             del == DeleteCurrentEA(InsertDatom(work, row), eid, Datom(c).a)
  <2>2. old.v \in Values /\ Datom(c).a \in Attrs
    BY <1>1, <1>2 DEF ReadCurrent, TablesType, TypeInv, AttrKnown, At
  <2>3. row \in Rows
    BY <2>2, RowTyped DEF Row, TypeInv, TypeOK
  <2>4. InsertDatom(work, row) \in TablesType /\ del \in TablesType
    BY <1>2, <2>3, InsertTyped, DeleteTyped
  <2>5. TxIDs(del) = TxIDs(work)
    <3>1. TxIDs(InsertDatom(work, row)) = TxIDs(work)
      BY <1>2, SameIDs
    <3> DEFINE mid == InsertDatom(work, row)
    <3>2. mid \in TablesType
      BY <2>4
    <3> HIDE DEF mid
    <3>3. TxIDs(DeleteCurrentEA(mid, eid, Datom(c).a)) = TxIDs(mid)
      BY <3>2, SameIDs
    <3> QED
      BY <3>1, <3>3 DEF mid
  <2>6. CASE Store(c, del, <<row>>)
    BY <1>2, <1>3, <2>4, <2>5, <2>6
  <2>7. CASE Fail(c, "unique", work)
    BY <1>2, <2>7
  <2> QED
    BY <2>1, <2>6, <2>7
<1> QED
  BY <1>4, <1>5, <1>6, <1>7, <1>8 DEF Apply
-----------------------------------------------------------------------------
\* A caller outside the write transaction holds no ID that work could gain.
LEMMA IDStep == IDInv /\ [Next]_vars => IDInv'
<1> SUFFICES ASSUME IDInv, [Next]_vars PROVE IDInv'
  OBVIOUS
<1>1. TypeInv /\ TypeInv'
  BY TypeStep DEF IDInv
<1> DEFINE PCs == {"idle", "take", "begin", "resolve", "entity", "apply", "end"}
<1>t. /\ pc \in [Clients -> PCs] /\ txID \in [Clients -> Nat]
      /\ nextTx \in Nat /\ TxIDs(disk) \subseteq Nat
      /\ \A c \in Clients :
            writer = c <=> pc[c] \in {"resolve", "entity", "apply", "end"}
  <2>1. disk \in TablesType
    BY <1>1 DEF TypeInv, TypeOK
  <2>2. disk.transactions \subseteq [id : Nat, time : Nat]
    BY <2>1 DEF TablesType
  <2>3. TxIDs(disk) \subseteq Nat
    BY <2>2 DEF TxIDs
  <2> QED
    BY <1>1, <2>3 DEF TypeInv, TypeOK
<1> HIDE DEF PCs
<1> USE DEF IDInv, TxIDsFresh
<1>2. ASSUME NEW c \in Clients, Transact(c) PROVE IDInv'
  <2>1. /\ UNCHANGED <<disk, work, writer>> /\ nextTx' = nextTx + 1
        /\ txID' = [txID EXCEPT ![c] = nextTx]
        /\ pc[c] = "idle" /\ pc' = [pc EXCEPT ![c] = "take"]
    BY <1>2 DEF Transact
  <2>2. writer # c
    BY <1>t, <2>1
  <2>3. TxIDsFresh'
    BY <1>t, <2>1
  <2>4. \A t \in TxIDs(disk') : t < nextTx'
    BY <1>t, <2>1
  <2> QED
    BY <1>1, <1>t, <2>1, <2>2, <2>3, <2>4
<1>3. ASSUME NEW c \in Clients,
             \/ TakeConn(c) \/ TakeFails(c) \/ BeginFails(c)
             \/ BeginImmediate(c) \/ CommitFails(c) \/ Interrupted(c)
      PROVE  IDInv'
  <2>1. /\ UNCHANGED <<disk, nextTx, txID>>
        /\ pc[c] # "idle" /\ \A d \in Clients \ {c} : pc'[d] = pc[d]
        /\ (writer' = writer /\ work' = work) \/ work' = disk
    BY <1>t, <1>3
       DEF TakeConn, TakeFails, BeginFails, BeginImmediate, CommitFails,
           Interrupted, EndTransaction, Return
  <2> QED
    BY <1>1, <2>1
<1>4. ASSUME NEW c \in Clients, Commit(c) PROVE IDInv'
  <2>1. writer = c /\ TxIDs(work) \subseteq TxIDs(disk) \cup {txID[c]}
    BY <1>t, <1>4 DEF Commit
  <2>2. /\ disk' = work /\ work' = work /\ writer' = NoClient
        /\ pc[c] # "idle" /\ pc' = [pc EXCEPT ![c] = "idle"]
        /\ UNCHANGED <<txID, nextTx>>
    BY <1>4 DEF Commit, EndTransaction, Return
  <2>3. \A t \in TxIDs(disk') : t < nextTx'
    BY <2>1, <2>2
  <2>4. TxIDsFresh'
    BY <1>t, <2>1, <2>2
  <2> QED
    BY <1>1, <2>2, <2>3, <2>4, ClientsAssumption
<1>5. ASSUME NEW c \in Clients, Entity(c) \/ (Resolve(c) /\ ~RecordTx(c))
      PROVE  IDInv'
  <2>1. CASE Entity(c) \/ ResolveConflict(c) \/ EncodeFails(c)
    <3>1. /\ UNCHANGED <<disk, work, writer, nextTx, txID>>
          /\ pc[c] # "idle"
          /\ \E w \in {"apply", "end"} : pc' = [pc EXCEPT ![c] = w]
      BY <2>1
         DEF Entity, EntityTemp, EntityID, EntityLookup, EntityFails,
             BatchDone, ToApply, ResolveConflict, EncodeFails, Fail, At
    <3> QED
      BY <1>1, <1>t, <3>1
  <2>2. CASE ResolveSkip(c) \/ ResolveUpsert(c)
    BY <1>1, <2>2 DEF ResolveSkip, ResolveUpsert, clients
  <2> QED
    BY <1>5, <2>1, <2>2 DEF Resolve
<1>6. ASSUME NEW c \in Clients, RecordTx(c) PROVE IDInv'
  <2>1. writer = c /\ work \in TablesType
    BY <1>1, <1>6 DEF RecordTx, TypeInv, TypeOK
  <2>2. /\ UNCHANGED <<disk, writer, nextTx, txID>>
        /\ pc[c] # "idle"
        /\ \E w \in {"entity", "end"} : pc' = [pc EXCEPT ![c] = w]
    BY <1>6, RecordTxCases DEF TxRecorded, TxRefused, Fail
  <2>3. TxIDs(work') \subseteq TxIDs(disk) \cup {txID[c]}
    BY <1>6, <2>1, RecordTxCases, RecordedIDs DEF TxRecorded, TxRefused, Fail
  <2> QED
    BY <1>1, <1>t, <2>1, <2>2, <2>3
<1>7. ASSUME NEW c \in Clients, Apply(c) PROVE IDInv'
  <2>1. pc[c] # "idle"
    BY <1>7 DEF Apply, SkipDuplicate, RetractDatom, IdentityTaken,
                AssertDatom, Supersede, MayAssert, Applies, At
  <2>2. /\ UNCHANGED <<disk, writer, nextTx, txID>>
        /\ \E w \in {"entity", "end"} : pc' = [pc EXCEPT ![c] = w]
        /\ TxIDs(work') = TxIDs(work)
    BY <1>1, <1>7, ApplyKeeps
  <2> QED
    BY <1>1, <1>t, <2>1, <2>2
<1>8. ASSUME Reopen PROVE IDInv'
  <2>1. PICK db \in Survivors : disk' = db /\ nextTx' \in loadTx(db)
    BY <1>8 DEF Reopen
  <2>2. db \in TablesType
    BY <1>1, <2>1 DEF TypeInv, TypeOK
  <2>3. \A t \in TxIDs(disk') : t < nextTx'
    BY <2>1, <2>2, LoadAbove
  <2> QED
    BY <1>1, <1>8, <2>3, ClientsAssumption DEF Reopen
<1>9. CASE UNCHANGED vars
  BY <1>1, <1>9 DEF vars, clients
<1> QED
  BY <1>2, <1>3, <1>4, <1>5, <1>6, <1>7, <1>8, <1>9 DEF Next, Step

LEMMA IDInit == Init => IDInv
BY TypeInit, ClientsAssumption
   DEF Init, IDInv, TxIDsFresh, TxIDs, EmptyTables

\* No call ever runs with a transaction ID that another call in progress or any
\* recorded transaction has, whatever fails and however often the process
\* restarts, in one file or in two.
THEOREM TxIDsAlwaysFresh == Spec => []TxIDsFresh
<1>1. IDInv => TxIDsFresh
  BY DEF IDInv
<1> QED
  BY <1>1, IDInit, IDStep, PTL DEF Spec

-----------------------------------------------------------------------------
(***************************************************************************)
(* The write transaction in progress against the committed tables: it only *)
(* appends to the log, under the writer's ID, and once it has changed      *)
(* anything that ID is recorded.                                           *)
(***************************************************************************)
Appended(old, db) == (Len(old.datoms) + 1)..Len(db.datoms)

Continues(old, db, tx) ==
    /\ Len(old.datoms) <= Len(db.datoms)
    /\ \A i \in 1..Len(old.datoms) : db.datoms[i] = old.datoms[i]
    /\ \A i \in Appended(old, db) : db.datoms[i].tx = tx

WriteInv ==
    \A c \in Clients : writer = c =>
        /\ Continues(disk, work, txID[c])
        /\ TxIDs(disk) \subseteq TxIDs(work)
        /\ work = disk \/ txID[c] \in TxIDs(work)
        /\ pc[c] = "resolve" => work = disk
        /\ pc[c] \in {"entity", "apply"} => txID[c] \in TxIDs(work)

(***************************************************************************)
(* current_datoms against the log, of a database in one file. Covers: it   *)
(* has changed only at facts that new rows are about. CurrentLogged: the   *)
(* assertion behind each of its rows is logged. Standing: it shows every   *)
(* assertion not retracted later, if no transaction in the log touches a   *)
(* fact twice or else if the fact was never retracted at all. (A batch     *)
(* that retracts, asserts and retracts one fact stops at the third datom,  *)
(* with the fact deleted and the log ending in its assertion.)             *)
(***************************************************************************)
Covers(old, db) ==
    \A f \in (Facts(db) \ Facts(old)) \cup (Facts(old) \ Facts(db)) :
        \E i \in Appended(old, db) : EAV(db.datoms[i]) = f

CurrentLogged(db) ==
    \A r \in db.current : Logged(db, LogRow(r.e, r.a, r.v, r.tx, TRUE, r.vf))

Once(log) ==
    \A i, j \in 1..Len(log) :
        EAV(log[i]) = EAV(log[j]) /\ log[i].tx = log[j].tx => i = j

Stands(log, i) ==
    /\ log[i].added
    /\ \A j \in 1..Len(log) : j > i /\ EAV(log[j]) = EAV(log[i]) => log[j].added
    /\ \/ Once(log)
       \/ \A j \in 1..Len(log) : EAV(log[j]) = EAV(log[i]) => log[j].added

Standing(db) ==
    \A i \in 1..Len(db.datoms) : Stands(db.datoms, i) => EAV(db.datoms[i]) \in Facts(db)

Mirrors(db) == CurrentLogged(db) /\ Standing(db)

FileInv ==
    /\ LoggedIsRecorded
    /\ Covers(disk, work)
    /\ Mirrors(disk) /\ Mirrors(work)

LogInv == SafeInv /\ IDInv /\ WriteInv /\ (~Partitioned => FileInv)

-----------------------------------------------------------------------------
\* What the statements on current_datoms do to the facts, and that they leave
\* the log alone.
LEMMA DeleteEAVFacts ==
    ASSUME NEW db \in TablesType, NEW e, NEW a, NEW v
    PROVE  LET del == DeleteCurrentEAV(db, e, a, v)
           IN  /\ del.datoms = db.datoms /\ del.current \subseteq db.current
               /\ Facts(del) = Facts(db) \ {<<e, a, v>>}
<1> DEFINE del == DeleteCurrentEAV(db, e, a, v)
<1>1. /\ del.datoms = db.datoms
      /\ del.current = {r \in db.current : EAV(r) # <<e, a, v>>}
  BY DEF DeleteCurrentEAV, TablesType
<1> HIDE DEF del
<1>2. Facts(del) = Facts(db) \ {<<e, a, v>>}
  BY <1>1 DEF Facts
<1> QED
  BY <1>1, <1>2 DEF del

\* With one value per CardOne attribute the superseding DELETE removes one fact.
LEMMA DeleteEAFacts ==
    ASSUME NEW db \in TablesType, CardOneIn(db), NEW e, NEW a \in CardOneAttrs,
           NEW old \in ReadCurrent(db, e, a)
    PROVE  LET del == DeleteCurrentEA(db, e, a)
           IN  /\ del.datoms = db.datoms /\ del.current \subseteq db.current
               /\ Facts(del) = Facts(db) \ {<<e, a, old.v>>}
<1> DEFINE del == DeleteCurrentEA(db, e, a)
<1>1. /\ del.datoms = db.datoms
      /\ del.current = {r \in db.current : ~(r.e = e /\ r.a = a)}
  BY DEF DeleteCurrentEA, TablesType
<1> HIDE DEF del
<1>2. old \in db.current /\ old.e = e /\ old.a = a
  BY DEF ReadCurrent
<1>3. \A r \in db.current : (r.e = e /\ r.a = a) <=> EAV(r) = <<e, a, old.v>>
  BY <1>2 DEF CardOneIn, EAV
<1>4. Facts(del) = Facts(db) \ {<<e, a, old.v>>}
  BY <1>1, <1>3 DEF Facts
<1> QED
  BY <1>1, <1>4 DEF del

LEMMA UpsertFacts ==
    ASSUME NEW db \in TablesType, NEW row
    PROVE  LET new == UpsertCurrent(db, row)
           IN  /\ new.datoms = db.datoms
               /\ new.current \subseteq db.current \cup {row}
               /\ Facts(new) = Facts(db) \cup {EAV(row)}
<1> DEFINE new == UpsertCurrent(db, row)
<1>1. /\ new.datoms = db.datoms
      /\ new.current = {r \in db.current : EAV(r) # EAV(row)} \cup {row}
  BY DEF UpsertCurrent, TablesType
<1> HIDE DEF new
<1>2. Facts(new) = Facts(db) \cup {EAV(row)}
  BY <1>1 DEF Facts
<1> QED
  BY <1>1, <1>2 DEF new

LEMMA InsertKeeps ==
    ASSUME NEW db \in TablesType, NEW row \in Rows
    PROVE  LET new == InsertDatom(db, row)
           IN  /\ new \in TablesType
               /\ new.current = db.current /\ Facts(new) = Facts(db)
               /\ new.datoms = Append(db.datoms, row)
               /\ Len(db.datoms) \in Nat
               /\ Len(new.datoms) = Len(db.datoms) + 1
               /\ \A i \in 1..Len(db.datoms) : new.datoms[i] = db.datoms[i]
               /\ new.datoms[Len(db.datoms) + 1] = row
<1> DEFINE new == InsertDatom(db, row)
<1>1. /\ new.current = db.current
      /\ new.datoms = Append(db.datoms, row)
      /\ db.datoms \in Seq(Rows)
  BY DEF InsertDatom, TablesType
<1>2. new \in TablesType
  BY InsertTyped
<1> HIDE DEF new
<1>3. /\ Len(db.datoms) \in Nat
      /\ Len(new.datoms) = Len(db.datoms) + 1
      /\ \A i \in 1..Len(db.datoms) : new.datoms[i] = db.datoms[i]
      /\ new.datoms[Len(db.datoms) + 1] = row
  BY <1>1, AppendProperties, LenProperties
<1> QED
  BY <1>1, <1>2, <1>3 DEF new, Facts

-----------------------------------------------------------------------------
\* A log entry of the writer continues the log.
LEMMA InsertContinues ==
    ASSUME NEW old \in TablesType, NEW db \in TablesType, NEW row \in Rows,
           Continues(old, db, row.tx)
    PROVE  Continues(old, InsertDatom(db, row), row.tx)
<1> DEFINE new == InsertDatom(db, row)
<1>1. /\ Len(db.datoms) \in Nat
      /\ Len(new.datoms) = Len(db.datoms) + 1
      /\ \A i \in 1..Len(db.datoms) : new.datoms[i] = db.datoms[i]
      /\ new.datoms[Len(db.datoms) + 1] = row
  BY InsertKeeps
<1>2. Len(old.datoms) \in Nat
  BY LenProperties DEF TablesType
<1> HIDE DEF new
<1>3. \A i \in Appended(old, new) : i \in Appended(old, db) \/ i = Len(db.datoms) + 1
  BY <1>1, <1>2 DEF Appended
<1>4. \A i \in Appended(old, new) : new.datoms[i].tx = row.tx
  <2> SUFFICES ASSUME NEW i \in Appended(old, new), i # Len(db.datoms) + 1
               PROVE  new.datoms[i].tx = row.tx
    BY <1>1
  <2>1. i \in Appended(old, db)
    BY <1>3
  <2>2. i \in 1..Len(db.datoms)
    BY <1>1, <1>2, <2>1 DEF Appended
  <2> QED
    BY <1>1, <2>1, <2>2 DEF Continues
<1>5. /\ Len(old.datoms) <= Len(new.datoms)
      /\ \A i \in 1..Len(old.datoms) : new.datoms[i] = old.datoms[i]
  BY <1>1, <1>2 DEF Continues
<1> QED
  BY <1>4, <1>5 DEF new, Continues

\* What covers the changes so far and the next change covers both.
LEMMA CoversMore ==
    ASSUME NEW old \in TablesType, NEW db \in TablesType, NEW new,
           Covers(old, db), Len(new.datoms) \in Nat,
           Len(db.datoms) <= Len(new.datoms),
           \A i \in 1..Len(db.datoms) : new.datoms[i] = db.datoms[i],
           \A f \in (Facts(new) \ Facts(db)) \cup (Facts(db) \ Facts(new)) :
               \E i \in Appended(old, new) : EAV(new.datoms[i]) = f
    PROVE  Covers(old, new)
<1>1. Len(old.datoms) \in Nat /\ Len(db.datoms) \in Nat
  BY LenProperties DEF TablesType
<1>2. \A i \in Appended(old, db) :
          i \in Appended(old, new) /\ new.datoms[i] = db.datoms[i]
  BY <1>1 DEF Appended
<1> SUFFICES ASSUME NEW f \in (Facts(new) \ Facts(old)) \cup (Facts(old) \ Facts(new))
             PROVE  \E i \in Appended(old, new) : EAV(new.datoms[i]) = f
  BY DEF Covers
<1>3. CASE f \in (Facts(new) \ Facts(db)) \cup (Facts(db) \ Facts(new))
  BY <1>3
<1>4. CASE f \in (Facts(db) \ Facts(old)) \cup (Facts(old) \ Facts(db))
  BY <1>2, <1>4 DEF Covers
<1> QED
  BY <1>3, <1>4

-----------------------------------------------------------------------------
\* What stands in a longer log stood before.
LEMMA StoodBefore ==
    ASSUME NEW log \in Seq(Rows), NEW row \in Rows, NEW i \in 1..Len(log),
           Stands(Append(log, row), i)
    PROVE  Stands(log, i) /\ (EAV(row) = EAV(log[i]) => row.added)
<1> DEFINE new == Append(log, row)
<1>1. /\ Len(log) \in Nat
      /\ Len(new) = Len(log) + 1
      /\ new[Len(log) + 1] = row
      /\ \A j \in 1..Len(log) : j \in 1..Len(new) /\ new[j] = log[j]
  BY AppendProperties, LenProperties
<1>2. Stands(new, i)
  OBVIOUS
<1> HIDE DEF new
<1>3. Once(new) => Once(log)
  BY <1>1 DEF Once
<1>4. Stands(log, i)
  BY <1>1, <1>2, <1>3 DEF Stands
<1>5. Len(log) + 1 \in 1..Len(new) /\ Len(log) + 1 > i
  BY <1>1
<1>6. EAV(row) = EAV(log[i]) => row.added
  BY <1>1, <1>2, <1>5 DEF Stands
<1> QED
  BY <1>4, <1>6

\* A row logged stays logged.
LEMMA LoggedStays ==
    ASSUME NEW db \in TablesType, NEW row \in Rows, NEW r, Logged(db, r)
    PROVE  Logged(InsertDatom(db, row), r)
<1> DEFINE new == InsertDatom(db, row)
<1>1. /\ Len(db.datoms) \in Nat
      /\ Len(new.datoms) = Len(db.datoms) + 1
      /\ \A i \in 1..Len(db.datoms) : new.datoms[i] = db.datoms[i]
  BY InsertKeeps
<1> HIDE DEF new
<1>2. Logged(new, r)
  BY <1>1 DEF Logged
<1> QED
  BY <1>2 DEF new

\* A retraction logged, and its fact and no other deleted.
LEMMA RetractMirrors ==
    ASSUME NEW db \in TablesType, NEW row \in Rows, ~row.added, Mirrors(db),
           NEW new \in TablesType, new.datoms = Append(db.datoms, row),
           new.current \subseteq db.current, Facts(new) = Facts(db) \ {EAV(row)}
    PROVE  Mirrors(new)
<1>1. db.datoms \in Seq(Rows) /\ InsertDatom(db, row).datoms = new.datoms
  BY InsertKeeps DEF TablesType
<1>2. /\ Len(db.datoms) \in Nat
      /\ Len(new.datoms) = Len(db.datoms) + 1
      /\ \A i \in 1..Len(db.datoms) : new.datoms[i] = db.datoms[i]
      /\ new.datoms[Len(db.datoms) + 1] = row
  BY <1>1, InsertKeeps
<1>3. CurrentLogged(new)
  <2> SUFFICES ASSUME NEW r \in new.current
               PROVE  Logged(new, LogRow(r.e, r.a, r.v, r.tx, TRUE, r.vf))
    BY DEF CurrentLogged
  <2>1. Logged(db, LogRow(r.e, r.a, r.v, r.tx, TRUE, r.vf))
    BY DEF Mirrors, CurrentLogged
  <2>2. Logged(InsertDatom(db, row), LogRow(r.e, r.a, r.v, r.tx, TRUE, r.vf))
    BY <2>1, LoggedStays
  <2> QED
    BY <1>1, <2>2 DEF Logged
<1>4. Standing(new)
  <2> SUFFICES ASSUME NEW i \in 1..Len(new.datoms), Stands(new.datoms, i)
               PROVE  EAV(new.datoms[i]) \in Facts(new)
    BY DEF Standing
  <2>1. i # Len(db.datoms) + 1
    BY <1>2 DEF Stands
  <2>2. i \in 1..Len(db.datoms)
    BY <1>2, <2>1
  <2>3. Stands(db.datoms, i) /\ EAV(row) # EAV(db.datoms[i])
    BY <1>1, <2>2, StoodBefore
  <2> QED
    BY <1>2, <2>2, <2>3 DEF Mirrors, Standing
<1> QED
  BY <1>3, <1>4 DEF Mirrors

\* An assertion logged and shown.
LEMMA AssertMirrors ==
    ASSUME NEW db \in TablesType, NEW row \in Rows, row.added, Mirrors(db)
    PROVE  Mirrors(UpsertCurrent(InsertDatom(db, row),
                       CurrentRow(row.e, row.a, row.v, row.tx, row.vf)))
<1> DEFINE mid == InsertDatom(db, row)
           cur == CurrentRow(row.e, row.a, row.v, row.tx, row.vf)
           new == UpsertCurrent(mid, cur)
<1>1. /\ mid \in TablesType /\ mid.current = db.current /\ Facts(mid) = Facts(db)
      /\ mid.datoms = Append(db.datoms, row)
      /\ Len(db.datoms) \in Nat
      /\ Len(mid.datoms) = Len(db.datoms) + 1
      /\ \A i \in 1..Len(db.datoms) : mid.datoms[i] = db.datoms[i]
      /\ mid.datoms[Len(db.datoms) + 1] = row
  BY InsertKeeps
<1>2. /\ cur.e = row.e /\ cur.a = row.a /\ cur.v = row.v /\ cur.tx = row.tx
      /\ cur.vf = row.vf /\ EAV(cur) = EAV(row)
      /\ row = LogRow(cur.e, cur.a, cur.v, cur.tx, TRUE, cur.vf)
  BY DEF CurrentRow, EAV, LogRow, Rows
<1>3. \A r : Logged(db, r) => Logged(mid, r)
  BY LoggedStays
<1> HIDE DEF mid, cur
<1>4. /\ new.datoms = mid.datoms
      /\ new.current \subseteq mid.current \cup {cur}
      /\ Facts(new) = Facts(mid) \cup {EAV(cur)}
  BY <1>1, UpsertFacts
<1> HIDE DEF new
<1>5. CurrentLogged(new)
  <2> SUFFICES ASSUME NEW r \in new.current
               PROVE  Logged(new, LogRow(r.e, r.a, r.v, r.tx, TRUE, r.vf))
    BY DEF CurrentLogged
  <2>1. CASE r = cur
    <3>1. /\ Len(db.datoms) + 1 \in 1..Len(new.datoms)
          /\ new.datoms[Len(db.datoms) + 1] = row
      BY <1>1, <1>4
    <3>2. row = LogRow(r.e, r.a, r.v, r.tx, TRUE, r.vf)
      BY <1>2, <2>1
    <3> QED
      BY <3>1, <3>2 DEF Logged
  <2>2. CASE r \in db.current
    <3>1. Logged(db, LogRow(r.e, r.a, r.v, r.tx, TRUE, r.vf))
      BY <2>2 DEF Mirrors, CurrentLogged
    <3> QED
      BY <1>3, <1>4, <3>1 DEF Logged
  <2> QED
    BY <1>1, <1>4, <2>1, <2>2
<1>6. Standing(new)
  <2> SUFFICES ASSUME NEW i \in 1..Len(new.datoms), Stands(new.datoms, i)
               PROVE  EAV(new.datoms[i]) \in Facts(new)
    BY DEF Standing
  <2>1. CASE i = Len(db.datoms) + 1
    BY <1>1, <1>2, <1>4, <2>1
  <2>2. CASE i # Len(db.datoms) + 1
    <3>1. i \in 1..Len(db.datoms)
      BY <1>1, <1>4, <2>2
    <3>2. Stands(db.datoms, i)
      BY <1>1, <1>4, <3>1, StoodBefore DEF TablesType
    <3> QED
      BY <1>1, <1>4, <3>1, <3>2 DEF Mirrors, Standing
  <2> QED
    BY <2>1, <2>2
<1> QED
  BY <1>5, <1>6 DEF Mirrors, mid, cur, new

-----------------------------------------------------------------------------
(***************************************************************************)
(* The three ways a statement group of transact leaves the tables, as      *)
(* steps of a write transaction that began at `old`.                       *)
(***************************************************************************)
Ongoing(old, db, tx) ==
    Continues(old, db, tx) /\ (~Partitioned => Covers(old, db) /\ Mirrors(db))

\* The row appended last is an appended one.
LEMMA LastAppended ==
    ASSUME NEW old \in TablesType, NEW db \in TablesType, NEW row \in Rows,
           Len(old.datoms) <= Len(db.datoms)
    PROVE  LET new == InsertDatom(db, row)
           IN  \E i \in Appended(old, new) : new.datoms[i] = row
<1> DEFINE new == InsertDatom(db, row)
<1>1. /\ Len(db.datoms) \in Nat /\ Len(old.datoms) \in Nat
      /\ Len(new.datoms) = Len(db.datoms) + 1
      /\ new.datoms[Len(db.datoms) + 1] = row
  BY InsertKeeps, LenProperties DEF TablesType
<1> HIDE DEF new
<1>2. Len(db.datoms) + 1 \in Appended(old, new)
  BY <1>1 DEF Appended
<1> QED
  BY <1>1, <1>2 DEF new

\* A retraction logged, and its fact deleted.
LEMMA RetractOngoing ==
    ASSUME NEW old \in TablesType, NEW db \in TablesType, NEW row \in Rows,
           ~row.added, Ongoing(old, db, row.tx),
           NEW new \in TablesType, new.datoms = Append(db.datoms, row),
           new.current \subseteq db.current, Facts(new) = Facts(db) \ {EAV(row)}
    PROVE  Ongoing(old, new, row.tx)
<1> DEFINE mid == InsertDatom(db, row)
<1>1. /\ mid.datoms = new.datoms
      /\ Len(db.datoms) \in Nat
      /\ Len(mid.datoms) = Len(db.datoms) + 1
      /\ \A i \in 1..Len(db.datoms) : mid.datoms[i] = db.datoms[i]
  BY InsertKeeps
<1>2. Continues(old, mid, row.tx)
  BY InsertContinues DEF Ongoing
<1>3. \E i \in Appended(old, mid) : mid.datoms[i] = row
  BY LastAppended DEF Ongoing, Continues
<1> HIDE DEF mid
<1>4. Continues(old, new, row.tx)
  BY <1>1, <1>2 DEF Continues, Appended
<1>5. \E i \in Appended(old, new) : new.datoms[i] = row
  BY <1>1, <1>3 DEF Appended
<1>6. ASSUME ~Partitioned PROVE Covers(old, new) /\ Mirrors(new)
  <2>1. Covers(old, db) /\ Mirrors(db)
    BY <1>6 DEF Ongoing
  <2>2. \A f \in (Facts(new) \ Facts(db)) \cup (Facts(db) \ Facts(new)) : f = EAV(row)
    OBVIOUS
  <2>3. Covers(old, new)
    <3>1. /\ Len(new.datoms) \in Nat /\ Len(db.datoms) <= Len(new.datoms)
          /\ \A i \in 1..Len(db.datoms) : new.datoms[i] = db.datoms[i]
      BY <1>1
    <3>2. \A f \in (Facts(new) \ Facts(db)) \cup (Facts(db) \ Facts(new)) :
              \E i \in Appended(old, new) : EAV(new.datoms[i]) = f
      BY <1>5, <2>2
    <3> QED
      BY <2>1, <3>1, <3>2, CoversMore
  <2>4. Mirrors(new)
    BY <2>1, RetractMirrors
  <2> QED
    BY <2>3, <2>4
<1> QED
  BY <1>4, <1>6 DEF Ongoing

\* An assertion logged and shown.
LEMMA AssertOngoing ==
    ASSUME NEW old \in TablesType, NEW db \in TablesType, NEW row \in Rows,
           row.added, Ongoing(old, db, row.tx)
    PROVE  Ongoing(old, UpsertCurrent(InsertDatom(db, row),
                            CurrentRow(row.e, row.a, row.v, row.tx, row.vf)), row.tx)
<1> DEFINE mid == InsertDatom(db, row)
           cur == CurrentRow(row.e, row.a, row.v, row.tx, row.vf)
           new == UpsertCurrent(mid, cur)
<1>1. /\ mid \in TablesType /\ Facts(mid) = Facts(db)
      /\ Len(db.datoms) \in Nat
      /\ Len(mid.datoms) = Len(db.datoms) + 1
      /\ \A i \in 1..Len(db.datoms) : mid.datoms[i] = db.datoms[i]
  BY InsertKeeps
<1>2. Continues(old, mid, row.tx)
  BY InsertContinues DEF Ongoing
<1>3. \E i \in Appended(old, mid) : mid.datoms[i] = row
  BY LastAppended DEF Ongoing, Continues
<1>4. EAV(cur) = EAV(row)
  BY DEF CurrentRow, EAV
<1>5. ~Partitioned => Mirrors(new)
  BY AssertMirrors DEF Ongoing
<1> HIDE DEF mid, cur
<1>6. new.datoms = mid.datoms /\ Facts(new) = Facts(db) \cup {EAV(row)}
  BY <1>1, <1>4, UpsertFacts
<1> HIDE DEF new
<1>7. Continues(old, new, row.tx)
  BY <1>2, <1>6 DEF Continues, Appended
<1>8. \E i \in Appended(old, new) : new.datoms[i] = row
  BY <1>3, <1>6 DEF Appended
<1>9. ASSUME ~Partitioned PROVE Covers(old, new)
  <2>1. \A f \in (Facts(new) \ Facts(db)) \cup (Facts(db) \ Facts(new)) : f = EAV(row)
    BY <1>6
  <2> QED
    BY <1>1, <1>6, <1>8, <1>9, <2>1, CoversMore DEF Ongoing
<1> QED
  BY <1>5, <1>7, <1>9 DEF Ongoing, mid, cur, new

\* The UNIQUE constraint has refused a retraction whose fact was deleted: the
\* row it met is of this transaction, so the deletion is covered, and the
\* fact's last assertion in the log is of this transaction too.
LEMMA RefusedOngoing ==
    ASSUME NEW old \in TablesType, NEW db \in TablesType, NEW row \in Rows,
           ~row.added, Ongoing(old, db, row.tx), Logged(db, row),
           ~Partitioned => \A i \in 1..Len(old.datoms) : old.datoms[i].tx # row.tx
    PROVE  Ongoing(old, DeleteCurrentEAV(db, row.e, row.a, row.v), row.tx)
<1> DEFINE del == DeleteCurrentEAV(db, row.e, row.a, row.v)
<1>1. /\ del.datoms = db.datoms /\ del.current \subseteq db.current
      /\ Facts(del) = Facts(db) \ {EAV(row)}
  BY DeleteEAVFacts DEF EAV
<1> HIDE DEF del
<1>2. Continues(old, del, row.tx)
  BY <1>1 DEF Ongoing, Continues, Appended
<1>3. ASSUME ~Partitioned PROVE Covers(old, del) /\ Mirrors(del)
  <2>1. Len(old.datoms) \in Nat /\ Len(db.datoms) \in Nat
    BY LenProperties DEF TablesType
  <2>2. PICK j \in 1..Len(db.datoms) : db.datoms[j] = row
    BY DEF Logged
  <2>3. j \in Appended(old, db)
    <3>1. j \notin 1..Len(old.datoms)
      BY <1>3, <2>2 DEF Ongoing, Continues
    <3> QED
      BY <2>1, <3>1 DEF Appended
  <2>4. Covers(old, del)
    <3>1. \A f \in (Facts(del) \ Facts(db)) \cup (Facts(db) \ Facts(del)) : f = EAV(row)
      BY <1>1
    <3>2. \E i \in Appended(old, del) : EAV(del.datoms[i]) = EAV(row)
      BY <1>1, <2>2, <2>3 DEF Appended
    <3>3. Covers(old, db)
      BY <1>3 DEF Ongoing
    <3> QED
      BY <1>1, <2>1, <3>1, <3>2, <3>3, CoversMore
  <2>5. CurrentLogged(del)
    BY <1>1, <1>3 DEF Ongoing, Mirrors, CurrentLogged, Logged
  <2>6. Standing(del)
    <3> SUFFICES ASSUME NEW i \in 1..Len(db.datoms), Stands(db.datoms, i)
                 PROVE  EAV(db.datoms[i]) \in Facts(del)
      BY <1>1 DEF Standing
    <3>1. EAV(db.datoms[i]) \in Facts(db)
      BY <1>3 DEF Ongoing, Mirrors, Standing
    <3>2. EAV(db.datoms[i]) # EAV(row)
      <4> SUFFICES ASSUME EAV(db.datoms[i]) = EAV(row) PROVE FALSE
        OBVIOUS
      <4>1. Once(db.datoms) /\ i > j
        BY <2>2 DEF Stands
      <4>2. i \in Appended(old, db)
        BY <2>1, <2>3, <4>1 DEF Appended
      <4>3. db.datoms[i].tx = db.datoms[j].tx
        BY <2>2, <4>2 DEF Ongoing, Continues
      <4> QED
        BY <2>2, <4>1, <4>3 DEF Once
    <3> QED
      BY <1>1, <3>1, <3>2
  <2> QED
    BY <2>4, <2>5, <2>6 DEF Mirrors
<1> QED
  BY <1>2, <1>3 DEF Ongoing, del

\* One datom of the second loop.
LEMMA ApplyOngoing ==
    ASSUME LogInv, NEW c \in Clients, Apply(c)
    PROVE  Ongoing(disk, work', txID[c])
<1>1. At(c, "apply") /\ TypeInv /\ writer = c
  BY DEF LogInv, SafeInv, TypeInv, TypeOK, At, Apply, SkipDuplicate, RetractDatom,
         IdentityTaken, AssertDatom, Supersede, MayAssert, Applies
<1>2. Datom(c).a \in Attrs /\ Datom(c).v \in Values
  BY <1>1, DatomTyped, RefTyped DEF TypeInv, AttrKnown, At
<1>3. /\ eid \in Nat /\ txID[c] \in Nat /\ call[c].validFrom \in Nat
      /\ work \in TablesType /\ disk \in TablesType
  BY <1>1 DEF TypeInv, TypeOK
<1>4. ASSUME NEW v \in Values, NEW b \in BOOLEAN
      PROVE  LET row == Row(c, v, b)
             IN  /\ row \in Rows /\ row.e = eid /\ row.a = Datom(c).a
                 /\ row.v = v /\ row.added = b /\ row.tx = txID[c]
                 /\ row.vf = call[c].validFrom /\ EAV(row) = <<eid, Datom(c).a, v>>
  BY <1>2, <1>3, RowTyped DEF Row, LogRow, EAV
<1>5. Ongoing(disk, work, txID[c])
  BY <1>1 DEF LogInv, WriteInv, FileInv, Ongoing
<1>6. ~Partitioned => \A i \in 1..Len(disk.datoms) : disk.datoms[i].tx # txID[c]
  BY <1>1 DEF LogInv, IDInv, TxIDsFresh, FileInv, LoggedIsRecorded, At
<1>7. ASSUME NEW db \in TablesType, NEW rows, Ongoing(disk, db, txID[c]),
             Store(c, db, rows)
      PROVE  Ongoing(disk, work', txID[c])
  <2> DEFINE row == Row(c, Datom(c).v, TRUE)
             new == UpsertCurrent(InsertDatom(db, row),
                        CurrentRow(row.e, row.a, row.v, row.tx, row.vf))
  <2>1. /\ row \in Rows /\ row.e = eid /\ row.a = Datom(c).a
        /\ row.v = Datom(c).v /\ row.added /\ row.tx = txID[c]
        /\ row.vf = call[c].validFrom
    BY <1>2, <1>4
  <2>2. work' \in {new, db}
    BY <1>7, <2>1 DEF Store, NextDatom, Fail
  <2>3. Ongoing(disk, new, txID[c])
    <3> HIDE DEF row
    <3> QED
      BY <1>3, <1>7, <2>1, AssertOngoing
  <2> QED
    BY <1>7, <2>2, <2>3
<1>8. CASE SkipDuplicate(c) \/ IdentityTaken(c)
  BY <1>5, <1>8 DEF SkipDuplicate, IdentityTaken, NextDatom, Fail
<1>9. CASE RetractDatom(c)
  <2> DEFINE row == Row(c, Datom(c).v, FALSE)
             del == DeleteCurrentEAV(work, eid, Datom(c).a, Datom(c).v)
             new == InsertDatom(del, row)
  <2>1. /\ row \in Rows /\ row.e = eid /\ row.a = Datom(c).a
        /\ row.v = Datom(c).v /\ ~row.added /\ row.tx = txID[c]
        /\ EAV(row) = <<eid, Datom(c).a, Datom(c).v>>
    BY <1>2, <1>4
  <2>2. \/ work' = new
        \/ work' = del /\ Logged(del, row)
    BY <1>9 DEF RetractDatom, NextDatom, Fail
  <2> HIDE DEF row
  <2>3. /\ del \in TablesType /\ del.datoms = work.datoms
        /\ del.current \subseteq work.current
        /\ Facts(del) = Facts(work) \ {EAV(row)}
    BY <1>3, <2>1, DeleteTyped, DeleteEAVFacts
  <2> HIDE DEF del
  <2>4. /\ new \in TablesType /\ new.datoms = Append(work.datoms, row)
        /\ new.current \subseteq work.current
        /\ Facts(new) = Facts(work) \ {EAV(row)}
    <3>1. new \in TablesType /\ new.datoms = Append(del.datoms, row)
      BY <2>1, <2>3, InsertKeeps
    <3>2. new.current = del.current /\ Facts(new) = Facts(del)
      BY <2>1, <2>3, InsertKeeps
    <3> HIDE DEF new
    <3> QED
      BY <2>3, <3>1, <3>2
  <2>5. CASE work' = new
    BY <1>3, <1>5, <2>1, <2>4, <2>5, RetractOngoing
  <2>6. CASE work' = del /\ Logged(del, row)
    <3>1. Logged(work, row) /\ del = DeleteCurrentEAV(work, row.e, row.a, row.v)
      BY <2>1, <2>3, <2>6 DEF Logged, del
    <3> QED
      BY <1>3, <1>5, <1>6, <2>1, <2>6, <3>1, RefusedOngoing
  <2> QED
    BY <2>2, <2>5, <2>6
<1>10. CASE AssertDatom(c)
  BY <1>3, <1>5, <1>7, <1>10 DEF AssertDatom
<1>11. CASE Supersede(c)
  <2>1. Datom(c).a \in CardOneAttrs
    BY <1>11 DEF Supersede
  <2>2. PICK old \in ReadCurrent(work, eid, Datom(c).a) :
            LET row == Row(c, old.v, FALSE)
            IN  \/ Store(c, DeleteCurrentEA(InsertDatom(work, row), eid,
                                            Datom(c).a), <<row>>)
                \/ Fail(c, "unique", work)
    BY <1>11 DEF Supersede
  <2> DEFINE row == Row(c, old.v, FALSE)
             mid == InsertDatom(work, row)
             del == DeleteCurrentEA(mid, eid, Datom(c).a)
  <2>3. old.v \in Values
    BY <1>3 DEF ReadCurrent, TablesType
  <2>4. /\ row \in Rows /\ ~row.added /\ row.tx = txID[c]
        /\ EAV(row) = <<eid, Datom(c).a, old.v>>
    BY <1>4, <2>3
  <2>5. Store(c, del, <<row>>) \/ Fail(c, "unique", work)
    BY <2>2
  <2> HIDE DEF row
  <2>6. /\ mid \in TablesType /\ mid.datoms = Append(work.datoms, row)
        /\ mid.current = work.current /\ Facts(mid) = Facts(work)
    BY <1>3, <2>4, InsertKeeps
  <2>7. CardOneIn(mid) /\ old \in ReadCurrent(mid, eid, Datom(c).a)
    BY <2>6 DEF LogInv, SafeInv, TablesInv, Consistent, CardOneIn, ReadCurrent
  <2> HIDE DEF mid
  <2>8. /\ del \in TablesType /\ del.datoms = Append(work.datoms, row)
        /\ del.current \subseteq work.current
        /\ Facts(del) = Facts(work) \ {EAV(row)}
    <3>1. del \in TablesType
      BY <2>6, DeleteTyped
    <3>2. /\ del.datoms = mid.datoms /\ del.current \subseteq mid.current
          /\ Facts(del) = Facts(mid) \ {<<eid, Datom(c).a, old.v>>}
      BY <2>1, <2>6, <2>7, DeleteEAFacts
    <3> QED
      BY <2>4, <2>6, <3>1, <3>2
  <2> HIDE DEF del
  <2>9. Ongoing(disk, del, txID[c])
    BY <1>3, <1>5, <2>4, <2>8, RetractOngoing
  <2>10. CASE Store(c, del, <<row>>)
    BY <1>7, <2>8, <2>9, <2>10
  <2>11. CASE Fail(c, "unique", work)
    BY <1>5, <2>11 DEF Fail
  <2> QED
    BY <2>5, <2>10, <2>11
<1> QED
  BY <1>8, <1>9, <1>10, <1>11 DEF Apply

-----------------------------------------------------------------------------
\* A write transaction that has written nothing yet.
LEMMA OngoingStart ==
    ASSUME NEW db \in TablesType, NEW tx, ~Partitioned => Mirrors(db)
    PROVE  Ongoing(db, db, tx)
<1>1. Len(db.datoms) \in Nat
  BY LenProperties DEF TablesType
<1> QED
  BY <1>1 DEF Ongoing, Continues, Covers, Appended

\* stmtInsertTx writes the transaction's ID and nothing else.
LEMMA RecordOngoing ==
    ASSUME NEW db \in TablesType, NEW old, NEW tx, NEW id, NEW time,
           Ongoing(old, db, tx)
    PROVE  LET new == InsertTx(db, id, time)
           IN  Ongoing(old, new, tx) /\ TxIDs(new) = TxIDs(db) \cup {id}
<1> DEFINE new == InsertTx(db, id, time)
<1>1. /\ new.datoms = db.datoms /\ new.current = db.current
      /\ new.transactions = db.transactions \cup {[id |-> id, time |-> time]}
  BY DEF InsertTx, TablesType
<1> HIDE DEF new
<1>2. [id |-> id, time |-> time].id = id
  OBVIOUS
<1>3. TxIDs(new) = TxIDs(db) \cup {id}
  BY <1>1, <1>2 DEF TxIDs
<1>4. Facts(new) = Facts(db) /\ Appended(old, new) = Appended(old, db)
  BY <1>1 DEF Facts, Appended
<1>5. Mirrors(db) => Mirrors(new)
  BY <1>1, <1>4 DEF Mirrors, CurrentLogged, Standing, Logged
<1>6. Ongoing(old, new, tx)
  BY <1>1, <1>4, <1>5 DEF Ongoing, Continues, Covers
<1> QED
  BY <1>3, <1>6 DEF new

\* The transaction in progress has its rows on record, once it has any.
LEMMA WorkRecorded ==
    ASSUME LogInv, ~Partitioned, NEW c \in Clients, writer = c,
           NEW i \in 1..Len(work.datoms)
    PROVE  work.datoms[i].tx \in TxIDs(work)
<1>1. Len(work.datoms) \in Nat /\ Len(disk.datoms) \in Nat
  BY LenProperties DEF LogInv, SafeInv, TypeInv, TypeOK, TablesType
<1>2. CASE i \in 1..Len(disk.datoms)
  BY <1>2 DEF LogInv, WriteInv, Continues, FileInv, LoggedIsRecorded
<1>3. CASE i \notin 1..Len(disk.datoms)
  <2>1. i \in Appended(disk, work)
    BY <1>1, <1>3 DEF Appended
  <2>2. work # disk
    BY <1>3
  <2> QED
    BY <2>1, <2>2 DEF LogInv, WriteInv, Continues
<1> QED
  BY <1>2, <1>3

\* A commit, a rollback or a restart: the tables are now one of the two.
LEMMA SettledInv ==
    ASSUME LogInv, SafeInv', IDInv', disk' = work', writer' = NoClient,
           ~Partitioned => disk' = disk \/ (disk' = work /\ writer \in Clients)
    PROVE  LogInv'
<1>1. WriteInv'
  BY ClientsAssumption DEF WriteInv
<1>2. ASSUME ~Partitioned PROVE FileInv'
  <2>1. LoggedIsRecorded'
    BY <1>2, WorkRecorded DEF LogInv, FileInv, LoggedIsRecorded
  <2>2. Covers(disk, work)'
    BY DEF Covers
  <2>3. Mirrors(disk)' /\ Mirrors(work)'
    BY <1>2 DEF LogInv, FileInv
  <2> QED
    BY <2>1, <2>2, <2>3 DEF FileInv
<1> QED
  BY <1>1, <1>2 DEF LogInv

\* A step of the writer that leaves the committed tables alone.
LEMMA WritingInv ==
    ASSUME LogInv, SafeInv', IDInv', disk' = disk, NEW c \in Clients, writer' = c,
           Ongoing(disk, work', txID'[c]),
           TxIDs(disk) \subseteq TxIDs(work'),
           work' = disk \/ txID'[c] \in TxIDs(work'),
           pc'[c] = "resolve" => work' = disk,
           pc'[c] \in {"entity", "apply"} => txID'[c] \in TxIDs(work')
    PROVE  LogInv'
<1>1. WriteInv'
  BY DEF WriteInv, Ongoing, Continues, Appended
<1>2. ASSUME ~Partitioned PROVE FileInv'
  <2>1. LoggedIsRecorded' /\ Mirrors(disk)'
    BY <1>2 DEF LogInv, FileInv, LoggedIsRecorded
  <2>2. Covers(disk, work)' /\ Mirrors(work)'
    BY <1>2 DEF Ongoing
  <2> QED
    BY <2>1, <2>2 DEF FileInv
<1> QED
  BY <1>1, <1>2 DEF LogInv

\* Every step keeps the log, the record of transactions and current_datoms in
\* step with each other.
LEMMA LogStep == LogInv /\ [Next]_vars => LogInv'
<1> SUFFICES ASSUME LogInv, [Next]_vars PROVE LogInv'
  OBVIOUS
<1>1. SafeInv' /\ IDInv'
  BY SafeStep, IDStep DEF LogInv
<1>2. TypeInv /\ TypeInv'
  BY <1>1 DEF LogInv, SafeInv
<1>3. /\ disk \in TablesType /\ work \in TablesType
      /\ pc \in [Clients -> {"idle", "take", "begin", "resolve", "entity",
                             "apply", "end"}]
      /\ txID \in [Clients -> Nat]
      /\ \A c \in Clients :
            writer = c <=> pc[c] \in {"resolve", "entity", "apply", "end"}
  BY <1>2 DEF TypeInv, TypeOK
<1>4. ASSUME NEW c \in Clients, writer = c
      PROVE  /\ Ongoing(disk, work, txID[c])
             /\ TxIDs(disk) \subseteq TxIDs(work)
             /\ work = disk \/ txID[c] \in TxIDs(work)
             /\ pc[c] = "resolve" => work = disk
             /\ pc[c] \in {"entity", "apply"} => txID[c] \in TxIDs(work)
  BY <1>4 DEF LogInv, WriteInv, FileInv, Ongoing
<1>5. ASSUME NEW c \in Clients,
             Transact(c) \/ TakeConn(c) \/ TakeFails(c) \/ BeginFails(c)
      PROVE  LogInv'
  <2>1. /\ UNCHANGED <<disk, work, writer>> /\ writer # c
        /\ \A d \in Clients : d # c => txID'[d] = txID[d] /\ pc'[d] = pc[d]
    BY <1>3, <1>5 DEF Transact, TakeConn, TakeFails, BeginFails, Return
  <2>2. WriteInv'
    BY <2>1 DEF LogInv, WriteInv, Continues, Appended
  <2>3. ~Partitioned => FileInv'
    BY <2>1 DEF LogInv, FileInv, LoggedIsRecorded
  <2> QED
    BY <1>1, <2>2, <2>3 DEF LogInv
<1>6. ASSUME NEW c \in Clients, BeginImmediate(c) PROVE LogInv'
  <2>1. /\ disk' = disk /\ writer' = c /\ work' = disk /\ pc'[c] = "resolve"
    BY <1>3, <1>6 DEF BeginImmediate
  <2>2. Ongoing(disk, work', txID'[c])
    BY <1>3, <2>1, OngoingStart DEF LogInv, FileInv
  <2> QED
    BY <1>1, <2>1, <2>2, WritingInv
<1>7. ASSUME NEW c \in Clients, Commit(c) \/ CommitFails(c) \/ Interrupted(c)
      PROVE  LogInv'
  <2>1. /\ disk' = work' /\ writer' = NoClient /\ disk' \in {disk, work}
        /\ writer = c
    BY <1>3, <1>7 DEF Commit, CommitFails, Interrupted, EndTransaction
  <2> QED
    BY <1>1, <2>1, SettledInv
<1>8. ASSUME NEW c \in Clients, Entity(c) \/ (Resolve(c) /\ ~TxRecorded(c))
      PROVE  LogInv'
  <2>1. /\ UNCHANGED <<disk, work, writer, txID>> /\ writer = c
        /\ \/ pc[c] = "resolve" /\ pc'[c] \in {"resolve", "end"}
           \/ pc[c] \in {"entity", "apply"} /\ pc'[c] \in {"apply", "end"}
    <3>1. CASE Entity(c) \/ ResolveConflict(c) \/ EncodeFails(c) \/ TxRefused(c)
      BY <1>3, <3>1
         DEF Entity, EntityTemp, EntityID, EntityLookup, EntityFails,
             BatchDone, ToApply, ResolveConflict, EncodeFails, TxRefused, Fail, At
    <3>2. CASE ResolveSkip(c) \/ ResolveUpsert(c)
      BY <1>3, <3>2 DEF ResolveSkip, ResolveUpsert, clients, At
    <3> QED
      BY <1>8, <3>1, <3>2, RecordTxCases DEF Resolve
  <2> QED
    BY <1>1, <1>4, <2>1, WritingInv
<1>9. ASSUME NEW c \in Clients, TxRecorded(c) PROVE LogInv'
  <2>1. /\ UNCHANGED <<disk, writer, txID>> /\ writer = c /\ pc'[c] = "entity"
        /\ work' = InsertTx(work, txID[c], call[c].txTime)
    BY <1>3, <1>9 DEF TxRecorded
  <2>2. /\ Ongoing(disk, work', txID[c])
        /\ TxIDs(work') = TxIDs(work) \cup {txID[c]}
    BY <1>3, <1>4, <2>1, RecordOngoing
  <2> QED
    BY <1>1, <1>4, <2>1, <2>2, WritingInv
<1>10. ASSUME NEW c \in Clients, Apply(c) PROVE LogInv'
  <2>1. /\ UNCHANGED <<disk, writer, txID>> /\ writer = c
        /\ pc'[c] \in {"end", "entity"} /\ TxIDs(work') = TxIDs(work)
    BY <1>2, <1>3, <1>10, ApplyKeeps
  <2>2. pc[c] = "apply"
    BY <1>10 DEF Apply, SkipDuplicate, RetractDatom, IdentityTaken,
                 AssertDatom, Supersede, MayAssert, Applies, At
  <2>3. Ongoing(disk, work', txID[c])
    BY <1>10, ApplyOngoing
  <2> QED
    BY <1>1, <1>4, <2>1, <2>2, <2>3, WritingInv
<1>11. ASSUME Reopen PROVE LogInv'
  <2>1. disk' = work' /\ writer' = NoClient /\ disk' \in Survivors
    BY <1>11 DEF Reopen
  <2>2. ~Partitioned => disk' = disk \/ (disk' = work /\ writer \in Clients)
    BY <1>3, <2>1 DEF Survivors, AtCommit
  <2> QED
    BY <1>1, <2>1, <2>2, SettledInv
<1>12. CASE UNCHANGED vars
  <2>1. UNCHANGED <<disk, work, writer, pc, txID>>
    BY <1>12 DEF vars, clients
  <2>2. WriteInv' /\ (~Partitioned => FileInv')
    BY <2>1 DEF LogInv, WriteInv, FileInv, LoggedIsRecorded, Continues, Appended
  <2> QED
    BY <1>1, <2>2 DEF LogInv
<1> QED
  BY <1>5, <1>6, <1>7, <1>8, <1>9, <1>10, <1>11, <1>12 DEF Next, Step

LEMMA LogInit == Init => LogInv
<1> SUFFICES ASSUME Init PROVE LogInv
  OBVIOUS
<1>1. SafeInv /\ IDInv
  BY SafeInit, IDInit
<1>2. WriteInv
  BY ClientsAssumption DEF Init, WriteInv
<1>3. FileInv
  BY DEF Init, EmptyTables, FileInv, LoggedIsRecorded, Covers, Mirrors,
         CurrentLogged, Standing
<1> QED
  BY <1>1, <1>2, <1>3 DEF LogInv

LEMMA LogInductive == Spec => []LogInv
BY LogInit, LogStep, PTL DEF Spec

-----------------------------------------------------------------------------
(***************************************************************************)
(* The refinement. Only the end of a write transaction or a restart moves  *)
(* the committed tables; what they move to continues them.                 *)
(***************************************************************************)
LEMMA DiskMoves ==
    ASSUME TypeInv, [Next]_vars
    PROVE  \/ disk' = disk
           \/ \E c \in Clients : /\ writer = c /\ pc[c] = "end"
                                 /\ disk' \in Survivors
<1>1. ASSUME NEW c \in Clients, Commit(c)
      PROVE  writer = c /\ pc[c] = "end" /\ disk' \in Survivors
  BY <1>1 DEF Commit, EndTransaction, TypeInv, TypeOK, Survivors, AtCommit
<1>2. ASSUME NEW c \in Clients, Step(c), ~Commit(c)
      PROVE  disk' = disk
  <2>1. CASE Apply(c)
    BY <2>1, ApplyKeeps
  <2>2. CASE Resolve(c)
    BY <2>2 DEF Resolve, ResolveSkip, ResolveUpsert, ResolveConflict, EncodeFails,
                RecordTx, Fail
  <2>3. CASE Entity(c)
    BY <2>3 DEF Entity, EntityTemp, EntityID, EntityLookup, EntityFails, BatchDone,
                ToApply, Fail
  <2>4. CASE BeginImmediate(c) \/ BeginFails(c) \/ CommitFails(c) \/ Interrupted(c)
    BY <2>4 DEF BeginImmediate, BeginFails, CommitFails, Interrupted, EndTransaction
  <2> QED
    BY <1>2, <2>1, <2>2, <2>3, <2>4 DEF Step
<1>3. ASSUME NEW c \in Clients, Transact(c) \/ TakeConn(c) \/ TakeFails(c)
      PROVE  disk' = disk
  BY <1>3 DEF Transact, TakeConn, TakeFails
<1>4. CASE Reopen
  <2>1. disk' \in Survivors
    BY <1>4 DEF Reopen
  <2>2. CASE AtCommit
    BY <2>1, <2>2 DEF AtCommit, TypeInv, TypeOK
  <2>3. CASE ~AtCommit
    BY <2>1, <2>3 DEF Survivors
  <2> QED
    BY <2>2, <2>3
<1>5. CASE UNCHANGED vars
  BY <1>5 DEF vars
<1> QED
  BY <1>1, <1>2, <1>3, <1>4, <1>5 DEF Next

\* A commit of work is a step of DatomLog, or changes nothing DatomLog sees.
LEMMA CommitIsLogged ==
    ASSUME ~Partitioned, LogInv, LogInv', NEW c \in Clients, writer = c, disk' = work
    PROVE  disk' = disk \/ Log!Commit
<1> SUFFICES ASSUME work # disk PROVE Log!Commit
  OBVIOUS
<1>1. /\ Continues(disk, work, txID[c])
      /\ TxIDs(disk) \subseteq TxIDs(work) /\ txID[c] \in TxIDs(work)
      /\ TxIDs(work) \subseteq TxIDs(disk) \cup {txID[c]}
  BY DEF LogInv, WriteInv, IDInv
<1>2. pc[c] # "idle"
  BY DEF LogInv, SafeInv, TypeInv, TypeOK
<1>3. txID[c] \notin TxIDs(disk)
  BY <1>2 DEF LogInv, IDInv, TxIDsFresh
<1>4. Covers(disk, work) /\ LiveIn(disk')
  BY DEF LogInv, FileInv, SafeInv, TablesInv
<1>5. \A f \in Facts(disk') : IsLive(disk'.datoms, f[1], f[2], f[3])
  BY <1>4 DEF Facts, EAV, LiveIn
<1>6. /\ Log!Appended = {work.datoms[i] : i \in Appended(disk, work)}
      /\ Log!Touched = {EAV(work.datoms[i]) : i \in Appended(disk, work)}
  BY DEF Log!Appended, Log!Touched, Appended, EAV, Log!EAV
<1>7. /\ Len(disk'.datoms) >= Len(disk.datoms)
      /\ \A i \in 1..Len(disk.datoms) : disk'.datoms[i] = disk.datoms[i]
  <2>1. Len(work.datoms) \in Nat /\ Len(disk.datoms) \in Nat
    BY LenProperties DEF LogInv, SafeInv, TypeInv, TypeOK, TablesType
  <2> QED
    BY <1>1, <2>1 DEF Continues
<1>8. /\ txID[c] \in TxIDs(disk') \ TxIDs(disk)
      /\ TxIDs(disk') = TxIDs(disk) \cup {txID[c]}
      /\ \A r \in Log!Appended : r.tx = txID[c]
  BY <1>1, <1>3, <1>6 DEF Continues
<1>9. /\ Facts(disk') \ Facts(disk) \subseteq Log!Touched
      /\ Facts(disk) \ Facts(disk') \subseteq Log!Touched
  BY <1>4, <1>6 DEF Covers
<1> QED
  BY <1>5, <1>7, <1>8, <1>9 DEF Log!Commit, IsLive, Log!IsLive, EAV, Log!EAV

\* The committed tables of a database in one file implement DatomLog: whatever
\* callers, failures and restarts do, transact changes the log only by appending
\* one recorded transaction, and current_datoms only where that transaction
\* says, never to show a retracted fact.
THEOREM LogImplemented ==
    ASSUME ~Partitioned
    PROVE  Spec => ImplementsLog
<1>1. Init => Log!Init
  BY DEF Init, Log!Init, EmptyTables, Facts, TxIDs
<1>2. LogInv /\ LogInv' /\ [Next]_vars
          => [Log!Commit]_<<disk.datoms, Facts(disk), TxIDs(disk)>>
  <2> SUFFICES ASSUME LogInv, LogInv', [Next]_vars
               PROVE  disk' = disk \/ Log!Commit
    OBVIOUS
  <2>1. CASE \E c \in Clients : writer = c /\ disk' \in {disk, work}
    BY <2>1, CommitIsLogged
  <2>2. TypeInv /\ Survivors \subseteq {disk, work}
    BY DEF LogInv, SafeInv, Survivors
  <2> QED
    BY <2>1, <2>2, DiskMoves
<1> QED
  BY <1>1, <1>2, LogInductive, PTL DEF Spec, ImplementsLog, Log!Spec

-----------------------------------------------------------------------------
(***************************************************************************)
(* One call of transact: what it logs is what it was asked for and what it *)
(* reports, upserts go to the holders of their values, and new entities    *)
(* are new.                                                                *)
(***************************************************************************)
\* The kinds of steps, as the write closure sees them: a caller outside the
\* write transaction, its end (a restart included), its beginning, or one of its
\* own steps.
LEMMA StepKinds ==
    ASSUME TypeInv, [Next]_vars
    PROVE  \/ /\ UNCHANGED <<disk, work, writer, nextEID, closure>>
              /\ \A d \in Clients : writer = d =>
                    pc'[d] = pc[d] /\ call'[d] = call[d] /\ txID'[d] = txID[d]
           \/ writer' = NoClient
           \/ \E c \in Clients : BeginImmediate(c)
           \/ \E c \in Clients : Resolve(c) \/ Entity(c) \/ Apply(c)
<1>1. ASSUME NEW c \in Clients,
             Transact(c) \/ TakeConn(c) \/ TakeFails(c) \/ BeginFails(c)
      PROVE  /\ UNCHANGED <<disk, work, writer, nextEID, closure>>
             /\ \A d \in Clients : writer = d =>
                   pc'[d] = pc[d] /\ call'[d] = call[d] /\ txID'[d] = txID[d]
  <2>1. /\ pc \in [Clients -> {"idle", "take", "begin", "resolve", "entity",
                               "apply", "end"}]
        /\ \A d \in Clients :
              writer = d <=> pc[d] \in {"resolve", "entity", "apply", "end"}
    BY DEF TypeInv, TypeOK
  <2>2. /\ UNCHANGED <<disk, work, writer, nextEID, closure>>
        /\ pc[c] \in {"idle", "take", "begin"}
        /\ \A d \in Clients : d # c =>
              pc'[d] = pc[d] /\ call'[d] = call[d] /\ txID'[d] = txID[d]
    BY <1>1 DEF Transact, TakeConn, TakeFails, BeginFails, Return, TypeInv, TypeOK
  <2> QED
    BY <2>1, <2>2
<1>2. ASSUME NEW c \in Clients, Commit(c) \/ CommitFails(c) \/ Interrupted(c)
      PROVE  writer' = NoClient
  BY <1>2 DEF Commit, CommitFails, Interrupted, EndTransaction
<1>3. Reopen => writer' = NoClient
  BY DEF Reopen
<1>4. UNCHANGED vars => /\ UNCHANGED <<disk, work, writer, nextEID, closure>>
                        /\ UNCHANGED <<pc, call, txID>>
  BY DEF vars, clients
<1> QED
  BY <1>1, <1>2, <1>3, <1>4 DEF Next, Step

\* No call is inside the write transaction when nobody holds the write lock.
LEMMA Outside ==
    ASSUME TypeInv, writer = NoClient, NEW c \in Clients
    PROVE  pc[c] \in {"idle", "take", "begin"}
BY ClientsAssumption DEF TypeInv, TypeOK

\* The writer is the one caller inside it.
LEMMA Inside ==
    ASSUME TypeInv, NEW c \in Clients, NEW d \in Clients,
           pc[c] \in {"resolve", "entity", "apply", "end"},
           pc[d] \in {"resolve", "entity", "apply", "end"}
    PROVE  writer = c /\ c = d
BY DEF TypeInv, TypeOK

-----------------------------------------------------------------------------
(***************************************************************************)
(* What applying a datom does: it fails, or it appends rows to the log and *)
(* to the result alike, the datom's own row among them unless that is a    *)
(* duplicate. It puts no row into current_datoms but the one asserted.     *)
(***************************************************************************)
Adds(c, rows) ==
    /\ rows \in Seq(Rows)
    /\ NextDatom(c, work', rows)
    /\ work'.datoms = work.datoms \o rows
    /\ \A r : Logged(work, r) => Logged(work', r)
    /\ \/ Duplicate(Datom(c))
       \/ Logged(work', Row(c, Datom(c).v, ~Datom(c).retract))

NoOtherRow(c) ==
    \A r \in work'.current :
        \/ r \in work.current
        \/ /\ ~Datom(c).retract
           /\ r.e = eid /\ r.a = Datom(c).a /\ r.v = Datom(c).v /\ r.tx = txID[c]

\* Appending rows loses none.
LEMMA ConcatLogged ==
    ASSUME NEW db \in TablesType, NEW new, NEW rows \in Seq(Rows),
           new.datoms = db.datoms \o rows, NEW r
    PROVE  /\ Logged(db, r) => Logged(new, r)
           /\ rows # <<>> /\ r = rows[Len(rows)] => Logged(new, r)
<1>1. db.datoms \in Seq(Rows)
  BY DEF TablesType
<1>2. /\ Len(db.datoms) \in Nat /\ Len(rows) \in Nat
      /\ Len(new.datoms) = Len(db.datoms) + Len(rows)
      /\ \A i \in 1..(Len(db.datoms) + Len(rows)) : new.datoms[i] =
             IF i <= Len(db.datoms) THEN db.datoms[i] ELSE rows[i - Len(db.datoms)]
  BY <1>1, ConcatProperties, LenProperties
<1>3. Logged(db, r) => Logged(new, r)
  BY <1>2 DEF Logged
<1>4. ASSUME rows # <<>>, r = rows[Len(rows)] PROVE Logged(new, r)
  <2>1. Len(rows) \in Nat \ {0}
    BY <1>4, EmptySeq
  <2>2. /\ Len(new.datoms) \in 1..Len(new.datoms)
        /\ new.datoms[Len(new.datoms)] = rows[Len(rows)]
    BY <1>2, <2>1
  <2> QED
    BY <1>4, <2>2 DEF Logged
<1> QED
  BY <1>3, <1>4

\* Rows appended in two steps or in one.
LEMMA RowsAssociate ==
    ASSUME NEW r \in Seq(Rows), NEW s \in Seq(Rows), NEW u \in Seq(Rows)
    PROVE  (r \o s) \o u = r \o (s \o u)
OBVIOUS

\* The end of every assertion: its row logged after the rows before it.
LEMMA StoreEffect ==
    ASSUME TypeInv, NEW c \in Clients, At(c, "apply"), ~Datom(c).retract,
           NEW db \in TablesType, NEW rows \in Seq(Rows), Store(c, db, rows),
           db.datoms = work.datoms \o rows, db.current \subseteq work.current
    PROVE  /\ \/ Fail(c, "unique", work')
              \/ \E rs : Adds(c, rs)
           /\ NoOtherRow(c)
<1> DEFINE td == Datom(c)
           row == Row(c, td.v, TRUE)
           cur == CurrentRow(eid, td.a, td.v, txID[c], call[c].validFrom)
           mid == InsertDatom(db, row)
           new == UpsertCurrent(mid, cur)
<1>1. td.a \in Attrs /\ td.v \in Values
  BY DatomTyped, RefTyped DEF TypeInv, AttrKnown, At
<1>2. row \in Rows
  BY <1>1, RowTyped DEF Row, TypeInv, TypeOK
<1>3. \/ NextDatom(c, new, Append(rows, row))
      \/ Fail(c, "unique", db)
  BY DEF Store
<1>4. cur.e = eid /\ cur.a = td.a /\ cur.v = td.v /\ cur.tx = txID[c]
  BY DEF CurrentRow
<1>5. row = Row(c, td.v, ~td.retract)
  OBVIOUS
<1> HIDE DEF row, cur
<1>6. mid \in TablesType /\ mid.datoms = Append(db.datoms, row) /\ mid.current = db.current
  BY <1>2, InsertKeeps
<1> HIDE DEF mid
<1>7. new.datoms = Append(db.datoms, row) /\ new.current \subseteq db.current \cup {cur}
  BY <1>6, UpsertFacts
<1> HIDE DEF new
<1>8. work \in TablesType /\ work.datoms \in Seq(Rows)
  BY DEF TypeInv, TypeOK, TablesType
<1>9. /\ Append(rows, row) \in Seq(Rows) /\ Append(rows, row) # <<>>
      /\ Append(rows, row)[Len(Append(rows, row))] = row
  BY <1>2, AppendProperties
<1>10. new.datoms = work.datoms \o Append(rows, row)
  <2>1. <<row>> \in Seq(Rows)
    BY <1>2, SingletonTyped
  <2>2. work.datoms \o rows \in Seq(Rows)
    BY <1>8, ConcatProperties
  <2>3. Append(work.datoms \o rows, row) = (work.datoms \o rows) \o <<row>>
    BY <1>2, <2>2, AppendIsConcat
  <2>4. (work.datoms \o rows) \o <<row>> = work.datoms \o (rows \o <<row>>)
    BY <1>8, <2>1, RowsAssociate
  <2>5. rows \o <<row>> = Append(rows, row)
    BY <1>2, AppendIsConcat
  <2> QED
    BY <1>7, <2>3, <2>4, <2>5
<1>11. CASE NextDatom(c, new, Append(rows, row))
  <2>1. work' = new
    BY <1>11 DEF NextDatom
  <2>2. /\ \A r : Logged(work, r) => Logged(work', r)
        /\ Logged(work', row)
    BY <1>8, <1>9, <1>10, <2>1, ConcatLogged
  <2>3. Adds(c, Append(rows, row))
    BY <1>5, <1>9, <1>10, <1>11, <2>1, <2>2 DEF Adds
  <2>4. NoOtherRow(c)
    BY <1>4, <1>7, <2>1 DEF NoOtherRow
  <2> QED
    BY <2>3, <2>4
<1>12. CASE Fail(c, "unique", db)
  BY <1>12 DEF Fail, NoOtherRow
<1> QED
  BY <1>3, <1>11, <1>12

LEMMA ApplyEffect ==
    ASSUME TypeInv, NEW c \in Clients, Apply(c)
    PROVE  /\ At(c, "apply")
           /\ \/ IdentityTaken(c)
              \/ Fail(c, "unique", work')
              \/ \E rows : Adds(c, rows)
           /\ NoOtherRow(c)
<1>1. At(c, "apply")
  BY DEF Apply, SkipDuplicate, RetractDatom, IdentityTaken,
         AssertDatom, Supersede, MayAssert, Applies
<1>2. Datom(c).a \in Attrs /\ Datom(c).v \in Values /\ Datom(c).retract \in BOOLEAN
  BY <1>1, DatomTyped, RefTyped DEF TypeInv, AttrKnown, At
<1>3. /\ eid \in Nat /\ txID[c] \in Nat /\ call[c].validFrom \in Nat
      /\ work \in TablesType /\ work.datoms \in Seq(Rows) /\ <<>> \in Seq(Rows)
  BY EmptySeq DEF TypeInv, TypeOK, TablesType
<1>4. work.datoms = work.datoms \o <<>>
  BY <1>3, ConcatEmptySeq
<1>5. ASSUME NEW v \in Values, NEW b \in BOOLEAN PROVE Row(c, v, b) \in Rows
  BY <1>2, <1>3, RowTyped DEF Row
<1>6. CASE SkipDuplicate(c)
  <2>1. NextDatom(c, work, <<>>) /\ Duplicate(Datom(c)) /\ work' = work
    BY <1>6 DEF SkipDuplicate, NextDatom
  <2> QED
    BY <1>1, <1>3, <1>4, <2>1 DEF Adds, NoOtherRow
<1>7. CASE IdentityTaken(c)
  BY <1>1, <1>7 DEF IdentityTaken, Fail, NoOtherRow
<1>8. CASE RetractDatom(c)
  <2> DEFINE row == Row(c, Datom(c).v, FALSE)
             del == DeleteCurrentEAV(work, eid, Datom(c).a, Datom(c).v)
             new == InsertDatom(del, row)
  <2>1. /\ Datom(c).retract /\ row = Row(c, Datom(c).v, ~Datom(c).retract)
        /\ \/ NextDatom(c, new, <<row>>)
           \/ Fail(c, "unique", del)
    BY <1>8 DEF RetractDatom
  <2>2. row \in Rows
    BY <1>2, <1>5
  <2> HIDE DEF row
  <2>3. del \in TablesType /\ del.datoms = work.datoms /\ del.current \subseteq work.current
    BY <1>3, DeleteTyped, DeleteEAVFacts
  <2> HIDE DEF del
  <2>4. new.datoms = work.datoms \o <<row>> /\ new.current \subseteq work.current
    <3>1. new.datoms = Append(del.datoms, row) /\ new.current = del.current
      BY <2>2, <2>3, InsertKeeps
    <3>2. Append(work.datoms, row) = work.datoms \o <<row>>
      BY <1>3, <2>2, AppendIsConcat, Zenon
    <3> QED
      BY <2>3, <3>1, <3>2
  <2> HIDE DEF new
  <2>5. CASE NextDatom(c, new, <<row>>)
    <3>1. work' = new
      BY <2>5 DEF NextDatom
    <3>2. <<row>> \in Seq(Rows) /\ <<row>> # <<>> /\ row = <<row>>[Len(<<row>>)]
      BY <2>2
    <3>3. /\ \A r : Logged(work, r) => Logged(work', r)
          /\ Logged(work', row)
      BY <1>3, <2>4, <3>1, <3>2, ConcatLogged
    <3> QED
      BY <1>1, <2>1, <2>4, <2>5, <3>1, <3>2, <3>3 DEF Adds, NoOtherRow
  <2>6. CASE Fail(c, "unique", del)
    BY <1>1, <2>3, <2>6 DEF Fail, NoOtherRow
  <2> QED
    BY <2>1, <2>5, <2>6
<1>9. CASE AssertDatom(c)
  <2>1. Store(c, work, <<>>) /\ ~Datom(c).retract
    BY <1>9 DEF AssertDatom, MayAssert
  <2> QED
    BY <1>1, <1>3, <1>4, <2>1, StoreEffect
<1>10. CASE Supersede(c)
  <2>1. PICK old \in ReadCurrent(work, eid, Datom(c).a) :
            LET row == Row(c, old.v, FALSE)
            IN  \/ Store(c, DeleteCurrentEA(InsertDatom(work, row), eid,
                                            Datom(c).a), <<row>>)
                \/ Fail(c, "unique", work)
    BY <1>10 DEF Supersede
  <2> DEFINE row == Row(c, old.v, FALSE)
             mid == InsertDatom(work, row)
             del == DeleteCurrentEA(mid, eid, Datom(c).a)
  <2>2. Store(c, del, <<row>>) \/ Fail(c, "unique", work)
    BY <2>1
  <2>3. row \in Rows
    BY <1>3, <1>5 DEF ReadCurrent, TablesType
  <2> HIDE DEF row
  <2>4. mid \in TablesType /\ mid.datoms = work.datoms \o <<row>> /\ mid.current = work.current
    <3>1. mid \in TablesType /\ mid.datoms = Append(work.datoms, row)
      BY <1>3, <2>3, InsertKeeps
    <3>2. mid.current = work.current
      BY <1>3, <2>3, InsertKeeps
    <3>3. Append(work.datoms, row) = work.datoms \o <<row>>
      BY <1>3, <2>3, AppendIsConcat, Zenon
    <3> QED
      BY <3>1, <3>2, <3>3
  <2> HIDE DEF mid
  <2>5. del \in TablesType /\ del.datoms = mid.datoms /\ del.current \subseteq mid.current
    BY <2>4, DeleteTyped DEF DeleteCurrentEA, TablesType
  <2> HIDE DEF del
  <2>6. CASE Store(c, del, <<row>>)
    <3>1. ~Datom(c).retract /\ <<row>> \in Seq(Rows)
      BY <1>10, <2>3, SingletonTyped DEF Supersede, MayAssert
    <3> QED
      BY <1>1, <2>4, <2>5, <2>6, <3>1, StoreEffect
  <2>7. CASE Fail(c, "unique", work)
    BY <1>1, <2>7 DEF Fail, NoOtherRow
  <2> QED
    BY <2>2, <2>6, <2>7
<1> QED
  BY <1>6, <1>7, <1>8, <1>9, <1>10 DEF Apply

-----------------------------------------------------------------------------
(***************************************************************************)
(* The result against the log.                                             *)
(***************************************************************************)
\* Every step of the closure appends the same rows to both, or fails.
LEMMA ProducedStep ==
    ASSUME TypeInv, ProducedIsLogged, [Next]_vars
    PROVE  ProducedIsLogged'
<1>1. TypeInv'
  BY TypeStep
<1>2. /\ disk \in TablesType /\ work \in TablesType
      /\ disk.datoms \in Seq(Rows) /\ produced \in Seq(Rows)
  BY DEF TypeInv, TypeOK, TablesType
<1>3. CASE writer' = NoClient
  BY <1>3 DEF ProducedIsLogged
<1>4. CASE UNCHANGED <<disk, work, writer, nextEID, closure>>
  BY <1>4 DEF ProducedIsLogged, closure
<1>5. ASSUME NEW c \in Clients, BeginImmediate(c) PROVE ProducedIsLogged'
  <2>1. disk' = disk /\ work' = disk /\ produced' = <<>>
    BY <1>5 DEF BeginImmediate, ClosureReset
  <2>2. disk.datoms = disk.datoms \o <<>>
    BY <1>2, ConcatEmptySeq
  <2> QED
    BY <2>1, <2>2 DEF ProducedIsLogged
<1>6. ASSUME NEW c \in Clients, Resolve(c) \/ Entity(c) PROVE ProducedIsLogged'
  <2>1. writer # NoClient
    BY <1>6, ClientsAssumption
       DEF Resolve, ResolveSkip, ResolveUpsert, ResolveConflict, EncodeFails,
           RecordTx, Entity, EntityTemp, EntityID, EntityLookup, EntityFails,
           BatchDone, At, TypeInv, TypeOK
  <2>2. /\ disk' = disk
        /\ \/ err' # "none"
           \/ err' = err /\ produced' = produced /\ work'.datoms = work.datoms
    <3>1. CASE RecordTx(c)
      BY <1>2, <3>1, RecordTxCases
         DEF TxRecorded, TxRefused, Fail, InsertTx, TablesType
    <3>2. CASE ResolveSkip(c) \/ ResolveUpsert(c) \/ ResolveConflict(c) \/ EncodeFails(c)
      BY <3>2 DEF ResolveSkip, ResolveUpsert, ResolveConflict, EncodeFails, Fail
    <3>3. CASE Entity(c)
      BY <3>3 DEF Entity, EntityTemp, EntityID, EntityLookup, EntityFails,
                  BatchDone, ToApply, Fail, closure
    <3> QED
      BY <1>6, <3>1, <3>2, <3>3 DEF Resolve
  <2> QED
    BY <2>1, <2>2 DEF ProducedIsLogged
<1>7. ASSUME NEW c \in Clients, Apply(c) PROVE ProducedIsLogged'
  <2>1. writer = c /\ c # NoClient /\ disk' = disk
    BY <1>7, ApplyKeeps, ClientsAssumption
  <2>2. CASE err' # "none"
    BY <2>2 DEF ProducedIsLogged
  <2>3. CASE err' = "none"
    <3>1. PICK rows : Adds(c, rows)
      BY <1>7, <2>3, ApplyEffect DEF IdentityTaken, Fail
    <3>2. /\ rows \in Seq(Rows) /\ work'.datoms = work.datoms \o rows
          /\ produced' = produced \o rows /\ err = "none"
      BY <2>3, <3>1 DEF Adds, NextDatom
    <3>3. work.datoms = disk.datoms \o produced
      BY <2>1, <3>2 DEF ProducedIsLogged
    <3>4. (disk.datoms \o produced) \o rows = disk.datoms \o (produced \o rows)
      BY <1>2, <3>2, RowsAssociate
    <3> QED
      BY <2>1, <3>2, <3>3, <3>4 DEF ProducedIsLogged
  <2> QED
    BY <2>2, <2>3
<1> QED
  BY <1>3, <1>4, <1>5, <1>6, <1>7, StepKinds

\* The datoms of a TxResult are exactly the rows its transaction appends to the
\* log, in order, for any batch, schema and concurrent callers.
THEOREM ProducedAlwaysLogged == Spec => []ProducedIsLogged
<1>1. Init => ProducedIsLogged
  BY DEF Init, ProducedIsLogged
<1>2. TypeInv /\ ProducedIsLogged /\ [Next]_vars => TypeInv' /\ ProducedIsLogged'
  BY TypeStep, ProducedStep
<1> QED
  BY <1>1, <1>2, TypeInit, PTL DEF Spec

-----------------------------------------------------------------------------
(***************************************************************************)
(* The batch against the log. BatchApplied speaks of the end of the second *)
(* loop only; inside it the datoms before pos are logged, each on the      *)
(* entity its TempID has (which no longer changes), and so is every datom  *)
(* whose key is in seen.                                                   *)
(***************************************************************************)
LoggedFor(c, td, e) ==
    Logged(work, LogRow(e, td.a, td.v, txID[c], ~td.retract, call[c].validFrom))

Done(c, td) ==
    CASE td.e.kind = "temp" ->
             tempids[td.e.temp] # 0 /\ LoggedFor(c, td, tempids[td.e.temp])
      [] td.e.kind = "id" -> LoggedFor(c, td, td.e.id)
      [] OTHER -> \E j \in 1..Len(work.datoms) : LoggedFor(c, td, work.datoms[j].e)

DoneBefore(c, n) ==
    \A i \in 1..Len(call[c].batch) : i < n => Done(c, call[c].batch[i])

SeenLogged(c) ==
    \A k \in seen : Logged(work, LogRow(k[1], k[2], k[4], txID[c], ~k[3],
                                        call[c].validFrom))

Located(c) ==
    /\ Datom(c).e.kind = "temp" => tempids[Datom(c).e.temp] = eid /\ eid # 0
    /\ Datom(c).e.kind = "id" => eid = Datom(c).e.id

Progress(c) ==
    /\ pc[c] = "resolve" => seen = {}
    /\ pc[c] \in {"entity", "apply"} => DoneBefore(c, pos) /\ SeenLogged(c)
    /\ pc[c] = "apply" => Located(c)
    /\ pc[c] = "end" /\ err = "none" => DoneBefore(c, Len(call[c].batch) + 1)

BatchInv == \A c \in Clients : Progress(c)

\* What is done stays done while the log grows and TempIDs keep their entities.
LEMMA DoneStays ==
    ASSUME NEW c \in Clients, NEW td, Done(c, td), call' = call, txID' = txID,
           \A r : Logged(work, r) => Logged(work', r),
           \A x : tempids[x] # 0 => tempids'[x] = tempids[x]
    PROVE  Done(c, td)'
<1> DEFINE On(e) == LogRow(e, td.a, td.v, txID[c], ~td.retract, call[c].validFrom)
<1>1. CASE td.e.kind = "temp"
  <2>1. tempids[td.e.temp] # 0 /\ Logged(work, On(tempids[td.e.temp]))
    BY <1>1 DEF Done, LoggedFor
  <2>2. /\ tempids'[td.e.temp] = tempids[td.e.temp]
        /\ Logged(work', On(tempids[td.e.temp]))
    BY <2>1
  <2> QED
    BY <1>1, <2>1, <2>2 DEF Done, LoggedFor
<1>2. CASE td.e.kind = "id"
  BY <1>2 DEF Done, LoggedFor
<1>3. CASE td.e.kind \notin {"temp", "id"}
  <2>1. PICK j \in 1..Len(work.datoms) : Logged(work, On(work.datoms[j].e))
    BY <1>3 DEF Done, LoggedFor
  <2>2. Logged(work', On(work.datoms[j].e))
    BY <2>1
  <2>3. PICK i \in 1..Len(work'.datoms) : work'.datoms[i] = On(work.datoms[j].e)
    BY <2>2 DEF Logged
  <2>4. work'.datoms[i].e = work.datoms[j].e
    BY <2>3 DEF LogRow
  <2> QED
    BY <1>3, <2>2, <2>4 DEF Done, LoggedFor
<1> QED
  BY <1>1, <1>2, <1>3

\* The datom at pos, applied or recognised as a duplicate, is done.
LEMMA DoneNow ==
    ASSUME NEW c \in Clients, Located(c), SeenLogged(c), NEW rows, Adds(c, rows),
           NEW td, td = Datom(c)
    PROVE  Done(c, td)' /\ SeenLogged(c)'
<1> DEFINE row == LogRow(eid, td.a, td.v, txID[c], ~td.retract, call[c].validFrom)
<1>1. /\ call' = call /\ txID' = txID /\ tempids' = tempids
      /\ seen' \subseteq seen \cup {SeenKey(td)}
      /\ \A r : Logged(work, r) => Logged(work', r)
  BY DEF Adds, NextDatom
<1>2. Logged(work', row)
  <2>1. CASE Duplicate(td)
    <3>1. SeenKey(td) \in seen
      BY <2>1 DEF Duplicate
    <3>2. Logged(work, row)
      BY <3>1 DEF SeenLogged, SeenKey
    <3> QED
      BY <1>1, <3>2
  <2>2. CASE Logged(work', Row(c, td.v, ~td.retract))
    BY <2>2 DEF Row
  <2> QED
    BY <2>1, <2>2 DEF Adds
<1>3. SeenLogged(c)'
  <2> SUFFICES ASSUME NEW k \in seen'
               PROVE  Logged(work', LogRow(k[1], k[2], k[4], txID[c], ~k[3],
                                           call[c].validFrom))
    BY <1>1 DEF SeenLogged
  <2>1. CASE k \in seen
    BY <1>1, <2>1 DEF SeenLogged
  <2>2. CASE k = SeenKey(td)
    BY <1>2, <2>2 DEF SeenKey
  <2> QED
    BY <1>1, <2>1, <2>2
<1>4. \E j \in 1..Len(work'.datoms) : work'.datoms[j].e = eid
  <2>1. row.e = eid
    BY DEF LogRow
  <2> QED
    BY <1>2, <2>1 DEF Logged
<1>5. CASE td.e.kind = "temp"
  <2>1. tempids[td.e.temp] = eid /\ eid # 0
    BY <1>5 DEF Located
  <2> QED
    BY <1>1, <1>2, <1>3, <1>5, <2>1 DEF Done, LoggedFor
<1>6. CASE td.e.kind = "id"
  <2>1. td.e.id = eid
    BY <1>6 DEF Located
  <2> QED
    BY <1>1, <1>2, <1>3, <1>6, <2>1 DEF Done, LoggedFor
<1>7. CASE td.e.kind \notin {"temp", "id"}
  <2>1. PICK j \in 1..Len(work'.datoms) : work'.datoms[j].e = eid
    BY <1>4
  <2>2. Logged(work', LogRow(work'.datoms[j].e, td.a, td.v, txID'[c],
                             ~td.retract, call'[c].validFrom))
    BY <1>1, <1>2, <2>1
  <2> QED
    BY <1>3, <1>7, <2>2 DEF Done, LoggedFor
<1> QED
  BY <1>5, <1>6, <1>7

\* Finding the entity of the datom at pos.
LEMMA EntityEffect ==
    ASSUME TypeInv, NEW c \in Clients, Entity(c)
    PROVE  /\ UNCHANGED <<disk, work, writer, nextTx, opens, call, txID, result,
                          pos, pending, seen, produced>>
           /\ pc[c] = "entity"
           /\ \A x : tempids[x] # 0 => tempids'[x] = tempids[x]
           /\ err' \in {err, "entity"}
           /\ \/ err' # "none" /\ pc' = [pc EXCEPT ![c] = "end"]
              \/ pc' = [pc EXCEPT ![c] = "end"] /\ pos > Len(call[c].batch)
              \/ pc' = [pc EXCEPT ![c] = "apply"] /\ Located(c)'
<1>1. CASE EntityTemp(c)
  <2>1. /\ At(c, "entity") /\ Datom(c).e.kind = "temp" /\ Datom(c).e.temp \in TempIDs
        /\ tempids \in [TempIDs -> Nat] /\ nextEID \in Nat \ {0}
    BY <1>1, DatomTyped, RefTyped DEF EntityTemp, TypeInv, TypeOK
  <2>2. PICK e \in Nat : /\ ToApply(c, e) /\ e # 0
                         /\ tempids' = [tempids EXCEPT ![Datom(c).e.temp] = e]
                         /\ tempids[Datom(c).e.temp] \in {0, e}
    BY <1>1, <2>1 DEF EntityTemp
  <2>3. Datom(c)' = Datom(c)
    BY <2>2 DEF ToApply, Datom
  <2> QED
    BY <2>1, <2>2, <2>3 DEF ToApply, At, Located
<1>2. CASE EntityID(c)
  BY <1>2 DEF EntityID, ToApply, At, Located, Datom
<1>3. CASE EntityLookup(c)
  BY <1>3 DEF EntityLookup, ToApply, At, Located, Datom
<1>4. CASE EntityFails(c)
  BY <1>4 DEF EntityFails, Fail, At
<1>5. CASE BatchDone(c)
  BY <1>5 DEF BatchDone, closure
<1> QED
  BY <1>1, <1>2, <1>3, <1>4, <1>5 DEF Entity

\* Every step preserves BatchInv.
LEMMA BatchStep ==
    ASSUME TypeInv, BatchInv, [Next]_vars
    PROVE  BatchInv'
<1>1. TypeInv'
  BY TypeStep
<1>2. ASSUME NEW c \in Clients, pc'[c] \notin {"resolve", "entity", "apply", "end"}
      PROVE  Progress(c)'
  BY <1>2 DEF Progress
<1>3. ASSUME NEW c \in Clients, writer' = c, Progress(c)' PROVE BatchInv'
  BY <1>1, <1>2, <1>3 DEF BatchInv, TypeInv, TypeOK
<1>4. CASE writer' = NoClient
  BY <1>1, <1>2, <1>4, Outside, ClientsAssumption DEF BatchInv, TypeInv, TypeOK
<1>5. CASE /\ UNCHANGED <<disk, work, writer, nextEID, closure>>
           /\ \A d \in Clients : writer = d =>
                 pc'[d] = pc[d] /\ call'[d] = call[d] /\ txID'[d] = txID[d]
  <2> SUFFICES ASSUME NEW d \in Clients, writer' = d PROVE Progress(d)'
    BY <1>1, <1>2 DEF BatchInv, TypeInv, TypeOK
  <2>1. /\ pc'[d] = pc[d] /\ call'[d] = call[d] /\ txID'[d] = txID[d]
        /\ work' = work /\ pos' = pos /\ tempids' = tempids /\ seen' = seen
        /\ eid' = eid /\ err' = err
    BY <1>5 DEF closure
  <2>2. /\ \A n : DoneBefore(d, n) => DoneBefore(d, n)'
        /\ SeenLogged(d) => SeenLogged(d)'
        /\ Located(d) => Located(d)'
    BY <2>1 DEF DoneBefore, Done, LoggedFor, SeenLogged, Located, Datom
  <2> QED
    BY <2>1, <2>2 DEF BatchInv, Progress
<1>6. ASSUME NEW c \in Clients, BeginImmediate(c) PROVE BatchInv'
  <2>1. writer' = c /\ pc'[c] = "resolve" /\ seen' = {}
    BY <1>6 DEF BeginImmediate, ClosureReset, TypeInv, TypeOK
  <2> QED
    BY <1>3, <2>1 DEF Progress
<1>7. ASSUME NEW c \in Clients, Resolve(c) PROVE BatchInv'
  <2>1. writer = c /\ writer' = writer
    BY <1>7 DEF Resolve, ResolveSkip, ResolveUpsert, ResolveConflict, EncodeFails,
                RecordTx, At, Fail, TypeInv, TypeOK
  <2>2. \/ pc'[c] = "end" /\ err' # "none"
        \/ /\ pc[c] = "resolve" /\ seen' = seen
           /\ pc'[c] = "resolve" \/ (pc'[c] = "entity" /\ pos' = 1)
    <3>1. pc \in [Clients -> {"idle", "take", "begin", "resolve", "entity",
                              "apply", "end"}]
      BY DEF TypeInv, TypeOK
    <3>2. CASE ResolveConflict(c) \/ EncodeFails(c) \/ TxRefused(c)
      BY <3>1, <3>2 DEF ResolveConflict, EncodeFails, TxRefused, Fail
    <3>3. CASE ResolveSkip(c) \/ ResolveUpsert(c) \/ TxRecorded(c)
      BY <3>1, <3>3 DEF ResolveSkip, ResolveUpsert, TxRecorded, At, clients
    <3> QED
      BY <1>7, <3>2, <3>3, RecordTxCases DEF Resolve
  <2>3. CASE pc'[c] = "end" /\ err' # "none"
    BY <1>3, <2>1, <2>3 DEF Progress
  <2>4. CASE /\ pc[c] = "resolve" /\ seen' = seen
             /\ pc'[c] = "resolve" \/ (pc'[c] = "entity" /\ pos' = 1)
    <3>1. seen' = {}
      BY <2>4 DEF BatchInv, Progress
    <3>2. pos' = 1 => DoneBefore(c, pos)'
      BY DEF DoneBefore
    <3>3. SeenLogged(c)'
      BY <3>1 DEF SeenLogged
    <3> QED
      BY <1>3, <2>1, <2>4, <3>1, <3>2, <3>3 DEF Progress
  <2> QED
    BY <2>2, <2>3, <2>4
<1>8. ASSUME NEW c \in Clients, Entity(c) PROVE BatchInv'
  <2>1. /\ work' = work /\ call' = call /\ txID' = txID /\ pos' = pos
        /\ seen' = seen /\ writer' = writer /\ pc[c] = "entity"
        /\ \A x : tempids[x] # 0 => tempids'[x] = tempids[x]
        /\ \/ err' # "none" /\ pc' = [pc EXCEPT ![c] = "end"]
           \/ pc' = [pc EXCEPT ![c] = "end"] /\ pos > Len(call[c].batch)
           \/ pc' = [pc EXCEPT ![c] = "apply"] /\ Located(c)'
    BY <1>8, EntityEffect
  <2>2. writer' = c
    BY <2>1 DEF TypeInv, TypeOK
  <2>3. DoneBefore(c, pos) /\ SeenLogged(c)
    BY <2>1 DEF BatchInv, Progress
  <2>4. \A td : Done(c, td) => Done(c, td)'
    BY <2>1, DoneStays
  <2>5. DoneBefore(c, pos)' /\ SeenLogged(c)'
    BY <2>1, <2>3, <2>4 DEF DoneBefore, SeenLogged
  <2>6. pos > Len(call[c].batch) => DoneBefore(c, Len(call[c].batch) + 1)'
    <3>1. pos \in Nat /\ Len(call[c].batch) \in Nat
      BY LenProperties DEF TypeInv, TypeOK
    <3> QED
      BY <2>1, <2>5, <3>1 DEF DoneBefore
  <2>7. pc'[c] \in {"apply", "end"}
    BY <2>1 DEF TypeInv, TypeOK
  <2> QED
    BY <1>3, <2>1, <2>2, <2>5, <2>6, <2>7 DEF Progress, TypeInv, TypeOK
<1>9. ASSUME NEW c \in Clients, Apply(c) PROVE BatchInv'
  <2>1. /\ writer' = c /\ At(c, "apply") /\ pc[c] = "apply"
        /\ pc \in [Clients -> {"idle", "take", "begin", "resolve", "entity",
                               "apply", "end"}]
    BY <1>9, ApplyKeeps, ApplyEffect DEF At, TypeInv, TypeOK
  <2>2. CASE err' # "none" /\ pc' = [pc EXCEPT ![c] = "end"]
    BY <1>3, <2>1, <2>2 DEF Progress
  <2>3. ASSUME NEW rows, Adds(c, rows) PROVE BatchInv'
    <3> DEFINE td == Datom(c)
    <3>1. DoneBefore(c, pos) /\ SeenLogged(c) /\ Located(c)
      BY <2>1 DEF BatchInv, Progress
    <3>2. /\ call' = call /\ txID' = txID /\ tempids' = tempids
          /\ pos' = pos + 1 /\ pc'[c] = "entity"
          /\ \A r : Logged(work, r) => Logged(work', r)
      BY <2>1, <2>3 DEF Adds, NextDatom
    <3>3. \A x : x = td => Done(c, x)'
      BY <2>3, <3>1, DoneNow
    <3>4. SeenLogged(c)'
      BY <2>3, <3>1, DoneNow
    <3>5. \A x : Done(c, x) => Done(c, x)'
      BY <3>2, DoneStays
    <3>6. DoneBefore(c, pos)'
      <4> SUFFICES ASSUME NEW i \in 1..Len(call[c].batch), i < pos + 1
                   PROVE  \A x : x = call[c].batch[i] => Done(c, x)'
        BY <3>2 DEF DoneBefore
      <4>1. pos \in Nat /\ i \in Nat
        BY DEF TypeInv, TypeOK
      <4>2. CASE i = pos
        BY <3>3, <4>2 DEF Datom
      <4>3. CASE i < pos
        BY <3>1, <3>5, <4>3 DEF DoneBefore
      <4> QED
        BY <4>1, <4>2, <4>3
    <3> QED
      BY <1>3, <2>1, <3>2, <3>4, <3>6 DEF Progress
  <2> QED
    BY <1>9, <2>2, <2>3, ApplyEffect DEF IdentityTaken, Fail
<1> QED
  BY <1>4, <1>5, <1>6, <1>7, <1>8, <1>9, StepKinds

\* A call whose closure succeeds has logged every datom of its batch under its
\* transaction ID, with the caller's valid time, on one entity per TempID:
\* neither deduplication nor CardOne retraction nor a concurrent call drops any.
THEOREM BatchAlwaysApplied == Spec => []BatchApplied
<1>1. Init => BatchInv
  BY DEF Init, BatchInv, Progress
<1>2. TypeInv /\ BatchInv => BatchApplied
  <2> SUFFICES ASSUME TypeInv, BatchInv, NEW c \in Clients, pc[c] = "end",
                      err = "none", NEW i \in 1..Len(call[c].batch)
               PROVE  LET td == call[c].batch[i]
                          On(e) == Logged(work, LogRow(e, td.a, td.v, txID[c],
                                                       ~td.retract, call[c].validFrom))
                      IN  CASE td.e.kind = "temp" -> On(tempids[td.e.temp])
                            [] td.e.kind = "id" -> On(td.e.id)
                            [] OTHER -> \E j \in 1..Len(work.datoms) :
                                            On(work.datoms[j].e)
    BY DEF BatchApplied
  <2>1. i < Len(call[c].batch) + 1
    BY LenProperties DEF TypeInv, TypeOK
  <2>2. Done(c, call[c].batch[i])
    BY <2>1 DEF BatchInv, Progress, DoneBefore
  <2> QED
    BY <2>2 DEF Done, LoggedFor
<1>3. TypeInv /\ BatchInv /\ [Next]_vars => TypeInv' /\ BatchInv'
  BY TypeStep, BatchStep
<1> QED
  BY <1>1, <1>2, <1>3, TypeInit, PTL DEF Spec

-----------------------------------------------------------------------------
(***************************************************************************)
(* Upserts. lookupEntity is called with exclude = 0 to exclude nobody, so  *)
(* it does not see a fact of entity 0: the theorem assumes that callers    *)
(* never pass 0 as an explicit ID.                                         *)
(***************************************************************************)
NonzeroIDs ==
    \A b \in Batches : \A i \in 1..Len(b) : b[i].e.kind = "id" => b[i].e.id # 0

CallKnown == \A c \in Clients : call[c].batch \in Batches \cup {<<>>}

ZeroFree ==
    /\ CallKnown
    /\ \A db \in {disk, work} : \A r \in db.current : r.e # 0
    /\ \A c \in Clients : pc[c] = "apply" => eid # 0

\* Only Transact sets the batch of a call, to one that a caller passes.
LEMMA CallStep == TypeInv /\ CallKnown /\ [Next]_vars => CallKnown'
<1> SUFFICES ASSUME TypeInv, CallKnown, [Next]_vars PROVE CallKnown'
  OBVIOUS
<1>1. call \in [Clients -> [batch : Seq(TxDatom), txTime : Nat, validFrom : Nat]]
  BY DEF TypeInv, TypeOK
<1>2. NoCall.batch = <<>>
  BY DEF NoCall
<1>3. ASSUME NEW c \in Clients, Transact(c) PROVE CallKnown'
  BY <1>1, <1>3 DEF Transact, CallKnown
<1>4. ASSUME NEW c \in Clients,
             \/ TakeFails(c) \/ BeginFails(c) \/ Commit(c) \/ CommitFails(c)
             \/ Interrupted(c)
      PROVE  CallKnown'
  BY <1>1, <1>2, <1>4
     DEF TakeFails, BeginFails, Commit, CommitFails, Interrupted, EndTransaction,
         Return, CallKnown
<1>5. Reopen => CallKnown'
  BY <1>2 DEF Reopen, CallKnown
<1>6. call' = call => CallKnown'
  BY DEF CallKnown
<1>7. ASSUME NEW c \in Clients, TakeConn(c) \/ BeginImmediate(c) \/ Resolve(c)
      PROVE  call' = call
  BY <1>7 DEF TakeConn, BeginImmediate, Resolve, ResolveSkip, ResolveUpsert,
              ResolveConflict, EncodeFails, RecordTx, Fail, clients
<1>8. ASSUME NEW c \in Clients, Entity(c) PROVE call' = call
  BY <1>8, EntityEffect
<1>9. ASSUME NEW c \in Clients, Apply(c) PROVE call' = call
  BY <1>9, ApplyEffect DEF IdentityTaken, Fail, Adds, NextDatom
<1>10. UNCHANGED vars => call' = call
  BY DEF vars, clients
<1> QED
  BY <1>3, <1>4, <1>5, <1>6, <1>7, <1>8, <1>9, <1>10 DEF Next, Step

\* Only applying a datom puts rows into current_datoms that were in neither the
\* committed tables nor the writer's, and current_datoms moves with the record
\* of transactions.
Moved(new) ==
    \E old \in {disk, work} :
        new.current = old.current /\ TxIDs(old) \subseteq TxIDs(new)

LEMMA CurrentMoves ==
    ASSUME TypeInv, [Next]_vars
    PROVE  (\E c \in Clients : Apply(c)) \/ (Moved(disk') /\ Moved(work'))
<1>m. Moved(disk) /\ Moved(work)
  BY DEF Moved
<1>1. disk \in TablesType /\ work \in TablesType
  BY DEF TypeInv, TypeOK
<1>2. ASSUME NEW c \in Clients,
             \/ Transact(c) \/ TakeConn(c) \/ TakeFails(c) \/ BeginFails(c)
             \/ BeginImmediate(c) \/ Commit(c) \/ CommitFails(c) \/ Interrupted(c)
      PROVE  {disk', work'} \subseteq {disk, work}
  BY <1>2 DEF Transact, TakeConn, TakeFails, BeginFails, BeginImmediate, Commit,
              CommitFails, Interrupted, EndTransaction
<1>3. ASSUME NEW c \in Clients, Resolve(c)
      PROVE  disk' = disk /\ Moved(work')
  <2>1. CASE TxRecorded(c)
    <3>1. disk' = disk /\ work' = InsertTx(work, txID[c], call[c].txTime)
      BY <2>1 DEF TxRecorded
    <3>2. work'.current = work.current /\ work.transactions \subseteq work'.transactions
      BY <1>1, <3>1 DEF InsertTx, TablesType
    <3> QED
      BY <3>1, <3>2 DEF Moved, TxIDs
  <2>2. CASE TxRefused(c)
    BY <1>m, <2>2 DEF TxRefused, Fail
  <2> QED
    BY <1>m, <1>3, <2>1, <2>2, RecordTxCases
       DEF Resolve, ResolveSkip, ResolveUpsert, ResolveConflict, EncodeFails, Fail
<1>4. ASSUME NEW c \in Clients, Entity(c) PROVE disk' = disk /\ work' = work
  BY <1>4, EntityEffect
<1>5. CASE Reopen
  <2>1. disk' \in Survivors /\ work' = disk'
    BY <1>5 DEF Reopen
  <2> QED
    BY <1>1, <2>1 DEF Survivors, TablesType, Moved, TxIDs
<1>6. UNCHANGED vars => disk' = disk /\ work' = work
  BY DEF vars
<1> QED
  BY <1>m, <1>2, <1>3, <1>4, <1>5, <1>6 DEF Next, Step

\* Only finding its entity brings a caller to apply a datom.
LEMMA NotToApply ==
    ASSUME TypeInv, TypeInv', NEW d \in Clients, pc'[d] = "apply",
           NEW c \in Clients, BeginImmediate(c) \/ Resolve(c) \/ Apply(c)
    PROVE  FALSE
<1>1. pc \in [Clients -> {"idle", "take", "begin", "resolve", "entity", "apply",
                          "end"}]
  BY DEF TypeInv, TypeOK
<1>2. writer' = c /\ pc'[c] # "apply"
  <2>1. CASE Apply(c)
    BY <1>1, <2>1, ApplyKeeps
  <2>2. CASE BeginImmediate(c) \/ Resolve(c)
    BY <1>1, <2>2
       DEF BeginImmediate, Resolve, ResolveSkip, ResolveUpsert, ResolveConflict,
           EncodeFails, RecordTx, Fail, At, clients, TypeInv, TypeOK
  <2> QED
    BY <2>1, <2>2
<1> QED
  BY <1>2 DEF TypeInv, TypeOK

\* No fact is about entity 0.
LEMMA ZeroStep ==
    ASSUME NonzeroIDs, TypeInv, ZeroFree, [Next]_vars
    PROVE  ZeroFree'
<1>1. TypeInv' /\ CallKnown'
  BY TypeStep, CallStep DEF ZeroFree
<1>2. \A db \in {disk', work'} : \A r \in db.current : r.e # 0
  <2>1. ASSUME NEW c \in Clients, Apply(c) PROVE <1>2
    <3>1. disk' = disk /\ NoOtherRow(c) /\ eid # 0
      BY <2>1, ApplyKeeps, ApplyEffect DEF ZeroFree, At
    <3> QED
      BY <3>1 DEF ZeroFree, NoOtherRow
  <2>2. CASE Moved(disk') /\ Moved(work')
    BY <2>2 DEF ZeroFree, Moved
  <2> QED
    BY <2>1, <2>2, CurrentMoves
<1>3. ASSUME NEW d \in Clients, pc'[d] = "apply" PROVE eid' # 0
  <2>1. CASE /\ UNCHANGED <<disk, work, writer, nextEID, closure>>
             /\ \A x \in Clients : writer = x =>
                   pc'[x] = pc[x] /\ call'[x] = call[x] /\ txID'[x] = txID[x]
    <3>1. writer' = d
      BY <1>1, <1>3 DEF TypeInv, TypeOK
    <3>2. pc[d] = "apply" /\ eid' = eid
      BY <1>3, <2>1, <3>1 DEF closure
    <3> QED
      BY <3>2 DEF ZeroFree
  <2>2. CASE writer' = NoClient
    BY <1>1, <1>3, <2>2, ClientsAssumption DEF TypeInv, TypeOK
  <2>3. ASSUME NEW c \in Clients, BeginImmediate(c) \/ Resolve(c) \/ Apply(c)
        PROVE  FALSE
    BY <1>1, <1>3, <2>3, NotToApply
  <2>4. ASSUME NEW c \in Clients, Entity(c) PROVE eid' # 0
    <3>1. pc[c] = "entity" /\ writer' = writer /\ call' = call /\ pos' = pos
      BY <2>4, EntityEffect
    <3>2. c = d
      BY <1>1, <1>3, <3>1 DEF TypeInv, TypeOK
    <3>3. CASE EntityTemp(c)
      <4>1. Located(c)' /\ Datom(c)' = Datom(c) /\ Datom(c).e.kind = "temp"
        BY <1>3, <2>4, <3>1, <3>2, <3>3, EntityEffect
           DEF EntityTemp, Datom, TypeInv, TypeOK
      <4> QED
        BY <4>1 DEF Located
    <3>4. CASE EntityID(c)
      <4>1. /\ eid' = Datom(c).e.id /\ Datom(c).e.kind = "id"
            /\ pos \in 1..Len(call[c].batch)
        BY <3>4 DEF EntityID, ToApply, At, TypeInv, TypeOK
      <4>2. call[c].batch \in Batches
        BY <4>1, EmptySeq DEF ZeroFree, CallKnown
      <4> QED
        BY <4>1, <4>2 DEF NonzeroIDs, Datom
    <3>5. CASE EntityLookup(c)
      BY <3>5 DEF EntityLookup, ToApply, RefTargets, LookupAV
    <3>6. CASE EntityFails(c) \/ BatchDone(c)
      BY <1>3, <3>2, <3>6 DEF EntityFails, BatchDone, Fail, TypeInv, TypeOK
    <3> QED
      BY <2>4, <3>3, <3>4, <3>5, <3>6 DEF Entity
  <2> QED
    BY <2>1, <2>2, <2>3, <2>4, StepKinds
<1> QED
  BY <1>1, <1>2, <1>3 DEF ZeroFree

(***************************************************************************)
(* The first loop gives each upserted value one entity, the only one that  *)
(* may hold it (HeldByChosen), and binds the TempID to it (Bound); the     *)
(* second loop asserts the value on that entity and on no other.           *)
(***************************************************************************)
HeldByChosen ==
    \A k \in IdentityKeys : pending[k] # 0 =>
        \A r \in work.current : r.a = k[1] /\ r.v = k[2] => r.e = pending[k]

Bound(td) ==
    Upserts(td) => /\ tempids[td.e.temp] # 0
                   /\ pending[<<td.a, td.v>>] = tempids[td.e.temp]

AllTemp(c) == \A i \in 1..Len(call[c].batch) : call[c].batch[i].e.kind = "temp"

BoundBefore(c, n) ==
    \A i \in 1..Len(call[c].batch) : i < n => Bound(call[c].batch[i])

Directed(c) ==
    /\ pc[c] \in {"resolve", "entity", "apply"} => HeldByChosen
    /\ pc[c] = "resolve" => BoundBefore(c, pos)
    /\ pc[c] \in {"entity", "apply"} => BoundBefore(c, Len(call[c].batch) + 1)
    /\ pc[c] = "apply" => eid = tempids[Datom(c).e.temp]
    /\ pc[c] \in {"resolve", "entity", "apply", "end"} => err # "identity"

UpsertInv == \A c \in Clients : AllTemp(c) => Directed(c)

\* One upsert of the first loop.
LEMMA ResolveDirected ==
    ASSUME SafeInv, ZeroFree, NEW c \in Clients, ResolveUpsert(c), Directed(c)
    PROVE  HeldByChosen' /\ BoundBefore(c, pos)'
<1> DEFINE td == Datom(c)
           key == <<td.a, td.v>>
<1>1. TypeInv
  BY DEF SafeInv
<1>2. /\ At(c, "resolve") /\ Upserts(td) /\ td \in TxDatom /\ pos' = pos + 1
      /\ UNCHANGED <<work, pc, call>>
  BY <1>1, DatomTyped DEF ResolveUpsert, clients
<1>3. /\ td.e.temp \in TempIDs /\ key \in IdentityKeys
      /\ UpsertTargets(td) \subseteq Nat
  BY <1>1, <1>2, UpsertTargetsTyped
<1>4. PICK e \in UpsertTargets(td) :
          /\ tempids[td.e.temp] \in {0, e}
          /\ tempids' = [tempids EXCEPT ![td.e.temp] = e]
          /\ pending' = [pending EXCEPT ![key] = e]
  BY DEF ResolveUpsert
<1>5. HeldByChosen /\ BoundBefore(c, pos)
  BY <1>2 DEF At, Directed
<1>6. /\ tempids \in [TempIDs -> Nat] /\ pending \in [IdentityKeys -> Nat]
      /\ nextEID # 0 /\ pos \in Nat
  BY <1>1 DEF TypeInv, TypeOK
<1>7. pending[key] \in {0, e}
  BY <1>4 DEF UpsertTargets
<1>8. /\ e # 0
      /\ \A r \in work.current : r.a = td.a /\ r.v = td.v => r.e = e
  <2>1. CASE pending[key] # 0
    <3>1. e = pending[key]
      BY <2>1 DEF UpsertTargets
    <3> QED
      BY <1>3, <1>5, <2>1, <3>1 DEF HeldByChosen
  <2>2. CASE pending[key] = 0 /\ LookupAV(work, td.a, td.v, 0) # {}
    <3>1. e \in LookupAV(work, td.a, td.v, 0)
      BY <2>2 DEF UpsertTargets
    <3>2. PICK s \in work.current : s.a = td.a /\ s.v = td.v /\ s.e = e /\ e # 0
      BY <3>1 DEF LookupAV
    <3>3. IdentityIn(work) /\ td.a \in IdentityAttrs
      BY <1>2 DEF SafeInv, TablesInv, Consistent, Upserts
    <3> QED
      BY <3>2, <3>3 DEF IdentityIn
  <2>3. CASE pending[key] = 0 /\ LookupAV(work, td.a, td.v, 0) = {}
    <3>1. e # 0
      BY <1>6, <2>3 DEF UpsertTargets
    <3>2. \A r \in work.current : ~(r.a = td.a /\ r.v = td.v)
      BY <2>3 DEF LookupAV, ZeroFree
    <3> QED
      BY <3>1, <3>2
  <2> QED
    BY <2>1, <2>2, <2>3
<1>9. HeldByChosen'
  BY <1>2, <1>3, <1>4, <1>5, <1>6, <1>8 DEF HeldByChosen
<1>10. \A x : Bound(x) /\ x \in TxDatom => Bound(x)'
  <2> SUFFICES ASSUME NEW x \in TxDatom, Bound(x), Upserts(x)
               PROVE  /\ tempids'[x.e.temp] # 0
                      /\ pending'[<<x.a, x.v>>] = tempids'[x.e.temp]
    BY DEF Bound
  <2>1. x.e.temp \in TempIDs /\ <<x.a, x.v>> \in IdentityKeys
    BY <1>1, UpsertTargetsTyped
  <2>2. tempids[x.e.temp] # 0 /\ pending[<<x.a, x.v>>] = tempids[x.e.temp]
    BY DEF Bound
  <2> QED
    BY <1>3, <1>4, <1>6, <1>7, <2>1, <2>2
<1>11. \A x : x = td => Bound(x)'
  BY <1>3, <1>4, <1>6, <1>8 DEF Bound
<1>12. BoundBefore(c, pos)'
  <2> SUFFICES ASSUME NEW i \in 1..Len(call[c].batch), i < pos + 1
               PROVE  \A x : x = call[c].batch[i] => Bound(x)'
    BY <1>2 DEF BoundBefore
  <2>1. call[c].batch[i] \in TxDatom
    BY <1>1, ElementOfSeq DEF TypeInv, TypeOK
  <2>2. CASE i = pos
    BY <1>11, <2>2 DEF Datom
  <2>3. CASE i < pos
    BY <1>5, <1>10, <2>1, <2>3 DEF BoundBefore
  <2> QED
    BY <1>6, <2>2, <2>3
<1> QED
  BY <1>9, <1>12

\* Applying a datom of a batch whose entities are all TempIDs.
LEMMA ApplyDirected ==
    ASSUME TypeInv, NEW c \in Clients, AllTemp(c), Directed(c), Apply(c)
    PROVE  HeldByChosen' /\ ~IdentityTaken(c)
<1> DEFINE td == Datom(c)
           key == <<td.a, td.v>>
<1>1. At(c, "apply") /\ NoOtherRow(c) /\ pending' = pending
  BY ApplyEffect DEF IdentityTaken, Fail, Adds, NextDatom
<1>2. /\ HeldByChosen /\ BoundBefore(c, Len(call[c].batch) + 1)
      /\ eid = tempids[td.e.temp]
  BY <1>1 DEF At, Directed
<1>3. pos \in 1..Len(call[c].batch) /\ td = call[c].batch[pos]
      /\ pos < Len(call[c].batch) + 1
  BY <1>1, LenProperties DEF At, Datom, TypeInv, TypeOK
<1>4. td.e.kind = "temp" /\ Bound(td) /\ td \in TxDatom
  BY <1>1, <1>2, <1>3, DatomTyped DEF AllTemp, BoundBefore
<1>5. td.a \in IdentityAttrs /\ ~td.retract =>
          /\ key \in IdentityKeys /\ pending[key] = eid /\ eid # 0
          /\ \A r \in work.current : r.a = td.a /\ r.v = td.v => r.e = eid
  <2> SUFFICES ASSUME td.a \in IdentityAttrs, ~td.retract
               PROVE  /\ key \in IdentityKeys /\ pending[key] = eid /\ eid # 0
                      /\ \A r \in work.current :
                            r.a = td.a /\ r.v = td.v => r.e = eid
    OBVIOUS
  <2>1. key \in IdentityKeys
    BY <1>4, RefTyped DEF IdentityKeys
  <2>2. pending[key] = eid /\ eid # 0
    BY <1>2, <1>4 DEF Bound, Upserts
  <2> QED
    BY <1>2, <2>1, <2>2 DEF HeldByChosen
<1>6. ~IdentityTaken(c)
  BY <1>5 DEF IdentityTaken, LookupAV
<1>7. HeldByChosen'
  <2> SUFFICES ASSUME NEW k \in IdentityKeys, pending[k] # 0,
                      NEW r \in work'.current, r.a = k[1], r.v = k[2]
               PROVE  r.e = pending[k]
    BY <1>1 DEF HeldByChosen
  <2>1. CASE r \in work.current
    BY <1>2, <2>1 DEF HeldByChosen
  <2>2. CASE ~td.retract /\ r.e = eid /\ r.a = td.a /\ r.v = td.v
    <3>1. k = <<k[1], k[2]>> /\ k[1] \in IdentityAttrs
      BY DEF IdentityKeys
    <3> QED
      BY <1>5, <2>2, <3>1
  <2> QED
    BY <1>1, <2>1, <2>2 DEF NoOtherRow
<1> QED
  BY <1>6, <1>7

\* Every step keeps upserts directed.
LEMMA UpsertStep ==
    ASSUME SafeInv, ZeroFree, UpsertInv, [Next]_vars
    PROVE  UpsertInv'
<1>1. TypeInv /\ TypeInv'
  BY TypeStep DEF SafeInv
<1> DEFINE PCs == {"idle", "take", "begin", "resolve", "entity", "apply", "end"}
<1>t. pc \in [Clients -> PCs]
  BY <1>1 DEF TypeInv, TypeOK
<1>2. ASSUME NEW c \in Clients, pc'[c] \notin {"resolve", "entity", "apply", "end"}
      PROVE  Directed(c)'
  BY <1>2 DEF Directed
<1>3. ASSUME NEW c \in Clients, writer' = c, AllTemp(c)' => Directed(c)'
      PROVE  UpsertInv'
  BY <1>1, <1>2, <1>3 DEF UpsertInv, TypeInv, TypeOK
<1>4. CASE writer' = NoClient
  BY <1>1, <1>2, <1>4, ClientsAssumption DEF UpsertInv, TypeInv, TypeOK
<1>5. CASE /\ UNCHANGED <<disk, work, writer, nextEID, closure>>
           /\ \A d \in Clients : writer = d =>
                 pc'[d] = pc[d] /\ call'[d] = call[d] /\ txID'[d] = txID[d]
  <2> SUFFICES ASSUME NEW d \in Clients, writer' = d
               PROVE  AllTemp(d)' => Directed(d)'
    BY <1>1, <1>2 DEF UpsertInv, TypeInv, TypeOK
  <2>1. /\ pc'[d] = pc[d] /\ call'[d] = call[d]
        /\ work' = work /\ pos' = pos /\ tempids' = tempids /\ pending' = pending
        /\ eid' = eid /\ err' = err
    BY <1>5 DEF closure
  <2>2. AllTemp(d)' => AllTemp(d)
    BY <2>1 DEF AllTemp
  <2>3. Directed(d) => Directed(d)'
    BY <2>1 DEF Directed, HeldByChosen, BoundBefore, Bound, Datom
  <2> QED
    BY <2>2, <2>3 DEF UpsertInv
<1>6. ASSUME NEW c \in Clients, BeginImmediate(c) PROVE UpsertInv'
  <2>1. /\ writer' = c /\ pc'[c] = "resolve" /\ pos' = 1 /\ err' = "none"
        /\ pending' = [k \in IdentityKeys |-> 0]
    BY <1>t, <1>6 DEF BeginImmediate, ClosureReset
  <2>2. HeldByChosen' /\ BoundBefore(c, pos)'
    BY <2>1 DEF HeldByChosen, BoundBefore
  <2> QED
    BY <1>3, <2>1, <2>2 DEF Directed
<1>7. ASSUME NEW c \in Clients, Resolve(c), AllTemp(c) => Directed(c)
      PROVE  UpsertInv'
  <2>1. writer = c /\ writer' = writer /\ call' = call
    BY <1>1, <1>7
       DEF Resolve, ResolveSkip, ResolveUpsert, ResolveConflict, EncodeFails,
           RecordTx, At, Fail, clients, TypeInv, TypeOK
  <2> SUFFICES ASSUME AllTemp(c) PROVE Directed(c)'
    BY <1>3, <2>1 DEF AllTemp
  <2>2. Directed(c)
    BY <1>7
  <2>3. CASE ResolveConflict(c) \/ EncodeFails(c) \/ TxRefused(c)
    BY <1>t, <2>3 DEF ResolveConflict, EncodeFails, TxRefused, Fail, Directed
  <2>4. CASE ResolveUpsert(c)
    <3>1. HeldByChosen' /\ BoundBefore(c, pos)'
      BY <2>2, <2>4, ResolveDirected
    <3>2. pc'[c] = "resolve" /\ pc[c] = "resolve" /\ err' = err
      BY <2>4 DEF ResolveUpsert, At, clients
    <3> QED
      BY <2>2, <3>1, <3>2 DEF Directed
  <2>5. CASE ResolveSkip(c)
    <3>1. /\ pc'[c] = "resolve" /\ pc[c] = "resolve" /\ err' = err /\ call' = call
          /\ work' = work /\ tempids' = tempids /\ pending' = pending
          /\ pos' = pos + 1 /\ ~Upserts(Datom(c))
      BY <2>5 DEF ResolveSkip, At, clients
    <3>2. HeldByChosen' /\ (\A x : Bound(x) => Bound(x)')
      BY <2>2, <3>1 DEF Directed, HeldByChosen, Bound
    <3>3. \A x : x = Datom(c) => Bound(x)'
      BY <3>1 DEF Bound
    <3>4. BoundBefore(c, pos)'
      <4> SUFFICES ASSUME NEW i \in 1..Len(call[c].batch), i < pos + 1
                   PROVE  \A x : x = call[c].batch[i] => Bound(x)'
        BY <3>1 DEF BoundBefore
      <4>1. pos \in Nat
        BY <1>1 DEF TypeInv, TypeOK
      <4>2. CASE i = pos
        BY <3>3, <4>2 DEF Datom
      <4>3. CASE i < pos
        BY <2>2, <3>1, <3>2, <4>3 DEF BoundBefore, Directed
      <4> QED
        BY <4>1, <4>2, <4>3
    <3> QED
      BY <2>2, <3>1, <3>2, <3>4 DEF Directed
  <2>6. CASE TxRecorded(c)
    <3>1. /\ pc[c] = "resolve" /\ pc'[c] = "entity" /\ err' = err /\ call' = call
          /\ tempids' = tempids /\ pending' = pending /\ pos > Len(call[c].batch)
          /\ work' = InsertTx(work, txID[c], call[c].txTime)
      BY <1>t, <2>6 DEF TxRecorded
    <3>2. work'.current = work.current
      BY <1>1, <3>1 DEF InsertTx, TypeInv, TypeOK, TablesType
    <3>3. pos \in Nat /\ Len(call[c].batch) \in Nat
      BY <1>1, LenProperties DEF TypeInv, TypeOK
    <3>4. BoundBefore(c, Len(call[c].batch) + 1)'
      BY <2>2, <3>1, <3>3 DEF Directed, BoundBefore, Bound
    <3>5. HeldByChosen'
      BY <2>2, <3>1, <3>2 DEF Directed, HeldByChosen
    <3> QED
      BY <2>2, <3>1, <3>4, <3>5 DEF Directed
  <2> QED
    BY <1>7, <2>3, <2>4, <2>5, <2>6, RecordTxCases DEF Resolve
<1>8. ASSUME NEW c \in Clients, Entity(c), AllTemp(c) => Directed(c)
      PROVE  UpsertInv'
  <2>1. /\ work' = work /\ writer' = writer /\ call' = call /\ pos' = pos
        /\ pending' = pending /\ pc[c] = "entity" /\ err' \in {err, "entity"}
        /\ \A x : tempids[x] # 0 => tempids'[x] = tempids[x]
        /\ \/ pc'[c] = "end"
           \/ pc'[c] = "apply" /\ Located(c)'
    BY <1>1, <1>t, <1>8, EntityEffect
  <2> SUFFICES ASSUME AllTemp(c) PROVE Directed(c)'
    BY <1>1, <1>3, <2>1 DEF AllTemp, TypeInv, TypeOK
  <2>2. Directed(c)
    BY <1>8
  <2>3. /\ HeldByChosen'
        /\ BoundBefore(c, Len(call[c].batch) + 1)'
    BY <2>1, <2>2 DEF Directed, HeldByChosen, BoundBefore, Bound
  <2>4. pc'[c] = "apply" => eid' = tempids'[Datom(c)'.e.temp]
    <3> SUFFICES ASSUME pc'[c] = "apply" PROVE eid' = tempids'[Datom(c)'.e.temp]
      OBVIOUS
    <3>1. pos \in 1..Len(call[c].batch)
      BY <1>1, <2>1 DEF TypeInv, TypeOK, AttrKnown
    <3>2. Datom(c)'.e.kind = "temp"
      BY <2>1, <3>1 DEF AllTemp, Datom
    <3> QED
      BY <2>1, <3>2 DEF Located
  <2> QED
    BY <2>1, <2>2, <2>3, <2>4 DEF Directed
<1>9. ASSUME NEW c \in Clients, Apply(c), AllTemp(c) => Directed(c)
      PROVE  UpsertInv'
  <2>1. /\ writer' = c /\ At(c, "apply") /\ pc[c] = "apply"
    BY <1>1, <1>9, ApplyKeeps, ApplyEffect DEF At
  <2>2. /\ call' = call /\ pending' = pending /\ tempids' = tempids
        /\ IdentityTaken(c) \/ err' = "unique" \/ err' = err
        /\ pc'[c] \in {"entity", "end"}
    BY <1>1, <1>t, <1>9, ApplyEffect DEF IdentityTaken, Fail, Adds, NextDatom
  <2> SUFFICES ASSUME AllTemp(c) PROVE Directed(c)'
    BY <1>3, <2>1, <2>2 DEF AllTemp
  <2>3. Directed(c)
    BY <1>9
  <2>4. HeldByChosen' /\ ~IdentityTaken(c)
    BY <1>1, <1>9, <2>3, ApplyDirected
  <2>5. BoundBefore(c, Len(call[c].batch) + 1)'
    BY <2>1, <2>2, <2>3 DEF Directed, BoundBefore, Bound
  <2> QED
    BY <2>1, <2>2, <2>3, <2>4, <2>5 DEF Directed
<1> QED
  BY <1>1, <1>4, <1>5, <1>6, <1>7, <1>8, <1>9, StepKinds DEF UpsertInv

\* A batch that names its entities by TempID only never fails the identity check
\* of transact, whatever the other callers commit before it.
THEOREM UpsertsAlwaysFind ==
    ASSUME NonzeroIDs
    PROVE  Spec => []UpsertsNeverTaken
<1>1. Init => ZeroFree /\ UpsertInv
  BY DEF Init, ZeroFree, CallKnown, NoCall, EmptyTables, UpsertInv, Directed
<1>2. SafeInv /\ ZeroFree /\ UpsertInv /\ [Next]_vars
          => SafeInv' /\ ZeroFree' /\ UpsertInv'
  BY SafeStep, ZeroStep, UpsertStep DEF SafeInv
<1>3. UpsertInv => UpsertsNeverTaken
  BY DEF UpsertInv, Directed, AllTemp, UpsertsNeverTaken
<1> QED
  BY <1>1, <1>2, <1>3, SafeInit, PTL DEF Spec

-----------------------------------------------------------------------------
(***************************************************************************)
(* New entities. The counter stays above the entities with facts only if   *)
(* it also stays above those that the closure has chosen and will assert   *)
(* on. A caller that asserts by explicit ID breaks this, one that retracts *)
(* by explicit ID does not.                                                *)
(***************************************************************************)
NothingAssertedByID ==
    \A b \in Batches : \A i \in 1..Len(b) : b[i].e.kind = "id" => b[i].retract

ChosenBelow ==
    /\ \A x \in TempIDs : tempids[x] < nextEID
    /\ \A k \in IdentityKeys : pending[k] < nextEID

TargetBelow(c) == Datom(c).retract \/ eid < nextEID

BlankInv ==
    /\ CallKnown
    /\ NewEntitiesBlank
    /\ ChosenBelow
    /\ \A c \in Clients : pc[c] = "apply" => TargetBelow(c)

\* The counter that loadState sets is above every entity with a fact.
LEMMA LoadEIDAbove ==
    ASSUME NEW db \in TablesType, NEW n \in loadEID(db), NEW r \in db.current
    PROVE  r.e < n
<1>1. r.e \in Entities(db) /\ Entities(db) \subseteq Nat
  BY DEF Entities, TablesType
<1> QED
  BY <1>1, SchemaAssumption DEF loadEID, Maxima

\* The entity that an upsert resolves to is below the counter as it leaves it.
LEMMA ResolveBelow ==
    ASSUME TypeInv, BlankInv, NEW c \in Clients, ResolveUpsert(c)
    PROVE  ChosenBelow' /\ nextEID' >= nextEID
<1> DEFINE td == Datom(c)
           key == <<td.a, td.v>>
<1>1. td \in TxDatom /\ Upserts(td)
  BY DatomTyped DEF ResolveUpsert
<1>2. td.e.temp \in TempIDs /\ key \in IdentityKeys /\ UpsertTargets(td) \subseteq Nat
  BY <1>1, UpsertTargetsTyped
<1>3. PICK e \in UpsertTargets(td) :
          /\ tempids' = [tempids EXCEPT ![td.e.temp] = e]
          /\ pending' = [pending EXCEPT ![key] = e]
  BY DEF ResolveUpsert
<1>4. /\ tempids \in [TempIDs -> Nat] /\ pending \in [IdentityKeys -> Nat]
      /\ nextEID \in Nat
  BY DEF TypeInv, TypeOK
<1>5. nextEID' = IF UpsertAllocates(td) THEN nextEID + 1 ELSE nextEID
  BY DEF ResolveUpsert
<1>6. \A x \in LookupAV(work, td.a, td.v, 0) : x < nextEID
  BY DEF LookupAV, BlankInv, NewEntitiesBlank
<1>7. tempids[td.e.temp] < nextEID /\ pending[key] < nextEID
  BY <1>2 DEF BlankInv, ChosenBelow
<1>8. e \in Nat /\ e < nextEID'
  BY <1>2, <1>4, <1>5, <1>6, <1>7 DEF UpsertTargets, UpsertAllocates
<1>9. nextEID' \in Nat /\ nextEID' >= nextEID
  BY <1>4, <1>5
<1> QED
  BY <1>2, <1>3, <1>4, <1>8, <1>9 DEF BlankInv, ChosenBelow

\* The counter and what the closure has chosen, step by step.
LEMMA ChosenStep ==
    ASSUME TypeInv, BlankInv, [Next]_vars
    PROVE  ChosenBelow' /\ (Reopen \/ nextEID' >= nextEID)
<1>1. TypeInv'
  BY TypeStep
<1>2. /\ nextEID \in Nat /\ nextEID' \in Nat \ {0}
      /\ tempids \in [TempIDs -> Nat] /\ pending \in [IdentityKeys -> Nat]
  BY <1>1 DEF TypeInv, TypeOK
<1>3. ASSUME /\ tempids' = [x \in TempIDs |-> 0]
             /\ pending' = [k \in IdentityKeys |-> 0]
      PROVE  ChosenBelow'
  BY <1>2, <1>3 DEF ChosenBelow
<1>4. ASSUME UNCHANGED <<tempids, pending, nextEID>>
      PROVE  ChosenBelow' /\ nextEID' >= nextEID
  BY <1>2, <1>4 DEF BlankInv, ChosenBelow
<1>5. CASE Reopen
  BY <1>3, <1>5 DEF Reopen, ClosureReset
<1>6. ASSUME NEW c \in Clients,
             \/ BeginImmediate(c) \/ Commit(c) \/ CommitFails(c) \/ Interrupted(c)
      PROVE  ChosenBelow' /\ nextEID' >= nextEID
  BY <1>2, <1>3, <1>6
     DEF BeginImmediate, Commit, CommitFails, Interrupted, EndTransaction, Return,
         ClosureReset
<1>7. ASSUME NEW c \in Clients,
             Transact(c) \/ TakeConn(c) \/ TakeFails(c) \/ BeginFails(c)
      PROVE  UNCHANGED <<tempids, pending, nextEID>>
  BY <1>7 DEF Transact, TakeConn, TakeFails, BeginFails, Return, closure
<1>8. ASSUME NEW c \in Clients, Resolve(c) PROVE ChosenBelow' /\ nextEID' >= nextEID
  <2>1. CASE ~ResolveUpsert(c)
    BY <1>4, <1>8, <2>1 DEF Resolve, ResolveSkip, ResolveConflict, EncodeFails,
                            RecordTx, Fail
  <2> QED
    BY <2>1, ResolveBelow
<1>9. ASSUME NEW c \in Clients, Entity(c) PROVE ChosenBelow' /\ nextEID' >= nextEID
  <2>1. CASE EntityTemp(c)
    <3>1. pending' = pending
      BY <1>9, EntityEffect
    <3>2. \/ UNCHANGED <<tempids, nextEID>>
          \/ /\ nextEID' = nextEID + 1
             /\ tempids' = [tempids EXCEPT ![Datom(c).e.temp] = nextEID]
      BY <2>1 DEF EntityTemp
    <3> QED
      BY <1>2, <3>1, <3>2 DEF BlankInv, ChosenBelow
  <2>2. CASE ~EntityTemp(c)
    BY <1>4, <1>9, <2>2 DEF Entity, EntityID, EntityLookup, EntityFails, BatchDone,
                            ToApply, Fail, closure
  <2> QED
    BY <2>1, <2>2
<1>10. ASSUME NEW c \in Clients, Apply(c) PROVE UNCHANGED <<tempids, pending, nextEID>>
  BY <1>10, ApplyEffect DEF IdentityTaken, Fail, Adds, NextDatom
<1>11. UNCHANGED vars => UNCHANGED <<tempids, pending, nextEID>>
  BY DEF vars, closure
<1> QED
  BY <1>4, <1>5, <1>6, <1>7, <1>8, <1>9, <1>10, <1>11 DEF Next, Step

\* Every step keeps the counter above the entities with facts.
LEMMA BlankStep ==
    ASSUME NothingAssertedByID, TypeInv, BlankInv, [Next]_vars
    PROVE  BlankInv'
<1>1. TypeInv' /\ CallKnown'
  BY TypeStep, CallStep DEF BlankInv
<1>2. ChosenBelow' /\ (Reopen \/ nextEID' >= nextEID)
  BY ChosenStep
<1>3. /\ nextEID \in Nat /\ nextEID' \in Nat /\ eid \in Nat
      /\ disk \in TablesType /\ work \in TablesType /\ tempids \in [TempIDs -> Nat]
      /\ disk' \in TablesType /\ work' \in TablesType /\ tempids' \in [TempIDs -> Nat]
  BY <1>1 DEF TypeInv, TypeOK
<1>n. \A db \in TablesType : \A r \in db.current : r.e \in Nat
  BY DEF TablesType
<1>4. NewEntitiesBlank'
  <2>1. ASSUME NEW c \in Clients, Apply(c) PROVE NewEntitiesBlank'
    <3>1. disk' = disk /\ NoOtherRow(c) /\ pc[c] = "apply" /\ nextEID' = nextEID
      BY <2>1, ApplyKeeps, ApplyEffect DEF At, IdentityTaken, Fail, Adds, NextDatom
    <3>2. TargetBelow(c)
      BY <3>1 DEF BlankInv
    <3> QED
      BY <3>1, <3>2 DEF BlankInv, NewEntitiesBlank, NoOtherRow, TargetBelow
  <2>2. CASE Reopen
    <3>1. nextEID' \in loadEID(disk') /\ work' = disk'
      BY <2>2 DEF Reopen
    <3> QED
      BY <1>3, <3>1, LoadEIDAbove DEF NewEntitiesBlank
  <2>3. CASE Moved(disk') /\ Moved(work') /\ nextEID' >= nextEID
    <3> SUFFICES ASSUME NEW db \in {disk', work'}, NEW r \in db.current
                 PROVE  r.e < nextEID'
      BY DEF NewEntitiesBlank
    <3>1. r \in disk.current \/ r \in work.current
      BY <2>3 DEF Moved
    <3>2. r.e < nextEID /\ r.e \in Nat
      BY <1>3, <1>n, <3>1 DEF BlankInv, NewEntitiesBlank
    <3> QED
      BY <1>3, <2>3, <3>2
  <2> QED
    BY <1>2, <2>1, <2>2, <2>3, CurrentMoves
<1>5. ASSUME NEW d \in Clients, pc'[d] = "apply" PROVE TargetBelow(d)'
  <2>1. CASE /\ UNCHANGED <<disk, work, writer, nextEID, closure>>
             /\ \A x \in Clients : writer = x =>
                   pc'[x] = pc[x] /\ call'[x] = call[x] /\ txID'[x] = txID[x]
    <3>1. writer' = d
      BY <1>1, <1>5 DEF TypeInv, TypeOK
    <3>2. /\ pc[d] = "apply" /\ eid' = eid /\ pos' = pos /\ call'[d] = call[d]
          /\ nextEID' = nextEID
      BY <1>5, <2>1, <3>1 DEF closure
    <3> QED
      BY <3>2 DEF BlankInv, TargetBelow, Datom
  <2>2. CASE writer' = NoClient
    BY <1>1, <1>5, <2>2, ClientsAssumption DEF TypeInv, TypeOK
  <2>3. ASSUME NEW c \in Clients, BeginImmediate(c) \/ Resolve(c) \/ Apply(c)
        PROVE  FALSE
    BY <1>1, <1>5, <2>3, NotToApply
  <2>4. ASSUME NEW c \in Clients, Entity(c) PROVE TargetBelow(d)'
    <3>1. pc[c] = "entity" /\ writer' = writer /\ call' = call /\ pos' = pos
      BY <2>4, EntityEffect
    <3>2. c = d /\ Datom(d)' = Datom(c)
      BY <1>1, <1>5, <3>1 DEF TypeInv, TypeOK, Datom
    <3>3. CASE EntityTemp(c)
      <4>1. /\ Located(c)' /\ Datom(c)' = Datom(c) /\ Datom(c).e.kind = "temp"
            /\ Datom(c).e.temp \in TempIDs
        BY <1>5, <2>4, <3>1, <3>2, <3>3, EntityEffect, DatomTyped, RefTyped
           DEF EntityTemp, TypeInv, TypeOK
      <4>2. eid' = tempids'[Datom(c).e.temp]
        BY <4>1 DEF Located
      <4> QED
        BY <1>2, <3>2, <4>1, <4>2 DEF ChosenBelow, TargetBelow
    <3>4. CASE EntityID(c)
      <4>1. pos \in 1..Len(call[c].batch) /\ Datom(c).e.kind = "id"
        BY <3>4 DEF EntityID, At, TypeInv, TypeOK
      <4>2. call[c].batch \in Batches
        BY <4>1, EmptySeq DEF BlankInv, CallKnown
      <4> QED
        BY <3>2, <4>1, <4>2 DEF NothingAssertedByID, Datom, TargetBelow
    <3>5. CASE EntityLookup(c)
      <4>1. nextEID' = nextEID /\ eid' \in RefTargets(Datom(c).e)
        BY <3>5 DEF EntityLookup, ToApply
      <4>2. eid' < nextEID
        BY <4>1 DEF RefTargets, LookupAV, BlankInv, NewEntitiesBlank
      <4> QED
        BY <4>1, <4>2 DEF TargetBelow
    <3>6. CASE EntityFails(c) \/ BatchDone(c)
      BY <1>5, <3>2, <3>6 DEF EntityFails, BatchDone, Fail, TypeInv, TypeOK
    <3> QED
      BY <2>4, <3>3, <3>4, <3>5, <3>6 DEF Entity
  <2> QED
    BY <2>1, <2>2, <2>3, <2>4, StepKinds
<1> QED
  BY <1>1, <1>2, <1>4, <1>5 DEF BlankInv

\* As long as callers assert nothing by explicit ID, the next entity ID to be
\* handed out names an entity without facts: through failures, upserts that
\* meet, concurrent calls and restarts, in one file or in two.
THEOREM NewAlwaysBlank ==
    ASSUME NothingAssertedByID
    PROVE  Spec => []NewEntitiesBlank
<1>1. Init => BlankInv
  <2> SUFFICES ASSUME Init PROVE BlankInv
    OBVIOUS
  <2>1. nextEID \in Nat \ {0}
    BY TypeInit DEF TypeInv, TypeOK
  <2> QED
    BY <2>1 DEF Init, BlankInv, CallKnown, NoCall, NewEntitiesBlank, ChosenBelow,
                EmptyTables
<1>2. TypeInv /\ BlankInv /\ [Next]_vars => TypeInv' /\ BlankInv'
  BY TypeStep, BlankStep
<1>3. BlankInv => NewEntitiesBlank
  BY DEF BlankInv
<1> QED
  BY <1>1, <1>2, <1>3, TypeInit, PTL DEF Spec

-----------------------------------------------------------------------------
(***************************************************************************)
(* The record of transactions. A row is put into current_datoms after the  *)
(* writer's ID is on record (WriteInv), and the two tables are in one file *)
(* and survive a crash together (Moved).                                   *)
(***************************************************************************)
LEMMA RecordedStep ==
    ASSUME LogInv, CurrentIsRecorded, [Next]_vars
    PROVE  CurrentIsRecorded'
<1>1. TypeInv
  BY DEF LogInv, SafeInv
<1>2. ASSUME NEW c \in Clients, Apply(c) PROVE CurrentIsRecorded'
  <2>1. /\ disk' = disk /\ writer = c /\ TxIDs(work') = TxIDs(work)
        /\ NoOtherRow(c) /\ pc[c] = "apply"
    BY <1>1, <1>2, ApplyKeeps, ApplyEffect DEF At
  <2>2. txID[c] \in TxIDs(work)
    BY <2>1 DEF LogInv, WriteInv
  <2> QED
    BY <2>1, <2>2 DEF NoOtherRow, CurrentIsRecorded
<1>3. CASE Moved(disk') /\ Moved(work')
  BY <1>3 DEF Moved, CurrentIsRecorded
<1> QED
  BY <1>1, <1>2, <1>3, CurrentMoves

\* Every fact current_datoms shows carries the ID of a recorded transaction, in
\* one file or in two, whatever fails and whichever file survives a crash in
\* COMMIT: so loadState never hands the ID of a current fact out again.
THEOREM CurrentAlwaysRecorded == Spec => []CurrentIsRecorded
<1>1. Init => CurrentIsRecorded
  BY DEF Init, EmptyTables, CurrentIsRecorded
<1> QED
  BY <1>1, RecordedStep, LogInductive, PTL DEF Spec
=============================================================================
