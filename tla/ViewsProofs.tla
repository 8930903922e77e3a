---------------------------- MODULE ViewsProofs ----------------------------
(***************************************************************************)
(* Proofs about the temporal views, over what TransactorProofs shows of    *)
(* the log.                                                                *)
(***************************************************************************)
EXTENDS Views, TransactorProofs

\* A step of Views is one of Transactor.
LEMMA ViewStep == [ViewNext]_viewVars => [Next]_vars
BY DEF ViewNext, viewVars

LEMMA ViewLog == ViewSpec => []LogInv
<1>1. ViewInit => LogInv
  BY LogInit DEF ViewInit
<1> QED
  BY <1>1, LogStep, ViewStep, PTL DEF ViewSpec

\* In a database of one file, whoever reads current_datoms finds each of its
\* facts in the valid-time view of the time the fact is valid from: transact
\* writes the same valid_from to both tables and retracts from both.
THEOREM ValidTimeAlwaysCovers ==
    ASSUME ~Partitioned
    PROVE  ViewSpec => []ValidTimeCoversCurrent
<1>1. LogInv => ValidTimeCoversCurrent
  <2> SUFFICES ASSUME LogInv, NEW r \in disk.current
               PROVE  EAV(r) \in asOfValidTime(disk.datoms, r.vf)
    BY DEF ValidTimeCoversCurrent
  <2> DEFINE row == LogRow(r.e, r.a, r.v, r.tx, TRUE, r.vf)
  <2>1. r.vf \in Nat
    BY DEF LogInv, SafeInv, TypeInv, TypeOK, TablesType
  <2>2. Logged(disk, row)
    BY DEF LogInv, FileInv, Mirrors, CurrentLogged
  <2>3. row \in RowsOf(disk.datoms)
    BY <2>2 DEF Logged, RowsOf
  <2>4. row.added /\ row.vf = r.vf /\ EAV(row) = EAV(r)
    BY DEF LogRow, EAV
  <2> HIDE DEF row
  <2> QED
    BY <2>1, <2>3, <2>4 DEF asOfValidTime
<1> QED
  BY <1>1, ViewLog, PTL

-----------------------------------------------------------------------------
(***************************************************************************)
(* Callers one at a time. Transactions then commit in the order of their   *)
(* IDs, on which the views of transaction time rest.                       *)
(***************************************************************************)
OneCaller == \A c, d \in Clients : c = d

Serial ==
    /\ \A c \in Clients : pc[c] # "idle" => \A t \in TxIDs(disk) : t < txID[c]
    /\ ~Partitioned => LogInTxOrder
    /\ DOMAIN snap = TxIDs(disk)

AsOfInv ==
    ~Partitioned => QueryAsOfSound /\ PullAsOfComplete /\ PullAsOfExact

\* Whatever a restart finds, its log is the committed one or the writer's.
LEMMA LogMoves ==
    ASSUME LogInv, [Next]_vars
    PROVE  \/ disk' = disk
           \/ \E c \in Clients : /\ writer = c /\ pc[c] = "end"
                                 /\ disk'.datoms \in {disk.datoms, work.datoms}
                                 /\ TxIDs(disk') \in {TxIDs(disk), TxIDs(work)}
                                 /\ ~Partitioned => disk' \in {disk, work}
<1>1. disk \in TablesType /\ work \in TablesType
  BY DEF LogInv, SafeInv, TypeInv, TypeOK
<1>2. disk' \in Survivors => /\ disk'.datoms \in {disk.datoms, work.datoms}
                             /\ TxIDs(disk') \in {TxIDs(disk), TxIDs(work)}
                             /\ ~Partitioned => disk' \in {disk, work}
  BY <1>1 DEF Survivors, TxIDs, TablesType
<1> QED
  BY <1>2, DiskMoves DEF LogInv, SafeInv

\* The writer's ID is above the committed ones, and the writer alone adds IDs.
LEMMA WriterAbove ==
    ASSUME LogInv, Serial, NEW c \in Clients, writer = c
    PROVE  /\ \A t \in TxIDs(disk) : t < txID[c]
           /\ Continues(disk, work, txID[c])
           /\ TxIDs(disk) \subseteq TxIDs(work)
           /\ TxIDs(work) \subseteq TxIDs(disk) \cup {txID[c]}
           /\ txID[c] \in Nat /\ TxIDs(disk) \subseteq Nat
<1>1. pc[c] # "idle" /\ txID[c] \in Nat /\ disk \in TablesType
  BY DEF LogInv, SafeInv, TypeInv, TypeOK
<1>2. TxIDs(disk) \subseteq Nat
  <2>1. disk.transactions \subseteq [id : Nat, time : Nat]
    BY <1>1 DEF TablesType
  <2> QED
    BY <2>1 DEF TxIDs
<1> QED
  BY <1>1, <1>2 DEF Serial, LogInv, WriteInv, IDInv

\* The log stays in the order of transaction IDs when the writer's is above them.
LEMMA OrderKept ==
    ASSUME ~Partitioned, LogInv, Serial, NEW c \in Clients, writer = c, disk' = work
    PROVE  LogInTxOrder'
<1>1. /\ \A t \in TxIDs(disk) : t < txID[c]
      /\ Continues(disk, work, txID[c])
      /\ txID[c] \in Nat /\ TxIDs(disk) \subseteq Nat
  BY WriterAbove
<1>2. /\ Len(disk.datoms) \in Nat /\ Len(work.datoms) \in Nat
  BY LenProperties DEF LogInv, SafeInv, TypeInv, TypeOK, TablesType
<1>3. \A i \in 1..Len(disk.datoms) :
          /\ work.datoms[i] = disk.datoms[i]
          /\ work.datoms[i].tx \in Nat /\ work.datoms[i].tx < txID[c]
  BY <1>1 DEF Continues, LogInv, FileInv, LoggedIsRecorded
<1>4. \A i \in 1..Len(work.datoms) :
          i \in 1..Len(disk.datoms) \/ work.datoms[i].tx = txID[c]
  BY <1>1, <1>2 DEF Continues, Appended
<1> SUFFICES ASSUME NEW i \in 1..Len(work.datoms), NEW j \in 1..Len(work.datoms), i < j
             PROVE  work.datoms[i].tx <= work.datoms[j].tx
  BY DEF LogInTxOrder
<1>5. CASE j \in 1..Len(disk.datoms)
  <2>1. i \in 1..Len(disk.datoms)
    BY <1>2, <1>5
  <2> QED
    BY <1>3, <1>5, <2>1 DEF Serial, LogInTxOrder
<1>6. CASE j \notin 1..Len(disk.datoms)
  <2>1. work.datoms[j].tx = txID[c]
    BY <1>4, <1>6
  <2> QED
    BY <1>1, <1>3, <1>4, <2>1
<1> QED
  BY <1>5, <1>6

\* A single caller gets IDs above all recorded ones, and the snapshots are those
\* of the recorded transactions.
LEMMA SerialStep ==
    ASSUME OneCaller, LogInv, Serial, [ViewNext]_viewVars
    PROVE  Serial'
<1>1. [Next]_vars
  BY ViewStep
<1>2. TypeInv /\ TypeInv'
  BY <1>1, TypeStep DEF LogInv, SafeInv
<1>3. DOMAIN snap' = TxIDs(disk')
  <2>1. CASE UNCHANGED viewVars
    BY <2>1 DEF viewVars, vars, Serial
  <2>2. CASE ViewNext
    BY <2>2 DEF ViewNext
  <2> QED
    BY <2>1, <2>2
<1>4. ~Partitioned => LogInTxOrder'
  <2>1. disk' = disk => LogInTxOrder' = LogInTxOrder
    BY DEF LogInTxOrder
  <2> QED
    BY <1>1, <2>1, LogMoves, OrderKept DEF Serial
<1>5. ASSUME NEW d \in Clients, pc'[d] # "idle", NEW t \in TxIDs(disk')
      PROVE  t < txID'[d]
  <2>1. pc \in [Clients -> {"idle", "take", "begin", "resolve", "entity", "apply",
                            "end"}] /\ txID \in [Clients -> Nat]
    BY <1>2 DEF TypeInv, TypeOK
  <2>2. CASE Transact(d)
    <3>1. disk' = disk /\ txID'[d] = nextTx
      BY <2>1, <2>2 DEF Transact
    <3> QED
      BY <1>5, <3>1 DEF LogInv, IDInv
  <2>3. CASE disk' = disk /\ txID' = txID /\ pc[d] # "idle"
    BY <1>5, <2>3 DEF Serial
  <2>4. \/ Transact(d)
        \/ disk' = disk /\ txID' = txID /\ pc[d] # "idle"
        \/ pc'[d] = "idle"
    <3>1. ASSUME NEW c \in Clients,
                 \/ TakeConn(c) \/ TakeFails(c) \/ BeginFails(c) \/ BeginImmediate(c)
                 \/ Commit(c) \/ CommitFails(c) \/ Interrupted(c)
          PROVE  \/ disk' = disk /\ txID' = txID /\ pc[c] # "idle"
                 \/ pc'[c] = "idle"
      BY <2>1, <3>1 DEF TakeConn, TakeFails, BeginFails, BeginImmediate, Commit,
                        CommitFails, Interrupted, EndTransaction, Return
    <3>2. ASSUME NEW c \in Clients, Resolve(c) \/ Entity(c)
          PROVE  disk' = disk /\ txID' = txID /\ pc[c] # "idle"
      BY <3>2
         DEF Resolve, ResolveSkip, ResolveUpsert, ResolveConflict, EncodeFails,
             RecordTx, Entity, EntityTemp, EntityID, EntityLookup, EntityFails,
             BatchDone, ToApply, Fail, At, clients
    <3>3. ASSUME NEW c \in Clients, Apply(c)
          PROVE  disk' = disk /\ txID' = txID /\ pc[c] # "idle"
      BY <1>2, <3>3, ApplyKeeps
         DEF Apply, SkipDuplicate, RetractDatom, IdentityTaken, AssertDatom,
             Supersede, MayAssert, Applies, At
    <3>4. Reopen => pc'[d] = "idle"
      BY DEF Reopen
    <3>5. UNCHANGED vars => UNCHANGED <<disk, txID, pc>>
      BY DEF vars, clients
    <3> QED
      BY <1>1, <1>5, <3>1, <3>2, <3>3, <3>4, <3>5 DEF Next, Step, OneCaller
  <2> QED
    BY <1>5, <2>2, <2>3, <2>4
<1> QED
  BY <1>3, <1>4, <1>5 DEF Serial

-----------------------------------------------------------------------------
\* Rows of later transactions do not change a view of transaction t.
LEMMA AsOfFrozen ==
    ASSUME NEW old \in TablesType, NEW db \in TablesType, NEW tx \in Nat,
           Continues(old, db, tx), NEW t \in Nat, t < tx
    PROVE  /\ queryAsOf(db.datoms, t) = queryAsOf(old.datoms, t)
           /\ pullAsOf(db.datoms, t) = pullAsOf(old.datoms, t)
<1>1. Len(old.datoms) \in Nat /\ Len(db.datoms) \in Nat
  BY LenProperties DEF TablesType
<1>2. \A r : r.tx <= t => (r \in RowsOf(db.datoms) <=> r \in RowsOf(old.datoms))
  <2> SUFFICES ASSUME NEW r, r.tx <= t
               PROVE  r \in RowsOf(db.datoms) <=> r \in RowsOf(old.datoms)
    OBVIOUS
  <2>1. ASSUME NEW i \in 1..Len(db.datoms), r = db.datoms[i]
        PROVE  r \in RowsOf(old.datoms)
    <3>1. i \notin Appended(old, db)
      BY <2>1 DEF Continues
    <3>2. i \in 1..Len(old.datoms)
      BY <1>1, <3>1 DEF Appended
    <3> QED
      BY <2>1, <3>2 DEF Continues, RowsOf
  <2>2. ASSUME NEW i \in 1..Len(old.datoms), r = old.datoms[i]
        PROVE  r \in RowsOf(db.datoms)
    <3>1. i \in 1..Len(db.datoms) /\ r = db.datoms[i]
      BY <1>1, <2>2 DEF Continues
    <3> QED
      BY <3>1 DEF RowsOf
  <2> QED
    BY <2>1, <2>2 DEF RowsOf
<1>3. queryAsOf(db.datoms, t) = queryAsOf(old.datoms, t)
  BY <1>2 DEF queryAsOf
<1>4. pullAsOf(db.datoms, t) = pullAsOf(old.datoms, t)
  BY <1>2 DEF pullAsOf
<1> QED
  BY <1>3, <1>4

\* The views of the transaction that has just committed, against current_datoms.
LEMMA AsOfNow ==
    ASSUME NEW db \in TablesType, Mirrors(db), LiveIn(db), NEW t \in Nat,
           \A i \in 1..Len(db.datoms) : db.datoms[i].tx <= t,
           \A i, j \in 1..Len(db.datoms) :
               i < j => db.datoms[i].tx <= db.datoms[j].tx
    PROVE  /\ queryAsOf(db.datoms, t) \subseteq Facts(db)
           /\ Facts(db) \subseteq pullAsOf(db.datoms, t)
           /\ Once(db.datoms) => pullAsOf(db.datoms, t) \subseteq Facts(db)
<1> DEFINE log == db.datoms
<1>1. Len(log) \in Nat /\ \A i \in 1..Len(log) : log[i] \in Rows /\ log[i].tx \in Nat
  <2>1. log \in Seq(Rows)
    BY DEF TablesType
  <2>2. Len(log) \in Nat /\ \A i \in 1..Len(log) : log[i] \in Rows
    BY <2>1, LenProperties, ElementOfSeq
  <2> QED
    BY <2>2 DEF Rows
<1>2. queryAsOf(log, t) \subseteq Facts(db)
  <2> SUFFICES ASSUME NEW f \in queryAsOf(log, t) PROVE f \in Facts(db)
    OBVIOUS
  <2>1. PICK i \in 1..Len(log) :
            /\ f = EAV(log[i]) /\ log[i].added
            /\ \A j \in 1..Len(log) : EAV(log[j]) = EAV(log[i]) => log[j].added
    BY DEF queryAsOf, RowsOf
  <2>2. Stands(log, i)
    BY <2>1 DEF Stands
  <2> QED
    BY <2>1, <2>2 DEF Mirrors, Standing
<1>3. Facts(db) \subseteq pullAsOf(log, t)
  <2> SUFFICES ASSUME NEW r \in db.current PROVE EAV(r) \in pullAsOf(log, t)
    BY DEF Facts
  <2>1. PICK i \in 1..Len(log) :
            /\ EAV(log[i]) = EAV(r) /\ log[i].added
            /\ \A j \in 1..Len(log) : j > i => EAV(log[j]) # EAV(r)
    BY DEF LiveIn, IsLive, EAV
  <2>2. ASSUME NEW j \in 1..Len(log), EAV(log[j]) = EAV(r), ~log[j].added
        PROVE  ~(log[j].tx > log[i].tx)
    <3>1. j < i
      BY <2>1, <2>2
    <3> QED
      BY <1>1, <3>1
  <2>3. ~\E x \in RowsOf(log) : /\ EAV(x) = EAV(log[i]) /\ ~x.added
                                /\ x.tx > log[i].tx /\ x.tx <= t
    BY <2>1, <2>2 DEF RowsOf
  <2>4. log[i] \in RowsOf(log) /\ log[i].tx <= t
    BY DEF RowsOf
  <2> QED
    BY <2>1, <2>3, <2>4 DEF pullAsOf
<1>4. ASSUME Once(log), NEW f \in pullAsOf(log, t) PROVE f \in Facts(db)
  <2>1. PICK i \in 1..Len(log) :
            /\ f = EAV(log[i]) /\ log[i].added
            /\ ~\E x \in RowsOf(log) : /\ EAV(x) = EAV(log[i]) /\ ~x.added
                                       /\ x.tx > log[i].tx /\ x.tx <= t
    BY <1>4 DEF pullAsOf, RowsOf
  <2>2. ASSUME NEW j \in 1..Len(log), j > i, EAV(log[j]) = EAV(log[i])
        PROVE  log[j].added
    <3>1. log[i].tx <= log[j].tx /\ log[j].tx # log[i].tx
      BY <1>4, <2>2 DEF Once
    <3>2. log[j].tx > log[i].tx /\ log[j].tx <= t /\ log[j] \in RowsOf(log)
      BY <1>1, <3>1 DEF RowsOf
    <3> QED
      BY <2>1, <2>2, <3>2
  <2>3. Stands(log, i)
    BY <1>4, <2>1, <2>2 DEF Stands
  <2> QED
    BY <2>1, <2>3 DEF Mirrors, Standing
<1> QED
  BY <1>2, <1>3, <1>4

\* A commit keeps the old views and starts the new one right.
LEMMA AsOfStep ==
    ASSUME LogInv, Serial, AsOfInv, LogInv', Serial', [ViewNext]_viewVars
    PROVE  AsOfInv'
<1>1. CASE UNCHANGED viewVars
  BY <1>1 DEF viewVars, vars, AsOfInv, QueryAsOfSound, PullAsOfComplete,
              PullAsOfExact, TouchedOnce
<1> SUFFICES ASSUME ViewNext PROVE AsOfInv'
  BY <1>1
<1>2. /\ disk \in TablesType /\ work \in TablesType /\ disk' \in TablesType
      /\ TxIDs(disk') \subseteq Nat
  <2>1. disk \in TablesType /\ work \in TablesType /\ disk' \in TablesType
    BY DEF LogInv, SafeInv, TypeInv, TypeOK
  <2>2. disk'.transactions \subseteq [id : Nat, time : Nat]
    BY <2>1 DEF TablesType
  <2> QED
    BY <2>1, <2>2 DEF TxIDs
<1>3. /\ DOMAIN snap = TxIDs(disk) /\ DOMAIN snap' = TxIDs(disk')
      /\ \A t \in TxIDs(disk') :
            snap'[t] = IF t \in TxIDs(disk) THEN snap[t] ELSE Facts(disk')
  BY DEF Serial, ViewNext
<1>4. ASSUME NEW t \in TxIDs(disk), t \in TxIDs(disk')
      PROVE  /\ queryAsOf(disk'.datoms, t) = queryAsOf(disk.datoms, t)
             /\ pullAsOf(disk'.datoms, t) = pullAsOf(disk.datoms, t)
             /\ TouchedOnce' => TouchedOnce
  <2>1. CASE disk'.datoms = disk.datoms
    BY <2>1 DEF TouchedOnce
  <2>2. CASE \E c \in Clients : writer = c /\ disk'.datoms = work.datoms
    <3>1. PICK c \in Clients : writer = c /\ disk'.datoms = work.datoms
      BY <2>2
    <3>2. Continues(disk, work, txID[c]) /\ txID[c] \in Nat /\ t < txID[c]
      BY <3>1, WriterAbove
    <3>3. /\ queryAsOf(work.datoms, t) = queryAsOf(disk.datoms, t)
          /\ pullAsOf(work.datoms, t) = pullAsOf(disk.datoms, t)
      BY <1>2, <1>4, <3>2, AsOfFrozen
    <3>4. Len(disk.datoms) \in Nat /\ Len(work.datoms) \in Nat
      BY <1>2, LenProperties DEF TablesType
    <3>5. TouchedOnce' => TouchedOnce
      BY <3>1, <3>2, <3>4 DEF Continues, TouchedOnce
    <3> QED
      BY <3>1, <3>3, <3>5
  <2> QED
    BY <2>1, <2>2, LogMoves, ViewStep
<1>5. ASSUME NEW t \in TxIDs(disk'), t \notin TxIDs(disk), ~Partitioned
      PROVE  /\ queryAsOf(disk'.datoms, t) \subseteq Facts(disk')
             /\ Facts(disk') \subseteq pullAsOf(disk'.datoms, t)
             /\ TouchedOnce' => pullAsOf(disk'.datoms, t) \subseteq Facts(disk')
  <2>1. PICK c \in Clients : writer = c /\ disk' \in {disk, work}
    BY <1>5, LogMoves, ViewStep
  <2>2. disk' = work /\ t = txID[c] /\ \A u \in TxIDs(disk') : u < t \/ u = t
    BY <1>5, <2>1, WriterAbove
  <2>3. \A i \in 1..Len(disk'.datoms) : disk'.datoms[i].tx <= t
    BY <1>2, <1>5, <2>2 DEF LogInv, FileInv, LoggedIsRecorded
  <2>4. Mirrors(disk') /\ LiveIn(disk')
    BY <1>5 DEF LogInv, FileInv, SafeInv, TablesInv
  <2>5. \A i, j \in 1..Len(disk'.datoms) :
            i < j => disk'.datoms[i].tx <= disk'.datoms[j].tx
    BY <1>5 DEF Serial, LogInTxOrder
  <2>6. TouchedOnce' => Once(disk'.datoms)
    BY DEF TouchedOnce, Once
  <2> QED
    BY <1>2, <2>3, <2>4, <2>5, <2>6, AsOfNow
<1>6. ASSUME ~Partitioned PROVE QueryAsOfSound' /\ PullAsOfComplete' /\ PullAsOfExact'
  <2> SUFFICES ASSUME NEW t \in TxIDs(disk')
               PROVE  /\ queryAsOf(disk'.datoms, t) \subseteq snap'[t]
                      /\ snap'[t] \subseteq pullAsOf(disk'.datoms, t)
                      /\ TouchedOnce' => pullAsOf(disk'.datoms, t) = snap'[t]
    BY <1>3 DEF QueryAsOfSound, PullAsOfComplete, PullAsOfExact
  <2>1. CASE t \in TxIDs(disk)
    <3>1. /\ queryAsOf(disk.datoms, t) \subseteq snap[t]
          /\ snap[t] \subseteq pullAsOf(disk.datoms, t)
          /\ TouchedOnce => pullAsOf(disk.datoms, t) = snap[t]
      BY <1>3, <1>6, <2>1
         DEF AsOfInv, QueryAsOfSound, PullAsOfComplete, PullAsOfExact
    <3> QED
      BY <1>3, <1>4, <2>1, <3>1
  <2>2. CASE t \notin TxIDs(disk)
    BY <1>3, <1>5, <1>6, <2>2
  <2> QED
    BY <2>1, <2>2
<1> QED
  BY <1>6 DEF AsOfInv

LEMMA AsOfInductive ==
    ASSUME OneCaller
    PROVE  ViewSpec => []AsOfInv
<1>1. ViewInit => Serial /\ AsOfInv
  BY DEF ViewInit, Init, EmptyTables, Serial, LogInTxOrder, TxIDs, AsOfInv,
         QueryAsOfSound, PullAsOfComplete, PullAsOfExact
<1>2. LogInv /\ LogInv' /\ Serial /\ AsOfInv /\ [ViewNext]_viewVars
          => Serial' /\ AsOfInv'
  BY SerialStep, AsOfStep
<1> QED
  BY <1>1, <1>2, ViewLog, PTL DEF ViewSpec

\* With callers one at a time, in a database of one file, a query of AsOf(t)
\* shows no fact that did not hold when t committed.
THEOREM QueryAsOfAlwaysSound ==
    ASSUME OneCaller, ~Partitioned
    PROVE  ViewSpec => []QueryAsOfSound
<1>1. AsOfInv => QueryAsOfSound
  BY DEF AsOfInv
<1> QED
  BY <1>1, AsOfInductive, PTL

\* Likewise a pull of AsOf(t) misses no fact that held when t committed.
THEOREM PullAsOfAlwaysComplete ==
    ASSUME OneCaller, ~Partitioned
    PROVE  ViewSpec => []PullAsOfComplete
<1>1. AsOfInv => PullAsOfComplete
  BY DEF AsOfInv
<1> QED
  BY <1>1, AsOfInductive, PTL

\* And as long as no transaction touches a fact twice it shows no other.
THEOREM PullAsOfAlwaysExact ==
    ASSUME OneCaller, ~Partitioned
    PROVE  ViewSpec => []PullAsOfExact
<1>1. AsOfInv => PullAsOfExact
  BY DEF AsOfInv
<1> QED
  BY <1>1, AsOfInductive, PTL

-----------------------------------------------------------------------------
(***************************************************************************)
(* Any number of callers. What is settled stays so: a new call gets an ID  *)
(* above the recorded ones, and only a writer, whose ID is above t, adds   *)
(* to the log.                                                             *)
(***************************************************************************)
LEMMA SettledStays ==
    ASSUME LogInv, [Next]_vars, NEW t \in TxIDs(disk), Settled(t)
    PROVE  Settled(t)'
<1>1. TypeInv /\ TypeInv'
  BY TypeStep DEF LogInv, SafeInv
<1>2. /\ pc \in [Clients -> {"idle", "take", "begin", "resolve", "entity", "apply",
                             "end"}]
      /\ txID \in [Clients -> Nat] /\ nextTx \in Nat /\ t < nextTx
  BY <1>1 DEF TypeInv, TypeOK, LogInv, IDInv
<1>3. ASSUME NEW c \in Clients, Transact(c) PROVE Settled(t)'
  BY <1>2, <1>3 DEF Transact, Settled
<1>4. ASSUME NEW c \in Clients,
             \/ TakeConn(c) \/ TakeFails(c) \/ BeginFails(c) \/ BeginImmediate(c)
             \/ Commit(c) \/ CommitFails(c) \/ Interrupted(c)
      PROVE  txID' = txID /\ \A d \in Clients : pc'[d] # "idle" => pc[d] # "idle"
  BY <1>2, <1>4 DEF TakeConn, TakeFails, BeginFails, BeginImmediate, Commit,
                    CommitFails, Interrupted, EndTransaction, Return
<1>5. ASSUME NEW c \in Clients, Resolve(c) \/ Entity(c) \/ Apply(c)
      PROVE  txID' = txID /\ \A d \in Clients : pc'[d] # "idle" => pc[d] # "idle"
  <2>1. CASE Resolve(c) \/ Entity(c)
    BY <1>2, <2>1
       DEF Resolve, ResolveSkip, ResolveUpsert, ResolveConflict, EncodeFails,
           RecordTx, Entity, EntityTemp, EntityID, EntityLookup, EntityFails,
           BatchDone, ToApply, Fail, At, clients
  <2>2. CASE Apply(c)
    <3>1. pc[c] = "apply"
      BY <1>1, <2>2, ApplyEffect DEF At
    <3> QED
      BY <1>1, <1>2, <2>2, <3>1, ApplyKeeps
  <2> QED
    BY <1>5, <2>1, <2>2
<1>6. CASE Reopen
  BY <1>6 DEF Reopen, Settled
<1>7. CASE UNCHANGED vars
  BY <1>7 DEF vars, clients, Settled
<1>8. ASSUME txID' = txID, \A d \in Clients : pc'[d] # "idle" => pc[d] # "idle"
      PROVE  Settled(t)'
  BY <1>8 DEF Settled
<1> QED
  BY <1>3, <1>4, <1>5, <1>6, <1>7, <1>8 DEF Next, Step

LEMMA SettledFrozen ==
    ASSUME LogInv, [Next]_vars, NEW t \in TxIDs(disk), Settled(t)
    PROVE  /\ queryAsOf(disk'.datoms, t) = queryAsOf(disk.datoms, t)
           /\ pullAsOf(disk'.datoms, t) = pullAsOf(disk.datoms, t)
<1>1. CASE disk'.datoms = disk.datoms
  BY <1>1
<1>2. ASSUME NEW c \in Clients, writer = c, pc[c] = "end", disk'.datoms = work.datoms
      PROVE  /\ queryAsOf(disk'.datoms, t) = queryAsOf(disk.datoms, t)
             /\ pullAsOf(disk'.datoms, t) = pullAsOf(disk.datoms, t)
  <2>1. disk \in TablesType /\ work \in TablesType /\ txID[c] \in Nat
    BY DEF LogInv, SafeInv, TypeInv, TypeOK
  <2>2. disk.transactions \subseteq [id : Nat, time : Nat]
    BY <2>1 DEF TablesType
  <2>3. t \in Nat /\ t < txID[c]
    BY <1>2, <2>1, <2>2 DEF Settled, TxIDs
  <2>4. Continues(disk, work, txID[c])
    BY <1>2 DEF LogInv, WriteInv
  <2> QED
    BY <1>2, <2>1, <2>3, <2>4, AsOfFrozen
<1> QED
  BY <1>1, <1>2, LogMoves

\* The past never changes once it is settled, however many callers there are, in
\* one file or in two: what queries and pulls of AsOf(t) show they show after
\* any later transaction, failure and restart.
THEOREM PastNeverChanges == ViewSpec => PastIsImmutable
<1>1. ASSUME LogInv, [ViewNext]_viewVars
      PROVE  [\A t \in TxIDs(disk) : Settled(t) =>
                /\ Settled(t)'
                /\ queryAsOf(disk.datoms, t)' = queryAsOf(disk.datoms, t)
                /\ pullAsOf(disk.datoms, t)' = pullAsOf(disk.datoms, t)]_viewVars
  BY <1>1, ViewStep, SettledStays, SettledFrozen
<1> QED
  BY <1>1, ViewLog, PTL DEF ViewSpec, PastIsImmutable
=============================================================================
