------------------------------- MODULE Tables -------------------------------
(***************************************************************************)
(* The SQLite tables of a litelog database and the SQL statements that     *)
(* transact.go and pool.go run on them, as operators on a value `db`:      *)
(*                                                                         *)
(*   db.transactions  set of [id, time]              (table transactions)  *)
(*   db.datoms        sequence of log rows, in rowid order (table datoms,  *)
(*                    or history.datoms when the database is partitioned)  *)
(*   db.current       set of [e, a, v, tx, vf]       (current_datoms)      *)
(*                                                                         *)
(* A value v stands for its encoding (values.go); the columns v_type,      *)
(* v_int, v_text and v_float are functions of v and are left out, and      *)
(* valid_to is always NULL.                                                *)
(***************************************************************************)
EXTENDS Naturals, Sequences

EmptyTables == [transactions |-> {}, datoms |-> <<>>, current |-> {}]

\* A row of datoms: exactly the columns of UNIQUE(e, a, v, tx, added, valid_from).
LogRow(e, a, v, tx, added, vf) ==
    [e |-> e, a |-> a, v |-> v, tx |-> tx, added |-> added, vf |-> vf]

CurrentRow(e, a, v, tx, vf) ==
    [e |-> e, a |-> a, v |-> v, tx |-> tx, vf |-> vf]

EAV(row) == <<row.e, row.a, row.v>>

\* The UNIQUE constraint of datoms would reject this row.
Logged(db, row) == \E i \in 1..Len(db.datoms) : db.datoms[i] = row

\* Mutant: the transaction record is not written.
MutInsertTxNothing(db, id, time) == db

\* Of an id that is not in TxIDs(db): the PRIMARY KEY of transactions rejects
\* the others, which is a case of RecordTx in Transactor.
InsertTx(db, id, time) ==
    [db EXCEPT !.transactions = @ \cup {[id |-> id, time |-> time]}]

\* Mutant: a new row replaces the last one of the log.
MutInsertDatomOverwrites(db, row) ==
    [db EXCEPT !.datoms =
        IF @ = <<>> THEN <<row>> ELSE [@ EXCEPT ![Len(@)] = row]]

InsertDatom(db, row) == [db EXCEPT !.datoms = Append(@, row)]

\* INSERT OR REPLACE on the primary key (e, a, v).
UpsertCurrent(db, row) ==
    [db EXCEPT !.current = {r \in @ : EAV(r) # EAV(row)} \cup {row}]

\* Mutants: a superseded or a retracted row stays.
MutDeleteCurrentEANothing(db, e, a) == db
MutDeleteCurrentEAVNothing(db, e, a, v) == db

DeleteCurrentEA(db, e, a) ==
    [db EXCEPT !.current = {r \in @ : ~(r.e = e /\ r.a = a)}]

DeleteCurrentEAV(db, e, a, v) ==
    [db EXCEPT !.current = {r \in @ : EAV(r) # <<e, a, v>>}]

ReadCurrent(db, e, a) == {r \in db.current : r.e = e /\ r.a = a}

\* Mutant: no holder of an identity value is found.
MutLookupAVMisses(db, a, v, exclude) == {}

\* The entities SELECT e ... WHERE a = $a AND v = $v AND e != $exclude LIMIT 1
\* may return.
LookupAV(db, a, v, exclude) ==
    {r.e : r \in {x \in db.current : x.a = a /\ x.v = v /\ x.e # exclude}}

TxIDs(db) == {t.id : t \in db.transactions}

Entities(db) == {r.e : r \in db.current}

\* SELECT MAX over a set of numbers: a singleton, unless S is empty.
Maxima(S) == {m \in S : \A x \in S : x <= m}

(***************************************************************************)
(* What the tables mean.                                                   *)
(***************************************************************************)
\* The last row the log holds for (e, a, v), if any, is an assertion.
IsLive(log, e, a, v) ==
    \E i \in 1..Len(log) :
        /\ EAV(log[i]) = <<e, a, v>>
        /\ log[i].added
        /\ \A j \in 1..Len(log) : j > i => EAV(log[j]) # <<e, a, v>>

\* The facts a replay of the log yields, and the facts current_datoms shows.
Live(log) ==
    {f \in {EAV(log[i]) : i \in 1..Len(log)} : IsLive(log, f[1], f[2], f[3])}

Facts(db) == {EAV(r) : r \in db.current}
=============================================================================
