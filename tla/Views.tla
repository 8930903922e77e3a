------------------------------- MODULE Views -------------------------------
(***************************************************************************)
(* What readers of temporal views see: DBView of query_api.go and pull.go  *)
(* over the log that Transactor writes. The views are functions of the     *)
(* committed log; `snap` is a history variable that keeps, for every       *)
(* recorded transaction, what current_datoms showed when it committed.     *)
(***************************************************************************)
EXTENDS Transactor

VARIABLE snap

viewVars == <<vars, snap>>

RowsOf(log) == {log[i] : i \in 1..Len(log)}

\* Mutant: the retraction test of queryAsOf is forgotten.
MutQueryAsOfNoRetractions(log, t) ==
    {EAV(d) : d \in {x \in RowsOf(log) : x.added /\ x.tx <= t}}

\* applyAsOf: the facts a query of AsOf(t) joins over. The retraction that hides
\* an assertion may be older than it.
queryAsOf(log, t) ==
    {EAV(d) : d \in {x \in RowsOf(log) :
        /\ x.added
        /\ x.tx <= t
        /\ ~\E r \in RowsOf(log) : /\ EAV(r) = EAV(x)
                                   /\ ~r.added
                                   /\ r.tx <= t}}

\* Mutants: the view's own transaction is left out; later retractions count.
MutPullAsOfStrict(log, t) ==
    {EAV(d) : d \in {x \in RowsOf(log) :
        /\ x.added
        /\ x.tx < t
        /\ ~\E r \in RowsOf(log) : /\ EAV(r) = EAV(x)
                                   /\ ~r.added
                                   /\ r.tx > x.tx
                                   /\ r.tx < t}}

MutPullAsOfLaterRetractions(log, t) ==
    {EAV(d) : d \in {x \in RowsOf(log) :
        /\ x.added
        /\ x.tx <= t
        /\ ~\E r \in RowsOf(log) : /\ EAV(r) = EAV(x)
                                   /\ ~r.added
                                   /\ r.tx > x.tx}}

\* temporalParams: the facts a pull of AsOf(t) reads. A retraction in the same
\* transaction does not hide an assertion.
pullAsOf(log, t) ==
    {EAV(d) : d \in {x \in RowsOf(log) :
        /\ x.added
        /\ x.tx <= t
        /\ ~\E r \in RowsOf(log) : /\ EAV(r) = EAV(x)
                                   /\ ~r.added
                                   /\ r.tx > x.tx
                                   /\ r.tx <= t}}

\* AsOfValidTime, for queries and pulls alike: valid_to is always NULL.
asOfValidTime(log, time) ==
    {EAV(d) : d \in {x \in RowsOf(log) : x.added /\ x.vf <= time}}

ViewInit == Init /\ snap = [t \in {} |-> {}]

ViewNext ==
    /\ Next
    /\ snap' = [t \in TxIDs(disk') |->
                   IF t \in DOMAIN snap THEN snap[t] ELSE Facts(disk')]

ViewSpec == ViewInit /\ [][ViewNext]_viewVars

-----------------------------------------------------------------------------
\* A query of AsOf(t) shows only facts that held when transaction t committed
\* (callers one at a time).
QueryAsOfSound ==
    \A t \in DOMAIN snap : queryAsOf(disk.datoms, t) \subseteq snap[t]

\* A pull of AsOf(t) misses no fact that held when transaction t committed
\* (callers one at a time).
PullAsOfComplete ==
    \A t \in DOMAIN snap : snap[t] \subseteq pullAsOf(disk.datoms, t)

\* No transaction in the log touches a fact twice.
TouchedOnce ==
    \A i, j \in 1..Len(disk.datoms) :
        /\ EAV(disk.datoms[i]) = EAV(disk.datoms[j])
        /\ disk.datoms[i].tx = disk.datoms[j].tx
        => i = j

\* As long as that is so, a pull of AsOf(t) shows exactly the facts that held
\* when t committed (callers one at a time).
PullAsOfExact ==
    TouchedOnce =>
        \A t \in DOMAIN snap : pullAsOf(disk.datoms, t) = snap[t]

\* A query of AsOf(t) shows exactly the facts that held when t committed (it
\* loses those retracted before and asserted again).
QueryAsOfExact ==
    \A t \in DOMAIN snap : queryAsOf(disk.datoms, t) = snap[t]

\* No call in progress can still commit with transaction ID t or a smaller one.
Settled(t) == \A c \in Clients : pc[c] # "idle" => txID[c] > t

\* The past does not change, once it is settled: from when transaction t is on
\* record and no call with a smaller ID is under way, AsOf(t) shows the same facts
\* to queries and to pulls after any step of any caller and any restart, and no ID
\* up to t is handed out any more. (Before that it may change: IDs are handed out
\* before BEGIN IMMEDIATE, so a call with a smaller ID may commit after t.)
PastIsImmutable ==
    [][\A t \in TxIDs(disk) : Settled(t) =>
          /\ Settled(t)'
          /\ queryAsOf(disk.datoms, t)' = queryAsOf(disk.datoms, t)
          /\ pullAsOf(disk.datoms, t)' = pullAsOf(disk.datoms, t)]_viewVars

\* A fact that holds now and is valid from some time is in the valid-time view
\* of that time: the log and current_datoms agree on valid_from.
ValidTimeCoversCurrent ==
    \A r \in disk.current : EAV(r) \in asOfValidTime(disk.datoms, r.vf)
=============================================================================
