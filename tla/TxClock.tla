------------------------------- MODULE TxClock -------------------------------
(***************************************************************************)
(* Transaction IDs against transaction times, for callers that do not set  *)
(* TxTime: transact takes an ID (allocTxID), then reads the clock, then    *)
(* waits for the write lock and records both. AsOfTxTime turns a time back *)
(* into an ID.                                                             *)
(***************************************************************************)
EXTENDS Naturals

CONSTANTS
    Clients,    \* goroutines that call Transact
    MaxTx,      \* bound: transaction IDs handed out
    MaxTime     \* bound: clock readings

ASSUME BoundsAssumption == MaxTx \in Nat /\ MaxTime \in Nat

VARIABLES
    nextTx,         \* db.nextTx
    now,            \* the wall clock, in milliseconds
    pc,             \* where each client is
    id, time,       \* its transaction ID and time
    transactions,   \* recorded [id, time]
    before          \* history: IDs recorded when an ID was handed out

vars == <<nextTx, now, pc, id, time, transactions, before>>

Init ==
    /\ nextTx = 1 /\ now = 1
    /\ pc = [c \in Clients |-> "idle"]
    /\ id = [c \in Clients |-> 0]
    /\ time = [c \in Clients |-> 0]
    /\ transactions = {}
    /\ before = [n \in 1..MaxTx |-> {}]

Tick ==
    /\ now < MaxTime
    /\ now' = now + 1
    /\ UNCHANGED <<nextTx, pc, id, time, transactions, before>>

allocTxID(c) ==
    /\ pc[c] = "idle"
    /\ nextTx <= MaxTx
    /\ id' = [id EXCEPT ![c] = nextTx]
    /\ nextTx' = nextTx + 1
    /\ pc' = [pc EXCEPT ![c] = "stamp"]
    /\ before' = [before EXCEPT ![nextTx] = {x.id : x \in transactions}]
    /\ UNCHANGED <<now, time, transactions>>

\* Mutant: a coarse clock that may be one tick behind.
MutReadClockStale(c) ==
    /\ pc[c] = "stamp"
    /\ time' \in {[time EXCEPT ![c] = now], [time EXCEPT ![c] = now - 1]}
    /\ pc' = [pc EXCEPT ![c] = "write"]
    /\ UNCHANGED <<nextTx, now, id, transactions, before>>

ReadClock(c) ==
    /\ pc[c] = "stamp"
    /\ time' = [time EXCEPT ![c] = now]
    /\ pc' = [pc EXCEPT ![c] = "write"]
    /\ UNCHANGED <<nextTx, now, id, transactions, before>>

\* The write transaction commits, or fails and records nothing.
Record(c) ==
    /\ pc[c] = "write"
    /\ \/ transactions' = transactions \cup {[id |-> id[c], time |-> time[c]]}
       \/ UNCHANGED transactions
    /\ id' = [id EXCEPT ![c] = 0]
    /\ time' = [time EXCEPT ![c] = 0]
    /\ pc' = [pc EXCEPT ![c] = "idle"]
    /\ UNCHANGED <<nextTx, now, before>>

Next == Tick \/ \E c \in Clients : allocTxID(c) \/ ReadClock(c) \/ Record(c)

Spec == Init /\ [][Next]_vars

\* AsOfTxTime: MAX(id) WHERE tx_time <= t, none if there is no such row.
asOfTxTime(t) ==
    LET ids == {x.id : x \in {y \in transactions : y.time <= t}}
    IN  {m \in ids : \A n \in ids : n <= m}

-----------------------------------------------------------------------------
\* The view AsOfTxTime(t) chooses by transaction m respects real time: whatever
\* was recorded before m was called is in the view and was made by t.
ViewRespectsRealTime ==
    \A t \in 1..MaxTime : \A m \in asOfTxTime(t) : \A x \in transactions :
        x.id \in before[m] => x.id <= m /\ x.time <= t

\* Transaction times increase with transaction IDs.
TimesFollowIDs ==
    \A x, y \in transactions : x.id < y.id => x.time <= y.time
=============================================================================
