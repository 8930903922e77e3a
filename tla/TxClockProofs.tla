---------------------------- MODULE TxClockProofs ----------------------------
(***************************************************************************)
(* Proof that AsOfTxTime respects real time, for any callers and bounds.   *)
(***************************************************************************)
EXTENDS TxClock, TLAPS

Recorded(i) == \E x \in transactions : x.id = i

Types ==
    /\ nextTx \in Nat \ {0} /\ now \in Nat
    /\ pc \in [Clients -> {"idle", "stamp", "write"}]
    /\ id \in [Clients -> Nat]
    /\ time \in [Clients -> Nat]
    /\ transactions \subseteq [id : 1..MaxTx, time : Nat]
    /\ before \in [1..MaxTx -> SUBSET Nat]

\* IDs in use were handed out once, and a call's is not recorded before its end.
IDs ==
    /\ \A x \in transactions : x.id < nextTx
    /\ \A x, y \in transactions : x.id = y.id => x = y
    /\ \A c \in Clients : pc[c] # "idle" =>
         /\ id[c] \in 1..MaxTx /\ id[c] < nextTx
         /\ ~Recorded(id[c])
         /\ \A d \in Clients : pc[d] # "idle" /\ id[d] = id[c] => d = c

\* Before a call are recorded transactions with smaller IDs.
Earlier ==
    \A n \in 1..MaxTx : \A i \in before[n] : i < n /\ Recorded(i)

\* Times were read from the clock, after those of what was recorded before.
Times ==
    /\ \A x \in transactions : x.time <= now
    /\ \A c \in Clients : pc[c] = "write" =>
         /\ time[c] <= now
         /\ \A x \in transactions : x.id \in before[id[c]] => x.time <= time[c]
    /\ \A x, y \in transactions : x.id \in before[y.id] => x.time <= y.time

IInv == Types /\ IDs /\ Earlier /\ Times

-----------------------------------------------------------------------------
LEMMA InitInv == Init => IInv
  BY BoundsAssumption DEF Init, IInv, Types, IDs, Earlier, Times, Recorded

LEMMA TickInv == IInv /\ Tick => IInv'
  BY DEF IInv, Types, IDs, Earlier, Times, Recorded, Tick

\* A new ID is above all others, and what is before it is recorded.
LEMMA AllocInv ==
  ASSUME IInv, NEW c \in Clients, allocTxID(c)
  PROVE  IInv'
  <1> USE DEF IInv, allocTxID
  <1>1. nextTx \in 1..MaxTx
    BY BoundsAssumption DEF Types
  <1>2. Types'
    BY <1>1 DEF Types
  <1>3. IDs'
    BY <1>1 DEF Types, IDs, Recorded
  <1>4. \A n \in 1..MaxTx : before'[n] = IF n = nextTx THEN {x.id : x \in transactions} ELSE before[n]
    BY <1>1 DEF Types
  <1>5. Earlier'
    BY <1>1, <1>4 DEF Types, IDs, Earlier, Recorded
  <1>6. Times'
    <2>1. \A x \in transactions : x.id \in 1..MaxTx /\ x.id # nextTx
      BY DEF Types, IDs
    <2>2. \A x, y \in transactions : before'[y.id] = before[y.id]
      BY <1>4, <2>1
    <2>3. \A d \in Clients : pc'[d] = "write" => d # c /\ pc[d] = "write" /\ before'[id'[d]] = before[id[d]]
      BY <1>4 DEF Types, IDs
    <2>4. UNCHANGED <<transactions, time, now>>
      OBVIOUS
    <2>5. Times
      OBVIOUS
    <2> HIDE DEF IInv, allocTxID
    <2> QED BY <2>2, <2>3, <2>4, <2>5 DEF Times
  <1> QED BY <1>2, <1>3, <1>5, <1>6

\* The clock is not behind any time recorded so far.
LEMMA ReadInv ==
  ASSUME IInv, NEW c \in Clients, ReadClock(c)
  PROVE  IInv'
  <1> USE DEF IInv, ReadClock
  <1>1. Types' /\ Earlier'
    BY DEF Types, Earlier, Recorded
  <1>2. IDs'
    BY DEF Types, IDs, Recorded
  <1>3. Times'
    BY DEF Types, Times
  <1> QED BY <1>1, <1>2, <1>3

\* The recorded ID is new, so it is before no call so far.
LEMMA RecordInv ==
  ASSUME IInv, NEW c \in Clients, Record(c)
  PROVE  IInv'
  <1> USE DEF IInv
  <1>0. /\ pc[c] = "write"
        /\ id' = [id EXCEPT ![c] = 0] /\ time' = [time EXCEPT ![c] = 0]
        /\ pc' = [pc EXCEPT ![c] = "idle"]
        /\ nextTx' = nextTx /\ now' = now /\ before' = before
    BY DEF Record
  <1>1. CASE transactions' = transactions
    <2>1. Types' /\ Earlier'
      BY <1>0, <1>1 DEF Types, Earlier, Recorded
    <2>2. IDs'
      BY <1>0, <1>1 DEF Types, IDs, Recorded
    <2>3. Times'
      BY <1>0, <1>1 DEF Types, Times
    <2> QED BY <2>1, <2>2, <2>3
  <1>2. CASE transactions' = transactions \cup {[id |-> id[c], time |-> time[c]]}
    <2> DEFINE r == [id |-> id[c], time |-> time[c]]
    <2>1. /\ id[c] \in 1..MaxTx /\ id[c] < nextTx /\ time[c] \in Nat /\ time[c] <= now
          /\ \A x \in transactions : x.id # id[c]
          /\ \A d \in Clients : pc[d] # "idle" /\ id[d] = id[c] => d = c
      BY <1>0 DEF Types, IDs, Times, Recorded
    <2>2. r.id = id[c] /\ r.time = time[c] /\ r \in [id : 1..MaxTx, time : Nat]
      BY <2>1
    <2>3. transactions' = transactions \cup {r}
      BY <1>2
    <2> HIDE DEF r
    <2>4. Types'
      BY <1>0, <2>2, <2>3 DEF Types
    <2>5. \A d \in Clients : pc'[d] # "idle" => d # c /\ pc'[d] = pc[d] /\ id'[d] = id[d] /\ time'[d] = time[d]
      BY <1>0 DEF Types
    <2>6. IDs'
      BY <1>0, <2>1, <2>2, <2>3, <2>5 DEF IDs, Recorded
    <2>7. Earlier'
      BY <1>0, <2>3 DEF Earlier, Recorded
    <2>8. \A n \in 1..MaxTx : id[c] \notin before[n]
      BY <2>1 DEF Earlier, Recorded
    <2>9. \A x \in transactions : x.id \in 1..MaxTx
      BY DEF Types
    <2>10. Times'
      BY <1>0, <2>1, <2>2, <2>3, <2>5, <2>8, <2>9 DEF Times, IDs
    <2> QED BY <2>4, <2>6, <2>7, <2>10
  <1> QED BY <1>1, <1>2 DEF Record

LEMMA StepInv == IInv /\ [Next]_vars => IInv'
  <1> SUFFICES ASSUME IInv, [Next]_vars PROVE IInv'
    OBVIOUS
  <1>1. CASE Tick
    BY <1>1, TickInv
  <1>2. ASSUME NEW c \in Clients, allocTxID(c) \/ ReadClock(c) \/ Record(c) PROVE IInv'
    BY <1>2, AllocInv, ReadInv, RecordInv
  <1>3. CASE UNCHANGED vars
    BY <1>3 DEF vars, IInv, Types, IDs, Earlier, Times, Recorded
  <1> QED BY <1>1, <1>2, <1>3 DEF Next

\* transact takes the ID, then reads the clock, then records both: whatever
\* was recorded before the call is in the view AsOfTxTime selects by it.
THEOREM RealTimeAlways == Spec => []ViewRespectsRealTime
  <1>1. IInv => ViewRespectsRealTime
    <2> SUFFICES ASSUME IInv, NEW t \in 1..MaxTime, NEW m \in asOfTxTime(t),
                        NEW x \in transactions, x.id \in before[m]
                 PROVE  x.id <= m /\ x.time <= t
      BY DEF ViewRespectsRealTime
    <2>1. PICK y \in transactions : y.id = m /\ y.time <= t
      BY DEF asOfTxTime
    <2>2. m \in 1..MaxTx /\ y.time \in Nat /\ x.time \in Nat /\ x.id \in Nat /\ t \in Nat /\ m \in Nat
      BY <2>1, BoundsAssumption DEF IInv, Types
    <2>3. x.id < m
      BY <2>2 DEF IInv, Earlier
    <2>4. x.time <= y.time
      BY <2>1 DEF IInv, Times
    <2> QED BY <2>1, <2>2, <2>3, <2>4
  <1> QED BY <1>1, InitInv, StepInv, PTL DEF Spec
=============================================================================
