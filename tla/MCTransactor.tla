---------------------------- MODULE MCTransactor ----------------------------
(***************************************************************************)
(* Instances of Transactor for TLC. The schema has a CardOne attribute, a  *)
(* CardMany one and a CardOne Identity one; values 1 and 2 encode, Bad does *)
(* not. A batch is a sequence of at most two or three datoms taken from a  *)
(* small set chosen for the question the run asks.                         *)
(***************************************************************************)
EXTENDS Transactor, SequencesExt

CONSTANTS c1, c2, s, t, Bad

Name == 1
Tag == 2
Email == 3

MCAttrs == {Name, Tag, Email}
MCCardOne == {Name, Email}
MCIdentity == {Email}
MCValues == {1, 2, Bad}

Temp(x) == [kind |-> "temp", temp |-> x]
ID(n) == [kind |-> "id", id |-> n]
Ref(v) == [kind |-> "ref", a |-> Email, v |-> v]
Other == [kind |-> "other"]

Add(e, a, v) == [e |-> e, a |-> a, v |-> v, retract |-> FALSE]
Del(e, a, v) == [e |-> e, a |-> a, v |-> v, retract |-> TRUE]

\* The first entity a fresh database hands out.
First == 4

\* Every kind of datom and every way one can fail.
Datoms ==
    {Add(Temp(t), Name, 1), Add(ID(First), Name, 2), Add(Ref(1), Name, 1),
     Add(Temp(t), Email, 1), Add(ID(First), Email, 2), Add(ID(9), Email, 1),
     Add(Temp(s), Email, 2), Del(Ref(1), Email, 1), Del(ID(First), Name, 1),
     Add(ID(First), Tag, 1), Del(Temp(s), Tag, 1)}
Broken ==
    {Add(Temp(t), Email, Bad), Add(ID(First), Name, Bad), Add(Other, Name, 1),
     Add(Ref(2), 7, 1), Del([kind |-> "ref", a |-> Tag, v |-> 1], Tag, 1)}
\* Upserts only: TempIDs meeting on identity values.
UpsertDatoms ==
    {Add(Temp(x), Email, v) : x \in {s, t}, v \in {1, 2}}
        \cup {Add(Temp(s), Name, 1), Del(Temp(t), Email, 1)}
UpsertBatches == SeqOf(UpsertDatoms, 3) \ {<<>>}

\* The first in batches of one or two, the upserts in batches of up to three.
AllBatches ==
    {<<>>} \cup {<<d>> : d \in Datoms \cup Broken} \cup (Datoms \X Datoms)
        \cup {<<d, b>> : d \in {Add(Temp(t), Email, 1)}, b \in Broken}
        \cup UpsertBatches

\* A datom that succeeds before one that fails.
FailingBatches == {<<Add(Temp(t), Name, 1), Add(Other, Name, 1)>>,
                   <<Add(Temp(t), Name, 1)>>}

\* One entity made and retracted, nothing else.
ReuseBatches == {<<Add(Temp(t), Tag, 1)>>, <<Del(ID(First), Tag, 1)>>}

\* A fact retracted, asserted and retracted again.
RetractBatches ==
    {<<Del(ID(First), Tag, 1), Add(ID(First), Tag, 1), Del(ID(First), Tag, 1)>>}

\* What a few callers at once do.
SharedBatches ==
    {<<Add(Temp(t), Email, 1), Add(Temp(t), Name, 1)>>,
     <<Add(Ref(1), Name, 2)>>,
     <<Del(Ref(1), Email, 1)>>,
     <<Add(Temp(s), Email, 1), Add(Temp(s), Email, 2)>>}
=============================================================================
