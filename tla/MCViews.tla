------------------------------ MODULE MCViews ------------------------------
(***************************************************************************)
(* Instances of Views for TLC, over the schema of MCTransactor.            *)
(***************************************************************************)
EXTENDS Views, MCTransactor

\* One entity made by TempID, and its facts changed by explicit ID: each datom
\* of a batch is about an entity and attribute of its own.
PlainBatches ==
    {<<Add(Temp(t), Name, 1), Add(Temp(t), Tag, 1)>>,
     <<Add(ID(First), Name, 1)>>, <<Add(ID(First), Name, 2)>>,
     <<Add(ID(First), Tag, 1)>>, <<Del(ID(First), Tag, 1)>>,
     <<Del(ID(First), Name, 2), Add(ID(First), Tag, 2)>>}

\* With them, batches that touch an entity's attribute twice or fail.
MixedBatches ==
    {<<Add(Temp(t), Name, 1), Add(Temp(t), Name, 2)>>,
     <<Add(ID(First), Name, 2)>>,
     <<Add(ID(First), Tag, 1), Del(ID(First), Tag, 1)>>,
     <<Del(ID(First), Tag, 1), Add(ID(First), Tag, 1), Del(ID(First), Tag, 1)>>,
     <<Add(ID(First), Tag, 1), Add(Other, Tag, 1)>>,
     <<Del(ID(First), Name, 2)>>} \cup PlainBatches
=============================================================================
