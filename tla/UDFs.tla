-------------------------------- MODULE UDFs --------------------------------
(***************************************************************************)
(* RegisterFunction and the lazy installation of functions on pooled       *)
(* connections (udf.go, with withConn and withWriteConn of pool.go). The   *)
(* definitions of a name are numbered as they enter the registry; 0 is no  *)
(* definition. The registry keeps one definition of a name, a connection   *)
(* one for each number of arguments the name has been installed with.      *)
(***************************************************************************)
EXTENDS Naturals

CONSTANTS
    Clients,    \* goroutines
    Conns,      \* connections of the pool
    NoConn,     \* no connection taken
    Names,      \* function names
    BadNames,   \* those CreateFunction rejects (the empty one)
    Arities,    \* numbers of arguments
    MaxVersion  \* bound: definitions per name

ASSUME UDFAssumption ==
    /\ NoConn \notin Conns
    /\ BadNames \subseteq Names /\ Arities # {}
    /\ MaxVersion \in Nat

VARIABLES
    udfs,       \* db.udfs: version and arity of the latest definition of each name
    udfsDirty,  \* db.udfsDirty
    installed,  \* version of each overload CreateFunction has put on a connection
    pc, conn,   \* where each client is, and the connection it has taken
    def,        \* the name and version it registers
    todo,       \* what installUDFs has still to install
    promised,   \* history: definitions whose RegisterFunction has returned
    owed        \* history: promised, as of the time a client took its connection

vars == <<udfs, udfsDirty, installed, pc, conn, def, todo, promised, owed>>

NoDef == [version |-> 0]
NoDefs == [n \in Names |-> NoDef]
NoVersions == [n \in Names |-> 0]

Init ==
    /\ udfs = NoDefs
    /\ udfsDirty = FALSE
    /\ installed = [k \in Conns |-> [n \in Names |-> [i \in Arities |-> 0]]]
    /\ pc = [c \in Clients |-> "idle"]
    /\ conn = [c \in Clients |-> NoConn]
    /\ def = [c \in Clients |-> NoDef]
    /\ todo = [c \in Clients |-> {}]
    /\ promised = NoVersions
    /\ owed = [c \in Clients |-> NoVersions]

\* RegisterFunction: into the registry, under its lock, then the flag.
register(c) ==
    /\ pc[c] = "idle"
    /\ \E n \in Names, nArgs \in Arities :
          LET next == udfs[n].version + 1 IN
          /\ next <= MaxVersion
          /\ udfs' = [udfs EXCEPT ![n] = [version |-> next, nArgs |-> nArgs]]
          /\ def' = [def EXCEPT ![c] = [name |-> n, version |-> next]]
    /\ pc' = [pc EXCEPT ![c] = "mark"]
    /\ UNCHANGED <<udfsDirty, installed, conn, todo, promised, owed>>

MarkDirty(c) ==
    LET d == def[c] IN
    /\ pc[c] = "mark"
    /\ udfsDirty' = TRUE
    /\ promised' = [promised EXCEPT ![d.name] =
                       IF @ < d.version THEN d.version ELSE @]
    /\ def' = [def EXCEPT ![c] = NoDef]
    /\ pc' = [pc EXCEPT ![c] = "idle"]
    /\ UNCHANGED <<udfs, installed, conn, todo, owed>>

TakeConn(c, k) ==
    /\ pc[c] = "idle"
    /\ conn' = [conn EXCEPT ![c] = k]
    /\ owed' = [owed EXCEPT ![c] = promised]
    /\ pc' = [pc EXCEPT ![c] = "check"]
    /\ UNCHANGED <<udfs, udfsDirty, installed, def, todo, promised>>

\* Mutant: callers share a connection.
MutTakeShared(c) == \E k \in Conns : TakeConn(c, k)

Take(c) == \E k \in Conns \ {conn[d] : d \in Clients} : TakeConn(c, k)

CheckDirty(c) ==
    /\ pc[c] = "check"
    /\ pc' = [pc EXCEPT ![c] = IF udfsDirty THEN "list" ELSE "run"]
    /\ UNCHANGED <<udfs, udfsDirty, installed, conn, def, todo, promised, owed>>

\* all() copies the registry under its lock.
all(c) ==
    /\ pc[c] = "list"
    /\ todo' = [todo EXCEPT ![c] =
                   {[name |-> n, fn |-> udfs[n]] :
                        n \in {m \in Names : udfs[m] # NoDef}}]
    /\ pc' = [pc EXCEPT ![c] = "install"]
    /\ UNCHANGED <<udfs, udfsDirty, installed, conn, def, promised, owed>>

\* Functions go to the connection one by one, in any (map) order.
installOneUDF(c) ==
    /\ pc[c] = "install"
    /\ \E d \in todo[c] :
          /\ d.name \notin BadNames
          /\ installed' = [installed EXCEPT ![conn[c]][d.name][d.fn.nArgs] = d.fn.version]
          /\ todo' = [todo EXCEPT ![c] = @ \ {d}]
    /\ UNCHANGED <<udfs, udfsDirty, pc, conn, def, promised, owed>>

\* Mutant: the flag is cleared once the functions are on one connection.
MutInstalledClears(c) ==
    /\ pc[c] = "install"
    /\ todo[c] = {}
    /\ udfsDirty' = FALSE
    /\ pc' = [pc EXCEPT ![c] = "run"]
    /\ UNCHANGED <<udfs, installed, conn, def, todo, promised, owed>>

\* installUDFs returns nil and the caller's function runs on the connection.
Installed(c) ==
    /\ pc[c] = "install"
    /\ todo[c] = {}
    /\ pc' = [pc EXCEPT ![c] = "run"]
    /\ UNCHANGED <<udfs, udfsDirty, installed, conn, def, todo, promised, owed>>

PutConn(c) ==
    /\ conn' = [conn EXCEPT ![c] = NoConn]
    /\ owed' = [owed EXCEPT ![c] = NoVersions]
    /\ todo' = [todo EXCEPT ![c] = {}]
    /\ pc' = [pc EXCEPT ![c] = "idle"]
    /\ UNCHANGED <<udfs, udfsDirty, installed, def, promised>>

\* One function that cannot be installed fails the whole call, wherever in the
\* list it is.
InstallFails(c) ==
    /\ pc[c] = "install"
    /\ \E d \in todo[c] : d.name \in BadNames
    /\ PutConn(c)

Done(c) == pc[c] = "run" /\ PutConn(c)

Next == \E c \in Clients :
    \/ register(c) \/ MarkDirty(c)
    \/ Take(c) \/ CheckDirty(c) \/ all(c)
    \/ installOneUDF(c) \/ Installed(c) \/ InstallFails(c) \/ Done(c)

Spec == Init /\ [][Next]_vars

-----------------------------------------------------------------------------
\* A query or a transaction that took its connection after RegisterFunction had
\* returned runs with that definition or a later one of the name, whichever
\* connection it got and however registrations and installations interleave.
RegisteredIsCallable ==
    \A c \in Clients : pc[c] = "run" =>
        \A n \in Names : \E i \in Arities : installed[conn[c]][n][i] >= owed[c][n]

\* No overload of a connection goes back to an older definition: two
\* registrations and two installations in any order leave it with the latest one
\* it was given.
NeverDowngraded ==
    [][\A k \in Conns, n \in Names, i \in Arities :
          installed'[k][n][i] >= installed[k][n][i]]_vars

\* What a name means does not depend on the connection a query gets. The code
\* does not keep this: a name registered again with another number of arguments
\* leaves its old overload where it was installed.
OverloadsAgree ==
    \A c, d \in Clients, n \in Names, i \in Arities :
        /\ pc[c] = "run" /\ pc[d] = "run" /\ owed[c] = owed[d]
        /\ installed[conn[c]][n][i] # 0
        => installed[conn[d]][n][i] # 0
=============================================================================
