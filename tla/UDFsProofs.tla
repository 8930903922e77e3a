----------------------------- MODULE UDFsProofs -----------------------------
(***************************************************************************)
(* Proofs about UDFs, for any goroutines, connections, names and numbers   *)
(* of arguments.                                                           *)
(***************************************************************************)
EXTENDS UDFs, TLAPS

Def == {NoDef} \cup [version : Nat \ {0}, nArgs : Arities]
Versions == [Names -> Nat]

Types ==
    /\ udfs \in [Names -> Def]
    /\ udfsDirty \in BOOLEAN
    /\ installed \in [Conns -> [Names -> [Arities -> Nat]]]
    /\ pc \in [Clients -> {"idle", "mark", "check", "list", "install", "run"}]
    /\ conn \in [Clients -> Conns \cup {NoConn}]
    /\ def \in [Clients -> {NoDef} \cup [name : Names, version : Nat]]
    /\ todo \in [Clients -> SUBSET [name : Names, fn : [version : Nat \ {0}, nArgs : Arities]]]
    /\ promised \in Versions
    /\ owed \in [Clients -> Versions]

\* A connection is held exactly while a client is in withConn, by one client.
Held ==
    /\ \A c \in Clients : pc[c] \in {"idle", "mark"} <=> conn[c] = NoConn
    /\ \A c, d \in Clients : conn[c] = conn[d] /\ conn[c] # NoConn => c = d

\* What a client registers is in the registry, or a later definition is.
Marking ==
    \A c \in Clients : pc[c] = "mark" =>
        /\ def[c] \in [name : Names, version : Nat]
        /\ def[c].version <= udfs[def[c].name].version

\* Promises are kept in the registry, and the flag tells of them.
Promises ==
    /\ \A n \in Names : promised[n] <= udfs[n].version
    /\ \A n \in Names : promised[n] > 0 => udfsDirty
    /\ \A c \in Clients, n \in Names : owed[c][n] <= promised[n]

\* Connections have nothing newer than the registry.
NotNewer ==
    \A k \in Conns, n \in Names, i \in Arities : installed[k][n][i] <= udfs[n].version

\* Of each name installUDFs has one definition left, which is as new as
\* anything owed or installed.
TodoNew ==
    \A c \in Clients : \A d \in todo[c] :
        /\ pc[c] = "install"
        /\ d.fn.version <= udfs[d.name].version
        /\ owed[c][d.name] <= d.fn.version
        /\ \A i \in Arities : installed[conn[c]][d.name][i] <= d.fn.version
        /\ \A e \in todo[c] : e.name = d.name => e = d

\* What is owed is installed or still to be installed.
Owing ==
    \A c \in Clients, n \in Names :
        pc[c] \in {"install", "run"} =>
            \/ \E d \in todo[c] : d.name = n
            \/ \E i \in Arities : installed[conn[c]][n][i] >= owed[c][n]

IInv == Types /\ Held /\ Marking /\ Promises /\ NotNewer /\ TodoNew /\ Owing

-----------------------------------------------------------------------------
LEMMA VersionNat == ASSUME NEW d \in Def
                    PROVE  d.version \in Nat /\ (d # NoDef => d \in [version : Nat \ {0}, nArgs : Arities])
  BY DEF Def, NoDef

LEMMA InitInv == Init => IInv
  <1> SUFFICES ASSUME Init PROVE IInv
    OBVIOUS
  <1> USE DEF Init
  <1>1. Types
    BY DEF Types, Def, Versions, NoDef, NoDefs, NoVersions
  <1>2. Held /\ Marking /\ TodoNew /\ Owing
    BY DEF Held, Marking, TodoNew, Owing
  <1>3. Promises
    BY DEF Promises, NoDef, NoDefs, NoVersions
  <1>4. NotNewer
    BY DEF NotNewer, NoDef, NoDefs
  <1> QED BY <1>1, <1>2, <1>3, <1>4 DEF IInv

\* RegisterFunction puts a definition in the registry.
LEMMA RegisterInv ==
  ASSUME IInv, NEW c \in Clients, register(c)
  PROVE  IInv'
  <1> USE DEF IInv
  <1>1. PICK n \in Names, nArgs \in Arities :
          /\ udfs' = [udfs EXCEPT ![n] = [version |-> udfs[n].version + 1, nArgs |-> nArgs]]
          /\ def' = [def EXCEPT ![c] = [name |-> n, version |-> udfs[n].version + 1]]
    BY DEF register
  <1>2. \A m \in Names : udfs[m] \in Def /\ udfs[m].version \in Nat
    BY VersionNat DEF Types
  <1>3. Types'
    BY <1>1, <1>2 DEF Types, register, Def
  <1>4. \A m \in Names : udfs'[m].version \in Nat /\ udfs[m].version <= udfs'[m].version
    BY <1>1, <1>2 DEF Types
  <1>5. Held' /\ Owing'
    BY DEF register, Held, Owing, Types
  <1>6. Marking'
    <2> SUFFICES ASSUME NEW d \in Clients, pc'[d] = "mark"
                 PROVE  /\ def'[d] \in [name : Names, version : Nat]
                        /\ def'[d].version <= udfs'[def'[d].name].version
      BY DEF Marking
    <2>1. CASE d = c
      BY <2>1, <1>1, <1>2 DEF Types
    <2>2. CASE d # c
      <3>1. pc[d] = "mark" /\ def'[d] = def[d]
        BY <2>2, <1>1 DEF register, Types
      <3> QED BY <3>1, <1>2, <1>4 DEF Marking
    <2> QED BY <2>1, <2>2
  <1>7. Promises'
    BY <1>2, <1>4 DEF Promises, register, Types, Versions
  <1>8. NotNewer'
    BY <1>2, <1>4 DEF NotNewer, register, Types
  <1>9. TodoNew'
    <2> SUFFICES ASSUME NEW d \in Clients, NEW x \in todo'[d]
                 PROVE  /\ pc'[d] = "install"
                        /\ x.fn.version <= udfs'[x.name].version
                        /\ owed'[d][x.name] <= x.fn.version
                        /\ \A i \in Arities : installed'[conn'[d]][x.name][i] <= x.fn.version
                        /\ \A e \in todo'[d] : e.name = x.name => e = x
      BY DEF TodoNew
    <2>1. x \in todo[d] /\ x.name \in Names /\ x.fn.version \in Nat
      BY DEF register, Types
    <2>2. pc'[d] = "install"
      BY <2>1 DEF register, Types, TodoNew
    <2> QED BY <2>1, <2>2, <1>2, <1>4 DEF register, TodoNew
  <1> QED BY <1>3, <1>5, <1>6, <1>7, <1>8, <1>9

\* RegisterFunction sets the flag and returns.
LEMMA MarkDirtyInv ==
  ASSUME IInv, NEW c \in Clients, MarkDirty(c)
  PROVE  IInv'
  <1> USE DEF IInv
  <1>1. \A m \in Names : udfs[m].version \in Nat
    BY VersionNat DEF Types
  <1>2. /\ def[c] \in [name : Names, version : Nat]
        /\ def[c].version <= udfs[def[c].name].version
    BY DEF MarkDirty, Marking
  <1>3. Types'
    BY <1>2 DEF Types, MarkDirty, Versions
  <1>4. Held' /\ Marking' /\ NotNewer' /\ Owing'
    BY DEF MarkDirty, Held, Marking, NotNewer, Owing, Types
  <1>5. \A n \in Names : promised'[n] \in Nat /\ promised[n] <= promised'[n]
                         /\ promised'[n] <= udfs[n].version
    BY <1>1, <1>2 DEF MarkDirty, Types, Versions, Promises
  <1>6. Promises'
    BY <1>5 DEF MarkDirty, Promises, Types, Versions
  <1>7. TodoNew'
    BY DEF MarkDirty, TodoNew, Types
  <1> QED BY <1>3, <1>4, <1>6, <1>7

\* A client takes a free connection.
LEMMA TakeInv ==
  ASSUME IInv, NEW c \in Clients, Take(c)
  PROVE  IInv'
  <1> USE DEF IInv
  <1>1. PICK k \in Conns \ {conn[d] : d \in Clients} : TakeConn(c, k)
    BY DEF Take
  <1>2. Types'
    BY <1>1 DEF TakeConn, Types
  <1>3. Held'
    BY <1>1, UDFAssumption DEF TakeConn, Types, Held
  <1>4. /\ Marking' /\ NotNewer'
        /\ \A d \in Clients : pc'[d] \in {"install", "run"} =>
              /\ d # c
              /\ conn'[d] = conn[d] /\ owed'[d] = owed[d] /\ pc'[d] = pc[d]
    BY <1>1 DEF TakeConn, Marking, NotNewer, Types
  <1>5. Promises'
    BY <1>1 DEF TakeConn, Promises, Types, Versions
  <1>6. TodoNew'
    BY <1>1 DEF TakeConn, TodoNew, Types
  <1>7. Owing'
    BY <1>1, <1>4 DEF TakeConn, Owing
  <1> QED BY <1>2, <1>3, <1>4, <1>5, <1>6, <1>7

\* A connection is used as it is only while nothing has been promised.
LEMMA CheckDirtyInv ==
  ASSUME IInv, NEW c \in Clients, CheckDirty(c)
  PROVE  IInv'
  <1> USE DEF IInv
  <1>1. Types' /\ Held' /\ Marking' /\ Promises' /\ NotNewer'
    BY DEF CheckDirty, Types, Held, Marking, Promises, NotNewer
  <1>2. TodoNew'
    BY DEF CheckDirty, TodoNew, Types
  <1>3. Owing'
    <2> SUFFICES ASSUME NEW d \in Clients, NEW n \in Names, pc'[d] \in {"install", "run"}
                 PROVE  \/ \E x \in todo'[d] : x.name = n
                        \/ \E i \in Arities : installed'[conn'[d]][n][i] >= owed'[d][n]
      BY DEF Owing
    <2>1. CASE d # c
      BY <2>1 DEF CheckDirty, Owing, Types
    <2>2. CASE d = c
      <3>1. ~udfsDirty /\ pc[c] = "check"
        BY <2>2 DEF CheckDirty, Types
      <3>2. owed[c][n] = 0
        BY <3>1 DEF Promises, Types, Versions
      <3>3. conn[c] \in Conns
        BY <3>1 DEF Held, Types
      <3>4. PICK i \in Arities : TRUE
        BY UDFAssumption
      <3>5. installed[conn[c]][n][i] >= 0
        BY <3>3, <3>4 DEF Types
      <3> QED BY <2>2, <3>2, <3>4, <3>5 DEF CheckDirty
    <2> QED BY <2>1, <2>2
  <1> QED BY <1>1, <1>2, <1>3

\* installUDFs copies the registry, with everything owed.
LEMMA AllInv ==
  ASSUME IInv, NEW c \in Clients, all(c)
  PROVE  IInv'
  <1> USE DEF IInv
  <1>1. \A m \in Names : /\ udfs[m].version \in Nat
                         /\ udfs[m] # NoDef =>
                               udfs[m] \in [version : Nat \ {0}, nArgs : Arities]
    BY VersionNat DEF Types
  <1> DEFINE L == {[name |-> n, fn |-> udfs[n]] : n \in {m \in Names : udfs[m] # NoDef}}
  <1>2. todo'[c] = L /\ \A d \in Clients \ {c} : todo'[d] = todo[d]
    BY DEF all, Types
  <1>3. L \subseteq [name : Names, fn : [version : Nat \ {0}, nArgs : Arities]]
    BY <1>1
  <1>4. Types'
    BY <1>3 DEF all, Types
  <1>5. Held' /\ Marking' /\ Promises' /\ NotNewer'
    BY DEF all, Held, Marking, Promises, NotNewer, Types
  <1>6. pc'[c] = "install" /\ pc[c] = "list" /\ conn[c] \in Conns
    BY DEF all, Types, Held
  <1>7. TodoNew'
    <2> SUFFICES ASSUME NEW d \in Clients, NEW x \in todo'[d]
                 PROVE  /\ pc'[d] = "install"
                        /\ x.fn.version <= udfs[x.name].version
                        /\ owed[d][x.name] <= x.fn.version
                        /\ \A i \in Arities : installed[conn[d]][x.name][i] <= x.fn.version
                        /\ \A e \in todo'[d] : e.name = x.name => e = x
      BY DEF TodoNew, all
    <2>1. CASE d = c
      <3>1. PICK n \in Names : udfs[n] # NoDef /\ x = [name |-> n, fn |-> udfs[n]]
        BY <2>1, <1>2
      <3>2. owed[c][n] <= udfs[n].version
        BY <1>1 DEF Promises, Types, Versions
      <3>3. \A i \in Arities : installed[conn[c]][n][i] <= udfs[n].version
        BY <1>6 DEF NotNewer
      <3>4. \A e \in L : e.name = n => e = x
        BY <3>1
      <3>5. todo'[d] = L /\ x.name = n /\ x.fn = udfs[n] /\ udfs[n].version \in Nat
        BY <2>1, <1>1, <1>2, <3>1
      <3> HIDE DEF L, IInv
      <3> QED BY <2>1, <1>6, <3>2, <3>3, <3>4, <3>5
    <2>2. CASE d # c
      BY <2>2, <1>2 DEF TodoNew, all, Types
    <2> QED BY <2>1, <2>2
  <1>8. Owing'
    <2> SUFFICES ASSUME NEW d \in Clients, NEW n \in Names, pc'[d] \in {"install", "run"}
                 PROVE  \/ \E x \in todo'[d] : x.name = n
                        \/ \E i \in Arities : installed[conn[d]][n][i] >= owed[d][n]
      BY DEF Owing, all
    <2>1. CASE d # c
      BY <2>1, <1>2 DEF all, Owing, Types
    <2>2. CASE d = c /\ udfs[n] # NoDef
      <3>1. [name |-> n, fn |-> udfs[n]] \in L
        BY <2>2
      <3>2. todo'[c] = L
        BY <1>2
      <3>3. [name |-> n, fn |-> udfs[n]].name = n
        OBVIOUS
      <3> HIDE DEF L
      <3> QED BY <2>2, <3>1, <3>2, <3>3
    <2>3. CASE d = c /\ udfs[n] = NoDef
      <3>1. owed[c][n] = 0
        BY <2>3 DEF Promises, Types, Versions, NoDef
      <3>2. PICK i \in Arities : TRUE
        BY UDFAssumption
      <3>3. installed[conn[c]][n][i] >= 0
        BY <1>6, <3>2 DEF Types
      <3> QED BY <2>3, <3>1, <3>2, <3>3
    <2> QED BY <2>1, <2>2, <2>3
  <1> QED BY <1>4, <1>5, <1>7, <1>8

\* What one installation does: the overload of its connection becomes d's, which
\* is newer, and no other overload changes.
LEMMA InstallOne ==
  ASSUME IInv, NEW c \in Clients, installOneUDF(c)
  PROVE  \E d \in todo[c] :
            /\ d.name \in Names /\ d.fn.nArgs \in Arities /\ d.fn.version \in Nat
            /\ conn[c] \in Conns
            /\ todo' = [todo EXCEPT ![c] = @ \ {d}]
            /\ installed' \in [Conns -> [Names -> [Arities -> Nat]]]
            /\ installed'[conn[c]][d.name][d.fn.nArgs] = d.fn.version
            /\ \A k \in Conns, n \in Names, i \in Arities :
                  \/ installed'[k][n][i] = installed[k][n][i]
                  \/ /\ k = conn[c] /\ n = d.name /\ i = d.fn.nArgs
                     /\ installed'[k][n][i] = d.fn.version
  <1>1. PICK d \in todo[c] :
          /\ installed' = [installed EXCEPT ![conn[c]][d.name][d.fn.nArgs] = d.fn.version]
          /\ todo' = [todo EXCEPT ![c] = @ \ {d}]
    BY DEF installOneUDF
  <1>2. d.name \in Names /\ d.fn.nArgs \in Arities /\ d.fn.version \in Nat
    BY DEF IInv, Types
  <1>3. conn[c] \in Conns
    BY DEF IInv, Types, Held, installOneUDF
  <1>4. installed' \in [Conns -> [Names -> [Arities -> Nat]]]
    BY <1>1, <1>2, <1>3 DEF IInv, Types
  <1>5. installed'[conn[c]][d.name][d.fn.nArgs] = d.fn.version
    BY <1>1, <1>2, <1>3 DEF IInv, Types
  <1>6. ASSUME NEW k \in Conns, NEW n \in Names, NEW i \in Arities
        PROVE  \/ installed'[k][n][i] = installed[k][n][i]
               \/ /\ k = conn[c] /\ n = d.name /\ i = d.fn.nArgs
                  /\ installed'[k][n][i] = d.fn.version
    BY <1>1, <1>2, <1>3 DEF IInv, Types
  <1> QED BY <1>1, <1>2, <1>3, <1>4, <1>5, <1>6

LEMMA InstallOneInv ==
  ASSUME IInv, NEW c \in Clients, installOneUDF(c)
  PROVE  IInv'
  <1>1. PICK d \in todo[c] :
            /\ d.name \in Names /\ d.fn.nArgs \in Arities /\ d.fn.version \in Nat
            /\ conn[c] \in Conns
            /\ todo' = [todo EXCEPT ![c] = @ \ {d}]
            /\ installed' \in [Conns -> [Names -> [Arities -> Nat]]]
            /\ installed'[conn[c]][d.name][d.fn.nArgs] = d.fn.version
            /\ \A k \in Conns, n \in Names, i \in Arities :
                  \/ installed'[k][n][i] = installed[k][n][i]
                  \/ /\ k = conn[c] /\ n = d.name /\ i = d.fn.nArgs
                     /\ installed'[k][n][i] = d.fn.version
    BY InstallOne
  <1>2. /\ pc[c] = "install"
        /\ UNCHANGED <<udfs, udfsDirty, pc, conn, def, promised, owed>>
    BY DEF installOneUDF
  <1>3. /\ d.fn.version <= udfs[d.name].version
        /\ owed[c][d.name] <= d.fn.version
        /\ \A e \in todo[c] : e.name = d.name => e = d
    BY DEF IInv, TodoNew
  <1>4. Types'
    BY <1>1, <1>2 DEF IInv, Types
  <1>5. Held' /\ Marking' /\ Promises'
    BY <1>2 DEF IInv, Held, Marking, Promises
  <1>6. NotNewer'
    BY <1>1, <1>2, <1>3 DEF IInv, NotNewer
  <1>7. TodoNew'
    <2> SUFFICES ASSUME NEW e \in Clients, NEW x \in todo'[e]
                 PROVE  /\ pc[e] = "install"
                        /\ x.fn.version <= udfs[x.name].version
                        /\ owed[e][x.name] <= x.fn.version
                        /\ \A i \in Arities : installed'[conn[e]][x.name][i] <= x.fn.version
                        /\ \A y \in todo'[e] : y.name = x.name => y = x
      BY <1>2 DEF TodoNew
    <2>1. x \in todo[e] /\ todo'[e] \subseteq todo[e]
      BY <1>1 DEF IInv, Types
    <2>2. /\ pc[e] = "install"
          /\ x.fn.version <= udfs[x.name].version
          /\ owed[e][x.name] <= x.fn.version
          /\ \A i \in Arities : installed[conn[e]][x.name][i] <= x.fn.version
          /\ \A y \in todo'[e] : y.name = x.name => y = x
      BY <2>1 DEF IInv, TodoNew
    <2>3. x.name \in Names /\ conn[e] \in Conns
      BY <2>1, <2>2 DEF IInv, Types, Held
    <2>4. conn[e] = conn[c] => x.name # d.name
      <3>1. conn[e] = conn[c] => e = c
        BY <2>3, UDFAssumption DEF IInv, Held
      <3>2. e = c => x # d
        BY <1>1 DEF IInv, Types
      <3> QED BY <3>1, <3>2, <2>1, <1>3
    <2>5. \A i \in Arities : installed'[conn[e]][x.name][i] = installed[conn[e]][x.name][i]
      BY <1>1, <2>3, <2>4
    <2> QED BY <2>2, <2>5
  <1>8. Owing'
    <2> SUFFICES ASSUME NEW e \in Clients, NEW n \in Names, pc[e] \in {"install", "run"}
                 PROVE  \/ \E x \in todo'[e] : x.name = n
                        \/ \E i \in Arities : installed'[conn[e]][n][i] >= owed[e][n]
      BY <1>2 DEF Owing
    <2>1. conn[e] \in Conns /\ owed[e][n] \in Nat
      BY DEF IInv, Types, Held, Versions
    <2>2. conn[e] = conn[c] => e = c
      BY <2>1, UDFAssumption DEF IInv, Held
    <2>3. CASE e = c /\ n = d.name
      BY <2>3, <1>1, <1>3, <2>1
    <2>4. CASE ~(e = c /\ n = d.name)
      <3>1. \A i \in Arities : installed'[conn[e]][n][i] = installed[conn[e]][n][i]
        BY <2>4, <2>1, <2>2, <1>1
      <3>2. \A x \in todo[e] : x.name = n => x \in todo'[e]
        BY <2>4, <1>1 DEF IInv, Types
      <3> QED BY <3>1, <3>2 DEF IInv, Owing
    <2> QED BY <2>3, <2>4
  <1> QED BY <1>4, <1>5, <1>6, <1>7, <1>8 DEF IInv

LEMMA InstalledInv ==
  ASSUME IInv, NEW c \in Clients, Installed(c)
  PROVE  IInv'
  <1> USE DEF IInv
  <1>1. Types' /\ Held' /\ Marking' /\ Promises' /\ NotNewer'
    BY DEF Installed, Types, Held, Marking, Promises, NotNewer
  <1>2. TodoNew'
    BY DEF Installed, TodoNew, Types
  <1>3. Owing'
    BY DEF Installed, Owing, Types
  <1> QED BY <1>1, <1>2, <1>3

\* A client gives its connection back, after an error or when it is done.
LEMMA PutConnInv ==
  ASSUME IInv, NEW c \in Clients, PutConn(c)
  PROVE  IInv'
  <1> USE DEF IInv
  <1>1. Types'
    BY DEF PutConn, Types, Versions, NoVersions
  <1>2. Held' /\ Marking' /\ NotNewer'
    BY DEF PutConn, Held, Marking, NotNewer, Types
  <1>3. Promises'
    BY DEF PutConn, Promises, Types, Versions, NoVersions
  <1>4. TodoNew'
    BY DEF PutConn, TodoNew, Types
  <1>5. Owing'
    BY DEF PutConn, Owing, Types
  <1> QED BY <1>1, <1>2, <1>3, <1>4, <1>5

LEMMA StutterInv == ASSUME IInv, UNCHANGED vars PROVE IInv'
  BY DEF vars, IInv, Types, Held, Marking, Promises, NotNewer, TodoNew, Owing

LEMMA NextInv == IInv /\ [Next]_vars => IInv'
  <1> SUFFICES ASSUME IInv, Next PROVE IInv'
    BY StutterInv
  <1>1. PICK c \in Clients :
          \/ register(c) \/ MarkDirty(c) \/ Take(c) \/ CheckDirty(c) \/ all(c)
          \/ installOneUDF(c) \/ Installed(c) \/ InstallFails(c) \/ Done(c)
    BY DEF Next
  <1>2. InstallFails(c) \/ Done(c) => PutConn(c)
    BY DEF InstallFails, Done
  <1> QED BY <1>1, <1>2, RegisterInv, MarkDirtyInv, TakeInv, CheckDirtyInv, AllInv,
             InstallOneInv, InstalledInv, PutConnInv

LEMMA Inductive == Spec => []IInv
  BY InitInv, NextInv, PTL DEF Spec

\* Every query and transaction that takes its connection after RegisterFunction
\* has returned runs with that definition or a later one of the name, for any
\* number of goroutines and connections.
THEOREM AlwaysCallable == Spec => []RegisteredIsCallable
  <1>1. IInv => RegisteredIsCallable
    <2> SUFFICES ASSUME IInv, NEW c \in Clients, pc[c] = "run", NEW n \in Names
                 PROVE  \E i \in Arities : installed[conn[c]][n][i] >= owed[c][n]
      BY DEF RegisteredIsCallable
    <2>1. todo[c] = {}
      BY DEF IInv, TodoNew
    <2> QED BY <2>1 DEF IInv, Owing
  <1> QED BY <1>1, Inductive, PTL

\* No installation replaces an overload of a connection by an older definition,
\* for any number of goroutines and connections.
THEOREM NeverOlder == Spec => NeverDowngraded
  <1> DEFINE Up == \A k \in Conns, n \in Names, i \in Arities :
                      installed'[k][n][i] >= installed[k][n][i]
  <1>1. ASSUME IInv, NEW c \in Clients, installOneUDF(c)
        PROVE  Up
    <2>1. PICK d \in todo[c] :
            /\ d.name \in Names /\ d.fn.version \in Nat
            /\ \A k \in Conns, n \in Names, i \in Arities :
                  \/ installed'[k][n][i] = installed[k][n][i]
                  \/ /\ k = conn[c] /\ n = d.name /\ i = d.fn.nArgs
                     /\ installed'[k][n][i] = d.fn.version
      BY <1>1, InstallOne
    <2>2. \A i \in Arities : installed[conn[c]][d.name][i] <= d.fn.version
      BY <1>1 DEF IInv, TodoNew
    <2>3. \A k \in Conns, n \in Names, i \in Arities : installed[k][n][i] \in Nat
      BY <1>1 DEF IInv, Types
    <2> QED BY <2>1, <2>2, <2>3
  <1>2. ASSUME IInv, [Next]_vars
        PROVE  [Up]_vars
    <2>1. CASE \E c \in Clients : installOneUDF(c)
      BY <2>1, <1>2, <1>1
    <2>2. CASE UNCHANGED installed
      <3>1. \A k \in Conns, n \in Names, i \in Arities : installed[k][n][i] \in Nat
        BY <1>2 DEF IInv, Types
      <3> QED BY <2>2, <3>1
    <2> QED BY <1>2, <2>1, <2>2 DEF Next, vars, register, MarkDirty, Take, TakeConn, CheckDirty,
                 all, Installed, InstallFails, Done, PutConn
  <1> QED BY <1>2, Inductive, PTL DEF Spec, NeverDowngraded
=============================================================================
