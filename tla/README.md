# A TLA+ model of litelog

litelog is a Datomic-like datom store on SQLite, written in Go: callers submit
batches of assertions and retractions, the library logs them, keeps a table of
current facts, and answers Datalog queries and pulls, now or as of an earlier
transaction. This directory holds TLA+ modules of its parts, TLC configurations
that check them on small instances, and TLAPS proofs of the main invariants for
all instances. `PROJECT.json` maps every definition to the lines it models.

## The system

| part | code | state | operations |
|---|---|---|---|
| Storage schema | `schema.go` | tables `datoms`, `current_datoms`, `transactions`, `attributes`; optionally the log in an attached file | created on `Open` |
| Pool and counters | `pool.go` | connection pool, `nextTx`, `nextEID` (in memory) | `withConn`, `withWriteConn`, `loadState`, `allocTxID`, `allocEntityID`, `Open`, `Close` |
| Transactor | `transact.go`, `types.go` | variables of one write closure: `tempids`, `pending`, `seen`, the datoms produced | `Transact` and its variants |
| Schema cache | `attributes.go` | maps by ident and by ID under an RWMutex | `DefineAttribute`, `GetByIdent`, `loadAttributes` |
| Value encoding | `values.go` | none | encode, decode, infer |
| Temporal views | `query_api.go`, `pull.go` | none; the log | `AsOf`, `AsOfTxTime`, `AsOfValidTime` |
| Queries | `query_api.go`, `query/` | none | parse, algebrize, translate to SQL, run, decode |
| Recursive rules | `query/recursive.go` | temporary `_rule_` and `_delta_` tables | `PlanRecursive`; the caller runs the plan |
| Pull | `pull.go` | the statements its connection caches | `Pull`, `PullMany`, `DBView.Pull` |
| User functions | `udf.go` | registry, `udfsDirty`, what is installed on each connection | `RegisterFunction`, `installUDFs` |
| EDN reader | `edn/` | none | lexer, parser |

How they interact. `Transact` takes a transaction ID, then a connection from the
pool, then SQLite's write lock (`BEGIN IMMEDIATE`), and runs a closure that reads
and writes the tables one statement at a time; `withWriteConn` ends the
transaction. `DefineAttribute` goes through the same `withWriteConn` and then
fills the cache that `Transact` and queries read. `Open` rebuilds both counters
and the cache from the tables. Views read the log that transactions write. A query is read as EDN, parsed,
algebrized against the schema cache, given its inputs, rewritten for a view,
translated to SQL and run as one statement; a pull runs one statement after another
on one connection. Every connection that is taken first gets the user functions installed.

What is hard here, and what would be correct:

* several goroutines call at once, and IDs and the clock are read outside the
  write lock: IDs must stay unique, identity checks must hold under interleaving,
  and a view of the past must not change later;
* a closure can fail at any statement, `COMMIT` can fail, the process can stop
  at any point: the tables must agree with each other afterwards, a caller must be
  told the truth, and the counters must not hand out what is in use;
* batches interact with themselves: TempIDs that turn out to be one entity, a
  CardOne value superseded twice, a fact asserted and retracted in one batch;
* blobs stand in for values in comparisons, and the log stands in for a database
  state in temporal views;
* a pull recurses while its statements are open, shares them with the pulls it
  calls, and reads what others commit in between: lists must not be torn, cycles
  must end;
* a query passes through four representations, in each of which a variable is
  found by position, table number or column: the rows that come out must be those
  the text means;
* a recursive plan is a loop over tables that each round clears, reads and fills.

`PROJECT.json` lists these as hazards, each with its line and properties.

## Modules

| module | models |
|---|---|
| `Tables` | the tables a transaction writes as one record and each prepared statement as an operator (`InsertDatom`, `UpsertCurrent`, `DeleteCurrentEAV`, `LookupAV` ...) |
| `Transactor` | calls of `Transact` by any number of goroutines: ID, pool, write lock, both loops of the closure, commit, failures, crash and reopen |
| `DatomLog` | the abstract specification: a log that grows by whole transactions, and facts that follow it |
| `Views` | the facts temporal queries and pulls select, over `Transactor`, with a history variable of what was true when each transaction committed |
| `TxClock` | transaction IDs against transaction times, and `AsOfTxTime` |
| `Registry` | `DefineAttribute` and the schema cache |
| `UDFs` | registration and lazy installation of functions |
| `Values` | the encodings, at a word width given by a constant |
| `Recursive` | `PlanRecursive` and the run of its plan |
| `Pull` | a pull statement by statement on one connection, while others commit |
| `EDN` | the reader, from tokens to nodes |
| `Datalog` | `ParseQuery`, from a node to a query |
| `Compiler` | `Algebrize` and `Translate`, and what SQLite selects for the SQL |
| `Meaning` | what a query means, without tables, and which queries are supported |
| `Query` | a call of `Query` from text to decoded rows, over the three before |
| `MC...` | instances for TLC |
| `TransactorProofs` | types and the table invariants; fresh IDs; the refinement of `DatomLog`; what a batch gets: applied whole, upserts, new entities |
| `ViewsProofs` | the temporal views |
| `PullProofs` | what pulls return |
| `RecursiveProofs` | what the plans of rules derive |
| `RegistryProofs`, `TxClockProofs`, `UDFsProofs`, `ValuesProofs` | theorems on the module of that name |

**Transactor.** `disk` is what SQLite has committed, `work` what the open write
transaction sees. SQLite admits one writer, so the variables of the closure exist
once. A caller's `pc` is `idle`, `take` (waits for a connection), `begin` (waits
for the lock), `resolve` (the first loop, which sends TempIDs to entities),
`entity` and `apply` (the second loop: find the datom's entity, then write it),
`end` (the closure has returned). The SQL statements of one datom run under the
write lock and no reader of the same connection sees between them, so a datom is
one step; where a statement of it can fail on a constraint, the failing case keeps
the statements before it (`RetractDatom`, `Store`, `Supersede`). `Interrupted` is
an I/O error or an interrupted statement, on which SQLite rolls back. `Commit`
follows the code: the deferred `endFn(&err)` is given an `err` that the closure's
error never reaches, so it commits also after a failure, and `CommitFails` is not
reported. `Reopen` is a crash or `Close` at any point followed by `Open`; with
`Partitioned` a crash inside `COMMIT` may keep either file alone, as SQLite
documents for attached databases in WAL mode.

**Views.** `queryAsOf` is the SQL `applyAsOf` writes, `pullAsOf` the SQL of
`temporalParams`; they differ, and the runs show how.

**Registry.** One step per lock or transaction boundary: the cache lookup, BEGIN,
INSERT, COMMIT, `put`. IDs come from the counter entities use, here without
entities.

**Recursive.** A column value carries its storage class, since SQLite compares
an integer and a blob by class; `Bound` gives each placeholder (a blank in an expression is one, bound as NULL) the parameter at
its position. The statements are pairs of a rule and, in the delta rounds, one of its
references; `Listing` puts pairs in the order of the code's nested loops, and the
orders in which Go's maps give names and references are chosen when the plan is made.
The caller's loop is the one README.md:444-449 prescribes. What the
rules mean is `Follows`, the same clauses over the values themselves.

**UDFs.** The registry holds one definition of a name, a connection one for each
number of arguments (SQLite's overloads). Registering, marking, taking a connection,
reading the flag, copying the registry and installing each function are steps.

**Pull.** `stack` is the recursion of `pullEntity`, one frame per entity with its
place in its loop. zombiezen's `Conn.Prepare` returns the cached statement for a
text, reset: all pulls of named attributes have one text, so `stmt` exists once,
with its parameters and its cursor. An open cursor keeps its snapshot, which is also
what a wildcard nested in it reads; otherwise each statement reads what is committed
at its first step (`Commit` replaces the table between steps). `DBView.Pull` runs the
same loops over the rows of a view, which no commit changes here. What a pull means
is stated level by level, without recursion: the history variable `pulled` collects what
each call of `pullEntity`, nested or not, returned for which pattern at which depth, and
an answer is `Sound` if every value in it that stands for a nested pull is itself one of
`pulled`, or the bare ID where the pattern or the depth limit ends. `Shows` compares one
element of the pattern with one table, `FromInstants` asks for such a table when the
table changes meanwhile.

**EDN, Datalog, Compiler, Meaning, Query.** The reader is a machine over tokens whose
stack is the recursion of `readNode` and `readUntil`. The parser and the compiler are
operators, each with one that says where the code returns an error (or panics).
`Compiler` ends with the meaning of the SQL rather than its text: `Selected` is the
set of row combinations that satisfy the WHERE clause `buildWhere` and
`buildNotExists` write, with SQLite's comparison by storage class after the
conversions that column affinity asks for (`Converted`: `e`, `tx` and `v_int` are
INTEGER, `v_text` is TEXT, parameters have none). `Query` runs the
steps of `compileQuery` and `executeQuery` in order and stops at the first that
fails. `Meaning` solves the clauses over Go values and does not know columns or
tables; `Supported` delimits the queries for which the two must agree: every variable
has one class of column, constants and inputs are of the class of the column they are
compared with, `:find` is not empty, and NOTs are correlated to outer tables whose numbers do not collide with
inner ones. The instances contain supported and unsupported queries (304 and 100), so
the restrictions are not what makes the property true of most of them.

## Runs

Passing runs:

| run | question | result |
|---|---|---|
| `transact_all` | every kind of datom and failure in batches of up to two, upserts in batches of up to three, one caller | cardinality and identity hold at every statement; `current_datoms` never shows a fact whose last log entry is a retraction; a batch that succeeds is in the log completely, in the order reported; TempIDs meet as documented, so a batch of TempIDs never fails the identity check |
| `transact_concurrent` | two callers, two connections, commits out of the order of IDs, one restart | identities and IDs stay unique, new entities are blank, the committed database implements `DatomLog`; once no call with a smaller ID is under way, `AsOf(t)` never changes |
| `transact_liveness` | two callers, one connection, the log in another file, one crash | every call returns; also after a crash that commits one file alone every current fact has its transaction on record and new entities are blank (cardinality and identity: the theorems cover it). The log has no such guarantee: see `LoggedIsRecorded` below |
| `views_serial` | one caller, facts touched repeatedly, a restart | a query of `AsOf(t)` shows no fact that did not hold, a pull misses none and is exact while no transaction touches a fact twice |
| `registry_define` | concurrent `DefineAttribute`, restarts, lost commits | cache, table and answers agree until a commit is lost; the table keeps its keys even then |
| `values_all` | all pairs of values | encodings invert; blobs order floats as numbers, and integers as numbers within one sign, negative ones last |
| `tx_clock_views` | concurrent callers and the clock | `AsOfTxTime` respects real time |
| `udfs` | concurrent registration and use, with changing numbers of arguments | a registered function is callable on every connection, and no overload goes back to an older version |
| `pull_all` | named, nested and wildcard pulls through rings and circles of references, with two commits and one failing statement | a pull is exact while nothing is committed; a list of values is of one instant always, an entity of a wildcard pull too; every pull returns. CardMany references are followed by wildcards only: `CirclesEnd` below is about the others |
| `query_answers` | all pairs of thirteen patterns, now and as of a transaction, comparisons, NOT, inputs, texts for numbers and numbers for texts, malformed text, over all databases of six facts | a supported query is answered with exactly the rows it means; the query compiled is the one written; the reader reads what is there and fails only where there is nothing |
| `rules_sound` | rule sets of every shape over all databases of up to three datoms | no statement derives a wrong row; non-recursive rules are evaluated completely if no variable is both a value and an entity |

In `rules_sound` the statements of the delta rounds run, but since every round
clears the delta tables first they select no row; soundness is exercised by the base
statements.

The run that ends in a counterexample, a finding of `PROJECT.json` with the line
that says otherwise:

| run | what the code does |
|---|---|
| `failed_trace` | `withWriteConn` commits although the closure failed: a call that returns an error leaves its transaction and every datom before the failing one (pool.go:145) |

### Further deviations

Other statements of the documentation that the model contradicts. TLC shows each
when the named formula is made the INVARIANT (or PROPERTY) of the named configuration, changed
as said.

| formula | configuration | what the code does |
|---|---|---|
| `SucceededIsRecorded` | `FailedTrace.cfg` | a failed `COMMIT` is reported as success (pool.go:145; README.md:88) |
| `CachedIsStored` without `~lost` | `RegistryDefine.cfg` | for the same reason an attribute that was not stored is cached (attributes.go:115) |
| `LogInTxOrder` | `TransactConcurrent.cfg` | IDs are taken before the write lock, so transactions commit in another order (transact.go:116; README.md:98 "Monotonically increasing") |
| `PastIsImmutable` without `Settled(t)` | `TransactConcurrent.cfg` | for the same reason `AsOf(t)` can change after `t` is recorded, as long as a call with a smaller ID is under way |
| `TimesFollowIDs` | `TxClockViews.cfg` | the clock is read after the ID is taken, in a step of its own (transact.go:117; query_api.go:93) |
| `EntityIDsNeverReused` | `FailedTrace.cfg`, `ReuseBatches`, `MaxOpens = 1` | the entity counter is rebuilt from `current_datoms`, so the ID of a fully retracted entity, still in the log, is handed out again (pool.go:174, whose comment says "from datoms") |
| `CurrentIsReplay` | `FailedTrace.cfg`, `RetractBatches` | a retraction that the log refuses has already deleted the current row (transact.go:271; README.md:412) |
| `LoggedIsRecorded` | `TransactLiveness.cfg` | a crash in `COMMIT` that keeps the history file alone leaves logged datoms without their transaction, and `loadState` hands their ID out again, so that later rows of the log share it (schema.go:111; README.md:88) |
| `QueryAsOfExact` | `ViewsSerial.cfg` | any retraction up to `t` hides a fact, also one older than the assertion: facts asserted again are lost from as-of queries (query_api.go:381; README.md:375) |
| `PullAsOfExact` without `TouchedOnce` | `ViewsSerial.cfg` | a fact asserted and retracted in one transaction stays in as-of pulls (pull.go:313; README.md:375) |
| `SameDefinitionIsNoOp` | `RegistryDefine.cfg` | of two callers with one definition the second gets an error (attributes.go:78; attributes.go:75) |
| `FloatOrderMatches` | `ValuesAll.cfg` | -0.0 and 0.0 have different blobs (values.go:35; values.go:30) |
| `IntOrderMatches` | `ValuesAll.cfg` | negative integers sort after positive ones (values.go:20; README.md:530, which README.md:523 restricts to positive values) |
| `ResultIsFixpoint` | `RulesSound.cfg`, `MCChains` and `ChainRules` | every round clears the delta tables before it reads them, the seeds included: recursive rules never fire (recursive.go:114; README.md:416) |
| `ResultIsFixpoint` | `RulesSound.cfg`, `MCDatabases` and `GrandRules` | a reference is joined to its entity as blob with integer and never matches (recursive.go:252; the `ancestor` rule of README.md:427) |
| `ResultIsFixpoint` | the same with `FilterRules` | a value compared with an entity is always the greater one (recursive.go:376; README.md:530) |
| `ResultIsFixpoint` | the same with `HeadRules` | the parameter of a constant in the head is appended last, its placeholder comes first (recursive.go:323) |
| `OverloadsAgree` | `UDFs.cfg` | a name registered again with another number of arguments keeps its old overload on the connections that had it, and only there (udf.go:92) |
| `CirclesEnd` | `PullAll.cfg`, `FriendTables` (for `Tables` and `Shown`), `FriendPatterns` and `FriendRequests`, no commits and errors | a pull of named attributes under a CardMany reference resets and rebinds its caller's cursor; where the nested attribute is that reference too and two entities refer to each other, the loop of pull.go:190 meets the same rows again and again and never ends (pull.go:203; README.md:605 "circular refs degrade gracefully to raw entity IDs") |
| `PullIsExact` | the same, with `name` as the attribute of the friends | the caller goes on with the rows of the nested entity and attribute and returns wrong values (pull.go:203; README.md:603) |
| `AnswerIsRight` without the table numbers of `NotOK` | `QueryAnswers.cfg` | a NOT whose variable first stands in an outer table with a small number is joined to itself and not to the outer query (translate.go:303; README.md:328 "correlated joins on shared variables") |
| `AnswerIsRight` with `or` supported | `QueryAnswers.cfg` | a query with OR is never answered: its branches have no columns to select (translate.go:346; README.md:338) |
| `AnswerIsRight` without `isNow` | `QueryAnswers.cfg` | the NOT of an as-of query reads the current facts (query_api.go:313) |
| `AnswerIsRight` without `ConstantsTyped`, `WellTyped` or `InputOK` | `QueryAnswers.cfg` | a constant for the value of an unknown attribute, and a variable that is the value of a known and of an unknown attribute never match; a text and a number match where the text spells the number (`[?e :age "1"]` finds the age 1, `[?e :name 1]` the name "1"), since SQLite converts by the affinity of the column, and not otherwise (translate.go:160); an input found, or used in a pattern and a filter, is indexed as a table and panics (translate.go:219) |

Read in the code and outside the model: a string `"_"` in a pattern is a blank
(query/parser.go:320), the result of an aggregate over an attribute variable is
replaced by an ident (query_api.go:651).

### Bounds

* `MaxTx` (2 or 3) is the number of calls since `Open`. Two calls suffice for one to
  act on what another left; three, with two callers, add an interleaving and a
  restart between. A bound on calls only cuts behaviours short.
* `MaxOpens` is 1 where a run is about restarts: a restart derives all state from
  the tables, so a second one starts from a state of the same kind.
* `Batches` are explicit sets in the MC modules: all pairs of eleven datoms, all
  triples of six upserts, or the few batches a question needs. Three attributes
  (CardOne, CardMany, CardOne with Identity) are all the combinations that
  `transact` tells apart but Identity with CardMany, two values and one that does
  not encode, two TempIDs.
* `PoolSize` 1 makes callers wait for connections, 2 makes them wait for the lock.
  `Partitioned` is true in `transact_liveness`; the theorems cover both.
* `MaxID`, `MaxVersion`, `MaxTime`: enough for two idents and a reused ID, for two
  versions of a name, for two clock readings on either side of a call.
* `Half = 4` is a three-bit word; the code has no constant but the sign bit, and
  the order of floats is proved for every width. Bit patterns of NaN are treated
  as further magnitudes.
* `Databases` of `Recursive`: all sets of up to three datoms over three entities.
* `Arities` 1 and 2, so that a name can change its own; three goroutines, so that one
  registers while two hold both connections.
* `MaxPullDepth = 2` stands for 16, which the code compares and nothing else; the
  requests nest one deeper. Tables have three entities: rings of one and two, two
  friends of one entity, attributes present and absent. Two commits replace the table
  by any other one, so a list can be torn at both ends.
* `Databases` of `Query`: every subset of six facts about two entities, three of them
  retracted or not by a second transaction. Two entities and two values of each type
  let every join, comparison and negation be true of one and false of another. The
  reader's inputs are all sequences of up to four of eight tokens, and the queries.

`CHECK_DEADLOCK FALSE` appears where callers may simply stop calling, which the
bounds make them do, or where an evaluation ends. Symmetry is used in `MCRegistry`
over callers, idents and definitions, and in `MCUDFs` over goroutines and
connections, which nothing tells apart; neither run has a liveness property.

### Fairness

`transact_liveness` assumes weak fairness of each caller that holds a connection
(a goroutine is scheduled; SQLite's busy timeout ends a wait for the lock, which is
`BeginFails`) and strong fairness of `TakeConn` (the pool hands connections over a
Go channel, whose waiters are served in order). `pull_all` assumes weak fairness of
the pulling goroutine's steps (it is scheduled, and a read waits for nobody in WAL
mode). Nothing is assumed of the calls
themselves or of failures.

## Proofs

For any clients, schema, batches, pool size and bounds that satisfy the named
assumptions of `Transactor`:

* `TypeCorrect`: types; the closure runs exactly in the holder of the lock; nothing
  is pending between write transactions. The invariant needs `AttrKnown`: in
  `apply` the datom's attribute is known, since the step before looked it up.
* `CardOneAlways`, `IdentityAlways`, `CurrentAlwaysLive`: from `SafeInv`, which adds
  to the types that `disk` and `work` both satisfy `TablesInv`. The conjunction is
  needed: superseding deletes by (e, a), and only with one value per CardOne
  attribute is the row logged as retracted the row deleted. `RetractConsistent`,
  `SupersedeConsistent` and `AssertConsistent` show that each statement group keeps
  the tables consistent, also where it stops at a constraint; all other steps leave
  the tables, copy one into the other, or reopen. `CurrentAlwaysLive` assumes
  `~Partitioned`, since a crash that keeps one file alone can break it.
* `CurrentAlwaysRecorded`, partitioned or not: a row gets into `current_datoms` under
  the writer's ID only after that ID is on record, and a crash keeps or loses the two
  tables together, as they are in one file.
* `TxIDsAlwaysFresh`: from `IDInv`, which adds that recorded IDs are below `nextTx`
  and that `work` records no ID beyond those of `disk` but the writer's.
* `LogImplemented`, the refinement `Spec => Log!Spec` for a database of one file.
  `WriteInv` says what the open transaction may have done: `work` continues the log
  of `disk`, every new row carries the writer's ID, and that ID is recorded before
  the first row. `FileInv` adds that facts differ between `disk` and `work` only
  where a new row is about them and that each current row is the logged assertion it
  was made from. With these `Commit` is one step of `Log!Commit` or a stutter, and
  every other step leaves `disk` alone, a restart included. Two files are excluded
  because a crash inside `COMMIT` can then keep facts without their log
  (`LoggedIsRecorded` above).

Of batches, over the invariants above:

* `ProducedAlwaysLogged`: statement groups append to `produced` what they append to
  the log, also where one of them stops half-way.
* `BatchAlwaysApplied`. `Progress` follows the second loop: the datoms before `pos`
  are logged under the caller's ID on the entity their TempID, ID or lookup ref
  stands for, and each key of `seen` is logged, so that a datom skipped as a
  duplicate is in the log too. A TempID keeps its entity to the end of the closure.
* `UpsertsAlwaysFind`. `Directed`: once the first loop has passed a datom, its TempID
  and its identity value lead to one entity, and every current row with that value is
  that entity's (`HeldByChosen`); the second loop keeps this, since such a batch
  asserts identity values on those entities only. It assumes `NonzeroIDs`: callers
  never pass the entity ID 0. The assumption is needed: `lookupEntity` is given 0
  "to exclude none" (transact.go:43), so a fact on entity 0 is found by no upsert
  or lookup ref, while the identity check of an assertion does see it. After
  `Add(0, email, x)` a batch `Add(temp, email, x)` fails, as TLC confirms. The code
  hands out IDs from 1 on, so only a caller that writes 0 itself meets this.
* `NewAlwaysBlank`. `BlankInv` bounds the TempIDs resolved, the identities pending
  and the entity at hand by `nextEID`. It assumes `NothingAssertedByID`: `transact`
  does not advance the counter past an ID that a caller invents.

Of `Views` (`ViewsProofs`):

* `ValidTimeAlwaysCovers`, for any callers, in one file: each current row's own
  assertion is logged, and no later retraction of its fact is.
* `PastNeverChanges`, for any callers and one file or two: when `t` is settled every
  call in progress has a larger ID and `nextTx` is larger still, so a commit appends
  only rows that no view up to `t` selects.
* `QueryAsOfAlwaysSound`, `PullAsOfAlwaysComplete`,
  `PullAsOfAlwaysExact`: for one caller at a time (`OneCaller`), in one
  file. `Serial` says that the ID of the call in progress is above all recorded
  ones and that the log is in the order of IDs, so a commit adds rows no earlier view
  selects; with `Mirrors` of `TransactorProofs` (which assertions `current_datoms` shows)
  the view of the new transaction agrees with the facts it commits. With two callers
  a transaction may commit between two with smaller and larger IDs, so that a view of
  the larger one shows facts of a moment that never was.

Of `Registry`, for any callers, idents and definitions (`RegistryProofs`; assumed:
`NoClient` is no caller, bounds are numbers):

* `TypeCorrect`, `StoreAlwaysKeyed`, `CacheAlwaysStored`, `CacheAlwaysCoherent`,
  `AnswersAlwaysAgree`, `DefinitionsStay`. The invariant adds that calls in progress
  have distinct IDs below `nextEID`, that a row being committed clashes with no
  stored one (the constraints were checked under the lock, and no one else writes
  meanwhile), and that a caller about to `put` finds its row stored. So `put` only
  adds; and what was answered stays true as an ident, once stored, keeps its row.

Of `TxClock`, for any callers (`TxClockProofs`; assumed: bounds are numbers):

* `RealTimeAlways`: a call reads the clock after it took its ID, so its time is not
  behind any recorded before. The invariant needs IDs to be handed out once: else a
  late call could be recorded under an ID that is already before another.

Of `UDFs`, for any goroutines, connections, names and arities (`UDFsProofs`; assumed:
`NoConn` is no connection, there is an arity, the bound is a number):

* `AlwaysCallable`, `NeverOlder`. The invariant: a connection has one holder; what
  was promised is in the registry and `udfsDirty` tells of it; `installUDFs` has at
  most one definition of a name left, as new as anything owed or installed; what is
  owed is installed or still to do.

Of `Values`, at every word width (`ValuesProofs`; assumed: the sign bit and the
nanoseconds of a millisecond are positive):

* `RoundTripAlways`. `InferredAlwaysEncodes`. `FloatOrderAlways`: the blobs of floats
  keep their order. `IntOrderAlways`: those of integers, references and instants keep
  it within one sign, and the sign bit puts the negative ones last.

Of `Pull`, for any tables, patterns, commits and failing statements (`PullProofs`;
`PatternsAssumption` says that nested patterns are patterns):

* `ListsAlwaysInstants`, `PullAlwaysExact`. `PullInv` says of each frame of the stack
  what it has so far: a wildcard holds the entries of the rows it has passed and the
  rows to come, all of one table; a pull by name has finished the attributes before
  `at`, and in `step` its `vals` are those of the rows its cursor has passed, and the
  cursor has the others (`StepOK`). A frame below the top waits at a reference for
  the entity of the frame above it (`Waits`), which fixes what it will take from the
  answer. Above a frame that waits inside the cursor of a CardMany attribute there are
  only wildcards (`Quiet`), which leave the shared statement alone. Everything in `pulled` is `Sound` and from instants (`AnswersOK`), so an
  answer that is delivered keeps its level right without a look at the levels below.
* They assume `TablesKeyed`: a table is finite and has one row per fact and per entity
  and CardOne attribute. `CardOneAlways` proves that of `current_datoms`; of a view it
  has to be asked for, as a view by valid time may show two values. And `CallsPlain`:
  the keys of a pattern differ, and a CardMany reference is followed by a wildcard if
  at all. Without the second the code is wrong (`CirclesEnd` above); with it all
  other patterns are covered, named under CardOne, and wildcards anywhere. `pull_all`
  satisfies both.

Of `Recursive`, for any rules of the parser's shape and any datoms
(`RecursiveProofs`; `RulesAssumption` and `DatabasesAssumption`):

* `ListingFacts`: `Listing` holds exactly the pairs of its set. The rank of a pair, the
  number of those before it, is an injection into the positions and so onto them.
  With it the statements of a plan are inserts of the rules, seeds and clears
  (`BaseTyped`, `DeltaTyped`), and `BoundSame`: without a constant in the head every
  placeholder gets its own constant.
* `DerivedAlwaysSound`. `SoundInv`: the tuples have the columns of their rule's head,
  and delta tables hold only derived rows, so what a statement selects with either
  follows from the derived ones. A binding of the stored columns becomes one of the
  values by dropping the storage class; that keeps joins, constants, and comparisons
  within one class. It assumes `RulesPlain`: accepted rules have no constant in a head,
  and each comparison is between two entities (or constants), between two values, or
  asks whether a value is less than an entity, which no row satisfies. The deviations
  `HeadRules` and `FilterRules` above show what the others do. All plans of
  `rules_sound` satisfy it.
* `BaseAlwaysComplete`. `BaseInv` follows the run through `BaseSQL`: the insert of a
  rule that refers to no rule is still ahead, or its rows are in the table, where they
  stay; as it reads no rule's table, its rows do not depend on when it runs. Here a
  binding of values becomes one of stored columns by making values blobs, which needs
  `Separated`.

Only model-checked:

* `CallReturns` and `PullReturns`: fairness and ENABLED are outside the proof system
  used.
* `AnswerIsRight`, `ParsedAsWritten`, `ReadsWhatIsThere`: queries and EDN are nested
  data, and what is meant by them is defined by RECURSIVE operators, which take the SMT
  backend from every module that reaches them. What a recursive definition computes for
  every input needs an induction over data that the installed provers cannot
  instantiate.

## Not modelled

* How the lexer cuts characters into tokens; the parsing of rules.
* Of queries: aggregates and GROUP BY, the order of rows, calls of user functions in
  filters, comparisons of other than two arguments, floats, booleans and instants as
  values, views by valid time (but for the facts they select, in `Views`),
  `WithRawAttributes`, and plain typed columns of databases from before they existed.
* Loss of committed transactions at power failure (`synchronous=NORMAL`), column
  migrations and indexes.
* `Unique`, which no code enforces; entity IDs below 1000 being reserved
  (pool.go:203-205 does nothing).
* The conversion of a user function's arguments and result; expression clauses of
  rules other than `<` and `!=`.

## Plan

Done: the storage and the transactor first, as everything reads what it writes;
then the views, the registry, encodings, functions and recursive plans; types,
the table invariants and ID freshness proved; then pulls, queries from text to rows,
and overloads; the registry, the clock and the functions proved; then the refinement
of `DatomLog`, batches, views and encodings; then pulls and the plans of rules.

Next, in this order:

1. A composition of `Registry` and `Transactor` over the shared ID counter, with an
   attribute lost by a failed commit.
2. Longer valid-time histories in `Views`; aggregates in `Query`.
3. That the tables of `Transactor` and the views of `Views` satisfy `TablesKeyed` of
   `Pull`, as a composition of the modules.
