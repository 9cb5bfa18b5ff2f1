# Verification of mongo-overview-tool

TLA+ modules, TLC configurations and TLAPS proofs for the collector SDK of
`mongo-overview-tool` (`src/pkg/mot`, with the parts of `src/pkg/mongo`, `src/cmd`
and `src/utils` it rests on).

## 1. The system

`mot` reads the state of a MongoDB deployment (replica set or sharded cluster)
through *collectors*: Overview, CollStats, CheckShard, Slowlog, Capacity, Doctor,
Hotspot, IndexAudit (with an optional check of the consistency of indexes between
shards), CurrentOperations. The CLI (`src/cmd`) and the
Go SDK (`src/pkg/mot`) share them. One writing operation exists, bulk delete/update.
The state lives in a few places:

| component | state it keeps | operations | who it interacts with |
|---|---|---|---|
| **Derived connection pool** (`session.go`) | pooled connection per key, singleflight group, `closed`, `closeOnce`, counters | `derivedConnection`, `Close`, `Stats` | every collector that talks to single nodes; the driver |
| **Remote slots** (`session.go`) | a FIFO weighted semaphore of the session, one semaphore per capability call, `remoteInFlight`, peak | `acquireRemoteSlot`, `acquireCapabilityRemoteSlot` and their release functions | every remote operation of every collector |
| **Shared inventories** (`session_catalog.go`, `session_discovery.go`, `session_replica.go`) | topology, shards, databases, collections, replica-set inventory, each loaded through a singleflight group | `databaseNames`, `collectionMetadata`, `clusterTopology`, `shards`, `replicaSetInventory`, `rememberReplicaSetInventory` | use remote slots while they load |
| **Bulk writes** (`bulk.go`) | totals of one run | `BulkDelete`, `BulkUpdate`: count, cursor, batches, retry, pause | the driver, the caller's hooks |
| **Index consistency** (`index_consistency.go`, `index_consistency_source.go`) | per collection: strategy, fallback, coverage, two observations, verdict | `collectIndexConsistency`, called by `IndexAudit` | slots, inventories, derived connections, index builds |
| **Index audit in batches** (`index_audit_batch.go`) | nothing but the cursor the caller holds: identity, scope, catalog, position | `IndexAuditBatch` | the catalog inventory, `IndexAudit` |
| **Diagnostics gate and errors** (`diagnostics.go`, `errors.go`, `pkg/mongo/diagnostics.go`) | capability registry, statuses and errors of one call | gate, classes of failures, `PartialError` | every collector |
| **Doctor, Capacity, Slowlog, Hotspot, Index audit** | per-target results, statuses, collector errors; `Slowlog` also where a query was found, `Hotspot` two snapshots | one capability each; `DiffCapacity`, `SlowlogDetail` | slots, derived connections, errgroups |
| **Overview, CollStats, CurrentOperations** | per-target results | one capability each, all or nothing | slots, derived connections, errgroups |
| **CLI, signals, retry, progress, log, config** (`src/cmd`, `src/utils`, `src/internal`, `src/pkg/progress`, `src/pkg/log`) | flags, terminal lines | commands | everything above |

The behaviours that are hard here: dials that outlive the call that started them and
race with `Close`; a flight led by one caller's context and shared by others; slots of
two semaphores taken and returned in opposite orders; an inventory remembered by one
path while another loads it; a bulk run whose cursor fails between batches; an
index verdict that must not be called without complete coverage; a batched audit whose
catalog changes between two batches, or between two reads of one listing; a collector
that fails, or a context that ends, in the middle of a fan-out that must report it and
go on; a server that restarts between two readings of its counters. Each is listed, at
its line, under `hazards` in `PROJECT.json`, with the properties that cover it.

## 2. Modules

Each component has a module of its own; the `MC*` module beside it names model values
and instances, the `.cfg` files choose bounds, and the `*Proofs` module holds theorems.

| module | what it is | composes with |
|---|---|---|
| `ConnectionPool` | abstract specification: what the pool promises its callers | |
| `DerivedConnections` | the pool as it is written | refines `ConnectionPool` (`PoolSpec`) |
| `DerivedConnectionsProofs` | theorems about it | |
| `RemoteSlots` | the session's semaphore and those of capability calls | |
| `RemoteSlotsProofs` | theorems about it | |
| `SharedInventory` | the inventories, whose loads are operations of `RemoteSlots` | EXTENDS `RemoteSlots` |
| `SharedInventoryProofs` | theorems about it, on top of those about the slots | EXTENDS `RemoteSlotsProofs` |
| `Bulk` | one bulk delete or update | |
| `BulkProofs` | theorems about it | |
| `IndexConsistency` | the audit of the indexes of sharded collections | |
| `IndexConsistencyProofs` | theorems about its evidence, fallbacks and errors | |
| `ConsistencyHistoryProofs` | theorems that compare its verdicts with what the cluster had | EXTENDS `IndexConsistencyProofs` |
| `IndexAuditBatch` | an index audit continued call by call with a cursor | |
| `IndexAuditBatchProofs` | theorems about it | |
| `Collectors` | what the read-only capabilities share: jobs, answers, statuses, errors, the gate | |
| `StrictCollectors` | Overview, CollStats, CurrentOperations | EXTENDS `Collectors` |
| `Slowlog`, `Doctor`, `Capacity`, `Hotspot`, `IndexAudit` | one capability each | EXTEND `Collectors` |
| `Diagnostics` | one call of any capability, and the properties of all | EXTENDS the six modules above |
| `DiagnosticsProofs` | theorems about it | |

They were written in the order of this table: first what every collector rests on
(pool, slots, inventories), then the only operation that writes, then the collectors
whose answer depends most on the order of their readings, then all the others.

### DerivedConnections

A member of `Calls` is one `derivedConnection` call, `Closers` are goroutines in
`Close`. `closed`, `connections`, `hits`, `opened`, `failures` are the fields of the
session; `pc` says where a call is (`idle`, before `requireOpen`; `lookup`, before the
first look at the pool; `join`, before `DoChan`; `wait`, in the `select`; `count`, before the
statistics; `done`), `phase` where the function in the singleflight group is (`check`,
`dial`, `publish`, `discard`, `settle`), `life` what the driver has of each connection,
`toClose` what `Close` has taken out. Steps end where the code unlocks, sends, or
blocks. A dial runs under the context of the call that started it, which may be gone
long before the dial ends: the flight goes on, publishes its connection, or finds the
session closed and disconnects. `ctxDone` becomes true at any time
between a call's beginning and its return.

The refinement maps a call's place to *idle*, *pending* or *answered*, its result to
its answer, and leaves `closed` and `life` as they are; singleflight, pool, counters and
the two-step `Close` disappear.

### RemoteSlots

`at` follows an operation through `acquireCapabilityRemoteSlot`: token of the
capability (`limit`), `closed` (`open`), token of the session (`ask`, `slot`), `closed`
again (`reopen`), counters (`enter`), the work, and the release function (`giveback`,
`unlimit`). `queue` and `used` are `semaphore.Weighted` with weight 1: tokens go to
waiters in order of arrival, and a waiter whose context ends leaves the queue, even if
its token has just been granted.

### SharedInventory

All six inventories follow one protocol: look, join the flight of the key, look again,
take a slot, read, store, give the slot back, answer those who joined. The module
EXTENDS `RemoteSlots`, so that a load is an operation there and competes with others.
`server` changes while nobody looks. `Readers` are Doctor and Overview operations, which
read a replica set's members themselves and offer them with
`rememberReplicaSetInventory`. `EmptyVersions` and `NilKeys` describe an empty list in
a Go slice, which is `nil`.

### Bulk

`at` follows `runBulk`: count, open the cursor, read the next `_id`, a full batch,
execute, pause, back off. `doc` is what the filter says of each document; other clients
change and delete documents at any time, an update of the call itself leaves a document
matching or not according to the operation. An execution that fails may have written
all, none or a part of its batch. A cursor that fails is opened again under the
conditions of `shouldRetryBulkCursor`.

### IndexConsistency

`phase` follows `collectIndexConsistency` (routing of all collections, server version,
shards, the server's own check of whole databases, dispatch), `audit[c]` the goroutine of
collection `c`: which strategy and fallback it is at, what it has read of each shard
(`first`, `second`), what the server said (`official`) and its `verdict`. Every reading
is a step, reading each shard is a step of its own, and each may succeed, lack privileges,
fail, or run out of time. `Candidates`, `Legacy`, `Official`, `WithGap`, `WithBuilds` are the
evaluation functions of the code over sets instead of sorted slices. An index is a name,
a semantic fingerprint and whether it is being built. Environment actions start and
finish index builds, drop indexes, and move chunks. A change before the
routing is read only amounts to another initial catalog; the module leaves it out.

### IndexAuditBatch

`call` is the call of `IndexAuditBatch` in progress: which identity and scope it has, its
limit, the cursor it came with, what it has listed so far (`dbs` are the databases it has yet
to list, `found` the collections it saw), and where its batch ends. `catalog` changes at any
time, also between the listings of two databases, so that a call may see a catalog that never
existed. Nothing is kept between two calls but the cursors. A cursor is modelled as a
*chain*: the values it binds (identity, scope, sorted catalog, position), and with them its
history, which no action looks at: how often each name has been audited along the chain, which
collections have existed since it began, whether its scope has been quiet, and the smallest
limit. The signature and the two hashes are taken as the values they stand for: no
collisions, and no cursor but one that was given out passes. The caller may use any cursor
it was given, twice, in any order, with another limit, identity or scope.

### Collectors, the capabilities, and Diagnostics

A *job* `<<what, of whom...>>` is one request, from the slot it waits for to its answer; it
is one step here, because `RemoteSlots` and `DerivedConnections` are about what is
inside it. `todo` has the jobs handed out and not answered yet; all of them may be
answered in any order, as the goroutines of the code run. The answer is `ok`, `unauthorized`,
`unsupported` (the classes of `classifyDiagnosticError`), `failed`, `none` (nothing there,
where the code tells it apart) or `refused` (no slot: the context has ended, or the session was
closed). An answer adds a status, an error and data or nothing of these, exactly as the code
at that place does, and may make further jobs ready; a group the code waits for is over when no
job of it is in `todo` (`GoOn`, `AfterLast`), and a loop that checks the context between two
jobs may break off (`BreakOff`). `heard` is a history of answers that only `Successful`
of Doctor and `SlowlogDetail`'s place look at, for what the code keeps in local counters.
`Stop` ends the context at any time, `faults` bounds how many requests fail.

Each capability has an action for every job it knows, one for every early return, and
one for its last return with the rule that decides between no error, a `*PartialError`
and a plain error. The findings of Doctor, Hotspot and IndexAudit, and
`DiffCapacity`, are operators over what was kept. What these modules abstract:
`Collect` keeps a collection of Capacity when it is read, though the code appends it to its
database at the end (a cancelled database loop therefore loses it, in the model by
`Snapshot`); the identity of the cluster is read with the listing; the hosts of a shard
are well-formed; views and time series are skipped; an empty selection and an empty
URI are not among the calls; the two errors of a Hotspot reading are joined into a class,
as `classifyDiagnosticError` does; a Hotspot reading carries the `life` of the process
it belongs to, which the code cannot see and only a property looks at; the consistency
check inside `IndexAudit` is one step, `IndexConsistency` being its inside. Every capability
but IndexAudit lists the shards of a cluster before it does anything else (`Detect`); IndexAudit
lists them when it looks for the nodes to ask (`IndexAuditShards`), a read that the session has
cached only if the comparison made it, and whose failure leaves no node to ask. What
CurrentOperations finds in the operations it lists is left out, as are sizes, rates and
the numbers of CollStats and Overview.

## 3. Runs

| run | instance | distinct states | what it shows |
|---|---|---|---|
| `pool_full` | 3 calls, 2 keys, 2 closers | 1 040 000 | no connection is lost or disconnected twice, or handed to another key, no key has two, counters agree with returns, `Close` is complete, every call and every `Close` returns and nothing stays open, and the pool implements `ConnectionPool` |
| `slots_full` | 4 operations, 2 slots, a capability of 1 and one of 2 | 332 000 | every token has an owner, the smaller limit holds, every operation that starts ends wherever it waits, who was waiting when the session closed never works |
| `inventory_full` | 2 calls and a reader, 1 slot, a server that changes | 419 000 | all callers get one snapshot until somebody remembers another, nothing is forgotten, every call returns |
| `bulk_full` | 3 documents, batches of 2, 10 sets of options | 101 000 | nothing is written twice, the report is true, success is complete, cancellation stops, the call ends |
| `consistency_full` | 1 collection on 2 shards, 2 names, 2 specs, 7 catalogs, 1 change, all strategies | 4 047 000 | every verdict is supported by what was read, every warning by what was there, and on a quiet cluster the verdict is right |
| `audit_batch` | 4 names in 2 databases, 3 calls, 2 changes, limits 1 to 3 and 4 too many, 2 identities, 2 scopes | 2 563 000 | no chain of batches audits a collection twice or misses one, databases are split only when they must be, and a cursor is refused only for a reason |
| `diagnostics` | all capabilities, 6 deployments, up to 3 failing requests | 1 418 000 | no failure is lost, nothing is left out in silence, and no finding says more than was read |

and five runs that TLC must find violated, for the disagreements of section 6:
`pool_cancel`, `inventory_empty`, `consistency_moving`, `diagnostics_partial`,
`diagnostics_unreachable`.

*Properties that no run lists.* Some invariants are proved for every instance (section
5), so that no run repeats them: the type invariants of the pool, the slots and the
bulk write, `PeakWithinLimit`, `CursorClosed`.

*Why the bounds are enough.* Of two calls on one key, one leads and the other joins
its flight, arrives after it, or looks before it and joins after it; a third on another key
makes a mixed-up connection visible; two closers are what `closeOnce` is for. A dial's own
timeout (`DialTimeout`) is left to the theorems of section 5, which prove everything `pool_full`
checks but its two liveness properties, for any number of calls. Four operations on two slots, of two capability calls and
of none, make both semaphores queue at once. A second slot-holder is what an inventory call
could deadlock with. Three documents in batches of two give a full batch, a partial one, and
a cursor that fails before, between and after them; two retries reach the last attempt and one
before it. The comparison of indexes is by name and by fingerprint, so two of each give every
kind of disagreement: missing, renamed, respecified, built. A batched audit needs a database
that fits and one that does not: one name and three, with limits below, at and above
three; two changes drop a collection and create it again, as another kind under the
same name or as itself, between two calls or between two listings of one call; three calls
give a chain of three, or two chains from one cursor.
In `diagnostics` a replica set has a primary, a secondary and one member that is an arbiter,
down, recovering or a second primary, and a cluster has two shards with one member each, one
of them perhaps without a primary; two databases let one fail and one not, and two failures
meet the rules about an error that hides another. CurrentOperations gets three, for its four
ways.

*Bounds that hide something.* In `consistency_full` the cluster changes once while the
audit runs (`MaxChanges`): enough for a first reading to show a difference that is gone
when the shards are read again. With one change the two sides of a reported difference
must have been there at one moment; with more, definitions that come and go in step
with the readings can make two readings agree on what never was at once, and
`WarningsAreReal` (see `Moments`) says of each side that it was there since the first
reading was over. The theorem `WarningsReal` is about any number of changes, shards and
catalogs. Three of the catalogs have an index that is being built on one shard, whose name the
other does not have or has for another definition: what the comparison then leaves out
decides both properties below.
One collection makes `Concurrency` irrelevant; the goroutines of different collections
share only `errors` and, per database, the server's own answer.
In `diagnostics`, Doctor, Capacity and IndexAudit meet one failing request besides any
number that the end of the context refuses: their fan-outs are the widest, and what one request
adds does not depend on how the others fared, except in the last return, whose rules
read only which groups have failed.

`WarningsAreReal` and `VerdictOfCalmCluster` are checked with history variables: `was`, the
catalogs a collection has had, and `lately`, those since the first reading was over. Both make
room for one thing the code does: what is being built takes its *fingerprint* out of the
comparison on every shard, under whatever name (`index_consistency.go:906`), so that an
index of that kind may be called missing on a shard that has it under another name, and an
index settled on one shard is not missed on another that is building one like it. They are about
audits that read expected shards only; the run `consistency_moving` shows why.
`FailuresReported` excludes two early returns of
`auditIndexConsistencyCollection` (no expected shards, `index_consistency.go:302`; missing
shard target, `:311`), which drop a failure of the database's own check, and the
cancelled audit.
`NothingLost` leaves out what `Hidden` names, a node of Overview that cannot be dialled
(listed without details) and discovery errors of a Hotspot that could read no node.
`Covered` is about results that claim to be complete (no error) and about partial ones of
a context that did not end. It expects no node of an IndexAudit that could not list the shards,
provided there is an error (`Unlisted`). `UnusedIsEarned` wants the word of members that are up;
`UnreachableIsInconclusive` is about those that are down. `NoRateAcrossRestart` exempts a restart that the uptime cannot show,
or that a server did not report.

Deadlock is checked in every run: each next-state relation stutters explicitly in its
quiet final states only.

## 4. Fairness

Weak fairness is assumed of what the Go scheduler, the driver and the semaphore do:
a goroutine that can run runs, a dial ends (it has a timeout, a context, or the driver's
own limit), a remote read returns, a semaphore serves its queue. It is *not* assumed
of what others decide: calls begin, contexts are cancelled, `Close` is called, the server changes,
other clients write. In `Bulk` timers have no fairness in the specification, because
`CancelEnds` must hold however long a pause is; `CallEnds` adds it as a premise.
`EveryOperationEnds` and `EveryCallReturns` therefore rest on remote operations ending.
`IndexConsistency`, `IndexAuditBatch` and `Diagnostics` state no fairness: their calls are
finite and without loops, and the absence of deadlock is what ends them.

## 5. Theorems

`tlapm` proves all of these for every value of the constants that the named
assumptions allow: finite sets of calls, operations and documents, any limits and batch
sizes, any catalog, any deployment, whatever servers report (`PoolAssumption`, `SlotsAssumption`,
`InventoryAssumption`, `BulkAssumption`, `ConsistencyAssumption`, `BatchAssumption`,
`CallsAssumption`, `DeploymentsAssumption`, `DoctorAssumption`, `HotspotAssumption`). What the
last four ask for is what the driver and the servers give: replica sets are finite and a client
without a mongos sees one of them, wire versions, uptimes and counters are naturals, and a
call of Slowlog says whether it wants details. TLC evaluates the assumptions in every run.

| module | theorem | property |
|---|---|---|
| `DerivedConnectionsProofs` | `TypeCorrect`, `ConnectionsOwnedOnce`, `RightConnection`, `CloseComplete` | `TypeOK`, `OwnedOnce`, `ReturnedConnection`, `CloseIsComplete` |
| | `OneDialPerKey`, `HitsAccounted` | `OneConnectionPerKey`, `HitsExplainReturns` |
| | `ImplementsPool` | `PoolSpec`: initial states map to initial states, every step to a step or a stutter |
| `RemoteSlotsProofs` | `SlotsTypeCorrect`, `NoTokenLost`, `PeakBounded`, `SmallerLimit` | `SlotsTypeOK`, `TokensAccounted`, `PeakWithinLimit`, `SmallerLimitHolds` |
| | `ClosedNeverWorks` | `ClosedWhileWaiting` |
| `SharedInventoryProofs` | `InventoryTypeCorrect`, `SnapshotShared`, `InventoriesKept` | `TypeOK`, `OneSnapshot` (where no inventory is a slice, or none is empty), `NeverForgets` |
| | `LoadsGiveBack` | `TokensAccounted`, for loads as operations of `RemoteSlots` |
| `BulkProofs` | `BulkTypeCorrect`, `WrittenOnce`, `TrueReport`, `SuccessIsComplete`, `CancelStops`, `NoCursorLeft` | `TypeOK`, `AppliedOnce`, `ReportIsTrue`, `CompleteWhenDone`, `StopsAtCancel`, `CursorClosed` |
| `IndexConsistencyProofs` | `ConsistencyTypeCorrect`, `EvidenceNeeded`, `FallbacksExplained`, `FailuresTold` | `TypeOK`, `ConsistentNeedsEvidence`, `FallbackExplained`, `FailuresReported` |
| `ConsistencyHistoryProofs` | `WarningsReal`, `CalmVerdictRight` | `WarningsAreReal`, `VerdictOfCalmCluster` |
| `IndexAuditBatchProofs` | `BatchTypeCorrect`, `NoCollectionTwice`, `NoCollectionOmitted`, `DatabasesWhole`, `CursorStaysGood` | `TypeOK`, `AuditedOnce`, `NothingOmitted`, `WholeDatabases`, `NoSpuriousRefusal` |
| `DiagnosticsProofs` | `DiagnosticsTypeCorrect`, `NoFailureLost`, `VisibilityTold` | `DiagnosticsTypeOK`, `NothingLost`, `VisibilityHonest` |
| | `EverythingAsked` | `Covered`, for all seven capabilities that go on after a failure |
| | `NoRateOfTwoLives`, `RemovedHasReason`, `UnusedHasEvidence` | `NoRateAcrossRestart`, `RemovedIsExplained`, `UnusedIsEarned` |

**Pool.** `OwnedOnce` is not inductive: it does not say how far a dial has got.
`IInv` adds what answers may contain (`AnswersOK`), that the leader of a dial has no connection
before it dials and that a key being dialled has none pooled (`FlightOK`), that a
closed pool is empty (`PoolOK`), that a connection exists only for a call that has
joined (`LifeOK`), and that `closeOnce` lets one goroutine disconnect (`CloseOK`).

**Slots.** `SlotInv` adds that nobody queues twice, and only where its code is waiting
(`QueueOK`), and that the counter is the number of operations at work (`CountOK`). The
peak bound then follows from counting: who is counted in owns a token.
`ClosedWhileWaiting` is not an invariant: `TurnedAway` names the places from which a
closed session cannot be entered, and the proof shows that no step leaves them.

**Inventories.** A step of `SharedInventory` is, for the variables of `RemoteSlots`, a step
of an operation there or none, so `SlotInv` carries over and `LoadsGiveBack` with it.
`InventoryInv` adds that a flight is led by a call about its own key, whose slot is not given
back while it loads (`FlightOK`); that only an operation that had its slot, and was not
refused, has read (`ReadOK`); and that, until somebody has remembered it, an inventory is absent
while it is loaded, and whatever anybody was given is what is kept (`SnapshotOK`). `NilKeys = {} \/
EmptyVersions = {}` is the hypothesis of `SnapshotShared`, because an empty slice is not stored:
the run `inventory_empty` shows the second load that follows.

**Bulk.** `BulkInv` says where the documents are: what is due or gathered is not
written (`Fresh`), what still matches is due, gathered or written (`StillToDo`), an attempt
begins only when nothing is written (`LoopOK`), a cursor is open exactly while it is read
(`CursorOK`), and after cancellation nothing new is on its way (`NothingNew`).

**Index consistency.** A verdict rests on readings that lie several steps and perhaps two
strategies back. `ConsistencyInv` therefore says what each place of a goroutine implies
(`PlaceOK`: a collection past `start` is sharded, can be reached and has expected shards, and
the strategy is the one whose step is next), that the strategy in use is the version's unless
the record of the fallback says otherwise (`FallbackOK`), that the answer of a database
is the one read before the goroutines began (`AuditOK`, `ScopesAsked`: after a cancellation it may be
missing, which `Evidence` then refuses), and that `Evidence` holds of every verdict
"consistent". The operators that weigh observations are lemmas: `Legacy` and `Official` say
"consistent" only on such evidence. For `FailuresReported`, `FailureOwed` says that a failure
that is not in the errors yet is *owed* by some collection still under way
(`Owes`), and each step hands the debt on or pays it. The cluster's own steps touch none of this,
which is why the theorems hold for any number of changes.

**Verdicts and history.** `HistoryInv` follows each observation back to the catalogs it was
made of. What a shard was read to have is what one of the catalogs in `was` had there, perhaps
without the marks of builds that `listIndexes` does not give (`Raw`), and with the marks of the
build names that were seen once it is weighed (`Marked`, `FirstOK`); the second observation is
of catalogs in `lately` on every expected shard (`SecondOK`). From there on it is about pure
operators: `Unbuilt` and `Mark` leave names and specifications alone (`MarkFacts`), each kind of
difference says of the observation what `Told` says, and two catalogs that are one change apart
agree on all shards but one (`Close`), so that a difference between two shards that was seen in
two readings was there at one moment. Two assumptions carry it. A server has one
definition of a name and one name of a definition (`OneEach`, kept by every action of the
cluster). And the cluster changes one shard at a time. The proof is what showed that both
properties had been stated too strongly, and TLC then found the counterexamples, with catalogs and
bounds the runs did not have. `WarningsAreReal` had asked for one moment at which both sides
of a difference held, after any number of changes. `VerdictOfCalmCluster` had not seen that
with an index being built the code leaves out all that bears its name, and the kinds of
that, nor that without a whole observation a build may be unknown. Section 6 says where this
parts from the documents.

**Batches.** `AuditedOnce` says nothing of positions. `BatchInv` says of every chain that it is
*grown* (`Grown`): its listing is that of some catalog, a name counts one audit if it lies
at or before the position and none after it, what has stayed is in the listing, and the
position is the end of a database or within one larger than the smallest limit. The same
holds of the chain a call continues (`FromOK`); a listing under way has every collection
that stayed in the databases it has read (`ListingOK`); and a batch begins where its chain
ends, in an unchanged listing (`BatchOK`). That the end of a batch exists and is a largest
element is the one place where arithmetic is not enough: it follows from the
well-foundedness of `<` on the naturals.

**Capabilities.** `NothingLost` speaks of calls that have returned. `DiagInv` says of one that
runs that every failure heard is among its errors (`LossOK`), that nothing has failed while
the entrance is still under way (`EntranceOK`, which the gate's early return needs), and that
`SlowlogDetail` asks for its document only where nothing has (`DocumentOK`). Each of the sixty or
so actions is shown to be one of a few shapes (`Going`, or a return by the rule of
`ReturnEnds`), so that a new collector needs one short step. `AskedOneByOne` then carries
`VisibilityHonest`: one question of CurrentOperations is under way at a time, and the one about
one's own operations follows a denial.

`Covered` speaks of the last step and of all that led to it. For each capability a *cover*
(`OverviewCover` to `IndexAuditCover`) says of a call that runs that everything the answers
so far call for is in `todo` or has been asked, or that it is still at the entrance
(`Door`, `Listing`), or that the end of the context has cut something off, and then an error
is there that the result will not leave out (`Lost`). The delicate one is Hotspot,
which drops the errors of the discovery when no node could be read: `HotspotLost` shows that
a reading that was refused has then left an error of its own. At the last return `todo`
is empty, so that what the cover says was asked is `Expected`. For IndexAudit, `NodesAsked` follows the
list of the shards: it is still to be read, or it has named the sets whose nodes are asked, or it
has left an error. A step that is not the
entrance's is shown to be of one form (`Hears`, `GoOn`, `BreakOff`), about which the lemmas
say what stays handled.

Two of the other three rest on when things were read. For `NoRateAcrossRestart`, `SamplesOK`: a
node has at most one reading of each round, and while the first may still be read no second one
is asked for. For `RemovedIsExplained`, `SnapshotOK`: a collection that was asked for is in
the snapshot, has left an error or a status that excuses it, and what the end of the context
takes out of a database leaves an error. For `UnusedIsEarned`, `UsageOK`: a node tells once how
a collection's indexes were used, and the targets of a replica set that could be reached are all
its members that are up and hold data, so that complete evidence is the word of each.

**Only model-checked.** Liveness: `EveryCallReturns`, `CloseDrains`, `EveryOperationEnds`,
`CancelEnds`, `CallEnds` (fairness and ENABLED are outside what the provers treat). Every
invariant and every action property of a passing run is a theorem. The properties of the violated
runs are what the documents say and the code does not do.

## 6. Where the code and its documents disagree

Five of them are runs, each of a property that quotes the document:

1. `pool_cancel`: a dial runs under its leader's context, so a call with a live context is
   told it was cancelled when the call it joined is (`session.go:237`).
2. `inventory_empty`: an empty database list is stored as `nil` and never cached
   (`session_catalog.go:100`).
3. `consistency_moving`: holders of an index are counted over all observed shards,
   the expected ones or not (`index_consistency.go:923`, `:961`); after a chunk has moved to a
   new shard, an index missing on an expected one is overlooked.
4. `diagnostics_partial`: Doctor counts a replica set as successful only where nothing
   of it failed, and where no set is and no finding is severe enough its error is a plain
   one, though collectors succeeded (`doctor.go:171`; `goals/01:132` wants a `*PartialError`).
   The minimum severity a caller asks for thus decides the class of its error.
5. `diagnostics_unreachable`: IndexAudit expects the word of the nodes that discovery kept, which
   a member that is down is not among (`hotspot.go:162`, `index_audit.go:434`): an index is
   called an unused candidate though that member may use it. `goals/04:86` wants
   `usage_inconclusive` when some nodes cannot be reached; `:80` asks only for those that can.

Others were noticed while modelling. The modules do what the code does; no run is about them:

- A batch of `Bulk` is sent by `_id` without the filter: a document changed since it was
  read, which no longer matches, is written all the same (`client.go:358`).
- Capacity, cancelled in its database loop, loses the collections it has read of the
  databases it has not come to (`capacity.go:265`; `goals/01:134` keeps what was collected).
- `DiffCapacity` calls a collection removed that a partial snapshot lacks; a caller
  must look at the snapshot's errors and statuses (`RemovedIsExplained`).
- Hotspot takes a restart for none when the uptime does not show it and no counter has fallen
  (`goals/03`, `node.counter_reset`).
- Hotspot's return without any reading drops the errors of the discovery (`hotspot.go:122`),
  and its joined errors of `serverStatus` and `top` are judged by the first that has a code,
  so that a missing privilege may hide a failure.
- The consistency audit leaves what a shard is building out of the comparison by its
  fingerprint too (`index_consistency.go:906`): an index that is settled on one shard under one
  name is not missed on a shard that builds the same under another (`08:210` speaks of single
  indexes). And where a `collStats` failed, the builds it would have shown are unknown to the
  direct strategy, which compares as if all indexes were complete.
- A `collStats` of IndexAudit that fails, or is not allowed, is an error without a status, and
  so is a list of the shards (`hotspot.go:173`).

## 7. What is not modelled

- In the modelled components: observer callbacks, time stamps, copying of cached
  values, wording and order of findings and statuses. In `Bulk` the cursor returns each document at
  most once and no new matching document arrives. In `IndexConsistency` the `_id` index, which
  every shard lists, is left out, and so is what fields of a definition differ. What the
  capabilities leave out is listed with their modules in section 2.
- External, modelled from their use: `semaphore.Weighted`, `singleflight.Group`, contexts, the
  driver, MongoDB.
- Retry and signals: `Do`, `DoWithContext` and `DoCondition` have no caller in the program, which
  uses only the constant `DefaultSleep` (`bulk.go:186`); `Bulk` models the retries the code
  itself makes. `SetupSignalCancel` cancels a context, which every module may do at any time;
  its second stage exits the process.
- Driver access: decoding of server answers and URI building are data without state of
  their own.
- Flag parsing, terminal output, configuration, logging and progress keep no state that two
  steps share.

## 8. Plan

The plan of the project was: pool, slots and inventories; bulk writes; index consistency; batched
index audits; all other collectors over one notion of job; proofs of most of it. What
is left:

1. A run of `IndexConsistency` with two collections, which share the server's answer per database;
   the theorems are about any number.
2. The proofs of the capabilities follow their actions one by one; what the covers have in
   common could become a lemma about any set of dependent jobs.
