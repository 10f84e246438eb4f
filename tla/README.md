# TinyJoin in TLA+

TinyJoin is an embedded SQL database for the browser. A Rust core
(`src/crates/tinyjoin-core`), compiled to WebAssembly, keeps tables in copy-on-write
B+trees over a page file. A TypeScript layer (`src/src`) runs that core in Workers, one
for each tab, elects the one that owns the file, and routes every tab's SQL to it.

This directory holds TLA+ models of that system, from the bytes a crash leaves in the
file up to the tabs that change owners. TLC checks each model on small instances, and
TLAPS proves the main guarantees of the pager, the storage engine, the broker and the
coordinators for every instance. `PROJECT.json` lists, for each definition, the source
lines it translates.

## Inventory

| Component | State | Operations | What makes it correct |
|---|---|---|---|
| **Pager** (`pager.rs`, `page.rs`) | two superblocks, a paired allocation bitmap in chunks, data pages; the active root; one candidate | open, initialize, recover; begin, allocate, write, release, free, commit, abort | a commit is atomic and durable at its flush; the active root is never overwritten; every crash leaves a file that opens |
| **Page device** (`device.rs`, `page-device.ts`, `page-storage.ts`) | a file, seen now and as last flushed | read, write, append, flush | writes are durable only at a flush; a partial tail is dropped |
| **Page cache** (`cache.rs`) | frames, dirty candidate pages, reservations | read, write, evict, install, discard | bounded memory; never evicts what is pinned |
| **B+tree** (`btree.rs`) | nodes and overflow chains in pages, a fingerprint of each subtree | get, scan by cursors, apply a batch, upsert, delete, reclaim | a sorted map; no page lost or shared; fingerprints are those of the contents |
| **Row and key codec** (`paged_codec.rs`, `page_codec.rs`) | none | encode and decode keys, index entries, records | rows read back as they were; keys sort as their values |
| **Paged storage** (`paged_storage.rs`) | the confirmed catalog, trees of tables and indexes | open, commit, visit rows, visit an index | indexes mirror their tables in every published revision |
| **Transaction overlay** (`paged_transaction.rs`) | staged rows, unique claims, totals, savepoints | stage, read through, commit, drop | a failed statement or script leaves no trace; limits are exact |
| **Engine** (`paged_engine.rs`, `engine.rs`) | the open transaction, prepared statements | execute, exec, begin, commit, roll back, reopen | a serial database |
| **Statements and foreign keys** (`statement.rs`, `foreign_key.rs`) | none between calls | plan INSERT, UPDATE, DELETE; enforce | a statement has its relational effect or none |
| **DDL and schemas** (`paged_script.rs`, `schema.rs`) | a script's candidate catalog | CREATE, ALTER, DROP, setSchema | rows keep their values, keys stay met, the catalog reads back as it was |
| **Expressions and predicates** (`expression.rs`, `predicate.rs`, parts of `query.rs`) | none | parse, bind, fold, evaluate, compile | the compiled form judges a row as its SQL does |
| **Queries** (`query.rs`, `join.rs`, `aggregate.rs`, `nested.rs`) | none | choose a path, read, join, group, nest, order, slice | the path does not change the answer |
| **Prepared statements** (`prepared_statement.rs`) | a registry of 128 templates | prepare, execute, close | names are never reused |
| **Host** (`host.ts`) | the token of the only transaction, tables waiting to be announced | one request at a time | only the token's holder runs in the transaction; events follow publication |
| **WASM bridge** (`wasm-bridge.ts`) | open, poisoned or closed | calls of the engine | an outcome that is unknown is never reported as a failure |
| **Broker** (`database-broker.ts`) | connections, queue, abandoned clients, the active transaction | receive, pump, handle, forget, close | transactions of different tabs stay apart and always end |
| **Coordinator** (`coordinator.ts`) | the announcement it goes by, pending requests, the election | receive, announce, dispatch, respond, elect, open, retire, shutdown | no request runs twice; pages are told of every change; one owner has the file |
| **Client and RPC** (`client.ts`, `rpc.ts`) | pending calls, a transaction session, subscriptions | query, exec, transaction, subscribe, close | every call settles once; a callback's statements finish before its commit |

They interact as follows. A page's `Client` posts requests to its Worker. The Worker's
coordinator answers what it can, and routes the rest over a `BroadcastChannel` to the
owner's inbox, or directly when it is the owner itself. The owner's broker queues
requests and calls the host, which calls the engine through the bridge. The engine plans
a statement against a view of the overlay over the committed storage, stages its changes,
and at a commit publishes them through storage, B+tree and pager; the pager writes to the
page device. Change events travel back from the host, through the owner's coordinator, to
every tab. Coordinators also share browser state: the election lock, one lock per client,
and the exclusive handle of the OPFS file.

The hard behaviours are:

- a crash, a lost flush or a torn page at any point of a commit or of an initialization,
  and several of them in a row;
- a candidate tree whose pages are rewritten, released and reused while readers hold a
  place in it;
- transactions that change a row several times, or back to what it was, with unique
  values and foreign keys that follow;
- shortcuts that must not show: prepared point statements, tests on stored bytes, ranges,
  covering indexes, early stops, pushed join terms, streamed groups, folded constants;
- schema changes over records that leave out their defaults, and over foreign keys that
  rest on what is changed;
- requests, lock grants and timers that fall between two `await`s of the broker's pump;
- clients that die in the middle of a transaction, and commits whose outcome is unknown;
- announcements, lock pictures, answers and events that overtake each other while the
  owner changes;
- limits (queue, connections, registry, pages of the file, staged rows) that are reached
  at a bad moment.

`PROJECT.json` lists each of them as a hazard, with its line and the properties aimed at it.

## The modules

```
Pager -- implements --> AtomicStore       Relations <- Overlay <- Dml <- Database
  ^                                           ^        ^           ^        |
PagerProofs <- RecoveryProofs                 |        |           |   SerialDatabase (implemented)
                                          OrderProofs <- StagingProofs <- DatabaseProofs

BTree  Host <- Broker <- BrokerProofs     Expressions <- Codec <- Predicates <- Queries
Coordinator <- CoordinatorProofs            Queries <- Parsing <- QueryLaws
                     ^                      Queries <- Joins, Aggregates, Nested (instances of QueryLaws)
               CurrencyProofs
Catalog <- SchemaTarget <- SchemaStore
```

An arrow `A <- B` says that B EXTENDS A. Every `MC` module extends the module it names.

### Pager, AtomicStore, PagerProofs, RecoveryProofs

`Pager` models `pager.rs` over a device. A *page image* is the set of page values whose
bytes it mixes: a singleton is intact, anything else is torn and fails its checksum.
`view` is what a read returns now, `durable` what the last flush made safe, and `risk`
the values written since. A power loss leaves each unflushed page as any of those, or
torn; the end of a process leaves `view`. Checksums and the commit hash are replaced by
the values they cover, so that a collision cannot happen.

| Model | Code |
|---|---|
| `Bootstrap*` (five steps) | `initialize_empty_device`: zeros, chunks, flush, superblocks, flush |
| `RecoverDeviceMetadata`, `CommitIsDurable`, `IsRecoverableEmptyBootstrap` | the functions of the same names |
| `OpenExisting` | `with_cache_capacity` on a device with a root |
| `BeginWrite`, `AllocatePage`, `WriteNewPage`, `ReleaseNewPage`, `FreeSharedPage`, `Abort` | `PagerWriteTransaction` |
| `EvictPage` | a dirty candidate page written early by the cache |
| `CommitRefused`, `CommitPages`, `CommitSuperblock`, `CommitFlush` | `commit`, cut where it may fail or be interrupted |
| `PowerLoss`, `ProcessExit`, `Close` | the ways a session ends |

`acked` and `attempts` are history variables: the root last acknowledged, and the roots
whose publication was begun since.

`AtomicStore` is what the pager promises the engine: one snapshot, replaced in one step,
and after an interruption the old or the new one, whole. `Pager` implements it under the
mapping `Store`.

### BTree

`BTree` models one tree of `btree.rs` over the pages the pager hands out: `Apply` (the
batch writer of a commit), `Upsert` and `Delete` (the writers of one change, to which the
repository's tests hold the batch writer), `Reclaim`, the commit or abort of the candidate,
the point reader, the validating reader and detached cursors in both directions. A node is
the sequence of its cells. A cell has a size, a page a capacity, and a large value a chain
of overflow pages; the splitting and merging rules work on the sizes as the code's work on
bytes. A page of the candidate is rewritten in place, one of the published tree is copied.
The fingerprint, an XOR of entry hashes, is the set of the entries, combined by symmetric
difference, and it is kept up by the same additions and subtractions as in the code.

### Relations, Overlay, Dml, Database, SerialDatabase

`Relations` has rows, keys and the constraints of a schema. `Overlay` is
`paged_transaction.rs`: entries in arrival order with the committed row each starts from,
the lazily sorted positions, unique claims, running totals and limits, the merged visits
and the point reads. `Dml` plans INSERT (with every ON CONFLICT), UPDATE and DELETE, has the point
forms that prepared statements use instead of the planner, and `Enforce`, the worklist of
`foreign_key.rs` with all five actions, and `ChangedKeys`, the keys a statement reports: at
most `MaxChangedKeys` of a table (1,000 in the code), and none of a table with more.
`MergeKeys` joins the reports of a script's statements as `common.ts` does. `Database` is the engine: a statement inside or
outside a transaction, scripts with their candidate, begin, commit with index maintenance,
rollback, commits that fail or end without a known outcome, and reopening.

`SerialDatabase` is what all of that promises, without overlays, indexes or worklists: a
statement has one effect on the rows it finds or is refused, its foreign keys act by a
fixed point over rows, and a commit makes the transaction's copy the contents. `Database`
implements it; the mapping reads the rows through the overlay. The loops of these modules
are recursive functions over the steps of the loop (`after[n]` is the state after n
rounds), so that they can be reasoned about as well as run. A row that two foreign keys
reach with different actions is left to the `fk_two_ways` run (see Findings).

### Expressions to QueryLaws

These modules are operators, translated from the functions they name, over a *reader* (rows
in scan order, indexes, and whether the reader visits in key order).

- `Expressions`: typing and evaluation of scalar expressions; values carry their type, and
  a FLOAT is a reduced fraction.
- `Codec`: order-preserving keys, index entries, records that omit trailing defaults. Bytes
  are numbers below a small base, and integers keep two's complement and the flipped sign.
  A key of more than `MaxKeyBytes` bytes is `TooLong`, which is an error and not an absent key.
- `Predicates`: validation, compiled filters, tests on stored bytes, `LIKE` by segments, the
  values a predicate fixes. Truth has the values of SQL, and an error.
- `Parsing`: from tokens to predicates, including the signed literal after an operand, and
  binding with constant folding.
- `Queries`: ranges, the choice of primary key, index or scan, covering indexes, ordering by
  sort or by top-N, limits with early stops. A visit delivers rows or fails: the lookup of a
  key that is too long fails, and a lower bound that is too long is left out. `Joins`: pushed
  terms, lookups by key or index (which may fail in the same way), hash tables, padding. `Aggregates`: plain, hashed and streamed groups, DISTINCT.
  `Nested`: correlated levels, gathered as JSON.
- `QueryLaws` asks one question per step (`AskParse`, `AskRows`, `AskFilter`, `AskLike`,
  `AskSelect`, `AskJoin`, `AskAggregate`, `AskNested`), and each law says of the step that
  answers it (`Answered`) that the code's answer is that of a definition which uses none of
  these means: the truth of a predicate by recursion on it, nested loops for joins, the set
  of all rows of a group.

### Catalog, SchemaTarget, SchemaStore

`Catalog` has every CREATE, ALTER and DROP of `paged_script.rs` with its planning in
`statement.rs`: the columns a foreign key references, resolved before the schema is validated,
what a foreign key needs, renames that reach other tables, index builds in
sorted chunks, tables rebuilt when a default changes. `SchemaTarget` is `schema.rs`: the
comparison of the database with a target, and the script in phases. `SchemaStore` runs
scripts and schemas, publishes the catalog records that changed (`WriteCatalog`), may lose
the answer of a commit, and reads the records back at an open (`LoadCatalog`) with the checks
the code makes.

### Host and Broker

`Host` has one operator for each request that `handleRequest` serves on an open engine.
The bridge and the engine are reduced to what the host can tell: the writes that are
published, those staged in the open transaction, the prepared statements in the registry
that all tabs share, with its limit, and whether a failure has poisoned the engine. A call
may be *refused* (an error, and no effect) or end *unknown* (it may have published, and the
engine is given up).

`Broker` EXTENDS `Host`. `Receive` is the whole of `receive()`: the limit on connections,
the release check, the limit on the queue with its reserve for requests that end
something, and the fast path that serves a statement at once. `job` is where `pump()`
is. Each call of the host is one step and taking up its result another (`AnswerTo*`), so
messages, lock grants and timers fall between the two wherever the code awaits. Clients
send what a `Client` behind a coordinator may send. A direct statement is checked against the
client's own transaction and sent a microtask later without another look
(`client.ts:258`), so it may follow the client's own `beginTransaction` (`BehindBegin`,
`executeDirect`): the host refuses it with TRANSACTION_ACTIVE, and `NeverInterrupted` says that
this refusal meets no other request, and that nothing but the open transaction's own writes is
ever staged. Each client has at most one prepared statement;
some prepared theirs with an earlier owner. The variable `workload` never changes: it
holds the limits and the clients' possibilities, so that one run exhausts several settings.

### Coordinator

`Coordinator` models all tabs of one database: joining, election, announcements, routing,
answers, refreshes, opening, retiring, shutdown and the death of a Worker. The broker and
the engine are one step there (`Serve`, or `Retire` for a fatal error). `workload` says
what the pages ask for, and who may close, die or fail.

The browser is modelled from how the code uses it. A lock goes to its waiters in turn. A
channel keeps the order of one sender. `locks.query()` takes its picture when it is asked
(`HearLeader`), and the picture arrives later (`QueryAnswered`), whatever the lock has
done since. A broadcast reaches the Workers that are there. A terminated Worker loses its
locks at once and its file some time later (`FileReleased`). A page chooses its release
when it starts, so two tabs may run different ones.

## The runs

Deadlock is checked in `query_laws` only: elsewhere every bound on requests, transactions
and endings is a point at which the modelled system may rightly stop.

| Run | What it shows | Bounds |
|---|---|---|
| `pager` | writes and flushes fail in part, pages tear: commits are atomic and durable, every device that is left opens, the active root is never overwritten, `IInv` holds | 2 data pages (one with its bit in the superblock, one in a chunk), one content, 2 transactions, 1 eviction each; a first session that ends by a power loss and a second that ends in any way |
| `btree` | the tree holds what the changes left, no page is lost or shared, readers accept every page, fingerprints are exact, cursors continue where they were | 5 keys, narrow, wide and overflowing values, pages of 3 cells or 4 children, 14 pages; a load, then every batch that replaces or deletes two keys or widens one, then the deletion of the first, the middle or the last key |
| `database` | the engine is a serial database; indexes mirror rows, totals are exact, merged readers agree with the rows, point statements with the planner, reports name every changed key of a table or none | a parent with a unique index and a child under 5 choices of foreign key; 3 statements to a transaction, tight limits on keys and bytes, reports of at most 2 keys of a table, 1 publication |
| `key_order` (violation) | a reader that claims key order and delivers a descending visit ascending | as `database`, 2 steps |
| `fk_two_ways` (violation) | a committed row whose foreign key no row satisfies | 2 foreign keys that reach one row, and one that references it |
| `query_laws` | parsing, codec, filters, LIKE, queries, joins, aggregates and nesting give what their definitions give; only a key too long to be stored is refused | some 86,000 questions over small tables with NULL, equal and mixed values, and with texts as long as a key may be and longer |
| `schema_store` | the catalog opens as it was, foreign keys stay met, rows keep their values, setSchema arrives | up to 3 tables and 2 indexes, 3 publications, 1 reopening, chunks of one entry |
| `broker` | transactions stay whole, apart and able to end; what is refused has not run; statements run in order and do not leak | five workloads of three kinds: competing transactions over a queue of one, with direct statements sent behind a begin; prepared statements over a registry of one; more clients than may connect, an old release and unknown outcomes |
| `broker_progress` | every request is answered and every write announced | 1 and 3 requests |
| `coordinator` | nothing runs twice or under the wrong owner or release, no page misses a change, the file stays within the lock, no epoch comes back | 2 tabs, two workloads: handovers with a death (2 and 3 requests), and owners that fail or die during a transaction (1 and 3) |
| `coordinator_progress` | every request is answered, whichever owner dies, closes or cannot open | 2 tabs, 2 requests each |
| `coordinator_retired` (violation) | a retired tab that closes silences the new owner | 2 tabs, 3 and 1 requests |

Why the bounds are enough.

*Pager*: the layout has one page of each kind (superblock, chunk, data counted by the
superblock, data counted by a chunk). Two transactions put a commit into each superblock
slot, so the slot of the acknowledged root is the next to be overwritten; two endings let a
crash hit the recovery from the first. With one page content a page is still absent, zero,
torn or written, which is what recovery tells apart, and `NeverTouchesActive` does not
depend on contents at all.

*B+tree*: five wide keys make three levels, so a change meets the root, an inner node and a
leaf; the batches split, merge and empty nodes at each level, at both edges. *Database*:
three statements suffice to change a row, take its unique value elsewhere and change it
back, and the limits fall between the first and the third; a report of two keys is full, and one of
three left out, within the same transaction or script. `VIEW Live` leaves out the report
and the answer of the last operation, on which no guard depends; the action properties look at them at
each step. *Query laws*: the tables put equal, missing and mixed values next to each other, and
the limits stand below, at and above the number of rows, and the texts below, at and above the
length of a key. *Schema*: three publications create, change and
replace a table on which a foreign key rests.

*Broker*: a transaction takes three requests (begin, a statement, an end), and two clients
suffice for one to be held back by the other. *Coordinator*: with two tabs every handover
has a loser and a successor, and each tab can be owner once, which the code guarantees too
(a tab asks for the lock once). Three tabs would add a listener that was never an owner;
the runs do not cover that tab.

### Fairness

`Broker!FairSpec`: the event loop of the owner's Worker runs what is due (`Pump`,
`Announce`), the browser grants a lock whose holder has gone (`LockGranted`), and a
transaction callback ends by a commit, a rollback or the death of its tab
(`EndsTransaction`). The first two are what a Worker and Web Locks provide. The third is
an assumption on the application: the broker has no timeout for a callback, and one that
never ends holds up every other tab.

`Coordinator!FairSpec`: messages are delivered, free locks are granted, queries answered,
files of dead Workers taken back, and an engine opens or fails, serves and closes. Nothing
is assumed of pages, and nothing of crashes.

## Findings

Three runs show a disagreement between the code and what the repository says of it.

1. **A transaction that changed nothing reads in the wrong order** (`key_order`). A row that
   is staged equal to the committed one stays in the overlay. `reads_committed` goes by the
   count of differences, and so promises rows in key order; `visit_rows_where` goes by the
   number of entries, and merges in ascending order, without the order or the range it was
   given. `ORDER BY id DESC`, inside such a transaction, comes back ascending.
2. **A cascade that a second foreign key completes is not followed** (`fk_two_ways`).
   `enforce` updates the entry of a row that it has already passed, so the rows that
   reference the row are visited for the first change and not for the second.
3. **A retired owner speaks for its successor** (`coordinator_retired`). After a fatal
   engine error `retire()` leaves `owner` set. When that tab's page then closes, as the
   guide advises, `shutdown` broadcasts `{...leader, ready: false}` with the epoch and
   name of the *new* owner. Every tab believes it, and new requests wait until that owner
   closes.

Disagreements met while modelling that have no run of their own:

- *Reopening does not settle durability.* The comment on `Pager` sends callers to a reopen to
  learn which root became durable. A reopen after the death of a Worker, or after a failed
  flush, recovers a superblock that the operating system has and the disk may not, and serves
  it without a flush. A power loss may still take it back, and the writes of a next commit
  may by then have reused pages of the only root the disk knows. For this reason the `pager`
  run ends its first session by a power loss, after which what is visible is durable.
- *A refused publication may come back.* A superblock whose data pages were lost is refused by
  `commit_is_durable` and left in its slot; if a later transaction writes the same bytes to
  the same pages and is never committed, the next open accepts it.
- *A bound that is not needed makes a query fail.* A text longer than any key bounds nothing,
  and `query.rs:938` says so ("neither bound is needed"), but `narrow_range` leaves out only
  such a lower bound. A descending scan starts at the upper one (`KeyRange::end`,
  `storage.rs:56`), and the B+tree refuses to seek it: `WHERE id <= '<2000 characters>' ORDER
  BY id DESC` fails with BTREE_LIMIT, while the same query ascending returns its rows.
  `QueriesReturnTheirSlice` names this exception (`OutgrowsKeys`); without its second case TLC
  refutes the law.
- *ON UPDATE CASCADE into a primary key.* When the referencing column is part of its table's
  primary key, the cascade writes the row under its new key and leaves the old one
  (`foreign_key.rs:355`). No instance has such a key.
- *setSchema* changes a column's default before its nullability, so `NOT NULL DEFAULT 1` to a
  nullable column with an explicit `DEFAULT NULL` is refused (`schema.rs:413`; the guide
  `2_storage_and_lifecycle.md:136` lists the change), while one with no default is taken; replacing a unique index that a kept
  foreign key needs is refused; and a target that writes a referenced table with its schema
  (`public.a`) drops the key and adds it again at every call.
- *The lock before the file.* A shutdown during `retire()` finds no engine to wait for and
  releases the lock while the failed engine still closes. `FileWithinLock` names this
  exception; the next owner then depends on its three seconds of retries.

## What is proved

Twenty-nine theorems, in six of the eight proof modules. Each component has an inductive invariant, `IInv`,
a conjunction of named parts; a theorem `Spec => []IInv`; and one theorem for each
property that follows from it. Recovery of the pager has a stronger one, `RInv`, and so
has the currency of the coordinators' pages, `CInv`; the storage engine's is `DInv`. Before it was proved each was
model-checked: the pager's `IInv` is an invariant of its run, `RInv` holds in every state of
that run and of one with a third session (half a million states each), and the others in
every state of the runs `broker` and `coordinator` (1.2 and 3.7 million states) and, for
`DInv`, of the run `database` (with its sets of all possible entries written as conditions
TLC can evaluate); `CInv` was
also simulated with a third tab.

### Pager

For every number of chunks and pages, every layout, every set of page contents, every
choice of faults and endings, and any number of transactions. Assumed: `PagerAssumption`
only (the constants are numbers, and the superblock's bits and the chunks between them
cover the page space).

- `InductiveInvariant`: `Spec => []IInv`.
- `TypeCorrect`: `Spec => []TypeOK`. Recovery is part of it: whatever a crash leaves, a root
  that decodes is a root of the format.
- `ActiveUntouched`: `Spec => NeverTouchesActive`. While a pager exists no step, failing or
  not, writes any part of a page that the active root reads.

`TypeOK` alone is not inductive. `IInv` adds two parts:

- `CandidateOK`: a candidate's writes are to pages it allocated itself, and a commit under
  way publishes exactly those, in the inactive slot. Without it an eviction could write to
  a shared page.
- `PagesPresent`: the file reaches every page that a root or a commit under way names.
  Without it a write could append zeros over a page of the active root, since a write past
  the end of the file fills the gap.

The proof has a lemma for each group of actions (`BootstrapIInv`, `OpenExistingIInv`,
`CandidateStepsIInv`, `EvictPageIInv`, `CommitPagesIInv`, ...), each on lemmas about what a
write, a flush, a crash and a recovery do to page images. `ActiveUntouched` follows from
`IInv`: a step that writes does so at a candidate's own pages, at the absent pages below
them, at the other copy of a chunk (`ChunkWritesElsewhere`, which rests on
`ChunkPageInjective`), or at the inactive superblock.

### Recovery of the pager

For every constant that `PagerAssumption` allows, and for the endings that
`PowerLossesFirst` allows: any number of sessions, of which those that may end by a power
loss come before those that may end by a close or by the end of a process. The endings of
the `pager` run are such.

- `OpensAlways`: `Spec => []AlwaysOpens`. Whatever calls fail and wherever a session is cut
  off, the next open finds a root or an initialization to repeat.
- `PagerIsAtomicStore`: `Spec => ImplementsAtomicStore`, the refinement of `AtomicStore`. A
  commit is one step for its readers, and one that was cut off is found whole or not at all.
- `RecoveryInvariant`: `Spec => []RInv`, which they rest on.

The hypothesis is needed, not a convenience: with a process end before a power loss TLC finds
a device that does not open, by the path described above under *Reopening does not settle
durability*.

`RInv` is `IInv` and three parts:

- `FoundInv`: what the device holds. Before the first open succeeds it is `Fresh`: each page
  is absent, zero or a page of the empty database, and the file has no hole. From then on
  some root is `Anchored`: all of it can be read, it is the acknowledged snapshot, a power
  loss cannot touch its pages, and a superblock that any outcome may leave in the other slot
  is a `Rival` of one of three kinds: the root before it (which loses, since the data of the
  newer commit is there), the twin of an empty database, or an interrupted commit beside it.
- `BootInv`: how far an initialization has come.
- `WrittenInv`: how far a commit has come. An evicted page holds what was last written to it,
  and the new root is whole before its superblock is written; without this the flush could
  publish a root that is not all there.

`RecoveryFinds` is the heart of the proof: on a device with an anchored root, recovery returns
that root, or a rival that is whole and whose snapshot was promised. Each action then keeps
the invariant: the calls of a session because they leave the active root's pages alone
(`ActiveStep`, from `PagerProofs`) and write into the other slot only what `attempts` names;
the flush because it turns the active root into a rival that the new one outranks; a power
loss because all it can change lies outside the anchored root. In the refinement the store's
`db` is `acked` in every state (`HeldIsAcked`), so that a step of the pager is a step of the
store by what it does to `acked` and `attempts`.

### Coordinator

For every set of tabs and every workload: any number of requests, releases, and tabs that
close, die or are retired. Assumed: `CoordinatorAssumption` (tabs and workloads have their
types, and the value that stands for "no tab" is not a tab).

- `AtMostOnce`: `Spec => []RunsAtMostOnce`.
- `UnderItsOwner`: `Spec => []RunsUnderItsOwner`.
- `FileUnderLock`: `Spec => []FileWithinLock`.
- `NeverBack`: `Spec => NeverGoesBack`, an action property.
- `Invariance` and `TypeCorrect`, which they rest on.

None of the four is inductive. The parts of `IInv`, and what each keeps out:

- `LockInv`: the holder of the election lock is there and has not let it go, whoever has an
  engine open under the lock is its holder, and whoever waits has asked once. Without it
  two tabs could be granted the lock.
- `EpochInv`: an epoch belongs to one owner, and the holder's is the newest. It makes "the
  owner of epoch e" a name.
- `AnnouncementInv`: every announcement under way, in a queue or taken up, tells the truth
  about an owner there was. A request that a tab sends to the leader it knows therefore
  goes to an owner of the tab's own release.
- `OrderInv`: a tab's pictures of the lock come in the order of the owners, and none is
  older than the owner the tab goes by; `NeverBack` needs it.
- `UnstartedInv` and `CloseInv`: what a tab that was not started, or has gone, may have left
  behind; a close that was acknowledged has left the file.
- `RequestInv`: a request that is on its way to an owner is so only once, has not run and is
  not lost; one that waits for its first owner has been nowhere; an answer that says OK is
  that of a request which ran. `RunsAtMostOnce` follows because a request is sent on only
  while it waits for its first owner.

The proof first sums up what the twenty-odd actions do to each piece of state
(`OwnersPersist`, `LeadersMove`, `QueriesMove`, `GroupMoves`, `RequestsMove`,
`AnswersMove`); every part of `IInv` is then shown to survive the summaries, so that no
lemma has to go through all actions for every part.

#### Pages are current

`CurrencyProofs` proves the property that every refresh of the coordinator is there for:

- `Currency`: `Spec => []PagesAreCurrent`. Once an owner serves and nothing is under way,
  every initialized page has been told of the newest revision.
- `CurrencyInvariant`: `Spec => []CInv`, from the same assumption.

The property speaks of quiet states only, so the invariant has to say at every moment what
will bring a page up to date. `CInv` is `IInv` with three more parts:

- `BoundInv`: no event, answer or page is ahead of the database, and a tab is never sent an
  answer by an owner newer than the one it goes by.
- `OpeningInv`: while an owner opens the database it has answered nobody, and a page that
  goes by it already is current or has asked for a refresh.
- `ServingInv`: under a serving owner every tab `Follows` it. A tab that goes by an earlier
  owner drops this one's events, and that is made up for by the ready announcement still
  under way to it, in the channel or in its query of the lock. A page that goes by this
  owner is current, or an event is due, or it has asked for a refresh and the ready
  announcement is under way. An answer to an init carries the newest revision, or the event
  that does is still due: an answer and an event go by different channels and may overtake
  each other.

`TouchStep` divides the steps by what they do to one page: they leave what concerns it as
it was (then `FollowsOn` carries `Follows` over), the tab itself or its messages are
concerned (a lemma for each such action), or the owner acts. That the last revision is
announced at all is `unannounced` in `Announced`: the owner has published, and the event has
still to be posted.

### Broker and Host

For every set of clients and every workload: any methods, any number of requests, any
limits on the queue, on connections and on statements, and any engine faults. Assumed:
`HostAssumption` and `BrokerAssumption` (the constants have their types, and the requests
are among the writes).

- `TokensStayTogether`: `Spec => []TokensAgree`.
- `RefusedStaysOut`: `Spec => []RefusedNeverRuns`.
- `PublishedWhole`: `Spec => []TransactionAtomic`.
- `RunInOrder`: `Spec => []InOrder`.
- `Invariance` and `TypeCorrect`, which they rest on.

The parts of `IInv`:

- `HostInv`: the host's token is the engine's transaction while the engine is open, a failed
  engine has none, and what is announced was published.
- `TokenInv`: where the broker's token and the host's may differ, for each place at which
  the pump may be: only between a call of the host and the taking up of its answer.
  `TokensAgree` is what remains of it between requests.
- `QueueInv`: a request that waits is in the queue or in hand, each client's in order, and
  the one in hand is older than those queued unless it is a close. `InOrder`
  (`OrderInv`) follows step by step.
- `RunInv`: a write that is published or staged was acknowledged, or its outcome is unknown,
  or its answer is in hand, or the owner has gone.
- `IssuedInv`: every token anybody holds was issued before; a new transaction's token is
  therefore in no request yet.
- `StagedInv`: what is staged is exactly what the active transaction's client was told had
  run, plus the write whose answer is in hand.
- `WholeInv`: a transaction of which something is published, or whose commit was
  acknowledged, is over and published whole, and its own commit may have run.

The proof sums up each call of the host (`WriteCall`, `CommitCall`, `RollbackCall`,
`BeginCall`), then what any step may be for the queue and the log (a request is refused,
queued, served at once, taken and answered, taken and forwarded, or finished:
`EveryKind`, `EveryRequestKind`), and shows each part of `IInv` for each kind.

### The storage engine

For every catalog (any tables, columns, keys and indexes), any statements, scripts and
foreign keys, any initial rows that meet the constraints, any budget of kept rows, any
limits on a transaction, and any number of commits. `OrderProofs` has the orders and the
loops, `StagingProofs` planning and staging, `DatabaseProofs` commits and the engine.

- `IndexesAreExact`: `Spec => []IndexesMirrorRows`.
- `EveryReaderAgrees`: `Spec => []ReadersAgree`.
- `PointPathIsPlanner`: `Spec => []PointPathAgrees`.
- `EveryChangeIsReported`: `Spec => ReportsEveryChange`, an action property. A change names
  its tables, and a table named in the keys is named with every key that changed, at most
  `MaxChangedKeys` of them; a commit leaves out exactly the tables with more.
- `RowsStayAllowed`: `Spec => []RowsMeetTheirTables`. No table holds, and no transaction
  sees, two rows of one primary key or of one value of a unique index, or a row the table
  may not hold.
- `TransactionsStayWhole`: `Spec => TransactionsAreWhole`, an action property. A commit
  makes the committed rows exactly those its transaction saw; what is refused or fails
  leaves what it sees.
  These two are parts of `ImplementsSerialDatabase` that hold for every catalog; the run
  `database` checks them as part of that refinement, and they are stated beside their proofs.
- `CountsAreExact` and `ClaimsAreExact`: the parts of `TotalsExact` about staged entries,
  their counts and their unique claims.
- `DatabaseInvariant`: `Spec => []DInv`, which they rest on.

Assumed is what the code has checked before a statement is planned. `CatalogAssumption`: key
columns are distinct columns declared NOT NULL (`paged_codec.rs:2057`), defaults are values
of their columns, indexes are on columns of their table, the values that stand for NULL and
for "no row" are not values, and the latter is no key. `DatabaseAssumption`: statements
assign values to columns of their table, a foreign key pairs as many columns as it
references, and initial rows are rows (`Init` takes those that meet the constraints).
`ChangedKeysAssumption`: the limit on reported keys is a positive number.
Nothing is assumed of which columns foreign keys are on: cascades into a primary key,
and two keys that reach one row, are covered too. (The rows that a foreign key then leaves
without a parent, see Findings, break no theorem here: trees, counts, readers and reports
still agree.)

None of the properties is inductive, since a commit trusts what a transaction recorded
statements earlier. `DInv` has two halves:

- `StorageOK`: the committed rows are valid and stand under their own keys, counts and
  index entries are those of the rows, and no two rows take a value of a unique index.
- `TxnOK`, while a transaction is open and the engine knows its storage: the transaction was
  begun at the committed revision; each staged entry starts from the row committed under
  its key and leaves a valid row of that key or none; a key has one entry; the order lists
  every entry once; the counts of deletes and of changed rows are those of the entries;
  a table with entries is among those touched; and the claims are the unique values its
  entries take, each claimed by one key, and by no committed row but those the transaction
  changes (`ClaimsOK`). Without the first, a commit would remove
  index entries the trees do not hold; without the exact counts `ReadsCommitted` would let
  a view use a committed index that its own changes have made stale, and a first change
  could skip the search for its entry; without the claims a commit, which checks no unique
  index (`paged_script.rs:254`), could write a value twice.

The argument follows a statement. What a planner says it read is what the view holds
(`PlanInsertOK`, `PlanUpdateOK`, `PlanDeleteOK`: `PlanOK`), and the worklist of foreign keys
adds only changes of that kind (`ActionsTakenOK`, `EnforceOK`); this is where the shortcut of
a change with a *held* row is justified. Joining the changes by key and staging them keeps
`TxnOK` (`AddChangesOK`, `PatchOfOK`, `InstallOK`, `StageOK`), the counts by
`InstalledCount`: a patch adds its changed entries and takes away those it replaces. A commit
then writes rows that say truly what they replace (`RowsToWrite`), and such a batch always
meets the trees and leaves them exact (`ApplyRowChangesOK`, on `IndexLeftOK` for each index),
so "corrupt" is never answered. That the rows it writes take no unique value twice is
`ViewIsUnique`: a value that two rows of the merged view took would be claimed by two keys,
or claimed by one while a row the transaction leaves alone has it, or committed twice. What
is written is the view, table by table (`EntriesToWrite`, `TableLeft`, `CommitOfOK`). A
script's candidate goes the same way, table by table and statement by statement, over a
transaction that sees the committed rows (`ApplyByTableOK`, `CandidateStatementOK`), except
that its rows are checked against the trees (`UniqueIndexesAllow`); what it differs in is
what it reports (`DiffersIn`, `ReportedIn`), table by table in full or not at all
(`MergedReport`: a table left out once stays out). The readers are compared through `Visible`, the rows found by
their keys: a scan delivers exactly those (`VisitRowsAre`), and as many as are counted
(`ScanCount`).

Loops are reasoned about by induction over their rounds. The library's induction theorems
take an operator, which the provers cannot instantiate; `LoopInduction` states the
principle for a set of rounds instead, and is proved from the well-foundedness of the
natural numbers.

### What stays with TLC

- `NeverInterrupted` and `NoStatementLeaks` of `Broker`: not true for every constant. A
  client's commit may take the queue past its limit by the reserve of
  `database-broker.ts:419`, and so may any number of closes; with more closing clients
  than the reserve has places a commit can be refused.
- The rest of `TotalsExact`: the sums of bytes and operations are folds over sets of entries,
  and what a fold of a changed set is would need a theory of folds that the provers lack;
  the number of keys over all tables is such a sum too. That the order, once sorted, is
  ascending is not in `DInv`.
- `ImplementsSerialDatabase`: it is checked where no row is reached by two foreign keys, and
  is false in general (finding 2).
- The properties of `SchemaStore`: no inductive invariant yet. Its scripts and its comparison
  of schemas are folds, which have to become loops like those of `Database` first.
- Liveness (`EverythingSettles`, the progress runs): fairness and ENABLED are beyond the
  prover.
- What the recursive operators of `BTree`, `Expressions`, `Predicates`, `Parsing` and the
  query modules compute: the prover loses its arithmetic in any module that declares a
  RECURSIVE operator. Loops written as functions can be reasoned about, as in `Database`;
  these recursions are over trees and expressions.

## What is not modelled

- *Sizes*: work and byte budgets of scans, joins, groups and scripts (a row of the overlay
  has a size, other limits are counts); hash collisions; rounding of floats.
- *Text*: the lexer, the parsers of statements and of DDL, RETURNING, INSERT from SELECT,
  functions of the dialect beyond arithmetic. Statements are records. JSON is one atom. In the
  grammar of conditions: LIKE with ESCAPE, IN with a subquery, BETWEEN SYMMETRIC.
- *Import and export*, and the in-memory storage the tests use.
- *Page cache and device*: which frame is evicted, reservations, the JavaScript device's
  buffers. `Pager` takes an eviction, and a failed write, to be possible at any moment.
- *Client*: the transaction session, the close barrier, subscriptions; RPC correlation;
  request sizes. `Broker` takes from the client what it may send.
- In `Broker`: byte limits (folded into the number of requests), the epoch of a message
  (`database-broker.ts:409`; a message goes to the owner it was meant for) and more than one
  prepared statement for a client. In `Coordinator`: pictures of the lock arrive in the order
  they were asked for, so the guard that drops an overtaken one (`coordinator.ts:313-325`) never
  acts; its limits on pending requests and statements,
  malformed messages, and a lock request or an engine close that fails. In `Host`: the time
  before the engine is open.
- The adapters for Drizzle and Kysely, the Node and Vite integrations, warm-up: glue
  without state of its own.

## Plan

1. Proofs: the records of `SchemaStore`; the sums of the overlay.
2. `Client` with its RPC: the transaction session, the close barrier, subscriptions against
   events that overtake answers.
3. `PageCache` (reservations, eviction, pinning) and `PageDevice` (buffering, rollback of
   an append), with the device assumptions of `Pager` as their abstract specification.
4. A third tab in `Coordinator`, under a workload without writes.
