------------------------------- MODULE Database -------------------------------
(***************************************************************************)
(* The storage engine as its callers see it: one engine over one device,   *)
(* statements run one at a time inside or outside an explicit transaction, *)
(* scripts that are made whole or not at all, commits that can fail or end *)
(* with an unknown outcome, and reopening.                                 *)
(***************************************************************************)
EXTENDS Dml

CONSTANTS
    Statements,         \* the statements a client may run
    Scripts,            \* the sequences of statements it may run as one script
    ForeignKeyChoices,  \* the sequences of foreign keys the catalog may hold
    InitialContents,    \* the committed rows the database may start with
    NoTransaction,
    KeptChoices,        \* how many of a statement's rows its planner may keep
    MaxRevision,        \* bounds the commits of a behaviour
    MaxSteps            \* bounds the operations of one transaction

ASSUME DatabaseAssumption ==
    /\ \A s \in Statements : IsStatement(s)
    /\ \A script \in Scripts :
        script \in Seq(Range(script)) /\ \A s \in Range(script) : IsStatement(s)
    /\ \A keys \in ForeignKeyChoices :
        keys \in Seq(Range(keys)) /\ \A k \in Range(keys) : IsForeignKey(k)
    /\ \A contents \in InitialContents : \A t \in Tables :
        IsFiniteSet(contents[t]) /\ contents[t] \subseteq Rows(t)

VARIABLES
    foreign,   \* the catalog's foreign keys
    db,        \* the committed storage
    txn,       \* the open transaction, or NoTransaction
    ready,     \* FALSE once a commit's outcome is unknown
    reply,     \* how the last operation ended, and what it reported
    steps      \* operations of the open transaction

vars == <<foreign, db, txn, ready, reply, steps>>

-----------------------------------------------------------------------------
\* The committed storage.

Storage(revision, contents) ==
    LET rows == [t \in Tables |->
                    [k \in {KeyOf(t, r) : r \in contents[t]} |->
                        CHOOSE r \in contents[t] : KeyOf(t, r) = k]]
    IN  [revision |-> revision,
         rows |-> rows,
         counts |-> [t \in Tables |-> Cardinality(contents[t])],
         entries |-> [x \in Indexes |-> EntriesOf(x, rows[x.table])],
         entryCounts |-> [x \in Indexes |-> Cardinality(EntriesOf(x, rows[x.table]))]]

\* An operation's answer to its script: an error, or the tables and keys it reports.
Nothing(script) == [script |-> script, error |-> "none", tables |-> {}, keys |-> <<>>]
Failure(script, error) == [Nothing(script) EXCEPT !.error = error]
Reported(script, tables, keys) == [Nothing(script) EXCEPT !.tables = tables, !.keys = keys]

-----------------------------------------------------------------------------
(***************************************************************************)
(* A script's candidate.  A statement's changes are written table by       *)
(* table: the last change to each key, with the row it replaces, checked   *)
(* against the unique indexes and applied to the row tree and then to each *)
(* index tree, whose counts the batch must meet.                           *)
(***************************************************************************)
MergePlanned(storage, acc, c) ==
    LET same == {i \in DOMAIN acc.rows : acc.rows[i].key = c.key}
        i == CHOOSE j \in same : TRUE
        old == IF c.held.read THEN c.held.row ELSE CommittedRow(storage, c.table, c.key)
    IN  IF same = {}
        THEN [acc EXCEPT !.rows = Append(@, [key |-> c.key, old |-> old, next |-> c.next,
                                             written |-> c.next # NoRow])]
        ELSE IF c.next # NoRow /\ acc.rows[i].written THEN [acc EXCEPT !.error = "constraint"]
        ELSE [acc EXCEPT !.rows[i].next = c.next, !.rows[i].written = @ \/ c.next # NoRow]

\* No two changed rows take a value, and its committed holder gives it up.
UniqueIndexesAllow(storage, t, rows) ==
    \A x \in UniqueIndexes(t) : \A i \in DOMAIN rows :
        LET value == IndexValue(x, rows[i].next)
            Takes(j) == rows[j].next # NoRow /\ IndexValue(x, rows[j].next) = value
        IN  (rows[i].next # NoRow /\ ~HasNull(value)) =>
                /\ \A j \in DOMAIN rows : j # i => ~Takes(j)
                /\ \A k \in CommittedOwners(storage, x, value) :
                    k = rows[i].key \/ \E j \in DOMAIN rows : rows[j].key = k /\ ~Takes(j)

IndexEntry(x, key, row) ==
    IF row = NoRow \/ HasNull(IndexValue(x, row)) THEN {}
    ELSE {[value |-> IndexValue(x, row), key |-> key]}

\* Mutant: an entry of a row that takes another value stays behind.
IndexBatchForgets(x, rows) ==
    [removes |-> UNION {IndexEntry(x, rows[i].key, rows[i].old) :
                            i \in {j \in DOMAIN rows : rows[j].next = NoRow}},
     adds |-> UNION {IndexEntry(x, rows[i].key, rows[i].next)
                        \ IndexEntry(x, rows[i].key, rows[i].old) : i \in DOMAIN rows}]

\* The entries a batch removes from and adds to an index; a kept entry is in neither.
IndexBatch(x, rows) ==
    LET Old(i) == IndexEntry(x, rows[i].key, rows[i].old)
        New(i) == IndexEntry(x, rows[i].key, rows[i].next)
    IN  [removes |-> UNION {Old(i) \ New(i) : i \in DOMAIN rows},
         adds |-> UNION {New(i) \ Old(i) : i \in DOMAIN rows}]

ApplyRowChanges(storage, t, rows) ==
    LET live == {i \in DOMAIN rows : rows[i].next # NoRow}
        gone == {i \in DOMAIN rows : rows[i].next = NoRow}
        held == DOMAIN storage.rows[t]
        inserted == Cardinality({i \in live : rows[i].old = NoRow})
        removed == Cardinality({i \in gone : rows[i].old # NoRow})
        met == /\ inserted = Cardinality({i \in live : rows[i].key \notin held})
               /\ removed = Cardinality({i \in gone : rows[i].key \in held})
        keys == (held \ {rows[i].key : i \in gone}) \cup {rows[i].key : i \in live}
        Batch(x) == IndexBatch(x, rows)
        indexesMet == \A x \in TableIndexes(t) :
            /\ Batch(x).removes \subseteq storage.entries[x]
            /\ Batch(x).adds \cap storage.entries[x] = {}
    IN  IF ~met \/ ~indexesMet THEN [error |-> "corrupt", db |-> storage]
        ELSE [error |-> "none",
              db |-> [storage EXCEPT
                !.rows[t] = [k \in keys |->
                    IF \E i \in live : rows[i].key = k
                    THEN rows[CHOOSE i \in live : rows[i].key = k].next ELSE @[k]],
                !.counts[t] = @ + inserted - removed,
                !.entries = [x \in Indexes |-> IF x \notin TableIndexes(t) THEN @[x]
                                ELSE (@[x] \ Batch(x).removes) \cup Batch(x).adds],
                !.entryCounts = [x \in Indexes |-> IF x \notin TableIndexes(t) THEN @[x]
                                ELSE @[x] + Cardinality(Batch(x).adds) - Cardinality(Batch(x).removes)]]]

ApplyMerged(storage, t, merged) ==
    IF merged.error # "none" \/ ~UniqueIndexesAllow(storage, t, merged.rows)
    THEN [error |-> "constraint", db |-> storage]
    ELSE ApplyRowChanges(storage, t, merged.rows)
MergeAll(storage, changes) ==
    LET after[n \in 0..Len(changes)] ==
            IF n = 0 THEN [error |-> "none", rows |-> <<>>]
            ELSE MergePlanned(storage, after[n - 1], changes[n])
    IN  after[Len(changes)]
ApplyChanges(storage, t, changes) == ApplyMerged(storage, t, MergeAll(storage, changes))

\* A statement's changes grouped by table, in the order each table is first named.
ApplyNext(changes, acc, t) ==
    IF acc.error # "none" THEN acc
    ELSE ApplyChanges(acc.db, t, Picked(changes, {i \in DOMAIN changes : changes[i].table = t}))
ApplyTables(storage, changes, tables) ==
    LET after[n \in 0..Len(tables)] ==
            IF n = 0 THEN [error |-> "none", db |-> storage]
            ELSE ApplyNext(changes, after[n - 1], tables[n])
    IN  after[Len(tables)]
ApplyByTable(storage, changes) == ApplyTables(storage, changes, TablesAfter(<<>>, changes))

\* The limit is tested before each incoming key, in key order, known or not.
Overflows(known, incoming) ==
    \/ ~Reportable(known \cup incoming)
    \/ /\ Cardinality(known \cup incoming) = MaxChangedKeys
       /\ \E k \in known \cap incoming : \A j \in incoming : j = k \/ KeyLess(j, k)

\* A statement's keys joined to those that the statements before it reported, who named
\* the tables `seen'.  A table that one of them, or all together, could not report in
\* full is left out for good.
MergeKeys(seen, keys, tables, incoming) ==
    LET Known(t) == IF t \in DOMAIN keys THEN keys[t] ELSE {}
        LeftOut(t) == \/ t \notin DOMAIN incoming
                      \/ t \in seen \ DOMAIN keys
                      \/ Overflows(Known(t), incoming[t])
    IN  [t \in (DOMAIN keys \cup tables) \ {u \in tables : LeftOut(u)} |->
            IF t \in tables THEN Known(t) \cup incoming[t] ELSE Known(t)]

\* A statement on a candidate, planned against what the statements before it left.
CandidateApplied(acc, planned, applied) ==
    IF applied.error # "none" THEN [acc EXCEPT !.error = applied.error]
    ELSE [error |-> "none", db |-> applied.db,
          mutated |-> acc.mutated \/ planned.changes # <<>>,
          tables |-> acc.tables \cup Range(planned.tables),
          keys |-> MergeKeys(acc.tables, acc.keys, Range(planned.tables),
                             ChangedKeys(planned.changes))]
CandidatePlanned(acc, planned) ==
    IF planned.error # "none" THEN [acc EXCEPT !.error = planned.error]
    ELSE CandidateApplied(acc, planned, ApplyByTable(acc.db, planned.changes))
CandidateStatement(acc, s, kept) ==
    IF acc.error # "none" THEN acc
    ELSE CandidatePlanned(acc,
            PlanDml(acc.db, NewTransaction(acc.db.revision), foreign, s, kept))

Candidate(script, kept) ==
    LET after[n \in 0..Len(script)] ==
            IF n = 0
            THEN [error |-> "none", db |-> db, mutated |-> FALSE, tables |-> {}, keys |-> <<>>]
            ELSE CandidateStatement(after[n - 1], script[n], kept)
    IN  after[Len(script)]

\* What a commit of a transaction writes: its changed rows, checked again by the trees alone.
WrittenRow(e) == [key |-> e.key, old |-> e.entry.old, next |-> e.entry.next]
ApplyEntries(acc, t, entries) ==
    IF acc.error # "none" THEN acc
    ELSE ApplyRowChanges(acc.db, t, [i \in DOMAIN entries |-> WrittenRow(entries[i])])
CommitTables(changed, tables) ==
    LET after[n \in 0..Len(tables)] ==
            IF n = 0 THEN [error |-> "none", db |-> db]
            ELSE ApplyEntries(after[n - 1], tables[n], changed[tables[n]])
    IN  after[Len(tables)]
CommitOf(changed) == CommitTables(changed, SetToSeq(DOMAIN changed))
CommitCandidate == CommitOf(ChangedRows(txn))

\* The keys that a commit reports, under the limit of a statement's.
CommittedKeys(changed) ==
    LET Keys(t) == {e.key : e \in Range(changed[t])}
    IN  [t \in {u \in DOMAIN changed : Reportable(Keys(u))} |-> Keys(t)]

Published(storage) == [storage EXCEPT !.revision = db.revision + 1]

-----------------------------------------------------------------------------
(***************************************************************************)
(* The engine's operations.                                                *)
(***************************************************************************)
InTransaction == txn # NoTransaction

Begin ==
    /\ ready
    /\ ~InTransaction
    /\ db.revision < MaxRevision
    /\ txn' = NewTransaction(db.revision)
    /\ reply' = Nothing(<<>>)
    /\ steps' = 0
    /\ UNCHANGED <<foreign, db, ready>>

\* A statement's plan staged in a transaction; one that changes nothing stages nothing.
StagePlan(t, planned) ==
    IF planned.error # "none" THEN Refused(t, planned.error)
    ELSE Stage(db, t, planned.changes)

\* Scans leave the order of the tables they walked merged.
Scanned(t, s) ==
    IF s.kind # "insert" /\ ~Fixes(s.where, PrimaryKey[s.table]) THEN Merged(t, s.table) ELSE t

Answer(script, result, tables, keys) ==
    IF result.error = "none" THEN Reported(script, tables, keys) ELSE Failure(script, result.error)

\* The statement's effect on the transaction: staged, or refused and nothing changed.
StageStatement(s, scanned, planned) ==
    \E result \in {StagePlan(scanned, planned)} :
        /\ txn' = result.txn
        /\ reply' = Answer(<<s>>, result, Range(planned.tables), ChangedKeys(planned.changes))

ExecuteTransactionWrite(s, kept) ==
    /\ ready
    /\ InTransaction
    /\ steps < MaxSteps
    /\ \E planned \in {PlanDml(db, txn, foreign, s, kept)} :
        StageStatement(s, Scanned(txn, s), planned)
    /\ steps' = steps + 1
    /\ UNCHANGED <<foreign, db, ready>>

\* A prepared statement takes the point path unless that declines it.
ExecutePoint(s) ==
    /\ ready
    /\ InTransaction
    /\ steps < MaxSteps
    /\ \E point \in {PlanPoint(db, txn, s)} :
        /\ point.error # "declined"
        /\ \E planned \in {Enforce(db, txn, foreign, point)} : StageStatement(s, txn, planned)
    /\ steps' = steps + 1
    /\ UNCHANGED <<foreign, db, ready>>

\* A script in a transaction: its statements are staged one by one on a copy.
StagedNext(acc, staged, planned) ==
    [error |-> staged.error, txn |-> staged.txn,
     tables |-> acc.tables \cup Range(planned.tables),
     keys |-> MergeKeys(acc.tables, acc.keys, Range(planned.tables), ChangedKeys(planned.changes))]
StageNext(acc, s, planned) == StagedNext(acc, StagePlan(Scanned(acc.txn, s), planned), planned)
StageFrom(acc, s, kept) ==
    IF acc.error # "none" THEN acc
    ELSE StageNext(acc, s, PlanDml(db, acc.txn, foreign, s, kept))
StageScript(script, kept) ==
    LET after[n \in 0..Len(script)] ==
            IF n = 0 THEN [error |-> "none", txn |-> txn, tables |-> {}, keys |-> <<>>]
            ELSE StageFrom(after[n - 1], script[n], kept)
    IN  after[Len(script)]

ScriptInTransaction(script, kept) ==
    /\ ready
    /\ InTransaction
    /\ steps < MaxSteps
    /\ \E done \in {StageScript(script, kept)} :
        /\ txn' = IF done.error = "none" THEN done.txn ELSE txn
        /\ reply' = Answer(script, done, done.tables, done.keys)
    /\ steps' = steps + 1
    /\ UNCHANGED <<foreign, db, ready>>

\* Outside a transaction a statement is a script of one, and a script is its own commit.
ExecuteScript(script, kept) ==
    /\ ready
    /\ ~InTransaction
    /\ db.revision < MaxRevision
    /\ \E done \in {Candidate(script, kept)} :
        /\ reply' = Answer(script, done, done.tables, done.keys)
        /\ db' = IF done.error = "none" /\ done.mutated THEN Published(done.db) ELSE db
    /\ UNCHANGED <<foreign, txn, ready, steps>>

\* The pager reports that the outcome of the commit is unknown: either root may be found.
ExecuteScriptUnknown(script, kept) ==
    /\ ready
    /\ ~InTransaction
    /\ db.revision < MaxRevision
    /\ \E done \in {Candidate(script, kept)} :
        /\ done.error = "none" /\ done.mutated
        /\ db' \in {db, Published(done.db)}
    /\ ready' = FALSE
    /\ reply' = Failure(script, "recovery")
    /\ UNCHANGED <<foreign, txn, steps>>

CommitTransaction ==
    /\ ready
    /\ InTransaction
    /\ db.revision = txn.base
    /\ IF ~IsDirty(txn) THEN reply' = Nothing(<<>>) /\ UNCHANGED db
       ELSE /\ db.revision < MaxRevision
            /\ CommitCandidate.error = "none"
            /\ db' = Published(CommitCandidate.db)
            /\ reply' = Reported(<<>>, txn.touched, CommittedKeys(ChangedRows(txn)))
    /\ txn' = NoTransaction
    /\ steps' = 0
    /\ UNCHANGED <<foreign, ready>>

\* A commit that fails leaves the transaction open, to be tried or rolled back.
CommitFails ==
    /\ ready
    /\ InTransaction
    /\ IsDirty(txn)
    /\ reply' = Failure(<<>>, IF CommitCandidate.error = "none" THEN "failed" ELSE CommitCandidate.error)
    /\ UNCHANGED <<foreign, db, txn, ready, steps>>

CommitUnknown ==
    /\ ready
    /\ InTransaction
    /\ IsDirty(txn)
    /\ db.revision < MaxRevision
    /\ CommitCandidate.error = "none"
    /\ db' \in {db, Published(CommitCandidate.db)}
    /\ ready' = FALSE
    /\ reply' = Failure(<<>>, "recovery")
    /\ UNCHANGED <<foreign, txn, steps>>

RollbackTransaction ==
    /\ ready
    /\ InTransaction
    /\ txn' = NoTransaction
    /\ reply' = Nothing(<<>>)
    /\ steps' = 0
    /\ UNCHANGED <<foreign, db, ready>>

\* Reopening reads the root the device holds; an open transaction was only memory.
Reopen ==
    /\ ~ready \/ InTransaction
    /\ txn' = NoTransaction
    /\ ready' = TRUE
    /\ reply' = Nothing(<<>>)
    /\ steps' = 0
    /\ UNCHANGED <<foreign, db>>

Init ==
    /\ foreign \in ForeignKeyChoices
    /\ \E contents \in InitialContents :
        ConstraintsHold(contents, Range(foreign)) /\ db = Storage(0, contents)
    /\ txn = NoTransaction
    /\ ready = TRUE
    /\ reply = Nothing(<<>>)
    /\ steps = 0

Next ==
    \/ Begin \/ CommitTransaction \/ CommitFails \/ CommitUnknown
    \/ RollbackTransaction \/ Reopen
    \/ \E s \in Statements :
        \/ ExecutePoint(s)
        \/ \E kept \in KeptChoices : ExecuteTransactionWrite(s, kept)
    \/ \E script \in Scripts \cup {<<s>> : s \in Statements}, kept \in KeptChoices :
        \/ ExecuteScript(script, kept)
        \/ ExecuteScriptUnknown(script, kept)
    \/ \E script \in Scripts, kept \in KeptChoices : ScriptInTransaction(script, kept)

Spec == Init /\ [][Next]_vars

-----------------------------------------------------------------------------
\* What readers see.

Contents(storage) == [t \in Tables |-> {storage.rows[t][k] : k \in DOMAIN storage.rows[t]}]

\* The rows the open transaction's scans deliver, and the rows it finds by their keys.
Seen == [t \in Tables |-> Range(VisitRows(db, txn, t))]
Found ==
    [t \in Tables |->
        {Lookup(db, txn, t, k) : k \in DOMAIN db.rows[t] \cup KeysIn(txn.tables[t])} \ {NoRow}]

(***************************************************************************)
(* The committed rows, index entries and catalog counts say the same       *)
(* thing: every index holds one entry for each row with a value in it and  *)
(* no other, and both counts are exact (paged_script.rs apply_row_changes, *)
(* paged_storage.rs validate_index_tree).                                  *)
(***************************************************************************)
IndexesMirrorRows ==
    /\ \A t \in Tables : db.counts[t] = Cardinality(DOMAIN db.rows[t])
    /\ \A x \in Indexes :
        /\ db.entries[x] = EntriesOf(x, db.rows[x.table])
        /\ db.entryCounts[x] = Cardinality(db.entries[x])

(***************************************************************************)
(* "The totals are exactly what validating the whole write set would find" *)
(* (paged_transaction.rs Totals): after any sequence of statements the     *)
(* running totals, the count of staged deletes, the changed rows of each   *)
(* table and the unique values claimed are those the entries themselves    *)
(* give, each entry still starts from the committed row, and the known     *)
(* part of the order is in order.                                          *)
(***************************************************************************)
TotalsExact ==
    (ready /\ InTransaction) =>
        LET entries == UNION {{[table |-> t, key |-> e.key, entry |-> e.entry] :
                                e \in Range(txn.tables[t].rows)} : t \in Tables}
            claimed == {s \in DOMAIN txn.claims : txn.claims[s] # NoRow}
        IN  /\ txn.keys = Cardinality(entries)
            /\ txn.bytes = Total(entries, Retained)
            /\ txn.operations = Total(entries, Operations)
            /\ claimed = Slots(entries)
            /\ \A e \in entries :
                /\ e.entry.old = CommittedRow(db, e.table, e.key)
                /\ \A c \in e.entry.cost.claims : txn.claims[c.slot] = e.key
            /\ \A t \in Tables :
                LET o == txn.tables[t]
                IN  /\ Cardinality(KeysIn(o)) = Len(o.rows)
                    /\ o.deletes = Cardinality({i \in DOMAIN o.rows : o.rows[i].entry.next = NoRow})
                    /\ txn.changed[t] = ChangedIn(entries, t)
                    /\ Range(o.order) = DOMAIN o.rows
                    /\ \A i, j \in 1..o.sorted :
                        i < j => KeyLess(o.rows[o.order[i]].key, o.rows[o.order[j]].key)

(***************************************************************************)
(* The ways of reading a table agree: a row found by its key, the count of *)
(* the rows, and an index the view does not decline all say what a scan    *)
(* says (paged_transaction.rs PagedReadView).                              *)
(***************************************************************************)
ReadersAgree ==
    (ready /\ InTransaction) => \A t \in Tables :
        /\ TableRowCount(db, txn, t) = Len(VisitRows(db, txn, t))
        /\ Seen[t] = Found[t]
        /\ \A x \in TableIndexes(t) : \A r \in Seen[t] :
            LET v == VisitIndex(db, txn, x, IndexValue(x, r))
            IN  v.declined \/ HasNull(IndexValue(x, r))
                \/ v.rows = {q \in Seen[t] : IndexValue(x, q) = IndexValue(x, r)}

(***************************************************************************)
(* The point path plans what the general planner plans, whatever the       *)
(* transaction has staged (paged_engine.rs execute_point).                 *)
(***************************************************************************)
PointPathAgrees ==
    (ready /\ InTransaction) => \A s \in Statements :
        LET planned == PlanPoint(db, txn, s)
            point == Enforce(db, txn, foreign, planned)
            general == PlanDml(db, txn, foreign, s, 99)
        IN  planned.error = "declined"
            \/ (point.error = general.error /\ point.changes = general.changes)

(***************************************************************************)
(* A commit writes what was checked: it never meets a tree that does not   *)
(* hold the rows its changes replace (paged_script.rs "does not hold the   *)
(* rows its changes replace", "is missing an entry", "already holds").     *)
(* And a consumer can "read the presence of a table as `this is every key  *)
(* that changed'" (statement.rs changed_keys, common.ts mergeChangedKeys): *)
(* whatever operation changes the committed rows names every table it      *)
(* changed, and for each either every key it changed there, at most        *)
(* MaxChangedKeys of them, or none.  A commit leaves out only the tables   *)
(* that it changed in more rows.                                           *)
(***************************************************************************)
Differs(t) ==
    {k \in DOMAIN db.rows[t] \cup DOMAIN db'.rows[t] :
        CommittedRow(db, t, k) # CommittedRow(db', t, k)}
ReportsEveryChange ==
    [][/\ reply'.error \notin {"corrupt", "conflict"}
       /\ (ready' /\ db' # db) => \A t \in Tables :
            Differs(t) # {} =>
                /\ t \in reply'.tables
                /\ t \in DOMAIN reply'.keys =>
                    Differs(t) \subseteq reply'.keys[t] /\ Reportable(reply'.keys[t])
                /\ InTransaction => (t \in DOMAIN reply'.keys <=> Reportable(Differs(t)))]_vars

(***************************************************************************)
(* The engine is a serial database: whatever it stages, merges, indexes or *)
(* enforces row by row, each statement has the effect the relational       *)
(* definition gives it, refused exactly when that effect breaks a          *)
(* constraint, and a transaction is all or nothing across failed commits,  *)
(* unknown outcomes and restarts.                                          *)
(***************************************************************************)
\* The state the next operation depends on: an answer is only read by the one who asked.
Live == <<foreign, db, txn, ready, steps>>

Serial == INSTANCE SerialDatabase WITH
    contents <- Contents(db),
    work <- IF InTransaction THEN Found ELSE NoTransaction,
    NoWork <- NoTransaction,
    request <- reply.script,
    answer <- CASE reply.error = "unsupported" -> "constraint" [] OTHER -> reply.error

ImplementsSerialDatabase == Serial!Spec

(***************************************************************************)
(* "Visits the rows ... in `order' if the reader visits in key order"      *)
(* (storage.rs visit_table_range): a view that says its rows come in key   *)
(* order delivers a descending scan in descending order.                   *)
(***************************************************************************)
VisitsInKeyOrder ==
    (ready /\ InTransaction) => \A t \in Tables :
        ReadsCommitted(txn, t) =>
            LET rows == VisitInOrder(db, txn, t, TRUE)
            IN  \A i, j \in DOMAIN rows : i < j => KeyLess(KeyOf(t, rows[j]), KeyOf(t, rows[i]))

(***************************************************************************)
(* "A foreign key holds that its columns' values, in every row of its      *)
(* table, are the values of a row of the table it references"              *)
(* (site/guides/3_sql_compatibility.md): the committed rows, and the rows  *)
(* a transaction sees, satisfy every constraint of the catalog.            *)
(***************************************************************************)
ConstraintsAlwaysHold ==
    /\ ConstraintsHold(Contents(db), Range(foreign))
    /\ (ready /\ InTransaction) => ConstraintsHold(Seen, Range(foreign))
=============================================================================
