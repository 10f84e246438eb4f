------------------------------- MODULE Overlay -------------------------------
(***************************************************************************)
(* The rows a transaction has staged and not committed: for each table it  *)
(* changed a vector of entries in arrival order, a list of their positions *)
(* in key order that is completed only when a walk needs it, and running   *)
(* totals of what the entries retain and would cost to write.  A statement *)
(* is staged by building a patch, validating it against the totals and     *)
(* installing it; a patch that fails leaves the transaction as it was.     *)
(*                                                                         *)
(* `db' is the committed storage: its rows, the entries of its secondary   *)
(* indexes and the counts the catalog keeps of both.                       *)
(***************************************************************************)
EXTENDS Relations

CONSTANTS
    MaxKeys,        \* row keys one transaction may retain
    MaxBytes,       \* bytes it may retain
    MaxOperations   \* tree operations one commit may make

NoCost == [operations |-> -1, claims |-> {}]
NoOverlay == [rows |-> <<>>, deletes |-> 0, order |-> <<>>, sorted |-> 0]

\* What reading a key can have told the planner of a change.
Unread == [read |-> FALSE, row |-> NoRow]
Read(row) == [read |-> TRUE, row |-> row]

\* A change: the row a statement leaves under a key, with what planning read there.
Change(t, key, next, held) == [table |-> t, key |-> key, next |-> next, held |-> held]

-----------------------------------------------------------------------------
\* The committed storage.

CommittedRow(db, t, key) == IF key \in DOMAIN db.rows[t] THEN db.rows[t][key] ELSE NoRow

\* The value a row holds in an index, and whether the index holds it at all.
IndexValue(x, row) == Project(row, x.columns)

\* The entries an index holds of a table's rows.
EntriesOf(x, rows) ==
    {[value |-> IndexValue(x, rows[k]), key |-> k] :
        k \in {j \in DOMAIN rows : ~HasNull(IndexValue(x, rows[j]))}}

\* The primary keys under a value of a committed index.
CommittedOwners(db, x, value) == {e.key : e \in {f \in db.entries[x] : f.value = value}}

\* The unique values a stored row holds.
UniqueValues(t, row) ==
    {[index |-> x, value |-> IndexValue(x, row)] :
        x \in {y \in UniqueIndexes(t) : ~HasNull(IndexValue(y, row))}}

\* A changed table rewrites its own catalog record and those of its indexes.
CatalogOperations(t) == 1 + Cardinality(TableIndexes(t))

\* What writing one changed row costs, and the unique values it claims.
ChangeCost(db, t, next) ==
    [operations |-> 1 + 2 * Cardinality(TableIndexes(t)),
     claims |-> IF next = NoRow THEN {}
                ELSE {[slot |-> s, owners |-> CommittedOwners(db, s.index, s.value)] :
                        s \in UniqueValues(t, next)}]

-----------------------------------------------------------------------------
\* One table's overlay.

KeysIn(overlay) == {overlay.rows[i].key : i \in DOMAIN overlay.rows}

\* The position of a key's entry; only for a staged key.
Find(overlay, key) == CHOOSE i \in DOMAIN overlay.rows : overlay.rows[i].key = key

EntryAt(overlay, key) == overlay.rows[Find(overlay, key)].entry

(***************************************************************************)
(* Installing an entry replaces the one of its key in place or appends it. *)
(* A key above every key before it keeps a whole order whole, and any      *)
(* other begins or lengthens the tail.                                     *)
(***************************************************************************)
InstallEntry(overlay, staged) ==
    IF staged.key \in KeysIn(overlay)
    THEN [overlay EXCEPT !.rows[Find(overlay, staged.key)].entry = staged.entry]
    ELSE LET n == Len(overlay.rows)
             ascends == /\ overlay.sorted = n
                        /\ n > 0 => KeyLess(overlay.rows[Last(overlay.order)].key, staged.key)
         IN  [overlay EXCEPT
                !.rows = Append(@, staged),
                !.order = Append(@, n + 1),
                !.sorted = IF ascends THEN @ + 1 ELSE @]

InstallTable(overlay, entries, deletes) ==
    LET after[n \in 0..Len(entries)] ==
            IF n = 0 THEN [overlay EXCEPT !.deletes = @ + deletes]
            ELSE InstallEntry(after[n - 1], entries[n])
    IN  after[Len(entries)]

\* The order made whole: the sorted tail is merged into the head in one pass.
Precedes(overlay, p, q) == KeyLess(overlay.rows[p].key, overlay.rows[q].key)
CopyBefore(overlay, acc, p) ==
    LET before == Cardinality({i \in DOMAIN acc.rest : Precedes(overlay, acc.rest[i], p)})
    IN  [merged |-> acc.merged \o SubSeq(acc.rest, 1, before) \o <<p>>,
         rest |-> SubSeq(acc.rest, before + 1, Len(acc.rest))]
WithOrder(overlay, done) ==
    [overlay EXCEPT !.order = done.merged \o done.rest, !.sorted = Len(overlay.rows)]
SortedTail(overlay) ==
    LET tail == Range(SubSeq(overlay.order, overlay.sorted + 1, Len(overlay.order)))
    IN  Ranked([p \in tail |-> {q \in tail : Precedes(overlay, q, p)}])
CopyTail(overlay, tail) ==
    LET after[n \in 0..Len(tail)] ==
            IF n = 0 THEN [merged |-> <<>>, rest |-> SubSeq(overlay.order, 1, overlay.sorted)]
            ELSE CopyBefore(overlay, after[n - 1], tail[n])
    IN  after[Len(tail)]
MergeTail(overlay) == WithOrder(overlay, CopyTail(overlay, SortedTail(overlay)))
Whole(overlay) == IF overlay.sorted < Len(overlay.rows) THEN MergeTail(overlay) ELSE overlay

\* The staged entries in key order; the walk leaves the order merged behind it.
Walk(whole) == [i \in DOMAIN whole.order |-> whole.rows[whole.order[i]]]
Ordered(overlay) == Walk(Whole(overlay))

Merged(txn, t) == [txn EXCEPT !.tables[t] = Whole(@)]

-----------------------------------------------------------------------------
\* A transaction.

NewTransaction(revision) ==
    [base |-> revision,
     tables |-> [t \in Tables |-> NoOverlay],
     touched |-> {},
     keys |-> 0, bytes |-> 0, operations |-> 0,
     changed |-> [t \in Tables |-> 0],
     claims |-> <<>>]   \* [slots |-> the key that claims each, or NoRow once given up]

IsDirty(txn) == txn.touched # {}

\* Mutant: a table is read as committed until a row of it is deleted.
ReadsCommittedUntilDelete(txn, t) == txn.tables[t].deletes = 0

\* The committed table is what the transaction sees, so its order and indexes apply.
ReadsCommitted(txn, t) == txn.changed[t] = 0

\* What an entry retains: its key and overhead, and the two rows it holds.
RetainedBytes(old, next) == 1 + (IF old = NoRow THEN 0 ELSE 1) + (IF next = NoRow THEN 0 ELSE 1)

\* Mutant: the search is skipped in a table with staged deletes too.
FirstChangeUnsearched(db, txn, c) ==
    LET overlay == txn.tables[c.table]
        found == c.held # Read(NoRow) /\ c.key \in KeysIn(overlay)
    IN  [table |-> c.table, key |-> c.key, next |-> c.next, upserted |-> c.next # NoRow,
         found |-> found,
         replacedDelete |-> found /\ EntryAt(overlay, c.key).next = NoRow,
         base |-> IF found THEN EntryAt(overlay, c.key).old
                  ELSE IF c.held.read THEN c.held.row ELSE CommittedRow(db, c.table, c.key)]

(***************************************************************************)
(* A statement's first change to a key starts from the committed row of    *)
(* the entry it replaces, else the row planning read, else the committed   *)
(* row.  A key planning read no row for can replace an entry only in a     *)
(* table with staged deletes, so elsewhere the entries are not searched.   *)
(***************************************************************************)
FirstChange(db, txn, c) ==
    LET overlay == txn.tables[c.table]
        unstaged == /\ c.next # NoRow
                    /\ overlay.deletes = 0
                    /\ c.held = Read(NoRow)
        found == ~unstaged /\ c.key \in KeysIn(overlay)
    IN  [table |-> c.table, key |-> c.key, next |-> c.next,
         upserted |-> c.next # NoRow,
         found |-> found,
         replacedDelete |-> found /\ EntryAt(overlay, c.key).next = NoRow,
         base |-> IF found THEN EntryAt(overlay, c.key).old
                  ELSE IF c.held.read THEN c.held.row
                  ELSE CommittedRow(db, c.table, c.key)]

\* A key may be deleted and upserted by one statement, but upserted only once.
AddChange(db, txn, patch, c) ==
    LET same == {i \in DOMAIN patch.changes :
                    patch.changes[i].table = c.table /\ patch.changes[i].key = c.key}
    IN  IF same = {}
        THEN [patch EXCEPT !.changes = Append(@, FirstChange(db, txn, c))]
        ELSE LET i == CHOOSE j \in same : TRUE
             IN  IF c.next # NoRow /\ patch.changes[i].upserted
                 THEN [patch EXCEPT !.ok = FALSE]
                 ELSE [patch EXCEPT !.changes[i].next = c.next,
                                    !.changes[i].upserted = @ \/ c.next # NoRow]

\* The entry a statement's last change to a key leaves.
OverlayEntry(db, change) ==
    LET changed == change.base # change.next
    IN  [old |-> change.base, next |-> change.next, changed |-> changed,
         retained |-> RetainedBytes(change.base, change.next),
         cost |-> IF changed THEN ChangeCost(db, change.table, change.next) ELSE NoCost]

\* One table's part of a patch: its entries in key order, and the deletes they add.
TablePatch(db, changes) ==
    [entries |-> [i \in DOMAIN changes |->
                    [key |-> changes[i].key, entry |-> OverlayEntry(db, changes[i])]],
     deletes |-> Cardinality({i \in DOMAIN changes : changes[i].next = NoRow})
                    - Cardinality({i \in DOMAIN changes : changes[i].replacedDelete})]

\* The changes to one table, in key order.
ChangesTo(t, changes) ==
    LET at == {i \in DOMAIN changes : changes[i].table = t}
        order == Ranked([i \in at |-> {j \in at : KeyLess(changes[j].key, changes[i].key)}])
    IN  [n \in 1..Cardinality(at) |-> changes[order[n]]]
MergedPatch(db, ok, changes) ==
    [ok |-> ok,
     replaces |-> \E i \in DOMAIN changes : changes[i].found,
     tables |-> [t \in {c.table : c \in Range(changes)} |->
        TablePatch(db, ChangesTo(t, changes))]]
PatchOf(db, merged) == MergedPatch(db, merged.ok, merged.changes)
AddChanges(db, txn, changes) ==
    LET after[n \in 0..Len(changes)] ==
            IF n = 0 THEN [ok |-> TRUE, changes |-> <<>>]
            ELSE AddChange(db, txn, after[n - 1], changes[n])
    IN  after[Len(changes)]
Patch(db, txn, changes) == PatchOf(db, AddChanges(db, txn, changes))

-----------------------------------------------------------------------------
(***************************************************************************)
(* Validating a patch: the totals with its entries in place of those they  *)
(* replace, the claims they give up and the claims they make.              *)
(***************************************************************************)
PatchEntries(patch) ==
    UNION {{[table |-> t, key |-> e.key, entry |-> e.entry] : e \in Range(patch.tables[t].entries)} :
            t \in DOMAIN patch.tables}

\* The staged entries the patch replaces, looked for only if it replaced any.
ReplacedEntries(txn, patch) ==
    IF ~patch.replaces THEN {}
    ELSE {[table |-> e.table, key |-> e.key, entry |-> EntryAt(txn.tables[e.table], e.key)] :
            e \in {f \in PatchEntries(patch) : f.key \in KeysIn(txn.tables[f.table])}}

Total(entries, F(_)) == MapThenSumSet(F, entries)
Retained(e) == e.entry.retained
Operations(e) == IF e.entry.changed THEN e.entry.cost.operations ELSE 0
Slots(entries) == UNION {{c.slot : c \in e.entry.cost.claims} : e \in entries}

\* Whether the transaction changes a row once the patch is in place.
ChangesRow(txn, patch, t, key) ==
    LET mine == {e \in PatchEntries(patch) : e.table = t /\ e.key = key}
    IN  IF mine # {} THEN \E e \in mine : e.entry.changed
        ELSE key \in KeysIn(txn.tables[t]) /\ EntryAt(txn.tables[t], key).changed

\* Mutant: a row changed back to its committed state does not take its values back.
ClaimsIgnoreReverts(txn, patch) ==
    LET entries == PatchEntries(patch)
        released == Slots(ReplacedEntries(txn, patch))
        Claims(e, s) == \E c \in e.entry.cost.claims : c.slot = s
    IN  \A e \in entries : \A c \in e.entry.cost.claims :
            /\ ~\E f \in entries : f.table = e.table /\ f.key # e.key /\ Claims(f, c.slot)
            /\ c.slot \in released \/ c.slot \notin DOMAIN txn.claims
                \/ txn.claims[c.slot] \in {NoRow, e.key}
            /\ \A o \in c.owners : o = e.key \/ ChangesRow(txn, patch, e.table, o)

(***************************************************************************)
(* A claimed value is held by no other staged row, and by a committed row  *)
(* only if the transaction changes that row.  A row the patch changes back *)
(* to its committed state holds its committed values again.                *)
(***************************************************************************)
ClaimsAreFree(txn, patch) ==
    LET entries == PatchEntries(patch)
        released == Slots(ReplacedEntries(txn, patch))
        StagedHolder(s) == IF s \in released \/ s \notin DOMAIN txn.claims THEN NoRow
                           ELSE txn.claims[s]
        Claims(e, s) == \E c \in e.entry.cost.claims : c.slot = s
        HeldByOther(e, s) ==
            \/ \E f \in entries : f.table = e.table /\ f.key # e.key /\ Claims(f, s)
            \/ StagedHolder(s) \notin {NoRow, e.key}
    IN  \A e \in entries :
            /\ \A c \in e.entry.cost.claims :
                /\ ~HeldByOther(e, c.slot)
                /\ \A o \in c.owners : o = e.key \/ ChangesRow(txn, patch, e.table, o)
            /\ (~e.entry.changed /\ e.entry.old # NoRow) =>
                \A s \in UniqueValues(e.table, e.entry.old) : ~HeldByOther(e, s)

ChangedIn(entries, t) == Cardinality({e \in entries : e.table = t /\ e.entry.changed})

\* How many changed rows each table has once the patch is in place.
PatchedCounts(txn, patch) ==
    [t \in Tables |-> txn.changed[t] + ChangedIn(PatchEntries(patch), t)
                                     - ChangedIn(ReplacedEntries(txn, patch), t)]

PatchedTotals(txn, patch) ==
    LET new == PatchEntries(patch)
        old == ReplacedEntries(txn, patch)
        Part(F(_)) == Total(new, F) - Total(old, F)
    IN  [keys |-> txn.keys + Cardinality(new) - Cardinality(old),
         bytes |-> txn.bytes + Part(Retained),
         operations |-> txn.operations + Part(Operations)]

CatalogCharge(counts) == MapThenSumSet(CatalogOperations, {t \in Tables : counts[t] > 0})

WithinLimits(totals) ==
    /\ totals.keys <= MaxKeys
    /\ totals.bytes <= MaxBytes
    /\ totals.operations <= MaxOperations

PatchedClaims(txn, patch) ==
    LET entries == PatchEntries(patch)
        released == Slots(ReplacedEntries(txn, patch))
        made == Slots(entries)
    IN  [s \in DOMAIN txn.claims \cup made |->
            IF s \in made
            THEN (CHOOSE e \in entries : \E c \in e.entry.cost.claims : c.slot = s).key
            ELSE IF s \in released THEN NoRow ELSE txn.claims[s]]

(***************************************************************************)
(* Staging one statement's changes.  The answer is the transaction with    *)
(* the patch installed, or the reason it was refused.                      *)
(***************************************************************************)
Staged(txn) == [error |-> "none", txn |-> txn]
Refused(txn, error) == [error |-> error, txn |-> txn]

Install(txn, patch) ==
    LET totals == PatchedTotals(txn, patch)
    IN  [txn EXCEPT
            !.tables = [t \in Tables |-> IF t \in DOMAIN patch.tables
                            THEN InstallTable(@[t], patch.tables[t].entries, patch.tables[t].deletes)
                            ELSE @[t]],
            !.touched = @ \cup DOMAIN patch.tables,
            !.keys = totals.keys, !.bytes = totals.bytes, !.operations = totals.operations,
            !.changed = PatchedCounts(txn, patch),
            !.claims = PatchedClaims(txn, patch)]

StagePatch(txn, patch) ==
    IF ~patch.ok THEN Refused(txn, "constraint")
    ELSE IF ~WithinLimits(PatchedTotals(txn, patch)) THEN Refused(txn, "too large")
    ELSE IF ~ClaimsAreFree(txn, patch) THEN Refused(txn, "constraint")
    ELSE IF PatchedTotals(txn, patch).operations + CatalogCharge(PatchedCounts(txn, patch))
                > MaxOperations
         THEN Refused(txn, "too large")
    ELSE Staged(Install(txn, patch))
Stage(db, txn, changes) ==
    IF db.revision # txn.base THEN Refused(txn, "conflict")
    ELSE IF changes = <<>> THEN Staged(txn)
    ELSE StagePatch(txn, Patch(db, txn, changes))

-----------------------------------------------------------------------------
(***************************************************************************)
(* Reading through the overlay.                                            *)
(***************************************************************************)
Lookup(db, txn, t, key) ==
    IF key \in KeysIn(txn.tables[t]) THEN EntryAt(txn.tables[t], key).next
    ELSE CommittedRow(db, t, key)

ChangedAmong(entries) == Picked(entries, {i \in DOMAIN entries : entries[i].entry.changed})
ChangedEntries(txn, t) == ChangedAmong(Ordered(txn.tables[t]))

\* The committed rows no changed entry replaces, then the changed staged rows.
RowsUnder(rows, keys) == [i \in DOMAIN keys |-> rows[keys[i]]]
NextRows(entries) == [i \in DOMAIN entries |-> entries[i].entry.next]
Overlaid(rows, changed) ==
    RowsUnder(rows, InKeyOrder(DOMAIN rows \ {e.key : e \in Range(changed)}))
        \o NextRows(Picked(changed, {i \in DOMAIN changed : changed[i].entry.next # NoRow}))
VisitRows(db, txn, t) == Overlaid(db.rows[t], ChangedEntries(txn, t))

\* A scan asked for an order keeps to it only over a table with no staged entry.
InDirection(rows, descending) == IF descending THEN Reverse(rows) ELSE rows
VisitInOrder(db, txn, t, descending) ==
    InDirection(VisitRows(db, txn, t), descending /\ txn.tables[t].rows = <<>>)

\* The rows of an index value, or none to say that the reader declines.
VisitIndex(db, txn, x, value) ==
    IF ~ReadsCommitted(txn, x.table) THEN [declined |-> TRUE, rows |-> {}]
    ELSE [declined |-> FALSE,
          rows |-> {db.rows[x.table][k] : k \in CommittedOwners(db, x, value)}]

TableRowCount(db, txn, t) ==
    LET entries == Range(txn.tables[t].rows)
    IN  db.counts[t] + Cardinality({e \in entries : e.entry.old = NoRow /\ e.entry.next # NoRow})
                     - Cardinality({e \in entries : e.entry.old # NoRow /\ e.entry.next = NoRow})

\* What a commit writes: each table's changed rows, by key, with the rows they replace.
HasChanges(txn, t) == \E e \in Range(txn.tables[t].rows) : e.entry.changed
ChangedRows(txn) ==
    [t \in {u \in Tables : HasChanges(txn, u)} |-> ChangedEntries(txn, t)]
=============================================================================
