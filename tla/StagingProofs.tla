---------------------------- MODULE StagingProofs ----------------------------
(***************************************************************************)
(* What a transaction's overlay keeps true, whatever the catalog and       *)
(* whatever the statements: every entry starts from the committed row of   *)
(* its key, the counts the readers rely on are the counts of the entries,  *)
(* the unique values claimed are theirs, and a planner's changes say truly *)
(* what the planner read.                                                  *)
(***************************************************************************)
EXTENDS Dml, OrderProofs

-----------------------------------------------------------------------------
(* Rows and keys. *)

Keys(t) == [1..Len(PrimaryKey[t]) -> Int]

\* The rows a table may hold, and those it may hold under a key.
StoredRows(t) == {r \in Rows(t) : RowIsValid(t, r)}
Under(t, key) == {r \in StoredRows(t) : KeyOf(t, r) = key} \cup {NoRow}

\* A row that may be stored has a key, and is a row.
LEMMA StoredRowHasKey ==
    ASSUME NEW t \in Tables, NEW r \in StoredRows(t)
    PROVE  KeyOf(t, r) \in Keys(t) /\ r \in Under(t, KeyOf(t, r)) /\ r # NoRow
<1>1. /\ PrimaryKey[t] \in Seq(Columns[t]) /\ Range(PrimaryKey[t]) \subseteq NotNull[t]
      /\ NoRow \notin Rows(t)
  BY CatalogAssumption
<1>2. DOMAIN PrimaryKey[t] = 1..Len(PrimaryKey[t])
  BY <1>1
<1>3. ASSUME NEW i \in 1..Len(PrimaryKey[t]) PROVE r[PrimaryKey[t][i]] \in Int
  <2>1. PrimaryKey[t][i] \in Columns[t] /\ PrimaryKey[t][i] \in NotNull[t]
    BY <1>1, <1>2 DEF Range
  <2> QED
    BY <2>1 DEF StoredRows, Rows, Values, RowIsValid
<1>4. KeyOf(t, r) \in Keys(t)
  BY <1>2, <1>3 DEF KeyOf, Project, Keys
<1> QED
  BY <1>1, <1>4 DEF StoredRows, Under

-----------------------------------------------------------------------------
(* The committed storage. *)

RowsOK(t, rows) ==
    /\ rows = [k \in DOMAIN rows |-> rows[k]]
    /\ IsFiniteSet(DOMAIN rows)
    /\ DOMAIN rows \in SUBSET Keys(t)
    /\ \A k \in DOMAIN rows : rows[k] \in StoredRows(t) /\ KeyOf(t, rows[k]) = k

\* A row takes a unique value that it holds in a unique index.
Takes(t, row, s) == row # NoRow /\ s \in UniqueValues(t, row)

\* A unique value names its index, and so its table.
LEMMA TakesIs ==
    ASSUME NEW t, NEW row, NEW s
    PROVE  Takes(t, row, s) <=>
            /\ row # NoRow
            /\ s = [index |-> s.index, value |-> s.value]
            /\ s.index \in Indexes /\ s.index.table = t /\ s.index.unique
            /\ s.value = IndexValue(s.index, row) /\ ~HasNull(s.value)
<1>1. \A x : x \in UniqueIndexes(t) <=> x \in Indexes /\ x.table = t /\ x.unique
  BY DEF UniqueIndexes, TableIndexes
<1>2. s \in UniqueValues(t, row) <=>
        \E x : x \in UniqueIndexes(t) /\ ~HasNull(IndexValue(x, row))
               /\ s = [index |-> x, value |-> IndexValue(x, row)]
  BY DEF UniqueValues
<1>3. ASSUME s \in UniqueValues(t, row)
      PROVE  /\ s = [index |-> s.index, value |-> s.value]
             /\ s.index \in UniqueIndexes(t)
             /\ s.value = IndexValue(s.index, row) /\ ~HasNull(s.value)
  <2>1. PICK x : x \in UniqueIndexes(t) /\ ~HasNull(IndexValue(x, row))
                 /\ s = [index |-> x, value |-> IndexValue(x, row)]
    BY <1>2, <1>3
  <2>2. s.index = x /\ s.value = IndexValue(x, row)
    BY <2>1
  <2> QED
    BY <2>1, <2>2
<1> QED
  BY <1>1, <1>2, <1>3 DEF Takes

\* No two committed rows take a value.
UniqueStored(db) ==
    \A t \in Tables : \A s, k, j :
        Takes(t, CommittedRow(db, t, k), s) /\ Takes(t, CommittedRow(db, t, j), s) => k = j

StorageOK(db) ==
    /\ db = [revision |-> db.revision, rows |-> db.rows, counts |-> db.counts,
             entries |-> db.entries, entryCounts |-> db.entryCounts]
    /\ db.rows = [t \in Tables |-> db.rows[t]]
    /\ db.counts = [t \in Tables |-> Cardinality(DOMAIN db.rows[t])]
    /\ db.entries = [x \in Indexes |-> EntriesOf(x, db.rows[x.table])]
    /\ db.entryCounts = [x \in Indexes |-> Cardinality(EntriesOf(x, db.rows[x.table]))]
    /\ \A t \in Tables : RowsOK(t, db.rows[t])
    /\ UniqueStored(db)

\* The row committed under a key is one that key may hold.
LEMMA CommittedRowIs ==
    ASSUME NEW db, StorageOK(db), NEW t \in Tables, NEW key
    PROVE  /\ CommittedRow(db, t, key) \in Under(t, key)
           /\ CommittedRow(db, t, key) # NoRow <=> key \in DOMAIN db.rows[t]
           /\ key \in DOMAIN db.rows[t] => CommittedRow(db, t, key) = db.rows[t][key]
<1>1. RowsOK(t, db.rows[t])
  BY DEF StorageOK
<1>2. CASE key \in DOMAIN db.rows[t]
  <2>1. db.rows[t][key] \in StoredRows(t) /\ KeyOf(t, db.rows[t][key]) = key
    BY <1>1, <1>2 DEF RowsOK
  <2>2. db.rows[t][key] # NoRow
    BY <2>1, StoredRowHasKey
  <2> QED
    BY <1>2, <2>1, <2>2 DEF CommittedRow, Under
<1>3. CASE key \notin DOMAIN db.rows[t]
  BY <1>3 DEF CommittedRow, Under
<1> QED
  BY <1>2, <1>3

-----------------------------------------------------------------------------
(* One table's overlay. *)

\* The entry of a change that leaves `next' under a key.
EntryFor(db, t, key, next) ==
    OverlayEntry(db, [table |-> t, base |-> CommittedRow(db, t, key), next |-> next])
StagedEntries(db, t) ==
    UNION {{[key |-> k, entry |-> EntryFor(db, t, k, r)] : r \in Under(t, k)} : k \in Keys(t)}

\* What a staged entry says.
LEMMA StagedEntryIs ==
    ASSUME NEW db, NEW t, NEW e \in StagedEntries(db, t)
    PROVE  /\ e = [key |-> e.key, entry |-> e.entry]
           /\ e.key \in Keys(t)
           /\ e.entry = EntryFor(db, t, e.key, e.entry.next)
           /\ e.entry.old = CommittedRow(db, t, e.key)
           /\ e.entry.next \in Under(t, e.key)
           /\ e.entry.changed = (e.entry.old # e.entry.next)
  BY DEF StagedEntries, EntryFor, OverlayEntry

\* What an entry claims: the values its row takes, if it changes its row.
LEMMA EntryClaims ==
    ASSUME NEW db, NEW t, NEW k, NEW next, NEW e, e = EntryFor(db, t, k, next)
    PROVE  /\ \A s : (\E c \in e.cost.claims : c.slot = s) <=> e.changed /\ Takes(t, e.next, s)
           /\ \A c \in e.cost.claims : c.owners = CommittedOwners(db, c.slot.index, c.slot.value)
<1>1. /\ e.next = next
      /\ e.changed = (CommittedRow(db, t, k) # next)
      /\ e.cost = IF e.changed THEN ChangeCost(db, t, next) ELSE NoCost
  BY DEF EntryFor, OverlayEntry
<1>2. CASE ~e.changed
  <2>1. e.cost.claims = {}
    BY <1>1, <1>2 DEF NoCost
  <2> QED
    BY <1>2, <2>1
<1>3. CASE e.changed /\ next = NoRow
  <2>1. e.cost.claims = {}
    BY <1>1, <1>3 DEF ChangeCost
  <2> QED
    BY <1>1, <1>3, <2>1 DEF Takes
<1>4. CASE e.changed /\ next # NoRow
  <2> DEFINE C == {[slot |-> s, owners |-> CommittedOwners(db, s.index, s.value)] :
                        s \in UniqueValues(t, next)}
  <2>1. e.cost.claims = C
    BY <1>1, <1>4 DEF ChangeCost
  <2>2. \A c : c \in C <=> \E s \in UniqueValues(t, next) :
                c = [slot |-> s, owners |-> CommittedOwners(db, s.index, s.value)]
    OBVIOUS
  <2> HIDE DEF C
  <2>3. ASSUME NEW c \in C
        PROVE  c.slot \in UniqueValues(t, next) /\ c.owners = CommittedOwners(db, c.slot.index, c.slot.value)
    <3>1. PICK s \in UniqueValues(t, next) :
                c = [slot |-> s, owners |-> CommittedOwners(db, s.index, s.value)]
      BY <2>2
    <3>2. c.slot = s /\ c.owners = CommittedOwners(db, s.index, s.value)
      BY <3>1
    <3> QED
      BY <3>2
  <2>4. ASSUME NEW s \in UniqueValues(t, next) PROVE \E c \in C : c.slot = s
    <3> DEFINE c == [slot |-> s, owners |-> CommittedOwners(db, s.index, s.value)]
    <3>1. c \in C /\ c.slot = s
      BY <2>2
    <3> QED
      BY <3>1
  <2> QED
    BY <1>1, <1>4, <2>1, <2>3, <2>4 DEF Takes
<1> QED
  BY <1>1, <1>2, <1>3, <1>4

\* The entries of a table, the order they are walked in, and the number of deletes.
EntriesOK(db, t, o) ==
    /\ o.rows \in Seq(StagedEntries(db, t))
    /\ \A i, j \in DOMAIN o.rows : o.rows[i].key = o.rows[j].key => i = j
OrderOK(o) ==
    /\ o.order \in Seq(1..Len(o.rows))
    /\ Len(o.order) = Len(o.rows)
    /\ Range(o.order) = 1..Len(o.rows)
    /\ o.sorted \in 0..Len(o.rows)
DeletedKeys(o) == {k \in KeysIn(o) : EntryAt(o, k).next = NoRow}
ChangedKeysIn(o) == {k \in KeysIn(o) : EntryAt(o, k).changed}
OverlayOK(db, t, o) ==
    /\ o = [rows |-> o.rows, deletes |-> o.deletes, order |-> o.order, sorted |-> o.sorted]
    /\ EntriesOK(db, t, o)
    /\ OrderOK(o)
    /\ o.deletes = Cardinality(DeletedKeys(o))

\* The entry of a staged key, and the position it is found at.
LEMMA EntryAtIs ==
    ASSUME NEW db, NEW t, NEW o, EntriesOK(db, t, o)
    PROVE  /\ DOMAIN o.rows = 1..Len(o.rows) /\ Len(o.rows) \in Nat
           /\ KeysIn(o) \in SUBSET Keys(t)
           /\ \A i \in DOMAIN o.rows :
                /\ o.rows[i].key \in KeysIn(o)
                /\ Find(o, o.rows[i].key) = i
                /\ EntryAt(o, o.rows[i].key) = o.rows[i].entry
           /\ \A k \in KeysIn(o) :
                /\ Find(o, k) \in DOMAIN o.rows
                /\ o.rows[Find(o, k)] = [key |-> k, entry |-> EntryAt(o, k)]
                /\ o.rows[Find(o, k)] \in StagedEntries(db, t)
<1>1. DOMAIN o.rows = 1..Len(o.rows) /\ Len(o.rows) \in Nat
  BY DEF EntriesOK
<1>2. \A i \in DOMAIN o.rows : o.rows[i] \in StagedEntries(db, t)
  BY DEF EntriesOK
<1>3. ASSUME NEW i \in DOMAIN o.rows
      PROVE  /\ o.rows[i].key \in KeysIn(o) /\ o.rows[i].key \in Keys(t)
             /\ Find(o, o.rows[i].key) = i
             /\ EntryAt(o, o.rows[i].key) = o.rows[i].entry
  <2>1. o.rows[i].key \in KeysIn(o) /\ o.rows[i].key \in Keys(t)
    BY <1>2, StagedEntryIs DEF KeysIn
  <2>2. Find(o, o.rows[i].key) = i
    BY DEF Find, EntriesOK
  <2> QED
    BY <2>1, <2>2 DEF EntryAt
<1>4. ASSUME NEW k \in KeysIn(o)
      PROVE  /\ Find(o, k) \in DOMAIN o.rows
             /\ o.rows[Find(o, k)] = [key |-> k, entry |-> EntryAt(o, k)]
             /\ o.rows[Find(o, k)] \in StagedEntries(db, t)
  <2>1. PICK i \in DOMAIN o.rows : o.rows[i].key = k
    BY DEF KeysIn
  <2>2. Find(o, k) = i /\ EntryAt(o, k) = o.rows[i].entry
    BY <1>3, <2>1
  <2>3. o.rows[i] \in StagedEntries(db, t)
    BY <1>2
  <2> QED
    BY <2>1, <2>2, <2>3, StagedEntryIs
<1>5. KeysIn(o) \in SUBSET Keys(t)
  BY <1>3 DEF KeysIn
<1> QED
  BY <1>1, <1>3, <1>4, <1>5

\* An entry starts from the committed row, and is changed if it leaves another.
IsEntry(db, t, key, e) ==
    /\ e.old = CommittedRow(db, t, key)
    /\ e.next \in Under(t, key)
    /\ e.changed <=> e.old # e.next

\* What an overlay holds under a staged key is such an entry.
LEMMA EntryIs ==
    ASSUME NEW db, NEW t, NEW o, EntriesOK(db, t, o), NEW k \in KeysIn(o)
    PROVE  IsEntry(db, t, k, EntryAt(o, k))
<1>1. PICK e \in StagedEntries(db, t) : e.key = k /\ e.entry = EntryAt(o, k)
  <2>1. o.rows[Find(o, k)] = [key |-> k, entry |-> EntryAt(o, k)]
        /\ o.rows[Find(o, k)] \in StagedEntries(db, t)
    BY EntryAtIs
  <2> QED
    BY <2>1
<1>2. /\ e.entry.old = CommittedRow(db, t, e.key)
      /\ e.entry.next \in Under(t, e.key)
      /\ e.entry.changed = (e.entry.old # e.entry.next)
  BY StagedEntryIs
<1> QED
  BY <1>1, <1>2 DEF IsEntry

\* The tail is merged into the head one position at a time.
CopyTailRun(overlay, tail, after) ==
    /\ CopyTail(overlay, tail) = after[Len(tail)]
    /\ after[0] = [merged |-> <<>>, rest |-> SubSeq(overlay.order, 1, overlay.sorted)]
    /\ \A n \in 1..Len(tail) : after[n] = CopyBefore(overlay, after[n - 1], tail[n])

\* The loop has such a run.
LEMMA CopyTailLoop ==
    ASSUME NEW overlay, NEW tail, Len(tail) \in Nat
    PROVE  \E after : CopyTailRun(overlay, tail, after)
<1> DEFINE start == [merged |-> <<>>, rest |-> SubSeq(overlay.order, 1, overlay.sorted)]
           Step(f, n) == CopyBefore(overlay, f[n - 1], tail[n])
           E(m, f) == f = [n \in 0..m |-> IF n = 0 THEN start ELSE Step(f, n)]
           I == {m \in 0..Len(tail) : \E f : E(m, f)}
<1>1. CopyTail(overlay, tail) = (CHOOSE f : E(Len(tail), f))[Len(tail)]
  BY DEF CopyTail
<1>2. E(0, [n \in 0..0 |-> start])
  <2> HIDE DEF Step, start
  <2> QED
    OBVIOUS
<1>3. ASSUME NEW m \in 0..(Len(tail) - 1), NEW f, E(m, f)
      PROVE  \E g : E(m + 1, g)
  <2> DEFINE g == [n \in 0..(m + 1) |-> IF n = m + 1 THEN Step(f, n) ELSE f[n]]
  <2>1. ASSUME NEW n \in 0..(m + 1), n # 0 PROVE Step(g, n) = Step(f, n)
    <3>1. g[n - 1] = f[n - 1]
      BY <2>1
    <3> QED
      BY <3>1
  <2> HIDE DEF Step, start
  <2>2. ASSUME NEW n \in 0..(m + 1), n # m + 1
        PROVE  f[n] = IF n = 0 THEN start ELSE Step(f, n)
    BY <1>3, <2>2
  <2>3. E(m + 1, g)
    BY <2>1, <2>2
  <2> QED
    BY <2>3
<1>4. \A f : E(Len(tail), f) => /\ f[0] = start
                      /\ \A n \in 1..Len(tail) : f[n] = Step(f, n)
  <2> HIDE DEF Step, start
  <2> QED
    OBVIOUS
<1> HIDE DEF E
<1>5. 0 \in I
  BY <1>2
<1>6. ASSUME NEW m \in 0..(Len(tail) - 1), m \in I PROVE m + 1 \in I
  <2>1. PICK f : E(m, f)
    BY <1>6
  <2>2. m + 1 \in 0..Len(tail) /\ \E g : E(m + 1, g)
    BY <2>1, <1>3
  <2> QED
    BY <2>2
<1>7. 0..Len(tail) \subseteq I
  <2> HIDE DEF I
  <2> QED
    BY <1>5, <1>6, LoopInduction
<1>8. E(Len(tail), CHOOSE f : E(Len(tail), f))
  <2>1. Len(tail) \in I
    BY <1>7
  <2> QED
    BY <2>1
<1> QED
  BY <1>1, <1>4, <1>8 DEF CopyTailRun

\* The tail sorted: every position of it, once.
LEMMA SortedTailIs ==
    ASSUME NEW db, NEW t \in Tables, NEW o, EntriesOK(db, t, o), OrderOK(o)
    PROVE  /\ SortedTail(o) \in Seq(1..Len(o.rows))
           /\ Len(SortedTail(o)) = Len(o.rows) - o.sorted
           /\ Range(SortedTail(o)) = {o.order[i] : i \in (o.sorted + 1)..Len(o.rows)}
<1> DEFINE L == Len(o.rows)
           tail == {o.order[i] : i \in (o.sorted + 1)..L}
           n == Len(PrimaryKey[t])
           key == [p \in tail |-> o.rows[p].key]
           before == [p \in tail |-> {q \in tail : KeyLess(key[q], key[p])}]
<1>1. L \in Nat /\ o.sorted \in 0..L /\ o.order \in Seq(1..L) /\ Len(o.order) = L
      /\ Range(o.order) = 1..L /\ DOMAIN o.rows = 1..L
  BY EntryAtIs DEF OrderOK
<1> HIDE DEF L
<1>2. Range(SubSeq(o.order, o.sorted + 1, Len(o.order))) = tail
  <2>1. /\ o.sorted + 1 \in Nat /\ Len(o.order) \in Nat /\ 1 <= o.sorted + 1
        /\ o.sorted + 1 <= Len(o.order) + 1 /\ Len(o.order) <= Len(o.order)
    BY <1>1
  <2>2. \A x : x \in Range(SubSeq(o.order, o.sorted + 1, Len(o.order)))
            <=> \E i \in (o.sorted + 1)..Len(o.order) : x = o.order[i]
    BY <1>1, <2>1, PartRange
  <2> QED
    BY <1>1, <2>2
<1>3. tail \in SUBSET (1..L)
  <2>1. \A i \in (o.sorted + 1)..L : i \in 1..L
    BY <1>1
  <2>2. \A i \in 1..L : o.order[i] \in 1..L
    BY <1>1
  <2> QED
    BY <2>1, <2>2
<1>4. n \in Nat
  BY CatalogAssumption
<1>5. key \in [tail -> [1..n -> Int]] /\ \A p, q \in tail : key[p] = key[q] => p = q
  <2>1. \A p \in tail : o.rows[p].key \in Keys(t)
    <3>1. \A p \in 1..L : o.rows[p].key \in KeysIn(o) /\ KeysIn(o) \in SUBSET Keys(t)
      BY EntryAtIs, <1>1
    <3> QED
      BY <3>1, <1>3
  <2>2. \A p, q \in tail : o.rows[p].key = o.rows[q].key => p = q
    BY <1>1, <1>3 DEF EntriesOK
  <2> HIDE DEF tail
  <2> QED
    BY <2>1, <2>2 DEF Keys
<1>6. IsOrder(tail, before)
  <2> HIDE DEF tail, key, n, before
  <2>1. before = [p \in tail |-> {q \in tail : KeyLess(key[q], key[p])}]
    BY DEF before
  <2> QED
    BY <2>1, <1>4, <1>5, ByKeyOrder
<1>7. SortedTail(o) = Ranked(before)
  <2>1. \A p, q \in tail : KeyLess(key[q], key[p]) = Precedes(o, q, p)
    BY DEF Precedes
  <2>2. before = [p \in tail |-> {q \in tail : Precedes(o, q, p)}]
    <3> HIDE DEF tail, key
    <3> QED
      BY <2>1
  <2> HIDE DEF tail, before
  <2> QED
    BY <1>2, <2>2 DEF SortedTail
<1>8. IsFiniteSet(tail)
  BY <1>1, <1>3, PositionsFinite
<1>9. Cardinality(tail) = L - o.sorted
  <2>1. \A i, j \in 1..L : o.order[i] = o.order[j] => i = j
    <3>1. o.order \in [1..L -> 1..L]
      BY <1>1
    <3>2. \A x \in 1..L : \E i \in 1..L : o.order[i] = x
      BY <1>1, <3>1 DEF Range
    <3> QED
      BY <1>1, <3>1, <3>2, ListedOnce
  <2>2. /\ IsFiniteSet((o.sorted + 1)..L)
        /\ Cardinality((o.sorted + 1)..L) = L - o.sorted
    <3>1. o.sorted + 1 \in Int /\ L \in Int /\ o.sorted \in Int /\ o.sorted <= L
      BY <1>1
    <3>2. IsFiniteSet((o.sorted + 1)..L)
      BY <3>1, FS_Interval
    <3>3. Cardinality((o.sorted + 1)..L) = IF o.sorted + 1 > L THEN 0 ELSE L - (o.sorted + 1) + 1
      BY <3>1, FS_Interval
    <3> QED
      BY <3>1, <3>2, <3>3
  <2>3. Cardinality(tail) = Cardinality((o.sorted + 1)..L)
    <3>1. \A i, j \in (o.sorted + 1)..L : o.order[i] = o.order[j] => i = j
      BY <1>1, <2>1
    <3>2. /\ \A i \in (o.sorted + 1)..L : o.order[i] \in tail
          /\ \A p \in tail : \E i \in (o.sorted + 1)..L : o.order[i] = p
      OBVIOUS
    <3> HIDE DEF tail
    <3>3. ASSUME NEW S, S = (o.sorted + 1)..L
          PROVE  Cardinality(tail) = Cardinality(S)
      BY <2>2, <3>1, <3>2, <3>3, SameSize
    <3> QED
      BY <3>3
  <2> QED
    BY <2>2, <2>3
<1>10. /\ Ranked(before) \in [1..Cardinality(tail) -> tail]
       /\ \A x \in tail : \E m \in 1..Cardinality(tail) : Ranked(before)[m] = x
       /\ Cardinality(tail) \in Nat
  <2> HIDE DEF tail, before
  <2> QED
    BY <1>6, <1>8, RankedOrder
<1> HIDE DEF before, tail
<1>11. SortedTail(o) \in [1..(L - o.sorted) -> tail]
  BY <1>7, <1>9, <1>10
<1>12. Range(SortedTail(o)) = tail
  BY <1>7, <1>9, <1>10, <1>11 DEF Range
<1>13. SortedTail(o) \in Seq(1..L) /\ Len(SortedTail(o)) = L - o.sorted
  <2>1. L - o.sorted \in Nat
    BY <1>1
  <2>2. SortedTail(o) \in [1..(L - o.sorted) -> 1..L]
    BY <1>3, <1>11
  <2> QED
    BY <2>1, <2>2, FunctionIsSeq
<1> QED
  BY <1>12, <1>13 DEF tail, L

\* Copying one position of the tail keeps the others and adds it.
LEMMA CopyBeforeIs ==
    ASSUME NEW o, NEW P, NEW acc, acc.merged \in Seq(P), acc.rest \in Seq(P), NEW p \in P
    PROVE  MovesAlong(P, acc.merged, acc.rest, p,
                      CopyBefore(o, acc, p).merged, CopyBefore(o, acc, p).rest)
<1> DEFINE B == {i \in DOMAIN acc.rest : Precedes(o, acc.rest[i], p)}
           b == Cardinality(B)
           r == Len(acc.rest)
<1>1. r \in Nat /\ DOMAIN acc.rest = 1..r
  OBVIOUS
<1>2. b \in 0..r
  <2> HIDE DEF r
  <2>1. IsFiniteSet(1..r) /\ Cardinality(1..r) = r
    BY <1>1, FS_Interval
  <2>2. B \in SUBSET (1..r)
    BY <1>1
  <2>3. IsFiniteSet(B) /\ b <= r
    <3> HIDE DEF B
    <3> QED
      BY <2>1, <2>2, FS_Subset
  <2>4. b \in Nat
    BY <2>3, FS_CardinalityType
  <2> QED
    BY <1>1, <2>3, <2>4
<1>3. CopyBefore(o, acc, p) = [merged |-> FirstAndAdded(acc.merged, acc.rest, b, p),
                               rest |-> LastPart(acc.rest, b)]
  BY DEF CopyBefore, FirstAndAdded, LastPart
<1> HIDE DEF b
<1>4. CopyBefore(o, acc, p).merged = FirstAndAdded(acc.merged, acc.rest, b, p)
      /\ CopyBefore(o, acc, p).rest = LastPart(acc.rest, b)
  BY <1>3
<1>5. MovesAlong(P, acc.merged, acc.rest, p,
                 FirstAndAdded(acc.merged, acc.rest, b, p), LastPart(acc.rest, b))
  BY <1>2, CutAndAdded
<1> QED
  BY <1>4, <1>5

\* Merging the tail leaves every position in the order, once.
LEMMA MergeTailIs ==
    ASSUME NEW db, NEW t \in Tables, NEW o, OverlayOK(db, t, o)
    PROVE  /\ MergeTail(o) = [o EXCEPT !.order = MergeTail(o).order, !.sorted = Len(o.rows)]
           /\ MergeTail(o).order \in Seq(1..Len(o.rows))
           /\ Len(MergeTail(o).order) = Len(o.rows)
           /\ Range(MergeTail(o).order) = 1..Len(o.rows)
<1> DEFINE L == Len(o.rows)
           P == 1..L
           s == o.sorted
           tail == SortedTail(o)
           head == SubSeq(o.order, 1, s)
<1>1. L \in Nat /\ s \in 0..L /\ o.order \in Seq(P) /\ Len(o.order) = L /\ Range(o.order) = P
  BY EntryAtIs DEF OrderOK, OverlayOK
<1>2. /\ tail \in Seq(P) /\ Len(tail) = L - s
      /\ Range(tail) = {o.order[i] : i \in (s + 1)..L}
  BY SortedTailIs DEF OverlayOK
<1> HIDE DEF tail, L
<1>3. head \in Seq(P) /\ Len(head) = s /\ \A x : x \in Range(head) <=> \E i \in 1..s : x = o.order[i]
  <2>1. head \in Seq(P) /\ Len(head) = s
    BY <1>1
  <2>2. \A x : x \in Range(head) <=> \E i \in 1..s : x = o.order[i]
    BY <1>1, PartRange
  <2> QED
    BY <2>1, <2>2
<1>4. Range(head) \cup Range(tail) = P
  <2>1. 1..L = (1..s) \cup ((s + 1)..L) /\ DOMAIN o.order = 1..L
    BY <1>1
  <2>2. \A x : x \in Range(o.order) <=> \E i \in 1..L : x = o.order[i]
    BY <2>1 DEF Range
  <2>3. \A x : (\E i \in 1..L : x = o.order[i])
            <=> (\E i \in 1..s : x = o.order[i]) \/ (\E i \in (s + 1)..L : x = o.order[i])
    BY <2>1
  <2> HIDE DEF head, P
  <2>4. \A x : x \in Range(tail) <=> \E i \in (s + 1)..L : x = o.order[i]
    BY <1>2
  <2>5. \A x : x \in P <=> x \in Range(head) \/ x \in Range(tail)
    BY <1>1, <1>3, <2>2, <2>3, <2>4
  <2> QED
    BY <2>5
<1> DEFINE n == Len(tail)
<1>5. n \in Nat /\ n = L - s /\ DOMAIN tail = 1..n
  BY <1>1, <1>2
<1>6. PICK after : CopyTailRun(o, tail, after)
  BY <1>5, CopyTailLoop
<1> DEFINE OK(m) == /\ after[m].merged \in Seq(P) /\ after[m].rest \in Seq(P)
                    /\ Len(after[m].merged) + Len(after[m].rest) = s + m
                    /\ Range(after[m].merged) \cup Range(after[m].rest)
                         = Range(head) \cup {tail[i] : i \in 1..m}
           S == {m \in 0..n : OK(m)}
<1>7. 0 \in S
  <2>1. after[0].merged = <<>> /\ after[0].rest = head
    <3>1. after[0] = [merged |-> <<>>, rest |-> head]
      BY <1>6 DEF CopyTailRun
    <3> HIDE DEF head
    <3> QED
      BY <3>1
  <2>2. <<>> \in Seq(P) /\ Len(<<>>) = 0 /\ Range(<<>>) = {}
    BY DEF Range
  <2>3. {tail[i] : i \in 1..0} = {} /\ 0 \in 0..n
    BY <1>5
  <2> HIDE DEF head, P, n
  <2>4. Len(after[0].merged) + Len(after[0].rest) = s + 0
    BY <2>1, <2>2, <1>1, <1>3
  <2>5. Range(after[0].merged) \cup Range(after[0].rest) = Range(head) \cup {tail[i] : i \in 1..0}
    BY <2>1, <2>2, <2>3
  <2> QED
    BY <2>1, <2>2, <2>3, <2>4, <2>5, <1>3
<1>8. ASSUME NEW m \in 0..(n - 1), m \in S PROVE m + 1 \in S
  <2> HIDE DEF P, n, head
  <2>1. m + 1 \in 1..n /\ (m + 1) - 1 = m /\ m \in Nat
    BY <1>5
  <2>2. after[m + 1] = CopyBefore(o, after[m], tail[m + 1])
    BY <1>6, <2>1 DEF CopyTailRun, n
  <2>3. tail[m + 1] \in P
    BY <1>2, <1>5, <2>1
  <2>4. OK(m)
    BY <1>8
  <2>5. /\ after[m + 1].merged \in Seq(P) /\ after[m + 1].rest \in Seq(P)
        /\ Len(after[m + 1].merged) + Len(after[m + 1].rest)
             = Len(after[m].merged) + Len(after[m].rest) + 1
        /\ Range(after[m + 1].merged) \cup Range(after[m + 1].rest)
             = Range(after[m].merged) \cup Range(after[m].rest) \cup {tail[m + 1]}
    <3>1. after[m].merged \in Seq(P) /\ after[m].rest \in Seq(P)
      BY <2>4
    <3>2. MovesAlong(P, after[m].merged, after[m].rest, tail[m + 1],
                     after[m + 1].merged, after[m + 1].rest)
      BY <2>2, <2>3, <3>1, CopyBeforeIs
    <3> QED
      BY <3>2 DEF MovesAlong
  <2>6. {tail[i] : i \in 1..(m + 1)} = {tail[i] : i \in 1..m} \cup {tail[m + 1]}
    <3>1. 1..(m + 1) = (1..m) \cup {m + 1}
      BY <2>1
    <3> QED
      BY <3>1
  <2>7. Len(after[m + 1].merged) + Len(after[m + 1].rest) = s + (m + 1)
    <3>1. Len(after[m + 1].merged) + Len(after[m + 1].rest) = (s + m) + 1
      BY <2>4, <2>5
    <3>2. \A x, y \in Int : (x + y) + 1 = x + (y + 1)
      OBVIOUS
    <3>3. s \in Int /\ m \in Int
      BY <1>1, <2>1
    <3>4. (s + m) + 1 = s + (m + 1)
      <4> HIDE DEF s
      <4> QED
        BY <3>2, <3>3
    <3> QED
      BY <3>1, <3>4, Zenon
  <2>8. Range(after[m + 1].merged) \cup Range(after[m + 1].rest)
             = Range(head) \cup {tail[i] : i \in 1..(m + 1)}
    BY <2>4, <2>5, <2>6
  <2>9. m + 1 \in 0..n
    BY <1>5
  <2> QED
    BY <2>5, <2>7, <2>8, <2>9
<1>9. OK(n)
  <2>1. 0..n \subseteq S
    <3> HIDE DEF S, n
    <3> QED
      BY <1>5, <1>7, <1>8, LoopInduction
  <2>2. n \in 0..n
    BY <1>5
  <2> QED
    BY <2>1, <2>2
<1>10. Range(tail) = {tail[i] : i \in 1..n}
  BY <1>5 DEF Range
<1> DEFINE done == after[n]
           order == done.merged \o done.rest
<1>11. /\ done.merged \in Seq(P) /\ done.rest \in Seq(P)
       /\ Len(done.merged) + Len(done.rest) = L
       /\ Range(done.merged) \cup Range(done.rest) = P
  <2> HIDE DEF n, P, head
  <2>1. s + n = L
    BY <1>1, <1>5
  <2> QED
    BY <1>4, <1>9, <1>10, <2>1
<1>12. MergeTail(o) = [o EXCEPT !.order = order, !.sorted = L]
  BY <1>6 DEF MergeTail, WithOrder, tail, L, CopyTailRun
<1> HIDE DEF done, P
<1>13. order \in Seq(P) /\ Len(order) = L
  <2>1. done.merged \in Seq(P) /\ done.rest \in Seq(P)
    BY <1>11
  <2>2. order \in Seq(P) /\ Len(order) = Len(done.merged) + Len(done.rest)
    BY <2>1
  <2> QED
    BY <2>2, <1>11
<1>14. Range(order) = P
  <2>1. Range(order) = Range(done.merged) \cup Range(done.rest)
    BY <1>11, JoinRange
  <2> QED
    BY <2>1, <1>11
<1> HIDE DEF order
<1>15. MergeTail(o).order = order
  BY <1>12 DEF OverlayOK
<1> QED
  BY <1>12, <1>13, <1>14, <1>15 DEF P, L

\* Completing the order changes the order and nothing else.
LEMMA WholeIs ==
    ASSUME NEW db, NEW t \in Tables, NEW o, OverlayOK(db, t, o)
    PROVE  /\ OverlayOK(db, t, Whole(o))
           /\ Whole(o).rows = o.rows
<1> DEFINE m == MergeTail(o)
<1>1. /\ m = [o EXCEPT !.order = m.order, !.sorted = Len(o.rows)]
      /\ m.order \in Seq(1..Len(o.rows))
      /\ Len(m.order) = Len(o.rows)
      /\ Range(m.order) = 1..Len(o.rows)
  BY MergeTailIs
<1> HIDE DEF m
<1>2. m.rows = o.rows /\ m.deletes = o.deletes /\ m.sorted = Len(o.rows)
      /\ m = [rows |-> m.rows, deletes |-> m.deletes, order |-> m.order, sorted |-> m.sorted]
  BY <1>1 DEF OverlayOK
<1>3. KeysIn(m) = KeysIn(o) /\ \A k : EntryAt(m, k) = EntryAt(o, k)
  BY <1>2 DEF KeysIn, EntryAt, Find
<1>4. DeletedKeys(m) = DeletedKeys(o)
  BY <1>3 DEF DeletedKeys
<1>5. Len(o.rows) \in Nat
  BY EntryAtIs DEF OverlayOK
<1>6. OrderOK(m)
  BY <1>1, <1>2, <1>5 DEF OrderOK
<1>7. EntriesOK(db, t, m)
  BY <1>2 DEF OverlayOK, EntriesOK
<1>8. OverlayOK(db, t, m)
  BY <1>2, <1>4, <1>6, <1>7 DEF OverlayOK
<1> QED
  BY <1>2, <1>8 DEF Whole, m

\* A walk delivers every entry, once.
LEMMA OrderedIs ==
    ASSUME NEW db, NEW t \in Tables, NEW o, OverlayOK(db, t, o)
    PROVE  /\ Ordered(o) \in Seq(StagedEntries(db, t))
           /\ Range(Ordered(o)) = Range(o.rows)
           /\ \A i, j \in DOMAIN Ordered(o) : Ordered(o)[i].key = Ordered(o)[j].key => i = j
<1> DEFINE w == Whole(o)
           L == Len(o.rows)
           walk == Walk(w)
<1>1. OverlayOK(db, t, w) /\ w.rows = o.rows
  BY WholeIs
<1> HIDE DEF w
<1>2. /\ L \in Nat /\ w.order \in Seq(1..L) /\ Len(w.order) = L /\ Range(w.order) = 1..L
      /\ DOMAIN o.rows = 1..L /\ EntriesOK(db, t, o)
  BY <1>1, EntryAtIs DEF OverlayOK, OrderOK
<1> HIDE DEF L
<1>3. w.order \in [1..L -> 1..L] /\ DOMAIN w.order = 1..L
  BY <1>2
<1>4. \A x \in 1..L : \E i \in 1..L : w.order[i] = x
  BY <1>2, <1>3 DEF Range
<1>5. \A i, j \in 1..L : w.order[i] = w.order[j] => i = j
  BY <1>2, <1>3, <1>4, ListedOnce
<1>6. walk = [i \in 1..L |-> o.rows[w.order[i]]]
  BY <1>1, <1>3 DEF Walk
<1> HIDE DEF walk
<1>7. \A i \in 1..L : o.rows[i] \in StagedEntries(db, t)
  BY <1>2 DEF EntriesOK
<1>8. walk \in [1..L -> StagedEntries(db, t)]
  BY <1>3, <1>6, <1>7
<1>9. walk \in Seq(StagedEntries(db, t)) /\ DOMAIN walk = 1..L
  BY <1>2, <1>8, FunctionIsSeq
<1>10. Range(walk) = Range(o.rows)
  <2>1. \A i \in 1..L : walk[i] \in Range(o.rows)
    BY <1>2, <1>3, <1>6 DEF Range
  <2>2. \A x \in 1..L : \E i \in 1..L : walk[i] = o.rows[x]
    BY <1>4, <1>6
  <2>3. \A y : y \in Range(walk) <=> \E i \in 1..L : y = walk[i]
    BY <1>9 DEF Range
  <2>4. \A y : y \in Range(o.rows) <=> \E i \in 1..L : y = o.rows[i]
    BY <1>2 DEF Range
  <2>5. ASSUME NEW y \in Range(walk) PROVE y \in Range(o.rows)
    BY <2>1, <2>3, <2>5
  <2>6. ASSUME NEW y \in Range(o.rows) PROVE y \in Range(walk)
    <3>1. PICK x \in 1..L : y = o.rows[x]
      BY <2>4, <2>6
    <3>2. PICK i \in 1..L : walk[i] = o.rows[x]
      BY <2>2
    <3> QED
      BY <2>3, <3>1, <3>2
  <2> QED
    BY <2>5, <2>6
<1>11. ASSUME NEW i \in 1..L, NEW j \in 1..L, walk[i].key = walk[j].key PROVE i = j
  <2>1. w.order[i] \in DOMAIN o.rows /\ w.order[j] \in DOMAIN o.rows
    BY <1>2, <1>3
  <2>2. o.rows[w.order[i]].key = o.rows[w.order[j]].key
    BY <1>6, <1>11
  <2>3. w.order[i] = w.order[j]
    BY <1>2, <2>1, <2>2 DEF EntriesOK
  <2> QED
    BY <1>5, <2>3
<1> QED
  BY <1>9, <1>10, <1>11 DEF Ordered, walk, w

\* The changed entries in the order of a walk: each once, and no other.
ListsChanged(db, t, o, c) ==
    /\ c \in Seq(StagedEntries(db, t))
    /\ \A e : e \in Range(c) <=> e \in Range(o.rows) /\ e.entry.changed
    /\ \A i, j \in DOMAIN c : c[i].key = c[j].key => i = j

\* The changed entries of an overlay, in its completed order, are listed so.
LEMMA ChangedAmongIs ==
    ASSUME NEW db, NEW t \in Tables, NEW o, OverlayOK(db, t, o)
    PROVE  ListsChanged(db, t, o, ChangedAmong(Ordered(o)))
<1> DEFINE w == Ordered(o)
           E == StagedEntries(db, t)
           I == {i \in DOMAIN w : w[i].entry.changed}
           c == Picked(w, I)
<1>1. /\ w \in Seq(E) /\ Range(w) = Range(o.rows)
      /\ \A i, j \in DOMAIN w : w[i].key = w[j].key => i = j
  BY OrderedIs
<1>2. c = ChangedAmong(Ordered(o))
  BY DEF ChangedAmong
<1> HIDE DEF w, E
<1>3. I \in SUBSET (DOMAIN w) /\ DOMAIN w = 1..Len(w) /\ Len(w) \in Nat
  BY <1>1
<1>4. \A i : i \in I <=> i \in DOMAIN w /\ w[i].entry.changed
  OBVIOUS
<1> HIDE DEF I
<1>5. c \in Seq(E) /\ Range(c) = {w[i] : i \in I}
  BY <1>1, <1>3, PickedSeq
<1>6. \A e : e \in Range(c) <=> e \in Range(w) /\ e.entry.changed
  BY <1>4, <1>5 DEF Range
<1>7. /\ DOMAIN c = 1..Cardinality(I)
      /\ \A m \in 1..Cardinality(I) : Ascending(I)[m] \in I /\ c[m] = w[Ascending(I)[m]]
      /\ \A l, m \in 1..Cardinality(I) : Ascending(I)[l] = Ascending(I)[m] => l = m
  BY <1>3, PickedIs
<1> HIDE DEF c
<1>8. \A i, j \in DOMAIN c : c[i].key = c[j].key => i = j
  BY <1>1, <1>3, <1>7
<1> QED
  BY <1>1, <1>2, <1>5, <1>6, <1>8 DEF ListsChanged, E

-----------------------------------------------------------------------------
(* A transaction and its readers. *)

\* A staged row that is changed and takes a value.
ClaimedBy(tables, t, k, s) ==
    k \in ChangedKeysIn(tables[t]) /\ Takes(t, EntryAt(tables[t], k).next, s)

(***************************************************************************)
(* The claims of a transaction: each value a changed row takes is claimed  *)
(* for that row's key, its committed owner is that row or a changed one,   *)
(* and a value claimed for a key is taken by that key's changed row.       *)
(***************************************************************************)
ClaimsOK(db, tables, claims) ==
    /\ \A t \in Tables : \A k, s : ClaimedBy(tables, t, k, s) =>
        /\ s \in DOMAIN claims /\ claims[s] = k
        /\ \A j : Takes(t, CommittedRow(db, t, j), s) => j = k \/ j \in ChangedKeysIn(tables[t])
    /\ \A s \in DOMAIN claims : claims[s] # NoRow => \E t \in Tables : ClaimedBy(tables, t, claims[s], s)

TxnOK(db, x) ==
    /\ x = [base |-> x.base, tables |-> x.tables, touched |-> x.touched, keys |-> x.keys,
            bytes |-> x.bytes, operations |-> x.operations, changed |-> x.changed,
            claims |-> x.claims]
    /\ x.base = db.revision
    /\ x.tables = [t \in Tables |-> x.tables[t]]
    /\ x.changed = [t \in Tables |-> Cardinality(ChangedKeysIn(x.tables[t]))]
    /\ \A t \in Tables :
        /\ OverlayOK(db, t, x.tables[t])
        /\ x.tables[t].rows # <<>> => t \in x.touched
    /\ ClaimsOK(db, x.tables, x.claims)

\* The rows of a table that are found by their keys.
Visible(db, x, t) == {r \in StoredRows(t) : Lookup(db, x, t, KeyOf(t, r)) = r}

\* What is found under a key is a row with that key, or nothing.
LEMMA LookupIs ==
    ASSUME NEW db, StorageOK(db), NEW x, TxnOK(db, x), NEW t \in Tables, NEW key
    PROVE  /\ Lookup(db, x, t, key) \in Under(t, key)
           /\ Lookup(db, x, t, key) # NoRow =>
                /\ key \in Keys(t)
                /\ Lookup(db, x, t, key) \in Visible(db, x, t)
                /\ KeyOf(t, Lookup(db, x, t, key)) = key
<1> DEFINE row == Lookup(db, x, t, key)
<1>1. EntriesOK(db, t, x.tables[t])
  BY DEF TxnOK, OverlayOK
<1>2. row \in Under(t, key)
  BY <1>1, EntryIs, CommittedRowIs DEF Lookup, IsEntry
<1>3. ASSUME row # NoRow
      PROVE  row \in StoredRows(t) /\ KeyOf(t, row) = key
  BY <1>2, <1>3 DEF Under
<1>4. ASSUME row # NoRow PROVE key \in Keys(t) /\ row \in Visible(db, x, t)
  <2>1. KeyOf(t, row) \in Keys(t)
    BY <1>3, <1>4, StoredRowHasKey
  <2>2. Lookup(db, x, t, KeyOf(t, row)) = row
    BY <1>3, <1>4
  <2> HIDE DEF row
  <2> QED
    BY <1>3, <1>4, <2>1, <2>2 DEF Visible
<1> QED
  BY <1>2, <1>3, <1>4

\* A scan delivers the rows that are found by their keys, and no other.
ScansVisible(db, x, t) ==
    /\ VisitRows(db, x, t) \in Seq(Visible(db, x, t))
    /\ Range(VisitRows(db, x, t)) = Visible(db, x, t)

\* A scan of a sound transaction over a sound storage delivers what is visible.
LEMMA VisitRowsAre ==
    ASSUME NEW db, StorageOK(db), NEW x, TxnOK(db, x), NEW t \in Tables
    PROVE  ScansVisible(db, x, t)
<1> DEFINE o == x.tables[t]
           c == ChangedAmong(Ordered(o))
           rows == db.rows[t]
           V == Visible(db, x, t)
           CK == {e.key : e \in Range(c)}
           K == DOMAIN rows \ CK
           I == {i \in DOMAIN c : c[i].entry.next # NoRow}
           p == Picked(c, I)
           a == RowsUnder(rows, InKeyOrder(K))
           b == NextRows(p)
<1>1. OverlayOK(db, t, o) /\ EntriesOK(db, t, o)
  BY DEF TxnOK, OverlayOK
<1>2. ListsChanged(db, t, o, c)
  BY <1>1, ChangedAmongIs
<1>3. VisitRows(db, x, t) = a \o b
  BY DEF VisitRows, ChangedEntries, Overlaid
<1> HIDE DEF c, o
<1>4. RowsOK(t, rows)
  BY DEF StorageOK
<1>5. \A e : e \in Range(c) => /\ e.key \in KeysIn(o) /\ EntryAt(o, e.key) = e.entry
                               /\ e.entry.changed
  <2>1. \A e : e \in Range(o.rows) => e.key \in KeysIn(o) /\ EntryAt(o, e.key) = e.entry
    BY <1>1, EntryAtIs DEF Range
  <2> QED
    BY <1>2, <2>1 DEF ListsChanged
<1>6. \A k \in KeysIn(o) : EntryAt(o, k).changed =>
        \E e \in Range(c) : e.key = k /\ e.entry = EntryAt(o, k)
  <2>1. ASSUME NEW k \in KeysIn(o), EntryAt(o, k).changed
        PROVE  \E e \in Range(c) : e.key = k /\ e.entry = EntryAt(o, k)
    <3>1. o.rows[Find(o, k)] = [key |-> k, entry |-> EntryAt(o, k)] /\ Find(o, k) \in DOMAIN o.rows
      BY <1>1, EntryAtIs
    <3>2. o.rows[Find(o, k)] \in Range(o.rows)
      BY <3>1 DEF Range
    <3>3. o.rows[Find(o, k)].key = k /\ o.rows[Find(o, k)].entry = EntryAt(o, k)
      BY <3>1
    <3>4. o.rows[Find(o, k)] \in Range(c)
      BY <1>2, <2>1, <3>2, <3>3 DEF ListsChanged
    <3> QED
      BY <3>3, <3>4
  <2> QED
    BY <2>1
<1>7. \A k : Lookup(db, x, t, k) = IF k \in KeysIn(o) THEN EntryAt(o, k).next
                                   ELSE CommittedRow(db, t, k)
  BY DEF Lookup, o
<1>8. \A k \in KeysIn(o) : /\ EntryAt(o, k).old = CommittedRow(db, t, k)
                           /\ EntryAt(o, k).changed <=> EntryAt(o, k).old # EntryAt(o, k).next
  BY <1>1, EntryIs DEF IsEntry
\* A committed row no changed entry replaces.
<1>9. \A k \in K : rows[k] \in V
  <2> TAKE k \in K
  <2>1. k \in DOMAIN rows /\ k \notin CK
    OBVIOUS
  <2>2. CommittedRow(db, t, k) = rows[k] /\ rows[k] # NoRow
    BY <2>1, CommittedRowIs
  <2>3. ~(k \in KeysIn(o) /\ EntryAt(o, k).changed)
    BY <1>6, <2>1
  <2>4. Lookup(db, x, t, k) = rows[k]
    BY <1>7, <1>8, <2>2, <2>3
  <2> QED
    BY <2>2, <2>4, LookupIs
\* The row of a changed entry.
<1>10. \A e \in Range(c) : Lookup(db, x, t, e.key) = e.entry.next
  BY <1>5, <1>7
<1>11. IsFiniteSet(K) /\ K \in SUBSET Keys(t)
  <2>1. K \in SUBSET (DOMAIN rows)
    OBVIOUS
  <2> HIDE DEF K, rows
  <2> QED
    BY <1>4, <2>1, FS_Subset DEF RowsOK
<1> DEFINE n == Cardinality(K)
           q == InKeyOrder(K)
<1>12. /\ n \in Nat /\ q \in [1..n -> K]
       /\ \A k \in K : \E m \in 1..n : q[m] = k
  <2>1. Len(PrimaryKey[t]) \in Nat
    BY CatalogAssumption
  <2> HIDE DEF K
  <2> QED
    BY <1>11, <2>1, KeyOrder DEF Keys
<1>13. a = [i \in 1..n |-> rows[q[i]]]
  BY <1>12 DEF RowsUnder
<1> HIDE DEF V, K, rows, q, n, a
<1>14. a \in [1..n -> V]
  BY <1>9, <1>12, <1>13
<1>15. a \in Seq(V) /\ DOMAIN a = 1..n
  BY <1>12, <1>14, FunctionIsSeq
<1>16. \A k \in K : rows[k] \in Range(a)
  BY <1>12, <1>13, <1>15 DEF Range
<1>17. c \in Seq(StagedEntries(db, t)) /\ I \in SUBSET (DOMAIN c)
  BY <1>2 DEF ListsChanged
<1>18. p \in Seq(StagedEntries(db, t)) /\ Range(p) = {c[i] : i \in I}
  <2> HIDE DEF I
  <2> QED
    BY <1>17, PickedSeq
<1> HIDE DEF p
<1>19. \A e : e \in Range(p) <=> e \in Range(c) /\ e.entry.next # NoRow
  BY <1>18 DEF Range
<1>20. b = [i \in 1..Len(p) |-> p[i].entry.next] /\ DOMAIN p = 1..Len(p) /\ Len(p) \in Nat
  BY <1>18 DEF NextRows
<1>21. \A i \in 1..Len(p) : p[i].entry.next \in V
  <2> TAKE i \in 1..Len(p)
  <2>1. p[i] \in Range(c) /\ p[i].entry.next # NoRow
    BY <1>19, <1>20 DEF Range
  <2>2. Lookup(db, x, t, p[i].key) = p[i].entry.next
    BY <1>10, <2>1
  <2> QED
    BY <2>1, <2>2, LookupIs DEF V
<1> HIDE DEF b
<1>22. b \in [1..Len(p) -> V]
  BY <1>20, <1>21
<1>23. b \in Seq(V) /\ DOMAIN b = 1..Len(p)
  BY <1>20, <1>22, FunctionIsSeq
<1>24. \A e \in Range(c) : e.entry.next # NoRow => e.entry.next \in Range(b)
  <2>1. ASSUME NEW e \in Range(c), e.entry.next # NoRow PROVE e.entry.next \in Range(b)
    <3>1. PICK i \in 1..Len(p) : p[i] = e
      BY <1>19, <1>20, <2>1 DEF Range
    <3>2. b[i] = e.entry.next
      BY <1>20, <3>1
    <3> QED
      BY <1>23, <3>2 DEF Range
  <2> QED
    BY <2>1
<1>25. \A r \in V : r \in Range(a) \cup Range(b)
  <2> TAKE r \in V
  <2> DEFINE k == KeyOf(t, r)
  <2>1. Lookup(db, x, t, k) = r /\ r # NoRow
    BY StoredRowHasKey DEF V, Visible
  <2> HIDE DEF k
  <2>2. CASE k \in CK
    <3>1. PICK e \in Range(c) : e.key = k
      BY <2>2
    <3> QED
      BY <3>1, <2>1, <1>10, <1>24
  <2>3. CASE k \notin CK
    <3>1. k \in KeysIn(o) => EntryAt(o, k).next = CommittedRow(db, t, k)
      BY <1>6, <1>8, <2>3
    <3>2. CommittedRow(db, t, k) = r
      BY <1>7, <2>1, <3>1
    <3>3. k \in DOMAIN rows /\ rows[k] = r
      BY <2>1, <3>2, CommittedRowIs DEF rows
    <3>4. k \in K
      BY <2>3, <3>3 DEF K
    <3> QED
      BY <1>16, <3>3, <3>4
  <2> QED
    BY <2>2, <2>3
<1>26. a \o b \in Seq(V)
  BY <1>15, <1>23
<1>27. Range(a \o b) = Range(a) \cup Range(b)
  BY <1>15, <1>23, JoinRange
<1>28. Range(a) \subseteq V /\ Range(b) \subseteq V
  BY <1>14, <1>15, <1>22, <1>23 DEF Range
<1> QED
  BY <1>3, <1>25, <1>26, <1>27, <1>28 DEF ScansVisible, V

\* The count of a table's rows is kept without reading them, and is the count of a scan.
LEMMA ScanCount ==
    ASSUME NEW db, StorageOK(db), NEW x, TxnOK(db, x), NEW t \in Tables
    PROVE  TableRowCount(db, x, t) = Len(VisitRows(db, x, t))
<1> DEFINE o == x.tables[t]
           c == ChangedAmong(Ordered(o))
           D == DOMAIN db.rows[t]
           E == Range(o.rows)
           A == {e \in E : e.entry.old = NoRow /\ e.entry.next # NoRow}
           B == {e \in E : e.entry.old # NoRow /\ e.entry.next = NoRow}
           C == {e \in E : e.entry.changed /\ e.entry.old # NoRow /\ e.entry.next # NoRow}
           CK == {e.key : e \in Range(c)}
           K == D \ CK
           I == {i \in DOMAIN c : c[i].entry.next # NoRow}
           p == Picked(c, I)
           a == RowsUnder(db.rows[t], InKeyOrder(K))
           b == NextRows(p)
<1>1. OverlayOK(db, t, o) /\ EntriesOK(db, t, o)
  BY DEF TxnOK, OverlayOK
<1>2. ListsChanged(db, t, o, c)
  BY <1>1, ChangedAmongIs
<1>3. VisitRows(db, x, t) = a \o b
  BY DEF VisitRows, ChangedEntries, Overlaid
<1>4. TableRowCount(db, x, t) = Cardinality(D) + Cardinality(A) - Cardinality(B)
  BY DEF TableRowCount, StorageOK
<1>5. IsFiniteSet(D) /\ D \in SUBSET Keys(t)
  BY DEF StorageOK, RowsOK
<1> HIDE DEF o, c
<1>6. IsFiniteSet(E)
  <2>1. DOMAIN o.rows = 1..Len(o.rows) /\ Len(o.rows) \in Nat
    BY <1>1, EntryAtIs
  <2>2. /\ \A i \in 1..Len(o.rows) : o.rows[i] \in E
        /\ \A i, j \in 1..Len(o.rows) : o.rows[i] = o.rows[j] => i = j
        /\ \A e \in E : \E i \in 1..Len(o.rows) : o.rows[i] = e
    BY <1>1, <2>1 DEF EntriesOK, Range
  <2>3. IsFiniteSet(1..Len(o.rows))
    <3>1. \A n \in Nat : IsFiniteSet(1..n)
      BY FS_Interval
    <3> QED
      BY <2>1, <3>1
  <2> HIDE DEF E
  <2> QED
    BY <2>2, <2>3, SameSize
<1>7. \A e \in E : /\ e.entry.old = CommittedRow(db, t, e.key)
                   /\ e.entry.changed <=> e.entry.old # e.entry.next
                   /\ e.key \in Keys(t)
  <2>1. \A e \in E : e \in StagedEntries(db, t)
    BY <1>1 DEF EntriesOK, Range
  <2> QED
    BY <2>1, StagedEntryIs
<1>8. \A e, f \in E : e.key = f.key => e = f
  BY <1>1 DEF EntriesOK, Range
<1>9. \A e : e \in Range(c) <=> e \in E /\ e.entry.changed
  BY <1>2 DEF ListsChanged
<1>10. \A e \in E : e.entry.old # NoRow <=> e.key \in D
  BY <1>7, CommittedRowIs
<1> HIDE DEF E, D
<1>11. IsFiniteSet(A) /\ IsFiniteSet(B) /\ IsFiniteSet(C)
  <2>1. A \in SUBSET E /\ B \in SUBSET E /\ C \in SUBSET E
    OBVIOUS
  <2> HIDE DEF A, B, C
  <2> QED
    BY <1>6, <2>1, FS_Subset
<1>12. Cardinality(B \cup C) = Cardinality(B) + Cardinality(C) /\ IsFiniteSet(B \cup C)
       /\ Cardinality(B) \in Nat /\ Cardinality(C) \in Nat
  <2>1. \A e \in B : e \notin C
    OBVIOUS
  <2> HIDE DEF B, C
  <2> QED
    BY <1>11, <2>1, DisjointUnion
<1>13. Cardinality(A \cup C) = Cardinality(A) + Cardinality(C) /\ IsFiniteSet(A \cup C)
       /\ Cardinality(A) \in Nat
  <2>1. \A e \in A : e \notin C
    OBVIOUS
  <2> HIDE DEF A, C
  <2> QED
    BY <1>11, <2>1, DisjointUnion
<1>14. \A e : e \in B \cup C <=> e \in Range(c) /\ e.entry.old # NoRow
  BY <1>7, <1>9
<1>15. \A e : e \in A \cup C <=> e \in Range(c) /\ e.entry.next # NoRow
  BY <1>7, <1>9
<1> HIDE DEF A, B, C
\* The committed rows that changed entries replace.
<1>16. Cardinality(D \cap CK) = Cardinality(B \cup C) /\ D \cap CK \in SUBSET D
  <2> DEFINE f == [e \in B \cup C |-> e.key]
             T == D \cap CK
  <2>1. \A e \in B \cup C : f[e] \in T
    BY <1>9, <1>10, <1>14
  <2>2. \A e, g \in B \cup C : f[e] = f[g] => e = g
    BY <1>8, <1>9, <1>14
  <2>3. \A k \in T : \E e \in B \cup C : f[e] = k
    <3> TAKE k \in T
    <3>1. PICK e \in Range(c) : e.key = k
      OBVIOUS
    <3>2. e \in B \cup C
      BY <1>9, <1>10, <1>14, <3>1
    <3> QED
      BY <3>1, <3>2
  <2>4. Cardinality(T) = Cardinality(B \cup C)
    <3> HIDE DEF f, T
    <3> QED
      BY <1>12, <2>1, <2>2, <2>3, SameSize
  <2> QED
    BY <2>4
<1>17. Cardinality(K) = Cardinality(D) - Cardinality(B \cup C) /\ Cardinality(D) \in Nat
       /\ IsFiniteSet(K) /\ K \in SUBSET Keys(t)
  <2>1. K = D \ (D \cap CK)
    OBVIOUS
  <2>2. K \in SUBSET Keys(t)
    BY <1>5
  <2> HIDE DEF K, CK
  <2> QED
    BY <1>5, <1>16, <2>1, <2>2, SubsetLeaves
<1>18. /\ c \in Seq(StagedEntries(db, t)) /\ I \in SUBSET (DOMAIN c) /\ DOMAIN c = 1..Len(c)
       /\ Len(c) \in Nat /\ \A i, j \in DOMAIN c : c[i].key = c[j].key => i = j
  BY <1>2 DEF ListsChanged
<1>19. Cardinality(I) = Cardinality(A \cup C)
  <2>1. IsFiniteSet(I)
    <3> HIDE DEF I
    <3> QED
      BY <1>18, PositionsFinite
  <2>2. \A i \in I : c[i] \in A \cup C
    BY <1>15 DEF Range
  <2>3. \A i, j \in I : c[i] = c[j] => i = j
    BY <1>18
  <2>4. \A e \in A \cup C : \E i \in I : c[i] = e
    BY <1>15 DEF Range
  <2> HIDE DEF I
  <2> QED
    BY <2>1, <2>2, <2>3, <2>4, SameSize
<1>20. Len(p) = Cardinality(I) /\ p \in Seq(StagedEntries(db, t))
  <2> HIDE DEF I
  <2> QED
    BY <1>18, PickedSeq
<1> HIDE DEF p, K, I
<1>21. b = [i \in 1..Len(p) |-> p[i].entry.next] /\ Len(p) \in Nat
  BY <1>20 DEF NextRows
<1> DEFINE W == {p[i].entry.next : i \in 1..Len(p)} \cup {db.rows[t][k] : k \in K}
<1>22. b \in Seq(W) /\ Len(b) = Len(p)
  <2>1. b \in [1..Len(p) -> W]
    BY <1>21
  <2> QED
    BY <1>21, <2>1, FunctionIsSeq
<1> DEFINE n == Cardinality(K)
           q == InKeyOrder(K)
<1>23. n \in Nat /\ q \in [1..n -> K]
  <2>1. Len(PrimaryKey[t]) \in Nat
    BY CatalogAssumption
  <2> QED
    BY <1>17, <2>1, KeyOrder DEF Keys
<1> HIDE DEF n, q
<1>24. a = [i \in 1..n |-> db.rows[t][q[i]]]
  BY <1>23 DEF RowsUnder, q
<1>25. a \in Seq(W) /\ Len(a) = n
  <2>1. a \in [1..n -> W]
    BY <1>23, <1>24
  <2> QED
    BY <1>23, <2>1, FunctionIsSeq
<1> HIDE DEF a, b, W
<1>26. Len(a \o b) = Len(a) + Len(b)
  BY <1>22, <1>25
<1>27. Len(a \o b) = n + Cardinality(A \cup C)
  BY <1>19, <1>20, <1>22, <1>25, <1>26
<1> QED
  BY <1>3, <1>4, <1>12, <1>13, <1>17, <1>27 DEF n

\* A transaction stages finitely many keys.
LEMMA KeysInFinite ==
    ASSUME NEW db, NEW t, NEW o, EntriesOK(db, t, o)
    PROVE  IsFiniteSet(KeysIn(o)) /\ IsFiniteSet(ChangedKeysIn(o)) /\ IsFiniteSet(DeletedKeys(o))
<1> DEFINE f == [i \in 1..Len(o.rows) |-> o.rows[i].key]
<1>1. DOMAIN o.rows = 1..Len(o.rows) /\ Len(o.rows) \in Nat
  BY EntryAtIs
<1>2. /\ \A i \in 1..Len(o.rows) : f[i] \in KeysIn(o)
      /\ \A i, j \in 1..Len(o.rows) : f[i] = f[j] => i = j
      /\ \A k \in KeysIn(o) : \E i \in 1..Len(o.rows) : f[i] = k
  BY <1>1 DEF EntriesOK, KeysIn
<1>3. IsFiniteSet(1..Len(o.rows))
  <2>1. \A n \in Nat : IsFiniteSet(1..n)
    BY FS_Interval
  <2> QED
    BY <1>1, <2>1
<1>4. IsFiniteSet(KeysIn(o))
  <2> HIDE DEF f
  <2> QED
    BY <1>1, <1>2, <1>3, SameSize
<1>5. ChangedKeysIn(o) \in SUBSET KeysIn(o) /\ DeletedKeys(o) \in SUBSET KeysIn(o)
  BY DEF ChangedKeysIn, DeletedKeys
<1> QED
  BY <1>4, <1>5, FS_Subset

\* A table with no changed row is read as it is committed.
LEMMA ReadsCommittedIs ==
    ASSUME NEW db, NEW x, TxnOK(db, x), NEW t \in Tables, ReadsCommitted(x, t), NEW key
    PROVE  Lookup(db, x, t, key) = CommittedRow(db, t, key)
<1> DEFINE o == x.tables[t]
<1>1. EntriesOK(db, t, o)
  BY DEF TxnOK, OverlayOK
<1>2. Cardinality(ChangedKeysIn(o)) = 0
  BY DEF TxnOK, ReadsCommitted
<1>3. ChangedKeysIn(o) = {}
  BY <1>1, <1>2, KeysInFinite, FS_EmptySet
<1>4. Lookup(db, x, t, key) = IF key \in KeysIn(o) THEN EntryAt(o, key).next ELSE CommittedRow(db, t, key)
  BY DEF Lookup
<1> HIDE DEF o
<1>5. CASE key \in KeysIn(o)
  <2>1. IsEntry(db, t, key, EntryAt(o, key))
    BY <1>1, <1>5, EntryIs
  <2>2. ~EntryAt(o, key).changed
    BY <1>3, <1>5 DEF ChangedKeysIn
  <2> QED
    BY <1>4, <1>5, <2>1, <2>2 DEF IsEntry
<1> QED
  BY <1>4, <1>5

\* The keys a committed index holds under a value are those of the rows that hold it.
OwnersAre(db, x, value) ==
    /\ IsFiniteSet(CommittedOwners(db, x, value))
    /\ \A k : k \in CommittedOwners(db, x, value) <=>
        /\ k \in DOMAIN db.rows[x.table]
        /\ IndexValue(x, db.rows[x.table][k]) = value
        /\ ~HasNull(value)

\* The owners a sound index gives are the keys of the rows with the value.
LEMMA CommittedOwnersAre ==
    ASSUME NEW db, StorageOK(db), NEW x \in Indexes, NEW value
    PROVE  OwnersAre(db, x, value)
<1> DEFINE rows == db.rows[x.table]
           owners == CommittedOwners(db, x, value)
<1>1. x.table \in Tables
  BY CatalogAssumption
<1>2. db.entries[x] = EntriesOf(x, rows)
  BY DEF StorageOK
<1>3. IsFiniteSet(DOMAIN rows)
  BY <1>1 DEF StorageOK, RowsOK
<1> HIDE DEF rows
<1>4. \A k : k \in owners <=> /\ k \in DOMAIN rows /\ IndexValue(x, rows[k]) = value
                              /\ ~HasNull(value)
  <2>1. \A f : f \in EntriesOf(x, rows) <=>
            \E k \in DOMAIN rows : /\ ~HasNull(IndexValue(x, rows[k]))
                                   /\ f = [value |-> IndexValue(x, rows[k]), key |-> k]
    BY DEF EntriesOf
  <2>2. \A k : k \in owners <=> \E f \in EntriesOf(x, rows) : f.value = value /\ f.key = k
    BY <1>2 DEF CommittedOwners
  <2>3. ASSUME NEW k \in owners
        PROVE  k \in DOMAIN rows /\ IndexValue(x, rows[k]) = value /\ ~HasNull(value)
    <3>1. PICK f \in EntriesOf(x, rows) : f.value = value /\ f.key = k
      BY <2>2, <2>3
    <3>2. PICK j \in DOMAIN rows : /\ ~HasNull(IndexValue(x, rows[j]))
                                   /\ f = [value |-> IndexValue(x, rows[j]), key |-> j]
      BY <2>1, <3>1
    <3> QED
      BY <3>1, <3>2
  <2>4. ASSUME NEW k \in DOMAIN rows, IndexValue(x, rows[k]) = value, ~HasNull(value)
        PROVE  k \in owners
    <3> DEFINE f == [value |-> IndexValue(x, rows[k]), key |-> k]
    <3>1. f \in EntriesOf(x, rows)
      BY <2>1, <2>4
    <3>2. f.value = value /\ f.key = k
      BY <2>4
    <3> HIDE DEF f
    <3> QED
      BY <2>2, <3>1, <3>2
  <2> QED
    BY <2>3, <2>4
<1>5. owners \in SUBSET (DOMAIN rows)
  BY <1>4
<1>6. IsFiniteSet(owners)
  <2> HIDE DEF owners
  <2> QED
    BY <1>3, <1>5, FS_Subset
<1> QED
  BY <1>4, <1>6 DEF OwnersAre, rows

\* The committed rows that hold a value a row takes are the owners an index gives.
LEMMA OwnersTake ==
    ASSUME NEW db, StorageOK(db), NEW t \in Tables, NEW row, NEW s, Takes(t, row, s), NEW j
    PROVE  j \in CommittedOwners(db, s.index, s.value) <=> Takes(t, CommittedRow(db, t, j), s)
<1>1. /\ s = [index |-> s.index, value |-> s.value]
      /\ s.index \in Indexes /\ s.index.table = t /\ s.index.unique /\ ~HasNull(s.value)
  BY TakesIs
<1>2. OwnersAre(db, s.index, s.value)
  BY <1>1, CommittedOwnersAre
<1>3. /\ CommittedRow(db, t, j) # NoRow <=> j \in DOMAIN db.rows[t]
      /\ j \in DOMAIN db.rows[t] => CommittedRow(db, t, j) = db.rows[t][j]
  BY CommittedRowIs
<1>4. Takes(t, CommittedRow(db, t, j), s) <=>
        CommittedRow(db, t, j) # NoRow /\ s.value = IndexValue(s.index, CommittedRow(db, t, j))
  BY <1>1, TakesIs
<1> QED
  BY <1>1, <1>2, <1>3, <1>4 DEF OwnersAre

\* A statement's rows are rows found by their keys, whichever way it reads them.
LEMMA RowsWhereAre ==
    ASSUME NEW db, StorageOK(db), NEW x, TxnOK(db, x), NEW t \in Tables, NEW where
    PROVE  RowsWhere(db, x, t, where) \in Seq(Visible(db, x, t))
<1> DEFINE V == Visible(db, x, t)
           c == Candidates(db, x, t, where)
<1>1. ASSUME Fixes(where, PrimaryKey[t]) PROVE c \in Seq(V)
  <2> DEFINE row == Lookup(db, x, t, FixedValues(where, PrimaryKey[t]))
  <2>1. c = IF row = NoRow THEN <<>> ELSE <<row>>
    BY <1>1 DEF Candidates
  <2>2. row # NoRow => row \in V
    BY LookupIs
  <2> HIDE DEF row, V, c
  <2> QED
    BY <2>1, <2>2
<1>2. ASSUME ~Fixes(where, PrimaryKey[t]), IndexFor(t, where) # {}, ReadsCommitted(x, t)
      PROVE  c \in Seq(V)
  <2> DEFINE y == CHOOSE z \in IndexFor(t, where) : TRUE
             K == CommittedOwners(db, y, FixedValues(where, y.columns))
             n == Cardinality(K)
             q == InKeyOrder(K)
  <2>1. c = RowsUnder(db.rows[t], q)
    BY <1>2 DEF Candidates
  <2>2. y \in IndexFor(t, where)
    BY <1>2
  <2>3. y \in Indexes /\ y.table = t
    BY <2>2 DEF IndexFor, TableIndexes
  <2> HIDE DEF y
  <2>4. IsFiniteSet(K) /\ K \in SUBSET (DOMAIN db.rows[t])
    BY <2>3, CommittedOwnersAre DEF OwnersAre
  <2>5. DOMAIN db.rows[t] \in SUBSET Keys(t) /\ Len(PrimaryKey[t]) \in Nat
    <3>1. RowsOK(t, db.rows[t])
      BY DEF StorageOK
    <3> QED
      BY <3>1, CatalogAssumption DEF RowsOK
  <2> HIDE DEF K
  <2>6. n \in Nat /\ q \in [1..n -> K]
    BY <2>4, <2>5, KeyOrder DEF Keys
  <2> HIDE DEF q, n
  <2>7. \A k \in K : db.rows[t][k] \in V
    <3> TAKE k \in K
    <3>1. CommittedRow(db, t, k) = db.rows[t][k] /\ db.rows[t][k] # NoRow
      BY <2>4, CommittedRowIs
    <3>2. Lookup(db, x, t, k) = db.rows[t][k]
      BY <1>2, <3>1, ReadsCommittedIs
    <3> QED
      BY <3>1, <3>2, LookupIs
  <2>8. c = [i \in 1..n |-> db.rows[t][q[i]]]
    BY <2>1, <2>6 DEF RowsUnder
  <2> HIDE DEF c, V
  <2>9. c \in [1..n -> V]
    BY <2>6, <2>7, <2>8
  <2> QED
    BY <2>6, <2>9, FunctionIsSeq
<1>3. ASSUME ~Fixes(where, PrimaryKey[t]), ~(IndexFor(t, where) # {} /\ ReadsCommitted(x, t))
      PROVE  c \in Seq(V)
  <2>1. c = VisitRows(db, x, t)
    BY <1>3 DEF Candidates
  <2> QED
    BY <2>1, VisitRowsAre DEF ScansVisible
<1>4. c \in Seq(V)
  BY <1>1, <1>2, <1>3
<1> DEFINE I == {i \in DOMAIN c : Matches(c[i], where)}
<1>5. RowsWhere(db, x, t, where) = Picked(c, I)
  BY DEF RowsWhere, Matching
<1>6. I \in SUBSET (DOMAIN c)
  OBVIOUS
<1> HIDE DEF I, c, V
<1>7. Picked(c, I) \in Seq(V)
  BY <1>4, <1>6, PickedSeq
<1> QED
  BY <1>5, <1>7 DEF V

-----------------------------------------------------------------------------
(* Planning. *)

\* A change leaves a row its key may hold, and says truly what was read under it.
TableChanges(db, x, t) ==
    UNION {{Change(t, k, r, h) : r \in Under(t, k), h \in {Unread, Read(Lookup(db, x, t, k))}} :
            k \in Keys(t)}
Changes(db, x) == UNION {TableChanges(db, x, t) : t \in Tables}

PlanErrors == {"none", "constraint", "unsupported", "declined"}
PlanOK(db, x, p) ==
    /\ p = [error |-> p.error, changes |-> p.changes, moved |-> p.moved, tables |-> p.tables]
    /\ p.error \in PlanErrors
    /\ p.changes \in Seq(Changes(db, x))
    /\ p.tables \in Seq(Tables)
    /\ \A c \in Range(p.changes) : c.table \in Range(p.tables)

\* A change of a row that may be stored, under its own key.
LEMMA ChangeIs ==
    ASSUME NEW db, NEW x, NEW t, NEW k \in Keys(t), NEW r \in Under(t, k), NEW h,
           h = Unread \/ h = Read(Lookup(db, x, t, k))
    PROVE  Change(t, k, r, h) \in TableChanges(db, x, t)
  BY DEF TableChanges

\* What a change of a table says.
ChangeSays(db, x, t, c) ==
    /\ c = Change(t, c.key, c.next, c.held)
    /\ c.table = t
    /\ c.key \in Keys(t)
    /\ c.next \in Under(t, c.key)
    /\ c.held = Unread \/ c.held = Read(Lookup(db, x, t, c.key))

\* Every change of a table says so.
LEMMA TableChangeSays ==
    ASSUME NEW db, NEW x, NEW t, NEW c \in TableChanges(db, x, t)
    PROVE  ChangeSays(db, x, t, c)
<1>1. PICK k \in Keys(t) :
        \E r \in Under(t, k), h \in {Unread, Read(Lookup(db, x, t, k))} : c = Change(t, k, r, h)
  BY DEF TableChanges
<1>2. PICK r \in Under(t, k), h \in {Unread, Read(Lookup(db, x, t, k))} : c = Change(t, k, r, h)
  BY <1>1
<1>3. c.table = t /\ c.key = k /\ c.next = r /\ c.held = h
  BY <1>2 DEF Change
<1> QED
  BY <1>2, <1>3 DEF ChangeSays

\* A refusal changes nothing.
LEMMA RefusalOK ==
    ASSUME NEW db, NEW x, NEW error \in PlanErrors
    PROVE  PlanOK(db, x, Refusal(error))
  BY DEF PlanOK, Refusal, Range

\* A plan that changes one table names it.
LEMMA OneTablePlanOK ==
    ASSUME NEW db, NEW x, NEW t \in Tables, NEW changes \in Seq(TableChanges(db, x, t)),
           NEW moved, NEW tables, tables = <<t>> \/ (tables = <<>> /\ changes = <<>>)
    PROVE  PlanOK(db, x, Plan(changes, moved, tables))
<1> DEFINE p == Plan(changes, moved, tables)
<1>1. p = [error |-> p.error, changes |-> p.changes, moved |-> p.moved, tables |-> p.tables]
      /\ p.error = "none" /\ p.changes = changes /\ p.tables = tables
  BY DEF Plan
<1> HIDE DEF p
<1>2. TableChanges(db, x, t) \subseteq Changes(db, x)
  BY DEF Changes
<1>3. changes \in Seq(Changes(db, x))
  BY <1>2
<1>4. tables \in Seq(Tables)
  <2>1. <<t>> \in Seq(Tables) /\ <<>> \in Seq(Tables)
    OBVIOUS
  <2> QED
    BY <2>1
<1>5. \A c \in Range(changes) : c.table \in Range(tables)
  <2>1. CASE tables = <<t>>
    <3>1. t \in Range(tables)
      BY <2>1 DEF Range
    <3>2. \A c \in Range(changes) : c \in TableChanges(db, x, t)
      BY DEF Range
    <3> QED
      BY <3>1, <3>2, TableChangeSays DEF ChangeSays
  <2>2. CASE changes = <<>>
    BY <2>2 DEF Range
  <2> QED
    BY <2>1, <2>2
<1> QED
  BY <1>1, <1>3, <1>4, <1>5 DEF PlanOK, PlanErrors, p

\* The rows a statement proposes have their table's columns.
LEMMA NormalizedIs ==
    ASSUME NEW t \in Tables, NEW row, \A c \in DOMAIN row : row[c] \in Values
    PROVE  NormalizeRow(t, row) \in Rows(t)
<1>1. \A c \in Columns[t] : Default[t][c] \in Values
  BY CatalogAssumption DEF Rows
<1> QED
  BY <1>1 DEF NormalizeRow, Rows

\* A row with its assignments made is a row of its table.
LEMMA UpdatedIs ==
    ASSUME NEW t \in Tables, NEW set, NEW kinds, AreAssignments(t, set, kinds),
           NEW row \in Rows(t), NEW excluded,
           \/ kinds = {"value", "default", "add"}
           \/ kinds = {"value", "default", "add", "excluded"} /\ excluded \in Rows(t)
    PROVE  Updated(t, set, row, excluded) \in Rows(t)
<1>1. ASSUME NEW c \in Columns[t], c \in DOMAIN set
      PROVE  Assigned(t, c, set[c], row, excluded) \in Values
  <2> DEFINE e == set[c]
  <2>1. IsAssignment(t, e, kinds)
    BY <1>1 DEF AreAssignments
  <2>0. SUFFICES Assigned(t, c, e, row, excluded) \in Values
    OBVIOUS
  <2> HIDE DEF e
  <2>2. CASE e.kind = "value"
    BY <2>1, <2>2 DEF IsAssignment, Assigned
  <2>3. CASE e.kind = "default"
    <3>1. Default[t][c] \in Values
      BY CatalogAssumption DEF Rows
    <3> QED
      BY <2>3, <3>1 DEF Assigned
  <2>4. CASE e.kind = "excluded"
    <3>1. e.column \in Columns[t] /\ excluded \in Rows(t)
      BY <2>1, <2>4 DEF IsAssignment
    <3> QED
      BY <2>4, <3>1 DEF Assigned, Rows
  <2>5. CASE e.kind = "add"
    <3>1. e.column \in Columns[t] /\ e.value \in Int
      BY <2>1, <2>5 DEF IsAssignment
    <3>2. row[e.column] \in Values
      BY <3>1 DEF Rows
    <3>3. row[e.column] # Null => row[e.column] + e.value \in Int
      BY <3>1, <3>2 DEF Values
    <3>4. Assigned(t, c, e, row, excluded)
            = IF row[e.column] = Null THEN Null ELSE row[e.column] + e.value
      BY <2>5 DEF Assigned
    <3> QED
      BY <3>3, <3>4 DEF Values
  <2>6. e.kind \in {"value", "default", "add", "excluded"}
    BY <2>1 DEF IsAssignment
  <2> QED
    BY <2>2, <2>3, <2>4, <2>5, <2>6
<1>2. \A c \in Columns[t] : row[c] \in Values
  BY DEF Rows
<1> QED
  BY <1>1, <1>2 DEF Updated, Rows

\* A row to be stored may be stored under its own key.
LEMMA ValidRow ==
    ASSUME NEW t \in Tables, NEW r \in Rows(t), RowIsValid(t, r)
    PROVE  r \in StoredRows(t) /\ KeyOf(t, r) \in Keys(t) /\ r \in Under(t, KeyOf(t, r))
<1>1. r \in StoredRows(t)
  BY DEF StoredRows
<1> QED
  BY <1>1, StoredRowHasKey

\* A plain INSERT.
LEMMA PlainInsertOK ==
    ASSUME NEW db, NEW x, NEW s, IsStatement(s), s.kind = "insert"
    PROVE  PlanOK(db, x, PlanPlainInsert(db, x, s))
<1> DEFINE t == s.table
           rows == [i \in DOMAIN s.rows |-> NormalizeRow(t, s.rows[i])]
           keys == [i \in DOMAIN rows |-> KeyOf(t, rows[i])]
           changes == [i \in DOMAIN rows |-> Change(t, keys[i], rows[i], Read(NoRow))]
           bad == \/ \E i \in DOMAIN rows : ~RowIsValid(t, rows[i])
                  \/ \E i, j \in DOMAIN keys : i # j /\ keys[i] = keys[j]
                  \/ \E i \in DOMAIN keys : Lookup(db, x, t, keys[i]) # NoRow
<1>1. t \in Tables /\ s.rows \in Seq(Range(s.rows))
      /\ \A row \in Range(s.rows) : \A c \in DOMAIN row : row[c] \in Values
  BY DEF IsStatement
<1>2. PlanPlainInsert(db, x, s) = IF bad THEN Refusal("constraint") ELSE Plan(changes, <<>>, <<t>>)
  BY DEF PlanPlainInsert, InsertNew
<1> HIDE DEF t
<1>3. DOMAIN s.rows = 1..Len(s.rows) /\ Len(s.rows) \in Nat
  BY <1>1
<1>4. \A i \in DOMAIN s.rows : rows[i] \in Rows(t)
  BY <1>1, NormalizedIs DEF Range
<1>5. ASSUME ~bad PROVE changes \in Seq(TableChanges(db, x, t))
  <2>1. \A i \in DOMAIN s.rows : /\ RowIsValid(t, rows[i]) /\ keys[i] = KeyOf(t, rows[i])
                                 /\ Lookup(db, x, t, keys[i]) = NoRow
    BY <1>5
  <2> HIDE DEF rows, keys
  <2>2. \A i \in DOMAIN s.rows : Change(t, keys[i], rows[i], Read(NoRow)) \in TableChanges(db, x, t)
    BY <1>1, <1>4, <2>1, ValidRow, ChangeIs
  <2>3. DOMAIN rows = 1..Len(s.rows)
    BY <1>3 DEF rows
  <2>4. changes \in [1..Len(s.rows) -> TableChanges(db, x, t)]
    BY <1>3, <2>2, <2>3
  <2> QED
    BY <1>3, <2>4, FunctionIsSeq
<1> HIDE DEF bad, changes
<1>6. CASE bad
  BY <1>2, <1>6, RefusalOK DEF PlanErrors
<1>7. CASE ~bad
  BY <1>1, <1>2, <1>5, <1>7, OneTablePlanOK
<1> QED
  BY <1>6, <1>7

\* INSERT ... ON CONFLICT takes the rows one at a time.
Taken(db, x, t, acc) ==
    /\ acc = [error |-> acc.error, changes |-> acc.changes, written |-> acc.written,
              slots |-> acc.slots]
    /\ acc.error \in PlanErrors
    /\ acc.changes \in Seq(TableChanges(db, x, t))

\* A row that is found by its key has one, and is found again under it.
LEMMA VisibleHasKey ==
    ASSUME NEW db, NEW x, NEW t \in Tables, NEW r \in Visible(db, x, t)
    PROVE  /\ r \in StoredRows(t) /\ r \in Rows(t) /\ r # NoRow
           /\ KeyOf(t, r) \in Keys(t) /\ Lookup(db, x, t, KeyOf(t, r)) = r
<1>1. r \in StoredRows(t) /\ Lookup(db, x, t, KeyOf(t, r)) = r
  BY DEF Visible
<1> QED
  BY <1>1, StoredRowHasKey DEF StoredRows

\* The rows that hold a value in an index are rows found by their keys.
LEMMA HoldersAre ==
    ASSUME NEW db, StorageOK(db), NEW x, TxnOK(db, x), NEW y \in Indexes, NEW value
    PROVE  RowsHolding(db, x, y, value) \in SUBSET Visible(db, x, y.table)
<1> DEFINE t == y.table
<1>1. t \in Tables
  BY CatalogAssumption
<1>2. CASE HasNull(value)
  BY <1>2 DEF RowsHolding
<1>3. CASE ~HasNull(value) /\ ReadsCommitted(x, t)
  <2>1. RowsHolding(db, x, y, value) = {db.rows[t][k] : k \in CommittedOwners(db, y, value)}
    BY <1>3 DEF RowsHolding, VisitIndex
  <2>2. ASSUME NEW k \in CommittedOwners(db, y, value) PROVE db.rows[t][k] \in Visible(db, x, t)
    <3>1. k \in DOMAIN db.rows[t]
      BY <2>2, CommittedOwnersAre DEF OwnersAre
    <3> HIDE DEF t
    <3>2. Lookup(db, x, t, k) = db.rows[t][k] /\ db.rows[t][k] # NoRow
      BY <1>1, <1>3, <3>1, ReadsCommittedIs, CommittedRowIs
    <3> QED
      BY <1>1, <3>2, LookupIs
  <2> QED
    BY <2>1, <2>2
<1>4. CASE ~HasNull(value) /\ ~ReadsCommitted(x, t)
  <2>1. RowsHolding(db, x, y, value) \in SUBSET Range(VisitRows(db, x, t))
    BY <1>4 DEF RowsHolding
  <2> QED
    BY <1>1, <2>1, VisitRowsAre DEF ScansVisible
<1> QED
  BY <1>2, <1>3, <1>4

\* What a proposed row meets.
IsConflict(db, x, t, c) ==
    \/ c.kind \in {"none", "written"}
    \/ c.kind = "existing" /\ c.row \in Visible(db, x, t)

\* A conflict found is with a row that is visible, or one the statement wrote.
LEMMA FindConflictIs ==
    ASSUME NEW db, StorageOK(db), NEW x, TxnOK(db, x), NEW s, s.table \in Tables, NEW acc, NEW row
    PROVE  IsConflict(db, x, s.table, FindConflict(db, x, s, acc, row))
<1> DEFINE byKey == IF PrimaryArbiter(s) THEN Lookup(db, x, s.table, KeyOf(s.table, row)) ELSE NoRow
           byIndex == {r \in StoredConflicts(db, x, s, row) : KeyOf(s.table, r) \notin acc.written}
<1>1. FindConflict(db, x, s, acc, row) \in {Conflict("written", NoRow), ConflictAmong(byKey, byIndex)}
  BY DEF FindConflict
<1>2. byKey # NoRow => byKey \in Visible(db, x, s.table)
  BY LookupIs
<1>3. byIndex \in SUBSET Visible(db, x, s.table)
  <2>1. \A y \in ArbiterIndexes(s) : y \in Indexes /\ y.table = s.table
    BY DEF ArbiterIndexes, UniqueIndexes, TableIndexes
  <2>2. StoredConflicts(db, x, s, row) \in SUBSET Visible(db, x, s.table)
    BY <2>1, HoldersAre DEF StoredConflicts
  <2> QED
    BY <2>2
<1> HIDE DEF byKey, byIndex
<1>4. CASE FindConflict(db, x, s, acc, row) = Conflict("written", NoRow)
  BY <1>4 DEF Conflict, IsConflict
<1>5. CASE FindConflict(db, x, s, acc, row) = ConflictAmong(byKey, byIndex)
  <2>1. IsConflict(db, x, s.table, ConflictAmong(byKey, byIndex))
    BY <1>2, <1>3 DEF ConflictAmong, Conflict, IsConflict
  <2> QED
    BY <1>5, <2>1
<1> QED
  BY <1>1, <1>4, <1>5

\* Writing a row keeps what was taken so far sound.
LEMMA WriteRowTaken ==
    ASSUME NEW db, NEW x, NEW s, s.table \in Tables, NEW acc, Taken(db, x, s.table, acc),
           NEW next \in Rows(s.table), NEW held,
           held = Unread \/ held = Read(Lookup(db, x, s.table, KeyOf(s.table, next)))
    PROVE  Taken(db, x, s.table, WriteRow(s, acc, next, held))
<1> DEFINE t == s.table
           c == Change(t, KeyOf(t, next), next, held)
<1>1. CASE ~RowIsValid(t, next)
  BY <1>1 DEF WriteRow, Taken, PlanErrors
<1>2. CASE RowIsValid(t, next)
  <2>1. c \in TableChanges(db, x, t)
    BY <1>2, ValidRow, ChangeIs
  <2> HIDE DEF c
  <2>2. Append(acc.changes, c) \in Seq(TableChanges(db, x, t))
    BY <2>1 DEF Taken
  <2>3. WriteRow(s, acc, next, held)
          = [acc EXCEPT !.changes = Append(@, c), !.written = @ \cup {KeyOf(t, next)},
                        !.slots = @ \cup ArbiterSlots(s, next)]
    BY <1>2 DEF WriteRow, c
  <2> QED
    BY <2>2, <2>3 DEF Taken
<1> QED
  BY <1>1, <1>2

\* Taking a proposed row, whatever it conflicts with, keeps what was taken so far sound.
LEMMA TakeRowTaken ==
    ASSUME NEW db, StorageOK(db), NEW x, TxnOK(db, x), NEW s, IsStatement(s), s.kind = "insert",
           s.conflict # "error", NEW kept, NEW acc, Taken(db, x, s.table, acc),
           NEW row \in Rows(s.table), NEW conflict, IsConflict(db, x, s.table, conflict)
    PROVE  Taken(db, x, s.table, TakeRow(db, x, s, kept, acc, row, conflict))
<1> DEFINE t == s.table
           old == conflict.row
           next == Updated(t, s.set, old, row)
<1>1. t \in Tables /\ s.conflict \in {"nothing", "update"}
      /\ AreAssignments(t, s.set, {"value", "default", "add", "excluded"})
  BY DEF IsStatement
<1>2. ASSUME NEW error \in PlanErrors PROVE Taken(db, x, t, [acc EXCEPT !.error = error])
  BY DEF Taken
<1>3. CASE conflict.kind # "none" /\ s.conflict = "nothing"
  BY <1>3 DEF TakeRow
<1>4. CASE conflict.kind = "written" /\ s.conflict = "update"
  <2>1. TakeRow(db, x, s, kept, acc, row, conflict) = [acc EXCEPT !.error = "constraint"]
    BY <1>4 DEF TakeRow
  <2> QED
    BY <1>2, <2>1 DEF PlanErrors
<1>5. CASE conflict.kind = "existing" /\ s.conflict = "update"
  <2>1. TakeRow(db, x, s, kept, acc, row, conflict) = UpdateExisting(s, kept, acc, old, next)
    BY <1>5 DEF TakeRow
  <2>2. old \in Visible(db, x, t)
    BY <1>5 DEF IsConflict
  <2>3. old \in Rows(t) /\ Lookup(db, x, t, KeyOf(t, old)) = old
    BY <1>1, <2>2, VisibleHasKey
  <2>4. next \in Rows(t)
    BY <1>1, <2>3, UpdatedIs
  <2> HIDE DEF next, old
  <2>5. CASE KeyOf(t, next) # KeyOf(t, old)
    <3>1. UpdateExisting(s, kept, acc, old, next) = [acc EXCEPT !.error = "unsupported"]
      BY <2>5 DEF UpdateExisting
    <3> QED
      BY <1>2, <2>1, <3>1 DEF PlanErrors
  <2>6. CASE KeyOf(t, next) = KeyOf(t, old)
    <3> DEFINE held == Held(kept, Len(acc.changes) + 1, old)
    <3>1. UpdateExisting(s, kept, acc, old, next) = WriteRow(s, acc, next, held)
      BY <2>6 DEF UpdateExisting
    <3>2. held = Unread \/ held = Read(Lookup(db, x, t, KeyOf(t, next)))
      BY <2>3, <2>6 DEF Held
    <3> HIDE DEF held
    <3> QED
      BY <1>1, <2>1, <2>4, <3>1, <3>2, WriteRowTaken
  <2> QED
    BY <2>5, <2>6
<1>6. CASE conflict.kind = "none"
  <2> DEFINE taken == \/ KeyOf(t, row) \in acc.written
                      \/ Lookup(db, x, t, KeyOf(t, row)) # NoRow
  <2>1. TakeRow(db, x, s, kept, acc, row, conflict)
          = IF taken THEN [acc EXCEPT !.error = "constraint"]
            ELSE WriteRow(s, acc, row, Read(NoRow))
    BY <1>6 DEF TakeRow
  <2>2. ~taken => Read(NoRow) = Read(Lookup(db, x, t, KeyOf(t, row)))
    OBVIOUS
  <2> HIDE DEF taken
  <2>3. CASE taken
    BY <1>2, <2>1, <2>3 DEF PlanErrors
  <2>4. CASE ~taken
    BY <1>1, <2>1, <2>2, <2>4, WriteRowTaken
  <2> QED
    BY <2>3, <2>4
<1> QED
  BY <1>1, <1>3, <1>4, <1>5, <1>6 DEF IsConflict

\* The rows are taken in turn.
InsertOrUpdateRun(db, x, s, kept, after) ==
    /\ InsertOrUpdateRows(db, x, s, kept) = after[Len(s.rows)]
    /\ after[0] = [error |-> "none", changes |-> <<>>, written |-> {}, slots |-> {}]
    /\ \A n \in 1..Len(s.rows) :
        after[n] = InsertOrUpdateRow(db, x, s, kept, after[n - 1], NormalizeRow(s.table, s.rows[n]))

\* The loop has such a run.
LEMMA InsertOrUpdateLoop ==
    ASSUME NEW db, NEW x, NEW s, NEW kept, Len(s.rows) \in Nat
    PROVE  \E after : InsertOrUpdateRun(db, x, s, kept, after)
<1> DEFINE start == [error |-> "none", changes |-> <<>>, written |-> {}, slots |-> {}]
           Step(f, n) == InsertOrUpdateRow(db, x, s, kept, f[n - 1], NormalizeRow(s.table, s.rows[n]))
           E(m, f) == f = [n \in 0..m |-> IF n = 0 THEN start ELSE Step(f, n)]
           I == {m \in 0..Len(s.rows) : \E f : E(m, f)}
<1>1. InsertOrUpdateRows(db, x, s, kept) = (CHOOSE f : E(Len(s.rows), f))[Len(s.rows)]
  BY DEF InsertOrUpdateRows
<1>2. E(0, [n \in 0..0 |-> start])
  <2> HIDE DEF Step, start
  <2> QED
    OBVIOUS
<1>3. ASSUME NEW m \in 0..(Len(s.rows) - 1), NEW f, E(m, f)
      PROVE  \E g : E(m + 1, g)
  <2> DEFINE g == [n \in 0..(m + 1) |-> IF n = m + 1 THEN Step(f, n) ELSE f[n]]
  <2>1. ASSUME NEW n \in 0..(m + 1), n # 0 PROVE Step(g, n) = Step(f, n)
    <3>1. g[n - 1] = f[n - 1]
      BY <2>1
    <3> QED
      BY <3>1
  <2> HIDE DEF Step, start
  <2>2. ASSUME NEW n \in 0..(m + 1), n # m + 1
        PROVE  f[n] = IF n = 0 THEN start ELSE Step(f, n)
    BY <1>3, <2>2
  <2>3. E(m + 1, g)
    BY <2>1, <2>2
  <2> QED
    BY <2>3
<1>4. \A f : E(Len(s.rows), f) => /\ f[0] = start
                      /\ \A n \in 1..Len(s.rows) : f[n] = Step(f, n)
  <2> HIDE DEF Step, start
  <2> QED
    OBVIOUS
<1> HIDE DEF E
<1>5. 0 \in I
  BY <1>2
<1>6. ASSUME NEW m \in 0..(Len(s.rows) - 1), m \in I PROVE m + 1 \in I
  <2>1. PICK f : E(m, f)
    BY <1>6
  <2>2. m + 1 \in 0..Len(s.rows) /\ \E g : E(m + 1, g)
    BY <2>1, <1>3
  <2> QED
    BY <2>2
<1>7. 0..Len(s.rows) \subseteq I
  <2> HIDE DEF I
  <2> QED
    BY <1>5, <1>6, LoopInduction
<1>8. E(Len(s.rows), CHOOSE f : E(Len(s.rows), f))
  <2>1. Len(s.rows) \in I
    BY <1>7
  <2> QED
    BY <2>1
<1> QED
  BY <1>1, <1>4, <1>8 DEF InsertOrUpdateRun

\* INSERT, with and without a clause.
LEMMA PlanInsertOK ==
    ASSUME NEW db, StorageOK(db), NEW x, TxnOK(db, x), NEW s, IsStatement(s), s.kind = "insert",
           NEW kept
    PROVE  PlanOK(db, x, PlanInsert(db, x, s, kept))
<1> DEFINE t == s.table
           n == Len(s.rows)
           done == InsertOrUpdateRows(db, x, s, kept)
<1>1. t \in Tables /\ s.rows \in Seq(Range(s.rows)) /\ n \in Nat /\ DOMAIN s.rows = 1..n
      /\ \A row \in Range(s.rows) : \A c \in DOMAIN row : row[c] \in Values
  BY DEF IsStatement
<1>2. ASSUME NEW i \in 1..n PROVE NormalizeRow(t, s.rows[i]) \in Rows(t)
  BY <1>1, NormalizedIs DEF Range
<1>3. CASE s.conflict = "error"
  BY <1>3, PlainInsertOK DEF PlanInsert
<1>4. CASE s.conflict # "error" /\ BadConstant(t, s.set, {"value"})
  BY <1>4, RefusalOK DEF PlanInsert, PlanErrors
<1>5. CASE s.conflict # "error" /\ ~BadConstant(t, s.set, {"value"})
  <2>1. PICK after : InsertOrUpdateRun(db, x, s, kept, after)
    BY <1>1, InsertOrUpdateLoop
  <2> DEFINE S == {i \in 0..n : Taken(db, x, t, after[i])}
  <2>2. 0 \in S
    <3>1. after[0] = [error |-> "none", changes |-> <<>>, written |-> {}, slots |-> {}]
      BY <2>1 DEF InsertOrUpdateRun
    <3>2. <<>> \in Seq(TableChanges(db, x, t))
      OBVIOUS
    <3>3. Taken(db, x, t, [error |-> "none", changes |-> <<>>, written |-> {}, slots |-> {}])
      BY <3>2 DEF Taken, PlanErrors
    <3> QED
      BY <1>1, <3>1, <3>3
  <2>3. ASSUME NEW i \in 0..(n - 1), i \in S PROVE i + 1 \in S
    <3> DEFINE acc == after[i]
               row == NormalizeRow(t, s.rows[i + 1])
    <3>1. i + 1 \in 1..n /\ i + 1 \in 0..n /\ (i + 1) - 1 = i
      BY <1>1
    <3>2. after[i + 1] = InsertOrUpdateRow(db, x, s, kept, acc, row)
      BY <2>1, <3>1 DEF InsertOrUpdateRun
    <3>3. Taken(db, x, t, acc) /\ row \in Rows(t)
      BY <1>2, <2>3, <3>1
    <3> HIDE DEF acc, row
    <3>4. Taken(db, x, t, [acc EXCEPT !.error = "constraint"])
      BY <3>3 DEF Taken, PlanErrors
    <3>5. Taken(db, x, t, TakeRow(db, x, s, kept, acc, row, FindConflict(db, x, s, acc, row)))
      BY <1>1, <1>5, <3>3, FindConflictIs, TakeRowTaken
    <3>6. Taken(db, x, t, InsertOrUpdateRow(db, x, s, kept, acc, row))
      BY <3>3, <3>4, <3>5 DEF InsertOrUpdateRow
    <3> QED
      BY <3>1, <3>2, <3>6
  <2>4. 0..n \subseteq S
    <3> HIDE DEF S, n
    <3> QED
      BY <1>1, <2>2, <2>3, LoopInduction
  <2>5. Taken(db, x, t, done)
    <3>1. n \in S /\ done = after[n]
      BY <1>1, <2>1, <2>4 DEF InsertOrUpdateRun
    <3> QED
      BY <3>1
  <2>6. PlanInsert(db, x, s, kept) = InsertedPlan(t, done)
    BY <1>5 DEF PlanInsert
  <2> HIDE DEF done, t
  <2>7. CASE done.error # "none"
    BY <2>5, <2>6, <2>7, RefusalOK DEF InsertedPlan, Taken
  <2>8. CASE done.error = "none"
    <3>1. PlanInsert(db, x, s, kept)
            = Plan(done.changes, <<>>, IF done.changes = <<>> THEN <<>> ELSE <<t>>)
      BY <2>6, <2>8 DEF InsertedPlan
    <3>2. done.changes \in Seq(TableChanges(db, x, t))
      BY <2>5 DEF Taken
    <3> QED
      BY <1>1, <3>1, <3>2, OneTablePlanOK
  <2> QED
    BY <2>7, <2>8
<1> QED
  BY <1>3, <1>4, <1>5

\* DELETE.
LEMMA DeletionIs ==
    ASSUME NEW db, NEW x, NEW t \in Tables, NEW r \in Visible(db, x, t), NEW h,
           h = Unread \/ h = Read(r)
    PROVE  Change(t, KeyOf(t, r), NoRow, h) \in TableChanges(db, x, t)
<1>1. KeyOf(t, r) \in Keys(t) /\ Lookup(db, x, t, KeyOf(t, r)) = r
  BY VisibleHasKey
<1>2. NoRow \in Under(t, KeyOf(t, r))
  BY DEF Under
<1> QED
  BY <1>1, <1>2, ChangeIs

\* The plan of a DELETE is sound.
LEMMA PlanDeleteOK ==
    ASSUME NEW db, StorageOK(db), NEW x, TxnOK(db, x), NEW s, IsStatement(s), NEW kept
    PROVE  PlanOK(db, x, PlanDelete(db, x, s, kept))
<1> DEFINE t == s.table
           old == RowsWhere(db, x, t, s.where)
           changes == [i \in DOMAIN old |-> Change(t, KeyOf(t, old[i]), NoRow, Held(kept, i, old[i]))]
           tables == IF old = <<>> THEN <<>> ELSE <<t>>
<1>1. t \in Tables
  BY DEF IsStatement
<1>2. old \in Seq(Visible(db, x, t))
  BY <1>1, RowsWhereAre
<1>3. PlanDelete(db, x, s, kept) = Plan(changes, <<>>, tables)
  BY DEF PlanDelete, DeletePlan
<1> HIDE DEF t, old
<1>4. Len(old) \in Nat /\ DOMAIN old = 1..Len(old) /\ \A i \in 1..Len(old) : old[i] \in Visible(db, x, t)
  BY <1>2
<1>5. ASSUME NEW i \in 1..Len(old)
      PROVE  Change(t, KeyOf(t, old[i]), NoRow, Held(kept, i, old[i])) \in TableChanges(db, x, t)
  BY <1>1, <1>4, DeletionIs DEF Held
<1>6. changes \in [1..Len(old) -> TableChanges(db, x, t)]
  BY <1>4, <1>5
<1>7. changes \in Seq(TableChanges(db, x, t)) /\ Len(changes) = Len(old)
  <2> HIDE DEF changes
  <2> QED
    BY <1>4, <1>6, FunctionIsSeq
<1>8. tables = <<t>> \/ (tables = <<>> /\ changes = <<>>)
  <2>1. old = <<>> => changes = <<>>
    OBVIOUS
  <2> QED
    BY <2>1
<1> HIDE DEF changes, tables
<1> QED
  BY <1>1, <1>3, <1>7, <1>8, OneTablePlanOK

\* UPDATE.
IsUpdate(db, x, t, u) ==
    /\ u.old \in Visible(db, x, t) /\ u.from = KeyOf(t, u.old)
    /\ u.new \in StoredRows(t) /\ u.to = KeyOf(t, u.new)

\* The changes of the updated rows, moved keys and all, are a sound plan.
LEMMA UpdateChangesOK ==
    ASSUME NEW db, NEW x, NEW t \in Tables, NEW n \in Nat, NEW updates, DOMAIN updates = 1..n,
           updates = <<>> \/ n # 0,
           \A i \in 1..n : IsUpdate(db, x, t, updates[i]), NEW kept
    PROVE  PlanOK(db, x, UpdateChanges(t, updates, kept))
<1> DEFINE I == {i \in DOMAIN updates : updates[i].to # updates[i].from}
           movers == Ascending(I)
           m == Cardinality(I)
           deletes == [j \in DOMAIN movers |->
                Change(t, updates[movers[j]].from, NoRow, Held(kept, movers[j], updates[movers[j]].old))]
           upserts == [i \in DOMAIN updates |->
                Change(t, updates[i].to, updates[i].new,
                       IF i \in Range(movers) THEN Unread ELSE Held(kept, i, updates[i].old))]
           moved == [j \in DOMAIN movers |-> <<j, Len(movers) + movers[j]>>]
           tables == IF updates = <<>> THEN <<>> ELSE <<t>>
<1>1. UpdateChanges(t, updates, kept) = Plan(deletes \o upserts, moved, tables)
  BY DEF UpdateChanges
<1>2. I \in SUBSET (1..n)
  OBVIOUS
<1>3. m \in Nat /\ movers \in [1..m -> I] /\ (\A i \in I : \E j \in 1..m : movers[j] = i)
  <2> HIDE DEF I
  <2>1. IsFiniteSet(I) /\ I \in SUBSET Int
    BY <1>2, PositionsFinite
  <2> QED
    BY <2>1, AscendingOrder
<1>4. \A i \in 1..n : i \in I => updates[i].to # updates[i].from
  OBVIOUS
<1>4a. \A i \in 1..n : i \notin I => updates[i].to = updates[i].from
  OBVIOUS
<1> HIDE DEF I, m, movers
<1>5. DOMAIN movers = 1..m /\ Range(movers) = I
  BY <1>3 DEF Range
<1>6. ASSUME NEW j \in 1..m
      PROVE  Change(t, updates[movers[j]].from, NoRow, Held(kept, movers[j], updates[movers[j]].old))
                \in TableChanges(db, x, t)
  <2>1. IsUpdate(db, x, t, updates[movers[j]])
    BY <1>2, <1>3
  <2> QED
    BY <2>1, DeletionIs DEF Held, IsUpdate
<1>7. ASSUME NEW i \in 1..n, NEW h, h = IF i \in Range(movers) THEN Unread ELSE Held(kept, i, updates[i].old)
      PROVE  Change(t, updates[i].to, updates[i].new, h) \in TableChanges(db, x, t)
  <2> DEFINE u == updates[i]
  <2>0. i \in I \/ u.to = u.from
    BY <1>4a
  <2>0a. h = Unread \/ (i \notin I /\ h = Read(u.old))
    BY <1>5, <1>7 DEF Held
  <2> HIDE DEF u
  <2>1. IsUpdate(db, x, t, u)
    BY DEF u
  <2>2. u.to \in Keys(t) /\ u.new \in Under(t, u.to)
    BY <2>1, StoredRowHasKey DEF IsUpdate
  <2>3. Lookup(db, x, t, u.from) = u.old
    BY <2>1, VisibleHasKey DEF IsUpdate
  <2>4. h = Unread \/ h = Read(Lookup(db, x, t, u.to))
    BY <2>0, <2>0a, <2>3
  <2>5. Change(t, u.to, u.new, h) \in TableChanges(db, x, t)
    BY <2>2, <2>4, ChangeIs
  <2> QED
    BY <2>5 DEF u
<1>8. deletes \in [1..m -> TableChanges(db, x, t)]
  BY <1>5, <1>6
<1>9. upserts \in [1..n -> TableChanges(db, x, t)]
  BY <1>7
<1>10. updates = <<>> => deletes = <<>> /\ upserts = <<>>
  <2>1. updates = <<>> => n = 0
    OBVIOUS
  <2>2. n = 0 => m = 0
    <3>1. n = 0 /\ m # 0 => 1 \in 1..m /\ 1..n = {}
      BY <1>3
    <3> QED
      BY <1>2, <1>3, <3>1
  <2>3. m = 0 => deletes = <<>>
    BY <1>5
  <2>4. n = 0 => upserts = <<>>
    OBVIOUS
  <2> QED
    BY <2>1, <2>2, <2>3, <2>4
<1> HIDE DEF deletes, upserts, moved
<1>11. deletes \in Seq(TableChanges(db, x, t)) /\ upserts \in Seq(TableChanges(db, x, t))
  BY <1>3, <1>8, <1>9, FunctionIsSeq
<1>12. deletes \o upserts \in Seq(TableChanges(db, x, t))
  BY <1>11
<1>13. tables = <<t>> \/ (tables = <<>> /\ deletes \o upserts = <<>>)
  BY <1>10
<1> DEFINE changes == deletes \o upserts
<1> HIDE DEF tables, changes
<1>14. changes \in Seq(TableChanges(db, x, t)) /\ (tables = <<t>> \/ (tables = <<>> /\ changes = <<>>))
       /\ UpdateChanges(t, updates, kept) = Plan(changes, moved, tables)
  BY <1>1, <1>12, <1>13 DEF changes
<1> QED
  BY <1>14, OneTablePlanOK

\* The plan of an UPDATE is sound.
LEMMA PlanUpdateOK ==
    ASSUME NEW db, StorageOK(db), NEW x, TxnOK(db, x), NEW s, IsStatement(s), s.kind = "update",
           NEW kept
    PROVE  PlanOK(db, x, PlanUpdate(db, x, s, kept))
<1> DEFINE t == s.table
           old == RowsWhere(db, x, t, s.where)
           updates == UpdatesOf(s, old)
           bad == \/ BadConstant(t, s.set, {"value", "default"})
                  \/ \E u \in Range(updates) : ~RowIsValid(t, u.new)
                  \/ MovesCollide(db, x, t, updates)
<1>1. t \in Tables /\ AreAssignments(t, s.set, {"value", "default", "add"})
  BY DEF IsStatement
<1>2. old \in Seq(Visible(db, x, t))
  BY <1>1, RowsWhereAre
<1>3. PlanUpdate(db, x, s, kept) = IF bad THEN Refusal("constraint") ELSE UpdateChanges(t, updates, kept)
  BY DEF PlanUpdate, UpdatePlan
<1> DEFINE n == Len(old)
<1>4. n \in Nat /\ DOMAIN old = 1..n /\ \A i \in 1..n : old[i] \in Visible(db, x, t)
  BY <1>2
<1>5. DOMAIN updates = 1..n /\ (updates = <<>> \/ n # 0)
      /\ \A i \in 1..n : updates[i] = UpdateOf(t, old[i], Updated(t, s.set, old[i], NoRow))
  BY <1>4 DEF UpdatesOf
<1> HIDE DEF t, old, updates, n
<1>6. ASSUME NEW i \in 1..n, ~bad PROVE IsUpdate(db, x, t, updates[i])
  <2> DEFINE new == Updated(t, s.set, old[i], NoRow)
  <2>1. old[i] \in Visible(db, x, t) /\ old[i] \in Rows(t)
    BY <1>1, <1>4, VisibleHasKey
  <2>2. new \in Rows(t)
    BY <1>1, <2>1, UpdatedIs
  <2> HIDE DEF new
  <2>3. updates[i].old = old[i] /\ updates[i].new = new /\ updates[i].from = KeyOf(t, old[i])
        /\ updates[i].to = KeyOf(t, new) /\ updates[i] \in Range(updates)
    BY <1>5 DEF UpdateOf, Range, new
  <2>4. RowIsValid(t, new)
    BY <1>6, <2>3
  <2> QED
    BY <2>1, <2>2, <2>3, <2>4 DEF IsUpdate, StoredRows
<1> HIDE DEF bad
<1>7. CASE bad
  BY <1>3, <1>7, RefusalOK DEF PlanErrors
<1>8. CASE ~bad
  BY <1>1, <1>3, <1>4, <1>5, <1>6, <1>8, UpdateChangesOK
<1> QED
  BY <1>7, <1>8

\* A predicate of one equality for each key column picks the row of that key and no other.
LEMMA PointKeyPicks ==
    ASSUME NEW t \in Tables, NEW where, IsFiniteSet(where), IsPointKey(t, where), NEW row \in Rows(t),
           KeyOf(t, row) = FixedValues(where, PrimaryKey[t])
    PROVE  Matches(row, where)
<1> DEFINE pk == PrimaryKey[t]
           n == Len(pk)
           f == [i \in 1..n |-> CHOOSE w \in where : w.column = pk[i]]
           image == {f[i] : i \in 1..n}
<1>1. pk \in Seq(Columns[t]) /\ n \in Nat /\ DOMAIN pk = 1..n
      /\ \A i, j \in 1..n : pk[i] = pk[j] => i = j
  BY CatalogAssumption
<1>2. \A i \in 1..n : f[i] \in where /\ f[i].column = pk[i]
  BY <1>1 DEF IsPointKey, Fixes
<1>3. Cardinality(where) = n
  BY DEF IsPointKey
<1>4. \A i \in 1..n : row[pk[i]] = f[i].value
  <2>1. KeyOf(t, row) = [i \in 1..n |-> row[pk[i]]]
    BY <1>1 DEF KeyOf, Project
  <2>2. FixedValues(where, pk) = [i \in 1..n |-> f[i].value]
    BY <1>1 DEF FixedValues
  <2> HIDE DEF f
  <2>3. \A i \in 1..n : [j \in 1..n |-> row[pk[j]]][i] = [j \in 1..n |-> f[j].value][i]
    BY <2>1, <2>2
  <2> QED
    BY <2>3
<1> HIDE DEF f, pk, n
<1>5. \A i, j \in 1..n : f[i] = f[j] => i = j
  BY <1>1, <1>2
<1>6. Cardinality(image) = n /\ IsFiniteSet(image)
  <2>1. \A m \in Nat : IsFiniteSet(1..m) /\ Cardinality(1..m) = m
    BY FS_Interval
  <2>2. IsFiniteSet(1..n) /\ Cardinality(1..n) = n
    BY <1>1, <2>1
  <2>3. (\A i \in 1..n : f[i] \in image) /\ \A y \in image : \E i \in 1..n : f[i] = y
    OBVIOUS
  <2> HIDE DEF image
  <2>4. IsFiniteSet(image) /\ Cardinality(image) = Cardinality(1..n)
    BY <1>5, <2>2, <2>3, SameSize
  <2> QED
    BY <2>2, <2>4
<1>7. image \subseteq where
  BY <1>2
<1>8. image = where
  <2> HIDE DEF image
  <2> QED
    BY <1>3, <1>6, <1>7, FS_Subset
<1>9. ASSUME NEW w \in where PROVE row[w.column] = w.value
  <2>1. PICK i \in 1..n : w = f[i]
    BY <1>8
  <2> QED
    BY <1>2, <1>4, <2>1
<1> QED
  BY <1>9 DEF Matches

\* What a statement by the primary key reads.
LEMMA PointRows ==
    ASSUME NEW db, StorageOK(db), NEW x, TxnOK(db, x), NEW t \in Tables, NEW where,
           IsFiniteSet(where), IsPointKey(t, where), NEW row,
           row = Lookup(db, x, t, FixedValues(where, PrimaryKey[t]))
    PROVE  RowsWhere(db, x, t, where) = IF row = NoRow THEN <<>> ELSE <<row>>
<1> DEFINE c == Candidates(db, x, t, where)
           I == {i \in DOMAIN c : Matches(c[i], where)}
<1>1. c = IF row = NoRow THEN <<>> ELSE <<row>>
  BY DEF Candidates, IsPointKey
<1>2. RowsWhere(db, x, t, where) = Picked(c, I)
  BY DEF RowsWhere, Matching
<1>3. row # NoRow => Matches(row, where)
  <2>1. row # NoRow => row \in Rows(t) /\ KeyOf(t, row) = FixedValues(where, PrimaryKey[t])
    BY LookupIs, VisibleHasKey
  <2> QED
    BY <2>1, PointKeyPicks
<1> HIDE DEF c
<1>4. CASE row = NoRow
  <2>1. c = <<>> /\ DOMAIN c = 1..0 /\ I \in SUBSET (1..0)
    BY <1>1, <1>4
  <2> HIDE DEF I
  <2>2. I = {}
    BY <2>1
  <2>3. Cardinality(I) = 0
    BY <2>2, FS_EmptySet
  <2>4. Picked(c, I) = <<>>
    BY <2>3 DEF Picked
  <2> QED
    BY <1>2, <1>4, <2>4
<1>5. CASE row # NoRow
  <2>1. c = <<row>> /\ DOMAIN c = 1..1 /\ c[1] = row
    BY <1>1, <1>5
  <2>2. I = {1}
    BY <1>3, <1>5, <2>1
  <2> HIDE DEF I
  <2>3. Cardinality(I) = 1
    BY <2>2, FS_Singleton
  <2>4. DOMAIN Picked(c, I) = 1..1 /\ Ascending(I)[1] = 1 /\ Picked(c, I)[1] = c[Ascending(I)[1]]
    <3>1. I \in SUBSET (1..1) /\ 1 \in 1..1
      BY <2>2
    <3> HIDE DEF c
    <3>2. DOMAIN Picked(c, I) = 1..Cardinality(I)
          /\ \A m \in 1..Cardinality(I) :
                Ascending(I)[m] \in I /\ Picked(c, I)[m] = c[Ascending(I)[m]]
      <4> DEFINE one == 1
      <4>1. DOMAIN c = 1..one /\ one \in Nat /\ I \in SUBSET (1..one)
        BY <2>1, <3>1
      <4> HIDE DEF one, I
      <4> QED
        BY <4>1, PickedIs
    <3> QED
      BY <2>2, <2>3, <3>1, <3>2
  <2>5. Picked(c, I) = [m \in 1..1 |-> c[Ascending(I)[m]]]
    BY <2>3 DEF Picked
  <2>6. Picked(c, I) = <<row>>
    BY <2>1, <2>4, <2>5
  <2> QED
    BY <1>2, <1>5, <2>6
<1> QED
  BY <1>4, <1>5

\* No positions are put in order as no positions.
LEMMA NoPositions ==
    ASSUME NEW I, I = {}
    PROVE  Ascending(I) = <<>>
<1>1. Cardinality({}) = 0
  BY FS_EmptySet
<1> QED
  BY <1>1 DEF Ascending, Ranked

\* What the general planner makes of no row, and of one row that keeps its key.
LEMMA UpdateOfNone ==
    ASSUME NEW t, NEW kept
    PROVE  UpdateChanges(t, <<>>, kept) = Plan(<<>>, <<>>, <<>>)
<1> DEFINE none == <<>>
           I == {i \in DOMAIN none : none[i].to # none[i].from}
           movers == Ascending(I)
           Deletion(i) == Change(t, none[i].from, NoRow, Held(kept, i, none[i].old))
           Upsert(i) == Change(t, none[i].to, none[i].new,
                               IF i \in Range(movers) THEN Unread ELSE Held(kept, i, none[i].old))
           deletes == [n \in DOMAIN movers |-> Deletion(movers[n])]
           upserts == [i \in DOMAIN none |-> Upsert(i)]
           moved == [n \in DOMAIN movers |-> <<n, Len(movers) + movers[n]>>]
<1>1. UpdateChanges(t, none, kept) = Plan(deletes \o upserts, moved, IF none = <<>> THEN <<>> ELSE <<t>>)
  BY DEF UpdateChanges
<1>2. I = {} /\ DOMAIN none = {}
  OBVIOUS
<1>3. movers = <<>>
  BY <1>2, NoPositions
<1> HIDE DEF movers, Deletion, Upsert
<1>4. deletes = <<>> /\ moved = <<>> /\ upserts = <<>>
  BY <1>3
<1>5. deletes \o upserts = <<>>
  BY <1>4
<1> QED
  BY <1>1, <1>4, <1>5

\* An update of one row that keeps its key is one change.
LEMMA UpdateOfOne ==
    ASSUME NEW t, NEW u, u.to = u.from, NEW kept \in Nat, 1 <= kept
    PROVE  UpdateChanges(t, <<u>>, kept)
             = Plan(<<Change(t, u.to, u.new, Read(u.old))>>, <<>>, <<t>>)
<1> DEFINE one == <<u>>
           I == {i \in DOMAIN one : one[i].to # one[i].from}
           movers == Ascending(I)
           Deletion(i) == Change(t, one[i].from, NoRow, Held(kept, i, one[i].old))
           Upsert(i) == Change(t, one[i].to, one[i].new,
                               IF i \in Range(movers) THEN Unread ELSE Held(kept, i, one[i].old))
           deletes == [n \in DOMAIN movers |-> Deletion(movers[n])]
           upserts == [i \in DOMAIN one |-> Upsert(i)]
           moved == [n \in DOMAIN movers |-> <<n, Len(movers) + movers[n]>>]
<1>1. UpdateChanges(t, one, kept) = Plan(deletes \o upserts, moved, IF one = <<>> THEN <<>> ELSE <<t>>)
  BY DEF UpdateChanges
<1>2. I = {} /\ DOMAIN one = 1..1 /\ one[1] = u /\ one # <<>>
  OBVIOUS
<1>3. movers = <<>>
  BY <1>2, NoPositions
<1>4. Upsert(1) = Change(t, u.to, u.new, Read(u.old))
  BY <1>2, <1>3 DEF Held, Range
<1> HIDE DEF movers, Deletion, Upsert
<1>5. deletes = <<>> /\ moved = <<>>
  BY <1>3
<1>6. upserts = <<Change(t, u.to, u.new, Read(u.old))>>
  BY <1>2, <1>4
<1> HIDE DEF deletes, upserts, moved
<1>7. deletes \o upserts = <<Change(t, u.to, u.new, Read(u.old))>>
  BY <1>5, <1>6
<1> QED
  BY <1>1, <1>2, <1>5, <1>7

\* A row whose key a clause does not assign keeps it.
LEMMA KeyKept ==
    ASSUME NEW t \in Tables, NEW set, ~AssignsKey(t, set), NEW row, NEW excluded
    PROVE  KeyOf(t, Updated(t, set, row, excluded)) = KeyOf(t, row)
<1> DEFINE pk == PrimaryKey[t]
           new == Updated(t, set, row, excluded)
<1>1. \A i \in DOMAIN pk : pk[i] \in Columns[t] /\ pk[i] \in Range(pk)
  BY CatalogAssumption DEF Range
<1>2. \A i \in DOMAIN pk : pk[i] \notin DOMAIN set
  BY <1>1 DEF AssignsKey
<1>3. \A i \in DOMAIN pk : new[pk[i]] = row[pk[i]]
  BY <1>1, <1>2 DEF Updated
<1> HIDE DEF new
<1>4. KeyOf(t, new) = KeyOf(t, row)
  BY <1>3 DEF KeyOf, Project
<1> QED
  BY <1>4 DEF new

\* The point path's UPDATE.
LEMMA PointUpdateAgrees ==
    ASSUME NEW db, StorageOK(db), NEW x, TxnOK(db, x), NEW s, IsStatement(s), s.kind = "update",
           NEW kept \in Nat, 1 <= kept, PlanPointUpdate(db, x, s).error # "declined"
    PROVE  PlanPointUpdate(db, x, s) = PlanUpdate(db, x, s, kept)
<1> DEFINE t == s.table
           key == FixedValues(s.where, PrimaryKey[t])
           old == Lookup(db, x, t, key)
           new == Updated(t, s.set, old, NoRow)
           bad == BadConstant(t, s.set, {"value", "default"})
           u == UpdateOf(t, old, new)
           updates == UpdatesOf(s, RowsWhere(db, x, t, s.where))
<1>1. t \in Tables /\ AreAssignments(t, s.set, {"value", "default", "add"}) /\ IsFiniteSet(s.where)
  BY DEF IsStatement
<1>2. IsPointKey(t, s.where) /\ ~AssignsKey(t, s.set) /\ \A c \in DOMAIN s.set : ~ReadsRow(s.set[c])
  BY DEF PlanPointUpdate, Declined
<1>3. PlanPointUpdate(db, x, s)
        = IF bad THEN Refusal("constraint") ELSE IF old = NoRow THEN Plan(<<>>, <<>>, <<>>)
          ELSE Plan(<<Change(t, key, new, Read(old))>>, <<>>, <<t>>)
  BY <1>2 DEF PlanPointUpdate
<1>4. PlanUpdate(db, x, s, kept)
        = IF \/ bad
             \/ \E v \in Range(updates) : ~RowIsValid(t, v.new)
             \/ MovesCollide(db, x, t, updates)
          THEN Refusal("constraint") ELSE UpdateChanges(t, updates, kept)
  BY DEF PlanUpdate, UpdatePlan
<1>5. RowsWhere(db, x, t, s.where) = IF old = NoRow THEN <<>> ELSE <<old>>
  BY <1>1, <1>2, PointRows
<1>6. CASE bad
  BY <1>3, <1>4, <1>6
<1>7. CASE ~bad /\ old = NoRow
  <2>1. updates = <<>>
    BY <1>5, <1>7 DEF UpdatesOf
  <2>2. ~(\E v \in Range(updates) : ~RowIsValid(t, v.new)) /\ ~MovesCollide(db, x, t, updates)
    BY <2>1 DEF Range, MovesCollide
  <2> HIDE DEF bad
  <2> QED
    BY <1>3, <1>4, <1>7, <2>1, <2>2, UpdateOfNone
<1>8. CASE ~bad /\ old # NoRow
  <2>1. updates = <<u>>
    BY <1>5, <1>8 DEF UpdatesOf
  <2>2. old \in Visible(db, x, t) /\ KeyOf(t, old) = key
    BY <1>1, <1>8, LookupIs
  <2>3. old \in Rows(t) /\ RowIsValid(t, old)
    BY <1>1, <2>2, VisibleHasKey DEF StoredRows
  <2>4. KeyOf(t, new) = key
    BY <1>1, <1>2, <2>2, KeyKept
  <2>5. RowIsValid(t, new)
    <3>1. ASSUME NEW c \in NotNull[t] PROVE new[c] # Null
      <4>1. c \in Columns[t]
        BY <1>1, CatalogAssumption
      <4>2. CASE c \notin DOMAIN s.set
        <5>1. new[c] = old[c]
          BY <4>1, <4>2 DEF Updated
        <5> QED
          BY <2>3, <5>1 DEF RowIsValid
      <4>3. CASE c \in DOMAIN s.set
        <5> DEFINE e == s.set[c]
        <5>1. new[c] = Assigned(t, c, e, old, NoRow)
          BY <4>1, <4>3 DEF Updated
        <5>2. e.kind \in {"value", "default"}
          BY <1>1, <1>2, <4>3 DEF AreAssignments, IsAssignment, ReadsRow
        <5>3. Assigned(t, c, e, NoRow, NoRow) # Null
          BY <1>8, <4>3, <5>2 DEF BadConstant
        <5> HIDE DEF e, new, old
        <5>4. Assigned(t, c, e, old, NoRow) = Assigned(t, c, e, NoRow, NoRow)
          BY <5>2 DEF Assigned
        <5> QED
          BY <5>1, <5>3, <5>4
      <4> QED
        BY <4>2, <4>3
    <3> HIDE DEF new
    <3> QED
      BY <3>1 DEF RowIsValid
  <2>6. u.old = old /\ u.new = new /\ u.from = key /\ u.to = key
    BY <2>2, <2>4 DEF UpdateOf
  <2> HIDE DEF u, new, old, key, bad
  <2>7. Range(updates) = {u}
    BY <2>1 DEF Range
  <2>8. ~MovesCollide(db, x, t, updates)
    BY <2>6, <2>7 DEF MovesCollide
  <2>9. UpdateChanges(t, updates, kept) = Plan(<<Change(t, key, new, Read(old))>>, <<>>, <<t>>)
    <3>1. u.to = u.from
      BY <2>6
    <3>2. UpdateChanges(t, <<u>>, kept) = Plan(<<Change(t, u.to, u.new, Read(u.old))>>, <<>>, <<t>>)
      BY <3>1, UpdateOfOne
    <3> QED
      BY <2>1, <2>6, <3>2
  <2> QED
    BY <1>3, <1>4, <1>8, <2>5, <2>6, <2>7, <2>8, <2>9
<1> QED
  BY <1>6, <1>7, <1>8

\* The point path's DELETE.
LEMMA PointDeleteAgrees ==
    ASSUME NEW db, StorageOK(db), NEW x, TxnOK(db, x), NEW s, IsStatement(s), s.kind = "delete",
           NEW kept \in Nat, 1 <= kept, PlanPointDelete(db, x, s).error # "declined"
    PROVE  PlanPointDelete(db, x, s) = PlanDelete(db, x, s, kept)
<1> DEFINE t == s.table
           key == FixedValues(s.where, PrimaryKey[t])
           old == Lookup(db, x, t, key)
           rows == RowsWhere(db, x, t, s.where)
           changes == [i \in DOMAIN rows |-> Change(t, KeyOf(t, rows[i]), NoRow, Held(kept, i, rows[i]))]
<1>1. t \in Tables /\ IsFiniteSet(s.where)
  BY DEF IsStatement
<1>2. IsPointKey(t, s.where)
  BY DEF PlanPointDelete, Declined
<1>3. PlanPointDelete(db, x, s)
        = IF old = NoRow THEN Plan(<<>>, <<>>, <<>>)
          ELSE Plan(<<Change(t, key, NoRow, Read(old))>>, <<>>, <<t>>)
  BY <1>2 DEF PlanPointDelete
<1>4. PlanDelete(db, x, s, kept) = Plan(changes, <<>>, IF rows = <<>> THEN <<>> ELSE <<t>>)
  BY DEF PlanDelete, DeletePlan
<1>5. rows = IF old = NoRow THEN <<>> ELSE <<old>>
  BY <1>1, <1>2, PointRows
<1>6. old # NoRow => KeyOf(t, old) = key
  BY <1>1, LookupIs
<1> HIDE DEF rows, old, key
<1>7. CASE old = NoRow
  <2>1. rows = <<>> /\ changes = <<>>
    BY <1>5, <1>7
  <2> HIDE DEF changes
  <2> QED
    BY <1>3, <1>4, <1>7, <2>1
<1>8. CASE old # NoRow
  <2>1. rows = <<old>> /\ DOMAIN rows = 1..1 /\ rows[1] = old /\ rows # <<>>
    BY <1>5, <1>8
  <2>2. Change(t, KeyOf(t, rows[1]), NoRow, Held(kept, 1, rows[1])) = Change(t, key, NoRow, Read(old))
    BY <1>6, <1>8, <2>1 DEF Held
  <2>3. changes = <<Change(t, key, NoRow, Read(old))>>
    BY <2>1, <2>2
  <2> HIDE DEF changes
  <2> QED
    BY <1>3, <1>4, <1>8, <2>1, <2>3
<1> QED
  BY <1>7, <1>8

\* The point path's INSERT ... ON CONFLICT DO UPDATE.
LEMMA PointUpsertAgrees ==
    ASSUME NEW db, StorageOK(db), NEW x, TxnOK(db, x), NEW s, IsStatement(s), s.kind = "insert",
           IsPointUpsert(s), NEW kept \in Nat, 1 <= kept
    PROVE  PlanPointUpsert(db, x, s) = PlanInsert(db, x, s, kept)
<1> DEFINE t == s.table
           row == NormalizeRow(t, s.rows[1])
           key == KeyOf(t, row)
           old == Lookup(db, x, t, key)
           updated == Updated(t, s.set, old, row)
           start == [error |-> "none", changes |-> <<>>, written |-> {}, slots |-> {}]
           done == InsertOrUpdateRow(db, x, s, kept, start, row)
           Written(next) == Plan(<<Change(t, key, next, Read(old))>>, <<>>, <<t>>)
<1>1. t \in Tables /\ s.conflict = "update" /\ Len(s.rows) = 1 /\ PrimaryArbiter(s)
      /\ ArbiterIndexes(s) = {}
  BY DEF IsStatement, IsPointUpsert, ArbiterIndexes
<1>2. InsertOrUpdateRows(db, x, s, kept) = done
  <2>1. Len(s.rows) \in Nat
    BY <1>1
  <2>2. PICK after : InsertOrUpdateRun(db, x, s, kept, after)
    BY <2>1, InsertOrUpdateLoop
  <2>3. InsertOrUpdateRows(db, x, s, kept) = after[1] /\ after[0] = start /\ 1 \in 1..Len(s.rows) /\ 1 - 1 = 0
    BY <1>1, <2>2 DEF InsertOrUpdateRun
  <2>4. after[1] = InsertOrUpdateRow(db, x, s, kept, after[1 - 1], row)
    BY <2>2, <2>3 DEF InsertOrUpdateRun
  <2> HIDE DEF start, row
  <2> QED
    BY <2>3, <2>4
<1> DEFINE bad == BadConstant(t, s.set, {"value"})
<1>3. PlanInsert(db, x, s, kept) = IF bad THEN Refusal("constraint") ELSE InsertedPlan(t, done)
  BY <1>1, <1>2 DEF PlanInsert
<1>4. PlanPointUpsert(db, x, s)
        = IF bad \/ ~RowIsValid(t, row) \/ ~RowIsValid(t, IF old = NoRow THEN row ELSE updated)
          THEN Refusal("constraint") ELSE Written(IF old = NoRow THEN row ELSE updated)
  BY DEF PlanPointUpsert
<1>5. start.error = "none" /\ start.written = {} /\ start.slots = {} /\ start.changes = <<>>
      /\ Len(start.changes) + 1 = 1
  OBVIOUS
<1>6. KeyOf(t, updated) = KeyOf(t, old) /\ (old # NoRow => KeyOf(t, old) = key)
  BY <1>1, LookupIs, KeyKept DEF IsPointUpsert
<1>7. FindConflict(db, x, s, start, row)
        = IF old # NoRow THEN Conflict("existing", old) ELSE Conflict("none", NoRow)
  <2>1. {r \in StoredConflicts(db, x, s, row) : KeyOf(t, r) \notin start.written} = {}
    BY <1>1 DEF StoredConflicts
  <2>2. FindConflict(db, x, s, start, row)
          = ConflictAmong(old, {r \in StoredConflicts(db, x, s, row) : KeyOf(t, r) \notin start.written})
    <3> HIDE DEF start
    <3>1. ArbiterSlots(s, row) \cap start.slots = {} /\ KeyOf(t, row) \notin start.written
      BY <1>5
    <3> HIDE DEF row
    <3> QED
      BY <1>1, <3>1 DEF FindConflict
  <2>3. ConflictAmong(old, {}) = IF old # NoRow THEN Conflict("existing", old) ELSE Conflict("none", NoRow)
    BY DEF ConflictAmong
  <2> QED
    BY <2>1, <2>2, <2>3
<1>8. ASSUME NEW next, KeyOf(t, next) = key
      PROVE  InsertedPlan(t, WriteRow(s, start, next, Read(old)))
                = IF RowIsValid(t, next) THEN Written(next) ELSE Refusal("constraint")
  <2> DEFINE c == Change(t, key, next, Read(old))
             wrote == WriteRow(s, start, next, Read(old))
  <2> HIDE DEF c
  <2>1. CASE RowIsValid(t, next)
    <3>1. wrote = [start EXCEPT !.changes = Append(@, c), !.written = @ \cup {KeyOf(t, next)},
                                !.slots = @ \cup ArbiterSlots(s, next)]
      BY <1>8, <2>1 DEF WriteRow, c
    <3>2. wrote.error = "none" /\ wrote.changes = <<c>>
      <4>1. wrote.error = start.error /\ wrote.changes = Append(start.changes, c)
        BY <3>1
      <4>2. Append(<<>>, c) = <<c>>
        OBVIOUS
      <4> QED
        BY <1>5, <4>1, <4>2
    <3> HIDE DEF wrote
    <3>3. InsertedPlan(t, wrote) = Plan(<<c>>, <<>>, <<t>>)
      BY <3>2 DEF InsertedPlan
    <3> QED
      BY <2>1, <3>3 DEF c, wrote
  <2>2. CASE ~RowIsValid(t, next)
    <3>1. wrote = [start EXCEPT !.error = "constraint"]
      BY <2>2 DEF WriteRow
    <3>2. wrote.error = "constraint"
      BY <3>1
    <3> HIDE DEF wrote
    <3>3. InsertedPlan(t, wrote) = Refusal("constraint")
      BY <3>2 DEF InsertedPlan
    <3> QED
      BY <2>2, <3>3 DEF wrote
  <2> QED
    BY <2>1, <2>2
<1>9. CASE ~RowIsValid(t, row)
  <2>1. done = [start EXCEPT !.error = "constraint"]
    BY <1>5, <1>9 DEF InsertOrUpdateRow
  <2>2. done.error = "constraint"
    BY <2>1
  <2> HIDE DEF done, bad
  <2>3. InsertedPlan(t, done) = Refusal("constraint")
    BY <2>2 DEF InsertedPlan
  <2> QED
    BY <1>3, <1>4, <1>9, <2>3
<1>10. ASSUME RowIsValid(t, row)
       PROVE  done = TakeRow(db, x, s, kept, start, row, FindConflict(db, x, s, start, row))
  BY <1>5, <1>10 DEF InsertOrUpdateRow
<1> DEFINE found == FindConflict(db, x, s, start, row)
<1>11. CASE RowIsValid(t, row) /\ old = NoRow
  <2>1. found = Conflict("none", NoRow)
    BY <1>7, <1>11
  <2>2. found.kind = "none"
    BY <2>1 DEF Conflict
  <2>3. done = TakeRow(db, x, s, kept, start, row, found)
    BY <1>10, <1>11
  <2> HIDE DEF found, done, bad, row, start
  <2>4. TakeRow(db, x, s, kept, start, row, found) = WriteRow(s, start, row, Read(NoRow))
    BY <1>1, <1>5, <1>11, <2>2 DEF TakeRow
  <2>5. InsertedPlan(t, done) = Written(row)
    BY <1>8, <1>11, <2>3, <2>4
  <2> HIDE DEF Written
  <2> QED
    BY <1>3, <1>4, <1>11, <2>5
<1>12. CASE RowIsValid(t, row) /\ old # NoRow
  <2>1. found = Conflict("existing", old)
    BY <1>7, <1>12
  <2>2. found.kind = "existing" /\ found.row = old
    BY <2>1 DEF Conflict
  <2>3. done = TakeRow(db, x, s, kept, start, row, found)
    BY <1>10, <1>12
  <2> HIDE DEF found, done, bad, row, start, old
  <2>4. TakeRow(db, x, s, kept, start, row, found) = UpdateExisting(s, kept, start, old, updated)
    BY <1>1, <2>2 DEF TakeRow
  <2> HIDE DEF updated
  <2>5. UpdateExisting(s, kept, start, old, updated) = WriteRow(s, start, updated, Read(old))
    BY <1>5, <1>6, <1>12 DEF UpdateExisting, Held
  <2>6. InsertedPlan(t, done) = IF RowIsValid(t, updated) THEN Written(updated) ELSE Refusal("constraint")
    BY <1>6, <1>8, <1>12, <2>3, <2>4, <2>5
  <2> HIDE DEF Written
  <2> QED
    BY <1>3, <1>4, <1>12, <2>6
<1> QED
  BY <1>9, <1>11, <1>12

\* Whatever the point path does not decline it plans as the general planner does.
Planned(db, x, s, kept) ==
    CASE s.kind = "insert" -> PlanInsert(db, x, s, kept)
      [] s.kind = "update" -> PlanUpdate(db, x, s, kept)
      [] s.kind = "delete" -> PlanDelete(db, x, s, kept)

\* The point path is the general planner with one row kept, or it declines.
LEMMA PointAgrees ==
    ASSUME NEW db, StorageOK(db), NEW x, TxnOK(db, x), NEW s, IsStatement(s),
           NEW kept \in Nat, 1 <= kept, PlanPoint(db, x, s).error # "declined"
    PROVE  PlanPoint(db, x, s) = Planned(db, x, s, kept)
<1>1. s.kind \in {"insert", "update", "delete"}
  BY DEF IsStatement
<1>2. CASE s.kind = "insert"
  <2>1. PlanPoint(db, x, s) = PlanPointInsert(db, x, s) /\ Planned(db, x, s, kept) = PlanInsert(db, x, s, kept)
    BY <1>2 DEF PlanPoint, Planned
  <2>2. CASE s.conflict = "error"
    BY <2>1, <2>2 DEF PlanPointInsert, PlanInsert, IsPointUpsert
  <2>3. CASE s.conflict # "error" /\ IsPointUpsert(s)
    BY <1>2, <2>1, <2>3, PointUpsertAgrees DEF PlanPointInsert
  <2>4. CASE s.conflict # "error" /\ ~IsPointUpsert(s)
    BY <2>1, <2>4 DEF PlanPointInsert, Declined
  <2> QED
    BY <2>2, <2>3, <2>4
<1>3. CASE s.kind = "update"
  <2>1. PlanPoint(db, x, s) = PlanPointUpdate(db, x, s) /\ Planned(db, x, s, kept) = PlanUpdate(db, x, s, kept)
    BY <1>3 DEF PlanPoint, Planned
  <2> QED
    BY <1>3, <2>1, PointUpdateAgrees
<1>4. CASE s.kind = "delete"
  <2>1. PlanPoint(db, x, s) = PlanPointDelete(db, x, s) /\ Planned(db, x, s, kept) = PlanDelete(db, x, s, kept)
    BY <1>4 DEF PlanPoint, Planned
  <2> QED
    BY <1>4, <2>1, PointDeleteAgrees
<1> QED
  BY <1>1, <1>2, <1>3, <1>4

\* The plan of every statement is sound.
LEMMA PlannedOK ==
    ASSUME NEW db, StorageOK(db), NEW x, TxnOK(db, x), NEW s, IsStatement(s), NEW kept
    PROVE  PlanOK(db, x, Planned(db, x, s, kept))
<1>1. s.kind \in {"insert", "update", "delete"}
  BY DEF IsStatement
<1> QED
  BY <1>1, PlanInsertOK, PlanUpdateOK, PlanDeleteOK DEF Planned

-----------------------------------------------------------------------------
(* Foreign keys. *)

\* A sequence is one of what it holds.
LEMMA HoldsItsRange ==
    ASSUME NEW n \in Nat, NEW a, a = [i \in 1..n |-> a[i]]
    PROVE  a \in Seq(Range(a)) /\ Len(a) = n
<1>1. a \in [1..n -> Range(a)]
  BY DEF Range
<1> QED
  BY <1>1, FunctionIsSeq

\* Tables are listed in the order they are first named.
TablesAfterRun(tables, changes, after) ==
    /\ TablesAfter(tables, changes) = after[Len(changes)]
    /\ after[0] = tables
    /\ \A n \in 1..Len(changes) :
        after[n] = IF changes[n].table \in Range(after[n - 1]) THEN after[n - 1]
                   ELSE Append(after[n - 1], changes[n].table)

\* The loop has such a run.
LEMMA TablesAfterLoop ==
    ASSUME NEW tables, NEW changes, Len(changes) \in Nat
    PROVE  \E after : TablesAfterRun(tables, changes, after)
<1> DEFINE start == tables
           Step(f, n) == IF changes[n].table \in Range(f[n - 1]) THEN f[n - 1] ELSE Append(f[n - 1], changes[n].table)
           E(m, f) == f = [n \in 0..m |-> IF n = 0 THEN start ELSE Step(f, n)]
           I == {m \in 0..Len(changes) : \E f : E(m, f)}
<1>1. TablesAfter(tables, changes) = (CHOOSE f : E(Len(changes), f))[Len(changes)]
  BY DEF TablesAfter
<1>2. E(0, [n \in 0..0 |-> start])
  <2> HIDE DEF Step, start
  <2> QED
    OBVIOUS
<1>3. ASSUME NEW m \in 0..(Len(changes) - 1), NEW f, E(m, f)
      PROVE  \E g : E(m + 1, g)
  <2> DEFINE g == [n \in 0..(m + 1) |-> IF n = m + 1 THEN Step(f, n) ELSE f[n]]
  <2>1. ASSUME NEW n \in 0..(m + 1), n # 0 PROVE Step(g, n) = Step(f, n)
    <3>1. g[n - 1] = f[n - 1]
      BY <2>1
    <3> QED
      BY <3>1
  <2> HIDE DEF Step, start
  <2>2. ASSUME NEW n \in 0..(m + 1), n # m + 1
        PROVE  f[n] = IF n = 0 THEN start ELSE Step(f, n)
    BY <1>3, <2>2
  <2>3. E(m + 1, g)
    BY <2>1, <2>2
  <2> QED
    BY <2>3
<1>4. \A f : E(Len(changes), f) => /\ f[0] = start
                      /\ \A n \in 1..Len(changes) : f[n] = Step(f, n)
  <2> HIDE DEF Step, start
  <2> QED
    OBVIOUS
<1> HIDE DEF E
<1>5. 0 \in I
  BY <1>2
<1>6. ASSUME NEW m \in 0..(Len(changes) - 1), m \in I PROVE m + 1 \in I
  <2>1. PICK f : E(m, f)
    BY <1>6
  <2>2. m + 1 \in 0..Len(changes) /\ \E g : E(m + 1, g)
    BY <2>1, <1>3
  <2> QED
    BY <2>2
<1>7. 0..Len(changes) \subseteq I
  <2> HIDE DEF I
  <2> QED
    BY <1>5, <1>6, LoopInduction
<1>8. E(Len(changes), CHOOSE f : E(Len(changes), f))
  <2>1. Len(changes) \in I
    BY <1>7
  <2> QED
    BY <2>1
<1> QED
  BY <1>1, <1>4, <1>8 DEF TablesAfterRun

\* Every table named is listed, once if those before were.
Once(seq) == \A i, j \in DOMAIN seq : seq[i] = seq[j] => i = j
Lists(tables, named, all) ==
    /\ all \in Seq(Tables)
    /\ Range(all) = Range(tables) \cup named
    /\ Once(tables) => Once(all)

\* A table not yet listed is listed once.
LEMMA AppendNew ==
    ASSUME NEW S, NEW a \in Seq(S), NEW e \in S, e \notin Range(a)
    PROVE  /\ Append(a, e) \in Seq(S) /\ Range(Append(a, e)) = Range(a) \cup {e}
           /\ Once(a) => Once(Append(a, e))
<1> DEFINE b == Append(a, e)
           n == Len(a)
<1>1. n \in Nat /\ DOMAIN a = 1..n /\ a = [i \in 1..n |-> a[i]]
  OBVIOUS
<1>2. b \in Seq(S) /\ DOMAIN b = 1..(n + 1) /\ b[n + 1] = e /\ \A i \in 1..n : b[i] = a[i]
  OBVIOUS
<1>3. \A i \in 1..(n + 1) : i \in 1..n \/ i = n + 1
  BY <1>1
<1>4. 1..n \subseteq 1..(n + 1) /\ n + 1 \in 1..(n + 1)
  BY <1>1
<1> HIDE DEF b, n
<1>5. Range(b) = Range(a) \cup {e}
  BY <1>1, <1>2, <1>3, <1>4 DEF Range
<1>6. ASSUME Once(a) PROVE Once(b)
  <2>1. ASSUME NEW i \in 1..(n + 1), NEW j \in 1..(n + 1), b[i] = b[j] PROVE i = j
    <3>1. \A k \in 1..n : a[k] # e
      BY <1>1 DEF Range
    <3>2. CASE i = n + 1
      BY <1>2, <1>3, <2>1, <3>1, <3>2
    <3>3. CASE i \in 1..n
      BY <1>1, <1>2, <1>3, <1>6, <2>1, <3>1, <3>3 DEF Once
    <3> QED
      BY <1>3, <3>2, <3>3
  <2> QED
    BY <1>2, <2>1 DEF Once
<1> QED
  BY <1>2, <1>5, <1>6 DEF b

\* The tables named by a list of changes are all listed, and once each.
LEMMA TablesAfterIs ==
    ASSUME NEW tables \in Seq(Tables), NEW n \in Nat, NEW changes, Len(changes) = n,
           \A i \in 1..n : changes[i].table \in Tables
    PROVE  Lists(tables, {changes[i].table : i \in 1..n}, TablesAfter(tables, changes))
<1> DEFINE Named(m) == {changes[i].table : i \in 1..m}
<1>1. PICK after : TablesAfterRun(tables, changes, after)
  BY TablesAfterLoop
<1> DEFINE S == {m \in 0..n : Lists(tables, Named(m), after[m])}
<1>2. 0 \in S
  <2>1. Named(0) = {} /\ after[0] = tables
    BY <1>1 DEF TablesAfterRun
  <2> HIDE DEF Named
  <2> QED
    BY <2>1 DEF Lists
<1>3. ASSUME NEW m \in 0..(n - 1), m \in S PROVE m + 1 \in S
  <2> DEFINE t == changes[m + 1].table
             a == after[m]
  <2>1. m + 1 \in 1..n /\ m + 1 \in 0..n /\ (m + 1) - 1 = m
    OBVIOUS
  <2>2. after[m + 1] = IF t \in Range(a) THEN a ELSE Append(a, t)
    BY <1>1, <2>1 DEF TablesAfterRun
  <2>3. Named(m + 1) = Named(m) \cup {t}
    <3>1. \A i \in 1..(m + 1) : i \in 1..m \/ i = m + 1
      OBVIOUS
    <3>2. 1..m \subseteq 1..(m + 1) /\ m + 1 \in 1..(m + 1)
      OBVIOUS
    <3> QED
      BY <3>1, <3>2
  <2>4. t \in Tables /\ Lists(tables, Named(m), a)
    BY <1>3, <2>1
  <2> HIDE DEF t, a, Named
  <2>5. CASE t \in Range(a)
    BY <2>1, <2>2, <2>3, <2>4, <2>5 DEF Lists
  <2>6. CASE t \notin Range(a)
    <3>1. a \in Seq(Tables)
      BY <2>4 DEF Lists
    <3>2. Append(a, t) \in Seq(Tables) /\ Range(Append(a, t)) = Range(a) \cup {t}
          /\ (Once(a) => Once(Append(a, t)))
      BY <2>4, <2>6, <3>1, AppendNew
    <3>3. Lists(tables, Named(m + 1), Append(a, t))
      BY <2>3, <2>4, <3>2 DEF Lists
    <3> QED
      BY <2>1, <2>2, <2>6, <3>3
  <2> QED
    BY <2>5, <2>6
<1>4. 0..n \subseteq S
  <2> HIDE DEF S
  <2> QED
    BY <1>2, <1>3, LoopInduction
<1>5. n \in S
  <2>1. n \in 0..n
    OBVIOUS
  <2> HIDE DEF S
  <2> QED
    BY <1>4, <2>1
<1>6. TablesAfter(tables, changes) = after[n]
  BY <1>1 DEF TablesAfterRun
<1> QED
  BY <1>5, <1>6

(***************************************************************************)
(* The worklist: its first `own' rows are the statement's, and the others  *)
(* are rows actions changed, each of which was found by its key.           *)
(***************************************************************************)
ItemOK(own, i, d) ==
    /\ d = [table |-> d.table, old |-> d.old, new |-> d.new, gone |-> d.gone]
    /\ d.table \in Tables
    /\ d.new \in StoredRows(d.table) \cup {NoRow}
    /\ i > own => d.old \in StoredRows(d.table)
ItemsOK(own, changed) ==
    /\ changed \in Seq(Range(changed))
    /\ own \in 0..Len(changed)
    /\ \A i \in DOMAIN changed : ItemOK(own, i, changed[i])
WorkOK(own, acc) ==
    /\ acc = [error |-> acc.error, changed |-> acc.changed]
    /\ acc.error \in PlanErrors
    /\ ItemsOK(own, acc.changed)

\* A worklist with a sound item added is sound.
LEMMA ItemAdded ==
    ASSUME NEW own, NEW changed, ItemsOK(own, changed), NEW d, \A i \in Nat : ItemOK(own, i, d)
    PROVE  ItemsOK(own, Append(changed, d))
<1> DEFINE n == Len(changed)
           b == Append(changed, d)
<1>1. changed \in Seq(Range(changed)) /\ n \in Nat /\ DOMAIN changed = 1..n
  BY DEF ItemsOK
<1>2. b = [i \in 1..(n + 1) |-> b[i]] /\ DOMAIN b = 1..(n + 1) /\ b[n + 1] = d
      /\ \A i \in 1..n : b[i] = changed[i]
  <2>1. PICK S : d \in S /\ Range(changed) \subseteq S
    <3>1. d \in Range(changed) \cup {d} /\ Range(changed) \subseteq Range(changed) \cup {d}
      OBVIOUS
    <3> QED
      BY <3>1
  <2>2. changed \in Seq(S)
    BY <1>1, <2>1
  <2>3. b \in Seq(S) /\ DOMAIN b = 1..(n + 1) /\ b[n + 1] = d /\ \A i \in 1..n : b[i] = changed[i]
    BY <2>1, <2>2
  <2> HIDE DEF b, n
  <2>4. b = [i \in DOMAIN b |-> b[i]]
    BY <2>3
  <2> QED
    BY <2>3, <2>4
<1>3. n + 1 \in Nat /\ \A i \in 1..(n + 1) : i \in 1..n \/ i = n + 1
  BY <1>1
<1> HIDE DEF b, n
<1>4. b \in Seq(Range(b)) /\ Len(b) = n + 1
  BY <1>2, <1>3, HoldsItsRange
<1>5. \A i \in DOMAIN b : ItemOK(own, i, b[i])
  BY <1>1, <1>2, <1>3 DEF ItemsOK
<1>6. own \in 0..Len(b)
  BY <1>1, <1>4 DEF ItemsOK, n
<1>7. ItemsOK(own, b)
  BY <1>4, <1>5, <1>6 DEF ItemsOK
<1> QED
  BY <1>7 DEF b

\* A worklist with an item replaced by a sound one is sound.
LEMMA ItemReplaced ==
    ASSUME NEW own, NEW changed, ItemsOK(own, changed), NEW at \in DOMAIN changed, NEW d,
           ItemOK(own, at, d)
    PROVE  ItemsOK(own, [changed EXCEPT ![at] = d])
<1> DEFINE n == Len(changed)
           b == [changed EXCEPT ![at] = d]
<1>1. changed \in Seq(Range(changed)) /\ n \in Nat /\ DOMAIN changed = 1..n
  BY DEF ItemsOK
<1>2. b = [i \in 1..n |-> b[i]] /\ DOMAIN b = 1..n /\ b[at] = d
      /\ \A i \in 1..n : i # at => b[i] = changed[i]
  BY <1>1
<1> HIDE DEF b, n
<1>3. b \in Seq(Range(b)) /\ Len(b) = n
  BY <1>1, <1>2, HoldsItsRange
<1>4. \A i \in DOMAIN b : ItemOK(own, i, b[i])
  BY <1>1, <1>2 DEF ItemsOK
<1>5. ItemsOK(own, b)
  BY <1>3, <1>4 DEF ItemsOK, n
<1> QED
  BY <1>5 DEF b

\* What an action makes of a row is a row.
LEMMA ActedIs ==
    ASSUME NEW k, IsForeignKey(k), NEW action, NEW base \in Rows(k.table), NEW values,
           action = "cascade" => values \in [1..Len(k.columns) -> Values]
    PROVE  Acted(k, action, base, values) \in Rows(k.table)
<1> DEFINE t == k.table
           n == Len(k.columns)
<1>1. t \in Tables /\ n \in Nat /\ DOMAIN k.columns = 1..n
  BY DEF IsForeignKey
<1>2. DOMAIN base = Columns[t] /\ (\A c \in Columns[t] : base[c] \in Values)
      /\ (\A c \in Columns[t] : Default[t][c] \in Values)
  BY <1>1, CatalogAssumption DEF Rows
<1>3. ASSUME NEW c \in Columns[t] PROVE Acted(k, action, base, values)[c] \in Values
  <2> DEFINE j == CHOOSE i \in DOMAIN k.columns : k.columns[i] = c
  <2>1. Acted(k, action, base, values)[c]
          = IF c \notin Range(k.columns) THEN base[c]
            ELSE IF action = "cascade" THEN values[j]
            ELSE IF action = "set default" THEN Default[t][c]
            ELSE Null
    BY <1>2 DEF Acted
  <2>2. c \in Range(k.columns) => j \in 1..n
    BY <1>1 DEF Range
  <2> HIDE DEF j
  <2>3. action = "cascade" /\ j \in 1..n => values[j] \in Values
    OBVIOUS
  <2> QED
    BY <1>2, <2>1, <2>2, <2>3 DEF Values
<1> DEFINE made == Acted(k, action, base, values)
<1>4. made = [c \in DOMAIN made |-> made[c]] /\ DOMAIN made = Columns[t]
  <2> DEFINE Of(c) == IF c \notin Range(k.columns) THEN base[c]
                      ELSE IF action = "cascade" THEN values[CHOOSE i \in DOMAIN k.columns : k.columns[i] = c]
                      ELSE IF action = "set default" THEN Default[t][c]
                      ELSE Null
  <2>1. made = [c \in DOMAIN base |-> Of(c)]
    BY DEF Acted
  <2> HIDE DEF made, Of
  <2> QED
    BY <1>2, <2>1
<1> HIDE DEF made
<1>5. \A c \in Columns[t] : made[c] \in Values
  BY <1>3 DEF made
<1>6. made \in Rows(t)
  BY <1>4, <1>5 DEF Rows
<1> QED
  BY <1>6 DEF made

\* An action on one referencing row keeps the worklist sound.
LEMMA ActOnRowOK ==
    ASSUME NEW own \in Nat, NEW k, IsForeignKey(k), NEW action, NEW deleted, NEW values,
           action = "cascade" => deleted \/ values \in [1..Len(k.columns) -> Values],
           NEW acc, WorkOK(own, acc), NEW row \in StoredRows(k.table)
    PROVE  WorkOK(own, ActOnRow(own, k, action, deleted, values, acc, row))
<1> DEFINE t == k.table
           found == {i \in DOMAIN acc.changed :
                       /\ acc.changed[i].table = t
                       /\ acc.changed[i].old # NoRow
                       /\ KeyOf(t, acc.changed[i].old) = KeyOf(t, row)}
           at == CHOOSE i \in found : \A j \in found : i <= j
           base == IF found = {} THEN row ELSE acc.changed[at].new
           next == IF action = "cascade" /\ deleted THEN NoRow ELSE Acted(k, action, base, values)
           kept == acc.error # "none" \/ (found # {} /\ (at <= own \/ base = NoRow))
           bad == action \in {"no action", "restrict"} \/ (next # NoRow /\ ~RowIsValid(t, next))
           item == [table |-> t, old |-> row, new |-> next, gone |-> FALSE]
<1>1. ActOnRow(own, k, action, deleted, values, acc, row)
        = IF kept THEN acc
          ELSE IF bad THEN [acc EXCEPT !.error = "constraint"]
          ELSE IF found # {} THEN [acc EXCEPT !.changed[at].new = next]
          ELSE [acc EXCEPT !.changed = Append(@, item)]
  BY DEF ActOnRow
<1>2. t \in Tables
  BY DEF IsForeignKey
<1>3. acc.changed \in Seq(Range(acc.changed)) /\ DOMAIN acc.changed = 1..Len(acc.changed)
      /\ Len(acc.changed) \in Nat
  BY DEF WorkOK, ItemsOK
<1>4. ASSUME found # {}
      PROVE  at \in DOMAIN acc.changed /\ acc.changed[at].table = t /\ at \in Nat
  <2>1. found \in SUBSET Nat
    BY <1>3
  <2>2. \E i \in found : \A j \in found : i <= j
    <3> HIDE DEF found
    <3> QED
      BY <1>4, <2>1, SmallestOf
  <2>3. at \in found
    BY <2>2
  <2> HIDE DEF at
  <2> QED
    BY <2>1, <2>3
<1>5. \A i \in DOMAIN acc.changed : ItemOK(own, i, acc.changed[i])
  BY DEF WorkOK, ItemsOK
<1> HIDE DEF found, at
<1>6. ~kept => base \in StoredRows(t)
  <2>1. CASE found = {}
    BY <2>1
  <2>2. CASE found # {}
    <3>1. acc.changed[at].new \in StoredRows(t) \cup {NoRow}
      BY <1>4, <1>5, <2>2 DEF ItemOK
    <3> QED
      BY <2>2, <3>1
  <2> QED
    BY <2>1, <2>2
<1> HIDE DEF base
<1>7. ~kept /\ ~bad => next \in StoredRows(t) \cup {NoRow}
  <2>1. CASE action = "cascade" /\ deleted
    BY <2>1
  <2>2. CASE ~(action = "cascade" /\ deleted)
    <3>1. ~kept => base \in Rows(t)
      BY <1>6 DEF StoredRows
    <3>2. action = "cascade" => values \in [1..Len(k.columns) -> Values]
      BY <2>2
    <3>3. ~kept => Acted(k, action, base, values) \in Rows(t)
      BY <3>1, <3>2, ActedIs
    <3>4. next = Acted(k, action, base, values)
      BY <2>2
    <3> HIDE DEF kept, next
    <3> QED
      BY <3>3, <3>4 DEF StoredRows
  <2> QED
    BY <2>1, <2>2
<1>7a. ~kept /\ found # {} => at > own
  BY <1>3, <1>4
<1> HIDE DEF next, bad, kept
<1>8. CASE kept
  BY <1>1, <1>8
<1>9. CASE ~kept /\ bad
  BY <1>1, <1>9 DEF WorkOK, PlanErrors
<1>10. CASE ~kept /\ ~bad /\ found # {}
  <2> DEFINE d == acc.changed[at]
             e == [d EXCEPT !.new = next]
             b == [acc.changed EXCEPT ![at] = e]
  <2>1. ItemOK(own, at, d) /\ d.table = t
    BY <1>4, <1>5, <1>10
  <2> HIDE DEF d
  <2>2. ItemOK(own, at, e)
    BY <1>7, <1>10, <2>1 DEF ItemOK
  <2>3. ActOnRow(own, k, action, deleted, values, acc, row) = [acc EXCEPT !.changed = b]
    BY <1>1, <1>10 DEF d
  <2>4. ItemsOK(own, b)
    BY <1>4, <1>10, <2>2, ItemReplaced DEF WorkOK
  <2> HIDE DEF b
  <2> QED
    BY <2>3, <2>4 DEF WorkOK
<1>11. CASE ~kept /\ ~bad /\ found = {}
  <2>1. \A i \in Nat : ItemOK(own, i, item)
    BY <1>2, <1>7, <1>11 DEF ItemOK
  <2> HIDE DEF item
  <2>2. ItemsOK(own, Append(acc.changed, item))
    BY <2>1, ItemAdded DEF WorkOK
  <2>3. ActOnRow(own, k, action, deleted, values, acc, row)
          = [acc EXCEPT !.changed = Append(acc.changed, item)]
    BY <1>1, <1>11
  <2> QED
    BY <2>2, <2>3 DEF WorkOK
<1> QED
  BY <1>8, <1>9, <1>10, <1>11

\* An action is applied to the rows it is about in turn.
ActOnRowsRun(own, k, action, deleted, values, acc, rows, after) ==
    /\ ActOnRows(own, k, action, deleted, values, acc, rows) = after[Len(rows)]
    /\ after[0] = acc
    /\ \A n \in 1..Len(rows) : after[n] = ActOnRow(own, k, action, deleted, values, after[n - 1], rows[n])

\* The loop has such a run.
LEMMA ActOnRowsLoop ==
    ASSUME NEW own, NEW k, NEW action, NEW deleted, NEW values, NEW acc, NEW rows, Len(rows) \in Nat
    PROVE  \E after : ActOnRowsRun(own, k, action, deleted, values, acc, rows, after)
<1> DEFINE start == acc
           Step(f, n) == ActOnRow(own, k, action, deleted, values, f[n - 1], rows[n])
           E(m, f) == f = [n \in 0..m |-> IF n = 0 THEN start ELSE Step(f, n)]
           I == {m \in 0..Len(rows) : \E f : E(m, f)}
<1>1. ActOnRows(own, k, action, deleted, values, acc, rows) = (CHOOSE f : E(Len(rows), f))[Len(rows)]
  BY DEF ActOnRows
<1>2. E(0, [n \in 0..0 |-> start])
  <2> HIDE DEF Step, start
  <2> QED
    OBVIOUS
<1>3. ASSUME NEW m \in 0..(Len(rows) - 1), NEW f, E(m, f)
      PROVE  \E g : E(m + 1, g)
  <2> DEFINE g == [n \in 0..(m + 1) |-> IF n = m + 1 THEN Step(f, n) ELSE f[n]]
  <2>1. ASSUME NEW n \in 0..(m + 1), n # 0 PROVE Step(g, n) = Step(f, n)
    <3>1. g[n - 1] = f[n - 1]
      BY <2>1
    <3> QED
      BY <3>1
  <2> HIDE DEF Step, start
  <2>2. ASSUME NEW n \in 0..(m + 1), n # m + 1
        PROVE  f[n] = IF n = 0 THEN start ELSE Step(f, n)
    BY <1>3, <2>2
  <2>3. E(m + 1, g)
    BY <2>1, <2>2
  <2> QED
    BY <2>3
<1>4. \A f : E(Len(rows), f) => /\ f[0] = start
                      /\ \A n \in 1..Len(rows) : f[n] = Step(f, n)
  <2> HIDE DEF Step, start
  <2> QED
    OBVIOUS
<1> HIDE DEF E
<1>5. 0 \in I
  BY <1>2
<1>6. ASSUME NEW m \in 0..(Len(rows) - 1), m \in I PROVE m + 1 \in I
  <2>1. PICK f : E(m, f)
    BY <1>6
  <2>2. m + 1 \in 0..Len(rows) /\ \E g : E(m + 1, g)
    BY <2>1, <1>3
  <2> QED
    BY <2>2
<1>7. 0..Len(rows) \subseteq I
  <2> HIDE DEF I
  <2> QED
    BY <1>5, <1>6, LoopInduction
<1>8. E(Len(rows), CHOOSE f : E(Len(rows), f))
  <2>1. Len(rows) \in I
    BY <1>7
  <2> QED
    BY <2>1
<1> QED
  BY <1>1, <1>4, <1>8 DEF ActOnRowsRun

\* An action on the referencing rows keeps the worklist sound.
LEMMA ActOnRowsOK ==
    ASSUME NEW own \in Nat, NEW k, IsForeignKey(k), NEW action, NEW deleted, NEW values,
           action = "cascade" => deleted \/ values \in [1..Len(k.columns) -> Values],
           NEW acc, WorkOK(own, acc), NEW rows \in Seq(StoredRows(k.table))
    PROVE  WorkOK(own, ActOnRows(own, k, action, deleted, values, acc, rows))
<1> DEFINE n == Len(rows)
<1>1. n \in Nat /\ \A i \in 1..n : rows[i] \in StoredRows(k.table)
  OBVIOUS
<1>2. PICK after : ActOnRowsRun(own, k, action, deleted, values, acc, rows, after)
  BY <1>1, ActOnRowsLoop
<1> DEFINE S == {m \in 0..n : WorkOK(own, after[m])}
<1>3. after[0] = acc /\ ActOnRows(own, k, action, deleted, values, acc, rows) = after[n]
      /\ \A m \in 1..n : after[m] = ActOnRow(own, k, action, deleted, values, after[m - 1], rows[m])
  BY <1>2 DEF ActOnRowsRun
<1> HIDE DEF n
<1>4. 0 \in S
  BY <1>1, <1>3
<1>5. ASSUME NEW m \in 0..(n - 1), m \in S PROVE m + 1 \in S
  <2>1. m + 1 \in 1..n /\ m + 1 \in 0..n /\ (m + 1) - 1 = m
    BY <1>1
  <2>2. after[m + 1] = ActOnRow(own, k, action, deleted, values, after[m], rows[m + 1])
    BY <1>3, <2>1
  <2>3. WorkOK(own, after[m]) /\ rows[m + 1] \in StoredRows(k.table)
    BY <1>1, <1>5, <2>1
  <2>4. WorkOK(own, after[m + 1])
    BY <2>2, <2>3, ActOnRowOK
  <2> QED
    BY <2>1, <2>4
<1>6. n \in 0..n /\ 0..n \subseteq S
  <2>1. n \in 0..n
    BY <1>1
  <2> HIDE DEF S
  <2>2. 0..n \subseteq S
    BY <1>1, <1>4, <1>5, LoopInduction
  <2> QED
    BY <2>1, <2>2
<1>7. WorkOK(own, after[n])
  BY <1>6
<1> QED
  BY <1>3, <1>7

\* The action of one foreign key keeps the worklist sound.
LEMMA ApplyKeyOK ==
    ASSUME NEW db, StorageOK(db), NEW x, TxnOK(db, x), NEW own \in Nat, NEW i, NEW item,
           ItemOK(own, i, item), NEW acc, WorkOK(own, acc), NEW k, IsForeignKey(k)
    PROVE  WorkOK(own, ApplyKey(db, x, own, item, acc, k))
<1> DEFINE values == Project(item.old, k.referenced)
           next == IF item.new = NoRow THEN <<>> ELSE Project(item.new, k.referenced)
           action == IF item.new = NoRow THEN k.onDelete ELSE k.onUpdate
           rows == RowsWhere(db, x, k.table, Equalities(k.columns, values))
           deleted == item.new = NoRow
<1>1. \/ ApplyKey(db, x, own, item, acc, k) = acc
      \/ /\ k.references = item.table
         /\ ApplyKey(db, x, own, item, acc, k)
                = ActOnRows(own, k, action, deleted, next, acc, rows)
  BY DEF ApplyKey
<1>2. k.table \in Tables
  BY DEF IsForeignKey
<1>3. rows \in Seq(StoredRows(k.table))
  <2>1. rows \in Seq(Visible(db, x, k.table))
    BY <1>2, RowsWhereAre
  <2> HIDE DEF rows
  <2>2. Visible(db, x, k.table) \subseteq StoredRows(k.table)
    BY DEF Visible
  <2> QED
    BY <2>1, <2>2
<1>4. ASSUME k.references = item.table, ~deleted PROVE next \in [1..Len(k.columns) -> Values]
  <2>1. DOMAIN k.referenced = 1..Len(k.columns)
        /\ \A j \in DOMAIN k.referenced : k.referenced[j] \in Columns[item.table]
    BY <1>4 DEF IsForeignKey
  <2>2. item.new \in Rows(item.table)
    BY <1>4 DEF ItemOK, StoredRows
  <2>3. \A j \in DOMAIN k.referenced : item.new[k.referenced[j]] \in Values
    BY <2>1, <2>2 DEF Rows
  <2>4. next = [j \in DOMAIN k.referenced |-> item.new[k.referenced[j]]]
    BY <1>4 DEF Project
  <2> HIDE DEF next
  <2> QED
    BY <2>1, <2>3, <2>4
<1> HIDE DEF values, next, action, rows
<1>5. ASSUME k.references = item.table
      PROVE  WorkOK(own, ActOnRows(own, k, action, deleted, next, acc, rows))
  <2>1. deleted \/ next \in [1..Len(k.columns) -> Values]
    BY <1>4, <1>5
  <2> HIDE DEF deleted
  <2> QED
    BY <1>3, <2>1, ActOnRowsOK
<1> QED
  BY <1>1, <1>5

\* The keys that reference a changed row's table are applied in turn.
ApplyKeysRun(db, x, foreign, own, item, acc, after) ==
    /\ ApplyKeys(db, x, foreign, own, item, acc) = after[Len(foreign)]
    /\ after[0] = acc
    /\ \A n \in 1..Len(foreign) : after[n] = ApplyKey(db, x, own, item, after[n - 1], foreign[n])

\* The loop has such a run.
LEMMA ApplyKeysLoop ==
    ASSUME NEW db, NEW x, NEW foreign, NEW own, NEW item, NEW acc, Len(foreign) \in Nat
    PROVE  \E after : ApplyKeysRun(db, x, foreign, own, item, acc, after)
<1> DEFINE start == acc
           Step(f, n) == ApplyKey(db, x, own, item, f[n - 1], foreign[n])
           E(m, f) == f = [n \in 0..m |-> IF n = 0 THEN start ELSE Step(f, n)]
           I == {m \in 0..Len(foreign) : \E f : E(m, f)}
<1>1. ApplyKeys(db, x, foreign, own, item, acc) = (CHOOSE f : E(Len(foreign), f))[Len(foreign)]
  BY DEF ApplyKeys
<1>2. E(0, [n \in 0..0 |-> start])
  <2> HIDE DEF Step, start
  <2> QED
    OBVIOUS
<1>3. ASSUME NEW m \in 0..(Len(foreign) - 1), NEW f, E(m, f)
      PROVE  \E g : E(m + 1, g)
  <2> DEFINE g == [n \in 0..(m + 1) |-> IF n = m + 1 THEN Step(f, n) ELSE f[n]]
  <2>1. ASSUME NEW n \in 0..(m + 1), n # 0 PROVE Step(g, n) = Step(f, n)
    <3>1. g[n - 1] = f[n - 1]
      BY <2>1
    <3> QED
      BY <3>1
  <2> HIDE DEF Step, start
  <2>2. ASSUME NEW n \in 0..(m + 1), n # m + 1
        PROVE  f[n] = IF n = 0 THEN start ELSE Step(f, n)
    BY <1>3, <2>2
  <2>3. E(m + 1, g)
    BY <2>1, <2>2
  <2> QED
    BY <2>3
<1>4. \A f : E(Len(foreign), f) => /\ f[0] = start
                      /\ \A n \in 1..Len(foreign) : f[n] = Step(f, n)
  <2> HIDE DEF Step, start
  <2> QED
    OBVIOUS
<1> HIDE DEF E
<1>5. 0 \in I
  BY <1>2
<1>6. ASSUME NEW m \in 0..(Len(foreign) - 1), m \in I PROVE m + 1 \in I
  <2>1. PICK f : E(m, f)
    BY <1>6
  <2>2. m + 1 \in 0..Len(foreign) /\ \E g : E(m + 1, g)
    BY <2>1, <1>3
  <2> QED
    BY <2>2
<1>7. 0..Len(foreign) \subseteq I
  <2> HIDE DEF I
  <2> QED
    BY <1>5, <1>6, LoopInduction
<1>8. E(Len(foreign), CHOOSE f : E(Len(foreign), f))
  <2>1. Len(foreign) \in I
    BY <1>7
  <2> QED
    BY <2>1
<1> QED
  BY <1>1, <1>4, <1>8 DEF ApplyKeysRun

ForeignOK(foreign) == foreign \in Seq(Range(foreign)) /\ \A k \in Range(foreign) : IsForeignKey(k)

\* The actions of all foreign keys on a changed row keep the worklist sound.
LEMMA ApplyKeysOK ==
    ASSUME NEW db, StorageOK(db), NEW x, TxnOK(db, x), NEW foreign, ForeignOK(foreign),
           NEW own \in Nat, NEW i, NEW item, ItemOK(own, i, item), NEW acc, WorkOK(own, acc)
    PROVE  WorkOK(own, ApplyKeys(db, x, foreign, own, item, acc))
<1> DEFINE n == Len(foreign)
<1>1. n \in Nat /\ \A j \in 1..n : IsForeignKey(foreign[j])
  BY DEF ForeignOK, Range
<1>2. PICK after : ApplyKeysRun(db, x, foreign, own, item, acc, after)
  BY <1>1, ApplyKeysLoop
<1> DEFINE S == {m \in 0..n : WorkOK(own, after[m])}
<1>3. after[0] = acc /\ ApplyKeys(db, x, foreign, own, item, acc) = after[n]
      /\ \A m \in 1..n : after[m] = ApplyKey(db, x, own, item, after[m - 1], foreign[m])
  BY <1>2 DEF ApplyKeysRun
<1> HIDE DEF n
<1>4. 0 \in S
  BY <1>1, <1>3
<1>5. ASSUME NEW m \in 0..(n - 1), m \in S PROVE m + 1 \in S
  <2>1. m + 1 \in 1..n /\ m + 1 \in 0..n /\ (m + 1) - 1 = m
    BY <1>1
  <2>2. after[m + 1] = ApplyKey(db, x, own, item, after[m], foreign[m + 1])
    BY <1>3, <2>1
  <2>3. WorkOK(own, after[m]) /\ IsForeignKey(foreign[m + 1])
    BY <1>1, <1>5, <2>1
  <2>4. WorkOK(own, after[m + 1])
    BY <2>2, <2>3, ApplyKeyOK
  <2> QED
    BY <2>1, <2>4
<1>6. n \in 0..n /\ 0..n \subseteq S
  <2>1. n \in 0..n
    BY <1>1
  <2> HIDE DEF S
  <2>2. 0..n \subseteq S
    BY <1>1, <1>4, <1>5, LoopInduction
  <2> QED
    BY <2>1, <2>2
<1>7. WorkOK(own, after[n])
  BY <1>6
<1> QED
  BY <1>3, <1>7

\* The worklist is walked once.
ActionsUpToRun(db, x, foreign, own, last, after) ==
    /\ ActionsUpTo(db, x, foreign, own, last) = after[last]
    /\ after[0] = [error |-> "none", changed |-> own]
    /\ \A n \in 1..last : after[n] = ActionsOf(db, x, foreign, Len(own), after[n - 1], n)

\* The loop has such a run.
LEMMA ActionsUpToLoop ==
    ASSUME NEW db, NEW x, NEW foreign, NEW own, NEW last, last \in Nat
    PROVE  \E after : ActionsUpToRun(db, x, foreign, own, last, after)
<1> DEFINE start == [error |-> "none", changed |-> own]
           Step(f, n) == ActionsOf(db, x, foreign, Len(own), f[n - 1], n)
           E(m, f) == f = [n \in 0..m |-> IF n = 0 THEN start ELSE Step(f, n)]
           I == {m \in 0..last : \E f : E(m, f)}
<1>1. ActionsUpTo(db, x, foreign, own, last) = (CHOOSE f : E(last, f))[last]
  BY DEF ActionsUpTo
<1>2. E(0, [n \in 0..0 |-> start])
  <2> HIDE DEF Step, start
  <2> QED
    OBVIOUS
<1>3. ASSUME NEW m \in 0..(last - 1), NEW f, E(m, f)
      PROVE  \E g : E(m + 1, g)
  <2> DEFINE g == [n \in 0..(m + 1) |-> IF n = m + 1 THEN Step(f, n) ELSE f[n]]
  <2>1. ASSUME NEW n \in 0..(m + 1), n # 0 PROVE Step(g, n) = Step(f, n)
    <3>1. g[n - 1] = f[n - 1]
      BY <2>1
    <3> QED
      BY <3>1
  <2> HIDE DEF Step, start
  <2>2. ASSUME NEW n \in 0..(m + 1), n # m + 1
        PROVE  f[n] = IF n = 0 THEN start ELSE Step(f, n)
    BY <1>3, <2>2
  <2>3. E(m + 1, g)
    BY <2>1, <2>2
  <2> QED
    BY <2>3
<1>4. \A f : E(last, f) => /\ f[0] = start
                      /\ \A n \in 1..last : f[n] = Step(f, n)
  <2> HIDE DEF Step, start
  <2> QED
    OBVIOUS
<1> HIDE DEF E
<1>5. 0 \in I
  BY <1>2
<1>6. ASSUME NEW m \in 0..(last - 1), m \in I PROVE m + 1 \in I
  <2>1. PICK f : E(m, f)
    BY <1>6
  <2>2. m + 1 \in 0..last /\ \E g : E(m + 1, g)
    BY <2>1, <1>3
  <2> QED
    BY <2>2
<1>7. 0..last \subseteq I
  <2> HIDE DEF I
  <2> QED
    BY <1>5, <1>6, LoopInduction
<1>8. E(last, CHOOSE f : E(last, f))
  <2>1. last \in I
    BY <1>7
  <2> QED
    BY <2>1
<1> QED
  BY <1>1, <1>4, <1>8 DEF ActionsUpToRun

\* The rows a view shows can be counted.
LEMMA RowsSeenIs ==
    ASSUME NEW db, StorageOK(db), NEW x, TxnOK(db, x)
    PROVE  RowsSeen(db, x) \in Nat
<1> DEFINE Of(t) == {t} \X DOMAIN VisitRows(db, x, t)
           sets == {Of(t) : t \in Tables}
<1>1. \A m \in Nat : IsFiniteSet(1..m)
  BY FS_Interval
<1>2. ASSUME NEW t \in Tables PROVE IsFiniteSet(Of(t))
  <2> DEFINE rows == VisitRows(db, x, t)
  <2>1. rows \in Seq(Visible(db, x, t))
    BY VisitRowsAre DEF ScansVisible
  <2> HIDE DEF rows
  <2>2. DOMAIN rows = 1..Len(rows) /\ Len(rows) \in Nat
    BY <2>1
  <2>3. IsFiniteSet(DOMAIN rows) /\ IsFiniteSet({t})
    BY <1>1, <2>2, FS_Singleton
  <2> DEFINE one == {t}
             D == DOMAIN rows
  <2> HIDE DEF one, D
  <2>4. IsFiniteSet(one \X D)
    BY <2>3, FS_Product DEF one, D
  <2> QED
    BY <2>4 DEF one, D, rows
<1> HIDE DEF Of
<1>3. IsFiniteSet(sets)
  <2> DEFINE f == [t \in Tables |-> Of(t)]
  <2>1. f \in Surjection(Tables, sets)
    BY DEF Surjection
  <2>2. IsFiniteSet(Tables)
    BY CatalogAssumption
  <2> HIDE DEF sets, f
  <2> QED
    BY <2>1, <2>2, FS_Surjection
<1>4. IsFiniteSet(UNION sets)
  <2>1. \A s \in sets : IsFiniteSet(s)
    BY <1>2
  <2> HIDE DEF sets
  <2> QED
    BY <1>3, <2>1, FS_UNION
<1>5. RowsSeen(db, x) = Cardinality(UNION sets)
  BY DEF RowsSeen, Of
<1> HIDE DEF sets
<1> QED
  BY <1>4, <1>5, FS_CardinalityType

\* The worklist is sound when its last item has been acted on.
LEMMA ActionsTakenOK ==
    ASSUME NEW db, StorageOK(db), NEW x, TxnOK(db, x), NEW foreign, ForeignOK(foreign),
           NEW own, ItemsOK(Len(own), own)
    PROVE  WorkOK(Len(own), ActionsTaken(db, x, foreign, own))
<1> DEFINE L == Len(own)
           n == L + RowsSeen(db, x)
<1>1. L \in Nat /\ n \in Nat
  BY RowsSeenIs DEF ItemsOK
<1>2. PICK after : ActionsUpToRun(db, x, foreign, own, n, after)
  BY <1>1, ActionsUpToLoop
<1> DEFINE S == {m \in 0..n : WorkOK(L, after[m])}
<1>3. after[0] = [error |-> "none", changed |-> own] /\ ActionsTaken(db, x, foreign, own) = after[n]
      /\ \A m \in 1..n : after[m] = ActionsOf(db, x, foreign, L, after[m - 1], m)
  BY <1>2 DEF ActionsUpToRun, ActionsTaken
<1> HIDE DEF n
<1>4. 0 \in S
  <2>1. WorkOK(L, after[0])
    BY <1>3 DEF WorkOK, PlanErrors
  <2> QED
    BY <1>1, <2>1
<1> HIDE DEF L
<1>5. ASSUME NEW m \in 0..(n - 1), m \in S PROVE m + 1 \in S
  <2> DEFINE acc == after[m]
             p == m + 1
  <2>1. p \in 1..n /\ p \in 0..n /\ p - 1 = m /\ p \in Nat /\ p >= 1
    BY <1>1
  <2>2. after[p] = ActionsOf(db, x, foreign, L, acc, p)
    BY <1>3, <2>1
  <2>3. WorkOK(L, acc)
    BY <1>5
  <2> HIDE DEF acc, p
  <2>4. WorkOK(L, ActionsOf(db, x, foreign, L, acc, p))
    <3>1. CASE p > Len(acc.changed) \/ acc.error # "none" \/ acc.changed[p].old = NoRow
      BY <2>3, <3>1 DEF ActionsOf
    <3>2. CASE ~(p > Len(acc.changed) \/ acc.error # "none" \/ acc.changed[p].old = NoRow)
      <4>1. p \in DOMAIN acc.changed
        BY <2>1, <2>3, <3>2 DEF WorkOK, ItemsOK
      <4>2. ItemOK(L, p, acc.changed[p])
        BY <2>3, <4>1 DEF WorkOK, ItemsOK
      <4>3. WorkOK(L, ApplyKeys(db, x, foreign, L, acc.changed[p], acc))
        BY <1>1, <2>3, <4>2, ApplyKeysOK
      <4> QED
        BY <3>2, <4>3 DEF ActionsOf
    <3> QED
      BY <3>1, <3>2
  <2>5. p \in S
    BY <2>1, <2>2, <2>4
  <2> QED
    BY <2>5 DEF p
<1>6. n \in 0..n /\ 0..n \subseteq S
  <2>1. n \in 0..n
    BY <1>1
  <2> HIDE DEF S
  <2>2. 0..n \subseteq S
    BY <1>1, <1>4, <1>5, LoopInduction
  <2> QED
    BY <2>1, <2>2
<1>7. WorkOK(L, after[n])
  BY <1>6
<1> QED
  BY <1>3, <1>7 DEF L

\* A statement's own rows begin the worklist.
LEMMA OwnChangesOK ==
    ASSUME NEW db, NEW x, NEW p, PlanOK(db, x, p)
    PROVE  LET own == OwnChanges(db, x, p) IN Len(own) \in Nat /\ ItemsOK(Len(own), own)
<1> DEFINE c == p.changes
           OldAt(i) == IF c[i].held.read THEN c[i].held.row ELSE Lookup(db, x, c[i].table, c[i].key)
           Source(i) == {m[1] : m \in {n \in Range(p.moved) : n[2] = i}}
           deletes == {m[1] : m \in Range(p.moved)}
           OldOf(i) == IF Source(i) = {} THEN OldAt(i) ELSE OldAt(CHOOSE j \in Source(i) : TRUE)
           joined == [i \in DOMAIN c |->
                [table |-> c[i].table, new |-> c[i].next, gone |-> i \in deletes, old |-> OldOf(i)]]
           I == {i \in DOMAIN c : i \notin deletes}
           own == OwnChanges(db, x, p)
<1>1. own = Picked(joined, I)
  BY DEF OwnChanges
<1>2. c \in Seq(Changes(db, x)) /\ DOMAIN c = 1..Len(c) /\ Len(c) \in Nat
  BY DEF PlanOK
<1> DEFINE L == Len(c)
<1> HIDE DEF OldOf, deletes
<1>3. DOMAIN joined = 1..L /\ I \in SUBSET (1..L)
  BY <1>2
<1>4. ASSUME NEW i \in 1..L, NEW j \in Nat, NEW n \in Nat, j <= n PROVE ItemOK(n, j, joined[i])
  <2>1. c[i] \in Changes(db, x)
    BY <1>2
  <2>2. PICK t \in Tables : c[i] \in TableChanges(db, x, t)
    BY <2>1 DEF Changes
  <2>3. c[i].table = t /\ c[i].next \in Under(t, c[i].key)
    BY <2>2, TableChangeSays DEF ChangeSays
  <2>4. joined[i] = [table |-> c[i].table, new |-> c[i].next, gone |-> i \in deletes, old |-> OldOf(i)]
    BY <1>2
  <2>5. c[i].next \in StoredRows(t) \cup {NoRow}
    BY <2>3 DEF Under
  <2> HIDE DEF joined
  <2> QED
    BY <1>4, <2>3, <2>4, <2>5 DEF ItemOK
<1> HIDE DEF joined, I
<1>5. L \in Nat
  BY <1>2
<1> HIDE DEF L, own
<1>6. Cardinality(I) \in Nat /\ DOMAIN own = 1..Cardinality(I)
      /\ \A m \in 1..Cardinality(I) : Ascending(I)[m] \in I /\ own[m] = joined[Ascending(I)[m]]
  BY <1>1, <1>3, <1>5, PickedIs
<1> DEFINE n == Cardinality(I)
<1>7. own = [m \in 1..n |-> own[m]]
  <2>1. own = [m \in 1..n |-> joined[Ascending(I)[m]]]
    BY <1>1 DEF Picked
  <2> QED
    BY <2>1
<1> HIDE DEF n
<1>8. own \in Seq(Range(own)) /\ Len(own) = n
  BY <1>6, <1>7, HoldsItsRange DEF n
<1>9. n \in Nat /\ \A m \in 1..n : ItemOK(n, m, own[m])
  <2>1. n \in Nat /\ DOMAIN own = 1..n /\ \A m \in 1..n : Ascending(I)[m] \in 1..L /\ own[m] = joined[Ascending(I)[m]]
    BY <1>3, <1>6 DEF n
  <2>2. \A m \in 1..n : m \in Nat /\ m <= n
    BY <2>1
  <2> QED
    BY <1>4, <2>1, <2>2
<1>10. DOMAIN own = 1..n
  BY <1>6 DEF n
<1>11. n \in 0..n
  BY <1>9
<1> QED
  BY <1>8, <1>9, <1>10, <1>11 DEF ItemsOK, own

\* The changes of the actions are joined to the statement's own.
LEMMA WithActionsOK ==
    ASSUME NEW db, NEW x, NEW p, PlanOK(db, x, p), NEW own \in Nat, NEW changed, ItemsOK(own, changed),
           NEW added, added = SubSeq(changed, own + 1, Len(changed))
    PROVE  PlanOK(db, x, WithActions(p, added))
<1> DEFINE n == Len(added)
           more == [i \in DOMAIN added |-> ActionChange(added[i])]
           tables == TablesAfter(p.tables, added)
<1>1. changed \in Seq(Range(changed)) /\ DOMAIN changed = 1..Len(changed) /\ Len(changed) \in Nat
  BY DEF ItemsOK
<1>2. added \in Seq(Range(changed)) /\ n \in Nat /\ DOMAIN added = 1..n
      /\ \A i \in 1..n : own + i \in DOMAIN changed /\ own + i > own /\ added[i] = changed[own + i]
  <2> DEFINE L == Len(changed)
             R == Range(changed)
  <2>1. L \in Nat /\ changed \in Seq(R) /\ DOMAIN changed = 1..L /\ own <= L
    BY <1>1 DEF ItemsOK
  <2> HIDE DEF R
  <2>2. ASSUME NEW a \in Nat, NEW b \in Nat, 1 <= a, a <= b + 1, b <= L
        PROVE  /\ SubSeq(changed, a, b) \in Seq(R) /\ Len(SubSeq(changed, a, b)) = b - a + 1
               /\ \A i \in 1..(b - a + 1) : SubSeq(changed, a, b)[i] = changed[a + i - 1]
    BY <2>1, <2>2
  <2>2a. own + 1 \in Nat /\ 1 <= own + 1 /\ own + 1 <= L + 1 /\ L <= L
    BY <2>1
  <2>2b. /\ added \in Seq(R) /\ n = L - (own + 1) + 1
         /\ \A i \in 1..(L - (own + 1) + 1) : added[i] = changed[(own + 1) + i - 1]
    <3> HIDE DEF L
    <3> QED
      BY <2>1, <2>2, <2>2a
  <2>2c. L - (own + 1) + 1 = L - own
    BY <2>1
  <2>3. n = L - own /\ added \in Seq(R) /\ DOMAIN added = 1..n
    <3>1. \A q \in Seq(R) : DOMAIN q = 1..Len(q)
      OBVIOUS
    <3>2. DOMAIN added = 1..n
      BY <2>2b, <3>1
    <3>3. n = L - own
      <4> HIDE DEF n, L
      <4> QED
        BY <2>2b, <2>2c
    <3> QED
      BY <2>2b, <3>2, <3>3
  <2>3a. \A i \in 1..(L - own) : added[i] = changed[own + i]
    <3>1. \A i \in 1..(L - own) : (own + 1) + i - 1 = own + i
      OBVIOUS
    <3> QED
      BY <2>2b, <2>2c, <3>1
  <2> HIDE DEF L, n
  <2>4. L - own \in Nat /\ \A i \in 1..(L - own) : own + i \in 1..L /\ own + i > own
    BY <2>1
  <2> QED
    BY <2>1, <2>3, <2>3a, <2>4 DEF R
<1> HIDE DEF n
<1>3. ASSUME NEW i \in 1..n
      PROVE  /\ added[i].table \in Tables
             /\ ActionChange(added[i]) \in TableChanges(db, x, added[i].table)
             /\ ActionChange(added[i]).table = added[i].table
  <2> DEFINE d == added[i]
             r == IF d.new = NoRow THEN d.old ELSE d.new
  <2>1. ItemOK(own, own + i, d) /\ own + i > own
    BY <1>2 DEF ItemsOK
  <2> HIDE DEF d
  <2>2. d.table \in Tables /\ r \in StoredRows(d.table) /\ d.new \in {r, NoRow}
    BY <2>1 DEF ItemOK
  <2>3. ActionChange(d) = Change(d.table, KeyOf(d.table, r), d.new, Unread)
    BY DEF ActionChange
  <2> HIDE DEF r
  <2>4. KeyOf(d.table, r) \in Keys(d.table) /\ d.new \in Under(d.table, KeyOf(d.table, r))
    BY <2>2, StoredRowHasKey DEF Under
  <2>5. ActionChange(d) \in TableChanges(db, x, d.table)
    BY <2>3, <2>4, ChangeIs
  <2>6. ActionChange(d).table = d.table
    BY <2>3 DEF Change
  <2> QED
    BY <2>2, <2>5, <2>6 DEF d
<1>4. more \in [1..n -> Changes(db, x)]
  <2>1. \A i \in 1..n : ActionChange(added[i]) \in Changes(db, x)
    BY <1>3 DEF Changes
  <2> QED
    BY <1>2, <2>1
<1>5. \A i \in 1..n : more[i].table = added[i].table
  BY <1>2, <1>3
<1>6. Lists(p.tables, {added[i].table : i \in 1..n}, tables)
  <2>1. p.tables \in Seq(Tables) /\ n \in Nat /\ Len(added) = n
    BY <1>2 DEF PlanOK, n
  <2> QED
    BY <1>3, <2>1, TablesAfterIs
<1> DEFINE w == WithActions(p, added)
<1>7. w.error = p.error /\ w.changes = p.changes \o more /\ w.tables = tables /\ w.moved = p.moved
      /\ w = [error |-> w.error, changes |-> w.changes, moved |-> w.moved, tables |-> w.tables]
  <2> HIDE DEF more, tables
  <2>1. w = [p EXCEPT !.changes = p.changes \o more, !.tables = tables]
    BY DEF WithActions, more, tables
  <2>2. p = [error |-> p.error, changes |-> p.changes, moved |-> p.moved, tables |-> p.tables]
    BY DEF PlanOK
  <2> HIDE DEF w
  <2> QED
    BY <2>1, <2>2
<1> HIDE DEF more, tables, w
<1>8. more \in Seq(Changes(db, x)) /\ Len(more) = n
  BY <1>2, <1>4, FunctionIsSeq
<1>9. p.changes \in Seq(Changes(db, x)) /\ p.error \in PlanErrors
      /\ \A c \in Range(p.changes) : c.table \in Range(p.tables)
  BY DEF PlanOK
<1>10. Range(p.changes \o more) = Range(p.changes) \cup Range(more) /\ p.changes \o more \in Seq(Changes(db, x))
  BY <1>8, <1>9, JoinRange
<1>11. \A c \in Range(p.changes \o more) : c.table \in Range(tables)
  <2>1. \A c \in Range(more) : \E i \in 1..n : c = more[i]
    BY <1>2, <1>4 DEF Range
  <2>2. \A c \in Range(more) : c.table \in {added[i].table : i \in 1..n}
    BY <1>5, <2>1
  <2>3. Range(tables) = Range(p.tables) \cup {added[i].table : i \in 1..n}
    BY <1>6 DEF Lists
  <2> QED
    BY <1>9, <1>10, <2>2, <2>3
<1>12. tables \in Seq(Tables)
  BY <1>6 DEF Lists
<1>13. PlanOK(db, x, w)
  BY <1>7, <1>9, <1>10, <1>11, <1>12 DEF PlanOK
<1> QED
  BY <1>13 DEF w

\* Foreign keys are enforced on a plan by refusing it or by adding to it.
LEMMA EnforceOK ==
    ASSUME NEW db, StorageOK(db), NEW x, TxnOK(db, x), NEW foreign, ForeignOK(foreign),
           NEW p, PlanOK(db, x, p)
    PROVE  PlanOK(db, x, Enforce(db, x, foreign, p))
<1> DEFINE own == OwnChanges(db, x, p)
           done == ActionsTaken(db, x, foreign, own)
           added == SubSeq(done.changed, Len(own) + 1, Len(done.changed))
<1>1. Len(own) \in Nat /\ ItemsOK(Len(own), own)
  BY OwnChangesOK
<1> HIDE DEF own
<1>2. WorkOK(Len(own), done)
  BY <1>1, ActionsTakenOK
<1> HIDE DEF done
<1>3. done.error \in PlanErrors /\ ItemsOK(Len(own), done.changed)
  BY <1>2 DEF WorkOK
<1>4. PlanOK(db, x, WithActions(p, added))
  BY <1>1, <1>3, WithActionsOK
<1>5. Enforced(db, x, foreign, p, Len(own), done)
        \in {Refusal(done.error), Refusal("constraint"), WithActions(p, added)}
  BY DEF Enforced
<1>6. Enforce(db, x, foreign, p) \in {p, Enforced(db, x, foreign, p, Len(own), done)}
  BY DEF Enforce, EnforceOwn, own, done
<1>7. "constraint" \in PlanErrors
  BY DEF PlanErrors
<1> HIDE DEF added
<1>8. PlanOK(db, x, Refusal(done.error)) /\ PlanOK(db, x, Refusal("constraint"))
  BY <1>3, <1>7, RefusalOK
<1>9. PlanOK(db, x, Enforced(db, x, foreign, p, Len(own), done))
  BY <1>4, <1>5, <1>8
<1> QED
  BY <1>6, <1>9

\* Whatever is planned, in a transaction or for a script, says truly what was read.
LEMMA PlanDmlOK ==
    ASSUME NEW db, StorageOK(db), NEW x, TxnOK(db, x), NEW foreign, ForeignOK(foreign),
           NEW s, IsStatement(s), NEW kept
    PROVE  PlanOK(db, x, PlanDml(db, x, foreign, s, kept))
<1>1. PlanDml(db, x, foreign, s, kept) = Enforce(db, x, foreign, Planned(db, x, s, kept))
  BY DEF PlanDml, Planned
<1>2. PlanOK(db, x, Planned(db, x, s, kept))
  BY PlannedOK
<1> QED
  BY <1>1, <1>2, EnforceOK

-----------------------------------------------------------------------------
(* Staging. *)

(***************************************************************************)
(* A change to one key as a patch holds it: it starts from the committed   *)
(* row, and says truly whether it replaces an entry and a staged delete.   *)
(***************************************************************************)
IsPatchChange(db, x, f) ==
    /\ f = [table |-> f.table, key |-> f.key, next |-> f.next, upserted |-> f.upserted,
            found |-> f.found, replacedDelete |-> f.replacedDelete, base |-> f.base]
    /\ f.table \in Tables
    /\ f.key \in Keys(f.table)
    /\ f.next \in Under(f.table, f.key)
    /\ f.base = CommittedRow(db, f.table, f.key)
    /\ f.found <=> f.key \in KeysIn(x.tables[f.table])
    /\ f.replacedDelete <=> f.key \in DeletedKeys(x.tables[f.table])

\* A key planning read no row for is staged only by a delete, so the search may be skipped.
LEMMA FirstChangeIs ==
    ASSUME NEW db, StorageOK(db), NEW x, TxnOK(db, x), NEW t \in Tables,
           NEW c \in TableChanges(db, x, t)
    PROVE  IsPatchChange(db, x, FirstChange(db, x, c))
<1> DEFINE o == x.tables[t]
           unstaged == c.next # NoRow /\ o.deletes = 0 /\ c.held = Read(NoRow)
           found == ~unstaged /\ c.key \in KeysIn(o)
           replaced == found /\ EntryAt(o, c.key).next = NoRow
           base == IF found THEN EntryAt(o, c.key).old
                   ELSE IF c.held.read THEN c.held.row ELSE CommittedRow(db, t, c.key)
           f == FirstChange(db, x, c)
<1>1. c.table = t /\ c.key \in Keys(t) /\ c.next \in Under(t, c.key)
      /\ (c.held = Unread \/ c.held = Read(Lookup(db, x, t, c.key)))
  BY TableChangeSays DEF ChangeSays
<1>2. f = [table |-> t, key |-> c.key, next |-> c.next, upserted |-> c.next # NoRow,
           found |-> found, replacedDelete |-> replaced, base |-> base]
  BY <1>1 DEF FirstChange
<1>3. OverlayOK(db, t, o)
  BY DEF TxnOK
<1> HIDE DEF f, o
<1>4. EntriesOK(db, t, o) /\ o.deletes = Cardinality(DeletedKeys(o))
  BY <1>3 DEF OverlayOK
<1>5. ASSUME unstaged PROVE c.key \notin KeysIn(o)
  <2>1. DeletedKeys(o) = {}
    BY <1>4, <1>5, KeysInFinite, FS_EmptySet
  <2>2. Lookup(db, x, t, c.key) = NoRow
    <3>1. Read(NoRow) # Unread /\ \A r : Read(NoRow) = Read(r) => r = NoRow
      BY DEF Read, Unread
    <3> QED
      BY <1>1, <1>5, <3>1
  <2>3. c.key \in KeysIn(o) => EntryAt(o, c.key).next = NoRow
    BY <2>2 DEF Lookup, o
  <2> QED
    BY <2>1, <2>3 DEF DeletedKeys
<1>6. found <=> c.key \in KeysIn(o)
  BY <1>5
<1>7. c.key \in KeysIn(o) => EntryAt(o, c.key).old = CommittedRow(db, t, c.key)
  BY <1>4, EntryIs DEF IsEntry
<1>8. c.key \notin KeysIn(o) /\ c.held.read => c.held.row = CommittedRow(db, t, c.key)
  <2>1. c.held.read => c.held.row = Lookup(db, x, t, c.key)
    BY <1>1 DEF Read, Unread
  <2>2. c.key \notin KeysIn(o) => Lookup(db, x, t, c.key) = CommittedRow(db, t, c.key)
    BY DEF Lookup, o
  <2> QED
    BY <2>1, <2>2
<1> HIDE DEF found
<1>9. base = CommittedRow(db, t, c.key)
  BY <1>6, <1>7, <1>8
<1>10. replaced <=> c.key \in DeletedKeys(o)
  BY <1>6 DEF DeletedKeys
<1> HIDE DEF base, replaced
<1>11. f.table = t /\ f.key = c.key /\ f.next = c.next /\ f.base = base
       /\ f.found = found /\ f.replacedDelete = replaced
       /\ f = [table |-> f.table, key |-> f.key, next |-> f.next, upserted |-> f.upserted,
               found |-> f.found, replacedDelete |-> f.replacedDelete, base |-> f.base]
  BY <1>2
<1>12. IsPatchChange(db, x, f)
  BY <1>1, <1>6, <1>9, <1>10, <1>11 DEF IsPatchChange, o
<1> QED
  BY <1>12 DEF f

\* A statement's changes are joined into a patch in turn.
AddChangesRun(db, x, changes, after) ==
    /\ AddChanges(db, x, changes) = after[Len(changes)]
    /\ after[0] = [ok |-> TRUE, changes |-> <<>>]
    /\ \A n \in 1..Len(changes) : after[n] = AddChange(db, x, after[n - 1], changes[n])

\* The loop has such a run.
LEMMA AddChangesLoop ==
    ASSUME NEW db, NEW x, NEW changes, Len(changes) \in Nat
    PROVE  \E after : AddChangesRun(db, x, changes, after)
<1> DEFINE start == [ok |-> TRUE, changes |-> <<>>]
           Step(f, n) == AddChange(db, x, f[n - 1], changes[n])
           E(m, f) == f = [n \in 0..m |-> IF n = 0 THEN start ELSE Step(f, n)]
           I == {m \in 0..Len(changes) : \E f : E(m, f)}
<1>1. AddChanges(db, x, changes) = (CHOOSE f : E(Len(changes), f))[Len(changes)]
  BY DEF AddChanges
<1>2. E(0, [n \in 0..0 |-> start])
  <2> HIDE DEF Step, start
  <2> QED
    OBVIOUS
<1>3. ASSUME NEW m \in 0..(Len(changes) - 1), NEW f, E(m, f)
      PROVE  \E g : E(m + 1, g)
  <2> DEFINE g == [n \in 0..(m + 1) |-> IF n = m + 1 THEN Step(f, n) ELSE f[n]]
  <2>1. ASSUME NEW n \in 0..(m + 1), n # 0 PROVE Step(g, n) = Step(f, n)
    <3>1. g[n - 1] = f[n - 1]
      BY <2>1
    <3> QED
      BY <3>1
  <2> HIDE DEF Step, start
  <2>2. ASSUME NEW n \in 0..(m + 1), n # m + 1
        PROVE  f[n] = IF n = 0 THEN start ELSE Step(f, n)
    BY <1>3, <2>2
  <2>3. E(m + 1, g)
    BY <2>1, <2>2
  <2> QED
    BY <2>3
<1>4. \A f : E(Len(changes), f) => /\ f[0] = start
                      /\ \A n \in 1..Len(changes) : f[n] = Step(f, n)
  <2> HIDE DEF Step, start
  <2> QED
    OBVIOUS
<1> HIDE DEF E
<1>5. 0 \in I
  BY <1>2
<1>6. ASSUME NEW m \in 0..(Len(changes) - 1), m \in I PROVE m + 1 \in I
  <2>1. PICK f : E(m, f)
    BY <1>6
  <2>2. m + 1 \in 0..Len(changes) /\ \E g : E(m + 1, g)
    BY <2>1, <1>3
  <2> QED
    BY <2>2
<1>7. 0..Len(changes) \subseteq I
  <2> HIDE DEF I
  <2> QED
    BY <1>5, <1>6, LoopInduction
<1>8. E(Len(changes), CHOOSE f : E(Len(changes), f))
  <2>1. Len(changes) \in I
    BY <1>7
  <2> QED
    BY <2>1
<1> QED
  BY <1>1, <1>4, <1>8 DEF AddChangesRun

\* A patch names each key of each table once.
ChangesOK(db, x, changes) ==
    /\ changes \in Seq(Range(changes))
    /\ \A i \in DOMAIN changes : IsPatchChange(db, x, changes[i])
    /\ \A i, j \in DOMAIN changes :
        changes[i].table = changes[j].table /\ changes[i].key = changes[j].key => i = j
MergedOK(db, x, patch) ==
    /\ patch = [ok |-> patch.ok, changes |-> patch.changes]
    /\ ChangesOK(db, x, patch.changes)

\* One more change joined into a patch leaves one change for each key.
LEMMA AddChangeOK ==
    ASSUME NEW db, StorageOK(db), NEW x, TxnOK(db, x), NEW patch, MergedOK(db, x, patch),
           NEW c \in Changes(db, x)
    PROVE  MergedOK(db, x, AddChange(db, x, patch, c))
<1> DEFINE cs == patch.changes
           n == Len(cs)
           same == {i \in DOMAIN cs : cs[i].table = c.table /\ cs[i].key = c.key}
<1>1. PICK t \in Tables : c \in TableChanges(db, x, t)
  BY DEF Changes
<1>2. c.table = t /\ c.next \in Under(t, c.key)
  BY <1>1, TableChangeSays DEF ChangeSays
<1>3. ChangesOK(db, x, cs)
  BY DEF MergedOK
<1> HIDE DEF cs
<1>4. cs \in Seq(Range(cs)) /\ n \in Nat /\ DOMAIN cs = 1..n
  BY <1>3 DEF ChangesOK
<1> HIDE DEF n
<1>5. CASE same = {}
  <2> DEFINE f == FirstChange(db, x, c)
             b == Append(cs, f)
  <2>1. IsPatchChange(db, x, f)
    BY <1>1, FirstChangeIs
  <2>2. f.table = c.table /\ f.key = c.key
    BY DEF FirstChange
  <2> HIDE DEF f
  <2>3. b = [i \in 1..(n + 1) |-> b[i]] /\ DOMAIN b = 1..(n + 1) /\ b[n + 1] = f
        /\ \A i \in 1..n : b[i] = cs[i]
    <3>1. PICK S : f \in S /\ Range(cs) \subseteq S
      <4>1. f \in Range(cs) \cup {f} /\ Range(cs) \subseteq Range(cs) \cup {f}
        OBVIOUS
      <4> QED
        BY <4>1
    <3>2. cs \in Seq(S) /\ n = Len(cs)
      BY <1>4, <3>1 DEF n
    <3>3. b \in Seq(S) /\ DOMAIN b = 1..(n + 1) /\ b[n + 1] = f /\ \A i \in 1..n : b[i] = cs[i]
      BY <3>1, <3>2
    <3> HIDE DEF b
    <3>4. b = [i \in DOMAIN b |-> b[i]]
      BY <3>3
    <3> QED
      BY <3>3, <3>4
  <2>4. n + 1 \in Nat /\ \A i \in 1..(n + 1) : i \in 1..n \/ i = n + 1
    BY <1>4
  <2>5. AddChange(db, x, patch, c) = [patch EXCEPT !.changes = b]
    BY <1>5 DEF AddChange, cs, f
  <2> HIDE DEF b
  <2>6. b \in Seq(Range(b))
    BY <2>3, <2>4, HoldsItsRange
  <2>7. \A i \in 1..n : ~(b[i].table = f.table /\ b[i].key = f.key)
    BY <1>4, <1>5, <2>2, <2>3
  <2>8. \A i, j \in 1..n : b[i].table = b[j].table /\ b[i].key = b[j].key => i = j
    BY <1>3, <1>4, <2>3 DEF ChangesOK
  <2>9. \A i \in 1..n : IsPatchChange(db, x, b[i])
    BY <1>3, <1>4, <2>3 DEF ChangesOK
  <2>10. \A i, j \in 1..(n + 1) : b[i].table = b[j].table /\ b[i].key = b[j].key => i = j
    <3> TAKE i, j \in 1..(n + 1)
    <3>1. CASE i \in 1..n /\ j \in 1..n
      BY <2>8, <3>1
    <3>2. CASE i = n + 1 /\ j = n + 1
      BY <3>2
    <3>3. CASE i \in 1..n /\ j = n + 1
      BY <2>3, <2>7, <3>3
    <3>4. CASE i = n + 1 /\ j \in 1..n
      BY <2>3, <2>7, <3>4
    <3> QED
      BY <2>4, <3>1, <3>2, <3>3, <3>4
  <2>11. ChangesOK(db, x, b)
    <3>1. \A i \in 1..(n + 1) : IsPatchChange(db, x, b[i])
      BY <2>1, <2>3, <2>4, <2>9
    <3> QED
      BY <2>3, <2>6, <2>10, <3>1 DEF ChangesOK
  <2> QED
    BY <2>5, <2>11 DEF MergedOK
<1>6. CASE same # {}
  <2> DEFINE i == CHOOSE j \in same : TRUE
             e == cs[i]
             f == [e EXCEPT !.next = c.next, !.upserted = @ \/ c.next # NoRow]
             b == [cs EXCEPT ![i] = f]
             twice == c.next # NoRow /\ e.upserted
  <2>1. i \in same
    BY <1>6
  <2>2. i \in 1..n /\ e.table = t /\ e.key = c.key
    BY <1>2, <1>4, <2>1
  <2> HIDE DEF i
  <2>3. AddChange(db, x, patch, c)
          = IF twice THEN [patch EXCEPT !.ok = FALSE]
            ELSE [patch EXCEPT !.changes[i].next = c.next, !.changes[i].upserted = @ \/ c.next # NoRow]
    BY <1>6 DEF AddChange, cs, i
  <2>4. [patch EXCEPT !.changes[i].next = c.next, !.changes[i].upserted = @ \/ c.next # NoRow]
          = [patch EXCEPT !.changes = b]
    BY <1>4, <2>2 DEF MergedOK, cs
  <2>5. IsPatchChange(db, x, e)
    BY <1>3, <1>4, <2>2 DEF ChangesOK
  <2> HIDE DEF e
  <2>6. IsPatchChange(db, x, f) /\ f.table = e.table /\ f.key = e.key
    <3> DEFINE up == e.upserted \/ c.next # NoRow
    <3>1. f = [e EXCEPT !.next = c.next, !.upserted = up]
      BY <2>5 DEF IsPatchChange
    <3> HIDE DEF f, up
    <3>2. e = [table |-> e.table, key |-> e.key, next |-> e.next, upserted |-> e.upserted,
               found |-> e.found, replacedDelete |-> e.replacedDelete, base |-> e.base]
      BY <2>5 DEF IsPatchChange
    <3>3. f = [table |-> e.table, key |-> e.key, next |-> c.next, upserted |-> up,
               found |-> e.found, replacedDelete |-> e.replacedDelete, base |-> e.base]
      BY <3>1, <3>2
    <3>4. f.table = e.table /\ f.key = e.key /\ f.next = c.next /\ f.upserted = up
          /\ f.found = e.found /\ f.replacedDelete = e.replacedDelete /\ f.base = e.base
      BY <3>3
    <3> QED
      BY <1>2, <2>2, <2>5, <3>3, <3>4 DEF IsPatchChange
  <2> HIDE DEF f
  <2>7. b = [j \in 1..n |-> b[j]] /\ DOMAIN b = 1..n /\ b[i] = f /\ \A j \in 1..n : j # i => b[j] = cs[j]
    BY <1>4, <2>2
  <2> HIDE DEF b, twice
  <2>8. b \in Seq(Range(b))
    BY <1>4, <2>7, HoldsItsRange
  <2>9. \A j \in 1..n : IsPatchChange(db, x, b[j]) /\ b[j].table = cs[j].table /\ b[j].key = cs[j].key
    BY <1>3, <1>4, <2>6, <2>7 DEF ChangesOK, e
  <2>10. ChangesOK(db, x, b)
    BY <1>3, <1>4, <2>7, <2>8, <2>9 DEF ChangesOK
  <2>11. MergedOK(db, x, [patch EXCEPT !.changes = b])
    BY <2>10 DEF MergedOK
  <2>12. MergedOK(db, x, [patch EXCEPT !.ok = FALSE])
    <3>1. ASSUME NEW v PROVE MergedOK(db, x, [patch EXCEPT !.ok = v])
      <4>1. patch = [ok |-> patch.ok, changes |-> patch.changes]
        BY DEF MergedOK
      <4>2. [patch EXCEPT !.ok = v] = [ok |-> v, changes |-> patch.changes]
        BY <4>1
      <4>3. ChangesOK(db, x, patch.changes)
        BY DEF MergedOK
      <4> QED
        BY <4>2, <4>3 DEF MergedOK
    <3> QED
      BY <3>1
  <2> QED
    BY <2>3, <2>4, <2>11, <2>12
<1> QED
  BY <1>5, <1>6

\* A statement's changes joined into a patch are one change for each key.
LEMMA AddChangesOK ==
    ASSUME NEW db, StorageOK(db), NEW x, TxnOK(db, x), NEW changes \in Seq(Changes(db, x))
    PROVE  MergedOK(db, x, AddChanges(db, x, changes))
<1> DEFINE n == Len(changes)
<1>1. n \in Nat /\ \A i \in 1..n : changes[i] \in Changes(db, x)
  OBVIOUS
<1>2. PICK after : AddChangesRun(db, x, changes, after)
  BY <1>1, AddChangesLoop
<1> DEFINE S == {m \in 0..n : MergedOK(db, x, after[m])}
<1>3. after[0] = [ok |-> TRUE, changes |-> <<>>] /\ AddChanges(db, x, changes) = after[n]
      /\ \A m \in 1..n : after[m] = AddChange(db, x, after[m - 1], changes[m])
  BY <1>2 DEF AddChangesRun
<1> HIDE DEF n
<1>4. 0 \in S
  <2>1. ChangesOK(db, x, <<>>)
    BY DEF ChangesOK
  <2>2. MergedOK(db, x, after[0])
    BY <1>3, <2>1 DEF MergedOK
  <2> QED
    BY <1>1, <2>2
<1>5. ASSUME NEW m \in 0..(n - 1), m \in S PROVE m + 1 \in S
  <2>1. m + 1 \in 1..n /\ m + 1 \in 0..n /\ (m + 1) - 1 = m
    BY <1>1
  <2>2. after[m + 1] = AddChange(db, x, after[m], changes[m + 1])
    BY <1>3, <2>1
  <2>3. MergedOK(db, x, after[m]) /\ changes[m + 1] \in Changes(db, x)
    BY <1>1, <1>5, <2>1
  <2>4. MergedOK(db, x, after[m + 1])
    BY <2>2, <2>3, AddChangeOK
  <2> QED
    BY <2>1, <2>4
<1>6. n \in 0..n /\ 0..n \subseteq S
  <2>1. n \in 0..n
    BY <1>1
  <2> HIDE DEF S
  <2>2. 0..n \subseteq S
    BY <1>1, <1>4, <1>5, LoopInduction
  <2> QED
    BY <2>1, <2>2
<1>7. MergedOK(db, x, after[n])
  BY <1>6
<1> QED
  BY <1>3, <1>7

\* One table's changes, each key once.
ListsTable(db, x, t, changes, cs) ==
    /\ cs \in Seq(Range(changes))
    /\ \A m \in DOMAIN cs : IsPatchChange(db, x, cs[m]) /\ cs[m].table = t
    /\ \A l, m \in DOMAIN cs : cs[l].key = cs[m].key => l = m

\* The changes of one table are so listed.
LEMMA ChangesToIs ==
    ASSUME NEW db, NEW x, NEW changes, ChangesOK(db, x, changes), NEW t \in Tables
    PROVE  ListsTable(db, x, t, changes, ChangesTo(t, changes))
<1> DEFINE at == {i \in DOMAIN changes : changes[i].table = t}
           before == [i \in at |-> {j \in at : KeyLess(changes[j].key, changes[i].key)}]
           order == Ranked(before)
           key == [i \in at |-> changes[i].key]
           w == Len(PrimaryKey[t])
           n == Cardinality(at)
           cs == ChangesTo(t, changes)
<1>1. cs = [m \in 1..n |-> changes[order[m]]]
  BY DEF ChangesTo
<1>2. changes \in Seq(Range(changes)) /\ DOMAIN changes = 1..Len(changes) /\ Len(changes) \in Nat
  BY DEF ChangesOK
<1>3. IsFiniteSet(at)
  <2>1. at \in SUBSET (1..Len(changes))
    BY <1>2
  <2> HIDE DEF at
  <2> QED
    BY <1>2, <2>1, PositionsFinite
<1>4. w \in Nat
  BY CatalogAssumption
<1>5. \A i \in at : /\ i \in DOMAIN changes /\ changes[i].table = t /\ IsPatchChange(db, x, changes[i])
                    /\ changes[i].key \in Keys(t)
  BY DEF ChangesOK, IsPatchChange
<1>6. \A i, j \in at : changes[i].key = changes[j].key => i = j
  BY DEF ChangesOK
<1> HIDE DEF at, w
<1>7. key \in [at -> [1..w -> Int]] /\ (\A i, j \in at : key[i] = key[j] => i = j)
  BY <1>5, <1>6 DEF Keys, w
<1>8. before = [p \in at |-> {q \in at : KeyLess(key[q], key[p])}]
  <2>1. \A p \in at : {q \in at : KeyLess(key[q], key[p])} = {q \in at : KeyLess(changes[q].key, changes[p].key)}
    OBVIOUS
  <2> QED
    BY <2>1
<1> HIDE DEF key, before
<1>9. IsOrder(at, before)
  BY <1>4, <1>7, <1>8, ByKeyOrder
<1>10. n \in Nat /\ order \in [1..n -> at] /\ \A l, m \in 1..n : order[l] = order[m] => l = m
  BY <1>3, <1>9, RankedOrder
<1> HIDE DEF n, order, cs
<1>11. DOMAIN cs = 1..n /\ \A m \in 1..n : order[m] \in at /\ cs[m] = changes[order[m]]
  BY <1>1, <1>10
<1>12. cs \in [1..n -> Range(changes)]
  BY <1>1, <1>5, <1>10 DEF Range
<1>13. cs \in Seq(Range(changes))
  BY <1>10, <1>12, FunctionIsSeq
<1>14. \A m \in 1..n : IsPatchChange(db, x, cs[m]) /\ cs[m].table = t
  BY <1>5, <1>11
<1>15. \A l, m \in 1..n : cs[l].key = cs[m].key => l = m
  BY <1>6, <1>10, <1>11
<1>16. ListsTable(db, x, t, changes, cs)
  BY <1>11, <1>13, <1>14, <1>15 DEF ListsTable
<1> QED
  BY <1>16 DEF cs

\* One table's part of a patch.
TablePatchOK(db, x, t, p) ==
    /\ p.entries \in Seq(StagedEntries(db, t))
    /\ \A i, j \in DOMAIN p.entries : p.entries[i].key = p.entries[j].key => i = j
    /\ p.deletes = Cardinality({i \in DOMAIN p.entries : p.entries[i].entry.next = NoRow})
                    - Cardinality({i \in DOMAIN p.entries :
                                    p.entries[i].key \in DeletedKeys(x.tables[t])})

\* A table's part of a patch starts each entry from the committed row and counts its deletes.
LEMMA TablePatchIs ==
    ASSUME NEW db, NEW x, NEW t \in Tables, NEW changes, NEW cs, ListsTable(db, x, t, changes, cs)
    PROVE  /\ TablePatchOK(db, x, t, TablePatch(db, cs))
           /\ DOMAIN TablePatch(db, cs).entries = DOMAIN cs
           /\ \A i \in DOMAIN cs : TablePatch(db, cs).entries[i].key = cs[i].key
<1> DEFINE n == Len(cs)
           p == TablePatch(db, cs)
           e == p.entries
<1>1. cs \in Seq(Range(changes)) /\ n \in Nat /\ DOMAIN cs = 1..n
  BY DEF ListsTable
<1>2. p.entries = [i \in DOMAIN cs |-> [key |-> cs[i].key, entry |-> OverlayEntry(db, cs[i])]]
      /\ p.deletes = Cardinality({i \in DOMAIN cs : cs[i].next = NoRow})
                        - Cardinality({i \in DOMAIN cs : cs[i].replacedDelete})
  BY DEF TablePatch
<1> HIDE DEF p, n
<1>3. ASSUME NEW i \in 1..n
      PROVE  /\ e[i].key = cs[i].key
             /\ e[i].entry.next = cs[i].next
             /\ e[i] \in StagedEntries(db, t)
             /\ cs[i].replacedDelete <=> cs[i].key \in DeletedKeys(x.tables[t])
  <2> DEFINE c == cs[i]
  <2>1. IsPatchChange(db, x, c) /\ c.table = t
    BY <1>1 DEF ListsTable
  <2>2. e[i] = [key |-> c.key, entry |-> OverlayEntry(db, c)]
    BY <1>1, <1>2
  <2> HIDE DEF c
  <2>3. c.key \in Keys(t) /\ c.next \in Under(t, c.key) /\ c.base = CommittedRow(db, t, c.key)
        /\ (c.replacedDelete <=> c.key \in DeletedKeys(x.tables[t]))
    BY <2>1 DEF IsPatchChange
  <2>4. OverlayEntry(db, c) = EntryFor(db, t, c.key, c.next)
    BY <2>1, <2>3 DEF EntryFor, OverlayEntry
  <2>5. OverlayEntry(db, c).next = c.next
    BY DEF OverlayEntry
  <2>6. e[i] \in StagedEntries(db, t)
    BY <2>2, <2>3, <2>4 DEF StagedEntries
  <2>7. e[i].key = c.key /\ e[i].entry.next = c.next
    BY <2>2, <2>5
  <2> QED
    BY <2>3, <2>6, <2>7 DEF c
<1>4. DOMAIN e = 1..n
  BY <1>1, <1>2
<1>5. e \in Seq(StagedEntries(db, t))
  <2>1. e = [i \in 1..n |-> e[i]]
    BY <1>1, <1>2
  <2> HIDE DEF e
  <2>2. e \in [1..n -> StagedEntries(db, t)]
    BY <1>3, <2>1
  <2> QED
    BY <1>1, <2>2, FunctionIsSeq
<1>6. \A i, j \in 1..n : e[i].key = e[j].key => i = j
  BY <1>1, <1>3 DEF ListsTable
<1>7. {i \in DOMAIN cs : cs[i].next = NoRow} = {i \in DOMAIN e : e[i].entry.next = NoRow}
  BY <1>1, <1>3, <1>4
<1>8. {i \in DOMAIN cs : cs[i].replacedDelete} = {i \in DOMAIN e : e[i].key \in DeletedKeys(x.tables[t])}
  BY <1>1, <1>3, <1>4
<1>9. TablePatchOK(db, x, t, p)
  BY <1>2, <1>4, <1>5, <1>6, <1>7, <1>8 DEF TablePatchOK
<1> QED
  BY <1>1, <1>3, <1>4, <1>9 DEF p

\* An overlay whose entries and order are sound, whatever its count of deletes.
SoundOverlay(db, t, o) ==
    /\ o = [rows |-> o.rows, deletes |-> o.deletes, order |-> o.order, sorted |-> o.sorted]
    /\ EntriesOK(db, t, o)
    /\ OrderOK(o)

\* Installing an entry stages it and leaves every other.
Installs(db, t, o, staged, r) ==
    /\ SoundOverlay(db, t, r)
    /\ r.deletes = o.deletes
    /\ KeysIn(r) = KeysIn(o) \cup {staged.key}
    /\ EntryAt(r, staged.key) = staged.entry
    /\ \A k \in KeysIn(o) : k # staged.key => EntryAt(r, k) = EntryAt(o, k)

\* What a sequence of entries that holds another's, and one more, has staged.
LEMMA StagesOne ==
    ASSUME NEW db, NEW t, NEW o, EntriesOK(db, t, o), NEW r, EntriesOK(db, t, r), NEW staged,
           \E i \in DOMAIN r.rows : r.rows[i] = staged,
           \A i \in DOMAIN r.rows : r.rows[i] = staged \/ \E j \in DOMAIN o.rows : r.rows[i] = o.rows[j],
           \A j \in DOMAIN o.rows :
                o.rows[j].key = staged.key \/ \E i \in DOMAIN r.rows : r.rows[i] = o.rows[j]
    PROVE  /\ KeysIn(r) = KeysIn(o) \cup {staged.key}
           /\ EntryAt(r, staged.key) = staged.entry
           /\ \A k \in KeysIn(o) : k # staged.key => EntryAt(r, k) = EntryAt(o, k)
<1>1. /\ \A i \in DOMAIN r.rows : EntryAt(r, r.rows[i].key) = r.rows[i].entry
      /\ \A j \in DOMAIN o.rows : EntryAt(o, o.rows[j].key) = o.rows[j].entry
  BY EntryAtIs
<1>2. KeysIn(r) \subseteq KeysIn(o) \cup {staged.key}
  BY DEF KeysIn
<1>3. KeysIn(o) \cup {staged.key} \subseteq KeysIn(r)
  BY DEF KeysIn
<1>4. ASSUME NEW k \in KeysIn(o), k # staged.key PROVE EntryAt(r, k) = EntryAt(o, k)
  <2>1. PICK j \in DOMAIN o.rows : o.rows[j].key = k
    BY DEF KeysIn
  <2>2. PICK i \in DOMAIN r.rows : r.rows[i] = o.rows[j]
    BY <1>4, <2>1
  <2> QED
    BY <1>1, <2>1, <2>2
<1> QED
  BY <1>1, <1>2, <1>3, <1>4

\* Installing an entry replaces the one of its key or adds it, and keeps the order.
LEMMA InstallEntryIs ==
    ASSUME NEW db, NEW t, NEW o, SoundOverlay(db, t, o), NEW staged \in StagedEntries(db, t)
    PROVE  Installs(db, t, o, staged, InstallEntry(o, staged))
<1> DEFINE n == Len(o.rows)
           S == StagedEntries(db, t)
           r == InstallEntry(o, staged)
<1>1. EntriesOK(db, t, o) /\ OrderOK(o)
  BY DEF SoundOverlay
<1>2. o.rows \in Seq(S) /\ DOMAIN o.rows = 1..n /\ n \in Nat
      /\ (\A i, j \in 1..n : o.rows[i].key = o.rows[j].key => i = j)
  BY <1>1 DEF EntriesOK
<1>3. staged = [key |-> staged.key, entry |-> staged.entry]
  BY StagedEntryIs
<1>4. CASE staged.key \in KeysIn(o)
  <2> DEFINE i == Find(o, staged.key)
             b == [o.rows EXCEPT ![i] = staged]
  <2>1. i \in 1..n /\ o.rows[i] = [key |-> staged.key, entry |-> EntryAt(o, staged.key)]
    BY <1>1, <1>2, <1>4, EntryAtIs
  <2> HIDE DEF i
  <2>2. r = [o EXCEPT !.rows[i].entry = staged.entry]
    BY <1>4 DEF InstallEntry, i
  <2>3. [o.rows[i] EXCEPT !.entry = staged.entry] = staged
    BY <1>3, <2>1
  <2>4. r = [o EXCEPT !.rows = b]
    BY <2>2, <2>3 DEF SoundOverlay
  <2>5. r = [rows |-> b, deletes |-> o.deletes, order |-> o.order, sorted |-> o.sorted]
    BY <2>4 DEF SoundOverlay
  <2>6. b \in Seq(S) /\ DOMAIN b = 1..n /\ Len(b) = n /\ b[i] = staged
        /\ \A j \in 1..n : j # i => b[j] = o.rows[j]
    BY <1>2, <2>1
  <2> HIDE DEF b, r
  <2>7. r.rows = b /\ r.deletes = o.deletes /\ r.order = o.order /\ r.sorted = o.sorted
    BY <2>5
  <2>8. \A j \in 1..n : b[j].key = o.rows[j].key
    BY <2>1, <2>6
  <2>9. EntriesOK(db, t, r)
    BY <1>2, <2>6, <2>7, <2>8 DEF EntriesOK
  <2>10. OrderOK(r)
    BY <1>1, <2>6, <2>7 DEF OrderOK
  <2>11. SoundOverlay(db, t, r)
    BY <2>5, <2>7, <2>9, <2>10 DEF SoundOverlay
  <2>12. (\E j \in DOMAIN r.rows : r.rows[j] = staged)
         /\ (\A j \in DOMAIN r.rows : r.rows[j] = staged \/ \E l \in DOMAIN o.rows : r.rows[j] = o.rows[l])
         /\ (\A l \in DOMAIN o.rows :
                o.rows[l].key = staged.key \/ \E j \in DOMAIN r.rows : r.rows[j] = o.rows[l])
    BY <1>2, <2>1, <2>6, <2>7
  <2>13. Installs(db, t, o, staged, r)
    BY <1>1, <2>7, <2>9, <2>11, <2>12, StagesOne DEF Installs
  <2> QED
    BY <2>13 DEF r
<1>5. CASE staged.key \notin KeysIn(o)
  <2> DEFINE ascends == /\ o.sorted = n
                        /\ n > 0 => KeyLess(o.rows[Last(o.order)].key, staged.key)
             b == Append(o.rows, staged)
             order == Append(o.order, n + 1)
             sorted == IF ascends THEN o.sorted + 1 ELSE o.sorted
  <2>1. r = [o EXCEPT !.rows = b, !.order = order, !.sorted = sorted]
    BY <1>5 DEF InstallEntry
  <2>2. b \in Seq(S) /\ DOMAIN b = 1..(n + 1) /\ Len(b) = n + 1 /\ b[n + 1] = staged
        /\ \A j \in 1..n : b[j] = o.rows[j]
    BY <1>2
  <2>3. o.order \in Seq(1..n) /\ Len(o.order) = n /\ Range(o.order) = 1..n /\ o.sorted \in 0..n
    BY <1>1 DEF OrderOK
  <2>4. sorted \in 0..(n + 1)
    <3>1. o.sorted \in 0..(n + 1)
      BY <1>2, <2>3
    <3>2. ascends => o.sorted + 1 \in 0..(n + 1)
      BY <1>2, <2>3
    <3> HIDE DEF ascends
    <3> QED
      BY <3>1, <3>2
  <2> HIDE DEF ascends, sorted, n
  <2>5. order \in Seq(1..(n + 1)) /\ Len(order) = n + 1 /\ Range(order) = 1..(n + 1)
    <3>1. n \in Nat /\ 1..n \subseteq 1..(n + 1) /\ n + 1 \in 1..(n + 1) /\ n + 1 \notin 1..n
          /\ 1..(n + 1) = 1..n \cup {n + 1}
      BY <1>2
    <3> DEFINE T == 1..(n + 1)
               m == n + 1
               old == o.order
    <3>2. o.order \in Seq(T) /\ n + 1 \in T
      BY <2>3, <3>1
    <3>3. m \in T /\ old \in Seq(T) /\ Len(old) = n /\ m \notin Range(old)
      BY <2>3, <3>1, <3>2
    <3>3a. order = Append(old, m)
      OBVIOUS
    <3> HIDE DEF T, m, old, order
    <3>4. Append(old, m) \in Seq(T) /\ Len(Append(old, m)) = n + 1
      BY <3>3
    <3>5. Range(Append(old, m)) = Range(old) \cup {m}
      BY <3>3, AppendNew
    <3> QED
      BY <2>3, <3>1, <3>3a, <3>4, <3>5 DEF T, m, old
  <2> HIDE DEF b, order, r
  <2>6. r = [rows |-> b, deletes |-> o.deletes, order |-> order, sorted |-> sorted]
    BY <2>1 DEF SoundOverlay
  <2>7. r.rows = b /\ r.deletes = o.deletes /\ r.order = order /\ r.sorted = sorted
    BY <2>6
  <2>8. OrderOK(r)
    BY <2>2, <2>4, <2>5, <2>7 DEF OrderOK
  <2>9. \A i \in 1..(n + 1) : i \in 1..n \/ i = n + 1
    BY <1>2
  <2>10. \A j \in 1..n : b[j].key # staged.key
    BY <1>2, <1>5, <2>2 DEF KeysIn
  <2>11. \A i, j \in 1..(n + 1) : b[i].key = b[j].key => i = j
    <3> TAKE i, j \in 1..(n + 1)
    <3>1. CASE i \in 1..n /\ j \in 1..n
      BY <1>2, <2>2, <3>1
    <3>2. CASE i = n + 1 /\ j = n + 1
      BY <3>2
    <3>3. CASE i \in 1..n /\ j = n + 1
      BY <2>2, <2>10, <3>3
    <3>4. CASE i = n + 1 /\ j \in 1..n
      BY <2>2, <2>10, <3>4
    <3> QED
      BY <2>9, <3>1, <3>2, <3>3, <3>4
  <2>12. EntriesOK(db, t, r)
    BY <2>2, <2>7, <2>11 DEF EntriesOK
  <2>13. SoundOverlay(db, t, r)
    BY <2>6, <2>7, <2>8, <2>12 DEF SoundOverlay
  <2>14. n + 1 \in DOMAIN b /\ \A j \in 1..n : j \in DOMAIN b
    BY <1>2, <2>2
  <2>15. (\E j \in DOMAIN r.rows : r.rows[j] = staged)
         /\ (\A j \in DOMAIN r.rows : r.rows[j] = staged \/ \E l \in DOMAIN o.rows : r.rows[j] = o.rows[l])
         /\ (\A l \in DOMAIN o.rows :
                o.rows[l].key = staged.key \/ \E j \in DOMAIN r.rows : r.rows[j] = o.rows[l])
    BY <1>2, <2>2, <2>7, <2>9, <2>14
  <2>16. Installs(db, t, o, staged, r)
    BY <1>1, <2>7, <2>12, <2>13, <2>15, StagesOne DEF Installs
  <2> QED
    BY <2>16 DEF r
<1> QED
  BY <1>4, <1>5

\* A table's entries are installed in turn.
InstallTableRun(overlay, entries, deletes, after) ==
    /\ InstallTable(overlay, entries, deletes) = after[Len(entries)]
    /\ after[0] = [overlay EXCEPT !.deletes = @ + deletes]
    /\ \A n \in 1..Len(entries) : after[n] = InstallEntry(after[n - 1], entries[n])

\* The loop has such a run.
LEMMA InstallTableLoop ==
    ASSUME NEW overlay, NEW entries, NEW deletes, Len(entries) \in Nat
    PROVE  \E after : InstallTableRun(overlay, entries, deletes, after)
<1> DEFINE start == [overlay EXCEPT !.deletes = @ + deletes]
           Step(f, n) == InstallEntry(f[n - 1], entries[n])
           E(m, f) == f = [n \in 0..m |-> IF n = 0 THEN start ELSE Step(f, n)]
           I == {m \in 0..Len(entries) : \E f : E(m, f)}
<1>1. InstallTable(overlay, entries, deletes) = (CHOOSE f : E(Len(entries), f))[Len(entries)]
  BY DEF InstallTable
<1>2. E(0, [n \in 0..0 |-> start])
  <2> HIDE DEF Step, start
  <2> QED
    OBVIOUS
<1>3. ASSUME NEW m \in 0..(Len(entries) - 1), NEW f, E(m, f)
      PROVE  \E g : E(m + 1, g)
  <2> DEFINE g == [n \in 0..(m + 1) |-> IF n = m + 1 THEN Step(f, n) ELSE f[n]]
  <2>1. ASSUME NEW n \in 0..(m + 1), n # 0 PROVE Step(g, n) = Step(f, n)
    <3>1. g[n - 1] = f[n - 1]
      BY <2>1
    <3> QED
      BY <3>1
  <2> HIDE DEF Step, start
  <2>2. ASSUME NEW n \in 0..(m + 1), n # m + 1
        PROVE  f[n] = IF n = 0 THEN start ELSE Step(f, n)
    BY <1>3, <2>2
  <2>3. E(m + 1, g)
    BY <2>1, <2>2
  <2> QED
    BY <2>3
<1>4. \A f : E(Len(entries), f) => /\ f[0] = start
                      /\ \A n \in 1..Len(entries) : f[n] = Step(f, n)
  <2> HIDE DEF Step, start
  <2> QED
    OBVIOUS
<1> HIDE DEF E
<1>5. 0 \in I
  BY <1>2
<1>6. ASSUME NEW m \in 0..(Len(entries) - 1), m \in I PROVE m + 1 \in I
  <2>1. PICK f : E(m, f)
    BY <1>6
  <2>2. m + 1 \in 0..Len(entries) /\ \E g : E(m + 1, g)
    BY <2>1, <1>3
  <2> QED
    BY <2>2
<1>7. 0..Len(entries) \subseteq I
  <2> HIDE DEF I
  <2> QED
    BY <1>5, <1>6, LoopInduction
<1>8. E(Len(entries), CHOOSE f : E(Len(entries), f))
  <2>1. Len(entries) \in I
    BY <1>7
  <2> QED
    BY <2>1
<1> QED
  BY <1>1, <1>4, <1>8 DEF InstallTableRun

\* The first entries of a table are in place.
InstalledUpTo(db, t, o, entries, deletes, m, r) ==
    /\ SoundOverlay(db, t, r)
    /\ r.deletes = o.deletes + deletes
    /\ KeysIn(r) = KeysIn(o) \cup {entries[i].key : i \in 1..m}
    /\ \A i \in 1..m : EntryAt(r, entries[i].key) = entries[i].entry
    /\ \A k \in KeysIn(o) : (\A i \in 1..m : entries[i].key # k) => EntryAt(r, k) = EntryAt(o, k)

\* Installing a table's entries leaves each under its key and the others alone.
LEMMA InstallTableIs ==
    ASSUME NEW db, NEW t, NEW o, SoundOverlay(db, t, o), NEW deletes,
           NEW n \in Nat, NEW entries \in Seq(StagedEntries(db, t)), Len(entries) = n,
           \A i, j \in 1..n : entries[i].key = entries[j].key => i = j
    PROVE  InstalledUpTo(db, t, o, entries, deletes, n, InstallTable(o, entries, deletes))
<1>1. \A i \in 1..n : entries[i] \in StagedEntries(db, t)
  OBVIOUS
<1>2. PICK after : InstallTableRun(o, entries, deletes, after)
  BY InstallTableLoop
<1> DEFINE OK(m) == InstalledUpTo(db, t, o, entries, deletes, m, after[m])
           S == {m \in 0..n : OK(m)}
<1>3. after[0] = [o EXCEPT !.deletes = @ + deletes] /\ InstallTable(o, entries, deletes) = after[n]
      /\ \A m \in 1..n : after[m] = InstallEntry(after[m - 1], entries[m])
  BY <1>2 DEF InstallTableRun
<1>4. 0 \in S
  <2> DEFINE r == after[0]
             sum == o.deletes + deletes
  <2>1. r = [o EXCEPT !.deletes = sum]
    BY <1>3
  <2> HIDE DEF r, sum
  <2>2. r = [rows |-> o.rows, deletes |-> sum, order |-> o.order, sorted |-> o.sorted]
    BY <2>1 DEF SoundOverlay
  <2>3. r.rows = o.rows /\ r.order = o.order /\ r.sorted = o.sorted /\ r.deletes = sum
    BY <2>2
  <2>4. SoundOverlay(db, t, r)
    BY <2>2, <2>3 DEF SoundOverlay, EntriesOK, OrderOK
  <2>5. KeysIn(r) = KeysIn(o) /\ \A k \in KeysIn(o) : EntryAt(r, k) = EntryAt(o, k)
    BY <2>3 DEF KeysIn, EntryAt, Find
  <2>6. InstalledUpTo(db, t, o, entries, deletes, 0, r)
    BY <2>3, <2>4, <2>5 DEF InstalledUpTo, sum
  <2> QED
    BY <2>6 DEF r
<1>5. ASSUME NEW m \in 0..(n - 1), m \in S PROVE m + 1 \in S
  <2> DEFINE a == after[m]
             p == m + 1
             e == entries[p]
             r == InstallEntry(a, e)
  <2>1. p \in 1..n /\ p \in 0..n /\ p - 1 = m /\ (\A i \in 1..p : i \in 1..m \/ i = p)
        /\ (\A i \in 1..m : i \in 1..p /\ i \in 1..n /\ i # p) /\ p \in 1..p
    OBVIOUS
  <2>2. after[p] = r
    BY <1>3, <2>1
  <2>3. InstalledUpTo(db, t, o, entries, deletes, m, a)
    BY <1>5
  <2>4. e \in StagedEntries(db, t)
    BY <1>1, <2>1
  <2> HIDE DEF a, p, e, r
  <2>5. Installs(db, t, a, e, r)
    BY <2>3, <2>4, InstallEntryIs DEF InstalledUpTo, r
  <2>6. \A i \in 1..m : entries[i].key # e.key
    BY <2>1 DEF e
  <2>7. KeysIn(r) = KeysIn(o) \cup {entries[i].key : i \in 1..p}
    <3>1. {entries[i].key : i \in 1..p} = {entries[i].key : i \in 1..m} \cup {e.key}
      BY <2>1 DEF e
    <3> QED
      BY <2>3, <2>5, <3>1 DEF InstalledUpTo, Installs
  <2>8. \A i \in 1..p : EntryAt(r, entries[i].key) = entries[i].entry
    <3>1. \A i \in 1..m : EntryAt(r, entries[i].key) = entries[i].entry
      <4> TAKE i \in 1..m
      <4>1. EntryAt(a, entries[i].key) = entries[i].entry /\ entries[i].key \in KeysIn(a)
        BY <2>3 DEF InstalledUpTo
      <4> QED
        BY <2>5, <2>6, <4>1 DEF Installs
    <3>2. EntryAt(r, e.key) = e.entry
      BY <2>5 DEF Installs
    <3> QED
      BY <2>1, <3>1, <3>2 DEF e
  <2>9. ASSUME NEW k \in KeysIn(o), \A i \in 1..p : entries[i].key # k
        PROVE  EntryAt(r, k) = EntryAt(o, k)
    <3>1. k # e.key /\ \A i \in 1..m : entries[i].key # k
      BY <2>1, <2>9 DEF e
    <3>2. k \in KeysIn(a) /\ EntryAt(a, k) = EntryAt(o, k)
      BY <2>3, <3>1 DEF InstalledUpTo
    <3> QED
      BY <2>5, <3>1, <3>2 DEF Installs
  <2>10. InstalledUpTo(db, t, o, entries, deletes, p, r)
    BY <2>3, <2>5, <2>7, <2>8, <2>9 DEF InstalledUpTo, Installs
  <2> QED
    BY <2>1, <2>2, <2>10 DEF p
<1> HIDE DEF OK
<1>6. n \in 0..n /\ 0..n \subseteq S
  <2>1. n \in 0..n
    OBVIOUS
  <2> HIDE DEF S
  <2>2. 0..n \subseteq S
    BY <1>4, <1>5, LoopInduction
  <2> QED
    BY <2>1, <2>2
<1>7. OK(n)
  BY <1>6
<1> QED
  BY <1>3, <1>7 DEF OK

\* A set with the members in K taken out and N, from K, put in.
CountIs(S, K, N) ==
    /\ IsFiniteSet((S \ K) \cup N) /\ IsFiniteSet(S \cap K) /\ IsFiniteSet(N)
    /\ Cardinality((S \ K) \cup N) = Cardinality(S) - Cardinality(S \cap K) + Cardinality(N)

\* Such a set is counted by what was taken out and what was put in.
LEMMA CountReplaced ==
    ASSUME NEW S, IsFiniteSet(S), NEW K, IsFiniteSet(K), NEW N \in SUBSET K
    PROVE  CountIs(S, K, N)
<1>1. S \cap K \in SUBSET S /\ S \ (S \cap K) = S \ K
  OBVIOUS
<1>2. IsFiniteSet(S \cap K) /\ IsFiniteSet(S \ K)
      /\ Cardinality(S \ K) = Cardinality(S) - Cardinality(S \cap K)
  <2> DEFINE both == S \cap K
  <2>1. both \in SUBSET S /\ S \ both = S \ K
    BY <1>1
  <2> HIDE DEF both
  <2>2. IsFiniteSet(both) /\ IsFiniteSet(S \ both)
        /\ Cardinality(S \ both) = Cardinality(S) - Cardinality(both)
    BY <2>1, SubsetLeaves
  <2> QED
    BY <2>1, <2>2 DEF both
<1>3. IsFiniteSet(N)
  BY FS_Subset
<1> DEFINE left == S \ K
<1>4. \A e \in left : e \notin N
  OBVIOUS
<1>5. IsFiniteSet(left)
  BY <1>2
<1> HIDE DEF left
<1>6. IsFiniteSet(left \cup N) /\ Cardinality(left \cup N) = Cardinality(left) + Cardinality(N)
  BY <1>3, <1>4, <1>5, DisjointUnion
<1> QED
  BY <1>2, <1>3, <1>6 DEF left, CountIs

\* The keys at some positions are as many as the positions.
KeysAt(entries, I) == {entries[i].key : i \in I}
KeysDiffer(entries, n) == \A i, j \in 1..n : entries[i].key = entries[j].key => i = j
AsMany(S, T) == IsFiniteSet(S) /\ Cardinality(S) = Cardinality(T) /\ Cardinality(T) \in Nat

\* Keys that differ are as many as their positions.
LEMMA CountKeys ==
    ASSUME NEW n \in Nat, NEW entries, KeysDiffer(entries, n),
           NEW I \in SUBSET (1..n)
    PROVE  AsMany(KeysAt(entries, I), I)
<1> DEFINE f == [i \in I |-> entries[i].key]
           K == KeysAt(entries, I)
<1>1. IsFiniteSet(I)
  BY PositionsFinite
<1>2. (\A i \in I : f[i] \in K)
  BY DEF KeysAt
<1>3. \A i, j \in I : f[i] = f[j] => i = j
  BY DEF KeysDiffer
<1>4. \A k \in K : \E i \in I : f[i] = k
  BY DEF KeysAt
<1> HIDE DEF f, K
<1>5. IsFiniteSet(K)
  BY <1>1, <1>2, <1>3, <1>4, SameSize
<1>6. Cardinality(K) = Cardinality(I)
  BY <1>1, <1>2, <1>3, <1>4, SameSize
<1>7. Cardinality(I) \in Nat
  BY <1>1, FS_CardinalityType
<1> QED
  BY <1>5, <1>6, <1>7 DEF K, AsMany

\* What of an overlay's keys a patch's entries leave, and what they add.
DeletesAt(entries, n) == {i \in 1..n : entries[i].entry.next = NoRow}
ChangesAt(entries, n) == {i \in 1..n : entries[i].entry.changed}
MovedTo(entries, n, S, I, T) == T = (S \ KeysAt(entries, 1..n)) \cup KeysAt(entries, I)

\* The deleted and the changed keys of an overlay move as the patch's entries say.
LEMMA KeysMoved ==
    ASSUME NEW db, NEW t, NEW o, NEW n \in Nat, NEW entries \in Seq(StagedEntries(db, t)),
           Len(entries) = n, NEW deletes, NEW r, InstalledUpTo(db, t, o, entries, deletes, n, r)
    PROVE  /\ MovedTo(entries, n, DeletedKeys(o), DeletesAt(entries, n), DeletedKeys(r))
           /\ MovedTo(entries, n, ChangedKeysIn(o), ChangesAt(entries, n), ChangedKeysIn(r))
<1> DEFINE K == KeysAt(entries, 1..n)
<1>1. KeysIn(r) = KeysIn(o) \cup K /\ (\A i \in 1..n : EntryAt(r, entries[i].key) = entries[i].entry)
      /\ \A k \in KeysIn(o) : k \notin K => EntryAt(r, k) = EntryAt(o, k)
  BY DEF InstalledUpTo, KeysAt
<1>2. \A k \in K : \E i \in 1..n : k = entries[i].key /\ EntryAt(r, k) = entries[i].entry
  BY <1>1 DEF KeysAt
<1>3. \A i \in 1..n : entries[i].key \in K
  BY DEF KeysAt
<1>4. DeletedKeys(r) \subseteq (DeletedKeys(o) \ K)
        \cup KeysAt(entries, {i \in 1..n : entries[i].entry.next = NoRow})
  BY <1>1, <1>2 DEF DeletedKeys, KeysAt
<1>5. (DeletedKeys(o) \ K) \cup KeysAt(entries, {i \in 1..n : entries[i].entry.next = NoRow})
        \subseteq DeletedKeys(r)
  BY <1>1, <1>3 DEF DeletedKeys, KeysAt
<1>6. ChangedKeysIn(r) \subseteq (ChangedKeysIn(o) \ K)
        \cup KeysAt(entries, {i \in 1..n : entries[i].entry.changed})
  BY <1>1, <1>2 DEF ChangedKeysIn, KeysAt
<1>7. (ChangedKeysIn(o) \ K) \cup KeysAt(entries, {i \in 1..n : entries[i].entry.changed})
        \subseteq ChangedKeysIn(r)
  BY <1>1, <1>3 DEF ChangedKeysIn, KeysAt
<1> QED
  BY <1>4, <1>5, <1>6, <1>7 DEF MovedTo, DeletesAt, ChangesAt

Recounted(entries, n, S, I, T) ==
    Cardinality(T) = Cardinality(S) + Cardinality(I)
                     - Cardinality({i \in 1..n : entries[i].key \in S})

\* How many keys of a set are left when a patch's keys are taken out of it and some put in.
LEMMA CountMoved ==
    ASSUME NEW n \in Nat, NEW entries, KeysDiffer(entries, n),
           NEW S, IsFiniteSet(S), NEW I \in SUBSET (1..n),
           NEW T, MovedTo(entries, n, S, I, T)
    PROVE  Recounted(entries, n, S, I, T)
<1> DEFINE K == KeysAt(entries, 1..n)
           N == KeysAt(entries, I)
           J == {i \in 1..n : entries[i].key \in S}
<1>1. IsFiniteSet(K)
  <2>1. 1..n \in SUBSET (1..n)
    OBVIOUS
  <2> QED
    BY <2>1, CountKeys DEF AsMany
<1>2. N \in SUBSET K
  BY DEF KeysAt
<1>3. Cardinality(N) = Cardinality(I) /\ Cardinality(I) \in Nat
  BY CountKeys DEF AsMany
<1>4. Cardinality(S \cap K) = Cardinality(J) /\ Cardinality(J) \in Nat
  <2>1. J \in SUBSET (1..n)
    OBVIOUS
  <2>2. KeysAt(entries, J) = S \cap K
    BY DEF KeysAt
  <2> HIDE DEF J, K
  <2>3. AsMany(KeysAt(entries, J), J)
    BY <2>1, CountKeys
  <2> QED
    BY <2>2, <2>3 DEF AsMany
<1>5. Cardinality(S) \in Nat
  BY FS_CardinalityType
<1> HIDE DEF K, N, J
<1>6. CountIs(S, K, N)
  BY <1>1, <1>2, CountReplaced
<1>7. Cardinality(T) = Cardinality(S) - Cardinality(J) + Cardinality(I)
  BY <1>3, <1>4, <1>6 DEF K, N, CountIs, MovedTo
<1>8. Cardinality(T) = Cardinality(S) + Cardinality(I) - Cardinality(J)
  BY <1>3, <1>4, <1>5, <1>7
<1> QED
  BY <1>8 DEF J, Recounted

\* Installing a table's part of a patch keeps its overlay sound, and the count of its deletes.
LEMMA InstalledOverlayOK ==
    ASSUME NEW db, NEW x, NEW t \in Tables, OverlayOK(db, t, x.tables[t]), NEW p,
           TablePatchOK(db, x, t, p), NEW r, r = InstallTable(x.tables[t], p.entries, p.deletes)
    PROVE  /\ OverlayOK(db, t, r)
           /\ Cardinality(ChangedKeysIn(r))
                = Cardinality(ChangedKeysIn(x.tables[t]))
                    + Cardinality({i \in DOMAIN p.entries : p.entries[i].entry.changed})
                    - Cardinality({i \in DOMAIN p.entries :
                                    p.entries[i].key \in ChangedKeysIn(x.tables[t])})
<1> DEFINE o == x.tables[t]
           e == p.entries
           n == Len(e)
           K == KeysAt(e, 1..n)
           D == {i \in 1..n : e[i].entry.next = NoRow}
           R == {i \in 1..n : e[i].key \in DeletedKeys(o)}
           C == {i \in 1..n : e[i].entry.changed}
<1>1. e \in Seq(StagedEntries(db, t)) /\ n \in Nat /\ DOMAIN e = 1..n
      /\ (\A i, j \in 1..n : e[i].key = e[j].key => i = j)
  BY DEF TablePatchOK
<1>2. p.deletes = Cardinality(D) - Cardinality(R)
  BY <1>1 DEF TablePatchOK
<1>3. SoundOverlay(db, t, o) /\ o.deletes = Cardinality(DeletedKeys(o))
      /\ IsFiniteSet(DeletedKeys(o)) /\ IsFiniteSet(ChangedKeysIn(o))
  BY KeysInFinite DEF OverlayOK, SoundOverlay
<1> HIDE DEF o, e, n
<1>4. InstalledUpTo(db, t, o, e, p.deletes, n, r)
  BY <1>1, <1>3, InstallTableIs DEF o, e, n
<1>5. MovedTo(e, n, DeletedKeys(o), D, DeletedKeys(r)) /\ MovedTo(e, n, ChangedKeysIn(o), C, ChangedKeysIn(r))
  <2>1. Len(e) = n
    BY DEF n
  <2>2. D = DeletesAt(e, n) /\ C = ChangesAt(e, n)
    BY DEF DeletesAt, ChangesAt
  <2> HIDE DEF D, C
  <2>3. MovedTo(e, n, DeletedKeys(o), DeletesAt(e, n), DeletedKeys(r))
    BY <1>1, <1>4, <2>1, KeysMoved
  <2>4. MovedTo(e, n, ChangedKeysIn(o), ChangesAt(e, n), ChangedKeysIn(r))
    BY <1>1, <1>4, <2>1, KeysMoved
  <2> QED
    BY <2>2, <2>3, <2>4
<1>6. Recounted(e, n, DeletedKeys(o), D, DeletedKeys(r))
  <2>1. D \in SUBSET (1..n)
    OBVIOUS
  <2> HIDE DEF D
  <2> QED
    BY <1>1, <1>3, <1>5, <2>1, CountMoved DEF KeysDiffer
<1>7. Recounted(e, n, ChangedKeysIn(o), C, ChangedKeysIn(r))
  <2>1. C \in SUBSET (1..n)
    OBVIOUS
  <2> HIDE DEF C
  <2> QED
    BY <1>1, <1>3, <1>5, <2>1, CountMoved DEF KeysDiffer
<1>8. r.deletes = Cardinality(DeletedKeys(r))
  <2>1. r.deletes = o.deletes + p.deletes
    BY <1>4 DEF InstalledUpTo
  <2>2. Cardinality(D) \in Nat /\ Cardinality(R) \in Nat /\ Cardinality(DeletedKeys(o)) \in Nat
    <3>1. D \in SUBSET (1..n) /\ R \in SUBSET (1..n)
      OBVIOUS
    <3> HIDE DEF D, R
    <3> QED
      BY <1>1, <1>3, <3>1, PositionsFinite, FS_CardinalityType
  <2> QED
    BY <1>2, <1>3, <1>6, <2>1, <2>2 DEF Recounted
<1>9. OverlayOK(db, t, r)
  BY <1>4, <1>8 DEF InstalledUpTo, SoundOverlay, OverlayOK
<1> QED
  BY <1>1, <1>7, <1>9 DEF o, e, Recounted

\* A patch: the part of each table it changes, and whether it may replace staged entries.
PatchOK(db, x, patch) ==
    /\ \A t \in DOMAIN patch.tables : t \in Tables /\ TablePatchOK(db, x, t, patch.tables[t])
    /\ \/ patch.replaces
       \/ \A t \in DOMAIN patch.tables : \A i \in DOMAIN patch.tables[t].entries :
            patch.tables[t].entries[i].key \notin KeysIn(x.tables[t])

\* A statement's changes make a patch.
LEMMA PatchOfOK ==
    ASSUME NEW db, NEW x, NEW ok, NEW changes, ChangesOK(db, x, changes)
    PROVE  PatchOK(db, x, MergedPatch(db, ok, changes))
<1> DEFINE p == MergedPatch(db, ok, changes)
<1>1. /\ p.replaces = (\E i \in DOMAIN changes : changes[i].found)
      /\ DOMAIN p.tables = {c.table : c \in Range(changes)}
      /\ \A t \in DOMAIN p.tables : p.tables[t] = TablePatch(db, ChangesTo(t, changes))
  BY DEF MergedPatch
<1>2. \A t \in DOMAIN p.tables : t \in Tables
  BY <1>1 DEF ChangesOK, IsPatchChange, Range
<1> HIDE DEF p
<1>3. ASSUME NEW t \in DOMAIN p.tables
      PROVE  /\ TablePatchOK(db, x, t, p.tables[t])
             /\ p.replaces \/ \A i \in DOMAIN p.tables[t].entries :
                    p.tables[t].entries[i].key \notin KeysIn(x.tables[t])
  <2> DEFINE cs == ChangesTo(t, changes)
  <2>1. t \in Tables
    BY <1>2
  <2>2. ListsTable(db, x, t, changes, cs)
    BY <2>1, ChangesToIs
  <2>3. p.tables[t] = TablePatch(db, cs)
    BY <1>1
  <2> HIDE DEF cs
  <2>4. TablePatchOK(db, x, t, TablePatch(db, cs))
    BY <2>1, <2>2, TablePatchIs
  <2>5. DOMAIN TablePatch(db, cs).entries = DOMAIN cs
    BY <2>1, <2>2, TablePatchIs
  <2>6. \A i \in DOMAIN cs : TablePatch(db, cs).entries[i].key = cs[i].key
    BY <2>1, <2>2, TablePatchIs
  <2>7. ASSUME ~p.replaces, NEW i \in DOMAIN cs
        PROVE  cs[i].key \notin KeysIn(x.tables[t])
    <3>1. IsPatchChange(db, x, cs[i]) /\ cs[i].table = t
      BY <2>2, <2>7 DEF ListsTable
    <3>2. cs \in Seq(Range(changes))
      BY <2>2 DEF ListsTable
    <3>3. cs[i] \in Range(changes)
      BY <2>7, <3>2
    <3>4. ~cs[i].found
      BY <1>1, <2>7, <3>3 DEF Range
    <3> QED
      BY <3>1, <3>4 DEF IsPatchChange
  <2> QED
    BY <2>3, <2>4, <2>5, <2>6, <2>7
<1> QED
  BY <1>2, <1>3 DEF p, PatchOK

\* The entries of a patch that are about one table are those of its part of the patch.
ListedAs(t, e, f) == f = [table |-> t, key |-> e.key, entry |-> e.entry]

\* An entry is of a patch if it is of one of its tables.
LEMMA PatchEntriesAre ==
    ASSUME NEW patch, NEW f
    PROVE  f \in PatchEntries(patch) <=>
            \E t \in DOMAIN patch.tables : \E e \in Range(patch.tables[t].entries) : ListedAs(t, e, f)
BY DEF PatchEntries, ListedAs

\* The positions of a table's changed entries, and of those that replace changed ones.
ReplacesAt(o, entries) == {i \in DOMAIN entries : entries[i].key \in ChangedKeysIn(o)}

\* A patch's changed entries of a table are counted by their positions.
LEMMA ChangedInPatch ==
    ASSUME NEW db, NEW x, NEW patch, PatchOK(db, x, patch), NEW t \in DOMAIN patch.tables,
           NEW e, e = patch.tables[t].entries
    PROVE  ChangedIn(PatchEntries(patch), t) = Cardinality(ChangesAt(e, Len(e)))
<1> DEFINE n == Len(e)
           I == ChangesAt(e, n)
           f == [i \in I |-> [table |-> t, key |-> e[i].key, entry |-> e[i].entry]]
           C == {g \in PatchEntries(patch) : g.table = t /\ g.entry.changed}
<1>1. e \in Seq(StagedEntries(db, t)) /\ \A i, j \in DOMAIN e : e[i].key = e[j].key => i = j
  BY DEF PatchOK, TablePatchOK
<1>2. n \in Nat /\ DOMAIN e = 1..n
  BY <1>1
<1>3. I \in SUBSET (1..n) /\ \A i \in I : i \in DOMAIN e /\ e[i].entry.changed
  BY <1>2 DEF ChangesAt
<1>4. IsFiniteSet(I)
  <2> HIDE DEF I, n
  <2> QED
    BY <1>2, <1>3, PositionsFinite
<1>5. ASSUME NEW i \in I PROVE f[i] \in C
  <2>1. i \in DOMAIN e /\ e[i].entry.changed
    BY <1>3
  <2>2. f[i].table = t /\ f[i].entry = e[i].entry
    OBVIOUS
  <2>3. e[i] \in Range(e) /\ ListedAs(t, e[i], f[i])
    BY <2>1 DEF Range, ListedAs
  <2>4. f[i] \in PatchEntries(patch)
    BY <2>3, PatchEntriesAre
  <2> QED
    BY <2>1, <2>2, <2>4
<1>6. \A i, j \in I : f[i] = f[j] => i = j
  <2> TAKE i, j \in I
  <2>1. f[i].key = e[i].key /\ f[j].key = e[j].key
    OBVIOUS
  <2> QED
    BY <1>1, <1>3, <2>1
<1>7. ASSUME NEW g \in C PROVE \E i \in I : f[i] = g
  <2>1. PICK u \in DOMAIN patch.tables : \E d \in Range(patch.tables[u].entries) : ListedAs(u, d, g)
    BY PatchEntriesAre
  <2>2. PICK d \in Range(patch.tables[u].entries) : ListedAs(u, d, g)
    BY <2>1
  <2>3. u = t /\ g.entry = d.entry
    BY <2>2 DEF ListedAs
  <2>4. PICK i \in DOMAIN e : d = e[i]
    BY <2>2, <2>3 DEF Range
  <2>5. i \in I
    BY <1>2, <2>3, <2>4 DEF ChangesAt
  <2> QED
    BY <2>2, <2>3, <2>4, <2>5 DEF ListedAs
<1> HIDE DEF I, f, C
<1>8. Cardinality(C) = Cardinality(I)
  BY <1>4, <1>5, <1>6, <1>7, SameSize
<1> QED
  BY <1>8 DEF C, I, ChangedIn

\* The changed entries a patch replaces in a table are counted by their positions.
LEMMA ChangedReplaced ==
    ASSUME NEW db, NEW x, NEW patch, PatchOK(db, x, patch), NEW t \in DOMAIN patch.tables,
           NEW e, e = patch.tables[t].entries
    PROVE  ChangedIn(ReplacedEntries(x, patch), t) = Cardinality(ReplacesAt(x.tables[t], e))
<1> DEFINE o == x.tables[t]
           I == ReplacesAt(o, e)
           f == [i \in I |-> [table |-> t, key |-> e[i].key, entry |-> EntryAt(o, e[i].key)]]
           C == {g \in ReplacedEntries(x, patch) : g.table = t /\ g.entry.changed}
<1>1. e \in Seq(StagedEntries(db, t)) /\ \A i, j \in DOMAIN e : e[i].key = e[j].key => i = j
  BY DEF PatchOK, TablePatchOK
<1>2. \A i \in I : i \in DOMAIN e /\ e[i].key \in KeysIn(o) /\ EntryAt(o, e[i].key).changed
  BY DEF ReplacesAt, ChangedKeysIn
<1>3. CASE ~patch.replaces
  <2>1. I = {}
    BY <1>2, <1>3 DEF PatchOK
  <2>2. C = {}
    BY <1>3 DEF ReplacedEntries
  <2> HIDE DEF I, C
  <2> QED
    BY <2>1, <2>2 DEF ChangedIn, C, I
<1>4. CASE patch.replaces
  <2>1. IsFiniteSet(I)
    <3>1. Len(e) \in Nat /\ DOMAIN e = 1..Len(e)
      BY <1>1
    <3>2. I \in SUBSET (1..Len(e))
      BY <1>2, <3>1
    <3> HIDE DEF I
    <3> QED
      BY <3>1, <3>2, PositionsFinite
  <2>2. \A g : g \in ReplacedEntries(x, patch) <=>
            \E h \in PatchEntries(patch) :
                /\ h.key \in KeysIn(x.tables[h.table])
                /\ g = [table |-> h.table, key |-> h.key, entry |-> EntryAt(x.tables[h.table], h.key)]
    BY <1>4 DEF ReplacedEntries
  <2>3. ASSUME NEW i \in I PROVE f[i] \in C
    <3> DEFINE h == [table |-> t, key |-> e[i].key, entry |-> e[i].entry]
    <3>1. i \in DOMAIN e /\ e[i].key \in KeysIn(o) /\ EntryAt(o, e[i].key).changed
      BY <1>2
    <3>2. e[i] \in Range(e) /\ ListedAs(t, e[i], h)
      BY <3>1 DEF Range, ListedAs
    <3>3. h.table = t /\ h.key = e[i].key
      OBVIOUS
    <3> HIDE DEF h
    <3>4. h \in PatchEntries(patch)
      BY <3>2, PatchEntriesAre
    <3>5. f[i] = [table |-> h.table, key |-> h.key, entry |-> EntryAt(x.tables[h.table], h.key)]
      BY <3>3
    <3>6. f[i] \in ReplacedEntries(x, patch)
      BY <2>2, <3>1, <3>3, <3>4, <3>5
    <3> QED
      BY <3>1, <3>6
  <2>4. \A i, j \in I : f[i] = f[j] => i = j
    <3> TAKE i, j \in I
    <3>1. f[i].key = e[i].key /\ f[j].key = e[j].key
      OBVIOUS
    <3> QED
      BY <1>1, <1>2, <3>1
  <2>5. ASSUME NEW g \in C PROVE \E i \in I : f[i] = g
    <3>1. PICK h \in PatchEntries(patch) :
                /\ h.key \in KeysIn(x.tables[h.table])
                /\ g = [table |-> h.table, key |-> h.key, entry |-> EntryAt(x.tables[h.table], h.key)]
      BY <2>2
    <3>2. PICK u \in DOMAIN patch.tables : \E d \in Range(patch.tables[u].entries) : ListedAs(u, d, h)
      BY PatchEntriesAre
    <3>3. PICK d \in Range(patch.tables[u].entries) : ListedAs(u, d, h)
      BY <3>2
    <3>4. h.table = t /\ g.entry.changed /\ g.entry = EntryAt(x.tables[t], h.key)
      BY <3>1
    <3>5. u = t /\ h.key = d.key
      BY <3>3, <3>4 DEF ListedAs
    <3>6. PICK i \in DOMAIN e : d = e[i]
      BY <3>3, <3>5 DEF Range
    <3>7. i \in I
      BY <3>1, <3>4, <3>5, <3>6 DEF ReplacesAt, ChangedKeysIn
    <3> QED
      BY <3>1, <3>4, <3>5, <3>6, <3>7
  <2> HIDE DEF I, f, C
  <2>6. Cardinality(C) = Cardinality(I)
    BY <2>1, <2>3, <2>4, <2>5, SameSize
  <2> QED
    BY <2>6 DEF C, I, ChangedIn
<1> QED
  BY <1>3, <1>4

\* A table the patch does not name has no entry in it.
LEMMA NotPatched ==
    ASSUME NEW x, NEW patch, NEW t, t \notin DOMAIN patch.tables
    PROVE  ChangedIn(PatchEntries(patch), t) = 0 /\ ChangedIn(ReplacedEntries(x, patch), t) = 0
<1>1. ASSUME NEW f \in PatchEntries(patch) PROVE f.table # t
  <2>1. PICK u \in DOMAIN patch.tables : \E d \in Range(patch.tables[u].entries) : ListedAs(u, d, f)
    BY PatchEntriesAre
  <2> QED
    BY <2>1 DEF ListedAs
<1>2. \A f \in ReplacedEntries(x, patch) : f.table # t
  BY <1>1 DEF ReplacedEntries
<1>3. {f \in PatchEntries(patch) : f.table = t /\ f.entry.changed} = {}
  BY <1>1
<1>4. {f \in ReplacedEntries(x, patch) : f.table = t /\ f.entry.changed} = {}
  BY <1>2
<1>5. Cardinality({}) = 0
  BY FS_EmptySet
<1> QED
  BY <1>3, <1>4, <1>5 DEF ChangedIn

\* A table's overlay once a patch is in place.
InstalledIn(x, patch, t) ==
    IF t \in DOMAIN patch.tables
    THEN InstallTable(x.tables[t], patch.tables[t].entries, patch.tables[t].deletes)
    ELSE x.tables[t]

\* With a patch in place the overlay is sound, and its running count of changes exact.
LEMMA InstalledCount ==
    ASSUME NEW db, NEW x, TxnOK(db, x), NEW patch, PatchOK(db, x, patch), NEW t \in Tables
    PROVE  /\ OverlayOK(db, t, InstalledIn(x, patch, t))
           /\ PatchedCounts(x, patch)[t] = Cardinality(ChangedKeysIn(InstalledIn(x, patch, t)))
<1>1. /\ OverlayOK(db, t, x.tables[t])
      /\ x.changed[t] = Cardinality(ChangedKeysIn(x.tables[t]))
      /\ Cardinality(ChangedKeysIn(x.tables[t])) \in Nat
  <2>1. OverlayOK(db, t, x.tables[t]) /\ x.changed[t] = Cardinality(ChangedKeysIn(x.tables[t]))
    BY DEF TxnOK
  <2>2. EntriesOK(db, t, x.tables[t])
    BY <2>1 DEF OverlayOK
  <2>3. IsFiniteSet(ChangedKeysIn(x.tables[t]))
    BY <2>2, KeysInFinite
  <2> QED
    BY <2>1, <2>3, FS_CardinalityType
<1>2. PatchedCounts(x, patch)[t]
        = x.changed[t] + ChangedIn(PatchEntries(patch), t) - ChangedIn(ReplacedEntries(x, patch), t)
  BY DEF PatchedCounts
<1>3. CASE t \notin DOMAIN patch.tables
  <2>1. InstalledIn(x, patch, t) = x.tables[t]
    BY <1>3 DEF InstalledIn
  <2>2. ChangedIn(PatchEntries(patch), t) = 0
    BY <1>3, NotPatched
  <2>3. ChangedIn(ReplacedEntries(x, patch), t) = 0
    BY <1>3, NotPatched
  <2> QED
    BY <1>1, <1>2, <2>1, <2>2, <2>3
<1>4. CASE t \in DOMAIN patch.tables
  <2> DEFINE p == patch.tables[t]
             r == InstalledIn(x, patch, t)
             e == p.entries
  <2>1. TablePatchOK(db, x, t, p)
    BY <1>4 DEF PatchOK
  <2>2. r = InstallTable(x.tables[t], p.entries, p.deletes)
    BY <1>4 DEF InstalledIn
  <2>3. DOMAIN e = 1..Len(e)
    BY <2>1 DEF TablePatchOK
  <2>4. {i \in DOMAIN e : e[i].entry.changed} = ChangesAt(e, Len(e))
        /\ {i \in DOMAIN e : e[i].key \in ChangedKeysIn(x.tables[t])} = ReplacesAt(x.tables[t], e)
    BY <2>3 DEF ChangesAt, ReplacesAt
  <2>5. ChangedIn(PatchEntries(patch), t) = Cardinality(ChangesAt(e, Len(e)))
    BY <1>4, ChangedInPatch
  <2>6. ChangedIn(ReplacedEntries(x, patch), t) = Cardinality(ReplacesAt(x.tables[t], e))
    BY <1>4, ChangedReplaced
  <2> HIDE DEF p, r
  <2>7. OverlayOK(db, t, r)
    BY <1>1, <2>1, <2>2, InstalledOverlayOK
  <2>8. Cardinality(ChangedKeysIn(r)) = Cardinality(ChangedKeysIn(x.tables[t]))
                    + Cardinality({i \in DOMAIN p.entries : p.entries[i].entry.changed})
                    - Cardinality({i \in DOMAIN p.entries :
                                    p.entries[i].key \in ChangedKeysIn(x.tables[t])})
    BY <1>1, <2>1, <2>2, InstalledOverlayOK
  <2>9. PatchedCounts(x, patch)[t] = Cardinality(ChangedKeysIn(r))
    BY <1>1, <1>2, <2>4, <2>5, <2>6, <2>8
  <2> QED
    BY <2>7, <2>9 DEF r
<1> QED
  BY <1>3, <1>4

\* An entry of a patch.
Patched(patch, t, k, e) == [table |-> t, key |-> k, entry |-> e] \in PatchEntries(patch)

\* A patch's entries are those of its tables.
LEMMA PatchedIs ==
    ASSUME NEW db, NEW x, NEW patch, PatchOK(db, x, patch)
    PROVE  /\ \A t, k, e : Patched(patch, t, k, e) <=>
                /\ t \in DOMAIN patch.tables
                /\ \E i \in DOMAIN patch.tables[t].entries :
                    patch.tables[t].entries[i].key = k /\ patch.tables[t].entries[i].entry = e
           /\ \A f \in PatchEntries(patch) :
                f = [table |-> f.table, key |-> f.key, entry |-> f.entry]
                /\ Patched(patch, f.table, f.key, f.entry)
<1>1. ASSUME NEW f \in PatchEntries(patch)
      PROVE  f = [table |-> f.table, key |-> f.key, entry |-> f.entry]
             /\ Patched(patch, f.table, f.key, f.entry)
  <2>1. PICK t \in DOMAIN patch.tables : \E e \in Range(patch.tables[t].entries) : ListedAs(t, e, f)
    BY PatchEntriesAre
  <2>2. PICK e \in Range(patch.tables[t].entries) : ListedAs(t, e, f)
    BY <2>1
  <2>3. f = [table |-> t, key |-> e.key, entry |-> e.entry]
    BY <2>2 DEF ListedAs
  <2>4. f.table = t /\ f.key = e.key /\ f.entry = e.entry
    BY <2>3
  <2>5. f = [table |-> f.table, key |-> f.key, entry |-> f.entry]
    BY <2>3, <2>4
  <2> QED
    BY <2>5 DEF Patched
<1>2. ASSUME NEW t, NEW k, NEW e, Patched(patch, t, k, e)
      PROVE  /\ t \in DOMAIN patch.tables
             /\ \E i \in DOMAIN patch.tables[t].entries :
                    patch.tables[t].entries[i].key = k /\ patch.tables[t].entries[i].entry = e
  <2> DEFINE f == [table |-> t, key |-> k, entry |-> e]
  <2>1. f \in PatchEntries(patch) /\ f.table = t /\ f.key = k /\ f.entry = e
    BY <1>2 DEF Patched
  <2> HIDE DEF f
  <2>2. PICK u \in DOMAIN patch.tables : \E d \in Range(patch.tables[u].entries) : ListedAs(u, d, f)
    BY <2>1, PatchEntriesAre
  <2>3. PICK d \in Range(patch.tables[u].entries) : ListedAs(u, d, f)
    BY <2>2
  <2>4. f = [table |-> u, key |-> d.key, entry |-> d.entry]
    BY <2>3 DEF ListedAs
  <2>5. u = t /\ d.key = k /\ d.entry = e
    BY <2>1, <2>4
  <2> QED
    BY <2>3, <2>5 DEF Range
<1>3. ASSUME NEW t \in DOMAIN patch.tables, NEW i \in DOMAIN patch.tables[t].entries
      PROVE  Patched(patch, t, patch.tables[t].entries[i].key, patch.tables[t].entries[i].entry)
  <2> DEFINE d == patch.tables[t].entries[i]
             f == [table |-> t, key |-> d.key, entry |-> d.entry]
  <2>1. d \in Range(patch.tables[t].entries)
    BY DEF Range
  <2>2. ListedAs(t, d, f)
    BY DEF ListedAs
  <2> HIDE DEF f
  <2>3. f \in PatchEntries(patch)
    BY <2>1, <2>2, PatchEntriesAre
  <2> QED
    BY <2>3 DEF Patched, f
<1> QED
  BY <1>1, <1>2, <1>3

\* An entry of a patch is one its key may have.
LEMMA PatchedEntryIs ==
    ASSUME NEW db, NEW x, NEW patch, PatchOK(db, x, patch), NEW t, NEW k, NEW e,
           Patched(patch, t, k, e)
    PROVE  /\ t \in Tables /\ k \in Keys(t)
           /\ e = EntryFor(db, t, k, e.next)
           /\ IsEntry(db, t, k, e)
<1>1. /\ t \in DOMAIN patch.tables
      /\ \E i \in DOMAIN patch.tables[t].entries :
            patch.tables[t].entries[i].key = k /\ patch.tables[t].entries[i].entry = e
  BY PatchedIs
<1>2. PICK i \in DOMAIN patch.tables[t].entries :
            patch.tables[t].entries[i].key = k /\ patch.tables[t].entries[i].entry = e
  BY <1>1
<1>3. t \in Tables /\ patch.tables[t].entries \in Seq(StagedEntries(db, t))
  BY <1>1 DEF PatchOK, TablePatchOK
<1>4. patch.tables[t].entries[i] \in StagedEntries(db, t)
  BY <1>3
<1>5. LET d == patch.tables[t].entries[i]
      IN  /\ d.key \in Keys(t)
          /\ d.entry = EntryFor(db, t, d.key, d.entry.next)
          /\ d.entry.old = CommittedRow(db, t, d.key)
          /\ d.entry.next \in Under(t, d.key)
          /\ d.entry.changed = (d.entry.old # d.entry.next)
  BY <1>4, StagedEntryIs
<1> QED
  BY <1>2, <1>3, <1>5 DEF IsEntry

\* A key has one entry in a patch.
LEMMA PatchedOnce ==
    ASSUME NEW db, NEW x, NEW patch, PatchOK(db, x, patch), NEW t, NEW k, NEW e, NEW d,
           Patched(patch, t, k, e), Patched(patch, t, k, d)
    PROVE  e = d
<1> DEFINE es == patch.tables[t].entries
<1>1. /\ t \in DOMAIN patch.tables
      /\ \E i \in DOMAIN es : es[i].key = k /\ es[i].entry = e
      /\ \E j \in DOMAIN es : es[j].key = k /\ es[j].entry = d
  BY PatchedIs
<1>2. \A i, j \in DOMAIN es : es[i].key = es[j].key => i = j
  BY <1>1 DEF PatchOK, TablePatchOK
<1> HIDE DEF es
<1> QED
  BY <1>1, <1>2

\* What is staged once a patch is in place: its entries, and the others under the other keys.
EntriesAfter(x, patch, t, r) ==
    /\ \A k, e : Patched(patch, t, k, e) => k \in KeysIn(r) /\ EntryAt(r, k) = e
    /\ \A k : (\A e : ~Patched(patch, t, k, e)) =>
        /\ k \in KeysIn(r) <=> k \in KeysIn(x.tables[t])
        /\ k \in KeysIn(r) => EntryAt(r, k) = EntryAt(x.tables[t], k)

\* Installing a patch stages so.
LEMMA InstalledEntries ==
    ASSUME NEW db, NEW x, NEW patch, PatchOK(db, x, patch), NEW t \in Tables,
           OverlayOK(db, t, x.tables[t])
    PROVE  EntriesAfter(x, patch, t, InstalledIn(x, patch, t))
<1> DEFINE r == InstalledIn(x, patch, t)
           o == x.tables[t]
           p == patch.tables[t]
           es == p.entries
<1>1. CASE t \notin DOMAIN patch.tables
  <2>1. r = o
    BY <1>1 DEF InstalledIn
  <2>2. \A k, e : ~Patched(patch, t, k, e)
    BY <1>1, PatchedIs
  <2> QED
    BY <2>1, <2>2 DEF EntriesAfter
<1>2. CASE t \in DOMAIN patch.tables
  <2>1. r = InstallTable(o, es, p.deletes)
    BY <1>2 DEF InstalledIn
  <2>2. /\ es \in Seq(StagedEntries(db, t)) /\ Len(es) \in Nat /\ DOMAIN es = 1..Len(es)
        /\ \A i, j \in DOMAIN es : es[i].key = es[j].key => i = j
    <3>1. TablePatchOK(db, x, t, p)
      BY <1>2 DEF PatchOK
    <3>2. es \in Seq(StagedEntries(db, t)) /\ \A i, j \in DOMAIN es : es[i].key = es[j].key => i = j
      BY <3>1 DEF TablePatchOK
    <3> HIDE DEF es
    <3> QED
      BY <3>2
  <2>3. SoundOverlay(db, t, o)
    BY DEF OverlayOK, SoundOverlay
  <2>4. \A k, e : Patched(patch, t, k, e) <=> \E i \in DOMAIN es : es[i].key = k /\ es[i].entry = e
    BY <1>2, PatchedIs
  <2>5. InstalledUpTo(db, t, o, es, p.deletes, Len(es), r)
    <3> HIDE DEF o, es
    <3> QED
      BY <2>1, <2>2, <2>3, InstallTableIs
  <2> HIDE DEF r, o, es, p
  <2>6. \A k, e : Patched(patch, t, k, e) => k \in KeysIn(r) /\ EntryAt(r, k) = e
    BY <2>2, <2>4, <2>5 DEF InstalledUpTo
  <2>7. ASSUME NEW k, \A e : ~Patched(patch, t, k, e)
        PROVE  /\ k \in KeysIn(r) <=> k \in KeysIn(o)
               /\ k \in KeysIn(r) => EntryAt(r, k) = EntryAt(o, k)
    <3>1. ASSUME NEW i \in 1..Len(es), es[i].key = k PROVE FALSE
      <4>1. Patched(patch, t, k, es[i].entry)
        BY <2>2, <2>4, <3>1
      <4> QED
        BY <2>7, <4>1
    <3> QED
      BY <2>5, <3>1 DEF InstalledUpTo
  <2>8. EntriesAfter(x, patch, t, r)
    BY <2>6, <2>7 DEF EntriesAfter, o
  <2> QED
    BY <2>8 DEF r
<1> QED
  BY <1>1, <1>2

\* A key that is changed in place keeps its entry, or has one of the patch.
LEMMA ChangedAfter ==
    ASSUME NEW x, NEW patch, NEW t, NEW r, EntriesAfter(x, patch, t, r), NEW k
    PROVE  /\ \A e : Patched(patch, t, k, e) => (k \in ChangedKeysIn(r) <=> e.changed) /\ EntryAt(r, k) = e
           /\ (\A e : ~Patched(patch, t, k, e)) =>
                /\ k \in ChangedKeysIn(r) <=> k \in ChangedKeysIn(x.tables[t])
                /\ k \in ChangedKeysIn(r) => EntryAt(r, k) = EntryAt(x.tables[t], k)
<1>1. \A o : k \in ChangedKeysIn(o) <=> k \in KeysIn(o) /\ EntryAt(o, k).changed
  BY DEF ChangedKeysIn
<1> QED
  BY <1>1 DEF EntriesAfter

\* The check of a changed row asks whether it is changed once the patch is in place.
LEMMA ChangesRowIs ==
    ASSUME NEW db, NEW x, NEW patch, PatchOK(db, x, patch), NEW t, NEW k
    PROVE  ChangesRow(x, patch, t, k) <=>
            \/ \E e : Patched(patch, t, k, e) /\ e.changed
            \/ (\A e : ~Patched(patch, t, k, e)) /\ k \in ChangedKeysIn(x.tables[t])
<1> DEFINE mine == {f \in PatchEntries(patch) : f.table = t /\ f.key = k}
<1>1. ASSUME NEW f \in mine PROVE Patched(patch, t, k, f.entry)
  <2>1. f \in PatchEntries(patch) /\ f.table = t /\ f.key = k
    OBVIOUS
  <2> HIDE DEF mine
  <2> QED
    BY <2>1, PatchedIs
<1>2. ASSUME NEW e, Patched(patch, t, k, e) PROVE \E f \in mine : f.entry = e
  <2> DEFINE f == [table |-> t, key |-> k, entry |-> e]
  <2>1. f \in PatchEntries(patch) /\ f.table = t /\ f.key = k /\ f.entry = e
    BY <1>2 DEF Patched
  <2> QED
    BY <2>1
<1>3. ChangesRow(x, patch, t, k) <=>
        IF mine # {} THEN \E e \in mine : e.entry.changed
        ELSE k \in KeysIn(x.tables[t]) /\ EntryAt(x.tables[t], k).changed
  BY DEF ChangesRow
<1> HIDE DEF mine
<1>4. CASE mine = {}
  BY <1>2, <1>3, <1>4 DEF ChangedKeysIn
<1>5. CASE mine # {}
  BY <1>1, <1>2, <1>3, <1>5
<1> QED
  BY <1>4, <1>5

\* The values a patch's entries claim.
LEMMA MadeAre ==
    ASSUME NEW db, NEW x, NEW patch, PatchOK(db, x, patch), NEW s
    PROVE  /\ s \in Slots(PatchEntries(patch)) <=>
                \E t \in Tables : \E k, e : Patched(patch, t, k, e) /\ e.changed /\ Takes(t, e.next, s)
           /\ \A f \in PatchEntries(patch) :
                (\E c \in f.entry.cost.claims : c.slot = s) <=> f.entry.changed /\ Takes(f.table, f.entry.next, s)
<1>1. ASSUME NEW f \in PatchEntries(patch)
      PROVE  /\ Patched(patch, f.table, f.key, f.entry) /\ f.table \in Tables
             /\ (\E c \in f.entry.cost.claims : c.slot = s) <=> f.entry.changed /\ Takes(f.table, f.entry.next, s)
  <2>1. Patched(patch, f.table, f.key, f.entry)
    BY PatchedIs
  <2>2. f.table \in Tables /\ f.entry = EntryFor(db, f.table, f.key, f.entry.next)
    BY <2>1, PatchedEntryIs
  <2> QED
    BY <2>1, <2>2, EntryClaims
<1>2. s \in Slots(PatchEntries(patch)) <=>
        \E f \in PatchEntries(patch) : \E c \in f.entry.cost.claims : c.slot = s
  BY DEF Slots
<1>3. ASSUME NEW t, NEW k, NEW e, Patched(patch, t, k, e), e.changed, Takes(t, e.next, s)
      PROVE  s \in Slots(PatchEntries(patch))
  <2> DEFINE f == [table |-> t, key |-> k, entry |-> e]
  <2>1. f \in PatchEntries(patch) /\ f.table = t /\ f.entry = e
    BY <1>3 DEF Patched
  <2> HIDE DEF f
  <2> QED
    BY <1>1, <1>2, <1>3, <2>1
<1> QED
  BY <1>1, <1>2, <1>3

\* The values the entries it replaces had claimed.
LEMMA ReleasedAre ==
    ASSUME NEW db, NEW x, NEW patch, PatchOK(db, x, patch), NEW s,
           \A t \in Tables : EntriesOK(db, t, x.tables[t])
    PROVE  s \in Slots(ReplacedEntries(x, patch)) <=>
            \E t \in Tables : \E k, e : Patched(patch, t, k, e) /\ ClaimedBy(x.tables, t, k, s)
<1> DEFINE R == ReplacedEntries(x, patch)
<1>1. s \in Slots(R) <=> \E f \in R : \E c \in f.entry.cost.claims : c.slot = s
  BY DEF Slots
<1>2. ASSUME NEW t \in Tables, NEW k \in KeysIn(x.tables[t])
      PROVE  (\E c \in EntryAt(x.tables[t], k).cost.claims : c.slot = s) <=> ClaimedBy(x.tables, t, k, s)
  <2>1. EntriesOK(db, t, x.tables[t])
    OBVIOUS
  <2>2. PICK d \in StagedEntries(db, t) : d.key = k /\ d.entry = EntryAt(x.tables[t], k)
    <3>1. x.tables[t].rows[Find(x.tables[t], k)] = [key |-> k, entry |-> EntryAt(x.tables[t], k)]
          /\ x.tables[t].rows[Find(x.tables[t], k)] \in StagedEntries(db, t)
      BY <2>1, EntryAtIs
    <3> QED
      BY <3>1
  <2>3. EntryAt(x.tables[t], k) = EntryFor(db, t, k, EntryAt(x.tables[t], k).next)
    BY <2>2, StagedEntryIs
  <2>4. (\E c \in EntryAt(x.tables[t], k).cost.claims : c.slot = s) <=>
            EntryAt(x.tables[t], k).changed /\ Takes(t, EntryAt(x.tables[t], k).next, s)
    BY <2>3, EntryClaims
  <2> QED
    BY <2>4 DEF ClaimedBy, ChangedKeysIn
<1>3. ASSUME NEW t \in Tables, NEW k, NEW e, Patched(patch, t, k, e), ClaimedBy(x.tables, t, k, s)
      PROVE  s \in Slots(R)
  <2> DEFINE h == [table |-> t, key |-> k, entry |-> e]
             f == [table |-> t, key |-> k, entry |-> EntryAt(x.tables[t], k)]
  <2>1. h \in PatchEntries(patch) /\ h.table = t /\ h.key = k
    BY <1>3 DEF Patched
  <2>2. k \in KeysIn(x.tables[t])
    BY <1>3 DEF ClaimedBy, ChangedKeysIn
  <2>3. patch.replaces
    <3>1. t \in DOMAIN patch.tables /\ \E i \in DOMAIN patch.tables[t].entries :
                patch.tables[t].entries[i].key = k
      BY <1>3, PatchedIs
    <3> QED
      BY <2>2, <3>1 DEF PatchOK
  <2>4. f = [table |-> h.table, key |-> h.key, entry |-> EntryAt(x.tables[h.table], h.key)]
    BY <2>1
  <2>5. f.entry = EntryAt(x.tables[t], k)
    OBVIOUS
  <2> HIDE DEF h, f
  <2>6. f \in R
    BY <2>1, <2>2, <2>3, <2>4 DEF ReplacedEntries
  <2>7. \E c \in f.entry.cost.claims : c.slot = s
    BY <1>2, <1>3, <2>2, <2>5
  <2> QED
    BY <1>1, <2>6, <2>7
<1>4. ASSUME NEW f \in R, \E c \in f.entry.cost.claims : c.slot = s
      PROVE  \E t \in Tables : \E k, e : Patched(patch, t, k, e) /\ ClaimedBy(x.tables, t, k, s)
  <2>1. PICK h \in PatchEntries(patch) :
            /\ h.key \in KeysIn(x.tables[h.table])
            /\ f = [table |-> h.table, key |-> h.key, entry |-> EntryAt(x.tables[h.table], h.key)]
    BY DEF ReplacedEntries
  <2>2. Patched(patch, h.table, h.key, h.entry)
    BY PatchedIs
  <2>3. h.table \in Tables
    BY <2>2, PatchedEntryIs
  <2>4. f.entry = EntryAt(x.tables[h.table], h.key)
    BY <2>1
  <2>5. ClaimedBy(x.tables, h.table, h.key, s)
    BY <1>2, <1>4, <2>1, <2>3, <2>4
  <2> QED
    BY <2>2, <2>3, <2>5
<1> HIDE DEF R
<1> QED
  BY <1>1, <1>3, <1>4 DEF R

\* No other staged row holds a value.
FreeOf(x, patch, k, s) ==
    s \in Slots(ReplacedEntries(x, patch)) \/ s \notin DOMAIN x.claims \/ x.claims[s] \in {NoRow, k}

\* What a patch whose claims are free says of one of its entries.
LEMMA FreeMeans ==
    ASSUME NEW db, StorageOK(db), NEW x, NEW patch, PatchOK(db, x, patch), ClaimsAreFree(x, patch),
           NEW t, NEW k, NEW e, Patched(patch, t, k, e), NEW s
    PROVE  /\ e.changed /\ Takes(t, e.next, s) =>
                /\ \A j, d : Patched(patch, t, j, d) /\ d.changed /\ Takes(t, d.next, s) => j = k
                /\ FreeOf(x, patch, k, s)
                /\ \A j : Takes(t, CommittedRow(db, t, j), s) => j = k \/ ChangesRow(x, patch, t, j)
           /\ ~e.changed /\ Takes(t, e.old, s) => FreeOf(x, patch, k, s)
<1> DEFINE E == PatchEntries(patch)
           Claims(f, v) == \E c \in f.entry.cost.claims : c.slot = v
           Holder(v) == IF v \in Slots(ReplacedEntries(x, patch)) \/ v \notin DOMAIN x.claims THEN NoRow
                        ELSE x.claims[v]
           Other(f, v) == \/ \E g \in E : g.table = f.table /\ g.key # f.key /\ Claims(g, v)
                          \/ Holder(v) \notin {NoRow, f.key}
           me == [table |-> t, key |-> k, entry |-> e]
<1>1. \A f \in E :
            /\ \A c \in f.entry.cost.claims :
                /\ ~Other(f, c.slot)
                /\ \A o \in c.owners : o = f.key \/ ChangesRow(x, patch, f.table, o)
            /\ (~f.entry.changed /\ f.entry.old # NoRow) =>
                \A v \in UniqueValues(f.table, f.entry.old) : ~Other(f, v)
  BY DEF ClaimsAreFree
<1>2. me \in E /\ me.table = t /\ me.key = k /\ me.entry = e
  BY DEF Patched
<1>3. t \in Tables /\ e = EntryFor(db, t, k, e.next)
  BY PatchedEntryIs
<1>4. ASSUME NEW v PROVE (Holder(v) \in {NoRow, k}) => FreeOf(x, patch, k, v)
  BY DEF FreeOf
<1>5. ASSUME NEW j, NEW d, Patched(patch, t, j, d), d.changed, Takes(t, d.next, s), j # k
      PROVE  Other(me, s)
  <2> DEFINE g == [table |-> t, key |-> j, entry |-> d]
  <2>1. g \in E /\ g.table = t /\ g.key = j /\ g.entry = d
    BY <1>5 DEF Patched
  <2> HIDE DEF g
  <2>2. Claims(g, s)
    <3>1. (\E c \in g.entry.cost.claims : c.slot = s) <=> g.entry.changed /\ Takes(g.table, g.entry.next, s)
      BY <2>1, MadeAre
    <3> QED
      BY <1>5, <2>1, <3>1
  <2> QED
    BY <1>2, <1>5, <2>1, <2>2
<1>6. ~Other(me, s) => Holder(s) \in {NoRow, k}
  BY <1>2
<1> HIDE DEF me, Holder
<1>7. ASSUME e.changed, Takes(t, e.next, s)
      PROVE  /\ ~Other(me, s)
             /\ \A j : Takes(t, CommittedRow(db, t, j), s) => j = k \/ ChangesRow(x, patch, t, j)
  <2>1. PICK c \in e.cost.claims : c.slot = s /\ c.owners = CommittedOwners(db, s.index, s.value)
    BY <1>3, <1>7, EntryClaims
  <2>2. /\ ~Other(me, c.slot)
        /\ \A o \in c.owners : o = k \/ ChangesRow(x, patch, t, o)
    BY <1>1, <1>2, <2>1
  <2>3. \A j : j \in CommittedOwners(db, s.index, s.value) <=> Takes(t, CommittedRow(db, t, j), s)
    BY <1>3, <1>7, OwnersTake
  <2> HIDE DEF Other
  <2> QED
    BY <2>1, <2>2, <2>3
<1>8. ASSUME ~e.changed, Takes(t, e.old, s) PROVE ~Other(me, s)
  <2>1. e.old # NoRow /\ s \in UniqueValues(t, e.old)
    BY <1>8 DEF Takes
  <2> HIDE DEF Other
  <2> QED
    BY <1>1, <1>2, <1>8, <2>1
<1> HIDE DEF Other
<1> QED
  BY <1>4, <1>5, <1>6, <1>7, <1>8

\* A staged row the patch does not replace keeps what it claims.
LEMMA ClaimKept ==
    ASSUME NEW db, NEW x, NEW patch, PatchOK(db, x, patch), ClaimsOK(db, x.tables, x.claims),
           \A u \in Tables : EntriesOK(db, u, x.tables[u]),
           NEW t \in Tables, NEW k, \A e : ~Patched(patch, t, k, e), NEW s, ClaimedBy(x.tables, t, k, s)
    PROVE  /\ s \notin Slots(ReplacedEntries(x, patch))
           /\ s \in DOMAIN x.claims /\ x.claims[s] = k /\ k # NoRow
<1>1. s \in DOMAIN x.claims /\ x.claims[s] = k
  BY DEF ClaimsOK
<1>2. ASSUME s \in Slots(ReplacedEntries(x, patch)) PROVE FALSE
  <2>1. PICK u \in Tables : \E j, e : Patched(patch, u, j, e) /\ ClaimedBy(x.tables, u, j, s)
    BY <1>2, ReleasedAre
  <2>2. PICK j, e : Patched(patch, u, j, e) /\ ClaimedBy(x.tables, u, j, s)
    BY <2>1
  <2>3. x.claims[s] = j
    BY <2>2 DEF ClaimsOK
  <2>4. s.index.table = u /\ s.index.table = t
    BY <2>2, TakesIs DEF ClaimedBy
  <2> QED
    BY <1>1, <2>2, <2>3, <2>4
<1>3. k \in Keys(t)
  <2>1. k \in KeysIn(x.tables[t])
    BY DEF ClaimedBy, ChangedKeysIn
  <2> QED
    BY <2>1, EntryAtIs
<1>4. NoRow \notin Keys(t)
  BY CatalogAssumption DEF Keys
<1> QED
  BY <1>1, <1>2, <1>3, <1>4

\* The claims with a patch in place.
LEMMA PatchedClaimsAre ==
    ASSUME NEW db, StorageOK(db), NEW x, NEW patch, PatchOK(db, x, patch), ClaimsAreFree(x, patch),
           NEW s
    PROVE  LET made == Slots(PatchEntries(patch))
               after == PatchedClaims(x, patch)
           IN  /\ s \in DOMAIN after <=> s \in DOMAIN x.claims \/ s \in made
               /\ \A t \in Tables : \A k, e :
                    Patched(patch, t, k, e) /\ e.changed /\ Takes(t, e.next, s) => after[s] = k
               /\ (s \in DOMAIN x.claims /\ s \notin made) =>
                    after[s] = IF s \in Slots(ReplacedEntries(x, patch)) THEN NoRow ELSE x.claims[s]
<1> DEFINE made == Slots(PatchEntries(patch))
           after == PatchedClaims(x, patch)
           Makes(f) == \E c \in f.entry.cost.claims : c.slot = s
<1>1. /\ s \in DOMAIN after <=> s \in DOMAIN x.claims \/ s \in made
      /\ s \in made => after[s] = (CHOOSE f \in PatchEntries(patch) : Makes(f)).key
      /\ (s \in DOMAIN x.claims /\ s \notin made) =>
            after[s] = IF s \in Slots(ReplacedEntries(x, patch)) THEN NoRow ELSE x.claims[s]
  BY DEF PatchedClaims
<1>2. ASSUME NEW t \in Tables, NEW k, NEW e, Patched(patch, t, k, e), e.changed, Takes(t, e.next, s)
      PROVE  after[s] = k
  <2> DEFINE g == CHOOSE f \in PatchEntries(patch) : Makes(f)
             me == [table |-> t, key |-> k, entry |-> e]
  <2>1. s \in made
    BY <1>2, MadeAre
  <2>2. me \in PatchEntries(patch) /\ me.table = t /\ me.entry = e
    BY <1>2 DEF Patched
  <2> HIDE DEF me
  <2>3. Makes(me)
    <3>1. (\E c \in me.entry.cost.claims : c.slot = s) <=> me.entry.changed /\ Takes(me.table, me.entry.next, s)
      BY <2>2, MadeAre
    <3> QED
      BY <1>2, <2>2, <3>1
  <2>4. g \in PatchEntries(patch) /\ Makes(g)
    BY <2>2, <2>3
  <2> HIDE DEF g
  <2>5. Patched(patch, g.table, g.key, g.entry) /\ g.entry.changed /\ Takes(g.table, g.entry.next, s)
    <3>1. (\E c \in g.entry.cost.claims : c.slot = s) <=> g.entry.changed /\ Takes(g.table, g.entry.next, s)
      BY <2>4, MadeAre
    <3>2. Patched(patch, g.table, g.key, g.entry)
      BY <2>4, PatchedIs
    <3> QED
      BY <2>4, <3>1, <3>2
  <2>6. g.table = t
    BY <1>2, <2>5, TakesIs
  <2>7. g.key = k
    BY <1>2, <2>5, <2>6, FreeMeans
  <2> QED
    BY <1>1, <2>1, <2>7 DEF g
<1> QED
  BY <1>1, <1>2

\* Claims that were free are sound once the patch is in place.
LEMMA InstalledClaims ==
    ASSUME NEW db, StorageOK(db), NEW x, NEW patch, PatchOK(db, x, patch), ClaimsAreFree(x, patch),
           ClaimsOK(db, x.tables, x.claims),
           \A t \in Tables : OverlayOK(db, t, x.tables[t]),
           NEW tables, tables = [t \in Tables |-> InstalledIn(x, patch, t)]
    PROVE  ClaimsOK(db, tables, PatchedClaims(x, patch))
<1> DEFINE after == PatchedClaims(x, patch)
           made == Slots(PatchEntries(patch))
           released == Slots(ReplacedEntries(x, patch))
<1>1. \A t \in Tables : EntriesOK(db, t, x.tables[t])
  BY DEF OverlayOK
<1>2. \A t \in Tables : tables[t] = InstalledIn(x, patch, t) /\ EntriesAfter(x, patch, t, tables[t])
  BY InstalledEntries
<1>3. ASSUME NEW t \in Tables, NEW k
      PROVE  /\ \A e : Patched(patch, t, k, e) =>
                    (k \in ChangedKeysIn(tables[t]) <=> e.changed) /\ EntryAt(tables[t], k) = e
             /\ (\A e : ~Patched(patch, t, k, e)) =>
                    /\ k \in ChangedKeysIn(tables[t]) <=> k \in ChangedKeysIn(x.tables[t])
                    /\ k \in ChangedKeysIn(tables[t]) => EntryAt(tables[t], k) = EntryAt(x.tables[t], k)
  BY <1>2, ChangedAfter
<1>4. \A t \in Tables : \A k : ChangesRow(x, patch, t, k) => k \in ChangedKeysIn(tables[t])
  BY <1>3, ChangesRowIs
<1> HIDE DEF after, made, released
<1>5. ASSUME NEW t \in Tables, NEW k, NEW s, ClaimedBy(tables, t, k, s)
      PROVE  /\ s \in DOMAIN after /\ after[s] = k
             /\ \A j : Takes(t, CommittedRow(db, t, j), s) => j = k \/ j \in ChangedKeysIn(tables[t])
  <2>1. CASE \E e : Patched(patch, t, k, e)
    <3>1. PICK e : Patched(patch, t, k, e)
      BY <2>1
    <3>2. e.changed /\ Takes(t, e.next, s)
      BY <1>3, <1>5, <3>1 DEF ClaimedBy
    <3>3. s \in made
      BY <3>1, <3>2, MadeAre DEF made
    <3>4. s \in DOMAIN after /\ after[s] = k
      BY <3>1, <3>2, <3>3, PatchedClaimsAre DEF made, after
    <3>5. \A j : Takes(t, CommittedRow(db, t, j), s) => j = k \/ ChangesRow(x, patch, t, j)
      BY <3>1, <3>2, FreeMeans
    <3> QED
      BY <1>4, <3>4, <3>5
  <2>2. CASE \A e : ~Patched(patch, t, k, e)
    <3>1. ClaimedBy(x.tables, t, k, s)
      BY <1>3, <1>5, <2>2 DEF ClaimedBy
    <3>2. s \notin released /\ s \in DOMAIN x.claims /\ x.claims[s] = k /\ k # NoRow
      BY <1>1, <2>2, <3>1, ClaimKept DEF released
    <3>3. s \notin made
      <4>1. SUFFICES ASSUME s \in made PROVE FALSE
        OBVIOUS
      <4>2. PICK u \in Tables : \E j, e : Patched(patch, u, j, e) /\ e.changed /\ Takes(u, e.next, s)
        BY <4>1, MadeAre DEF made
      <4>3. PICK j, e : Patched(patch, u, j, e) /\ e.changed /\ Takes(u, e.next, s)
        BY <4>2
      <4>4. u = t
        BY <3>1, <4>3, TakesIs DEF ClaimedBy
      <4>5. FreeOf(x, patch, j, s)
        BY <4>3, FreeMeans
      <4>6. j = k
        BY <3>2, <4>5 DEF FreeOf, released
      <4> QED
        BY <2>2, <4>3, <4>4, <4>6
    <3>4. s \in DOMAIN after /\ after[s] = k
      BY <3>2, <3>3, PatchedClaimsAre DEF made, after, released
    <3>5. ASSUME NEW j, Takes(t, CommittedRow(db, t, j), s), j # k PROVE j \in ChangedKeysIn(tables[t])
      <4>1. j \in ChangedKeysIn(x.tables[t])
        BY <3>1, <3>5 DEF ClaimsOK
      <4>2. ASSUME NEW e, Patched(patch, t, j, e) PROVE e.changed
        <5>1. SUFFICES ASSUME ~e.changed PROVE FALSE
          BY <4>2, PatchedEntryIs DEF IsEntry
        <5>2. e.old = CommittedRow(db, t, j)
          BY <4>2, PatchedEntryIs DEF IsEntry
        <5>3. FreeOf(x, patch, j, s)
          BY <3>5, <4>2, <5>1, <5>2, FreeMeans
        <5> QED
          BY <3>2, <3>5, <5>3 DEF FreeOf, released
      <4> QED
        BY <1>3, <4>1, <4>2
    <3> QED
      BY <3>4, <3>5
  <2> QED
    BY <2>1, <2>2
<1>6. ASSUME NEW s \in DOMAIN after, after[s] # NoRow
      PROVE  \E t \in Tables : ClaimedBy(tables, t, after[s], s)
  <2>1. CASE s \in made
    <3>1. PICK t \in Tables : \E k, e : Patched(patch, t, k, e) /\ e.changed /\ Takes(t, e.next, s)
      BY <2>1, MadeAre DEF made
    <3>2. PICK k, e : Patched(patch, t, k, e) /\ e.changed /\ Takes(t, e.next, s)
      BY <3>1
    <3>3. after[s] = k
      BY <3>2, PatchedClaimsAre DEF after
    <3>4. ClaimedBy(tables, t, k, s)
      BY <1>3, <3>2 DEF ClaimedBy
    <3> QED
      BY <3>3, <3>4
  <2>2. CASE s \notin made
    <3>1. s \in DOMAIN x.claims
      BY <1>6, <2>2, PatchedClaimsAre DEF after, made
    <3>2. s \notin released /\ after[s] = x.claims[s]
      <4>1. after[s] = IF s \in released THEN NoRow ELSE x.claims[s]
        BY <2>2, <3>1, PatchedClaimsAre DEF after, made, released
      <4> QED
        BY <1>6, <4>1
    <3>3. PICK t \in Tables : ClaimedBy(x.tables, t, x.claims[s], s)
      BY <1>6, <3>1, <3>2 DEF ClaimsOK
    <3>4. \A e : ~Patched(patch, t, x.claims[s], e)
      BY <1>1, <3>2, <3>3, ReleasedAre DEF released
    <3>5. ClaimedBy(tables, t, x.claims[s], s)
      BY <1>3, <3>3, <3>4 DEF ClaimedBy
    <3> QED
      BY <3>2, <3>5
  <2> QED
    BY <2>1, <2>2
<1>7. ClaimsOK(db, tables, after)
  BY <1>5, <1>6 DEF ClaimsOK
<1> QED
  BY <1>7 DEF after

\* An overlay that gains entries has its table touched.
LEMMA InstallOK ==
    ASSUME NEW db, StorageOK(db), NEW x, TxnOK(db, x), NEW patch, PatchOK(db, x, patch),
           ClaimsAreFree(x, patch)
    PROVE  TxnOK(db, Install(x, patch))
<1> DEFINE r == Install(x, patch)
<1>1. /\ r = [base |-> r.base, tables |-> r.tables, touched |-> r.touched, keys |-> r.keys,
            bytes |-> r.bytes, operations |-> r.operations, changed |-> r.changed,
            claims |-> r.claims]
      /\ r.base = x.base
      /\ r.touched = x.touched \cup DOMAIN patch.tables
      /\ r.changed = PatchedCounts(x, patch)
      /\ r.tables = [t \in Tables |-> InstalledIn(x, patch, t)]
      /\ r.claims = PatchedClaims(x, patch)
  <2> DEFINE T == [t \in Tables |-> InstalledIn(x, patch, t)]
             U == x.touched \cup DOMAIN patch.tables
             P == PatchedTotals(x, patch)
             N == PatchedCounts(x, patch)
             C == PatchedClaims(x, patch)
  <2>1. T = [t \in Tables |-> IF t \in DOMAIN patch.tables
                THEN InstallTable(x.tables[t], patch.tables[t].entries, patch.tables[t].deletes)
                ELSE x.tables[t]]
    BY DEF InstalledIn
  <2>2. r = [x EXCEPT !.tables = T, !.touched = U, !.keys = P.keys, !.bytes = P.bytes,
                      !.operations = P.operations, !.changed = N, !.claims = C]
    BY <2>1 DEF Install
  <2>3. x = [base |-> x.base, tables |-> x.tables, touched |-> x.touched, keys |-> x.keys,
            bytes |-> x.bytes, operations |-> x.operations, changed |-> x.changed,
            claims |-> x.claims]
    BY DEF TxnOK
  <2> HIDE DEF T, U, P, N, C, r
  <2>4. r = [base |-> x.base, tables |-> T, touched |-> U, keys |-> P.keys, bytes |-> P.bytes,
             operations |-> P.operations, changed |-> N, claims |-> C]
    BY <2>2, <2>3
  <2> QED
    BY <2>4 DEF T, U, N, C
<1>2. PatchedCounts(x, patch) = [t \in Tables |-> PatchedCounts(x, patch)[t]]
  BY DEF PatchedCounts
<1> HIDE DEF r
<1>3. \A t \in Tables : /\ OverlayOK(db, t, r.tables[t])
                        /\ r.changed[t] = Cardinality(ChangedKeysIn(r.tables[t]))
  BY <1>1, InstalledCount
<1>4. r.changed = [t \in Tables |-> Cardinality(ChangedKeysIn(r.tables[t]))]
  BY <1>1, <1>2, <1>3
<1>5. ASSUME NEW t \in Tables, r.tables[t].rows # <<>> PROVE t \in r.touched
  <2>1. CASE t \in DOMAIN patch.tables
    BY <1>1, <2>1
  <2>2. CASE t \notin DOMAIN patch.tables
    <3>1. r.tables[t] = x.tables[t]
      BY <1>1, <2>2 DEF InstalledIn
    <3> QED
      BY <1>1, <1>5, <3>1 DEF TxnOK
  <2> QED
    BY <2>1, <2>2
<1>6. r.base = db.revision /\ r.tables = [t \in Tables |-> r.tables[t]]
  BY <1>1 DEF TxnOK
<1>7. ClaimsOK(db, r.tables, r.claims)
  <2>1. ClaimsOK(db, x.tables, x.claims) /\ \A t \in Tables : OverlayOK(db, t, x.tables[t])
    BY DEF TxnOK
  <2> QED
    BY <1>1, <2>1, InstalledClaims
<1> QED
  BY <1>1, <1>3, <1>4, <1>5, <1>6, <1>7 DEF TxnOK, r

\* A statement is staged or refused; a transaction is never found behind its storage.
StageErrors == {"none", "constraint", "too large"}
StagedOK(db, result) ==
    /\ result = [error |-> result.error, txn |-> result.txn]
    /\ result.error \in StageErrors
    /\ TxnOK(db, result.txn)

\* A patch is staged whole, or refused and the transaction is as it was.
LEMMA StagePatchOK ==
    ASSUME NEW db, StorageOK(db), NEW x, TxnOK(db, x), NEW patch, PatchOK(db, x, patch)
    PROVE  StagedOK(db, StagePatch(x, patch))
<1>1. ClaimsAreFree(x, patch) => TxnOK(db, Install(x, patch))
  BY InstallOK
<1>2. \/ StagePatch(x, patch) = Refused(x, "constraint")
      \/ StagePatch(x, patch) = Refused(x, "too large")
      \/ ClaimsAreFree(x, patch) /\ StagePatch(x, patch) = Staged(Install(x, patch))
  BY DEF StagePatch
<1> QED
  <2>1. ASSUME NEW e \in StageErrors, NEW y, TxnOK(db, y)
        PROVE  StagedOK(db, [error |-> e, txn |-> y])
    BY <2>1 DEF StagedOK
  <2>2. "none" \in StageErrors /\ "constraint" \in StageErrors /\ "too large" \in StageErrors
    BY DEF StageErrors
  <2> QED
    BY <1>1, <1>2, <2>1, <2>2 DEF Refused, Staged

\* A statement's changes are staged whole, or refused.
LEMMA StageOK ==
    ASSUME NEW db, StorageOK(db), NEW x, TxnOK(db, x), NEW changes \in Seq(Changes(db, x))
    PROVE  StagedOK(db, Stage(db, x, changes))
<1> DEFINE m == AddChanges(db, x, changes)
<1>1. MergedOK(db, x, m)
  BY AddChangesOK
<1>2. ChangesOK(db, x, m.changes)
  BY <1>1 DEF MergedOK
<1>3. PatchOK(db, x, MergedPatch(db, m.ok, m.changes))
  <2> HIDE DEF m
  <2> QED
    BY <1>2, PatchOfOK
<1>4. Patch(db, x, changes) = MergedPatch(db, m.ok, m.changes)
  BY DEF Patch, PatchOf
<1>5. StagedOK(db, StagePatch(x, Patch(db, x, changes)))
  <2> HIDE DEF m
  <2>1. PatchOK(db, x, Patch(db, x, changes))
    BY <1>3, <1>4
  <2> QED
    BY <2>1, StagePatchOK
<1>6. db.revision = x.base
  BY DEF TxnOK
<1>7. StagedOK(db, Staged(x))
  BY DEF Staged, StagedOK, StageErrors
<1> QED
  BY <1>5, <1>6, <1>7 DEF Stage

\* Completing a table's order changes nothing a reader finds.
SameView(db, x, y) == TxnOK(db, y) /\ \A t \in Tables : \A k : Lookup(db, y, t, k) = Lookup(db, x, t, k)

\* A transaction with an order completed sees what it saw.
LEMMA MergedIs ==
    ASSUME NEW db, NEW x, TxnOK(db, x), NEW t \in Tables
    PROVE  SameView(db, x, Merged(x, t))
<1> DEFINE y == Merged(x, t)
           w == Whole(x.tables[t])
<1>1. OverlayOK(db, t, x.tables[t])
  BY DEF TxnOK
<1>2. OverlayOK(db, t, w)
  BY <1>1, WholeIs
<1>3. w.rows = x.tables[t].rows
  BY <1>1, WholeIs
<1>4. KeysIn(w) = KeysIn(x.tables[t]) /\ \A k : EntryAt(w, k) = EntryAt(x.tables[t], k)
  <2> HIDE DEF w
  <2> QED
    BY <1>3 DEF KeysIn, EntryAt, Find
<1>5. ChangedKeysIn(w) = ChangedKeysIn(x.tables[t])
  <2> HIDE DEF w
  <2> QED
    BY <1>4 DEF ChangedKeysIn
<1>6. /\ y = [x EXCEPT !.tables = [x.tables EXCEPT ![t] = w]]
      /\ x.tables = [u \in Tables |-> x.tables[u]]
  BY DEF Merged, TxnOK
<1> HIDE DEF w, y
<1>7. /\ y.tables[t] = w /\ (\A u \in Tables \ {t} : y.tables[u] = x.tables[u])
      /\ y.tables = [u \in Tables |-> y.tables[u]]
      /\ y.base = x.base /\ y.touched = x.touched /\ y.changed = x.changed /\ y.claims = x.claims
      /\ y = [base |-> y.base, tables |-> y.tables, touched |-> y.touched, keys |-> y.keys,
            bytes |-> y.bytes, operations |-> y.operations, changed |-> y.changed,
            claims |-> y.claims]
  BY <1>6 DEF TxnOK
<1>8. \A u \in Tables : /\ OverlayOK(db, u, y.tables[u])
                        /\ y.tables[u].rows = x.tables[u].rows
                        /\ ChangedKeysIn(y.tables[u]) = ChangedKeysIn(x.tables[u])
                        /\ KeysIn(y.tables[u]) = KeysIn(x.tables[u])
                        /\ \A k : EntryAt(y.tables[u], k) = EntryAt(x.tables[u], k)
  BY <1>2, <1>3, <1>4, <1>5, <1>7 DEF TxnOK
<1>9. y.changed = [u \in Tables |-> Cardinality(ChangedKeysIn(y.tables[u]))]
  BY <1>7, <1>8 DEF TxnOK
<1>10. TxnOK(db, y)
  <2>1. \A u \in Tables : \A k, s : ClaimedBy(y.tables, u, k, s) <=> ClaimedBy(x.tables, u, k, s)
    BY <1>8 DEF ClaimedBy
  <2>2. ClaimsOK(db, x.tables, x.claims)
    BY DEF TxnOK
  <2>3. ClaimsOK(db, y.tables, y.claims)
    BY <1>7, <1>8, <2>1, <2>2 DEF ClaimsOK
  <2> QED
    BY <1>7, <1>8, <1>9, <2>3 DEF TxnOK
<1>11. \A u \in Tables : \A k : Lookup(db, y, u, k) = Lookup(db, x, u, k)
  BY <1>8 DEF Lookup
<1> QED
  BY <1>10, <1>11 DEF SameView, y

\* What a planner may say of a view depends only on what the view sees.
LEMMA SameChanges ==
    ASSUME NEW db, NEW x, NEW y, SameView(db, x, y)
    PROVE  Changes(db, y) = Changes(db, x)
<1>1. \A t \in Tables : TableChanges(db, y, t) = TableChanges(db, x, t)
  BY DEF SameView, TableChanges
<1> QED
  BY <1>1 DEF Changes
=============================================================================
